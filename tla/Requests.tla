-------------------------------- MODULE Requests --------------------------------
(***************************************************************************)
(* What every handler of the server shares: the slots that requests run in *)
(* and SQL NULL.  FastAPI runs synchronous handlers in a thread pool, each *)
(* on a connection of its own (api/deps.py), so two requests interleave    *)
(* between any two statements that are not in one write transaction.       *)
(***************************************************************************)
CONSTANTS
    Slots,       \* requests in flight
    None         \* SQL NULL

\* One request in flight: no two requests overlap.
OneRequest == \A s, t \in Slots : s = t
===============================================================================
