------------------------------ MODULE MCRequests ------------------------------
(* Instances for TLC of the modules whose requests share a server and no row.    *)
(* As they never read each other's rows, a behaviour exercises one of them.      *)
EXTENDS Sessions, Mfa, OneTimeTokens, RiskRating, AdverseMedia, TLC

CONSTANT Parts   \* the modules exercised

VARIABLE part

vars == <<sessionVars, mfaVars, tokenVars, ratingVars, mediaVars, part>>

\* A part that is not exercised has one initial state.
Init == /\ part \in Parts
        /\ MfaInit /\ TokensInit
        /\ SessionsInit /\ (part = "sessions" \/ \A o \in Operators : account[o].verified)
        /\ RatingInit /\ (part = "rating" \/ assessment.sector = Min(Sectors))
        /\ MediaInit /\ (part = "media" \/ /\ environ = [e \in DOMAIN environ |-> FALSE]
                                           /\ mediaRating = "high")

\* The other parts stand still.
Others ==
    /\ UNCHANGED part
    /\ IF part = "sessions" THEN TRUE ELSE UNCHANGED sessionVars
    /\ IF part = "mfa" THEN TRUE ELSE UNCHANGED mfaVars
    /\ IF part = "tokens" THEN TRUE ELSE UNCHANGED tokenVars
    /\ IF part = "rating" THEN TRUE ELSE UNCHANGED ratingVars
    /\ IF part = "media" THEN TRUE ELSE UNCHANGED mediaVars

Next ==
    \/ part = "sessions" /\ SessionsNext /\ Others
    \/ part = "mfa" /\ MfaNext /\ Others
    \/ part = "tokens" /\ TokensNext /\ Others
    \/ part = "rating" /\ RatingNext /\ Others
    \/ part = "media" /\ MediaNext /\ Others

Spec == Init /\ [][Next]_vars

Symmetry == Permutations(Slots) \cup Permutations(Identities)
===============================================================================
