\* Two subscriptions of one organisation, one plan, two deliveries at a time; four
\* events are a subscription's opening and two changes, or two openings.
SPECIFICATION Spec
CONSTANTS
    None = None
    Slots = {s1, s2}
    Subs = {k1, k2}
    Tiers = {p1}
    MaxEvents = 4
    MaxTime = 2
INVARIANTS
    ProcessedOnce NewestChangeWins
PROPERTIES
    EveryEventIsProcessed
CHECK_DEADLOCK FALSE
