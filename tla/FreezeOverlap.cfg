\* Two requests in flight on one obligation, its reports and one generic report.
SPECIFICATION Spec
CONSTANTS
    None = None
    Freezes = {f1}
    Foreign = {}
    Reports = {r1, r2, g1}
    Generic = {g1}
    Slots = {s1, s2}
    Jobs = {}
SYMMETRY OverlapSymmetry
INVARIANTS TypeOK EndedWithGrounds
CHECK_DEADLOCK FALSE
