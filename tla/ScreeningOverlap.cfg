\* Two overlapping requests or jobs on one customer and one list entry.
SPECIFICATION Spec
CONSTANTS
    None = None
    c1 = c1
    o1 = o1
    l1 = l1
    l2 = l2
    e1 = e1
    s1 = s1
    s2 = s2
    entry = entry
    amended = amended
    Slots = {s1, s2}
    Subjects = {c1}
    Owners = {}
    Entities = {e1}
    Datasets = {l1}
    DatasetOf <- OneList
    Contents = {entry, amended}
    Matches <- Edition
    MaxTime = 2
SYMMETRY SlotSymmetry
INVARIANTS TypeOK OneOpenAlert
PROPERTIES DecisionStands
CHECK_DEADLOCK FALSE
