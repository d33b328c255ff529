\* One request at a time on a customer, refreshed for ever.
SPECIFICATION FairSpec
CONSTANTS
    None = None
    c1 = c1
    o1 = o1
    l1 = l1
    l2 = l2
    e1 = e1
    s1 = s1
    s2 = s2
    entry = entry
    amended = amended
    Slots = {s1}
    Subjects = {c1}
    Owners = {}
    Entities = {e1}
    Datasets = {l1}
    DatasetOf <- OneList
    Contents = {entry, amended}
    Matches <- Edition
    MaxTime = 2
INVARIANT ScreenedIsHandled
PROPERTY EveryMatchIsHandled
CHECK_DEADLOCK FALSE
