\* One request at a time on two alerts of one customer, bulk dismissal included.
\* One alert was staged by a release that kept no operator id.  A new organisation
\* or a list refresh may come between any two statements.
SPECIFICATION Spec
CONSTANTS
    None = None
    a1 = a1
    a2 = a2
    c1 = c1
    Alerts = {a1, a2}
    Customers = {c1}
    Operators = {o1, o2}
    Slots = {s1}
    Codes = {"other", "confirmed_match"}
    CustomerOf <- SameCustomer
    FreezeList = {a1}
    LegacyPending = {a2}
    Settings = {}
    EnvSolo = TRUE
    MaxObligations = 2
SYMMETRY OperatorSymmetry
PROPERTIES DispositionSpec
CHECK_DEADLOCK FALSE
