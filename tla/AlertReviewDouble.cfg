\* Two overlapping requests on one alert.
SPECIFICATION Spec
CONSTANTS
    None = None
    a1 = a1
    a2 = a2
    c1 = c1
    Alerts = {a1}
    Customers = {c1}
    Operators = {o1, o2}
    Slots = {s1, s2}
    Codes = {"other"}
    CustomerOf <- OneAlert
    FreezeList = {a1}
    LegacyPending = {}
    Settings = {"unset", "on"}
    EnvSolo = TRUE
    MaxObligations = 2
PROPERTY NoDoubleDisposition
CHECK_DEADLOCK FALSE
