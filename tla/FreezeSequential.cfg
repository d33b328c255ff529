\* One request at a time on two obligations, one of an OFAC alert, and their reports,
\* with the hourly overdue check: mails that fail, marks that cannot be written, runs
\* that die.
SPECIFICATION FairSpec
CONSTANTS
    None = None
    Freezes = {f1, f2}
    Foreign = {f2}
    Reports = {r1, r2}
    Generic = {}
    Slots = {s1}
    Jobs = {j1}
INVARIANTS FreezeAgreesWithCNMR MailedOnce
PROPERTIES LifecycleSpec OverdueIsMailed
CHECK_DEADLOCK FALSE
