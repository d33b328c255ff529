\* Onboarding of a customer whose two spellings are both screened.
SPECIFICATION Spec
CONSTANTS
    None = None
    Parts = {"onboarding"}
    Slots = {s1}
    Operators = {m1}
    Mlros = {m1}
    MAX_FAILED_LOGINS = 2
    MAX_CONCURRENT_SESSIONS = 1
    MaxSessions = 2
    MaxPassword = 1
    MFA_MAX_FAILURES = 2
    MaxStep = 3
    MaxDrawn = 3
    Emails = {e1}
    Identities = {u1}
    MaxLinks = 2
    Customers = {c1}
    RETENTION_YEARS = 2
    MaxYear = 5
    Findings = {f1}
    Sectors = {5, 25}
    MaxAlerts = 1
    MaxReviewYear = 0
    Amounts = {1, 2}
    TransactionDates = {1, 2, 4}
    Methods = {"cash", "wire"}
    Thresholds = {2}
    Windows = {3}
    LARGE_CASH_THRESHOLD_AED = 3
    STRUCTURING_WINDOW_DAYS = 2
    STRUCTURING_MIN_COUNT = 2
    VELOCITY_WINDOW = 1
    VELOCITY_MAX_COUNT = 2
    MaxTransactions = 3
    Persons = {p1, p2}
    Self = p0
    Percents = {0, 60}
    UBO_THRESHOLD_PCT = 25
    MAX_UBO_DEPTH = 2
    MAX_UBOS_PER_CUSTOMER = 3
    Urls = {n1, n2}
    Adverse = {n1}
    MAX_ARTICLES = 1
    MaxMediaTime = 2
    Applicants = {c1}
    CustomerCap = 1
    MaxOwners = 1
    Files = {c1, c2}
    Holders = {u1}
    Unnumbered = {u2}
    MaxStates = 2
    FileIds = {x1, x2}
    Listees = {n1}
    _MAX_DOWNLOAD_ATTEMPTS = 2
    max_attempts = 2
    PageLength = 3
    MaxSheets = 2
    NeverColumns = {"licence"}
    Starters = {p1, p2}
    Firms = {g1, g2}
    Mailboxes = {e1, e2}
    Spellings = {n1, n2}
    Alike = {n1, n2}
    OperatorCap = 1
    Leads = {a1}
    RETENTION_DAYS = 0
    Lists = {l1, l2}
    SmtpSettings = {TRUE, FALSE}
    l1 = l1
    Subjects = {c1, o1}
    Owners = {o1}
    Datasets = {l1, l2}
    Entities = {e1}
    Contents = {entry, amended}
    MaxTime = 2
INVARIANT HitIsHigh
CHECK_DEADLOCK FALSE
