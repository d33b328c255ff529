\* Two requests in flight, interleaved commit by commit; the session limit and the
\* number of tolerated failures at their smallest.
SPECIFICATION Spec
CONSTANTS
    None = None
    Parts = {"sessions", "mfa", "tokens", "rating", "media"}
    Slots = {s1, s2}
    Operators = {m1}
    Mlros = {m1}
    MAX_FAILED_LOGINS = 1
    MAX_CONCURRENT_SESSIONS = 1
    MaxSessions = 2
    MaxPassword = 1
    MFA_MAX_FAILURES = 1
    MaxStep = 2
    MaxDrawn = 2
    Emails = {e1, e2}
    Identities = {u1, u2}
    MaxLinks = 3
    Findings = {}
    Sectors = {5}
    MaxAlerts = 0
    MaxReviewYear = 1
    Urls = {n1}
    Adverse = {n1}
    MAX_ARTICLES = 1
    MaxMediaTime = 0
SYMMETRY Symmetry
INVARIANTS
    ChallengedFirst CodeAcceptedOnce SpentOnceByWork OneLiveLink AdmittedIsLinked
    OneFindingPerArticle
PROPERTIES
    OverdueNeedsReview
CHECK_DEADLOCK FALSE
