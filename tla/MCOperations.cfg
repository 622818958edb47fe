SPECIFICATION Spec
CONSTANTS
    u1 = u1  u2 = u2  r1 = r1  r2 = r2  r3 = r3  w1 = w1  w2 = w2  t1 = t1  t2 = t2  t3 = t3
    k1 = k1  k2 = k2  k3 = k3
    Account = {u1, u2}
    Application = {1, 2}
    Reviewer = {1, 2}
    Nobody = Nobody
    BatchLimit = 1
    Run = {r1, r2, r3}
    Config = {w1, w2}
    NoRun = NoRun
    Pattern = {k1, k2, k3}
    Ignored = {k3}
    Threshold <- Thresholds
    LookBack = 2
    Active = 3
    Retention = 4
    Day = 5
    Fetchable = 2
    Batch = 1
    Listable = 1
    Gap = 2
    MaxHits = 4
    Horizon = 6
    Publisher = {r1, r2, r3}
    Hook = {w1, w2}
    NoMessage = NoMessage
    Kinds <- BackupKinds
    Keep = 1
    Attempts = 2
    Attempt = {1, 2, 3, 4}
    Limit = 2
    Window = 3
    Delay = 1
    LastTick = 4
    MaxReviews = 20
    MaxPoints = 310
    Screen = {u1, u2}
    Submission = {1, 2}
    Draft = {11, 12}
    Call = {1, 2}
    Absent = Absent
    Task = {t1, t2, t3}
    NoDialog = NoDialog
    View = {1, 2, 3}
    Fetch = {1, 2, 3}
    NoView = NoView
    Scenarios <- AllScenarios
INVARIANTS TypeOK OneMonitorMessage AlertsAreTrue MissingStaysForgotten BackupsAreKept
    WindowIsRespected ScoresAgree LinksAreToTheirDrafts NobodyWaitsInVain ListedWasAsked
PROPERTIES GrantsAreEarned AnswersAreErased
CHECK_DEADLOCK FALSE
