CONSTANTS
    Requests = {p1, p2}
    Transactions = {"t1", "t2"}
    SentAmount <- OneAndTwo
    Cadences <- TwoCadences
    BackoffBase = 1
    Attempts = 2
    MinAmount = 1
    PauseDays = 5
    MaxReceived = 2
    PayoutBudgets <- PayoutEvents
    Tips = {"t1", "t2", "t3"}
    Amount <- PowersOfTwo
    MaxRetries = 3
    GoalReports = {3}
    RecordBudgets <- RecordEvents
    DeskBudgets <- DeskEvents
    Grace = 2
    Life = 4
    SecretBudgets <- SecretEvents
    Subscriptions = {b1}
    Target <- OneSubscription
    MaxAttempts = 3
    WebhookBudgets <- WebhookEvents
    Messages = {"m1", "m2"}
    DigestSize = 3
    MaxTips = 4
    NoticeBudgets <- NoticeEvents
    Limit = 2
    MaxEvents = 4
    RoomBudgets <- RoomEvents
    RolledTips = {"t1", "t2"}
    RolledAmount <- OneAndTwo
    Receiver <- TwoReceivers
    Days = 1
    RollupBudgets <- RollupEvents
    Users = {"u1", "u2"}
    Names = {"name"}
    Ttl = 2
    AccountBudgets <- AccountEvents
    Threshold = 2
    Reset = 2
    Retries = 1
    UpstreamBudgets <- UpstreamEvents
SPECIFICATION Spec
INVARIANTS PayoutsSafe RecordsSafe IdentitySafe WebhooksSafe MessagesSafe FiguresSafe
PROPERTIES NothingGoesBack DueIsAttended EverythingArrives
