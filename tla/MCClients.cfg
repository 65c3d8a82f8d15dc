CONSTANTS
    SendCount = 3
    TipBudgets <- TipEvents
    Apps = {"freighter", "albedo"}
    Freighter = "freighter"
    Keys = {"k1", "k2"}
    Openers = {"header", "page"}
    IdleTimeout = 3
    Warning = 1
    WalletBudgets <- WalletEvents
    Texts = {"t0", "t1", "t2"}
    BlankText = "t0"
    DraftBudgets <- DraftEvents
    Wallets = {"w1", "w2"}
    Ledgers <- CreatorAndOther
    DashboardBudgets <- DashboardEvents
    Networks = {"main", "test"}
    Boards <- TwoBoards
    BoardBudgets <- BoardEvents
    Pages = {"profile", "edit"}
    EditPage = "edit"
    ProfileBudgets <- ProfileEvents
    Names = {"", "a", "b"}
    Valid = {"a", "b"}
    BlankName = ""
    Registries <- OneTaken
    NameBudgets <- NameEvents
SPECIFICATION Spec
INVARIANTS TipFlowSafe WalletSafe ScreensSafe
PROPERTY ClientSettles
