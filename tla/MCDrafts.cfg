CONSTANTS
    Texts = {"t0", "t1", "t2"}
    Blank = "t0"
    Budgets <- MCBudgets
SPECIFICATION Spec
INVARIANT FoundDraftStays
