\* The schedule of one task, a list of two tasks, and three months.
SPECIFICATION RulesSpec
CONSTANTS
    NULL = NULL
    Unset = Unset
    None = None
    Missing = Missing
    Days <- TwoDays
    Intervals <- SomeIntervals
    MaxInt4 = 3
    Offsets <- ThreeOffsets
    MaxColumns = 2
    TaskIds = {1, 2}
    TaskRows <- SomeTasks
    Projects = {"home", "old"}
    Archived = {"old"}
    LastDay = 2
    LastMinute = 1
    Base = 2
    Max63 = 7
    MonthNumbers = {1, 2, 3}
    Categories = {"food", "fun", "funds"}
    Spending = {"food", "fun"}
    ExpenseInputs <- SomeExpenses
    IncomeInputs <- SomeIncome
INVARIANTS
    RulesTypeOK
    SameSelection
    SameOrder
    TotalsAgree
PROPERTIES
    ConstraintsAgree
    RefusalsAreRight
    AdvanceKeepsRule
    ViewsMoveForward
    TypedIsStored
