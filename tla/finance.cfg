\* Two requests on the settings, up to three saves; two months of two categories, and
\* edits of one of them.
SPECIFICATION FairFinance
CONSTANTS
    c1 = c1  c2 = c2
    r1 = r1  r2 = r2
    Category <- TwoCategories
    Requests <- TwoRequests
    Whole = 2
    MaxSaves = 3
    Categories <- TwoCategories
    Blank = Blank
    Bad = Bad
    Months = 2
    Typing <- Resting
    Touched <- OneCategory
    MaxAmount = 1
INVARIANTS
    OneSave
    LimitsNotOlder
    PageTypeOK
    LoadedIsStored
PROPERTIES
    ReadsAddUp
    ImplementsStore
    EveryRequestAnswered
    EditsStored
