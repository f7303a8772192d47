\* A month that was not edited loses its amounts.
SPECIFICATION PageSpec
CONSTANTS
    c1 = c1  c2 = c2
    Categories <- TwoCategories
    Blank = Blank
    Bad = Bad
    Months = 2
    Typing <- Stage
    Touched <- TwoCategories
    MaxAmount = 1
PROPERTIES
    UneditedIsKept
