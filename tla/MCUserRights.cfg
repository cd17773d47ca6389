CONSTANTS
    Accounts = {a, b}
    Slots = {s1, s2}
    MaxRightsActs = 5
    MaxRightsFaults = 0
    None = None
SPECIFICATION RightsSpec
INVARIANTS
    MatrixIsOfTheSelected
CHECK_DEADLOCK FALSE
