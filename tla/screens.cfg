SPECIFICATION Spec
CONSTANTS
    Keys = {"", "a"}
    NoFilter = ""
    Items = {1}
    Lists <- ListsOfKeys
    None = None
    MaxWrites = 2
    MaxChanges = 1
CHECK_DEADLOCK FALSE
INVARIANTS ScreensInv
PROPERTIES FirstReportAppears
