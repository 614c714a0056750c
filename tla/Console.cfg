CONSTANTS
    Items = {a}
    NoRules = NoRules
    MaxPoints = 2
    MaxVersion = 3
    MaxOutages = 1
    MaxPushes = 1
    MaxOrphans = 1
    Searches <- MCSearches
    Connected = {}
    MaxNavs = 1
SPECIFICATION MCSpec
INVARIANTS SuccessShown DraftsRebased
PROPERTIES TrafficCovered NeverBack PagesConverge
CHECK_DEADLOCK FALSE
