SPECIFICATION FairSpec
CONSTANTS
    Default = Default
    Mac = Mac
    Absent = Absent
    Profiles = {}
    Names = {}
    HoldTime = 1
    ActiveLow = FALSE
    StoreFaults = {"save_error", "erase_error", "button"}
PROPERTY ResetCompletes
