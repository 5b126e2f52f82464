SPECIFICATION Spec
CONSTANTS
    Default = Default
    Mac = Mac
    Absent = Absent
    Profiles = {home}
    Names = {kit}
    HoldTime = 2
    ActiveLow = TRUE
    StoreFaults = {"button"}
PROPERTY HoldToReset
