SPECIFICATION Spec
CONSTANTS
    Default = Default
    Mac = Mac
    Absent = Absent
    Profiles = {home}
    Names = {kit}
    HoldTime = 2
    ActiveLow = FALSE
    StoreFaults = {"power_loss", "button"}
INVARIANT StoreTypeOK
INVARIANT RamMirrorsNvs
INVARIANT ProvisionedHasCredentials
PROPERTY HoldToReset
