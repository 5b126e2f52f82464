SPECIFICATION Spec
CONSTANTS
    NumSettings = 2
    MaxPolls = 3
    BusFaults = {"i2c_error"}
INVARIANT FreshRange
