SPECIFICATION DevicesSpec
CONSTANTS
    NumSettings = 1
    MaxPolls = 1
    BusFaults = {"power_cycle"}
    Pins = {"relay1"}
    Numbers = {0}
    IntMod = 65536
    DriveFaults = {"gpio_error", "chip_reset"}
    AdcSamples = {0}
    SensorValues = {}
    Rows = {"relay1"}
    Workers = {w1, w2}
    MaxCallbacks = 0
    Callers = {c1}
    LedFaults = {}
INVARIANT OnePoll
INVARIANT OneConnect
INVARIANT LabelIsDriven
