SPECIFICATION DevicesSpec
CONSTANTS
    NumSettings = 2
    MaxPolls = 3
    BusFaults = {"i2c_error", "reboot", "power_cycle"}
    Pins = {"relay1", "led1"}
    Numbers <- MCNumbers
    IntMod = 65536
    DriveFaults = {"pwm_error", "gpio_error", "chip_reset"}
    AdcSamples <- MCAdcSamples
    SensorValues <- MCSensorValues
    Rows = {}
    Workers = {w1, w2}
    MaxCallbacks = 0
    Callers = {c1, c2}
    LedFaults = {"strip_error"}
INVARIANT FreshUntilSetUp
INVARIANT FreshUnlessCutOff
PROPERTY CallReturns
INVARIANT ActuatorsTypeOK
INVARIANT ReportedIsDriven
INVARIANT NoShootThrough
PROPERTY ReportedWasDriven
INVARIANT ShownIsMeasured
PROPERTY ConnectComesBack
INVARIANT LedShowsMode
