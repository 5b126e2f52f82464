SPECIFICATION Spec
CONSTANTS
    home = home
    office = office
    NoCfg = NoCfg
    Cfgs <- MCCfgs
    StaticCfgs <- MCStaticCfgs
    Faults = {"join_fail"}
    MaxEvents = 2
    MaxLag = 0
    ClientVia = {"sta"}
    MaxAttempts = 2
    ConnectTimeout = 4
    RetryDelay = 2
    ReconnectDelay = 8
    FallbackDelay = 2
    ApStopDelay = 1
    SettleDelay = 1
    Margin = 1
INVARIANT ProvisioningModeHasAp
CHECK_DEADLOCK FALSE
