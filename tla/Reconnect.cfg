SPECIFICATION FairSpec
CONSTANTS
    home = home
    office = office
    NoCfg = NoCfg
    Cfgs <- MCCfgs
    StaticCfgs <- MCStaticCfgs
    Faults = {"join_fail", "link_loss", "connect_error", "static_fail", "power_loss"}
    MaxEvents = 2
    MaxLag = 1
    ClientVia = {}
    MaxAttempts = 2
    ConnectTimeout = 4
    RetryDelay = 2
    ReconnectDelay = 8
    FallbackDelay = 2
    ApStopDelay = 1
    SettleDelay = 1
    Margin = 1
PROPERTY LossIsRetried
PROPERTY ReconnectPersists
PROPERTY NeverGivesUp
CHECK_DEADLOCK FALSE
