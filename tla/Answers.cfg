SPECIFICATION FairSpec
CONSTANTS
    home = home
    office = office
    NoCfg = NoCfg
    Cfgs <- MCCfgs
    StaticCfgs <- MCStaticCfgs
    Faults = {"join_fail", "link_loss", "connect_error", "static_fail", "ap_error", "dhcp_error", "save_error"}
    MaxEvents = 2
    MaxLag = 0
    ClientVia = {"ap", "sta"}
    MaxAttempts = 2
    ConnectTimeout = 4
    RetryDelay = 2
    ReconnectDelay = 8
    FallbackDelay = 2
    ApStopDelay = 1
    SettleDelay = 1
    Margin = 1
INVARIANT ApAgreement
PROPERTY ClientKeepsAp
PROPERTY CredentialsProven
PROPERTY RequestsAnswered
CHECK_DEADLOCK FALSE
