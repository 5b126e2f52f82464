SPECIFICATION HistorySpec
CONSTANTS
    home = home
    office = office
    NoCfg = NoCfg
    Cfgs <- MCCfgs
    StaticCfgs <- MCStaticCfgs
    Faults = {"join_fail", "link_loss", "connect_error", "static_fail", "ap_error", "dhcp_error", "save_error", "power_loss"}
    MaxEvents = 2
    MaxLag = 1
    ClientVia = {"ap"}
    MaxAttempts = 3
    ConnectTimeout = 4
    RetryDelay = 2
    ReconnectDelay = 8
    FallbackDelay = 2
    ApStopDelay = 1
    SettleDelay = 1
    Margin = 1
INVARIANT TypeOK
INVARIANT AttemptBudget
INVARIANT AttemptSupervised
INVARIANT RetryScheduled
INVARIANT ResultIsFresh
INVARIANT BudgetSuffices
INVARIANT ProvisioningModeHasAp
INVARIANT LinkIsUsed
INVARIANT OperationalMeansReady
INVARIANT ConnectingMeansTrying
PROPERTY ImplementsService
