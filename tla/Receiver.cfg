SPECIFICATION ReceiverSpec
CONSTANTS
    hd = hd
    uhd = uhd
    rgb = rgb
    yuv = yuv
    None = None
    Modes = {hd, uhd}
    Avis = {rgb, yuv}
    Hdmi2Modes = {uhd}
    ConfirmPolls = 2
    StablePolls = 2
    EccErrors = 2
    EccRecoveries = 2
    SlowSource = TRUE
    MaxChanges = 2
    MaxFailures = 1
    AudioSources <- TwoClocks
    RequestDelay = 1
    MonitorDelay = 2
    MismatchLimit = 2
    AudioChanges = 3
    AudioFailures = 1
    PulseAfter = 2
    MaxRestarts = 2
    MaxPolls = 2
    BringupFailures = 2
    MaxSleeps = 1
    RegisterBanks = {0, 1, 3, 7}
    BankFailures = 3
INVARIANTS  BringUpSound NumbersRight
PROPERTY SourceReported
CHECK_DEADLOCK FALSE
