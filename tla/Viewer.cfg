SPECIFICATION ViewerSpec
CONSTANTS
    m1 = m1
    m2 = m2
    r1 = r1
    r2 = r2
    c1 = c1
    c2 = c2
    auto = auto
    fixed = fixed
    Modes = {m1, m2}
    Rates = {r1, r2}
    Colors = {c1, c2}
    P010Modes = {m1}
    NoSignal = none
    MaxChanges = 2
    CanSleep = FALSE
    Refused = {}
    TextureFails = 1
    MapFails = 1
    MaxKeys = 1
    Children = {1, 2}
    High = 1
    MaxDeaths = 1
    MaxAudioKeys = 2
    MaxSignals = 2
    ForkFails = 1
    BoxPresets = {auto, fixed}
    Processes = {1, 2}
    Attempts = 3
    Chains = {1, 2}
    MaxTimers = 2
    ForceMpv = FALSE
    InterruptStart = FALSE
    MaxClicks = 5
    MaxEnds = 2
INVARIANTS  HostSound
PROPERTIES PictureComes ModesStart
CHECK_DEADLOCK FALSE
