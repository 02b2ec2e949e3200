SPECIFICATION DevicesSpec
CONSTANTS
    l1 = l1 l2 = l2 l3 = l3
    c1 = c1 c2 = c2 i1 = i1 s1 = s1
    p = p q = q
    None = None
    Closed = Closed
    Locations = {l1, l2, l3}
    Names = {"led", "reset", "button"}
    Sessions = {c1, c2, i1, s1}
    Kind <- MCKind
    Configs <- StableConfigs
    RefModulus = 8
    Pins = {p, q}
    Trigger <- MCTrigger
    Bank <- TwoBanks
    Unit = 4
    PulseConfigs <- MCConfigs
    CameraRoms <- MCRoms
    NoRom = NoRom
    MIN_WIDTH = 2
    MAX_WIDTH = 3
    MIN_HEIGHT = 2
    MAX_HEIGHT = 2
    MIN_FPS = 1
    MAX_FPS = 2
    MIN_BUFFER = 4
    MAX_BUFFER = 5
    Reserve = 2
    MaxPutFailures = 1
    FrameModulus = 6
    NumSlots = 2
    MaxVals = 6
    Positions = {0, 1}
    MAX_LINE_LEN = 2
    Letters = {"a", "b"}
    EOL = "EOL"
    StreamLength = 6
    Volumes = {0, 6, 7, 200}
    MicVolumes = {0, 80}
    Leftovers <- MCLeftovers
INVARIANTS RefCountsSessions  FrameShownWhole FingersAgree LinesIntact
    OutputsFollowConfig
PROPERTIES   CaptureGoesOn
