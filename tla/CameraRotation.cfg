SPECIFICATION CameraSpec
CONSTANTS
    CameraRoms <- RotatedRoms
    NoRom = NoRom
    MIN_WIDTH = 2
    MAX_WIDTH = 3
    MIN_HEIGHT = 2
    MAX_HEIGHT = 2
    MIN_FPS = 1
    MAX_FPS = 2
    MIN_BUFFER = 4
    MAX_BUFFER = 5
    Reserve = 2
    MaxPutFailures = 1
    FrameModulus = 6
INVARIANT RotationComplete
