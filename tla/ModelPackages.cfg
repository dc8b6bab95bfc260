SPECIFICATION EitherSpec
CONSTANTS
    Process = {p1, p2}
    Root = {r1}
    Backend = {"onnx", "coreml"}
    Build = {b1, b2}
    NoBuild = NoBuild
    Nothing = Nothing
    MaxCalls = 4
    MaxFaults = 1
    MaxCrashes = 1
    Installer = {a, b}
    Pid = {i1, i2, i3}
    OneProcess = FALSE
    MaxInstalls = 3
SYMMETRY Symmetry
INVARIANTS
    PublishedIsVerified
    NothingLost
PROPERTIES
    LoadsAsInstalled
    InstallRecovers
CHECK_DEADLOCK FALSE
