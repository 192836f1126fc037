SPECIFICATION Spec
CONSTANTS
    Clients = {"c1", "c2", "c3"}
    Crashes = {"save", "load"}
    Renderings <- MCRenderings
    Metadata <- MCMetadata
    Class <- MCClass
    Fold <- MCFold
    Private = {"ann", "home", "/", "0x1f", "h9f", "12", "x.rs", "26100", "37", "US", "GB", "#"}
    Digit = {"0", "1", "3", "4", "6", "8", "11", "12", "37", "26100"}
    Letter = {"Windows", "Linux", "en", "EN", "US", "GB", "v"}
    VLetter = {"v"}
    Drive = {"v"}
    Address = {"0x1f"}
    Hash = {"h9f"}
    SIGNATURE_FRAME_DEPTH = 2
    IdLen = 2
    Thresholds = {1, 2}
    MIN_K = 2
    MaxEpoch = 2
    MaxMessages = 1
INVARIANTS SameCrashCollides NothingIdentifies
CHECK_DEADLOCK FALSE
