SPECIFICATION Spec
CONSTANTS
    f1 = f1
    f2 = f2
    A = A
    None = None
    Object = {f1, f2}
    Types = {"read", "write"}
    Native = {3}
    NativeOf <- OneNative
    Loop = {A}
    CloseOnInvalidate = {f1, f2}
    ReadMax = 1
    ClientPipe = 0
    MaxSchedules = 1
    MaxOverlap = 1
INVARIANTS
    TypeOK
    LostOnlyByDoubleUnlock
    StrayOnlyByDoubleUnlock
    SpinsOnlyByDoubleUnlock
CHECK_DEADLOCK FALSE
SYMMETRY Alike
