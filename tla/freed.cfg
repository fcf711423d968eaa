SPECIFICATION Spec
CONSTANTS
    t1 = t1
    t2 = t2
    o1 = o1
    o2 = o2
    o3 = o3
    b1 = b1
    None = None
    Thread = {t1, t2}
    Object = {o1, o2, o3}
    Bytes = {b1}
    Half = 2
    MaxRefs = 2
    Careful = TRUE
INVARIANT HeldIsLive
CHECK_DEADLOCK FALSE
SYMMETRY Symmetry
