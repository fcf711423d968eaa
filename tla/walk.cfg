SPECIFICATION Spec
CONSTANTS
    None = None
    Thread = {t1, t2}
    Observer = {o1}
    Name = {n}
    Object = {x}
    ObsSize = 1
    MaxCapacity = 3
    MaxPosts = 2
INVARIANTS
    NoneMissed
SYMMETRY Alike
CHECK_DEADLOCK FALSE
