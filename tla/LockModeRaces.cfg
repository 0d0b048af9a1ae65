SPECIFICATION Spec
CONSTANTS
    p1 = p1
    p2 = p2
    Modes <- SomeModes
    Updates = {p1, p2}
    Period = 2
    MaxIdle = 3
    MaxSpawned = 2
INVARIANT TypeOK OneMode
PROPERTY EventLocks
