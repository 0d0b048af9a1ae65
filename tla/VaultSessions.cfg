CONSTANTS
    u1 = u1
    u2 = u2
    t1 = t1
    t2 = t2
    s1 = s1
    l1 = l1
    l2 = l2
    Nobody = Nobody
    TTL = 2
    MaxAge = 3
    Unlocks = {u1}
    TwoFactors = {}
    Signs = {s1}
    Locks = {l1, l2}
    LockKind <- TrayAndSystem

SPECIFICATION SafeSpec

INVARIANT LockEndsSessions
