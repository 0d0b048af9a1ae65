CONSTANTS
    u1 = u1
    u2 = u2
    t1 = t1
    t2 = t2
    s1 = s1
    l1 = l1
    l2 = l2
    Nobody = Nobody
    TTL = 1
    MaxAge = 1
    Unlocks = {u1}
    TwoFactors = {t1, t2}
    Signs = {s1}
    Locks = {l1}
    LockKind <- OneCommand

SPECIFICATION Spec

INVARIANT TypeOK
INVARIANT PasswordUnlocksOnce
INVARIANT CommandLockEndsSessions
PROPERTY UseDoesNotReopen
PROPERTY SignedWithKeysOfApproval
PROPERTY ExpiredKeysAreCleared
