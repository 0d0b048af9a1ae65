CONSTANTS
    r1 = r1
    r2 = r2
    k1 = k1
    e1 = e1
    e2 = e2
    Keys = {k1}
    Exes = {e1, e2}
    AnyProcess = AnyProcess
    NoSession = NoSession
    NoClick = NoClick
    Requests = {r1, r2}
    Commands = {c1, c2}
    KeyOf <- SameKey
    ClientOf <- TwoClients

SPECIFICATION Spec

INVARIANT TypeOK
INVARIANT ListedIsLive
INVARIANT ApprovedByUser
PROPERTY SettledOnce
PROPERTY EveryCallReturns
PROPERTY EveryRequestLeavesTheList
