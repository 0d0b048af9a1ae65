CONSTANTS
    c1 = c1
    c2 = c2
    g1 = g1
    g2 = g2
    old = old
    new = new
    Nobody = Nobody
    Bytes <- OldThenNew
    Checks = {c1, c2}
    Grants = {g1, g2}
    AnyProcess = {g2}
    Duration = 1
    MaxVersion = 1
    MaxTime = 1

SPECIFICATION Spec

INVARIANT TypeOK
INVARIANT HashIsOfTheFile
INVARIANT AnswerWasValid

PROPERTY EveryCheckReturns
