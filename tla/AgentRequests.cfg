CONSTANTS
    None = None
    Conns = {"c", "g"}
    Keys = {"rsa1", "ed1", "ec1"}
    Algorithm <- KeyAlgorithm
    Flags = {2}
    Worlds <- AllWorlds
    MaxWalkDepth = 3
    GitConn = "g"
    Data = "commit"
    SignersFiles <- Signers

SPECIFICATION Spec
CHECK_DEADLOCK FALSE

INVARIANT TypeOK
INVARIANT SignedWasOffered
INVARIANT OfferedIsNotRejected
INVARIANT WrittenSignatureVerifies
PROPERTY OffersWhatFits
INVARIANT EveryDecisionIsRecorded
PROPERTY EveryRequestIsAnswered
