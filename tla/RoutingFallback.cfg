CONSTANTS
    None = None
    Conns = {"c", "g"}
    Keys = {"rsa1", "ed1", "ec1"}
    Algorithm <- KeyAlgorithm
    Flags = {2}
    Worlds <- LoginWorld
    MaxWalkDepth = 3
    GitConn = "g"
    Data = "commit"
    SignersFiles <- Signers

SPECIFICATION SafeSpec
CHECK_DEADLOCK FALSE

PROPERTY FallsBackToAllKeys
