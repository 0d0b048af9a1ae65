SPECIFICATION Spec
CONSTANTS
    w1 = w1
    w2 = w2
    Modes = {"default", "timeout", "never"}
    Writers = {w1}
    EnvMode = "unset"
INVARIANT RevokedStaysRevoked
