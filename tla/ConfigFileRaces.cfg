SPECIFICATION Spec
CONSTANTS
    w1 = w1
    w2 = w2
    Modes = {"default", "timeout", "never"}
    Writers = {w1, w2}
    EnvMode = "unset"
SYMMETRY WriterSymmetry
INVARIANT TypeOK
PROPERTY StartKeepsMode
