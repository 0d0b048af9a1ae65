SPECIFICATION Spec
CONSTANTS
    a1 = a1
    a2 = a2
    Accounts = {a1}
    KdfOf <- DefaultKdf
    Configured = a1
    Unlocks = {u1}
    Signs = {s1}
    Syncs = {}
    Edits = {}
    Requests = {}
    Polls = {}
    MaxAttempts = 1
    MaxCalls = 2
    PageAnswers = FALSE
    None = None
PROPERTY WaitEnds
