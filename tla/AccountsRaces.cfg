SPECIFICATION SafeSpec
CONSTANTS
    a1 = a1
    a2 = a2
    Accounts = {a1, a2}
    KdfOf <- DefaultKdf
    Configured = a1
    Unlocks = {u1}
    Signs = {s1, s2}
    Syncs = {y1}
    Edits = {e1}
    Requests = {r1}
    Polls = {p1}
    MaxAttempts = 1
    MaxCalls = 4
    PageAnswers = TRUE
    None = None
INVARIANT TypeOK EditedUnderOwnKeys
PROPERTY OpenedByCredential
