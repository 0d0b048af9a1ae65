----------------------------- MODULE MCLockMode -----------------------------
\* Small instances of LockMode: two updates at a time, and idle thresholds of
\* nothing, less than the polling period and more than it.
EXTENDS LockMode
CONSTANTS p1, p2

SomeModes ==
    [kind : {"idle"}, seconds : {0, 1, 3}]
    \cup [kind : {"timeout"}, seconds : {3}]
    \cup [kind : {"lock", "never"}, seconds : {0}]
=============================================================================
