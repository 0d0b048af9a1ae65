---------------------------- MODULE MCConfigFile ----------------------------
\* Small instances of ConfigFile: two commands that write it at a time (one
\* for the revoked token).
EXTENDS ConfigFile, TLC
CONSTANTS w1, w2
WriterSymmetry == Permutations(Writers)
=============================================================================
