------------------------------ MODULE MCVault ------------------------------
(***************************************************************************)
(* Instances of Vault for TLC.  Races: a password, two commands with its   *)
(* second factor and a sign call, against the lock command.  The TTL is    *)
(* one unit and the clock stops there: an age is before the TTL or not.    *)
(* Sessions: one password and one sign call, against the tray and a system *)
(* event that lock, with a clock that runs past a TTL of two.              *)
(***************************************************************************)
EXTENDS Vault

CONSTANTS u1, u2, t1, t2, s1, l1, l2

OneCommand    == [l \in {l1} |-> "command"]
TrayAndSystem == [l \in {l1, l2} |-> IF l = l1 THEN "tray" ELSE "system"]
============================================================================
