----------------------------- MODULE MCApproval -----------------------------
(***************************************************************************)
(* Instances of Approval for TLC.  Races: two calls for one key from two   *)
(* executables, and two commands, which may answer the same call; a        *)
(* session for one executable must not cover the other.  LateSession: two  *)
(* calls of one client and one command.                                    *)
(***************************************************************************)
EXTENDS Approval

CONSTANTS r1, r2, k1, e1, e2

SameKey == [r \in {r1, r2} |-> k1]
OneClient == [r \in {r1, r2} |-> e1]
TwoClients == [r \in {r1, r2} |-> IF r = r1 THEN e1 ELSE e2]
=============================================================================
