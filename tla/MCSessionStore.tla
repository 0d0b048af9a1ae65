--------------------------- MODULE MCSessionStore ---------------------------
(***************************************************************************)
(* The instance of SessionStore for TLC: two checks against a session for  *)
(* the executable and one for any process.  The file is written once.      *)
(***************************************************************************)
EXTENDS SessionStore

CONSTANTS c1, c2, g1, g2, old, new

OldThenNew == [v \in 0..MaxVersion |-> IF v = 0 THEN old ELSE new]
=============================================================================
