----------------------------- MODULE MCAccounts -----------------------------
(***************************************************************************)
(* Small instances of Accounts, with the server's default KDF parameters   *)
(* and any MaxCalls calls out of those named.  Races: two accounts, and a  *)
(* page that sends submit_password, for what the commands allow.  Prompts: *)
(* one account, an agent call and a login, from the page as it is.         *)
(***************************************************************************)
EXTENDS Accounts
CONSTANTS a1, a2
DefaultKdf == [a \in Accounts |-> [type |-> "pbkdf2", iterations |-> 600000,
                                  memory |-> "absent", parallelism |-> "absent"]]
=============================================================================
