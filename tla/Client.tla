------------------------------- MODULE Client -------------------------------
(***************************************************************************)
(* The vault client: api.rs of bw-core, as what the program makes of each  *)
(* answer.  Requests, headers and URLs are left out, and with them the     *)
(* format of the answers: a body is of the type expected, or it does not   *)
(* parse (an unknown two-factor provider or KDF type among them).          *)
(***************************************************************************)
EXTENDS Ciphers, Naturals, Sequences

Statuses == {"none", "ok", "created", "unauthorized", "not_found", "other"}

\* "none": the request was not sent or not answered (Error::Reqwest).
Answers == [status : Statuses, parses : BOOLEAN]

----------------------------------------------------------------------------
(* /connect/token: login and exchange_auth_request.                        *)

\* The second factors that an error asks for: a number or a name of no known
\* provider makes the whole answer one that does not parse.
Providers == {"absent", "empty", "some"}

\* An error names them, and the kind of error.
TokenAnswers == [status : Statuses, parses : BOOLEAN,
                 providers : Providers, error : {"invalid_grant", "other"}]

\* classify_login_error
LoginError(a) ==
    IF a.providers = "some" THEN "two_factor"
    ELSE IF a.error = "invalid_grant" THEN "incorrect" ELSE "failed"

TokenResult(a) ==
    CASE a.status = "none" -> "failed"
      [] a.status = "ok"   -> IF a.parses THEN "ok" ELSE "failed"
      [] OTHER             -> IF a.parses THEN LoginError(a) ELSE "failed"

\* The exchange of an auth request asks and reads the same way.
ExchangeResult(a) == TokenResult(a)

\* exchange_refresh_token does not look at the status: an error has no token in it.
RefreshResult(a) == IF a.status # "none" /\ a.parses THEN "ok" ELSE "failed"

\* The key derivations a server may name; another does not parse.
KdfTypes == {"pbkdf2", "argon2id"}

\* prelogin: the KDF parameters; full_login and the login with a second factor
\* need them, derive the master key, and then ask for tokens.
PreloginResult(a) == IF a.status # "none" /\ a.parses THEN "ok" ELSE "failed"

FullLogin(pre, kdf, a) ==
    IF PreloginResult(pre) = "ok" /\ KdfUsable(kdf) THEN TokenResult(a) ELSE "failed"

----------------------------------------------------------------------------
(* /sync, /ciphers and /auth-requests.                                     *)

SyncResult(a) ==
    CASE a.status = "ok"           -> IF a.parses THEN "ok" ELSE "failed"
      [] a.status = "unauthorized" -> "unauthorized"
      [] OTHER                     -> "failed"

GetCipherResult(a) == SyncResult(a)

UpdateCipherResult(a) ==
    CASE a.status = "ok"           -> "ok"
      [] a.status = "unauthorized" -> "unauthorized"
      [] OTHER                     -> "failed"

CreateResult(a) == IF a.status \in {"ok", "created"} /\ a.parses THEN "ok" ELSE "failed"

\* A request the server does not know (yet) counts as not answered; null, absent
\* and false as not approved.
PollResult(a, approved) ==
    CASE a.status = "ok"        -> IF ~a.parses THEN "failed"
                                   ELSE IF approved THEN "approved" ELSE "pending"
      [] a.status = "not_found" -> "pending"
      [] OTHER                  -> "failed"

----------------------------------------------------------------------------
(* What a sync gives.                                                      *)

\* to_entry: a deleted item is dropped, and one of no known type; of several
\* types the first of this list counts.
TypeOrder == <<"login", "card", "identity", "note", "ssh">>
EntryType(types) == TypeOrder[CHOOSE i \in DOMAIN TypeOrder :
                        /\ TypeOrder[i] \in types
                        /\ \A j \in DOMAIN TypeOrder : TypeOrder[j] \in types => i <= j]
BecomesEntry(item) == ~item.deleted /\ item.types # {}

\* unlock_vault: the master key opens the protected key, that opens the private
\* key, and that opens the key of each organization; one that does not open
\* fails the call.
UnlockVault(email, password, kdf, protectedKey, privateKey, orgKeys) ==
    /\ OpensWith(protectedKey, MasterKey(email, password, kdf))
    /\ OpensWith(privateKey, protectedKey.plain)
    /\ \A o \in orgKeys : OpensPrivately(o, privateKey.plain)

\* unlock_vault_with_user_key, after a device login
UnlockWithUserKey(userKey, privateKey, orgKeys) ==
    /\ OpensWith(privateKey, userKey)
    /\ \A o \in orgKeys : OpensPrivately(o, privateKey.plain)
=============================================================================
