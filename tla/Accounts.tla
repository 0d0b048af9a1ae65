------------------------------ MODULE Accounts ------------------------------
(***************************************************************************)
(* Whose keys, whose tokens, whose entries: the fields of state.rs that    *)
(* belong to an account, and every call that reads some of them, waits for *)
(* a server or for the user, and writes others.                            *)
(*   - unlock and the task it spawns, save_config, lock_vault,             *)
(*     manual_sync, update_key_fields and the device login (auth request)  *)
(*     of src-tauri/src/commands.rs;                                       *)
(*   - ensure_unlocked and try_login of bw-agent/src/auth.rs, run by the   *)
(*     agent for sign and request_identities, with the prompts of          *)
(*     src-tauri/src/main.rs: one slot per kind of prompt, holding the     *)
(*     sender of the call that asked last.                                 *)
(* A step is one acquisition of a mutex or one answer awaited.  A server   *)
(* may refuse anything (Client.tla has the answers); it accepts a password *)
(* only for its own account.                                               *)
(* A field is named by the account it belongs to, the KDF parameters by    *)
(* their value (KdfOf): accounts may share them.  Expiry and the parked    *)
(* second factor of unlock are in Vault.tla.                               *)
(***************************************************************************)
EXTENDS Client, FiniteSets

CONSTANTS Accounts,     \* the accounts the user has
          KdfOf,        \* the KDF parameters of each
          Configured,   \* the account in the config file at start, or None
          Unlocks,      \* calls of unlock
          Signs,        \* agent calls that go through ensure_unlocked
          Syncs,        \* calls of manual_sync, rounds of the periodic sync
          Edits,        \* calls of update_key_fields
          Requests,     \* auth requests
          Polls,        \* calls of poll_auth_request and of its second factor
          MaxAttempts,  \* max_attempts of ensure_unlocked
          MaxCalls,     \* bound: calls begun
          PageAnswers   \* the page sends submit_password (LoginPage.tsx never does)

Calls == Unlocks \cup Signs \cup Syncs \cup Edits
Account == Accounts \cup {None}
Kdfs == {KdfOf[a] : a \in Accounts} \cup {None}

ASSUME AccountConstants ==
    /\ None \notin Accounts \cup Requests \cup Signs
    /\ \A a \in Accounts : KdfOf[a] # None /\ KdfOf[a].type \in KdfTypes
    /\ \A a \in Account : Sealed(a, a) # None
    /\ Configured \in Account
    /\ MaxAttempts \in Nat \ {0}
    /\ MaxCalls \in Nat
    /\ PageAnswers \in BOOLEAN
    /\ Unlocks \cap Signs = {} /\ Unlocks \cap Syncs = {} /\ Unlocks \cap Edits = {}
    /\ Signs \cap Syncs = {} /\ Signs \cap Edits = {} /\ Syncs \cap Edits = {}

VARIABLES vault,     \* State: the fields that belong to an account
          at,        \* where each call stands
          held,      \* what it has read: account, password or keys, token, tries
          pwSlot,    \* password_tx: the call whose sender it holds
          codeSlot,  \* two_factor_tx
          dev,       \* pending_auth_request
          req,       \* each auth request on the server
          poll,      \* where each poll stands, and the request it cloned
          written,   \* item fields written to the server: owner, keys, own key
          begun      \* calls begun (bound)

callVars == <<at, held>>
devVars  == <<dev, req, poll>>
vars == <<vault, at, held, pwSlot, codeSlot, dev, req, poll, written, begun>>

Point == {"idle", "login", "sync", "email", "ask", "emit", "wait", "try", "first",
          "emit2", "wait2", "code", "open", "renew", "renewing", "resync",
          "encrypt", "put", "done"}
PollPoint == {"idle", "asked", "exchange", "remember", "code", "repoll", "sync"}
ReqPoint  == {"none", "creating", "open", "approved", "failed"}

\* What the client can make of the answers.
LoginResults == {FullLogin(p, KdfOf[a], t) : p \in Answers, a \in Accounts, t \in TokenAnswers}
ExchangeResults == {ExchangeResult(t) : t \in TokenAnswers}
SyncResults == {SyncResult(a) : a \in Answers}
RefreshResults == {RefreshResult(a) : a \in Answers}
CreateResults == {CreateResult(a) : a \in Answers}
PollResults == [approved \in BOOLEAN |-> {PollResult(a, approved) : a \in Answers}]
EditResults == {<<GetCipherResult(a), UpdateCipherResult(b)>> : a \in Answers, b \in Answers}
Refused(results) == results \ {"ok"} # {}

Nothing == [who |-> None, by |-> None, tok |-> None, keyed |-> FALSE, tries |-> 0]

Init ==
    /\ vault = [email |-> Configured, keys |-> None, token |-> None, refresh |-> None,
                kdf |-> None, pkey |-> None, priv |-> None, entries |-> None]
    /\ at = [c \in Calls |-> "idle"]
    /\ held = [c \in Calls |-> Nothing]
    /\ pwSlot = None /\ codeSlot = None
    /\ dev = None
    /\ req = [r \in Requests |-> [at |-> "none", who |-> None]]
    /\ poll = [p \in Polls |-> [at |-> "idle", req |-> None]]
    /\ written = {}
    /\ begun = 0

Goto(c, x) == at' = [at EXCEPT ![c] = x]
Move(c, x) == Goto(c, x) /\ UNCHANGED held
\* A call that returns, with an answer or an error, keeps nothing.
Return(c) == Goto(c, "done") /\ held' = [held EXCEPT ![c] = Nothing]
Begin == begun < MaxCalls /\ begun' = begun + 1
Unlocked == vault.keys # None

\* What a finished login stores, whatever the vault holds by then.
Store(a, kdf) ==
    vault' = [email |-> a, keys |-> a, token |-> a, refresh |-> a,
              kdf |-> kdf, pkey |-> a, priv |-> a, entries |-> a]

\* Mutant: the protected key is trusted instead of opened.
OpensUnchecked(email, password, kdf, pkey, priv) ==
    pkey = email /\ priv = email /\ kdf = KdfOf[email]

\* The vault of an account, as the server protects it: its key under the master
\* key of its email, password and KDF parameters, the private key under that.
Opens(email, password, kdf, pkey, priv) ==
    UnlockVault(email, password, kdf,
                Sealed(MasterKey(pkey, pkey, KdfOf[pkey]), pkey), Sealed(priv, priv), {})

----------------------------------------------------------------------------
(* unlock.  The second factor of a login is Vault.tla's.                   *)

Unlock(u) ==
    /\ at[u] = "idle" /\ Begin
    /\ IF Unlocked \/ vault.email = None
         THEN Return(u)
         ELSE /\ Goto(u, "login")
              /\ \E p \in Accounts :
                   held' = [held EXCEPT ![u].who = vault.email, ![u].by = p]
    /\ UNCHANGED <<vault, pwSlot, codeSlot, devVars, written>>

LoginAnswered(u) ==
    /\ at[u] = "login"
    /\ \/ "ok" \in LoginResults /\ held[u].by = held[u].who /\ Move(u, "sync")
       \/ Refused(LoginResults) /\ Return(u)
    /\ UNCHANGED <<vault, pwSlot, codeSlot, devVars, written, begun>>

\* sync_and_unlock; a key of an organization may also fail to open.
SyncAnswered(u) ==
    /\ at[u] = "sync" /\ u \in Unlocks
    /\ \/ /\ "ok" \in SyncResults
          /\ Opens(held[u].who, held[u].by, KdfOf[held[u].who], held[u].who, held[u].who)
          /\ Store(held[u].who, KdfOf[held[u].who])
       \/ UNCHANGED vault
    /\ Return(u)
    /\ UNCHANGED <<pwSlot, codeSlot, devVars, written, begun>>

----------------------------------------------------------------------------
(* ensure_unlocked and the prompts.                                        *)

Ensure(s) ==
    /\ at[s] = "idle" /\ Begin
    /\ Move(s, IF Unlocked THEN "done" ELSE "email")
    /\ UNCHANGED <<vault, pwSlot, codeSlot, devVars, written>>

ReadEmail(s) ==
    /\ at[s] = "email"
    /\ IF vault.email = None
         THEN Return(s)
         ELSE Goto(s, "ask") /\ held' = [held EXCEPT ![s].who = vault.email]
    /\ UNCHANGED <<vault, pwSlot, codeSlot, devVars, written, begun>>

\* Mutant: one prompt too many.
AskOnceMore(s) ==
    /\ at[s] = "ask"
    /\ IF held[s].tries <= MaxAttempts
         THEN /\ held' = [held EXCEPT ![s].tries = @ + 1]
              /\ pwSlot' = s
              /\ Goto(s, "emit")
         ELSE Return(s) /\ UNCHANGED pwSlot
    /\ UNCHANGED <<vault, codeSlot, devVars, written, begun>>

\* request_password installs its sender; one that was there is dropped.
RequestPassword(s) ==
    /\ at[s] = "ask"
    /\ IF held[s].tries < MaxAttempts
         THEN /\ held' = [held EXCEPT ![s].tries = @ + 1]
              /\ pwSlot' = s
              /\ Goto(s, "emit")
         ELSE Return(s) /\ UNCHANGED pwSlot
    /\ UNCHANGED <<vault, codeSlot, devVars, written, begun>>

\* The event reaches the page; or it cannot be emitted, and clear_pending_sender
\* empties the slot, whoever's sender is in it.
EmitPassword(s) ==
    /\ at[s] = "emit"
    /\ \/ Move(s, "wait") /\ UNCHANGED pwSlot
       \/ Return(s) /\ pwSlot' = None
    /\ UNCHANGED <<vault, codeSlot, devVars, written, begun>>

\* submit_password: a password, or the user cancels.  An answer to an earlier
\* prompt reaches the call that installed its sender last.
SubmitPassword ==
    /\ PageAnswers /\ pwSlot # None
    /\ \/ \E p \in Accounts :
            /\ Goto(pwSlot, "try")
            /\ held' = [held EXCEPT ![pwSlot].by = p]
       \/ Return(pwSlot)
    /\ pwSlot' = None
    /\ UNCHANGED <<vault, codeSlot, devVars, written, begun>>

\* The sender was dropped: "Password prompt cancelled by user".
PromptDropped(s) ==
    /\ at[s] = "wait" /\ pwSlot # s
    /\ Return(s)
    /\ UNCHANGED <<vault, pwSlot, codeSlot, devVars, written, begun>>

RequestTwoFactor(s) ==
    /\ at[s] = "first" /\ "two_factor" \in LoginResults
    /\ codeSlot' = s
    /\ Goto(s, "emit2")
    /\ UNCHANGED <<vault, held, pwSlot, devVars, written, begun>>

EmitTwoFactor(s) ==
    /\ at[s] = "emit2"
    /\ \/ Goto(s, "wait2") /\ UNCHANGED codeSlot
       \/ Goto(s, "ask") /\ codeSlot' = None
    /\ UNCHANGED <<vault, held, pwSlot, devVars, written, begun>>

SubmitTwoFactor ==
    /\ codeSlot # None
    /\ Goto(codeSlot, "code")
    /\ codeSlot' = None
    /\ UNCHANGED <<vault, held, pwSlot, devVars, written, begun>>

CodePromptDropped(s) ==
    /\ at[s] = "wait2" /\ codeSlot # s
    /\ Goto(s, "ask")
    /\ UNCHANGED <<vault, held, pwSlot, codeSlot, devVars, written, begun>>

----------------------------------------------------------------------------
(* try_login: a first login, or a re-unlock from the fields of the state.  *)

\* No token: "first".  Else the fields are read and tried; any error asks again.
TryLogin(s) ==
    /\ at[s] = "try"
    /\ held' = [held EXCEPT ![s].tok = vault.token]
    /\ IF vault.token = None THEN Goto(s, "first")
       ELSE Goto(s, IF /\ None \notin {vault.kdf, vault.pkey, vault.priv}
                       /\ Opens(held[s].who, held[s].by, vault.kdf, vault.pkey, vault.priv)
                    THEN "open" ELSE "ask")
    /\ UNCHANGED <<vault, pwSlot, codeSlot, devVars, written, begun>>

\* full_login: accepted, refused, or RequestTwoFactor above.
FirstLogin(s) ==
    /\ at[s] \in {"first", "code"}
    /\ \/ "ok" \in LoginResults /\ held[s].by = held[s].who /\ Goto(s, "sync")
       \/ Refused(LoginResults) /\ Goto(s, "ask")
    /\ UNCHANGED <<vault, held, pwSlot, codeSlot, devVars, written, begun>>

FirstSync(s) ==
    /\ at[s] = "sync" /\ s \in Signs
    /\ \/ /\ "ok" \in SyncResults
          /\ Opens(held[s].who, held[s].by, KdfOf[held[s].who], held[s].who, held[s].who)
          /\ Store(held[s].who, KdfOf[held[s].who]) /\ Return(s)
       \/ Move(s, "ask") /\ UNCHANGED vault
    /\ UNCHANGED <<pwSlot, codeSlot, devVars, written, begun>>

\* Only the keys are stored: the other fields are those of whoever is there now.
Reunlock(s) ==
    /\ at[s] = "open"
    /\ vault' = [vault EXCEPT !.keys = held[s].who]
    /\ Goto(s, "renew")
    /\ UNCHANGED <<held, pwSlot, codeSlot, devVars, written, begun>>

\* An exchange that fails leaves the token read before.
ReadRefresh(s) ==
    /\ at[s] = "renew"
    /\ held' = [held EXCEPT ![s].by = vault.refresh]
    /\ Goto(s, IF vault.refresh = None THEN "resync" ELSE "renewing")
    /\ UNCHANGED <<vault, pwSlot, codeSlot, devVars, written, begun>>

Renewed(c) ==
    /\ at[c] = "renewing"
    /\ \/ /\ "ok" \in RefreshResults
          /\ vault' = [vault EXCEPT !.token = held[c].by]
          /\ held' = [held EXCEPT ![c].tok = held[c].by]
       \/ Refused(RefreshResults) /\ UNCHANGED <<vault, held>>
    /\ Goto(c, "resync")
    /\ UNCHANGED <<pwSlot, codeSlot, devVars, written, begun>>

Resynced(s) ==
    /\ at[s] = "resync" /\ s \in Signs
    /\ \/ "ok" \in SyncResults /\ vault' = [vault EXCEPT !.priv = held[s].tok, !.entries = held[s].tok]
       \/ Refused(SyncResults) /\ UNCHANGED vault
    /\ Return(s)
    /\ UNCHANGED <<pwSlot, codeSlot, devVars, written, begun>>

\* The steps that wait neither for a server nor for the user.
LocalStep(s) ==
    \/ ReadEmail(s) \/ RequestPassword(s) \/ EmitPassword(s) \/ PromptDropped(s)
    \/ EmitTwoFactor(s) \/ CodePromptDropped(s)
    \/ TryLogin(s) \/ Reunlock(s) \/ ReadRefresh(s)

\* The answers of the server.
ServerStep(s) ==
    \/ RequestTwoFactor(s) \/ FirstLogin(s) \/ FirstSync(s)
    \/ Renewed(s) \/ Resynced(s)

SignStep(s) == LocalStep(s) \/ ServerStep(s)

----------------------------------------------------------------------------
(* manual_sync and the periodic sync.                                      *)

BeginSync(y) ==
    /\ at[y] = "idle" /\ Begin
    /\ IF Unlocked /\ vault.token # None
         THEN /\ held' = [held EXCEPT ![y].tok = vault.token, ![y].by = vault.refresh]
              /\ Goto(y, IF vault.refresh = None THEN "resync" ELSE "renewing")
         ELSE Return(y)
    /\ UNCHANGED <<vault, pwSlot, codeSlot, devVars, written>>

\* An authorization failure of the periodic sync also locks the vault.
Synced(y) ==
    /\ at[y] = "resync" /\ y \in Syncs
    /\ \/ "ok" \in SyncResults /\ Unlocked /\ vault' = [vault EXCEPT !.entries = held[y].tok]
       \/ "unauthorized" \in SyncResults /\ vault' = [vault EXCEPT !.keys = None]
       \/ UNCHANGED vault
    /\ Return(y)
    /\ UNCHANGED <<pwSlot, codeSlot, devVars, written, begun>>

----------------------------------------------------------------------------
(* update_key_fields                                                       *)

\* The entry, with or without a key of its own.
BeginEdit(e) ==
    /\ at[e] = "idle" /\ Begin
    /\ IF Unlocked /\ vault.token # None /\ vault.entries # None
         THEN \E k \in BOOLEAN :
                /\ held' = [held EXCEPT ![e].who = vault.entries,
                                        ![e].tok = vault.token, ![e].keyed = k]
                /\ Goto(e, "encrypt")
         ELSE Return(e)
    /\ UNCHANGED <<vault, pwSlot, codeSlot, devVars, written>>

\* The key an account's item may have of its own, sealed under the account's; a
\* field sealed under it is one that the account reads.
OwnKey(e) == IF held[e].keyed THEN Sealed(held[e].who, held[e].who) ELSE None
Ring == [user |-> vault.keys]

\* Mutant: the entry's own key is not opened first.
EncryptAnyway(e) ==
    /\ at[e] = "encrypt"
    /\ IF Unlocked
         THEN Goto(e, "put") /\ held' = [held EXCEPT ![e].by = vault.keys]
         ELSE Return(e)
    /\ UNCHANGED <<vault, pwSlot, codeSlot, devVars, written, begun>>

\* encrypt_cipher in a second acquisition, with the keys cached by now: it needs
\* some, and they must open the entry's own key if it has one.
Encrypt(e) ==
    /\ at[e] = "encrypt"
    /\ IF FieldKey(Ring, OwnKey(e), "user") # None
         THEN /\ Goto(e, "put")
              /\ held' = [held EXCEPT ![e].by = SealedField(Ring, e, OwnKey(e), "user").under]
         ELSE Return(e)
    /\ UNCHANGED <<vault, pwSlot, codeSlot, devVars, written, begun>>

\* get_cipher and update_cipher with the token read first; the server only knows
\* the item for its owner's token.  The copy in entries is then changed as well.
Put(e) ==
    /\ at[e] = "put"
    /\ \/ /\ <<"ok", "ok">> \in EditResults /\ held[e].tok = held[e].who
          /\ written' = written \cup {[who |-> held[e].who, by |-> held[e].by,
                                       keyed |-> held[e].keyed]}
       \/ UNCHANGED written
    /\ Return(e)
    /\ UNCHANGED <<vault, pwSlot, codeSlot, devVars, begun>>

----------------------------------------------------------------------------
(* The device login.                                                       *)

PollGoto(p, x) == poll' = [poll EXCEPT ![p].at = x]
Hold(p, r, x)  == poll' = [poll EXCEPT ![p] = [at |-> x, req |-> r]]

\* create_auth_request, until the server is asked.  (A device id is on file.)
CreateRequest(r) ==
    /\ req[r].at = "none" /\ Begin
    /\ req' = [req EXCEPT ![r] = [at |-> IF vault.email = None THEN "failed" ELSE "creating",
                                  who |-> vault.email]]
    /\ UNCHANGED <<vault, callVars, pwSlot, codeSlot, dev, poll, written>>

RequestCreated(r) ==
    /\ req[r].at = "creating"
    /\ \/ "ok" \in CreateResults /\ req' = [req EXCEPT ![r].at = "open"] /\ dev' = r
       \/ Refused(CreateResults) /\ req' = [req EXCEPT ![r].at = "failed"] /\ UNCHANGED dev
    /\ UNCHANGED <<vault, callVars, pwSlot, codeSlot, poll, written, begun>>

\* The user approves it on another device.
ApproveRequest(r) ==
    /\ req[r].at = "open"
    /\ req' = [req EXCEPT ![r].at = "approved"]
    /\ UNCHANGED <<vault, callVars, pwSlot, codeSlot, dev, poll, written, begun>>

CancelRequest ==
    /\ Begin
    /\ dev' = None
    /\ UNCHANGED <<vault, callVars, pwSlot, codeSlot, req, poll, written>>

\* poll_auth_request, or submit_auth_request_two_factor: the slot is cloned.
Poll(p) ==
    /\ poll[p].at = "idle" /\ dev # None
    /\ Hold(p, dev, "asked") \/ Hold(p, dev, "code")
    /\ UNCHANGED <<vault, callVars, pwSlot, codeSlot, dev, req, written, begun>>

\* poll_auth_response: approved and a key, or not yet, or an error.
PollAnswered(p) ==
    /\ poll[p].at \in {"asked", "repoll"}
    /\ \/ /\ "approved" \in PollResults[req[poll[p].req].at = "approved"]
          /\ PollGoto(p, IF poll[p].at = "asked" THEN "exchange" ELSE "sync")
       \/ Hold(p, None, "idle")
    /\ UNCHANGED <<vault, callVars, pwSlot, codeSlot, dev, req, written, begun>>

\* exchange_auth_request: tokens; or a second factor is wanted, and the stored
\* remember token is tried (or the page asked for a code); or an error.
ExchangeAnswered(p) ==
    /\ poll[p].at \in {"exchange", "remember", "code"}
    /\ \/ "ok" \in ExchangeResults /\ PollGoto(p, IF poll[p].at = "exchange" THEN "sync" ELSE "repoll")
       \/ "two_factor" \in ExchangeResults /\ poll[p].at = "exchange" /\ PollGoto(p, "remember")
       \/ Refused(ExchangeResults) /\ Hold(p, None, "idle")
    /\ UNCHANGED <<vault, callVars, pwSlot, codeSlot, dev, req, written, begun>>

\* The KDF parameters stay what they were; the slot is emptied, whatever request
\* it holds by now, while agent_state is still locked.
PollSynced(p) ==
    /\ poll[p].at = "sync"
    /\ \/ /\ UnlockWithUserKey(req[poll[p].req].who,
                               Sealed(req[poll[p].req].who, req[poll[p].req].who), {})
          /\ Store(req[poll[p].req].who, vault.kdf) /\ dev' = None
       \/ UNCHANGED <<vault, dev>>
    /\ Hold(p, None, "idle")
    /\ UNCHANGED <<callVars, pwSlot, codeSlot, req, written, begun>>

----------------------------------------------------------------------------
\* save_config with another email.
SetEmail ==
    /\ Begin
    /\ \E a \in Accounts : vault' = [vault EXCEPT !.email = a]
    /\ UNCHANGED <<callVars, pwSlot, codeSlot, devVars, written>>

\* lock_vault, the tray, system events and the expiry clear the keys alone.
Lock ==
    /\ vault' = [vault EXCEPT !.keys = None]
    /\ UNCHANGED <<callVars, pwSlot, codeSlot, devVars, written, begun>>

Next ==
    \/ \E u \in Unlocks : Unlock(u) \/ LoginAnswered(u) \/ SyncAnswered(u)
    \/ \E s \in Signs : Ensure(s) \/ SignStep(s)
    \/ SubmitPassword \/ SubmitTwoFactor
    \/ \E y \in Syncs : BeginSync(y) \/ Renewed(y) \/ Synced(y)
    \/ \E e \in Edits : BeginEdit(e) \/ Encrypt(e) \/ Put(e)
    \/ \E r \in Requests : CreateRequest(r) \/ RequestCreated(r) \/ ApproveRequest(r)
    \/ CancelRequest
    \/ \E p \in Polls : Poll(p) \/ PollAnswered(p) \/ ExchangeAnswered(p) \/ PollSynced(p)
    \/ SetEmail
    \/ Lock

SafeSpec == Init /\ [][Next]_vars

\* Tasks are scheduled; the page, the user and the server (the HTTP client has no
\* timeout) owe nothing.
Spec == SafeSpec /\ \A s \in Signs : WF_vars(LocalStep(s))
----------------------------------------------------------------------------
(* Properties                                                              *)

TypeOK ==
    /\ vault \in [email : Account, keys : Account, token : Account, refresh : Account,
                  kdf : Kdfs, pkey : Account, priv : Account, entries : Account]
    /\ at \in [Calls -> Point]
    /\ held \in [Calls -> [who : Account, by : Account, tok : Account,
                       keyed : BOOLEAN, tries : 0..MaxAttempts]]
    /\ pwSlot \in Signs \cup {None}
    /\ codeSlot \in Signs \cup {None}
    /\ dev \in Requests \cup {None}
    /\ req \in [Requests -> [at : ReqPoint, who : Account]]
    /\ poll \in [Polls -> [at : PollPoint, req : Requests \cup {None}]]
    /\ written \subseteq [who : Account, by : Account, keyed : BOOLEAN]
    /\ begun \in 0..MaxCalls

\* The vault opens with the keys of an account only in a call that was given that
\* account's password, or in a poll of a request of that account approved on
\* another device: never by fields that the logins of two accounts left side by
\* side, by another call's password, or by a request replaced or only answered.
OpenedByCredential ==
    [][vault'.keys \notin {vault.keys, None} =>
         \/ \E c \in Unlocks \cup Signs : at'[c] # at[c] /\ held[c].by = vault'.keys
         \/ \E p \in Polls : /\ poll'[p] # poll[p]
                             /\ req[poll[p].req] = [at |-> "approved", who |-> vault'.keys]]_vars

\* The entry and the keys of a field edit are read in two acquisitions, and
\* another account may be opened in between.  An item with a key of its own is
\* never written with fields its owner cannot read.
EditedUnderOwnKeys == \A w \in written : w.keyed => w.by = w.who

\* An agent call does not go on waiting for the master password once the vault is
\* open: the page listens for its request, and the slot is there for "relaying a
\* master-password prompt response to the core agent".
WaitEnds ==
    \A s \in Signs : (at[s] = "wait" /\ Unlocked) ~> (at[s] # "wait")
=============================================================================
