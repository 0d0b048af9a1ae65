------------------------------- MODULE Vault -------------------------------
(***************************************************************************)
(* Who opens and who closes the vault: the cached keys of state.rs behind  *)
(* one tokio mutex, and every task that takes it.                          *)
(*   - the background task of src-tauri/src/main.rs (expiry check, sync);  *)
(*   - unlock and unlock_with_two_factor of src-tauri/src/commands.rs and  *)
(*     the task they spawn once the server accepts the login;              *)
(*   - sign() of crates/bw-agent/src/ssh_agent.rs with ensure_unlocked;    *)
(*   - the three ways to lock: the lock_vault command, the tray's Lock     *)
(*     entry, the system events (idle, sleep, screen lock, shutdown).      *)
(* A step is what happens under one acquisition of a mutex; an await, or   *)
(* the gap between two acquisitions, separates two steps.                  *)
(*                                                                         *)
(* The keys are named by the password they were derived from.  Entries,    *)
(* tokens, the remember-token file and the frontend's events are left out: *)
(* no guard here reads them.  The approval queue is Approval.tla; here a   *)
(* sign call that asks gets an answer some time later.                     *)
(***************************************************************************)
EXTENDS Naturals

CONSTANTS Unlocks,     \* calls of unlock, each with the password typed for it
          TwoFactors,  \* calls of unlock_with_two_factor
          Signs,       \* sign() calls; one prompts for its own password
          Locks,       \* requests to lock the vault
          LockKind,    \* where each comes from
          TTL,         \* cache_ttl in Timeout mode
          MaxAge,      \* bound: an age past it is not told from it
          Nobody       \* no keys, no pending login

ASSUME VaultConstants ==
    /\ LockKind \in [Locks -> {"command", "tray", "system"}]
    /\ TTL \in Nat \ {0}
    /\ MaxAge \in Nat /\ TTL <= MaxAge
    /\ Nobody \notin Unlocks \cup Signs
    /\ Unlocks \cap Signs = {}

VARIABLES keys,      \* the password the cached keys come from
          age,       \* time since cached_at
          timed,     \* cache_ttl is Some(TTL)
          slot,      \* pending_two_factor
          unlock,    \* where each password typed for unlock stands
          twofa,     \* where each unlock_with_two_factor call stands
          held,      \* the pending login that call has taken
          sign,      \* where each sign() call stands
          snap,      \* the keys in its last copy of the state, until it ends
          sessions,  \* sign calls whose approval is remembered
          lock,      \* where each lock request stands
          before,    \* the sessions when it began (history)
          loop,      \* where the background task stands
          since      \* the keys cached since each sign call's approval (history)

cache      == <<keys, age>>
loginVars  == <<slot, unlock, twofa, held>>
signVars   == <<sign, snap>>
lockVars   == <<lock, before>>
vars == <<keys, age, timed, slot, unlock, twofa, held, sign, snap, sessions,
          lock, before, loop, since>>

Passwords   == Unlocks \cup Signs
UnlockPoint == {"idle", "login", "pending", "sync", "done"}
TwoFaPoint  == {"idle", "take", "login", "done"}
SignPoint   == {"idle", "prompt", "auth", "find", "check", "asking", "granted",
                "approved", "decrypt", "signed", "failed"}
LockPoint   == {"idle", "clear", "revoke", "drop", "skipped", "done"}
LoopPoint   == {"check", "clear", "drop", "tokens", "fetch"}

Init ==
    /\ keys = Nobody
    /\ age = 0
    /\ timed \in BOOLEAN
    /\ slot = Nobody
    /\ unlock = [p \in Unlocks |-> "idle"]
    /\ twofa = [t \in TwoFactors |-> "idle"]
    /\ held = [t \in TwoFactors |-> Nobody]
    /\ sign = [s \in Signs |-> "idle"]
    /\ snap = [s \in Signs |-> Nobody]
    /\ sessions = {}
    /\ lock = [l \in Locks |-> "idle"]
    /\ before = [l \in Locks |-> {}]
    /\ loop = "check"
    /\ since = [s \in Signs |-> {}]

UnlockGoto(p, x) == unlock' = [unlock EXCEPT ![p] = x]
TwoFaGoto(t, x)  == twofa' = [twofa EXCEPT ![t] = x]
SignGoto(s, x)   == sign' = [sign EXCEPT ![s] = x]
SignFails(s)     == SignGoto(s, "failed") /\ snap' = [snap EXCEPT ![s] = Nobody]
LockGoto(l, x)   == lock' = [lock EXCEPT ![l] = x]

----------------------------------------------------------------------------
(* State, in state.rs.                                                     *)

IsUnlocked == keys # Nobody /\ (timed => age < TTL)
IsExpired  == keys # Nobody /\ timed /\ age >= TTL

Clear          == keys' = Nobody /\ age' = 0
SetUnlocked(p) == keys' = p /\ age' = 0
Touch          == age' = 0 /\ UNCHANGED keys

----------------------------------------------------------------------------
(* unlock, unlock_with_two_factor, and the task spawn_sync_and_unlock.     *)

Unlock(p) ==
    /\ unlock[p] = "idle"
    /\ UnlockGoto(p, IF IsUnlocked THEN "done" ELSE "login")
    /\ UNCHANGED <<cache, timed, slot, twofa, held, signVars, sessions, lockVars, loop>>

\* The server accepts the login (or the stored remember token), refuses it, or
\* wants a second factor: the login is then parked, in place of any other.
LoginAnswered(p) ==
    /\ unlock[p] = "login"
    /\ \/ UnlockGoto(p, "sync") /\ UNCHANGED slot
       \/ UnlockGoto(p, "done") /\ UNCHANGED slot
       \/ UnlockGoto(p, "pending") /\ slot' = p
    /\ UNCHANGED <<cache, timed, twofa, held, signVars, sessions, lockVars, loop>>

\* sync_and_unlock: the keys are stored without a look at what happened since.
SyncAnswered(p) ==
    /\ unlock[p] = "sync"
    /\ UnlockGoto(p, "done")
    /\ SetUnlocked(p) \/ UNCHANGED cache
    /\ UNCHANGED <<timed, slot, twofa, held, signVars, sessions, lockVars, loop>>

TwoFactor(t) ==
    /\ twofa[t] = "idle"
    /\ TwoFaGoto(t, IF IsUnlocked THEN "done" ELSE "take")
    /\ UNCHANGED <<cache, timed, slot, unlock, held, signVars, sessions, lockVars, loop>>

\* Mutant: the pending login is used but left where it is.
PeekPending(t) ==
    /\ twofa[t] = "take"
    /\ held' = [held EXCEPT ![t] = slot]
    /\ TwoFaGoto(t, IF slot = Nobody THEN "done" ELSE "login")
    /\ UNCHANGED <<cache, timed, slot, unlock, signVars, sessions, lockVars, loop>>

\* Mutant: an empty slot is not noticed.
TakeNothing(t) ==
    /\ twofa[t] = "take"
    /\ held' = [held EXCEPT ![t] = slot]
    /\ slot' = Nobody
    /\ TwoFaGoto(t, "login")
    /\ UNCHANGED <<cache, timed, unlock, signVars, sessions, lockVars, loop>>

\* "No pending two-factor login"; or the login leaves the slot, and is lost when
\* the page names a provider the program does not know.
TakePending(t) ==
    /\ twofa[t] = "take"
    /\ slot' = Nobody
    /\ \/ slot # Nobody /\ TwoFaGoto(t, "login") /\ held' = [held EXCEPT ![t] = slot]
       \/ TwoFaGoto(t, "done") /\ UNCHANGED held
    /\ UNCHANGED <<cache, timed, unlock, signVars, sessions, lockVars, loop>>

\* The code is right and the login goes on; or it goes back for another try,
\* over whatever has been parked meanwhile.
CodeAnswered(t) ==
    /\ twofa[t] = "login"
    /\ TwoFaGoto(t, "done")
    /\ held' = [held EXCEPT ![t] = Nobody]
    /\ \/ UnlockGoto(held[t], "sync") /\ UNCHANGED slot
       \/ slot' = held[t] /\ UNCHANGED unlock
    /\ UNCHANGED <<cache, timed, signVars, sessions, lockVars, loop>>

LoginStep ==
    \/ \E p \in Unlocks : Unlock(p) \/ LoginAnswered(p) \/ SyncAnswered(p)
    \/ \E t \in TwoFactors : TwoFactor(t) \/ TakePending(t) \/ CodeAnswered(t)

----------------------------------------------------------------------------
(* sign()                                                                  *)

\* Mutant: cached keys are touched without a look at their age.
EnsureTouchesHeld(s) ==
    /\ sign[s] = "idle"
    /\ IF keys # Nobody THEN Touch /\ SignGoto(s, "find")
                        ELSE SignGoto(s, "prompt") /\ UNCHANGED cache
    /\ UNCHANGED <<timed, loginVars, snap, sessions, lockVars, loop>>

EnsureUnlocked(s) ==
    /\ sign[s] = "idle"
    /\ IF IsUnlocked THEN Touch /\ SignGoto(s, "find")
                     ELSE SignGoto(s, "prompt") /\ UNCHANGED cache
    /\ UNCHANGED <<timed, loginVars, snap, sessions, lockVars, loop>>

\* request_password: the user types the master password, or cancels.
PasswordAnswered(s) ==
    /\ sign[s] = "prompt"
    /\ SignGoto(s, "auth") \/ SignGoto(s, "failed")
    /\ UNCHANGED <<cache, timed, loginVars, snap, sessions, lockVars, loop>>

\* try_login: a first login or a local re-unlock; after a wrong password the
\* user is asked again, until max_attempts.
TryLogin(s) ==
    /\ sign[s] = "auth"
    /\ \/ SetUnlocked(s) /\ SignGoto(s, "find")
       \/ (SignGoto(s, "prompt") \/ SignGoto(s, "failed")) /\ UNCHANGED cache
    /\ UNCHANGED <<timed, loginVars, snap, sessions, lockVars, loop>>

\* The first snapshot only serves to name the entry; a key outside the
\* connection's allowed entries is refused here.
FindEntry(s) ==
    /\ sign[s] = "find"
    /\ \/ SignGoto(s, "check") /\ snap' = [snap EXCEPT ![s] = keys]
       \/ SignFails(s)
    /\ UNCHANGED <<cache, timed, loginVars, sessions, lockVars, loop>>

\* check_session.  A session may cover another key or another client, so only
\* its absence settles the question.
CheckSession(s) ==
    /\ sign[s] = "check"
    /\ \/ sessions # {} /\ SignGoto(s, "approved")
       \/ SignGoto(s, "asking")
    /\ UNCHANGED <<cache, timed, loginVars, snap, sessions, lockVars, loop>>

\* approve_request_with_session, up to create_session.
Remember(s) ==
    /\ sign[s] = "asking"
    /\ sessions' = sessions \cup {s}
    /\ SignGoto(s, "granted")
    /\ UNCHANGED <<cache, timed, loginVars, snap, lockVars, loop>>

\* The answer of the user, or of the timeout.
Answered(s) ==
    /\ sign[s] \in {"asking", "granted"}
    /\ \/ SignGoto(s, "approved") /\ UNCHANGED snap
       \/ SignFails(s)
    /\ UNCHANGED <<cache, timed, loginVars, sessions, lockVars, loop>>

\* Mutant: the private key is decrypted with the snapshot taken before approval.
SnapshotKept(s) ==
    /\ sign[s] = "approved"
    /\ SignGoto(s, "decrypt")
    /\ UNCHANGED <<cache, timed, loginVars, snap, sessions, lockVars, loop>>

\* "Proceed with signing": the state is copied and its mutex released.
SnapshotToSign(s) ==
    /\ sign[s] = "approved"
    /\ snap' = [snap EXCEPT ![s] = keys]
    /\ SignGoto(s, "decrypt")
    /\ UNCHANGED <<cache, timed, loginVars, sessions, lockVars, loop>>

\* The copy is searched and used, whatever has become of the vault: without keys
\* nothing in it decrypts; with keys the entry may still be missing.
SignData(s) ==
    /\ sign[s] = "decrypt"
    /\ \/ /\ snap[s] # Nobody
          /\ SignGoto(s, "signed")
          /\ snap' = [snap EXCEPT ![s] = Nobody]
       \/ SignFails(s)
    /\ UNCHANGED <<cache, timed, loginVars, sessions, lockVars, loop>>

SignStep ==
    \E s \in Signs :
        \/ EnsureUnlocked(s) \/ PasswordAnswered(s) \/ TryLogin(s)
        \/ FindEntry(s) \/ CheckSession(s)
        \/ Remember(s) \/ Answered(s)
        \/ SnapshotToSign(s) \/ SignData(s)

----------------------------------------------------------------------------
(* The ways to lock.                                                       *)

\* The tray looks first: "Skip if already locked".
BeginLock(l) ==
    /\ lock[l] = "idle"
    /\ before' = [before EXCEPT ![l] = sessions]
    /\ LockGoto(l, IF LockKind[l] = "tray" /\ ~IsUnlocked THEN "skipped" ELSE "clear")
    /\ UNCHANGED <<cache, timed, loginVars, signVars, sessions, loop>>

LockClear(l) ==
    /\ lock[l] = "clear"
    /\ Clear
    /\ LockGoto(l, CASE LockKind[l] = "command" -> "revoke"
                     [] LockKind[l] = "tray"    -> "drop"
                     [] LockKind[l] = "system"  -> "done")
    /\ UNCHANGED <<timed, loginVars, signVars, sessions, before, loop>>

\* Mutant: the command forgets revoke_all.
LockKeepsSessions(l) ==
    /\ lock[l] = "revoke"
    /\ LockGoto(l, "drop")
    /\ UNCHANGED <<cache, timed, loginVars, signVars, sessions, before, loop>>

LockRevoke(l) ==
    /\ lock[l] = "revoke"
    /\ sessions' = {}
    /\ LockGoto(l, "drop")
    /\ UNCHANGED <<cache, timed, loginVars, signVars, before, loop>>

LockDropPending(l) ==
    /\ lock[l] = "drop"
    /\ slot' = Nobody
    /\ LockGoto(l, "done")
    /\ UNCHANGED <<cache, timed, unlock, twofa, held, signVars, sessions, before, loop>>

LockStep ==
    \E l \in Locks : BeginLock(l) \/ LockClear(l) \/ LockRevoke(l) \/ LockDropPending(l)

----------------------------------------------------------------------------
(* start_background_tasks: a tick every 5 s, a sync on every twelfth.      *)

LoopGoto(x) == loop' = x

\* Not expired: the tick is over, or goes on to the sync.
LoopCheck ==
    /\ loop = "check"
    /\ LoopGoto(IF IsExpired THEN "clear" ELSE "tokens")
    /\ UNCHANGED <<cache, timed, loginVars, signVars, sessions, lockVars>>

\* Mutant: the expiry is announced but the keys stay.
LoopKeepsKeys ==
    /\ loop = "clear"
    /\ LoopGoto("drop")
    /\ UNCHANGED <<cache, timed, loginVars, signVars, sessions, lockVars>>

\* The mutex was released after the check and is taken again to clear.
LoopClear ==
    /\ loop = "clear"
    /\ Clear
    /\ LoopGoto("drop")
    /\ UNCHANGED <<timed, loginVars, signVars, sessions, lockVars>>

LoopDropPending ==
    /\ loop = "drop"
    /\ slot' = Nobody
    /\ LoopGoto("check")
    /\ UNCHANGED <<cache, timed, unlock, twofa, held, signVars, sessions, lockVars>>

\* Eleven ticks of twelve end here; else the tokens are read and the server asked.
LoopTokens ==
    /\ loop = "tokens"
    /\ \/ LoopGoto("check")
       \/ IsUnlocked /\ LoopGoto("fetch")
    /\ UNCHANGED <<cache, timed, loginVars, signVars, sessions, lockVars>>

\* exchange_refresh_token and sync_vault: new entries, an error, or an
\* authorization failure, which locks the vault.
SyncReply ==
    /\ loop = "fetch"
    /\ LoopGoto("check")
    /\ Clear \/ UNCHANGED cache
    /\ UNCHANGED <<timed, loginVars, signVars, sessions, lockVars>>

\* What the task does without waiting for the server.
LoopStep == LoopCheck \/ LoopClear \/ LoopDropPending \/ LoopTokens

----------------------------------------------------------------------------
Tick ==
    /\ keys # Nobody
    /\ age < MaxAge
    /\ age' = age + 1
    /\ UNCHANGED <<keys, timed, loginVars, signVars, sessions, lockVars, loop>>

UpdateLockMode ==
    /\ timed' = ~timed
    /\ UNCHANGED <<cache, loginVars, signVars, sessions, lockVars, loop>>

\* History: the keys seen in the cache while a call stands approved; of those, the
\* ones it has copied, until it has signed or failed.
Witness ==
    since' = [s \in Signs |->
                 CASE sign'[s] = "approved" -> since[s] \cup ({keys'} \ {Nobody})
                   [] sign'[s] = "decrypt"  -> since[s] \cap {snap'[s]}
                   [] OTHER                 -> {}]

Next ==
    /\ \/ LoginStep
       \/ SignStep
       \/ LockStep
       \/ LoopStep
       \/ SyncReply
       \/ Tick
       \/ UpdateLockMode
    /\ Witness

SafeSpec == Init /\ [][Next]_vars

\* The runtime schedules the background task; the HTTP client has no timeout,
\* so the server's answer is a separate assumption.
Spec == SafeSpec /\ WF_loop(LoopStep) /\ WF_loop(SyncReply)

----------------------------------------------------------------------------
(* Properties                                                              *)

TypeOK ==
    /\ keys \in Passwords \cup {Nobody}
    /\ age \in 0..MaxAge
    /\ timed \in BOOLEAN
    /\ slot \in Unlocks \cup {Nobody}
    /\ unlock \in [Unlocks -> UnlockPoint]
    /\ twofa \in [TwoFactors -> TwoFaPoint]
    /\ held \in [TwoFactors -> Unlocks \cup {Nobody}]
    /\ \A t \in TwoFactors : twofa[t] = "login" <=> held[t] # Nobody
    /\ sign \in [Signs -> SignPoint]
    /\ snap \in [Signs -> Passwords \cup {Nobody}]
    /\ sessions \subseteq Signs
    /\ lock \in [Locks -> LockPoint]
    /\ before \in [Locks -> SUBSET Signs]
    /\ loop \in LoopPoint
    /\ since \in [Signs -> SUBSET Passwords]

\* A master password typed once opens the vault once.  A login waiting for its
\* second factor is in pending_two_factor or with one command that took it, never
\* in two places, and nowhere once the background task has it: two commands sent
\* for one login, or a command repeated after the vault was locked again, cannot
\* both finish it.
PasswordUnlocksOnce ==
    /\ \A p \in Unlocks :
          unlock[p] # "pending" => /\ slot # p
                                  /\ \A t \in TwoFactors : held[t] # p
    /\ \A t \in TwoFactors :
          held[t] # Nobody => /\ slot # held[t]
                              /\ \A v \in TwoFactors \ {t} : held[v] # held[t]

\* Once the TTL has passed, only a password or a change of lock mode makes the
\* vault usable again: sign calls refresh the TTL of a vault still unlocked, and
\* one arriving between the expiry and the background task's next check must not.
UseDoesNotReopen ==
    [][IsExpired /\ IsUnlocked' => keys' # keys \/ timed' # timed]_vars

\* A sign call takes minutes: the user is asked in the middle of it, and the vault
\* may be locked, expire or be opened with another password meanwhile.  Whatever
\* the call saw before, it signs with keys that were in the cache after it was
\* approved: keys locked away while the question was open, and not opened again
\* since, sign nothing.  (A lock after the second copy of the state was taken comes
\* too late, and the signature is made.)
SignedWithKeysOfApproval ==
    [][\A s \in Signs :
         sign'[s] = "signed" /\ sign[s] # "signed" => snap[s] \in since[s]]_vars

\* Every approval remembered before a lock request is forgotten when the request
\* is done ("on Vault Lock all sessions are revoked").
Forgotten(l) == lock[l] = "done" => sessions \cap before[l] = {}

\* That is so for the lock_vault command, whatever sessions are made meanwhile.
CommandLockEndsSessions == \A l \in Locks : LockKind[l] = "command" => Forgotten(l)

\* It is claimed for every way to lock.
LockEndsSessions == \A l \in Locks : Forgotten(l)

\* Keys past their TTL do not stay cached: the background task clears them, unless
\* something opens the vault again first.
ExpiredKeysAreCleared == IsExpired ~> ~IsExpired
=============================================================================
