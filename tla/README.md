# bw-agent: a formal model

bw-agent is an SSH agent for Windows and macOS whose keys live in a Bitwarden
vault.  A Tauri application (`src-tauri/`, with pages under `src/`) hosts the
agent library (`crates/bw-agent`), which answers SSH clients over a named pipe or
socket and talks to the Bitwarden server through `crates/bw-core`.  This directory
holds TLA+ specifications of its concurrent core, the TLC configurations that
check them and TLAPS proofs of their safety properties.  Paths below are relative
to the repository.

## 1. Inventory

| Component | Source | State it keeps | Operations |
|---|---|---|---|
| Approval queue | `crates/bw-agent/src/approval.rs` | `pending` (oneshot senders) and `requests` (what the user sees), two mutexes | `create_request`, `respond`, `get_request`, `pending` |
| Session store | `crates/bw-agent/src/session_store.rs` | `sessions` and `hash_cache`, two mutexes | `create_session`, `check_session`, `revoke_session`, `revoke_all`, `list_active`, `hash_file_cached` |
| Vault state | `crates/bw-agent/src/state.rs` | keys, `cached_at`, `cache_ttl`, tokens, KDF parameters, entries, one tokio mutex | `is_unlocked`, `is_expired`, `clear`, `set_unlocked`, `touch` |
| SSH agent | `crates/bw-agent/src/ssh_agent.rs`, `auth.rs` | the connection's pid and `allowed_entry_ids` | `request_identities`, `sign`, `ensure_unlocked`, `try_login` |
| Password login | `src-tauri/src/commands.rs` | `pending_two_factor` | `unlock`, `unlock_with_two_factor`, `spawn_sync_and_unlock` |
| Background task | `src-tauri/src/main.rs` | none | expiry check every 5 s, sync every 60 s |
| Sync, key editing | `commands.rs`, `main.rs` | none | `manual_sync`, `update_key_fields` |
| Prompts | `src-tauri/src/main.rs` | `password_tx`, `two_factor_tx`, one sender each | `request_password`, `request_two_factor`, `submit_password`, `submit_two_factor` |
| Device login | `commands.rs` | `pending_auth_request` | create, poll, second factor, cancel |
| Locking | `commands.rs`, `tray.rs`, `system_events.rs` | lock mode, idle threshold and idle latch (atomics) | `update_lock_mode`, `lock_vault`, tray Lock, idle, sleep, screen lock, shutdown |
| Configuration | `config.rs`, `commands.rs` | the config file; the settings page's copy | load with migration, `save_config`, remember and revoke the second-factor token, device id |
| Processes | `process.rs` | none | `resolve_process_chain`, query by query |
| Git context, routing | `git_context.rs`, `routing.rs` | none | repository and remote of a chain; match rules |
| Commit signing | `git_sign.rs` | none | `sign`, `verify`, `find-principals`, `match-principals`, `check-novalidate` |
| Access log | `access_log.rs` | SQLite table | `record`, `query` |
| Transport | `pipe.rs`, `bw-agent/src/lib.rs` | none | accept, one handler per connection |
| Client and crypto | `crates/bw-core` | none | HTTP calls, ciphers, key derivation |
| Pages | `src/pages`, `src/lib` | what the page shows | the commands a user can give |

How they interact.  Each SSH connection is a task; `sign()` unlocks the vault if it
must (a prompt, a login), finds the entry, asks the session store, else puts a
request in the approval queue, emits an event and waits on a oneshot channel with a
deadline, then decrypts the private key and signs.  The commands of the pages run as
tasks of their own and share with it, and with the background task, the vault state,
the queue and the session store.  Nothing but the configuration and the access log is
persisted: a restart begins from a locked vault with no sessions.

What is hard, and what makes each part correct:

- *Approval.*  A sign call is settled once, by the first of its answers or its
  deadline; only the user says yes; every call returns; the list shows only what can
  still be answered.  Two maps, two mutexes, a channel and a timer are involved.
- *Session store.*  A remembered approval answers only while it is valid and only for
  the executable it was given to.  The time is read before the mutex, the file is
  hashed in the middle, through a cache with a race of its own.
- *Vault.*  Keys past their TTL are unusable at once and gone soon; use does not
  revive them; locking forgets what it should; one password opens the vault once.  Ten
  kinds of tasks take the mutex, many of them several times with awaits in between.
- *Accounts.*  Email, keys, tokens, KDF parameters and entries are fields that calls
  read and write in different acquisitions, with a server or a user in between; what they
  put together must belong together.  A prompt's answer reaches a call or nobody, and a
  device login counts only if it was approved.
- *Configuration, lock mode.*  A write of the file does not undo another; the mode in
  the mutex and in the atomics is one mode; every event of the mode locks.
- *The agent end to end.*  What a connection is offered fits the repository that the
  client works in, what it is offered it may use and nothing else, a signature made for git
  is one git accepts, every decision is logged, every request is answered, while syncs,
  locks and dying processes come in between.

`PROJECT.json` lists the hazards one by one, at their lines, with the properties that
cover them.

## 2. Modules

| Module | What it is |
|---|---|
| `ApprovalPromise` | abstract: what the approval queue promises, without maps, channels or timers |
| `Approval` | detailed: the queue, `sign()` around it, the commands that answer |
| `Vault` | the cached keys and everything that opens, uses or closes the vault |
| `SessionStore` | the session store, its hash cache, the file and the clock |
| `Client` | what `bw-core`'s client makes of each answer of the server |
| `Ciphers` | ideal cryptography, and which key opens which field |
| `Accounts` | whose keys, tokens and entries: logins, prompts, syncs, edits, device login |
| `ConfigFile` | the config file, the commands that write it, restarts |
| `LockMode` | the lock mode at run time: mutex, atomics, idle thread, lock tasks |
| `Processes`, `GitContext`, `Routing` | from a pid to a process chain, to a remote, to a list of items |
| `Agent` | `request_identities` and `sign` from request to answer, with the access log |
| `GitSign` | the agent with its clients: any SSH client, and `bw-agent-git-sign` |
| `*Proofs` | the theorems about the module of that name |
| `MC*` | instances for TLC |

`Accounts` is built on `Client` and `Ciphers`; `GitSign` extends `Agent`, which
extends `Processes`, `GitContext`, `Routing` and `Client`.

The granularity is the same everywhere: an action is what happens under one
acquisition of a mutex, or one access to something outside the program (a file, the
process table, the server's answer); two actions are separated wherever the code awaits,
or releases a mutex and takes it again.  Definitions named as mutants in their comments
are broken variants used to see that a property can fail; `Next` does not reach them.

### Approval

`pending` and `requests` are the two maps; `chan[r]` is the value in the oneshot
channel of call `r`, whose receiver lives while `sign[r]` is in `Listening`; `outcome`
is the local `approved`.  `create_request` is `InsertPending` and `PushRequest`,
`respond` is `Answer` and `Unlist` as they occur in each of its three callers: the
failed notification, the deadline and the commands.  `tokio::time::timeout` polls its
future first, so `Timeout` requires an empty channel, and drops the receiver before
the arm that calls `respond` runs.  `approve_request_with_session` is `Lookup`,
`CreateSession`, `CmdSend`, `CmdUnlist`.  A command is only given for a request the page
has been told of (`known`), by an event or by `get_pending_approvals`.

Abstracted: a session is named by the command that made it, its expiry and the hash
check are nondeterministic here (they are SessionStore's subject); the audit record is
left out.

`ApprovalPromise` has four variables, none of which is a map or a channel: the verdict
of each call (unasked, open, yes, no), what the call returned, the calls the user
clicked for, and the key and scope pairs the user asked to remember.  The refinement
mapping `Verdict(r)` reads the channel while the receiver lives, and is "no" from the
moment the deadline drops it, although `sign()` decides some steps later.

### Vault

`keys` names the password the cached keys were derived from; `age` is the time since
`cached_at`, `timed` tells whether `cache_ttl` is set.  `slot` is
`pending_two_factor`; `held[t]` a login that `unlock_with_two_factor` has taken out of
it.  A sign call goes through `EnsureUnlocked`, perhaps `PasswordAnswered` and
`TryLogin`, then `FindEntry` (first snapshot), `CheckSession`, perhaps `Remember` and
`Answered`, `SnapshotToSign` (second snapshot, after which the mutex is free) and `SignData`.
`BeginLock`, `LockClear`, `LockRevoke`,
`LockDropPending` are the three ways to lock, which differ in the steps they have
(`LockKind`).  The background task is `LoopCheck`, `LoopClear`, `LoopDropPending`,
`LoopTokens`, `SyncReply`.

Abstracted: one account, and one opening of the vault by a sign call (what a login stores
besides the keys, the prompts and the attempts are `Accounts`); the events told to the
page; the approval, which is answered some time later (`since`, a history variable, has the keys that were cached
from then on); that a session covers this key and
client (if there is one, it may or may not).  `request_identities` has the same effect on
the keys as a sign call that ends after `TryLogin` or `EnsureUnlocked`, and a device login
stores keys as `SyncAnswered` does.

### SessionStore

One key, one executable.  `version` is the state of the file and stands for its mtime;
`Bytes` tells which versions have equal contents, so a file may return to older
contents under a new mtime.  `holder` is the mutex of `sessions` for `check_session`,
which keeps it while it hashes; other users of that mutex hold it for one step.
`hash_file_cached` is `Stat`, `Lookup`, `ReadFile`, `Insert`, for a check or for a grant
(`approve_request_with_session`), with failures of both reads.  Sessions are compared
in any order: the code's order is that of creation.  `since` and `ended` are history
variables.  Assumed: a write changes the mtime, and an mtime does not come back.

### Accounts, Client, Ciphers

A field of `State` is named by the account it belongs to: `vault.email`, `keys`, `token`,
`refresh`, `pkey` and `priv` (the protected keys of the profile), `entries`; `kdf` is the
value of the parameters, which accounts may share.  The calls are `unlock` (`Unlock`,
`LoginAnswered`, `SyncAnswered`), an agent call that goes through `ensure_unlocked` and
`try_login` (`Ensure` to `Resynced`), a sync, manual or periodic (`BeginSync`, `Renewed`,
`Synced`), `update_key_fields` (`BeginEdit`, `Encrypt`, `Put`), and a device login
(`CreateRequest` to `PollSynced`).  `at` and `held` are where a call stands and the locals it
keeps over an await.  `try_login` has two ways, and both are here: the first login, with a
password and perhaps a second factor, and the re-unlock with the stored protected keys, which
may need a renewed token and a new sync.  `Opens` says when a password opens those keys:
email, password, KDF parameters and protected keys must all be of one account.

`pwSlot` and `codeSlot` hold the sender of the call that asked last; a call whose sender was
replaced, or whose event could not be emitted, sees its receiver closed (`PromptDropped`).  `PageAnswers` says whether
the page sends `submit_password`.  The command exists and the safety run has it; `LoginPage` never sends it.
`dev` is `pending_auth_request`, which a poll clones; `req` is the request on the server.

`Client` has, per call, the results the client can make of an answer (`ok`, refused,
unauthorized, two-factor wanted, transport error), and `SyncResult` and `BecomesEntry` what a
sync keeps: an item that is deleted or of no known type is dropped.  `Ciphers` has sealed
values `Sealed(k, v)`, `Malformed`, and the choice of the item's own key, else the
organization's, else the user's.

`SetEmail` and `Lock` stand for `save_config` with another email and for every way to lock.

### ConfigFile and LockMode

`ConfigFile` keeps the fields the program itself changes.  A command loads the file
(`LoadFile`), changes a field in memory and writes all of it back; `fs::write` is `Truncate`
and `Fill`, and `Stop` may come between the two, or between any others.  A load of a file that
does not parse gives the defaults.  `job[w].at = "over"` is a writer whose file another has
filled since it was emptied: the shorter text then leaves the end of the longer.  `page` is
the settings page's copy, which `SaveConfig` writes over the whole file.  `Migrated` is the
reading of `lock_timeout`, a field of an older version.

`LockMode` has `update_lock_mode` in its three writes: `cache_ttl` under the mutex, then the
kind and the threshold while the mutex is held.  System events and the polling thread read the
atomics without it.  A mode is its kind and its seconds, which nothing bounds below: `IdleSeconds` of 0 is
`IDLE_DISABLED`.  The thread, if it could be spawned (`polling`), takes a poll in steps, between which an
update may run: `PollLoad` of the threshold, `PollQuery` of the idle time (or `PollQueryFails`), and
`PollTrigger` or `PollRelease` of the latch `triggered`, which makes one absence lock once; then it sleeps
`Period` units of time.  Two history variables: `owed`, an event of the mode has found the vault open and
nothing has locked it since; `armed`, the thread has seen the user since it last locked.

### Agent and GitSign

A *world* is a machine and a vault to start from: a process table and what may still become
of it, the pid behind each connection, directories and git configurations, the vault's keys
and one or two versions of its items.  Everything that happens from there on is nondeterministic.

A connection's handler goes through `Ensure`, `Login` if the vault is locked, `Walk` (one query of the
process table at a time, so a process may end, or its pid be taken, in the middle), `ReadContext` (working directory of
the git process, the repository, HEAD, the branch's remote, its normalised URL), and then either
`Offer` (a listing) or `Look`, `CheckSession`, `Decide`, `SignData` (a signature).  `Offer`,
`Look` and `SignData` each take their own snapshot of the items, and between them the vault may
be locked (`Lock`), unlocked from the page (`Unlock`) or synced (`Sync`).  Three components appear as
the choices that their own modules show they make: a login that succeeds, fails or does not end, a decision that comes, a session that
trusts an executable with a key.  `writing` are the records on their way to the log on a blocking
thread; `lost` those the database refused.

`Routing` is `route_entries`: the items whose rules match the URL, else those without rules, else
all.  A pattern is the set of URLs it matches.  `GitContext` has `.git` files (linked worktrees
with their common directory, submodules), the search up the directories, HEAD and the remote of its
branch, and the parts of a remote's URL; `inPath` is the URL that follows a first `@` in the path, where the
code goes on reading.

`GitSign` adds the program git runs in place of `ssh-keygen -Y`: the command line as git gives
it (`ParseArgs`), its way through the agent (`ReadFiles`, `AskIdentities`, `FindIdentity`,
`WriteSignature`), and its four ways to verify, as operators over an allowed signers file.
SSHSIG and its verification are external: a signature file has the key it names, the key the
agent signed with (`by`), an algorithm, a namespace and the data.  In `ParseArgs` an option is a word
that is no option's value (`OptionOf` tells whose value a word is); options other than those that git
uses are not modelled.

Three premises on the items of all versions of a vault stand in the properties, since other clients of
the vault make the items and the agent takes them as they are: `ItemsKeepTheirKey` (an item is not given
another key), `OneItemPerKey`, and `KeysArePairs` (an item's private key is that of its public key).

## 3. Runs

| Run | Instance | Checks | States |
|---|---|---|---|
| `approval_races` | 2 calls from 2 executables, 2 commands, fairness | `TypeOK`, `ListedIsLive`, `ApprovedByUser`, `SettledOnce` (refinement), `EveryCallReturns`, `EveryRequestLeavesTheList` | 346 k |
| `approval_late_session` | 2 calls of one executable, 1 command | violates `SessionOnlyWhenApproved` | |
| `vault_races` | 1 login, 2 second-factor commands, 1 sign call, the lock command, TTL 1, fairness | `TypeOK`, `PasswordUnlocksOnce`, `CommandLockEndsSessions`, `UseDoesNotReopen`, `SignedWithKeysOfApproval`, `ExpiredKeysAreCleared` | 174 k |
| `vault_sessions` | sign call, login, tray and system lock | violates `LockEndsSessions` | |
| `session_store_races` | 2 checks, 1 session for the executable and 1 for any process, a write, a tick, fairness | `TypeOK`, `HashIsOfTheFile`, `AnswerWasValid`, `EveryCheckReturns` | 196 k |
| `accounts` | 2 accounts, 1 unlock, 2 agent calls, 1 sync, 1 edit, 1 auth request, 1 poll, 4 calls begun | `TypeOK`, `EditedUnderOwnKeys`, `OpenedByCredential` | 362 k |
| `prompt_waits` | 1 account, 1 unlock, 1 agent call, a page that submits no password, fairness | violates `WaitEnds` | |
| `config_file` | 2 writers, 3 modes | `TypeOK`, `StartKeepsMode` | 2.6 M |
| `revoked_token` | 1 writer | violates `RevokedStaysRevoked` | |
| `lock_mode` | 2 updates, 6 modes: idle with thresholds 0, 1 and 3 at a polling period of 2, timeout, screen lock, never; 2 lock tasks, fairness | `TypeOK`, `OneMode`, `EventLocks` | 464 k |
| `agent` | 7 worlds, 2 connections, chains to depth 3, fairness | `TypeOK`, `SignedWasOffered`, `OfferedIsNotRejected`, `OffersWhatFits`, `WrittenSignatureVerifies`, `EveryDecisionIsRecorded`, `EveryRequestIsAnswered` | 65 k |
| `routing_fallback` | a vault with a login | violates `FallsBackToAllKeys` | |

Why the bounds are enough to be interesting:

- Two calls and two commands let one request be answered twice, answered while it
  expires, and one call's session race another call.  Different executables make a
  session that must not cover the other call; a session for any process one that does.
- Two second-factor commands are two takers of one parked login, or one and its retry after a wrong
  code; with the sign call two passwords open the vault.  Two logins that compete for the one slot
  give nine times the states and are left to the proofs.  With a TTL of one unit an age is before the TTL or not, which is
  all that the guards tell apart.
- In the session store a write may fall between any two steps of two overlapping
  hashings, a session may expire or be revoked while a check waits for the mutex, and a
  check may compare two sessions.
- Two accounts with the same KDF parameters are the worst case for fields that do not belong
  together.  Two agent calls compete for a prompt; with the other calls, any four of
  them cross.  One attempt is enough for a wrong password to be followed by failure or, by a
  second call, another prompt.
- Two writers of the config file and any number of starts and stops: a third writer adds no new
  kind of overlap, as the proof shows.
- Two updates of the lock mode, to, from and between idle modes; the idle time may pass the threshold,
  and be broken by input, again and again.  Of the thresholds one is disabled (0), one so short that an
  absence fits between two polls, and one longer than the period, so that no return of the user is missed.
- The worlds of `agent` are those in which the answers differ: two remotes with the branch
  tracking the second; rules changed by a sync between two requests; a git process that ends,
  or whose pid is taken, during the walk; no pids (Unix); a circle of parents after the reuse of a pid;
  a submodule over a URL with a scheme, an organization's item with its own key, and a deleted
  item; items that do not decrypt or have no private key.
- What remains small in these instances is general in the proofs, which assume no bound
  on the number of calls, commands, logins, sessions, accounts, writers or updates.

Symmetry (of config writers) is used only where safety alone is checked.

Deadlock checking is on except in the runs of `MCGitSign`, where a connection has a bounded number of
requests.

### What the violation runs show

- `SessionOnlyWhenApproved`.  `approve_request_with_session` looks a request up, hashes a
  file, creates a session and only then answers.  If the deadline of the request passes
  between the first and the third step, the session exists although the call was denied,
  and approves later ones; the command reports success.
- `LockEndsSessions`.  The design says that locking revokes every session; the tray's Lock
  and the system events do not.
- `RevokedStaysRevoked`.  The settings page offers Revoke and Save side by side, and Save writes
  the config the page loaded when it was opened, token included.
- `WaitEnds`.  The page says it listens for the agent's password requests and the slot is there to relay the
  answer, but `LoginPage` imports `submitPassword` and never calls it: the form it shows calls `unlock`.
  `request_password` awaits its answer without a timeout, so the agent call waits for ever, also once the user
  has unlocked the vault in the page; only a later prompt releases it, by replacing its sender.
- `FallsBackToAllKeys`.  The comment on `route_entries` promises all keys where none matches and
  none is generic; a login, card or note without rules counts as generic, so that in a vault that
  has one the listing is empty instead.

Behaviour worth knowing that no source line forbids, visible in the models:

- a login whose sync ends after the vault was locked opens it again (`SyncAnswered`), and so does a
  device login's poll under way when it is cancelled (`PollSynced`);
- a wrong code puts its login back over a newer one or after a lock (`CodeAnswered`);
- a change of lock mode makes expired keys usable until they are cleared (`UpdateLockMode`, the
  exception in `UseDoesNotReopen`);
- keys stored between the expiry check and the clearing are cleared though they are fresh
  (`LoopClear`), and a sync that fails its authorization clears keys stored after it began
  (`SyncReply`);
- the expiry check is in the same loop as a sync whose HTTP client has no timeout: while a server
  stays silent, expired keys stay cached (and unusable), so `ExpiredKeysAreCleared` needs a server
  that answers;
- a signature uses the keys cached when it is made even if their TTL has passed since the call was
  admitted (`SignData` looks for keys, not at their age);
- a lock after the second snapshot of `sign()` does not stop the signature (`SnapshotToSign`, `SignData`);
- a second-factor command that names an unknown provider loses the parked login (`TakePending`);
- idle mode with 0 seconds, which an emptied field of the settings page gives, never locks; with a threshold
  no longer than the polling period (5 s) an absence is missed if no poll has seen the user since the one
  before; and when the polling thread cannot be spawned, which is only logged, or the idle time cannot be
  read, idle mode does not lock (`SetThreshold`, `PollQueryFails`);
- an `@` in the path of a remote's URL makes what follows it the host (`NormalizeRemoteUrl`);
- a re-unlock that overlaps a login to another account stores its sync and its renewed token
  (`Renewed`, `Resynced`, `Synced`) beside the other account's keys; `OpenedByCredential` shows
  that such a mixture does not open with the wrong password, and `EditedUnderOwnKeys` that it does not
  spoil an item with a key of its own; items under the user's key are written with the wrong key in
  that case;
- a device login keeps the KDF parameters of the login before it, so a later re-unlock with the
  password may fail;
- a lock between `ensure_unlocked` and the look for the item gives an unknown item, to which
  `allowed_entry_ids` does not apply: the request is asked about and then fails at `SignData`, unless
  the vault is opened in time (the exception in `SignedWasOffered`);
- if two items hold one public key, `sign` looks at the first alone and may turn down a key that a
  listing offered (excluded by `OneItemPerKey`).

### Fairness

- `Approval`: weak fairness of each sign call that has asked (the runtime schedules its
  task, and tokio's timer fires) and of each command begun.  None for clients, the user,
  or the sessions' end.
- `Vault`: weak fairness of the background task's own steps (`LoopStep`), and that the server
  answers (`SyncReply`), which the code does not ensure.  None for logins, sign calls, locks or the
  user.
- `SessionStore`: weak fairness of each check.  It is enough although the mutex is not
  fair, because a call takes it once, and finitely many calls are made in an instance;
  with endless calls a fair mutex would be needed.
- `Accounts`: in `prompt_waits`, weak fairness of an agent call's own steps (`LocalStep`).  None for the
  server, whose client has no timeout, or for the page and the user.  The other run is of safety alone.
- `LockMode`: weak fairness of an update begun, of the polling thread and of time; strong fairness of
  `LockTask`, whose mutex is tokio's and is given in the order of asking.
- `GitSign`: weak fairness of each connection's handler except in a login (`Proceed`): a prompt may never be
  answered, as `prompt_waits` shows, nor may the server.  `EveryRequestIsAnswered` therefore excepts requests
  that wait for a login.  A decision comes, as `EveryCallReturns` of `Approval` shows; queries of the
  operating system return.
- `ConfigFile`: none.

## 4. Proofs

Every theorem holds for any values of the constants that satisfy the named assumption of
its module (`ApprovalConstants`, `VaultConstants`, `StoreConstants`, `AccountConstants`,
`ConfigConstants`, `LockModeConstants`, `WorldAssumption`, `DepthAssumption`, `SignersAssumption`): types of the
functions, distinctness of the reserved values, disjointness of the kinds of calls, thresholds within
their bounds, vaults that were synced, principals that are not empty.  TLC evaluates the
assumptions in each run.  Each proof has the same shape: a lemma for the initial state, one per
group of actions, an inductive invariant from these, and a few lines per property.

**ApprovalProofs.**  `IInv` adds to `TypeOK`, `ListedIsLive` and `ApprovedByUser`:

- `ClicksOK`: a command that has begun has its arguments;
- `KnownAreListed`: the page knows only of requests that have been created;
- `SenderOK`: a sender in the map belongs to a call that waits or is just giving up, and
  its channel is empty;
- `YesIsTheUsers`: a "yes" in a channel is the user's;
- `OutcomeOK`: an outcome exists exactly at the end.

`ListedIsLive` is not inductive alone: that a handler may remove the sender first rests on
`SenderOK`, and that nothing lists a request again rests on `KnownAreListed`.  Theorems:
`TypeCorrect`, `ListIsLive`, `ApprovalIsTheUsers`, and `QueueKeepsPromise`, which shows
that every step of `Approval` is a step of `ApprovalPromise` or a stutter under the
refinement mapping; the step that matters is `AnswerSettles`, where an answer that finds
no sender changes nothing.

**VaultProofs.**  `IInv` adds `CachedIsSpent` (a password whose keys are cached has been
used, so it cannot be stored again), `SessionsAreAnswers` and `RevokedStayRevoked` (a call
makes its session once, so one that was revoked does not come back).  Theorems:
`TypeCorrect`, `OnePasswordOneUnlock`, `CommandRevokes`, and two action properties:
`NoReopening`, from the fact that the check and the touch are under one acquisition, and
`NoLateSignature`: the keys a call signs with were in the cache at some moment since its approval.  The
snapshot is a copy, so the vault at the signature says nothing of it; `CopiedSinceApproval` carries what it
says from `SnapshotToSign` to `SignData`, whatever comes in between.

**SessionStoreProofs.**  `IInv` adds `CacheOK` (a cached hash is one of the file at or after
the mtime it is filed under), `HashingOK` (the same of a call between its steps),
`EndedStays` (what had ended when a check was called is out of the store, or too old for
the time the check has read) and `Candidates` (a check only compares other sessions).
`CacheOK` is why the race in `hash_file_cached` is harmless: the mtime is read first, so
the entry is at worst too new for its mtime, and a hit requires the mtime to be the
file's own at the moment of the call.  Theorems: `TypeCorrect`, `CacheIsTransparent`,
`NoLateAnswer`.

**AccountsProofs.**  `IInv` adds to `TypeOK` and `EditedUnderOwnKeys`:

- `CallsFit`: a call past the reading of the email has an owner; a re-unlock that is about to store
  keys was given that owner's password; an edit that is about to write an item with its own key has
  encrypted with that key;
- `SlotsWait`: a sender in a slot is of a call that waits for it;
- `PollsAreApproved`: a poll past the server's answer has cloned a request approved for its account.

`OpensForOwner` is the heart: whichever fields lie side by side, `Opens` can succeed only if email,
password and protected keys are of one account.  `SealedUnder` says that an item with its own key is
opened under that key whoever's user key is cached.  Theorems: `TypeCorrect`, `EditsStayReadable`,
`OnlyCredentialsOpen`, the last an action property that is proved step by step: of the actions, only
`SyncAnswered`, `FirstSync`, `Reunlock` and `PollSynced` store keys.

**ConfigFileProofs.**  `IInv` adds `LegacyIsRead` (a config in memory has no field of the older
version, so a file written by this version is not migrated twice), `ModesAreKnown` (the mode the file
loads as is one of those a start may find, and so is that in the memory of every command that
will write it) and `LoadersChange` (only commands that change one field load).  Theorems:
`TypeCorrect`, `StartKeepsSavedMode`.

**LockModeProofs.**  `IInv` adds `OneWriter` (at most one update is between its first and last step)
to `OneMode`, with the half-way states of an update.  Theorems: `TypeCorrect`, `ModesAgree`: the expiry
check, the events and the idle threshold follow one mode.  Whether a polling thread runs is no part of it,
since one may fail to start.

**AgentProofs** has what every step of the agent keeps, whoever its clients are, and **GitSignProofs**
adds the signing program and the theorems.  `AgentInv` has four parts:

- `WorldFits`: the vault's version is one of the world's, and an open vault has one;
- `SessionsFit`: each connection has its shape (`Shaped`), and two facts about what it remembers.
  `Lists`: `allowed` and `listed` are of one listing, so under `ItemsKeepTheirKey` an item allowed has its
  key listed, and under `OneItemPerKey` a key listed has its item allowed.  `Looks`: a request past the lookup
  stands by the item it found, which holds the key asked for, and which `allowed` has; or has not, and then
  the request was turned down;
- `Places`: a record is on its way, in the log or refused, never in two of these or twice in the log;
- `Recorded`: a request has at most one record, none while it is undecided, and one that says so once it is
  decided.

`SignedWasOffered` and `OfferedIsNotRejected` compare the key of a signature with a listing made in another
version of the vault, through the ids in `allowed` alone.  `Lists` is stated over the items of all versions
(`AllEntries`), so that a sync or a lock cannot disturb it; `Looks` carries the id from the lookup over the
walk and the decision to the answer.  The walk's depth (`Len(chain) <= MaxWalkDepth + 1`) needs that a walk
with a parent to query still has room for it.  `EveryDecisionIsRecorded` counts records; `Places` and the
uniqueness in `Recorded` make the two cardinalities one.

`IInv` of GitSignProofs adds `ProgFits`: while the program waits for its signature, its connection's
request is the one it made, with its key and flags; an answer, and then the file, is `Good`: by that key, and
for RSA with SHA-512.  `GitConnServed` is that step of the agent.  That git can read what was written rests on
what the command lines mean (`FindParsed`, `VerifyParsed`, `CheckParsed`, `MatchParsed`, `SignParsed`).
`OptionOf` is a recursive function; `OptionsAre` says what it is once the places of the values are given
(`ValuesAre`), for every principal and data, and is proved with a smallest index at which it would differ.  Theorems: `TypeCorrect`,
`NoSignatureWithoutOffer`, `NoRejectionOfAnOffer`, `WrittenVerifies`, `NoDecisionWithoutRecord`, and
`ListingFits`, an action property: a successful listing offers the keys of the items whose rules name the URL
found and of those without rules, or all keys if there are none.

Only model-checked:

- liveness (`EveryCallReturns`, `EveryRequestLeavesTheList`, `ExpiredKeysAreCleared`,
  `EveryCheckReturns`, `EventLocks`, `EveryRequestIsAnswered`), since fairness and ENABLED
  are beyond the prover;
- `OffersWhatFits` as a whole: the repository that a connection's listing should be for is written in
  each world, and `GitContext` and `ProcessChain`, which find it, walk up directories and filter the
  chain, which is induction over data.  Its second half, from the URL found to the keys offered, is
  `ListingFits`;
- the properties that do not hold.

## 5. Not modelled

- Cryptographic primitives (`cipherstring.rs`, key derivation): ideal in `Ciphers`.  Locked memory.
- The wire format of the server's and the agent's protocol: parsed answers are choices.
- The transport's listening, access control lists and I/O (`pipe.rs`); a connection is there, with
  its pid, and its requests come in turn.
- Command lines of processes and the Windows structures they are read from: they are shown, and
  nothing decides by them.
- SQLite and the page's filters of the log.
- `list_keys`, `get_git_signing_status`, `configure_git_signing`: they show state or run `git config`.
- Which fields of an item `build_cipher_update_body` keeps; the word list of the fingerprint phrase.
- The pages, but for the settings page's copy of the config: any command may come at any time.  The
  order of events told to a page is not modelled, so nothing is said of what it shows.
- The end of the process while records are on their way to the log.
- A change of the server's URL or proxy at run time: the agent keeps the HTTP client it was started
  with, which is data here.
