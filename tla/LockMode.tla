------------------------------ MODULE LockMode ------------------------------
(***************************************************************************)
(* The lock mode while the program runs: system_events.rs of src-tauri,    *)
(* with update_lock_mode of commands.rs.  The mode is in State (cache_ttl, *)
(* under the mutex agent_state) and in three atomics that OS callbacks and *)
(* the idle-polling thread read without a lock.  An event of the mode      *)
(* spawns a task that locks the vault once it gets the mutex.              *)
(*                                                                         *)
(* Time is counted in a unit the polling thread sleeps Period of (5 s).    *)
(* Expiry by cache_ttl is in Vault.tla; the mode the process starts with   *)
(* comes from ConfigFile.tla.                                              *)
(***************************************************************************)
EXTENDS Naturals

CONSTANTS Modes,       \* the modes the user chooses from, see LockModes
          Updates,     \* calls of update_lock_mode at one time
          Period,      \* the polling thread's sleep
          MaxIdle,     \* bound: an idle time past it is not told from it
          MaxSpawned   \* bound: lock tasks spawned and not yet run

Kinds == {"timeout", "idle", "sleep", "lock", "restart", "never"}

\* config::LockMode; nothing bounds the seconds (0 in a mode without any).
LockModes == [kind : Kinds, seconds : Nat]

ASSUME LockModeConstants ==
    /\ Modes \subseteq LockModes
    /\ Period \in Nat \ {0} /\ MaxSpawned \in Nat
    /\ MaxIdle \in Nat /\ \A m \in Modes : m.kind = "idle" => m.seconds <= MaxIdle

\* LockMode::cache_ttl, an Option as a set.
CacheTtl(m) == {s \in {m.seconds} : m.kind = "timeout"}

IdleDisabled == 0

\* What set_lock_mode stores as the idle threshold; SystemIdle of 0 s is disabled.
IdleSeconds(m) == IF m.kind = "idle" THEN m.seconds ELSE IdleDisabled

VARIABLES ttl,        \* State.cache_ttl
          kind,       \* LOCK_MODE_KIND
          threshold,  \* IDLE_THRESHOLD_SECONDS
          triggered,  \* IDLE_TRIGGERED
          polling,    \* IDLE_THREAD_STARTED
          poll,       \* where the thread stands, and the threshold it loaded
          wait,       \* time until it polls again
          armed,      \* it has seen the user since it last locked (history)
          update,     \* where each update_lock_mode call stands, and its mode
          keys,       \* the vault is open
          idle,       \* time since the last input
          spawned,    \* lock_vault tasks that have not run
          owed        \* an event of the mode found the vault open (history)

modeVars == <<ttl, kind, threshold, polling>>
pollVars == <<triggered, poll, wait, armed>>
vars == <<modeVars, pollVars, update, keys, idle, spawned, owed>>

\* main: State::new and system_events::init with the mode of the config.
Init ==
    \E m \in Modes :
    /\ ttl = CacheTtl(m) /\ kind = m.kind /\ threshold = IdleSeconds(m)
    /\ polling \in {FALSE, m.kind = "idle"}   \* the thread may not start
    /\ triggered = FALSE /\ armed = TRUE
    /\ poll = [at |-> "asleep", threshold |-> IdleDisabled] /\ wait = 0
    /\ update = [u \in Updates |-> [at |-> "idle", mode |-> m]]
    /\ keys = FALSE
    /\ idle = 0
    /\ spawned = 0
    /\ owed = FALSE

\* agent_state is held from the first step of an update to its last.
Free == \A u \in Updates : update[u].at = "idle"

----------------------------------------------------------------------------
(* update_lock_mode                                                        *)

\* Mutant: the mutex is released before set_lock_mode.
SetTtlBriefly(u) ==
    /\ update[u].at = "idle"
    /\ \E m \in Modes :
         ttl' = CacheTtl(m) /\ update' = [update EXCEPT ![u] = [at |-> "kind", mode |-> m]]
    /\ UNCHANGED <<kind, threshold, polling, pollVars, keys, idle, spawned, owed>>

SetTtl(u) ==
    /\ Free
    /\ \E m \in Modes :
         ttl' = CacheTtl(m) /\ update' = [update EXCEPT ![u] = [at |-> "kind", mode |-> m]]
    /\ UNCHANGED <<kind, threshold, polling, pollVars, keys, idle, spawned, owed>>

\* set_lock_mode; what an event of the earlier mode owed is given up.
SetKind(u) ==
    /\ update[u].at = "kind"
    /\ kind' = update[u].mode.kind
    /\ update' = [update EXCEPT ![u].at = "threshold"]
    /\ owed' = (owed /\ kind' = kind)
    /\ UNCHANGED <<ttl, threshold, polling, pollVars, keys, idle, spawned>>

\* update_idle_threshold, which releases the latch in the modes without a
\* threshold; then ensure_idle_thread_started for SystemIdle, where a thread that
\* cannot be spawned is logged and the mode stands.
SetThreshold(u) ==
    /\ update[u].at = "threshold"
    /\ LET m == update[u].mode
       IN  /\ threshold' = IdleSeconds(m)
           /\ triggered' = (triggered /\ m.kind = "idle")
           /\ armed' = (armed \/ m.kind # "idle")
           /\ polling' \in {polling, polling \/ m.kind = "idle"}
    /\ update' = [update EXCEPT ![u].at = "idle"]
    /\ owed' = (owed /\ threshold' = threshold)
    /\ UNCHANGED <<ttl, kind, poll, wait, keys, idle, spawned>>

----------------------------------------------------------------------------
(* Events, and the tasks they spawn.                                       *)

\* A login or a sign call opens the vault.
Open ==
    /\ Free
    /\ keys' = TRUE
    /\ UNCHANGED <<modeVars, pollVars, update, idle, spawned, owed>>

Spawn == spawned < MaxSpawned /\ spawned' = spawned + 1

\* Mutant: a task locks again after it has run.
LockTaskAgain ==
    /\ Free
    /\ spawned' = spawned - 1
    /\ keys' = FALSE /\ owed' = FALSE
    /\ UNCHANGED <<modeVars, pollVars, update, idle>>

\* lock_vault
LockTask ==
    /\ spawned > 0 /\ Free
    /\ spawned' = spawned - 1
    /\ keys' = FALSE /\ owed' = FALSE
    /\ UNCHANGED <<modeVars, pollVars, update, idle>>

\* Suspend, screen lock, shutdown: each locks in the mode named for it.
SystemEvent ==
    /\ kind \in {"sleep", "lock", "restart"}
    /\ Spawn
    /\ owed' = (owed \/ keys)
    /\ UNCHANGED <<modeVars, pollVars, update, keys, idle>>

----------------------------------------------------------------------------
(* idle_poll_loop, against the updates that run between its steps.         *)

Sleep == poll' = [poll EXCEPT !.at = "asleep"] /\ wait' = Period

PollLoad ==
    /\ polling /\ poll.at = "asleep" /\ wait = 0
    /\ poll' = [at |-> IF threshold = IdleDisabled THEN "release" ELSE "query",
                threshold |-> threshold]
    /\ UNCHANGED <<modeVars, triggered, wait, armed, update, keys, idle, spawned, owed>>

PollQuery ==
    /\ poll.at = "query"
    /\ poll' = [poll EXCEPT !.at = IF idle >= poll.threshold THEN "trigger" ELSE "release"]
    /\ UNCHANGED <<modeVars, triggered, wait, armed, update, keys, idle, spawned, owed>>

\* current_idle_seconds is None: the latch stays as it is, and an absence nobody
\* can measure is owed nothing.
PollQueryFails ==
    /\ poll.at = "query"
    /\ Sleep
    /\ owed' = (owed /\ kind # "idle")
    /\ UNCHANGED <<modeVars, triggered, armed, update, keys, idle, spawned>>

\* The swap of the latch: one lock for one absence.
PollTrigger ==
    /\ poll.at = "trigger"
    /\ IF triggered THEN UNCHANGED spawned ELSE Spawn
    /\ triggered' = TRUE /\ armed' = FALSE
    /\ Sleep
    /\ UNCHANGED <<modeVars, update, keys, idle, owed>>

\* Mutant: the latch is not released when the user is back.
PollKeepsLatch ==
    /\ poll.at = "release"
    /\ triggered' = (triggered /\ poll.threshold # IdleDisabled) /\ armed' = TRUE
    /\ Sleep
    /\ UNCHANGED <<modeVars, update, keys, idle, spawned, owed>>

\* The user was seen, or there is no threshold.
PollRelease ==
    /\ poll.at = "release"
    /\ triggered' = FALSE /\ armed' = TRUE
    /\ Sleep
    /\ UNCHANGED <<modeVars, update, keys, idle, spawned, owed>>

----------------------------------------------------------------------------
(* Time and the user.                                                      *)

\* Time without input; a poll takes none.  The vault is owed a lock when the idle
\* time reaches the threshold; one opened later, without input, is not.
Tick ==
    /\ polling => poll.at = "asleep" /\ wait > 0
    /\ wait' = IF wait > 0 THEN wait - 1 ELSE wait
    /\ idle' = IF idle < MaxIdle THEN idle + 1 ELSE idle
    /\ owed' = (owed \/ /\ keys /\ Free /\ kind = "idle" /\ polling /\ armed
                        /\ idle < idle' /\ idle' = threshold)
    /\ UNCHANGED <<modeVars, triggered, poll, armed, update, keys, spawned>>

\* The user is back.
Input ==
    /\ idle > 0
    /\ idle' = 0
    /\ owed' = (owed /\ kind # "idle")
    /\ UNCHANGED <<modeVars, pollVars, update, keys, spawned>>

UpdateStep == \E u \in Updates : SetKind(u) \/ SetThreshold(u)

PollStep == PollLoad \/ PollQuery \/ PollQueryFails \/ PollTrigger \/ PollRelease

Next ==
    \/ \E u \in Updates : SetTtl(u)
    \/ UpdateStep
    \/ Open \/ LockTask \/ SystemEvent \/ PollStep \/ Tick \/ Input

\* A call under way goes on, the mutex is given to who waits for it, and the
\* polling thread wakes up while time passes.
Spec == /\ Init /\ [][Next]_vars
        /\ WF_vars(UpdateStep)
        /\ SF_vars(LockTask)
        /\ WF_vars(PollStep)
        /\ WF_vars(Tick)
----------------------------------------------------------------------------
(* Properties                                                              *)

TypeOK ==
    /\ ttl \in {CacheTtl(m) : m \in Modes} /\ kind \in {m.kind : m \in Modes}
    /\ threshold \in {IdleSeconds(m) : m \in Modes} \cup {IdleDisabled}
    /\ triggered \in BOOLEAN /\ polling \in BOOLEAN /\ armed \in BOOLEAN
    /\ poll \in [at : {"asleep", "query", "trigger", "release"}, threshold : 0..MaxIdle]
    /\ wait \in 0..Period
    /\ update \in [Updates -> [at : {"idle", "kind", "threshold"}, mode : Modes]]
    /\ keys \in BOOLEAN
    /\ idle \in 0..MaxIdle
    /\ spawned \in 0..MaxSpawned
    /\ owed \in BOOLEAN

\* Expiry by time, locking by events and the idle threshold follow one and the
\* same mode: whatever calls of update_lock_mode come together, the mutex's part
\* of the mode and the atomics agree whenever no call is under way.
OneMode ==
    Free => \E m \in Modes :
              ttl = CacheTtl(m) /\ kind = m.kind /\ threshold = IdleSeconds(m)

\* An event of the active mode that finds the vault open locks it.  So does an
\* absence of the user, each absence anew, once the polling thread runs and has
\* seen the user since the last one (it sees every return of the user when the
\* threshold is over its period), unless the user is back before it wakes up, the
\* idle time cannot be read, or the mode changes.
EventLocks == owed ~> ~owed
=============================================================================
