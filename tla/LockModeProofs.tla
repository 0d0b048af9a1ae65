--------------------------- MODULE LockModeProofs ---------------------------
(***************************************************************************)
(* Safety of LockMode for every set of modes, any number of concurrent     *)
(* calls of update_lock_mode, and every threshold and bound.               *)
(***************************************************************************)
EXTENDS LockMode, TLAPS

\* Of the calls of update_lock_mode at most one is past its first step, and the
\* parts of the mode it has set are its own.
OneWriter ==
    \A u \in Updates :
       /\ update[u].at # "idle" => ttl = CacheTtl(update[u].mode)
       /\ update[u].at = "threshold" => kind = update[u].mode.kind
       /\ \A v \in Updates \ {u} : update[u].at # "idle" => update[v].at = "idle"

IInv == TypeOK /\ OneMode /\ OneWriter
-----------------------------------------------------------------------------
LEMMA Thresholds == \A m \in Modes : IdleSeconds(m) \in 0..MaxIdle
  <1> TAKE m \in Modes
  <1>1. MaxIdle \in Nat /\ m.seconds \in Nat /\ (m.kind = "idle" => m.seconds <= MaxIdle)
    BY LockModeConstants DEF LockModes
  <1>2. CASE m.kind = "idle"
    BY <1>1, <1>2 DEF IdleSeconds
  <1>3. CASE m.kind # "idle"
    BY <1>1, <1>3 DEF IdleSeconds, IdleDisabled
  <1> QED BY <1>2, <1>3

LEMMA InitIInv == Init => IInv
  <1> SUFFICES ASSUME Init PROVE IInv
      OBVIOUS
  <1>1. PICK m \in Modes :
          /\ ttl = CacheTtl(m) /\ kind = m.kind /\ threshold = IdleSeconds(m)
          /\ polling \in {FALSE, m.kind = "idle"}
          /\ update = [u \in Updates |-> [at |-> "idle", mode |-> m]]
    BY DEF Init
  <1>2. TypeOK
    <2>1. polling \in BOOLEAN
      BY <1>1
    <2>2. update \in [Updates -> [at : {"idle", "kind", "threshold"}, mode : Modes]]
      BY <1>1
    <2>3. idle \in 0..MaxIdle /\ spawned \in 0..MaxSpawned /\ wait \in 0..Period
      BY LockModeConstants DEF Init
    <2>4. poll \in [at : {"asleep", "query", "trigger", "release"}, threshold : 0..MaxIdle]
      BY LockModeConstants DEF Init, IdleDisabled
    <2> QED BY <1>1, <2>1, <2>2, <2>3, <2>4 DEF Init, TypeOK
  <1>3. OneMode
    BY <1>1 DEF OneMode
  <1>4. OneWriter
    BY <1>1 DEF OneWriter
  <1> QED BY <1>2, <1>3, <1>4 DEF IInv

LEMMA UpdateIInv ==
    ASSUME IInv, NEW u \in Updates, SetTtl(u) \/ SetKind(u) \/ SetThreshold(u)
    PROVE  IInv'
  <1> USE DEF IInv, TypeOK, pollVars
  <1>1. CASE SetTtl(u)
    <2>1. PICK m \in Modes :
            ttl' = CacheTtl(m) /\ update' = [update EXCEPT ![u] = [at |-> "kind", mode |-> m]]
      BY <1>1 DEF SetTtl
    <2>2. TypeOK'
      BY <1>1, <2>1 DEF SetTtl
    <2>3. /\ update'[u].at = "kind" /\ update'[u].mode = m
          /\ \A v \in Updates \ {u} : update'[v].at = "idle"
      BY <1>1, <2>1 DEF SetTtl, Free
    <2>4. ~Free'
      BY <2>3 DEF Free
    <2>5. OneWriter'
      BY <2>1, <2>3 DEF OneWriter
    <2> QED BY <2>2, <2>4, <2>5 DEF OneMode
  <1>2. CASE SetKind(u)
    <2>1. TypeOK'
      BY <1>2 DEF SetKind
    <2>2. ~Free'
      BY <1>2 DEF SetKind, Free
    <2>3. OneWriter'
      BY <1>2 DEF SetKind, OneWriter
    <2> QED BY <2>1, <2>2, <2>3 DEF OneMode
  <1>3. CASE SetThreshold(u)
    <2>1. TypeOK'
      BY <1>3 DEF SetThreshold
    <2>2. OneWriter'
      BY <1>3 DEF SetThreshold, OneWriter
    <2>3. /\ update[u].mode \in Modes
          /\ ttl' = CacheTtl(update[u].mode) /\ kind' = update[u].mode.kind
          /\ threshold' = IdleSeconds(update[u].mode)
      BY <1>3 DEF SetThreshold, OneWriter
    <2>4. OneMode'
      BY <2>3 DEF OneMode
    <2> QED BY <2>1, <2>2, <2>4
  <1> QED BY <1>1, <1>2, <1>3

\* The vault, the events, the polling thread and the user leave the mode alone.
LEMMA OtherIInv ==
    ASSUME IInv, Open \/ LockTask \/ SystemEvent \/ PollStep \/ Tick \/ Input
    PROVE  IInv'
  <1> USE LockModeConstants DEF IInv, modeVars, pollVars
  <1>1. UNCHANGED <<ttl, kind, threshold, polling, update>>
    BY DEF Open, LockTask, SystemEvent, PollStep, PollLoad, PollQuery, PollQueryFails,
           PollTrigger, PollRelease, Tick, Input
  <1>2. OneMode' /\ OneWriter'
    BY <1>1 DEF OneMode, OneWriter, Free
  <1>3. CASE Open \/ LockTask \/ SystemEvent
    <2>1. spawned' \in 0..MaxSpawned
      BY <1>3 DEF TypeOK, Open, LockTask, SystemEvent, Spawn
    <2> QED BY <1>1, <1>2, <1>3, <2>1 DEF TypeOK, Open, LockTask, SystemEvent
  <1>4. CASE PollStep
    <2>1. spawned' \in 0..MaxSpawned
      BY <1>4 DEF TypeOK, PollStep, PollLoad, PollQuery, PollQueryFails, PollTrigger,
                  PollRelease, Spawn
    <2>2. threshold \in 0..MaxIdle
      BY Thresholds DEF TypeOK, IdleDisabled
    <2>3. poll' \in [at : {"asleep", "query", "trigger", "release"}, threshold : 0..MaxIdle]
      BY <1>4, <2>2 DEF TypeOK, PollStep, PollLoad, PollQuery, PollQueryFails, PollTrigger,
                        PollRelease, Sleep
    <2>4. triggered' \in BOOLEAN /\ armed' \in BOOLEAN
      BY <1>4, Zenon DEF TypeOK, PollStep, PollLoad, PollQuery, PollQueryFails, PollTrigger,
                         PollRelease
    <2>6. wait' \in 0..Period
      BY <1>4 DEF TypeOK, PollStep, PollLoad, PollQuery, PollQueryFails, PollTrigger,
                  PollRelease, Sleep
    <2>5. owed' \in BOOLEAN /\ UNCHANGED <<keys, idle>>
      BY <1>4 DEF TypeOK, PollStep, PollLoad, PollQuery, PollQueryFails, PollTrigger,
                  PollRelease
    <2> QED BY <1>1, <1>2, <2>1, <2>3, <2>4, <2>5, <2>6 DEF TypeOK
  <1>5. CASE Tick \/ Input
    <2>1. idle' \in 0..MaxIdle /\ wait' \in 0..Period
      BY <1>5 DEF TypeOK, Tick, Input
    <2>2. owed' \in BOOLEAN
      BY <1>5 DEF TypeOK, Tick, Input
    <2> QED BY <1>1, <1>2, <1>5, <2>1, <2>2 DEF TypeOK, Tick, Input
  <1> QED BY <1>3, <1>4, <1>5

LEMMA NextIInv == IInv /\ [Next]_vars => IInv'
  <1> SUFFICES ASSUME IInv, [Next]_vars PROVE IInv'
      OBVIOUS
  <1>1. CASE UNCHANGED vars
    BY <1>1 DEF vars, modeVars, pollVars, IInv, TypeOK, OneMode, OneWriter, Free
  <1>2. CASE Next
    BY <1>2, UpdateIInv, OtherIInv DEF Next, UpdateStep
  <1> QED BY <1>1, <1>2
-----------------------------------------------------------------------------
\* Every variable keeps its type; no more lock tasks wait than were spawned.
THEOREM TypeCorrect == Spec => []TypeOK
  <1>1. IInv => TypeOK BY DEF IInv
  <1> QED BY InitIInv, NextIInv, <1>1, PTL DEF Spec

\* However many calls of update_lock_mode come together, the expiry check, the event
\* handlers and the idle threshold follow one mode between calls, a threshold of 0 s
\* and a thread that could not be spawned included (commands.rs, update_lock_mode;
\* system_events.rs, set_lock_mode).
THEOREM ModesAgree == Spec => []OneMode
  <1>1. IInv => OneMode BY DEF IInv
  <1> QED BY InitIInv, NextIInv, <1>1, PTL DEF Spec
=============================================================================
