---------------------------- MODULE VaultProofs ----------------------------
(***************************************************************************)
(* Safety of Vault for every set of passwords, commands, sign calls and    *)
(* lock requests, every TTL and every bound on ages.                       *)
(***************************************************************************)
EXTENDS Vault, TLAPS

\* A password whose keys are cached has been used: it opens nothing again.
CachedIsSpent ==
    /\ \A p \in Unlocks : keys = p => unlock[p] = "done"
    /\ \A s \in Signs : keys = s => sign[s] \notin {"idle", "prompt", "auth"}

\* A sign call makes at most one session, and makes it when it is answered.
SessionsAreAnswers ==
    \A s \in Signs :
        s \in sessions \/ (\E l \in Locks : s \in before[l]) =>
            sign[s] \in {"granted", "approved", "decrypt", "signed", "failed"}

\* A lock command past revoke_all has left none of the sessions it found.
RevokedStayRevoked ==
    \A l \in Locks :
        LockKind[l] = "command" /\ lock[l] \in {"drop", "done"} =>
            sessions \cap before[l] = {}

Inductive ==
    /\ PasswordUnlocksOnce
    /\ CachedIsSpent
    /\ SessionsAreAnswers
    /\ RevokedStayRevoked

IInv == TypeOK /\ Inductive

\* What the history records of an approved call: the keys of now, and the ones the
\* call has copied.
CopiedSinceApproval ==
    \A s \in Signs :
        /\ sign[s] = "approved" => keys \in since[s] \cup {Nobody}
        /\ sign[s] = "decrypt"  => snap[s] \in since[s] \cup {Nobody}

\* The type of the history, stated for the next state.
WitnessTyped == since' \in [Signs -> SUBSET Passwords]
-----------------------------------------------------------------------------
LEMMA InitIInv == Init => IInv
  <1> SUFFICES ASSUME Init PROVE IInv
      OBVIOUS
  <1>1. TypeOK
    BY VaultConstants DEF Init, TypeOK, UnlockPoint, TwoFaPoint, SignPoint, LockPoint, LoopPoint
  <1>2. Inductive
    BY VaultConstants DEF Init, Inductive, PasswordUnlocksOnce, CachedIsSpent,
       SessionsAreAnswers, RevokedStayRevoked
  <1> QED BY <1>1, <1>2 DEF IInv

LEMMA LoginStepIInv == IInv /\ LoginStep /\ WitnessTyped => IInv'
  <1> SUFFICES ASSUME IInv, LoginStep, WitnessTyped PROVE IInv'
      OBVIOUS
  <1> USE VaultConstants
      DEF IInv, Inductive, TypeOK, PasswordUnlocksOnce, CachedIsSpent, SessionsAreAnswers,
          RevokedStayRevoked, WitnessTyped, Passwords, UnlockPoint, TwoFaPoint, cache, signVars,
          lockVars
  <1>1. ASSUME NEW p \in Unlocks, Unlock(p) PROVE IInv'
    BY <1>1 DEF Unlock, UnlockGoto
  <1>2. ASSUME NEW p \in Unlocks, LoginAnswered(p) PROVE IInv'
    BY <1>2 DEF LoginAnswered, UnlockGoto
  <1>3. ASSUME NEW p \in Unlocks, SyncAnswered(p) PROVE IInv'
    BY <1>3 DEF SyncAnswered, UnlockGoto, SetUnlocked
  <1>4. ASSUME NEW t \in TwoFactors, TwoFactor(t) PROVE IInv'
    BY <1>4 DEF TwoFactor, TwoFaGoto
  <1>5. ASSUME NEW t \in TwoFactors, TakePending(t) PROVE IInv'
    BY <1>5 DEF TakePending, TwoFaGoto
  <1>6. ASSUME NEW t \in TwoFactors, CodeAnswered(t) PROVE IInv'
    BY <1>6 DEF CodeAnswered, TwoFaGoto, UnlockGoto
  <1> QED BY <1>1, <1>2, <1>3, <1>4, <1>5, <1>6 DEF LoginStep

LEMMA SignStepIInv == IInv /\ SignStep /\ WitnessTyped => IInv'
  <1> SUFFICES ASSUME IInv, WitnessTyped, NEW s \in Signs,
                      \/ EnsureUnlocked(s) \/ PasswordAnswered(s) \/ TryLogin(s)
                      \/ FindEntry(s) \/ CheckSession(s)
                      \/ Remember(s) \/ Answered(s)
                      \/ SnapshotToSign(s) \/ SignData(s)
               PROVE  IInv'
      BY DEF SignStep
  <1> USE VaultConstants
      DEF IInv, Inductive, TypeOK, PasswordUnlocksOnce, CachedIsSpent, SessionsAreAnswers,
          RevokedStayRevoked, WitnessTyped, Passwords, SignPoint, SignGoto, SignFails, cache,
          loginVars, lockVars
  <1>1. CASE EnsureUnlocked(s)
    BY <1>1 DEF EnsureUnlocked, Touch
  <1>2. CASE PasswordAnswered(s)
    BY <1>2 DEF PasswordAnswered
  <1>3. CASE TryLogin(s)
    BY <1>3 DEF TryLogin, SetUnlocked
  <1>4. CASE FindEntry(s)
    BY <1>4 DEF FindEntry
  <1>5. CASE CheckSession(s)
    BY <1>5 DEF CheckSession
  <1>6. CASE Remember(s)
    BY <1>6 DEF Remember
  <1>7. CASE Answered(s)
    BY <1>7 DEF Answered
  <1>8. CASE SnapshotToSign(s)
    BY <1>8 DEF SnapshotToSign
  <1>9. CASE SignData(s)
    BY <1>9 DEF SignData
  <1> QED BY <1>1, <1>2, <1>3, <1>4, <1>5, <1>6, <1>7, <1>8, <1>9

LEMMA LockStepIInv == IInv /\ LockStep /\ WitnessTyped => IInv'
  <1> SUFFICES ASSUME IInv, WitnessTyped, NEW l \in Locks,
                      BeginLock(l) \/ LockClear(l) \/ LockRevoke(l) \/ LockDropPending(l)
               PROVE  IInv'
      BY DEF LockStep
  <1> USE VaultConstants
      DEF IInv, Inductive, TypeOK, PasswordUnlocksOnce, CachedIsSpent, SessionsAreAnswers,
          RevokedStayRevoked, WitnessTyped, LockPoint, LockGoto, cache, loginVars, signVars
  <1>1. CASE BeginLock(l)
    BY <1>1 DEF BeginLock
  <1>2. CASE LockClear(l)
    BY <1>2 DEF LockClear, Clear
  <1>3. CASE LockRevoke(l)
    BY <1>3 DEF LockRevoke
  <1>4. CASE LockDropPending(l)
    BY <1>4 DEF LockDropPending
  <1> QED BY <1>1, <1>2, <1>3, <1>4

\* The background task, the clock and the lock mode.
LEMMA LoopStepIInv ==
  ASSUME IInv, LoopStep \/ SyncReply \/ Tick \/ UpdateLockMode, WitnessTyped
  PROVE  IInv'
  <1> USE VaultConstants
      DEF IInv, Inductive, TypeOK, PasswordUnlocksOnce, CachedIsSpent, SessionsAreAnswers,
          RevokedStayRevoked, WitnessTyped, LoopPoint, LoopGoto, cache, loginVars, signVars,
          lockVars
  <1>1. CASE LoopCheck \/ LoopTokens
    BY <1>1 DEF LoopCheck, LoopTokens
  <1>2. CASE LoopClear \/ SyncReply
    BY <1>2 DEF LoopClear, SyncReply, Clear
  <1>3. CASE LoopDropPending
    BY <1>3 DEF LoopDropPending
  <1>4. CASE Tick
    BY <1>4 DEF Tick
  <1>5. CASE UpdateLockMode
    BY <1>5 DEF UpdateLockMode
  <1> QED BY <1>1, <1>2, <1>3, <1>4, <1>5 DEF LoopStep

\* Only passwords become keys, so only passwords are recorded.
LEMMA StepWitness == IInv /\ Next => WitnessTyped
  <1> SUFFICES ASSUME IInv, Next PROVE WitnessTyped
      OBVIOUS
  <1> USE DEF IInv, TypeOK, Passwords, cache
  <1>1. keys' \in Passwords \cup {Nobody}
    <2>1. LoginStep => keys' \in Passwords \cup {Nobody}
      BY DEF LoginStep, Unlock, LoginAnswered, SyncAnswered, TwoFactor, TakePending,
         CodeAnswered, SetUnlocked
    <2>2. SignStep => keys' \in Passwords \cup {Nobody}
      BY DEF SignStep, EnsureUnlocked, PasswordAnswered, TryLogin, FindEntry, CheckSession,
         Remember, Answered, SnapshotToSign, SignData, SetUnlocked, Touch
    <2>3. LockStep => keys' \in Passwords \cup {Nobody}
      BY DEF LockStep, BeginLock, LockClear, LockRevoke, LockDropPending, Clear
    <2>4. LoopStep \/ SyncReply \/ Tick \/ UpdateLockMode => keys' \in Passwords \cup {Nobody}
      BY DEF LoopStep, LoopCheck, LoopClear, LoopDropPending, LoopTokens, SyncReply,
         Tick, UpdateLockMode, Clear
    <2> QED BY <2>1, <2>2, <2>3, <2>4 DEF Next
  <1>2. \A s \in Signs : since[s] \cup ({keys'} \ {Nobody}) \subseteq Passwords
    BY <1>1
  <1> QED BY <1>2 DEF Next, Witness, WitnessTyped

\* The inductive invariant holds of every behaviour.
THEOREM Inductiveness == SafeSpec => []IInv
  <1>1. IInv /\ UNCHANGED vars => IInv'
    BY DEF IInv, Inductive, TypeOK, PasswordUnlocksOnce, CachedIsSpent, SessionsAreAnswers,
       RevokedStayRevoked, vars
  <1>2. IInv /\ [Next]_vars => IInv'
    BY <1>1, StepWitness, LoginStepIInv, SignStepIInv, LockStepIInv, LoopStepIInv DEF Next
  <1> QED BY InitIInv, <1>2, PTL DEF SafeSpec

\* Every variable of the vault keeps its type.
THEOREM TypeCorrect == SafeSpec => []TypeOK
  <1>1. IInv => TypeOK
    BY DEF IInv
  <1> QED BY Inductiveness, <1>1, PTL

\* A pending login has one owner, so a password opens the vault at most once.
THEOREM OnePasswordOneUnlock == SafeSpec => []PasswordUnlocksOnce
  <1>1. IInv => PasswordUnlocksOnce
    BY DEF IInv, Inductive
  <1> QED BY Inductiveness, <1>1, PTL

\* The lock_vault command leaves none of the sessions it found.
THEOREM CommandRevokes == SafeSpec => []CommandLockEndsSessions
  <1>1. IInv => CommandLockEndsSessions
    BY DEF IInv, Inductive, RevokedStayRevoked, CommandLockEndsSessions, Forgotten
  <1> QED BY Inductiveness, <1>1, PTL

\* An expired vault stays unusable unless its keys or its lock mode change: the
\* touch of a sign call happens under the mutex of the check that allowed it, and
\* new keys come from a password not used before.
LEMMA ReopenStep ==
  ASSUME IInv, Next, IsExpired, IsUnlocked'
  PROVE  keys' # keys \/ timed' # timed
  <1> USE VaultConstants DEF IInv, Inductive, TypeOK, IsExpired, IsUnlocked
  <1>1. ~IsUnlocked
    OBVIOUS
  <1>2. CASE UNCHANGED <<cache, timed>>
    BY <1>1, <1>2 DEF cache
  <1>3. ASSUME NEW p \in Unlocks, Unlock(p) \/ LoginAnswered(p) \/ SyncAnswered(p)
        PROVE  keys' # keys \/ timed' # timed
    BY <1>2, <1>3 DEF Unlock, LoginAnswered, SyncAnswered, SetUnlocked, CachedIsSpent
  <1>4. ASSUME NEW t \in TwoFactors, TwoFactor(t) \/ TakePending(t) \/ CodeAnswered(t)
        PROVE  UNCHANGED <<cache, timed>>
    BY <1>4 DEF TwoFactor, TakePending, CodeAnswered
  <1>5. ASSUME NEW s \in Signs, EnsureUnlocked(s) \/ TryLogin(s)
        PROVE  keys' # keys \/ timed' # timed
    BY <1>1, <1>2, <1>5 DEF EnsureUnlocked, TryLogin, SetUnlocked, CachedIsSpent
  <1>6. ASSUME NEW s \in Signs,
               \/ PasswordAnswered(s) \/ FindEntry(s) \/ CheckSession(s)
               \/ Remember(s) \/ Answered(s) \/ SnapshotToSign(s) \/ SignData(s)
        PROVE  UNCHANGED <<cache, timed>>
    BY <1>6 DEF PasswordAnswered, FindEntry, CheckSession, Remember, Answered,
       SnapshotToSign, SignData
  <1>7. CASE LockStep \/ LoopStep \/ SyncReply
    <2>1. Clear \/ UNCHANGED <<cache, timed>>
      BY <1>7 DEF LockStep, BeginLock, LockClear, LockRevoke, LockDropPending, LoopStep,
         LoopCheck, LoopClear, LoopDropPending, LoopTokens, SyncReply
    <2> QED BY <1>2, <2>1 DEF Clear
  <1>8. CASE Tick
    BY <1>8 DEF Tick
  <1>9. CASE UpdateLockMode
    BY <1>9 DEF UpdateLockMode
  <1> QED
    BY <1>2, <1>3, <1>4, <1>5, <1>6, <1>7, <1>8, <1>9 DEF Next, LoginStep, SignStep

\* Use alone never reopens an expired vault.
THEOREM NoReopening == SafeSpec => UseDoesNotReopen
  <1>1. IInv /\ [Next]_vars =>
          [IsExpired /\ IsUnlocked' => keys' # keys \/ timed' # timed]_vars
    BY ReopenStep
  <1> QED BY Inductiveness, <1>1, PTL DEF SafeSpec, UseDoesNotReopen

\* What a step does to a sign call: it is one of its own, or leaves it alone.
LEMMA StepOfACall ==
  ASSUME TypeOK, Next, NEW s \in Signs
  PROVE  \/ UNCHANGED <<sign[s], snap[s]>>
         \/ SignData(s)
         \/ SnapshotToSign(s)
         \/ sign'[s] \notin {"decrypt", "signed"}
  <1>1. UNCHANGED signVars \/ SignStep
    BY DEF Next, LoginStep, Unlock, LoginAnswered, SyncAnswered, TwoFactor, TakePending,
       CodeAnswered, LockStep, BeginLock, LockClear, LockRevoke, LockDropPending, LoopStep,
       LoopCheck, LoopClear, LoopDropPending, LoopTokens, SyncReply, Tick, UpdateLockMode
  <1>2. CASE UNCHANGED signVars
    BY <1>2 DEF signVars
  <1>3. ASSUME NEW x \in Signs, x # s,
               \/ EnsureUnlocked(x) \/ PasswordAnswered(x) \/ TryLogin(x)
               \/ FindEntry(x) \/ CheckSession(x)
               \/ Remember(x) \/ Answered(x)
               \/ SnapshotToSign(x) \/ SignData(x)
        PROVE  UNCHANGED <<sign[s], snap[s]>>
    BY <1>3 DEF TypeOK, EnsureUnlocked, PasswordAnswered, TryLogin, FindEntry, CheckSession,
       Remember, Answered, SnapshotToSign, SignData, SignGoto, SignFails
  <1>4. ASSUME \/ EnsureUnlocked(s) \/ PasswordAnswered(s) \/ TryLogin(s)
               \/ FindEntry(s) \/ CheckSession(s)
               \/ Remember(s) \/ Answered(s)
        PROVE  sign'[s] \notin {"decrypt", "signed"}
    BY <1>4 DEF TypeOK, EnsureUnlocked, PasswordAnswered, TryLogin, FindEntry, CheckSession,
       Remember, Answered, SignGoto, SignFails
  <1> QED BY <1>1, <1>2, <1>3, <1>4 DEF SignStep

\* The keys a call copies once it is approved were cached since: whatever step
\* changes them while it stands approved is recorded with it.
LEMMA KeysOfApproval == SafeSpec => []CopiedSinceApproval
  <1>1. Init => CopiedSinceApproval
    BY DEF Init, CopiedSinceApproval
  <1>2. IInv /\ CopiedSinceApproval /\ [Next]_vars => CopiedSinceApproval'
    <2> SUFFICES ASSUME IInv, CopiedSinceApproval, [Next]_vars, NEW s \in Signs
                 PROVE  /\ sign'[s] = "approved" => keys' \in since'[s] \cup {Nobody}
                        /\ sign'[s] = "decrypt"  => snap'[s] \in since'[s] \cup {Nobody}
        BY DEF CopiedSinceApproval
    <2>1. CASE UNCHANGED vars
      BY <2>1 DEF CopiedSinceApproval, vars
    <2>2. ASSUME Next, sign'[s] = "approved" PROVE keys' \in since'[s] \cup {Nobody}
      BY <2>2 DEF Next, Witness
    <2>3. ASSUME Next, sign'[s] = "decrypt" PROVE snap'[s] \in since'[s] \cup {Nobody}
      <3>1. since'[s] = since[s] \cap {snap'[s]}
        BY <2>3 DEF Next, Witness
      <3>2. CASE UNCHANGED <<sign[s], snap[s]>>
        BY <2>3, <3>1, <3>2 DEF CopiedSinceApproval
      <3>3. CASE SnapshotToSign(s)
        BY <3>1, <3>3 DEF SnapshotToSign, CopiedSinceApproval, IInv, TypeOK
      <3>4. ~SignData(s)
        BY <2>3 DEF SignData, SignGoto, SignFails, IInv, TypeOK
      <3> QED BY <2>3, <3>2, <3>3, <3>4, StepOfACall DEF IInv
    <2> QED BY <2>1, <2>2, <2>3
  <1> QED BY <1>1, <1>2, Inductiveness, PTL DEF SafeSpec

\* A signature is made with keys that were cached after its approval, so keys
\* locked away before it, and not opened again, sign nothing.
THEOREM NoLateSignature == SafeSpec => SignedWithKeysOfApproval
  <1>1. ASSUME IInv, CopiedSinceApproval, Next, NEW s \in Signs,
               sign'[s] = "signed", sign[s] # "signed"
        PROVE  snap[s] \in since[s]
    <2>1. SignData(s)
      BY <1>1, StepOfACall DEF IInv, TypeOK, SnapshotToSign, SignGoto
    <2> QED BY <1>1, <2>1 DEF SignData, SignFails, SignGoto, CopiedSinceApproval, IInv, TypeOK
  <1>2. IInv /\ CopiedSinceApproval /\ [Next]_vars =>
          [\A s \in Signs :
             sign'[s] = "signed" /\ sign[s] # "signed" => snap[s] \in since[s]]_vars
    BY <1>1
  <1> QED BY Inductiveness, KeysOfApproval, <1>2, PTL DEF SafeSpec, SignedWithKeysOfApproval
=============================================================================
