------------------------- MODULE SessionStoreProofs -------------------------
(***************************************************************************)
(* Safety of SessionStore for every number of calls, every history of the  *)
(* file and every duration.                                                *)
(***************************************************************************)
EXTENDS SessionStore, TLAPS

\* h is a hash of the file in one of its versions m to n.
HashIn(h, m, n) == \E v \in m..n : h = Bytes[v]

\* A cached hash was read no earlier than the mtime it is filed under.
CacheOK == cache # Nobody => HashIn(cache[2], cache[1], version)

\* The same holds of a call between its steps.
HashingOK ==
    \A x \in Calls :
        /\ since[x] <= version
        /\ pc[x] \in {"lookup", "read", "insert"} => stat[x] = since[x]
        /\ pc[x] \in {"insert", "compare"} => HashIn(got[x], since[x], version)

\* What had ended when a check was called stays ended: gone from the store for
\* good, or too old for the time the check has read.
EndedStays ==
    \A c \in Checks : \A g \in ended[c] :
        /\ Made(g)
        /\ g \notin sessions \/ expires[g] <= asked[c]

\* A check only ever compares sessions that had not ended, and answers when it is done.
Candidates ==
    \A c \in Checks :
        /\ pc[c] # "done" => answer[c] = Nobody
        /\ pc[c] \in {"pick", "stat", "lookup", "read", "insert", "compare"} =>
              todo[c] \cap ended[c] = {}
        /\ pc[c] \in {"stat", "lookup", "read", "insert", "compare"} =>
              trying[c] \notin ended[c]

Hashed  == CacheOK /\ HashingOK
Matched == EndedStays /\ Candidates /\ AnswerWasValid
IInv    == TypeOK /\ Hashed /\ Matched
-----------------------------------------------------------------------------
LEMMA InitIInv == Init => IInv
  <1> SUFFICES ASSUME Init PROVE IInv
      OBVIOUS
  <1> USE StoreConstants DEF Init
  <1>1. TypeOK
    BY DEF TypeOK, Times, Hashes, Points
  <1>2. Hashed /\ Matched
    BY DEF Hashed, Matched, CacheOK, HashingOK, EndedStays, Candidates,
       AnswerWasValid
  <1> QED BY <1>1, <1>2 DEF IInv

\* What is read now is a hash of the file since any time up to now.
LEMMA HashInNow ==
  ASSUME NEW m \in Nat, NEW n \in Nat, m <= n
  PROVE  HashIn(Bytes[n], m, n)
  BY DEF HashIn

\* A hash the file has had it will always have had.
LEMMA HashInLater ==
  ASSUME NEW h, NEW m \in Nat, NEW n \in Nat, NEW k \in Nat, n <= k, HashIn(h, m, n)
  PROVE  HashIn(h, m, k)
  BY DEF HashIn
-----------------------------------------------------------------------------
(* Types                                                                   *)

\* Moving a call to a point of its code keeps pc's type.
LEMMA GotoType ==
  ASSUME pc \in [Calls -> Points], NEW x \in Calls, NEW p \in Points, Goto(x, p)
  PROVE  pc' \in [Calls -> Points]
  BY DEF Goto

LEMMA HashStepType ==
  ASSUME TypeOK, NEW x \in Calls, HashStep(x)
  PROVE  TypeOK'
  <1>1. pc \in [Calls -> Points]
    BY DEF TypeOK
  <1>2. PICK p \in Points : Goto(x, p)
    BY DEF HashStep, Stat, Lookup, ReadFile, Insert, Points
  <1>3. pc' \in [Calls -> Points]
    BY <1>1, <1>2, GotoType
  <1>4. CASE Stat(x)
    BY <1>3, <1>4 DEF Stat, TypeOK, storeVars, checkVars
  <1>5. CASE Lookup(x)
    <2>1. cache # Nobody => cache[2] \in Hashes
      BY DEF TypeOK
    <2>2. got' \in [Calls -> Hashes]
      <3>1. got' = got \/ (cache # Nobody /\ got' = [got EXCEPT ![x] = cache[2]])
        BY <1>5 DEF Lookup
      <3>2. got \in [Calls -> Hashes]
        BY DEF TypeOK
      <3> QED BY <2>1, <3>1, <3>2
    <2> QED BY <1>3, <1>5, <2>2 DEF Lookup, TypeOK, storeVars, checkVars
  <1>6. CASE ReadFile(x)
    <2>1. version \in 0..MaxVersion /\ got \in [Calls -> Hashes]
      BY DEF TypeOK
    <2>2. got' \in [Calls -> Hashes]
      BY <1>6, <2>1 DEF ReadFile, Hashes
    <2> QED BY <1>3, <1>6, <2>2 DEF ReadFile, TypeOK, storeVars, checkVars
  <1>7. CASE Insert(x)
    <2>1. cache' \in (0..MaxVersion) \X Hashes
      BY <1>7 DEF Insert, TypeOK
    <2> QED BY <1>3, <1>7, <2>1 DEF Insert, TypeOK, storeVars, checkVars, hashVars
  <1> QED BY <1>4, <1>5, <1>6, <1>7 DEF HashStep

LEMMA CheckStepType ==
  ASSUME TypeOK, NEW c \in Checks, Check(c) \/ CheckStep(c)
  PROVE  TypeOK'
  <1>1. CASE HashStep(c)
    BY <1>1, HashStepType DEF Calls
  <1>2. CASE Check(c) \/ Acquire(c) \/ Pick(c) \/ NoMatch(c) \/ Compare(c)
    <2>1. pc \in [Calls -> Points] /\ c \in Calls
      BY DEF TypeOK, Calls
    <2>2. PICK p \in Points : Goto(c, p)
      BY <1>2 DEF Check, Acquire, Pick, NoMatch, Compare, Points
    <2>3. pc' \in [Calls -> Points]
      BY <2>1, <2>2, GotoType
    <2>4. CASE Check(c)
      BY <2>3, <2>4 DEF Check, TypeOK, storeVars, hashVars
    <2>5. CASE Acquire(c)
      BY <2>3, <2>5 DEF Acquire, Live, TypeOK, hashVars
    <2>6. CASE Pick(c)
      <3>1. PICK g \in todo[c] : Pick(c)!2!(g)
        BY <2>6 DEF Pick
      <3>2. g \in Grants
        BY <3>1 DEF TypeOK
      <3>3. /\ answer' = answer \/ answer' = [answer EXCEPT ![c] = g]
            /\ holder' \in {Nobody, holder}
        BY <3>1
      <3> QED BY <2>3, <2>6, <3>1, <3>2, <3>3 DEF Pick, TypeOK, hashVars
    <2>7. CASE NoMatch(c)
      BY <2>3, <2>7 DEF NoMatch, TypeOK, checkVars, hashVars
    <2>8. CASE Compare(c)
      <3>1. /\ answer' = answer \/ answer' = [answer EXCEPT ![c] = trying[c]]
            /\ holder' \in {Nobody, holder}
        BY <2>8 DEF Compare
      <3> QED BY <2>3, <2>8, <3>1 DEF Compare, TypeOK, hashVars
    <2> QED BY <1>2, <2>4, <2>5, <2>6, <2>7, <2>8
  <1> QED BY <1>1, <1>2 DEF CheckStep

LEMMA GrantStepType ==
  ASSUME TypeOK, NEW g \in Grants, Grant(g) \/ GrantStep(g) \/ RevokeSession(g)
  PROVE  TypeOK'
  <1> USE StoreConstants DEF TypeOK, Calls, Points, Goto, storeVars, checkVars, hashVars
  <1>1. CASE Grant(g)
    BY <1>1 DEF Grant
  <1>2. CASE Stamp(g)
    <2>1. now + Duration \in Times
      BY DEF Times
    <2> QED BY <1>2, <2>1 DEF Stamp
  <1>3. CASE Push(g)
    BY <1>3 DEF Push
  <1>4. CASE RevokeSession(g)
    BY <1>4 DEF RevokeSession
  <1>5. CASE HashStep(g)
    BY <1>5, HashStepType
  <1> QED BY <1>1, <1>2, <1>3, <1>4, <1>5 DEF GrantStep

\* Revocation of everything, clean-up, writes to the file, time.
Shared == RevokeAll \/ ListActive \/ WriteFile \/ Tick

LEMMA SharedStepType ==
  ASSUME TypeOK, Shared
  PROVE  TypeOK'
  BY StoreConstants
  DEF Shared, TypeOK, RevokeAll, ListActive, Live, WriteFile, Tick, storeVars,
      checkVars, hashVars
-----------------------------------------------------------------------------
(* Hashes                                                                  *)

LEMMA HashStepHashed ==
  ASSUME TypeOK, Hashed, NEW x \in Calls, HashStep(x)
  PROVE  Hashed'
  <1> USE StoreConstants DEF Hashed, CacheOK, HashingOK, TypeOK, Goto, Calls
  <1>1. CASE Stat(x)
    BY <1>1 DEF Stat
  <1>2. CASE Lookup(x)
    BY <1>2 DEF Lookup
  <1>3. CASE ReadFile(x)
    <2>1. HashIn(Bytes[version], since[x], version)
      BY HashInNow
    <2> QED BY <1>3, <2>1 DEF ReadFile
  <1>4. CASE Insert(x)
    <2>1. CacheOK'
      BY <1>4 DEF Insert
    <2>2. HashingOK'
      BY <1>4 DEF Insert, hashVars
    <2> QED BY <2>1, <2>2
  <1> QED BY <1>1, <1>2, <1>3, <1>4 DEF HashStep

\* The other steps neither hash nor touch the cache, except to empty it.
LEMMA CheckStepHashed ==
  ASSUME TypeOK, Hashed, NEW c \in Checks, Check(c) \/ CheckStep(c)
  PROVE  Hashed'
  <1>1. CASE HashStep(c)
    BY <1>1, HashStepHashed DEF Calls
  <1>2. CASE Check(c) \/ Acquire(c) \/ Pick(c) \/ NoMatch(c) \/ Compare(c)
    BY <1>2
    DEF Hashed, CacheOK, HashingOK, TypeOK, Calls, Goto, Check, Acquire, Pick, NoMatch,
        Compare, hashVars
  <1> QED BY <1>1, <1>2 DEF CheckStep

LEMMA GrantStepHashed ==
  ASSUME TypeOK, Hashed, NEW g \in Grants, Grant(g) \/ GrantStep(g) \/ RevokeSession(g)
  PROVE  Hashed'
  <1>1. CASE HashStep(g)
    BY <1>1, HashStepHashed DEF Calls
  <1>2. CASE Grant(g) \/ Stamp(g) \/ Push(g) \/ RevokeSession(g)
    BY <1>2
    DEF Hashed, CacheOK, HashingOK, TypeOK, Calls, Goto, Grant, Stamp, Push,
        RevokeSession, hashVars
  <1> QED BY <1>1, <1>2 DEF GrantStep

LEMMA SharedStepHashed ==
  ASSUME TypeOK, Hashed, Shared
  PROVE  Hashed'
  <1> USE StoreConstants DEF TypeOK, Hashed, CacheOK, HashingOK, hashVars
  <1>1. CASE RevokeAll \/ ListActive \/ Tick
    BY <1>1 DEF RevokeAll, ListActive, Tick
  <1>2. CASE WriteFile
    <2>1. version \in Nat /\ version' \in Nat /\ version <= version'
      BY <1>2 DEF WriteFile
    <2>2. CacheOK'
      <3>1. cache # Nobody => cache[1] \in Nat
        OBVIOUS
      <3> QED BY <1>2, <2>1, <3>1, HashInLater DEF WriteFile
    <2>3. HashingOK'
      <3>1. \A x \in Calls : since[x] \in Nat
        OBVIOUS
      <3> QED BY <1>2, <2>1, <3>1, HashInLater DEF WriteFile
    <2> QED BY <2>2, <2>3
  <1> QED BY <1>1, <1>2 DEF Shared
-----------------------------------------------------------------------------
(* Matches                                                                 *)

LEMMA HashStepMatched ==
  ASSUME TypeOK, Matched, NEW x \in Calls, HashStep(x)
  PROVE  Matched'
  <1> DEFINE Hashing == {"stat", "lookup", "read", "insert", "compare"}
  <1>1. UNCHANGED <<sessions, expires, asked, todo, trying, answer, ended>>
    BY DEF HashStep, Stat, Lookup, ReadFile, Insert, storeVars, checkVars
  <1>2. \A y \in Calls : y # x => pc'[y] = pc[y]
    BY DEF TypeOK, HashStep, Stat, Lookup, ReadFile, Insert, Goto
  <1>3. /\ pc[x] \in Hashing \ {"compare"}
        /\ x \in Checks => pc'[x] \in Hashing \cup {"pick"}
    BY DEF TypeOK, HashStep, Stat, Lookup, ReadFile, Insert, Goto
  <1> HIDE DEF Hashing
  <1>4. EndedStays'
    <2>1. \A g \in Grants : Made(g) => Made(g)'
      BY <1>2, <1>3 DEF Made, Calls, Hashing
    <2> QED BY <1>1, <2>1 DEF Matched, EndedStays, TypeOK
  <1>5. Candidates'
    <2> SUFFICES ASSUME NEW c \in Checks
                 PROVE  Candidates!(c)'
        BY DEF Candidates
    <2>1. CASE c = x
      BY <1>1, <1>3, <2>1 DEF Matched, Candidates, Hashing
    <2>2. CASE c # x
      BY <1>1, <1>2, <2>2 DEF Matched, Candidates, Calls
    <2> QED BY <2>1, <2>2
  <1>6. AnswerWasValid'
    BY <1>1 DEF Matched, AnswerWasValid
  <1> QED BY <1>4, <1>5, <1>6 DEF Matched

LEMMA CheckStepMatched ==
  ASSUME TypeOK, Matched, NEW c \in Checks, Check(c) \/ CheckStep(c)
  PROVE  Matched'
  <1>1. CASE HashStep(c)
    BY <1>1, HashStepMatched DEF Calls
  <1>2. CASE Check(c) \/ Acquire(c) \/ Pick(c) \/ NoMatch(c) \/ Compare(c)
    <2> USE StoreConstants DEF Calls, Goto
    <2>1. \A y \in Calls : y # c => pc'[y] = pc[y]
      BY <1>2 DEF TypeOK, Check, Acquire, Pick, NoMatch, Compare
    <2>2. \A g \in Grants : Made(g)' = Made(g)
      BY <2>1 DEF Made
    <2>3. pc \in [Calls -> Points] /\ c \in Calls /\ answer \in [Checks -> Grants \cup {Nobody}]
      BY DEF TypeOK
    <2>4. CASE Check(c)
      <3>1. EndedStays'
        BY <2>2, <2>4 DEF Check, Ended, TypeOK, Matched, EndedStays, storeVars
      <3>2. Candidates'
        BY <2>3, <2>4 DEF Check, Matched, Candidates
      <3>3. AnswerWasValid'
        <4>1. answer[c] = Nobody
          BY <2>4 DEF Check, Matched, Candidates
        <4> QED BY <2>4, <4>1 DEF Check, TypeOK, Matched, AnswerWasValid
      <3> QED BY <3>1, <3>2, <3>3 DEF Matched
    <2>5. CASE Acquire(c)
      <3>1. Live(asked[c]) \cap ended[c] = {}
        BY DEF Live, Times, TypeOK, Matched, EndedStays
      <3>2. EndedStays'
        BY <2>2, <2>5 DEF Acquire, Live, TypeOK, Matched, EndedStays
      <3>3. Candidates'
        BY <2>3, <2>5, <3>1 DEF Acquire, TypeOK, Matched, Candidates
      <3>4. AnswerWasValid'
        BY <2>5 DEF Acquire, Matched, AnswerWasValid
      <3> QED BY <3>2, <3>3, <3>4 DEF Matched
    <2>6. CASE Pick(c)
      <3>1. PICK g \in todo[c] : Pick(c)!2!(g)
        BY <2>6 DEF Pick
      <3>2. g \notin ended[c]
        BY <2>6, <3>1 DEF Pick, Matched, Candidates
      <3>3. UNCHANGED <<sessions, expires, asked, ended>>
        BY <2>6 DEF Pick
      <3>4. EndedStays'
        BY <2>2, <3>3 DEF TypeOK, Matched, EndedStays
      <3>5. Candidates'
        BY <2>3, <2>6, <3>1, <3>2, <3>3 DEF Pick, TypeOK, Matched, Candidates
      <3>6. AnswerWasValid'
        <4>1. answer' = answer \/ answer' = [answer EXCEPT ![c] = g]
          BY <3>1
        <4> QED BY <2>3, <3>2, <3>3, <4>1 DEF Matched, AnswerWasValid
      <3> QED BY <3>4, <3>5, <3>6 DEF Matched
    <2>7. CASE NoMatch(c)
      <3>1. EndedStays'
        BY <2>2, <2>7 DEF NoMatch, checkVars, TypeOK, Matched, EndedStays
      <3>2. Candidates'
        BY <2>3, <2>7 DEF NoMatch, checkVars, Matched, Candidates
      <3>3. AnswerWasValid'
        BY <2>7 DEF NoMatch, checkVars, Matched, AnswerWasValid
      <3> QED BY <3>1, <3>2, <3>3 DEF Matched
    <2>8. CASE Compare(c)
      <3>1. UNCHANGED <<sessions, expires, asked, todo, trying, ended>>
        BY <2>8 DEF Compare
      <3>2. EndedStays'
        BY <2>2, <3>1 DEF TypeOK, Matched, EndedStays
      <3>3. \/ answer' = [answer EXCEPT ![c] = trying[c]] /\ pc' = [pc EXCEPT ![c] = "done"]
            \/ answer' = answer /\ pc' = [pc EXCEPT ![c] = "pick"]
        BY <2>8 DEF Compare
      <3>4. pc[c] = "compare"
        BY <2>8 DEF Compare
      <3>5. Candidates'
        BY <2>3, <3>1, <3>3, <3>4 DEF Matched, Candidates
      <3>6. AnswerWasValid'
        BY <2>3, <3>1, <3>3, <3>4 DEF Matched, Candidates, AnswerWasValid
      <3> QED BY <3>2, <3>5, <3>6 DEF Matched
    <2> QED BY <1>2, <2>4, <2>5, <2>6, <2>7, <2>8
  <1> QED BY <1>1, <1>2 DEF CheckStep

LEMMA GrantStepMatched ==
  ASSUME TypeOK, Matched, NEW g \in Grants, Grant(g) \/ GrantStep(g) \/ RevokeSession(g)
  PROVE  Matched'
  <1> USE StoreConstants
      DEF TypeOK, Matched, EndedStays, Candidates, AnswerWasValid, Calls, Made, Goto,
          storeVars, checkVars
  <1>1. CASE Grant(g)
    BY <1>1 DEF Grant
  <1>2. CASE Stamp(g)
    BY <1>2 DEF Stamp
  <1>3. CASE Push(g)
    BY <1>3 DEF Push
  <1>4. CASE RevokeSession(g)
    BY <1>4 DEF RevokeSession
  <1>5. CASE HashStep(g)
    BY <1>5, HashStepMatched
  <1> QED BY <1>1, <1>2, <1>3, <1>4, <1>5 DEF GrantStep

LEMMA SharedStepMatched ==
  ASSUME TypeOK, Matched, Shared
  PROVE  Matched'
  BY DEF TypeOK, Matched, EndedStays, Candidates, AnswerWasValid, Made, Shared, RevokeAll,
         ListActive, Live, WriteFile, Tick, storeVars, checkVars
-----------------------------------------------------------------------------
\* The inductive invariant holds of every behaviour of the store.
THEOREM Inductiveness == SafeSpec => []IInv
  <1>1. IInv /\ UNCHANGED vars => IInv'
    BY DEF IInv, TypeOK, Hashed, CacheOK, HashingOK, Matched, EndedStays, Candidates,
       AnswerWasValid, Made, vars
  <1>2. ASSUME IInv, Next PROVE IInv'
    <2>1. CASE \E c \in Checks : Check(c) \/ CheckStep(c)
      BY <1>2, <2>1, CheckStepType, CheckStepHashed, CheckStepMatched DEF IInv
    <2>2. CASE \E g \in Grants : Grant(g) \/ GrantStep(g) \/ RevokeSession(g)
      BY <1>2, <2>2, GrantStepType, GrantStepHashed, GrantStepMatched DEF IInv
    <2>3. CASE Shared
      BY <1>2, <2>3, SharedStepType, SharedStepHashed, SharedStepMatched DEF IInv
    <2> QED BY <1>2, <2>1, <2>2, <2>3 DEF Next, Shared
  <1>3. IInv /\ [Next]_vars => IInv'
    BY <1>1, <1>2
  <1> QED BY InitIInv, <1>3, PTL DEF SafeSpec

\* Every variable of the store keeps its type.
THEOREM TypeCorrect == SafeSpec => []TypeOK
  <1>1. IInv => TypeOK
    BY DEF IInv
  <1> QED BY Inductiveness, <1>1, PTL

\* The cache is invisible: a hash it returns was the file's during the call.
THEOREM CacheIsTransparent == SafeSpec => []HashIsOfTheFile
  <1>1. IInv => HashIsOfTheFile
    BY DEF IInv, Hashed, HashingOK, HashIn, HashIsOfTheFile
  <1> QED BY Inductiveness, <1>1, PTL

\* A session that was revoked or had expired when a check was called is not its answer.
THEOREM NoLateAnswer == SafeSpec => []AnswerWasValid
  <1>1. IInv => AnswerWasValid
    BY DEF IInv, Matched
  <1> QED BY Inductiveness, <1>1, PTL
=============================================================================
