---------------------------- MODULE SessionStore ----------------------------
(***************************************************************************)
(* SessionStore of crates/bw-agent/src/session_store.rs: the approvals the *)
(* user asked to remember, and the cache of file hashes behind executable  *)
(* scopes.                                                                 *)
(*                                                                         *)
(* check_session holds the mutex of `sessions` from its first look to its  *)
(* answer, hashing included; hash_file_cached takes the mutex of           *)
(* `hash_cache` twice, for the lookup and for the insert, with the file    *)
(* read in between; approve_request_with_session hashes before it takes    *)
(* the first mutex at all.  The file may be written at any of these points.*)
(*                                                                         *)
(* One key and one executable: sessions for others are skipped by a        *)
(* comparison.  The file goes through versions 0, 1, 2...; the version is  *)
(* also its mtime, so the model assumes that a write changes the mtime and *)
(* that no mtime comes back.  Equal bytes have equal hashes and no others. *)
(***************************************************************************)
EXTENDS Naturals

CONSTANTS Checks,       \* calls of check_session
          Grants,       \* calls of approve_request_with_session, each a session
          AnyProcess,   \* those whose scope is any process
          Bytes,        \* the bytes of each version of the file
          Duration,     \* how long a session lasts
          MaxVersion,   \* bound on the writes to the file
          MaxTime,      \* bound on the clock
          Nobody        \* no session, no holder, no cached hash

ASSUME StoreConstants ==
    /\ AnyProcess \subseteq Grants
    /\ DOMAIN Bytes = 0..MaxVersion
    /\ MaxVersion \in Nat /\ MaxTime \in Nat /\ Duration \in Nat
    /\ Nobody \notin Checks \cup Grants
    /\ Checks \cap Grants = {}

VARIABLES version,   \* the file as it is
          now,       \* Instant::now()
          sessions,  \* the store
          expires,   \* expires_at of each session made
          snapshot,  \* exe_hash of each session made
          holder,    \* who holds the mutex of `sessions`
          cache,     \* hash_cache for the file: <<mtime, hash>>
          pc,        \* where each call stands
          asked,     \* the time a check reads when it is called
          todo,      \* sessions it has still to compare
          trying,    \* the one it compares
          stat,      \* the mtime hash_file_cached has read
          got,       \* the hash it returns
          answer,    \* the session that matched
          since,     \* version when the hashing began (history)
          ended      \* sessions ended when the check was called (history)

storeVars == <<sessions, expires, snapshot, holder>>
hashVars  == <<stat, got, since>>
checkVars == <<asked, todo, trying, answer, ended>>
vars == <<version, now, sessions, expires, snapshot, holder, cache, pc, asked,
          todo, trying, stat, got, answer, since, ended>>

Calls  == Checks \cup Grants
Points == {"idle", "lock", "pick", "stat", "lookup", "read", "insert", "compare",
           "stamp", "push", "done", "failed"}
Hashes == {Bytes[v] : v \in 0..MaxVersion}
Times  == 0..(MaxTime + Duration)

Init ==
    /\ version = 0
    /\ now = 0
    /\ sessions = {}
    /\ expires = [g \in Grants |-> 0]
    /\ snapshot = [g \in Grants |-> Bytes[0]]
    /\ holder = Nobody
    /\ cache = Nobody
    /\ pc = [x \in Calls |-> "idle"]
    /\ asked = [c \in Checks |-> 0]
    /\ todo = [c \in Checks |-> {}]
    /\ trying = [c \in Checks |-> Nobody]
    /\ stat = [x \in Calls |-> 0]
    /\ got = [x \in Calls |-> Bytes[0]]
    /\ answer = [c \in Checks |-> Nobody]
    /\ since = [x \in Calls |-> 0]
    /\ ended = [c \in Checks |-> {}]

Goto(x, p) == pc' = [pc EXCEPT ![x] = p]

\* Made and no longer valid: out of the store, or past its time.
Made(g)  == pc[g] = "done"
Ended(g) == Made(g) /\ (g \notin sessions \/ expires[g] <= now)

\* Mutant: a session still counts at the instant it expires.
PurgeLate(t) == {g \in sessions : expires[g] >= t}

\* The sessions left by the lazy clean-up at time t.
Live(t) == {g \in sessions : expires[g] > t}

----------------------------------------------------------------------------
(* hash_file_cached                                                        *)

\* The file's metadata; when it cannot be read, a check goes on to the next
\* session and a grant gives up.
Stat(x) ==
    /\ pc[x] = "stat"
    /\ since' = [since EXCEPT ![x] = version]
    /\ stat' = [stat EXCEPT ![x] = version]
    /\ Goto(x, "lookup") \/ Goto(x, IF x \in Checks THEN "pick" ELSE "failed")
    /\ UNCHANGED <<version, now, storeVars, cache, checkVars, got>>

Lookup(x) ==
    /\ pc[x] = "lookup"
    /\ IF cache # Nobody /\ cache[1] = stat[x]
       THEN got' = [got EXCEPT ![x] = cache[2]] /\ Goto(x, "compare")
       ELSE UNCHANGED got /\ Goto(x, "read")
    /\ UNCHANGED <<version, now, storeVars, cache, checkVars, stat, since>>

ReadFile(x) ==
    /\ pc[x] = "read"
    /\ got' = [got EXCEPT ![x] = Bytes[version]]
    /\ Goto(x, "insert") \/ Goto(x, IF x \in Checks THEN "pick" ELSE "failed")
    /\ UNCHANGED <<version, now, storeVars, cache, checkVars, stat, since>>

\* Mutant: the mtime is read after the bytes.
InsertLateStat(x) ==
    /\ pc[x] = "insert"
    /\ cache' = <<version, got[x]>>
    /\ Goto(x, "compare")
    /\ UNCHANGED <<version, now, storeVars, checkVars, hashVars>>

\* The mtime goes with bytes read after it, which may be newer.
Insert(x) ==
    /\ pc[x] = "insert"
    /\ cache' = <<stat[x], got[x]>>
    /\ Goto(x, "compare")
    /\ UNCHANGED <<version, now, storeVars, checkVars, hashVars>>

HashStep(x) == Stat(x) \/ Lookup(x) \/ ReadFile(x) \/ Insert(x)

----------------------------------------------------------------------------
(* check_session                                                           *)

\* The time is read before the mutex is asked for.
Check(c) ==
    /\ pc[c] = "idle"
    /\ asked' = [asked EXCEPT ![c] = now]
    /\ ended' = [ended EXCEPT ![c] = {g \in Grants : Ended(g)}]
    /\ Goto(c, "lock")
    /\ UNCHANGED <<version, now, storeVars, cache, todo, trying, answer, hashVars>>

Acquire(c) ==
    /\ pc[c] = "lock"
    /\ holder = Nobody
    /\ holder' = c
    /\ sessions' = Live(asked[c])
    /\ todo' = [todo EXCEPT ![c] = Live(asked[c])]
    /\ Goto(c, "pick")
    /\ UNCHANGED <<version, now, expires, snapshot, cache, asked, trying, answer,
                   ended, hashVars>>

\* Mutant: a session that does not match is tried again.
PickAgain(c) ==
    /\ pc[c] = "pick"
    /\ \E g \in todo[c] :
          /\ trying' = [trying EXCEPT ![c] = g]
          /\ IF g \in AnyProcess
             THEN /\ answer' = [answer EXCEPT ![c] = g]
                  /\ holder' = Nobody
                  /\ Goto(c, "done")
             ELSE Goto(c, "stat") /\ UNCHANGED <<answer, holder>>
    /\ UNCHANGED <<version, now, sessions, expires, snapshot, cache, asked, todo,
                   ended, hashVars>>

\* The next session: any process matches, an executable is hashed first.
Pick(c) ==
    /\ pc[c] = "pick"
    /\ \E g \in todo[c] :
          /\ todo' = [todo EXCEPT ![c] = @ \ {g}]
          /\ trying' = [trying EXCEPT ![c] = g]
          /\ IF g \in AnyProcess
             THEN /\ answer' = [answer EXCEPT ![c] = g]
                  /\ holder' = Nobody
                  /\ Goto(c, "done")
             ELSE Goto(c, "stat") /\ UNCHANGED <<answer, holder>>
    /\ UNCHANGED <<version, now, sessions, expires, snapshot, cache, asked, ended, hashVars>>

NoMatch(c) ==
    /\ pc[c] = "pick"
    /\ todo[c] = {}
    /\ holder' = Nobody
    /\ Goto(c, "done")
    /\ UNCHANGED <<version, now, sessions, expires, snapshot, cache, checkVars, hashVars>>

Compare(c) ==
    /\ pc[c] = "compare"
    /\ IF got[c] = snapshot[trying[c]]
       THEN /\ answer' = [answer EXCEPT ![c] = trying[c]]
            /\ holder' = Nobody
            /\ Goto(c, "done")
       ELSE Goto(c, "pick") /\ UNCHANGED <<answer, holder>>
    /\ UNCHANGED <<version, now, sessions, expires, snapshot, cache, asked, todo,
                   trying, ended, hashVars>>

CheckStep(c) == Acquire(c) \/ HashStep(c) \/ Pick(c) \/ NoMatch(c) \/ Compare(c)

----------------------------------------------------------------------------
(* approve_request_with_session and create_session                         *)

Grant(g) ==
    /\ pc[g] = "idle"
    /\ Goto(g, IF g \in AnyProcess THEN "stamp" ELSE "stat")
    /\ UNCHANGED <<version, now, storeVars, cache, checkVars, hashVars>>

\* Mutant: the duration is counted twice.
StampTwice(g) ==
    /\ pc[g] \in {"stamp", "compare"}
    /\ expires' = [expires EXCEPT ![g] = now + 2 * Duration]
    /\ snapshot' = [snapshot EXCEPT ![g] = got[g]]
    /\ Goto(g, "push")
    /\ UNCHANGED <<version, now, sessions, holder, cache, checkVars, hashVars>>

Stamp(g) ==
    /\ pc[g] \in {"stamp", "compare"}
    /\ expires' = [expires EXCEPT ![g] = now + Duration]
    /\ snapshot' = [snapshot EXCEPT ![g] = got[g]]
    /\ Goto(g, "push")
    /\ UNCHANGED <<version, now, sessions, holder, cache, checkVars, hashVars>>

Push(g) ==
    /\ pc[g] = "push"
    /\ holder = Nobody
    /\ sessions' = sessions \cup {g}
    /\ Goto(g, "done")
    /\ UNCHANGED <<version, now, expires, snapshot, holder, cache, checkVars, hashVars>>

GrantStep(g) == HashStep(g) \/ Stamp(g) \/ Push(g)

----------------------------------------------------------------------------
RevokeSession(g) ==
    /\ holder = Nobody
    /\ sessions' = sessions \ {g}
    /\ UNCHANGED <<version, now, expires, snapshot, holder, cache, pc, checkVars, hashVars>>

RevokeAll ==
    /\ holder = Nobody
    /\ sessions' = {}
    /\ cache' = Nobody
    /\ UNCHANGED <<version, now, expires, snapshot, holder, pc, checkVars, hashVars>>

\* Its time too may be older than the mutex it gets.
ListActive ==
    /\ holder = Nobody
    /\ \E t \in 0..now : sessions' = Live(t)
    /\ UNCHANGED <<version, now, expires, snapshot, holder, cache, pc, checkVars, hashVars>>

WriteFile ==
    /\ version < MaxVersion
    /\ version' = version + 1
    /\ UNCHANGED <<now, storeVars, cache, pc, checkVars, hashVars>>

Tick ==
    /\ now < MaxTime
    /\ now' = now + 1
    /\ UNCHANGED <<version, storeVars, cache, pc, checkVars, hashVars>>

Next ==
    \/ \E c \in Checks : Check(c) \/ CheckStep(c)
    \/ \E g \in Grants : Grant(g) \/ GrantStep(g) \/ RevokeSession(g)
    \/ RevokeAll \/ ListActive
    \/ WriteFile \/ Tick

SafeSpec == Init /\ [][Next]_vars
Spec == SafeSpec /\ \A x \in Checks : WF_vars(CheckStep(x))
----------------------------------------------------------------------------
(* Properties                                                              *)

TypeOK ==
    /\ version \in 0..MaxVersion
    /\ now \in 0..MaxTime
    /\ sessions \subseteq Grants
    /\ expires \in [Grants -> Times]
    /\ snapshot \in [Grants -> Hashes]
    /\ holder \in Checks \cup {Nobody}
    /\ cache \in ((0..MaxVersion) \X Hashes) \cup {Nobody}
    /\ pc \in [Calls -> Points]
    /\ asked \in [Checks -> 0..MaxTime]
    /\ todo \in [Checks -> SUBSET Grants]
    /\ trying \in [Checks -> Grants \cup {Nobody}]
    /\ stat \in [Calls -> 0..MaxVersion]
    /\ got \in [Calls -> Hashes]
    /\ answer \in [Checks -> Grants \cup {Nobody}]
    /\ since \in [Calls -> 0..MaxVersion]
    /\ ended \in [Checks -> SUBSET Grants]

\* hash_file_cached returns a hash the file had at some moment of the call,
\* cached or not: an entry written by a call that raced a write is never taken
\* for the hash of the file before or after that call's own time.
HashIsOfTheFile ==
    \A x \in Calls :
        pc[x] = "compare" => \E v \in since[x]..version : got[x] = Bytes[v]

\* A remembered approval answers a sign call only while it is valid: not if it
\* was revoked, or had expired, before the call asked.  (It may expire while the
\* call waits for the mutex or hashes.)
AnswerWasValid == \A c \in Checks : answer[c] \notin ended[c]

\* Every check that is called returns: the holder of the mutex gives it up, and a
\* session that does not match is not tried again.
EveryCheckReturns == \A c \in Checks : pc[c] = "lock" ~> pc[c] = "done"
=============================================================================
