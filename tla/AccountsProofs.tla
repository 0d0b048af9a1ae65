--------------------------- MODULE AccountsProofs ---------------------------
(***************************************************************************)
(* Safety of Accounts for every set of accounts, calls, auth requests and  *)
(* polls, and every bound on attempts and calls.                           *)
(***************************************************************************)
EXTENDS Accounts, TLAPS

Fields == [email : Account, keys : Account, token : Account, refresh : Account,
          kdf : Kdfs, pkey : Account, priv : Account, entries : Account]
Held == [who : Account, by : Account, tok : Account, keyed : BOOLEAN, tries : 0..MaxAttempts]

\* What a call at x may hold: one that logs in knows whose email it read; a
\* re-unlock about to store keys was given their owner's password; an item with
\* a key of its own goes to the server under the keys that opened that key.
Fits(c, x, h) ==
    /\ c \in Unlocks \cup Signs /\ x \notin {"idle", "email", "done"} => h.who \in Accounts
    /\ c \in Signs /\ x = "open" => h.by = h.who
    /\ c \in Edits /\ x = "put" /\ h.keyed => h.by = h.who

CallsFit == \A c \in Calls : Fits(c, at[c], held[c])

\* The call whose sender is in a slot waits for that prompt.
SlotsWait ==
    /\ pwSlot # None => at[pwSlot] \in {"emit", "wait"}
    /\ codeSlot # None => at[codeSlot] \in {"emit2", "wait2"}

\* A poll past the approval has cloned a request that is approved.
PollsAreApproved ==
    \A p \in Polls :
        /\ poll[p].at # "idle" => poll[p].req \in Requests
        /\ poll[p].at \in {"exchange", "remember", "sync"} => req[poll[p].req].at = "approved"

IInv == TypeOK /\ CallsFit /\ SlotsWait /\ PollsAreApproved /\ EditedUnderOwnKeys
-----------------------------------------------------------------------------
\* The protected key opens for one email and password only: the owner's.
LEMMA OpensForOwner ==
    ASSUME NEW email, NEW password, NEW kdf, NEW pkey, NEW priv,
           Opens(email, password, kdf, pkey, priv)
    PROVE  email = pkey /\ password = pkey
  <1> DEFINE mine == MasterKey(email, password, kdf)
             theirs == MasterKey(pkey, pkey, KdfOf[pkey])
  <1>1. mine # None /\ theirs = mine
    BY DEF Opens, UnlockVault, OpensWith, Sealed
  <1>2. mine = <<email, password, kdf>> /\ theirs = <<pkey, pkey, KdfOf[pkey]>>
    BY <1>1 DEF MasterKey
  <1> QED BY <1>1, <1>2

\* The server calls a request approved only when it was.
LEMMA PollApproved ==
    ASSUME NEW b \in BOOLEAN, "approved" \in PollResults[b]
    PROVE  b
  <1> SUFFICES ASSUME ~b PROVE FALSE
      OBVIOUS
  <1>1. PICK a \in Answers : PollResult(a, b) = "approved"
    BY DEF PollResults
  <1>2. CASE a.status = "ok"
    BY <1>1, <1>2 DEF PollResult
  <1>3. CASE a.status = "not_found"
    BY <1>1, <1>3 DEF PollResult
  <1>4. CASE a.status \notin {"ok", "not_found"}
    BY <1>1, <1>4 DEF PollResult
  <1> QED BY <1>2, <1>3, <1>4

LEMMA NothingHeld == Nothing \in Held
  BY AccountConstants DEF Nothing, Held, Account

LEMMA Stored ==
    ASSUME NEW a \in Accounts, NEW kdf \in Kdfs, Store(a, kdf)
    PROVE  vault' \in Fields
  BY DEF Store, Fields, Account

LEMMA InitIInv == Init => IInv
  <1> SUFFICES ASSUME Init PROVE IInv
      OBVIOUS
  <1>1. vault \in Fields
    BY AccountConstants DEF Init, Fields, Account, Kdfs
  <1>2. at \in [Calls -> Point] /\ held \in [Calls -> Held]
    BY NothingHeld DEF Init, Point
  <1>3. /\ req \in [Requests -> [at : ReqPoint, who : Account]]
        /\ poll \in [Polls -> [at : PollPoint, req : Requests \cup {None}]]
    BY DEF Init, ReqPoint, PollPoint, Account
  <1>4. TypeOK
    BY <1>1, <1>2, <1>3, AccountConstants DEF Init, TypeOK, Fields, Held
  <1>5. CallsFit
    BY AccountConstants DEF Init, CallsFit, Fits, Calls
  <1>6. SlotsWait /\ PollsAreApproved /\ EditedUnderOwnKeys
    BY AccountConstants DEF Init, SlotsWait, PollsAreApproved, EditedUnderOwnKeys
  <1> QED BY <1>4, <1>5, <1>6 DEF IInv

\* A step of one call: it is enough to look at where the call goes, with what,
\* and at the slots and the vault.
LEMMA CallStep ==
    ASSUME IInv, NEW c \in Calls, NEW x \in Point, NEW h \in Held, Fits(c, x, h),
           at' = [at EXCEPT ![c] = x], held' = [held EXCEPT ![c] = h],
           vault' \in Fields, begun' \in 0..MaxCalls,
           pwSlot' \in Signs \cup {None}, codeSlot' \in Signs \cup {None}, SlotsWait',
           UNCHANGED devVars, UNCHANGED written
    PROVE  IInv'
  <1>1. at' \in [Calls -> Point] /\ held' \in [Calls -> Held]
    BY DEF IInv, TypeOK, Held
  <1>2. TypeOK'
    BY <1>1 DEF IInv, TypeOK, devVars, Fields, Held
  <1>3. CallsFit'
    <2> SUFFICES ASSUME NEW d \in Calls PROVE Fits(d, at'[d], held'[d])
        BY DEF CallsFit
    <2>1. CASE d = c
      BY <2>1 DEF IInv, TypeOK
    <2>2. CASE d # c
      <3>1. at'[d] = at[d] /\ held'[d] = held[d]
        BY <2>2 DEF IInv, TypeOK
      <3> QED BY <3>1 DEF IInv, CallsFit
    <2> QED BY <2>1, <2>2
  <1>4. PollsAreApproved' /\ EditedUnderOwnKeys'
    BY DEF IInv, PollsAreApproved, EditedUnderOwnKeys, devVars
  <1> QED BY <1>2, <1>3, <1>4 DEF IInv

\* The same, for a call at no prompt, that leaves the slots alone.
LEMMA QuietStep ==
    ASSUME IInv, NEW c \in Calls, NEW x \in Point, NEW h \in Held, Fits(c, x, h),
           at[c] \notin {"emit", "wait", "emit2", "wait2"},
           at' = [at EXCEPT ![c] = x], held' = [held EXCEPT ![c] = h],
           vault' \in Fields, begun' \in 0..MaxCalls,
           UNCHANGED <<pwSlot, codeSlot>>, UNCHANGED devVars, UNCHANGED written
    PROVE  IInv'
  <1>1. SlotsWait'
    BY DEF IInv, TypeOK, SlotsWait, Calls
  <1>2. pwSlot' \in Signs \cup {None} /\ codeSlot' \in Signs \cup {None}
    BY DEF IInv, TypeOK
  <1> QED BY <1>1, <1>2, CallStep

\* A call that returns.
LEMMA QuietReturn ==
    ASSUME IInv, NEW c \in Calls, Return(c),
           at[c] \notin {"emit", "wait", "emit2", "wait2"},
           vault' \in Fields, begun' \in 0..MaxCalls,
           UNCHANGED <<pwSlot, codeSlot>>, UNCHANGED devVars, UNCHANGED written
    PROVE  IInv'
  <1>1. "done" \in Point /\ Fits(c, "done", Nothing)
    BY DEF Point, Fits
  <1>2. at' = [at EXCEPT ![c] = "done"] /\ held' = [held EXCEPT ![c] = Nothing]
    BY DEF Return, Goto
  <1> QED BY <1>1, <1>2, NothingHeld, QuietStep

\* A call that moves on with what it holds.
LEMMA QuietMove ==
    ASSUME IInv, NEW c \in Calls, NEW x \in Point, Goto(c, x), UNCHANGED held,
           Fits(c, x, held[c]), at[c] \notin {"emit", "wait", "emit2", "wait2"},
           vault' \in Fields, begun' \in 0..MaxCalls,
           UNCHANGED <<pwSlot, codeSlot>>, UNCHANGED devVars, UNCHANGED written
    PROVE  IInv'
  <1>1. held[c] \in Held /\ held' = [held EXCEPT ![c] = held[c]]
    BY DEF IInv, TypeOK, Held
  <1>2. at' = [at EXCEPT ![c] = x]
    BY DEF Goto
  <1> QED BY <1>1, <1>2, QuietStep

LEMMA Typed == ASSUME IInv PROVE vault \in Fields /\ held \in [Calls -> Held] /\ begun \in 0..MaxCalls
  BY DEF IInv, TypeOK, Fields, Held

LEMMA Begun == ASSUME IInv, Begin PROVE begun' \in 0..MaxCalls
  BY AccountConstants DEF IInv, TypeOK, Begin
-----------------------------------------------------------------------------
LEMMA UnlockIInv ==
    ASSUME IInv, NEW u \in Unlocks, Unlock(u) \/ LoginAnswered(u) \/ SyncAnswered(u)
    PROVE  IInv'
  <1>0. u \in Calls /\ u \notin Signs /\ u \notin Edits
    BY AccountConstants DEF Calls
  <1>1. CASE Unlock(u)
    <2>1. at[u] \notin {"emit", "wait", "emit2", "wait2"} /\ begun' \in 0..MaxCalls
      BY <1>1, Begun DEF Unlock
    <2>2. CASE Return(u)
      BY <1>0, <1>1, <2>1, <2>2, Typed, QuietReturn DEF Unlock
    <2>3. CASE ~Return(u)
      <3>1. PICK p \in Accounts : held' = [held EXCEPT ![u].who = vault.email, ![u].by = p]
        BY <1>1, <2>3 DEF Unlock
      <3> DEFINE h == [held[u] EXCEPT !.who = vault.email, !.by = p]
      <3>2. vault.email \in Accounts
        BY <1>1, <2>3, Typed DEF Unlock, Fields, Account
      <3>3. h \in Held /\ h.who \in Accounts
        BY <1>0, <3>2, Typed DEF Held, Account
      <3>4. held' = [held EXCEPT ![u] = h]
        BY <1>0, <3>1, Typed
      <3>5. Fits(u, "login", h) /\ "login" \in Point
        BY <1>0, <3>3 DEF Fits, Point
      <3> HIDE DEF h
      <3> QED BY <1>0, <1>1, <2>1, <2>3, <3>3, <3>4, <3>5, Typed, QuietStep DEF Unlock, Goto
    <2> QED BY <2>2, <2>3
  <1>2. CASE LoginAnswered(u)
    <2>1. held[u].who \in Accounts
      BY <1>0, <1>2 DEF LoginAnswered, IInv, CallsFit, Fits
    <2>2. Fits(u, "sync", held[u]) /\ "sync" \in Point
      BY <1>0, <2>1 DEF Fits, Point
    <2> QED BY <1>0, <1>2, <2>2, Typed, QuietMove, QuietReturn DEF LoginAnswered, Move
  <1>3. CASE SyncAnswered(u)
    <2>1. held[u].who \in Accounts
      BY <1>0, <1>3 DEF SyncAnswered, IInv, CallsFit, Fits
    <2>2. vault' \in Fields
      BY <1>3, <2>1, Typed, Stored DEF SyncAnswered, Kdfs
    <2> QED BY <1>0, <1>3, <2>2, Typed, QuietReturn DEF SyncAnswered
  <1> QED BY <1>1, <1>2, <1>3

\* The agent's call, up to the password and after the login.
LEMMA LoginStepIInv ==
    ASSUME IInv, NEW s \in Signs,
           Ensure(s) \/ ReadEmail(s) \/ TryLogin(s) \/ FirstLogin(s) \/ FirstSync(s)
    PROVE  IInv'
  <1>0. s \in Calls /\ s \notin Unlocks /\ s \notin Edits
    BY AccountConstants DEF Calls
  <1>1. CASE Ensure(s)
    <2>1. begun' \in 0..MaxCalls
      BY <1>1, Begun DEF Ensure
    <2>2. \A x \in {"done", "email"} : x \in Point /\ Fits(s, x, held[s])
      BY <1>0 DEF Fits, Point
    <2> QED BY <1>0, <1>1, <2>1, <2>2, Typed, QuietMove DEF Ensure, Move
  <1>2. CASE ReadEmail(s)
    <2>1. CASE vault.email = None
      BY <1>0, <1>2, <2>1, Typed, QuietReturn DEF ReadEmail
    <2>2. CASE vault.email # None
      <3> DEFINE h == [held[s] EXCEPT !.who = vault.email]
      <3>1. h \in Held /\ h.who \in Accounts
        BY <1>0, <2>2, Typed DEF Held, Account, Fields
      <3>2. held' = [held EXCEPT ![s] = h]
        BY <1>0, <1>2, <2>2, Typed DEF ReadEmail
      <3>3. Fits(s, "ask", h) /\ "ask" \in Point
        BY <1>0, <3>1 DEF Fits, Point
      <3> HIDE DEF h
      <3> QED BY <1>0, <1>2, <2>2, <3>1, <3>2, <3>3, Typed, QuietStep DEF ReadEmail, Goto
    <2> QED BY <2>1, <2>2
  <1>3. CASE TryLogin(s)
    <2> DEFINE h == [held[s] EXCEPT !.tok = vault.token]
               x == IF vault.token = None THEN "first"
                    ELSE IF /\ None \notin {vault.kdf, vault.pkey, vault.priv}
                            /\ Opens(held[s].who, held[s].by, vault.kdf, vault.pkey, vault.priv)
                    THEN "open" ELSE "ask"
    <2>1. held[s].who \in Accounts
      BY <1>0, <1>3 DEF TryLogin, IInv, CallsFit, Fits
    <2>2. h \in Held /\ h.who = held[s].who /\ h.by = held[s].by
      BY <1>0, Typed DEF Held, Fields
    <2>3. x = "open" => held[s].by = held[s].who
      BY OpensForOwner
    <2>4. x \in Point
      BY DEF Point
    <2>5. at' = [at EXCEPT ![s] = x]
      BY <1>3 DEF TryLogin, Goto
    <2>6. held' = [held EXCEPT ![s] = h]
      BY <1>0, <1>3, Typed DEF TryLogin
    <2> HIDE DEF h, x
    <2>7. Fits(s, x, h)
      BY <1>0, <2>1, <2>2, <2>3 DEF Fits
    <2> QED BY <1>0, <1>3, <2>2, <2>4, <2>5, <2>6, <2>7, Typed, QuietStep DEF TryLogin
  <1>4. CASE FirstLogin(s)
    <2>1. held[s].who \in Accounts
      BY <1>0, <1>4 DEF FirstLogin, IInv, CallsFit, Fits
    <2>2. \A x \in {"sync", "ask"} : x \in Point /\ Fits(s, x, held[s])
      BY <1>0, <2>1 DEF Fits, Point
    <2> QED BY <1>0, <1>4, <2>2, Typed, QuietMove DEF FirstLogin
  <1>5. CASE FirstSync(s)
    <2>1. held[s].who \in Accounts
      BY <1>0, <1>5 DEF FirstSync, IInv, CallsFit, Fits
    <2>2. vault' \in Fields
      BY <1>5, <2>1, Typed, Stored DEF FirstSync, Kdfs
    <2>3. Fits(s, "ask", held[s]) /\ "ask" \in Point
      BY <1>0, <2>1 DEF Fits, Point
    <2> QED BY <1>0, <1>5, <2>2, <2>3, Typed, QuietMove, QuietReturn DEF FirstSync, Move
  <1> QED BY <1>1, <1>2, <1>3, <1>4, <1>5

\* The call after the keys of a re-unlock are stored; and the periodic sync.
LEMMA RenewStepIInv ==
    ASSUME IInv, NEW c \in Signs \cup Syncs,
           \/ c \in Signs /\ (Reunlock(c) \/ ReadRefresh(c) \/ Resynced(c))
           \/ Renewed(c)
           \/ c \in Syncs /\ (BeginSync(c) \/ Synced(c))
    PROVE  IInv'
  <1>0. c \in Calls /\ c \notin Unlocks /\ c \notin Edits
    BY AccountConstants DEF Calls
  <1>1. ASSUME at[c] \in {"open", "renew", "renewing"}
        PROVE  \A x \in Point \ {"open"}, h \in Held : h.who = held[c].who => Fits(c, x, h)
    BY <1>0, <1>1 DEF IInv, CallsFit, Fits
  <1>2. CASE c \in Signs /\ Reunlock(c)
    <2>1. vault' \in Fields
      BY <1>0, <1>2, Typed DEF Reunlock, Fields, Held
    <2>2. Fits(c, "renew", held[c]) /\ "renew" \in Point
      BY <1>0, <1>1, <1>2, Typed DEF Reunlock, Point
    <2> QED BY <1>0, <1>2, <2>1, <2>2, QuietMove, Typed DEF Reunlock
  <1>3. CASE c \in Signs /\ ReadRefresh(c)
    <2> DEFINE h == [held[c] EXCEPT !.by = vault.refresh]
               x == IF vault.refresh = None THEN "resync" ELSE "renewing"
    <2>1. h \in Held /\ h.who = held[c].who
      BY <1>0, Typed DEF Held, Fields
    <2>2. x \in Point \ {"open"}
      BY DEF Point
    <2>3. at' = [at EXCEPT ![c] = x] /\ held' = [held EXCEPT ![c] = h]
      BY <1>0, <1>3, Typed DEF ReadRefresh, Goto
    <2> HIDE DEF h, x
    <2>4. Fits(c, x, h)
      BY <1>1, <1>3, <2>1, <2>2 DEF ReadRefresh
    <2> QED BY <1>0, <1>3, <2>1, <2>2, <2>3, <2>4, Typed, QuietStep DEF ReadRefresh
  <1>4. CASE Renewed(c)
    <2> DEFINE h == [held[c] EXCEPT !.tok = held[c].by]
    <2>1. h \in Held /\ h.who = held[c].who /\ held[c] \in Held
      BY <1>0, Typed DEF Held
    <2>2. "resync" \in Point \ {"open"}
      BY DEF Point
    <2>3. Fits(c, "resync", h) /\ Fits(c, "resync", held[c])
      BY <1>1, <1>4, <2>1, <2>2 DEF Renewed
    <2>4. CASE UNCHANGED <<vault, held>>
      BY <1>0, <1>4, <2>2, <2>3, <2>4, Typed, QuietMove DEF Renewed
    <2>5. CASE /\ vault' = [vault EXCEPT !.token = held[c].by]
               /\ held' = [held EXCEPT ![c].tok = held[c].by]
      <3>1. vault' \in Fields
        BY <1>0, <2>5, Typed DEF Fields, Held
      <3>2. held' = [held EXCEPT ![c] = h]
        BY <1>0, <2>5, Typed
      <3>3. at' = [at EXCEPT ![c] = "resync"]
        BY <1>4 DEF Renewed, Goto
      <3> HIDE DEF h
      <3> QED BY <1>0, <1>4, <2>1, <2>2, <2>3, <3>1, <3>2, <3>3, Typed, QuietStep DEF Renewed
    <2> QED BY <1>4, <2>4, <2>5 DEF Renewed
  <1>5. CASE c \in Signs /\ Resynced(c)
    <2>1. vault' \in Fields
      BY <1>0, <1>5, Typed DEF Resynced, Fields, Held
    <2> QED BY <1>0, <1>5, <2>1, QuietReturn, Typed DEF Resynced
  <1>6. CASE c \in Syncs /\ BeginSync(c)
    <2>1. begun' \in 0..MaxCalls
      BY <1>6, Begun DEF BeginSync
    <2>2. CASE Return(c)
      BY <1>0, <1>6, <2>1, <2>2, Typed, QuietReturn DEF BeginSync
    <2>3. CASE ~Return(c)
      <3> DEFINE h == [held[c] EXCEPT !.tok = vault.token, !.by = vault.refresh]
                 x == IF vault.refresh = None THEN "resync" ELSE "renewing"
      <3>1. h \in Held
        BY <1>0, Typed DEF Held, Fields
      <3>2. x \in Point
        BY DEF Point
      <3>3. at' = [at EXCEPT ![c] = x] /\ held' = [held EXCEPT ![c] = h]
        BY <1>0, <1>6, <2>3, Typed DEF BeginSync, Goto
      <3>4. Fits(c, x, h)
        BY <1>0, <1>6, AccountConstants DEF Fits
      <3> HIDE DEF h, x
      <3> QED BY <1>0, <1>6, <2>1, <3>1, <3>2, <3>3, <3>4, Typed, QuietStep DEF BeginSync
    <2> QED BY <2>2, <2>3
  <1>7. CASE c \in Syncs /\ Synced(c)
    <2>1. vault' \in Fields
      BY <1>0, <1>7, Typed DEF Synced, Fields, Held, Account
    <2> QED BY <1>0, <1>7, <2>1, QuietReturn, Typed DEF Synced
  <1> QED BY <1>2, <1>3, <1>4, <1>5, <1>6, <1>7

\* The prompts: a call asks, is answered, or finds its sender gone.
LEMMA PasswordPromptIInv ==
    ASSUME IInv, \/ \E s \in Signs : RequestPassword(s) \/ EmitPassword(s) \/ PromptDropped(s)
                 \/ SubmitPassword
    PROVE  IInv'
  <1>0. \A s \in Signs : s \in Calls /\ s \notin Unlocks /\ s \notin Edits
    BY AccountConstants DEF Calls
  <1>1. \A s \in Signs : at[s] \in {"ask", "emit", "wait"} => held[s].who \in Accounts
    BY <1>0 DEF IInv, CallsFit, Fits
  <1>2. ASSUME NEW s \in Signs, RequestPassword(s) PROVE IInv'
    <2>1. CASE Return(s)
      <3>1. at'[s] = "done"
        BY <1>0, <2>1 DEF Return, Goto, IInv, TypeOK
      <3>2. UNCHANGED pwSlot
        BY <1>0, <1>2, <3>1 DEF RequestPassword, Goto, IInv, TypeOK
      <3> QED BY <1>0, <1>2, <2>1, <3>2, Typed, QuietReturn DEF RequestPassword
    <2>2. CASE ~Return(s)
      <3> DEFINE h == [held[s] EXCEPT !.tries = @ + 1]
      <3>1. h \in Held /\ h.who = held[s].who
        BY <1>0, <1>2, <2>2, Typed, AccountConstants DEF RequestPassword, Held
      <3>2. at' = [at EXCEPT ![s] = "emit"] /\ held' = [held EXCEPT ![s] = h]
        BY <1>0, <1>2, <2>2, Typed DEF RequestPassword, Goto
      <3>3. Fits(s, "emit", h) /\ "emit" \in Point
        BY <1>0, <1>1, <1>2, <3>1 DEF RequestPassword, Fits, Point
      <3>4. /\ SlotsWait' /\ pwSlot' \in Signs \cup {None}
            /\ codeSlot' \in Signs \cup {None}
        BY <1>0, <1>2, <2>2, <3>2 DEF RequestPassword, SlotsWait, IInv, TypeOK
      <3> HIDE DEF h
      <3> QED BY <1>0, <1>2, <2>2, <3>1, <3>2, <3>3, <3>4, Typed, CallStep DEF RequestPassword
    <2> QED BY <2>1, <2>2
  <1>3. ASSUME NEW s \in Signs, EmitPassword(s) \/ PromptDropped(s) PROVE IInv'
    <2>1. CASE Return(s)
      <3>1. at' = [at EXCEPT ![s] = "done"] /\ held' = [held EXCEPT ![s] = Nothing]
        BY <2>1 DEF Return, Goto
      <3>2. "done" \in Point /\ Fits(s, "done", Nothing)
        BY <1>0 DEF Point, Fits
      <3>3. at[s] \in {"emit", "wait"} /\ pwSlot' # s /\ pwSlot' \in {pwSlot, None}
        <4>1. at'[s] = "done"
          BY <1>0, <3>1 DEF IInv, TypeOK
        <4>2. CASE EmitPassword(s)
          BY <1>0, <4>1, <4>2, AccountConstants DEF EmitPassword, Move, Goto, IInv, TypeOK
        <4>3. CASE PromptDropped(s)
          BY <4>3 DEF PromptDropped
        <4> QED BY <1>3, <4>2, <4>3
      <3>4. SlotsWait'
        BY <1>0, <1>3, <3>1, <3>3 DEF EmitPassword, PromptDropped, SlotsWait, IInv, TypeOK
      <3> QED BY <1>0, <1>3, <3>1, <3>2, <3>3, <3>4, NothingHeld, Typed, CallStep
              DEF EmitPassword, PromptDropped, IInv, TypeOK
    <2>2. CASE ~Return(s)
      <3>1. at' = [at EXCEPT ![s] = "wait"] /\ held' = [held EXCEPT ![s] = held[s]]
        BY <1>0, <1>3, <2>2, Typed DEF EmitPassword, PromptDropped, Move, Goto
      <3>2. "wait" \in Point /\ Fits(s, "wait", held[s]) /\ held[s] \in Held
        BY <1>0, <1>1, <1>3, <2>2, Typed DEF EmitPassword, PromptDropped, Point, Fits
      <3>3. SlotsWait'
        BY <1>0, <1>3, <2>2, <3>1 DEF EmitPassword, PromptDropped, SlotsWait, IInv, TypeOK
      <3> QED BY <1>0, <1>3, <2>2, <3>1, <3>2, <3>3, Typed, CallStep
              DEF EmitPassword, PromptDropped, IInv, TypeOK
    <2> QED BY <2>1, <2>2
  <1>4. CASE SubmitPassword
    <2>0. pwSlot \in Signs /\ at[pwSlot] \in {"emit", "wait"}
      BY <1>4 DEF SubmitPassword, IInv, TypeOK, SlotsWait
    <2>1. CASE Return(pwSlot)
      <3>1. at' = [at EXCEPT ![pwSlot] = "done"] /\ held' = [held EXCEPT ![pwSlot] = Nothing]
        BY <2>1 DEF Return, Goto
      <3>2. "done" \in Point /\ Fits(pwSlot, "done", Nothing)
        BY <1>0, <2>0 DEF Point, Fits
      <3>3. SlotsWait'
        BY <1>0, <1>4, <2>0, <3>1 DEF SubmitPassword, SlotsWait, IInv, TypeOK
      <3> QED BY <1>0, <1>4, <2>0, <3>1, <3>2, <3>3, NothingHeld, Typed, CallStep
              DEF SubmitPassword, IInv, TypeOK
    <2>2. CASE ~Return(pwSlot)
      <3>1. PICK p \in Accounts : held' = [held EXCEPT ![pwSlot].by = p]
        BY <1>4, <2>2 DEF SubmitPassword
      <3> DEFINE h == [held[pwSlot] EXCEPT !.by = p]
      <3>2. h \in Held /\ h.who = held[pwSlot].who /\ held' = [held EXCEPT ![pwSlot] = h]
        BY <1>0, <2>0, <3>1, Typed DEF Held, Account
      <3>3. at' = [at EXCEPT ![pwSlot] = "try"]
        BY <1>4, <2>2 DEF SubmitPassword, Goto
      <3>4. "try" \in Point /\ Fits(pwSlot, "try", h)
        BY <1>0, <1>1, <2>0, <3>2 DEF Point, Fits
      <3>5. SlotsWait'
        BY <1>0, <1>4, <2>0, <3>3 DEF SubmitPassword, SlotsWait, IInv, TypeOK
      <3> HIDE DEF h
      <3> QED BY <1>0, <1>4, <2>0, <3>2, <3>3, <3>4, <3>5, Typed, CallStep
              DEF SubmitPassword, IInv, TypeOK
    <2> QED BY <2>1, <2>2
  <1> QED BY <1>2, <1>3, <1>4

LEMMA CodePromptIInv ==
    ASSUME IInv,
           \/ \E s \in Signs : RequestTwoFactor(s) \/ EmitTwoFactor(s) \/ CodePromptDropped(s)
           \/ SubmitTwoFactor
    PROVE  IInv'
  <1>1. ASSUME NEW s \in Signs, NEW x \in {"emit2", "wait2", "ask", "code"},
               at[s] \in {"first", "emit2", "wait2"}, Goto(s, x), SlotsWait',
               codeSlot' \in Signs \cup {None},
               UNCHANGED <<vault, held, pwSlot, devVars, written, begun>>
        PROVE  IInv'
    <2>1. s \in Calls /\ s \notin Unlocks /\ s \notin Edits
      BY AccountConstants DEF Calls
    <2>2. held[s].who \in Accounts
      BY <1>1, <2>1 DEF IInv, CallsFit, Fits
    <2>3. x \in Point /\ Fits(s, x, held[s])
      BY <2>1, <2>2 DEF Point, Fits
    <2>4. at' = [at EXCEPT ![s] = x] /\ held' = [held EXCEPT ![s] = held[s]] /\ held[s] \in Held
      BY <1>1, <2>1, Typed DEF Goto
    <2>5. pwSlot' \in Signs \cup {None}
      BY <1>1 DEF IInv, TypeOK
    <2> QED BY <1>1, <2>1, <2>3, <2>4, <2>5, Typed, CallStep
  <1>2. ASSUME NEW s \in Signs, NEW x, Goto(s, x) PROVE at' = [at EXCEPT ![s] = x]
    BY <1>2 DEF Goto
  <1> USE DEF SlotsWait
  <1>3. \A s \in Signs : s \in Calls /\ at \in [Calls -> Point]
    BY DEF Calls, IInv, TypeOK
  <1>4. SlotsWait /\ pwSlot \in Signs \cup {None} /\ codeSlot \in Signs \cup {None}
    BY DEF IInv, TypeOK
  <1>5. ASSUME NEW s \in Signs, RequestTwoFactor(s) PROVE IInv'
    BY <1>1, <1>2, <1>3, <1>4, <1>5 DEF RequestTwoFactor
  <1>6. ASSUME NEW s \in Signs, EmitTwoFactor(s) PROVE IInv'
    BY <1>1, <1>2, <1>3, <1>4, <1>6 DEF EmitTwoFactor
  <1>7. ASSUME NEW s \in Signs, CodePromptDropped(s) PROVE IInv'
    BY <1>1, <1>2, <1>3, <1>4, <1>7 DEF CodePromptDropped
  <1>8. CASE SubmitTwoFactor
    BY <1>1, <1>2, <1>3, <1>4, <1>8 DEF SubmitTwoFactor
  <1> QED BY <1>5, <1>6, <1>7, <1>8

\* What encrypt_cipher seals a field under: the keys cached, and the keys of the
\* item's owner if the item has a key of its own.
LEMMA SealedUnder ==
    ASSUME TypeOK, NEW e \in Edits, FieldKey(Ring, OwnKey(e), "user") # None
    PROVE  LET k == SealedField(Ring, e, OwnKey(e), "user").under
           IN  k \in Account /\ (held[e].keyed => k = held[e].who)
  <1>1. held[e].who \in Account /\ held[e].keyed \in BOOLEAN /\ vault.keys \in Account
    BY DEF TypeOK, Calls
  <1>2. KeyFor(Ring, "user") = vault.keys
    BY DEF KeyFor, Ring
  <1>3. SealedField(Ring, e, OwnKey(e), "user").under = FieldKey(Ring, OwnKey(e), "user")
    BY DEF SealedField, Encrypted, Sealed
  <1>4. CASE held[e].keyed
    <2>1. OwnKey(e) = Sealed(held[e].who, held[e].who) /\ OwnKey(e) # None
      BY <1>1, <1>4, AccountConstants DEF OwnKey
    <2>2. FieldKey(Ring, OwnKey(e), "user") = OwnKey(e).plain
      BY <2>1 DEF FieldKey
    <2>3. OwnKey(e).plain = held[e].who
      BY <2>1 DEF Sealed
    <2> QED BY <1>1, <1>3, <2>2, <2>3
  <1>5. CASE ~held[e].keyed
    BY <1>1, <1>2, <1>3, <1>5 DEF FieldKey, OwnKey
  <1> QED BY <1>1, <1>4, <1>5

\* update_key_fields
LEMMA EditIInv ==
    ASSUME IInv, NEW e \in Edits, BeginEdit(e) \/ Encrypt(e) \/ Put(e)
    PROVE  IInv'
  <1>0. e \in Calls /\ e \notin Unlocks /\ e \notin Signs
    BY AccountConstants DEF Calls
  <1>1. CASE BeginEdit(e)
    <2>1. begun' \in 0..MaxCalls
      BY <1>1, Begun DEF BeginEdit
    <2>2. CASE Return(e)
      BY <1>0, <1>1, <2>1, <2>2, Typed, QuietReturn DEF BeginEdit
    <2>3. CASE ~Return(e)
      <3>1. PICK k \in BOOLEAN :
              /\ held' = [held EXCEPT ![e].who = vault.entries,
                                      ![e].tok = vault.token, ![e].keyed = k]
              /\ Goto(e, "encrypt")
        BY <1>1, <2>3 DEF BeginEdit
      <3> DEFINE h == [held[e] EXCEPT !.who = vault.entries, !.tok = vault.token, !.keyed = k]
      <3>2. h \in Held
        BY <1>0, Typed DEF Held, Fields
      <3>3. held' = [held EXCEPT ![e] = h]
        BY <1>0, <3>1, Typed
      <3>4. at' = [at EXCEPT ![e] = "encrypt"]
        BY <3>1 DEF Goto
      <3>5. "encrypt" \in Point /\ Fits(e, "encrypt", h)
        BY <1>0 DEF Point, Fits
      <3> HIDE DEF h
      <3> QED BY <1>0, <1>1, <2>1, <3>2, <3>3, <3>4, <3>5, Typed, QuietStep DEF BeginEdit
    <2> QED BY <2>2, <2>3
  <1>2. CASE Encrypt(e)
    <2>1. CASE Return(e)
      BY <1>0, <1>2, <2>1, Typed, QuietReturn DEF Encrypt
    <2>2. CASE ~Return(e)
      <3> DEFINE k == SealedField(Ring, e, OwnKey(e), "user").under
                 h == [held[e] EXCEPT !.by = k]
      <3>0. k \in Account /\ (held[e].keyed => k = held[e].who)
        BY <1>2, <2>2, SealedUnder DEF Encrypt, IInv
      <3> HIDE DEF k
      <3>1. h \in Held /\ h.keyed = held[e].keyed /\ h.who = held[e].who /\ h.by = k
        BY <1>0, <3>0, Typed DEF Held, Fields
      <3>2. held' = [held EXCEPT ![e] = h] /\ at' = [at EXCEPT ![e] = "put"]
        BY <1>0, <1>2, <2>2, Typed DEF Encrypt, Goto, k
      <3>3. "put" \in Point /\ Fits(e, "put", h)
        BY <1>0, <3>0, <3>1 DEF Point, Fits
      <3> HIDE DEF h
      <3> QED BY <1>0, <1>2, <3>1, <3>2, <3>3, Typed, QuietStep DEF Encrypt
    <2> QED BY <2>1, <2>2
  <1>3. CASE Put(e)
    <2>1. /\ written' \subseteq [who : Account, by : Account, keyed : BOOLEAN]
          /\ EditedUnderOwnKeys'
      <3>1. CASE UNCHANGED written
        BY <3>1 DEF IInv, TypeOK, EditedUnderOwnKeys
      <3>2. CASE written' = written \cup {[who |-> held[e].who, by |-> held[e].by,
                                          keyed |-> held[e].keyed]}
        <4>1. held[e].keyed => held[e].by = held[e].who
          BY <1>0, <1>3 DEF Put, IInv, CallsFit, Fits
        <4>2. held[e] \in Held
          BY <1>0, Typed
        <4> QED BY <3>2, <4>1, <4>2 DEF IInv, TypeOK, EditedUnderOwnKeys, Held
      <3> QED BY <1>3, <3>1, <3>2 DEF Put
    <2>2. /\ at' \in [Calls -> Point] /\ held' \in [Calls -> Held]
          /\ at'[e] = "done" /\ \A d \in Calls \ {e} : at'[d] = at[d] /\ held'[d] = held[d]
      BY <1>0, <1>3, NothingHeld, Typed DEF Put, Return, Goto, IInv, TypeOK, Point
    <2>3. TypeOK'
      BY <1>3, <2>1, <2>2 DEF Put, IInv, TypeOK, devVars, Held
    <2>4. CallsFit'
      BY <2>2 DEF CallsFit, Fits, IInv
    <2>5. SlotsWait' /\ PollsAreApproved'
      BY <1>0, <1>3, <2>2 DEF Put, SlotsWait, PollsAreApproved, IInv, TypeOK, devVars, Calls
    <2> QED BY <2>1, <2>3, <2>4, <2>5 DEF IInv
  <1> QED BY <1>1, <1>2, <1>3

\* Steps that leave the calls and the slots alone.
LEMMA NoCallStep ==
    ASSUME IInv, UNCHANGED <<callVars, pwSlot, codeSlot, written>>,
           vault' \in Fields, begun' \in 0..MaxCalls, dev' \in Requests \cup {None},
           req' \in [Requests -> [at : ReqPoint, who : Account]],
           poll' \in [Polls -> [at : PollPoint, req : Requests \cup {None}]],
           PollsAreApproved'
    PROVE  IInv'
  <1>1. TypeOK'
    BY DEF IInv, TypeOK, callVars, Fields
  <1>2. CallsFit' /\ SlotsWait' /\ EditedUnderOwnKeys'
    BY DEF IInv, CallsFit, SlotsWait, EditedUnderOwnKeys, callVars
  <1> QED BY <1>1, <1>2 DEF IInv

\* An approved request stays approved.
LEMMA RequestIInv ==
    ASSUME IInv, NEW r \in Requests,
           CreateRequest(r) \/ RequestCreated(r) \/ ApproveRequest(r)
    PROVE  IInv'
  <1>1. PICK x \in {"failed", "creating", "open", "approved"}, w \in Account :
          req[r].at # "approved" /\ req' = [req EXCEPT ![r] = [at |-> x, who |-> w]]
    <2>1. req \in [Requests -> [at : ReqPoint, who : Account]]
      BY DEF IInv, TypeOK
    <2>2. ASSUME NEW x
          PROVE  [req EXCEPT ![r].at = x] = [req EXCEPT ![r] = [at |-> x, who |-> req[r].who]]
      <3>1. [req[r] EXCEPT !.at = x] = [at |-> x, who |-> req[r].who]
        BY <2>1
      <3> QED BY <3>1
    <2>3. req[r].who \in Account
      BY <2>1
    <2>4. CASE CreateRequest(r)
      BY <2>4, Typed DEF CreateRequest, Fields
    <2>5. CASE RequestCreated(r)
      BY <2>2, <2>3, <2>5 DEF RequestCreated
    <2>6. CASE ApproveRequest(r)
      BY <2>2, <2>3, <2>6 DEF ApproveRequest
    <2> QED BY <2>4, <2>5, <2>6
  <1>2. req' \in [Requests -> [at : ReqPoint, who : Account]]
    BY <1>1 DEF IInv, TypeOK, ReqPoint
  <1>3. UNCHANGED <<callVars, pwSlot, codeSlot, poll, written, vault>> /\ dev' \in {dev, r}
    BY DEF CreateRequest, RequestCreated, ApproveRequest
  <1>4. PollsAreApproved'
    BY <1>1, <1>3 DEF IInv, TypeOK, PollsAreApproved
  <1>5. begun' \in 0..MaxCalls
    BY Begun, Typed DEF CreateRequest, RequestCreated, ApproveRequest
  <1>6. /\ dev' \in Requests \cup {None}
        /\ poll' \in [Polls -> [at : PollPoint, req : Requests \cup {None}]]
    BY <1>3 DEF IInv, TypeOK
  <1> QED BY <1>2, <1>3, <1>4, <1>5, <1>6, Typed, NoCallStep

LEMMA PollIInv ==
    ASSUME IInv, NEW p \in Polls, Poll(p) \/ PollAnswered(p) \/ ExchangeAnswered(p) \/ PollSynced(p)
    PROVE  IInv'
  <1>0. /\ poll \in [Polls -> [at : PollPoint, req : Requests \cup {None}]]
        /\ req \in [Requests -> [at : ReqPoint, who : Account]]
        /\ dev \in Requests \cup {None}
        /\ poll[p].at # "idle" => poll[p].req \in Requests
        /\ poll[p].at \in {"exchange", "remember", "sync"} => req[poll[p].req].at = "approved"
    BY DEF IInv, TypeOK, PollsAreApproved
  <1>1. PICK x \in PollPoint, r \in Requests \cup {None} :
          /\ poll' = [poll EXCEPT ![p] = [at |-> x, req |-> r]]
          /\ x # "idle" => r \in Requests
          /\ x \in {"exchange", "remember", "sync"} => req[r].at = "approved"
    <2>1. \A x : PollGoto(p, x) => poll' = [poll EXCEPT ![p] = [at |-> x, req |-> poll[p].req]]
      BY <1>0 DEF PollGoto
    <2>2. CASE Poll(p)
      BY <1>0, <2>2 DEF Poll, Hold, PollPoint
    <2>3. CASE PollAnswered(p)
      <3>1. CASE Hold(p, None, "idle")
        BY <3>1 DEF Hold, PollPoint
      <3>2. CASE /\ "approved" \in PollResults[req[poll[p].req].at = "approved"]
                 /\ PollGoto(p, IF poll[p].at = "asked" THEN "exchange" ELSE "sync")
        <4>1. req[poll[p].req].at = "approved"
          <5>1. (req[poll[p].req].at = "approved") \in BOOLEAN
            OBVIOUS
          <5> QED BY <3>2, <5>1, PollApproved
        <4>2. poll[p].req \in Requests
          BY <1>0, <2>3 DEF PollAnswered
        <4>3. CASE poll[p].at = "asked"
          BY <2>1, <3>2, <4>1, <4>2, <4>3 DEF PollPoint
        <4>4. CASE poll[p].at # "asked"
          BY <2>1, <3>2, <4>1, <4>2, <4>4 DEF PollPoint
        <4> QED BY <4>3, <4>4
      <3> QED BY <2>3, <3>1, <3>2 DEF PollAnswered
    <2>4. CASE ExchangeAnswered(p)
      BY <1>0, <2>1, <2>4 DEF ExchangeAnswered, Hold, PollPoint
    <2>5. CASE PollSynced(p)
      BY <2>5 DEF PollSynced, Hold, PollPoint
    <2> QED BY <2>2, <2>3, <2>4, <2>5
  <1>2. /\ UNCHANGED <<callVars, pwSlot, codeSlot, req, written, begun>>
        /\ dev' \in {dev, None}
    BY DEF Poll, PollAnswered, ExchangeAnswered, PollSynced
  <1>3. vault' \in Fields
    <2>1. CASE UNCHANGED vault
      BY <2>1, Typed
    <2>2. CASE vault' # vault
      <3>1. PollSynced(p) /\ Store(req[poll[p].req].who, vault.kdf)
        BY <2>2 DEF Poll, PollAnswered, ExchangeAnswered, PollSynced
      <3>2. req[poll[p].req].who \in Account
        BY <1>0, <3>1 DEF PollSynced
      <3> QED BY <3>1, <3>2, Typed DEF Store, Fields
    <2> QED BY <2>1, <2>2
  <1>4. poll' \in [Polls -> [at : PollPoint, req : Requests \cup {None}]]
    BY <1>0, <1>1
  <1>5. PollsAreApproved'
    BY <1>0, <1>1, <1>2 DEF PollsAreApproved, IInv
  <1> QED BY <1>0, <1>2, <1>3, <1>4, <1>5, Typed, NoCallStep

LEMMA OtherIInv == ASSUME IInv, CancelRequest \/ SetEmail \/ Lock PROVE IInv'
  <1>1. begun' \in 0..MaxCalls
    BY Begun, Typed DEF CancelRequest, SetEmail, Lock
  <1>2. vault' \in Fields
    BY Typed DEF CancelRequest, SetEmail, Lock, Fields, Account
  <1>3. /\ UNCHANGED <<callVars, pwSlot, codeSlot, written, req, poll>>
        /\ dev' \in {dev, None}
    BY DEF CancelRequest, SetEmail, Lock, devVars
  <1>4. /\ dev' \in Requests \cup {None}
        /\ req' \in [Requests -> [at : ReqPoint, who : Account]]
        /\ poll' \in [Polls -> [at : PollPoint, req : Requests \cup {None}]]
        /\ PollsAreApproved'
    BY <1>3 DEF IInv, TypeOK, PollsAreApproved
  <1> QED BY <1>1, <1>2, <1>3, <1>4, NoCallStep

LEMMA NextIInv == IInv /\ [Next]_vars => IInv'
  <1> SUFFICES ASSUME IInv, [Next]_vars PROVE IInv'
      OBVIOUS
  <1>1. CASE UNCHANGED vars
    BY <1>1 DEF vars, devVars, callVars, IInv, TypeOK, CallsFit, SlotsWait, PollsAreApproved,
                EditedUnderOwnKeys
  <1>2. CASE Next
    BY <1>2, UnlockIInv, LoginStepIInv, RenewStepIInv, PasswordPromptIInv, CodePromptIInv,
       EditIInv, RequestIInv, PollIInv, OtherIInv DEF Next, SignStep, LocalStep, ServerStep
  <1> QED BY <1>1, <1>2
-----------------------------------------------------------------------------
\* Every variable keeps its type; a call makes at most MaxAttempts prompts.
THEOREM TypeCorrect == Spec => []TypeOK
  <1>1. IInv => TypeOK BY DEF IInv
  <1> QED BY InitIInv, NextIInv, <1>1, PTL DEF Spec, SafeSpec

\* Whichever account is opened between the two acquisitions of update_key_fields
\* (commands.rs), an item with a key of its own is never written with fields
\* sealed under another account's keys.
THEOREM EditsStayReadable == Spec => []EditedUnderOwnKeys
  <1>1. IInv => EditedUnderOwnKeys BY DEF IInv
  <1> QED BY InitIInv, NextIInv, <1>1, PTL DEF Spec, SafeSpec

\* Whoever logs in, re-unlocks, syncs, is cancelled or replaced meanwhile, the
\* vault opens with an account's keys only by that account's password or by an
\* approved request of it (auth.rs, try_login; commands.rs, sync_and_unlock and
\* finish_auth_request_login).
THEOREM OnlyCredentialsOpen == Spec => OpenedByCredential
  <1> DEFINE ByCall == \E c \in Unlocks \cup Signs : at'[c] # at[c] /\ held[c].by = vault'.keys
             ByPoll == \E p \in Polls :
                         /\ poll'[p] # poll[p]
                         /\ req[poll[p].req] = [at |-> "approved", who |-> vault'.keys]
             Step == vault'.keys \notin {vault.keys, None} => ByCall \/ ByPoll
  <1>1. IInv /\ [Next]_vars => [Step]_vars
    <2> SUFFICES ASSUME IInv, Next, vault'.keys \notin {vault.keys, None}
                 PROVE  ByCall \/ ByPoll
        BY DEF vars
    <2>0. at \in [Calls -> Point] /\ held \in [Calls -> Held] /\ vault \in Fields
      BY Typed DEF IInv, TypeOK
    <2>1. ASSUME NEW c \in Unlocks \cup Signs, Return(c), at[c] # "done",
                 Opens(held[c].who, held[c].by, KdfOf[held[c].who], held[c].who, held[c].who),
                 Store(held[c].who, KdfOf[held[c].who])
          PROVE  ByCall
      <3>1. at'[c] = "done" /\ vault'.keys = held[c].who
        BY <2>0, <2>1 DEF Return, Goto, Store, Calls
      <3>2. held[c].by = held[c].who
        BY <2>1, OpensForOwner
      <3> QED BY <2>1, <3>1, <3>2
    <2>2. ASSUME NEW u \in Unlocks, SyncAnswered(u) PROVE ByCall
      BY <2>1, <2>2 DEF SyncAnswered
    <2>3. ASSUME NEW s \in Signs, FirstSync(s) PROVE ByCall
      BY <2>1, <2>3 DEF FirstSync
    <2>4. ASSUME NEW s \in Signs, Reunlock(s) PROVE ByCall
      <3>1. held[s].by = held[s].who
        BY <2>4 DEF Reunlock, IInv, CallsFit, Fits, Calls
      <3>2. at'[s] = "renew" /\ at[s] = "open" /\ vault'.keys = held[s].who
        BY <2>0, <2>4 DEF Reunlock, Goto, Fields, Calls
      <3> QED BY <3>1, <3>2
    <2>5. ASSUME NEW p \in Polls, PollSynced(p) PROVE ByPoll
      <3>1. Store(req[poll[p].req].who, vault.kdf)
        BY <2>5 DEF PollSynced
      <3>2. vault'.keys = req[poll[p].req].who
        BY <3>1 DEF Store
      <3>3. poll[p].at = "sync" /\ poll'[p] = [at |-> "idle", req |-> None]
        BY <2>5 DEF PollSynced, Hold, IInv, TypeOK
      <3>4. poll[p].req \in Requests /\ req[poll[p].req].at = "approved"
        BY <3>3 DEF IInv, PollsAreApproved
      <3>5. req[poll[p].req] = [at |-> "approved", who |-> vault'.keys]
        BY <3>2, <3>4 DEF IInv, TypeOK
      <3> QED BY <3>3, <3>5
    <2>6. ASSUME UNCHANGED vault \/ vault'.keys \in {vault.keys, None} PROVE FALSE
      BY <2>6
    <2>7. ASSUME NEW c \in Calls, Renewed(c) PROVE FALSE
      BY <2>0, <2>6, <2>7 DEF Renewed, Fields
    <2>8. ASSUME NEW s \in Signs, Resynced(s) PROVE FALSE
      BY <2>0, <2>6, <2>8 DEF Resynced, Fields
    <2>9. ASSUME NEW y \in Syncs, Synced(y) PROVE FALSE
      BY <2>0, <2>6, <2>9 DEF Synced, Fields
    <2>10. ~(SetEmail \/ Lock \/ CancelRequest \/ SubmitPassword \/ SubmitTwoFactor)
      BY <2>0, <2>6 DEF SetEmail, Lock, CancelRequest, SubmitPassword, SubmitTwoFactor, Fields
    <2>11. ASSUME NEW u \in Unlocks, Unlock(u) \/ LoginAnswered(u) PROVE FALSE
      BY <2>6, <2>11 DEF Unlock, LoginAnswered
    <2>12. ASSUME NEW s \in Signs,
                  \/ Ensure(s) \/ ReadEmail(s) \/ RequestPassword(s) \/ EmitPassword(s)
                  \/ PromptDropped(s) \/ RequestTwoFactor(s) \/ EmitTwoFactor(s)
                  \/ CodePromptDropped(s) \/ TryLogin(s) \/ FirstLogin(s) \/ ReadRefresh(s)
           PROVE  FALSE
      BY <2>6, <2>12 DEF Ensure, ReadEmail, RequestPassword, EmitPassword, PromptDropped,
         RequestTwoFactor, EmitTwoFactor, CodePromptDropped, TryLogin, FirstLogin, ReadRefresh
    <2>13. ASSUME NEW y \in Syncs, BeginSync(y) PROVE FALSE
      BY <2>6, <2>13 DEF BeginSync
    <2>14. ASSUME NEW e \in Edits, BeginEdit(e) \/ Encrypt(e) \/ Put(e) PROVE FALSE
      BY <2>6, <2>14 DEF BeginEdit, Encrypt, Put
    <2>15. ASSUME NEW r \in Requests, CreateRequest(r) \/ RequestCreated(r) \/ ApproveRequest(r)
           PROVE  FALSE
      BY <2>6, <2>15 DEF CreateRequest, RequestCreated, ApproveRequest
    <2>16. ASSUME NEW p \in Polls, Poll(p) \/ PollAnswered(p) \/ ExchangeAnswered(p) PROVE FALSE
      BY <2>6, <2>16 DEF Poll, PollAnswered, ExchangeAnswered
    <2> HIDE DEF ByCall, ByPoll
    <2> QED BY <2>2, <2>3, <2>4, <2>5, <2>7, <2>8, <2>9, <2>10, <2>11, <2>12, <2>13, <2>14,
               <2>15, <2>16 DEF Next, SignStep, LocalStep,
               ServerStep, Calls
  <1> QED BY InitIInv, NextIInv, <1>1, PTL DEF Spec, SafeSpec, OpenedByCredential
=============================================================================
