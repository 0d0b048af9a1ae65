--------------------------- MODULE ApprovalProofs ---------------------------
(***************************************************************************)
(* Safety of Approval for every set of calls, commands, keys and clients:  *)
(* the inductive invariant IInv, the invariants the runs check, and the    *)
(* refinement of ApprovalPromise.                                          *)
(***************************************************************************)
EXTENDS Approval, TLAPS

\* Every command in progress carries the arguments of a click on a known call;
\* one that is about to create a session, or has, said "yes" and to remember it.
ClicksOK ==
    /\ \A c \in Commands : Made(c) => click[c] \in Clicks /\ click[c].id \in known
    /\ \A c \in Commands :
          cmd[c] \in {"lookup", "grant"} \/ c \in sessions =>
              /\ Made(c)
              /\ click[c].answer = "yes"
              /\ click[c].remember \in Scopes

\* Nobody knows of a call before it is on the list.
KnownAreListed ==
    \A r \in known \cup requests : sign[r] \notin {"idle", "create", "list"}

\* The sender is in the map exactly while nothing was sent: until create_request
\* there is no sender, and a receiver that still listens to an empty channel has one.
SenderOK ==
    \A r \in Requests :
        /\ r \in pending => chan[r] = "empty" /\ sign[r] \in Listening \cup {"expire"}
        /\ sign[r] \in Listening /\ chan[r] = "empty" => r \in pending
        /\ sign[r] \in {"idle", "create", "list"} => chan[r] = "empty"

\* "yes" is only ever sent for a user who said it.
YesIsTheUsers == \A r \in Requests : chan[r] = "yes" => SaidYes(r)

OutcomeOK == \A r \in Requests : sign[r] = "decided" <=> outcome[r] # "none"

Inductive ==
    /\ ClicksOK
    /\ KnownAreListed
    /\ SenderOK
    /\ YesIsTheUsers
    /\ OutcomeOK
    /\ ListedIsLive
    /\ ApprovedByUser

IInv == TypeOK /\ Inductive
-----------------------------------------------------------------------------
LEMMA InitIInv == Init => IInv
  BY DEF Init, IInv, Inductive, TypeOK, ClicksOK, KnownAreListed, SenderOK, YesIsTheUsers,
         OutcomeOK, ListedIsLive, ApprovedByUser, SignPoint, CmdPoint, Listening, Made

LEMMA TypeStep == TypeOK /\ ClicksOK /\ [Next]_vars => TypeOK'
  <1> SUFFICES ASSUME TypeOK, ClicksOK, [Next]_vars PROVE TypeOK'
      OBVIOUS
  <1> USE DEF TypeOK, SignPoint, CmdPoint
  <1>1. ASSUME NEW r \in Requests, AutoApproved(r) \/ NeedApproval(r) PROVE TypeOK'
    BY <1>1 DEF AutoApproved, NeedApproval, Decide, Goto, cmdVars
  <1>2. ASSUME NEW r \in Requests, SignStep(r) PROVE TypeOK'
    BY <1>2 DEF SignStep, InsertPending, PushRequest, Notify, RefuseSend, RefuseUnlist,
        Receive, Timeout, ExpireSend, ExpireUnlist, Answer, Unlist, Decide, Goto, cmdVars
  <1>3. ASSUME NEW c \in Commands, CmdStep(c) PROVE TypeOK'
    <2>1. CASE Lookup(c)
      BY <2>1 DEF Lookup, CmdGoto, signVars
    <2>2. CASE CreateSession(c)
      BY <2>2 DEF CreateSession, CmdGoto, signVars
    <2>3. CASE CmdSend(c)
      BY <2>3 DEF CmdSend, CmdGoto, Answer, signVars, ClicksOK, Made, Clicks
    <2>4. CASE CmdUnlist(c)
      BY <2>4 DEF CmdUnlist, CmdGoto, Unlist, signVars
    <2> QED BY <1>3, <2>1, <2>2, <2>3, <2>4 DEF CmdStep
  <1>4. CASE UserStep
    <2>1. ASSUME NEW c \in Commands, NEW r \in Requests, NEW v \in {"yes", "no"},
                 ApproveRequest(c, r, v)
          PROVE TypeOK'
      BY <2>1 DEF ApproveRequest, CmdGoto, Clicks, signVars
    <2>2. ASSUME NEW c \in Commands, NEW r \in Requests, NEW s \in {AnyProcess, ClientOf[r]},
                 ApproveWithSession(c, r, s)
          PROVE TypeOK'
      BY <2>2, ApprovalConstants DEF ApproveWithSession, CmdGoto, Clicks, Scopes, signVars
    <2>3. CASE Reload
      BY <2>3 DEF Reload, signVars, cmdVars
    <2>4. CASE RevokeAll \/ \E c \in Commands : EndSession(c)
      BY <2>4 DEF RevokeAll, EndSession, signVars, cmdVars
    <2> QED BY <1>4, <2>1, <2>2, <2>3, <2>4 DEF UserStep
  <1>5. CASE UNCHANGED vars
    BY <1>5 DEF vars
  <1> QED BY <1>1, <1>2, <1>3, <1>4, <1>5 DEF Next, ClientStep

\* One step per action.  The handlers that take a sender (CmdSend, RefuseSend,
\* ExpireSend) rely on SenderOK and keep ListedIsLive by standing at the point
\* where the list is cleaned; the clicks rely on KnownAreListed.
LEMMA InductiveStep == IInv /\ [Next]_vars => Inductive'
  <1> SUFFICES ASSUME IInv, [Next]_vars PROVE Inductive'
      OBVIOUS
  <1> USE DEF IInv, Inductive, TypeOK, ClicksOK, KnownAreListed, SenderOK, YesIsTheUsers,
              OutcomeOK, ListedIsLive, ApprovedByUser, Made, SaidYes, Remembering,
              Unlisting, SignPoint, CmdPoint, Listening
  <1>1. ASSUME NEW r \in Requests, AutoApproved(r) PROVE Inductive'
    BY <1>1, ApprovalConstants DEF AutoApproved, Covers, Decide, Goto, cmdVars
  <1>2. ASSUME NEW r \in Requests, NeedApproval(r) PROVE Inductive'
    BY <1>2 DEF NeedApproval, Goto, cmdVars
  <1>3. ASSUME NEW r \in Requests, InsertPending(r) PROVE Inductive'
    BY <1>3 DEF InsertPending, Goto, cmdVars
  <1>4. ASSUME NEW r \in Requests, PushRequest(r) PROVE Inductive'
    BY <1>4 DEF PushRequest, Goto, cmdVars
  <1>5. ASSUME NEW r \in Requests, Notify(r) PROVE Inductive'
    BY <1>5 DEF Notify, Goto, cmdVars
  <1>6. ASSUME NEW r \in Requests, RefuseSend(r) PROVE Inductive'
    BY <1>6 DEF RefuseSend, Answer, Goto, cmdVars
  <1>7. ASSUME NEW r \in Requests, RefuseUnlist(r) PROVE Inductive'
    BY <1>7 DEF RefuseUnlist, Unlist, Goto, cmdVars
  <1>8. ASSUME NEW r \in Requests, Receive(r) PROVE Inductive'
    BY <1>8 DEF Receive, Decide, Goto, cmdVars
  <1>9. ASSUME NEW r \in Requests, Timeout(r) PROVE Inductive'
    BY <1>9 DEF Timeout, Goto, cmdVars
  <1>10. ASSUME NEW r \in Requests, ExpireSend(r) PROVE Inductive'
    BY <1>10 DEF ExpireSend, Answer, Goto, cmdVars
  <1>11. ASSUME NEW r \in Requests, ExpireUnlist(r) PROVE Inductive'
    BY <1>11 DEF ExpireUnlist, Unlist, Decide, Goto, cmdVars
  <1>12. ASSUME NEW c \in Commands, Lookup(c) PROVE Inductive'
    BY <1>12 DEF Lookup, CmdGoto, signVars
  <1>13. ASSUME NEW c \in Commands, CreateSession(c) PROVE Inductive'
    BY <1>13 DEF CreateSession, CmdGoto, signVars
  <1>14. ASSUME NEW c \in Commands, CmdSend(c) PROVE Inductive'
    BY <1>14 DEF CmdSend, Answer, CmdGoto, Clicks, signVars
  <1>15. ASSUME NEW c \in Commands, CmdUnlist(c) PROVE Inductive'
    BY <1>15 DEF CmdUnlist, Unlist, CmdGoto, Clicks, signVars
  <1>16. ASSUME NEW c \in Commands, EndSession(c) PROVE Inductive'
    BY <1>16 DEF EndSession, signVars, cmdVars
  <1>17. ASSUME NEW c \in Commands, NEW r \in Requests, NEW v \in {"yes", "no"},
               ApproveRequest(c, r, v)
        PROVE Inductive'
    BY <1>17 DEF ApproveRequest, CmdGoto, Clicks, signVars
  <1>18. ASSUME NEW c \in Commands, NEW r \in Requests, NEW s \in {AnyProcess, ClientOf[r]},
               ApproveWithSession(c, r, s)
        PROVE Inductive'
    <2>1. s \in Scopes
      BY ApprovalConstants DEF Scopes
    <2> QED BY <1>18, <2>1 DEF ApproveWithSession, CmdGoto, Clicks, signVars
  <1>19. CASE Reload
    BY <1>19 DEF Reload, signVars, cmdVars
  <1>20. CASE RevokeAll
    BY <1>20 DEF RevokeAll, signVars, cmdVars
  <1>21. CASE UNCHANGED vars
    BY <1>21 DEF vars
  <1> HIDE DEF IInv, Inductive
  <1>22. CASE ClientStep
    BY <1>1, <1>2, <1>22 DEF ClientStep
  <1>23. CASE UserStep
    BY <1>16, <1>17, <1>18, <1>19, <1>20, <1>23 DEF UserStep
  <1>24. ASSUME NEW r \in Requests, SignStep(r) PROVE Inductive'
    BY <1>3, <1>4, <1>5, <1>6, <1>7, <1>8, <1>9, <1>10, <1>11, <1>24 DEF SignStep
  <1>25. ASSUME NEW c \in Commands, CmdStep(c) PROVE Inductive'
    BY <1>12, <1>13, <1>14, <1>15, <1>25 DEF CmdStep
  <1> QED BY <1>21, <1>22, <1>23, <1>24, <1>25 DEF Next

\* The inductive invariant holds of every behaviour of the queue, whatever the
\* number of calls and commands.
THEOREM Inductiveness == SafeSpec => []IInv
  <1>1. IInv /\ [Next]_vars => IInv'
    BY TypeStep, InductiveStep DEF IInv, Inductive
  <1> QED BY InitIInv, <1>1, PTL DEF SafeSpec

\* Every variable of the queue keeps its type.
THEOREM TypeCorrect == SafeSpec => []TypeOK
  <1>1. IInv => TypeOK
    BY DEF IInv
  <1> QED BY Inductiveness, <1>1, PTL

\* A request the user is shown can be answered, or is just being taken off the list.
THEOREM ListIsLive == SafeSpec => []ListedIsLive
  <1>1. IInv => ListedIsLive
    BY DEF IInv, Inductive
  <1> QED BY Inductiveness, <1>1, PTL

\* No sign() call goes on without a click on it or a session that covers it.
THEOREM ApprovalIsTheUsers == SafeSpec => []ApprovedByUser
  <1>1. IInv => ApprovedByUser
    BY DEF IInv, Inductive
  <1> QED BY Inductiveness, <1>1, PTL
-----------------------------------------------------------------------------
(* The refinement of ApprovalPromise.                                      *)

Verdicts   == [r \in Requests |-> Verdict(r)]
Consented  == {r \in Requests : SaidYes(r)}
Remembered == {<<KeyOf[click[c].id], click[c].remember>> : c \in Remembering}

LEMMA InitRefines == Init => P!PInit
  <1> SUFFICES ASSUME Init PROVE P!PInit
      OBVIOUS
  <1>1. Remembering = {} /\ \A r \in Requests : ~SaidYes(r)
    BY DEF Init, Remembering, SaidYes, Made
  <1>2. \A r \in Requests : Verdict(r) = "unasked"
    <2>1. \A r \in Requests : sign[r] \in {"idle", "create"}
      BY DEF Init
    <2> QED BY <2>1 DEF Verdict, Listening
  <1> QED BY <1>1, <1>2 DEF Init, P!PInit

\* A step that makes no click leaves what the user has said as it is.
LEMMA NoNewClick ==
  ASSUME UNCHANGED click, \A c \in Commands : Made(c)' <=> Made(c)
  PROVE  UNCHANGED <<Consented, Remembered>>
  BY DEF Consented, Remembered, SaidYes, Remembering

\* So does a step of a command handler or of sign().
LEMMA StepsMakeNoClick ==
  ASSUME TypeOK,
         \/ UNCHANGED cmdVars
         \/ \E c \in Commands : CmdStep(c)
  PROVE  UNCHANGED <<Consented, Remembered>>
  <1>1. UNCHANGED click
    BY DEF cmdVars, CmdStep, Lookup, CreateSession, CmdSend, CmdUnlist
  <1>2. \A c \in Commands : Made(c)' <=> Made(c)
    BY DEF TypeOK, CmdPoint, Made, cmdVars, CmdStep, Lookup, CreateSession, CmdSend,
           CmdUnlist, CmdGoto
  <1> QED BY <1>1, <1>2, NoNewClick

\* A verdict changes only where the call itself moves or its channel is written.
LEMMA VerdictOfOthers ==
  ASSUME NEW r \in Requests, sign'[r] = sign[r], chan'[r] = chan[r], outcome'[r] = outcome[r]
  PROVE  Verdict(r)' = Verdict(r)
  BY DEF Verdict

\* A session that covers a call makes the call's key and client remembered.
LEMMA SessionRemembers ==
  ASSUME IInv, NEW r \in Requests, NEW c \in sessions, Covers(c, r)
  PROVE  \E s \in {AnyProcess, ClientOf[r]} : <<KeyOf[r], s>> \in Remembered
  <1>1. c \in Remembering
    BY ApprovalConstants DEF IInv, Inductive, ClicksOK, Remembering, TypeOK
  <1> QED BY <1>1 DEF Covers, Remembered

\* The answer of a handler settles an open call, or changes no verdict.
LEMMA AnswerSettles ==
  ASSUME IInv, NEW r \in Requests, NEW v \in {"yes", "no"}, Answer(r, v),
         \/ UNCHANGED sign
         \/ /\ sign[r] \in {"refuse", "expire"}
            /\ Goto(r, IF sign[r] = "refuse" THEN "unlist" ELSE "sweep"),
         v = "yes" => SaidYes(r),
         UNCHANGED <<outcome, Consented, Remembered>>
  PROVE  P!Settle(r, v) \/ UNCHANGED P!pvars
  <1> USE DEF IInv, Inductive, TypeOK, SignPoint, Listening
  <1>1. \A q \in Requests \ {r} : Verdict(q)' = Verdict(q)
    <2> SUFFICES ASSUME NEW q \in Requests \ {r} PROVE Verdict(q)' = Verdict(q)
        OBVIOUS
    <2>1. sign'[q] = sign[q] /\ chan'[q] = chan[q] /\ outcome'[q] = outcome[q]
      BY DEF Answer, Goto
    <2> QED BY <2>1, VerdictOfOthers
  <1>2. CASE r \in pending /\ sign[r] \in Listening
    <2>1. Verdict(r) = "open"
      BY <1>2 DEF SenderOK, Verdict
    <2>2. Verdict(r)' = v
      BY <1>2 DEF Answer, Goto, Verdict
    <2>3. Verdicts' = [Verdicts EXCEPT ![r] = v]
      BY <1>1, <2>2 DEF Verdicts
    <2>4. v = "yes" => r \in Consented
      BY DEF Consented
    <2> QED BY <2>1, <2>3, <2>4 DEF P!Settle, Verdicts, Consented, Remembered
  <1>3. CASE ~(r \in pending /\ sign[r] \in Listening)
    <2>1. UNCHANGED chan
      BY <1>3 DEF Answer
    <2>2. Verdict(r)' = Verdict(r)
      BY <2>1 DEF Goto, Verdict
    <2>3. UNCHANGED Verdicts
      BY <1>1, <2>2 DEF Verdicts
    <2> QED BY <2>3 DEF P!pvars, Verdicts, Consented, Remembered
  <1> QED BY <1>2, <1>3

\* What sign() does by itself.
LEMMA SignStepRefines ==
  ASSUME IInv, NEW r \in Requests, AutoApproved(r) \/ NeedApproval(r) \/ SignStep(r)
  PROVE  P!PNext \/ UNCHANGED P!pvars
  <1> USE DEF IInv, Inductive, TypeOK, SignPoint, Listening
  <1>1. UNCHANGED <<click, cmd, Consented, Remembered>>
    <2>1. UNCHANGED cmdVars
      BY DEF AutoApproved, NeedApproval, SignStep, InsertPending, PushRequest, Notify,
         RefuseSend, RefuseUnlist, Receive, Timeout, ExpireSend, ExpireUnlist
    <2> QED BY <2>1, StepsMakeNoClick DEF cmdVars
  <1>2. ASSUME NEW v, Verdict(r)' = v,
               \A q \in Requests \ {r} : /\ sign'[q] = sign[q]
                                        /\ chan'[q] = chan[q]
                                        /\ outcome'[q] = outcome[q]
        PROVE  Verdicts' = [Verdicts EXCEPT ![r] = v]
    BY <1>2, VerdictOfOthers DEF Verdicts
  <1>3. CASE AutoApproved(r)
    <2>1. Verdict(r) = "unasked" /\ Verdict(r)' = "yes"
      BY <1>3 DEF AutoApproved, Decide, Goto, Verdict
    <2>2. Verdicts' = [Verdicts EXCEPT ![r] = "yes"]
      BY <1>2, <1>3, <2>1 DEF AutoApproved, Decide, Goto
    <2>3. \E s \in {AnyProcess, ClientOf[r]} : <<KeyOf[r], s>> \in Remembered
      BY <1>3, SessionRemembers DEF AutoApproved
    <2>4. P!AutoApprove(r)
      BY <1>1, <1>3, <2>1, <2>2, <2>3
         DEF P!AutoApprove, AutoApproved, Decide, Verdicts, Consented, Remembered
    <2> QED BY <2>4 DEF P!PNext
  <1>4. CASE InsertPending(r)
    <2>1. Verdict(r) = "unasked" /\ Verdict(r)' = "open"
      BY <1>4 DEF InsertPending, Goto, SenderOK, Verdict
    <2>2. Verdicts' = [Verdicts EXCEPT ![r] = "open"]
      BY <1>2, <1>4, <2>1 DEF InsertPending, Goto
    <2>3. P!Ask(r)
      BY <1>1, <1>4, <2>1, <2>2
         DEF P!Ask, InsertPending, Verdicts, Consented, Remembered
    <2> QED BY <2>3 DEF P!PNext
  <1>5. CASE Timeout(r)
    <2>1. Verdict(r) = "open" /\ Verdict(r)' = "no"
      BY <1>5 DEF Timeout, Goto, Verdict
    <2>2. Verdicts' = [Verdicts EXCEPT ![r] = "no"]
      BY <1>2, <1>5, <2>1 DEF Timeout, Goto
    <2>3. P!Settle(r, "no")
      BY <1>1, <1>5, <2>1, <2>2
         DEF P!Settle, Timeout, Verdicts, Consented, Remembered
    <2> QED BY <2>3 DEF P!PNext
  <1>6. CASE Receive(r) \/ ExpireUnlist(r)
    <2>1. outcome[r] = "none" /\ Verdict(r) \in {"yes", "no"}
      BY <1>6 DEF Receive, ExpireUnlist, OutcomeOK, Verdict
    <2>2. outcome' = [outcome EXCEPT ![r] = Verdict(r)] /\ Verdict(r)' = Verdict(r)
      BY <1>6 DEF Receive, ExpireUnlist, Decide, Goto, Verdict
    <2>3. UNCHANGED Verdicts
      BY <1>2, <1>6, <2>2 DEF Receive, ExpireUnlist, Decide, Goto, Verdicts
    <2>4. P!Return(r)
      BY <1>1, <2>1, <2>2, <2>3 DEF P!Return, Verdicts, Consented, Remembered
    <2> QED BY <2>4 DEF P!PNext
  <1>7. CASE RefuseSend(r) \/ ExpireSend(r)
    <2>1. P!Settle(r, "no") \/ UNCHANGED P!pvars
      BY <1>1, <1>7, AnswerSettles DEF RefuseSend, ExpireSend
    <2> QED BY <2>1 DEF P!PNext
  <1>8. CASE NeedApproval(r) \/ PushRequest(r) \/ Notify(r) \/ RefuseUnlist(r)
    <2>1. Verdict(r)' = Verdict(r) /\ UNCHANGED outcome
      BY <1>8 DEF NeedApproval, PushRequest, Notify, RefuseUnlist, Goto, Verdict
    <2>2. UNCHANGED Verdicts
      BY <1>2, <1>8, <2>1 DEF NeedApproval, PushRequest, Notify, RefuseUnlist, Goto, Verdicts
    <2> QED BY <1>1, <2>1, <2>2 DEF P!pvars, Verdicts, Consented, Remembered
  <1> QED BY <1>3, <1>4, <1>5, <1>6, <1>7, <1>8 DEF SignStep

\* What a command handler does once it is called.
LEMMA CmdStepRefines ==
  ASSUME IInv, NEW c \in Commands, CmdStep(c)
  PROVE  P!PNext \/ UNCHANGED P!pvars
  <1> USE DEF IInv, Inductive
  <1>1. UNCHANGED <<Consented, Remembered>>
    BY StepsMakeNoClick
  <1>2. CASE CmdSend(c)
    <2>1. /\ click[c].id \in Requests
          /\ click[c].answer \in {"yes", "no"}
          /\ click[c].answer = "yes" => SaidYes(click[c].id)
      BY <1>2 DEF CmdSend, ClicksOK, Made, Clicks, SaidYes
    <2>2. P!Settle(click[c].id, click[c].answer) \/ UNCHANGED P!pvars
      BY <1>1, <1>2, <2>1, AnswerSettles DEF CmdSend, signVars
    <2> QED BY <2>1, <2>2 DEF P!PNext
  <1>3. CASE Lookup(c) \/ CreateSession(c) \/ CmdUnlist(c)
    <2>1. UNCHANGED <<sign, chan, outcome>>
      BY <1>3 DEF Lookup, CreateSession, CmdUnlist, signVars
    <2>2. UNCHANGED Verdicts
      BY <2>1, VerdictOfOthers DEF Verdicts
    <2> QED BY <1>1, <2>1, <2>2 DEF P!pvars, Verdicts, Consented, Remembered
  <1> QED BY <1>2, <1>3 DEF CmdStep

\* What the user does: only a click that says "yes" is a step of the promise.
LEMMA UserStepRefines ==
  ASSUME IInv, UserStep
  PROVE  P!PNext \/ UNCHANGED P!pvars
  <1> USE DEF IInv, Inductive, TypeOK, CmdPoint
  <1>1. UNCHANGED <<sign, chan, outcome>>
    BY DEF UserStep, ApproveRequest, ApproveWithSession, Reload, EndSession, RevokeAll,
       signVars
  <1>2. UNCHANGED Verdicts
    BY <1>1, VerdictOfOthers DEF Verdicts
  <1>3. ASSUME NEW c \in Commands, NEW r \in Requests, NEW v \in {"yes", "no"},
               NEW s \in Scopes \cup {NoSession}, v = "no" => s = NoSession,
               cmd[c] = "idle", CmdGoto(c, "send") \/ CmdGoto(c, "lookup"),
               click' = [click EXCEPT ![c] = [id |-> r, answer |-> v, remember |-> s]]
        PROVE  P!PNext \/ UNCHANGED P!pvars
    <2>1. /\ Consented' = Consented \cup (IF v = "yes" THEN {r} ELSE {})
          /\ Remembering' = Remembering \cup (IF s = NoSession THEN {} ELSE {c})
      BY <1>3 DEF Consented, SaidYes, Remembering, Made, CmdGoto
    <2>2. Remembered' = Remembered \cup (IF s = NoSession THEN {} ELSE {<<KeyOf[r], s>>})
      BY <1>3, <2>1 DEF Remembered, Remembering, Made
    <2>3. CASE v = "yes"
      <3>1. /\ Remembered \subseteq Remembered'
            /\ Remembered' \ Remembered \subseteq {KeyOf[r]} \X P!Scopes
        BY <1>3, <2>2, ApprovalConstants DEF Scopes, P!Scopes
      <3>2. P!Consent(r)
        BY <1>1, <1>2, <2>1, <2>3, <3>1 DEF P!Consent, Verdicts, Consented, Remembered
      <3> QED BY <3>2 DEF P!PNext
    <2>4. CASE v = "no"
      BY <1>1, <1>2, <1>3, <2>1, <2>2, <2>4 DEF P!pvars, Verdicts, Consented, Remembered
    <2> QED BY <1>3, <2>3, <2>4
  <1>4. ASSUME UNCHANGED cmdVars PROVE UNCHANGED P!pvars
    <2>1. UNCHANGED <<Consented, Remembered>>
      BY <1>4, StepsMakeNoClick
    <2> QED BY <1>1, <1>2, <2>1 DEF P!pvars, Verdicts, Consented, Remembered
  <1>5. ASSUME NEW c \in Commands, NEW r \in Requests, NEW v \in {"yes", "no"},
               ApproveRequest(c, r, v)
        PROVE  P!PNext \/ UNCHANGED P!pvars
    BY <1>3, <1>5 DEF ApproveRequest
  <1>6. ASSUME NEW c \in Commands, NEW r \in Requests, NEW s \in {AnyProcess, ClientOf[r]},
               ApproveWithSession(c, r, s)
        PROVE  P!PNext \/ UNCHANGED P!pvars
    BY <1>3, <1>6, ApprovalConstants DEF ApproveWithSession, Scopes
  <1>7. CASE Reload \/ RevokeAll \/ \E c \in Commands : EndSession(c)
    BY <1>4, <1>7 DEF Reload, RevokeAll, EndSession
  <1> QED BY <1>5, <1>6, <1>7 DEF UserStep

\* Every step of the queue is a step of the promise, or none.
LEMMA StepRefines == IInv /\ [Next]_vars => [P!PNext]_(P!pvars)
  <1> SUFFICES ASSUME IInv, [Next]_vars PROVE P!PNext \/ UNCHANGED P!pvars
      OBVIOUS
  <1>1. CASE Next
    BY <1>1, SignStepRefines, CmdStepRefines, UserStepRefines DEF Next, ClientStep
  <1>2. CASE UNCHANGED vars
    <2>1. UNCHANGED <<Consented, Remembered>>
      BY <1>2, StepsMakeNoClick DEF IInv, vars, cmdVars
    <2>2. UNCHANGED Verdicts
      BY <1>2, VerdictOfOthers DEF vars, Verdicts
    <2> QED BY <1>2, <2>1, <2>2 DEF vars, P!pvars, Verdicts, Consented, Remembered
  <1> QED BY <1>1, <1>2

\* The queue keeps its promise: each call is settled once, by the user or against
\* them, and the call returns with the settlement.
THEOREM QueueKeepsPromise == SafeSpec => SettledOnce
  <1>1. SafeSpec => []IInv
    BY Inductiveness
  <1> QED BY InitRefines, StepRefines, <1>1, PTL DEF SafeSpec, SettledOnce, P!PSafe
=============================================================================
