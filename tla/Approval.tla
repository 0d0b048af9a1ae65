------------------------------ MODULE Approval ------------------------------
(***************************************************************************)
(* The approval of a sign call: the approval part of sign() in             *)
(* crates/bw-agent/src/ssh_agent.rs, the ApprovalQueue of approval.rs, and *)
(* the Tauri commands of src-tauri/src/commands.rs that answer it.         *)
(*                                                                         *)
(* ApprovalQueue keeps two maps behind two separate mutexes: `pending`     *)
(* holds the oneshot senders, `requests` what the user is shown.  Each     *)
(* critical section (none contains an await) is one action here, so every  *)
(* interleaving of sign tasks and command handlers between two sections is *)
(* explored.  The oneshot channel is chan[r]; its receiver is alive while  *)
(* sign[r] is one of Listening.                                            *)
(*                                                                         *)
(* Sessions are named by the command that created them.  Their expiry and  *)
(* the hash check behind an executable scope appear as nondeterminism.     *)
(***************************************************************************)
CONSTANTS Requests,    \* sign calls; each has the uuid create_request gives it
          Commands,    \* calls the user makes from the approval dialog
          Keys, Exes,
          KeyOf,       \* the key fingerprint of each call
          ClientOf,    \* client_exe of each call
          AnyProcess,  \* SessionScope::AnyProcess
          NoSession,   \* a plain approve_request: nothing is remembered
          NoClick      \* a command not made yet

Scopes == Exes \cup {AnyProcess}

ASSUME ApprovalConstants ==
    /\ KeyOf \in [Requests -> Keys]
    /\ ClientOf \in [Requests -> Exes]
    /\ AnyProcess \notin Exes
    /\ NoSession \notin Scopes

VARIABLES sign,      \* where each sign() call stands
          pending,   \* ApprovalQueue.pending: calls whose sender is in the map
          requests,  \* ApprovalQueue.requests: calls listed for the user
          chan,      \* the value sent on each oneshot channel
          outcome,   \* the local `approved` of each sign() call
          cmd,       \* where each command handler stands
          click,     \* the arguments of each command
          sessions,  \* live sessions, by the command that created them
          known      \* calls the frontend has been told of

signVars == <<sign, outcome>>
cmdVars  == <<cmd, click>>
vars == <<sign, pending, requests, chan, outcome, cmd, click, sessions, known>>

SignPoint == {"idle", "create", "list", "notify", "refuse", "unlist", "wait",
              "expire", "sweep", "decided"}
Listening == {"list", "notify", "refuse", "unlist", "wait"}
CmdPoint  == {"idle", "lookup", "grant", "send", "unlist", "done", "failed"}
Clicks    == [id : Requests, answer : {"yes", "no"}, remember : Scopes \cup {NoSession}]

Init ==
    /\ sign = [r \in Requests |-> "idle"]
    /\ pending = {}
    /\ requests = {}
    /\ chan = [r \in Requests |-> "empty"]
    /\ outcome = [r \in Requests |-> "none"]
    /\ cmd = [c \in Commands |-> "idle"]
    /\ click = [c \in Commands |-> NoClick]
    /\ sessions = {}
    /\ known = {}

Goto(r, p)    == sign' = [sign EXCEPT ![r] = p]
CmdGoto(c, p) == cmd' = [cmd EXCEPT ![c] = p]

Decide(r, v) ==
    /\ Goto(r, "decided")
    /\ outcome' = [outcome EXCEPT ![r] = v]

----------------------------------------------------------------------------
(* ApprovalQueue::respond, in its two critical sections.                   *)

\* Mutant: the sender is looked up and used but left in the map.
AnswerKeepsSender(r, v) ==
    /\ chan' = IF r \in pending /\ sign[r] \in Listening
               THEN [chan EXCEPT ![r] = v] ELSE chan
    /\ UNCHANGED pending

\* Take the sender out of the map and send.  A send to a dropped receiver is
\* lost (it is only logged), and so is an answer to a call no longer pending.
Answer(r, v) ==
    /\ pending' = pending \ {r}
    /\ chan' = IF r \in pending /\ sign[r] \in Listening
               THEN [chan EXCEPT ![r] = v] ELSE chan

Unlist(r) == requests' = requests \ {r}

----------------------------------------------------------------------------
(* sign()                                                                  *)

\* Mutant: the executable of the scope is not compared.
CoversAnyClient(c, r) ==
    /\ KeyOf[click[c].id] = KeyOf[r]
    /\ click[c].remember # NoSession

\* check_session: the key is the same and the scope admits the client.
Covers(c, r) ==
    /\ KeyOf[click[c].id] = KeyOf[r]
    /\ click[c].remember \in {AnyProcess, ClientOf[r]}

AutoApproved(r) ==
    /\ sign[r] = "idle"
    /\ \E c \in sessions : Covers(c, r)
    /\ Decide(r, "yes")
    /\ UNCHANGED <<pending, requests, chan, cmdVars, sessions, known>>

\* No session matches.  An executable scope that covers the call still fails
\* to match when the file's hash has changed, so only AnyProcess is certain.
NeedApproval(r) ==
    /\ sign[r] = "idle"
    /\ \A c \in sessions : Covers(c, r) => click[c].remember # AnyProcess
    /\ Goto(r, "create")
    /\ UNCHANGED <<pending, requests, chan, outcome, cmdVars, sessions, known>>

\* create_request: the sender goes into one map, then the request into the other.
InsertPending(r) ==
    /\ sign[r] = "create"
    /\ pending' = pending \cup {r}
    /\ Goto(r, "list")
    /\ UNCHANGED <<requests, chan, outcome, cmdVars, sessions, known>>

PushRequest(r) ==
    /\ sign[r] = "list"
    /\ requests' = requests \cup {r}
    /\ Goto(r, "notify")
    /\ UNCHANGED <<pending, chan, outcome, cmdVars, sessions, known>>

\* ui.request_approval: the event reaches the frontend, or emitting it fails.
Notify(r) ==
    /\ sign[r] = "notify"
    /\ \/ /\ known' = known \cup {r}
          /\ Goto(r, "wait")
       \/ /\ Goto(r, "refuse")
          /\ UNCHANGED known
    /\ UNCHANGED <<pending, requests, chan, outcome, cmdVars, sessions>>

RefuseSend(r) ==
    /\ sign[r] = "refuse"
    /\ Answer(r, "no")
    /\ Goto(r, "unlist")
    /\ UNCHANGED <<requests, outcome, cmdVars, sessions, known>>

RefuseUnlist(r) ==
    /\ sign[r] = "unlist"
    /\ Unlist(r)
    /\ Goto(r, "wait")
    /\ UNCHANGED <<pending, chan, outcome, cmdVars, sessions, known>>

\* tokio::time::timeout polls the receiver before it looks at the clock.
Receive(r) ==
    /\ sign[r] = "wait"
    /\ chan[r] # "empty"
    /\ Decide(r, chan[r])
    /\ UNCHANGED <<pending, requests, chan, cmdVars, sessions, known>>

\* The deadline passes with nothing received: the receiver is dropped here,
\* before the arm that answers "no" for the user runs.
Timeout(r) ==
    /\ sign[r] = "wait"
    /\ chan[r] = "empty"
    /\ Goto(r, "expire")
    /\ UNCHANGED <<pending, requests, chan, outcome, cmdVars, sessions, known>>

ExpireSend(r) ==
    /\ sign[r] = "expire"
    /\ Answer(r, "no")
    /\ Goto(r, "sweep")
    /\ UNCHANGED <<requests, outcome, cmdVars, sessions, known>>

\* Mutant: the timed-out request is denied but stays listed.
ExpireForgets(r) ==
    /\ sign[r] = "sweep"
    /\ Decide(r, "no")
    /\ UNCHANGED <<pending, requests, chan, cmdVars, sessions, known>>

\* Mutant: the timeout arm returns what the channel holds.
ExpireReturnsChannel(r) ==
    /\ sign[r] = "sweep"
    /\ Unlist(r)
    /\ Decide(r, chan[r])
    /\ UNCHANGED <<pending, chan, cmdVars, sessions, known>>

ExpireUnlist(r) ==
    /\ sign[r] = "sweep"
    /\ Unlist(r)
    /\ Decide(r, "no")
    /\ UNCHANGED <<pending, chan, cmdVars, sessions, known>>

\* Mutant: the wait has no deadline.
SignStepNoTimeout(r) ==
    \/ InsertPending(r) \/ PushRequest(r) \/ Notify(r)
    \/ RefuseSend(r) \/ RefuseUnlist(r)
    \/ Receive(r) \/ ExpireSend(r) \/ ExpireUnlist(r)

\* Everything a sign() call does once its client has asked.
SignStep(r) ==
    \/ InsertPending(r) \/ PushRequest(r) \/ Notify(r)
    \/ RefuseSend(r) \/ RefuseUnlist(r)
    \/ Receive(r) \/ Timeout(r) \/ ExpireSend(r) \/ ExpireUnlist(r)

----------------------------------------------------------------------------
(* The Tauri commands, each invoked for a call the frontend knows.         *)

ApproveRequest(c, r, v) ==
    /\ cmd[c] = "idle"
    /\ r \in known
    /\ click' = [click EXCEPT ![c] = [id |-> r, answer |-> v, remember |-> NoSession]]
    /\ CmdGoto(c, "send")
    /\ UNCHANGED <<signVars, pending, requests, chan, sessions, known>>

\* The dialog offers two scopes: any process, or the executable that asks.
ApproveWithSession(c, r, s) ==
    /\ cmd[c] = "idle"
    /\ r \in known
    /\ click' = [click EXCEPT ![c] = [id |-> r, answer |-> "yes", remember |-> s]]
    /\ CmdGoto(c, "lookup")
    /\ UNCHANGED <<signVars, pending, requests, chan, sessions, known>>

\* get_request: "Request not found or already responded to".
Lookup(c) ==
    /\ cmd[c] = "lookup"
    /\ CmdGoto(c, IF click[c].id \in requests THEN "grant" ELSE "failed")
    /\ UNCHANGED <<signVars, pending, requests, chan, click, sessions, known>>

\* An executable scope first hashes the file, and gives up if that fails.
CreateSession(c) ==
    /\ cmd[c] = "grant"
    /\ \/ /\ sessions' = sessions \cup {c}
          /\ CmdGoto(c, "send")
       \/ /\ click[c].remember # AnyProcess
          /\ CmdGoto(c, "failed")
          /\ UNCHANGED sessions
    /\ UNCHANGED <<signVars, pending, requests, chan, click, known>>

CmdSend(c) ==
    /\ cmd[c] = "send"
    /\ Answer(click[c].id, click[c].answer)
    /\ CmdGoto(c, "unlist")
    /\ UNCHANGED <<signVars, requests, click, sessions, known>>

\* Mutant: the command answers but does not clean the list.
CmdForgets(c) ==
    /\ cmd[c] = "unlist"
    /\ CmdGoto(c, "done")
    /\ UNCHANGED <<signVars, pending, requests, chan, click, sessions, known>>

CmdUnlist(c) ==
    /\ cmd[c] = "unlist"
    /\ Unlist(click[c].id)
    /\ CmdGoto(c, "done")
    /\ UNCHANGED <<signVars, pending, chan, click, sessions, known>>

CmdStep(c) == Lookup(c) \/ CreateSession(c) \/ CmdSend(c) \/ CmdUnlist(c)

\* get_pending_approvals, when the dashboard mounts.
Reload ==
    /\ known' = known \cup requests
    /\ UNCHANGED <<signVars, pending, requests, chan, cmdVars, sessions>>

\* revoke_session, or the lazy removal of an expired session.
EndSession(c) ==
    /\ c \in sessions
    /\ sessions' = sessions \ {c}
    /\ UNCHANGED <<signVars, pending, requests, chan, cmdVars, known>>

\* revoke_all, from the lock_vault command.
RevokeAll ==
    /\ sessions' = {}
    /\ UNCHANGED <<signVars, pending, requests, chan, cmdVars, known>>

----------------------------------------------------------------------------
ClientStep == \E r \in Requests : AutoApproved(r) \/ NeedApproval(r)

UserStep ==
    \/ \E c \in Commands, r \in Requests :
          \/ \E v \in {"yes", "no"} : ApproveRequest(c, r, v)
          \/ \E s \in {AnyProcess, ClientOf[r]} : ApproveWithSession(c, r, s)
    \/ Reload
    \/ \E c \in Commands : EndSession(c)
    \/ RevokeAll

Next ==
    \/ ClientStep
    \/ UserStep
    \/ \E r \in Requests : SignStep(r)
    \/ \E c \in Commands : CmdStep(c)

\* Tasks are scheduled and the timer fires; clients and the user owe nothing.
Fairness ==
    /\ \A r \in Requests : WF_vars(SignStep(r))
    /\ \A c \in Commands : WF_vars(CmdStep(c))

SafeSpec == Init /\ [][Next]_vars
Spec == SafeSpec /\ Fairness
----------------------------------------------------------------------------
(* Properties                                                              *)

TypeOK ==
    /\ sign \in [Requests -> SignPoint]
    /\ pending \subseteq Requests
    /\ requests \subseteq Requests
    /\ chan \in [Requests -> {"empty", "yes", "no"}]
    /\ outcome \in [Requests -> {"none", "yes", "no"}]
    /\ cmd \in [Commands -> CmdPoint]
    /\ click \in [Commands -> Clicks \cup {NoClick}]
    /\ sessions \subseteq Commands
    /\ known \subseteq Requests

Made(c) == cmd[c] # "idle"

SaidYes(r) == \E c \in Commands : Made(c) /\ click[c].id = r /\ click[c].answer = "yes"

Remembering == {c \in Commands : Made(c) /\ click[c].remember # NoSession}

\* Someone has taken r's sender and is about to take r off the list.
Unlisting(r) ==
    \/ sign[r] \in {"unlist", "sweep"}
    \/ \E c \in Commands : cmd[c] = "unlist" /\ click[c].id = r

\* What the user is shown can still be answered: a listed request has a sender
\* and a sign() call behind it, unless the handler that took the sender is just
\* about to take it off the list.  (The two maps of ApprovalQueue have separate
\* mutexes; a request left in `requests` alone would be shown for ever.)
ListedIsLive ==
    \A r \in requests :
        \/ r \in pending /\ sign[r] \in Listening \cup {"expire"}
        \/ Unlisting(r)

\* A sign() call goes on as approved only if the user approved this very call, or
\* asked to remember an approval for the same key and a scope that admits the client.
ApprovedByUser ==
    \A r \in Requests :
        outcome[r] = "yes" =>
            \/ SaidYes(r)
            \/ \E c \in Remembering : /\ KeyOf[click[c].id] = KeyOf[r]
                                     /\ click[c].remember \in {AnyProcess, ClientOf[r]}

\* The refinement: how each call stands with the user, seen without the queue.
Verdict(r) ==
    CASE sign[r] \in {"idle", "create"}  -> "unasked"
      [] sign[r] \in {"expire", "sweep"} -> "no"
      [] sign[r] = "decided"             -> outcome[r]
      [] sign[r] \in Listening           -> IF chan[r] = "empty" THEN "open" ELSE chan[r]

P == INSTANCE ApprovalPromise WITH
        verdict    <- [r \in Requests |-> Verdict(r)],
        returned   <- outcome,
        consented  <- {r \in Requests : SaidYes(r)},
        remembered <- {<<KeyOf[click[c].id], click[c].remember>> : c \in Remembering}

\* The queue settles each call once, with the answer that reached it first, and the
\* call returns with that answer: an answer racing the timeout or another answer is
\* either the one that counts or has no effect.
SettledOnce == P!PSafe

\* Every call the user is asked about returns, even when nobody ever answers.
EveryCallReturns == P!PLive

\* No request stays on the user's list for ever.
EveryRequestLeavesTheList == \A r \in Requests : r \in requests ~> r \notin requests

\* Remembering an approval goes with granting it (the design's flow creates the session
\* and then responds "approve" to a request get_request has just found unanswered): no
\* session is created for a call whose answer is already "no".
SessionOnlyWhenApproved ==
    [][\A c \in Commands :
         c \in sessions' \ sessions => Verdict(click[c].id) # "no"]_vars
=============================================================================
