-------------------------- MODULE ApprovalPromise --------------------------
(***************************************************************************)
(* What the approval queue promises the rest of bw-agent, without its      *)
(* mutexes, channels and timers: a sign call whose key needs approval is   *)
(* settled exactly once, the first settlement is the one the call returns  *)
(* with, "yes" only ever comes from the user (a click on this request, or  *)
(* a session the user asked for with a scope that covers the request), and *)
(* every call that was asked about does return.                            *)
(*                                                                         *)
(* Approval.tla is the detailed specification that implements this one.    *)
(***************************************************************************)
CONSTANTS Requests,    \* the sign calls
          Keys,        \* SSH key fingerprints
          Exes,        \* executables clients run
          KeyOf,       \* the key each call asks for
          ClientOf,    \* the executable each call comes from
          AnyProcess   \* the session scope that covers every executable

VARIABLES verdict,     \* how the call stands with the user
          returned,    \* what sign() went on with
          consented,   \* calls the user has clicked "approve" for
          remembered   \* <<key, scope>> pairs the user asked to remember

pvars == <<verdict, returned, consented, remembered>>

Verdicts == {"unasked", "open", "yes", "no"}
Scopes   == Exes \cup {AnyProcess}

PInit ==
    /\ verdict = [r \in Requests |-> "unasked"]
    /\ returned = [r \in Requests |-> "none"]
    /\ consented = {}
    /\ remembered = {}

\* The user presses "approve" for r, remembering it for some scopes or for none.
Consent(r) ==
    /\ UNCHANGED <<verdict, returned>>
    /\ consented' = consented \cup {r}
    /\ remembered \subseteq remembered'
    /\ remembered' \ remembered \subseteq {KeyOf[r]} \X Scopes

Ask(r) ==
    /\ verdict[r] = "unasked"
    /\ verdict' = [verdict EXCEPT ![r] = "open"]
    /\ UNCHANGED <<returned, consented, remembered>>

\* A remembered scope answers for the user.
AutoApprove(r) ==
    /\ verdict[r] = "unasked"
    /\ \E s \in {AnyProcess, ClientOf[r]} : <<KeyOf[r], s>> \in remembered
    /\ verdict' = [verdict EXCEPT ![r] = "yes"]
    /\ returned' = [returned EXCEPT ![r] = "yes"]
    /\ UNCHANGED <<consented, remembered>>

Settle(r, v) ==
    /\ verdict[r] = "open"
    /\ v = "yes" => r \in consented
    /\ verdict' = [verdict EXCEPT ![r] = v]
    /\ UNCHANGED <<returned, consented, remembered>>

Return(r) ==
    /\ verdict[r] \in {"yes", "no"}
    /\ returned[r] = "none"
    /\ returned' = [returned EXCEPT ![r] = verdict[r]]
    /\ UNCHANGED <<verdict, consented, remembered>>

PNext ==
    \E r \in Requests :
        \/ Ask(r)
        \/ AutoApprove(r)
        \/ \E v \in {"yes", "no"} : Settle(r, v)
        \/ Return(r)
        \/ Consent(r)

PSafe == PInit /\ [][PNext]_pvars

\* A call that has been asked about is answered and returns, whatever the user does.
PLive == \A r \in Requests : verdict[r] = "open" ~> returned[r] # "none"

Promise == PSafe /\ PLive
============================================================================
