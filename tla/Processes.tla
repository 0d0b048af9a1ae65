----------------------------- MODULE Processes -----------------------------
(***************************************************************************)
(* The processes behind a connection: process.rs of bw-agent.              *)
(*                                                                         *)
(* os is the process table: each pid's image (the executable), its parent, *)
(* its working directory, and whether the agent may look into it.  An      *)
(* image is the whole path; the lists of process.rs look at its file name, *)
(* of which a few of each kind are enough here.  What is read of one       *)
(* process is read at once; processes come and go between two of the       *)
(* steps below.  The command line is for display and left out.             *)
(***************************************************************************)
EXTENDS Naturals, Sequences, SequencesExt

CONSTANT MaxWalkDepth   \* MAX_WALK_DEPTH

ASSUME DepthAssumption == MaxWalkDepth \in Nat

HardStops == {"desktop", "ide"}          \* HARD_STOP_LIST
Transparent == {"shell", "node"}         \* TRANSPARENT_LIST
Gits == {"git"}

\* An exe that cannot be read is named after its pid; "" is an unreadable cwd.
Unreadable(p) == [exe |-> <<"pid", p>>, pid |-> p, cwd |-> ""]
Unknown == [exe |-> <<"unknown", 0>>, pid |-> 0, cwd |-> "unknown"]

\* query_process_info: the platform's three queries of one pid
ResolveExe(os, p) == IF p \in DOMAIN os /\ os[p].readable THEN <<os[p].image, 0>> ELSE <<"pid", p>>
ResolveCwd(os, p) == IF p \in DOMAIN os /\ os[p].readable THEN os[p].cwd ELSE ""
QueryProcessInfo(os, p) == [exe |-> ResolveExe(os, p), pid |-> p, cwd |-> ResolveCwd(os, p)]

\* get_parent_pid reads a process list and not the process: it needs no rights.
GetParentPid(os, p) == IF p \in DOMAIN os THEN os[p].parent ELSE 0

----------------------------------------------------------------------------
(* resolve_process_chain, one query after the other: chain is the direct   *)
(* client and then its ancestors, parent the one to query next (0: none).  *)

IsWalk(w) == DOMAIN w = {"chain", "parent", "done"} /\ w.chain \in Seq(Range(w.chain))

StartWalk(os, p) ==
    IF p = 0 THEN [chain |-> <<Unknown>>, parent |-> 0, done |-> TRUE]
             ELSE [chain |-> <<QueryProcessInfo(os, p)>>, parent |-> 0, done |-> FALSE]

\* Mutant: no limit to the depth
WalkForever(os, w) ==
    LET parent == GetParentPid(os, Last(w.chain).pid)
    IN  IF parent \in {0, Last(w.chain).pid} THEN [w EXCEPT !.done = TRUE] ELSE [w EXCEPT !.parent = parent]

WalkToParent(os, w) ==
    LET pid == Last(w.chain).pid
        parent == GetParentPid(os, pid)
    IN  IF Len(w.chain) > MaxWalkDepth \/ parent \in {0, pid}
          THEN [w EXCEPT !.done = TRUE]
          ELSE [w EXCEPT !.parent = parent]

WalkQueries(os, w) ==
    LET info == QueryProcessInfo(os, w.parent)
    IN  IF info.exe[1] \in HardStops
          THEN [w EXCEPT !.parent = 0, !.done = TRUE]
          ELSE [w EXCEPT !.parent = 0, !.chain = Append(@, info)]

\* What the callers get: the topmost process first, without the wrappers, and
\* always with the direct client as the last.
ProcessChain(w) ==
    LET top == Reverse(w.chain)
    IN  Append(SelectSeq(Front(top), LAMBDA info : info.exe[1] \notin Transparent), Last(top))

\* client_exe in sign
Initiator(w) == Head(ProcessChain(w)).exe
=============================================================================
