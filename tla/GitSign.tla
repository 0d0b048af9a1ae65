------------------------------ MODULE GitSign ------------------------------
(***************************************************************************)
(* The agent with its clients: any SSH client, which lists and signs as it *)
(* likes, and bw-agent-git-sign (git_sign.rs), which git runs in place of  *)
(* ssh-keygen -Y to sign a commit and to verify one.                       *)
(*                                                                         *)
(* A signature file names a key; the signature in it is by the key that    *)
(* the agent signed with, and has an algorithm, a namespace and the data.  *)
(***************************************************************************)
EXTENDS Agent

\* A word that is not there
NoWord == ""

CONSTANTS GitConn,      \* the connection of the signing program, if the world makes requests on it
          Data,         \* the commit it signs
          SignersFiles  \* what an allowed signers file may hold

\* What parse_allowed_signers may find in a file: names that are not empty.
ASSUME SignersAssumption ==
    /\ GitConn \in Conns
    /\ \A signers \in SignersFiles : \A l \in Range(signers) : NoWord \notin l.principals

VARIABLE prog   \* the signing program: where it is, its key, what it wrote, its exit code

allvars == <<vars, prog>>

NoFile == <<>>

----------------------------------------------------------------------------
(* The command line.                                                       *)

\* Options that take the next word as their value, and those that take none or
\* have it glued to them
Valued == {"-Y", "-n", "-f", "-I", "-s", "-O"}
Bare == {"-U", "-Overify-time"}

\* The option that a word is the value of, or NoWord
OptionOf(args) ==
    LET of[i \in DOMAIN args] ==
            IF i > 1 /\ of[i - 1] = NoWord /\ args[i - 1] \in Valued THEN args[i - 1] ELSE NoWord
    IN  of

\* run_from_args.  The last value of an option counts; the last word that is no
\* option and no value is the data file.
ParseArgs(args) ==
    LET of == OptionOf(args)
        word(at, default) == IF at = {} THEN default ELSE args[Max(at)]
        value(option, default) == word({i \in DOMAIN args : of[i] = option}, default)
    IN  [action |-> value("-Y", NoWord), namespace |-> value("-n", "git"), key_file |-> value("-f", NoWord),
         principal |-> value("-I", NoWord), signature |-> value("-s", NoWord),
         data |-> word({i \in DOMAIN args : of[i] = NoWord /\ args[i] \notin Valued \cup Bare}, NoWord)]

----------------------------------------------------------------------------
(* Verification.  signers is an allowed signers file: lines of principals  *)
(* and a key, which is NoWord if the line does not parse.  An output with  *)
(* no principals, or an error, is exit code 255.                           *)

\* parse_allowed_signers: one line that does not parse fails the file.
Parses(signers) == \A l \in Range(signers) : l.key # NoWord /\ l.principals # {}

\* PublicKey::verify of an SSHSIG: made with this key, over this; SHA-1 does not
\* count for RSA.
Valid(key, namespace, data, sig) ==
    /\ sig.key = key /\ sig.by = {key}
    /\ sig.namespace = namespace /\ sig.data = data
    /\ sig.alg \in {"ssh-ed25519", "rsa-sha2-256", "rsa-sha2-512"}

\* verify_action; whichever line it finds holds the key of the signature.
Verify(signers, principal, namespace, data, sig) ==
    /\ Parses(signers)
    /\ \E l \in Range(signers) : l.key = sig.key /\ principal \in l.principals
    /\ Valid(sig.key, namespace, data, sig)

\* find_principals_action; with a data file (matching_principals) the signature
\* has to be valid too.
FindPrincipals(signers, namespace, data, sig) ==
    IF ~Parses(signers) THEN {}
    ELSE UNION {l.principals : l \in {m \in Range(signers) :
                   m.key = sig.key /\ (data # NoWord => Valid(m.key, namespace, data, sig))}}

\* match_principals_action: all principals of the lines that name this one
MatchPrincipals(signers, principal) ==
    IF ~Parses(signers) THEN {}
    ELSE UNION {l.principals : l \in {m \in Range(signers) : principal \in m.principals}}

\* check_novalidate_action
CheckNovalidate(namespace, data, sig) == Valid(sig.key, namespace, data, sig)

\* run: what the program prints, if it exits with 0.  git passes the commit on
\* the standard input where it names no data file.
Run(args, signers, file, stdin) ==
    LET a == ParseArgs(args)
        given == a.signature # NoWord /\ file # NoFile
        data == IF a.data = NoWord THEN stdin ELSE a.data
        keys == a.key_file # NoWord
    IN  CASE a.action = "verify" -> IF given /\ keys /\ Verify(signers, a.principal, a.namespace, data, file[1])
                                      THEN {a.principal} ELSE {}
          [] a.action = "find-principals" -> IF given /\ keys THEN FindPrincipals(signers, a.namespace, a.data, file[1]) ELSE {}
          [] a.action = "match-principals" -> IF keys /\ a.principal # NoWord THEN MatchPrincipals(signers, a.principal) ELSE {}
          [] a.action = "check-novalidate" -> IF given /\ CheckNovalidate(a.namespace, data, file[1]) THEN {"good"} ELSE {}
          [] OTHER -> {}

\* How git runs it to verify, and to find whom to verify for.
FindArgs == <<"-Y", "find-principals", "-f", "signers", "-s", "sig", "-Overify-time">>
VerifyArgs(p) == <<"-Y", "verify", "-n", "git", "-f", "signers", "-I", p, "-Overify-time", "-s", "sig">>
CheckArgs == <<"-Y", "check-novalidate", "-n", "git", "-Overify-time", "-s", "sig">>
MatchArgs(p) == <<"-Y", "match-principals", "-f", "signers", "-I", p>>

----------------------------------------------------------------------------
(* Signing: sign_action.                                                   *)

GitInit ==
    /\ Init
    /\ prog = [at |-> IF W.requests[GitConn] = 0 THEN "exit" ELSE "read",
               key |-> CHOOSE k \in Keys : TRUE, file |-> NoFile, code |-> 0]

\* Mutant: the agent's default
NoFlags(k) == 0

SignatureFlags(k) == IF Algorithm[k] = "rsa" THEN 4 ELSE 0

Exit(code) == prog' = [prog EXCEPT !.at = "exit", !.code = code]

\* The key file, public or private, the data file, the connection
ReadFiles ==
    /\ prog.at = "read"
    /\ \/ \E k \in Keys : prog' = [prog EXCEPT !.at = "list", !.key = k]
       \/ Exit(255)
    /\ UNCHANGED vars

\* find_agent_identity: asks for the identities,
AskIdentities ==
    /\ prog.at = "list" /\ List(GitConn)
    /\ prog' = [prog EXCEPT !.at = "find"]

\* and goes on if the key is one of them.
FindIdentity ==
    /\ prog.at = "find" /\ conn[GitConn].at = "idle"
    /\ IF conn[GitConn].answer.kind = "identities" /\ prog.key \in conn[GitConn].answer.keys
         THEN /\ Sign(GitConn, prog.key, SignatureFlags(prog.key))
              /\ prog' = [prog EXCEPT !.at = "sign"]
         ELSE Exit(255) /\ UNCHANGED vars

WriteSignature ==
    /\ prog.at = "sign" /\ conn[GitConn].at = "idle"
    /\ \/ /\ conn[GitConn].answer.kind = "signature"
          /\ prog' = [prog EXCEPT !.at = "exit",
                        !.file = <<[key |-> prog.key, by |-> conn[GitConn].answer.keys,
                                    alg |-> conn[GitConn].answer.alg,
                                    namespace |-> ParseArgs(<<"-Y", "sign", "-n", "git", "-f", "key", Data>>).namespace,
                                    data |-> Data]>>]
       \/ Exit(255)
    /\ UNCHANGED vars

GitSignStep == ReadFiles \/ AskIdentities \/ FindIdentity \/ WriteSignature

\* Any other client
Client(c) == List(c) \/ \E k \in W.asks, f \in Flags : Sign(c, k, f)

Next ==
    \/ GitSignStep
    \/ /\ \/ \E c \in Conns \ {GitConn} : Client(c)
          \/ \E c \in Conns : Serve(c)
          \/ \E r \in writing : Write(r)
          \/ Environment
       /\ UNCHANGED prog

SafeSpec == GitInit /\ [][Next]_allvars

\* The runtime polls every request, a decision comes (see Approval: the user, or the
\* deadline), and the walk's queries return.  A login owes nothing: it waits for a
\* password without a deadline, and for a server.
Spec == SafeSpec /\ \A c \in Conns : WF_conn(Proceed(c))

----------------------------------------------------------------------------
(* Properties                                                              *)

\* Type invariant.  A session walks only as far as the depth allows, and what it
\* is asked to sign with is a key.
TypeOK ==
    /\ vault.ring \in {<<>>, W.ring} /\ vault.version \in 0..Len(W.items)
    /\ Unlocked => vault.version > 0
    /\ locks \in 0..W.locks
    /\ os \in {W.os} \cup W.churn
    /\ \A c \in Conns :
         /\ conn[c].at \in Points /\ conn[c].op \in {"list", "sign"}
         /\ conn[c].n \in 0..W.requests[c] /\ conn[c].key \in Keys
         /\ IsWalk(conn[c].walk) /\ Len(conn[c].walk.chain) <= MaxWalkDepth + 1
         /\ conn[c].answer.keys \subseteq Keys
    /\ \A p \in trusted : p[1] \in Keys
    /\ writing \cup Range(log) \cup lost \subseteq
         {r \in writing \cup Range(log) \cup lost : r.conn \in Conns /\ r.key \in Keys /\ r.n \in 1..W.requests[r.conn]}
    /\ prog.at \in {"read", "list", "find", "sign", "exit"} /\ prog.key \in Keys

\* A listing offers a connection the keys of the items whose rules name the
\* repository that the git process behind it works in, and of those without
\* rules; all keys if there are no such items, or if the platform does not tell
\* the repository.  (Unless a process of the chain went away meanwhile.)
Fitting(repo) ==
    LET keys(items) == {Plain(i.pub) : i \in {j \in items : HasPublicKey(j)}}
        names(p) == \E f \in p : Plain(f.value).valid /\ repo \in Plain(f.value).urls
        fitting == {i \in Range(Items) : LET p == Patterns(vault.ring, i) IN p = {} \/ names(p)}
    IN  keys(IF repo = NoUrl \/ fitting = {} THEN Range(Items) ELSE fitting)
OffersWhatFits ==
    [][\A c \in Conns : conn[c].at = "offer" /\ conn'[c].at = "idle" /\ os = W.os
                            /\ conn'[c].answer.kind = "identities"
                            => conn'[c].answer.keys = Fitting(W.repo[c])]_allvars

\* A signature with a key that an item was found for is with a key that the last
\* listing offered this connection, if one did; unless the item got another key
\* since then.
SignedWasOffered ==
    \A c \in Conns : /\ conn[c].at = "idle" /\ conn[c].answer.kind = "signature"
                      /\ conn[c].id # "unknown" /\ conn[c].listed # <<>> /\ ItemsKeepTheirKey
                         => conn[c].key \in conn[c].listed[1]

\* A key that the last listing offered is not then turned down, in a vault where
\* no two items hold the same key.
OfferedIsNotRejected ==
    \A c \in Conns : /\ conn[c].at = "idle" /\ conn[c].answer.kind = "rejected"
                      /\ conn[c].listed # <<>> /\ OneItemPerKey
                         => conn[c].key \notin conn[c].listed[1]

\* What git-sign writes, git then finds valid: the check passes, every principal
\* of the key is found, and verification for each of them succeeds.  (A private
\* key that is not that of its public key makes a signature of no use; sign_action
\* does not look at what it got.)
WrittenSignatureVerifies ==
    prog.file # NoFile /\ KeysArePairs =>
       /\ Run(CheckArgs, <<>>, prog.file, Data) # {}
       /\ \A signers \in SignersFiles :
            LET found == Run(FindArgs, signers, prog.file, Data)
            IN  /\ \A p \in found : Run(VerifyArgs(p), signers, prog.file, Data) = {p}
                                    /\ p \in Run(MatchArgs(p), signers, prog.file, Data)
                /\ Parses(signers) => \A l \in Range(signers) : l.key = prog.key => l.principals \subseteq found

\* Every request is answered, whatever the processes behind it look like and
\* whatever becomes of the vault, unless it found the vault locked and its login
\* does not end.
EveryRequestIsAnswered == \A c \in Conns : ~At(c, "idle") ~> At(c, "idle") \/ At(c, "login")

\* Every decision on a request, a denial too, has one record, which says what it
\* was, in the access log, on its way to it, or refused by the database; and the
\* log shows nothing else.
AllRecords == writing \cup Range(Query(Len(log))) \cup lost
EveryDecisionIsRecorded ==
    /\ \A c \in Conns :
         At(c, "sign") \/ (At(c, "idle") /\ conn[c].answer.kind \in {"signature", "denied"})
            => \E r \in AllRecords : /\ r.conn = c /\ r.n = conn[c].n /\ r.key = conn[c].key
                                     /\ r.approved = (conn[c].answer.kind # "denied" \/ At(c, "sign"))
    /\ Cardinality({<<r.conn, r.n>> : r \in AllRecords}) = Cardinality(writing) + Len(log) + Cardinality(lost)

\* The comment on route_entries: if no key matches and there are no generic
\* keys, all are offered.
FallsBackToAllKeys ==
    [][\A c \in Conns :
         /\ conn[c].at = "offer" /\ conn'[c].at = "idle" /\ conn[c].url # NoUrl
         /\ conn'[c].answer.kind = "identities"
         /\ \A i \in Range(Items) : HasPublicKey(i) =>
                LET p == Patterns(vault.ring, i) IN p # {} /\ ~MatchesAny(conn[c].url, p)
         => conn'[c].answer.keys = {Plain(i.pub) : i \in {j \in Range(Items) : HasPublicKey(j)}}]_allvars
=============================================================================
