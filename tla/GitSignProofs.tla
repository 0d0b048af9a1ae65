--------------------------- MODULE GitSignProofs ---------------------------
(***************************************************************************)
(* Safety of GitSign: of the agent with any clients, and of the signing    *)
(* program.  For every set of worlds, connections and keys, every signers  *)
(* file, and every depth of the process walk.                              *)
(***************************************************************************)
EXTENDS GitSign, AgentProofs, WellFoundedInduction

----------------------------------------------------------------------------
(* The invariant.                                                          *)

\* The signature that the program asked for, if the agent gives it: with its key,
\* and an algorithm that a signature file may have.
Good(keys, alg) == KeysArePairs => keys = {prog.key} /\ alg \in {"ssh-ed25519", "rsa-sha2-512"}

ProgFits ==
    /\ DOMAIN prog = {"at", "key", "file", "code"}
    /\ prog.at \in {"read", "list", "find", "sign", "exit"} /\ prog.key \in Keys
    /\ prog.at = "sign" =>
          /\ conn[GitConn].op = "sign" /\ conn[GitConn].key = prog.key
          /\ IF conn[GitConn].at = "idle"
               THEN conn[GitConn].answer.kind = "signature" =>
                       Good(conn[GitConn].answer.keys, conn[GitConn].answer.alg)
               ELSE conn[GitConn].flags = SignatureFlags(prog.key)
    /\ prog.file # NoFile =>
          /\ prog.at = "exit"
          /\ prog.file[1].key = prog.key /\ prog.file[1].namespace = "git" /\ prog.file[1].data = Data
          /\ Good(prog.file[1].by, prog.file[1].alg)

IInv == AgentInv /\ ProgFits

LEMMA SamePairs ==
    ASSUME world' = world
    PROVE  KeysArePairs' <=> KeysArePairs
  BY SameWorld DEF KeysArePairs

\* A step of any client, or of the agent for it, is a step of the agent.
LEMMA StepIs ==
    ASSUME IInv, [Next]_allvars
    PROVE  Step \/ UNCHANGED vars
  <1>1. W.asks \subseteq Keys /\ prog.key \in Keys /\ GitConn \in Conns
    BY WorldIs, SignersAssumption DEF IInv, AgentInv, WorldFits, ProgFits
  <1>2. CASE ReadFiles \/ WriteSignature
    BY <1>2 DEF ReadFiles, WriteSignature
  <1>3. CASE AskIdentities
    BY <1>1, <1>3 DEF AskIdentities, Step, Request
  <1>4. CASE FindIdentity
    BY <1>1, <1>4 DEF FindIdentity, Step, Request
  <1>5. CASE \E c \in Conns \ {GitConn} : Client(c)
    BY <1>1, <1>5 DEF Client, Step, Request
  <1>6. CASE (\E c \in Conns : Serve(c)) \/ (\E r \in writing : Write(r)) \/ Environment
    BY <1>6 DEF Step
  <1>7. CASE UNCHANGED allvars
    BY <1>7 DEF allvars
  <1> QED BY <1>2, <1>3, <1>4, <1>5, <1>6, <1>7 DEF Next, GitSignStep

\* The agent signs with the key that the program asked for, and with SHA-512 for RSA.
LEMMA GitConnServed ==
    ASSUME IInv, Serve(GitConn), prog.at = "sign", UNCHANGED <<world, prog>>
    PROVE  ProgFits'
  <1> DEFINE s == conn[GitConn]
             t == conn'[GitConn]
             a == Signature(vault.ring, Items, prog.key, SignatureFlags(prog.key))
  <1>1. GitConn \in Conns /\ SessionsFit /\ WorldFits /\ ProgFits
    BY SignersAssumption DEF IInv, AgentInv
  <1>2. /\ s.at # "idle" /\ t.key = s.key /\ t.op = s.op
        /\ t.at # "idle" => t.flags = s.flags
        /\ t.at = "idle" /\ t.answer.kind = "signature" =>
              t.answer = Signature(vault.ring, Items, s.key, s.flags)
    BY <1>1, ServedAsAsked
  <1>3. s.op = "sign" /\ s.key = prog.key /\ s.flags = SignatureFlags(prog.key)
    BY <1>1, <1>2 DEF ProgFits
  <1>4. ASSUME a.kind = "signature"
        PROVE  Good(a.keys, a.alg)
    <2>1. PICK j \in DOMAIN Items : SignsFor(Items[j], prog.key, SignatureFlags(prog.key), a)
      BY <1>4, SignatureIsOfAnItem
    <2>2. Items[j] \in WithPublicKey
      BY <1>1, <2>1, EntriesAreOfTheWorld DEF WithPublicKey, SignsFor
    <2>3. ASSUME KeysArePairs PROVE Plain(Items[j].priv) = prog.key
      BY <2>1, <2>2, <2>3 DEF KeysArePairs, SignsFor
    <2>4. /\ a.keys = {Plain(Items[j].priv)}
          /\ a.alg = SignatureAlgorithm(Algorithm[Plain(Items[j].priv)], SignatureFlags(prog.key))
      <3> HIDE DEF a
      <3> QED BY <2>1 DEF SignsFor, Answer
    <2>5. SignatureAlgorithm(Algorithm[prog.key], SignatureFlags(prog.key)) \in {"ssh-ed25519", "rsa-sha2-512", NotSupported}
      BY DEF SignatureAlgorithm, SignatureFlags
    <2> HIDE DEF a
    <2> QED BY <2>1, <2>3, <2>4, <2>5 DEF Good, SignsFor
  <1>5. t.at = "idle" /\ t.answer.kind = "signature" => Good(t.answer.keys, t.answer.alg)
    <2> HIDE DEF a
    <2>1. a = Signature(vault.ring, Items, s.key, s.flags)
      BY <1>3 DEF a
    <2> QED BY <1>2, <1>4, <2>1
  <1>6. ASSUME NEW keys, NEW alg PROVE Good(keys, alg)' <=> Good(keys, alg)
    BY SamePairs DEF Good
  <1> HIDE DEF Good
  <1> QED BY <1>1, <1>2, <1>3, <1>5, <1>6 DEF ProgFits

----------------------------------------------------------------------------
(* The command line.                                                       *)

\* Of n words, those in V are values: each follows an option, and an option that
\* is a value takes none.
ValuesAre(args, n, V) ==
    /\ DOMAIN args = 1..n /\ V \subseteq 1..n
    /\ \A i \in 1..n : i \in V <=> i > 1 /\ i - 1 \notin V /\ args[i - 1] \in Valued

LEMMA OptionsAre ==
    ASSUME NEW n \in Nat, NEW args, NEW V, ValuesAre(args, n, V)
    PROVE  \A i \in 1..n : OptionOf(args)[i] = IF i \in V THEN args[i - 1] ELSE NoWord
  <1> DEFINE value(of, i) == IF i > 1 /\ of[i - 1] = NoWord /\ args[i - 1] \in Valued THEN args[i - 1] ELSE NoWord
             Solves(of) == of = [i \in DOMAIN args |-> value(of, i)]
             f == [i \in 1..n |-> IF i \in V THEN args[i - 1] ELSE NoWord]
             g == OptionOf(args)
             Wrong == {i \in 1..n : g[i] # f[i]}
  <1>1. g = CHOOSE of : Solves(of)
    BY DEF OptionOf
  <1>2. \A i \in 1..n : f[i] = IF i \in V THEN args[i - 1] ELSE NoWord
    OBVIOUS
  <1>3. DOMAIN f = 1..n /\ DOMAIN args = 1..n
    BY DEF ValuesAre
  <1> HIDE DEF f, g
  <1>4. ASSUME NEW i \in 1..n PROVE f[i] = value(f, i)
    <2>1. i \in V <=> i > 1 /\ i - 1 \notin V /\ args[i - 1] \in Valued
      BY DEF ValuesAre
    <2>2. i > 1 => i - 1 \in 1..n /\ f[i - 1] = IF i - 1 \in V THEN args[(i - 1) - 1] ELSE NoWord
      <3>1. i > 1 => i - 1 \in 1..n
        OBVIOUS
      <3> QED BY <1>2, <3>1
    <2>3. i > 1 /\ i - 1 \in V => args[(i - 1) - 1] \in Valued
      BY <2>2 DEF ValuesAre
    <2>4. i > 1 => (f[i - 1] = NoWord <=> i - 1 \notin V)
      BY <2>2, <2>3 DEF Valued, NoWord
    <2>5. f[i] = IF i \in V THEN args[i - 1] ELSE NoWord
      BY <1>2
    <2> QED BY <2>1, <2>4, <2>5
  <1>5. Solves(f)
    <2> HIDE DEF value
    <2>1. f = [i \in 1..n |-> f[i]]
      BY <1>3 DEF f
    <2> QED BY <1>3, <1>4, <2>1
  <1>6. \A i \in 1..n : g[i] = value(g, i)
    <2>1. Solves(g)
      <3> HIDE DEF Solves
      <3> QED BY <1>1, <1>5, Zenon
    <2> QED BY <1>3, <2>1
  <1> HIDE DEF Wrong
  <1>7. Wrong = {}
    <2> SUFFICES ASSUME Wrong # {} PROVE FALSE
      OBVIOUS
    <2>1. Wrong \subseteq Nat
      BY DEF Wrong
    <2>2. PICK i \in Wrong : \A j \in Wrong : ~(<<j, i>> \in OpToRel(<, Nat))
      BY <2>1, NatLessThanWellFounded, WFMin
    <2>3. i \in 1..n /\ g[i] # f[i]
      BY DEF Wrong
    <2>4. i > 1 => g[i - 1] = f[i - 1]
      <3>1. ASSUME i > 1 PROVE i - 1 \in 1..n /\ <<i - 1, i>> \in OpToRel(<, Nat)
        BY <3>1, <2>3 DEF OpToRel
      <3> QED BY <2>2, <3>1 DEF Wrong
    <2>5. f[i] = value(f, i) /\ g[i] = value(g, i)
      BY <1>4, <1>6, <2>3
    <2> QED BY <2>3, <2>4, <2>5
  <1> QED BY <1>2, <1>7 DEF Wrong, g

\* The one place of a word
LEMMA MaxOfOne == \A k \in Nat : Max({k}) = k
  <1> SUFFICES ASSUME NEW k \in Nat PROVE Max({k}) = k
      OBVIOUS
  <1>1. k \in {k} /\ \A y \in {k} : k >= y
    OBVIOUS
  <1>2. Max({k}) \in {k}
    BY <1>1, Zenon DEF Max
  <1> QED BY <1>2

\* The values of an option, and the words that are none
After(args, V, option) == {i \in V : args[i - 1] = option}
Rest(args, n, V) == {i \in 1..n : i \notin V /\ args[i] \notin Valued \cup Bare}
Word(args, at, default) == IF at = {} THEN default ELSE args[Max(at)]
Reads(args, n, V) ==
    [action |-> Word(args, After(args, V, "-Y"), NoWord), namespace |-> Word(args, After(args, V, "-n"), "git"),
     key_file |-> Word(args, After(args, V, "-f"), NoWord), principal |-> Word(args, After(args, V, "-I"), NoWord),
     signature |-> Word(args, After(args, V, "-s"), NoWord), data |-> Word(args, Rest(args, n, V), NoWord)]

LEMMA Parsed ==
    ASSUME NEW n \in Nat, NEW args, NEW V, ValuesAre(args, n, V)
    PROVE  ParseArgs(args) = Reads(args, n, V)
  <1> DEFINE of == OptionOf(args)
  <1>1. \A i \in 1..n : of[i] = IF i \in V THEN args[i - 1] ELSE NoWord
    BY OptionsAre
  <1>2. DOMAIN args = 1..n /\ V \subseteq 1..n /\ \A i \in V : args[i - 1] \in Valued
    BY DEF ValuesAre
  <1>3. NoWord \notin Valued
    BY DEF Valued, NoWord
  <1> HIDE DEF of
  <1>4. ASSUME NEW option, option # NoWord
        PROVE  {i \in DOMAIN args : of[i] = option} = After(args, V, option)
    BY <1>1, <1>2, <1>4 DEF After
  <1>5. {i \in DOMAIN args : of[i] = NoWord /\ args[i] \notin Valued \cup Bare} = Rest(args, n, V)
    BY <1>1, <1>2, <1>3 DEF Rest
  <1>6. /\ "-Y" # NoWord /\ "-n" # NoWord /\ "-f" # NoWord /\ "-I" # NoWord /\ "-s" # NoWord
    BY DEF NoWord
  <1>7. /\ {i \in DOMAIN args : of[i] = "-Y"} = After(args, V, "-Y")
        /\ {i \in DOMAIN args : of[i] = "-n"} = After(args, V, "-n")
        /\ {i \in DOMAIN args : of[i] = "-f"} = After(args, V, "-f")
        /\ {i \in DOMAIN args : of[i] = "-I"} = After(args, V, "-I")
        /\ {i \in DOMAIN args : of[i] = "-s"} = After(args, V, "-s")
    BY <1>4, <1>6
  <1> QED BY <1>5, <1>7 DEF ParseArgs, Reads, Word, of

LEMMA FindParsed ==
    ParseArgs(FindArgs) = [action |-> "find-principals", namespace |-> "git", key_file |-> "signers",
                           principal |-> NoWord, signature |-> "sig", data |-> NoWord]
  <1> DEFINE args == FindArgs
             V == {2, 4, 6}
  <1>1. /\ DOMAIN args = 1..7
        /\ args[1] = "-Y" /\ args[2] = "find-principals" /\ args[3] = "-f" /\ args[4] = "signers"
        /\ args[5] = "-s" /\ args[6] = "sig" /\ args[7] = "-Overify-time"
    BY DEF FindArgs
  <1>2. 1..7 = {1, 2, 3, 4, 5, 6, 7}
    OBVIOUS
  <1> HIDE DEF args
  <1>3. ValuesAre(args, 7, V)
    BY <1>1, <1>2 DEF ValuesAre, Valued
  <1>4. /\ After(args, V, "-Y") = {2} /\ After(args, V, "-n") = {} /\ After(args, V, "-f") = {4}
        /\ After(args, V, "-I") = {} /\ After(args, V, "-s") = {6} /\ Rest(args, 7, V) = {}
    BY <1>1, <1>2 DEF After, Rest, Valued, Bare
  <1>5. /\ Word(args, {2}, NoWord) = "find-principals" /\ Word(args, {4}, NoWord) = "signers" /\ Word(args, {6}, NoWord) = "sig"
        /\ Word(args, {}, NoWord) = NoWord /\ Word(args, {}, "git") = "git"
    BY <1>1, MaxOfOne DEF Word
  <1>6. ParseArgs(args) = [action |-> "find-principals", namespace |-> "git", key_file |-> "signers",
                           principal |-> NoWord, signature |-> "sig", data |-> NoWord]
    <2> HIDE DEF V
    <2>1. ParseArgs(args) = Reads(args, 7, V)
      BY <1>3, Parsed
    <2> QED BY <1>4, <1>5, <2>1 DEF Reads
  <1> QED BY <1>6 DEF args

LEMMA VerifyParsed ==
    ASSUME NEW p
    PROVE  ParseArgs(VerifyArgs(p)) = [action |-> "verify", namespace |-> "git", key_file |-> "signers",
                                       principal |-> p, signature |-> "sig", data |-> NoWord]
  <1> DEFINE args == VerifyArgs(p)
             V == {2, 4, 6, 8, 11}
  <1>1. /\ DOMAIN args = 1..11
        /\ args[1] = "-Y" /\ args[2] = "verify" /\ args[3] = "-n" /\ args[4] = "git"
        /\ args[5] = "-f" /\ args[6] = "signers" /\ args[7] = "-I" /\ args[8] = p
        /\ args[9] = "-Overify-time" /\ args[10] = "-s" /\ args[11] = "sig"
    BY DEF VerifyArgs
  <1>2. 1..11 = {1, 2, 3, 4, 5, 6, 7, 8, 9, 10, 11}
    OBVIOUS
  <1> HIDE DEF args
  <1>3. ValuesAre(args, 11, V)
    BY <1>1, <1>2 DEF ValuesAre, Valued
  <1>4. /\ After(args, V, "-Y") = {2} /\ After(args, V, "-n") = {4} /\ After(args, V, "-f") = {6}
        /\ After(args, V, "-I") = {8} /\ After(args, V, "-s") = {11} /\ Rest(args, 11, V) = {}
    BY <1>1, <1>2 DEF After, Rest, Valued, Bare
  <1>5. /\ Word(args, {2}, NoWord) = "verify" /\ Word(args, {4}, "git") = "git" /\ Word(args, {6}, NoWord) = "signers"
        /\ Word(args, {8}, NoWord) = p /\ Word(args, {11}, NoWord) = "sig" /\ Word(args, {}, NoWord) = NoWord
    BY <1>1, MaxOfOne DEF Word
  <1>6. ParseArgs(args) = [action |-> "verify", namespace |-> "git", key_file |-> "signers",
                           principal |-> p, signature |-> "sig", data |-> NoWord]
    <2> HIDE DEF V
    <2>1. ParseArgs(args) = Reads(args, 11, V)
      BY <1>3, Parsed
    <2> QED BY <1>4, <1>5, <2>1 DEF Reads
  <1> QED BY <1>6 DEF args

LEMMA CheckParsed ==
    ParseArgs(CheckArgs) = [action |-> "check-novalidate", namespace |-> "git", key_file |-> NoWord,
                            principal |-> NoWord, signature |-> "sig", data |-> NoWord]
  <1> DEFINE args == CheckArgs
             V == {2, 4, 7}
  <1>1. /\ DOMAIN args = 1..7
        /\ args[1] = "-Y" /\ args[2] = "check-novalidate" /\ args[3] = "-n" /\ args[4] = "git"
        /\ args[5] = "-Overify-time" /\ args[6] = "-s" /\ args[7] = "sig"
    BY DEF CheckArgs
  <1>2. 1..7 = {1, 2, 3, 4, 5, 6, 7}
    OBVIOUS
  <1> HIDE DEF args
  <1>3. ValuesAre(args, 7, V)
    BY <1>1, <1>2 DEF ValuesAre, Valued
  <1>4. /\ After(args, V, "-Y") = {2} /\ After(args, V, "-n") = {4} /\ After(args, V, "-f") = {}
        /\ After(args, V, "-I") = {} /\ After(args, V, "-s") = {7} /\ Rest(args, 7, V) = {}
    BY <1>1, <1>2 DEF After, Rest, Valued, Bare
  <1>5. /\ Word(args, {2}, NoWord) = "check-novalidate" /\ Word(args, {4}, "git") = "git"
        /\ Word(args, {7}, NoWord) = "sig" /\ Word(args, {}, NoWord) = NoWord
    BY <1>1, MaxOfOne DEF Word
  <1>6. ParseArgs(args) = [action |-> "check-novalidate", namespace |-> "git", key_file |-> NoWord,
                           principal |-> NoWord, signature |-> "sig", data |-> NoWord]
    <2> HIDE DEF V
    <2>1. ParseArgs(args) = Reads(args, 7, V)
      BY <1>3, Parsed
    <2> QED BY <1>4, <1>5, <2>1 DEF Reads
  <1> QED BY <1>6 DEF args

LEMMA MatchParsed ==
    ASSUME NEW p
    PROVE  ParseArgs(MatchArgs(p)) = [action |-> "match-principals", namespace |-> "git", key_file |-> "signers",
                                      principal |-> p, signature |-> NoWord, data |-> NoWord]
  <1> DEFINE args == MatchArgs(p)
             V == {2, 4, 6}
  <1>1. /\ DOMAIN args = 1..6
        /\ args[1] = "-Y" /\ args[2] = "match-principals" /\ args[3] = "-f" /\ args[4] = "signers"
        /\ args[5] = "-I" /\ args[6] = p
    BY DEF MatchArgs
  <1>2. 1..6 = {1, 2, 3, 4, 5, 6}
    OBVIOUS
  <1> HIDE DEF args
  <1>3. ValuesAre(args, 6, V)
    BY <1>1, <1>2 DEF ValuesAre, Valued
  <1>4. /\ After(args, V, "-Y") = {2} /\ After(args, V, "-n") = {} /\ After(args, V, "-f") = {4}
        /\ After(args, V, "-I") = {6} /\ After(args, V, "-s") = {} /\ Rest(args, 6, V) = {}
    BY <1>1, <1>2 DEF After, Rest, Valued, Bare
  <1>5. /\ Word(args, {2}, NoWord) = "match-principals" /\ Word(args, {4}, NoWord) = "signers" /\ Word(args, {6}, NoWord) = p
        /\ Word(args, {}, NoWord) = NoWord /\ Word(args, {}, "git") = "git"
    BY <1>1, MaxOfOne DEF Word
  <1>6. ParseArgs(args) = [action |-> "match-principals", namespace |-> "git", key_file |-> "signers",
                           principal |-> p, signature |-> NoWord, data |-> NoWord]
    <2> HIDE DEF V
    <2>1. ParseArgs(args) = Reads(args, 6, V)
      BY <1>3, Parsed
    <2> QED BY <1>4, <1>5, <2>1 DEF Reads
  <1> QED BY <1>6 DEF args

\* The command line that git signs with, whatever the name of its data file
LEMMA SignParsed == ParseArgs(<<"-Y", "sign", "-n", "git", "-f", "key", Data>>).namespace = "git"
  <1> DEFINE args == <<"-Y", "sign", "-n", "git", "-f", "key", Data>>
             V == {2, 4, 6}
  <1>1. /\ DOMAIN args = 1..7
        /\ args[1] = "-Y" /\ args[2] = "sign" /\ args[3] = "-n" /\ args[4] = "git"
        /\ args[5] = "-f" /\ args[6] = "key" /\ args[7] = Data
    OBVIOUS
  <1>2. 1..7 = {1, 2, 3, 4, 5, 6, 7}
    OBVIOUS
  <1> HIDE DEF args
  <1>3. ValuesAre(args, 7, V)
    BY <1>1, <1>2 DEF ValuesAre, Valued
  <1>4. After(args, V, "-n") = {4}
    BY <1>1, <1>2 DEF After
  <1>5. Word(args, {4}, "git") = "git"
    BY <1>1, MaxOfOne DEF Word
  <1>6. ParseArgs(args).namespace = Word(args, After(args, V, "-n"), "git")
    <2> HIDE DEF V
    <2>1. ParseArgs(args) = Reads(args, 7, V)
      BY <1>3, Parsed
    <2>2. Reads(args, 7, V).namespace = Word(args, After(args, V, "-n"), "git")
      BY DEF Reads
    <2> QED BY <2>1, <2>2
  <1>7. ParseArgs(args).namespace = "git"
    <2> HIDE DEF V
    <2> QED BY <1>4, <1>5, <1>6
  <1> QED BY <1>7 DEF args

----------------------------------------------------------------------------
(* The program's own steps, and the invariant.                             *)

LEMMA ProgKept ==
    ASSUME IInv, [Next]_allvars
    PROVE  ProgFits'
  <1>1. world' = world /\ GitConn \in Conns /\ SessionsFit /\ ProgFits
    BY StepIs, WorldKept, SignersAssumption DEF IInv, AgentInv
  <1>2. ASSUME NEW keys, NEW alg, prog'.key = prog.key PROVE Good(keys, alg)' <=> Good(keys, alg)
    BY <1>1, <1>2, SamePairs DEF Good
  <1>3. /\ DOMAIN prog = {"at", "key", "file", "code"} /\ prog.key \in Keys
        /\ prog.at # "exit" => prog.file = NoFile
    BY <1>1 DEF ProgFits
  <1>4. ASSUME prog.at # "exit", Exit(255)
        PROVE  ProgFits'
    BY <1>3, <1>4 DEF Exit, ProgFits
  <1>5. CASE ReadFiles
    <2>1. ASSUME NEW k \in Keys, prog' = [prog EXCEPT !.at = "list", !.key = k], prog.at = "read"
          PROVE  ProgFits'
      BY <1>3, <2>1 DEF ProgFits
    <2> QED BY <1>4, <1>5, <2>1 DEF ReadFiles
  <1>6. CASE AskIdentities
    <2>1. prog' = [prog EXCEPT !.at = "find"] /\ prog.at = "list"
      BY <1>6 DEF AskIdentities
    <2> QED BY <1>3, <2>1 DEF ProgFits
  <1>7. CASE FindIdentity
    <2>1. CASE Exit(255)
      BY <1>4, <1>7, <2>1 DEF FindIdentity
    <2>2. CASE Sign(GitConn, prog.key, SignatureFlags(prog.key)) /\ prog' = [prog EXCEPT !.at = "sign"]
      <3>1. /\ conn'[GitConn].at = "ensure" /\ conn'[GitConn].op = "sign"
            /\ conn'[GitConn].key = prog.key /\ conn'[GitConn].flags = SignatureFlags(prog.key)
        BY <1>1, <2>2 DEF Sign, Set, SessionsFit, Fits, Shaped, NewSession
      <3>2. prog.at = "find"
        BY <1>7 DEF FindIdentity
      <3>3. DOMAIN prog' = DOMAIN prog /\ prog'.at = "sign" /\ prog'.key = prog.key /\ prog'.file = NoFile
        BY <1>3, <2>2, <3>2
      <3> QED BY <1>3, <3>1, <3>3 DEF ProgFits
    <2> QED BY <1>7, <2>1, <2>2 DEF FindIdentity
  <1>8. CASE WriteSignature
    <2>1. prog.at = "sign" /\ conn[GitConn].at = "idle"
      BY <1>8 DEF WriteSignature, At
    <2>2. CASE Exit(255)
      BY <1>4, <2>1, <2>2
    <2>3. CASE ~Exit(255)
      <3> DEFINE answer == conn[GitConn].answer
                 namespace == ParseArgs(<<"-Y", "sign", "-n", "git", "-f", "key", Data>>).namespace
                 file == <<[key |-> prog.key, by |-> answer.keys, alg |-> answer.alg,
                            namespace |-> namespace, data |-> Data]>>
      <3>1. answer.kind = "signature" /\ prog' = [prog EXCEPT !.at = "exit", !.file = file]
        BY <1>8, <2>3 DEF WriteSignature
      <3>2. Good(answer.keys, answer.alg)
        BY <1>1, <2>1, <3>1 DEF ProgFits
      <3>3. namespace = "git"
        BY SignParsed
      <3> HIDE DEF answer, namespace
      <3>4. /\ file[1].key = prog.key /\ file[1].namespace = "git" /\ file[1].data = Data
            /\ file[1].by = answer.keys /\ file[1].alg = answer.alg
        BY <3>3
      <3> HIDE DEF file
      <3>5. PICK f : /\ prog' = [prog EXCEPT !.at = "exit", !.file = f]
                     /\ f[1].key = prog.key /\ f[1].namespace = "git" /\ f[1].data = Data
                     /\ Good(f[1].by, f[1].alg)
        BY <3>1, <3>2, <3>4
      <3>6. DOMAIN prog' = DOMAIN prog /\ prog'.at = "exit" /\ prog'.key = prog.key /\ prog'.file = f
        BY <1>3, <3>5
      <3>7. Good(f[1].by, f[1].alg)'
        BY <1>2, <3>5, <3>6
      <3> QED BY <1>3, <3>5, <3>6, <3>7 DEF ProgFits
    <2> QED BY <2>2, <2>3
  <1>9. ASSUME prog' = prog, conn'[GitConn] = conn[GitConn]
        PROVE  ProgFits'
    <2>1. \A keys, alg : Good(keys, alg)' <=> Good(keys, alg)
      BY <1>2, <1>9
    <2> QED BY <1>1, <1>9, <2>1 DEF ProgFits
  <1>10. CASE Serve(GitConn) /\ UNCHANGED prog
    <2>1. CASE prog.at = "sign"
      BY <1>1, <1>10, <2>1, GitConnServed
    <2>2. CASE prog.at # "sign"
      <3>1. Good(prog.file[1].by, prog.file[1].alg)' <=> Good(prog.file[1].by, prog.file[1].alg)
        BY <1>1, <1>10, SamePairs DEF Good
      <3> QED BY <1>1, <1>10, <2>2, <3>1 DEF ProgFits
    <2> QED BY <2>1, <2>2
  <1>11. CASE /\ \/ \E c \in Conns \ {GitConn} : Client(c) \/ Serve(c)
                 \/ \E r \in writing : Write(r)
                 \/ Environment
                 \/ UNCHANGED vars
              /\ UNCHANGED prog
    <2>1. W.asks \subseteq Keys
      BY WorldIs DEF IInv, AgentInv, WorldFits
    <2>2. \A c \in Conns : Client(c) => Request(c)
      BY <2>1 DEF Client, Request
    <2> QED BY <1>1, <1>9, <1>11, <2>2, OthersStay
  <1>12. CASE UNCHANGED allvars
    BY <1>11, <1>12 DEF allvars
  <1> QED BY <1>5, <1>6, <1>7, <1>8, <1>10, <1>11, <1>12 DEF Next, GitSignStep

LEMMA InitIInv == GitInit => IInv
  <1> SUFFICES ASSUME GitInit PROVE IInv
      OBVIOUS
  <1>1. (CHOOSE k \in Keys : TRUE) \in Keys
    BY WorldAssumption, Zenon
  <1>2. ProgFits
    BY <1>1 DEF GitInit, ProgFits, NoFile
  <1> QED BY <1>2, InitInv DEF GitInit, IInv

LEMMA StepIInv == IInv /\ [Next]_allvars => IInv'
  <1> SUFFICES ASSUME IInv, [Next]_allvars PROVE IInv'
      OBVIOUS
  <1>1. AgentInv'
    BY StepIs, StepInv DEF IInv
  <1> QED BY <1>1, ProgKept DEF IInv

----------------------------------------------------------------------------
(* What the invariant says.                                                *)

LEMMA InvTypeOK == IInv => TypeOK
  <1> SUFFICES ASSUME IInv PROVE TypeOK
      OBVIOUS
  <1>1. WorldFits /\ SessionsFit /\ Recorded /\ ProgFits
    BY DEF IInv, AgentInv
  <1>2. \A c \in Conns :
          /\ conn[c].at \in Points /\ conn[c].op \in {"list", "sign"}
          /\ conn[c].n \in 0..W.requests[c] /\ conn[c].key \in Keys
          /\ IsWalk(conn[c].walk) /\ Len(conn[c].walk.chain) <= MaxWalkDepth + 1
          /\ conn[c].answer.keys \subseteq Keys
    BY <1>1 DEF SessionsFit, Fits, Shaped
  <1>3. ASSUME NEW r \in writing \cup Range(log) \cup lost
        PROVE  r.conn \in Conns /\ r.key \in Keys /\ r.n \in 1..W.requests[r.conn]
    <2>1. r.conn \in Conns /\ r.key \in Keys /\ r.n \in 1..conn[r.conn].n
      BY <1>1 DEF Recorded, Records
    <2>2. conn[r.conn].n \in 0..W.requests[r.conn] /\ W.requests[r.conn] \in Nat
      BY <1>1, <1>2, <2>1, WorldIs DEF WorldFits
    <2> QED BY <2>1, <2>2
  <1>4. vault.ring \in {<<>>, W.ring} /\ vault.version \in 0..Len(W.items)
    BY <1>1 DEF WorldFits
  <1> QED BY <1>1, <1>2, <1>3, <1>4 DEF WorldFits, ProgFits, TypeOK

\* What the lookup found has its key in the listing: the listing allowed the item.
LEMMA InvSigned == IInv => SignedWasOffered
  <1> SUFFICES ASSUME IInv, NEW c \in Conns,
                      conn[c].at = "idle", conn[c].answer.kind = "signature",
                      conn[c].id # "unknown", conn[c].listed # <<>>, ItemsKeepTheirKey
               PROVE  conn[c].key \in conn[c].listed[1]
      BY DEF SignedWasOffered
  <1>1. Lists(conn[c]) /\ Looks(conn[c])
    BY DEF IInv, AgentInv, SessionsFit, Fits
  <1>2. Finds(conn[c]) /\ conn[c].id \in conn[c].allowed[1]
    BY <1>1 DEF Lists, Looks
  <1> QED BY <1>1, <1>2 DEF Lists, Finds

\* What was turned down has an item that the listing did not allow, which is the
\* only one of its key.
LEMMA InvOffered == IInv => OfferedIsNotRejected
  <1> SUFFICES ASSUME IInv, NEW c \in Conns,
                      conn[c].at = "idle", conn[c].answer.kind = "rejected",
                      conn[c].listed # <<>>, OneItemPerKey
               PROVE  conn[c].key \notin conn[c].listed[1]
      BY DEF OfferedIsNotRejected
  <1>1. Lists(conn[c]) /\ Looks(conn[c])
    BY DEF IInv, AgentInv, SessionsFit, Fits
  <1>2. Finds(conn[c]) /\ conn[c].id \notin conn[c].allowed[1]
    BY <1>1 DEF Looks
  <1> QED BY <1>1, <1>2 DEF Lists, Finds

LEMMA InvDecision == IInv => EveryDecisionIsRecorded
  <1> SUFFICES ASSUME IInv PROVE EveryDecisionIsRecorded
      OBVIOUS
  <1>1. Places /\ Recorded
    BY DEF IInv, AgentInv
  <1>2. AllRecords = Records
    BY <1>1, QueryShowsAll DEF AllRecords, Records
  <1>3. Cardinality({<<r.conn, r.n>> : r \in AllRecords}) = Cardinality(writing) + Len(log) + Cardinality(lost)
    BY <1>1, <1>2, OneRecordEach
  <1>4. \A c \in Conns : WasDecided(conn[c]) => \E r \in AllRecords : IsOfThis(r, c, conn[c])
    BY <1>1, <1>2 DEF Recorded
  <1> QED BY <1>3, <1>4 DEF EveryDecisionIsRecorded, WasDecided, IsOfThis, At

----------------------------------------------------------------------------
(* What git makes of a signature file.                                     *)

\* The commands as git gives them, of a file with a signature in it
LEMMA CommandsRun ==
    ASSUME NEW signers, NEW file, file # NoFile, NEW p, p # NoWord
    PROVE  /\ Run(CheckArgs, <<>>, file, Data) = IF CheckNovalidate("git", Data, file[1]) THEN {"good"} ELSE {}
           /\ Run(FindArgs, signers, file, Data) = FindPrincipals(signers, "git", NoWord, file[1])
           /\ Run(VerifyArgs(p), signers, file, Data) = IF Verify(signers, p, "git", Data, file[1]) THEN {p} ELSE {}
           /\ Run(MatchArgs(p), signers, file, Data) = MatchPrincipals(signers, p)
  <1> DEFINE check == ParseArgs(CheckArgs)
             find == ParseArgs(FindArgs)
             verify == ParseArgs(VerifyArgs(p))
             match == ParseArgs(MatchArgs(p))
  <1>0. "sig" # NoWord /\ "signers" # NoWord
    BY DEF NoWord
  <1>1. Run(CheckArgs, <<>>, file, Data) = IF CheckNovalidate("git", Data, file[1]) THEN {"good"} ELSE {}
    <2>1. check.action = "check-novalidate" /\ check.signature = "sig" /\ check.data = NoWord /\ check.namespace = "git"
      BY CheckParsed
    <2> QED BY <1>0, <2>1 DEF Run
  <1>2. Run(FindArgs, signers, file, Data) = FindPrincipals(signers, "git", NoWord, file[1])
    <2>1. find.action = "find-principals" /\ find.signature = "sig" /\ find.key_file = "signers"
          /\ find.data = NoWord /\ find.namespace = "git"
      BY FindParsed
    <2> QED BY <1>0, <2>1 DEF Run
  <1>3. Run(VerifyArgs(p), signers, file, Data) = IF Verify(signers, p, "git", Data, file[1]) THEN {p} ELSE {}
    <2>1. verify.action = "verify" /\ verify.signature = "sig" /\ verify.key_file = "signers"
          /\ verify.principal = p /\ verify.data = NoWord /\ verify.namespace = "git"
      BY VerifyParsed
    <2> QED BY <1>0, <2>1 DEF Run
  <1>4. Run(MatchArgs(p), signers, file, Data) = MatchPrincipals(signers, p)
    <2>1. match.action = "match-principals" /\ match.key_file = "signers" /\ match.principal = p
      BY MatchParsed
    <2> QED BY <1>0, <2>1 DEF Run
  <1> QED BY <1>1, <1>2, <1>3, <1>4

LEMMA InvWritten == IInv => WrittenSignatureVerifies
  <1> SUFFICES ASSUME IInv, prog.file # NoFile, KeysArePairs
               PROVE  /\ Run(CheckArgs, <<>>, prog.file, Data) # {}
                      /\ \A signers \in SignersFiles :
                           LET found == Run(FindArgs, signers, prog.file, Data)
                           IN  /\ \A p \in found : Run(VerifyArgs(p), signers, prog.file, Data) = {p}
                                                   /\ p \in Run(MatchArgs(p), signers, prog.file, Data)
                               /\ Parses(signers) => \A l \in Range(signers) : l.key = prog.key => l.principals \subseteq found
      BY DEF WrittenSignatureVerifies
  <1> DEFINE sig == prog.file[1]
  <1>1. sig.key = prog.key /\ Valid(sig.key, "git", Data, sig)
    <2>1. /\ sig.key = prog.key /\ sig.namespace = "git" /\ sig.data = Data
          /\ sig.by = {prog.key} /\ sig.alg \in {"ssh-ed25519", "rsa-sha2-512"}
      BY DEF IInv, ProgFits, Good
    <2> HIDE DEF sig
    <2> QED BY <2>1 DEF Valid
  <1>2. Run(CheckArgs, <<>>, prog.file, Data) # {}
    <2>1. CheckNovalidate("git", Data, sig)
      BY <1>1 DEF CheckNovalidate
    <2>2. "sig" # NoWord
      BY DEF NoWord
    <2> QED BY <2>1, <2>2, CommandsRun
  <1>3. ASSUME NEW signers \in SignersFiles
        PROVE  LET found == Run(FindArgs, signers, prog.file, Data)
               IN  /\ \A p \in found : Run(VerifyArgs(p), signers, prog.file, Data) = {p}
                                       /\ p \in Run(MatchArgs(p), signers, prog.file, Data)
                   /\ Parses(signers) => \A l \in Range(signers) : l.key = prog.key => l.principals \subseteq found
    <2> DEFINE found == FindPrincipals(signers, "git", NoWord, sig)
    <2>1. Run(FindArgs, signers, prog.file, Data) = found
      <3>1. "sig" # NoWord
        BY DEF NoWord
      <3> QED BY <3>1, CommandsRun
    <2>2. ASSUME NEW p \in found
          PROVE  Parses(signers) /\ \E l \in Range(signers) : l.key = sig.key /\ p \in l.principals
      BY DEF FindPrincipals
    <2>3. ASSUME Parses(signers), NEW l \in Range(signers), l.key = prog.key
          PROVE  l.principals \subseteq found
      <3>1. l.key = sig.key
        BY <1>1, <2>3
      <3> HIDE DEF sig
      <3> QED BY <2>3, <3>1 DEF FindPrincipals
    <2>4. ASSUME NEW p \in found
          PROVE  /\ Run(VerifyArgs(p), signers, prog.file, Data) = {p}
                 /\ p \in Run(MatchArgs(p), signers, prog.file, Data)
      <3>1. PICK l \in Range(signers) : l.key = sig.key /\ p \in l.principals
        BY <2>2
      <3>2. p # NoWord
        BY <3>1, SignersAssumption
      <3>3. Verify(signers, p, "git", Data, sig)
        BY <1>1, <2>2 DEF Verify
      <3>4. p \in MatchPrincipals(signers, p)
        BY <2>2, <3>1 DEF MatchPrincipals
      <3> QED BY <3>2, <3>3, <3>4, CommandsRun
    <2> HIDE DEF found
    <2> QED BY <2>1, <2>3, <2>4
  <1> QED BY <1>2, <1>3

----------------------------------------------------------------------------
(* What a listing offers.                                                  *)

\* route_entries in one sentence: the items without rules or with one that matches,
\* if there are any, else all.
LEMMA RoutedFit ==
    ASSUME NEW items, NEW url, NEW ring
    PROVE  LET fitting == {i \in items : LET p == Patterns(ring, i) IN p = {} \/ MatchesAny(url, p)}
           IN  RouteEntries(items, url, ring) = IF url = <<>> \/ fitting = {} THEN items ELSE fitting
  <1> DEFINE matched == {i \in items : MatchesAny(url, Patterns(ring, i))}
             generic == {i \in items : Patterns(ring, i) = {}}
             fitting == {i \in items : Patterns(ring, i) = {} \/ MatchesAny(url, Patterns(ring, i))}
  <1>1. fitting = matched \cup generic
    OBVIOUS
  <1>2. RouteEntries(items, url, ring) =
          IF url = <<>> THEN items ELSE IF matched # {} THEN matched \cup generic
                                   ELSE IF generic # {} THEN generic ELSE items
    BY DEF RouteEntries
  <1> HIDE DEF matched, generic, fitting
  <1>3. RouteEntries(items, url, ring) = IF url = <<>> \/ fitting = {} THEN items ELSE fitting
    BY <1>1, <1>2
  <1> QED BY <1>3 DEF fitting

\* What Offer answers, and that no other step answers a listing.
LEMMA OfferAnswers ==
    ASSUME IInv, NEW c \in Conns, Offer(c), conn'[c].answer.kind = "identities"
    PROVE  conn'[c].answer.keys = Fitting(conn[c].url)
  <1> DEFINE url == conn[c].url
             shown == {i \in Routed(c) : HasPublicKey(i)}
             opens == \A i \in shown : PublicKeyOpens(vault.ring, i)
             keys == IF opens THEN {Plain(i.pub) : i \in shown} ELSE {}
             a == Answer(IF opens THEN "identities" ELSE "error", keys, "")
             q == Reply(c, a)
             ids == {i.id : i \in Routed(c)}
             listed == IF opens THEN <<keys>> ELSE <<>>
             r == [q EXCEPT !.allowed = <<ids>>, !.listed = listed]
  <1>1. Set(c, r) /\ SessionsFit
    BY DEF Offer, Listing, IInv, AgentInv
  <1>2. a.keys \subseteq Keys
    BY DEF Answer, PublicKeyOpens
  <1>3. conn'[c].answer = a
    <2> HIDE DEF a, ids, listed
    <2>1. q.answer = a /\ DOMAIN q = DOMAIN NewSession
      BY <1>1, <1>2, ReplyShaped DEF SessionsFit, Fits, Shaped
    <2> HIDE DEF q
    <2>2. r.answer = a
      BY <2>1 DEF NewSession
    <2> HIDE DEF r
    <2> QED BY <1>1, <2>2 DEF Set, SessionsFit
  <1>4. opens /\ conn'[c].answer.keys = {Plain(i.pub) : i \in shown}
    <2> DEFINE kind == IF opens THEN "identities" ELSE "error"
               none == ""
    <2>1. conn'[c].answer = Answer(kind, keys, none)
      BY <1>3
    <2> HIDE DEF kind, keys, none
    <2>2. conn'[c].answer.kind = kind /\ conn'[c].answer.keys = keys
      BY <2>1 DEF Answer
    <2> HIDE DEF opens
    <2>3. opens
      BY <2>2 DEF kind
    <2> QED BY <2>2, <2>3 DEF keys
  <1> DEFINE names(p) == \E f \in p : Plain(f.value).valid /\ url \in Plain(f.value).urls
             fitting == {i \in Range(Items) : Patterns(vault.ring, i) = {} \/ names(Patterns(vault.ring, i))}
             offered == IF url = NoUrl \/ fitting = {} THEN Range(Items) ELSE fitting
  <1>5. Routed(c) = offered
    BY RoutedFit DEF Routed, MatchesAny, NoUrl
  <1>6. Fitting(url) = {Plain(i.pub) : i \in {j \in offered : HasPublicKey(j)}}
    BY DEF Fitting
  <1> HIDE DEF offered
  <1> QED BY <1>4, <1>5, <1>6

LEMMA OnlyOfferAnswers ==
    ASSUME IInv, [Next]_allvars, NEW c \in Conns, conn[c].at = "offer", conn'[c].at = "idle"
    PROVE  Offer(c)
  <1>1. SessionsFit /\ (Step \/ UNCHANGED vars)
    BY StepIs DEF IInv, AgentInv
  <1>2. ~Request(c)
    BY DEF Request, List, Sign, At
  <1>3. Serve(c) => Offer(c)
    BY DEF Serve, Proceed, Ensure, Login, Walk, ReadContext, Look, CheckSession, SignData, Decide, At
  <1>4. conn'[c] # conn[c]
    OBVIOUS
  <1> QED BY <1>1, <1>2, <1>3, <1>4, OthersStay DEF Step

----------------------------------------------------------------------------
(* The theorems.                                                           *)

\* The sessions and records of the agent and the program's file are always as the
\* invariant says.
THEOREM Inductiveness == SafeSpec => []IInv
  <1> QED BY InitIInv, StepIInv, PTL DEF SafeSpec

\* Every part of the state has its type; no walk passes its depth, no client makes
\* the agent hold a key that is none.
THEOREM TypeCorrect == SafeSpec => []TypeOK
  <1> QED BY Inductiveness, InvTypeOK, PTL

\* The agent does not sign with a key of an item that the last listing left out.
THEOREM NoSignatureWithoutOffer == SafeSpec => []SignedWasOffered
  <1> QED BY Inductiveness, InvSigned, PTL

\* A client that picks from the last listing is not told that its key is not allowed.
THEOREM NoRejectionOfAnOffer == SafeSpec => []OfferedIsNotRejected
  <1> QED BY Inductiveness, InvOffered, PTL

\* git accepts every signature file that the program wrote, for each principal of
\* its key, in any allowed signers file.
THEOREM WrittenVerifies == SafeSpec => []WrittenSignatureVerifies
  <1> QED BY Inductiveness, InvWritten, PTL

\* A request that was decided has its record, in one place, and no second one.
THEOREM NoDecisionWithoutRecord == SafeSpec => []EveryDecisionIsRecorded
  <1> QED BY Inductiveness, InvDecision, PTL

\* A listing that succeeds offers the keys of the items that fit the repository found
\* for the connection, and no other; all keys if none was found or no item fits.
THEOREM ListingFits ==
    SafeSpec => [][\A c \in Conns : conn[c].at = "offer" /\ conn'[c].at = "idle"
                                        /\ conn'[c].answer.kind = "identities"
                                        => conn'[c].answer.keys = Fitting(conn[c].url)]_allvars
  <1>1. IInv /\ [Next]_allvars =>
          [\A c \in Conns : conn[c].at = "offer" /\ conn'[c].at = "idle"
                                /\ conn'[c].answer.kind = "identities"
                                => conn'[c].answer.keys = Fitting(conn[c].url)]_allvars
    BY OnlyOfferAnswers, OfferAnswers
  <1> QED BY Inductiveness, <1>1, PTL DEF SafeSpec

=============================================================================
