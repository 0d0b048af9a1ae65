---------------------------- MODULE AgentProofs ----------------------------
(***************************************************************************)
(* What every step of the agent keeps, whoever its clients are: the shape  *)
(* of its sessions, what a session knows of the last listing, and the      *)
(* records of the decisions.  For every set of worlds, connections and     *)
(* keys, and every depth of the process walk.                              *)
(***************************************************************************)
EXTENDS Agent, TLAPS, FiniteSetTheorems

----------------------------------------------------------------------------
(* The invariant.                                                          *)

\* The world around the sessions
WorldFits ==
    /\ world \in DOMAIN Worlds
    /\ os \in {W.os} \cup W.churn
    /\ vault \in [ring : {<<>>, W.ring}, version : 0..Len(W.items)]
    /\ Unlocked => vault.version > 0
    /\ locks \in 0..W.locks
    /\ \A p \in trusted : p[1] \in Keys

\* A walk that has a parent to query still has room for it.
Shaped(c, r) ==
    /\ DOMAIN r = DOMAIN NewSession
    /\ r.at \in Points /\ r.op \in {"list", "sign"}
    /\ r.at \in {"look", "check", "ask", "sign"} => r.op = "sign"
    /\ r.at \in {"context", "offer"} => r.op = "list"
    /\ r.key \in Keys /\ r.n \in 0..W.requests[c] /\ (r.at # "idle" => r.n > 0)
    /\ IsWalk(r.walk) /\ Len(r.walk.chain) <= MaxWalkDepth + 1
    /\ r.walk.parent # 0 => Len(r.walk.chain) <= MaxWalkDepth
    /\ r.answer.keys \subseteq Keys

\* What is allowed and what was listed are of the same listing: the items of
\* the keys, and the keys of the items.
Lists(r) ==
    r.listed # <<>> =>
        /\ r.allowed # <<>>
        /\ ItemsKeepTheirKey => \A i \in WithPublicKey : i.id \in r.allowed[1] => Plain(i.pub) \in r.listed[1]
        /\ OneItemPerKey => \A i \in WithPublicKey : Plain(i.pub) \in r.listed[1] => i.id \in r.allowed[1]

\* A session past the lookup stands by what it found: an item with the key asked
\* for, that it allows, or does not and turned the request down.
Finds(r) == \E i \in WithPublicKey : i.id = r.id /\ Plain(i.pub) = r.key
Looks(r) ==
    /\ /\ \/ r.op = "sign" /\ r.at \in {"start", "walk", "check", "ask", "sign"}
          \/ r.at = "idle" /\ r.answer.kind = "signature"
       /\ r.id # "unknown"
       => Finds(r) /\ (r.allowed # <<>> => r.id \in r.allowed[1])
    /\ r.at = "idle" /\ r.answer.kind = "rejected" => Finds(r) /\ r.allowed # <<>> /\ r.id \notin r.allowed[1]

Fits(c, r) == Shaped(c, r) /\ Lists(r) /\ Looks(r)
SessionsFit == DOMAIN conn = Conns /\ \A c \in Conns : Fits(c, conn[c])

\* No record is in two places, or twice in the log.
Places ==
    /\ log \in Seq(Range(log)) /\ IsFiniteSet(writing) /\ IsFiniteSet(lost)
    /\ IsInjective(log)
    /\ writing \cap Range(log) = {} /\ writing \cap lost = {} /\ Range(log) \cap lost = {}

\* A record is of a request its connection made, and if of the last one then the
\* decision on that was made; no request has two.  A decision has its record.
Records == writing \cup Range(log) \cup lost
WasDecided(r) == r.at = "sign" \/ (r.at = "idle" /\ r.answer.kind \in {"signature", "denied"})
IsOfThis(r, c, s) == /\ r.conn = c /\ r.n = s.n /\ r.key = s.key
                     /\ r.approved = (s.answer.kind # "denied" \/ s.at = "sign")
Recorded ==
    /\ \A r \in Records : /\ r.conn \in Conns /\ r.key \in Keys /\ r.n \in 1..conn[r.conn].n
                          /\ r.n = conn[r.conn].n => conn[r.conn].at \in {"sign", "idle"}
    /\ \A r, s \in Records : r.conn = s.conn /\ r.n = s.n => r = s
    /\ \A c \in Conns : WasDecided(conn[c]) => \E r \in Records : IsOfThis(r, c, conn[c])

AgentInv == WorldFits /\ SessionsFit /\ Places /\ Recorded

----------------------------------------------------------------------------
(* The items.                                                              *)

\* What a world is, of the one the agent runs in.
LEMMA WorldIs ==
    ASSUME world \in DOMAIN Worlds
    PROVE  /\ \A c \in Conns : W.requests[c] \in Nat
           /\ Len(W.items) \in Nat \ {0} /\ DOMAIN W.items = 1..Len(W.items)
           /\ W.asks \subseteq Keys /\ W.locks \in Nat
  <1>1. W.items \in Seq(Range(W.items)) /\ W.items # <<>>
    BY WorldAssumption DEF W
  <1>2. Len(W.items) \in Nat \ {0} /\ DOMAIN W.items = 1..Len(W.items)
    BY <1>1
  <1> QED BY <1>2, WorldAssumption DEF W

LEMMA EntriesAreOfTheWorld ==
    ASSUME WorldFits
    PROVE  \A j \in DOMAIN Items : Items[j] \in AllEntries
  <1>1. CASE vault.version = 0
    BY <1>1 DEF Items
  <1>2. CASE vault.version # 0
    <2>1. vault.version \in DOMAIN W.items
      BY <1>2, WorldIs DEF WorldFits
    <2>2. Items = Entries(vault.version)
      BY <1>2 DEF Items
    <2>3. \A j \in DOMAIN Items : Items[j] \in Range(Entries(vault.version))
      BY <2>2 DEF Range
    <2> QED BY <2>1, <2>3 DEF AllEntries
  <1> QED BY <1>1, <1>2

\* The item that find_entry_for_pubkey finds holds the key.
LEMMA FoundHoldsTheKey ==
    ASSUME NEW ring, NEW items, NEW k, FindEntry(ring, items, k).id # "unknown"
    PROVE  \E j \in DOMAIN items : /\ HasPublicKey(items[j]) /\ Plain(items[j].pub) = k
                                   /\ items[j].id = FindEntry(ring, items, k).id
  <1> DEFINE same == {j \in DOMAIN items : /\ HasPublicKey(items[j]) /\ PublicKeyOpens(ring, items[j])
                                          /\ Plain(items[j].pub) = k}
             entry(i) == [id |-> i.id, name |-> IF Readable(ring, i.name, i.own, i.org) THEN Plain(i.name)
                                                                                        ELSE "ciphertext"]
             found == {entry(i) : i \in First(items, same)}
  <1>1. FindEntry(ring, items, k) = IF found = {} THEN [id |-> "unknown", name |-> "unknown"]
                                                  ELSE CHOOSE e \in found : TRUE
    BY DEF FindEntry
  <1>2. FindEntry(ring, items, k) \in found
    <2> HIDE DEF found
    <2>1. found # {}
      BY <1>1
    <2>2. PICK e \in found : TRUE
      BY <2>1
    <2>3. (CHOOSE e1 \in found : TRUE) \in found
      BY <2>2, Zenon
    <2> QED BY <1>1, <2>1, <2>3
  <1>3. PICK i \in First(items, same) : FindEntry(ring, items, k) = entry(i)
    BY <1>2
  <1>4. PICK j \in same : i = items[j]
    BY DEF First
  <1> QED BY <1>3, <1>4

\* An item that holds the key k gives the signature a with its private key.
SignsFor(i, k, flags, a) ==
    /\ HasPublicKey(i) /\ Plain(i.pub) = k /\ i.priv # Malformed
    /\ SignatureAlgorithm(Algorithm[Plain(i.priv)], flags) # NotSupported
    /\ a = Answer("signature", {Plain(i.priv)}, SignatureAlgorithm(Algorithm[Plain(i.priv)], flags))

LEMMA SignatureIsOfAnItem ==
    ASSUME NEW ring, NEW items, NEW k, NEW flags, Signature(ring, items, k, flags).kind = "signature"
    PROVE  \E j \in DOMAIN items : SignsFor(items[j], k, flags, Signature(ring, items, k, flags))
  <1> DEFINE a == Signature(ring, items, k, flags)
             seen == {j \in DOMAIN items : /\ HasPublicKey(items[j]) /\ items[j].priv # Malformed
                                           /\ ~PublicKeyOpens(ring, items[j]) \/ Plain(items[j].pub) = k}
             alg(i) == SignatureAlgorithm(Algorithm[Plain(i.priv)], flags)
             answer(i) == Answer("signature", {Plain(i.priv)}, alg(i))
             answers == {answer(i) : i \in Signer(ring, items, k, flags)}
  <1>0. a.kind = "signature"
    OBVIOUS
  <1>1. a = IF answers = {} THEN Answer("error", {}, "") ELSE CHOOSE x \in answers : TRUE
    BY DEF Signature
  <1>2. a \in answers
    <2> HIDE DEF answers, a, alg, answer
    <2>1. answers # {}
      <3> SUFFICES ASSUME answers = {} PROVE FALSE
          OBVIOUS
      <3>1. a = Answer("error", {}, "")
        BY <1>1
      <3>2. a.kind = "error"
        BY <3>1 DEF Answer
      <3> QED BY <1>0, <3>2
    <2>2. PICK x \in answers : TRUE
      BY <2>1
    <2>3. (CHOOSE y \in answers : TRUE) \in answers
      BY <2>2, Zenon
    <2> QED BY <1>1, <2>1, <2>3
  <1>3. PICK i \in Signer(ring, items, k, flags) : a = answer(i)
    BY <1>2
  <1>4. i \in First(items, seen) /\ PublicKeyOpens(ring, i) /\ Plain(i.priv) \in Keys /\ alg(i) # NotSupported
    BY DEF Signer
  <1>5. PICK j \in seen : i = items[j]
    BY <1>4 DEF First
  <1>6. HasPublicKey(items[j]) /\ Plain(items[j].pub) = k /\ items[j].priv # Malformed
    BY <1>4, <1>5
  <1> HIDE DEF a
  <1>7. SignsFor(items[j], k, flags, a)
    BY <1>3, <1>4, <1>5, <1>6 DEF SignsFor
  <1> QED BY <1>7 DEF a

\* Routing takes items away and adds none.
LEMMA RoutedAreEntries ==
    ASSUME NEW items, NEW url, NEW ring
    PROVE  RouteEntries(items, url, ring) \subseteq items
  BY DEF RouteEntries

----------------------------------------------------------------------------
(* Sessions.                                                               *)

LEMMA SameWorld ==
    ASSUME world' = world
    PROVE  /\ W' = W /\ WithPublicKey' = WithPublicKey
           /\ ItemsKeepTheirKey' <=> ItemsKeepTheirKey
           /\ OneItemPerKey' <=> OneItemPerKey
  <1>1. W' = W
    BY DEF W
  <1>2. \A v : Entries(v)' = Entries(v)
    BY DEF Entries
  <1>3. AllEntries' = AllEntries
    BY <1>1, <1>2 DEF AllEntries
  <1>4. WithPublicKey' = WithPublicKey
    BY <1>3 DEF WithPublicKey
  <1> QED BY <1>1, <1>3, <1>4 DEF ItemsKeepTheirKey, OneItemPerKey

\* A step that changes one session to one that fits keeps them all fitting.
LEMMA SetFits ==
    ASSUME SessionsFit, world' = world,
           NEW c \in Conns, NEW r, Set(c, r), Fits(c, r)
    PROVE  SessionsFit'
  <1>1. DOMAIN conn' = Conns /\ conn'[c] = r /\ \A d \in Conns \ {c} : conn'[d] = conn[d]
    BY DEF Set, SessionsFit
  <1>2. ASSUME NEW d \in Conns, NEW q, Fits(d, q)
        PROVE  Fits(d, q)'
    BY <1>2, SameWorld DEF Fits, Shaped, Lists, Looks, Finds
  <1>3. \A d \in Conns : Fits(d, conn'[d])
    BY <1>1 DEF SessionsFit
  <1> QED BY <1>1, <1>2, <1>3 DEF SessionsFit

LEMMA SameFits ==
    ASSUME SessionsFit, UNCHANGED <<world, conn>>
    PROVE  SessionsFit'
  BY SameWorld DEF SessionsFit, Fits, Shaped, Lists, Looks, Finds

\* A new request leaves what the session knows, and starts over.
LEMMA RequestFits ==
    ASSUME WorldFits, SessionsFit, NEW c \in Conns,
           List(c) \/ \E k \in Keys : \E f : Sign(c, k, f)
    PROVE  SessionsFit'
  <1>0. Fits(c, conn[c]) /\ conn[c].n + 1 \in 0..W.requests[c]
    <2>1. Fits(c, conn[c]) /\ conn[c].n \in Nat /\ W.requests[c] \in Nat
      BY WorldIs DEF SessionsFit, Fits, Shaped, WorldFits
    <2>2. conn[c].n < W.requests[c]
      BY DEF List, Sign
    <2> QED BY <2>1, <2>2
  <1>1. CASE List(c)
    <2> DEFINE r == [conn[c] EXCEPT !.at = "ensure", !.op = "list", !.n = @ + 1]
    <2>1. Fits(c, r)
      BY <1>0 DEF Fits, Shaped, Lists, Looks, Finds, NewSession, Points
    <2> QED BY <1>1, <2>1, SetFits DEF List
  <1>2. ASSUME NEW k \in Keys, NEW f, Sign(c, k, f)
        PROVE  SessionsFit'
    <2> DEFINE r == [conn[c] EXCEPT !.at = "ensure", !.op = "sign", !.key = k, !.flags = f, !.n = @ + 1]
    <2>1. Fits(c, r)
      BY <1>0 DEF Fits, Shaped, Lists, Looks, Finds, NewSession, Points
    <2> QED BY <1>2, <2>1, SetFits DEF Sign
  <1> QED BY <1>1, <1>2

\* What a reply clears and what it leaves
LEMMA ReplyShaped ==
    ASSUME NEW c \in Conns, Shaped(c, conn[c]), NEW a, a.keys \subseteq Keys
    PROVE  /\ Shaped(c, Reply(c, a))
           /\ Reply(c, a).at = "idle" /\ Reply(c, a).answer = a
           /\ Reply(c, a).op = conn[c].op /\ Reply(c, a).key = conn[c].key
           /\ Reply(c, a).n = conn[c].n /\ Reply(c, a).id = conn[c].id
           /\ Reply(c, a).allowed = conn[c].allowed /\ Reply(c, a).listed = conn[c].listed
  <1>1. IsWalk(NoWalk) /\ Len(NoWalk.chain) = 0 /\ NoWalk.parent = 0
    BY DEF NoWalk, IsWalk
  <1> QED BY <1>1, DepthAssumption DEF Shaped, Reply, NewSession, Points

LEMMA EnsureFits ==
    ASSUME WorldFits, SessionsFit, NEW c \in Conns, Ensure(c)
    PROVE  SessionsFit'
  <1> DEFINE waits == [conn[c] EXCEPT !.at = "login"]
  <1>1. Fits(c, conn[c]) /\ conn[c].at = "ensure" /\ world' = world
    BY DEF SessionsFit, Ensure, At
  <1>2. Set(c, Unlocks(c)) \/ Set(c, waits)
    BY DEF Ensure
  <1>3. Fits(c, Unlocks(c)) /\ Fits(c, waits)
    BY <1>1 DEF Unlocks, Fits, Shaped, Lists, Looks, Finds, NewSession, Points
  <1> QED BY <1>1, <1>2, <1>3, SetFits

LEMMA LoginFits ==
    ASSUME WorldFits, SessionsFit, NEW c \in Conns, Login(c)
    PROVE  SessionsFit'
  <1> DEFINE a == Answer("error", {}, "")
             q == Reply(c, a)
             failed == [q EXCEPT !.listed = IF conn[c].op = "list" THEN <<>> ELSE @]
  <1>1. Fits(c, conn[c]) /\ conn[c].at = "login" /\ world' = world
    BY DEF SessionsFit, Login, At
  <1>2. Set(c, Unlocks(c)) \/ Set(c, failed)
    BY DEF Login
  <1>3. Fits(c, Unlocks(c))
    BY <1>1 DEF Unlocks, Fits, Shaped, Lists, Looks, Finds, NewSession, Points
  <1>4. Fits(c, failed)
    <2>1. a.keys \subseteq Keys /\ a.kind = "error"
      BY DEF Answer
    <2>2. /\ Shaped(c, q) /\ q.at = "idle" /\ q.answer = a
          /\ q.allowed = conn[c].allowed /\ q.listed = conn[c].listed
      BY <1>1, <2>1, ReplyShaped DEF Fits
    <2> HIDE DEF q, a
    <2>3. /\ failed.at = "idle" /\ failed.answer = a /\ failed.allowed = conn[c].allowed
          /\ failed.listed = <<>> \/ failed.listed = conn[c].listed
      BY <2>2 DEF Shaped, NewSession
    <2>4. Shaped(c, failed)
      BY <2>2 DEF Shaped, NewSession
    <2>5. Lists(failed) /\ Looks(failed)
      BY <1>1, <2>1, <2>3 DEF Fits, Lists, Looks
    <2> QED BY <2>4, <2>5 DEF Fits
  <1> QED BY <1>1, <1>2, <1>3, <1>4, SetFits

----------------------------------------------------------------------------
(* The walk.                                                               *)

\* A sequence with one more is one.
LEMMA Appended ==
    ASSUME NEW s, s \in Seq(Range(s)), NEW x
    PROVE  /\ Append(s, x) \in Seq(Range(Append(s, x)))
           /\ Range(Append(s, x)) = Range(s) \cup {x}
           /\ Len(Append(s, x)) = Len(s) + 1
  <1> DEFINE S == Range(s) \cup {x}
             a == Append(s, x)
  <1>1. Range(s) \subseteq S /\ x \in S
    OBVIOUS
  <1>2. s \in Seq(S)
    BY <1>1
  <1>3. a \in Seq(S) /\ Len(a) = Len(s) + 1 /\ \A i \in 1..Len(s) : a[i] = s[i]
    BY <1>2
  <1>4. a[Len(s) + 1] = x
    BY <1>2
  <1>5. Range(a) = S
    <2>1. DOMAIN a = 1..(Len(s) + 1) /\ DOMAIN s = 1..Len(s) /\ Len(s) \in Nat
      BY <1>2, <1>3
    <2> HIDE DEF a
    <2>2. Range(a) \subseteq S
      BY <1>3, <1>4, <2>1 DEF Range
    <2>3. \A i \in 1..Len(s) : s[i] = a[i] /\ i \in DOMAIN a
      BY <1>3, <2>1
    <2>4. Range(s) \subseteq Range(a)
      BY <2>1, <2>3 DEF Range
    <2>5. x \in Range(a)
      BY <1>4, <2>1 DEF Range
    <2> QED BY <2>2, <2>4, <2>5
  <1> QED BY <1>3, <1>5

\* A walk with room for its parent
Roomy(w) == /\ IsWalk(w) /\ Len(w.chain) <= MaxWalkDepth + 1
            /\ w.parent # 0 => Len(w.chain) <= MaxWalkDepth

LEMMA WalkIsRoomy ==
    ASSUME NEW t, NEW w, Roomy(w)
    PROVE  /\ w.parent = 0 => Roomy(WalkToParent(t, w))
           /\ w.parent # 0 => Roomy(WalkQueries(t, w))
  <1>1. /\ DOMAIN w = {"chain", "parent", "done"} /\ Len(w.chain) \in Nat /\ w.chain \in Seq(Range(w.chain))
        /\ Len(w.chain) <= MaxWalkDepth + 1 /\ (w.parent # 0 => Len(w.chain) <= MaxWalkDepth)
    BY DEF Roomy, IsWalk
  <1>2. ASSUME w.parent = 0
        PROVE  Roomy(WalkToParent(t, w))
    <2> DEFINE parent == GetParentPid(t, Last(w.chain).pid)
    <2>1. \/ WalkToParent(t, w) = [w EXCEPT !.done = TRUE]
          \/ WalkToParent(t, w) = [w EXCEPT !.parent = parent] /\ Len(w.chain) <= MaxWalkDepth
      BY <1>1, DepthAssumption DEF WalkToParent
    <2> HIDE DEF parent
    <2> QED BY <1>1, <1>2, <2>1 DEF Roomy, IsWalk
  <1>3. ASSUME w.parent # 0
        PROVE  Roomy(WalkQueries(t, w))
    <2> DEFINE info == QueryProcessInfo(t, w.parent)
               longer == Append(w.chain, info)
    <2>1. longer \in Seq(Range(longer)) /\ Len(longer) = Len(w.chain) + 1
      BY <1>1, Appended
    <2>2. \/ WalkQueries(t, w) = [w EXCEPT !.parent = 0, !.done = TRUE]
          \/ WalkQueries(t, w) = [w EXCEPT !.parent = 0, !.chain = longer]
      BY DEF WalkQueries
    <2> HIDE DEF info, longer
    <2> DEFINE stopped == [w EXCEPT !.parent = 0, !.done = TRUE]
               further == [w EXCEPT !.parent = 0, !.chain = longer]
    <2>3. stopped.chain = w.chain /\ stopped.parent = 0 /\ DOMAIN stopped = {"chain", "parent", "done"}
      BY <1>1
    <2>4. further.chain = longer /\ further.parent = 0 /\ DOMAIN further = {"chain", "parent", "done"}
      BY <1>1
    <2>5. Len(longer) <= MaxWalkDepth + 1
      BY <1>1, <1>3, <2>1, DepthAssumption
    <2> HIDE DEF stopped, further
    <2>6. Roomy(stopped) /\ Roomy(further)
      BY <1>1, <2>1, <2>3, <2>4, <2>5 DEF Roomy, IsWalk
    <2> QED BY <2>2, <2>6 DEF stopped, further
  <1> QED BY <1>2, <1>3

LEMMA WalkFits ==
    ASSUME WorldFits, SessionsFit, NEW c \in Conns, Walk(c)
    PROVE  SessionsFit'
  <1> DEFINE w == conn[c].walk
             begun == StartWalk(os, ClientPid(c))
             next == IF w.parent = 0 THEN WalkToParent(os, w) ELSE WalkQueries(os, w)
             then == IF conn[c].op = "list" THEN "context" ELSE "check"
  <1>1. Fits(c, conn[c]) /\ Roomy(w) /\ world' = world
    BY DEF SessionsFit, Fits, Shaped, Roomy, Walk
  <1>2. Roomy(next)
    BY <1>1, WalkIsRoomy
  <1>3. Roomy(begun)
    <2>1. PICK info : begun.chain = <<info>> /\ DOMAIN begun = {"chain", "parent", "done"} /\ begun.parent = 0
      BY DEF StartWalk
    <2>2. <<info>> \in Seq(Range(<<info>>)) /\ Len(<<info>>) = 1
      BY DEF Range
    <2> HIDE DEF begun
    <2> QED BY <2>1, <2>2, DepthAssumption DEF Roomy, IsWalk
  <1>4. CASE At(c, "start") /\ Set(c, [conn[c] EXCEPT !.at = "walk", !.walk = begun])
    <2> DEFINE r == [conn[c] EXCEPT !.at = "walk", !.walk = begun]
    <2> HIDE DEF begun
    <2>1. Fits(c, r)
      BY <1>1, <1>3, <1>4 DEF Fits, Shaped, Roomy, Lists, Looks, Finds, NewSession, Points, At
    <2> QED BY <1>1, <1>4, <2>1, SetFits
  <1>5. CASE At(c, "walk") /\ Set(c, [conn[c] EXCEPT !.walk = next])
    <2> DEFINE r == [conn[c] EXCEPT !.walk = next]
    <2> HIDE DEF next
    <2>1. Fits(c, r)
      BY <1>1, <1>2, <1>5 DEF Fits, Shaped, Roomy, Lists, Looks, Finds, NewSession, Points, At
    <2> QED BY <1>1, <1>5, <2>1, SetFits
  <1>6. CASE At(c, "walk") /\ Set(c, [conn[c] EXCEPT !.at = then])
    <2> DEFINE r == [conn[c] EXCEPT !.at = then]
    <2>1. Fits(c, r)
      BY <1>1, <1>6 DEF Fits, Shaped, Lists, Looks, Finds, NewSession, Points, At
    <2> QED BY <1>1, <1>6, <2>1, SetFits
  <1> QED BY <1>4, <1>5, <1>6 DEF Walk

----------------------------------------------------------------------------
(* Listing, and the lookup of a signature.                                 *)

LEMMA ContextFits ==
    ASSUME SessionsFit, NEW c \in Conns, ReadContext(c)
    PROVE  SessionsFit'
  <1> DEFINE url == ExtractRemoteUrl(W.disk, ProcessChain(conn[c].walk))
             r == [conn[c] EXCEPT !.at = "offer", !.url = url]
  <1>1. Fits(c, conn[c]) /\ conn[c].at = "context" /\ world' = world /\ Set(c, r)
    BY DEF SessionsFit, ReadContext, At
  <1>2. Fits(c, r)
    <2> HIDE DEF url
    <2> QED BY <1>1 DEF Fits, Shaped, Lists, Looks, Finds, NewSession, Points
  <1> QED BY <1>1, <1>2, SetFits

\* A listing that succeeds lists the keys of the items it allows.
LEMMA ListingLists ==
    ASSUME NEW c \in Conns, Shaped(c, conn[c]),
           NEW routed, routed \subseteq AllEntries
    PROVE  Fits(c, Listing(c, routed))
  <1> DEFINE shown == {i \in routed : HasPublicKey(i)}
             opens == \A i \in shown : PublicKeyOpens(vault.ring, i)
             keys == IF opens THEN {Plain(i.pub) : i \in shown} ELSE {}
             ids == {i.id : i \in routed}
             a == Answer(IF opens THEN "identities" ELSE "error", keys, "")
             q == Reply(c, a)
             listed == IF opens THEN <<keys>> ELSE <<>>
             r == [q EXCEPT !.allowed = <<ids>>, !.listed = listed]
  <1>1. Listing(c, routed) = r
    BY DEF Listing
  <1>2. a.keys = keys /\ keys \subseteq Keys /\ a.kind \in {"identities", "error"}
    BY DEF Answer, PublicKeyOpens
  <1>3. Shaped(c, q) /\ q.at = "idle" /\ q.answer = a
    <2> HIDE DEF a, keys
    <2>1. a.keys \subseteq Keys
      BY <1>2
    <2> QED BY <2>1, ReplyShaped
  <1>4. r.allowed = <<ids>> /\ r.listed = listed /\ r.at = "idle" /\ r.answer = a /\ Shaped(c, r)
    <2> HIDE DEF q, ids, listed, a
    <2> QED BY <1>3 DEF Shaped, NewSession
  <1>5. Looks(r)
    <2> HIDE DEF r, a
    <2> QED BY <1>2, <1>4 DEF Looks
  <1>6. Lists(r)
    <2> SUFFICES ASSUME opens
                 PROVE  /\ ItemsKeepTheirKey => \A i \in WithPublicKey : i.id \in ids => Plain(i.pub) \in keys
                        /\ OneItemPerKey => \A i \in WithPublicKey : Plain(i.pub) \in keys => i.id \in ids
      <3>1. ~opens => r.listed = <<>>
        BY <1>4
      <3>2. opens => r.listed = <<keys>>
        BY <1>4
      <3>3. r.allowed = <<ids>>
        BY <1>4
      <3> HIDE DEF r, ids, keys, opens, listed, shown, q, a
      <3>4. r.allowed # <<>> /\ r.allowed[1] = ids
        BY <3>3
      <3>5. opens => r.listed[1] = keys
        BY <3>2
      <3> QED BY <3>1, <3>4, <3>5 DEF Lists
    <2>1. keys = {Plain(i.pub) : i \in shown}
      OBVIOUS
    <2>2. ASSUME ItemsKeepTheirKey, NEW i \in WithPublicKey, i.id \in ids
          PROVE  Plain(i.pub) \in keys
      <3>1. PICK j \in routed : j.id = i.id
        BY <2>2
      <3>2. HasPublicKey(j) /\ Plain(j.pub) = Plain(i.pub)
        BY <2>2, <3>1 DEF ItemsKeepTheirKey
      <3> QED BY <2>1, <3>2
    <2>3. ASSUME OneItemPerKey, NEW i \in WithPublicKey, Plain(i.pub) \in keys
          PROVE  i.id \in ids
      <3>1. PICK j \in shown : Plain(j.pub) = Plain(i.pub)
        BY <2>1, <2>3
      <3>2. j \in WithPublicKey
        BY DEF WithPublicKey
      <3>3. j.id = i.id
        BY <2>3, <3>1, <3>2 DEF OneItemPerKey
      <3> QED BY <3>3
    <2> QED BY <2>2, <2>3
  <1> QED BY <1>1, <1>4, <1>5, <1>6 DEF Fits

LEMMA OfferFits ==
    ASSUME WorldFits, SessionsFit, NEW c \in Conns, Offer(c)
    PROVE  SessionsFit'
  <1>1. Routed(c) \subseteq AllEntries
    BY EntriesAreOfTheWorld, RoutedAreEntries DEF Routed, Range
  <1>2. Fits(c, Listing(c, Routed(c)))
    BY <1>1, ListingLists DEF SessionsFit, Fits
  <1>3. Set(c, Listing(c, Routed(c))) /\ world' = world
    BY DEF Offer
  <1> QED BY <1>2, <1>3, SetFits

LEMMA LookFits ==
    ASSUME WorldFits, SessionsFit, NEW c \in Conns, Look(c)
    PROVE  SessionsFit'
  <1> DEFINE e == FindEntry(vault.ring, Items, conn[c].key)
             a == Answer("rejected", {}, "")
             q == Reply(c, a)
             on == [conn[c] EXCEPT !.at = "start", !.id = e.id, !.name = e.name]
             off == [q EXCEPT !.id = e.id]
  <1>1. Fits(c, conn[c]) /\ conn[c].at = "look" /\ conn[c].op = "sign" /\ world' = world
    BY DEF SessionsFit, Fits, Shaped, Look, At
  <1>2. e.id # "unknown" => \E i \in WithPublicKey : i.id = e.id /\ Plain(i.pub) = conn[c].key
    BY FoundHoldsTheKey, EntriesAreOfTheWorld DEF WithPublicKey
  <1>3. a.keys = {} /\ a.kind = "rejected"
    BY DEF Answer
  <1>4. /\ Shaped(c, q) /\ q.at = "idle" /\ q.answer = a /\ q.key = conn[c].key
        /\ q.allowed = conn[c].allowed /\ q.listed = conn[c].listed
    BY <1>1, <1>3, ReplyShaped DEF Fits
  <1>5. CASE conn[c].allowed # <<>> /\ e.id # "unknown" /\ e.id \notin conn[c].allowed[1]
    <2>1. Set(c, off)
      BY <1>5 DEF Look
    <2> HIDE DEF q, a, e
    <2>2. /\ Shaped(c, off) /\ off.at = "idle" /\ off.answer = a /\ off.key = conn[c].key /\ off.id = e.id
          /\ off.allowed = conn[c].allowed /\ off.listed = conn[c].listed
      BY <1>4 DEF Shaped, NewSession
    <2>3. Fits(c, off)
      BY <1>1, <1>2, <1>3, <1>5, <2>2 DEF Fits, Lists, Looks, Finds
    <2> QED BY <1>1, <2>1, <2>3, SetFits
  <1>6. CASE ~(conn[c].allowed # <<>> /\ e.id # "unknown" /\ e.id \notin conn[c].allowed[1])
    <2>1. Set(c, on)
      BY <1>6 DEF Look
    <2> HIDE DEF e
    <2>2. /\ Shaped(c, on) /\ on.at = "start" /\ on.op = "sign" /\ on.key = conn[c].key /\ on.id = e.id
          /\ on.allowed = conn[c].allowed /\ on.listed = conn[c].listed
      BY <1>1 DEF Fits, Shaped, NewSession, Points
    <2>3. Fits(c, on)
      BY <1>1, <1>2, <1>6, <2>2 DEF Fits, Lists, Looks, Finds
    <2> QED BY <1>1, <2>1, <2>3, SetFits
  <1> QED BY <1>5, <1>6

----------------------------------------------------------------------------
(* The decision and the signature.                                         *)

\* Decided, as what becomes of the session
Denial(c) == Reply(c, Answer("denied", {}, ""))
Outcome(c, ok) == IF ok THEN [conn[c] EXCEPT !.at = "sign"] ELSE Denial(c)

LEMMA OutcomeFits ==
    ASSUME NEW c \in Conns, Fits(c, conn[c]), conn[c].at \in {"check", "ask"}, NEW ok \in BOOLEAN
    PROVE  /\ Fits(c, Outcome(c, ok))
           /\ Outcome(c, ok).key = conn[c].key /\ Outcome(c, ok).n = conn[c].n
           /\ IF ok THEN Outcome(c, ok).at = "sign"
                    ELSE Outcome(c, ok).at = "idle" /\ Outcome(c, ok).answer.kind = "denied"
  <1> DEFINE a == Answer("denied", {}, "")
             q == Reply(c, a)
             on == [conn[c] EXCEPT !.at = "sign"]
  <1>1. conn[c].op = "sign"
    BY DEF Fits, Shaped
  <1>2. Fits(c, on) /\ on.key = conn[c].key /\ on.n = conn[c].n /\ on.at = "sign"
    BY <1>1 DEF Fits, Shaped, Lists, Looks, Finds, NewSession, Points
  <1>3. a.keys \subseteq Keys /\ a.kind = "denied"
    BY DEF Answer
  <1>4. Fits(c, q) /\ q.key = conn[c].key /\ q.n = conn[c].n /\ q.at = "idle" /\ q.answer.kind = "denied"
    <2> HIDE DEF a
    <2>1. /\ Shaped(c, q) /\ q.at = "idle" /\ q.answer = a /\ q.key = conn[c].key /\ q.n = conn[c].n
          /\ q.allowed = conn[c].allowed /\ q.listed = conn[c].listed
      BY <1>3, ReplyShaped DEF Fits
    <2> HIDE DEF q
    <2> QED BY <1>3, <2>1 DEF Fits, Lists, Looks
  <1> QED BY <1>2, <1>4 DEF Outcome, Denial

LEMMA DecidedFits ==
    ASSUME SessionsFit, UNCHANGED world, NEW c \in Conns, conn[c].at \in {"check", "ask"},
           NEW ok \in BOOLEAN, NEW auto, Decided(c, ok, auto)
    PROVE  SessionsFit'
  <1>1. Fits(c, Outcome(c, ok))
    BY OutcomeFits DEF SessionsFit
  <1>2. Set(c, Outcome(c, ok))
    BY DEF Decided, Outcome, Denial
  <1> QED BY <1>1, <1>2, SetFits

LEMMA CheckFits ==
    ASSUME SessionsFit, NEW c \in Conns, CheckSession(c)
    PROVE  SessionsFit'
  <1>1. Fits(c, conn[c]) /\ conn[c].at = "check" /\ world' = world
    BY DEF SessionsFit, CheckSession, At
  <1>2. CASE Decided(c, TRUE, TRUE)
    BY <1>1, <1>2, DecidedFits
  <1>3. CASE Set(c, [conn[c] EXCEPT !.at = "ask"])
    <2> DEFINE r == [conn[c] EXCEPT !.at = "ask"]
    <2>1. Fits(c, r)
      BY <1>1 DEF Fits, Shaped, Lists, Looks, Finds, NewSession, Points
    <2> QED BY <1>1, <1>3, <2>1, SetFits
  <1> QED BY <1>2, <1>3 DEF CheckSession

LEMMA DecideFits ==
    ASSUME SessionsFit, NEW c \in Conns, NEW ok \in BOOLEAN, NEW always \in BOOLEAN, Decide(c, ok, always)
    PROVE  SessionsFit'
  BY DecidedFits DEF Decide, At

\* What SignData answers: an error, or a signature with a key of the agent.
LEMMA SignatureAnswers ==
    ASSUME NEW ring, NEW items, NEW k, NEW flags
    PROVE  /\ Signature(ring, items, k, flags).keys \subseteq Keys
           /\ Signature(ring, items, k, flags).kind \in {"error", "signature"}
  <1> DEFINE a == Signature(ring, items, k, flags)
             answer(i) == Answer("signature", {Plain(i.priv)}, SignatureAlgorithm(Algorithm[Plain(i.priv)], flags))
             answers == {answer(i) : i \in Signer(ring, items, k, flags)}
             none == Answer("error", {}, "")
  <1>1. a = IF answers = {} THEN none ELSE CHOOSE x \in answers : TRUE
    BY DEF Signature
  <1>2. none.keys \subseteq Keys /\ none.kind = "error"
    BY DEF Answer
  <1>3. \A x \in answers : x.kind = "signature" /\ x.keys \subseteq Keys
    <2> SUFFICES ASSUME NEW i \in Signer(ring, items, k, flags)
                 PROVE  answer(i).kind = "signature" /\ answer(i).keys \subseteq Keys
      OBVIOUS
    <2>1. Plain(i.priv) \in Keys
      BY DEF Signer
    <2> QED BY <2>1 DEF Answer
  <1>4. answers # {} => (CHOOSE x \in answers : TRUE) \in answers
    <2> HIDE DEF answers
    <2> QED BY Zenon
  <1> HIDE DEF answers, none, a
  <1>5. a.keys \subseteq Keys /\ a.kind \in {"error", "signature"}
    BY <1>1, <1>2, <1>3, <1>4
  <1> QED BY <1>5 DEF a

LEMMA SignDataFits ==
    ASSUME SessionsFit, NEW c \in Conns, SignData(c)
    PROVE  SessionsFit'
  <1> DEFINE a == Signature(vault.ring, Items, conn[c].key, conn[c].flags)
             q == Reply(c, a)
  <1>1. Fits(c, conn[c]) /\ conn[c].at = "sign" /\ conn[c].op = "sign" /\ world' = world /\ Set(c, q)
    BY DEF SessionsFit, Fits, Shaped, SignData, At
  <1>2. a.keys \subseteq Keys /\ a.kind \in {"error", "signature"}
    BY SignatureAnswers
  <1>3. Fits(c, q)
    <2> HIDE DEF a
    <2>1. /\ Shaped(c, q) /\ q.at = "idle" /\ q.answer = a /\ q.key = conn[c].key /\ q.id = conn[c].id
          /\ q.allowed = conn[c].allowed /\ q.listed = conn[c].listed
      BY <1>1, <1>2, ReplyShaped DEF Fits
    <2> HIDE DEF q
    <2> QED BY <1>1, <1>2, <2>1 DEF Fits, Lists, Looks, Finds
  <1> QED BY <1>1, <1>3, SetFits

\* Until it has its answer a request stays what it was, a signature is the answer
\* to what was asked, and other sessions are left alone.
LEMMA ServedAsAsked ==
    ASSUME SessionsFit, NEW c \in Conns, Serve(c)
    PROVE  /\ conn[c].at # "idle"
           /\ conn'[c].key = conn[c].key /\ conn'[c].op = conn[c].op
           /\ conn'[c].at # "idle" => conn'[c].flags = conn[c].flags
           /\ conn'[c].at = "idle" /\ conn'[c].answer.kind = "signature" =>
                 conn'[c].answer = Signature(vault.ring, Items, conn[c].key, conn[c].flags)
           /\ \A d \in Conns \ {c} : conn'[d] = conn[d]
  <1> DEFINE s == conn[c]
             signature == Signature(vault.ring, Items, s.key, s.flags)
             Keeps(r) == /\ r.key = s.key /\ r.op = s.op
                         /\ r.at # "idle" => r.flags = s.flags
                         /\ r.at = "idle" /\ r.answer.kind = "signature" => r.answer = signature
  <1>1. Shaped(c, s) /\ DOMAIN s = DOMAIN NewSession
    BY DEF SessionsFit, Fits, Shaped
  <1> SUFFICES \E r : s.at # "idle" /\ Set(c, r) /\ Keeps(r)
    <2>1. \A r : Set(c, r) => conn'[c] = r /\ \A d \in Conns \ {c} : conn'[d] = conn[d]
      BY DEF Set, SessionsFit
    <2> QED BY <2>1
  <1> HIDE DEF Keeps
  <1>2. ASSUME NEW a, a.keys \subseteq Keys, a.kind = "signature" => a = signature
        PROVE  /\ Keeps(Reply(c, a)) /\ Reply(c, a).at = "idle" /\ Reply(c, a).answer = a
               /\ DOMAIN Reply(c, a) = DOMAIN NewSession
    <2>1. /\ Shaped(c, Reply(c, a)) /\ Reply(c, a).at = "idle" /\ Reply(c, a).answer = a
          /\ Reply(c, a).op = s.op /\ Reply(c, a).key = s.key
      BY <1>1, <1>2, ReplyShaped
    <2> QED BY <1>2, <2>1 DEF Shaped, Keeps
  <1>3. ASSUME NEW p, p # "idle" PROVE Keeps([s EXCEPT !.at = p])
    BY <1>1, <1>3 DEF NewSession, Keeps
  <1>13. CASE Ensure(c)
    <2>1. s.at = "ensure" /\ (Set(c, Unlocks(c)) \/ Set(c, [s EXCEPT !.at = "login"]))
      BY <1>13 DEF Ensure, At
    <2> QED BY <1>3, <2>1 DEF Unlocks
  <1>4. CASE Login(c)
    <2> DEFINE a == Answer("error", {}, "")
               q == Reply(c, a)
               failed == [q EXCEPT !.listed = IF s.op = "list" THEN <<>> ELSE @]
               p == IF s.op = "list" THEN "start" ELSE "look"
    <2>1. s.at = "login" /\ (Set(c, [s EXCEPT !.at = p]) \/ Set(c, failed))
      BY <1>4 DEF Login, Unlocks, At
    <2>2. a.keys \subseteq Keys /\ a.kind = "error"
      BY DEF Answer
    <2> HIDE DEF a
    <2>3. Keeps(q) /\ q.at = "idle" /\ q.answer = a /\ DOMAIN q = DOMAIN NewSession
      BY <1>2, <2>2
    <2> HIDE DEF q
    <2>4. Keeps(failed)
      BY <2>2, <2>3 DEF NewSession, Keeps
    <2> QED BY <1>3, <2>1, <2>4
  <1>5. CASE Walk(c)
    <2> DEFINE p == IF s.op = "list" THEN "context" ELSE "check"
               begun == StartWalk(os, ClientPid(c))
               next == IF s.walk.parent = 0 THEN WalkToParent(os, s.walk) ELSE WalkQueries(os, s.walk)
               r1 == [s EXCEPT !.at = "walk", !.walk = begun]
               r2 == [s EXCEPT !.walk = next]
    <2>1. s.at \in {"start", "walk"} /\ (Set(c, r1) \/ (s.at = "walk" /\ Set(c, r2)) \/ Set(c, [s EXCEPT !.at = p]))
      BY <1>5 DEF Walk, At
    <2> HIDE DEF begun, next
    <2>2. Keeps(r1) /\ (s.at = "walk" => Keeps(r2))
      BY <1>1 DEF NewSession, Keeps
    <2> QED BY <1>3, <2>1, <2>2
  <1>6. CASE ReadContext(c)
    <2> DEFINE url == ExtractRemoteUrl(W.disk, ProcessChain(s.walk))
               r == [s EXCEPT !.at = "offer", !.url = url]
    <2>1. s.at = "context" /\ Set(c, r)
      BY <1>6 DEF ReadContext, At
    <2> HIDE DEF url
    <2>2. Keeps(r)
      BY <1>1 DEF NewSession, Keeps
    <2> QED BY <2>1, <2>2
  <1>7. CASE Offer(c)
    <2> DEFINE shown == {i \in Routed(c) : HasPublicKey(i)}
               opens == \A i \in shown : PublicKeyOpens(vault.ring, i)
               keys == IF opens THEN {Plain(i.pub) : i \in shown} ELSE {}
               a == Answer(IF opens THEN "identities" ELSE "error", keys, "")
               q == Reply(c, a)
               ids == {i.id : i \in Routed(c)}
               listed == IF opens THEN <<keys>> ELSE <<>>
               r == [q EXCEPT !.allowed = <<ids>>, !.listed = listed]
    <2>1. Set(c, r) /\ s.at = "offer"
      BY <1>7 DEF Offer, Listing, At
    <2>2. a.keys \subseteq Keys /\ a.kind # "signature"
      BY DEF Answer, PublicKeyOpens
    <2> HIDE DEF a, ids, listed
    <2>3. Keeps(q) /\ q.at = "idle" /\ q.answer = a /\ DOMAIN q = DOMAIN NewSession
      BY <1>2, <2>2
    <2> HIDE DEF q
    <2>4. Keeps(r)
      BY <2>2, <2>3 DEF NewSession, Keeps
    <2> QED BY <2>1, <2>4
  <1>8. CASE Look(c)
    <2> DEFINE e == FindEntry(vault.ring, Items, s.key)
               a == Answer("rejected", {}, "")
               q == Reply(c, a)
               off == [q EXCEPT !.id = e.id]
               on == [s EXCEPT !.at = "start", !.id = e.id, !.name = e.name]
    <2>1. (Set(c, on) \/ Set(c, off)) /\ s.at = "look"
      BY <1>8 DEF Look, At
    <2>2. a.keys \subseteq Keys /\ a.kind = "rejected"
      BY DEF Answer
    <2> HIDE DEF a, e
    <2>3. Keeps(q) /\ q.at = "idle" /\ q.answer = a /\ DOMAIN q = DOMAIN NewSession
      BY <1>2, <2>2
    <2> HIDE DEF q
    <2>4. Keeps(off) /\ Keeps(on)
      BY <1>1, <2>2, <2>3 DEF NewSession, Keeps
    <2> QED BY <2>1, <2>4
  <1>9. ASSUME NEW ok \in BOOLEAN, NEW auto, Decided(c, ok, auto), s.at # "idle"
         PROVE  \E r : Set(c, r) /\ Keeps(r)
    <2> DEFINE a == Answer("denied", {}, "")
    <2>1. a.keys \subseteq Keys /\ a.kind = "denied"
      BY DEF Answer
    <2>2. IF ok THEN Set(c, [s EXCEPT !.at = "sign"]) ELSE Set(c, Reply(c, a))
      BY <1>9 DEF Decided
    <2> HIDE DEF a
    <2>3. Keeps(Reply(c, a))
      BY <1>2, <2>1
    <2> QED BY <1>3, <2>2, <2>3
  <1>10. CASE CheckSession(c)
    <2>1. s.at = "check" /\ (Decided(c, TRUE, TRUE) \/ Set(c, [s EXCEPT !.at = "ask"]))
      BY <1>10 DEF CheckSession, At
    <2> QED BY <1>3, <1>9, <2>1
  <1>11. ASSUME NEW ok \in BOOLEAN, NEW always \in BOOLEAN, Decide(c, ok, always)
         PROVE  s.at # "idle" /\ \E r : Set(c, r) /\ Keeps(r)
    BY <1>9, <1>11 DEF Decide, At
  <1>12. CASE SignData(c)
    <2>1. s.at = "sign" /\ Set(c, Reply(c, signature))
      BY <1>12 DEF SignData, At
    <2>2. signature.keys \subseteq Keys
      BY SignatureAnswers
    <2> HIDE DEF signature
    <2>3. Keeps(Reply(c, signature))
      BY <1>2, <2>2
    <2> QED BY <2>1, <2>3
  <1> QED BY <1>4, <1>5, <1>6, <1>7, <1>8, <1>10, <1>11, <1>12, <1>13 DEF Serve, Proceed

----------------------------------------------------------------------------
(* Any step.                                                               *)

Request(c) == List(c) \/ \E k \in Keys : \E f : Sign(c, k, f)
Step ==
    \/ \E c \in Conns : Request(c) \/ Serve(c)
    \/ \E r \in writing : Write(r)
    \/ Environment

\* A session changes in its own steps only.
LEMMA OthersStay ==
    ASSUME SessionsFit, NEW c \in Conns,
           \/ \E d \in Conns \ {c} : Request(d) \/ Serve(d)
           \/ \E r \in writing : Write(r)
           \/ Environment
           \/ UNCHANGED vars
    PROVE  conn'[c] = conn[c]
  <1>1. CASE \E d \in Conns \ {c} : Request(d)
    BY <1>1 DEF Request, List, Sign, Set, SessionsFit
  <1>2. CASE \E d \in Conns \ {c} : Serve(d)
    BY <1>2, ServedAsAsked
  <1>3. CASE (\E r \in writing : Write(r)) \/ Environment \/ UNCHANGED vars
    BY <1>3 DEF Write, Environment, Lock, Unlock, Sync, Churn, vars
  <1> QED BY <1>1, <1>2, <1>3

LEMMA WorldKept ==
    ASSUME WorldFits, SessionsFit, Step \/ UNCHANGED vars
    PROVE  WorldFits' /\ world' = world
  <1> USE DEF Unlocked
  <1>1. /\ Len(W.items) \in Nat \ {0} /\ DOMAIN W.items = 1..Len(W.items) /\ W.locks \in Nat
        /\ \A t \in W.churn : t \in {W.os} \cup W.churn
    BY WorldIs DEF WorldFits
  <1>2. ASSUME world' = world, UNCHANGED <<os, vault, locks, trusted>>
        PROVE  WorldFits'
    BY <1>2, SameWorld DEF WorldFits
  <1>3. CASE \E c \in Conns : Request(c)
    BY <1>2, <1>3 DEF Request, List, Sign
  <1>4. ASSUME NEW c \in Conns, Login(c)
        PROVE  WorldFits' /\ world' = world
    <2>1. world' = world /\ UNCHANGED <<os, locks, trusted>>
      BY <1>4 DEF Login
    <2>2. \/ UNCHANGED vault
          \/ \E v \in DOMAIN W.items : vault' = [ring |-> W.ring, version |-> v]
      BY <1>4 DEF Login
    <2> QED BY <1>1, <2>1, <2>2, SameWorld DEF WorldFits
  <1>5. ASSUME NEW c \in Conns,
               \/ Ensure(c) \/ Walk(c) \/ ReadContext(c) \/ Offer(c)
               \/ Look(c) \/ CheckSession(c) \/ SignData(c)
        PROVE  WorldFits' /\ world' = world
    BY <1>2, <1>5 DEF Ensure, Walk, ReadContext, Offer, Look, CheckSession, SignData
  <1>6. ASSUME NEW c \in Conns, NEW ok \in BOOLEAN, NEW always \in BOOLEAN, Decide(c, ok, always)
        PROVE  WorldFits' /\ world' = world
    <2>1. world' = world /\ UNCHANGED <<os, vault, locks>>
      BY <1>6 DEF Decide
    <2>2. conn[c].key \in Keys
      BY DEF SessionsFit, Fits, Shaped
    <2>3. trusted' \subseteq trusted \cup {<<conn[c].key, Initiator(conn[c].walk)>>}
      BY <1>6 DEF Decide
    <2>4. \A p \in trusted' : p[1] \in Keys
      BY <2>2, <2>3 DEF WorldFits
    <2> QED BY <2>1, <2>4, SameWorld DEF WorldFits
  <1>7. CASE \E c \in Conns : Serve(c)
    BY <1>4, <1>5, <1>6, <1>7 DEF Serve, Proceed
  <1>8. CASE \E r \in writing : Write(r)
    BY <1>2, <1>8 DEF Write
  <1>9. CASE Lock
    <2>1. world' = world /\ os' = os /\ locks' = locks + 1 /\ locks < W.locks /\ trusted' \subseteq trusted
      BY <1>9 DEF Lock
    <2>2. vault' = [vault EXCEPT !.ring = <<>>]
      BY <1>9 DEF Lock
    <2>3. vault' \in [ring : {<<>>, W.ring}, version : 0..Len(W.items)] /\ vault'.ring = <<>>
      BY <2>2 DEF WorldFits
    <2>4. locks' \in 0..W.locks
      BY <1>1, <2>1 DEF WorldFits
    <2> QED BY <2>1, <2>3, <2>4, SameWorld DEF WorldFits
  <1>10. CASE Sync
    <2>1. world' = world /\ os' = os /\ UNCHANGED <<locks, trusted>> /\ Len(W.items) = 2
          /\ vault' = [vault EXCEPT !.version = 2]
      BY <1>10 DEF Sync
    <2>2. vault' \in [ring : {<<>>, W.ring}, version : 0..Len(W.items)] /\ vault'.version = 2
      BY <2>1 DEF WorldFits
    <2> QED BY <2>1, <2>2, SameWorld DEF WorldFits
  <1>11. CASE Churn
    <2>1. world' = world /\ UNCHANGED <<vault, locks, trusted>> /\ os' \in W.churn
      BY <1>11 DEF Churn
    <2> QED BY <2>1, SameWorld DEF WorldFits
  <1>12. CASE UNCHANGED vars
    BY <1>2, <1>12 DEF vars
  <1>13. CASE Unlock
    <2>1. world' = world /\ UNCHANGED <<os, locks, trusted>>
      BY <1>13 DEF Unlock
    <2>2. \E v \in DOMAIN W.items : vault' = [ring |-> W.ring, version |-> v]
      BY <1>13 DEF Unlock
    <2> QED BY <1>1, <2>1, <2>2, SameWorld DEF WorldFits
  <1> QED BY <1>3, <1>7, <1>8, <1>9, <1>10, <1>11, <1>12, <1>13 DEF Step, Environment

LEMMA SessionsKept ==
    ASSUME WorldFits, SessionsFit, Step \/ UNCHANGED vars
    PROVE  SessionsFit'
  <1>1. CASE \E c \in Conns : Request(c)
    BY <1>1, RequestFits DEF Request
  <1>2. CASE \E c \in Conns : Serve(c)
    BY <1>2, EnsureFits, LoginFits, WalkFits, ContextFits, OfferFits, LookFits, CheckFits, SignDataFits, DecideFits DEF Serve, Proceed
  <1>3. CASE (\E r \in writing : Write(r)) \/ Environment \/ UNCHANGED vars
    BY <1>3, SameFits DEF Write, Environment, Lock, Unlock, Sync, Churn, vars
  <1> QED BY <1>1, <1>2, <1>3 DEF Step

----------------------------------------------------------------------------
(* The records.                                                            *)

\* A step that decides nothing keeps them: it leaves the request and does not end
\* it as a decision does, or it starts a new one.
LEMMA UndecidedKept ==
    ASSUME SessionsFit, Recorded, Records' = Records,
           NEW c \in Conns, NEW r, Set(c, r),
           \/ /\ conn[c].at \notin {"sign", "idle"} /\ r.n = conn[c].n
              /\ ~WasDecided(r)
           \/ r.n = conn[c].n + 1 /\ r.at = "ensure"
    PROVE  Recorded'
  <1>1. conn'[c] = r /\ \A d \in Conns \ {c} : conn'[d] = conn[d]
    BY DEF Set, SessionsFit
  <1>2. conn[c].n \in Nat /\ r.n \in Nat
    BY DEF SessionsFit, Fits, Shaped
  <1>3. ~WasDecided(r)
    BY DEF WasDecided
  <1>4. ASSUME NEW q \in Records
        PROVE  /\ q.conn \in Conns /\ q.key \in Keys /\ q.n \in 1..conn'[q.conn].n
               /\ q.n = conn'[q.conn].n => conn'[q.conn].at \in {"sign", "idle"}
    <2>1. /\ q.conn \in Conns /\ q.key \in Keys /\ q.n \in 1..conn[q.conn].n
          /\ q.n = conn[q.conn].n => conn[q.conn].at \in {"sign", "idle"}
      BY DEF Recorded
    <2>2. CASE q.conn # c
      BY <1>1, <2>1, <2>2
    <2>3. CASE q.conn = c
      BY <1>1, <1>2, <2>1, <2>3
    <2> QED BY <2>2, <2>3
  <1>5. ASSUME NEW d \in Conns, WasDecided(conn'[d])
        PROVE  \E q \in Records : IsOfThis(q, d, conn'[d])
    <2>1. d # c
      BY <1>1, <1>3, <1>5
    <2> QED BY <1>1, <1>5, <2>1 DEF Recorded
  <1>6. \A q, s \in Records : q.conn = s.conn /\ q.n = s.n => q = s
    BY DEF Recorded
  <1> HIDE DEF Records
  <1> QED BY <1>4, <1>5, <1>6 DEF Recorded, WasDecided, IsOfThis

\* A decision adds the one record of its request.
LEMMA DecidedKept ==
    ASSUME SessionsFit, Places, Recorded, NEW c \in Conns, conn[c].at \in {"check", "ask"},
           NEW ok \in BOOLEAN, NEW auto, Decided(c, ok, auto), UNCHANGED <<log, lost>>
    PROVE  Places' /\ Recorded'
  <1> DEFINE rec == Record(c, ok, auto)
             r == Outcome(c, ok)
  <1>1. Set(c, r) /\ writing' = writing \cup {rec} /\ Records' = Records \cup {rec}
    BY DEF Decided, Outcome, Denial, Records
  <1>2. /\ r.n = conn[c].n /\ r.key = conn[c].key /\ r.n \in Nat /\ conn[c].key \in Keys
        /\ IF ok THEN r.at = "sign" ELSE r.at = "idle" /\ r.answer.kind = "denied"
    BY OutcomeFits DEF SessionsFit, Fits, Shaped
  <1>3. rec.conn = c /\ rec.n = conn[c].n /\ rec.key = conn[c].key /\ rec.approved = ok
    BY DEF Record
  <1> HIDE DEF rec, r
  <1>4. conn'[c] = r /\ \A d \in Conns \ {c} : conn'[d] = conn[d]
    BY <1>1 DEF Set, SessionsFit
  <1>5. ASSUME NEW q \in Records
        PROVE  /\ q.conn \in Conns /\ q.key \in Keys /\ q.n \in 1..conn[q.conn].n
               /\ q.n = conn[q.conn].n => conn[q.conn].at \in {"sign", "idle"}
    BY DEF Recorded
  <1>6. \A q \in Records : ~(q.conn = c /\ q.n = conn[c].n)
    BY <1>5
  <1>7. conn[c].n \in 1..conn[c].n
    <2>1. conn[c].n \in Nat /\ conn[c].n > 0
      BY DEF SessionsFit, Fits, Shaped
    <2> QED BY <2>1
  <1>8. Places'
    <2>1. rec \notin Records
      BY <1>3, <1>6
    <2>2. IsFiniteSet(writing')
      BY <1>1, FS_AddElement DEF Places
    <2> QED BY <1>1, <2>1, <2>2 DEF Places, Records
  <1>9. ASSUME NEW q \in Records'
        PROVE  /\ q.conn \in Conns /\ q.key \in Keys /\ q.n \in 1..conn'[q.conn].n
               /\ q.n = conn'[q.conn].n => conn'[q.conn].at \in {"sign", "idle"}
    <2>1. CASE q = rec
      BY <1>2, <1>3, <1>4, <1>7, <2>1
    <2>2. CASE q \in Records
      <3>1. CASE q.conn = c
        BY <1>2, <1>4, <1>5, <2>2, <3>1
      <3>2. CASE q.conn # c
        BY <1>4, <1>5, <2>2, <3>2
      <3> QED BY <3>1, <3>2
    <2> QED BY <1>1, <2>1, <2>2
  <1>10. ASSUME NEW q \in Records', NEW s \in Records', q.conn = s.conn, q.n = s.n
         PROVE  q = s
    <2>1. CASE q \in Records /\ s \in Records
      BY <1>10, <2>1 DEF Recorded
    <2>2. CASE q = rec \/ s = rec
      BY <1>1, <1>3, <1>6, <1>10, <2>2
    <2> QED BY <1>1, <2>1, <2>2
  <1>11. ASSUME NEW d \in Conns, WasDecided(conn'[d])
         PROVE  \E q \in Records' : IsOfThis(q, d, conn'[d])
    <2>1. CASE d # c
      BY <1>1, <1>4, <1>11, <2>1 DEF Recorded
    <2>2. CASE d = c
      <3>1. IsOfThis(rec, c, r)
        BY <1>2, <1>3 DEF IsOfThis
      <3> QED BY <1>1, <1>4, <2>2, <3>1
    <2> QED BY <2>1, <2>2
  <1> HIDE DEF Records
  <1>12. Recorded'
    BY <1>9, <1>10, <1>11 DEF Recorded, WasDecided, IsOfThis
  <1> QED BY <1>8, <1>12

\* The signature is of the same request as the record of its approval.
LEMMA SignDataKept ==
    ASSUME SessionsFit, Recorded, NEW c \in Conns, SignData(c)
    PROVE  Recorded'
  <1> DEFINE a == Signature(vault.ring, Items, conn[c].key, conn[c].flags)
             r == Reply(c, a)
  <1>1. conn[c].at = "sign" /\ Set(c, r) /\ Records' = Records
    BY DEF SignData, At, Records
  <1>2. a.keys \subseteq Keys /\ a.kind \in {"error", "signature"}
    BY SignatureAnswers
  <1> HIDE DEF a
  <1>3. r.at = "idle" /\ r.answer.kind # "denied" /\ r.n = conn[c].n /\ r.key = conn[c].key
    BY <1>2, ReplyShaped DEF SessionsFit, Fits
  <1> HIDE DEF r
  <1>4. conn'[c] = r /\ \A d \in Conns \ {c} : conn'[d] = conn[d]
    BY <1>1 DEF Set, SessionsFit
  <1>5. ASSUME NEW q \in Records
        PROVE  /\ q.conn \in Conns /\ q.key \in Keys /\ q.n \in 1..conn'[q.conn].n
               /\ q.n = conn'[q.conn].n => conn'[q.conn].at \in {"sign", "idle"}
    <2>1. CASE q.conn = c
      BY <1>3, <1>4, <2>1 DEF Recorded
    <2>2. CASE q.conn # c
      BY <1>4, <2>2 DEF Recorded
    <2> QED BY <2>1, <2>2
  <1>6. ASSUME NEW d \in Conns, WasDecided(conn'[d])
        PROVE  \E q \in Records : IsOfThis(q, d, conn'[d])
    <2>1. CASE d # c
      BY <1>4, <1>6, <2>1 DEF Recorded
    <2>2. CASE d = c
      <3>1. PICK q \in Records : IsOfThis(q, c, conn[c])
        BY <1>1 DEF Recorded, WasDecided
      <3>2. IsOfThis(q, c, r)
        BY <1>1, <1>3, <3>1 DEF IsOfThis
      <3> QED BY <1>4, <2>2, <3>2
    <2> QED BY <2>1, <2>2
  <1>7. \A q, s \in Records : q.conn = s.conn /\ q.n = s.n => q = s
    BY DEF Recorded
  <1> HIDE DEF Records
  <1> QED BY <1>1, <1>5, <1>6, <1>7 DEF Recorded, WasDecided, IsOfThis

\* A record moves from one place to another.
LEMMA WriteKept ==
    ASSUME Places, Recorded, NEW r \in writing, Write(r)
    PROVE  Places' /\ Recorded'
  <1>1. writing' = writing \ {r} /\ conn' = conn
    BY DEF Write
  <1>2. IsFiniteSet(writing')
    BY <1>1, FS_RemoveElement DEF Places
  <1>3. CASE log' = Append(log, r) /\ UNCHANGED lost
    <2>1. log' \in Seq(Range(log')) /\ Range(log') = Range(log) \cup {r} /\ Len(log') = Len(log) + 1
      BY <1>3, Appended DEF Places
    <2>2. r \notin Range(log) /\ Len(log) \in Nat /\ DOMAIN log = 1..Len(log)
      BY DEF Places
    <2>3. IsInjective(log')
      <3>1. DOMAIN log' = 1..(Len(log) + 1)
        BY <2>1, <2>2
      <3>2. log'[Len(log) + 1] = r /\ \A i \in 1..Len(log) : log'[i] = log[i]
        BY <1>3 DEF Places
      <3>3. \A i \in 1..Len(log) : log[i] # r
        BY <2>2 DEF Range
      <3>4. \A i, j \in 1..Len(log) : log[i] = log[j] => i = j
        BY <2>2 DEF Places, IsInjective
      <3>5. \A i \in DOMAIN log' : i \in 1..Len(log) \/ i = Len(log) + 1
        BY <2>2, <3>1
      <3> QED BY <3>2, <3>3, <3>4, <3>5 DEF IsInjective
    <2>4. Records' = Records
      BY <1>1, <1>3, <2>1 DEF Records
    <2>5. Places'
      BY <1>1, <1>2, <1>3, <2>1, <2>2, <2>3 DEF Places
    <2> HIDE DEF Records
    <2> QED BY <1>1, <2>4, <2>5 DEF Recorded, WasDecided, IsOfThis
  <1>4. CASE lost' = lost \cup {r} /\ UNCHANGED log
    <2>1. Records' = Records
      BY <1>1, <1>4 DEF Records
    <2>2. IsFiniteSet(lost')
      BY <1>4, FS_AddElement DEF Places
    <2>3. Places'
      BY <1>1, <1>2, <1>4, <2>2 DEF Places
    <2> HIDE DEF Records
    <2> QED BY <1>1, <2>1, <2>3 DEF Recorded, WasDecided, IsOfThis
  <1> QED BY <1>3, <1>4 DEF Write

LEMMA RecordsKept ==
    ASSUME SessionsFit, Places, Recorded, Step \/ UNCHANGED vars
    PROVE  Places' /\ Recorded'
  <1>1. ASSUME UNCHANGED <<writing, log, lost>>
        PROVE  Places' /\ Records' = Records
    BY <1>1 DEF Places, Records
  <1>2. ASSUME UNCHANGED <<conn, writing, log, lost>>
        PROVE  Places' /\ Recorded'
    <2> HIDE DEF Records
    <2> QED BY <1>1, <1>2 DEF Recorded, WasDecided, IsOfThis
  <1>3. ASSUME NEW c \in Conns, List(c)
        PROVE  Places' /\ Recorded'
    <2> DEFINE r == [conn[c] EXCEPT !.at = "ensure", !.op = "list", !.n = @ + 1]
    <2>1. Set(c, r) /\ UNCHANGED <<writing, log, lost>>
      BY <1>3 DEF List
    <2>2. r.n = conn[c].n + 1 /\ r.at = "ensure"
      BY DEF SessionsFit, Fits, Shaped, NewSession
    <2> QED BY <1>1, <2>1, <2>2, UndecidedKept
  <1>4. ASSUME NEW c \in Conns, NEW k, NEW f, Sign(c, k, f)
        PROVE  Places' /\ Recorded'
    <2> DEFINE r == [conn[c] EXCEPT !.at = "ensure", !.op = "sign", !.key = k, !.flags = f, !.n = @ + 1]
    <2>1. Set(c, r) /\ UNCHANGED <<writing, log, lost>>
      BY <1>4 DEF Sign
    <2>2. r.n = conn[c].n + 1 /\ r.at = "ensure"
      BY DEF SessionsFit, Fits, Shaped, NewSession
    <2> QED BY <1>1, <2>1, <2>2, UndecidedKept
  <1>5. ASSUME NEW c \in Conns, NEW r, Set(c, r), UNCHANGED <<writing, log, lost>>,
               conn[c].at \notin {"sign", "idle"}, r.n = conn[c].n, ~WasDecided(r)
        PROVE  Places' /\ Recorded'
    BY <1>1, <1>5, UndecidedKept
  <1>6. ASSUME NEW c \in Conns, NEW a, a.keys \subseteq Keys, a.kind \notin {"signature", "denied"}
        PROVE  /\ Reply(c, a).n = conn[c].n /\ ~WasDecided(Reply(c, a))
               /\ Reply(c, a).at = "idle" /\ Reply(c, a).answer = a
               /\ DOMAIN Reply(c, a) = DOMAIN NewSession
    BY <1>6, ReplyShaped DEF SessionsFit, Fits, Shaped, WasDecided
  <1>18. ASSUME NEW c \in Conns, Ensure(c)
         PROVE  Places' /\ Recorded'
    <2>1. PICK p \in {"start", "look", "login"} : Set(c, [conn[c] EXCEPT !.at = p])
      BY <1>18 DEF Ensure, Unlocks
    <2> DEFINE r == [conn[c] EXCEPT !.at = p]
    <2>2. conn[c].at = "ensure" /\ UNCHANGED <<writing, log, lost>>
      BY <1>18 DEF Ensure, At
    <2>3. r.n = conn[c].n /\ ~WasDecided(r)
      BY DEF SessionsFit, Fits, Shaped, NewSession, WasDecided
    <2> QED BY <1>5, <2>1, <2>2, <2>3
  <1>7. ASSUME NEW c \in Conns, Login(c)
        PROVE  Places' /\ Recorded'
    <2> DEFINE on == Unlocks(c)
               a == Answer("error", {}, "")
               q == Reply(c, a)
               failed == [q EXCEPT !.listed = IF conn[c].op = "list" THEN <<>> ELSE @]
    <2>1. conn[c].at = "login" /\ UNCHANGED <<writing, log, lost>> /\ (Set(c, on) \/ Set(c, failed))
      BY <1>7 DEF Login, At
    <2>2. on.n = conn[c].n /\ ~WasDecided(on)
      BY DEF Unlocks, SessionsFit, Fits, Shaped, NewSession, WasDecided
    <2>3. a.keys \subseteq Keys /\ a.kind = "error"
      BY DEF Answer
    <2> HIDE DEF a
    <2>4. q.n = conn[c].n /\ q.at = "idle" /\ q.answer = a /\ DOMAIN q = DOMAIN NewSession
      BY <1>6, <2>3
    <2> HIDE DEF q
    <2>5. failed.n = conn[c].n /\ ~WasDecided(failed)
      BY <2>3, <2>4 DEF NewSession, WasDecided
    <2> QED BY <1>5, <2>1, <2>2, <2>5
  <1>8. ASSUME NEW c \in Conns, Walk(c) \/ ReadContext(c)
        PROVE  Places' /\ Recorded'
    <2>1. PICK r : /\ Set(c, r) /\ UNCHANGED <<writing, log, lost>>
                   /\ conn[c].at \in {"start", "walk", "context"} /\ r.n = conn[c].n
                   /\ r.at \in {"walk", "context", "check", "offer"}
      <3> DEFINE w == conn[c].walk
                 r1 == [conn[c] EXCEPT !.at = "walk", !.walk = StartWalk(os, ClientPid(c))]
                 r2 == [conn[c] EXCEPT !.walk = IF w.parent = 0 THEN WalkToParent(os, w) ELSE WalkQueries(os, w)]
                 r3 == [conn[c] EXCEPT !.at = IF conn[c].op = "list" THEN "context" ELSE "check"]
                 r4 == [conn[c] EXCEPT !.at = "offer", !.url = ExtractRemoteUrl(W.disk, ProcessChain(conn[c].walk))]
      <3>1. UNCHANGED <<writing, log, lost>>
        BY <1>8 DEF Walk, ReadContext
      <3>2. \/ conn[c].at = "start" /\ Set(c, r1)
            \/ conn[c].at = "walk" /\ (Set(c, r2) \/ Set(c, r3))
            \/ conn[c].at = "context" /\ Set(c, r4)
        BY <1>8 DEF Walk, ReadContext, At
      <3>3. DOMAIN conn[c] = DOMAIN NewSession
        BY DEF SessionsFit, Fits, Shaped
      <3>4. /\ r1.n = conn[c].n /\ r2.n = conn[c].n /\ r3.n = conn[c].n /\ r4.n = conn[c].n
            /\ r1.at = "walk" /\ r2.at = conn[c].at /\ r3.at \in {"context", "check"} /\ r4.at = "offer"
        BY <3>3 DEF NewSession
      <3> HIDE DEF r1, r2, r3, r4
      <3> QED BY <3>1, <3>2, <3>4
    <2>2. ~WasDecided(r)
      BY <2>1 DEF WasDecided
    <2> QED BY <1>5, <2>1, <2>2
  <1>9. ASSUME NEW c \in Conns, Offer(c)
        PROVE  Places' /\ Recorded'
    <2> DEFINE shown == {i \in Routed(c) : HasPublicKey(i)}
               opens == \A i \in shown : PublicKeyOpens(vault.ring, i)
               keys == IF opens THEN {Plain(i.pub) : i \in shown} ELSE {}
               a == Answer(IF opens THEN "identities" ELSE "error", keys, "")
               q == Reply(c, a)
               ids == {i.id : i \in Routed(c)}
               listed == IF opens THEN <<keys>> ELSE <<>>
               r == [q EXCEPT !.allowed = <<ids>>, !.listed = listed]
    <2>1. Set(c, r) /\ UNCHANGED <<writing, log, lost>> /\ conn[c].at = "offer"
      BY <1>9 DEF Offer, Listing, At
    <2>2. a.keys \subseteq Keys /\ a.kind \notin {"signature", "denied"}
      BY DEF Answer, PublicKeyOpens
    <2> HIDE DEF a, ids, listed
    <2>3. q.n = conn[c].n /\ q.at = "idle" /\ q.answer = a /\ DOMAIN q = DOMAIN NewSession
      BY <1>6, <2>2
    <2> HIDE DEF q
    <2>4. r.n = conn[c].n /\ ~WasDecided(r)
      BY <2>2, <2>3 DEF NewSession, WasDecided
    <2> QED BY <1>5, <2>1, <2>4
  <1>10. ASSUME NEW c \in Conns, Look(c)
         PROVE  Places' /\ Recorded'
    <2> DEFINE e == FindEntry(vault.ring, Items, conn[c].key)
               a == Answer("rejected", {}, "")
               q == Reply(c, a)
               off == [q EXCEPT !.id = e.id]
               on == [conn[c] EXCEPT !.at = "start", !.id = e.id, !.name = e.name]
    <2>1. (Set(c, on) \/ Set(c, off)) /\ UNCHANGED <<writing, log, lost>> /\ conn[c].at = "look"
      BY <1>10 DEF Look, At
    <2>2. a.keys \subseteq Keys /\ a.kind = "rejected"
      BY DEF Answer
    <2> HIDE DEF a, e
    <2>3. q.n = conn[c].n /\ q.at = "idle" /\ q.answer = a /\ DOMAIN q = DOMAIN NewSession
      BY <1>6, <2>2
    <2> HIDE DEF q
    <2>4. off.n = conn[c].n /\ ~WasDecided(off)
      BY <2>2, <2>3 DEF NewSession, WasDecided
    <2>5. on.n = conn[c].n /\ ~WasDecided(on)
      BY DEF SessionsFit, Fits, Shaped, NewSession, WasDecided
    <2> QED BY <1>5, <2>1, <2>4, <2>5
  <1>11. ASSUME NEW c \in Conns, CheckSession(c)
         PROVE  Places' /\ Recorded'
    <2>1. conn[c].at = "check" /\ UNCHANGED <<log, lost>>
      BY <1>11 DEF CheckSession, At
    <2>2. CASE Decided(c, TRUE, TRUE)
      BY <2>1, <2>2, DecidedKept
    <2>3. CASE Set(c, [conn[c] EXCEPT !.at = "ask"]) /\ UNCHANGED writing
      <3> DEFINE r == [conn[c] EXCEPT !.at = "ask"]
      <3>1. r.n = conn[c].n /\ ~WasDecided(r)
        BY DEF SessionsFit, Fits, Shaped, NewSession, WasDecided
      <3> QED BY <1>5, <2>1, <2>3, <3>1
    <2> QED BY <1>11, <2>2, <2>3 DEF CheckSession
  <1>12. ASSUME NEW c \in Conns, NEW ok \in BOOLEAN, NEW always \in BOOLEAN, Decide(c, ok, always)
         PROVE  Places' /\ Recorded'
    BY <1>12, DecidedKept DEF Decide, At
  <1>13. ASSUME NEW c \in Conns, SignData(c)
         PROVE  Places' /\ Recorded'
    BY <1>1, <1>13, SignDataKept DEF SignData
  <1>14. CASE \E c \in Conns : Request(c)
    BY <1>3, <1>4, <1>14 DEF Request
  <1>15. CASE \E c \in Conns : Serve(c)
    BY <1>7, <1>8, <1>9, <1>10, <1>11, <1>12, <1>13, <1>15, <1>18 DEF Serve, Proceed
  <1>16. CASE \E r \in writing : Write(r)
    BY <1>16, WriteKept
  <1>17. CASE Environment \/ UNCHANGED vars
    BY <1>2, <1>17 DEF Environment, Lock, Unlock, Sync, Churn, vars
  <1> QED BY <1>14, <1>15, <1>16, <1>17 DEF Step

----------------------------------------------------------------------------
(* The invariant, and what the records come to.                            *)

LEMMA InitInv == Init => AgentInv
  <1> SUFFICES ASSUME Init PROVE AgentInv
      OBVIOUS
  <1>0. world \in DOMAIN Worlds
    BY DEF Init
  <1>1. WorldFits
    <2>1. vault \in [ring : {<<>>, W.ring}, version : 0..Len(W.items)] /\ (Unlocked => vault.version > 0)
      BY <1>0, WorldIs DEF Init, Unlocked
    <2> QED BY <1>0, <2>1, WorldIs DEF Init, WorldFits
  <1>2. SessionsFit
    <2> SUFFICES ASSUME NEW c \in Conns PROVE Fits(c, NewSession)
      BY DEF Init, SessionsFit
    <2>1. (CHOOSE k \in Keys : TRUE) \in Keys
      BY WorldAssumption, Zenon
    <2>2. IsWalk(NoWalk) /\ Len(NoWalk.chain) = 0 /\ NoWalk.parent = 0
      BY DEF NoWalk, IsWalk
    <2>3. W.requests[c] \in Nat
      BY <1>0, WorldIs
    <2>4. NoAnswer.keys = {} /\ NoAnswer.kind = "none"
      BY DEF NoAnswer, Answer
    <2>5. Shaped(c, NewSession)
      BY <2>1, <2>2, <2>3, <2>4, DepthAssumption DEF Shaped, NewSession, Points
    <2>6. Lists(NewSession) /\ Looks(NewSession)
      BY <2>4 DEF NewSession, Lists, Looks
    <2> QED BY <2>5, <2>6 DEF Fits
  <1>3. Places /\ Records = {}
    <2>1. writing = {} /\ lost = {} /\ log = <<>>
      BY DEF Init
    <2>2. Range(log) = {} /\ IsInjective(log)
      BY <2>1 DEF Range, IsInjective
    <2>3. log \in Seq(Range(log))
      BY <2>1
    <2> QED BY <2>1, <2>2, <2>3, FS_EmptySet DEF Places, Records
  <1>4. Recorded
    <2>1. \A c \in Conns : ~WasDecided(conn[c])
      BY DEF Init, NewSession, NoAnswer, Answer, WasDecided
    <2> QED BY <1>3, <2>1 DEF Recorded
  <1> QED BY <1>1, <1>2, <1>3, <1>4 DEF AgentInv

LEMMA StepInv ==
    ASSUME AgentInv, Step \/ UNCHANGED vars
    PROVE  AgentInv'
  BY WorldKept, SessionsKept, RecordsKept DEF AgentInv

\* A query for as many records as there are shows them all.
LEMMA QueryShowsAll ==
    ASSUME Places
    PROVE  Range(Query(Len(log))) = Range(log)
  <1>1. log \in Seq(Range(log)) /\ Len(log) \in Nat /\ DOMAIN log = 1..Len(log)
    BY DEF Places
  <1> DEFINE n == Len(log)
             back == [i \in 1..n |-> log[n - i + 1]]
  <1>2. Reverse(log) = back
    BY DEF Reverse
  <1>3. back \in Seq(Range(log)) /\ Len(back) = n
    <2>1. \A i \in 1..n : n - i + 1 \in 1..n
      BY <1>1
    <2>2. back \in [1..n -> Range(log)]
      BY <1>1, <2>1 DEF Range
    <2> QED BY <1>1, <2>2
  <1>4. Query(n) = SubSeq(back, 1, n)
    BY <1>2 DEF Query
  <1>5. /\ DOMAIN Query(n) = 1..n
        /\ \A i \in 1..n : Query(n)[i] = log[n - i + 1]
    BY <1>1, <1>3, <1>4
  <1> HIDE DEF back
  <1>6. \A i \in 1..n : n - i + 1 \in 1..n /\ n - (n - i + 1) + 1 = i
    BY <1>1
  <1>7. Range(Query(n)) \subseteq Range(log)
    BY <1>1, <1>5, <1>6 DEF Range
  <1>8. Range(log) \subseteq Range(Query(n))
    <2> SUFFICES ASSUME NEW i \in 1..n PROVE log[i] \in Range(Query(n))
      BY <1>1 DEF Range
    <2>1. Query(n)[n - i + 1] = log[i] /\ n - i + 1 \in DOMAIN Query(n)
      BY <1>5, <1>6
    <2> QED BY <2>1 DEF Range
  <1> QED BY <1>7, <1>8

\* No request has two records, wherever they are.
LEMMA OneRecordEach ==
    ASSUME Places, Recorded
    PROVE  Cardinality({<<r.conn, r.n>> : r \in Records}) = Cardinality(writing) + Len(log) + Cardinality(lost)
  <1> DEFINE T == {<<r.conn, r.n>> : r \in Records}
             f == [r \in Records |-> <<r.conn, r.n>>]
  <1>1. IsFiniteSet(Range(log)) /\ Cardinality(Range(log)) = Len(log)
    <2>1. Len(log) \in Nat /\ DOMAIN log = 1..Len(log) /\ log \in [1..Len(log) -> Range(log)]
      BY DEF Places
    <2>2. log \in Bijection(1..Len(log), Range(log))
      BY <2>1 DEF Places, Bijection, Injection, Surjection, IsInjective, Range
    <2>3. IsFiniteSet(1..Len(log)) /\ Cardinality(1..Len(log)) = Len(log)
      BY <2>1, FS_Interval
    <2> QED BY <2>2, <2>3, FS_Bijection DEF ExistsBijection
  <1>2. /\ IsFiniteSet(Records)
        /\ Cardinality(Records) = Cardinality(writing) + Len(log) + Cardinality(lost)
    <2>1. IsFiniteSet(writing) /\ IsFiniteSet(lost)
      BY DEF Places
    <2>2. /\ IsFiniteSet(writing \cup Range(log))
          /\ Cardinality(writing \cup Range(log)) = Cardinality(writing) + Len(log) - Cardinality({})
      BY <1>1, <2>1, FS_Union DEF Places
    <2>3. (writing \cup Range(log)) \cap lost = {}
      BY DEF Places
    <2>4. Cardinality(Records) = Cardinality(writing \cup Range(log)) + Cardinality(lost) - Cardinality({})
      BY <2>1, <2>2, <2>3, FS_Union DEF Records
    <2>5. IsFiniteSet(Records)
      BY <2>1, <2>2, FS_Union DEF Records
    <2>6. /\ Cardinality({}) = 0 /\ Cardinality(writing) \in Nat /\ Cardinality(lost) \in Nat
          /\ Len(log) \in Nat
      BY <2>1, FS_EmptySet, FS_CardinalityType DEF Places
    <2> QED BY <2>2, <2>4, <2>5, <2>6
  <1>3. f \in Bijection(Records, T)
    <2>1. \A r, s \in Records : r.conn = s.conn /\ r.n = s.n => r = s
      BY DEF Recorded
    <2> HIDE DEF Records
    <2>2. f \in [Records -> T]
      OBVIOUS
    <2>3. IsInjective(f)
      BY <2>1 DEF IsInjective
    <2>4. \A t \in T : \E r \in Records : f[r] = t
      OBVIOUS
    <2> QED BY <2>2, <2>3, <2>4 DEF Bijection, Injection, Surjection
  <1>4. Cardinality(T) = Cardinality(Records)
    BY <1>2, <1>3, FS_Bijection DEF ExistsBijection
  <1> QED BY <1>2, <1>4

=============================================================================
