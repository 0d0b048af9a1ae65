------------------------------- MODULE Agent -------------------------------
(***************************************************************************)
(* The SSH agent, from a request on a connection to its answer:            *)
(* SshAgentHandler of ssh_agent.rs, with the process walk (Processes), the *)
(* repository (GitContext), the routing (Routing) and the access log.      *)
(*                                                                         *)
(* What other modules model in full is here what they promise: a login     *)
(* succeeds, fails or never ends (Accounts), a decision comes (Approval),  *)
(* a session trusts an executable with a key (SessionStore), the vault is  *)
(* locked and opened behind the agent's back (Vault).  One step is what    *)
(* happens between two awaits or two queries of the operating system.      *)
(*                                                                         *)
(* A world is a machine and a vault to start from: the process table and   *)
(* what may still happen to it, the pid behind each connection (0 where    *)
(* the platform does not tell), the disk, the vault's keys and one or two  *)
(* versions of its items, of which a sync may bring the second, and a      *)
(* bounds: the requests of each connection, the keys that clients ask for, *)
(* and the locks of the vault.                                             *)
(***************************************************************************)
EXTENDS Processes, GitContext, Routing, Client, Functions, FiniteSets

CONSTANTS Conns,        \* connections
          Keys,         \* public keys a client may ask for
          Algorithm,    \* the algorithm of each
          Flags,        \* flags a client may sign with (SSH_AGENT_RSA_*)
          Worlds        \* the worlds, by name

\* A world has a vault that was synced at least once.
ASSUME WorldAssumption ==
    /\ Keys # {}
    /\ \A w \in DOMAIN Worlds :
         /\ Worlds[w].items \in Seq(Range(Worlds[w].items)) \ {<<>>}
         /\ \A v \in DOMAIN Worlds[w].items : Worlds[w].items[v] \in Seq(Range(Worlds[w].items[v]))
         /\ Worlds[w].requests \in [Conns -> Nat]
         /\ Worlds[w].asks \subseteq Keys /\ Worlds[w].locks \in Nat

VARIABLES
    world,     \* the name of the world
    os,        \* the process table now
    vault,     \* ring: the keys held (<<>> if locked); version: of the items, 0 for none
    locks,     \* how often the vault was locked
    conn,      \* the handler of each connection
    trusted,   \* <<key, exe>> that a session approves
    writing,   \* records on their way to the access log
    log,       \* the table access_log
    lost       \* records that the database refused

vars == <<world, os, vault, locks, conn, trusted, writing, log, lost>>

W == Worlds[world]
\* What a sync makes of the items of each version, each in its place
EntriesOf == [w \in DOMAIN Worlds |->
                 [v \in DOMAIN Worlds[w].items |-> RestrictValues(Worlds[w].items[v], BecomesEntry)]]
Entries(v) == EntriesOf[world][v]
\* state.entries
Items == IF vault.version = 0 THEN <<>> ELSE Entries(vault.version)
Unlocked == vault.ring # <<>>

----------------------------------------------------------------------------
NoWalk == [chain |-> <<>>, parent |-> 0, done |-> FALSE]
Answer(kind, keys, alg) == [kind |-> kind, keys |-> keys, alg |-> alg]
NoAnswer == Answer("none", {}, "")

\* get_client_pid, asked once when the connection is made.
ClientPid(c) == W.pid[c]

Points == {"idle", "ensure", "login", "start", "walk", "context", "offer", "look", "check", "ask", "sign"}

\* with_client_pid.  allowed is <<>> until a listing routed, and then <<the ids>>;
\* listed is what the last listing offered, or <<>> if there was none or it failed.
NewSession ==
    [at |-> "idle", op |-> "list", key |-> CHOOSE k \in Keys : TRUE, flags |-> 0, n |-> 0,
     walk |-> NoWalk, url |-> NoUrl, id |-> "unknown", name |-> "unknown",
     allowed |-> <<>>, listed |-> <<>>, answer |-> NoAnswer]

Init ==
    /\ world \in DOMAIN Worlds
    /\ os = W.os
    /\ vault \in {[ring |-> <<>>, version |-> 0], [ring |-> W.ring, version |-> 1]}
    /\ locks = 0
    /\ conn = [c \in Conns |-> NewSession]
    /\ trusted = {}
    /\ writing = {} /\ log = <<>> /\ lost = {}

Set(c, r) == conn' = [conn EXCEPT ![c] = r]
At(c, point) == conn[c].at = point
Reply(c, a) == [conn[c] EXCEPT !.at = "idle", !.answer = a, !.flags = 0,
                                   !.walk = NoWalk, !.url = NoUrl, !.name = "unknown"]

----------------------------------------------------------------------------
(* Requests: request_identities and sign up to the end of ensure_unlocked. *)

List(c) ==
    /\ At(c, "idle") /\ conn[c].n < W.requests[c]
    /\ Set(c, [conn[c] EXCEPT !.at = "ensure", !.op = "list", !.n = @ + 1])
    /\ UNCHANGED <<world, os, vault, locks, trusted, writing, log, lost>>

Sign(c, k, f) ==
    /\ At(c, "idle") /\ conn[c].n < W.requests[c]
    /\ Set(c, [conn[c] EXCEPT !.at = "ensure", !.op = "sign", !.key = k, !.flags = f, !.n = @ + 1])
    /\ UNCHANGED <<world, os, vault, locks, trusted, writing, log, lost>>

\* Where a request goes on with the vault unlocked
Unlocks(c) == [conn[c] EXCEPT !.at = IF conn[c].op = "list" THEN "start" ELSE "look"]

\* The vault is found unlocked, or the call begins to ask for a password.
Ensure(c) ==
    /\ At(c, "ensure")
    /\ Set(c, IF Unlocked THEN Unlocks(c) ELSE [conn[c] EXCEPT !.at = "login"])
    /\ UNCHANGED <<world, os, vault, locks, trusted, writing, log, lost>>

\* The prompts and try_login: the vault becomes unlocked with a sync, whatever it
\* was meanwhile, or the request fails.
Login(c) ==
    /\ At(c, "login")
    /\ \/ /\ Set(c, Unlocks(c))
          /\ \E v \in DOMAIN W.items : v >= vault.version /\ vault' = [ring |-> W.ring, version |-> v]
       \/ /\ UNCHANGED vault
          /\ Set(c, [Reply(c, Answer("error", {}, "")) EXCEPT
                        !.listed = IF conn[c].op = "list" THEN <<>> ELSE @])
    /\ UNCHANGED <<world, os, locks, trusted, writing, log, lost>>

----------------------------------------------------------------------------
(* The process walk of both.                                               *)

Walk(c) ==
    LET w == conn[c].walk
        next == IF w.parent = 0 THEN WalkToParent(os, w) ELSE WalkQueries(os, w)
        then == IF conn[c].op = "list" THEN "context" ELSE "check"
    IN  /\ \/ At(c, "start") /\ Set(c, [conn[c] EXCEPT !.at = "walk", !.walk = StartWalk(os, ClientPid(c))])
           \/ At(c, "walk") /\ ~w.done /\ Set(c, [conn[c] EXCEPT !.walk = next])
           \/ At(c, "walk") /\ w.done /\ Set(c, [conn[c] EXCEPT !.at = then])
        /\ UNCHANGED <<world, os, vault, locks, trusted, writing, log, lost>>

----------------------------------------------------------------------------
(* request_identities                                                      *)

ReadContext(c) ==
    /\ At(c, "context")
    /\ Set(c, [conn[c] EXCEPT !.at = "offer", !.url = ExtractRemoteUrl(W.disk, ProcessChain(conn[c].walk))])
    /\ UNCHANGED <<world, os, vault, locks, trusted, writing, log, lost>>

HasPublicKey(i) == EntryType(i.types) = "ssh" /\ i.pub # Malformed
PublicKeyOpens(ring, i) == Readable(ring, i.pub, i.own, i.org) /\ Plain(i.pub) \in Keys

Routed(c) == RouteEntries(Range(Items), conn[c].url, vault.ring)

\* One key that does not decrypt or parse fails the listing, after allowed is set.
Listing(c, routed) ==
    LET shown == {i \in routed : HasPublicKey(i)}
        opens == \A i \in shown : PublicKeyOpens(vault.ring, i)
        keys == IF opens THEN {Plain(i.pub) : i \in shown} ELSE {}
    IN  [Reply(c, Answer(IF opens THEN "identities" ELSE "error", keys, "")) EXCEPT
            !.allowed = <<{i.id : i \in routed}>>,
            !.listed = IF opens THEN <<keys>> ELSE <<>>]

\* Mutant: waits for the vault to be unlocked again
OfferWhenUnlocked(c) ==
    /\ At(c, "offer") /\ Unlocked
    /\ \E routed \in {Routed(c)} : Set(c, Listing(c, routed))
    /\ UNCHANGED <<world, os, vault, locks, trusted, writing, log, lost>>

\* Mutant: what the first listing allowed is allowed for the session
OfferOnce(c) ==
    /\ At(c, "offer")
    /\ \E routed \in {Routed(c)} :
           Set(c, [Listing(c, routed) EXCEPT !.allowed = IF conn[c].allowed = <<>> THEN @ ELSE conn[c].allowed])
    /\ UNCHANGED <<world, os, vault, locks, trusted, writing, log, lost>>

\* The snapshot under the mutex, and the answer from it
Offer(c) ==
    /\ At(c, "offer")
    /\ \E routed \in {Routed(c)} : Set(c, Listing(c, routed))
    /\ UNCHANGED <<world, os, vault, locks, trusted, writing, log, lost>>

----------------------------------------------------------------------------
(* sign: the item, the routing, the decision                               *)

\* The first of the items in these places, if there is one
First(items, places) == {items[j] : j \in {l \in places : \A m \in places : l <= m}}

\* find_entry_for_pubkey: the first item with this key, if any decrypts to it.
FindEntry(ring, items, k) ==
    LET same == {j \in DOMAIN items : /\ HasPublicKey(items[j]) /\ PublicKeyOpens(ring, items[j])
                                      /\ Plain(items[j].pub) = k}
        found == {[id |-> i.id, name |-> IF Readable(ring, i.name, i.own, i.org) THEN Plain(i.name)
                                                                                 ELSE "ciphertext"] :
                      i \in First(items, same)}
    IN  IF found = {} THEN [id |-> "unknown", name |-> "unknown"] ELSE CHOOSE e \in found : TRUE

\* Mutant: no enforcement
LookAtAny(c) ==
    /\ At(c, "look")
    /\ \E e \in {FindEntry(vault.ring, Items, conn[c].key)} :
           Set(c, [conn[c] EXCEPT !.at = "start", !.id = e.id, !.name = e.name])
    /\ UNCHANGED <<world, os, vault, locks, trusted, writing, log, lost>>

Look(c) ==
    /\ At(c, "look")
    /\ \E e \in {FindEntry(vault.ring, Items, conn[c].key)} :
           IF conn[c].allowed # <<>> /\ e.id # "unknown" /\ e.id \notin conn[c].allowed[1]
             THEN Set(c, [Reply(c, Answer("rejected", {}, "")) EXCEPT !.id = e.id])
             ELSE Set(c, [conn[c] EXCEPT !.at = "start", !.id = e.id, !.name = e.name])
    /\ UNCHANGED <<world, os, vault, locks, trusted, writing, log, lost>>

\* The record of a decision; who decided it is there for the properties.
Record(c, ok, auto) ==
    [conn |-> c, n |-> conn[c].n, key |-> conn[c].key, name |-> conn[c].name,
     exe |-> Initiator(conn[c].walk), pid |-> ClientPid(c), approved |-> ok, auto |-> auto]

\* Mutant: the refusal comes before the record
DecidedThenRecorded(c, ok, auto) ==
    /\ writing' = writing \cup (IF ok THEN {Record(c, ok, auto)} ELSE {})
    /\ Set(c, IF ok THEN [conn[c] EXCEPT !.at = "sign"] ELSE Reply(c, Answer("denied", {}, "")))

\* spawn_blocking, and then an error for a refusal
Decided(c, ok, auto) ==
    /\ writing' = writing \cup {Record(c, ok, auto)}
    /\ Set(c, IF ok THEN [conn[c] EXCEPT !.at = "sign"] ELSE Reply(c, Answer("denied", {}, "")))

CheckSession(c) ==
    /\ At(c, "check")
    /\ IF <<conn[c].key, Initiator(conn[c].walk)>> \in trusted
         THEN Decided(c, TRUE, TRUE)
         ELSE Set(c, [conn[c] EXCEPT !.at = "ask"]) /\ UNCHANGED writing
    /\ UNCHANGED <<world, os, vault, locks, trusted, log, lost>>

\* The user answers, with or without a session, or the request times out.
Decide(c, ok, always) ==
    /\ At(c, "ask")
    /\ Decided(c, ok, FALSE)
    /\ trusted' = IF ok /\ always THEN trusted \cup {<<conn[c].key, Initiator(conn[c].walk)>>}
                                  ELSE trusted
    /\ UNCHANGED <<world, os, vault, locks, log, lost>>

----------------------------------------------------------------------------
(* sign: the signature                                                     *)

NotSupported == ""

\* The algorithm of the signature of a key
SignatureAlgorithm(alg, flags) ==
    CASE alg = "rsa" -> IF flags \in {4, 6} THEN "rsa-sha2-512"
                        ELSE IF flags = 2 THEN "rsa-sha2-256" ELSE "ssh-rsa"
      [] alg = "ed25519" -> "ssh-ed25519"
      [] OTHER -> NotSupported

\* The item that signs: the first with this key, if the public keys of those before
\* it and its own keys open, and its algorithm is supported; else none.
Signer(ring, items, k, flags) ==
    LET seen == {j \in DOMAIN items : /\ HasPublicKey(items[j]) /\ items[j].priv # Malformed
                                      /\ ~PublicKeyOpens(ring, items[j]) \/ Plain(items[j].pub) = k}
    IN  {i \in First(items, seen) :
            /\ PublicKeyOpens(ring, i)
            /\ Readable(ring, i.priv, i.own, i.org) /\ Plain(i.priv) \in Keys
            /\ SignatureAlgorithm(Algorithm[Plain(i.priv)], flags) # NotSupported}

Signature(ring, items, k, flags) ==
    LET answers == {Answer("signature", {Plain(i.priv)},
                           SignatureAlgorithm(Algorithm[Plain(i.priv)], flags)) :
                        i \in Signer(ring, items, k, flags)}
    IN  IF answers = {} THEN Answer("error", {}, "") ELSE CHOOSE a \in answers : TRUE

SignData(c) ==
    /\ At(c, "sign")
    /\ Set(c, Reply(c, Signature(vault.ring, Items, conn[c].key, conn[c].flags)))
    /\ UNCHANGED <<world, os, vault, locks, trusted, writing, log, lost>>

----------------------------------------------------------------------------
(* The access log: record on a blocking thread, query of get_access_logs.  *)

Write(r) ==
    /\ r \in writing
    /\ writing' = writing \ {r}
    /\ \/ log' = Append(log, r) /\ UNCHANGED lost
       \/ lost' = lost \cup {r} /\ UNCHANGED log
    /\ UNCHANGED <<world, os, vault, locks, conn, trusted>>

\* The newest first, so many of them.
Query(limit) == SubSeq(Reverse(log), 1, IF limit < Len(log) THEN limit ELSE Len(log))

----------------------------------------------------------------------------
(* What happens meanwhile.                                                 *)

\* A lock keeps the items; most kinds of it end the sessions.
Lock ==
    /\ Unlocked /\ locks < W.locks
    /\ locks' = locks + 1
    /\ vault' = [vault EXCEPT !.ring = <<>>]
    /\ trusted' \in {trusted, {}}
    /\ UNCHANGED <<world, os, conn, writing, log, lost>>

\* unlock of the page, and the sync of its login.
Unlock ==
    /\ ~Unlocked
    /\ \E v \in DOMAIN W.items : v >= vault.version /\ vault' = [ring |-> W.ring, version |-> v]
    /\ UNCHANGED <<world, os, locks, conn, trusted, writing, log, lost>>

\* A sync brings the other version of the items.
Sync ==
    /\ Unlocked /\ vault.version = 1 /\ Len(W.items) = 2
    /\ vault' = [vault EXCEPT !.version = 2]
    /\ UNCHANGED <<world, os, locks, conn, trusted, writing, log, lost>>

\* A process of the world ends, or its pid is taken by another one.
Churn ==
    /\ os = W.os
    /\ os' \in W.churn
    /\ UNCHANGED <<world, vault, locks, conn, trusted, writing, log, lost>>

\* What the agent does for a request without waiting for a login
Proceed(c) ==
    \/ Ensure(c) \/ Walk(c) \/ ReadContext(c) \/ Offer(c) \/ Look(c) \/ CheckSession(c) \/ SignData(c)
    \/ \E ok, always \in BOOLEAN : Decide(c, ok, always)

Serve(c) == Login(c) \/ Proceed(c)

Environment == Lock \/ Unlock \/ Sync \/ Churn

----------------------------------------------------------------------------
(* What other clients of the vault are expected to keep to, in all the     *)
(* versions of its items; the agent does not see to it.                    *)

AllEntries == UNION {Range(Entries(v)) : v \in DOMAIN W.items}
WithPublicKey == {i \in AllEntries : HasPublicKey(i)}

\* An item that holds a key held the same key before.
ItemsKeepTheirKey ==
    \A i \in AllEntries, j \in WithPublicKey :
        i.id = j.id => HasPublicKey(i) /\ Plain(i.pub) = Plain(j.pub)

\* No two items hold the same key.
OneItemPerKey == \A i, j \in WithPublicKey : Plain(i.pub) = Plain(j.pub) => i.id = j.id

\* The private key of an item is that of its public key.
KeysArePairs == \A i \in WithPublicKey : i.priv # Malformed => Plain(i.priv) = Plain(i.pub)
=============================================================================
