------------------------------ MODULE Routing ------------------------------
(***************************************************************************)
(* Which items a connection may use: routing.rs of bw-agent, with          *)
(* extract_patterns of ssh_agent.rs.  An item has a type, an organization  *)
(* and a key of its own (or None), its encrypted name and keys, and rules: *)
(* its custom fields.  A pattern stands for the URLs it matches.           *)
(***************************************************************************)
EXTENDS Ciphers

\* Decrypted fields of the name gh-match; one that does not decrypt is no rule.
Patterns(ring, item) ==
    {f \in item.rules : /\ Readable(ring, f.name, item.own, item.org)
                        /\ Plain(f.name) = "gh-match"
                        /\ Readable(ring, f.value, item.own, item.org)}

\* matches_any_pattern: a pattern that is not a glob matches nothing.
MatchesAny(url, patterns) ==
    \E f \in patterns : Plain(f.value).valid /\ url \in Plain(f.value).urls

\* route_entries, as a set of items: their order is that of the answer only.
\* url is <<>> if there is none.
RouteEntries(items, url, ring) ==
    LET matched == {i \in items : MatchesAny(url, Patterns(ring, i))}
        generic == {i \in items : Patterns(ring, i) = {}}
    IN  IF url = <<>> THEN items
        ELSE IF matched # {} THEN matched \cup generic
        ELSE IF generic # {} THEN generic
        ELSE items
=============================================================================
