----------------------------- MODULE MCGitSign ------------------------------
(***************************************************************************)
(* Worlds for TLC.  c is an SSH client, g the connection of git-sign.      *)
(* push:    git push, and a commit being signed, in a clone whose branch   *)
(*          tracks another remote than origin                              *)
(* list:    three requests of a client, while a sync changes the rules     *)
(* churn:   git ends, or its pid is taken by another process               *)
(* unix:    no pid: nothing is known of the processes                      *)
(* cycle:   parents in a circle, as after the reuse of a pid               *)
(* module:  in a submodule, over a URL with a scheme; an item was deleted  *)
(* broken:  a key that does not decrypt, and one without a private key     *)
(* logins:  keys for other repositories only, and a login                  *)
(***************************************************************************)
EXTENDS GitSign, TLC

KeyAlgorithm == [k \in Keys |-> CASE k = "rsa1" -> "rsa" [] k = "ed1" -> "ed25519" [] OTHER -> "ecdsa"]

Process(image, parent, cwd) == [image |-> image, parent |-> parent, cwd |-> cwd, readable |-> TRUE]
\* 1 is an IDE, that runs git 6 and, through it, git-sign 7; app 2 runs, through
\* the shell 3, git 4 with its ssh 5
Machine(dir) ==
    <<Process("ide", 0, "/"), Process("app", 1, "/"), Process("shell", 2, dir),
      Process("git", 3, dir), Process("ssh", 4, dir), Process("git", 1, dir), Process("gitsign", 6, dir)>>
Circle(dir) ==
    4 :> Process("git", 6, dir) @@ 5 :> Process("ssh", 4, dir)
    @@ 6 :> [Process("node", 4, dir) EXCEPT !.readable = FALSE] @@ 7 :> Process("gitsign", 6, dir)
Without(table, p) == [q \in DOMAIN table \ {p} |-> table[q]]
Reused(table, p) == [table EXCEPT ![p] = Process("app", 1, "/")]

Raw(scheme, host, port, path, tail) ==
    [scheme |-> scheme, inPath |-> <<>>, host |-> host, hostlike |-> TRUE, port |-> port,
     path |-> path, rooted |-> FALSE, tail |-> tail]
Url(host, path) == <<host, "">> \o path \o <<"">>
Work == Url("forge", <<"work", "code">>)
Home == Url("forge", <<"home", "code">>)
Fork == Url("forge", <<"fork", "code">>)

Remote(name, raw) == [name |-> name, url |-> raw]
Clone == [remotes |-> <<Remote("origin", <<Raw("scp", "forge", "", <<"home", "code">>, ".git")>>),
                        Remote("work", <<>>),
                        Remote("work", <<Raw("scp", "forge", "", <<"work", "code">>, ".git")>>)>>,
          branches |-> [main |-> "work"]]
\* A mirror that names what it mirrors in its path.
Mirror == [Raw("uri", "mirror", "", <<"of", "code">>, "/") EXCEPT
              !.inPath = <<Raw("uri", "forge", "", <<"fork", "code">>, "/")>>]
Module == [remotes |-> <<Remote("fork", <<Mirror>>)>>,
           branches |-> [b \in {} |-> ""]]

\* /repo is a clone; /repo/lib is a submodule of it
Disk ==
    [dirs |-> "/" :> [parent |-> "/", git |-> "none", gitdir |-> ""]
           @@ "/repo" :> [parent |-> "/", git |-> "dir", gitdir |-> "clone"]
           @@ "/repo/src" :> [parent |-> "/repo", git |-> "none", gitdir |-> ""]
           @@ "/repo/lib" :> [parent |-> "/repo", git |-> "file", gitdir |-> "module"],
     gits |-> [clone |-> [config |-> <<Clone>>, common |-> "", branch |-> "main"],
               module |-> [config |-> <<Module>>, common |-> "", branch |-> ""]]]

Ring == [user |-> "userkey", org |-> "orgkey"]

Rule(k, urls) == [name |-> Sealed(k, "gh-match"), value |-> Sealed(k, [valid |-> TRUE, urls |-> urls])]
Bad(k) == [name |-> Sealed(k, "gh-match"), value |-> Sealed(k, [valid |-> FALSE, urls |-> {}])]
Other(k) == [name |-> Sealed(k, "note"), value |-> Malformed]
Item(id, k, rules) ==
    [id |-> id, types |-> {"ssh"}, deleted |-> FALSE, org |-> "user", own |-> None, name |-> Sealed("userkey", id),
     pub |-> Sealed("userkey", k), priv |-> Sealed("userkey", k), rules |-> rules]
\* of an organization, with a key of its own
OrgItem(id, k, rules) ==
    [id |-> id, types |-> {"ssh"}, deleted |-> FALSE, org |-> "org", own |-> Sealed("orgkey", "itemkey"),
     name |-> Malformed, pub |-> Sealed("itemkey", k), priv |-> Sealed("itemkey", k), rules |-> rules]
LoginItem == [Item("login", "none", {}) EXCEPT !.types = {"login"}]

ForHome == Item("home", "ed1", {Other("userkey"), Rule("userkey", {Home})})
ForWork == OrgItem("work", "rsa1", {Rule("itemkey", {Work, Fork})})
Generic == Item("any", "ec1", {})
ForHomeAndWork == [ForHome EXCEPT !.rules = {Bad("userkey"), Rule("userkey", {Home, Work})}]
NoPrivate == [ForWork EXCEPT !.priv = Malformed]
Deleted == [Generic EXCEPT !.deleted = TRUE]
Lost == [Generic EXCEPT !.pub = Sealed("lost", "ec1")]

World(machine, churn, c, g, repo, items, rl, rc, rg, asks) ==
    [os |-> machine, churn |-> churn, pid |-> [x \in Conns |-> IF x = "c" THEN c ELSE g],
     disk |-> Disk, ring |-> Ring, items |-> items,
     repo |-> [x \in Conns |-> repo], locks |-> rl, asks |-> asks,
     requests |-> [x \in Conns |-> IF x = "c" THEN rc ELSE rg]]

Here == Machine("/repo/src")
Gone == {Without(Here, 4), Reused(Here, 4)}
Mixed == <<<<ForHome, ForWork>>>>
AllWorlds ==
    [push |-> World(Here, {}, 5, 7, Work, <<<<ForHome, LoginItem, ForWork>>>>, 1, 1, 2, {"rsa1"}),
     list |-> World(Here, {}, 5, 7, Work, <<<<ForHome, ForWork>>, <<ForHomeAndWork, ForWork>>>>, 0, 3, 0, {"ed1"}),
     churn |-> World(Here, Gone, 5, 7, Work, Mixed, 0, 2, 0, {"ed1"}),
     unix |-> World(Here, {}, 0, 0, NoUrl, Mixed, 0, 1, 2, {"ed1"}),
     cycle |-> World(Circle("/repo/src"), {}, 5, 7, Work, <<<<ForHome, Generic>>>>, 1, 2, 0, {"ed1"}),
     module |-> World(Machine("/repo/lib"), {}, 5, 7, Fork, <<<<Deleted, ForHome, Generic, ForWork>>>>, 1, 2, 0, {"ed1", "rsa1"}),
     broken |-> World(Here, {}, 5, 7, Work, <<<<NoPrivate, Lost, ForHome>>>>, 1, 2, 0, {"rsa1", "ec1"})]
LoginWorld == [logins |-> World(Here, {}, 5, 7, Work, <<<<ForHome, LoginItem>>>>, 1, 2, 0, Keys)]

Signers == {<<>>,
            <<[principals |-> {"ann", "team"}, key |-> "rsa1"], [principals |-> {"ann"}, key |-> "ed1"]>>,
            <<[principals |-> {"ann"}, key |-> "rsa1"], [principals |-> {"bob"}, key |-> ""]>>}
=============================================================================
