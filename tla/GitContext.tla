----------------------------- MODULE GitContext -----------------------------
(***************************************************************************)
(* The repository a request is about: git_context.rs of bw-agent.          *)
(*                                                                         *)
(* disk is what the file system holds: its directories with what ".git" is *)
(* in each, and the git directories with their config, HEAD and, for a     *)
(* linked worktree, the common directory.  "" stands for what is not       *)
(* there.  A URL is cut into its parts and not spelled out.                *)
(***************************************************************************)
EXTENDS Naturals, Sequences, SequencesExt, Processes

NoUrl == <<>>

\* normalize_remote_url.  A raw URL has a scheme ("uri": one with "://", "scp":
\* host:path, "path": neither), a host and whether it looks like one, a port, the
\* segments of its path, whether the path starts with '/', and how it ends.  When
\* its first '@' is in the path, inPath holds what follows the '@', as a URL.
HostPart(raw) ==
    IF raw.scheme = "uri" THEN <<raw.host, raw.port>>
    ELSE IF raw.scheme = "scp" /\ raw.rooted THEN <<raw.host, ":">> ELSE <<raw.host, "">>

\* Of one ".git" and the slashes at the end, only ".git" before a slash stays.
Ending(raw) == IF raw.tail = ".git/" THEN ".git" ELSE ""

\* What is before the first '@' is dropped, a user or, unintended, host and path.
NormalizeRemoteUrl(raw) ==
    LET url == IF raw.inPath = <<>> THEN raw ELSE Head(raw.inPath)
    IN  IF Len(url.path) < 2 \/ ~url.hostlike THEN NoUrl
        ELSE HostPart(url) \o url.path \o <<Ending(url)>>

----------------------------------------------------------------------------
\* find_git_cwd: of the first process, from the top, that is git and whose
\* directory could be read.
GitCwd(chain) ==
    LET here == SelectSeq(chain, LAMBDA info : info.exe[1] \in Gits /\ info.cwd \notin {"", "unknown"})
    IN  IF here = <<>> THEN "" ELSE Head(here).cwd

Levels == 10

\* The directory of the config that dir's ".git", or dir itself, leads to.
ConfigDirOf(disk, dir) ==
    LET to == disk.dirs[dir].gitdir
    IN  IF to = "" THEN ""
        ELSE IF disk.gits[to].config # <<>> THEN to
        ELSE IF disk.dirs[dir].git = "file" /\ disk.gits[to].common # ""
                  /\ disk.gits[disk.gits[to].common].config # <<>>
               THEN disk.gits[to].common
        ELSE ""

\* find_git_config: of dir or the nearest directory above it, so many levels up.
FindGitConfig(disk, dir) ==
    LET above[at \in (0..Levels) \X DOMAIN disk.dirs] ==
            IF at[1] = 0 THEN ""
            ELSE LET here == ConfigDirOf(disk, at[2])
                 IN  IF here # "" THEN here ELSE above[<<at[1] - 1, disk.dirs[at[2]].parent>>]
    IN  above[<<Levels, dir>>]

----------------------------------------------------------------------------
(* A config is a one-element sequence (or none) of remotes, the sections   *)
(* in their order, and branches, to the remote each tracks.                *)

\* extract_remote_url_from_config
RemoteUrl(config, name) ==
    LET urls == SelectSeq(config.remotes, LAMBDA r : r.name = name /\ r.url # NoUrl)
    IN  IF urls = <<>> THEN NoUrl ELSE Head(urls).url

\* read_current_branch: of the HEAD beside the config; "" if it is detached.
CurrentBranch(disk, gitdir) == disk.gits[gitdir].branch

\* Mutant: origin whenever there is one
OriginFirst(config, branch) == IF RemoteUrl(config, "origin") # NoUrl THEN "origin" ELSE ""

\* resolve_remote_name
RemoteName(config, branch) ==
    IF branch \in DOMAIN config.branches THEN config.branches[branch]
    ELSE IF RemoteUrl(config, "origin") # NoUrl THEN "origin"
    ELSE IF Len(config.remotes) = 1 THEN config.remotes[1].name
    ELSE ""

\* extract_remote_url
ExtractRemoteUrl(disk, chain) ==
    LET cwd == GitCwd(chain)
        gitdir == IF cwd = "" THEN "" ELSE FindGitConfig(disk, cwd)
        config == disk.gits[gitdir].config[1]
        raw == RemoteUrl(config, RemoteName(config, CurrentBranch(disk, gitdir)))
    IN  IF gitdir = "" \/ raw = NoUrl THEN NoUrl ELSE NormalizeRemoteUrl(raw[1])
=============================================================================
