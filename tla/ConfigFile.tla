----------------------------- MODULE ConfigFile -----------------------------
(***************************************************************************)
(* The config file: what it loads as (bw-agent/src/config.rs), and the     *)
(* commands of src-tauri/src/commands.rs that write it.  Each loads the    *)
(* file, changes one field and writes all of it back, without a lock;      *)
(* save_config writes what the settings page loaded when it was opened.    *)
(* fs::write empties the file before it fills it, and the process may stop *)
(* in between.                                                             *)
(*                                                                         *)
(* Of the fields, those the program itself changes: the lock mode, the     *)
(* field lock_timeout of an older version, the remember token and the      *)
(* device id.  Timeout { 900 } is "default", any other Timeout "timeout".  *)
(* The email and the server are in Accounts.tla, what the running program  *)
(* does with the mode in LockMode.tla.                                     *)
(***************************************************************************)
EXTENDS Naturals

CONSTANTS Modes,     \* the modes the user chooses from, and the default
          Writers,   \* commands that may write the file at one time
          EnvMode    \* the mode BW_CACHE_TTL stands for, or "unset"

LockModes == {"default", "timeout", "idle", "sleep", "lock", "restart", "never"}

ASSUME ConfigConstants ==
    /\ Modes \subseteq LockModes
    /\ {"default", "timeout", "never"} \subseteq Modes
    /\ EnvMode \in {"default", "timeout", "unset"}

VARIABLES file,     \* the fields on disk
          torn,     \* it does not parse: emptied and not yet filled, or garbled
          job,      \* what each command does, and where it stands
          buf,      \* the config it has in memory
          page,     \* the config the settings page holds
          mode,     \* the mode the process started with, or "none"
          allowed,  \* the modes a start may find (history)
          revoked   \* the token was revoked, and none saved since (history)

vars == <<file, torn, job, buf, page, mode, allowed, revoked>>

Legacy   == {"absent", "zero", "some"}
Config   == [mode : Modes, legacy : Legacy, token : BOOLEAN, device : BOOLEAN]
Defaults == [mode |-> "default", legacy |-> "absent", token |-> FALSE, device |-> FALSE]
Resting  == [what |-> "none", at |-> "idle"]
Running  == mode # "none"

----------------------------------------------------------------------------
(* Config::load and apply_env_overrides.                                   *)

\* Mutant: the old seconds are taken for the mode.
MigratedRaw(f) == IF f.mode = "default" /\ f.legacy # "absent" THEN f.legacy ELSE f.mode

\* lock_timeout counts only where lock_mode is at its default.
Migrated(f) ==
    CASE f.mode # "default" \/ f.legacy = "absent" -> f.mode
      [] f.mode = "default" /\ f.legacy = "zero" -> "never"
      [] f.mode = "default" /\ f.legacy = "some" -> "timeout"

\* Mutant: the field of the older version is dropped unread.
LoadDropsLegacy(f) == [f EXCEPT !.legacy = "absent"]

\* lock_timeout is never written again.  A file that does not parse loads as the
\* defaults: that is what an emptied or garbled file holds here.
Load(f) == [f EXCEPT !.mode = Migrated(f), !.legacy = "absent"]

ApplyEnvOverrides(m) == IF EnvMode = "unset" THEN m ELSE EnvMode

----------------------------------------------------------------------------
\* A file of this version or of the older one; the process is not up yet.
Init ==
    /\ file \in Config
    /\ file.legacy # "absent" => file.mode = "default" /\ ~file.token /\ ~file.device
    /\ torn = FALSE
    /\ job = [w \in Writers |-> Resting]
    /\ buf = [w \in Writers |-> Defaults]
    /\ page = Defaults
    /\ mode = "none"
    /\ allowed = {CASE file.legacy = "zero" -> "never"
                    [] file.legacy = "some" -> "timeout"
                    [] file.legacy = "absent" -> file.mode}
    /\ revoked = FALSE

\* main: State::new gets the TTL of the mode loaded.
Start ==
    /\ ~Running
    /\ mode' = ApplyEnvOverrides(Load(file).mode)
    /\ UNCHANGED <<file, torn, job, buf, page, allowed, revoked>>

\* Quit in the tray, or a crash: what was in memory is gone, and a write begun
\* stays half done.
Stop ==
    /\ Running
    /\ mode' = "none"
    /\ job' = [w \in Writers |-> Resting]
    /\ buf' = [w \in Writers |-> Defaults]
    /\ page' = Defaults
    /\ allowed' = IF torn THEN {"default"} ELSE allowed
    /\ UNCHANGED <<file, torn, revoked>>

----------------------------------------------------------------------------
Reach(w, x) == job' = [job EXCEPT ![w].at = x]
Begin(w, k, x) == Running /\ job[w] = Resting /\ job' = [job EXCEPT ![w] = [what |-> k, at |-> x]]

\* A login saves the remember token or the device id, or forgets a token the
\* server refused; the user revokes the token.
BeginChange(w) ==
    /\ \/ \E k \in {"remember", "forget", "device"} : Begin(w, k, "load")
       \/ Begin(w, "revoke", "look")
    /\ UNCHANGED <<file, torn, buf, page, mode, allowed, revoked>>

\* revoke_two_factor_remember looks for a token before it clears it.
LookForToken(w) ==
    /\ job[w].at = "look"
    /\ IF Load(file).token THEN Reach(w, "load") ELSE job' = [job EXCEPT ![w] = Resting]
    /\ UNCHANGED <<file, torn, buf, page, mode, allowed, revoked>>

Change(k, c) ==
    CASE k = "remember" -> [c EXCEPT !.token = TRUE]
      [] k \in {"forget", "revoke"} -> [c EXCEPT !.token = FALSE]
      [] k = "device" -> [c EXCEPT !.device = TRUE]

\* By the time it is written the file may have changed; and one that another
\* command has just emptied loads as the defaults.
LoadFile(w) ==
    /\ job[w].at = "load"
    /\ buf' = [buf EXCEPT ![w] = Change(job[w].what, Load(file))]
    /\ Reach(w, "write")
    /\ allowed' = IF torn THEN allowed \cup {"default"} ELSE allowed
    /\ UNCHANGED <<file, torn, page, mode, revoked>>

\* The settings page is opened: get_config.
GetConfig ==
    /\ Running
    /\ page' = Load(file)
    /\ UNCHANGED <<file, torn, job, buf, mode, allowed, revoked>>

\* The page's copy, with the mode the user chose in it.
SaveConfig(w) ==
    /\ Begin(w, "save", "write")
    /\ \E m \in Modes :
         /\ page' = [page EXCEPT !.mode = m]
         /\ buf' = [buf EXCEPT ![w] = [page EXCEPT !.mode = m]]
    /\ UNCHANGED <<file, torn, mode, allowed, revoked>>

Truncate(w) ==
    /\ job[w].at = "write"
    /\ torn' = TRUE /\ file' = Defaults
    /\ Reach(w, "fill")
    /\ UNCHANGED <<buf, page, mode, allowed, revoked>>

\* The modes other commands have read and not yet written.
Unwritten(w) ==
    {buf[v].mode : v \in {v \in Writers \ {w} : job[v].at \in {"write", "fill", "over"}}}

\* Who has emptied the file before this writes over what is written here.
Filled(w) ==
    job' = [v \in Writers |-> IF v = w THEN Resting
                              ELSE IF job[v].at = "fill" THEN [job[v] EXCEPT !.at = "over"]
                              ELSE job[v]]

\* Written over a longer text, the file keeps its end and does not parse.
Fill(w) ==
    /\ job[w].at \in {"fill", "over"}
    /\ torn' \in IF job[w].at = "over" THEN BOOLEAN ELSE {FALSE}
    /\ file' = IF torn' THEN Defaults ELSE buf[w]
    /\ Filled(w)
    /\ buf' = [buf EXCEPT ![w] = Defaults]
    /\ allowed' = (IF job[w].what = "save" THEN {buf[w].mode} \cup Unwritten(w) ELSE allowed)
                   \cup (IF torn' THEN {"default"} ELSE {})
    /\ revoked' = CASE job[w].what = "revoke" -> TRUE
                    [] job[w].what = "remember" -> FALSE
                    [] OTHER -> revoked
    /\ UNCHANGED <<page, mode>>

Next ==
    \/ Start \/ Stop \/ GetConfig
    \/ \E w \in Writers :
         \/ BeginChange(w) \/ SaveConfig(w)
         \/ LookForToken(w) \/ LoadFile(w) \/ Truncate(w) \/ Fill(w)

Spec == Init /\ [][Next]_vars
----------------------------------------------------------------------------
(* Properties                                                              *)

TypeOK ==
    /\ file \in Config /\ torn \in BOOLEAN
    /\ job \in [Writers -> [what : {"none", "remember", "forget", "device", "revoke", "save"},
                            at : {"idle", "look", "load", "write", "fill", "over"}]]
    /\ buf \in [Writers -> Config]
    /\ page \in Config
    /\ mode \in Modes \cup {"none"}
    /\ allowed \subseteq Modes
    /\ revoked \in BOOLEAN

\* A start finds the mode last saved, whatever logins have written to the file
\* since and whichever version wrote it first; or, if writes overlapped, the mode
\* of one of them; and the defaults only after a write was cut off or read half done.
StartKeepsMode ==
    [][~Running /\ mode' # "none" => mode' \in allowed \cup {EnvMode}]_vars

\* "2FA verification is skipped for 30 days. Revoke to require it every time."
RevokedStaysRevoked == revoked /\ ~torn => ~file.token
=============================================================================
