-------------------------- MODULE ConfigFileProofs --------------------------
(***************************************************************************)
(* Safety of ConfigFile for every set of modes, any number of commands     *)
(* that write the file at one time, and every BW_CACHE_TTL.                *)
(***************************************************************************)
EXTENDS ConfigFile, TLAPS

Changes == {"remember", "forget", "device", "revoke"}

Writing(w) == job[w].at \in {"write", "fill", "over"}

\* lock_timeout is read from a file of the older version and never kept: only
\* the file may still hold it.
LegacyIsRead ==
    /\ page.legacy = "absent"
    /\ \A w \in Writers : buf[w].legacy = "absent"

\* What the file loads as is a mode a start may find, and so is the mode any
\* command but save_config is about to write back.
ModesAreKnown ==
    /\ torn => file = Defaults
    /\ ~torn => Migrated(file) \in allowed
    /\ ~Running => /\ torn => "default" \in allowed
                   /\ \A w \in Writers : job[w] = Resting
    /\ \A w \in Writers :
          Writing(w) /\ job[w].what # "save" => buf[w].mode \in allowed

\* A command that loads the file changes one field of it.
LoadersChange ==
    \A w \in Writers : job[w].at \in {"look", "load"} => job[w].what \in Changes

IInv == TypeOK /\ LegacyIsRead /\ ModesAreKnown /\ LoadersChange
-----------------------------------------------------------------------------
\* Migration: seconds of an older version become Timeout or Never, and count only
\* where no mode was saved since; the result has no lock_timeout.
LEMMA MigratedMode ==
    ASSUME NEW f \in Config
    PROVE  /\ Migrated(f) \in Modes
           /\ f.legacy = "absent" => Migrated(f) = f.mode
  BY ConfigConstants DEF Migrated, Config, Legacy, LockModes

LEMMA LoadType ==
    ASSUME NEW f \in Config
    PROVE  /\ Load(f) \in Config
           /\ Load(f).legacy = "absent"
           /\ Load(f).mode = Migrated(f)
  BY MigratedMode DEF Load, Config, Legacy

LEMMA DefaultsType == /\ Defaults \in Config /\ Defaults.legacy = "absent"
                      /\ Migrated(Defaults) = "default"
  BY ConfigConstants DEF Defaults, Config, Legacy, Migrated

LEMMA ChangeType ==
    ASSUME NEW c \in Config, NEW k \in Changes
    PROVE  /\ Change(k, c) \in Config
           /\ Change(k, c).mode = c.mode
           /\ Change(k, c).legacy = c.legacy
  BY DEF Change, Changes, Config
-----------------------------------------------------------------------------
LEMMA InitIInv == Init => IInv
  <1> SUFFICES ASSUME Init PROVE IInv
      OBVIOUS
  <1>1. Migrated(file) \in allowed /\ allowed \subseteq Modes
    BY ConfigConstants DEF Init, Migrated, Config, Legacy
  <1>2. TypeOK
    BY <1>1, DefaultsType DEF Init, TypeOK, Resting
  <1>3. LegacyIsRead /\ ModesAreKnown /\ LoadersChange
    BY <1>1, DefaultsType DEF Init, LegacyIsRead, ModesAreKnown, LoadersChange, Running,
                             Writing, Resting
  <1> QED BY <1>2, <1>3 DEF IInv

LEMMA ProcessIInv == IInv /\ (Start \/ Stop \/ GetConfig) => IInv'
  <1> SUFFICES ASSUME IInv, Start \/ Stop \/ GetConfig PROVE IInv'
      OBVIOUS
  <1> USE ConfigConstants DEF IInv, TypeOK, LegacyIsRead, ModesAreKnown, LoadersChange,
          Running, Writing, Resting
  <1>1. CASE Start
    <2>1. Load(file).mode \in Modes
      BY MigratedMode, LoadType
    <2>2. mode' \in Modes /\ mode' # "none"
      BY <1>1, <2>1 DEF Start, ApplyEnvOverrides, LockModes
    <2> QED BY <1>1, <2>1, <2>2 DEF Start
  <1>2. CASE Stop
    <2>1. TypeOK' /\ LegacyIsRead' /\ LoadersChange'
      BY <1>2, DefaultsType DEF Stop
    <2>2. ModesAreKnown'
      BY <1>2 DEF Stop
    <2> QED BY <2>1, <2>2
  <1>3. CASE GetConfig
    BY <1>3, LoadType DEF GetConfig
  <1> QED BY <1>1, <1>2, <1>3

\* The steps of a command that leave the file as it is.
LEMMA ReadIInv ==
    ASSUME IInv, NEW w \in Writers,
           BeginChange(w) \/ SaveConfig(w) \/ LookForToken(w) \/ LoadFile(w)
    PROVE  IInv'
  <1> USE ConfigConstants DEF IInv, TypeOK, LegacyIsRead, ModesAreKnown, LoadersChange,
          Running, Writing, Resting
  <1>1. CASE BeginChange(w)
    BY <1>1 DEF BeginChange, Begin, Changes
  <1>2. CASE SaveConfig(w)
    <2>1. PICK m \in Modes : /\ page' = [page EXCEPT !.mode = m]
                             /\ buf' = [buf EXCEPT ![w] = [page EXCEPT !.mode = m]]
      BY <1>2 DEF SaveConfig
    <2>2. [page EXCEPT !.mode = m] \in Config /\ [page EXCEPT !.mode = m].legacy = "absent"
      BY DEF Config
    <2>3. TypeOK' /\ LegacyIsRead' /\ LoadersChange'
      BY <1>2, <2>1, <2>2 DEF SaveConfig, Begin
    <2>4. ModesAreKnown'
      BY <1>2, <2>1 DEF SaveConfig, Begin
    <2> QED BY <2>3, <2>4
  <1>3. CASE LookForToken(w)
    BY <1>3 DEF LookForToken, Reach
  <1>4. CASE LoadFile(w)
    <2> DEFINE c == Change(job[w].what, Load(file))
    <2>1. job[w].what \in Changes
      BY <1>4 DEF LoadFile
    <2>2. c \in Config /\ c.legacy = "absent" /\ c.mode = Migrated(file)
      BY <2>1, LoadType, ChangeType
    <2>3. allowed \subseteq allowed' /\ allowed' \subseteq Modes
      BY <1>4 DEF LoadFile
    <2>4. c.mode \in allowed'
      BY <1>4, <2>2, DefaultsType DEF LoadFile
    <2>5. buf' = [buf EXCEPT ![w] = c]
      BY <1>4 DEF LoadFile
    <2> HIDE DEF c
    <2>6. TypeOK' /\ LegacyIsRead' /\ LoadersChange'
      BY <1>4, <2>2, <2>3, <2>5 DEF LoadFile, Reach
    <2>7. ModesAreKnown'
      BY <1>4, <2>3, <2>4, <2>5 DEF LoadFile, Reach
    <2> QED BY <2>6, <2>7
  <1> QED BY <1>1, <1>2, <1>3, <1>4

\* fs::write, in its two halves.
LEMMA TruncateIInv ==
    ASSUME IInv, NEW w \in Writers, Truncate(w)
    PROVE  IInv'
  <1> USE ConfigConstants DEF IInv, TypeOK, LegacyIsRead, ModesAreKnown, LoadersChange,
                              Running, Writing, Resting
  <1>1. TypeOK' /\ LegacyIsRead' /\ LoadersChange'
    BY DefaultsType DEF Truncate, Reach
  <1>2. ModesAreKnown'
    BY DEF Truncate, Reach
  <1> QED BY <1>1, <1>2

LEMMA FillIInv ==
    ASSUME IInv, NEW w \in Writers, Fill(w)
    PROVE  IInv'
  <1> USE ConfigConstants DEF IInv, TypeOK, LegacyIsRead, ModesAreKnown, LoadersChange,
                              Running, Writing
  <1>1. /\ Writing(w) /\ UNCHANGED <<page, mode>>
        /\ torn' \in BOOLEAN
        /\ file' = IF torn' THEN Defaults ELSE buf[w]
        /\ buf' = [buf EXCEPT ![w] = Defaults]
    BY DEF Fill
  <1>1a. Running
    BY <1>1 DEF Resting
  <1>1b. revoked' \in BOOLEAN
    BY DEF Fill
  <1>2. /\ torn' => "default" \in allowed'
        /\ job[w].what = "save" => buf[w].mode \in allowed' /\ Unwritten(w) \subseteq allowed'
        /\ job[w].what # "save" => allowed \subseteq allowed'
    BY DEF Fill
  <1>3. allowed' \subseteq Modes
    BY DEF Fill, Unwritten, Config
  <1>4. ASSUME NEW v \in Writers
        PROVE  \/ job'[v] = Resting
               \/ v # w /\ job'[v].what = job[v].what
                  /\ (\/ job'[v].at = job[v].at
                      \/ job'[v].at = "over" /\ job[v].at = "fill")
    <2>1. job'[v] = IF v = w THEN Resting
                    ELSE IF job[v].at = "fill" THEN [job[v] EXCEPT !.at = "over"]
                    ELSE job[v]
      BY DEF Fill, Filled
    <2>2. /\ [job[v] EXCEPT !.at = "over"].what = job[v].what
          /\ [job[v] EXCEPT !.at = "over"].at = "over"
      OBVIOUS
    <2>3. CASE v = w
      BY <2>1, <2>3
    <2>4. CASE v # w /\ job[v].at = "fill"
      <3>1. job'[v] = [job[v] EXCEPT !.at = "over"]
        BY <2>1, <2>4
      <3>2. job'[v].what = job[v].what /\ job'[v].at = "over"
        BY <2>2, <3>1
      <3> QED BY <2>4, <3>2
    <2>5. CASE v # w /\ job[v].at # "fill"
      BY <2>1, <2>5
    <2> QED BY <2>3, <2>4, <2>5
  <1>5. job' \in [Writers -> [what : {"none", "remember", "forget", "device", "revoke", "save"},
                              at : {"idle", "look", "load", "write", "fill", "over"}]]
    BY DEF Fill, Filled, Resting
  <1>6. Migrated(buf[w]) = buf[w].mode
    BY MigratedMode
  <1>7. ~torn' => Migrated(file') \in allowed'
    BY <1>1, <1>2, <1>6
  <1>8. ASSUME NEW v \in Writers, Writing(v)', job'[v].what # "save"
        PROVE  buf'[v].mode \in allowed'
    <2>1. v # w /\ Writing(v) /\ job[v].what # "save"
      BY <1>4, <1>8 DEF Resting
    <2>2. buf'[v] = buf[v] /\ buf[v].mode \in allowed /\ buf[v].mode \in Unwritten(w)
      BY <1>1, <2>1 DEF Unwritten
    <2> QED BY <1>2, <2>2
  <1>9. TypeOK'
    <2>1. file' \in Config /\ buf' \in [Writers -> Config]
      BY <1>1, DefaultsType
    <2> QED BY <1>1, <1>3, <1>5, <1>1b, <2>1
  <1>10. LegacyIsRead'
    BY <1>1, DefaultsType
  <1>11. LoadersChange'
    BY <1>4 DEF Resting
  <1> QED BY <1>1, <1>2, <1>1a, <1>7, <1>8, <1>9, <1>10, <1>11

LEMMA NextIInv == IInv /\ [Next]_vars => IInv'
  <1> SUFFICES ASSUME IInv, [Next]_vars PROVE IInv'
      OBVIOUS
  <1>1. CASE UNCHANGED vars
    BY <1>1 DEF vars, IInv, TypeOK, LegacyIsRead, ModesAreKnown, LoadersChange, Running,
                Writing
  <1>2. CASE Next
    BY <1>2, ProcessIInv, ReadIInv, TruncateIInv, FillIInv DEF Next
  <1> QED BY <1>1, <1>2
-----------------------------------------------------------------------------
\* Every variable keeps its type; in particular what a migration or a change of
\* one field yields is a config again.
THEOREM TypeCorrect == Spec => []TypeOK
  <1>1. IInv => TypeOK BY DEF IInv
  <1> QED BY InitIInv, NextIInv, <1>1, PTL DEF Spec

\* Whatever the commands write over each other, and wherever the process is cut
\* off, a start finds a mode that was saved, migrated from the older version's
\* field, or the default where a write was cut off or read half done (Config::load
\* of config.rs; save_config and the token and device commands of commands.rs).
THEOREM StartKeepsSavedMode == Spec => StartKeepsMode
  <1> DEFINE Step == ~Running /\ mode' # "none" => mode' \in allowed \cup {EnvMode}
  <1>1. IInv /\ [Next]_vars => [Step]_vars
    <2> SUFFICES ASSUME IInv, Next, ~Running, mode' # "none"
                 PROVE  mode' \in allowed \cup {EnvMode}
        BY DEF vars, Running
    <2>1. Start
      BY DEF Next, Stop, GetConfig, BeginChange, SaveConfig, Begin, LookForToken, LoadFile,
             Truncate, Fill, Running
    <2>2. Load(file).mode = Migrated(file)
      BY LoadType DEF IInv, TypeOK
    <2>3. Migrated(file) \in allowed
      BY DefaultsType DEF IInv, TypeOK, ModesAreKnown
    <2> QED BY <2>1, <2>2, <2>3 DEF Start, ApplyEnvOverrides
  <1> QED BY InitIInv, NextIInv, <1>1, PTL DEF Spec, StartKeepsMode
=============================================================================
