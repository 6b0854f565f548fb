--------------------------- MODULE RequestsProofs ---------------------------
(***************************************************************************)
(* Proofs about the three modules over ReadCache: config commits, manual   *)
(* actions, allocations, each for any clients, readers, faults and bounds, *)
(* and about the types of their composition, MCRequests.                   *)
(***************************************************************************)
EXTENDS MCRequests, ReadCacheProofs

(*-------------------------------------------------------------------------*)
(* Config commits.                                                         *)
(*-------------------------------------------------------------------------*)

LEMMA CommitInitType == CommitInit => CommitTypeOK
<1> SUFFICES ASSUME CommitInit
             PROVE  CommitTypeOK
  OBVIOUS
<1>1. file \in [Path -> Value]
  BY DEF CommitInit
<1>2. PICK p \in Path : TRUE
  BY ConfigCommitAssumption DEF ConfigCommitAssumption
<1>3. [path |-> p, new |-> file[p]] \in Edits
  BY <1>1, <1>2 DEF Edits
<1>4. (CHOOSE e \in Edits : TRUE) \in Edits
  BY <1>3
<1>5. QED
  BY <1>1, <1>4, ConfigCommitAssumption
     DEF CommitInit, CommitTypeOK, ConfigCommitAssumption

(* Every step keeps the types, and does to the cache what CacheStep allows. *)
LEMMA CommitStep ==
  ASSUME CommitTypeOK, [CommitNext]_<<cacheVars, commitVars>>
  PROVE  CommitTypeOK' /\ CacheStep
<1> USE DEF CommitTypeOK, Edits, At
<1>1. ASSUME NEW c \in Client, NEW path \in Path, NEW value \in Value,
             Commit(c, path, value)
      PROVE  CommitTypeOK' /\ CacheStep
  BY <1>1, ConfigCommitAssumption DEF Commit, CacheStep, ConfigCommitAssumption
<1>2. ASSUME NEW c \in Client,
             \/ Validate(c) \/ Refuse(c) \/ ReadYaml(c) \/ SetFails(c)
             \/ RecordFails(c)
      PROVE  CommitTypeOK' /\ CacheStep
  <2>1. CASE Validate(c) \/ Refuse(c)
    BY <2>1 DEF Validate, Refuse, CacheStep
  <2>2. CASE ReadYaml(c)
    BY <2>2 DEF ReadYaml, CacheStep
  <2>3. CASE SetFails(c) \/ RecordFails(c)
    BY <2>3 DEF SetFails, RecordFails, CacheStep
  <2>4. QED
    BY <1>2, <2>1, <2>2, <2>3
<1>3. ASSUME NEW c \in Client, WriteYaml(c)
      PROVE  CommitTypeOK' /\ CacheStep
  BY <1>3 DEF WriteYaml, CacheStep, Writes
<1>4. ASSUME NEW c \in Client, Record(c)
      PROVE  CommitTypeOK' /\ CacheStep
  BY <1>4 DEF Record, NewEntry, CacheStep
<1>5. ASSUME NEW c \in Client, Confirm(c)
      PROVE  CommitTypeOK' /\ CacheStep
  BY <1>5 DEF Confirm, CacheStep, Confirms
<1>6. CASE CacheNext /\ UNCHANGED commitVars
  <2>1. CommitTypeOK'
    BY <1>6 DEF commitVars
  <2>2. WriteOutside => Writes
    BY DEF WriteOutside, Writes
  <2>3. QED
    BY <1>6, <2>1, <2>2 DEF CacheNext, CacheStep
<1>7. CASE UNCHANGED <<cacheVars, commitVars>>
  BY <1>7 DEF commitVars, CacheStep
<1>8. ASSUME FlipReads \/ FlipFails
      PROVE  CommitTypeOK' /\ CacheStep
  BY <1>8 DEF FlipReads, FlipFails, CacheStep
<1>9. ASSUME FlipWrites
      PROVE  CommitTypeOK' /\ CacheStep
  BY <1>9 DEF FlipWrites, CacheStep, Writes
<1>10. QED
  BY <1>1, <1>2, <1>3, <1>4, <1>5, <1>6, <1>7, <1>8, <1>9
     DEF CommitNext, Serve, Flip

(* A path that is written and yet to be recorded holds what will be        *)
(* recorded of it.                                                         *)
RecordingHolds ==
  \A c \in Client :
    cpc[c] = "recording" /\ edit[c].path \notin tangled =>
      file[edit[c].path] = edit[c].new

CommitInv ==
  CacheInv /\ CommitTypeOK /\ RecordingHolds /\ TrailTellsTheFile

LEMMA CommitInitInv == CacheInit /\ CommitInit => CommitInv
<1> SUFFICES ASSUME CacheInit, CommitInit
             PROVE  CommitInv
  OBVIOUS
<1>1. \A path \in Path : EntriesOf(path) = {} /\ file[path] = origin[path]
  BY DEF CommitInit, EntriesOf
<1>2. TrailTellsTheFile
  BY <1>1 DEF TrailTellsTheFile, Tells
<1>3. RecordingHolds
  BY DEF CommitInit, RecordingHolds
<1>4. QED
  BY <1>2, <1>3, CacheInitInv, CommitInitType DEF CommitInv

(* What the audit log tells stays as it is while nothing is recorded.      *)
LEMMA TellsUnchanged ==
  ASSUME UNCHANGED <<trail, origin>>
  PROVE  \A path \in Path : \A value : Tells(path, value) => Tells(path, value)'
BY DEF Tells, EntriesOf

(* An entry becomes the latest of its path and leaves the others alone.    *)
LEMMA TellsNewEntry ==
  ASSUME trail \in Seq(Edits), NEW e \in Edits,
         trail' = Append(trail, NewEntry(e)), UNCHANGED origin
  PROVE  /\ Tells(e.path, e.new)'
         /\ \A path \in Path \ {e.path} : \A value :
              Tells(path, value) => Tells(path, value)'
<1> DEFINE n == Len(trail) + 1
<1>1. /\ Len(trail) \in Nat /\ DOMAIN trail = 1..Len(trail)
      /\ DOMAIN trail' = 1..n
      /\ trail'[n] = NewEntry(e)
      /\ \A i \in DOMAIN trail : trail'[i] = trail[i]
  BY DEF NewEntry, Edits
<1>2. NewEntry(e).path = e.path /\ NewEntry(e).new = e.new
  BY DEF NewEntry
<1>3. Tells(e.path, e.new)'
  <2>1. n \in EntriesOf(e.path)' /\ \A j \in EntriesOf(e.path)' : j <= n
    BY <1>1, <1>2 DEF EntriesOf
  <2>2. QED
    BY <1>1, <1>2, <2>1 DEF Tells
<1>4. ASSUME NEW path \in Path \ {e.path}, NEW value, Tells(path, value)
      PROVE  Tells(path, value)'
  <2>1. EntriesOf(path)' = EntriesOf(path)
    BY <1>1, <1>2 DEF EntriesOf
  <2>2. \A i \in EntriesOf(path) : trail'[i] = trail[i]
    BY <1>1 DEF EntriesOf
  <2>3. QED
    BY <1>4, <2>1, <2>2 DEF Tells
<1>5. QED
  BY <1>3, <1>4

LEMMA CommitInvStep ==
  CommitInv /\ [CommitNext]_<<cacheVars, commitVars>> => CommitInv'
<1> SUFFICES ASSUME CommitInv, [CommitNext]_<<cacheVars, commitVars>>
             PROVE  CommitInv'
  OBVIOUS
<1>1. CommitTypeOK' /\ CacheInv'
  BY CommitStep, CacheInvStep DEF CommitInv
<1>2. ASSUME UNCHANGED <<file, trail, edit, origin, unrecorded, tangled>>,
             \A c \in Client : cpc'[c] = "recording" => cpc[c] = "recording"
      PROVE  RecordingHolds' /\ TrailTellsTheFile'
  BY <1>2, TellsUnchanged DEF CommitInv, RecordingHolds, TrailTellsTheFile
<1>3. ASSUME NEW c \in Client, NEW path \in Path, NEW value \in Value,
             Commit(c, path, value)
      PROVE  RecordingHolds' /\ TrailTellsTheFile'
  <2>1. /\ UNCHANGED <<file, trail, origin, unrecorded, tangled>>
        /\ \A d \in Client : cpc'[d] = "recording" =>
             cpc[d] = "recording" /\ edit'[d] = edit[d]
    BY <1>3 DEF Commit, At, CommitInv, CommitTypeOK
  <2>2. QED
    BY <2>1, TellsUnchanged DEF CommitInv, RecordingHolds, TrailTellsTheFile
<1>4. ASSUME NEW c \in Client,
             \/ Validate(c) \/ Refuse(c) \/ ReadYaml(c) \/ SetFails(c)
             \/ RecordFails(c) \/ Confirm(c)
      PROVE  RecordingHolds' /\ TrailTellsTheFile'
  BY <1>2, <1>4
     DEF Validate, Refuse, ReadYaml, SetFails, RecordFails, Confirm, At,
         CommitInv, CommitTypeOK
<1>5. ASSUME NEW c \in Client, WriteYaml(c)
      PROVE  RecordingHolds' /\ TrailTellsTheFile'
  <2> DEFINE path == edit[c].path
  <2>1. /\ path \in Path /\ cpc[c] = "writing"
        /\ file' = [yaml[c] EXCEPT ![path] = edit[c].new]
        /\ yaml[c] \in [Path -> Value]
        /\ UNCHANGED <<trail, edit, origin>>
        /\ unrecorded' = unrecorded \cup {path}
        /\ tangled \subseteq tangled'
        /\ \A p \in Path \ {path} : yaml[c][p] # file[p] => p \in tangled'
        /\ \A d \in Client \ {c} :
             cpc[d] = "recording" /\ edit[d].path = path => path \in tangled'
        /\ \A d \in Client \ {c} : cpc'[d] = cpc[d]
    BY <1>5 DEF WriteYaml, CommitInv, CommitTypeOK, Edits
  <2>2. \A p \in Path \ {path} : p \notin tangled' => file'[p] = file[p]
    BY <2>1
  <2>3. file'[path] = edit[c].new
    BY <2>1
  <2>4. TrailTellsTheFile'
    BY <2>1, <2>2, TellsUnchanged DEF CommitInv, TrailTellsTheFile
  <2>5. ASSUME NEW d \in Client, cpc'[d] = "recording",
               edit[d].path \notin tangled'
        PROVE  file'[edit[d].path] = edit[d].new
    <3>1. edit[d].path \in Path
      BY DEF CommitInv, CommitTypeOK, Edits
    <3>2. CASE d = c
      BY <2>3, <3>2
    <3>3. CASE d # c
      BY <2>1, <2>2, <2>5, <3>1, <3>3 DEF CommitInv, RecordingHolds
    <3>4. QED
      BY <3>2, <3>3
  <2>6. QED
    BY <2>1, <2>4, <2>5 DEF RecordingHolds
<1>6. ASSUME NEW c \in Client, Record(c)
      PROVE  RecordingHolds' /\ TrailTellsTheFile'
  <2>1. /\ cpc[c] = "recording" /\ edit[c] \in Edits
        /\ trail \in Seq(Edits)
        /\ trail' = Append(trail, NewEntry(edit[c]))
        /\ unrecorded' = unrecorded \ {edit[c].path}
        /\ UNCHANGED <<file, edit, origin, tangled>>
        /\ \A d \in Client : cpc'[d] = "recording" => cpc[d] = "recording"
    BY <1>6 DEF Record, At, CommitInv, CommitTypeOK
  <2>2. RecordingHolds'
    BY <2>1 DEF CommitInv, RecordingHolds
  <2>3. /\ Tells(edit[c].path, edit[c].new)'
        /\ \A p \in Path \ {edit[c].path} : \A value :
             Tells(p, value) => Tells(p, value)'
    BY <2>1, TellsNewEntry
  <2>4. TrailTellsTheFile'
    BY <2>1, <2>3 DEF CommitInv, RecordingHolds, TrailTellsTheFile
  <2>5. QED
    BY <2>2, <2>4
<1>7. ASSUME UNCHANGED commitVars
      PROVE  RecordingHolds' /\ TrailTellsTheFile'
  <2>1. UNCHANGED <<file, trail, cpc, edit, origin, unrecorded, tangled>>
    BY <1>7 DEF commitVars
  <2>2. QED
    BY <1>2, <2>1
<1>8. ASSUME FlipReads \/ FlipFails
      PROVE  RecordingHolds' /\ TrailTellsTheFile'
  BY <1>2, <1>8 DEF FlipReads, FlipFails
<1>9. ASSUME FlipWrites
      PROVE  RecordingHolds' /\ TrailTellsTheFile'
  <2>1. /\ UNCHANGED <<trail, cpc, edit, origin, unrecorded>>
        /\ tangled \subseteq tangled'
        /\ \A p \in Path : p \notin tangled' => file'[p] = file[p]
    BY <1>9 DEF FlipWrites
  <2>2. \A c \in Client : edit[c].path \in Path
    BY DEF CommitInv, CommitTypeOK, Edits
  <2>3. RecordingHolds'
    BY <2>1, <2>2 DEF CommitInv, RecordingHolds
  <2>4. TrailTellsTheFile'
    BY <2>1, TellsUnchanged DEF CommitInv, TrailTellsTheFile
  <2>5. QED
    BY <2>3, <2>4
<1>10. RecordingHolds' /\ TrailTellsTheFile'
  <2>1. \/ \E c \in Client : Serve(c)
        \/ FlipReads \/ FlipFails \/ FlipWrites
        \/ UNCHANGED commitVars
    BY DEF CommitNext, Flip
  <2>2. ASSUME NEW c \in Client, Serve(c)
        PROVE  RecordingHolds' /\ TrailTellsTheFile'
    BY <1>3, <1>4, <1>5, <1>6, <2>2 DEF Serve
  <2>3. QED
    BY <1>7, <1>8, <1>9, <2>1, <2>2
<1>11. QED
  BY <1>1, <1>10 DEF CommitInv

(* Whatever shims fail or are killed, the latest success entry of a path   *)
(* holds its value, unless it was changed without an entry or two commits, *)
(* or a commit and the kill switch, got in each other's way.               *)
THEOREM TheTrailTellsTheFile == CommitSpec => []TrailTellsTheFile
<1>1. CommitInv => TrailTellsTheFile
  BY DEF CommitInv
<1>2. QED
  BY <1>1, CommitInitInv, CommitInvStep, PTL DEF CommitSpec

(* No read of the config is older than the TTL allows.                     *)
THEOREM ConfigReadsAreFresh == CommitSpec => []BoundedStaleness
<1>1. CommitInv => BoundedStaleness
  BY InvBoundsStaleness DEF CommitInv
<1>2. QED
  BY <1>1, CommitInitInv, CommitInvStep, PTL DEF CommitSpec

(* A read that begins after a commit was confirmed shows it.               *)
THEOREM CommittedEditsAreRead == CommitSpec => []ReadYourWrites
<1>1. CommitInv => ReadYourWrites
  BY InvReadsOwnWrites DEF CommitInv
<1>2. QED
  BY <1>1, CommitInitInv, CommitInvStep, PTL DEF CommitSpec

(*-------------------------------------------------------------------------*)
(* Manual scans and closes.                                                *)
(*-------------------------------------------------------------------------*)

(* state.json is left alone, or saved, or damaged; no save opens the       *)
(* position again.                                                         *)
StatusStep ==
  \/ UNCHANGED <<status, statuses, replaced>>
  \/ /\ Replace
     /\ statuses' = Append(statuses, "unreadable")
     /\ status' = status
  \/ \E s \in Status : Save(s) /\ (status # "open" => s # "open")

(* A version that can be read tells what the position was or is.           *)
NeverReopened ==
  /\ \A v \in 1..Version : statuses[v] \in {"closed", "gone"} => status # "open"
  /\ OnFile \in {status, "unreadable"}

LEMMA StatusFacts ==
  ASSUME CacheTypeOK, ManualTypeOK, StatusStep
  PROVE  /\ statuses' \in Seq(Shown) /\ Len(statuses') = Version'
         /\ status' \in Status
         /\ status # "open" => status' # "open"
         /\ NeverReopened => NeverReopened'
<1> DEFINE Goal == /\ statuses' \in Seq(Shown) /\ Len(statuses') = Version'
                   /\ status' \in Status
                   /\ status # "open" => status' # "open"
                   /\ NeverReopened => NeverReopened'
<1>1. CASE UNCHANGED <<status, statuses, replaced>>
  BY <1>1 DEF ManualTypeOK, Version, OnFile, NeverReopened
<1>2. ASSUME NEW shown \in Shown, Replace, statuses' = Append(statuses, shown),
             status' \in Status, status # "open" => status' # "open",
             shown \in {status', "unreadable"}
      PROVE  Goal
  <2>1. statuses \in Seq(Shown) /\ Len(statuses) = Version
    BY DEF ManualTypeOK
  <2>2. Version \in Nat /\ Version' = Version + 1
    BY <1>2, ReplaceFacts
  <2>3. /\ statuses' \in Seq(Shown) /\ Len(statuses') = Version'
        /\ statuses'[Version'] = shown
        /\ \A v \in 1..Version : statuses'[v] = statuses[v]
    BY <1>2, <2>1, <2>2
  <2>4. QED
    BY <1>2, <2>1, <2>2, <2>3 DEF OnFile, NeverReopened
<1>3. ASSUME NEW s \in Status, Save(s), status # "open" => s # "open"
      PROVE  Goal
  BY <1>2, <1>3 DEF Save, Shown
<1>4. CASE /\ Replace /\ statuses' = Append(statuses, "unreadable")
           /\ status' = status
  BY <1>2, <1>4 DEF Shown, ManualTypeOK
<1>5. QED
  BY <1>1, <1>3, <1>4 DEF StatusStep

(* The exit codes and what is made of them.                                *)
LEMMA TaskStatusValues ==
  ASSUME NEW code \in 0..9
  PROVE  /\ TaskStatus(code) \in Told
         /\ TaskStatus(code) = "completed" => code = 0
         /\ TaskStatus(code) = "halted" => code = 2
         /\ TaskStatus(code) = "not_found" => code = 3
         /\ TaskStatus(code) = "already_closed" => code = 4
         /\ TaskStatus(code) # "spawn_error"
         /\ code \in {1, 9} => TaskStatus(code) = "failed"
         /\ code = 5 => TaskStatus(code) = "partial_fill"
<1>1. CASE code \in 0..5
  <2>1. \/ code = 0 \/ code = 1 \/ code = 2 \/ code = 3 \/ code = 4 \/ code = 5
    BY <1>1
  <2>2. QED
    BY <2>1 DEF TaskStatus, Told
<1>2. CASE code \notin 0..5
  BY <1>2 DEF TaskStatus, Told
<1>3. QED
  BY <1>1, <1>2

-----------------------------------------------------------------------------
LEMMA ManualInitType == CacheInit /\ ManualInit => ManualTypeOK
<1> SUFFICES ASSUME CacheInit, ManualInit
             PROVE  ManualTypeOK
  OBVIOUS
<1>1. /\ statuses \in Seq(Shown) /\ Len(statuses) = 1 /\ Version = 1
      /\ status \in Status
  BY DEF CacheInit, ManualInit, Version, Status, Shown
<1>2. /\ halted = FALSE /\ paper = FALSE /\ posts = 0 /\ orders = 0
      /\ doubtful = FALSE
      /\ mpc = [c \in Operator |-> "idle"]
      /\ dry = [c \in Operator |-> FALSE]
      /\ reply = [c \in Operator |-> [told |-> "nothing", ordered |-> FALSE]]
      /\ ordered = [c \in Operator |-> FALSE]
  BY DEF ManualInit
<1>3. reply \in [Operator -> [told : Told, ordered : BOOLEAN]]
  BY <1>2 DEF Told
<1>4. /\ halted \in BOOLEAN /\ paper \in BOOLEAN
      /\ doubtful \in BOOLEAN /\ orders \in Nat
  BY <1>2
<1>5. posts \in 0..MaxPosts
  BY <1>2, ManualActionsAssumption DEF ManualActionsAssumption
<1>6. QED
  BY <1>1, <1>2, <1>3, <1>4, <1>5 DEF ManualTypeOK

(* What an answer leaves of the request. *)
LEMMA ReplyType ==
  ASSUME ManualTypeOK, NEW c \in Operator, NEW told1 \in Told, Reply(c, told1)
  PROVE  /\ mpc' \in [Operator -> Closing \cup {"idle", "scanning", "scanned"}]
         /\ dry' \in [Operator -> BOOLEAN]
         /\ ordered' \in [Operator -> BOOLEAN]
         /\ reply' \in [Operator -> [told : Told, ordered : BOOLEAN]]
         /\ doubtful' \in BOOLEAN
         /\ UNCHANGED <<halted, paper, posts, orders>>
BY DEF Reply, Goto, ManualTypeOK, scene

(* Every step keeps the types and does to state.json and to the cache what *)
(* StatusStep and CacheStep allow.                                         *)
LEMMA ManualStep ==
  ASSUME CacheTypeOK, ManualTypeOK, [ManualNext]_<<cacheVars, manualVars>>
  PROVE  ManualTypeOK' /\ StatusStep /\ CacheStep
<1> DEFINE Others ==
      /\ halted \in BOOLEAN /\ paper \in BOOLEAN
      /\ mpc \in [Operator -> Closing \cup {"idle", "scanning", "scanned"}]
      /\ dry \in [Operator -> BOOLEAN]
      /\ reply \in [Operator -> [told : Told, ordered : BOOLEAN]]
      /\ posts \in 0..MaxPosts
      /\ orders \in Nat
      /\ ordered \in [Operator -> BOOLEAN]
      /\ doubtful \in BOOLEAN
<1> SUFFICES Others' /\ StatusStep /\ CacheStep
  BY StatusFacts DEF ManualTypeOK
<1>1. Others /\ status \in Status
  BY DEF ManualTypeOK
<1>2. ASSUME NEW c \in Operator, NEW told1 \in Told,
             Finished(c, told1) \/ Unfinished(c, told1)
      PROVE  Others' /\ StatusStep /\ CacheStep
  <2>1. Reply(c, told1) /\ UNCHANGED <<position, replaced>> /\ CacheStep
    BY <1>2 DEF Finished, Unfinished, CacheStep, Confirms, cacheVars, position
  <2>2. QED
    BY <1>1, <2>1, ReplyType DEF StatusStep, position
<1>3. ASSUME NEW c \in Operator, NEW to \in {"closing", "scanning"},
             NEW d \in BOOLEAN, Post(c, to, d)
      PROVE  Others' /\ StatusStep /\ CacheStep
  BY <1>1, <1>3, ManualActionsAssumption
     DEF Post, Goto, Closing, CacheStep, StatusStep, cacheVars, position,
         ManualActionsAssumption
<1>4. ASSUME NEW c \in Operator,
             CliChecks(c) \/ CliOrders(c) \/ CliSimulates(c)
      PROVE  Others' /\ StatusStep /\ CacheStep
  <2>1. CacheStep /\ StatusStep
    BY <1>4 DEF CliChecks, CliOrders, CliSimulates, CacheStep, StatusStep,
                cacheVars, position
  <2>2. CASE CliChecks(c)
    <3>1. doubtful' \in BOOLEAN
      BY <1>1, <2>2 DEF CliChecks
    <3>2. QED
      BY <1>1, <2>1, <2>2, <3>1 DEF CliChecks, Goto, Closing, scene
  <2>3. CASE CliOrders(c)
    BY <1>1, <2>1, <2>3 DEF CliOrders, Goto, Closing, scene
  <2>4. CASE CliSimulates(c)
    BY <1>1, <2>1, <2>4 DEF CliSimulates, Goto, Closing, scene
  <2>5. QED
    BY <1>4, <2>2, <2>3, <2>4
<1>5. ASSUME NEW c \in Operator, CliSaves(c)
      PROVE  Others' /\ StatusStep /\ CacheStep
  <2>1. CacheStep
    BY <1>5 DEF CliSaves, Save, CacheStep, Writes
  <2>2. StatusStep
    BY <1>1, <1>5 DEF CliSaves, StatusStep, Status
  <2>3. QED
    BY <1>1, <1>5, <2>1, <2>2 DEF CliSaves, Goto, Closing, scene
<1>6. \A s \in Later(status) : s \in Status /\ (status # "open" => s # "open")
  BY <1>1 DEF Later, Status
<1>7. ASSUME NEW c \in Operator, ScanSaves(c)
      PROVE  Others' /\ StatusStep /\ CacheStep
  <2>1. CacheStep
    BY <1>7 DEF ScanSaves, Save, CacheStep, Writes
  <2>2. StatusStep
    BY <1>1, <1>6, <1>7 DEF ScanSaves, StatusStep
  <2>3. QED
    BY <1>1, <1>7, <2>1, <2>2 DEF ScanSaves, Goto, scene
<1>8. CASE CronRuns
  <2>1. CacheStep
    BY <1>8 DEF CronRuns, Save, CacheStep, Writes
  <2>2. StatusStep
    BY <1>6, <1>8 DEF CronRuns, StatusStep
  <2>3. QED
    BY <1>1, <1>8, <2>1, <2>2 DEF CronRuns, scene
<1>9. CASE SetOrRemoveStop \/ SetMode
  BY <1>1, <1>9
     DEF SetOrRemoveStop, SetMode, StatusStep, CacheStep, cacheVars, position
<1>90. CASE StateIsDamaged
  <2>1. CacheStep
    BY <1>90 DEF StateIsDamaged, CacheStep, Writes
  <2>2. StatusStep
    BY <1>90 DEF StateIsDamaged, StatusStep
  <2>3. QED
    BY <1>1, <1>90, <2>1, <2>2 DEF StateIsDamaged, scene
<1>10. CASE /\ (\E r \in Reader : Read(r)) \/ ClearedByOthers \/ Tick
            /\ UNCHANGED manualVars
  <2>1. UNCHANGED replaced
    BY <1>10 DEF Read, Miss, Load, Store, ClearedByOthers, Tick
  <2>2. Others' /\ UNCHANGED <<status, statuses>>
    BY <1>1, <1>10 DEF manualVars
  <2>3. QED
    BY <1>10, <2>1, <2>2 DEF StatusStep, CacheStep
<1>11. CASE UNCHANGED <<cacheVars, manualVars>>
  <2>1. UNCHANGED cacheVars /\ UNCHANGED manualVars
    BY <1>11
  <2>2. QED
    BY <1>1, <2>1 DEF cacheVars, manualVars, StatusStep, CacheStep
<1>12. ASSUME NEW c \in Operator, Operate(c)
       PROVE  Others' /\ StatusStep /\ CacheStep
  <2>1. CASE \E d \in BOOLEAN : PostClose(c, d)
    BY <1>3, <2>1 DEF PostClose
  <2>2. CASE \E mode \in {"dry_run", "live"}, confirm \in BOOLEAN,
                reason \in BOOLEAN : PostScan(c, mode, confirm, reason)
    BY <1>3, <2>2 DEF PostScan
  <2>3. CASE SpawnFails(c) \/ CloseTimesOut(c) \/ ScanTimesOut(c)
    BY <1>2, <2>3 DEF SpawnFails, CloseTimesOut, ScanTimesOut, Told
  <2>4. CASE CloseEnds(c)
    BY <1>2, <2>4, TaskStatusValues DEF CloseEnds
  <2>5. CASE ScanEnds(c)
    BY <1>2, <2>5 DEF ScanEnds, Told
  <2>6. QED
    BY <1>4, <1>5, <1>7, <1>12, <2>1, <2>2, <2>3, <2>4, <2>5 DEF Operate
<1>13. QED
  BY <1>8, <1>9, <1>90, <1>10, <1>11, <1>12 DEF ManualNext

-----------------------------------------------------------------------------
(* A request has ordered exactly while its command line has an order out   *)
(* or saved, and what it has saved is not open.                            *)
StagesHold ==
  \A c \in Operator :
    /\ ordered[c] <=> mpc[c] \in {"ordering", "saved"}
    /\ mpc[c] = "saved" => status # "open"

RepliesHold ==
  \A c \in Operator :
    /\ reply[c].told = "completed" /\ reply[c].ordered => status # "open"
    /\ reply[c].told \in {"halted", "not_found", "already_closed",
                          "spawn_error"} => ~reply[c].ordered

(* Until an outcome is left open or two closes meet, at most one close is  *)
(* about to order or has an order out that is not saved, and an order that *)
(* was placed is such a one or the position is closed.                     *)
OneAtATime ==
  doubtful \/
    /\ \A c, d \in Operator :
         /\ mpc[c] \in {"checked", "ordering"}
         /\ mpc[d] \in {"checked", "ordering"}
         => c = d
    /\ \A c \in Operator : mpc[c] = "checked" => orders = 0
    /\ orders > 0 => status # "open" \/ \E c \in Operator : mpc[c] = "ordering"
    /\ orders <= 1

ManualInv ==
  /\ CacheInv /\ ManualTypeOK
  /\ NeverReopened /\ StagesHold /\ RepliesHold /\ OneAtATime

LEMMA ManualInitInv == CacheInit /\ ManualInit => ManualInv
<1> SUFFICES ASSUME CacheInit, ManualInit
             PROVE  ManualInv
  OBVIOUS
<1>1. Version = 1
  BY DEF CacheInit, Version
<1>2. NeverReopened
  BY <1>1 DEF NeverReopened, OnFile, ManualInit
<1>3. StagesHold /\ RepliesHold /\ OneAtATime
  BY DEF ManualInit, StagesHold, RepliesHold, OneAtATime
<1>4. QED
  BY <1>2, <1>3, CacheInitInv, ManualInitType DEF ManualInv

(* An answer, given what led to it. *)
LEMMA AnswerStep ==
  ASSUME ManualInv, status # "open" => status' # "open",
         NEW c \in Operator, NEW told1 \in Told, Reply(c, told1),
         told1 = "completed" => ~ordered[c] \/ status # "open",
         told1 \in {"halted", "not_found", "already_closed", "spawn_error"}
           => ~ordered[c],
         mpc[c] = "ordering" => told1 \in {"timeout", "failed", "partial_fill"}
  PROVE  StagesHold' /\ RepliesHold' /\ OneAtATime'
<1>1. /\ mpc' = [mpc EXCEPT ![c] = "idle"]
      /\ reply' = [reply EXCEPT ![c] = [told |-> told1,
                                        ordered |-> ordered[c]]]
      /\ ordered' = [ordered EXCEPT ![c] = FALSE]
      /\ orders' = orders
      /\ \/ doubtful
         \/ ordered[c] /\ told1 \in {"timeout", "failed", "partial_fill"}
         => doubtful'
  BY DEF Reply, Goto
<1>2. /\ mpc \in [Operator -> Closing \cup {"idle", "scanning", "scanned"}]
      /\ reply \in [Operator -> [told : Told, ordered : BOOLEAN]]
      /\ ordered \in [Operator -> BOOLEAN]
      /\ orders \in Nat
  BY DEF ManualInv, ManualTypeOK
<1>3. StagesHold'
  BY <1>1, <1>2 DEF ManualInv, StagesHold
<1>4. RepliesHold'
  BY <1>1, <1>2 DEF ManualInv, RepliesHold
<1>5. OneAtATime'
  <2>1. CASE mpc[c] = "ordering"
    BY <1>1, <2>1 DEF ManualInv, StagesHold, OneAtATime
  <2>2. CASE mpc[c] # "ordering"
    BY <1>1, <1>2, <2>2 DEF ManualInv, OneAtATime
  <2>3. QED
    BY <2>1, <2>2
<1>6. QED
  BY <1>3, <1>4, <1>5

LEMMA ManualInvStep ==
  ManualInv /\ [ManualNext]_<<cacheVars, manualVars>> => ManualInv'
<1> SUFFICES ASSUME ManualInv, [ManualNext]_<<cacheVars, manualVars>>
             PROVE  ManualInv'
  OBVIOUS
<1>1. CacheTypeOK /\ ManualTypeOK
  BY DEF ManualInv, CacheInv
<1>2. ManualTypeOK' /\ StatusStep /\ CacheStep
  BY <1>1, ManualStep
<1>3. NeverReopened' /\ (status # "open" => status' # "open")
  BY <1>1, <1>2, StatusFacts DEF ManualInv
<1>4. CacheInv'
  BY <1>2, CacheInvStep DEF ManualInv
<1> DEFINE Goal == StagesHold' /\ RepliesHold' /\ OneAtATime'
<1>5. /\ mpc \in [Operator -> Closing \cup {"idle", "scanning", "scanned"}]
      /\ ordered \in [Operator -> BOOLEAN]
      /\ orders \in Nat
  BY <1>1 DEF ManualTypeOK
<1>6. ASSUME UNCHANGED <<mpc, reply, orders, ordered, doubtful>>
      PROVE  Goal
  BY <1>3, <1>6 DEF ManualInv, StagesHold, RepliesHold, OneAtATime
<1>7. ASSUME NEW c \in Operator, NEW to \in {"closing", "scanning"},
             NEW d \in BOOLEAN, Post(c, to, d)
      PROVE  Goal
  BY <1>3, <1>5, <1>7
     DEF Post, Goto, ManualInv, StagesHold, RepliesHold, OneAtATime
<1>8. ASSUME NEW c \in Operator, CliChecks(c)
      PROVE  Goal
  <2>1. /\ mpc[c] = "closing" /\ status = "open"
        /\ mpc' = [mpc EXCEPT ![c] = "checked"]
        /\ UNCHANGED <<reply, orders, ordered>>
        /\ doubtful => doubtful'
        /\ (\E d \in Operator : mpc[d] \in {"checked", "ordering"}) => doubtful'
    BY <1>8 DEF CliChecks, Goto, ManualInv, NeverReopened
  <2>2. StagesHold' /\ RepliesHold'
    BY <1>3, <1>5, <2>1 DEF ManualInv, StagesHold, RepliesHold
  <2>3. OneAtATime'
    BY <1>3, <1>5, <2>1 DEF ManualInv, OneAtATime
  <2>4. QED
    BY <2>2, <2>3
<1>9. ASSUME NEW c \in Operator, CliOrders(c)
      PROVE  Goal
  <2>1. /\ mpc[c] = "checked"
        /\ mpc' = [mpc EXCEPT ![c] = "ordering"]
        /\ orders' = orders + 1
        /\ ordered' = [ordered EXCEPT ![c] = TRUE]
        /\ UNCHANGED <<reply, doubtful>>
    BY <1>9 DEF CliOrders, Goto
  <2>2. StagesHold' /\ RepliesHold'
    BY <1>3, <1>5, <2>1 DEF ManualInv, StagesHold, RepliesHold
  <2>3. OneAtATime'
    BY <1>3, <1>5, <2>1 DEF ManualInv, OneAtATime
  <2>4. QED
    BY <2>2, <2>3
<1>10. ASSUME NEW c \in Operator, CliSaves(c)
       PROVE  Goal
  <2>1. /\ mpc[c] = "ordering"
        /\ mpc' = [mpc EXCEPT ![c] = "saved"]
        /\ UNCHANGED <<reply, orders, ordered, doubtful>>
    BY <1>10 DEF CliSaves, Goto
  <2>2. status' # "open"
    BY <1>10 DEF CliSaves, Save
  <2>3. StagesHold' /\ RepliesHold'
    BY <1>5, <2>1, <2>2 DEF ManualInv, StagesHold, RepliesHold
  <2>4. OneAtATime'
    BY <1>5, <2>1, <2>2 DEF ManualInv, OneAtATime
  <2>5. QED
    BY <2>3, <2>4
<1>11. ASSUME NEW c \in Operator,
              \/ SpawnFails(c) \/ CloseTimesOut(c)
              \/ ScanTimesOut(c) \/ ScanEnds(c)
       PROVE  Goal
  <2>1. CASE SpawnFails(c)
    <3>1. Reply(c, "spawn_error") /\ ~ordered[c] /\ mpc[c] # "ordering"
      BY <2>1 DEF SpawnFails, Unfinished, ManualInv, StagesHold
    <3>2. QED
      BY <1>3, <3>1, AnswerStep DEF Told
  <2>2. CASE CloseTimesOut(c) \/ ScanTimesOut(c)
    <3>1. Reply(c, "timeout")
      BY <2>2 DEF CloseTimesOut, ScanTimesOut, Unfinished
    <3>2. QED
      BY <1>3, <3>1, AnswerStep DEF Told
  <2>3. CASE ScanEnds(c)
    <3>1. PICK told1 \in {"success", "exit_nonzero"} :
            Reply(c, told1) /\ mpc[c] # "ordering"
      BY <2>3 DEF ScanEnds, Finished
    <3>2. QED
      BY <1>3, <3>1, AnswerStep DEF Told
  <2>4. QED
    BY <1>11, <2>1, <2>2, <2>3
<1>12. ASSUME NEW c \in Operator, CloseEnds(c)
       PROVE  Goal
  <2>1. PICK code \in 0..9 : MayExit(c, code) /\ Finished(c, TaskStatus(code))
    BY <1>12 DEF CloseEnds
  <2>2. Reply(c, TaskStatus(code)) /\ TaskStatus(code) \in Told
    BY <2>1, TaskStatusValues DEF Finished
  <2>3. TaskStatus(code) = "completed" => ~ordered[c] \/ status # "open"
    BY <2>1, TaskStatusValues DEF MayExit, ManualInv, StagesHold
  <2>4. TaskStatus(code) \in {"halted", "not_found", "already_closed",
                              "spawn_error"} => ~ordered[c]
    BY <2>1, TaskStatusValues DEF MayExit, ManualInv, StagesHold
  <2>5. mpc[c] = "ordering" => code \in {1, 9} \/ code = 5
    BY <2>1 DEF MayExit
  <2>6. mpc[c] = "ordering" =>
          TaskStatus(code) \in {"timeout", "failed", "partial_fill"}
    BY <2>5, TaskStatusValues
  <2>7. QED
    BY <1>3, <2>2, <2>3, <2>4, <2>6, AnswerStep
<1>13. ASSUME NEW c \in Operator, ScanSaves(c)
       PROVE  Goal
  <2>1. /\ mpc[c] = "scanning"
        /\ mpc' = [mpc EXCEPT ![c] = "scanned"]
        /\ UNCHANGED <<reply, orders, ordered, doubtful>>
    BY <1>13 DEF ScanSaves, Goto
  <2>2. StagesHold' /\ RepliesHold'
    BY <1>3, <1>5, <2>1 DEF ManualInv, StagesHold, RepliesHold
  <2>3. OneAtATime'
    BY <1>3, <1>5, <2>1 DEF ManualInv, OneAtATime
  <2>4. QED
    BY <2>2, <2>3
<1>14. ASSUME \/ CronRuns \/ StateIsDamaged \/ SetOrRemoveStop \/ SetMode
              \/ UNCHANGED manualVars
       PROVE  Goal
  <2>1. UNCHANGED <<mpc, reply, orders, ordered, doubtful>>
    BY <1>14 DEF CronRuns, StateIsDamaged, SetOrRemoveStop, SetMode, manualVars
  <2>2. QED
    BY <1>6, <2>1
<1>140. ASSUME NEW c \in Operator, CliSimulates(c)
        PROVE  Goal
  <2>1. /\ mpc[c] = "closing"
        /\ mpc' = [mpc EXCEPT ![c] = "simulated"]
        /\ UNCHANGED <<reply, orders, ordered, doubtful>>
    BY <1>140 DEF CliSimulates, Goto
  <2>2. StagesHold' /\ RepliesHold'
    BY <1>3, <1>5, <2>1 DEF ManualInv, StagesHold, RepliesHold
  <2>3. OneAtATime'
    BY <1>3, <1>5, <2>1 DEF ManualInv, OneAtATime
  <2>4. QED
    BY <2>2, <2>3
<1>15. Goal
  <2> HIDE DEF Goal
  <2>1. ASSUME NEW c \in Operator, Operate(c)
        PROVE  Goal
    <3>1. ASSUME NEW d \in BOOLEAN, PostClose(c, d)
          PROVE  Goal
      BY <1>7, <3>1 DEF PostClose
    <3>2. ASSUME NEW mode \in {"dry_run", "live"}, NEW confirm \in BOOLEAN,
                 NEW reason \in BOOLEAN, PostScan(c, mode, confirm, reason)
          PROVE  Goal
      BY <1>7, <3>2 DEF PostScan
    <3>3. QED
      BY <1>8, <1>9, <1>10, <1>11, <1>12, <1>13, <1>140, <2>1, <3>1, <3>2
         DEF Operate
  <2>2. \/ \E c \in Operator : Operate(c)
        \/ CronRuns \/ StateIsDamaged \/ SetOrRemoveStop \/ SetMode
        \/ UNCHANGED manualVars
    BY DEF ManualNext
  <2>3. QED
    BY <1>14, <2>1, <2>2
<1>16. QED
  BY <1>2, <1>3, <1>4, <1>15 DEF ManualInv

(* A second close order is placed only after one whose outcome was left    *)
(* open, or by closes that met.                                            *)
THEOREM ClosesOrderOnce == ManualSpec => []OrderedOnce
<1>1. ManualInv => OrderedOnce
  BY DEF ManualInv, ManualTypeOK, OneAtATime, OrderedOnce
<1>2. QED
  BY <1>1, ManualInitInv, ManualInvStep, PTL DEF ManualSpec

(* What the operator is told of a close that ordered, or did not, is so,   *)
(* and so is what a preview says of a position that is closed, unless the  *)
(* state.json it was made from could not be read.                          *)
THEOREM OperatorsAreToldTheTruth == ManualSpec => []ToldTheTruth
<1>1. ManualInv => ToldTheTruth
  <2> SUFFICES ASSUME ManualInv
               PROVE  ToldTheTruth
    OBVIOUS
  <2>1. ASSUME NEW a \in Answers
        PROVE  a.version \in 1..Version
    <3>1. /\ \A e \in Hits : e.version \in Versions /\ e.version <= Version
          /\ \A r \in Reader : stage[r] = "storing" =>
               loaded[r] \in Versions /\ loaded[r] <= Version
      BY DEF Hits, ManualInv, CacheInv, CacheTypeOK, EntriesHold, LoadsHold,
             InFileSince
    <3>2. a.version \in Versions /\ a.version <= Version
      BY <2>1, <3>1 DEF Answers
    <3>3. QED
      BY <3>2, ReadCacheAssumption
         DEF ManualInv, CacheInv, CacheTypeOK, Versions, ReadCacheAssumption
  <2>2. ASSUME NEW a \in Answers, Preview(a) \in {"404", "410"},
               Preview(a) = "404" => statuses[a.version] # "unreadable"
        PROVE  status # "open"
    <3>1. statuses[a.version] \in {"closed", "gone"}
      BY <2>2 DEF Preview
    <3>2. QED
      BY <2>1, <2>2, <3>1 DEF ManualInv, NeverReopened
  <2>3. QED
    BY <2>2 DEF ManualInv, RepliesHold, ToldTheTruth
<1>2. QED
  BY <1>1, ManualInitInv, ManualInvStep, PTL DEF ManualSpec

(* No preview or card shows a state older than the TTL allows.             *)
THEOREM StateReadsAreFresh == ManualSpec => []BoundedStaleness
<1>1. ManualInv => BoundedStaleness
  BY InvBoundsStaleness DEF ManualInv
<1>2. QED
  BY <1>1, ManualInitInv, ManualInvStep, PTL DEF ManualSpec

(*-------------------------------------------------------------------------*)
(* Allocations.                                                            *)
(*-------------------------------------------------------------------------*)

(* allocation.json is left alone, or a run that computes writes it.        *)
BasisStep ==
  \/ UNCHANGED <<basis, replaced>>
  \/ \E h \in Caller :
       apc[h] = "computing" /\ Replace /\ basis' = Append(basis, seen[h])

Latest == basis[Version]

LEMMA ElementOf ==
  ASSUME NEW S, NEW s \in Seq(S), NEW i \in Nat \ {0}, Len(s) = i
  PROVE  s[i] \in S
OBVIOUS

LEMMA AllocInitType == CacheInit /\ AllocInit => AllocTypeOK
<1> SUFFICES ASSUME CacheInit, AllocInit
             PROVE  AllocTypeOK
  OBVIOUS
<1>1. basis \in Seq(Basis) /\ Len(basis) = 1 /\ Version = 1
  BY AllocationAssumption
     DEF CacheInit, AllocInit, Version, AllocationAssumption, Basis, NoBasis
<1>2. /\ told = [h \in Caller |-> Nothing] /\ pool = 0 /\ caps = 0 /\ lock = {}
      /\ runs = 0
      /\ apc = [h \in Caller |-> "idle"] /\ cron = [h \in Caller |-> FALSE]
      /\ seen = [h \in Caller |-> NoBasis] /\ asked = [h \in Caller |-> NoBasis]
      /\ overlapped = FALSE
  BY DEF AllocInit
<1>3. 0 \in 0..MaxInputs /\ 0 \in 0..MaxRuns
  BY AllocationAssumption DEF AllocationAssumption
<1>4. QED
  BY <1>1, <1>2, <1>3 DEF AllocTypeOK, Nothing, Basis, NoBasis

(* What the basis of the latest allocation is after a step.                *)
LEMMA BasisFacts ==
  ASSUME CacheTypeOK, AllocTypeOK, BasisStep
  PROVE  /\ basis' \in Seq(Basis) /\ Len(basis') = Version'
         /\ \/ Latest' = Latest /\ UNCHANGED basis
            \/ \E h \in Caller : apc[h] = "computing" /\ Latest' = seen[h]
<1>1. basis \in Seq(Basis) /\ Len(basis) = Version
  BY DEF AllocTypeOK
<1>2. CASE UNCHANGED <<basis, replaced>>
  BY <1>1, <1>2 DEF Latest, Version
<1>3. ASSUME NEW h \in Caller, apc[h] = "computing", Replace,
             basis' = Append(basis, seen[h])
      PROVE  /\ basis' \in Seq(Basis) /\ Len(basis') = Version'
             /\ Latest' = seen[h]
  <2>1. Version \in Nat /\ Version' = Version + 1
    BY <1>3, ReplaceFacts
  <2>2. seen[h] \in Basis
    BY DEF AllocTypeOK
  <2>3. QED
    BY <1>1, <1>3, <2>1, <2>2 DEF Latest
<1>4. QED
  BY <1>2, <1>3 DEF BasisStep

(* A step of Orchestrate does not touch what the others have asked for.    *)
LEMMA AllocStep ==
  ASSUME CacheTypeOK, AllocTypeOK, [AllocNext]_<<cacheVars, allocVars>>
  PROVE  AllocTypeOK' /\ BasisStep /\ CacheStep
<1> DEFINE Others ==
      /\ pool \in 0..MaxInputs /\ caps \in 0..MaxInputs
      /\ lock \in SUBSET (0..MaxTime)
      /\ apc \in [Caller -> {"idle", "spawned", "computing", "written", "done"}]
      /\ cron \in [Caller -> BOOLEAN]
      /\ seen \in [Caller -> Basis]
      /\ asked \in [Caller -> Basis]
      /\ told \in [Caller -> [pool : 0..MaxInputs, caps : 0..MaxInputs,
                              what : {"nothing", "ok", "skipped", "failed"}]]
      /\ runs \in 0..MaxRuns
      /\ overlapped \in BOOLEAN
<1> SUFFICES Others' /\ BasisStep /\ CacheStep
  BY BasisFacts DEF AllocTypeOK
<1>1. Others /\ NoBasis \in Basis
  BY AllocationAssumption DEF AllocTypeOK, AllocationAssumption, Basis, NoBasis
<1>2. ASSUME NEW h \in Caller, NEW what \in {"ok", "skipped", "failed"},
             Tell(h, what)
      PROVE  Others' /\ UNCHANGED basis
  <2>1. /\ apc' = [apc EXCEPT ![h] = "idle"]
        /\ told' = IF cron[h] THEN told
                   ELSE [told EXCEPT ![h] = [pool |-> asked[h].pool,
                                             caps |-> asked[h].caps,
                                             what |-> what]]
        /\ asked' = [asked EXCEPT ![h] = NoBasis]
        /\ seen' = [seen EXCEPT ![h] = NoBasis]
        /\ cron' = [cron EXCEPT ![h] = FALSE]
        /\ UNCHANGED <<pool, caps, basis, lock, runs, overlapped>>
    BY <1>2 DEF Tell, files, inputs
  <2>2. told' \in [Caller -> [pool : 0..MaxInputs, caps : 0..MaxInputs,
                              what : {"nothing", "ok", "skipped", "failed"}]]
    BY <1>1, <2>1 DEF Basis
  <2>3. QED
    BY <1>1, <2>1, <2>2
<1>3. ASSUME NEW h \in Caller, NEW what \in {"ok", "skipped", "failed"},
             \/ Succeed(h, what)
             \/ Tell(h, what) /\ UNCHANGED cacheVars
      PROVE  Others' /\ BasisStep /\ CacheStep
  <2>1. Tell(h, what) /\ UNCHANGED replaced
    BY <1>3 DEF Succeed, cacheVars
  <2>2. CacheStep
    <3>1. CASE Succeed(h, what) /\ cron[h]
      BY <3>1 DEF Succeed, CacheStep, cacheVars
    <3>2. CASE Succeed(h, what) /\ ~cron[h]
      BY <3>2 DEF Succeed, CacheStep, Confirms
    <3>3. QED
      BY <1>3, <3>1, <3>2 DEF CacheStep
  <2>3. QED
    BY <1>2, <2>1, <2>2 DEF BasisStep
<1>4. ASSUME NEW h \in Caller, NEW by \in {"request", "cron"},
             NEW respects \in BOOLEAN, Run(h, by, respects),
             pool' \in 0..MaxInputs, caps' \in 0..MaxInputs
      PROVE  Others' /\ BasisStep /\ CacheStep
  <2>1. [pool |-> pool', caps |-> caps', respects |-> respects] \in Basis
    BY <1>4 DEF Basis
  <2>2. QED
    BY <1>1, <1>4, <2>1, AllocationAssumption
       DEF Run, BasisStep, CacheStep, cacheVars, AllocationAssumption
<1>5. ASSUME NEW h \in Caller,
             \/ \E force, respects \in BOOLEAN : Allocate(h, force, respects)
             \/ SetTotalPool(h) \/ CronAllocates(h)
      PROVE  Others' /\ BasisStep /\ CacheStep
  <2>1. ASSUME NEW force \in BOOLEAN, NEW respects \in BOOLEAN,
               Allocate(h, force, respects)
        PROVE  Others' /\ BasisStep /\ CacheStep
    <3>1. UNCHANGED <<pool, caps>> /\ Run(h, "request", respects)
      BY <2>1 DEF Allocate, inputs
    <3>2. pool' \in 0..MaxInputs /\ caps' \in 0..MaxInputs
      BY <1>1, <3>1
    <3>3. QED
      BY <1>4, <3>1, <3>2
  <2>2. CASE SetTotalPool(h)
    <3>1. pool' \in 0..MaxInputs /\ caps' \in 0..MaxInputs
      BY <1>1, <2>2, AllocationAssumption
         DEF SetTotalPool, AllocationAssumption
    <3>2. QED
      BY <1>4, <2>2, <3>1 DEF SetTotalPool
  <2>3. CASE CronAllocates(h)
    <3>1. UNCHANGED <<pool, caps>> /\ Run(h, "cron", TRUE)
      BY <2>3 DEF CronAllocates, inputs
    <3>2. pool' \in 0..MaxInputs /\ caps' \in 0..MaxInputs
      BY <1>1, <3>1
    <3>3. QED
      BY <1>4, <3>1, <3>2
  <2>4. QED
    BY <1>5, <2>1, <2>2, <2>3
<1>6. CASE PutOverrides
  <2>1. caps' \in 0..MaxInputs
    BY <1>1, <1>6, AllocationAssumption DEF PutOverrides, AllocationAssumption
  <2>2. QED
    BY <1>1, <1>6, <2>1 DEF PutOverrides, BasisStep, CacheStep, cacheVars
<1>7. ASSUME NEW h \in Caller, CliSkips(h) \/ Done(h) \/ Fails(h)
      PROVE  Others' /\ BasisStep /\ CacheStep
  BY <1>3, <1>7 DEF CliSkips, Done, Fails
<1>8. ASSUME NEW h \in Caller, CliStarts(h)
      PROVE  Others' /\ BasisStep /\ CacheStep
  <2>1. overlapped' \in BOOLEAN
    BY <1>1, <1>8 DEF CliStarts
  <2>2. seen' \in [Caller -> Basis]
    BY <1>1, <1>8 DEF CliStarts, Basis
  <2>3. QED
    BY <1>1, <1>8, <2>1, <2>2
       DEF CliStarts, files, inputs, BasisStep, CacheStep, cacheVars
<1>9. ASSUME NEW h \in Caller, CliWrites(h)
      PROVE  Others' /\ BasisStep /\ CacheStep
  BY <1>1, <1>9 DEF CliWrites, BasisStep, CacheStep, Writes, inputs
<1>10. ASSUME NEW h \in Caller, CliEnds(h)
       PROVE  Others' /\ BasisStep /\ CacheStep
  BY <1>1, <1>10
     DEF CliEnds, BasisStep, CacheStep, cacheVars, CacheTypeOK, inputs
<1>11. CASE /\ (\E r \in Reader : Read(r)) \/ ClearedByOthers \/ Tick
            /\ UNCHANGED allocVars
  <2>1. UNCHANGED replaced
    BY <1>11 DEF Read, Miss, Load, Store, ClearedByOthers, Tick
  <2>2. Others' /\ UNCHANGED basis
    BY <1>1, <1>11 DEF allocVars, inputs
  <2>3. QED
    BY <1>11, <2>1, <2>2 DEF BasisStep, CacheStep
<1>12. CASE UNCHANGED <<cacheVars, allocVars>>
  <2>1. UNCHANGED cacheVars /\ UNCHANGED allocVars
    BY <1>12
  <2>2. QED
    BY <1>1, <2>1 DEF cacheVars, allocVars, inputs, BasisStep, CacheStep
<1>13. QED
  BY <1>5, <1>6, <1>7, <1>8, <1>9, <1>10, <1>11, <1>12
     DEF AllocNext, Orchestrate

-----------------------------------------------------------------------------
(* What was computed from or asked with one is no newer than the other.    *)
Older(a, b) == a.pool <= b.pool /\ a.caps <= b.caps

OnFileNow == [pool |-> pool, caps |-> caps]

(* Inputs only get newer, and everybody's view of them is a past one.      *)
ViewsArePast ==
  /\ Older(Latest, OnFileNow)
  /\ \A h \in Caller : Older(asked[h], OnFileNow) /\ Older(seen[h], OnFileNow)

(* Runs have computed one at a time: each from inputs as new as it was     *)
(* asked for, as new as those of the allocation it replaces, and what a    *)
(* request waited for, or was told of, is in the file.                     *)
RunsInTurn ==
  overlapped \/
    /\ \A g, h \in Caller :
         apc[g] = "computing" /\ apc[h] = "computing" => g = h
    /\ \A h \in Caller :
         /\ apc[h] = "computing" =>
              Older(Latest, seen[h]) /\ Older(asked[h], seen[h])
         /\ apc[h] \in {"written", "done"} => Older(asked[h], Latest)
         /\ told[h].what = "ok" => Older(told[h], Latest)

AllocInv == CacheInv /\ AllocTypeOK /\ ViewsArePast /\ RunsInTurn

LEMMA AllocInitInv == CacheInit /\ AllocInit => AllocInv
<1> SUFFICES ASSUME CacheInit, AllocInit
             PROVE  AllocInv
  OBVIOUS
<1>1. Latest = NoBasis
  BY DEF CacheInit, AllocInit, Latest, Version
<1>2. ViewsArePast /\ RunsInTurn
  BY <1>1
     DEF AllocInit, ViewsArePast, RunsInTurn, Nothing, NoBasis, Older, OnFileNow
<1>3. QED
  BY <1>2, CacheInitInv, AllocInitType DEF AllocInv

(* A type for views that no bound hides. *)
Views == [pool : Nat, caps : Nat, respects : BOOLEAN]

LEMMA AllocInvStep ==
  AllocInv /\ [AllocNext]_<<cacheVars, allocVars>> => AllocInv'
<1> SUFFICES ASSUME AllocInv, [AllocNext]_<<cacheVars, allocVars>>
             PROVE  AllocInv'
  OBVIOUS
<1>1. CacheTypeOK /\ AllocTypeOK
  BY DEF AllocInv, CacheInv
<1>2. AllocTypeOK' /\ BasisStep /\ CacheStep
  BY <1>1, AllocStep
<1>3. CacheInv'
  BY <1>2, CacheInvStep DEF AllocInv
<1>4. /\ pool \in Nat /\ pool' \in Nat /\ caps \in Nat /\ caps' \in Nat
      /\ Latest \in Views
      /\ apc \in [Caller -> {"idle", "spawned", "computing", "written", "done"}]
      /\ seen \in [Caller -> Views] /\ asked \in [Caller -> Views]
      /\ told \in [Caller -> [pool : Nat, caps : Nat,
                              what : {"nothing", "ok", "skipped", "failed"}]]
  <2>1. /\ basis \in Seq(Basis) /\ Len(basis) = Version
        /\ Version \in Nat \ {0}
    BY <1>1, ReadCacheAssumption
       DEF AllocTypeOK, CacheTypeOK, Versions, ReadCacheAssumption
  <2>2. Latest \in Basis
    BY <2>1, ElementOf DEF Latest
  <2>3. Basis \subseteq Views /\ 0..MaxInputs \subseteq Nat
    BY DEF Basis, Views
  <2>4. QED
    BY <1>1, <1>2, <2>2, <2>3 DEF AllocTypeOK
<1> USE DEF Views, Older, OnFileNow, NoBasis
<1> DEFINE Goal == ViewsArePast' /\ RunsInTurn'
<1>5. ASSUME UNCHANGED <<basis, replaced>>
      PROVE  Latest' = Latest
  BY <1>5 DEF Latest, Version
<1>6. ASSUME NEW h \in Caller, NEW what \in {"ok", "skipped", "failed"},
             Tell(h, what), UNCHANGED replaced,
             what = "ok" => apc[h] = "done"
      PROVE  Goal
  <2>1. /\ apc' = [apc EXCEPT ![h] = "idle"]
        /\ told' = IF cron[h] THEN told
                   ELSE [told EXCEPT ![h] = [pool |-> asked[h].pool,
                                             caps |-> asked[h].caps,
                                             what |-> what]]
        /\ asked' = [asked EXCEPT ![h] = NoBasis]
        /\ seen' = [seen EXCEPT ![h] = NoBasis]
        /\ UNCHANGED <<pool, caps, basis, overlapped>>
    BY <1>6 DEF Tell, files, inputs
  <2>2. Latest' = Latest
    BY <1>5, <1>6, <2>1
  <2>3. ViewsArePast'
    BY <1>4, <2>1, <2>2 DEF AllocInv, ViewsArePast
  <2>4. \A g \in Caller :
          \/ told'[g] = told[g]
          \/ /\ g = h /\ told'[g].what = what
             /\ told'[g].pool = asked[h].pool /\ told'[g].caps = asked[h].caps
    BY <1>4, <2>1
  <2>5. RunsInTurn'
    BY <1>4, <1>6, <2>1, <2>2, <2>4 DEF AllocInv, RunsInTurn
  <2>6. QED
    BY <2>3, <2>5
<1>7. ASSUME NEW h \in Caller, NEW by, NEW respects, Run(h, by, respects),
             pool <= pool', caps <= caps'
      PROVE  Goal
  <2>1. /\ apc[h] = "idle" /\ apc' = [apc EXCEPT ![h] = "spawned"]
        /\ asked' = [asked EXCEPT ![h] = [pool |-> pool', caps |-> caps',
                                          respects |-> respects]]
        /\ UNCHANGED <<basis, seen, told, overlapped, replaced>>
    BY <1>7 DEF Run, cacheVars
  <2>2. Latest' = Latest
    BY <1>5, <2>1
  <2>3. ViewsArePast'
    BY <1>4, <1>7, <2>1, <2>2 DEF AllocInv, ViewsArePast
  <2>4. RunsInTurn'
    BY <1>4, <2>1, <2>2 DEF AllocInv, RunsInTurn
  <2>5. QED
    BY <2>3, <2>4
<1>8. ASSUME NEW h \in Caller,
             \/ \E force, respects \in BOOLEAN : Allocate(h, force, respects)
             \/ SetTotalPool(h) \/ CronAllocates(h)
      PROVE  Goal
  <2> HIDE DEF Goal
  <2>1. ASSUME NEW by, NEW respects, Run(h, by, respects),
               UNCHANGED <<pool, caps>>
        PROVE  Goal
    BY <1>4, <1>7, <2>1
  <2>2. CASE SetTotalPool(h)
    <3>1. pool' = pool + 1 /\ caps' = caps /\ Run(h, "request", TRUE)
      BY <2>2 DEF SetTotalPool
    <3>2. pool <= pool' /\ caps <= caps'
      <4>1. pool \in Nat /\ caps \in Nat
        BY <1>4
      <4>2. QED
        BY <3>1, <4>1
    <3>3. QED
      BY <1>7, <3>1, <3>2
  <2>3. CASE CronAllocates(h)
    BY <2>1, <2>3 DEF CronAllocates, inputs
  <2>4. ASSUME NEW force, NEW respects, Allocate(h, force, respects)
        PROVE  Goal
    BY <2>1, <2>4 DEF Allocate, inputs
  <2>5. QED
    BY <1>8, <2>2, <2>3, <2>4
<1>9. ASSUME PutOverrides
      PROVE  Goal
  <2>1. /\ pool' = pool /\ caps' = caps + 1
        /\ UNCHANGED <<basis, apc, seen, asked, told, overlapped, replaced>>
    BY <1>9 DEF PutOverrides, cacheVars
  <2>2. Latest' = Latest
    BY <1>5, <2>1
  <2>3. QED
    BY <1>4, <2>1, <2>2 DEF AllocInv, ViewsArePast, RunsInTurn
<1>10. ASSUME NEW h \in Caller, CliSkips(h) \/ Done(h) \/ Fails(h)
       PROVE  Goal
  BY <1>6, <1>10 DEF CliSkips, Done, Fails, Succeed, cacheVars
<1>11. ASSUME NEW h \in Caller, CliStarts(h)
       PROVE  Goal
  <2>1. /\ apc[h] = "spawned" /\ apc' = [apc EXCEPT ![h] = "computing"]
        /\ seen' = [seen EXCEPT ![h] = [pool |-> pool, caps |-> caps,
                                        respects |-> asked[h].respects]]
        /\ overlapped => overlapped'
        /\ (\E g \in Caller : apc[g] = "computing") => overlapped'
        /\ UNCHANGED <<pool, caps, basis, asked, told, replaced>>
    BY <1>11 DEF CliStarts, files, inputs, cacheVars
  <2>2. Latest' = Latest
    BY <1>5, <2>1
  <2>3. ViewsArePast'
    BY <1>4, <2>1, <2>2 DEF AllocInv, ViewsArePast
  <2>4. RunsInTurn'
    BY <1>4, <2>1, <2>2 DEF AllocInv, ViewsArePast, RunsInTurn
  <2>5. QED
    BY <2>3, <2>4
<1>12. ASSUME NEW h \in Caller, CliWrites(h)
       PROVE  Goal
  <2>1. /\ apc[h] = "computing" /\ apc' = [apc EXCEPT ![h] = "written"]
        /\ seen' = [seen EXCEPT ![h] = NoBasis]
        /\ UNCHANGED <<pool, caps, asked, told, overlapped>>
        /\ Replace /\ basis' = Append(basis, seen[h])
    BY <1>12 DEF CliWrites, inputs
  <2>2. Latest' = seen[h]
    <3>1. Version' = Len(basis) + 1 /\ basis \in Seq(Basis)
      BY <1>1, <2>1, ReplaceFacts DEF AllocTypeOK
    <3>2. QED
      BY <2>1, <3>1 DEF Latest
  <2>3. ViewsArePast'
    <3>1. Older(Latest', OnFileNow) /\ OnFileNow' = OnFileNow
      BY <2>1, <2>2 DEF AllocInv, ViewsArePast, OnFileNow
    <3>2. ASSUME NEW g \in Caller
          PROVE  Older(asked'[g], OnFileNow) /\ Older(seen'[g], OnFileNow)
      <4>1. Older(asked'[g], OnFileNow)
        BY <2>1 DEF AllocInv, ViewsArePast
      <4>2. seen'[g] = seen[g] \/ seen'[g] = NoBasis
        BY <1>4, <2>1
      <4>3. Older(NoBasis, OnFileNow)
        BY <1>4 DEF Older, NoBasis, OnFileNow
      <4>4. QED
        BY <4>1, <4>2, <4>3 DEF AllocInv, ViewsArePast
    <3>3. QED
      BY <3>1, <3>2 DEF ViewsArePast, Older
  <2>4. RunsInTurn'
    <3>1. SUFFICES ASSUME ~overlapped
                   PROVE  RunsInTurn'
      BY <2>1 DEF RunsInTurn
    <3>2. /\ \A g, k \in Caller :
                apc[g] = "computing" /\ apc[k] = "computing" => g = k
          /\ Older(Latest, seen[h]) /\ Older(asked[h], seen[h])
          /\ \A k \in Caller :
               /\ apc[k] \in {"written", "done"} => Older(asked[k], Latest)
               /\ told[k].what = "ok" => Older(told[k], Latest)
      BY <2>1, <3>1 DEF AllocInv, RunsInTurn
    <3>3. ASSUME NEW k \in Caller
          PROVE  /\ apc'[k] # "computing"
                 /\ apc'[k] \in {"written", "done"} =>
                      Older(asked'[k], Latest')
                 /\ told'[k].what = "ok" => Older(told'[k], Latest')
      BY <1>4, <2>1, <2>2, <3>2, <3>3
    <3>4. QED
      BY <3>3 DEF RunsInTurn
  <2>5. QED
    BY <2>3, <2>4
<1>13. ASSUME NEW h \in Caller, CliEnds(h)
       PROVE  Goal
  <2>1. /\ apc[h] = "written" /\ apc' = [apc EXCEPT ![h] = "done"]
        /\ UNCHANGED <<pool, caps, basis, seen, asked, told, overlapped,
                       replaced>>
    BY <1>13 DEF CliEnds, inputs, cacheVars
  <2>2. QED
    BY <1>4, <1>5, <2>1 DEF AllocInv, ViewsArePast, RunsInTurn
<1>14. ASSUME \/ /\ (\E r \in Reader : Read(r)) \/ ClearedByOthers \/ Tick
                 /\ UNCHANGED allocVars
              \/ UNCHANGED <<cacheVars, allocVars>>
       PROVE  Goal
  <2>1. UNCHANGED replaced
    BY <1>14 DEF Read, Miss, Load, Store, ClearedByOthers, Tick, cacheVars
  <2>2. UNCHANGED <<pool, caps, basis, apc, seen, asked, told, overlapped>>
    BY <1>14 DEF allocVars, inputs
  <2>3. QED
    BY <1>5, <2>1, <2>2 DEF AllocInv, ViewsArePast, RunsInTurn
<1>15. Goal
  <2> HIDE DEF Goal
  <2>1. ASSUME NEW h \in Caller, Orchestrate(h)
        PROVE  Goal
    BY <1>8, <1>10, <1>11, <1>12, <1>13, <2>1 DEF Orchestrate
  <2>2. \/ \E h \in Caller : Orchestrate(h)
        \/ PutOverrides
        \/ /\ (\E r \in Reader : Read(r)) \/ ClearedByOthers \/ Tick
           /\ UNCHANGED allocVars
        \/ UNCHANGED <<cacheVars, allocVars>>
    BY DEF AllocNext
  <2>3. QED
    BY <1>9, <1>14, <2>1, <2>2
<1>16. QED
  BY <1>2, <1>3, <1>15 DEF AllocInv

(* After "ok" the allocation is computed from a pool as new as the one the *)
(* request was made with, and from overrides as new as those if it was     *)
(* computed with overrides, and stays so, unless two runs computed at once.*)
THEOREM AllocationsAreCurrent == AllocSpec => []OkIsCurrent
<1>1. AllocInv => OkIsCurrent
  <2> SUFFICES ASSUME AllocInv, NEW h \in Caller, told[h].what = "ok",
                      ~overlapped
               PROVE  /\ basis[Version].pool >= told[h].pool
                      /\ basis[Version].caps >= told[h].caps
    BY DEF OkIsCurrent
  <2>1. Older(told[h], Latest)
    BY DEF AllocInv, RunsInTurn
  <2>2. QED
    BY <2>1 DEF Latest, Older
<1>2. QED
  BY <1>1, AllocInitInv, AllocInvStep, PTL DEF AllocSpec

(* A read of the allocation that begins after a run was confirmed shows it. *)
THEOREM AllocationsAreRead == AllocSpec => []ReadYourWrites
<1>1. AllocInv => ReadYourWrites
  BY InvReadsOwnWrites DEF AllocInv
<1>2. QED
  BY <1>1, AllocInitInv, AllocInvStep, PTL DEF AllocSpec

(*-------------------------------------------------------------------------*)
(* The three modules over one cache, as MCRequests runs them.              *)
(*-------------------------------------------------------------------------*)
RequestsInv == CacheInv /\ CommitTypeOK /\ ManualTypeOK /\ AllocTypeOK

LEMMA ManualRestsTyped ==
  ASSUME CacheTypeOK', ManualTypeOK, ManualRests
  PROVE  ManualTypeOK'
<1>1. Version' \in Nat
  BY ReadCacheAssumption DEF CacheTypeOK, Versions, ReadCacheAssumption
<1>2. statuses' = [v \in 1..Version' |-> "open"]
  BY DEF ManualRests
<1>3. statuses' \in Seq(Shown) /\ Len(statuses') = Version'
  BY <1>1, <1>2 DEF Status, Shown
<1>4. QED
  BY <1>3 DEF ManualRests, ManualTypeOK

LEMMA AllocRestsTyped ==
  ASSUME CacheTypeOK', AllocTypeOK, AllocRests
  PROVE  AllocTypeOK'
<1>1. Version' \in Nat /\ MaxInputs \in Nat
  BY ReadCacheAssumption, AllocationAssumption
     DEF CacheTypeOK, Versions, ReadCacheAssumption, AllocationAssumption
<1>2. basis' = [v \in 1..Version' |-> NoBasis]
  BY DEF AllocRests
<1>3. NoBasis \in Basis
  BY <1>1 DEF Basis, NoBasis
<1>4. basis' \in Seq(Basis) /\ Len(basis') = Version'
  BY <1>1, <1>2, <1>3
<1>5. QED
  BY <1>4 DEF AllocRests, AllocTypeOK, inputs

(* Every variable of the cache and of the three modules over it keeps its  *)
(* type, in the composition that MCRequests checks.                        *)
THEOREM TypeCorrect == Spec => []TypeOK
<1>1. Init => RequestsInv
  BY CacheInitInv, CommitInitType, ManualInitType, AllocInitType
     DEF Init, RequestsInv
<1>2. RequestsInv /\ [Next]_vars => RequestsInv'
  <2> SUFFICES ASSUME RequestsInv, [Next]_vars
               PROVE  RequestsInv'
    OBVIOUS
  <2>1. CacheTypeOK /\ CommitTypeOK /\ ManualTypeOK /\ AllocTypeOK
    BY DEF RequestsInv, CacheInv
  <2>2. CASE Commits
    <3>1. CommitNext /\ ManualRests /\ AllocRests
      BY <2>2 DEF Commits, CommitNext
    <3>2. CommitTypeOK' /\ CacheInv'
      BY <2>1, <3>1, CommitStep, CacheInvStep DEF RequestsInv
    <3>3. QED
      BY <2>1, <3>1, <3>2, ManualRestsTyped, AllocRestsTyped
         DEF RequestsInv, CacheInv
  <2>3. CASE Actions
    <3>1. ManualNext /\ UNCHANGED commitVars /\ AllocRests
      BY <2>3 DEF Actions
    <3>2. ManualTypeOK' /\ CacheInv'
      BY <2>1, <3>1, ManualStep, CacheInvStep DEF RequestsInv
    <3>3. CommitTypeOK'
      BY <2>1, <3>1 DEF CommitTypeOK, commitVars
    <3>4. QED
      BY <2>1, <3>1, <3>2, <3>3, AllocRestsTyped DEF RequestsInv, CacheInv
  <2>4. CASE Runs
    <3>1. AllocNext /\ UNCHANGED commitVars /\ ManualRests
      BY <2>4 DEF Runs
    <3>2. AllocTypeOK' /\ CacheInv'
      BY <2>1, <3>1, AllocStep, CacheInvStep DEF RequestsInv
    <3>3. CommitTypeOK'
      BY <2>1, <3>1 DEF CommitTypeOK, commitVars
    <3>4. QED
      BY <2>1, <3>1, <3>2, <3>3, ManualRestsTyped DEF RequestsInv, CacheInv
  <2>5. CASE UNCHANGED vars
    <3>1. UNCHANGED <<cacheVars, commitVars, manualVars, allocVars>>
      BY <2>5 DEF vars
    <3>2. CacheInv' /\ CommitTypeOK'
      BY <2>1, <3>1, CommitStep, CacheInvStep DEF RequestsInv
    <3>3. ManualTypeOK' /\ AllocTypeOK'
      BY <2>1, <3>1, ManualStep, AllocStep
    <3>4. QED
      BY <3>2, <3>3 DEF RequestsInv
  <2>6. QED
    BY <2>2, <2>3, <2>4, <2>5 DEF Next
<1>3. RequestsInv => TypeOK
  BY DEF RequestsInv, CacheInv, TypeOK
<1>4. QED
  BY <1>1, <1>2, <1>3, PTL DEF Spec
=============================================================================
