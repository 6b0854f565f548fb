---------------------------- MODULE ConfigCommit ----------------------------
(***************************************************************************)
(* PUT /api/v1/strategies/{id}/config (routes/strategies.py) for one       *)
(* strategy: a shim process validates the edit, a second one reads the     *)
(* whole strategy.yaml and writes it back with one path changed, the audit *)
(* entry is appended, the cache of state_reader is cleared. No lock is     *)
(* held over any of it. The kill switch (routes/system.py) runs the same   *)
(* shim to set `mode`, which is no path of PUT /config.                    *)
(*                                                                         *)
(* The audit entries that are not a success say nothing of the file and    *)
(* are left out. `unrecorded` and `tangled` are history variables: paths   *)
(* last changed by a set that has no success entry, and paths on which two *)
(* commits, or a commit and the kill switch, got in each other's way.      *)
(***************************************************************************)
EXTENDS ReadCache

CONSTANTS
  Client,     \* threads that may serve a commit at the same time
  Path,       \* the whitelisted paths of strategy.yaml
  Value,      \* what a client may send
  Valid,      \* the pairs of path and value within type and bounds
  Fault,      \* what may go wrong; a subset of Faults
  MaxCommits  \* bound: commits

(* "shim": a shim crashes or is killed by its time-out before it writes;   *)
(* "timeout": after it has; "audit": an entry cannot be appended.          *)
Faults == {"shim", "timeout", "audit"}

ASSUME ConfigCommitAssumption ==
  /\ Fault \subseteq Faults
  /\ Path # {} /\ Valid \subseteq Path \X Value
  /\ MaxCommits \in Nat

VARIABLES
  file,     \* strategy.yaml: a value per path
  trail,    \* the success entries of the audit log, oldest first
  cpc,      \* where each commit is
  edit,     \* its payload
  yaml,     \* what its set shim has read
  flip,     \* what a shim of the kill switch has read; empty: none runs
  commits,
  origin,   \* history: strategy.yaml at first
  unrecorded, tangled

commitVars == <<file, trail, cpc, edit, yaml, flip, commits, origin,
                unrecorded, tangled>>

NewEntry(e) == [path |-> e.path, new |-> e.new]

At(c, from, to) == cpc[c] = from /\ cpc' = [cpc EXCEPT ![c] = to]

-----------------------------------------------------------------------------
Commit(c, path, value) ==
  /\ At(c, "idle", "validating")
  /\ commits < MaxCommits
  /\ commits' = commits + 1
  /\ edit' = [edit EXCEPT ![c] = [path |-> path, new |-> value]]
  /\ UNCHANGED <<file, trail, yaml, flip, origin, unrecorded, tangled,
                 cacheVars>>

(* The validate shim: parse_value and validate_bounds. An edit it refuses  *)
(* ends in 400, recorded or not.                                           *)
Validate(c) ==
  /\ At(c, "validating", "setting")
  /\ <<edit[c].path, edit[c].new>> \in Valid
  /\ UNCHANGED <<file, trail, edit, yaml, flip, commits, origin, unrecorded,
                 tangled, cacheVars>>

Refuse(c) ==
  /\ At(c, "validating", "idle")
  /\ <<edit[c].path, edit[c].new>> \notin Valid \/ "shim" \in Fault
  /\ UNCHANGED <<file, trail, edit, yaml, flip, commits, origin, unrecorded,
                 tangled, cacheVars>>

(* The set shim reads the whole file. *)
ReadYaml(c) ==
  /\ At(c, "setting", "writing")
  /\ yaml' = [yaml EXCEPT ![c] = file]
  /\ UNCHANGED <<file, trail, edit, flip, commits, origin, unrecorded, tangled,
                 cacheVars>>

(* It writes the whole file. What another shim has written since the read  *)
(* is gone; and if another commit to the path is yet to be recorded, their *)
(* entries may come in either order. A shim killed after the write leaves  *)
(* it in place, and the commit ends in 500.                                *)
WriteYaml(c) ==
  LET path == edit[c].path
      Pending(d) == d # c /\ cpc[d] = "recording" /\ edit[d].path = path
  IN
  /\ cpc[c] = "writing"
  /\ \E to \in {"recording", "idle"} :
       /\ to = "idle" => "timeout" \in Fault
       /\ cpc' = [cpc EXCEPT ![c] = to]
  /\ file' = [yaml[c] EXCEPT ![path] = edit[c].new]
  /\ Replace
  /\ unrecorded' = unrecorded \cup {path}
  /\ tangled' = tangled \cup {p \in Path \ {path} : yaml[c][p] # file[p]}
                        \cup {p \in {path} : \E d \in Client : Pending(d)}
  /\ UNCHANGED <<trail, edit, yaml, flip, commits, origin, now, readers,
                 promised>>

(* Mutation: a set shim that has failed is recorded as a success. *)
SetFailsUnnoticed(c) ==
  /\ cpc[c] \in {"setting", "writing"}
  /\ "shim" \in Fault
  /\ cpc' = [cpc EXCEPT ![c] = "recording"]
  /\ UNCHANGED <<file, trail, edit, yaml, flip, commits, origin, unrecorded,
                 tangled, cacheVars>>

(* A set shim that fails before it writes: 500, recorded or not. *)
SetFails(c) ==
  /\ cpc[c] \in {"setting", "writing"}
  /\ "shim" \in Fault
  /\ cpc' = [cpc EXCEPT ![c] = "idle"]
  /\ UNCHANGED <<file, trail, edit, yaml, flip, commits, origin, unrecorded,
                 tangled, cacheVars>>

Record(c) ==
  /\ At(c, "recording", "clearing")
  /\ trail' = Append(trail, NewEntry(edit[c]))
  /\ unrecorded' = unrecorded \ {edit[c].path}
  /\ UNCHANGED <<file, edit, yaml, flip, commits, origin, tangled, cacheVars>>

(* The entry cannot be appended: 500, and the cache is not cleared. *)
RecordFails(c) ==
  /\ At(c, "recording", "idle")
  /\ "audit" \in Fault
  /\ UNCHANGED <<file, trail, edit, yaml, flip, commits, origin, unrecorded,
                 tangled, cacheVars>>

(* clear_cache, and the client is told that the edit is committed. *)
Confirm(c) ==
  /\ At(c, "clearing", "idle")
  /\ ClearCache
  /\ Promise
  /\ UNCHANGED <<file, trail, edit, yaml, flip, commits, origin, unrecorded,
                 tangled, now, replaced, stage, began, loaded, floor>>

(* _flip_mode_all: a shim of the kill switch reads the whole file too and  *)
(* writes it back, which undoes what a commit has written since.           *)
FlipReads ==
  /\ flip = {}
  /\ flip' = {file}
  /\ UNCHANGED <<file, trail, cpc, edit, yaml, commits, origin, unrecorded,
                 tangled, cacheVars>>

FlipFails ==
  /\ "shim" \in Fault
  /\ flip # {}
  /\ flip' = {}
  /\ UNCHANGED <<file, trail, cpc, edit, yaml, commits, origin, unrecorded,
                 tangled, cacheVars>>

FlipWrites ==
  /\ flip # {}
  /\ file' \in flip
  /\ flip' = {}
  /\ Replace
  /\ tangled' = tangled \cup {p \in Path : file'[p] # file[p]}
  /\ UNCHANGED <<trail, cpc, edit, yaml, commits, origin, unrecorded, now,
                 readers, promised>>

-----------------------------------------------------------------------------
Edits == [path : Path, new : Value]

CommitInit ==
  /\ file \in [Path -> Value]
  /\ trail = <<>>
  /\ cpc = [c \in Client |-> "idle"]
  /\ edit \in [Client -> {CHOOSE e \in Edits : TRUE}]
  /\ yaml = [c \in Client |-> file]
  /\ flip = {}
  /\ commits = 0
  /\ origin = file
  /\ unrecorded = {}
  /\ tangled = {}

Serve(c) ==
  \/ \E path \in Path, value \in Value : Commit(c, path, value)
  \/ Validate(c) \/ Refuse(c)
  \/ ReadYaml(c) \/ WriteYaml(c) \/ SetFails(c)
  \/ Record(c) \/ RecordFails(c) \/ Confirm(c)

Flip == FlipReads \/ FlipFails \/ FlipWrites

(* Whoever else writes the file writes another path of it. *)
CommitNext ==
  \/ \E c \in Client : Serve(c)
  \/ Flip
  \/ CacheNext /\ UNCHANGED commitVars

CommitSpec ==
  CacheInit /\ CommitInit /\ [][CommitNext]_<<cacheVars, commitVars>>

CommitTypeOK ==
  /\ file \in [Path -> Value]
  /\ trail \in Seq(Edits)
  /\ cpc \in [Client -> {"idle", "validating", "setting", "writing",
                         "recording", "clearing"}]
  /\ edit \in [Client -> Edits]
  /\ yaml \in [Client -> [Path -> Value]]
  /\ flip \in SUBSET [Path -> Value]
  /\ commits \in 0..MaxCommits
  /\ origin \in [Path -> Value]
  /\ unrecorded \in SUBSET Path
  /\ tangled \in SUBSET Path

-----------------------------------------------------------------------------
EntriesOf(path) == {i \in DOMAIN trail : trail[i].path = path}

(* What the audit log says of a path: its latest entry, if it has one. *)
Tells(path, value) ==
  IF EntriesOf(path) = {} THEN value = origin[path]
  ELSE \E i \in EntriesOf(path) :
         trail[i].new = value /\ \A j \in EntriesOf(path) : j <= i

(* The audit log tells what is in the file: the latest success entry of a  *)
(* path holds its value, if no commit has changed it without an entry and  *)
(* no two commits, nor a commit and the kill switch, got in each other's   *)
(* way, whatever shims fail or time out.                                   *)
TrailTellsTheFile ==
  \A path \in Path \ (unrecorded \cup tangled) : Tells(path, file[path])

(* The same of every path that has no change without an entry, once every  *)
(* request is answered: an edit that is recorded holds ("closes the TOCTOU *)
(* window [...] between another client's concurrent edit").                *)
RecordedEditsHold ==
  (\A c \in Client : cpc[c] = "idle") =>
    \A path \in Path \ unrecorded : Tells(path, file[path])
=============================================================================
