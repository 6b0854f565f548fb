----------------------------- MODULE Killswitch -----------------------------
(***************************************************************************)
(* POST /api/v1/system/killswitch (routes/system.py). A press runs in a    *)
(* thread of the server's pool, so presses may overlap, and goes through   *)
(* files that no lock guards: each strategy's strategy.yaml, which a shim  *)
(* process rewrites, the pre-engage snapshot, and the audit log, whose     *)
(* latest system entry is the operator's intent.                           *)
(*                                                                         *)
(* The strategies of a press are visited in any order here, in that of     *)
(* STRATEGY_REGISTRY in the code. What the operator should get back is     *)
(* kept in history variables: `baseline`, the modes when an engage begins  *)
(* to act with no earlier one in force; `force`, "on" from then to the     *)
(* disengage that reports every strategy back, then "restored"; and        *)
(* `lost`, what has come between the snapshot and the baseline since then. *)
(* The operator may press either button at any time.                       *)
(***************************************************************************)
EXTENDS Naturals

CONSTANTS
  Strategy,      \* STRATEGY_REGISTRY
  Handler,       \* threads that may serve a press at the same time
  Fault,         \* what may go wrong; a subset of Faults
  InitialModes,  \* the modes the strategies may start with
  MaxPresses,    \* bound: presses
  MaxDeaths      \* bound: deaths of the server process

Mode   == {"live", "dry_run"}
Modes  == [Strategy -> Mode \cup {"none"}]     \* "none": no readable mode
Intent == {"engaged", "disengaged"}

(* "shim": a shim fails; "timeout": it has written when it is given up;    *)
(* "snapshot": the snapshot cannot be written; "unlink": nor deleted;      *)
(* "corrupt": it cannot be read, or is not JSON, or not of the right form; *)
(* "audit": an audit entry cannot be appended; "die": the process dies.    *)
Faults ==
  {"shim", "timeout", "snapshot", "unlink", "corrupt", "audit", "die"}

(* What may happen to the baseline of an engage in force. "unwritten": the *)
(* snapshot could not be written. "unsaved": none was taken, since the     *)
(* record said that an engage was in force already. "overwritten": it was  *)
(* taken again, since the record did not say so. "unread": a disengage     *)
(* could not read it.                                                      *)
Losses == {"unwritten", "unsaved", "overwritten", "unread"}

ASSUME KillswitchAssumption ==
  /\ Fault \subseteq Faults
  /\ InitialModes \subseteq Modes
  /\ InitialModes # {}
  /\ MaxPresses \in Nat
  /\ MaxDeaths \in Nat

VARIABLES
  mode,      \* the mode in each strategy.yaml
  saved,     \* does the snapshot file exist?
  snapshot,  \* the modes it holds; "none" for a strategy it lacks
  intent,    \* the latest operator intent in the audit log
  pc,        \* where each handler is
  engage,    \* payload.engaged of its press
  pre,       \* pre_modes
  preIntent, \* pre_intent
  target,    \* target_per_strategy
  todo,      \* strategies its current loop has still to visit
  allOk,     \* are all results of the flip loop ok so far?
  reported,  \* the latest response, if no press began since
  baseline, force, lost,
  presses, deaths

disk    == <<mode, saved, snapshot, intent>>
locals  == <<engage, pre, preIntent, target, todo, allOk>>
history == <<baseline, force, lost>>
counts  == <<presses, deaths>>
vars == <<mode, saved, snapshot, intent, pc, engage, pre, preIntent, target,
          todo, allOk, reported, baseline, force, lost, presses, deaths>>

NoReport == [engaged |-> FALSE, ok |-> FALSE]

Go(h, from, to) == pc[h] = from /\ pc' = [pc EXCEPT ![h] = to]

Idle == \A h \in Handler : pc[h] = "idle"

-----------------------------------------------------------------------------
(* _write_snapshot: may fail, which stops nothing. *)
WriteSnapshot(modes, written) ==
  /\ written \/ "snapshot" \in Fault
  /\ saved' = (saved \/ written)
  /\ snapshot' = IF written THEN modes ELSE snapshot

(* _read_snapshot, and what a disengage makes of it: "live" for a strategy *)
(* it does not name, and for every one if it is not there or cannot be     *)
(* read.                                                                   *)
SnapshotMode(s, readable) ==
  IF saved /\ readable /\ snapshot[s] # "none" THEN snapshot[s] ELSE "live"

(* _delete_snapshot: a file that cannot be deleted stays. *)
DeleteSnapshot ==
  \E deleted \in BOOLEAN :
    /\ deleted \/ "unlink" \in Fault
    /\ saved' = (saved /\ ~deleted)

(* run_shim: a shim that is given up may have written all the same. *)
RunShim(s, m, outcome) ==
  /\ outcome = "failed" => "shim" \in Fault
  /\ outcome = "written" => "timeout" \in Fault
  /\ mode' = IF outcome = "failed" THEN mode ELSE [mode EXCEPT ![s] = m]

(* audit.write_event. *)
WriteEvent(recorded) == recorded \/ "audit" \in Fault

-----------------------------------------------------------------------------
Press(h, engaged) ==
  /\ Go(h, "idle", "reading")
  /\ presses < MaxPresses
  /\ presses' = presses + 1
  /\ engage' = [engage EXCEPT ![h] = engaged]
  /\ todo' = [todo EXCEPT ![h] = Strategy]
  /\ allOk' = [allOk EXCEPT ![h] = TRUE]
  /\ reported' = NoReport
  /\ UNCHANGED <<disk, pre, preIntent, target, history, deaths>>

(* pre_modes, one file after the other. *)
ReadMode(h, s) ==
  /\ pc[h] = "reading"
  /\ s \in todo[h]
  /\ todo' = [todo EXCEPT ![h] = @ \ {s}]
  /\ pre' = [pre EXCEPT ![h][s] = mode[s]]
  /\ UNCHANGED <<disk, pc, engage, preIntent, target, allOk, reported,
                 history, counts>>

ReadIntent(h) ==
  /\ Go(h, "reading", "deciding")
  /\ todo[h] = {}
  /\ preIntent' = [preIntent EXCEPT ![h] = intent]
  /\ UNCHANGED <<disk, engage, pre, target, todo, allOk, reported, history,
                 counts>>

(* An engage begins to act: `first` is what becomes of the baseline if no  *)
(* earlier engage is in force, `again` if one is.                          *)
Engaging(first, again) ==
  /\ force' = "on"
  /\ IF force = "on"
     THEN baseline' = baseline /\ lost' = lost \cup again
     ELSE baseline' = mode /\ lost' = first

AimAt(h, modes) ==
  /\ Go(h, "deciding", "flipping")
  /\ target' = [target EXCEPT ![h] = modes]
  /\ todo' = [todo EXCEPT ![h] = Strategy]

(* Mutation: every engage takes a new snapshot. *)
DecideEngageAlwaysSaves(h) ==
  /\ engage[h]
  /\ AimAt(h, [s \in Strategy |-> "dry_run"])
  /\ saved' = TRUE
  /\ snapshot' = pre[h]
  /\ Engaging({}, {})
  /\ UNCHANGED <<mode, intent, engage, pre, preIntent, allOk, reported, counts>>

(* Engage: all to dry_run, and a snapshot of pre_modes only if the intent  *)
(* on record is "disengaged".                                              *)
DecideEngage(h) ==
  /\ engage[h]
  /\ AimAt(h, [s \in Strategy |-> "dry_run"])
  /\ IF preIntent[h] = "disengaged"
     THEN \E written \in BOOLEAN :
            /\ WriteSnapshot(pre[h], written)
            /\ IF written THEN Engaging({}, {"overwritten"})
               ELSE Engaging({"unwritten"}, {})
     ELSE /\ UNCHANGED <<saved, snapshot>>
          /\ Engaging({"unsaved"}, {})
  /\ UNCHANGED <<mode, intent, engage, pre, preIntent, allOk, reported, counts>>

(* Mutation: disengage is a blanket "live". *)
DecideDisengageBlanket(h) ==
  /\ ~engage[h]
  /\ AimAt(h, [s \in Strategy |-> "live"])
  /\ UNCHANGED <<disk, engage, pre, preIntent, allOk, reported, history,
                 counts>>

(* Disengage: what the snapshot says, "live" for what it does not say. *)
DecideDisengage(h) ==
  /\ ~engage[h]
  /\ \E readable \in BOOLEAN :
       /\ readable \/ "corrupt" \in Fault
       /\ AimAt(h, [s \in Strategy |-> SnapshotMode(s, readable)])
       /\ lost' = IF readable THEN lost ELSE lost \cup {"unread"}
  /\ UNCHANGED <<disk, engage, pre, preIntent, allOk, reported, baseline,
                 force, counts>>

-----------------------------------------------------------------------------
(* A strategy read at its target is left alone. *)
Skip(h, s) ==
  /\ pc[h] = "flipping"
  /\ s \in todo[h]
  /\ pre[h][s] = target[h][s]
  /\ todo' = [todo EXCEPT ![h] = @ \ {s}]
  /\ UNCHANGED <<disk, pc, engage, pre, preIntent, target, allOk, reported,
                 history, counts>>

(* Mutation: a failed shim does not count against the press. *)
FlipAlwaysOk(h, s) ==
  /\ pc[h] = "flipping"
  /\ s \in todo[h]
  /\ pre[h][s] # target[h][s]
  /\ \E outcome \in {"ok", "failed"} :
       /\ outcome = "failed" => "shim" \in Fault
       /\ mode' = IF outcome = "ok"
                  THEN [mode EXCEPT ![s] = target[h][s]] ELSE mode
       /\ todo' = [todo EXCEPT ![h] = @ \ {s}]
  /\ UNCHANGED <<saved, snapshot, intent, pc, engage, pre, preIntent, target,
                 allOk, reported, history, counts>>

(* A strategy to flip: the shim, then its audit entry. An entry that cannot *)
(* be appended ends the press in an error response, with the strategies     *)
(* left over as they were.                                                  *)
Flip(h, s) ==
  /\ pc[h] = "flipping"
  /\ s \in todo[h]
  /\ pre[h][s] # target[h][s]
  /\ \E outcome \in {"ok", "failed", "written"}, recorded \in BOOLEAN :
       /\ RunShim(s, target[h][s], outcome)
       /\ WriteEvent(recorded)
       /\ allOk' = [allOk EXCEPT ![h] = @ /\ outcome = "ok"]
       /\ pc' = [pc EXCEPT ![h] = IF recorded THEN @ ELSE "idle"]
       /\ todo' = [todo EXCEPT ![h] = IF recorded THEN @ \ {s} ELSE {}]
  /\ UNCHANGED <<saved, snapshot, intent, engage, pre, preIntent, target,
                 reported, history, counts>>

(* Mutation: a disengage deletes the snapshot whatever its results. *)
CleanUpAlways(h) ==
  /\ Go(h, "flipping", "auditing")
  /\ todo[h] = {}
  /\ saved' = (saved /\ engage[h])
  /\ force' =
       IF ~engage[h] /\ allOk[h] /\ force = "on" THEN "restored" ELSE force
  /\ UNCHANGED <<mode, snapshot, intent, locals, reported, baseline, lost,
                 counts>>

(* Mutation: a press goes on only once every strategy has converged. *)
CleanUpIfAllOk(h) ==
  /\ Go(h, "flipping", "auditing")
  /\ todo[h] = {} /\ allOk[h]
  /\ saved' = (saved /\ engage[h])
  /\ force' = IF ~engage[h] /\ force = "on" THEN "restored" ELSE force
  /\ UNCHANGED <<mode, snapshot, intent, locals, reported, baseline, lost,
                 counts>>

(* After the loop: only a disengage whose results are all ok deletes the   *)
(* snapshot.                                                               *)
CleanUp(h) ==
  /\ Go(h, "flipping", "auditing")
  /\ todo[h] = {}
  /\ IF ~engage[h] /\ allOk[h]
     THEN /\ DeleteSnapshot
          /\ force' = IF force = "on" THEN "restored" ELSE force
     ELSE UNCHANGED <<saved, force>>
  /\ UNCHANGED <<mode, snapshot, intent, locals, reported, baseline, lost,
                 counts>>

(* Mutation: the system entry holds the aggregate state, as it once did. *)
RecordAggregate(h) ==
  /\ Go(h, "auditing", "idle")
  /\ intent' = IF ~allOk[h] THEN "partial"
               ELSE IF engage[h] THEN "engaged" ELSE "disengaged"
  /\ reported' = [engaged |-> engage[h], ok |-> allOk[h]]
  /\ UNCHANGED <<mode, saved, snapshot, locals, history, counts>>

(* The system entry, last of all, then the response; or an error response. *)
Record(h) ==
  /\ Go(h, "auditing", "idle")
  /\ \E recorded \in BOOLEAN :
       /\ WriteEvent(recorded)
       /\ IF recorded
          THEN /\ intent' = IF engage[h] THEN "engaged" ELSE "disengaged"
               /\ reported' = [engaged |-> engage[h], ok |-> allOk[h]]
          ELSE UNCHANGED <<intent, reported>>
  /\ UNCHANGED <<mode, saved, snapshot, locals, history, counts>>

(* The process dies: the presses are gone, the files remain. *)
Die ==
  /\ "die" \in Fault
  /\ deaths < MaxDeaths
  /\ ~Idle
  /\ deaths' = deaths + 1
  /\ pc' = [h \in Handler |-> "idle"]
  /\ todo' = [h \in Handler |-> {}]
  /\ UNCHANGED <<disk, engage, pre, preIntent, target, allOk, reported,
                 history, presses>>

-----------------------------------------------------------------------------
Init ==
  /\ mode \in InitialModes
  /\ saved = FALSE
  /\ snapshot = [s \in Strategy |-> "none"]
  /\ intent = "disengaged"
  /\ pc = [h \in Handler |-> "idle"]
  /\ engage = [h \in Handler |-> FALSE]
  /\ pre = [h \in Handler |-> [s \in Strategy |-> "none"]]
  /\ preIntent = [h \in Handler |-> "disengaged"]
  /\ target = [h \in Handler |-> [s \in Strategy |-> "none"]]
  /\ todo = [h \in Handler |-> {}]
  /\ allOk = [h \in Handler |-> TRUE]
  /\ reported = NoReport
  /\ baseline = mode
  /\ force = "never"
  /\ lost = {}
  /\ presses = 0
  /\ deaths = 0

Work(h) ==
  \/ \E s \in Strategy : ReadMode(h, s) \/ Skip(h, s) \/ Flip(h, s)
  \/ ReadIntent(h)
  \/ DecideEngage(h)
  \/ DecideDisengage(h)
  \/ CleanUp(h)
  \/ Record(h)

Next ==
  \/ \E h \in Handler : Work(h) \/ \E engaged \in BOOLEAN : Press(h, engaged)
  \/ Die

Spec == Init /\ [][Next]_vars

(* A thread runs on; each shim call is cut off by its own time-out. *)
FairSpec == Spec /\ \A h \in Handler : WF_vars(Work(h))

-----------------------------------------------------------------------------
TypeOK ==
  /\ mode \in Modes
  /\ saved \in BOOLEAN
  /\ snapshot \in Modes
  /\ intent \in Intent
  /\ pc \in [Handler -> {"idle", "reading", "deciding", "flipping", "auditing"}]
  /\ engage \in [Handler -> BOOLEAN]
  /\ pre \in [Handler -> Modes]
  /\ preIntent \in [Handler -> Intent]
  /\ target \in [Handler -> Modes]
  /\ todo \in [Handler -> SUBSET Strategy]
  /\ allOk \in [Handler -> BOOLEAN]
  /\ reported \in [engaged : BOOLEAN, ok : BOOLEAN]
  /\ baseline \in Modes
  /\ force \in {"never", "on", "restored"}
  /\ lost \subseteq Losses
  /\ presses \in 0..MaxPresses
  /\ deaths \in 0..MaxDeaths

(* What is not at its pre-engage mode has that mode in the snapshot file.  *)
BaselineSaved ==
  \A s \in Strategy :
    mode[s] # baseline[s] /\ baseline[s] # "none" =>
      saved /\ snapshot[s] = baseline[s]

(* What the kill switch has changed it can put back from the snapshot      *)
(* file, after partial engages and disengages, failing shims, audit        *)
(* entries and deletions, and a death of the server at any point, unless   *)
(* the engage in force could not write the snapshot or was misled by the   *)
(* intent on record, or a disengage has failed to read it (Losses).        *)
Recoverable == force = "on" /\ lost = {} => BaselineSaved

(* A disengage that reports every strategy ok has put each one back to     *)
(* exactly its pre-engage mode, however many presses it took, with the     *)
(* same exceptions.                                                        *)
RestoredExactly ==
  [][force # "restored" /\ force' = "restored" /\ lost = {} =>
       \A s \in Strategy : baseline[s] # "none" => mode'[s] = baseline[s]]_vars

(* What system.py says of the snapshot with no exception: "On disengaged-> *)
(* engaged transition, capture each strategy's current mode to a snapshot  *)
(* file BEFORE flipping anything".                                         *)
AlwaysRecoverable == force = "on" => BaselineSaved

(* Once an engage has answered that every strategy is ok, and until the    *)
(* next press begins, every strategy is in dry_run.                        *)
EngagedIsDry ==
  Idle /\ reported = [engaged |-> TRUE, ok |-> TRUE] =>
    \A s \in Strategy : mode[s] = "dry_run"

(* A strategy the operator keeps in dry_run does not start trading because *)
(* of the kill switch, even if the snapshot has been overwritten by an     *)
(* engage after an unrecorded engage or a partial disengage: the engage in *)
(* force must only have taken a snapshot, and the disengages read it.      *)
DryRunStays ==
  force = "on" /\ lost \subseteq {"overwritten"} =>
    \A s \in Strategy : baseline[s] = "dry_run" => mode[s] = "dry_run"

(* Every press ends. *)
EveryPressEnds ==
  \A h \in Handler : pc[h] # "idle" ~> pc[h] = "idle"

(* Once a disengage has put every strategy back to its pre-engage mode, a  *)
(* second press of disengage, with nothing pressed in between, leaves them *)
(* there (system.py: "Strategies already at the target get no per-strategy *)
(* entry -- avoids audit spam on double-clicks", and a restore is "not to  *)
(* a blanket live").                                                       *)
BackToBaseline ==
  Idle /\ force = "restored" =>
    \A s \in Strategy : baseline[s] # "none" => mode[s] = baseline[s]
=============================================================================
