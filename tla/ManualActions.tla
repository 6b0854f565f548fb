--------------------------- MODULE ManualActions ---------------------------
(***************************************************************************)
(* The manual scan and the manual close of a position of one strategy      *)
(* (routes/strategies.py, actions.py). A request checks what it must, runs *)
(* the strategy's own command line in a subprocess, waits for it at most   *)
(* 30 s (a scan) or 90 s (a close) and translates its exit code. The file  *)
(* behind the cache is the strategy's state.json, of which only what it    *)
(* says of one position is kept.                                           *)
(*                                                                         *)
(* The command line is not part of this repository. From how actions.py    *)
(* uses it (ARCH-18): a close looks for STOP and for the position, orders  *)
(* at the broker, saves state.json and exits with 0 to 5; with --dry-run,  *)
(* or if the mode in its own yaml is dry_run, it only simulates. Other     *)
(* runs of the strategy (cron) may close the position as well; none opens  *)
(* it again.                                                               *)
(***************************************************************************)
EXTENDS ReadCache

CONSTANTS
  Operator,  \* threads that may serve a manual action at the same time
  MaxPosts   \* bound: manual actions

ASSUME ManualActionsAssumption == MaxPosts \in Nat

VARIABLES
  status,    \* the position's status
  statuses,  \* statuses[v]: what version v of state.json says of it
  halted,    \* there is a STOP file, the strategy's or the global one
  paper,     \* the mode in the strategy's yaml is dry_run
  mpc,       \* where the request, or the command line it runs, is
  dry,       \* its --dry-run
  reply,     \* the last answer given
  posts,
  orders,    \* history: close orders at the broker
  ordered,   \* history: the request has ordered
  doubtful   \* history: an order's outcome was left open, or two closes met

manualVars == <<status, statuses, halted, paper, mpc, dry, reply, posts,
                orders, ordered, doubtful>>
position == <<status, statuses>>
scene == <<halted, paper, posts>>

Status == {"open", "closed", "gone"}

(* read_state: "unreadable" if state.json is missing or cannot be parsed.  *)
Shown == Status \cup {"unreadable"}

(* read_halt_detail, which asks the file system itself. *)
Halted == halted

OnFile == statuses[Version]
Later(s) == CASE s = "open"   -> Status
              [] s = "closed" -> {"closed", "gone"}
              [] s = "gone"   -> {"gone"}

Goto(c, step) == mpc' = [mpc EXCEPT ![c] = step]
Save(s) == Replace /\ status' = s /\ statuses' = Append(statuses, s)

Reply(c, told) ==
  /\ Goto(c, "idle")
  /\ reply' = [reply EXCEPT ![c] = [told |-> told, ordered |-> ordered[c]]]
  /\ ordered' = [ordered EXCEPT ![c] = FALSE]
  /\ dry' = [dry EXCEPT ![c] = FALSE]
  /\ doubtful' = (doubtful \/
        (ordered[c] /\ told \in {"timeout", "failed", "partial_fill"}))
  /\ UNCHANGED <<scene, orders>>

(* What is answered after the cache is cleared. *)
Finished(c, told) ==
  /\ Reply(c, told)
  /\ ClearCache
  /\ Promise
  /\ UNCHANGED <<position, now, replaced, stage, began, loaded, floor>>

Unfinished(c, told) == Reply(c, told) /\ UNCHANGED <<position, cacheVars>>

-----------------------------------------------------------------------------
Post(c, to, d) ==
  /\ mpc[c] = "idle"
  /\ posts < MaxPosts
  /\ posts' = posts + 1
  /\ Goto(c, to)
  /\ dry' = [dry EXCEPT ![c] = d]
  /\ UNCHANGED <<position, halted, paper, reply, orders, ordered, doubtful,
                 cacheVars>>

(* post_close up to the start of the subprocess. A request without the     *)
(* typed confirmation, or while halted, ends here and leaves nothing.      *)
PostClose(c, d) == ~Halted /\ Post(c, "closing", d)

(* trigger_scan: a live scan is confirmed and given a reason. *)
PostScan(c, mode, confirm, reason) ==
  /\ mode = "live" => confirm /\ reason
  /\ Post(c, "scanning", mode = "dry_run")

(* _spawn_error, _close_spawn_error: no package, no venv, or no process. *)
SpawnFails(c) ==
  /\ mpc[c] \in {"closing", "scanning"}
  /\ Unfinished(c, "spawn_error")

-----------------------------------------------------------------------------
(* The close of the strategy's command line. *)

(* The position is looked up in state.json. If another close has found it  *)
(* and not yet saved it, both may order.                                   *)
CliChecks(c) ==
  /\ mpc[c] = "closing"
  /\ ~Halted /\ OnFile = "open" /\ ~dry[c] /\ ~paper
  /\ Goto(c, "checked")
  /\ doubtful' =
       (doubtful \/ \E d \in Operator : mpc[d] \in {"checked", "ordering"})
  /\ UNCHANGED <<position, scene, dry, reply, orders, ordered, cacheVars>>

(* "if module yaml has mode: dry_run, the close subprocess won't place a   *)
(* real order even with this flag False".                                  *)
CliSimulates(c) ==
  /\ mpc[c] = "closing"
  /\ ~Halted /\ OnFile = "open" /\ (dry[c] \/ paper)
  /\ Goto(c, "simulated")
  /\ UNCHANGED <<position, scene, dry, reply, orders, ordered, doubtful,
                 cacheVars>>

CliOrders(c) ==
  /\ mpc[c] = "checked"
  /\ Goto(c, "ordering")
  /\ orders' = orders + 1
  /\ ordered' = [ordered EXCEPT ![c] = TRUE]
  /\ UNCHANGED <<position, scene, dry, reply, doubtful, cacheVars>>

CliSaves(c) ==
  /\ mpc[c] = "ordering"
  /\ Save(IF status = "open" THEN "closed" ELSE status)
  /\ Goto(c, "saved")
  /\ UNCHANGED <<scene, dry, reply, orders, ordered, doubtful, now, readers,
                 promised>>

(* The codes a close may exit with from where it is; 9 stands for the rest, *)
(* a death by signal among them.                                            *)
MayExit(c, code) ==
  \/ code \in {1, 9}
  \/ code = 0 /\ mpc[c] \in {"saved", "simulated"}
  \/ code = 2 /\ mpc[c] = "closing" /\ Halted
  \/ code = 3 /\ mpc[c] = "closing" /\ OnFile \in {"gone", "unreadable"}
  \/ code = 4 /\ mpc[c] = "closing" /\ OnFile = "closed"
  \/ code = 5 /\ mpc[c] = "ordering"

(* Mutation: the lookup has no default. *)
TaskStatusNoDefault(code) ==
  IF code \in 0..5
  THEN <<"completed", "failed", "halted", "not_found", "already_closed",
         "partial_fill">>[code + 1]
  ELSE "none"

(* Mutation: an unknown exit code counts as success. *)
TaskStatusHopeful(code) ==
  IF code \in 1..5
  THEN <<"failed", "halted", "not_found", "already_closed",
         "partial_fill">>[code]
  ELSE "completed"

(* _CLOSE_EXIT_TO_TASK_STATUS and its default. *)
TaskStatus(code) ==
  IF code \in 0..5
  THEN <<"completed", "failed", "halted", "not_found", "already_closed",
         "partial_fill">>[code + 1]
  ELSE "failed"

Closing == {"closing", "simulated", "checked", "ordering", "saved"}

(* run_strategy_close after a subprocess that has ended. *)
CloseEnds(c) ==
  /\ mpc[c] \in Closing
  /\ \E code \in 0..9 : MayExit(c, code) /\ Finished(c, TaskStatus(code))

(* Mutation: a close that takes too long is tried once more. *)
CloseTimesOutRetries(c) ==
  /\ mpc[c] \in Closing
  /\ Goto(c, "closing")
  /\ UNCHANGED <<position, scene, dry, reply, orders, ordered, doubtful,
                 cacheVars>>

(* After 90 s the subprocess is killed, wherever it is; the cache stays. *)
CloseTimesOut(c) ==
  /\ mpc[c] \in Closing
  /\ Unfinished(c, "timeout")

-----------------------------------------------------------------------------
(* A scan of the strategy: it saves state.json, and a real one may close   *)
(* the position.                                                           *)
ScanSaves(c) ==
  /\ mpc[c] = "scanning"
  /\ \E s \in (IF dry[c] \/ paper THEN {status} ELSE Later(status)) : Save(s)
  /\ Goto(c, "scanned")
  /\ UNCHANGED <<scene, dry, reply, orders, ordered, doubtful, now, readers,
                 promised>>

(* run_strategy_scan and the audit entry, without which it is answered too. *)
ScanEnds(c) ==
  /\ mpc[c] \in {"scanning", "scanned"}
  /\ \E told \in {"success", "exit_nonzero"} : Finished(c, told)

ScanTimesOut(c) ==
  /\ mpc[c] \in {"scanning", "scanned"}
  /\ Unfinished(c, "timeout")

-----------------------------------------------------------------------------
(* Outside the server: cron runs the strategy, state.json is damaged until *)
(* the next save, STOP files come and go, and so does the mode dry_run.    *)
CronRuns ==
  /\ \E s \in Later(status) : Save(s)
  /\ UNCHANGED <<scene, mpc, dry, reply, orders, ordered, doubtful, now,
                 readers, promised>>

StateIsDamaged ==
  /\ Replace
  /\ statuses' = Append(statuses, "unreadable")
  /\ UNCHANGED <<status, scene, mpc, dry, reply, orders, ordered, doubtful,
                 now, readers, promised>>

SetOrRemoveStop ==
  /\ halted' = ~halted
  /\ UNCHANGED <<position, paper, mpc, dry, reply, posts, orders, ordered,
                 doubtful, cacheVars>>

SetMode ==
  /\ paper' = ~paper
  /\ UNCHANGED <<position, halted, mpc, dry, reply, posts, orders, ordered,
                 doubtful, cacheVars>>

ManualInit ==
  /\ status = "open"
  /\ statuses = <<"open">>
  /\ halted = FALSE
  /\ paper = FALSE
  /\ mpc = [c \in Operator |-> "idle"]
  /\ dry = [c \in Operator |-> FALSE]
  /\ reply = [c \in Operator |-> [told |-> "nothing", ordered |-> FALSE]]
  /\ posts = 0
  /\ orders = 0
  /\ ordered = [c \in Operator |-> FALSE]
  /\ doubtful = FALSE

Operate(c) ==
  \/ \E d \in BOOLEAN : PostClose(c, d)
  \/ \E mode \in {"dry_run", "live"}, confirm \in BOOLEAN, reason \in BOOLEAN :
       PostScan(c, mode, confirm, reason)
  \/ SpawnFails(c)
  \/ CliChecks(c) \/ CliSimulates(c) \/ CliOrders(c) \/ CliSaves(c)
  \/ CloseEnds(c) \/ CloseTimesOut(c)
  \/ ScanSaves(c) \/ ScanEnds(c) \/ ScanTimesOut(c)

ManualNext ==
  \/ \E c \in Operator : Operate(c)
  \/ CronRuns
  \/ StateIsDamaged
  \/ SetOrRemoveStop
  \/ SetMode
  \/ /\ (\E r \in Reader : Read(r)) \/ ClearedByOthers \/ Tick
     /\ UNCHANGED manualVars

ManualSpec ==
  CacheInit /\ ManualInit /\ [][ManualNext]_<<cacheVars, manualVars>>

Told == {"nothing", "spawn_error", "completed", "failed", "halted",
         "not_found", "already_closed", "partial_fill", "timeout", "success",
         "exit_nonzero"}

ManualTypeOK ==
  /\ status \in Status
  /\ statuses \in Seq(Shown) /\ Len(statuses) = Version
  /\ halted \in BOOLEAN
  /\ paper \in BOOLEAN
  /\ mpc \in [Operator -> Closing \cup {"idle", "scanning", "scanned"}]
  /\ dry \in [Operator -> BOOLEAN]
  /\ reply \in [Operator -> [told : Told, ordered : BOOLEAN]]
  /\ posts \in 0..MaxPosts
  /\ orders \in Nat
  /\ ordered \in [Operator -> BOOLEAN]
  /\ doubtful \in BOOLEAN

-----------------------------------------------------------------------------
(* get_close_preview of an answer of the cache: _find_position finds       *)
(* nothing in a state.json that could not be read either.                  *)
Preview(a) ==
  CASE statuses[a.version] \in {"gone", "unreadable"} -> "404"
    [] statuses[a.version] = "closed" -> "410"
    [] OTHER -> IF Halted THEN "halted" ELSE "open"

(* What the operator is told of a close is so, over every exit code, every *)
(* time-out and whatever else runs: after "completed" the position is no   *)
(* longer open, if anything was ordered at all (a strategy in dry_run only *)
(* simulates, and "completed" does not say so); "halted", "not_found",     *)
(* "already_closed" and "spawn_error" mean that nothing was ordered; and a *)
(* preview that calls the position closed, or not found, is right however  *)
(* old its copy of state.json is, unless that copy could not be read.      *)
ToldTheTruth ==
  /\ \A c \in Operator :
       /\ reply[c].told = "completed" /\ reply[c].ordered => status # "open"
       /\ reply[c].told \in {"halted", "not_found", "already_closed",
                             "spawn_error"} => ~reply[c].ordered
  /\ \A a \in Answers :
       /\ Preview(a) = "410" => status # "open"
       /\ Preview(a) = "404" /\ statuses[a.version] # "unreadable" =>
            status # "open"

(* A position is not closed twice at the broker behind the operator's back:*)
(* a second order is placed only after one whose outcome the operator was  *)
(* told to be open, or by closes that overlapped.                          *)
OrderedOnce == orders > 1 => doubtful
=============================================================================
