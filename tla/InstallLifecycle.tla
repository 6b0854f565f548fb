-------------------------- MODULE InstallLifecycle --------------------------
(***************************************************************************)
(* The life of an install or update: POST /install and POST /update        *)
(* (routes/server.py), the two files that persist each install             *)
(* (install_state.py), the background task that runs deploy.sh and drains  *)
(* its two pipes (install_runner.py), the process dying at any point, and  *)
(* the clean-up registered for its next start (app.py).                    *)
(*                                                                         *)
(* Every step of the code that changes an install runs on the one asyncio  *)
(* event loop, and changes state.json first and events.jsonl second with   *)
(* no await between the two writes. `pending` is the event of such a pair  *)
(* whose first write is done: until it is appended no other step of the    *)
(* loop runs, but the process may die, and either write may fail with the  *)
(* process alive (a full disk): the task that made it ends there. A failed *)
(* append may leave a part of its line, without the newline; what is       *)
(* appended next then lands on that line, which replay_events skips.       *)
(*                                                                         *)
(* A line of deploy.sh is represented by what _parse_line makes of it: the *)
(* event type of a line that is mirrored to events.jsonl, the outcome of a *)
(* STATUS line, or "oversize" for a line longer than the StreamReader's    *)
(* limit.                                                                  *)
(***************************************************************************)
EXTENDS Naturals, Sequences

CONSTANTS
  Install,             \* the install_ids that clients use
  Lines,               \* the lines deploy.sh may print
  StartupHandlersRun,  \* does FastAPI call the on_event("startup") handlers?
  Budget,              \* ticks run_install lets the pipes drain
  KillGrace,           \* ticks between SIGTERM and SIGKILL
  MaxLines,            \* bound: mirrored lines per install
  MaxRestarts,         \* bound: deaths of the server process
  MaxFaults            \* bound: writes of the two files that fail

Active   == {"queued", "running"}
Outcome  == {"success", "already_installed", "failed"}
Terminal == {"success", "failed", "cancelled"}       \* TERMINAL_STATUSES
Status   == {"absent"} \cup Active \cup Outcome
Mirrored == {"step", "result", "log"}
Event    == Mirrored \cup Outcome     \* an outcome: a "complete" event with it
Pipe     == {"stdout", "stderr"}
Phase    == {"none", "scheduled", "spawning", "draining", "terminating",
             "closing", "done", "dead", "lost"}

ASSUME InstallAssumption ==
  /\ Lines \subseteq Mirrored \cup Outcome \cup {"oversize"}
  /\ StartupHandlersRun \in BOOLEAN
  /\ Budget \in Nat \ {0}
  /\ KillGrace \in Nat
  /\ MaxLines \in Nat
  /\ MaxRestarts \in Nat
  /\ MaxFaults \in Nat

VARIABLES
  status,    \* state.json "status", "absent" while there is no state.json
  updates,   \* lines folded into state.json (steps, log tail, result metadata)
  events,    \* events.jsonl: the lines that replay_events yields
  torn,      \* does events.jsonl end in a part of a line?
  pending,   \* the event whose state.json write is done and whose append is not
  runner,    \* where the run_install task of the install is
  open,      \* the pipes its drain tasks still read
  verdict,   \* ctx.terminal_payload: the last STATUS line, or "none"
  age,       \* ticks since the subprocess was started
  server,    \* the process: "up", "down", or "booting"
  sweep,     \* the installs cleanup_stale_running has still to visit
  restarts,  \* deaths so far
  faults     \* failed writes so far

files == <<status, updates, events, torn>>
task  == <<runner, open, verdict, age>>
proc  == <<server, sweep, restarts, faults>>
vars  == <<status, updates, events, torn, pending, runner, open, verdict, age,
           server, sweep, restarts, faults>>

-----------------------------------------------------------------------------
LoopFree == \A i \in Install : pending[i] = "none"
Serving  == server = "up" /\ LoopFree

(* install_state.update_state then append_event, the second still to come. *)
RecordOutcome(i, o) ==
  /\ status' = [status EXCEPT ![i] = o]
  /\ pending' = [pending EXCEPT ![i] = o]

(* Mutation: the task is spawned whenever the stored status is not active. *)
PostSpawnsFinished(i) ==
  /\ Serving
  /\ IF status[i] \in Active
     THEN UNCHANGED <<status, runner>>
     ELSE /\ status' = [status EXCEPT ![i] = "queued"]
          /\ runner' = [runner EXCEPT ![i] = "scheduled"]
  /\ UNCHANGED <<updates, events, torn, pending, open, verdict, age, proc>>

(* post_install and post_update: one step of the loop from the read of     *)
(* state.json to create_task; an id that has a state.json is only reported.*)
Post(i) ==
  /\ Serving
  /\ IF status[i] = "absent"
     THEN /\ status' = [status EXCEPT ![i] = "queued"]
          /\ runner' = [runner EXCEPT ![i] = "scheduled"]
     ELSE UNCHANGED <<status, runner>>
  /\ UNCHANGED <<updates, events, torn, pending, open, verdict, age, proc>>

(* The handler raises between create and create_task (config.json cannot be *)
(* written): state.json stays, nothing runs the install.                    *)
PostFails(i) ==
  /\ Serving
  /\ status[i] = "absent"
  /\ status' = [status EXCEPT ![i] = "queued"]
  /\ UNCHANGED <<updates, events, torn, pending, task, proc>>

(* run_install up to its first await. *)
StartRunner(i) ==
  /\ Serving
  /\ runner[i] = "scheduled"
  /\ status' = [status EXCEPT ![i] = "running"]
  /\ runner' = [runner EXCEPT ![i] = "spawning"]
  /\ UNCHANGED <<updates, events, torn, pending, open, verdict, age, proc>>

Spawn(i) ==
  /\ Serving
  /\ runner[i] = "spawning"
  /\ runner' = [runner EXCEPT ![i] = "draining"]
  /\ open' = [open EXCEPT ![i] = Pipe]
  /\ UNCHANGED <<files, pending, verdict, age, proc>>

(* create_subprocess_exec raises OSError. *)
SpawnFails(i) ==
  /\ Serving
  /\ runner[i] = "spawning"
  /\ RecordOutcome(i, "failed")
  /\ runner' = [runner EXCEPT ![i] = "closing"]
  /\ UNCHANGED <<updates, events, torn, open, verdict, age, proc>>

-----------------------------------------------------------------------------
(* Mutation: the line is mirrored to the event log only. *)
MirrorLineToLogOnly(i, e) ==
  /\ Serving
  /\ open[i] # {}
  /\ e \in Lines \cap Mirrored
  /\ Len(events[i]) < MaxLines
  /\ pending' = [pending EXCEPT ![i] = e]
  /\ UNCHANGED <<files, task, proc>>

(* A STEP, RESULT_ or bare line: folded into state.json, then mirrored.    *)
(* A drain task outlives a run_install that died, and goes on doing this.  *)
MirrorLine(i, e) ==
  /\ Serving
  /\ open[i] # {}
  /\ e \in Lines \cap Mirrored
  /\ updates[i] < MaxLines
  /\ updates' = [updates EXCEPT ![i] = @ + 1]
  /\ pending' = [pending EXCEPT ![i] = e]
  /\ UNCHANGED <<status, events, torn, task, proc>>

(* Mutation: a STATUS line ends the install at once. *)
StatusLineDecides(i, o) ==
  /\ Serving
  /\ open[i] # {}
  /\ o \in Lines \cap Outcome
  /\ RecordOutcome(i, o)
  /\ UNCHANGED <<updates, events, torn, task, proc>>

(* A STATUS line, on either pipe, is kept for run_install; the last one wins. *)
StatusLine(i, o) ==
  /\ Serving
  /\ open[i] # {}
  /\ o \in Lines \cap Outcome
  /\ verdict' = [verdict EXCEPT ![i] = o]
  /\ UNCHANGED <<files, pending, runner, open, age, proc>>

(* A drain task raises: gather passes that on to run_install, which ends    *)
(* there, and leaves the other drain task and the subprocess behind.        *)
DrainRaises(i, p) ==
  /\ open' = [open EXCEPT ![i] = @ \ {p}]
  /\ runner' = [runner EXCEPT ![i] = "dead"]

(* StreamReader.readline raises ValueError for a line over its limit, which *)
(* the drain task does not catch.                                           *)
OversizeLine(i, p) ==
  /\ Serving
  /\ p \in open[i]
  /\ "oversize" \in Lines
  /\ DrainRaises(i, p)
  /\ UNCHANGED <<files, pending, verdict, age, proc>>

Eof(i, p) ==
  /\ Serving
  /\ p \in open[i]
  /\ open' = [open EXCEPT ![i] = @ \ {p}]
  /\ UNCHANGED <<files, pending, runner, verdict, age, proc>>

(* The budget is spent with a pipe still open: wait_for cancels both drain *)
(* tasks and SIGTERM is sent.                                              *)
BudgetSpent(i) ==
  /\ Serving
  /\ runner[i] = "draining"
  /\ open[i] # {}
  /\ age[i] = Budget
  /\ runner' = [runner EXCEPT ![i] = "terminating"]
  /\ open' = [open EXCEPT ![i] = {}]
  /\ UNCHANGED <<files, pending, verdict, age, proc>>

(* Mutation: no default when deploy.sh printed no STATUS line. *)
FinalNoDefault(i) == IF runner[i] = "draining" THEN verdict[i] ELSE "failed"

(* The precedence of run_install: the time-out, then the STATUS line, then *)
(* the exit code -- without a STATUS line every exit code means "failed".  *)
Final(i) ==
  IF runner[i] = "draining" /\ verdict[i] # "none" THEN verdict[i] ELSE "failed"

(* The subprocess has exited: its outcome is recorded. *)
Finish(i) ==
  /\ Serving
  /\ \/ runner[i] = "draining" /\ open[i] = {}
     \/ runner[i] = "terminating"
  /\ RecordOutcome(i, Final(i))
  /\ runner' = [runner EXCEPT ![i] = "closing"]
  /\ UNCHANGED <<updates, events, torn, open, verdict, age, proc>>

(* Mutation: the runner does not append its complete event. *)
AppendMirroredOnly(i) ==
  /\ server # "down"
  /\ pending[i] # "none"
  /\ events' = [events EXCEPT ![i] =
                  IF runner[i] = "closing" \/ torn[i]
                  THEN @ ELSE Append(@, pending[i])]
  /\ torn' = [torn EXCEPT ![i] = FALSE]
  /\ pending' = [pending EXCEPT ![i] = "none"]
  /\ runner' = [runner EXCEPT ![i] = IF @ = "closing" THEN "done" ELSE @]
  /\ UNCHANGED <<status, updates, open, verdict, age, proc>>

(* A whole line is appended: on a line of its own it is an event, after a  *)
(* part of a line it is lost with it.                                      *)
WriteLine(i) ==
  /\ events' = [events EXCEPT ![i] =
                  IF torn[i] THEN @ ELSE Append(@, pending[i])]
  /\ torn' = [torn EXCEPT ![i] = FALSE]

(* install_state.append_event: the second write of the pair. *)
AppendEvent(i) ==
  /\ server # "down"
  /\ pending[i] # "none"
  /\ WriteLine(i)
  /\ pending' = [pending EXCEPT ![i] = "none"]
  /\ runner' = [runner EXCEPT ![i] = IF @ = "closing" THEN "done" ELSE @]
  /\ UNCHANGED <<status, updates, open, verdict, age, proc>>

(* The task that works on the install raises: a drain task if a pipe is    *)
(* open, run_install itself otherwise.                                     *)
TaskRaises(i) ==
  \/ \E p \in open[i] : DrainRaises(i, p)
  \/ /\ open[i] = {}
     /\ runner' = [runner EXCEPT ![i] = "dead"]
     /\ UNCHANGED open

(* append_event raises OSError at its open, write or fsync: nothing was    *)
(* written, or a part of the line, or all of it. In the clean-up at the    *)
(* start nothing catches it, and the process exits.                        *)
AppendFails(i) ==
  /\ server # "down"
  /\ pending[i] # "none"
  /\ faults < MaxFaults
  /\ faults' = faults + 1
  /\ pending' = [pending EXCEPT ![i] = "none"]
  /\ \/ UNCHANGED <<events, torn>>
     \/ torn' = [torn EXCEPT ![i] = TRUE] /\ UNCHANGED events
     \/ WriteLine(i)
  /\ \/ server = "up" /\ TaskRaises(i) /\ UNCHANGED <<server, sweep, restarts>>
     \/ /\ server = "booting"
        /\ restarts < MaxRestarts
        /\ server' = "down"
        /\ sweep' = {}
        /\ restarts' = restarts + 1
        /\ UNCHANGED <<runner, open>>
  /\ UNCHANGED <<status, updates, verdict, age>>

(* update_state raises OSError before it replaces state.json, in whichever *)
(* step of the run is next: a drain task at a line it mirrors, run_install *)
(* at its start or at its end. (In the clean-up that is a death: Die.)     *)
UpdateFails(i) ==
  /\ Serving
  /\ \/ runner[i] \in {"scheduled", "spawning", "terminating"}
     \/ runner[i] = "draining" /\ open[i] = {}
     \/ open[i] # {} /\ Lines \cap Mirrored # {}
  /\ faults < MaxFaults
  /\ faults' = faults + 1
  /\ TaskRaises(i)
  /\ UNCHANGED <<files, pending, verdict, age, server, sweep, restarts>>

-----------------------------------------------------------------------------
(* Steps the loop or the kernel takes at once, measured in ticks. *)
Urgent(i) ==
  \/ runner[i] \in {"scheduled", "spawning"}
  \/ runner[i] = "draining" /\ open[i] # {} /\ age[i] = Budget
  \/ runner[i] = "terminating" /\ age[i] = Budget + KillGrace

Tick ==
  /\ Serving
  /\ \A i \in Install : ~Urgent(i)
  /\ age' = [i \in Install |->
               IF runner[i] \in {"draining", "terminating"}
                  /\ age[i] < Budget + KillGrace
               THEN age[i] + 1 ELSE age[i]]
  /\ UNCHANGED <<files, pending, runner, open, verdict, proc>>

(* The process dies: every task and subprocess with it, the files remain. *)
Die ==
  /\ server # "down"
  /\ restarts < MaxRestarts
  /\ server' = "down"
  /\ restarts' = restarts + 1
  /\ sweep' = {}
  /\ pending' = [i \in Install |-> "none"]
  /\ runner' = [i \in Install |->
                  IF runner[i] \in {"none", "done"} THEN runner[i] ELSE "lost"]
  /\ open' = [i \in Install |-> {}]
  /\ verdict' = [i \in Install |-> "none"]
  /\ age' = [i \in Install |-> 0]
  /\ UNCHANGED <<files, faults>>

(* app.py passes FastAPI a lifespan and registers the clean-up with        *)
(* on_event("startup"); StartupHandlersRun says whether it is called.      *)
Boot ==
  /\ server = "down"
  /\ IF StartupHandlersRun
     THEN /\ server' = "booting"
          /\ sweep' = {i \in Install : status[i] # "absent"}
     ELSE /\ server' = "up"
          /\ UNCHANGED sweep
  /\ UNCHANGED <<files, pending, task, restarts, faults>>

(* Mutation: the clean-up fails every install it finds, finished or not. *)
SweepEveryInstall(i) ==
  /\ server = "booting"
  /\ LoopFree
  /\ i \in sweep
  /\ sweep' = sweep \ {i}
  /\ RecordOutcome(i, "failed")
  /\ UNCHANGED <<updates, events, torn, task, server, restarts, faults>>

(* Mutation: the clean-up appends the complete event and leaves state.json. *)
SweepEventsOnly(i) ==
  /\ server = "booting"
  /\ LoopFree
  /\ i \in sweep
  /\ sweep' = sweep \ {i}
  /\ pending' = [pending EXCEPT ![i] =
                   IF status[i] \in Active THEN "failed" ELSE @]
  /\ UNCHANGED <<files, task, server, restarts, faults>>

(* One iteration of cleanup_stale_running. *)
SweepInstall(i) ==
  /\ server = "booting"
  /\ LoopFree
  /\ i \in sweep
  /\ sweep' = sweep \ {i}
  /\ IF status[i] \in Active
     THEN RecordOutcome(i, "failed")
     ELSE UNCHANGED <<status, pending>>
  /\ UNCHANGED <<updates, events, torn, task, server, restarts, faults>>

BootDone ==
  /\ server = "booting"
  /\ LoopFree
  /\ sweep = {}
  /\ server' = "up"
  /\ UNCHANGED <<files, pending, task, sweep, restarts, faults>>

-----------------------------------------------------------------------------
Init ==
  /\ status = [i \in Install |-> "absent"]
  /\ updates = [i \in Install |-> 0]
  /\ events = [i \in Install |-> <<>>]
  /\ torn = [i \in Install |-> FALSE]
  /\ pending = [i \in Install |-> "none"]
  /\ runner = [i \in Install |-> "none"]
  /\ open = [i \in Install |-> {}]
  /\ verdict = [i \in Install |-> "none"]
  /\ age = [i \in Install |-> 0]
  /\ server = "up"
  /\ sweep = {}
  /\ restarts = 0
  /\ faults = 0

Request(i) == Post(i) \/ PostFails(i)

Supervise(i) ==
  \/ StartRunner(i)
  \/ Spawn(i)
  \/ SpawnFails(i)
  \/ BudgetSpent(i)
  \/ Finish(i)

ReadPipes(i) ==
  \/ \E e \in Mirrored : MirrorLine(i, e)
  \/ \E o \in Outcome : StatusLine(i, o)
  \/ \E p \in Pipe : OversizeLine(i, p) \/ Eof(i, p)

WriteFails(i) == AppendFails(i) \/ UpdateFails(i)

(* Every step but the death of the process. *)
Live ==
  \/ \E i \in Install : Request(i) \/ Supervise(i) \/ ReadPipes(i)
                        \/ AppendEvent(i) \/ WriteFails(i) \/ SweepInstall(i)
  \/ Tick
  \/ Boot
  \/ BootDone

Next == Live \/ Die

Spec == Init /\ [][Next]_vars

(* The event loop runs every ready task, time passes, a subprocess whose   *)
(* pipes are closed or that was killed exits, and systemd restarts the     *)
(* server. Nothing is assumed of clients, nor of what deploy.sh prints.    *)
Fairness ==
  /\ \A i \in Install : WF_vars(Supervise(i))
  /\ \A i \in Install : WF_vars(AppendEvent(i))
  /\ \A i \in Install : WF_vars(SweepInstall(i))
  /\ WF_vars(Tick)
  /\ WF_vars(Boot)
  /\ WF_vars(BootDone)

FairSpec == Spec /\ Fairness

-----------------------------------------------------------------------------
TypeOK ==
  /\ status \in [Install -> Status]
  /\ updates \in [Install -> 0..MaxLines]
  /\ events \in [Install -> Seq(Event)]
  /\ torn \in [Install -> BOOLEAN]
  /\ pending \in [Install -> Event \cup {"none"}]
  /\ runner \in [Install -> Phase]
  /\ open \in [Install -> SUBSET Pipe]
  /\ verdict \in [Install -> Outcome \cup {"none"}]
  /\ age \in [Install -> 0..(Budget + KillGrace)]
  /\ server \in {"up", "down", "booting"}
  /\ sweep \in SUBSET Install
  /\ restarts \in 0..MaxRestarts
  /\ faults \in 0..MaxFaults

(* The complete event of an install's log, or "none". *)
Announced(i) ==
  IF events[i] # <<>> /\ events[i][Len(events[i])] \in Outcome
  THEN events[i][Len(events[i])] ELSE "none"

(* Events of the log that mirror a line of deploy.sh. *)
MirroredEvents(i) ==
  IF Announced(i) = "none" THEN Len(events[i]) ELSE Len(events[i]) - 1

(* A "complete" event is the last of its log: nothing a drain task, a late *)
(* runner or the boot clean-up does is ever appended after it, and there   *)
(* is at most one (the SSE generator stops at the first it meets).         *)
CompleteIsLast ==
  \A i \in Install : \A k \in 1..Len(events[i]) :
    events[i][k] \in Outcome => k = Len(events[i])

(* The two files never contradict each other: a complete event carries the *)
(* status state.json holds, whoever wrote either of them and when.         *)
FilesAgree ==
  \A i \in Install : Announced(i) # "none" => Announced(i) = status[i]

(* The log never leads state.json, and as long as nothing went wrong with  *)
(* its run it trails by the one line being written, or by none. A run that *)
(* died with the process, or of a failed write, leaves it behind for good: *)
(* by the line that a death cut off, and by two lines for each failed      *)
(* write, the one that failed and the next, if it landed on the part of a  *)
(* line the failure left.                                                  *)
LogTrailsState ==
  \A i \in Install :
    LET behind == updates[i] - MirroredEvents(i)
    IN  /\ behind >= 0
        /\ runner[i] \notin {"dead", "lost"} =>
             behind = IF pending[i] \in Mirrored THEN 1 ELSE 0
        /\ behind <= 1 + 2 * faults

(* Did something come between the two writes of the outcome? A death of    *)
(* the process or a failed write, and then of an install whose own run did *)
(* not end as it should.                                                   *)
CutOff(i) ==
  /\ restarts > 0 \/ faults > 0
  /\ runner[i] \notin {"closing", "done"}

(* An install recorded as finished has its complete event in the log or on *)
(* its way there, unless the server died, or a write failed, between the   *)
(* two writes. A run that went through to its end has always announced it, *)
(* whatever befell the others.                                             *)
FinishedIsAnnounced ==
  \A i \in Install :
    status[i] \in Outcome =>
      Announced(i) # "none" \/ pending[i] \in Outcome \/ CutOff(i)

(* An install_id is run at most once: re-posted, finished, failed or swept *)
(* after a restart, it never gets a second run_install task.               *)
NeverRunAgain ==
  [][\A i \in Install :
       /\ runner[i] \in {"closing", "done", "dead", "lost"} =>
            runner'[i] \in {"closing", "done", "dead", "lost"}
       /\ status[i] # "absent" /\ runner[i] = "none" =>
            runner'[i] = "none"]_vars

(* Every install whose task was created is decided in the end, even if the *)
(* server dies meanwhile, provided the start-up clean-up is called and no  *)
(* line is longer than the reader's limit; unless a failed write ended its *)
(* task, which leaves it in flight until the next death of the process.    *)
EveryRunIsDecided ==
  \A i \in Install :
    runner[i] = "scheduled" ~>
      status[i] \in Outcome \/ (runner[i] = "dead" /\ faults > 0)

(* Once the server has started, no install is left in flight that no task  *)
(* of this process works on (app.py: such an install is marked failed on   *)
(* boot).                                                                  *)
NothingInFlightIsOrphaned ==
  server = "up" =>
    \A i \in Install : runner[i] = "lost" => status[i] \notin Active

(* The contract of the endpoints, implemented by the files. *)
Contract ==
  INSTANCE InstallContract WITH announced <- [i \in Install |-> Announced(i)]

ContractHolds == Contract!CSpec
=============================================================================
