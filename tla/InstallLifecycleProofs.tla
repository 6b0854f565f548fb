----------------------- MODULE InstallLifecycleProofs -----------------------
(***************************************************************************)
(* Proofs about InstallLifecycle, for any set of installs, any lines, any  *)
(* budget and any number of deaths of the server.                          *)
(***************************************************************************)
EXTENDS InstallLifecycle, Integers, TLAPS

(* An outcome is recorded at the end of every run: Final has no other value. *)
LEMMA FinalIsOutcome ==
  ASSUME TypeOK, NEW i \in Install
  PROVE  Final(i) \in Outcome
BY DEF TypeOK, Final, Outcome

LEMMA InitType == Init => TypeOK
BY InstallAssumption
   DEF Init, TypeOK, InstallAssumption, Status, Active, Outcome, Event,
       Mirrored, Phase, Pipe

(* A task that raises ends the run, and with it one pipe at most. *)
LEMMA RaisingEndsTheRun ==
  ASSUME TypeOK, NEW i \in Install,
         TaskRaises(i) \/ \E p \in Pipe : DrainRaises(i, p)
  PROVE  /\ runner' \in [Install -> Phase] /\ open' \in [Install -> SUBSET Pipe]
         /\ runner'[i] = "dead" /\ open'[i] \subseteq open[i]
         /\ \A j \in Install \ {i} :
              runner'[j] = runner[j] /\ open'[j] = open[j]
<1>1. runner \in [Install -> Phase] /\ open \in [Install -> SUBSET Pipe]
  BY DEF TypeOK
<1>2. CASE \E p \in Pipe \cup open[i] : DrainRaises(i, p)
  <2>1. PICK p \in Pipe \cup open[i] : DrainRaises(i, p)
    BY <1>2
  <2>2. /\ open' = [open EXCEPT ![i] = open[i] \ {p}]
        /\ runner' = [runner EXCEPT ![i] = "dead"]
    BY <2>1 DEF DrainRaises
  <2>3. open[i] \ {p} \in SUBSET Pipe /\ "dead" \in Phase
    BY <1>1 DEF Phase
  <2>4. /\ open' \in [Install -> SUBSET Pipe] /\ open'[i] \subseteq open[i]
        /\ \A j \in Install \ {i} : open'[j] = open[j]
    BY <1>1, <2>2, <2>3
  <2>5. QED
    BY <1>1, <2>2, <2>3, <2>4
<1>3. CASE UNCHANGED open /\ runner' = [runner EXCEPT ![i] = "dead"]
  BY <1>1, <1>3 DEF Phase
<1>4. QED
  BY <1>2, <1>3 DEF TaskRaises

(* What a whole line adds to the log. *)
LEMMA LineIsWritten ==
  ASSUME TypeOK, NEW i \in Install, WriteLine(i), pending[i] \in Event
  PROVE  /\ events' \in [Install -> Seq(Event)]
         /\ torn' \in [Install -> BOOLEAN]
         /\ events'[i] = IF torn[i] THEN events[i]
                         ELSE Append(events[i], pending[i])
         /\ ~torn'[i]
         /\ \A j \in Install \ {i} :
              events'[j] = events[j] /\ torn'[j] = torn[j]
<1>1. /\ events \in [Install -> Seq(Event)] /\ torn \in [Install -> BOOLEAN]
      /\ events[i] \in Seq(Event)
  BY DEF TypeOK
<1>2. Append(events[i], pending[i]) \in Seq(Event)
  BY <1>1
<1>3. QED
  BY <1>1, <1>2 DEF WriteLine

(* A failed write changes one install: it ends the run of it, if the       *)
(* server was up, or else the server.                                      *)
LEMMA FailureIsLocal ==
  ASSUME TypeOK, NEW i \in Install, WriteFails(i)
  PROVE  /\ TypeOK'
         /\ UNCHANGED <<status, updates, verdict, age>>
         /\ faults' = faults + 1
         /\ \/ /\ server = "up" /\ UNCHANGED <<server, sweep, restarts>>
               /\ runner'[i] = "dead" /\ open'[i] \subseteq open[i]
            \/ /\ server = "booting" /\ server' = "down" /\ sweep' = {}
               /\ restarts' = restarts + 1 /\ UNCHANGED <<runner, open>>
               /\ AppendFails(i)
         /\ \/ UpdateFails(i) /\ UNCHANGED <<events, torn, pending>>
            \/ /\ AppendFails(i) /\ pending[i] \in Event /\ pending'[i] = "none"
               /\ \/ UNCHANGED <<events, torn>>
                  \/ UNCHANGED events /\ torn'[i]
                  \/ WriteLine(i)
         /\ \A j \in Install \ {i} :
              /\ runner'[j] = runner[j] /\ open'[j] = open[j]
              /\ pending'[j] = pending[j] /\ events'[j] = events[j]
              /\ torn'[j] = torn[j]
<1>1. CASE UpdateFails(i)
  <2>1. UNCHANGED <<status, updates, events, torn, pending, verdict, age,
                    server, sweep, restarts>>
        /\ faults < MaxFaults /\ faults' = faults + 1 /\ TaskRaises(i)
        /\ server = "up"
    BY <1>1 DEF UpdateFails, files, Serving
  <2>2. TypeOK'
    BY <2>1, RaisingEndsTheRun, InstallAssumption DEF TypeOK, InstallAssumption
  <2>3. QED
    BY <1>1, <2>1, <2>2, RaisingEndsTheRun
<1>2. CASE AppendFails(i)
  <2>1. pending[i] \in Event /\ faults < MaxFaults /\ faults' = faults + 1
        /\ pending' = [pending EXCEPT ![i] = "none"]
        /\ UNCHANGED <<status, updates, verdict, age>>
    BY <1>2 DEF AppendFails, TypeOK
  <2>2. \/ UNCHANGED <<events, torn>>
        \/ UNCHANGED events /\ torn' = [torn EXCEPT ![i] = TRUE]
        \/ WriteLine(i)
    BY <1>2 DEF AppendFails
  <2>3. \/ /\ server = "up" /\ UNCHANGED <<server, sweep, restarts>>
           /\ TaskRaises(i)
        \/ /\ server = "booting" /\ server' = "down" /\ sweep' = {}
           /\ restarts < MaxRestarts /\ restarts' = restarts + 1
           /\ UNCHANGED <<runner, open>>
    BY <1>2 DEF AppendFails
  <2>4. /\ events' \in [Install -> Seq(Event)] /\ torn' \in [Install -> BOOLEAN]
        /\ \A j \in Install \ {i} : events'[j] = events[j] /\ torn'[j] = torn[j]
        /\ \/ UNCHANGED <<events, torn>>
           \/ UNCHANGED events /\ torn'[i]
           \/ WriteLine(i)
    BY <2>1, <2>2, LineIsWritten DEF TypeOK
  <2>5. /\ pending' \in [Install -> Event \cup {"none"}] /\ pending'[i] = "none"
        /\ \A j \in Install \ {i} : pending'[j] = pending[j]
    BY <2>1 DEF TypeOK
  <2>6. /\ runner' \in [Install -> Phase] /\ open' \in [Install -> SUBSET Pipe]
        /\ \A j \in Install \ {i} : runner'[j] = runner[j] /\ open'[j] = open[j]
        /\ server = "up" => runner'[i] = "dead" /\ open'[i] \subseteq open[i]
    BY <2>3, RaisingEndsTheRun DEF TypeOK
  <2>7. /\ server' \in {"up", "down", "booting"} /\ sweep' \in SUBSET Install
        /\ restarts' \in 0..MaxRestarts /\ faults' \in 0..MaxFaults
    BY <2>1, <2>3, InstallAssumption DEF TypeOK, InstallAssumption
  <2>8. TypeOK'
    BY <2>1, <2>4, <2>5, <2>6, <2>7 DEF TypeOK
  <2>9. \/ /\ server = "up" /\ UNCHANGED <<server, sweep, restarts>>
           /\ runner'[i] = "dead" /\ open'[i] \subseteq open[i]
        \/ /\ server = "booting" /\ server' = "down" /\ sweep' = {}
           /\ restarts' = restarts + 1 /\ UNCHANGED <<runner, open>>
           /\ AppendFails(i)
    BY <1>2, <2>3, <2>6
  <2>10. \/ UpdateFails(i) /\ UNCHANGED <<events, torn, pending>>
         \/ /\ AppendFails(i) /\ pending[i] \in Event /\ pending'[i] = "none"
            /\ \/ UNCHANGED <<events, torn>>
               \/ UNCHANGED events /\ torn'[i]
               \/ WriteLine(i)
    BY <1>2, <2>1, <2>4, <2>5
  <2>11. QED
    BY <2>1, <2>4, <2>5, <2>6, <2>8, <2>9, <2>10
<1>3. QED
  BY <1>1, <1>2 DEF WriteFails

(* Every step keeps every variable in its type. *)
LEMMA TypeStep == TypeOK /\ [Next]_vars => TypeOK'
<1> SUFFICES ASSUME TypeOK, [Next]_vars
             PROVE  TypeOK'
  OBVIOUS
<1> USE DEF TypeOK, files, task, proc
<1>1. ASSUME NEW i \in Install, Request(i)
      PROVE  TypeOK'
  BY <1>1 DEF Request, Post, PostFails, Status, Active, Phase
<1>2. ASSUME NEW i \in Install, Supervise(i)
      PROVE  TypeOK'
  <2>1. CASE StartRunner(i)
    BY <2>1 DEF StartRunner, Status, Active, Phase
  <2>2. CASE Spawn(i)
    BY <2>2 DEF Spawn, Phase
  <2>3. CASE SpawnFails(i)
    BY <2>3 DEF SpawnFails, RecordOutcome, Status, Outcome, Event, Phase
  <2>4. CASE BudgetSpent(i)
    BY <2>4 DEF BudgetSpent, Phase
  <2>5. CASE Finish(i)
    <3>1. Final(i) \in Outcome
      BY FinalIsOutcome
    <3>2. QED
      BY <2>5, <3>1 DEF Finish, RecordOutcome, Status, Event, Phase
  <2>6. QED
    BY <1>2, <2>1, <2>2, <2>3, <2>4, <2>5 DEF Supervise
<1>3. ASSUME NEW i \in Install, ReadPipes(i)
      PROVE  TypeOK'
  <2>1. CASE \E e \in Mirrored : MirrorLine(i, e)
    BY <2>1, InstallAssumption DEF MirrorLine, Event, InstallAssumption
  <2>2. CASE \E o \in Outcome : StatusLine(i, o)
    BY <2>2 DEF StatusLine
  <2>3. ASSUME NEW p \in Pipe, OversizeLine(i, p)
        PROVE  TypeOK'
    BY <2>3, RaisingEndsTheRun DEF OversizeLine
  <2>4. ASSUME NEW p \in Pipe, Eof(i, p)
        PROVE  TypeOK'
    BY <2>4 DEF Eof
  <2>5. QED
    BY <1>3, <2>1, <2>2, <2>3, <2>4 DEF ReadPipes
<1>4. ASSUME NEW i \in Install, AppendEvent(i)
      PROVE  TypeOK'
  BY <1>4, LineIsWritten DEF AppendEvent, Phase
<1>41. ASSUME NEW i \in Install, WriteFails(i)
       PROVE  TypeOK'
  BY <1>41, FailureIsLocal
<1>5. ASSUME NEW i \in Install, SweepInstall(i)
      PROVE  TypeOK'
  BY <1>5 DEF SweepInstall, RecordOutcome, Status, Outcome, Event
<1>6. CASE Tick
  BY <1>6, InstallAssumption DEF Tick, InstallAssumption
<1>7. CASE Boot
  BY <1>7 DEF Boot
<1>8. CASE BootDone
  BY <1>8 DEF BootDone
<1>9. CASE Die
  BY <1>9, InstallAssumption DEF Die, Phase, InstallAssumption
<1>10. CASE UNCHANGED vars
  BY <1>10 DEF vars
<1>11. QED
  BY <1>1, <1>2, <1>3, <1>4, <1>41, <1>5, <1>6, <1>7, <1>8, <1>9, <1>10
     DEF Next, Live

(* Every variable keeps its type, whatever fails and however often the     *)
(* server is restarted.                                                    *)
THEOREM TypeCorrect == Spec => []TypeOK
<1>1. Init => TypeOK
  BY InitType
<1>2. TypeOK /\ [Next]_vars => TypeOK'
  BY TypeStep
<1>3. QED
  BY <1>1, <1>2, PTL DEF Spec

-----------------------------------------------------------------------------
(* What makes the two files' agreement inductive: who may still write to   *)
(* an install. A drain task writes only while its pipe is open, which is   *)
(* while the install is running; an outcome is recorded before              *)
(* it is announced; nothing is being written once it is announced; and no  *)
(* task outlives the process it ran in.                                    *)
PipesNeedARun(i) ==
  open[i] # {} => runner[i] \in {"draining", "dead"} /\ status[i] = "running"

StatusFollowsTheRun(i) ==
  /\ runner[i] = "scheduled" => status[i] = "queued"
  /\ runner[i] \in {"spawning", "draining", "terminating"} =>
       status[i] = "running"
  /\ runner[i] \in {"closing", "done"} => status[i] \in Outcome

AbsentIsNotRun(i) == status[i] = "absent" => runner[i] = "none"

(* In a server that is up only a run writes, in one that starts only the   *)
(* clean-up, of an install no run has finished; and a log that a failure   *)
(* tore is one of a run that ended in it.                                  *)
RunsWrite(i) ==
  /\ pending[i] # "none" =>
       \/ server = "up" /\ runner[i] \in {"draining", "dead", "closing"}
       \/ server = "booting" /\ runner[i] \in {"none", "lost"}
  /\ pending[i] # "none" \/ torn[i] => status[i] # "absent"
  /\ torn[i] => runner[i] \in {"none", "dead", "lost"} /\ faults > 0

RecordedFirst(i) == pending[i] \in Outcome => status[i] = pending[i]

CompleteSeals(i) ==
  \A k \in 1..Len(events[i]) :
    events[i][k] \in Outcome =>
      k = Len(events[i]) /\ status[i] = events[i][k] /\ pending[i] = "none"

NoTaskSurvives(i) == server # "up" => runner[i] \in {"none", "done", "lost"}

Coherent(i) ==
  /\ PipesNeedARun(i)
  /\ StatusFollowsTheRun(i)
  /\ AbsentIsNotRun(i)
  /\ RunsWrite(i)
  /\ RecordedFirst(i)
  /\ CompleteSeals(i)
  /\ NoTaskSurvives(i)

(* The loop is between two writes of one install at a time. *)
OneWriteAtATime ==
  \A i, j \in Install : pending[i] # "none" /\ pending[j] # "none" => i = j

IInv == TypeOK /\ OneWriteAtATime /\ \A i \in Install : Coherent(i)

(* An install is coherent in a step that leaves its variables alone, unless *)
(* the server goes down in it.                                              *)
LEMMA CoherentUntouched ==
  ASSUME NEW j \in Install, Coherent(j),
         status'[j] = status[j], events'[j] = events[j], torn'[j] = torn[j],
         pending'[j] = pending[j], runner'[j] = runner[j], open'[j] = open[j],
         server' = server \/ pending[j] = "none",
         server = "up" => server' = "up",
         faults' = faults \/ faults' > 0
  PROVE  Coherent(j)'
<1>1. PipesNeedARun(j)' /\ StatusFollowsTheRun(j)' /\ AbsentIsNotRun(j)'
  BY DEF Coherent, PipesNeedARun, StatusFollowsTheRun, AbsentIsNotRun
<1>2. RunsWrite(j)' /\ NoTaskSurvives(j)'
  BY DEF Coherent, RunsWrite, NoTaskSurvives
<1>3. RecordedFirst(j)'
  BY DEF Coherent, RecordedFirst
<1>4. CompleteSeals(j)'
  BY DEF Coherent, CompleteSeals
<1>5. QED
  BY <1>1, <1>2, <1>3, <1>4 DEF Coherent

LEMMA InitInv == Init => IInv
<1> SUFFICES ASSUME Init
             PROVE  IInv
  OBVIOUS
<1>1. TypeOK
  BY InitType
<1>2. ASSUME NEW i \in Install
      PROVE  Coherent(i)
  BY DEF Init, Coherent, PipesNeedARun, StatusFollowsTheRun, AbsentIsNotRun,
         RunsWrite, RecordedFirst, CompleteSeals, NoTaskSurvives, Outcome
<1>3. QED
  BY <1>1, <1>2 DEF IInv, Init, OneWriteAtATime

(* Writing a line keeps the complete event last: before it there is none.  *)
LEMMA WriteSeals ==
  ASSUME TypeOK, NEW i \in Install, RecordedFirst(i), CompleteSeals(i),
         WriteLine(i), pending[i] \in Event, pending'[i] = "none",
         status' = status
  PROVE  CompleteSeals(i)'
<1>1. pending[i] # "none"
  BY DEF Event, Mirrored, Outcome
<1>2. \A k \in 1..Len(events[i]) : events[i][k] \notin Outcome
  BY <1>1 DEF CompleteSeals
<1>3. events[i] \in Seq(Event)
  BY DEF TypeOK
<1>4. CASE events'[i] = events[i]
  BY <1>2, <1>4 DEF CompleteSeals
<1>5. CASE events'[i] = Append(events[i], pending[i])
  BY <1>2, <1>3, <1>5 DEF RecordedFirst, CompleteSeals
<1>6. QED
  BY <1>4, <1>5, LineIsWritten

(* A write that fails in a server that is up is one of a run.              *)
LEMMA FailureFollowsARun ==
  ASSUME TypeOK, NEW i \in Install, Coherent(i), WriteFails(i), server = "up"
  PROVE  /\ runner[i] \in {"scheduled", "spawning", "draining", "terminating",
                           "closing", "dead"}
         /\ status[i] # "absent"
<1> USE DEF Coherent, PipesNeedARun, AbsentIsNotRun, RunsWrite
<1>1. CASE UpdateFails(i)
  BY <1>1 DEF UpdateFails
<1>2. CASE AppendFails(i)
  BY <1>2 DEF AppendFails
<1>3. QED
  BY <1>1, <1>2 DEF WriteFails

LEMMA OneWriteStep ==
  TypeOK /\ OneWriteAtATime /\ [Next]_vars => OneWriteAtATime'
<1> SUFFICES ASSUME TypeOK, OneWriteAtATime, [Next]_vars,
                    NEW i \in Install, NEW j \in Install,
                    pending'[i] # "none", pending'[j] # "none"
             PROVE  i = j
  BY DEF OneWriteAtATime
<1> USE DEF TypeOK
<1>1. ASSUME NEW k \in Install, \A l \in Install : pending[l] = "none",
             \A l \in Install \ {k} : pending'[l] = pending[l]
      PROVE  i = j
  BY <1>1
<1>2. ASSUME \A k \in Install : pending'[k] = pending[k] \/ pending'[k] = "none"
      PROVE  i = j
  BY <1>2 DEF OneWriteAtATime
<1>3. ASSUME NEW k \in Install, Request(k)
      PROVE  i = j
  BY <1>2, <1>3 DEF Request, Post, PostFails
<1>4. ASSUME NEW k \in Install, Supervise(k)
      PROVE  i = j
  <2>1. CASE StartRunner(k) \/ Spawn(k) \/ BudgetSpent(k)
    BY <1>2, <2>1 DEF StartRunner, Spawn, BudgetSpent
  <2>2. CASE SpawnFails(k) \/ Finish(k)
    BY <1>1, <2>2 DEF SpawnFails, Finish, RecordOutcome, Serving, LoopFree
  <2>3. QED
    BY <1>4, <2>1, <2>2 DEF Supervise
<1>5. ASSUME NEW k \in Install, ReadPipes(k)
      PROVE  i = j
  <2>1. CASE \E e \in Mirrored : MirrorLine(k, e)
    BY <1>1, <2>1 DEF MirrorLine, Serving, LoopFree
  <2>2. CASE pending' = pending
    BY <1>2, <2>2
  <2>3. QED
    BY <1>5, <2>1, <2>2 DEF ReadPipes, StatusLine, OversizeLine, Eof
<1>6. ASSUME NEW k \in Install, AppendEvent(k)
      PROVE  i = j
  BY <1>2, <1>6 DEF AppendEvent
<1>7. ASSUME NEW k \in Install, WriteFails(k)
      PROVE  i = j
  BY <1>2, <1>7, FailureIsLocal
<1>8. ASSUME NEW k \in Install, SweepInstall(k)
      PROVE  i = j
  BY <1>1, <1>2, <1>8 DEF SweepInstall, RecordOutcome, LoopFree
<1>9. CASE Tick \/ Boot \/ BootDone \/ UNCHANGED vars
  BY <1>2, <1>9 DEF Tick, Boot, BootDone, vars
<1>10. CASE Die
  BY <1>2, <1>10 DEF Die
<1>11. CASE Live
  BY <1>3, <1>4, <1>5, <1>6, <1>7, <1>8, <1>9, <1>11 DEF Live
<1>12. QED
  BY <1>9, <1>10, <1>11 DEF Next

LEMMA InvStep == IInv /\ [Next]_vars => IInv'
<1> SUFFICES ASSUME IInv, [Next]_vars
             PROVE  IInv'
  OBVIOUS
<1> USE DEF files, task, proc
<1>1. TypeOK /\ TypeOK' /\ OneWriteAtATime /\ OneWriteAtATime'
  BY TypeStep, OneWriteStep DEF IInv
<1>2. SUFFICES ASSUME NEW j \in Install
               PROVE  Coherent(j)'
  BY <1>1 DEF IInv
<1>3. Coherent(j)
  BY DEF IInv
<1>4. ASSUME NEW i \in Install, Request(i)
      PROVE  Coherent(j)'
  BY <1>1, <1>3, <1>4, CoherentUntouched
     DEF Request, Post, PostFails, TypeOK, Active, Outcome, Coherent,
         PipesNeedARun, StatusFollowsTheRun, AbsentIsNotRun, RunsWrite,
         RecordedFirst, CompleteSeals, NoTaskSurvives, Serving, LoopFree
<1>5. ASSUME NEW i \in Install, Supervise(i)
      PROVE  Coherent(j)'
  <2>1. CASE i # j
    BY <1>1, <1>3, <1>5, <2>1, CoherentUntouched
       DEF Supervise, StartRunner, Spawn, SpawnFails, BudgetSpent, Finish,
           RecordOutcome, TypeOK
  <2>2. CASE i = j
    <3>1. Final(j) \in Outcome
      BY <1>1, FinalIsOutcome
    <3>2. status[j] \notin Outcome
          \/ runner[j] \in {"none", "closing", "done", "dead", "lost"}
      BY <1>1, <1>3 DEF TypeOK, Phase, Outcome, Coherent, StatusFollowsTheRun
    <3> USE DEF TypeOK, Outcome, Coherent, PipesNeedARun, StatusFollowsTheRun,
                AbsentIsNotRun, RunsWrite, RecordedFirst, CompleteSeals,
                NoTaskSurvives,
                Serving, LoopFree
    <3>3. CASE StartRunner(i) \/ Spawn(i) \/ BudgetSpent(i)
      BY <1>1, <1>3, <2>2, <3>2, <3>3 DEF StartRunner, Spawn, BudgetSpent
    <3>4. CASE SpawnFails(i)
      BY <1>1, <1>3, <2>2, <3>2, <3>4 DEF SpawnFails, RecordOutcome
    <3>5. CASE Finish(i)
      BY <1>1, <1>3, <2>2, <3>1, <3>2, <3>5 DEF Finish, RecordOutcome
    <3>6. QED
      BY <1>5, <3>3, <3>4, <3>5 DEF Supervise
  <2>3. QED
    BY <2>1, <2>2
<1>6. ASSUME NEW i \in Install, ReadPipes(i)
      PROVE  Coherent(j)'
  <2>1. CASE i # j
    BY <1>1, <1>3, <1>6, <2>1, CoherentUntouched
       DEF ReadPipes, MirrorLine, StatusLine, OversizeLine, DrainRaises, Eof,
           TypeOK
  <2>2. CASE i = j
    <3>1. /\ server = "up" /\ pending[j] = "none" /\ open[j] # {}
          /\ runner[j] \in {"draining", "dead"} /\ status[j] = "running"
          /\ UNCHANGED <<status, events, torn, server, faults>>
      BY <1>1, <1>3, <1>6, <2>2
         DEF ReadPipes, MirrorLine, StatusLine, OversizeLine, Eof, Serving,
             LoopFree, Coherent, PipesNeedARun
    <3>2. /\ open'[j] \subseteq open[j]
          /\ runner'[j] \in {runner[j], "dead"}
          /\ pending'[j] \in Mirrored \cup {"none"}
      <4>1. CASE \E e \in Mirrored : MirrorLine(j, e)
        BY <1>1, <4>1 DEF MirrorLine, TypeOK
      <4>2. CASE \E o \in Outcome : StatusLine(j, o)
        BY <3>1, <4>2 DEF StatusLine
      <4>3. CASE \E p \in Pipe : OversizeLine(j, p)
        BY <1>1, <3>1, <4>3, RaisingEndsTheRun DEF OversizeLine
      <4>4. CASE \E p \in Pipe : Eof(j, p)
        BY <1>1, <3>1, <4>4 DEF Eof, TypeOK
      <4>5. QED
        BY <1>6, <2>2, <4>1, <4>2, <4>3, <4>4 DEF ReadPipes
    <3>3. \A k \in 1..Len(events[j]) : events[j][k] \notin Outcome
      BY <1>3, <3>1 DEF Coherent, CompleteSeals, Outcome
    <3>4. PipesNeedARun(j)' /\ StatusFollowsTheRun(j)' /\ AbsentIsNotRun(j)'
      BY <3>1, <3>2 DEF PipesNeedARun, StatusFollowsTheRun, AbsentIsNotRun
    <3>5. RunsWrite(j)' /\ NoTaskSurvives(j)'
      BY <1>3, <3>1, <3>2 DEF Coherent, RunsWrite, NoTaskSurvives
    <3>6. RecordedFirst(j)' /\ CompleteSeals(j)'
      BY <3>1, <3>2, <3>3 DEF RecordedFirst, CompleteSeals, Mirrored, Outcome
    <3>7. QED
      BY <3>4, <3>5, <3>6 DEF Coherent
  <2>3. QED
    BY <2>1, <2>2
<1>7. ASSUME NEW i \in Install, AppendEvent(i)
      PROVE  Coherent(j)'
  <2>1. /\ pending[i] \in Event /\ pending'[i] = "none" /\ server # "down"
        /\ UNCHANGED <<status, open, server, faults>>
        /\ runner'[i] = IF runner[i] = "closing" THEN "done" ELSE runner[i]
        /\ \A k \in Install \ {i} :
             pending'[k] = pending[k] /\ runner'[k] = runner[k]
        /\ WriteLine(i)
    BY <1>1, <1>7 DEF AppendEvent, TypeOK
  <2>2. CASE i # j
    BY <1>1, <1>3, <2>1, <2>2, CoherentUntouched, LineIsWritten
  <2>3. CASE i = j
    <3>1. CompleteSeals(j)'
      BY <1>1, <1>3, <2>1, <2>3, WriteSeals DEF Coherent
    <3>2. QED
      BY <1>1, <1>3, <2>1, <2>3, <3>1, LineIsWritten
         DEF Coherent, PipesNeedARun, StatusFollowsTheRun, AbsentIsNotRun,
             RunsWrite, RecordedFirst, NoTaskSurvives, Outcome
  <2>4. QED
    BY <2>2, <2>3
<1>71. ASSUME NEW i \in Install, WriteFails(i)
       PROVE  Coherent(j)'
  <2>1. faults' > 0
    <3>1. faults \in Nat
      BY <1>1, InstallAssumption DEF TypeOK, InstallAssumption
    <3>2. faults' = faults + 1
      BY <1>1, <1>71, FailureIsLocal
    <3>3. QED
      BY <3>1, <3>2
  <2>2. CASE i # j
    <3>1. server' = server \/ pending[j] = "none"
      <4>1. server' = server \/ AppendFails(i)
        BY <1>1, <1>71, FailureIsLocal
      <4>2. QED
        BY <1>1, <2>2, <4>1 DEF AppendFails, OneWriteAtATime
    <3>2. QED
      BY <1>1, <1>3, <1>71, <2>1, <2>2, <3>1, CoherentUntouched, FailureIsLocal
  <2>3. CASE i = j
    <3>1. CASE UpdateFails(i) /\ UNCHANGED <<events, torn, pending>>
      <4>1. /\ server = "up" /\ server' = "up" /\ status' = status
            /\ runner'[j] = "dead" /\ open'[j] \subseteq open[j]
            /\ pending[j] = "none"
        BY <1>1, <1>71, <2>3, <3>1, FailureIsLocal
           DEF UpdateFails, Serving, LoopFree
      <4>2. QED
       BY <1>1, <1>3, <2>1, <2>3, <3>1, <4>1, <1>71, FailureFollowsARun
         DEF Coherent, PipesNeedARun, StatusFollowsTheRun, AbsentIsNotRun,
             RunsWrite, RecordedFirst, CompleteSeals, NoTaskSurvives
    <3>2. CASE AppendFails(i) /\ pending[j] \in Event /\ pending'[j] = "none"
      <4>1. UNCHANGED events \/ WriteLine(j)
        BY <1>1, <1>71, <2>3, <3>2, FailureIsLocal
      <4>2. status' = status
        BY <1>1, <1>71, FailureIsLocal
      <4>3. CompleteSeals(j)'
        BY <1>1, <1>3, <3>2, <4>1, <4>2, WriteSeals
           DEF Coherent, CompleteSeals
      <4>4. /\ \/ /\ server = "up" /\ server' = "up"
                  /\ runner'[j] = "dead" /\ open'[j] \subseteq open[j]
               \/ /\ server = "booting" /\ server' = "down"
                  /\ UNCHANGED <<runner, open>>
            /\ status[j] # "absent" /\ pending[j] # "none"
        BY <1>1, <1>3, <1>71, <2>3, <3>2, FailureIsLocal
           DEF AppendFails, Coherent, RunsWrite
      <4>5. PipesNeedARun(j)' /\ StatusFollowsTheRun(j)' /\ AbsentIsNotRun(j)'
        BY <1>3, <4>2, <4>4
           DEF Coherent, PipesNeedARun, StatusFollowsTheRun, AbsentIsNotRun
      <4>6. RunsWrite(j)' /\ RecordedFirst(j)' /\ NoTaskSurvives(j)'
        BY <1>3, <2>1, <3>2, <4>2, <4>4
           DEF Coherent, RunsWrite, RecordedFirst, NoTaskSurvives, Outcome
      <4>7. QED
        BY <4>3, <4>5, <4>6 DEF Coherent
    <3>3. QED
      BY <1>1, <1>71, <2>3, <3>1, <3>2, FailureIsLocal
  <2>4. QED
    BY <2>2, <2>3
<1>8. ASSUME NEW i \in Install, SweepInstall(i)
      PROVE  Coherent(j)'
  <2>1. CASE i # j
    BY <1>1, <1>3, <1>8, <2>1, CoherentUntouched
       DEF SweepInstall, RecordOutcome, TypeOK
  <2>2. CASE i = j
    <3>1. /\ UNCHANGED <<events, torn, runner, open, server, faults>>
          /\ server = "booting" /\ pending[j] = "none"
          /\ \/ status[j] \in Active /\ status'[j] = "failed"
                /\ pending'[j] = "failed"
             \/ UNCHANGED <<status, pending>>
      BY <1>1, <1>8, <2>2 DEF SweepInstall, RecordOutcome, TypeOK, LoopFree
    <3>2. CASE UNCHANGED <<status, pending>>
      BY <1>3, <3>1, <3>2, CoherentUntouched
    <3>3. CASE status[j] \in Active /\ status'[j] = "failed"
               /\ pending'[j] = "failed"
      <4>1. /\ runner[j] \in {"none", "lost"} /\ open[j] = {}
            /\ status[j] \notin Outcome /\ status[j] # "absent"
        BY <1>3, <3>1, <3>3
           DEF Coherent, NoTaskSurvives, StatusFollowsTheRun, PipesNeedARun,
               Active, Outcome
      <4>2. PipesNeedARun(j)' /\ StatusFollowsTheRun(j)' /\ AbsentIsNotRun(j)'
        BY <3>1, <3>3, <4>1
           DEF PipesNeedARun, StatusFollowsTheRun, AbsentIsNotRun
      <4>3. RunsWrite(j)' /\ NoTaskSurvives(j)' /\ RecordedFirst(j)'
        BY <1>3, <3>1, <3>3, <4>1
           DEF Coherent, RunsWrite, NoTaskSurvives, RecordedFirst
      <4>4. CompleteSeals(j)'
        BY <1>3, <3>1, <4>1 DEF Coherent, CompleteSeals
      <4>5. QED
        BY <4>2, <4>3, <4>4 DEF Coherent
    <3>4. QED
      BY <3>1, <3>2, <3>3
  <2>3. QED
    BY <2>1, <2>2
<1>9. CASE Tick
  BY <1>3, <1>9, CoherentUntouched DEF Tick
<1>10. CASE Boot
  BY <1>3, <1>10, CoherentUntouched DEF Boot, Coherent, RunsWrite
<1>11. CASE BootDone
  BY <1>3, <1>11, CoherentUntouched DEF BootDone, LoopFree
<1>12. CASE Die
  BY <1>1, <1>3, <1>12
     DEF Die, TypeOK, Outcome, Coherent, PipesNeedARun, StatusFollowsTheRun,
         AbsentIsNotRun, RunsWrite, RecordedFirst, CompleteSeals, NoTaskSurvives
<1>13. CASE UNCHANGED vars
  BY <1>3, <1>13, CoherentUntouched DEF vars
<1>14. QED
  BY <1>4, <1>5, <1>6, <1>7, <1>71, <1>8, <1>9, <1>10, <1>11, <1>12, <1>13
     DEF Next, Live

(* A step of an install that writes its log adds the pending event, or     *)
(* nothing.                                                                *)
LEMMA LogSteps ==
  ASSUME IInv, NEW i \in Install, AppendEvent(i) \/ WriteFails(i)
  PROVE  /\ \A j \in Install \ {i} : events'[j] = events[j]
         /\ \/ events' = events
            \/ /\ pending[i] \in Event
               /\ events'[i] = Append(events[i], pending[i])
<1>1. TypeOK
  BY DEF IInv
<1>2. ASSUME WriteLine(i), pending[i] \in Event
      PROVE  /\ \A j \in Install \ {i} : events'[j] = events[j]
             /\ \/ events' = events
                \/ events'[i] = Append(events[i], pending[i])
  <2>1. CASE torn[i]
    BY <1>1, <1>2, <2>1 DEF TypeOK, WriteLine
  <2>2. CASE ~torn[i]
    BY <1>1, <1>2, <2>2, LineIsWritten
  <2>3. QED
    BY <2>1, <2>2
<1>3. CASE AppendEvent(i)
  BY <1>1, <1>2, <1>3 DEF AppendEvent, TypeOK
<1>4. CASE WriteFails(i)
  BY <1>1, <1>2, <1>4, FailureIsLocal
<1>5. QED
  BY <1>3, <1>4

(* What appending an event announces: nothing was announced before it. *)
LEMMA AppendAnnounces ==
  ASSUME IInv, NEW i \in Install, pending[i] \in Event,
         events'[i] = Append(events[i], pending[i])
  PROVE  /\ Announced(i) = "none"
         /\ Announced(i)' =
              IF pending[i] \in Outcome THEN pending[i] ELSE "none"
<1>1. events[i] \in Seq(Event) /\ CompleteSeals(i) /\ pending[i] # "none"
  BY DEF IInv, TypeOK, Coherent, Event, Mirrored, Outcome
<1>2. events[i] # <<>> => events[i][Len(events[i])] \notin Outcome
  BY <1>1 DEF CompleteSeals
<1>3. /\ events'[i] # <<>>
      /\ events'[i][Len(events'[i])] = pending[i]
  <2>1. \A s \in Seq(Event), e \in Event :
          /\ Append(s, e) # <<>>
          /\ Append(s, e)[Len(Append(s, e))] = e
    OBVIOUS
  <2>2. QED
    BY <1>1, <2>1
<1>4. QED
  BY <1>2, <1>3 DEF Announced

(* A complete event is the last of its install's log, and the only one,    *)
(* whatever interleaving of runner, drain tasks, deaths and clean-ups      *)
(* wrote the log.                                                          *)
THEOREM CompleteEventIsLast == Spec => []CompleteIsLast
<1>1. IInv => CompleteIsLast
  BY DEF IInv, Coherent, CompleteSeals, CompleteIsLast
<1>2. QED
  BY InitInv, InvStep, <1>1, PTL DEF Spec

(* A complete event in an install's log carries the status that its        *)
(* state.json holds.                                                       *)
THEOREM TheFilesAgree == Spec => []FilesAgree
<1>1. ASSUME IInv
      PROVE  FilesAgree
  <2>1. SUFFICES ASSUME NEW i \in Install, Announced(i) # "none"
                 PROVE  Announced(i) = status[i]
    BY DEF FilesAgree
  <2>2. events[i] \in Seq(Event) /\ CompleteSeals(i)
    BY <1>1 DEF IInv, Coherent, TypeOK
  <2>3. /\ events[i] # <<>>
        /\ events[i][Len(events[i])] \in Outcome
        /\ Announced(i) = events[i][Len(events[i])]
    BY <2>1 DEF Announced
  <2>4. Len(events[i]) \in 1..Len(events[i])
    BY <2>2, <2>3
  <2>5. QED
    BY <2>2, <2>3, <2>4 DEF CompleteSeals
<1>2. IInv => FilesAgree
  BY <1>1
<1>3. QED
  BY InitInv, InvStep, <1>2, PTL DEF Spec

(* No step gives an install whose run is over a second run, and none gives *)
(* one to an install that was accepted without a task.                     *)
LEMMA RunAgainStep ==
  IInv /\ [Next]_vars =>
    \A j \in Install :
      /\ runner[j] \in {"closing", "done", "dead", "lost"} =>
           runner'[j] \in {"closing", "done", "dead", "lost"}
      /\ status[j] # "absent" /\ runner[j] = "none" => runner'[j] = "none"
<1> SUFFICES ASSUME IInv, [Next]_vars, NEW j \in Install
             PROVE  /\ runner[j] \in {"closing", "done", "dead", "lost"} =>
                         runner'[j] \in {"closing", "done", "dead", "lost"}
                    /\ status[j] # "absent" /\ runner[j] = "none" =>
                         runner'[j] = "none"
  OBVIOUS
<1> USE DEF task
<1>1. TypeOK /\ PipesNeedARun(j) /\ AbsentIsNotRun(j)
  BY DEF IInv, Coherent
<1>2. ASSUME NEW i \in Install, Request(i) \/ Supervise(i)
      PROVE  runner'[j] = runner[j]
             \/ status[j] = "absent"
             \/ runner[j] \in
                  {"scheduled", "spawning", "draining", "terminating"}
  BY <1>1, <1>2 DEF TypeOK, Request, Post, PostFails, Supervise, StartRunner,
                    Spawn, SpawnFails, BudgetSpent, Finish
<1>3. ASSUME NEW i \in Install, ReadPipes(i)
      PROVE  \/ runner'[j] = runner[j]
             \/ runner[j] \in {"draining", "dead"} /\ runner'[j] = "dead"
  BY <1>1, <1>3 DEF TypeOK, PipesNeedARun, ReadPipes, MirrorLine, StatusLine,
                    OversizeLine, DrainRaises, Eof
<1>4. ASSUME NEW i \in Install, AppendEvent(i) \/ SweepInstall(i)
      PROVE  \/ runner'[j] = runner[j]
             \/ runner[j] = "closing" /\ runner'[j] = "done"
  BY <1>1, <1>4 DEF TypeOK, AppendEvent, SweepInstall
<1>41. ASSUME NEW i \in Install, WriteFails(i)
       PROVE  \/ runner'[j] = runner[j]
              \/ runner[j] \notin {"none", "done"} /\ runner'[j] = "dead"
  BY <1>1, <1>41, FailureIsLocal, FailureFollowsARun DEF IInv
<1>5. CASE Tick \/ Boot \/ BootDone \/ UNCHANGED vars
  BY <1>5 DEF Tick, Boot, BootDone, vars
<1>6. CASE Die
  BY <1>1, <1>6 DEF Die, TypeOK
<1>7. ASSUME NEW i \in Install, Request(i) \/ Supervise(i)
      PROVE  /\ runner[j] \in {"closing", "done", "dead", "lost"} =>
                  runner'[j] \in {"closing", "done", "dead", "lost"}
             /\ status[j] # "absent" /\ runner[j] = "none" =>
                  runner'[j] = "none"
  BY <1>1, <1>2, <1>7 DEF AbsentIsNotRun
<1>8. QED
  BY <1>3, <1>4, <1>41, <1>5, <1>6, <1>7 DEF Next, Live

(* An install_id is run at most once, however often it is posted and       *)
(* however often the server dies.                                          *)
THEOREM RunAtMostOnce == Spec => NeverRunAgain
<1>1. IInv /\ [Next]_vars =>
        [\A i \in Install :
           /\ runner[i] \in {"closing", "done", "dead", "lost"} =>
                runner'[i] \in {"closing", "done", "dead", "lost"}
           /\ status[i] # "absent" /\ runner[i] = "none" =>
                runner'[i] = "none"]_vars
  BY RunAgainStep
<1>2. QED
  BY InitInv, InvStep, <1>1, PTL DEF Spec, NeverRunAgain

-----------------------------------------------------------------------------
(***************************************************************************)
(* InstallLifecycle implements InstallContract: every step of an endpoint, *)
(* of the runner, of a drain task or of the clean-up is a step of the      *)
(* contract or leaves what the contract speaks of alone.                   *)
(***************************************************************************)

(* A step that writes neither file is a stutter of the contract. *)
LEMMA FilesUntouched ==
  ASSUME status' = status, events' = events
  PROVE  UNCHANGED Contract!cvars
BY DEF Contract!cvars, Announced

(* A step that moves the status of one install and appends nothing. *)
LEMMA OneStatusMoves ==
  ASSUME NEW i \in Install, NEW from, NEW to,
         status[i] \in from, status' = [status EXCEPT ![i] = to],
         events' = events
  PROVE  Contract!Move(i, from, to)
BY DEF Contract!Move, Announced

LEMMA ContractInit == Init => Contract!CInit
BY DEF Init, Contract!CInit, Announced

(* Every step of an install is one of the contract, or a stutter. *)
LEMMA ContractStep == IInv /\ [Next]_vars => [Contract!CNext]_(Contract!cvars)
<1> SUFFICES ASSUME IInv, [Next]_vars
             PROVE  [Contract!CNext]_(Contract!cvars)
  OBVIOUS
<1> USE DEF files, task, proc
<1>1. TypeOK /\ \A i \in Install : Coherent(i)
  BY DEF IInv
<1>2. ASSUME NEW i \in Install, Request(i)
      PROVE  [Contract!CNext]_(Contract!cvars)
  <2>1. CASE status[i] = "absent"
    <3>1. Contract!Move(i, {"absent"}, "queued")
      BY <1>2, <2>1, OneStatusMoves DEF Request, Post, PostFails
    <3>2. QED
      BY <3>1 DEF Contract!CNext, Contract!Accept
  <2>2. CASE status[i] # "absent"
    BY <1>2, <2>2, FilesUntouched DEF Request, Post, PostFails
  <2>3. QED
    BY <2>1, <2>2
<1>3. ASSUME NEW i \in Install, Supervise(i)
      PROVE  [Contract!CNext]_(Contract!cvars)
  <2>1. CASE StartRunner(i)
    <3>1. status[i] \in {"queued"}
      BY <1>1, <2>1 DEF StartRunner, Coherent, StatusFollowsTheRun
    <3>2. Contract!Move(i, {"queued"}, "running")
      <4>1. status' = [status EXCEPT ![i] = "running"] /\ events' = events
        BY <2>1 DEF StartRunner
      <4>2. QED
        BY <3>1, <4>1 DEF Contract!Move, Announced
    <3>3. QED
      BY <3>2 DEF Contract!CNext, Contract!Run
  <2>2. CASE Spawn(i) \/ BudgetSpent(i)
    BY <2>2, FilesUntouched DEF Spawn, BudgetSpent
  <2>3. ASSUME NEW o \in Outcome, RecordOutcome(i, o), events' = events,
               runner[i] \in {"spawning", "draining", "terminating"}
        PROVE  Contract!CNext
    <3>1. status[i] \in {"running"}
      BY <1>1, <2>3 DEF Coherent, StatusFollowsTheRun
    <3>2. Contract!Move(i, {"running"}, o)
      <4>1. status' = [status EXCEPT ![i] = o] /\ events' = events
        BY <2>3 DEF RecordOutcome
      <4>2. QED
        BY <3>1, <4>1 DEF Contract!Move, Announced
    <3>3. QED
      BY <3>2 DEF Contract!CNext, Contract!Decide, Contract!Outcome, Outcome
  <2>4. CASE SpawnFails(i)
    BY <2>3, <2>4 DEF SpawnFails, Outcome
  <2>5. CASE Finish(i)
    BY <1>1, <2>3, <2>5, FinalIsOutcome DEF Finish
  <2>6. QED
    BY <1>3, <2>1, <2>2, <2>4, <2>5 DEF Supervise
<1>4. ASSUME NEW i \in Install, ReadPipes(i)
      PROVE  [Contract!CNext]_(Contract!cvars)
  BY <1>4, FilesUntouched
     DEF ReadPipes, MirrorLine, StatusLine, OversizeLine, Eof
<1>5. ASSUME NEW i \in Install, AppendEvent(i) \/ WriteFails(i)
      PROVE  [Contract!CNext]_(Contract!cvars)
  <2>1. status' = status
    BY <1>1, <1>5, FailureIsLocal DEF AppendEvent
  <2>2. CASE events' = events
    BY <2>1, <2>2, FilesUntouched
  <2>3. CASE pending[i] \in Event /\ events'[i] = Append(events[i], pending[i])
    <3>1. \A j \in Install \ {i} : Announced(j)' = Announced(j)
      BY <1>5, LogSteps DEF Announced
    <3>2. CASE pending[i] \in Outcome
      <4>1. status[i] = pending[i]
        BY <1>1, <3>2 DEF Coherent, RecordedFirst
      <4>2. [j \in Install |-> Announced(j)]'
              = [[j \in Install |-> Announced(j)] EXCEPT ![i] = status[i]]
        BY <2>3, <3>1, <3>2, <4>1, AppendAnnounces
      <4>3. Contract!Announce(i)
        BY <2>1, <2>3, <3>2, <4>1, <4>2, AppendAnnounces
           DEF Contract!Announce, Contract!Outcome, Outcome
      <4>4. QED
        BY <4>3 DEF Contract!CNext
    <3>3. CASE pending[i] \notin Outcome
      <4>1. \A j \in Install : Announced(j)' = Announced(j)
        BY <2>3, <3>1, <3>3, AppendAnnounces
      <4>2. QED
        BY <2>1, <4>1 DEF Contract!cvars
    <3>4. QED
      BY <3>2, <3>3
  <2>4. QED
    BY <1>5, <2>2, <2>3, LogSteps
<1>6. ASSUME NEW i \in Install, SweepInstall(i)
      PROVE  [Contract!CNext]_(Contract!cvars)
  <2>1. CASE status[i] \in Active
    <3>1. Contract!Move(i, Active, "failed")
      BY <1>6, <2>1, OneStatusMoves DEF SweepInstall, RecordOutcome
    <3>2. QED
      BY <3>1 DEF Contract!CNext, Contract!Abandon, Contract!Active, Active
  <2>2. CASE status[i] \notin Active
    BY <1>6, <2>2, FilesUntouched DEF SweepInstall
  <2>3. QED
    BY <2>1, <2>2
<1>7. CASE Tick \/ Boot \/ BootDone \/ Die \/ UNCHANGED vars
  BY <1>7, FilesUntouched DEF Tick, Boot, BootDone, Die, vars
<1>8. QED
  BY <1>2, <1>3, <1>4, <1>5, <1>6, <1>7 DEF Next, Live

(* The files of an install keep the contract of its endpoints: accepted    *)
(* once, run once, decided once, and announced at most once, as decided.   *)
THEOREM ImplementsContract == Spec => ContractHolds
<1>1. Init => Contract!CInit
  BY ContractInit
<1>2. IInv /\ [Next]_vars => [Contract!CNext]_(Contract!cvars)
  BY ContractStep
<1>3. QED
  BY InitInv, InvStep, <1>1, <1>2, PTL
     DEF Spec, ContractHolds, Contract!CSpec

-----------------------------------------------------------------------------
(***************************************************************************)
(* What is left in the files of an install: how far events.jsonl is behind *)
(* state.json, and what a restart owes to the installs it finds in flight. *)
(***************************************************************************)

(* Lines folded into state.json that events.jsonl does not have. *)
Behind(i) == updates[i] - MirroredEvents(i)

(* What the next line will cost, if it lands on a part of a line, and what *)
(* a death may cost, or has.                                               *)
Torn(i)  == IF torn[i] THEN 1 ELSE 0
Owing(i) == IF pending[i] \in Mirrored \/ runner[i] = "lost" THEN 1 ELSE 0

(* The log is behind by exactly the line being mirrored as long as the run *)
(* lives; after that, by what a death and the failed writes account for.   *)
Trails(i) ==
  /\ Behind(i) >= 0
  /\ pending[i] \in Mirrored =>
       Behind(i) >= 1 /\ runner[i] \in {"draining", "dead"}
  /\ runner[i] \notin {"dead", "lost"} =>
       Behind(i) = IF pending[i] \in Mirrored THEN 1 ELSE 0
  /\ Behind(i) + Torn(i) <= 2 * faults + Owing(i)

Announces(i) ==
  /\ status[i] \in Outcome =>
       Announced(i) # "none" \/ pending[i] \in Outcome \/ CutOff(i)
  /\ runner[i] = "closing" => pending[i] \in Outcome

(* An install that lost its runner in flight is still to be swept. *)
Owed(i) ==
  StartupHandlersRun /\ runner[i] = "lost" /\ status[i] \in Active =>
    server = "down" \/ (server = "booting" /\ i \in sweep)

FirstProcess == restarts = 0 => server = "up"

Accounted(i) == Trails(i) /\ Announces(i) /\ Owed(i)

LogInv == IInv /\ FirstProcess /\ \A i \in Install : Accounted(i)

LEMMA LogInit == Init => LogInv
<1> SUFFICES ASSUME Init
             PROVE  LogInv
  OBVIOUS
<1>1. IInv
  BY InitInv
<1>2. ASSUME NEW i \in Install
      PROVE  Accounted(i)
  BY DEF Init, Accounted, Trails, Behind, Torn, Owing, MirroredEvents,
         Announced, Announces, Owed, Outcome, Mirrored, Active
<1>3. QED
  BY <1>1, <1>2 DEF LogInv, FirstProcess, Init

(* Counting the mirrored events of a log that is left alone. *)
LEMMA LogUntouched ==
  ASSUME NEW j \in Install, events'[j] = events[j]
  PROVE  Announced(j)' = Announced(j) /\ MirroredEvents(j)' = MirroredEvents(j)
BY DEF Announced, MirroredEvents

(* A complete event does not count as mirrored, any other event does. *)
LEMMA AppendCounts ==
  ASSUME IInv, NEW i \in Install, pending[i] \in Event,
         events'[i] = Append(events[i], pending[i])
  PROVE  MirroredEvents(i)' = IF pending[i] \in Outcome
                              THEN MirroredEvents(i) ELSE MirroredEvents(i) + 1
<1>1. events[i] \in Seq(Event)
  BY DEF IInv, TypeOK
<1>2. Len(events[i]) \in Nat /\ Len(events'[i]) = Len(events[i]) + 1
  BY <1>1
<1>3. "none" \notin Outcome
  BY DEF Outcome
<1>4. QED
  BY <1>2, <1>3, AppendAnnounces DEF MirroredEvents

LEMMA CountIsInt ==
  ASSUME TypeOK, NEW i \in Install
  PROVE  /\ MirroredEvents(i) \in Int /\ updates[i] \in Int
         /\ faults \in Nat /\ restarts \in Nat
<1>1. events[i] \in Seq(Event) /\ updates[i] \in 0..MaxLines
  BY DEF TypeOK
<1>2. Len(events[i]) \in Nat
  BY <1>1
<1>3. faults \in Nat /\ restarts \in Nat
  BY InstallAssumption DEF TypeOK, InstallAssumption
<1>4. QED
  BY <1>1, <1>2, <1>3 DEF MirroredEvents

(* An install stays accounted for when none of its variables changes, the  *)
(* server does not start and no more than one write fails.                 *)
LEMMA AccountedUntouched ==
  ASSUME TypeOK, NEW j \in Install, Accounted(j),
         status'[j] = status[j], updates'[j] = updates[j],
         events'[j] = events[j], torn'[j] = torn[j], pending'[j] = pending[j],
         runner'[j] = runner[j],
         faults' \in {faults, faults + 1},
         restarts' \in {restarts, restarts + 1},
         \/ server' = server /\ (j \in sweep' <=> j \in sweep)
         \/ server' = "down"
  PROVE  Accounted(j)'
<1>1. /\ MirroredEvents(j) \in Int /\ updates[j] \in Int
      /\ faults \in Nat /\ restarts \in Nat
  BY CountIsInt
<1>2. Behind(j)' = Behind(j) /\ Torn(j)' = Torn(j) /\ Owing(j)' = Owing(j)
  BY LogUntouched DEF Behind, Torn, Owing
<1>3. Behind(j) \in Int /\ Torn(j) \in Int /\ Owing(j) \in Int
  BY <1>1 DEF Behind, Torn, Owing
<1>4. Trails(j)'
  BY <1>1, <1>2, <1>3 DEF Accounted, Trails
<1>5. Announces(j)'
  BY <1>1, LogUntouched DEF Accounted, Announces, CutOff
<1>6. Owed(j)'
  BY DEF Accounted, Owed
<1>7. QED
  BY <1>4, <1>5, <1>6 DEF Accounted

(* A failed write is accounted for: with the pending line go at most that  *)
(* line and the next.                                                      *)
LEMMA FailureIsAccounted ==
  ASSUME LogInv, IInv', NEW i \in Install, WriteFails(i)
  PROVE  Accounted(i)'
<1>1. /\ TypeOK /\ Coherent(i) /\ Coherent(i)' /\ Accounted(i)
      /\ MirroredEvents(i) \in Int /\ updates[i] \in Int
      /\ faults \in Nat /\ restarts \in Nat
  BY CountIsInt DEF LogInv, IInv
<1>2. /\ UNCHANGED <<status, updates>> /\ faults' = faults + 1
      /\ \/ /\ server = "up" /\ UNCHANGED <<server, sweep, restarts>>
            /\ runner'[i] = "dead"
         \/ /\ server' = "down" /\ server = "booting" /\ UNCHANGED runner
            /\ pending[i] # "none"
  BY <1>1, FailureIsLocal DEF AppendFails
<1>3. \/ UNCHANGED <<events, torn, pending>> /\ pending[i] = "none"
      \/ /\ pending[i] \in Event /\ pending'[i] = "none"
         /\ \/ events'[i] = events[i]
            \/ events'[i] = Append(events[i], pending[i]) /\ ~torn'[i]
  BY <1>1, FailureIsLocal, LineIsWritten
     DEF UpdateFails, Serving, LoopFree
<1>4. /\ "none" \notin Mirrored /\ "none" \notin Outcome
      /\ Event = Mirrored \cup Outcome /\ Mirrored \cap Outcome = {}
  BY DEF Mirrored, Outcome, Event
<1>5. \/ runner'[i] = "dead"
      \/ runner'[i] = runner[i] /\ runner[i] \in {"none", "lost"}
  BY <1>1, <1>2 DEF Coherent, RunsWrite
<1>6. MirroredEvents(i)' \in {MirroredEvents(i), MirroredEvents(i) + 1}
      /\ (MirroredEvents(i)' # MirroredEvents(i) =>
            pending[i] \in Mirrored /\ ~torn'[i])
  <2>1. CASE events'[i] = events[i]
    BY <2>1, LogUntouched
  <2>2. CASE pending[i] \in Event /\ events'[i] = Append(events[i], pending[i])
             /\ ~torn'[i]
    BY <1>4, <2>2, AppendCounts DEF LogInv
  <2>3. QED
    BY <1>3, <2>1, <2>2
<1>7. Trails(i)'
  <2>1. /\ Behind(i) \in Int /\ Behind(i)' \in {Behind(i), Behind(i) - 1}
        /\ (Behind(i)' # Behind(i) => pending[i] \in Mirrored /\ ~torn'[i])
    BY <1>1, <1>2, <1>6 DEF Behind
  <2>2. /\ Torn(i) \in 0..1 /\ Torn(i)' \in 0..1
        /\ Owing(i) \in 0..1 /\ Owing(i)' \in 0..1
    BY DEF Torn, Owing
  <2>3. Behind(i) + Torn(i) <= 2 * faults + Owing(i)
    BY <1>1 DEF Accounted, Trails
  <2>4. Behind(i)' + Torn(i)' <= 2 * faults' + Owing(i)'
    <3>1. CASE Owing(i)' = Owing(i) \/ Torn(i)' = Torn(i)
      BY <1>1, <1>2, <2>1, <2>2, <2>3, <3>1
    <3>2. CASE Torn(i)' # Torn(i) /\ Owing(i)' # Owing(i)
      <4>1. Behind(i)' <= Behind(i)
        BY <2>1
      <4>2. Behind(i) <= 2 * faults + Owing(i) - Torn(i)
        BY <1>1, <2>1, <2>2, <2>3
      <4>3. QED
        BY <1>1, <1>2, <2>1, <2>2, <4>1, <4>2
    <3>3. QED
      BY <3>1, <3>2
  <2>5. Behind(i)' >= 0
    BY <1>1, <2>1 DEF Accounted, Trails
  <2>6. pending'[i] = "none"
    BY <1>3
  <2>7. runner'[i] \notin {"dead", "lost"} => Behind(i)' = 0
    BY <1>1, <1>5, <2>1 DEF Accounted, Trails
  <2>8. QED
    BY <1>4, <2>4, <2>5, <2>6, <2>7 DEF Trails
<1>8. Announces(i)'
  BY <1>1, <1>2, <1>5 DEF Announces, CutOff
<1>9. Owed(i)'
  BY <1>1, <1>2 DEF Accounted, Owed
<1>10. QED
  BY <1>7, <1>8, <1>9 DEF Accounted

(* Every step leaves every install accounted for. *)
LEMMA AccountedStep == LogInv /\ [Next]_vars => \A j \in Install : Accounted(j)'
<1> SUFFICES ASSUME LogInv, [Next]_vars, NEW j \in Install
             PROVE  Accounted(j)'
  OBVIOUS
<1> USE DEF files, task, proc
<1>1. /\ IInv /\ IInv' /\ TypeOK /\ TypeOK'
      /\ Coherent(j) /\ FirstProcess /\ Accounted(j)
  BY InvStep DEF LogInv, IInv
<1>2. /\ MirroredEvents(j) \in Int /\ updates[j] \in Int
      /\ faults \in Nat /\ restarts \in Nat
      /\ Behind(j) \in Int /\ Torn(j) \in 0..1 /\ Owing(j) \in 0..1
  BY <1>1, CountIsInt DEF Behind, Torn, Owing
<1>3. ASSUME NEW i \in Install, Request(i)
      PROVE  Accounted(j)'
  <2>1. /\ UNCHANGED <<updates, events, torn, pending, faults, restarts, server,
                      sweep>>
        /\ pending[j] = "none"
        /\ \/ status'[j] = status[j] /\ runner'[j] = runner[j]
           \/ /\ status[j] = "absent" /\ status'[j] = "queued"
              /\ runner'[j] \in {runner[j], "scheduled"}
    BY <1>1, <1>3 DEF Request, Post, PostFails, TypeOK, Serving, LoopFree
  <2>2. CASE status'[j] = status[j] /\ runner'[j] = runner[j]
    BY <1>1, <2>1, <2>2, AccountedUntouched
  <2>3. CASE status[j] = "absent" /\ status'[j] = "queued"
             /\ runner'[j] \in {runner[j], "scheduled"}
    <3>1. runner[j] = "none" /\ runner'[j] \in {"none", "scheduled"}
      BY <1>1, <2>3 DEF Coherent, AbsentIsNotRun
    <3>2. Trails(j)'
      <4>1. Behind(j)' = Behind(j) /\ Torn(j)' = Torn(j) /\ Owing(j)' = Owing(j)
        BY <2>1, <3>1, LogUntouched DEF Behind, Torn, Owing
      <4>2. QED
        BY <1>1, <2>1, <3>1, <4>1 DEF Accounted, Trails
    <3>3. QED
      BY <2>1, <2>3, <3>1, <3>2 DEF Accounted, Announces, Owed, Outcome
  <2>4. QED
    BY <2>1, <2>2, <2>3
<1>4. ASSUME NEW i \in Install, Supervise(i)
      PROVE  Accounted(j)'
  <2>1. CASE i # j
    BY <1>1, <1>4, <2>1, AccountedUntouched
       DEF Supervise, StartRunner, Spawn, SpawnFails, BudgetSpent, Finish,
           RecordOutcome, TypeOK
  <2>2. CASE i = j
    <3>1. Final(j) \in Outcome /\ Outcome \cap Mirrored = {}
          /\ "none" \notin Mirrored
      BY <1>1, FinalIsOutcome DEF Outcome, Mirrored
    <3>2. /\ runner[j] \notin {"dead", "lost", "closing"}
          /\ runner'[j] \notin {"dead", "lost"}
          /\ pending[j] = "none"
      BY <1>1, <1>4, <2>2
         DEF Supervise, StartRunner, Spawn, SpawnFails, BudgetSpent, Finish,
             Serving, LoopFree, TypeOK
    <3>3. UNCHANGED <<updates, events, torn, faults, restarts>>
      BY <1>4 DEF Supervise, StartRunner, Spawn, SpawnFails, BudgetSpent,
                  Finish
    <3>4. \/ pending'[j] \in Outcome
          \/ /\ pending'[j] = pending[j] /\ runner'[j] # "closing"
             /\ status'[j] \notin Outcome
      <4>1. CASE StartRunner(i) \/ Spawn(i) \/ BudgetSpent(i)
        BY <1>1, <2>2, <4>1
           DEF StartRunner, Spawn, BudgetSpent, TypeOK, Outcome, Coherent,
               StatusFollowsTheRun
      <4>2. CASE SpawnFails(i) \/ Finish(i)
        BY <1>1, <2>2, <3>1, <4>2
           DEF SpawnFails, Finish, RecordOutcome, TypeOK, Outcome
      <4>3. QED
        BY <1>4, <4>1, <4>2 DEF Supervise
    <3>5. Trails(j)'
      <4>1. /\ Behind(j)' = Behind(j) /\ Torn(j)' = Torn(j)
            /\ Owing(j) = 0 /\ Owing(j)' = 0 /\ pending'[j] \notin Mirrored
        BY <3>1, <3>2, <3>3, <3>4, LogUntouched DEF Behind, Torn, Owing
      <4>2. QED
        BY <1>1, <3>1, <3>2, <3>3, <4>1 DEF Accounted, Trails
    <3>6. Announces(j)' /\ Owed(j)'
      BY <3>2, <3>4 DEF Announces, Owed
    <3>7. QED
      BY <3>5, <3>6 DEF Accounted
  <2>3. QED
    BY <2>1, <2>2
<1>5. ASSUME NEW i \in Install, ReadPipes(i)
      PROVE  Accounted(j)'
  <2>1. CASE i # j
    <3>1. /\ UNCHANGED <<status, events, torn, faults, restarts, server, sweep>>
          /\ updates'[j] = updates[j] /\ pending'[j] = pending[j]
          /\ runner'[j] = runner[j]
      BY <1>1, <1>5, <2>1
         DEF ReadPipes, MirrorLine, StatusLine, OversizeLine, DrainRaises, Eof,
             TypeOK
    <3>2. QED
      BY <1>1, <3>1, AccountedUntouched
  <2>2. CASE i = j
    <3>1. /\ runner[j] \in {"draining", "dead"} /\ status[j] = "running"
          /\ pending[j] = "none"
          /\ UNCHANGED <<status, events, torn, faults, restarts>>
      BY <1>1, <1>5, <2>2
         DEF ReadPipes, MirrorLine, StatusLine, OversizeLine, Eof, Serving,
             LoopFree, Coherent, PipesNeedARun
    <3>2. \/ /\ updates'[j] = updates[j] + 1 /\ pending'[j] \in Mirrored
             /\ runner' = runner
          \/ /\ updates'[j] = updates[j] /\ pending' = pending
             /\ runner'[j] \in {runner[j], "dead"}
      <4>1. CASE \E e \in Mirrored : MirrorLine(i, e)
        BY <1>1, <2>2, <4>1 DEF MirrorLine, TypeOK
      <4>2. CASE \E o \in Outcome : StatusLine(i, o)
        BY <4>2 DEF StatusLine
      <4>3. CASE \E p \in Pipe : OversizeLine(i, p) \/ Eof(i, p)
        BY <1>1, <2>2, <4>3 DEF OversizeLine, DrainRaises, Eof, TypeOK
      <4>4. QED
        BY <1>5, <4>1, <4>2, <4>3 DEF ReadPipes
    <3>3. "none" \notin Mirrored /\ "running" \notin Outcome
          /\ "running" \in Active
      BY DEF Mirrored, Outcome, Active
    <3>4. Trails(j)'
      <4>1. /\ Behind(j)' = Behind(j) + (updates'[j] - updates[j])
            /\ Torn(j)' = Torn(j) /\ Owing(j) = 0
            /\ Owing(j)' = updates'[j] - updates[j]
        BY <1>2, <3>1, <3>2, <3>3, LogUntouched DEF Behind, Torn, Owing
      <4>2. CASE updates'[j] = updates[j] + 1 /\ pending'[j] \in Mirrored
                 /\ runner' = runner
        BY <1>1, <1>2, <3>1, <3>3, <4>1, <4>2 DEF Accounted, Trails
      <4>3. CASE updates'[j] = updates[j] /\ pending' = pending
                 /\ runner'[j] \in {runner[j], "dead"}
        BY <1>1, <1>2, <3>1, <3>3, <4>1, <4>3 DEF Accounted, Trails
      <4>4. QED
        BY <3>2, <4>2, <4>3
    <3>5. Announces(j)' /\ Owed(j)'
      BY <3>1, <3>2, <3>3 DEF Announces, Owed
    <3>6. QED
      BY <3>4, <3>5 DEF Accounted
  <2>3. QED
    BY <2>1, <2>2
<1>6. ASSUME NEW i \in Install, AppendEvent(i)
      PROVE  Accounted(j)'
  <2>1. /\ UNCHANGED <<status, updates, faults, restarts, server, sweep>>
        /\ pending[i] \in Event /\ pending'[i] = "none"
        /\ runner'[i] = IF runner[i] = "closing" THEN "done" ELSE runner[i]
        /\ \A k \in Install \ {i} :
             pending'[k] = pending[k] /\ runner'[k] = runner[k]
        /\ WriteLine(i)
    BY <1>1, <1>6 DEF AppendEvent, TypeOK
  <2>2. CASE i # j
    BY <1>1, <2>1, <2>2, AccountedUntouched, LineIsWritten
  <2>3. CASE i = j
    <3>1. /\ "none" \notin Mirrored /\ "none" \notin Outcome
          /\ Event = Mirrored \cup Outcome /\ Mirrored \cap Outcome = {}
      BY DEF Mirrored, Outcome, Event
    <3>2. CASE torn[j]
      <4>1. events'[j] = events[j] /\ ~torn'[j]
        BY <1>1, <2>1, <2>3, <3>2, LineIsWritten
      <4>2. runner[j] \in {"none", "dead", "lost"} /\ faults > 0
            /\ runner'[j] = runner[j]
        BY <1>1, <2>1, <2>3, <3>2 DEF Coherent, RunsWrite
      <4>3. Trails(j)'
        <5>1. /\ Behind(j)' = Behind(j) /\ Torn(j) = 1 /\ Torn(j)' = 0
              /\ Owing(j)' \in 0..1 /\ Owing(j) <= 1
          BY <1>2, <2>1, <3>2, <4>1, LogUntouched DEF Behind, Torn, Owing
        <5>2. runner[j] = "none" => Behind(j) = 0
          BY <1>1, <4>2 DEF Accounted, Trails
        <5>3. QED
          BY <1>1, <1>2, <2>1, <2>3, <3>1, <4>2, <5>1, <5>2
             DEF Accounted, Trails
      <4>4. Announces(j)'
        BY <2>1, <4>2 DEF Announces, CutOff
      <4>5. QED
        BY <1>1, <2>1, <4>2, <4>3, <4>4 DEF Accounted, Owed
    <3>3. CASE ~torn[j]
      <4>1. events'[j] = Append(events[j], pending[j]) /\ ~torn'[j]
        BY <1>1, <2>1, <2>3, <3>3, LineIsWritten
      <4>2. runner'[j] \in {"dead", "lost"} <=> runner[j] \in {"dead", "lost"}
        BY <2>1, <2>3
      <4>3. Trails(j)'
        <5>1. Behind(j)' = IF pending[j] \in Outcome
                           THEN Behind(j) ELSE Behind(j) - 1
          BY <1>1, <1>2, <2>1, <2>3, <4>1, AppendCounts DEF Behind
        <5>2. /\ Torn(j) = 0 /\ Torn(j)' = 0
              /\ Owing(j)' = IF runner[j] = "lost" THEN 1 ELSE 0
          BY <2>1, <2>3, <3>1, <3>3, <4>1 DEF Torn, Owing
        <5>3. Owing(j) = IF pending[j] \in Mirrored \/ runner[j] = "lost"
                         THEN 1 ELSE 0
          BY DEF Owing
        <5>4. QED
          BY <1>1, <1>2, <2>1, <2>3, <3>1, <4>2, <5>1, <5>2, <5>3
             DEF Accounted, Trails
      <4>4. Announces(j)'
        <5>1. CASE pending[j] \in Outcome
          BY <1>1, <2>1, <2>3, <3>1, <4>1, <5>1, AppendAnnounces
             DEF Announces
        <5>2. CASE pending[j] \notin Outcome
          <6>1. runner'[j] # "closing" /\ runner'[j] = runner[j]
            BY <1>1, <2>1, <2>3, <5>2 DEF Accounted, Announces
          <6>2. Announced(j) = "none"
            BY <1>1, <2>1, <2>3, <4>1, AppendAnnounces
          <6>3. QED
            BY <1>1, <2>1, <5>2, <6>1, <6>2
               DEF Accounted, Announces, CutOff
        <5>3. QED
          BY <5>1, <5>2
      <4>5. QED
        BY <1>1, <2>1, <2>3, <4>2, <4>3, <4>4 DEF Accounted, Owed
    <3>4. QED
      BY <3>2, <3>3
  <2>4. QED
    BY <2>2, <2>3
<1>61. ASSUME NEW i \in Install, WriteFails(i)
       PROVE  Accounted(j)'
  <2>1. CASE i # j
    <3>1. /\ UNCHANGED <<status, updates>> /\ faults' = faults + 1
          /\ runner'[j] = runner[j] /\ pending'[j] = pending[j]
          /\ events'[j] = events[j] /\ torn'[j] = torn[j]
          /\ \/ UNCHANGED <<server, sweep, restarts>>
             \/ server' = "down" /\ restarts' = restarts + 1
      BY <1>1, <1>61, <2>1, FailureIsLocal
    <3>2. QED
      BY <1>1, <3>1, AccountedUntouched
  <2>2. QED
    BY <1>1, <1>61, <2>1, FailureIsAccounted
<1>7. ASSUME NEW i \in Install, SweepInstall(i)
      PROVE  Accounted(j)'
  <2>1. CASE i # j
    BY <1>1, <1>7, <2>1, AccountedUntouched
       DEF SweepInstall, RecordOutcome, TypeOK
  <2>2. CASE i = j
    <3>1. /\ UNCHANGED <<updates, events, torn, runner, restarts, faults,
                         server>>
          /\ pending[j] = "none" /\ runner[j] # "closing"
          /\ \/ status[j] \in Active /\ status'[j] = "failed"
                /\ pending'[j] = "failed"
             \/ status[j] \notin Active /\ UNCHANGED <<status, pending>>
      BY <1>1, <1>7, <2>2
         DEF SweepInstall, RecordOutcome, TypeOK, LoopFree, Coherent,
             NoTaskSurvives
    <3>2. /\ "failed" \in Outcome /\ "failed" \notin Mirrored
          /\ "none" \notin Mirrored /\ "failed" \notin Active
      BY DEF Outcome, Mirrored, Active
    <3>3. Trails(j)'
      <4>1. Behind(j)' = Behind(j) /\ Torn(j)' = Torn(j) /\ Owing(j)' = Owing(j)
        BY <3>1, <3>2, LogUntouched DEF Behind, Torn, Owing
      <4>2. QED
        BY <1>1, <3>1, <3>2, <4>1 DEF Accounted, Trails
    <3>4. Announces(j)'
      BY <1>1, <3>1, <3>2, LogUntouched DEF Accounted, Announces, CutOff
    <3>5. Owed(j)'
      BY <1>1, <3>1, <3>2 DEF Accounted, Owed
    <3>6. QED
      BY <3>3, <3>4, <3>5 DEF Accounted
  <2>3. QED
    BY <2>1, <2>2
<1>8. CASE Tick
  BY <1>1, <1>8, AccountedUntouched DEF Tick
<1>9. CASE Boot
  <2>1. UNCHANGED <<status, updates, events, torn, pending, runner, faults,
                    restarts>>
    BY <1>9 DEF Boot
  <2>2. Trails(j)' /\ Announces(j)'
    <3>1. Behind(j)' = Behind(j) /\ Torn(j)' = Torn(j) /\ Owing(j)' = Owing(j)
      BY <2>1, LogUntouched DEF Behind, Torn, Owing
    <3>2. QED
      BY <1>1, <2>1, <3>1, LogUntouched
         DEF Accounted, Trails, Announces, CutOff
  <2>3. Owed(j)'
    BY <1>1, <1>9 DEF Boot, Active, Accounted, Owed
  <2>4. QED
    BY <2>2, <2>3 DEF Accounted
<1>10. CASE BootDone
  <2>1. UNCHANGED <<status, updates, events, torn, pending, runner, faults,
                    restarts>>
    BY <1>10 DEF BootDone
  <2>2. Trails(j)' /\ Announces(j)'
    <3>1. Behind(j)' = Behind(j) /\ Torn(j)' = Torn(j) /\ Owing(j)' = Owing(j)
      BY <2>1, LogUntouched DEF Behind, Torn, Owing
    <3>2. QED
      BY <1>1, <2>1, <3>1, LogUntouched
         DEF Accounted, Trails, Announces, CutOff
  <2>3. Owed(j)'
    BY <1>1, <1>10 DEF BootDone, Accounted, Owed
  <2>4. QED
    BY <2>2, <2>3 DEF Accounted
<1>11. CASE Die
  <2>1. /\ pending'[j] = "none" /\ server' = "down" /\ restarts' = restarts + 1
        /\ UNCHANGED <<status, updates, events, torn, faults>>
        /\ runner'[j] = IF runner[j] \in {"none", "done"}
                        THEN runner[j] ELSE "lost"
    BY <1>1, <1>11 DEF Die, TypeOK
  <2>2. "none" \notin Mirrored
    BY DEF Mirrored
  <2>3. Trails(j)'
    <3>1. Behind(j)' = Behind(j) /\ Torn(j)' = Torn(j)
      BY <2>1, LogUntouched DEF Behind, Torn
    <3>2. Owing(j) <= Owing(j)' /\ Owing(j)' \in 0..1
      BY <1>1, <2>1 DEF Owing, Accounted, Trails
    <3>3. QED
      BY <1>1, <1>2, <2>1, <2>2, <3>1, <3>2 DEF Accounted, Trails
  <2>4. Announces(j)'
    <3>1. CASE runner'[j] = "done"
      <4>1. runner[j] = "done" /\ pending[j] = "none"
        BY <1>1, <2>1, <3>1 DEF Coherent, RunsWrite
      <4>2. QED
        BY <1>1, <2>1, <3>1, <4>1, LogUntouched
           DEF Accounted, Announces, CutOff, Outcome
    <3>2. CASE runner'[j] # "done"
      BY <1>2, <2>1, <3>2 DEF Announces, CutOff
    <3>3. QED
      BY <3>1, <3>2
  <2>5. QED
    BY <2>1, <2>3, <2>4 DEF Accounted, Owed
<1>12. CASE UNCHANGED vars
  BY <1>1, <1>12, AccountedUntouched DEF vars
<1>13. QED
  BY <1>3, <1>4, <1>5, <1>6, <1>61, <1>7, <1>8, <1>9, <1>10, <1>11, <1>12
     DEF Next, Live

LEMMA LogStep == LogInv /\ [Next]_vars => LogInv'
<1> SUFFICES ASSUME LogInv, [Next]_vars
             PROVE  LogInv'
  OBVIOUS
<1> USE DEF files, task, proc
<1>1. IInv' /\ TypeOK /\ FirstProcess
  BY InvStep DEF LogInv, IInv
<1>2. \/ restarts' = restarts /\ (server = "up" => server' = "up")
      \/ restarts' = restarts + 1
  <2>1. ASSUME NEW i \in Install, WriteFails(i)
        PROVE  \/ restarts' = restarts /\ (server = "up" => server' = "up")
               \/ restarts' = restarts + 1
    BY <1>1, <2>1, FailureIsLocal
  <2>2. QED
    BY <2>1
       DEF Next, Live, Request, Post, PostFails, Supervise, StartRunner, Spawn,
           SpawnFails, BudgetSpent, Finish, ReadPipes, MirrorLine, StatusLine,
           OversizeLine, Eof, AppendEvent, SweepInstall, Tick, Boot, BootDone,
           Die, vars
<1>3. FirstProcess'
  BY <1>1, <1>2 DEF FirstProcess, TypeOK
<1>4. QED
  BY <1>1, <1>3, AccountedStep DEF LogInv

-----------------------------------------------------------------------------
(* events.jsonl never leads state.json, and trails it by the line being    *)
(* written while the run lives, and afterwards by no more than a death and *)
(* the failed writes account for.                                          *)
THEOREM TheLogTrails == Spec => []LogTrailsState
<1>1. ASSUME LogInv, NEW i \in Install
      PROVE  /\ Behind(i) >= 0
             /\ runner[i] \notin {"dead", "lost"} =>
                  Behind(i) = IF pending[i] \in Mirrored THEN 1 ELSE 0
             /\ Behind(i) <= 1 + 2 * faults
  <2>1. /\ MirroredEvents(i) \in Int /\ updates[i] \in Int /\ Trails(i)
        /\ faults \in Nat
    BY <1>1, CountIsInt DEF LogInv, IInv, Accounted
  <2>2. Behind(i) \in Int /\ Torn(i) \in 0..1 /\ Owing(i) \in 0..1
    BY <2>1 DEF Behind, Torn, Owing
  <2>3. QED
    BY <2>1, <2>2 DEF Trails
<1>2. LogInv => LogTrailsState
  BY <1>1 DEF LogTrailsState, Behind
<1>3. QED
  BY LogInit, LogStep, <1>2, PTL DEF Spec

(* An outcome on record is announced in the log or about to be, unless a   *)
(* death or a failed write came between, which is never so of an install   *)
(* whose own run went through to its end.                                  *)
THEOREM OutcomesAreAnnounced == Spec => []FinishedIsAnnounced
<1>1. LogInv => FinishedIsAnnounced
  BY DEF LogInv, Accounted, Announces, FinishedIsAnnounced
<1>2. QED
  BY LogInit, LogStep, <1>1, PTL DEF Spec

(* If the start-up clean-up is called, no started server leaves an install *)
(* in flight that an earlier process lost.                                 *)
THEOREM NothingIsOrphaned ==
  ASSUME StartupHandlersRun
  PROVE  Spec => []NothingInFlightIsOrphaned
<1>1. LogInv => NothingInFlightIsOrphaned
  BY DEF LogInv, Accounted, Owed, NothingInFlightIsOrphaned
<1>2. QED
  BY LogInit, LogStep, <1>1, PTL DEF Spec
=============================================================================
