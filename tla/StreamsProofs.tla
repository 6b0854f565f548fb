--------------------------- MODULE StreamsProofs ---------------------------
(***************************************************************************)
(* Proofs about InstallStreams, for any clients, any installs, any budget  *)
(* and any cap that covers the budget and the grace before SIGKILL. They   *)
(* rest on IInv, the inductive invariant of the installs: the streams only *)
(* read, so what is proved of the installs holds beside them.              *)
(***************************************************************************)
EXTENDS InstallStreams, InstallLifecycleProofs

LEMMA StreamsRead == [NextStreams]_allvars => [Next]_vars
BY DEF NextStreams, InstallStep, Next, Live, vars, allvars

(* The streams change nothing of the installs they report on: every theorem *)
(* about the installs alone holds with any number of clients reading.       *)
THEOREM StreamsOnlyRead == SpecStreams => Spec
<1>1. InitStreams => Init
  BY DEF InitStreams
<1>2. QED
  BY <1>1, StreamsRead, PTL DEF SpecStreams, Spec

-----------------------------------------------------------------------------
(* What the installs guarantee to those who read their files.              *)

(* An outcome in state.json is final. *)
LEMMA OutcomeIsFinal ==
  ASSUME IInv, [Next]_vars, NEW i \in Install, status[i] \in Outcome
  PROVE  status'[i] = status[i]
<1> USE DEF TypeOK, Coherent, StatusFollowsTheRun, Outcome, Active, files
<1>1. TypeOK /\ Coherent(i)
  BY DEF IInv
<1>2. ASSUME NEW j \in Install, Request(j)
      PROVE  status'[i] = status[i]
  BY <1>1, <1>2 DEF Request, Post, PostFails
<1>3. ASSUME NEW j \in Install, Supervise(j)
      PROVE  status'[i] = status[i]
  BY <1>1, <1>3 DEF Supervise, StartRunner, Spawn, SpawnFails, BudgetSpent,
                    Finish, RecordOutcome
<1>4. ASSUME NEW j \in Install, ReadPipes(j)
      PROVE  status'[i] = status[i]
  BY <1>4 DEF ReadPipes, MirrorLine, StatusLine, OversizeLine, Eof
<1>5. ASSUME NEW j \in Install,
             AppendEvent(j) \/ WriteFails(j) \/ SweepInstall(j)
      PROVE  status'[i] = status[i]
  BY <1>1, <1>5, FailureIsLocal DEF AppendEvent, SweepInstall, RecordOutcome
<1>6. CASE Tick \/ Boot \/ BootDone \/ Die \/ UNCHANGED vars
  BY <1>6 DEF Tick, Boot, BootDone, Die, vars
<1>7. QED
  BY <1>2, <1>3, <1>4, <1>5, <1>6 DEF Next, Live

(* A state.json is never deleted. *)
LEMMA NeverAbsentAgain ==
  ASSUME IInv, [Next]_vars, NEW i \in Install, status[i] # "absent"
  PROVE  status'[i] # "absent"
<1> USE DEF TypeOK, Outcome, Active, files
<1>1. TypeOK /\ \A j \in Install : Final(j) \in Outcome
  BY FinalIsOutcome DEF IInv
<1>2. ASSUME NEW j \in Install, Request(j)
      PROVE  status'[i] # "absent"
  BY <1>1, <1>2 DEF Request, Post, PostFails
<1>3. ASSUME NEW j \in Install, Supervise(j)
      PROVE  status'[i] # "absent"
  BY <1>1, <1>3 DEF Supervise, StartRunner, Spawn, SpawnFails, BudgetSpent,
                    Finish, RecordOutcome
<1>4. ASSUME NEW j \in Install, ReadPipes(j)
      PROVE  status'[i] # "absent"
  BY <1>4 DEF ReadPipes, MirrorLine, StatusLine, OversizeLine, Eof
<1>5. ASSUME NEW j \in Install,
             AppendEvent(j) \/ WriteFails(j) \/ SweepInstall(j)
      PROVE  status'[i] # "absent"
  BY <1>1, <1>5, FailureIsLocal DEF AppendEvent, SweepInstall, RecordOutcome
<1>6. CASE Tick \/ Boot \/ BootDone \/ Die \/ UNCHANGED vars
  BY <1>6 DEF Tick, Boot, BootDone, Die, vars
<1>7. QED
  BY <1>2, <1>3, <1>4, <1>5, <1>6 DEF Next, Live

(* events.jsonl only grows. *)
LEMMA LogGrows ==
  ASSUME IInv, [Next]_vars, NEW i \in Install
  PROVE  Len(events[i]) \in Nat /\ Len(events'[i]) \in Nat
         /\ Len(events[i]) <= Len(events'[i])
<1> USE DEF files
<1>1. TypeOK /\ TypeOK'
  BY TypeStep DEF IInv
<1>2. events[i] \in Seq(Event) /\ events'[i] \in Seq(Event)
  BY <1>1 DEF TypeOK
<1>3. events' = events \/ \E j \in Install : AppendEvent(j) \/ WriteFails(j)
  BY DEF Next, Live, Request, Post, PostFails, Supervise, StartRunner, Spawn,
         SpawnFails, BudgetSpent, Finish, ReadPipes, MirrorLine, StatusLine,
         OversizeLine, Eof, SweepInstall, Tick, Boot, BootDone, Die, vars
<1>4. events'[i] = events[i] \/ events'[i] = Append(events[i], pending[i])
  BY <1>3, LogSteps
<1>5. QED
  BY <1>2, <1>4

(* A batch ends at the end of the log: a complete event is the last one. *)
LEMMA BatchIsAll ==
  ASSUME IInv, NEW i \in Install, NEW from \in Nat
  PROVE  Until(i, from) = Len(events[i])
<1> DEFINE completes ==
      {k \in (from + 1)..Len(events[i]) : events[i][k] \in Outcome}
<1>1. CompleteSeals(i) /\ Len(events[i]) \in Nat
  BY DEF IInv, Coherent, TypeOK
<1>2. \A k \in completes : k = Len(events[i])
  BY <1>1 DEF CompleteSeals
<1>3. CASE completes = {}
  BY <1>3 DEF Until
<1>4. CASE completes # {}
  <2>1. completes = {Len(events[i])}
    BY <1>2, <1>4
  <2>2. (CHOOSE k \in completes : \A j \in completes : k <= j) = Len(events[i])
    BY <1>1, <2>1
  <2>3. QED
    BY <1>4, <2>2 DEF Until
<1>5. QED
  BY <1>3, <1>4

-----------------------------------------------------------------------------
(* What a stream has sent is a prefix of the log.                          *)
Positions(n) == [k \in 1..n |-> k]

LEMMA PositionsGrow ==
  ASSUME NEW n \in Nat, NEW m \in Nat, n <= m
  PROVE  /\ Positions(n) \in Seq(Nat)
         /\ Len(Positions(n)) = n
         /\ Positions(n) \o [k \in 1..(m - n) |-> n + k] = Positions(m)
<1>1. Positions(n) \in Seq(Nat) /\ Len(Positions(n)) = n
  BY DEF Positions
<1>2. /\ [k \in 1..(m - n) |-> n + k] \in Seq(Nat)
      /\ Len([k \in 1..(m - n) |-> n + k]) = m - n
  OBVIOUS
<1>3. Positions(m) \in Seq(Nat) /\ Len(Positions(m)) = m
  BY DEF Positions
<1>4. Positions(n) \o [k \in 1..(m - n) |-> n + k] = Positions(m)
  BY <1>1, <1>2, <1>3 DEF Positions
<1>5. QED
  BY <1>1, <1>4

Sent(c) ==
  /\ got[c] = Positions(Len(got[c]))
  /\ Len(got[c]) \in Nat
  /\ Len(got[c]) <= Len(events[target[c]])

(* What a client was told, or would be told from its first read of         *)
(* state.json, is the outcome of the install.                              *)
Told(c) ==
  /\ first[c] \in Outcome => status[target[c]] = first[c]
  /\ ending[c].how \in {"event", "synthesised"} =>
       ending[c].status \in Outcome /\ status[target[c]] = ending[c].status

(* Only an install that was accepted has a stream, which sleeps only in    *)
(* its tail and never beyond the cap.                                      *)
Tailing(c) ==
  /\ pc[c] \in {"replay", "tail"} => status[target[c]] # "absent"
  /\ pc[c] = "replay" => polls[c] = 0 /\ ~slept[c]
  /\ pc[c] = "tail" => polls[c] < StreamCap

StreamsType ==
  /\ pc \in [Client -> {"idle", "replay", "tail", "ended"}]
  /\ target \in [Client -> Install]
  /\ first \in [Client -> Status]
  /\ got \in [Client -> Seq(Nat)]
  /\ polls \in [Client -> 0..StreamCap]
  /\ slept \in [Client -> BOOLEAN]
  /\ ending \in [Client -> Endings]

StreamInv ==
  /\ IInv
  /\ StreamsType
  /\ \A c \in Client : Sent(c) /\ Told(c) /\ Tailing(c)

LEMMA StreamInit == InitStreams => StreamInv
<1> SUFFICES ASSUME InitStreams
             PROVE  StreamInv
  OBVIOUS
<1>1. IInv /\ TypeOK
  BY InitInv DEF InitStreams, IInv
<1>2. StreamsType
  BY StreamAssumption DEF InitStreams, StreamsType, StreamAssumption, Status,
                          NoEnding, Endings
<1>3. ASSUME NEW c \in Client
      PROVE  Sent(c) /\ Told(c) /\ Tailing(c)
  BY <1>1, <1>2 DEF InitStreams, Init, Sent, Told, Tailing, Positions, NoEnding,
                    Outcome, StreamsType
<1>4. QED
  BY <1>1, <1>2, <1>3 DEF StreamInv

(* A stream that does not move is true to an install that does. *)
LEMMA StreamUntouched ==
  ASSUME StreamInv, [Next]_vars, NEW c \in Client,
         target'[c] = target[c], first'[c] = first[c], got'[c] = got[c],
         polls'[c] = polls[c], ending'[c] = ending[c],
         \/ pc'[c] = pc[c] /\ slept'[c] = slept[c]
         \/ pc'[c] = pc[c] /\ pc[c] = "tail"
         \/ pc'[c] \in {"idle", "ended"}
  PROVE  Sent(c)' /\ Told(c)' /\ Tailing(c)'
<1>1. IInv /\ target[c] \in Install /\ Sent(c) /\ Told(c) /\ Tailing(c)
  BY DEF StreamInv, StreamsType
<1>2. Sent(c)'
  BY <1>1, LogGrows DEF Sent
<1>3. Told(c)'
  BY <1>1, OutcomeIsFinal DEF Told
<1>4. Tailing(c)'
  BY <1>1, NeverAbsentAgain DEF Tailing
<1>5. QED
  BY <1>2, <1>3, <1>4

(* Sending the log as far as upto. *)
LEMMA DeliverSends ==
  ASSUME StreamInv, NEW c \in Client, NEW upto \in Nat, Len(got[c]) <= upto,
         Deliver(c, upto)
  PROVE  /\ got' \in [Client -> Seq(Nat)]
         /\ got'[c] = Positions(upto)
         /\ Len(got'[c]) = upto
         /\ \A d \in Client \ {c} : got'[d] = got[d]
<1>1. /\ got \in [Client -> Seq(Nat)]
      /\ got[c] = Positions(Len(got[c])) /\ Len(got[c]) \in Nat
  BY DEF StreamInv, StreamsType, Sent
<1>2. got[c] \o [k \in 1..(upto - Len(got[c])) |-> Len(got[c]) + k]
        = Positions(upto)
  BY <1>1, PositionsGrow
<1>3. Positions(upto) \in Seq(Nat) /\ Len(Positions(upto)) = upto
  BY PositionsGrow
<1>4. got' = [got EXCEPT ![c] = Positions(upto)]
  BY <1>2 DEF Deliver
<1>5. QED
  BY <1>1, <1>3, <1>4

LEMMA EndingsAre ==
  /\ NoEnding \in Endings
  /\ \A s \in Outcome :
       /\ [how |-> "event", status |-> s] \in Endings
       /\ [how |-> "synthesised", status |-> s] \in Endings
       /\ [how |-> "cap", status |-> s] \in Endings
       /\ [how |-> "unknown", status |-> s] \in Endings
  /\ "failed" \in Outcome
BY DEF NoEnding, Endings, Outcome

(* The steps of a stream. *)
LEMMA OpenSends ==
  ASSUME StreamInv, NEW c \in Client, NEW i \in Install, Open(c, i),
         status' = status, events' = events
  PROVE  StreamsType' /\ Sent(c)' /\ Told(c)' /\ Tailing(c)'
<1>1. /\ StreamsType /\ events \in [Install -> Seq(Event)]
      /\ status \in [Install -> Status]
  BY DEF StreamInv, IInv, TypeOK
<1>2. /\ target'[c] = i /\ first'[c] = status[i] /\ got'[c] = <<>>
      /\ polls'[c] = 0 /\ slept'[c] = FALSE
  BY <1>1 DEF Open, StreamsType
<1>3. \/ /\ status[i] = "absent" /\ pc'[c] = "ended"
         /\ ending'[c] = [how |-> "unknown", status |-> "failed"]
      \/ status[i] # "absent" /\ pc'[c] = "replay" /\ ending'[c] = NoEnding
  BY <1>1 DEF Open, End, StreamsType
<1>4. StreamsType'
  <2>1. /\ ending' \in [Client -> Endings]
        /\ pc' \in [Client -> {"idle", "replay", "tail", "ended"}]
    BY <1>1, EndingsAre DEF Open, End, StreamsType
  <2>2. <<>> \in Seq(Nat) /\ 0 \in 0..StreamCap
    BY StreamAssumption DEF StreamAssumption
  <2>3. got' \in [Client -> Seq(Nat)]
    BY <1>1, <2>2 DEF Open, StreamsType
  <2>4. QED
    BY <1>1, <2>1, <2>2, <2>3 DEF Open, StreamsType
<1>5. Sent(c)'
  <2>1. <<>> = Positions(0) /\ Len(<<>>) = 0
    BY DEF Positions
  <2>2. QED
    BY <1>1, <1>2, <2>1 DEF Sent
<1>6. Told(c)' /\ Tailing(c)'
  BY <1>2, <1>3 DEF Told, Tailing, NoEnding
<1>7. QED
  BY <1>4, <1>5, <1>6

LEMMA ReplaySends ==
  ASSUME StreamInv, NEW c \in Client, ReplayNext(c),
         status' = status, events' = events
  PROVE  StreamsType' /\ Sent(c)' /\ Told(c)' /\ Tailing(c)'
<1> DEFINE i == target[c]
           next == Len(got[c]) + 1
<1>1. /\ StreamsType /\ i \in Install /\ Sent(c) /\ Told(c) /\ Tailing(c)
      /\ events[i] \in Seq(Event) /\ CompleteSeals(i)
  BY DEF StreamInv, StreamsType, IInv, Coherent, TypeOK
<1>2. next \in Nat /\ Len(got[c]) <= next /\ next \in 1..Len(events[i])
  BY <1>1 DEF Sent, ReplayNext
<1>3. /\ got' \in [Client -> Seq(Nat)]
      /\ got'[c] = Positions(next) /\ Len(got'[c]) = next
  BY <1>2, DeliverSends DEF ReplayNext
<1>4. /\ UNCHANGED <<target, first, polls, slept>> /\ pc[c] = "replay"
      /\ \/ End(c, "event", events[i][next]) /\ events[i][next] \in Outcome
         \/ UNCHANGED <<pc, ending>>
  BY DEF ReplayNext
<1>5. events[i][next] \in Outcome => status[i] = events[i][next]
  BY <1>1, <1>2 DEF CompleteSeals
<1>6. StreamsType'
  <2>1. CASE End(c, "event", events[i][next]) /\ events[i][next] \in Outcome
    <3>1. [how |-> "event", status |-> events[i][next]] \in Endings
      BY <2>1, EndingsAre
    <3>2. pc' \in [Client -> {"idle", "replay", "tail", "ended"}]
      BY <1>1, <2>1 DEF StreamsType, End
    <3>3. ending' \in [Client -> Endings]
      BY <1>1, <2>1, <3>1 DEF StreamsType, End
    <3>4. QED
      BY <1>1, <1>3, <1>4, <3>2, <3>3 DEF StreamsType
  <2>2. CASE UNCHANGED <<pc, ending>>
    BY <1>1, <1>3, <1>4, <2>2 DEF StreamsType
  <2>3. QED
    BY <1>4, <2>1, <2>2
<1>7. Sent(c)'
  BY <1>2, <1>3, <1>4 DEF Sent
<1>8. Told(c)' /\ Tailing(c)'
  BY <1>1, <1>4, <1>5 DEF Told, Tailing, End, StreamsType
<1>9. QED
  BY <1>6, <1>7, <1>8

LEMMA ReplayDoneTells ==
  ASSUME StreamInv, NEW c \in Client, ReplayDone(c),
         status' = status, events' = events
  PROVE  StreamsType' /\ Sent(c)' /\ Told(c)' /\ Tailing(c)'
<1>1. /\ StreamsType /\ Sent(c) /\ Told(c) /\ Tailing(c)
      /\ first[c] \in Terminal => first[c] \in Outcome
  BY DEF StreamInv, StreamsType, Terminal, Outcome, Status, Active
<1>2. /\ UNCHANGED <<target, first, got, polls, slept>> /\ pc[c] = "replay"
      /\ \/ End(c, "synthesised", first[c]) /\ first[c] \in Terminal
         \/ pc' = [pc EXCEPT ![c] = "tail"] /\ UNCHANGED ending
  BY DEF ReplayDone
<1>3. StreamsType' /\ Sent(c)'
  BY <1>1, <1>2, EndingsAre DEF StreamsType, End, Sent
<1>4. Told(c)'
  BY <1>1, <1>2 DEF Told, End, StreamsType
<1>5. Tailing(c)'
  BY <1>1, <1>2, StreamAssumption, InstallAssumption
     DEF Tailing, End, StreamsType, StreamAssumption, InstallAssumption
<1>6. QED
  BY <1>3, <1>4, <1>5

LEMMA PollSends ==
  ASSUME StreamInv, NEW c \in Client, Poll(c),
         status' = status, events' = events
  PROVE  StreamsType' /\ Sent(c)' /\ Told(c)' /\ Tailing(c)'
<1> DEFINE i == target[c]
           upto == Until(i, Len(got[c]))
<1>1. /\ StreamsType /\ i \in Install /\ Sent(c) /\ Told(c) /\ Tailing(c)
      /\ events[i] \in Seq(Event) /\ CompleteSeals(i)
  BY DEF StreamInv, StreamsType, IInv, Coherent, TypeOK
<1>2. /\ Len(got[c]) \in Nat /\ upto = Len(events[i]) /\ upto \in Nat
      /\ Len(got[c]) <= upto
  BY <1>1, BatchIsAll DEF Sent, StreamInv
<1>3. Deliver(c, upto)
  BY DEF Poll
<1>4. /\ got' \in [Client -> Seq(Nat)]
      /\ got'[c] = Positions(upto) /\ Len(got'[c]) = upto
  BY <1>2, <1>3, DeliverSends
<1>5. /\ UNCHANGED <<target, first>> /\ pc[c] = "tail"
      /\ slept' = [slept EXCEPT ![c] = FALSE]
      /\ polls' = [polls EXCEPT ![c] = @ + 1]
      /\ \/ /\ End(c, "event", events[i][upto])
            /\ upto > Len(got[c]) /\ events[i][upto] \in Outcome
         \/ End(c, "cap", "failed")
         \/ UNCHANGED <<pc, ending>> /\ ~(polls[c] + 1 >= StreamCap)
  BY DEF Poll
<1>6. upto > Len(got[c]) /\ events[i][upto] \in Outcome =>
        status[i] = events[i][upto]
  BY <1>1, <1>2 DEF CompleteSeals
<1>7. polls[c] < StreamCap /\ StreamCap \in Nat
  BY <1>1, <1>5, StreamAssumption DEF Tailing, StreamAssumption
<1>8. StreamsType'
  <2>1. polls' \in [Client -> 0..StreamCap]
    BY <1>1, <1>5, <1>7 DEF StreamsType
  <2>2. /\ pc' \in [Client -> {"idle", "replay", "tail", "ended"}]
        /\ ending' \in [Client -> Endings]
    BY <1>1, <1>5, EndingsAre DEF StreamsType, End
  <2>3. QED
    BY <1>1, <1>4, <1>5, <2>1, <2>2 DEF StreamsType
<1>9. Sent(c)'
  BY <1>2, <1>4, <1>5 DEF Sent
<1>10. Told(c)'
  BY <1>1, <1>5, <1>6 DEF Told, End, StreamsType
<1>11. Tailing(c)'
  BY <1>1, <1>5, <1>7 DEF Tailing, End, StreamsType
<1>12. QED
  BY <1>8, <1>9, <1>10, <1>11

LEMMA StreamStep == StreamInv /\ [NextStreams]_allvars => StreamInv'
<1> SUFFICES ASSUME StreamInv, [NextStreams]_allvars
             PROVE  StreamInv'
  OBVIOUS
<1>1. /\ [Next]_vars /\ IInv /\ IInv' /\ TypeOK /\ TypeOK'
      /\ StreamsType
      /\ \A c \in Client : Sent(c) /\ Told(c) /\ Tailing(c)
  BY StreamsRead, InvStep DEF StreamInv, IInv
<1>2. CASE UNCHANGED svars
  BY <1>1, <1>2, StreamUntouched DEF StreamInv, StreamsType, svars
<1>3. CASE Tick /\ Wake
  <2>1. StreamsType'
    BY <1>1, <1>3 DEF Wake, StreamsType
  <2>2. ASSUME NEW c \in Client
        PROVE  Sent(c)' /\ Told(c)' /\ Tailing(c)'
    BY <1>1, <1>3, StreamUntouched DEF Wake, StreamsType
  <2>3. QED
    BY <1>1, <2>1, <2>2 DEF StreamInv
<1>4. CASE Die /\ Break
  <2>1. StreamsType'
    BY <1>1, <1>4 DEF Break, StreamsType
  <2>2. ASSUME NEW c \in Client
        PROVE  Sent(c)' /\ Told(c)' /\ Tailing(c)'
    BY <1>1, <1>4, StreamUntouched DEF Break, StreamsType
  <2>3. QED
    BY <1>1, <2>1, <2>2 DEF StreamInv
<1>5. ASSUME NEW c \in Client, Stream(c), UNCHANGED vars
      PROVE  StreamInv'
  <2>1. /\ status' = status /\ events' = events
    BY <1>5 DEF vars
  <2>2. StreamsType' /\ Sent(c)' /\ Told(c)' /\ Tailing(c)'
    <3>1. ASSUME NEW i \in Install, Open(c, i)
          PROVE  StreamsType' /\ Sent(c)' /\ Told(c)' /\ Tailing(c)'
      BY <1>1, <2>1, <3>1, OpenSends
    <3>2. CASE ReplayNext(c)
      BY <1>1, <2>1, <3>2, ReplaySends
    <3>3. CASE ReplayDone(c)
      BY <1>1, <2>1, <3>3, ReplayDoneTells
    <3>4. CASE Poll(c)
      BY <1>1, <2>1, <3>4, PollSends
    <3>5. CASE Disconnect(c)
      BY <1>1, <2>1, <3>5 DEF Disconnect, StreamsType, Sent, Told, Tailing
    <3>6. QED
      BY <1>5, <3>1, <3>2, <3>3, <3>4, <3>5 DEF Stream
  <2>3. ASSUME NEW d \in Client, d # c
        PROVE  Sent(d)' /\ Told(d)' /\ Tailing(d)'
    <3>1. /\ target'[d] = target[d] /\ first'[d] = first[d]
          /\ got'[d] = got[d] /\ polls'[d] = polls[d] /\ slept'[d] = slept[d]
          /\ ending'[d] = ending[d] /\ pc'[d] = pc[d]
      BY <1>1, <1>5, <2>3
         DEF StreamsType, Stream, Open, ReplayNext, ReplayDone, Poll,
             Disconnect, Deliver, End
    <3>2. QED
      BY <1>1, <3>1, StreamUntouched
  <2>4. QED
    BY <1>1, <2>2, <2>3 DEF StreamInv
<1>6. QED
  BY <1>2, <1>3, <1>4, <1>5 DEF NextStreams, allvars, svars

(* Every variable of the streams keeps its type. *)
THEOREM StreamsTypeCorrect == SpecStreams => []StreamsTypeOK
<1>1. StreamInv => StreamsTypeOK
  BY DEF StreamInv, IInv, StreamsType, StreamsTypeOK
<1>2. QED
  BY StreamInit, StreamStep, <1>1, PTL DEF SpecStreams

(* A client is sent the events of the log from the first one on, each once *)
(* and in order, whatever is appended while it replays, sleeps or polls,   *)
(* and through deaths and restarts of the server.                          *)
THEOREM EventsAreDeliveredInOrder == SpecStreams => []DeliveredInOrder
<1>1. StreamInv => DeliveredInOrder
  BY DEF StreamInv, Sent, Positions, DeliveredInOrder
<1>2. QED
  BY StreamInit, StreamStep, <1>1, PTL DEF SpecStreams

(* A client that is told an outcome is told the one state.json holds, then *)
(* and ever after, whether it comes from the log or from the one read of   *)
(* state.json when the stream was opened.                                  *)
THEOREM ClientsAreToldTheOutcome == SpecStreams => []ToldTheOutcome
<1>1. StreamInv => ToldTheOutcome
  BY DEF StreamInv, Told, ToldTheOutcome
<1>2. QED
  BY StreamInit, StreamStep, <1>1, PTL DEF SpecStreams

-----------------------------------------------------------------------------
(* The cap. A tick that lets a tail poll once more also ages the run it    *)
(* waits for, so a run that is still supervised is older than the polls    *)
(* are many, and the cap lies beyond the oldest age.                       *)
Timely(i) ==
  /\ runner[i] \in {"none", "scheduled", "spawning"} => age[i] = 0
  /\ runner[i] = "draining" /\ open[i] # {} => age[i] <= Budget
  /\ runner[i] = "closing" => pending[i] # "none"

(* What the runner has still to do that takes time. *)
Busy(i) == Supervised(i) /\ runner[i] # "closing"

Patient(c) ==
  pc[c] = "tail" /\ Busy(target[c]) =>
    polls[c] + (IF slept[c] THEN 1 ELSE 0) <= age[target[c]]

CapInv ==
  /\ StreamInv
  /\ \A i \in Install : Timely(i)
  /\ \A c \in Client : Patient(c)

LEMMA CapInit == InitStreams => CapInv
BY StreamInit DEF InitStreams, Init, CapInv, Timely, Patient

LEMMA TimelyStep ==
  ASSUME IInv, \A j \in Install : Timely(j), [Next]_vars, NEW i \in Install
  PROVE  Timely(i)'
<1> USE DEF TypeOK, Timely, task, proc, files
<1>1. /\ TypeOK /\ TypeOK' /\ Timely(i) /\ AbsentIsNotRun(i) /\ PipesNeedARun(i)
      /\ Budget \in Nat
  BY TypeStep, InstallAssumption DEF IInv, Coherent, InstallAssumption
<1>2. ASSUME NEW j \in Install, Request(j)
      PROVE  Timely(i)'
  BY <1>1, <1>2 DEF Request, Post, PostFails, AbsentIsNotRun
<1>3. ASSUME NEW j \in Install, Supervise(j)
      PROVE  Timely(i)'
  <2>1. Final(j) # "none"
    BY <1>1, FinalIsOutcome DEF Outcome
  <2>2. CASE StartRunner(j) \/ Spawn(j) \/ BudgetSpent(j)
    <3>1. CASE StartRunner(j)
      BY <1>1, <3>1 DEF StartRunner
    <3>2. CASE Spawn(j)
      BY <1>1, <3>2 DEF Spawn
    <3>3. CASE BudgetSpent(j)
      BY <1>1, <3>3 DEF BudgetSpent
    <3>4. QED
      BY <2>2, <3>1, <3>2, <3>3
  <2>3. CASE SpawnFails(j) \/ Finish(j)
    <3>1. UNCHANGED <<age, open>> /\ runner' = [runner EXCEPT ![j] = "closing"]
      BY <2>3 DEF SpawnFails, Finish
    <3>2. ASSUME NEW o, o # "none", RecordOutcome(j, o)
          PROVE  Timely(i)'
      <4>1. pending' = [pending EXCEPT ![j] = o]
        BY <3>2 DEF RecordOutcome
      <4>2. QED
        BY <1>1, <3>1, <3>2, <4>1
    <3>3. RecordOutcome(j, "failed") \/ RecordOutcome(j, Final(j))
      BY <2>3 DEF SpawnFails, Finish
    <3>4. QED
      BY <2>1, <3>2, <3>3
  <2>4. QED
    BY <1>3, <2>2, <2>3 DEF Supervise
<1>4. ASSUME NEW j \in Install, ReadPipes(j)
      PROVE  Timely(i)'
  BY <1>1, <1>4 DEF ReadPipes, MirrorLine, StatusLine, OversizeLine,
                    DrainRaises, Eof, Mirrored, PipesNeedARun
<1>5. ASSUME NEW j \in Install, AppendEvent(j) \/ SweepInstall(j)
      PROVE  Timely(i)'
  BY <1>1, <1>5 DEF AppendEvent, SweepInstall, RecordOutcome
<1>51. ASSUME NEW j \in Install, WriteFails(j)
       PROVE  Timely(i)'
  <2>1. CASE runner'[i] = "dead"
    BY <2>1
  <2>2. CASE runner'[i] # "dead"
    <3>1. /\ age' = age /\ runner'[i] = runner[i] /\ open'[i] = open[i]
          /\ pending'[i] = pending[i] \/ server = "booting"
      BY <1>1, <1>51, <2>2, FailureIsLocal
    <3>2. server = "booting" => runner[i] \in {"none", "done", "lost"}
      BY DEF IInv, Coherent, NoTaskSurvives
    <3>3. QED
      BY <1>1, <3>1, <3>2
  <2>3. QED
    BY <2>1, <2>2
<1>6. CASE Tick
  BY <1>1, <1>6 DEF Tick, Urgent
<1>7. CASE Die
  BY <1>1, <1>7 DEF Die
<1>8. CASE Boot \/ BootDone \/ UNCHANGED vars
  BY <1>1, <1>8 DEF Boot, BootDone, vars
<1>9. QED
  BY <1>2, <1>3, <1>4, <1>5, <1>51, <1>6, <1>7, <1>8 DEF Next, Live

(* A run that is busy was so before, and grows no younger. *)
LEMMA BusyGoesOn ==
  ASSUME IInv, [Next]_vars, NEW i \in Install, status[i] # "absent",
         Busy(i)'
  PROVE  Busy(i) /\ age[i] <= age'[i]
<1>1. /\ TypeOK /\ TypeOK'
      /\ age[i] \in Nat
  <2>1. TypeOK /\ TypeOK'
    BY TypeStep DEF IInv
  <2>2. QED
    BY <2>1, InstallAssumption DEF TypeOK, InstallAssumption
<1> USE DEF TypeOK, Busy, Supervised, task, proc
<1>2. ASSUME NEW j \in Install, Request(j)
      PROVE  Busy(i) /\ age[i] <= age'[i]
  BY <1>1, <1>2 DEF Request, Post, PostFails
<1>3. ASSUME NEW j \in Install, Supervise(j)
      PROVE  Busy(i) /\ age[i] <= age'[i]
  <2>1. /\ age' = age
        /\ \A k \in Install \ {j} :
             runner'[k] = runner[k] /\ open'[k] = open[k]
    BY <1>1, <1>3 DEF Supervise, StartRunner, Spawn, SpawnFails, BudgetSpent,
                      Finish
  <2>2. CASE i = j
    BY <1>1, <1>3, <2>1, <2>2 DEF Supervise, StartRunner, Spawn, SpawnFails,
                                  BudgetSpent, Finish
  <2>3. QED
    BY <1>1, <2>1, <2>2
<1>4. ASSUME NEW j \in Install, ReadPipes(j)
      PROVE  Busy(i) /\ age[i] <= age'[i]
  <2>1. /\ age' = age
        /\ runner'[i] = runner[i] \/ runner'[i] = "dead"
        /\ open'[i] \subseteq open[i]
    <3>1. CASE \E e \in Mirrored : MirrorLine(j, e)
      BY <3>1 DEF MirrorLine
    <3>2. CASE \E o \in Outcome : StatusLine(j, o)
      BY <3>2 DEF StatusLine
    <3>3. CASE \E p \in Pipe : OversizeLine(j, p) \/ Eof(j, p)
      <4>1. PICK p \in Pipe :
              /\ open' = [open EXCEPT ![j] = @ \ {p}] /\ age' = age
              /\ \/ runner' = [runner EXCEPT ![j] = "dead"]
                 \/ runner' = runner
        BY <3>3 DEF OversizeLine, DrainRaises, Eof
      <4>2. runner \in [Install -> Phase] /\ open \in [Install -> SUBSET Pipe]
        BY <1>1
      <4>3. open'[i] \subseteq open[i]
        BY <4>1, <4>2
      <4>4. QED
        BY <4>1, <4>2, <4>3
    <3>4. QED
      BY <1>4, <3>1, <3>2, <3>3 DEF ReadPipes
  <2>2. QED
    BY <1>1, <2>1
<1>5. ASSUME NEW j \in Install, AppendEvent(j) \/ SweepInstall(j)
      PROVE  Busy(i) /\ age[i] <= age'[i]
  <2>1. /\ UNCHANGED <<open, age>>
        /\ runner'[i] = runner[i] \/ runner'[i] = "done"
    BY <1>1, <1>5 DEF AppendEvent, SweepInstall
  <2>2. QED
    BY <1>1, <2>1
<1>51. ASSUME NEW j \in Install, WriteFails(j)
       PROVE  Busy(i) /\ age[i] <= age'[i]
  <2>1. runner'[i] # "dead"
    OBVIOUS
  <2>2. age' = age /\ runner'[i] = runner[i] /\ open'[i] = open[i]
    BY <1>1, <1>51, <2>1, FailureIsLocal
  <2>3. QED
    BY <1>1, <2>2
<1>6. CASE Tick
  BY <1>1, <1>6 DEF Tick
<1>7. CASE Die
  BY <1>1, <1>7 DEF Die
<1>8. CASE Boot \/ BootDone \/ UNCHANGED vars
  <2>1. UNCHANGED <<runner, open, age>>
    BY <1>8 DEF Boot, BootDone, vars
  <2>2. QED
    BY <1>1, <2>1
<1>9. QED
  BY <1>2, <1>3, <1>4, <1>5, <1>51, <1>6, <1>7, <1>8 DEF Next, Live

(* A tick ages every run that is busy. *)
LEMMA TickAges ==
  ASSUME IInv, NEW i \in Install, Timely(i), Busy(i), Tick
  PROVE  age'[i] = age[i] + 1
<1>1. /\ age[i] \in 0..(Budget + KillGrace)
      /\ Budget \in Nat /\ KillGrace \in Nat
      /\ pending[i] = "none" /\ ~Urgent(i)
      /\ age'[i] = IF /\ runner[i] \in {"draining", "terminating"}
                      /\ age[i] < Budget + KillGrace
                   THEN age[i] + 1 ELSE age[i]
  BY InstallAssumption
     DEF IInv, TypeOK, Tick, Serving, LoopFree, InstallAssumption
<1>2. \/ runner[i] = "draining" /\ age[i] < Budget
      \/ runner[i] = "terminating" /\ age[i] < Budget + KillGrace
  BY <1>1 DEF Busy, Supervised, Timely, Urgent
<1>3. QED
  BY <1>1, <1>2

LEMMA PatientStep ==
  ASSUME CapInv, [NextStreams]_allvars, NEW c \in Client
  PROVE  Patient(c)'
<1>1. /\ IInv /\ [Next]_vars /\ StreamsType /\ StreamsType'
      /\ Tailing(c) /\ Patient(c)
      /\ target[c] \in Install /\ Timely(target[c])
      /\ polls[c] \in Nat
      /\ \A i \in Install : age[i] \in Nat /\ age'[i] \in Nat
  <2>1. /\ StreamInv /\ StreamInv' /\ IInv /\ IInv' /\ [Next]_vars
    BY StreamsRead, StreamStep DEF CapInv, StreamInv
  <2>2. /\ StreamsType /\ StreamsType' /\ Tailing(c) /\ Patient(c)
        /\ TypeOK /\ TypeOK'
    BY <2>1 DEF CapInv, StreamInv, IInv
  <2>3. target[c] \in Install /\ polls[c] \in Nat
    BY <2>2 DEF StreamsType
  <2>4. \A i \in Install : age[i] \in Nat /\ age'[i] \in Nat
    BY <2>2, InstallAssumption DEF TypeOK, InstallAssumption
  <2>5. QED
    BY <2>1, <2>2, <2>3, <2>4 DEF CapInv
<1>2. SUFFICES ASSUME pc'[c] = "tail", Busy(target[c])'
               PROVE  polls'[c] + (IF slept'[c] THEN 1 ELSE 0)
                        <= age'[target'[c]]
  BY DEF Patient
<1>3. ASSUME UNCHANGED svars
      PROVE  polls'[c] + (IF slept'[c] THEN 1 ELSE 0) <= age'[target'[c]]
  <2>1. pc[c] = "tail" /\ status[target[c]] # "absent" /\ target' = target
    BY <1>1, <1>2, <1>3 DEF svars, Tailing
  <2>2. Busy(target[c]) /\ age[target[c]] <= age'[target[c]]
    BY <1>1, <1>2, <2>1, BusyGoesOn
  <2>3. QED
    BY <1>1, <1>3, <2>1, <2>2 DEF svars, Patient, CapInv
<1>4. CASE Tick /\ Wake
  <2>1. /\ pc[c] = "tail" /\ status[target[c]] # "absent" /\ target' = target
        /\ polls' = polls
    BY <1>1, <1>2, <1>4 DEF Wake, Tailing
  <2>2. Busy(target[c])
    BY <1>1, <1>2, <2>1, BusyGoesOn
  <2>3. age'[target[c]] = age[target[c]] + 1
    BY <1>1, <1>4, <2>2, TickAges
  <2>4. QED
    BY <1>1, <2>1, <2>2, <2>3 DEF Patient, CapInv
<1>5. CASE Die /\ Break
  BY <1>1, <1>2, <1>5 DEF Break, StreamsType
<1>6. ASSUME NEW d \in Client, Stream(d), UNCHANGED vars
      PROVE  polls'[c] + (IF slept'[c] THEN 1 ELSE 0) <= age'[target'[c]]
  <2>1. CASE d # c
    <3>1. /\ target'[c] = target[c] /\ polls'[c] = polls[c]
          /\ slept'[c] = slept[c] /\ pc'[c] = pc[c]
      <4>0. /\ DOMAIN target = Client /\ DOMAIN polls = Client
            /\ DOMAIN slept = Client /\ DOMAIN pc = Client
        BY <1>1 DEF StreamsType
      <4>1. ASSUME NEW i \in Install, Open(d, i)
            PROVE  /\ target'[c] = target[c] /\ polls'[c] = polls[c]
                   /\ slept'[c] = slept[c] /\ pc'[c] = pc[c]
        BY <2>1, <4>0, <4>1 DEF Open, End
      <4>2. CASE ReplayNext(d) \/ ReplayDone(d)
        BY <2>1, <4>0, <4>2 DEF ReplayNext, ReplayDone, End
      <4>3. CASE Poll(d)
        BY <2>1, <4>0, <4>3 DEF Poll, End
      <4>4. CASE Disconnect(d)
        BY <2>1, <4>0, <4>4 DEF Disconnect, End
      <4>5. QED
        BY <1>6, <4>1, <4>2, <4>3, <4>4 DEF Stream
    <3>2. QED
      BY <1>1, <1>2, <1>6, <3>1 DEF vars, Busy, Supervised, Patient
  <2>2. CASE d = c
    <3>1. CASE ReplayDone(c)
      <4>1. polls'[c] = 0 /\ ~slept'[c] /\ target' = target /\ age' = age
        BY <1>1, <1>6, <3>1 DEF ReplayDone, Tailing, vars
      <4>2. QED
        BY <1>1, <4>1
    <3>2. CASE Poll(c)
      <4>1. /\ pc[c] = "tail" /\ slept[c] /\ target' = target
            /\ slept'[c] = FALSE /\ polls'[c] = polls[c] + 1
        BY <1>1, <3>2 DEF Poll, StreamsType
      <4>2. QED
        BY <1>1, <1>2, <1>6, <4>1
           DEF vars, Busy, Supervised, Patient, CapInv
    <3>3. CASE ReplayNext(c) \/ Disconnect(c) \/ \E i \in Install : Open(c, i)
      BY <1>1, <1>2, <3>3
         DEF ReplayNext, Disconnect, Open, End, StreamsType
    <3>4. QED
      BY <1>6, <2>2, <3>1, <3>2, <3>3 DEF Stream
  <2>3. QED
    BY <2>1, <2>2
<1>7. QED
  BY <1>3, <1>4, <1>5, <1>6 DEF NextStreams, allvars, svars

LEMMA CapStep == CapInv /\ [NextStreams]_allvars => CapInv'
<1> SUFFICES ASSUME CapInv, [NextStreams]_allvars
             PROVE  CapInv'
  OBVIOUS
<1>1. StreamInv /\ StreamInv' /\ IInv /\ [Next]_vars
  BY StreamsRead, StreamStep DEF CapInv, StreamInv
<1>2. \A i \in Install : Timely(i)'
  BY <1>1, TimelyStep DEF CapInv
<1>3. QED
  BY <1>1, <1>2, PatientStep DEF CapInv

(* A stream that reaches its cap has outlived every run that was still      *)
(* supervised when it started to wait.                                      *)
LEMMA CapOutlives ==
  ASSUME CapInv, [NextStreams]_allvars, NEW c \in Client,
         ending'[c].how = "cap", ending[c].how # "cap"
  PROVE  ~Supervised(target[c])
<1>1. /\ StreamsType /\ Patient(c) /\ target[c] \in Install
      /\ Timely(target[c])
      /\ age[target[c]] \in 0..(Budget + KillGrace)
      /\ Budget \in Nat /\ KillGrace \in Nat /\ StreamCap \in Nat
      /\ Budget + KillGrace < StreamCap
  BY InstallAssumption, StreamAssumption
     DEF CapInv, StreamInv, StreamsType, IInv, TypeOK, InstallAssumption,
         StreamAssumption
<1>2. PICK d \in Client : Stream(d)
  BY DEF NextStreams, allvars, svars, Wake, Break
<1>3. Poll(c) /\ polls[c] + 1 >= StreamCap
  <2>1. \A how, s : End(d, how, s) =>
          ending' = [ending EXCEPT ![d] = [how |-> how, status |-> s]]
    BY DEF End
  <2>2. ASSUME d # c
        PROVE  FALSE
    BY <1>1, <1>2, <2>1, <2>2 DEF Stream, Open, ReplayNext, ReplayDone, Poll,
                              Disconnect, StreamsType
  <2>3. ~ReplayNext(c) /\ ~ReplayDone(c) /\ ~Disconnect(c)
        /\ ~\E i \in Install : Open(c, i)
    BY <1>1 DEF Open, ReplayNext, ReplayDone, Disconnect, End, StreamsType,
                NoEnding
  <2>4. Poll(c)
    BY <1>2, <2>2, <2>3 DEF Stream
  <2>5. QED
    BY <1>1, <2>4 DEF Poll, End, StreamsType
<1>4. pc[c] = "tail" /\ slept[c] /\ runner[target[c]] # "closing"
  BY <1>1, <1>3 DEF Poll, Serving, LoopFree, Timely
<1>5. polls[c] \in Nat
  BY <1>1 DEF StreamsType
<1>6. QED
  BY <1>1, <1>3, <1>4, <1>5 DEF Patient, Busy

(* The cap reports a failure only for an install that no runner is going   *)
(* to announce, whenever its stream was opened: the slack of the cap over  *)
(* the runner's own time-out is enough for every budget and every grace.   *)
THEOREM TheCapIsLongEnough == SpecStreams => CapOnlyIfAbandoned
<1>1. CapInv /\ [NextStreams]_allvars =>
        \A c \in Client :
          ending'[c].how = "cap" /\ ending[c].how # "cap" =>
            ~Supervised(target[c])
  BY CapOutlives
<1>2. QED
  BY CapInit, CapStep, <1>1, PTL DEF SpecStreams, CapOnlyIfAbandoned
=============================================================================
