--------------------------- MODULE InstallStreams ---------------------------
(***************************************************************************)
(* GET /install/{id}/stream beside the installs it reports on: the SSE     *)
(* generator of routes/server.py replays events.jsonl, tails it by polling *)
(* and gives up after a cap. It only reads the two files, one step of the  *)
(* event loop at a time, and is suspended at every event it yields.        *)
(*                                                                         *)
(* A delivered event is represented by its position in events.jsonl.       *)
(***************************************************************************)
EXTENDS InstallLifecycle

CONSTANTS
  Client,        \* clients that open streams
  StreamCap      \* polls after which a stream gives up (_SSE_TAIL_MAX_WAIT_S)

(* 660 s against install_runner's 600 s and the 5 s before SIGKILL. *)
ASSUME StreamAssumption ==
  /\ StreamCap \in Nat
  /\ Budget + KillGrace < StreamCap

VARIABLES
  pc,        \* "idle", "replay", "tail" or "ended"
  target,    \* the install whose stream the client opened
  first,     \* its status, as read once when the stream was opened
  got,       \* the positions of events.jsonl delivered, in order
  polls,     \* polls of the tail, one per tick at most
  slept,     \* has the sleep before the next poll ended?
  ending     \* what ended the stream: how, and the status the client was told

svars == <<pc, target, first, got, polls, slept, ending>>
allvars == <<vars, svars>>

NoEnding == [how |-> "open", status |-> "none"]
Endings  == [how : {"open", "event", "synthesised", "cap", "unknown"},
             status : Outcome \cup {"none"}]

End(c, how, s) ==
  /\ pc' = [pc EXCEPT ![c] = "ended"]
  /\ ending' = [ending EXCEPT ![c] = [how |-> how, status |-> s]]

(* How far a batch goes: to the first complete event, or to the end of the *)
(* log.                                                                    *)
Until(i, from) ==
  LET completes == {k \in (from + 1)..Len(events[i]) : events[i][k] \in Outcome}
  IN  IF completes = {} THEN Len(events[i])
      ELSE CHOOSE k \in completes : \A j \in completes : k <= j

Deliver(c, upto) ==
  got' = [got EXCEPT ![c] = @ \o [k \in 1..(upto - Len(@)) |-> Len(@) + k]]

-----------------------------------------------------------------------------
(* Mutation: the polls of an earlier stream are counted on. *)
OpenKeepsPolls(c, i) ==
  /\ Serving
  /\ pc[c] \in {"idle", "ended"}
  /\ target' = [target EXCEPT ![c] = i]
  /\ first' = [first EXCEPT ![c] = status[i]]
  /\ got' = [got EXCEPT ![c] = <<>>]
  /\ slept' = [slept EXCEPT ![c] = FALSE]
  /\ pc' = [pc EXCEPT ![c] = "replay"]
  /\ ending' = [ending EXCEPT ![c] = NoEnding]
  /\ UNCHANGED polls

(* The generator is started: state.json is read, once. *)
Open(c, i) ==
  /\ Serving
  /\ pc[c] \in {"idle", "ended"}
  /\ target' = [target EXCEPT ![c] = i]
  /\ first' = [first EXCEPT ![c] = status[i]]
  /\ got' = [got EXCEPT ![c] = <<>>]
  /\ polls' = [polls EXCEPT ![c] = 0]
  /\ slept' = [slept EXCEPT ![c] = FALSE]
  /\ IF status[i] = "absent"
     THEN End(c, "unknown", "failed")
     ELSE /\ pc' = [pc EXCEPT ![c] = "replay"]
          /\ ending' = [ending EXCEPT ![c] = NoEnding]

(* Replay, one event of the file at a time. *)
ReplayNext(c) ==
  LET i == target[c]  next == Len(got[c]) + 1
  IN  /\ Serving
      /\ pc[c] = "replay"
      /\ next <= Len(events[i])
      /\ Deliver(c, next)
      /\ IF events[i][next] \in Outcome
         THEN End(c, "event", events[i][next])
         ELSE UNCHANGED <<pc, ending>>
      /\ UNCHANGED <<target, first, polls, slept>>

(* Mutation: an install that is not active counts as finished by now. *)
ReplayDoneStale(c) ==
  /\ Serving
  /\ pc[c] = "replay"
  /\ Len(got[c]) >= Len(events[target[c]])
  /\ IF first[c] \in Active
     THEN End(c, "synthesised", "failed")
     ELSE pc' = [pc EXCEPT ![c] = "tail"] /\ UNCHANGED ending
  /\ UNCHANGED <<target, first, got, polls, slept>>

(* The end of the replay: the status read at the start decides whether the *)
(* complete event is made up here or waited for.                           *)
ReplayDone(c) ==
  /\ Serving
  /\ pc[c] = "replay"
  /\ Len(got[c]) >= Len(events[target[c]])
  /\ IF first[c] \in Terminal
     THEN End(c, "synthesised", first[c])
     ELSE pc' = [pc EXCEPT ![c] = "tail"] /\ UNCHANGED ending
  /\ UNCHANGED <<target, first, got, polls, slept>>

(* Mutation: the batch starts at the last event already delivered. *)
BatchFromLast(c, upto) ==
  got' = [got EXCEPT ![c] =
            @ \o [k \in 1..(upto - Len(@) + 1) |-> Len(@) + k - 1]]

PollRepeatsLast(c) ==
  LET i == target[c]  upto == Until(i, Len(got[c]))
  IN  /\ Serving
      /\ pc[c] = "tail"
      /\ slept[c]
      /\ slept' = [slept EXCEPT ![c] = FALSE]
      /\ polls' = [polls EXCEPT ![c] = @ + 1]
      /\ BatchFromLast(c, upto)
      /\ UNCHANGED <<pc, ending, target, first>>

(* Mutation: the stream's cap is the runner's budget, without slack. *)
PollCapAtBudget(c) ==
  LET i == target[c]  upto == Until(i, Len(got[c]))
  IN  /\ Serving
      /\ pc[c] = "tail"
      /\ slept[c]
      /\ slept' = [slept EXCEPT ![c] = FALSE]
      /\ polls' = [polls EXCEPT ![c] = @ + 1]
      /\ Deliver(c, upto)
      /\ IF polls[c] + 1 >= Budget
         THEN End(c, "cap", "failed")
         ELSE UNCHANGED <<pc, ending>>
      /\ UNCHANGED <<target, first>>

(* Mutation: a complete event is delivered and the stream stays open. *)
PollForever(c) ==
  LET i == target[c]  upto == Until(i, Len(got[c]))
  IN  /\ Serving
      /\ pc[c] = "tail"
      /\ slept[c]
      /\ slept' = [slept EXCEPT ![c] = FALSE]
      /\ polls' = [polls EXCEPT ![c] = IF @ < StreamCap THEN @ + 1 ELSE @]
      /\ Deliver(c, upto)
      /\ UNCHANGED <<pc, ending, target, first>>

(* One turn of the tail loop: sleep, read the new events, then the cap. *)
Poll(c) ==
  LET i == target[c]  upto == Until(i, Len(got[c]))
  IN  /\ Serving
      /\ pc[c] = "tail"
      /\ slept[c]
      /\ slept' = [slept EXCEPT ![c] = FALSE]
      /\ polls' = [polls EXCEPT ![c] = @ + 1]
      /\ Deliver(c, upto)
      /\ IF upto > Len(got[c]) /\ events[i][upto] \in Outcome
         THEN End(c, "event", events[i][upto])
         ELSE IF polls[c] + 1 >= StreamCap
         THEN End(c, "cap", "failed")
         ELSE UNCHANGED <<pc, ending>>
      /\ UNCHANGED <<target, first>>

(* The client goes away; it may come back and start over. *)
Disconnect(c) ==
  /\ Serving
  /\ pc[c] \in {"replay", "tail"}
  /\ pc' = [pc EXCEPT ![c] = "idle"]
  /\ UNCHANGED <<target, first, got, polls, slept, ending>>

(* A death of the server breaks the open streams. *)
Break ==
  /\ pc' = [c \in Client |-> IF pc[c] = "ended" THEN "ended" ELSE "idle"]
  /\ UNCHANGED <<target, first, got, polls, slept, ending>>

(* Sleeps of the tail loops end as time passes. *)
Wake ==
  /\ slept' = [c \in Client |-> pc[c] = "tail" \/ slept[c]]
  /\ UNCHANGED <<pc, target, first, got, polls, ending>>

-----------------------------------------------------------------------------
Stream(c) ==
  \/ \E i \in Install : Open(c, i)
  \/ ReplayNext(c)
  \/ ReplayDone(c)
  \/ Poll(c)
  \/ Disconnect(c)

InitStreams ==
  /\ Init
  /\ pc = [c \in Client |-> "idle"]
  /\ target \in [Client -> Install]
  /\ first = [c \in Client |-> "absent"]
  /\ got = [c \in Client |-> <<>>]
  /\ polls = [c \in Client |-> 0]
  /\ slept = [c \in Client |-> FALSE]
  /\ ending = [c \in Client |-> NoEnding]

InstallStep ==
  \E i \in Install : Request(i) \/ Supervise(i) \/ ReadPipes(i)
                     \/ AppendEvent(i) \/ WriteFails(i) \/ SweepInstall(i)

NextStreams ==
  \/ (InstallStep \/ Boot \/ BootDone) /\ UNCHANGED svars
  \/ Tick /\ Wake
  \/ Die /\ Break
  \/ (\E c \in Client : Stream(c)) /\ UNCHANGED vars

SpecStreams == InitStreams /\ [][NextStreams]_allvars

(* The fairness of the installs, and an event loop that resumes every      *)
(* generator whose sleep is over or whose client has taken its last event. *)
FairStreams ==
  /\ SpecStreams
  /\ \A i \in Install : WF_allvars(Supervise(i) /\ UNCHANGED svars)
  /\ \A i \in Install : WF_allvars(AppendEvent(i) /\ UNCHANGED svars)
  /\ \A i \in Install : WF_allvars(SweepInstall(i) /\ UNCHANGED svars)
  /\ WF_allvars(Tick /\ Wake)
  /\ WF_allvars(Boot /\ UNCHANGED svars)
  /\ WF_allvars(BootDone /\ UNCHANGED svars)
  /\ \A c \in Client :
       WF_allvars((ReplayNext(c) \/ ReplayDone(c) \/ Poll(c)) /\ UNCHANGED vars)

-----------------------------------------------------------------------------
StreamsTypeOK ==
  /\ TypeOK
  /\ pc \in [Client -> {"idle", "replay", "tail", "ended"}]
  /\ target \in [Client -> Install]
  /\ first \in [Client -> Status]
  /\ got \in [Client -> Seq(Nat)]
  /\ polls \in [Client -> 0..StreamCap]
  /\ slept \in [Client -> BOOLEAN]
  /\ ending \in [Client -> Endings]

(* Whenever a client joins, and whatever is appended while it replays or   *)
(* sleeps, it is sent the events of the log from the first one on, each    *)
(* once and in order.                                                      *)
DeliveredInOrder ==
  \A c \in Client :
    /\ got[c] = [k \in 1..Len(got[c]) |-> k]
    /\ Len(got[c]) <= Len(events[target[c]])

(* A client that is told an outcome, from the log or made up from          *)
(* state.json, is told the one state.json holds, and for good.             *)
ToldTheOutcome ==
  \A c \in Client :
    ending[c].how \in {"event", "synthesised"} =>
      ending[c].status = status[target[c]]

(* run_install is at work on the install and bound to announce it: all the *)
(* code waits for without a limit is the exit of a subprocess that closed  *)
(* its pipes.                                                              *)
Supervised(i) ==
  \/ runner[i] \in {"scheduled", "spawning", "terminating", "closing"}
  \/ runner[i] = "draining" /\ open[i] # {}

(* The cap makes a stream report a failure only for an install that no     *)
(* runner is going to announce: the slack of the cap covers the runner's   *)
(* own time-out, whenever the client joined. (state.json may hold another  *)
(* outcome by then, one whose complete event was cut off.)                 *)
CapOnlyIfAbandoned ==
  [][\A c \in Client :
       ending'[c].how = "cap" /\ ending[c].how # "cap" =>
         ~Supervised(target[c])]_allvars

(* No stream stays open forever, not even for an install nobody runs: the  *)
(* client is told an outcome or is disconnected.                           *)
EveryStreamEnds ==
  \A c \in Client : pc[c] \in {"replay", "tail"} ~> pc[c] \in {"ended", "idle"}
=============================================================================
