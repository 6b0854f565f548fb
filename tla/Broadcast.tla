----------------------------- MODULE Broadcast ------------------------------
(***************************************************************************)
(* The WebSocket stream of snapshots (ws.py). A client that connects is    *)
(* registered and sent a snapshot at once. One loop builds a snapshot      *)
(* every 5 s and sends it to the clients that were registered when it was  *)
(* built, one after the other; each send waits until the client's buffer   *)
(* has drained. Clients whose send fails are forgotten at the end.         *)
(*                                                                         *)
(* Everything runs on one event loop and the lock is never held across a   *)
(* suspension, so a step here is what runs between two suspensions. A      *)
(* snapshot is abstracted to the moment it was built at.                   *)
(***************************************************************************)
EXTENDS Naturals

CONSTANTS
  Peer,      \* clients; one that has gone may come back as a new connection
  MaxMoment  \* bound: moments that snapshots tell apart

ASSUME BroadcastAssumption == MaxMoment \in Nat \ {0}

NoPeer == "nobody"

VARIABLES
  moment,   \* what a snapshot built now shows
  link,     \* the connection of each peer
  stalled,  \* the peers that do not drain their buffer
  clients,  \* _clients
  frame,    \* the snapshot being broadcast
  queue,    \* the clients it has yet to be sent to
  waiting,  \* the client whose buffer has to drain
  dead,
  loop,     \* where the loop is
  shown     \* the last snapshot sent to each peer

wsVars == <<moment, link, stalled, clients, frame, queue, waiting, dead, loop,
            shown>>
tick == <<frame, queue, waiting, dead, loop>>

-----------------------------------------------------------------------------
(* websocket_endpoint: accept, connect, and the first snapshot. *)
Connect(c) ==
  /\ link[c] = "none"
  /\ c \notin queue \cup dead \cup {waiting}
  /\ link' = [link EXCEPT ![c] = "open"]
  /\ clients' = clients \cup {c}
  /\ shown' = [shown EXCEPT ![c] = moment]
  /\ UNCHANGED <<moment, stalled, tick>>

(* receive_text raises, and the endpoint disconnects its client. *)
Disconnect(c) ==
  /\ link[c] = "lost"
  /\ link' = [link EXCEPT ![c] = "none"]
  /\ clients' = clients \ {c}
  /\ shown' = [shown EXCEPT ![c] = 0]
  /\ UNCHANGED <<moment, stalled, tick>>

(* _encode_snapshot and the list of the clients, with nothing in between.  *)
(* A tick whose snapshot cannot be built is logged and changes nothing.    *)
StartTick ==
  /\ loop = "sleeping"
  /\ frame' = moment
  /\ queue' = clients
  /\ loop' = IF clients = {} THEN "sleeping" ELSE "sending"
  /\ UNCHANGED <<moment, link, stalled, clients, waiting, dead, shown>>

(* Mutation: the clients of the moment are sent to, not those of the list. *)
SendToWhoeverIsThere(c) ==
  /\ loop = "sending"
  /\ c \in queue \cup clients
  /\ queue' = (queue \cup clients) \ {c}
  /\ shown' = [shown EXCEPT ![c] = IF link[c] = "open" THEN frame ELSE @]
  /\ UNCHANGED <<moment, link, stalled, clients, frame, waiting, dead, loop>>

(* send_text to a client that is there: the frame is in its buffer. *)
SendTo(c) ==
  /\ loop = "sending"
  /\ c \in queue
  /\ link[c] = "open"
  /\ queue' = queue \ {c}
  /\ shown' = [shown EXCEPT ![c] = frame]
  /\ IF c \in stalled
     THEN loop' = "waiting" /\ waiting' = c
     ELSE UNCHANGED <<loop, waiting>>
  /\ UNCHANGED <<moment, link, stalled, clients, frame, dead>>

(* Mutation: a client whose send has failed is tried again at once. *)
SendFailsAndRetries(c) ==
  /\ loop = "sending"
  /\ c \in queue
  /\ link[c] # "open"
  /\ dead' = dead \cup {c}
  /\ UNCHANGED <<moment, link, stalled, clients, frame, queue, waiting, loop,
                 shown>>

SendFails(c) ==
  /\ loop = "sending"
  /\ c \in queue
  /\ link[c] # "open"
  /\ queue' = queue \ {c}
  /\ dead' = dead \cup {c}
  /\ UNCHANGED <<moment, link, stalled, clients, frame, waiting, loop, shown>>

EndTick ==
  /\ loop = "sending" /\ queue = {}
  /\ clients' = clients \ dead
  /\ dead' = {}
  /\ frame' = 0
  /\ loop' = "sleeping"
  /\ UNCHANGED <<moment, link, stalled, queue, waiting, shown>>

-----------------------------------------------------------------------------
(* The world: things change, peers stop reading and go on, links are lost. *)
Elapse ==
  /\ moment < MaxMoment
  /\ moment' = moment + 1
  /\ UNCHANGED <<link, stalled, clients, tick, shown>>

Stall(c) ==
  /\ link[c] = "open" /\ c \notin stalled
  /\ stalled' = stalled \cup {c}
  /\ UNCHANGED <<moment, link, clients, tick, shown>>

(* The buffer has drained: a send that waits for it goes on. *)
Resume(c) ==
  /\ c \in stalled
  /\ stalled' = stalled \ {c}
  /\ IF waiting = c THEN loop' = "sending" /\ waiting' = NoPeer
     ELSE UNCHANGED <<loop, waiting>>
  /\ UNCHANGED <<moment, link, clients, frame, queue, dead, shown>>

(* The connection is lost: a send that waits for the client raises. *)
Lose(c) ==
  /\ link[c] = "open"
  /\ link' = [link EXCEPT ![c] = "lost"]
  /\ stalled' = stalled \ {c}
  /\ IF waiting = c
     THEN loop' = "sending" /\ waiting' = NoPeer /\ dead' = dead \cup {c}
     ELSE UNCHANGED <<loop, waiting, dead>>
  /\ UNCHANGED <<moment, clients, frame, queue, shown>>

-----------------------------------------------------------------------------
WsInit ==
  /\ moment = 1
  /\ link = [c \in Peer |-> "none"]
  /\ stalled = {}
  /\ clients = {}
  /\ frame = 0
  /\ queue = {}
  /\ waiting = NoPeer
  /\ dead = {}
  /\ loop = "sleeping"
  /\ shown = [c \in Peer |-> 0]

BroadcastLoop ==
  StartTick \/ (\E c \in Peer : SendTo(c) \/ SendFails(c)) \/ EndTick

WsNext ==
  \/ \E c \in Peer : Connect(c) \/ Disconnect(c)
  \/ BroadcastLoop
  \/ Elapse
  \/ \E c \in Peer : Stall(c) \/ Resume(c) \/ Lose(c)

(* The loop runs on, and not every tick fails to build its snapshot; an    *)
(* endpoint notices that its peer is lost; and a peer that does not drain  *)
(* its buffer drains it or is lost: uvicorn's pings go unanswered and it   *)
(* closes the connection.                                                  *)
WsFairness ==
  /\ WF_wsVars(BroadcastLoop)
  /\ \A c \in Peer : WF_wsVars(Disconnect(c)) /\ WF_wsVars(Resume(c))

WsSpec == WsInit /\ [][WsNext]_wsVars /\ WsFairness

WsTypeOK ==
  /\ moment \in 1..MaxMoment
  /\ link \in [Peer -> {"none", "open", "lost"}]
  /\ stalled \in SUBSET Peer
  /\ clients \in SUBSET Peer
  /\ frame \in 0..MaxMoment
  /\ queue \in SUBSET Peer
  /\ waiting \in Peer \cup {NoPeer}
  /\ dead \in SUBSET Peer
  /\ loop \in {"sleeping", "sending", "waiting"}
  /\ shown \in [Peer -> 0..MaxMoment]

-----------------------------------------------------------------------------
(* A client is never sent a snapshot older than one it has, not even by a  *)
(* broadcast that was built before it connected and that another client    *)
(* holds up.                                                               *)
SnapshotsInOrder ==
  [][\A c \in Peer : link[c] = "open" => shown'[c] >= shown[c]]_wsVars

(* No client is left out: as long as it stays connected it is in one       *)
(* broadcast after the other, and each broadcast gets to it, whatever      *)
(* other clients stall or are lost meanwhile.                              *)
ServedInTurn ==
  \A c \in Peer :
    /\ c \in clients ~> (c \in queue \/ c \notin clients)
    /\ c \in queue ~> c \notin queue
=============================================================================
