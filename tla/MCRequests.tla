----------------------------- MODULE MCRequests -----------------------------
(* The three modules over ReadCache in one run. They touch different files *)
(* and share nothing but the clearing of the cache, which ReadCache has as *)
(* ClearedByOthers, so in a behaviour one of them moves and the others     *)
(* rest: either with several requests and nobody reading, or with readers, *)
(* time and one request. The commits also meet the kill switch.            *)
EXTENDS ConfigCommit, ManualActions, Allocation

CONSTANTS dte, delta, low, high  \* two paths, two values

VARIABLE part

vars == <<part, cacheVars, commitVars, manualVars, allocVars>>

MCPath  == {dte, delta}
MCValue == {low, high}
MCValid == {<<dte, low>>, <<dte, high>>, <<delta, high>>}
MCOneEach == {<<dte, high>>, <<delta, high>>}

Part == {"edits", "edits flipped", "edits read", "actions", "actions read",
         "runs", "runs read"}

Init ==
  /\ part \in Part
  /\ CacheInit /\ CommitInit /\ ManualInit /\ AllocInit
  /\ part # "edits" => file = [p \in Path |-> low]

Unread == stage' = stage
OneReads == \A r, s \in Reader : r # s => "idle" \in {stage'[r], stage'[s]}

(* A module at rest, whose contents are as many as the file has versions.  *)
ManualRests ==
  /\ statuses' = [v \in 1..Version' |-> "open"]
  /\ UNCHANGED <<status, halted, paper, mpc, dry, reply, posts, orders, ordered,
                 doubtful>>

AllocRests ==
  /\ basis' = [v \in 1..Version' |-> NoBasis]
  /\ UNCHANGED <<inputs, lock, apc, cron, seen, asked, told, runs, overlapped>>

Commits ==
  /\ \/ part = "edits" /\ \E c \in Client : Serve(c)
     \/ part = "edits flipped" /\ (Flip \/ \E c \in Client : Serve(c))
          /\ commits' <= 2
     \/ part = "edits read" /\ CommitNext /\ flip' = {} /\ commits' <= 1
          /\ Version' <= 3
  /\ UNCHANGED part /\ ManualRests /\ AllocRests

Actions ==
  /\ \/ part = "actions" /\ ManualNext /\ Unread /\ now' = 0 /\ Version' <= 3
     \/ part = "actions read" /\ ManualNext /\ OneReads /\ posts' <= 1
          /\ now' <= 1 /\ Version' <= 3
  /\ UNCHANGED <<part, commitVars>> /\ AllocRests

Runs ==
  /\ \/ part = "runs" /\ AllocNext /\ Unread /\ now' <= 2 /\ Version' <= 3
          /\ (runs' <= 2 \/ ~overlapped')
     \/ part = "runs read" /\ AllocNext /\ OneReads /\ runs' <= 1
          /\ pool' + caps' <= 1
  /\ UNCHANGED <<part, commitVars>> /\ ManualRests

Next == Commits \/ Actions \/ Runs

Spec == Init /\ [][Next]_vars

(* The type invariants of the four modules. *)
TypeOK == CacheTypeOK /\ CommitTypeOK /\ ManualTypeOK /\ AllocTypeOK
=============================================================================
