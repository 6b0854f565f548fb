-------------------------- MODULE InstallContract --------------------------
(***************************************************************************)
(* What the install and update endpoints promise about one install_id,     *)
(* whatever files, subprocesses and restarts are behind the promise: the   *)
(* id is accepted once, is run at most once, is decided once, and its      *)
(* decision is announced at most once, as it was recorded.                 *)
(***************************************************************************)
CONSTANT Install            \* the install_ids clients use

VARIABLES
  status,                   \* what GET /install/{id}/status answers
  announced                 \* the status of the "complete" event, or "none"

cvars == <<status, announced>>

Active    == {"queued", "running"}
Outcome   == {"success", "already_installed", "failed"}
Status    == {"absent"} \cup Active \cup Outcome

ContractTypeOK ==
  /\ status \in [Install -> Status]
  /\ announced \in [Install -> Outcome \cup {"none"}]

Move(i, from, to) ==
  /\ status[i] \in from
  /\ status' = [status EXCEPT ![i] = to]
  /\ UNCHANGED announced

Accept(i)    == Move(i, {"absent"}, "queued")
Run(i)       == Move(i, {"queued"}, "running")
Decide(i, o) == Move(i, {"running"}, o)

(* A restart finds the install in flight and gives it up. *)
Abandon(i)   == Move(i, Active, "failed")

Announce(i) ==
  /\ status[i] \in Outcome
  /\ announced[i] = "none"
  /\ announced' = [announced EXCEPT ![i] = status[i]]
  /\ UNCHANGED status

CInit ==
  /\ status = [i \in Install |-> "absent"]
  /\ announced = [i \in Install |-> "none"]

CNext ==
  \E i \in Install :
    \/ Accept(i)
    \/ Run(i)
    \/ \E o \in Outcome : Decide(i, o)
    \/ Abandon(i)
    \/ Announce(i)

CSpec == CInit /\ [][CNext]_cvars
=============================================================================
