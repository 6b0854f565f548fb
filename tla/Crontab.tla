------------------------------ MODULE Crontab ------------------------------
(***************************************************************************)
(* POST /pause, /resume and /uninstall (routes/server.py) edit the user's  *)
(* crontab through crontab_ops._apply_action_to_crontab: back the table    *)
(* up, read it, transform the lines in scope, write the whole table back,  *)
(* read it again, and restore the backup when it is not what was written.  *)
(*                                                                         *)
(* The handlers are plain `def`s, so they run on threads, and no lock is   *)
(* taken: each call of the crontab program is a step of its own here. Each *)
(* call may also fail, in the ways named by Fault and at most MaxFaults    *)
(* times per request. A table that is empty and a table that does not      *)
(* exist are one value, <<>>.                                              *)
(***************************************************************************)
EXTENDS Naturals, Sequences, Filter

CONSTANTS
  Handler,       \* requests that can be in progress at once
  Strategy,      \* the strategies of STRATEGY_REGISTRY
  Job,           \* what a line of the table runs
  Dirs,          \* Dirs[j]: the strategies whose /projects/<dir>/ it names
  Package,       \* Package[j]: the strategy whose package `python -m` runs
  Extending,     \* Extending[s]: those whose package name begins with s's
  InitialTables, \* the tables there may be before the first request
  Fault,         \* the calls that may fail (see the actions)
  MaxFaults,     \* bound: failures in one request
  MaxRequests    \* bound: requests in a behaviour

Op   == {"pause", "resume", "uninstall"}
Mark == {"live", "paused", "comment"}  \* paused: begins with PAUSE_MARKER
Line == [job : Job, mark : Mark]
Step == {"idle", "backup", "read", "write", "check", "restore"}
Answer == {"none", "ok", "refused", "failed"}

ASSUME CrontabAssumption ==
  /\ Dirs \in [Job -> SUBSET Strategy]
  /\ Package \in [Job -> Strategy \cup {"other"}]
  /\ Extending \in [Strategy -> SUBSET Strategy]
  /\ \A s \in Strategy : s \in Extending[s]
  /\ Strategy # {}
  /\ InitialTables \subseteq Seq(Line)
  /\ MaxFaults \in Nat
  /\ MaxRequests \in Nat

VARIABLES
  table,     \* the user's crontab
  pc,        \* where each handler is
  op,        \* the operation it was asked for
  target,    \* and the strategy
  backup,    \* the contents of its backup file
  before,    \* what it read
  answer,    \* its last answer
  faults,    \* failures its request has met
  started,   \* ghost: the table when its request began
  first,     \* ghost: the table before the first request
  requests,  \* ghost: requests so far
  dropped    \* ghost: the strategies an uninstall was requested for

request == <<op, target, started, first, requests, dropped>>
vars == <<table, pc, op, target, backup, before, answer, faults, started,
          first, requests, dropped>>

-----------------------------------------------------------------------------
(* Mutation: the path is matched without its last slash. *)
InScopeNoSlash(l, s) ==
  Dirs[l.job] \cap Extending[s] # {} /\ Package[l.job] \in Extending[s]

(* in_scope_crontab_line: both substrings, so that the package of a longer *)
(* name matches too; comment marks do not matter.                          *)
InScope(l, s) == s \in Dirs[l.job] /\ Package[l.job] \in Extending[s]

Outside(s) == {l \in Line : ~InScope(l, s)}

(* Mutation: a line that is already paused is paused again. *)
PauseLineTwice(l) ==
  CASE l.mark = "live"    -> [l EXCEPT !.mark = "paused"]
    [] l.mark = "paused"  -> [l EXCEPT !.mark = "paused twice"]
    [] l.mark = "comment" -> l

(* _transform_pause and _transform_resume. *)
PauseLine(l)  == IF l.mark = "live" THEN [l EXCEPT !.mark = "paused"] ELSE l
(* Mutation: any comment mark is stripped. *)
ResumeAnyComment(l) == [l EXCEPT !.mark = "live"]
ResumeLine(l) == IF l.mark = "paused" THEN [l EXCEPT !.mark = "live"] ELSE l

(* The transformed table. *)
Transform(t, o, s) ==
  CASE o = "pause"  -> [k \in DOMAIN t |->
                          IF InScope(t[k], s) THEN PauseLine(t[k]) ELSE t[k]]
    [] o = "resume" -> [k \in DOMAIN t |->
                          IF InScope(t[k], s) THEN ResumeLine(t[k]) ELSE t[k]]
    [] o = "uninstall" -> Kept(t, Outside(s))

OutOfScope(t, s) == Kept(t, Outside(s))
CountIn(t, s)    == Len(t) - Len(OutOfScope(t, s))

(* verify_post_edit. *)
Verified(t, u, o, s) ==
  /\ OutOfScope(t, s) = OutOfScope(u, s)
  /\ IF o = "uninstall"
     THEN Len(u) = Len(t) - CountIn(t, s) /\ CountIn(u, s) = 0
     ELSE Len(u) = Len(t) /\ CountIn(u, s) = CountIn(t, s)

After(h) == Transform(before[h], op[h], target[h])

Reply(h, a) ==
  /\ pc' = [pc EXCEPT ![h] = "idle"]
  /\ answer' = [answer EXCEPT ![h] = a]

Goto(h, step) == pc' = [pc EXCEPT ![h] = step] /\ UNCHANGED answer

(* A call that fails in way f if `bad`. *)
Call(h, f, bad) ==
  /\ bad => f \in Fault /\ faults[h] < MaxFaults
  /\ faults' = [faults EXCEPT ![h] = IF bad THEN @ + 1 ELSE @]

-----------------------------------------------------------------------------
Request(h, o, s) ==
  /\ pc[h] = "idle"
  /\ requests < MaxRequests
  /\ requests' = requests + 1
  /\ op' = [op EXCEPT ![h] = o]
  /\ target' = [target EXCEPT ![h] = s]
  /\ started' = [started EXCEPT ![h] = table]
  /\ dropped' = IF o = "uninstall" THEN dropped \cup {s} ELSE dropped
  /\ pc' = [pc EXCEPT ![h] = "backup"]
  /\ answer' = [answer EXCEPT ![h] = "none"]
  /\ faults' = [faults EXCEPT ![h] = 0]
  /\ UNCHANGED <<table, backup, before, first>>

(* check_process_binding fails: nothing was read or written. *)
Refuse(h) ==
  /\ pc[h] = "backup"
  /\ Call(h, "unbound", TRUE)
  /\ Reply(h, "refused")
  /\ UNCHANGED <<table, backup, before, request>>

(* backup_crontab: when `crontab -l` fails, the backup is an empty file. *)
Backup(h) ==
  /\ pc[h] = "backup"
  /\ \E bad \in BOOLEAN :
       /\ Call(h, "backup", bad)
       /\ backup' = [backup EXCEPT ![h] = IF bad THEN <<>> ELSE table]
  /\ Goto(h, "read")
  /\ UNCHANGED <<table, before, request>>

(* `crontab -l`, the transformation and its verification. *)
Read(h) ==
  /\ pc[h] = "read"
  /\ before' = [before EXCEPT ![h] = table]
  /\ IF Verified(table, Transform(table, op[h], target[h]), op[h], target[h])
     THEN Goto(h, "write")
     ELSE Reply(h, "failed")
  /\ UNCHANGED <<table, backup, faults, request>>

(* `crontab -l` times out. *)
ReadFails(h) ==
  /\ pc[h] = "read"
  /\ Call(h, "read", TRUE)
  /\ Reply(h, "failed")
  /\ UNCHANGED <<table, backup, before, request>>

(* `crontab -l` fails with no output: taken to mean that there is no table. *)
ReadNothing(h) ==
  /\ pc[h] = "read"
  /\ Call(h, "listing", table # <<>>)
  /\ Reply(h, "ok")
  /\ UNCHANGED <<table, backup, before, request>>

(* `crontab -`: the whole table is replaced, unless the write is lost. *)
Write(h) ==
  /\ pc[h] = "write"
  /\ \E bad \in BOOLEAN :
       /\ Call(h, "lost", bad)
       /\ table' = IF bad THEN table ELSE After(h)
  /\ Goto(h, "check")
  /\ UNCHANGED <<backup, before, request>>

(* Mutation: a write that fails restores nothing and has emptied the table. *)
WriteTruncates(h) ==
  /\ pc[h] = "write"
  /\ Call(h, "write", TRUE)
  /\ table' = <<>>
  /\ Reply(h, "failed")
  /\ UNCHANGED <<backup, before, request>>

(* `crontab -` fails, or times out before or after the table is replaced;  *)
(* the backup is not restored.                                             *)
WriteFails(h) ==
  /\ pc[h] = "write"
  /\ Call(h, "write", TRUE)
  /\ table' \in {table, After(h)}
  /\ Reply(h, "failed")
  /\ UNCHANGED <<backup, before, request>>

(* Mutation: the table read back is not compared with the one written. *)
CheckSkipped(h) ==
  /\ pc[h] = "check"
  /\ Reply(h, "ok")
  /\ UNCHANGED <<table, backup, before, faults, request>>

(* The table is read back; a listing that fails counts as an empty table. *)
Check(h) ==
  /\ pc[h] = "check"
  /\ \E bad \in BOOLEAN :
       /\ Call(h, "check", bad)
       /\ IF After(h) = IF bad THEN <<>> ELSE table
          THEN Reply(h, "ok")
          ELSE Goto(h, "restore")
  /\ UNCHANGED <<table, backup, before, request>>

(* The second `crontab -l` times out: the edit stays. *)
CheckFails(h) ==
  /\ pc[h] = "check"
  /\ Call(h, "read", TRUE)
  /\ Reply(h, "failed")
  /\ UNCHANGED <<table, backup, before, request>>

(* restore_crontab_from_backup. *)
Restore(h) ==
  /\ pc[h] = "restore"
  /\ \E bad \in BOOLEAN :
       /\ Call(h, "restore", bad)
       /\ table' = IF bad THEN table ELSE backup[h]
  /\ Reply(h, "failed")
  /\ UNCHANGED <<backup, before, request>>

-----------------------------------------------------------------------------
Init ==
  /\ first \in InitialTables
  /\ table = first
  /\ pc = [h \in Handler |-> "idle"]
  /\ op = [h \in Handler |-> "pause"]
  /\ target = [h \in Handler |-> CHOOSE s \in Strategy : TRUE]
  /\ backup = [h \in Handler |-> <<>>]
  /\ before = [h \in Handler |-> <<>>]
  /\ answer = [h \in Handler |-> "none"]
  /\ faults = [h \in Handler |-> 0]
  /\ started = [h \in Handler |-> <<>>]
  /\ requests = 0
  /\ dropped = {}

Handle(h) ==
  \/ Refuse(h)
  \/ Backup(h)
  \/ Read(h)
  \/ ReadFails(h)
  \/ ReadNothing(h)
  \/ Write(h)
  \/ WriteFails(h)
  \/ Check(h)
  \/ CheckFails(h)
  \/ Restore(h)

Next ==
  \E h \in Handler :
    \/ \E o \in Op, s \in Strategy : Request(h, o, s)
    \/ Handle(h)

Spec == Init /\ [][Next]_vars

-----------------------------------------------------------------------------
TypeOK ==
  /\ table \in Seq(Line)
  /\ pc \in [Handler -> Step]
  /\ op \in [Handler -> Op]
  /\ target \in [Handler -> Strategy]
  /\ backup \in [Handler -> Seq(Line)]
  /\ before \in [Handler -> Seq(Line)]
  /\ answer \in [Handler -> Answer]
  /\ faults \in [Handler -> 0..MaxFaults]
  /\ started \in [Handler -> Seq(Line)]
  /\ first \in InitialTables
  /\ requests \in 0..MaxRequests
  /\ dropped \in SUBSET Strategy

(* The lines that do not name the directory of a strategy. *)
Others(t, s) == Kept(t, {l \in Line : s \notin Dirs[l.job]})

(* A request never changes a line that does not name its strategy's        *)
(* directory, neither by its write nor by restoring its backup             *)
(* (crontab_ops constraint (iv): "out-of-scope lines unchanged").          *)
OutOfScopeKept ==
  [][\A h \in Handler :
       pc[h] \in {"write", "restore"} /\ pc'[h] # pc[h] =>
         Others(table', target[h]) = Others(table, target[h])]_vars

(* A pause that was answered ok leaves no line of the strategy that runs,  *)
(* and an uninstall no line at all, until another request is made.         *)
OkIsEffective ==
  \A h \in Handler :
    pc[h] = "idle" /\ answer[h] = "ok" =>
      \A k \in DOMAIN table :
        InScope(table[k], target[h]) =>
          /\ op[h] # "uninstall"
          /\ op[h] = "pause" => table[k].mark # "live"
          /\ op[h] = "resume" => table[k].mark # "paused"

(* Whatever fails, the table is the one from before the request or the one *)
(* the request asks for, never something in between.                       *)
AllOrNothing ==
  \A h \in Handler :
    requests > 0 =>
      table \in {started[h], Transform(started[h], op[h], target[h])}

Unpaused(t) ==
  [k \in DOMAIN t |->
     [t[k] EXCEPT !.mark = IF @ = "paused" THEN "live" ELSE @]]

Without(gone) == {l \in Line : \A s \in gone : ~InScope(l, s)}

(* Over any sequence of requests and failures, a pause mark is all that is *)
(* ever put on a line that stays, and whole strategies that an uninstall   *)
(* was requested for are all that goes: the user's comments stay comments, *)
(* and resuming gives back the line of before the pause.                   *)
NothingElseChanges ==
  \E gone \in SUBSET dropped :
    Unpaused(table) = Unpaused(Kept(first, Without(gone)))
=============================================================================
