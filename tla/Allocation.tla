----------------------------- MODULE Allocation -----------------------------
(***************************************************************************)
(* The allocation of capital (routes/orchestrator.py): POST /allocate runs *)
(* the orchestrator's command line; POST /total-pool sets the declared     *)
(* pool and runs it too; PUT /overrides replaces the caps. The file behind *)
(* the cache is allocation.json. total_pool.json and overrides.yaml are    *)
(* abstracted to the numbers of times they have been replaced, and an      *)
(* allocation to what was on file when it was computed and to whether it   *)
(* was told to respect the overrides.                                      *)
(*                                                                         *)
(* The command line is not part of this repository. From how it is used    *)
(* here and what the comments say of it: a run that finds a lock younger   *)
(* than its window ends at once, with an exit code this repository does    *)
(* not tell; any other reads the inputs, writes allocation.json and writes *)
(* the lock when it is done. Cron runs it as well.                         *)
(***************************************************************************)
EXTENDS ReadCache

CONSTANTS
  Caller,    \* who may have a run in progress: threads of the server, cron
  Window,    \* DEFAULT_IDEMPOTENCY_WINDOW_SEC, in ticks
  MaxInputs, \* bound: writes of the inputs
  MaxRuns    \* bound: runs of the command line

ASSUME AllocationAssumption ==
  Window \in Nat /\ MaxInputs \in Nat /\ MaxRuns \in Nat

VARIABLES
  pool, caps, \* writes of total_pool.json and of overrides.yaml
  basis,      \* basis[v]: what version v was computed from
  lock,       \* .allocate.lock: its time stamp; empty: none
  apc,        \* where the run of each caller is
  cron,       \* it is cron's: no request waits for it
  seen,       \* the inputs it has read
  asked,      \* the inputs when it was asked for, and its respect_overrides
  told,       \* the last answer to each caller, and the inputs it asked for
  runs,
  overlapped  \* history: two runs have computed at once

inputs == <<pool, caps>>
allocVars == <<inputs, basis, lock, apc, cron, seen, asked, told, runs,
               overlapped>>
files == <<inputs, basis, lock>>

Basis == [pool : 0..MaxInputs, caps : 0..MaxInputs, respects : BOOLEAN]
NoBasis == [pool |-> 0, caps |-> 0, respects |-> FALSE]
Nothing == [pool |-> 0, caps |-> 0, what |-> "nothing"]

(* _is_locked, and the same test in the command line. *)
Locked == \E at \in lock : now - at < Window

Tell(h, what) ==
  /\ apc' = [apc EXCEPT ![h] = "idle"]
  /\ told' = IF cron[h] THEN told
             ELSE [told EXCEPT ![h] = [pool |-> asked[h].pool,
                                       caps |-> asked[h].caps, what |-> what]]
  /\ asked' = [asked EXCEPT ![h] = NoBasis]
  /\ seen' = [seen EXCEPT ![h] = NoBasis]
  /\ cron' = [cron EXCEPT ![h] = FALSE]
  /\ UNCHANGED <<files, runs, overlapped>>

(* A run that has ended well: the server clears its cache before it        *)
(* answers (and POST /allocate then reads the file through the cache).     *)
Succeed(h, what) ==
  /\ Tell(h, what)
  /\ IF cron[h] THEN UNCHANGED <<cached, promised>>
     ELSE ClearCache /\ Promise
  /\ UNCHANGED <<now, replaced, stage, began, loaded, floor>>

(* _run_allocate_subprocess, which passes --respect-overrides on. *)
Run(h, by, respects) ==
  /\ apc[h] = "idle"
  /\ runs < MaxRuns
  /\ runs' = runs + 1
  /\ apc' = [apc EXCEPT ![h] = "spawned"]
  /\ cron' = [cron EXCEPT ![h] = by = "cron"]
  /\ asked' = [asked EXCEPT ![h] = [pool |-> pool', caps |-> caps',
                                    respects |-> respects]]
  /\ UNCHANGED <<basis, lock, seen, told, overlapped, cacheVars>>

-----------------------------------------------------------------------------
(* post_allocate. Within the window it is refused unless forced. Unless it *)
(* asks for them, it is computed without the overrides.                    *)
Allocate(h, force, respects) ==
  /\ ~Locked \/ force
  /\ UNCHANGED inputs
  /\ Run(h, "request", respects)

(* post_total_pool: the pool is written, then the allocation is run, with  *)
(* the overrides.                                                          *)
SetTotalPool(h) ==
  /\ pool + caps < MaxInputs
  /\ pool' = pool + 1 /\ caps' = caps
  /\ Run(h, "request", TRUE)

(* put_overrides: the whole file is replaced; nothing is run. *)
PutOverrides ==
  /\ pool + caps < MaxInputs
  /\ caps' = caps + 1
  /\ UNCHANGED <<pool, basis, lock, apc, cron, seen, asked, told, runs,
                 overlapped, cacheVars>>

(* Cron's run, "same CLI path"; "respect_overrides mirrors the cron". *)
CronAllocates(h) == UNCHANGED inputs /\ Run(h, "cron", TRUE)

-----------------------------------------------------------------------------
(* The command line. The window is passed to it even by a forced request.  *)
(* A skipped run that exits with 0 is answered as one that has ended well: *)
(* "skipped" marks such an answer for OkIsCurrent.                         *)
CliSkips(h) ==
  /\ apc[h] = "spawned" /\ Locked
  /\ \/ Succeed(h, "skipped")
     \/ Tell(h, "failed") /\ UNCHANGED cacheVars

CliStarts(h) ==
  /\ apc[h] = "spawned" /\ ~Locked
  /\ apc' = [apc EXCEPT ![h] = "computing"]
  /\ seen' = [seen EXCEPT ![h] = [pool |-> pool, caps |-> caps,
                                  respects |-> asked[h].respects]]
  /\ overlapped' = (overlapped \/ \E g \in Caller : apc[g] = "computing")
  /\ UNCHANGED <<files, cron, asked, told, runs, cacheVars>>

CliWrites(h) ==
  /\ apc[h] = "computing"
  /\ Replace
  /\ basis' = Append(basis, seen[h])
  /\ seen' = [seen EXCEPT ![h] = NoBasis]
  /\ apc' = [apc EXCEPT ![h] = "written"]
  /\ UNCHANGED <<inputs, lock, cron, asked, told, runs, overlapped, now,
                 readers, promised>>

CliEnds(h) ==
  /\ apc[h] = "written"
  /\ apc' = [apc EXCEPT ![h] = "done"]
  /\ lock' = {now}
  /\ UNCHANGED <<inputs, basis, cron, seen, asked, told, runs, overlapped,
                 cacheVars>>

Done(h) == apc[h] = "done" /\ Succeed(h, "ok")

(* Mutation: whatever the exit code, the run is taken to have ended well. *)
FailsUnnoticed(h) ==
  /\ apc[h] \in {"spawned", "computing", "written", "done"}
  /\ Succeed(h, "ok")

(* No process, a run that fails or one that is killed after 120 s: 500 or  *)
(* 504 to an allocate, "deferred" to a set, and the cache stays.           *)
Fails(h) ==
  /\ apc[h] \in {"spawned", "computing", "written", "done"}
  /\ Tell(h, "failed")
  /\ UNCHANGED cacheVars

-----------------------------------------------------------------------------
AllocInit ==
  /\ pool = 0 /\ caps = 0
  /\ basis = <<NoBasis>>
  /\ lock = {}
  /\ apc = [h \in Caller |-> "idle"]
  /\ cron = [h \in Caller |-> FALSE]
  /\ seen = [h \in Caller |-> NoBasis]
  /\ asked = [h \in Caller |-> NoBasis]
  /\ told = [h \in Caller |-> Nothing]
  /\ runs = 0
  /\ overlapped = FALSE

Orchestrate(h) ==
  \/ \E force, respects \in BOOLEAN : Allocate(h, force, respects)
  \/ SetTotalPool(h)
  \/ CronAllocates(h)
  \/ CliSkips(h) \/ CliStarts(h) \/ CliWrites(h) \/ CliEnds(h)
  \/ Done(h) \/ Fails(h)

AllocNext ==
  \/ \E h \in Caller : Orchestrate(h)
  \/ PutOverrides
  \/ /\ (\E r \in Reader : Read(r)) \/ ClearedByOthers \/ Tick
     /\ UNCHANGED allocVars

AllocSpec == CacheInit /\ AllocInit /\ [][AllocNext]_<<cacheVars, allocVars>>

AllocTypeOK ==
  /\ pool \in 0..MaxInputs /\ caps \in 0..MaxInputs
  /\ basis \in Seq(Basis) /\ Len(basis) = Version
  /\ lock \in SUBSET (0..MaxTime)
  /\ apc \in [Caller -> {"idle", "spawned", "computing", "written", "done"}]
  /\ cron \in [Caller -> BOOLEAN]
  /\ seen \in [Caller -> Basis]
  /\ asked \in [Caller -> Basis]
  /\ told \in [Caller -> [pool : 0..MaxInputs, caps : 0..MaxInputs,
                          what : {"nothing", "ok", "skipped", "failed"}]]
  /\ runs \in 0..MaxRuns
  /\ overlapped \in BOOLEAN

-----------------------------------------------------------------------------
(* After POST /total-pool has answered reallocate "ok", and POST /allocate *)
(* its allocation, allocation.json is computed from the pool that was on   *)
(* file or from a newer one, and stays so; and from the overrides that     *)
(* were on file or from newer ones, unless the latest run did not respect  *)
(* them, as a POST /allocate does not by default: over failures, time-outs *)
(* and whatever cron does meanwhile, if the run was not skipped and no two *)
(* runs have computed at the same time.                                    *)
OkIsCurrent ==
  \A h \in Caller :
    told[h].what = "ok" /\ ~overlapped =>
      /\ basis[Version].pool >= told[h].pool
      /\ basis[Version].respects => basis[Version].caps >= told[h].caps
=============================================================================
