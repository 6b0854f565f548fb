# Verification of nodeble-api-server

nodeble-api-server is the HTTP/WebSocket server that runs beside a set of
trading strategies ("bots") on one Linux host. Clients use it to install and
update strategies, to edit their configuration, to stop and restart them
(crontab, kill switch), to start scans and closes, and to watch them. It keeps
almost nothing in memory: its state is in files that it shares with the
strategies, with shims it starts as subprocesses, and with itself after a
restart. This directory holds TLA+ models of the parts whose order of steps
matters, the TLC configurations that check them, and proofs checked by TLAPS.

Paths below are relative to `src/src/nodeble_api_server/` unless they begin
with `src/`.

## 1. Inventory

| Part | State it keeps | Operations | What makes it hard | What must be true |
|---|---|---|---|---|
| Install endpoints (`routes/server.py`, `install_state.py`) | `state.json` and `events.jsonl` of each install_id | POST /install, /update; status, log; clean-up at start | an id posted twice; a death of the server between two writes | run at most once; the two files agree; nothing stays in flight |
| Install runner (`install_runner.py`) | the task, subprocess, pipes, parse context | spawn, two drain tasks, 600 s budget, SIGTERM/SIGKILL, outcome | two pipes and the runner write the same files; time-out against late output | exactly one outcome, announced last; every run is decided |
| Install event stream (`routes/server.py`, SSE) | per client: the status read first, events sent, polls | replay, made-up complete event, tail, cap | files grow while they are replayed; the cap races the budget | every event once and in order; no false failure; streams end |
| Kill switch (`routes/system.py`) | each `strategy.yaml` mode, snapshot file, intent in the audit log | engage, disengage, GET | no lock over four kinds of files; partial failures; deaths; repeated presses | pre-engage modes can always be put back, and are, exactly |
| Crontab editing (`crontab_ops.py`) | the user's crontab, backup files | pause, resume, uninstall | up to five calls of `crontab` with no lock; each may fail | other lines untouched; all or nothing; "ok" is true |
| Config commit and shims (`routes/strategies.py`, `config_writer.py`, `shims/`) | `strategy.yaml`, audit log | validate, commit, history | whole-file read-modify-write by subprocesses without a lock; time-outs after a write | an audited edit is in the file; the cache is cleared after it |
| State reader (`state_reader.py`) | a 5 s cache | strategy cards, halts, health | a read in progress while the cache is cleared | no answer is older than the TTL; a confirmed write is read |
| Manual scan and close (`actions.py`, `routes/strategies.py`) | none of its own | trigger scan, preview, close | the halt check is not atomic with the subprocess, which may be killed with its order out | a position is ordered closed once; the operator is told what happened |
| Orchestrator (`routes/orchestrator.py`) | total pool and overrides files, allocate lock | allocate, overrides, total pool | the lock is read here and written elsewhere, after the work | an allocation that was answered "ok" is of the inputs it was asked for |
| WebSocket broadcast (`ws.py`) | the connection set | authenticate, connect, tick, disconnect | one slow client holds up the others | snapshots in order; no client left out |
| Daily snapshots (`snapshot_writer.py`, `app.py`) | one JSONL of rows per day and strategy | seed at boot, 23:59 run | the seed takes the place of the day's last row | one row per day and strategy; gains add up |
| Audit and history readers (`audit.py`, `audit_reader.py`, `history_reader.py`, `positions_history_reader.py`, `routes/pnl.py`) | read-only | paging, latest row per day | equal timestamps at a page boundary | pages partition the log |
| Log tail and sessions (`logs.py`, `session_extractor.py`, `aggregators/session.py`) | the client's byte cursor | tail, recent lines, sessions | growth and rotation during a read | no byte is skipped; a session opened is the session listed |
| Aggregators (`aggregators/`) | read-only | daily summary, discrepancy detectors | the same thing computed in two places | the parts of a page agree with each other |
| Tokens, configuration, authentication (`config.py`, `auth.py`, `cli.py`) | `server.yaml` | generate, revoke, load | read-modify-write of one file that every request reads | a revoked token is refused |
| Tiger credentials, releases (`tiger_creds.py`, `release_manifest.py`) | credential and manifest files | put, list | atomic replacement | -- |
| Market, logging, process start | none | helpers | -- | -- |
| Scripts (`src/scripts/bootstrap.sh`, `src/install.sh`, `src/deploy/deploy.sh`) | the host | provisioning | -- | -- |

How they meet: the install endpoints, the runner and the streams share the
files of an install and the one asyncio event loop; the kill switch, the
config commit and manual closes share `strategy.yaml`, the shims and the audit
log; crontab edits share the user's crontab with each other and with the user;
the readers and the broadcast read what all of them write, through the cache.
systemd restarts the server whenever it dies (`src/scripts/bootstrap.sh:703`)
and kills its subprocesses with it (`KillMode`, line 708).

The hazards that follow from this, each at its line, are listed in
`PROJECT.json` under `hazards`, with the properties that cover them or a note
that says why none does.

## 2. Plan

Done, in this order, the most consequential behaviour first:

1. `InstallContract` -- abstract: what the endpoints promise about one id.
2. `InstallLifecycle` -- endpoints, files, runner, deaths, clean-up; implements
   the contract.
3. `InstallStreams` -- EXTENDS the lifecycle and composes it with SSE clients.
4. `Killswitch` (+ `MCKillswitch`).
5. `Crontab` (+ `MCCrontab`).
6. `InstallLifecycleProofs` -- types, the agreement of the two files, at most
   one run, the refinement of the contract, the log behind the state, and what
   a restart owes.
7. `ReadCache` -- the cache of `state_reader`, and over it the three kinds of
   request that write a file and then clear it: `ConfigCommit` (edits of
   `strategy.yaml`), `ManualActions` (scans and closes), `Allocation` (runs of
   the orchestrator); `MCRequests` checks them.
8. `Broadcast`, `DailyHistory`, `LogTail`, `Sessions`, `TradingDay` -- what clients
   are shown; `MCViews` checks them.
9. `ReadCacheProofs` -- the cache, whoever writes; `RequestsProofs` -- the three
   modules over it, and the types of their composition.
10. `StreamsProofs` -- the streams over the installs; `KillswitchProofs`;
    `FilterProofs` -- lists and filters, by induction; `CrontabProofs` over it;
    `ViewsProofs` -- the five modules of `MCViews`.

Every safety property and action property that a passing run checks is now a
theorem.

To come:

11. What the theorems still assume and could do without: `OutOfScopeKept` for any
    number of failures; what remains of the kill switch's properties when presses
    overlap; the refinement for any state a restart may find.
12. Safety facts that the liveness properties rest on, as far as they can be
    stated without fairness: that a run in flight always has a step to take.

## 3. The modules

`PROJECT.json` ("map") gives the source lines of every definition.

### InstallContract

Two variables per id: what GET /status answers, and the status of the complete
event. An id is accepted once, run at most once, decided once, and its decision
is announced at most once and unchanged. It models no code; `InstallLifecycle`
implements it with `announced` mapped to the final event of `events.jsonl`.

### InstallLifecycle

`status`, `updates` and `events` are the two files; `runner`, `open`, `verdict`
and `age` are the task, its pipes, the last STATUS line, and ticks since it
started; `server`, `sweep`, `restarts` are the process and the start-up clean-up.

- `Post`, `PostFails` are POST /install and /update: one step of the event loop
  from reading `state.json` to `create_task`, which `config.json` may break off.
- `StartRunner`, `Spawn`, `SpawnFails`, `BudgetSpent`, `Finish` are `run_install`
  between its awaits; `Final` is the order of precedence of its outcomes.
- `MirrorLine`, `StatusLine`, `OversizeLine`, `Eof` are what a drain task does
  with a line, by what `_parse_line` makes of it.
- `AppendEvent` is the second write of each pair (`state.json`, then
  `events.jsonl`). No `await` lies between the two, so no other task runs there
  (`LoopFree` guards every step), but the process may die there, which is why
  the pair is two actions.
- `UpdateFails`, `AppendFails` are the two writes raising an `OSError`, on a full
  disk, with the process alive: the task that wrote ends there (`TaskRaises`, for
  a drain task `DrainRaises`; `runner` is then "dead"), or the clean-up does, and
  with it the process. A failed append leaves nothing, a part of the line without
  its newline (`torn`), or all of it; the next line lands on such a part, and
  `replay_events` skips both (`WriteLine`). `faults` counts them. A write that a
  death cuts short is whole or absent, and reading an existing `state.json`
  does not fail.
- `Die`, `Boot`, `SweepInstall`, `BootDone` are a death of the process at any
  point, and `cleanup_stale_running`. Whether the handler runs at all is the
  constant `StartupHandlersRun`: `app.py` registers it with `on_event` on an
  application that has a lifespan, and such an application calls none
  (finding 1). The safety and liveness runs take TRUE, which is what the code is
  written for; the proofs hold for both.
- `Tick` is time; what the loop does at once is done before the next tick.

The text of lines, step names, percentages, log tails and result metadata are
left out: no property tells them apart. `updates` counts how many lines were
folded into `state.json`.

### InstallStreams

EXTENDS `InstallLifecycle` and adds, per client, the generator of
GET /install/{id}/stream: `Open` reads the status once; `ReplayNext` sends one
event, and the generator is suspended at each; `ReplayDone` decides between a
made-up complete event and the tail by that first status; `Poll` is one turn of
the loop with its sleep (`Wake`, together with `Tick`), a batch and the cap;
`Disconnect` and `Break` end a connection. An event is its position in the file.
A sleep may take longer than a tick, as `asyncio.sleep` may.

### Killswitch

A press is a thread: `Press`, `ReadMode` per yaml, `ReadIntent`, `DecideEngage`
or `DecideDisengage`, `Skip` or `Flip` per strategy, `CleanUp` of the snapshot,
`Record` of the system entry. `mode`, `saved`/`snapshot` and `intent` are the
files. Any shim may fail or write and be given up, the snapshot may resist
writing, reading (`SnapshotMode`: it is broken, and everything is to go live) or
deletion, an audit entry may fail (which ends the press in a 500), and the
server may die. `Faults` names these, `Fault` chooses. The operator may press
either button at any time. `baseline`, `force` and `lost` are history variables:
what the operator should get back, whether an engage is in force, and what has
come between the baseline and the snapshot since. There are four such losses:

- "unwritten": the snapshot could not be written; the engage goes on.
- "unsaved": none was taken, because the record still says "engaged": the
  disengage before put everything back and could not append its entry.
- "overwritten": it was taken again in mid-engage, because the record says
  "disengaged": the engage before left no entry (finding 4), or a disengage that
  only partly succeeded has left one.
- "unread": a disengage could not read it.

Strategies are visited in any order, a superset of the code's fixed order.

### Crontab

A handler is a thread, each call of `crontab` an action: `Request`, `Refuse`,
`Backup`, `Read` (with transformation and `verify_post_edit`), `Write`, `Check`,
`Restore`, and the ways these fail (`ReadFails`, `ReadNothing`, `WriteFails`,
`CheckFails`, and `bad` in `Call`). A line is what it runs (`job`) and how it is
marked. `InScope` is the two-substring test: `Dirs` says which project
directories a line names, `Package` which package it starts, and `Extending`
which packages a substring test cannot tell from a strategy's own, because
their names begin with it.

### Filter

`Kept(t, S)`, the list comprehension with a condition: the members of t that are
in S, in their order. It is what `Crontab` and `DailyHistory` are written with; a
recursive function, unlike the library's `SelectSeq`, can be proved about.

### ReadCache

The cache in front of one file. Of the file only its version is kept:
`replaced[v]` is when version v was replaced. A reader is a thread between the
steps of `_cached`: `Miss` takes the time and finds no fresh entry, `Load` reads
the file, `Store` enters what was read under the time taken first. A hit
changes nothing; `Answers` is the set of all answers that could be given now.
`Replace` and `ClearCache` are what writers do; `WriteOutside` is a writer that
clears nothing, `ClearedByOthers` a request for some other file (`clear_cache`
empties the whole cache). `promised` and `floor` are history: the version a read
that begins now must show, raised by every request that is answered after it
has cleared the cache.

### ConfigCommit

EXTENDS `ReadCache`. A commit is a thread: `Commit`, `Validate` or `Refuse` (the
first shim), `ReadYaml` and `WriteYaml` (the second shim reads and replaces the
whole file, two steps of another process), `Record`, `Confirm`. `SetFails`,
`RecordFails` and the killed shim in `WriteYaml` are its failures. `trail` is the
success entries of the audit log. `FlipReads`, `FlipWrites`, `FlipFails` are a shim of
the kill switch, which reads and replaces the same file (`flip`) and changes
none of the paths of an edit. The history variables say what the log cannot
be expected to tell: `unrecorded` paths were changed with no entry, `tangled`
paths were changed by two commits, or a commit and the kill switch, that met.

### ManualActions

EXTENDS `ReadCache`. `PostClose`, `PostScan` with their guards, `SpawnFails`; then
the strategy's own command line, which is not in this repository and is
modelled from what `actions.py` says and expects of it: `CliChecks`, `CliOrders`,
`CliSaves`, and `MayExit`, the exit codes it can end with from each of these
steps, death by a signal included. `TaskStatus` is the table of exit codes;
`CloseEnds`, `CloseTimesOut`, `ScanEnds`, `ScanTimesOut` translate them and clear the
cache or not. `CliSimulates` is a close that places no real order, because it was
asked for as a dry run or because the strategy's own yaml says dry_run (`paper`,
which `SetMode` changes); it ends with 0 and is answered "completed" all the same.
`StateIsDamaged` makes `state.json` unreadable: a preview then answers 404 while the
position is open. `CronRuns` is the strategy at work on its own, `SetOrRemoveStop`
the STOP files. `orders`, `ordered` and `doubtful` are history.

### Allocation

EXTENDS `ReadCache`. `Allocate`, `SetTotalPool`, `PutOverrides`; the orchestrator's
command line, external, as `CliSkips`, `CliStarts`, `CliWrites`, `CliEnds`; `Done` and
`Fails`, what the endpoint makes of its end. The pool and the caps are one
number, how often either was replaced, and `basis[v]` is what version v of
`allocation.json` was computed from: both numbers, and whether the overrides were
respected, which a request says and POST /allocate by default does not. `CronAllocates`
is the same command run by cron. `overlapped` is history.

### Broadcast

`websocket_endpoint` as `Connect` and `Disconnect`, `broadcast_tick` as `StartTick`,
`SendTo`, `SendFails`, `EndTick`: what runs between two suspensions of the one event
loop is one step. A send to a client whose buffer does not drain leaves the loop
"waiting" for it until `Resume` or `Lose`. A snapshot is the moment it was built at.

### DailyHistory

`_snapshot_loop` with `take_daily_snapshot`: `Boot`, `Take`, `TakeFails`, `BackedOff`,
and `BreakOff`, an append that the server dies in or that raises, which leaves any
prefix of the rows and the file's end whole, torn, or without its last newline. `Appended` is what the next
append makes of such an end. `Look` is the search for the rows a day has got,
which may break off and then finds only what it has read. A day has an `hour`: 0,
1 once clocks would have been changed, 2 from 23:59. `OffBy` is by how much a sleep
until 23:59 is wrong, since it is the difference of two times on the wall: an
hour late into the day after a `Short` one, an hour early on a `Long` one.
`Entries`, `Baseline` and `Delta` are the readers' side (`history_reader`,
`state_reader`). `missed` and `misread` are history: the days whose row something
got in the way of, and those on which a look at the file broke off.

### LogTail

`tail_bytes` as two steps, `Stat` and then `ReadInitial` or `ReadOn`, between which
the file may grow (`Grow`, byte by byte) or be rotated (`Rotate`). A byte is its
position and one of four kinds: a newline; a "return", for all else that
`str.splitlines` splits at; an invalid byte, which decodes to a character that
encodes to three (the beginning of a character that is cut off at the end of
what was read does so too); a plain one. `Starts` is where `splitlines` has lines
begin, `EncodedLength` what is counted of one, and `InitialFrom`, `Trailing` and
`NextCursor` are the arithmetic of offsets over them; the cursor may go below zero.
`got` is what the client has been shown.

### Sessions

`List`, `ListMore` give the client pages of sessions; `Detail` is what opening one
would show now. The log grows in between (`Log`), and all three see only its
last `Window` lines (`Recent`). A line is its time stamp, or nothing. Stamps of the
log do not decrease; the code compares them as strings, which for stamps of one
format is the same.

### TradingDay

The bot writes its log, its ledger and its state (`LogLine`, `TellCloses`,
`RecordClose`), time passes from Friday to Monday. Everything else is the
computations of `aggregators/` and `market.py` over these: both market clocks, both
lists of missed crons, the claimed closes and those of the ledger. A line is
stamped with the local time of the bot's host, which the summary takes for UTC:
`ReadAs` is the stamp as it is read, `Behind` by how much it is wrong. A line may be
written a tick after it was stamped, so that those of two crons change places.
`balance` is history.

## 4. The runs

| Run | Expected | States | Question and answer |
|---|---|---|---|
| `install_safety` | pass | 1,420,000 | Two installs with every kind of line, a failing write and two deaths: do the files stay consistent, is an id run at most once, and do the files implement the contract? Yes. |
| `install_streams` | pass | 226,000 | One client and one install over a failing write and two deaths: is the client sent every event once and in order, told the recorded outcome, told of no failure that a live runner would correct, and do streams and runs end? Yes. |
| `killswitch` | pass | 479,000 | Five presses of either button, any failure, two deaths: can the pre-engage modes be put back, are they put back exactly, and does no strategy kept in dry_run go live, unless one of the four losses has come over the snapshot? Yes. |
| `crontab` | pass | 18,500 | Four requests in a row, each with up to one failure: are other lines untouched, is a request all or nothing, is "ok" true, does resume undo pause? Yes. |
| `install_no_startup` | violation | | Finding 1. |
| `install_oversize_line` | violation | | Finding 2. |
| `killswitch_double_disengage` | violation | | Finding 3. |
| `killswitch_retry_after_crash` | violation | | Finding 4. |
| `crontab_overlap` | violation | | Finding 5. |
| `requests` | pass | 4,880,000 | Two requests at a time for edits (also beside the kill switch), for scans and closes, for allocations, and readers of the cache: is no answer of the cache older than its TTL, is a confirmed write read, does the audit log tell the file, are operators told the truth and is a position ordered closed once, is an allocation answered "ok" current? Yes. |
| `config_overlap` | violation | | Finding 6. |
| `views` | pass | 1,410,000 | Is every client sent snapshots in order and never left out, has every day one row and do gains add up, is no byte of a log skipped, is a session opened the one listed, do the parts of the summary agree? Yes. |

`MCRequests` and `MCViews` compose modules that share no state but the cache. Of
two such modules every interleaving is the same two behaviours shuffled, so a
behaviour of the run picks one of them (`part`) and the others rest; what one
does to the cache of another is `ClearedByOthers`. `MCRequests` has two parts for
each module: several requests with nobody reading, and readers with time and one
request.

Every property of a passing run has a mutant of the code that breaks it; the
mutated operators stand before the ones they replace, and are used by nothing.

Bounds, and why they suffice:

- Two installs are enough for interference, which exists only through the event
  loop (`LoopFree`) and the process; the streams run takes one, because a stream
  reads one install. Two lines each give a pipe that follows another and a line
  after a STATUS line; the third in the streams run lets a client be more than
  one event behind.
- `Budget` and `KillGrace` are ticks: 1 and 1 make time-out and output race. The
  streams run takes 2, 1 and `StreamCap` 4, the least values that satisfy
  600 s + 5 s < 660 s as `StreamAssumption` states it.
- Two deaths allow a death during the clean-up that follows the first. One write
  that fails (`MaxFaults`) is enough for every state a failure leaves: a part of a
  line is followed by a whole one, and a task that has ended is not started again.
- Two strategies give the kill switch a partial result; one starts live, the
  other live, in dry_run, or without a readable mode. Five presses allow an
  engage, a repeated engage and a disengage that takes three attempts.
- The crontab has IC, whose names begin Wheel's (the prefix case), a line naming
  both directories, a comment by hand, and a line of nobody's. Four requests
  cover pause, pause, resume, uninstall, on two strategies.

- The cache has a TTL of 2 ticks, so that an entry can be fresh at an age that is
  not 0, and two readers, one of which may store after the other and after a
  clearing. Four versions let an entry be two writes behind. Two clients edit two
  paths, three times; two operators act twice on one position; two callers run
  the allocation three times over two changes of the inputs, within a window of
  two ticks that a run can outlast. Beside the kill switch there are two edits.
- Three peers let one stall, one be lost and one connect during a broadcast; the
  third moment is needed for a snapshot older than one that is older already.
- Two bots make a batch that can break in the middle, two deaths (or failures) a
  torn line that the next append meets. Three days, of 24, 23 and 25 hours, give a
  row, a gap and a row; the totals are 0, 3 or null, in four combinations.
- A chunk of 2 bytes and 4 bytes of log, each of any kind, make the chunk begin
  within a line, at its start, and at the file's, and end in each separator; the
  log is rotated once.
- Five lines of log, of which four are seen, in gaps of 1 and 3 ticks (3 opens a
  session), and pages of one session.
- A day of 8 ticks with the market open from 2 to 6 and crons at 2 and 4; 29 ticks
  go from Friday's midnight past Monday's opening.

Where deadlock is not checked (`CHECK_DEADLOCK FALSE`), the bound on presses,
requests, time or lines lets the system come to rest; `install_safety` checks it.

Preconditions of passing runs, each a fact about the code:

- `killswitch` runs with one handler: one press at a time. Two at once fail like
  finding 4. Nothing else is asked of the operator, and every fault is in `Fault`.
  `Recoverable`, `RestoredExactly` and `DryRunStays` except an engage over which a
  loss has come (`lost`, section 3): there the code does not keep them, which
  `AlwaysRecoverable` and finding 4 show for one of the four. `DryRunStays` holds
  even of an overwritten snapshot, since strategies already in dry_run are what
  it is overwritten with. That a disengage without any engage in force turns
  everything live, as the code documents and tests, is not a loss: `force` is
  not "on" then.
- `FinishedIsAnnounced` excepts an install whose own run did not go through to its
  end, after a death or a failed write (`CutOff`); `EveryRunIsDecided` one whose
  task a failed write has ended, which stays in flight until the next start.
  The cap of its stream may then say "failed" of an install that has succeeded.
- `crontab` runs with one handler (finding 5 is two) and one failure per request.
  Two failures in one request can lose the table: an unlistable crontab is backed
  up as an empty file, which a failed check then restores. `"listing"` is not in
  its `Fault`, because a listing that fails with no output is answered "ok" by
  the code, which is then not true. Both are hazards at their lines.

- `TrailTellsTheFile` says nothing of a path whose last change has no entry (the
  client was answered with an error) or that two commits, or a commit and the
  kill switch, got in each other's way on; finding 6 is the second case, with
  nothing failing. That a commit which overlaps an engage can in turn put `mode`
  back is outside it: `mode` is no path of an edit.
- `ToldTheTruth` takes "completed" for the position only if something was ordered,
  and a preview's 404 only if `state.json` could be read: neither answer tells the
  operator of the other case.
- `OrderedOnce` excepts closes that overlapped, and closes after an answer that
  leaves the order's outcome open ("timeout", "failed", "partial_fill").
- `OkIsCurrent` asks for the overrides only of a run that respected them, and
  excepts runs that computed at the same time: the lock is written
  only when a run is done, so nothing keeps them apart. It excepts a run that
  the command line skipped because another ended within the window (`"skipped"`):
  POST /total-pool passes the window too, and if a skipped run exits with 0, which
  this repository does not say, its caller reads "ok" of the old allocation.
- `ReadYourWrites` excepts a load that was done and not yet stored when the cache
  was cleared: that reader stores, and for less than the TTL serves, the old
  value. `BoundedStaleness` has no exception.
- `OneRowPerDay` lets a past day be without a row if it is in `missed`: the server
  was down or backing off at its end, or a write of it failed or was swallowed
  by a broken line; or if it has 23 hours, when the code takes the snapshot at
  00:59 of the day after (section 5). It lets a day have two rows if a look at the
  file broke off on it. That the row is of 23:59 is not claimed: a boot earlier
  in the day takes its place.
- `NothingSkipped` ends with a rotation since the client's last initial load: the
  code knows a rotation only by a file smaller than the cursor. It ends too with a
  poll whose bytes end in a separator that is not a newline (`cutShort`), after
  which the cursor is inside a line that was not shown. That bytes are not shown
  twice, and that a cursor below zero lets a later poll succeed, does not hold and
  is not claimed.
- `PagesAgree` compares the page with the log only if the hosts' clocks show UTC
  (`Behind = 0`, as in the run); that the page agrees with itself is proved for any
  `Behind`. A line at the last instant of a cron's window may be lost to another
  of its minute. What is before the opening of the day asked for is not shown at
  all, also before the opening (section 5).

Fairness: the event loop runs each task that is ready, so every step of
`Supervise`, `AppendEvent`, `SweepInstall`, and every generator step is weakly
fair; time passes; a subprocess that was sent SIGKILL or closed its pipes exits;
systemd restarts the server (`Restart=always`). The broadcast loop runs on,
an endpoint notices that its peer is lost, and a peer that stops draining its
buffer drains it or is lost (`Resume`), because uvicorn closes a connection whose
pings go unanswered. A tick that cannot build its snapshot is logged and changes
nothing (`ws.py:123-126`); not every tick fails so. Nothing else is assumed of
clients, nor of what deploy.sh prints. A kill-switch thread runs on, because each
shim has a time-out. The exit of a subprocess that has closed both its pipes is an
assumption that the code does not enforce (`install_runner.py:460` waits without
a limit); it is listed as a hazard.

## 5. Findings

1. The clean-up of in-flight installs is registered where it is never called:
   `app.py:118` uses `on_event("startup")`, `app.py:78` passes a lifespan.
2. A line over 64 KiB raises `ValueError` out of `readline`, which
   `install_runner.py:234` does not catch: the install stays running for good.
3. Disengage twice: the first deletes the snapshot, and the second, finding none,
   makes strategies live that were kept in dry_run.
4. A death of the server between the first flip and the system audit entry, then
   engage again: the snapshot is replaced by half-flipped modes.
5. Overlapping crontab requests: the later write takes back the earlier.
6. Overlapping config edits of one strategy, of different paths: both are answered
   as committed and recorded as a success, and the first is not in the file.
7. Two docstrings have a daily figure null whenever the total before it is; the
   code, a comment in it and a test have it counted from the last total there
   was. `DeltasTelescope` of `views` is why the code is right: the documented figure
   loses a gain at every null total (mutant `BaselineRowBefore`).

The quotes and lines are in `PROJECT.json`.

Further differences between the code and what is said of it are exceptions in
properties. The models do reach them: TLC finds each if the exception is taken
out.

- `routes/system.py:352-357` promises "safety for the 5 baseline-dry_run strategies".
  After a disengage that restores everything and cannot append its audit entry
  (line 541), the next engage takes no snapshot (line 386) and the disengage after
  it turns strategies live that were in dry_run (`DryRunStays` without `lost`).
- `app.py:27` says one snapshot per day. On the day the clocks go forward the sleep,
  a difference of times on the wall (lines 46-48), ends at 00:59 of the next, and
  the day gets no row (`OneRowPerDay` without `Short`).
- `logs.py:184-185` says a partial line "re-ships fully next time". If what was read
  ends in a separator other than a newline, the length that the cursor goes back
  (line 187) is without it, and the line's first bytes are never shown
  (`NothingSkipped` without `cutShort`).
- `aggregators/daily_summary.py:383-384` says of hosts that are not on UTC that "callers
  should pre-convert". The one caller (line 183) does not, and `state_reader.py:121`
  takes the same stamps for New York time (`PagesAgree` with `Behind` other than 0).
- `aggregators/session.py:4-5` says "Pre-market displays prior session snapshot". All
  that the summary shows is filtered by the opening of the day asked for
  (`aggregators/daily_summary.py:126-131`), so before it nothing is shown (`InSession`).

## 6. What is proved

Every safety property of `install_safety` is proved for every set of installs,
every set of lines, every budget and any number of deaths, from
`InstallAssumption` alone (the types of the constants, a budget of at least one
tick).

A theorem is of a specification, such as `Spec`; unless a premise is named, it
holds for every value of the constants that the assumption of the module admits
(`InstallAssumption` and the like: types, and bounds of at least one where a
step needs one). Where a module's properties hold only under a premise of its
run (section 4), the theorem has that premise and no other.

`InstallLifecycleProofs`, first part:

- `TypeCorrect`: `Spec => []TypeOK`.
- `CompleteEventIsLast`: a complete event is the last and only one of its log.
- `TheFilesAgree`: a complete event carries the status that `state.json` holds.
- `RunAtMostOnce`: no id gets a second run.

The first is inductive by itself. The second and third are not: that nothing is
appended after a complete event depends on who may still write. The inductive
invariant `IInv` adds to `TypeOK`, per install: `PipesNeedARun` (a pipe is read
only during a run, or after a run that died of an oversize line),
`StatusFollowsTheRun` (from the spawn to its end a run is recorded as running, so
nobody reads a pipe of, or decides, an install that has an outcome),
`AbsentIsNotRun` (an id without a file has no task), `RecordedFirst` (a complete
event on its way carries the recorded status), `CompleteSeals` (after a complete
event the status is its status and nothing is on its way) and `NoTaskSurvives` (no
task outlives its process, so that the clean-up is the only writer while it
runs). `InvStep` shows, one action after the other, that a step preserves it.
`RunAtMostOnce` follows from `IInv` step by step.

Second part: `ImplementsContract`, `Spec => ContractHolds`. Under `IInv`
every step is a step of the contract or a stutter: `Post` accepts, `StartRunner`
runs, `Finish` and `SpawnFails` decide, `SweepInstall` abandons, and the append of
a complete event announces; every other step leaves both files, or what they say
of an outcome, as they were.

Third part: `TheLogTrails`, `OutcomesAreAnnounced` and `NothingIsOrphaned`,
by the invariant `LogInv`, which adds to `IInv` that the log is exactly one line
behind while that line is being mirrored and the run is on, and else by no more
than deaths and failed writes have cost (`Trails`), that what is not announced
was cut off (`Announces`), that an
install without a runner of this process is still to be swept (`Owed`), and that
before the first death the server has never been down (`FirstProcess`).
`NothingIsOrphaned` has the premise `StartupHandlersRun`: finding 1 is what
happens without it.

`StreamsProofs`, over any clients, of `SpecStreams`:

- `StreamsOnlyRead`: the streams change nothing of the installs, so that every
  theorem about `Spec` holds beside them.
- `StreamsTypeCorrect`, `EventsAreDeliveredInOrder`, `ClientsAreToldTheOutcome`.
  The invariant `StreamInv` adds to `IInv` that what a stream has sent is the log
  up to its position (`Sent`), that what a client was told, or would be told from
  the one status it read, is the outcome of the install (`Told`), and what each
  stage of a stream implies. That an outcome is final, a log only grows, and a
  complete event is its last are lemmas about the installs (`OutcomeIsFinal`,
  `LogGrows`, `BatchIsAll`).
- `TheCapIsLongEnough`. The invariant `CapInv` ties the two clocks: a tick that lets
  a tail poll once more also ages the run that it waits for, so that a run still
  supervised is at least as old as the polls are many (`Patient`), and a run that
  drains is within its budget (`Timely`), to which only the grace before SIGKILL
  is added. The cap lies beyond that by `StreamAssumption`, which is 600 s + 5 s < 660 s of the code.

`KillswitchProofs`:

- `TypeCorrect`, without premise.
- `EngagedMeansDry`, if presses do not overlap (`OneAtATime`). `PressInv` says what a
  press knows at each of its stages: what it has read is still so, and what it
  has visited is at its target.
- `WhatIsChangedIsRecoverable`, `DryRunIsNeverLive`, `DisengageRestores`, under the same
  premise alone: for any faults and whatever the operator presses. `ForceInv` says
  that while an engage is in force and nothing is lost the snapshot is the modes
  from before it, and that an overwritten one still has dry_run for what was in
  dry_run (`SnapshotKept`); that an engage which flips strategies is in force
  (`EngagesInForce`); and that a disengage aims at the modes of the snapshot
  (`AimsHome`).

`FilterProofs` proves what `Kept` does to lists: filtering twice, the members of a
filtered list, maps before and after a filter. This takes induction. The
induction theorems of the library take the hypothesis as an operator, which the
provers cannot instantiate; `InductionOverNat` and `InductionOverSeq` take it as a
set instead, and are derived from the well-foundedness of < over the numbers.

`CrontabProofs`, for any lines, packages and directories:

- `TypeCorrect` and lemmas about the transformations: other lines are kept
  (`TransformKeepsOthers`), lines in scope are as asked (`TransformIsEffective`).
- `EditsAreAllOrNothing`, `OtherLinesAreKept`, if requests do not overlap and meet
  one failure each (`OneFailure`). `EditInv`: until its write a request finds the
  table as it was, after it the table is the edited one or, if the write was the
  failure, still the old one; and what is restored is a good backup, because a
  request that restores has had its failure.
- `OkMeansDone`, if moreover a listing does not fail silently. `Answered` says that
  an "ok" holds until the next request.
- `OnlyPausedOrUninstalled`. `FaithfulInv`: over any sequence of requests the table,
  and the one that the request in progress found, differ from the first table
  only by strategies that were uninstalled and by pause marks. That these do not
  get in each other's way is `KeptOfMapped`: a map that moves no line in or out of
  a filter may come before or after it.

`ReadCacheProofs` proves nothing of a specification by itself: it defines
`CacheStep`, all that a module over `ReadCache` may do to the cache, and shows that
`CacheInv` is preserved by it and implies `BoundedStaleness` and `ReadYourWrites`
(lemmas `CacheInvStep`, `InvBoundsStaleness`, `InvReadsOwnWrites`). Neither
property is inductive: what an answer may show depends on the entry and on
loads in progress. `CacheInv` says that an entry, and what a reader is about to
store, was in the file at the time it is stamped with or later (`EntriesHold`,
`LoadsHold`), and is not older than what was promised.

`RequestsProofs` proves, for any numbers of clients, operators, callers and
readers, any TTL, window and faults, from `ReadCacheAssumption` and the
assumption of each module (types; a path exists):

- of `CommitSpec`: `TheTrailTellsTheFile`, `ConfigReadsAreFresh`,
  `CommittedEditsAreRead`. `CommitInv` adds `RecordingHolds`: while a commit is
  yet to be recorded, and its path is not tangled, the file holds its value.
- of `ManualSpec`: `ClosesOrderOnce`, `OperatorsAreToldTheTruth`,
  `StateReadsAreFresh`. `ManualInv` adds that a position never opens again in any
  later version (`NeverReopened`), what each stage of a close implies
  (`StagesHold`), what each answer implied and still does (`RepliesHold`), and
  that without doubt there is one close at a time with one order (`OneAtATime`).
- of `AllocSpec`: `AllocationsAreCurrent`, `AllocationsAreRead`. `AllocInv` adds that
  nothing is computed from inputs of the future (`ViewsArePast`) and that runs
  which did not overlap replace older views by newer ones (`RunsInTurn`).

Each module's steps are first shown to be `CacheStep`s, so that the cache is
argued about once.

`TypeCorrect` of `RequestsProofs` and of `ViewsProofs` is of the compositions that
`MCRequests` and `MCViews` run: the part that moves keeps its invariant, and what
rests keeps its types.

`ViewsProofs`:

- `SnapshotsComeInOrder`, by `WsInv`: a client still queued has been shown nothing
  newer than the frame on its way, which is what taking the list of clients and
  the snapshot together ensures.
- `NoByteIsSkipped`, by `TailInv`: the size a poll has taken is not past the end of
  a log that was not rotated. For any bytes, chunk and limit; how long a left-out
  line is counted to be only ever moves the cursor too far back, but for the case
  of `cutShort`.
- `OneRowForEachDay`, by `HistoryInv`: the rows are in the order of their dates, one
  at most for a strategy and date that no look has misread (`Chronicle`); a day that
  is over, is not in `missed` and is not short has all its rows, and today has
  them once the loop sleeps into tomorrow. Only a sleep until 23:59 of a short day
  ends too late. A torn append leaves some of the old rows and then some of the new
  ones (`RowsSpliced`), and costs only days that `Swallowed` names.
- `FiguresAddUp`. A daily figure is what was gained since the last row with a total
  (`GainIs`), so that sums telescope (`SumIs`, by induction over the rows): to the
  last total less the one before the window or, if there is none, the first.
- `SessionsAreWhatWasListed`, by `SessionsInv`: a session that was listed starts at a
  line which no line in view comes close to from before (`StartsAt`), its lines
  follow one another, and the sessions listed do not meet. It stays so because
  stamps do not decrease and lines only leave the window at its old end.
- `TheSummaryAgrees`, by `DayInv`: no line, close or time of modification is ahead
  of the clock, and `balance` is the closes of the ledger since the opening less
  those claimed (`Counted`). That a cron with a line in its window is never shown
  as missed, although only the first line of each minute is kept, needs that
  crons, opening and grace are whole minutes (`SameMinute`) and that the clocks
  show UTC. That the two market clocks open next at the same instant is by
  arithmetic over the days of a week (`NextWorkDayIs`, `ClocksAgree`).

Proving the types showed one bound too weak: with `MaxSize = 0` a first byte makes
a log larger than its bound, so `LogTailAssumption` now asks for at least one.

Only model-checked: liveness under fairness (`EveryRunIsDecided`,
`EveryStreamEnds`, `EveryPressEnds`, `ServedInTurn`), which is out of the prover's
reach, as ENABLED is.

## 7. Not modelled

- Tokens, configuration, the command line (`config.py`, `auth.py`, `cli.py`): one
  operator edits one file by hand, and every request reads it again. Tiger
  credentials and release manifests: one atomic replacement, and parsing.
  Logging, process start and the shell scripts hold no state of which the order
  of steps matters.
- What the strategy cards compute from the files they read (`state_reader.py`),
  and the texts and sums shown beside the figures of `aggregators/`: arithmetic
  over one read, with no state.
- Paging the audit log by `before_ts`: a filter with no state. (Entries whose stamp
  equals that of the last one of a page are not on the next.)
- The positions snapshot, which nothing in the application calls, and so the
  endpoints that read the file it would write. The detector of ledger against
  state: `daily_summary.py` imports it and does not call it.
- Whether the body of an orchestrator request is valid (sums, caps): a request
  here is one that was let in. Which paths a strategy's shim allows, and their
  bounds: the constant `Valid`.
- Authentication before each handler, HTTP validation and the rate of requests:
  a request here is one that was let in.
- The names of backup files (two backups in one second share a name) and the
  sweep of backups older than 30 days.
- Writers other than the server and its shims: a strategy that rewrites its yaml,
  a user in `crontab -e`. The crontab's overlapping run is what such a user does.
- Torn writes, but for `daily-pnl.jsonl` and, when an append fails, `events.jsonl`:
  `state.json` and `strategy.yaml` are replaced atomically by the code; a line of
  `events.jsonl` that a death cuts short, or of the audit log, is taken to be whole
  or absent.
