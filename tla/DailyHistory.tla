---------------------------- MODULE DailyHistory ----------------------------
(***************************************************************************)
(* daily-pnl.jsonl: app._snapshot_loop appends one row per strategy and    *)
(* day (snapshot_writer.take_daily_snapshot) when the server boots and at  *)
(* 23:59; history_reader and state_reader compute from it what the chart   *)
(* and the tiles show. The rows of one call are appended in one write, in  *)
(* which the server may die; the next append then continues the broken     *)
(* line. The loop sleeps for the difference of two times of one time zone, *)
(* which datetime takes of what the clocks on the wall show: a sleep over  *)
(* a change of the clocks ends an hour late or early.                      *)
(*                                                                         *)
(* Of a row only its strategy, its date and its cumulative P&L are kept,   *)
(* the last as a set that is empty for null. Of the time of day it is kept *)
(* whether the hour at which clocks are changed has come, and 23:59.       *)
(***************************************************************************)
EXTENDS Integers, Sequences, FiniteSets, FiniteSetsExt, Filter

CONSTANTS
  Bot,       \* the strategies of STRATEGY_REGISTRY, each with its place
  Pnl,       \* what total_realized_pnl may be
  Totals,    \* bound: what the totals of the strategies are at a moment
  Short,     \* days of 23 hours: the clocks go forward in the night
  Long,      \* days of 25 hours
  MaxDay,    \* bound: days
  MaxDeaths  \* bound: deaths of the server, failing reads and writes

Row == [bot : Bot, date : 0..MaxDay, total : {{}} \cup {{n} : n \in Pnl}]

ASSUME DailyHistoryAssumption ==
  /\ IsFiniteSet(Bot) /\ Bot = 1..Cardinality(Bot)
  /\ Pnl \subseteq Int
  /\ Totals \subseteq [Bot -> {{}} \cup {{n} : n \in Pnl}]
  /\ Short \subseteq Nat /\ Long \subseteq Nat /\ Short \cap Long = {}
  /\ MaxDay \in Nat /\ MaxDeaths \in Nat

VARIABLES
  day,     \* the date
  hour,    \* 0, 1 once clocks would have been changed, 2 from 23:59 on
  rows,    \* the lines of the file that parse, in order
  end,     \* the end of the file: "whole", "torn", or "bare" (no newline)
  sched,   \* _snapshot_loop: "boot", "asleep", "backoff" or "down"
  due,     \* the date of the 23:59 it sleeps until
  off,     \* the hours by which that sleep ends too late
  deaths,
  missed,  \* history: days whose snapshot something got in the way of
  misread  \* history: days on which a look at the file failed halfway

clock == <<day, hour>>
historyVars == <<clock, rows, end, sched, due, off, deaths, missed, misread>>

-----------------------------------------------------------------------------
(* Mutation: a row that is there already is written again. *)
AlreadyForgotten(d, upto) == {}

(* _already_snapshotted_today, as far as it could read the file. *)
Already(d, upto) ==
  {rows[i].bot : i \in {i \in DOMAIN rows : i <= upto /\ rows[i].date = d}}

(* The rows that take_daily_snapshot writes: one for each strategy that it  *)
(* has found none of, in the order of the registry, with the totals of the  *)
(* moment.                                                                  *)
Batch(totals, upto) ==
  LET todo == Kept([b \in Bot |-> b], Bot \ Already(day, upto))
  IN  [i \in DOMAIN todo |->
         [bot |-> todo[i], date |-> day, total |-> totals[todo[i]]]]

(* Rows appended after what there is: the first one ends up on the broken  *)
(* line, where neither it nor a row that only lacked its newline parses.   *)
Appended(batch) ==
  IF end = "whole" \/ batch = <<>> THEN rows \o batch
  ELSE (IF end = "bare" THEN SubSeq(rows, 1, Len(rows) - 1) ELSE rows)
         \o Tail(batch)

(* The dates of the rows that an append costs. *)
Swallowed(batch) ==
  IF end = "whole" \/ batch = <<>> THEN {}
  ELSE {day} \cup {rows[i].date : i \in {i \in {Len(rows)} : end = "bare"}}

Late == hour = 2

(* Mutation: the next 23:59 is two days ahead once it is 23:59. *)
Next2359TwoDays == IF Late THEN day + 2 ELSE day

(* _next_snapshot_time. *)
Next2359 == IF Late THEN day + 1 ELSE day

(* The sleep that begins now and is to end at the next 23:59. Over a change *)
(* to summer time it ends at 00:59 of the day after, over one back at 22:59 *)
(* of the day itself.                                                       *)
OffBy ==
  IF Next2359 = day /\ hour > 0 THEN 0
  ELSE IF Next2359 \in Short THEN 1
  ELSE IF Next2359 \in Long THEN -1
  ELSE 0

SleepOn == sched' = "asleep" /\ due' = Next2359 /\ off' = OffBy

Due ==
  \/ day > due
  \/ day = due /\ ((off = 0 /\ Late) \/ (off = -1 /\ hour > 0))
Takes == sched = "boot" \/ (sched = "asleep" /\ Due)

-----------------------------------------------------------------------------
(* The file is read: an error on the way is logged, and only what was read  *)
(* before it counts.                                                        *)
Look(upto) ==
  /\ upto \in 0..Len(rows)
  /\ misread' = IF upto < Len(rows) THEN misread \cup {day} ELSE misread

Spent(upto) == IF upto < Len(rows) THEN 1 ELSE 0

Take(totals, upto) ==
  /\ Takes
  /\ Look(upto)
  /\ deaths + Spent(upto) <= MaxDeaths
  /\ deaths' = deaths + Spent(upto)
  /\ LET batch == Batch(totals, upto) IN
       /\ rows' = Appended(batch)
       /\ end' = IF batch = <<>> THEN end ELSE "whole"
       /\ missed' = missed \cup Swallowed(batch)
  /\ SleepOn
  /\ UNCHANGED clock

(* A take that raises: at boot the seed is given up, later the loop waits  *)
(* for 60 s, after which it is the next day if it was 23:59.               *)
GiveUp ==
  IF sched = "boot" THEN SleepOn
  ELSE sched' = "backoff" /\ UNCHANGED <<due, off>>

(* The write breaks off after some of the rows, when the server dies or a  *)
(* write raises (a full disk).                                             *)
BreakOff(totals, upto, n, broken) ==
  /\ Takes
  /\ Look(upto)
  /\ deaths + Spent(upto) < MaxDeaths
  /\ deaths' = deaths + Spent(upto) + 1
  /\ LET batch == Batch(totals, upto)
         kept == SubSeq(batch, 1, n)
     IN  /\ n <= Len(batch)
         /\ broken = "bare" => n > (IF end = "whole" THEN 0 ELSE 1)
         /\ broken = "torn" => n < Len(batch)
         /\ broken = "whole" => n > 0 \/ end = "whole"
         /\ rows' = IF broken = "torn" /\ n = 0 /\ end = "bare"
                    THEN SubSeq(rows, 1, Len(rows) - 1)
                    ELSE Appended(kept)
         /\ missed' = missed \cup {day} \cup Swallowed(batch)
  /\ end' = broken
  /\ (sched' = "down" /\ UNCHANGED <<due, off>>) \/ GiveUp
  /\ UNCHANGED clock

(* The take raises before anything is written. *)
TakeFails ==
  /\ Takes
  /\ deaths < MaxDeaths
  /\ deaths' = deaths + 1
  /\ GiveUp
  /\ missed' = missed \cup {day}
  /\ UNCHANGED <<clock, rows, end, misread>>

BackedOff ==
  /\ sched = "backoff" /\ ~Late
  /\ SleepOn
  /\ UNCHANGED <<clock, rows, end, deaths, missed, misread>>

(* A death at any other time, and a restart. *)
Stop ==
  /\ sched # "down"
  /\ deaths < MaxDeaths
  /\ deaths' = deaths + 1
  /\ sched' = "down"
  /\ UNCHANGED <<clock, rows, end, due, off, missed, misread>>

Boot ==
  /\ sched = "down"
  /\ sched' = "boot"
  /\ UNCHANGED <<clock, rows, end, due, off, deaths, missed, misread>>

(* The hour of the change, 23:59, and midnight. The loop is not held up    *)
(* for all of a minute, so a sleep that is over at 23:59 takes its         *)
(* snapshot before midnight, and one that is over an hour later or earlier *)
(* takes it within that hour.                                              *)
HourPasses ==
  /\ ~Late /\ ~Takes /\ sched \in {"asleep", "down"}
  /\ hour' = hour + 1
  /\ UNCHANGED <<day, rows, end, sched, due, off, deaths, missed, misread>>

Midnight ==
  /\ Late /\ ~Takes
  /\ day < MaxDay
  /\ day' = day + 1
  /\ hour' = 0
  /\ missed' = IF sched = "asleep" THEN missed ELSE missed \cup {day}
  /\ UNCHANGED <<rows, end, sched, due, off, deaths, misread>>

-----------------------------------------------------------------------------
HistoryInit ==
  /\ day = 0 /\ hour = 0
  /\ rows = <<>>
  /\ end = "whole"
  /\ sched = "boot"
  /\ due = 0 /\ off = 0
  /\ deaths = 0
  /\ missed = {} /\ misread = {}

Snapshot(totals, upto) ==
  \/ Take(totals, upto)
  \/ \E n \in 0..Cardinality(Bot), broken \in {"whole", "torn", "bare"} :
       BreakOff(totals, upto, n, broken)

HistoryNext ==
  \/ /\ Takes
     /\ \E totals \in Totals, upto \in 0..Len(rows) : Snapshot(totals, upto)
  \/ TakeFails \/ BackedOff \/ Stop \/ Boot
  \/ HourPasses \/ Midnight

HistorySpec == HistoryInit /\ [][HistoryNext]_historyVars

HistoryTypeOK ==
  /\ day \in 0..MaxDay
  /\ hour \in 0..2
  /\ rows \in Seq(Row)
  /\ end \in {"whole", "torn", "bare"}
  /\ sched \in {"boot", "asleep", "backoff", "down"}
  /\ due \in 0..(MaxDay + 1)
  /\ off \in -1..1
  /\ deaths \in 0..MaxDeaths
  /\ missed \in SUBSET (0..MaxDay)
  /\ misread \in SUBSET (0..MaxDay)

-----------------------------------------------------------------------------
(* read_pnl_entries: the rows of a strategy since a date. They are sorted  *)
(* by date, as the file is already.                                        *)
Entries(b, since) ==
  Kept(rows, {r \in Row : r.bot = b /\ r.date >= since})

(* Mutation: the row before is the baseline, null or not. *)
BaselineRowBefore(e, i) == {j \in {i - 1} : j > 0 /\ e[j].total # {}}

(* The last row before i that has a total. *)
Baseline(e, i) ==
  LET earlier == {j \in 1..(i - 1) : e[j].total # {}}
  IN  {j \in earlier : \A k \in earlier : k <= j}

Delta(e, i) ==
  {n - m : n \in e[i].total, m \in UNION {e[j].total : j \in Baseline(e, i)}}

(* The daily figures of the rows from i on, null ones left out. *)
Gain(e, k) == IF Delta(e, k) = {} THEN 0 ELSE CHOOSE n \in Delta(e, k) : TRUE
SumOf(i, e) ==
  LET sum[k \in (i - 1)..Len(e)] ==
        IF k = i - 1 THEN 0 ELSE sum[k - 1] + Gain(e, k)
  IN  sum[Len(e)]

RowsOf(b, d) == {i \in DOMAIN rows : rows[i].bot = b /\ rows[i].date = d}

(* However the server restarts, a strategy has at most one row for each    *)
(* day on which every look at the file read all of it, and one for each    *)
(* past day of 24 or 25 hours on which the server did not die in the       *)
(* write, was up at midnight and had no row swallowed by a broken line.    *)
OneRowPerDay ==
  \A b \in Bot, d \in 0..day :
    /\ d \notin misread => Cardinality(RowsOf(b, d)) <= 1
    /\ d < day /\ d \notin missed \cup Short => RowsOf(b, d) # {}

(* The daily figures of any number of last rows, as the chart and the 7-   *)
(* and 30-row tiles add them up, sum to what was gained over them: days    *)
(* without a row and totals that are null neither lose nor repeat a gain.  *)
(* The docstrings of read_pnl_entries and get_pnl_history have a null      *)
(* figure after a null total, which would lose one; a comment in the code, *)
(* and a test, have the figure counted from the last total there was.      *)
DeltasTelescope ==
  \A b \in Bot, since \in 0..MaxDay :
    LET e == Entries(b, since)
        Known(S) == {i \in S : e[i].total # {}}
    IN  \A i \in DOMAIN e :
          LET window == Known(i..Len(e))
              before == Known(1..(i - 1))
              first  == IF before # {} THEN Max(before) ELSE Min(window)
          IN  window # {} =>
                e[Max(window)].total =
                  {n + SumOf(i, e) : n \in e[first].total}
=============================================================================
