----------------------------- MODULE TradingDay -----------------------------
(***************************************************************************)
(* The daily summary of a bot (aggregators/): whether the market is open,  *)
(* which of the scheduled crons have run, what does not add up. Everything *)
(* is computed from the bot's cron.log, the ledger and the time of day,    *)
(* twice in places: the trading session by session.py and by market.py,    *)
(* the missing crons by daily_summary.py and by discrepancy_detector.py.   *)
(*                                                                         *)
(* Time is counted in ticks of New York time from the midnight before the  *)
(* first day. A line of the log keeps its time and the closes that its     *)
(* Telegram message claims. It is stamped with the bot's local time, which *)
(* the summary takes for UTC: so for the time less Behind.                 *)
(***************************************************************************)
EXTENDS Integers, Sequences, FiniteSets

CONSTANTS
  DayLength, Minute,
  Open, Close,  \* MARKET_OPEN_ET, MARKET_CLOSE_ET
  Schedule,     \* _CRON_SCHEDULE_ET, the times of day
  Grace,        \* CRON_GRACE_WINDOW
  StaleAfter,   \* STALE_STATE_THRESHOLD
  FirstWeekday, \* of day 0; 0 is Monday
  Behind,       \* UTC less the local time of the bots
  MaxInstant,   \* bound: time
  MaxLogged,    \* bound: lines of the log
  MaxCloses     \* bound: rows of the ledger

ASSUME TradingDayAssumption ==
  /\ {DayLength, Minute, Grace, StaleAfter} \subseteq Nat \ {0}
  /\ {Open, Close} \cup Schedule \subseteq Nat
  /\ 0 < Open /\ Open < Close /\ Close < DayLength
  /\ \A s \in Schedule : Open <= s /\ s + Grace < DayLength
  /\ \A s \in Schedule \cup {Open, Grace, DayLength} : s % Minute = 0
  /\ FirstWeekday \in 0..6
  /\ Behind \in Int
  /\ {MaxInstant, MaxLogged, MaxCloses} \subseteq Nat

VARIABLES
  instant, \* the time
  log,     \* cron.log
  ledger,  \* the times of the bot's close rows
  mtime,   \* when state.json was last written
  balance  \* history: closes less closes claimed, since the last opening

dayVars == <<instant, log, ledger, mtime, balance>>

Day == instant \div DayLength
Weekday(d) == (FirstWeekday + d) % 7
NextWorkDay(d) ==
  CHOOSE n \in (d + 1)..(d + 7) :
    Weekday(n) < 5 /\ \A k \in (d + 1)..(n - 1) : Weekday(k) >= 5

-----------------------------------------------------------------------------
(* session.compute_session. *)
SessionStart == Day * DayLength + Open
MarketOpen ==
  /\ Weekday(Day) < 5
  /\ SessionStart <= instant /\ instant < Day * DayLength + Close
NextOpen ==
  IF Weekday(Day) < 5 /\ instant < SessionStart THEN SessionStart
  ELSE NextWorkDay(Day) * DayLength + Open

(* market.get_market_status. *)
Reason ==
  CASE Weekday(Day) >= 5 -> "weekend"
    [] Weekday(Day) < 5 /\ instant % DayLength < Open -> "pre_market"
    [] Weekday(Day) < 5 /\ instant % DayLength >= Close -> "after_hours"
    [] OTHER -> "open"
NextOpenOfMarket ==
  IF Reason = "open" THEN instant
  ELSE IF Reason = "pre_market" THEN Day * DayLength + Open
  ELSE NextWorkDay(Day) * DayLength + Open

-----------------------------------------------------------------------------
InSession(at) == at >= SessionStart

(* When a line was written, as its stamp is read. *)
ReadAs(i) == log[i].at - Behind

(* Mutation: a line is dropped that is a minute or less after another. *)
FiresApart ==
  {ReadAs(i) : i \in {i \in DOMAIN log :
     /\ InSession(ReadAs(i))
     /\ \A j \in 1..(i - 1) :
          InSession(ReadAs(j)) => ReadAs(i) - ReadAs(j) > Minute}}

(* _parse_cron_fires: of every minute the line that is first in the file.  *)
Fires ==
  {ReadAs(i) : i \in {i \in DOMAIN log :
     /\ InSession(ReadAs(i))
     /\ \A j \in 1..(i - 1) :
          InSession(ReadAs(j)) =>
            ReadAs(j) \div Minute # ReadAs(i) \div Minute}}

Expected(s) == Day * DayLength + s
Ran(s) == \E f \in Fires : Expected(s) <= f /\ f <= Expected(s) + Grace

(* _compute_cron_status. *)
CronStatus(s) ==
  CASE Weekday(Day) >= 5 -> "n/a"
    [] Weekday(Day) < 5 /\ Ran(s) -> "ok"
    [] Weekday(Day) < 5 /\ ~Ran(s) /\ instant < Expected(s) + Grace -> "pending"
    [] OTHER -> "missed"

(* detect_missing_cron_run. *)
MissingCrons ==
  IF Weekday(Day) >= 5 THEN {}
  ELSE {s \in Schedule : instant >= Expected(s) + Grace /\ ~Ran(s)}

(* _parse_telegram_messages, the ledger and detect_telegram_close_mismatch. *)
(* A message that claims n closes is n claims.                             *)
Claims ==
  {c \in [line : DOMAIN log, nth : 1..2] :
     InSession(ReadAs(c.line)) /\ c.nth <= log[c.line].closed}
Claimed == Cardinality(Claims)
ClosesToday == Cardinality({i \in DOMAIN ledger : InSession(ledger[i])})
Mismatch == Claimed # ClosesToday

(* detect_stale_state. *)
StaleState == MarketOpen /\ instant - mtime > StaleAfter

-----------------------------------------------------------------------------
(* The bot, on weekdays. A line is written a little after it was stamped,  *)
(* so that the lines of two crons may be in the file in another order.     *)
LogLine(delay) ==
  /\ Len(log) < MaxLogged
  /\ instant % DayLength >= delay
  /\ log' = Append(log, [at |-> instant - delay, closed |-> 0])
  /\ mtime' = instant
  /\ UNCHANGED <<instant, ledger, balance>>

TellCloses(n) ==
  /\ Len(log) < MaxLogged
  /\ log' = Append(log, [at |-> instant, closed |-> n])
  /\ mtime' = instant
  /\ balance' = balance - n
  /\ UNCHANGED <<instant, ledger>>

RecordClose ==
  /\ Len(ledger) < MaxCloses
  /\ ledger' = Append(ledger, instant)
  /\ balance' = balance + 1
  /\ UNCHANGED <<instant, log, mtime>>

BotWrites == \E delay \in {0, 1} : LogLine(delay)
       \/ (\E n \in {1, 2} : TellCloses(n)) \/ RecordClose

PassInstant ==
  /\ instant < MaxInstant
  /\ instant' = instant + 1
  /\ balance' = IF instant' % DayLength = Open THEN 0 ELSE balance
  /\ UNCHANGED <<log, ledger, mtime>>

DayInit ==
  /\ instant = 0
  /\ log = <<>> /\ ledger = <<>>
  /\ mtime = 0
  /\ balance = 0

DayNext == (Weekday(Day) < 5 /\ BotWrites) \/ PassInstant

DaySpec == DayInit /\ [][DayNext]_dayVars

DayTypeOK ==
  /\ instant \in 0..MaxInstant
  /\ log \in Seq([at : 0..MaxInstant, closed : 0..2])
  /\ ledger \in Seq(0..MaxInstant)
  /\ mtime \in 0..instant
  /\ balance \in (-2 * MaxLogged)..MaxCloses

-----------------------------------------------------------------------------
(* The lines of a cron's window. *)
LinesOf(s) ==
  {log[i].at : i \in DOMAIN log} \cap (Expected(s)..(Expected(s) + Grace))

(* The parts of the page agree with each other. Both market clocks say the *)
(* same, and the opening they announce is the next one. A cron is shown as *)
(* missed exactly when it is reported as missing, and never on a weekend.  *)
(* If the bots' clocks show UTC the page agrees with what happened too: a  *)
(* cron that is missed has no line in its window, unless it is one of the  *)
(* window's last instant (another line of that minute may come before it), *)
(* one that ran has, lines of the same minute being dropped or not; and    *)
(* the closes are reported as not adding up exactly when the bot has       *)
(* claimed more or less of them than it made since the opening.            *)
PagesAgree ==
  /\ MarketOpen <=> Reason = "open"
  /\ ~MarketOpen => NextOpen = NextOpenOfMarket
  /\ ~MarketOpen =>
       /\ instant < NextOpen /\ Weekday(NextOpen \div DayLength) < 5
       /\ \A t \in (instant + 1)..(NextOpen - 1) :
            t % DayLength = Open => Weekday(t \div DayLength) >= 5
  /\ \A s \in Schedule : CronStatus(s) = "missed" <=> s \in MissingCrons
  /\ Weekday(Day) >= 5 => ~StaleState /\ MissingCrons = {}
  /\ Behind = 0 =>
       /\ \A s \in Schedule :
            /\ CronStatus(s) = "missed" =>
                 /\ instant >= Expected(s) + Grace
                 /\ LinesOf(s) \subseteq {Expected(s) + Grace}
            /\ CronStatus(s) = "ok" => LinesOf(s) # {}
       /\ Mismatch <=> InSession(instant) /\ balance # 0
=============================================================================
