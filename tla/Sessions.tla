------------------------------ MODULE Sessions ------------------------------
(***************************************************************************)
(* The run history of a strategy (session_extractor.py): the lines of its  *)
(* log are grouped into sessions, a new one wherever the time stamps are   *)
(* Gap or more apart. A page of the list, the next page and the lines of   *)
(* one session are requests of their own; each reads the end of the log    *)
(* from scratch, and the strategy goes on writing in between. A line is    *)
(* the set of its time stamp, empty for a line without one (a traceback).  *)
(***************************************************************************)
EXTENDS Integers, Sequences, FiniteSets

CONSTANTS
  Gap,       \* DEFAULT_GAP_SEC, in ticks
  Window,    \* lines that read_recent_parsed_lines returns
  PageSize,  \* the limit the client asks for
  MaxLines,  \* bound: lines of the log
  MaxClock   \* bound: time

ASSUME SessionsAssumption ==
  /\ {Gap, Window, PageSize} \subseteq Nat \ {0}
  /\ MaxLines \in Nat /\ MaxClock \in Nat \ {0}

VARIABLES
  written,  \* the lines of the log
  time,     \* the time the strategy logs with
  listed    \* the sessions the client has been given, page after page

sessionVars == <<written, time, listed>>

-----------------------------------------------------------------------------
(* read_recent_parsed_lines. *)
Recent == {i \in DOMAIN written : i > Len(written) - Window}

Stamped == {i \in Recent : written[i] # {}}
Stamp(i) == CHOOSE t \in written[i] : TRUE
LastOf(S) == CHOOSE i \in S : \A j \in S : j <= i
FirstOf(S) == CHOOSE i \in S : \A j \in S : j >= i

(* The stamped lines up to a line; it belongs to the last of them. *)
Headers(i) == {j \in Stamped : j <= i}

(* extract_sessions: the lines that open one. *)
Opens(i) ==
  /\ i \in Stamped
  /\ LET before == Headers(i - 1)
     IN  before = {} \/ Stamp(i) - Stamp(LastOf(before)) >= Gap

(* The lines of the session that line i opens. *)
Bucket(i) == {k \in Recent : i <= k /\ \A j \in (i + 1)..k : ~Opens(j)}

(* _summarize, with the lines themselves. *)
Summary(bucket) ==
  [start |-> Stamp(FirstOf(bucket \cap Stamped)),
   end   |-> Stamp(LastOf(bucket \cap Stamped)),
   lines |-> bucket]

Summaries == {Summary(Bucket(i)) : i \in {i \in Recent : Opens(i)}}

(* A page: the newest sessions of those that start before. *)
Page(before) ==
  LET older == {s \in Summaries : s.start < before}
  IN  {s \in older : Cardinality({t \in older : t.start > s.start}) < PageSize}

(* Mutation: the end of the range is not part of it. *)
InRangeHalfOpen(t, start, end) == start <= t /\ t < end

InRange(t, start, end) == start <= t /\ t <= end

(* extract_session_detail. *)
Detail(start, end) ==
  {k \in Recent :
     Headers(k) # {} /\ InRange(Stamp(LastOf(Headers(k))), start, end)}

-----------------------------------------------------------------------------
(* GET /strategies/{id}/history/sessions, from the newest session and on. *)
List ==
  /\ listed = {}
  /\ listed' = Page(time + 1)
  /\ UNCHANGED <<written, time>>

ListMore ==
  /\ \E oldest \in listed :
       /\ \A s \in listed : oldest.start <= s.start
       /\ listed' = listed \cup Page(oldest.start)
  /\ UNCHANGED <<written, time>>

Log(line) ==
  /\ Len(written) < MaxLines
  /\ written' = Append(written, line)
  /\ UNCHANGED <<time, listed>>

PassTime(d) ==
  /\ time + d <= MaxClock
  /\ time' = time + d
  /\ UNCHANGED <<written, listed>>

SessionsInit == written = <<>> /\ time = 1 /\ listed = {}

SessionsNext ==
  \/ List \/ ListMore
  \/ Log({time}) \/ Log({})
  \/ \E d \in {1, Gap} : PassTime(d)

SessionsSpec == SessionsInit /\ [][SessionsNext]_sessionVars

SessionsTypeOK ==
  /\ written \in Seq({{}} \cup {{t} : t \in 1..MaxClock})
  /\ Len(written) <= MaxLines
  /\ time \in 1..MaxClock
  /\ \A s \in listed : {s.start, s.end} \subseteq 1..MaxClock

-----------------------------------------------------------------------------
(* What the list shows of a session is what opening it shows, though the   *)
(* strategy has written on since and the oldest lines have left the view:  *)
(* all its lines that are still there (but for what hung on a line that is *)
(* not), tracebacks at its end included, and no line of another session    *)
(* that is listed. And the pages fit together: no line is in two sessions, *)
(* and no session between two listed ones is left out.                     *)
DetailIsTheSession ==
  /\ \A s \in listed :
       LET shown == Detail(s.start, s.end) IN
       /\ {k \in s.lines : k \in Recent /\ Headers(k) # {}} \subseteq shown
       /\ \A t \in listed \ {s} : shown \cap t.lines = {}
  /\ \A s, t \in listed : s # t => s.lines \cap t.lines = {}
  /\ \A s, t \in listed, u \in Summaries :
       s.start < u.start /\ u.start < t.start =>
         \E v \in listed : u.lines \cap v.lines # {}
=============================================================================
