------------------------------ MODULE MCViews -------------------------------
(* The five modules of what clients are shown, in one run. They share no   *)
(* state: the parts of a behaviour's module move and the others rest.      *)
EXTENDS Broadcast, DailyHistory, LogTail, Sessions, TradingDay

VARIABLE part

vars == <<part, wsVars, historyVars, tailVars, sessionVars, dayVars>>

MCPnl == {0, 3}

(* Of two strategies each has each of its totals beside one of the other.  *)
MCTotals == {<<{}, {0}>>, <<{0}, {}>>, <<{0}, {3}>>, <<{3}, {0}>>}

Init ==
  /\ part \in {"stream", "history", "log", "sessions", "day"}
  /\ WsInit /\ HistoryInit /\ TailInit /\ SessionsInit /\ DayInit

Stream(A) ==
  /\ part = "stream" /\ A
  /\ UNCHANGED <<part, historyVars, tailVars, sessionVars, dayVars>>

Chart ==
  /\ part = "history" /\ HistoryNext
  /\ UNCHANGED <<part, wsVars, tailVars, sessionVars, dayVars>>

LogPage ==
  /\ part = "log" /\ TailNext
  /\ UNCHANGED <<part, wsVars, historyVars, sessionVars, dayVars>>

SessionPage ==
  /\ part = "sessions" /\ SessionsNext
  /\ UNCHANGED <<part, wsVars, historyVars, tailVars, dayVars>>

SummaryPage ==
  /\ part = "day" /\ DayNext
  /\ UNCHANGED <<part, wsVars, historyVars, tailVars, sessionVars>>

Next == Stream(WsNext) \/ Chart \/ LogPage \/ SessionPage \/ SummaryPage

(* WsFairness of the part that has fairness.                               *)
Fairness ==
  /\ WF_vars(Stream(BroadcastLoop))
  /\ \A c \in Peer :
       WF_vars(Stream(Disconnect(c))) /\ WF_vars(Stream(Resume(c)))

Spec == Init /\ [][Next]_vars /\ Fairness

(* The type invariants of the five modules. *)
TypeOK ==
  WsTypeOK /\ HistoryTypeOK /\ TailTypeOK /\ SessionsTypeOK /\ DayTypeOK
=============================================================================
