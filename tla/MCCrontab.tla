----------------------------- MODULE MCCrontab -----------------------------
(* IC, whose names begin those of Wheel; a line of each of them, a line    *)
(* that names both directories, one the user has commented out, and one    *)
(* that is no strategy's.                                                  *)
EXTENDS Crontab

CONSTANTS ic, wheel, both, note, other

MCStrategy == {ic, wheel}
MCJob == {ic, wheel, both, note, other}

MCDirs == [j \in MCJob |->
  CASE j \in {ic, note} -> {ic}
    [] j = wheel -> {wheel}
    [] j = both -> {ic, wheel}
    [] j = other -> {}]

MCPackage == [j \in MCJob |->
  CASE j \in {ic, note} -> ic
    [] j \in {wheel, both} -> wheel
    [] j = other -> "other"]

MCExtending == [s \in MCStrategy |-> IF s = ic THEN {ic, wheel} ELSE {s}]

Job1(j, m) == [job |-> j, mark |-> m]

MCInitialTables == {
  <<Job1(ic, "live"), Job1(note, "comment"), Job1(wheel, "live"),
    Job1(other, "live"), Job1(ic, "paused"), Job1(both, "live")>>,
  <<Job1(wheel, "live"), Job1(other, "comment")>>,
  <<Job1(ic, "live")>>}
=============================================================================
