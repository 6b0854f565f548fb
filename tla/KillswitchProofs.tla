-------------------------- MODULE KillswitchProofs --------------------------
(***************************************************************************)
(* Proofs about the kill switch, for any strategies, any initial modes and *)
(* any number of presses and deaths, whatever is pressed and whatever goes *)
(* wrong. The one premise is that presses do not overlap (OneAtATime).     *)
(***************************************************************************)
EXTENDS Killswitch, TLAPS

OneAtATime == \A g, h \in Handler : g = h

(* Types. *)
LEMMA TypeStep == TypeOK /\ [Next]_vars => TypeOK'
<1> SUFFICES ASSUME TypeOK, [Next]_vars
             PROVE  TypeOK'
  OBVIOUS
<1> USE KillswitchAssumption
    DEF KillswitchAssumption, TypeOK, Mode, Modes, Intent, NoReport, Go, disk,
        locals, history, counts
<1>1. ASSUME NEW h \in Handler, NEW engaged \in BOOLEAN, Press(h, engaged)
      PROVE  TypeOK'
  BY <1>1 DEF Press
<1>2. ASSUME NEW h \in Handler, NEW s \in Strategy, ReadMode(h, s)
      PROVE  TypeOK'
  <2>1. pre' \in [Handler -> [Strategy -> {"live", "dry_run", "none"}]]
    BY <1>2 DEF ReadMode
  <2>2. todo' \in [Handler -> SUBSET Strategy]
    BY <1>2 DEF ReadMode
  <2>3. UNCHANGED <<disk, pc, engage, preIntent, target, allOk, reported,
                    history, counts>>
    BY <1>2 DEF ReadMode
  <2>4. QED
    BY <2>1, <2>2, <2>3
<1>3. ASSUME NEW h \in Handler, ReadIntent(h)
      PROVE  TypeOK'
  BY <1>3 DEF ReadIntent
<1>4. ASSUME NEW h \in Handler, DecideEngage(h)
      PROVE  TypeOK'
  <2>1. PICK first \in SUBSET Losses, again \in SUBSET Losses :
          Engaging(first, again)
    BY <1>4 DEF DecideEngage, Losses
  <2>2. lost' \subseteq Losses /\ baseline' \in Modes /\ force' = "on"
    BY <2>1 DEF Engaging
  <2>3. saved' \in BOOLEAN /\ snapshot' \in Modes
    BY <1>4 DEF DecideEngage, AimAt, WriteSnapshot
  <2>4. QED
    BY <1>4, <2>2, <2>3 DEF DecideEngage, AimAt
<1>5. ASSUME NEW h \in Handler, DecideDisengage(h)
      PROVE  TypeOK'
  <2>1. PICK readable \in BOOLEAN :
          /\ AimAt(h, [s \in Strategy |-> SnapshotMode(s, readable)])
          /\ lost' = IF readable THEN lost ELSE lost \cup {"unread"}
    BY <1>5 DEF DecideDisengage
  <2>2. [s \in Strategy |-> SnapshotMode(s, readable)] \in Modes
    BY DEF SnapshotMode
  <2>3. lost' \subseteq Losses
    BY <2>1 DEF Losses
  <2>4. QED
    BY <1>5, <2>1, <2>2, <2>3 DEF DecideDisengage, AimAt
<1>6. ASSUME NEW h \in Handler, NEW s \in Strategy, Skip(h, s)
      PROVE  TypeOK'
  BY <1>6 DEF Skip
<1>7. ASSUME NEW h \in Handler, NEW s \in Strategy, Flip(h, s)
      PROVE  TypeOK'
  BY <1>7 DEF Flip, RunShim, WriteEvent
<1>8. ASSUME NEW h \in Handler, CleanUp(h)
      PROVE  TypeOK'
  BY <1>8 DEF CleanUp, DeleteSnapshot
<1>9. ASSUME NEW h \in Handler, Record(h)
      PROVE  TypeOK'
  BY <1>9 DEF Record, WriteEvent
<1>10. CASE Die
  BY <1>10 DEF Die
<1>11. CASE UNCHANGED vars
  BY <1>11 DEF vars
<1>12. QED
  BY <1>1, <1>2, <1>3, <1>4, <1>5, <1>6, <1>7, <1>8, <1>9, <1>10, <1>11
     DEF Next, Work

LEMMA TypeInit == Init => TypeOK
<1> SUFFICES ASSUME Init
             PROVE  TypeOK
  OBVIOUS
<1>1. mode \in Modes /\ baseline = mode
  BY KillswitchAssumption DEF KillswitchAssumption, Init
<1>2. [s \in Strategy |-> "none"] \in Modes
  BY DEF Modes
<1>3. presses \in 0..MaxPresses /\ deaths \in 0..MaxDeaths
  BY KillswitchAssumption DEF KillswitchAssumption, Init
<1>4. QED
  BY <1>1, <1>2, <1>3 DEF Init, TypeOK, Intent, NoReport

(* Every variable has its type, over every fault. *)
THEOREM TypeCorrect == Spec => []TypeOK
<1>1. QED
  BY TypeInit, TypeStep, PTL DEF Spec

-----------------------------------------------------------------------------
(* What a press knows, while no other press is at work.                    *)

(* What it has read is still so. *)
ReadingHolds ==
  \A h \in Handler :
    /\ pc[h] \in {"reading", "deciding"} =>
         \A s \in Strategy \ todo[h] : pre[h][s] = mode[s]
    /\ pc[h] = "deciding" => todo[h] = {} /\ preIntent[h] = intent

(* A strategy it has yet to visit is as it was read; one it has visited is *)
(* at its target, if all results are ok.                                   *)
FlippingHolds ==
  \A h \in Handler :
    /\ pc[h] \in {"flipping", "auditing"} =>
         /\ \A s \in todo[h] : mode[s] = pre[h][s]
         /\ allOk[h] => \A s \in Strategy \ todo[h] : mode[s] = target[h][s]
         /\ engage[h] => \A s \in Strategy : target[h][s] = "dry_run"
    /\ pc[h] = "auditing" => todo[h] = {}

(* There is an answer only when no press is at work, and it still holds.   *)
AnswerHolds == (reported # NoReport => Idle) /\ EngagedIsDry

PressInv == TypeOK /\ ReadingHolds /\ FlippingHolds /\ AnswerHolds

LEMMA PressInitInv == Init => PressInv
BY TypeInit DEF Init, PressInv, ReadingHolds, FlippingHolds, AnswerHolds,
                EngagedIsDry, NoReport

(* One press at a time keeps what it knows true, and so does a death.      *)
LEMMA PressInvStep ==
  ASSUME OneAtATime
  PROVE  PressInv /\ [Next]_vars => PressInv'
<1> SUFFICES ASSUME PressInv, [Next]_vars
             PROVE  PressInv'
  OBVIOUS
<1> USE DEF PressInv, ReadingHolds, FlippingHolds, AnswerHolds, EngagedIsDry,
            Idle, NoReport, Go, disk, locals, history, counts
<1>1. TypeOK /\ TypeOK'
  BY TypeStep
<1> USE DEF TypeOK, OneAtATime
<1>2. ASSUME NEW h \in Handler, NEW engaged \in BOOLEAN, Press(h, engaged)
      PROVE  PressInv'
  BY <1>1, <1>2 DEF Press
<1>3. ASSUME NEW h \in Handler, NEW s \in Strategy, ReadMode(h, s)
      PROVE  PressInv'
  <2>1. \A r \in Strategy : pre'[h][r] = IF r = s THEN mode[s] ELSE pre[h][r]
    BY <1>1, <1>3 DEF ReadMode, Modes
  <2>2. QED
    BY <1>1, <1>3, <2>1 DEF ReadMode
<1>4. ASSUME NEW h \in Handler, ReadIntent(h)
      PROVE  PressInv'
  BY <1>1, <1>4 DEF ReadIntent
<1>5. ASSUME NEW h \in Handler, DecideEngage(h)
      PROVE  PressInv'
  BY <1>1, <1>5 DEF DecideEngage, AimAt, Engaging
<1>6. ASSUME NEW h \in Handler, DecideDisengage(h)
      PROVE  PressInv'
  BY <1>1, <1>6 DEF DecideDisengage, AimAt
<1>7. ASSUME NEW h \in Handler, NEW s \in Strategy, Skip(h, s)
      PROVE  PressInv'
  BY <1>1, <1>7 DEF Skip
<1>8. ASSUME NEW h \in Handler, NEW s \in Strategy, Flip(h, s)
      PROVE  PressInv'
  BY <1>1, <1>8 DEF Flip, RunShim, WriteEvent, Modes
<1>9. ASSUME NEW h \in Handler, CleanUp(h)
      PROVE  PressInv'
  BY <1>1, <1>9 DEF CleanUp, DeleteSnapshot
<1>10. ASSUME NEW h \in Handler, Record(h)
      PROVE  PressInv'
  BY <1>1, <1>10 DEF Record, WriteEvent
<1>11. CASE Die
  BY <1>1, <1>11 DEF Die
<1>12. CASE UNCHANGED vars
  BY <1>1, <1>12 DEF vars
<1>13. QED
  BY <1>2, <1>3, <1>4, <1>5, <1>6, <1>7, <1>8, <1>9, <1>10, <1>11, <1>12
     DEF Next, Work

(* Once an engage has answered that every strategy is ok, every strategy   *)
(* is in dry_run until the next press, whatever fails, dies or is pressed  *)
(* before; presses must not overlap.                                       *)
THEOREM EngagedMeansDry ==
  ASSUME OneAtATime
  PROVE  Spec => []EngagedIsDry
<1>1. PressInv => EngagedIsDry
  BY DEF PressInv, AnswerHolds
<1>2. QED
  BY <1>1, PressInitInv, PressInvStep, PTL DEF Spec

-----------------------------------------------------------------------------
(* What becomes of the modes from before an engage.                        *)

(* While nothing has come between them the snapshot is the baseline; after *)
(* an overwriting it still holds dry_run for what was in dry_run.          *)
SnapshotKept ==
  force = "on" =>
    /\ lost = {} => saved /\ snapshot = baseline
    /\ lost \subseteq {"overwritten"} =>
         /\ saved
         /\ \A s \in Strategy :
              baseline[s] = "dry_run" => snapshot[s] = "dry_run"

(* A disengage that flips strategies while an engage is in force aims at   *)
(* the modes from before, under the same conditions.                       *)
AimsHome ==
  \A h \in Handler :
    pc[h] = "flipping" /\ ~engage[h] /\ force = "on" =>
      \A s \in Strategy :
        /\ lost = {} /\ baseline[s] # "none" => target[h][s] = baseline[s]
        /\ lost \subseteq {"overwritten"} /\ baseline[s] = "dry_run" =>
             target[h][s] = "dry_run"

(* What an engage flips has an engage in force. *)
EngagesInForce ==
  \A h \in Handler : pc[h] = "flipping" /\ engage[h] => force = "on"

ForceInv ==
  PressInv /\ SnapshotKept /\ AimsHome /\ EngagesInForce /\ DryRunStays

LEMMA ForceInitInv == Init => ForceInv
BY PressInitInv DEF Init, ForceInv, SnapshotKept, AimsHome, EngagesInForce,
                    DryRunStays

LEMMA ForceInvStep ==
  ASSUME OneAtATime
  PROVE  ForceInv /\ [Next]_vars => ForceInv'
<1> SUFFICES ASSUME ForceInv, [Next]_vars
             PROVE  ForceInv'
  OBVIOUS
<1> USE DEF ForceInv, SnapshotKept, AimsHome, EngagesInForce, DryRunStays, Go,
            disk, locals, history, counts
<1>1. TypeOK /\ TypeOK' /\ PressInv /\ PressInv'
  BY PressInvStep DEF PressInv
<1> USE DEF TypeOK, OneAtATime
<1>3. ASSUME NEW h \in Handler, NEW engaged \in BOOLEAN, Press(h, engaged)
      PROVE  ForceInv'
  BY <1>1, <1>3 DEF Press
<1>4. ASSUME NEW h \in Handler, NEW s \in Strategy, ReadMode(h, s)
      PROVE  ForceInv'
  BY <1>1, <1>4 DEF ReadMode
<1>5. ASSUME NEW h \in Handler, ReadIntent(h)
      PROVE  ForceInv'
  BY <1>1, <1>5 DEF ReadIntent
<1>6. ASSUME NEW h \in Handler, DecideEngage(h)
      PROVE  ForceInv'
  <2>1. pre[h] = mode
    BY <1>1, <1>6 DEF DecideEngage, AimAt, PressInv, ReadingHolds, Modes
  <2>2. /\ force' = "on" /\ mode' = mode
        /\ engage[h] /\ engage' = engage /\ pc[h] = "deciding"
        /\ pc' = [pc EXCEPT ![h] = "flipping"]
    BY <1>6 DEF DecideEngage, AimAt, Engaging
  <2>3. CASE force = "on"
    <3>1. baseline' = baseline
      BY <1>6, <2>3 DEF DecideEngage, Engaging
    <3>2. \/ lost' = lost /\ saved' = saved /\ snapshot' = snapshot
          \/ lost' = lost \cup {"overwritten"} /\ saved' /\ snapshot' = mode
      <4>1. CASE preIntent[h] = "disengaged"
        <5>1. PICK written \in BOOLEAN :
                /\ WriteSnapshot(pre[h], written)
                /\ IF written THEN Engaging({}, {"overwritten"})
                   ELSE Engaging({"unwritten"}, {})
          BY <1>6, <4>1 DEF DecideEngage
        <5>2. saved' = (saved \/ written)
              /\ snapshot' = IF written THEN mode ELSE snapshot
          BY <2>1, <5>1 DEF WriteSnapshot
        <5>3. lost' = IF written THEN lost \cup {"overwritten"}
                      ELSE lost \cup {}
          BY <2>3, <5>1 DEF Engaging
        <5>4. lost \cup {} = lost
          OBVIOUS
        <5>5. QED
          BY <1>1, <5>2, <5>3, <5>4
      <4>2. CASE preIntent[h] # "disengaged"
        BY <1>6, <2>3, <4>2 DEF DecideEngage, Engaging
      <4>3. QED
        BY <4>1, <4>2
    <3>3. QED
      BY <1>1, <2>2, <2>3, <3>1, <3>2
  <2>4. CASE force # "on"
    <3>1. /\ baseline' = mode
          /\ lost' \in {{}, {"unwritten"}, {"unsaved"}}
          /\ lost' = {} => saved' /\ snapshot' = mode
      BY <1>6, <2>1, <2>4 DEF DecideEngage, Engaging, WriteSnapshot
    <3>2. QED
      BY <1>1, <2>2, <3>1
  <2>5. QED
    BY <2>3, <2>4
<1>7. ASSUME NEW h \in Handler, DecideDisengage(h)
      PROVE  ForceInv'
  <2>1. PICK readable \in BOOLEAN :
          /\ AimAt(h, [s \in Strategy |-> SnapshotMode(s, readable)])
          /\ lost' = IF readable THEN lost ELSE lost \cup {"unread"}
    BY <1>7 DEF DecideDisengage
  <2>2. CASE readable
    <3>1. force = "on" /\ lost = {} =>
            \A s \in Strategy : baseline[s] # "none" =>
              SnapshotMode(s, readable) = baseline[s]
      BY <2>2 DEF SnapshotMode
    <3>2. force = "on" /\ lost \subseteq {"overwritten"} =>
            \A s \in Strategy : baseline[s] = "dry_run" =>
              SnapshotMode(s, readable) = "dry_run"
      BY <2>2 DEF SnapshotMode
    <3>3. \A s \in Strategy : target'[h][s] = SnapshotMode(s, readable)
      BY <1>1, <2>1 DEF AimAt
    <3>4. lost' = lost /\ force' = force /\ baseline' = baseline
      BY <1>7, <2>1, <2>2 DEF DecideDisengage
    <3>5. AimsHome'
      BY <3>1, <3>2, <3>3, <3>4
    <3>6. QED
      BY <1>1, <1>7, <2>1, <2>2, <3>4, <3>5 DEF DecideDisengage, AimAt
  <2>3. CASE ~readable
    BY <1>1, <1>7, <2>1, <2>3 DEF DecideDisengage, AimAt
  <2>4. QED
    BY <2>2, <2>3
<1>8. ASSUME NEW h \in Handler, NEW s \in Strategy, Skip(h, s)
      PROVE  ForceInv'
  BY <1>1, <1>8 DEF Skip
<1>9. ASSUME NEW h \in Handler, NEW s \in Strategy, Flip(h, s)
      PROVE  ForceInv'
  <2>1. engage[h] => target[h][s] = "dry_run"
    BY <1>9 DEF Flip, PressInv, FlippingHolds
  <2>2. \A r \in Strategy :
          mode'[r] = mode[r] \/ (r = s /\ mode'[r] = target[h][s])
    BY <1>9 DEF Flip, RunShim, Modes
  <2>3. DryRunStays'
    BY <1>9, <2>1, <2>2 DEF Flip
  <2>4. QED
    BY <1>1, <1>9, <2>3 DEF Flip
<1>10. ASSUME NEW h \in Handler, CleanUp(h)
      PROVE  ForceInv'
  BY <1>1, <1>10 DEF CleanUp, DeleteSnapshot
<1>11. ASSUME NEW h \in Handler, Record(h)
      PROVE  ForceInv'
  BY <1>1, <1>11 DEF Record, WriteEvent
<1>12. CASE Die
  BY <1>1, <1>12 DEF Die
<1>13. CASE UNCHANGED vars
  BY <1>1, <1>13 DEF vars
<1>14. QED
  BY <1>3, <1>4, <1>5, <1>6, <1>7, <1>8, <1>9, <1>10, <1>11, <1>12, <1>13
     DEF Next, Work

LEMMA ForceInvHolds ==
  ASSUME OneAtATime
  PROVE  Spec => []ForceInv
BY ForceInitInv, ForceInvStep, PTL DEF Spec

(* Whatever is pressed, fails or dies, and in whatever order: what the     *)
(* kill switch has changed it can put back, unless the engage in force     *)
(* wrote no snapshot or overwrote one, or a disengage could not read it;   *)
(* presses must not overlap.                                               *)
THEOREM WhatIsChangedIsRecoverable ==
  ASSUME OneAtATime
  PROVE  Spec => []Recoverable
<1>1. ForceInv => Recoverable
  BY DEF ForceInv, SnapshotKept, Recoverable, BaselineSaved
<1>2. QED
  BY <1>1, ForceInvHolds, PTL

(* A strategy that was in dry_run before the engage is in dry_run as long  *)
(* as the engage is in force, even if the snapshot has been overwritten    *)
(* since, provided that one was taken and could be read.                   *)
THEOREM DryRunIsNeverLive ==
  ASSUME OneAtATime
  PROVE  Spec => []DryRunStays
<1>1. ForceInv => DryRunStays
  BY DEF ForceInv
<1>2. QED
  BY <1>1, ForceInvHolds, PTL

(* The disengage that reports every strategy ok has put each one back to   *)
(* exactly its mode from before the engage, with the exceptions of         *)
(* WhatIsChangedIsRecoverable.                                             *)
THEOREM DisengageRestores ==
  ASSUME OneAtATime
  PROVE  Spec => RestoredExactly
<1>1. ForceInv /\ [Next]_vars =>
        (force # "restored" /\ force' = "restored" /\ lost = {} =>
           \A s \in Strategy : baseline[s] # "none" => mode'[s] = baseline[s])
  <2> SUFFICES ASSUME ForceInv, [Next]_vars,
                      force # "restored", force' = "restored", lost = {}
               PROVE  \A s \in Strategy :
                        baseline[s] # "none" => mode'[s] = baseline[s]
    OBVIOUS
  <2>1. PICK h \in Handler :
          CleanUp(h) /\ ~engage[h] /\ allOk[h] /\ force = "on"
    BY DEF Next, Work, Press, ReadMode, ReadIntent, DecideEngage, Engaging,
           DecideDisengage, Skip, Flip, CleanUp, Record, Die, vars, history
  <2>2. /\ pc[h] = "flipping" /\ todo[h] = {} /\ mode' = mode
    BY <2>1 DEF CleanUp, Go
  <2>3. \A s \in Strategy : mode[s] = target[h][s]
    BY <2>1, <2>2 DEF ForceInv, PressInv, FlippingHolds
  <2>4. QED
    BY <2>1, <2>2, <2>3 DEF ForceInv, AimsHome
<1>2. QED
  BY <1>1, ForceInvHolds, PTL DEF Spec, RestoredExactly
=============================================================================
