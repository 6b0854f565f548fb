--------------------------- MODULE CrontabProofs ---------------------------
(***************************************************************************)
(* Proofs about the edits of the crontab, for any strategies, any lines,   *)
(* any table and any number of requests. The premises are those of the run *)
(* of Crontab: requests do not overlap, a request meets at most one        *)
(* failure, and (for what an answer "ok" means) the listing of the table   *)
(* does not fail silently.                                                 *)
(***************************************************************************)
EXTENDS Crontab, FilterProofs

OneAtATime == \A g, h \in Handler : g = h

-----------------------------------------------------------------------------
(* The transformations, line by line.                                      *)
Paused(s)  == [l \in Line |-> IF InScope(l, s) THEN PauseLine(l) ELSE l]
Resumed(s) == [l \in Line |-> IF InScope(l, s) THEN ResumeLine(l) ELSE l]
Plain      == [l \in Line |->
                 [l EXCEPT !.mark = IF @ = "paused" THEN "live" ELSE @]]

LEMMA LineMaps ==
  ASSUME NEW s \in Strategy
  PROVE  /\ Paused(s) \in [Line -> Line]
         /\ Resumed(s) \in [Line -> Line]
         /\ Plain \in [Line -> Line]
BY DEF Paused, Resumed, Plain, PauseLine, ResumeLine, Line, Mark

LEMMA TransformIs ==
  ASSUME NEW t \in Seq(Line), NEW s \in Strategy
  PROVE  /\ Transform(t, "pause", s) = Mapped(t, Paused(s))
         /\ Transform(t, "resume", s) = Mapped(t, Resumed(s))
         /\ Transform(t, "uninstall", s) = Kept(t, Outside(s))
<1>1. \A k \in DOMAIN t : t[k] \in Line
  OBVIOUS
<1>2. Transform(t, "pause", s) = Mapped(t, Paused(s))
  BY <1>1 DEF Transform, Mapped, Paused
<1>3. Transform(t, "resume", s) = Mapped(t, Resumed(s))
  BY <1>1 DEF Transform, Mapped, Resumed
<1>4. Transform(t, "uninstall", s) = Kept(t, Outside(s))
  BY DEF Transform
<1>5. QED
  BY <1>2, <1>3, <1>4

LEMMA UnpausedIs ==
  ASSUME NEW t \in Seq(Line)
  PROVE  Unpaused(t) = Mapped(t, Plain)
<1>1. \A k \in DOMAIN t : t[k] \in Line
  OBVIOUS
<1>2. QED
  BY <1>1 DEF Unpaused, Mapped, Plain

LEMMA TransformType ==
  ASSUME NEW t \in Seq(Line), NEW o \in Op, NEW s \in Strategy
  PROVE  Transform(t, o, s) \in Seq(Line)
<1>1. Mapped(t, Paused(s)) \in Seq(Line) /\ Mapped(t, Resumed(s)) \in Seq(Line)
  BY LineMaps, MappedInSeq
<1>2. Kept(t, Outside(s)) \in Seq(Line)
  BY KeptInSeq
<1>3. QED
  BY <1>1, <1>2, TransformIs DEF Op

(* Lines that do not name the strategy's directory are left as they are. *)
LEMMA TransformKeepsOthers ==
  ASSUME NEW t \in Seq(Line), NEW o \in Op, NEW s \in Strategy
  PROVE  Others(Transform(t, o, s), s) = Others(t, s)
<1> DEFINE S == {l \in Line : s \notin Dirs[l.job]}
<1>1. ASSUME NEW f \in {Paused(s), Resumed(s)}
      PROVE  Kept(Mapped(t, f), S) = Kept(t, S)
  <2>1. f \in [Line -> Line]
    BY LineMaps
  <2>2. \A l \in Line : f[l].job = l.job
    BY DEF Paused, Resumed, PauseLine, ResumeLine, Line
  <2>3. \A l \in Line : f[l] \in S <=> l \in S
    BY <2>1, <2>2
  <2>4. \A l \in Line \cap S : f[l] = l
    BY DEF Paused, Resumed, InScope
  <2> HIDE DEF S
  <2>5. Kept(Mapped(t, f), S) = Mapped(Kept(t, S), f)
    BY <2>1, <2>3, KeptOfMapped
  <2>6. Kept(t, S) \in Seq(Line \cap S)
    BY KeptInSeq
  <2>7. QED
    BY <2>4, <2>5, <2>6, MappedToItself
<1>2. Kept(Kept(t, Outside(s)), S) = Kept(t, S)
  <2>1. Outside(s) \cap S = S
    BY DEF Outside, InScope
  <2> HIDE DEF S
  <2>2. QED
    BY <2>1, KeptTwice
<1>3. QED
  BY <1>1, <1>2, TransformIs DEF Others, Op

(* What each operation leaves of the lines in scope. *)
Effective(t, o, s) ==
  \A k \in DOMAIN t :
    InScope(t[k], s) =>
      /\ o # "uninstall"
      /\ o = "pause" => t[k].mark # "live"
      /\ o = "resume" => t[k].mark # "paused"

LEMMA TransformIsEffective ==
  ASSUME NEW t \in Seq(Line), NEW o \in Op, NEW s \in Strategy
  PROVE  Effective(Transform(t, o, s), o, s)
<1>1. CASE o = "pause"
  <2>1. \A l \in Line : Paused(s)[l].job = l.job
    BY DEF Paused, PauseLine, Line
  <2>2. \A l \in Line : InScope(l, s) => Paused(s)[l].mark # "live"
    BY DEF Paused, PauseLine, Line
  <2>3. \A l \in Line :
          InScope(Paused(s)[l], s) => Paused(s)[l].mark # "live"
    BY <2>1, <2>2 DEF InScope
  <2> DEFINE u == Mapped(t, Paused(s))
  <2>4. /\ u \in Seq(Line)
        /\ \A k \in DOMAIN u : t[k] \in Line /\ u[k] = Paused(s)[t[k]]
    BY LineMaps, MappedInSeq
  <2> HIDE DEF u
  <2>5. Effective(u, o, s)
    BY <1>1, <2>3, <2>4 DEF Effective
  <2>6. QED
    BY <1>1, <2>5, TransformIs DEF u
<1>2. CASE o = "resume"
  <2>1. \A l \in Line : Resumed(s)[l].job = l.job
    BY DEF Resumed, ResumeLine, Line
  <2>2. \A l \in Line : InScope(l, s) => Resumed(s)[l].mark # "paused"
    BY DEF Resumed, ResumeLine, Line
  <2>3. \A l \in Line :
          InScope(Resumed(s)[l], s) => Resumed(s)[l].mark # "paused"
    BY <2>1, <2>2 DEF InScope
  <2> DEFINE u == Mapped(t, Resumed(s))
  <2>4. /\ u \in Seq(Line)
        /\ \A k \in DOMAIN u : t[k] \in Line /\ u[k] = Resumed(s)[t[k]]
    BY LineMaps, MappedInSeq
  <2> HIDE DEF u
  <2>5. Effective(u, o, s)
    BY <1>2, <2>3, <2>4 DEF Effective
  <2>6. QED
    BY <1>2, <2>5, TransformIs DEF u
<1>3. CASE o = "uninstall"
  <2>1. Transform(t, o, s) \in Seq(Line \cap Outside(s))
    BY <1>3, TransformIs, KeptInSeq
  <2>2. \A k \in DOMAIN Transform(t, o, s) : ~InScope(Transform(t, o, s)[k], s)
    BY <2>1 DEF Outside
  <2>3. QED
    BY <2>2 DEF Effective
<1>4. QED
  BY <1>1, <1>2, <1>3 DEF Op

-----------------------------------------------------------------------------
(* Types. *)
LEMMA TypeInit == Init => TypeOK
<1> SUFFICES ASSUME Init
             PROVE  TypeOK
  OBVIOUS
<1>1. (CHOOSE s \in Strategy : TRUE) \in Strategy /\ <<>> \in Seq(Line)
  BY CrontabAssumption DEF CrontabAssumption
<1>2. first \in Seq(Line) /\ 0 \in 0..MaxFaults /\ 0 \in 0..MaxRequests
  BY CrontabAssumption DEF CrontabAssumption, Init
<1>3. QED
  BY <1>1, <1>2 DEF Init, TypeOK, Step, Op, Answer

LEMMA TypeStep == TypeOK /\ [Next]_vars => TypeOK'
<1> SUFFICES ASSUME TypeOK, [Next]_vars
             PROVE  TypeOK'
  OBVIOUS
<1>1. MaxFaults \in Nat /\ MaxRequests \in Nat /\ <<>> \in Seq(Line)
  BY CrontabAssumption DEF CrontabAssumption
<1>2. \A h \in Handler : After(h) \in Seq(Line)
  BY TransformType DEF TypeOK, After
<1>3. \A h \in Handler : \A f, bad :
        Call(h, f, bad) => faults' \in [Handler -> 0..MaxFaults]
  BY <1>1 DEF Call, TypeOK
<1> USE DEF TypeOK, request
<1>4. ASSUME NEW h \in Handler, NEW o \in Op, NEW s \in Strategy,
             Request(h, o, s)
      PROVE  TypeOK'
  BY <1>1, <1>4 DEF Request, Step, Answer
<1>5. ASSUME NEW h \in Handler, Refuse(h) \/ ReadFails(h) \/ CheckFails(h)
      PROVE  TypeOK'
  BY <1>3, <1>5 DEF Refuse, ReadFails, CheckFails, Reply, Step, Answer
<1>6. ASSUME NEW h \in Handler, Backup(h)
      PROVE  TypeOK'
  BY <1>1, <1>3, <1>6 DEF Backup, Goto, Step
<1>7. ASSUME NEW h \in Handler, Read(h)
      PROVE  TypeOK'
  BY <1>7 DEF Read, Goto, Reply, Step, Answer
<1>8. ASSUME NEW h \in Handler, ReadNothing(h)
      PROVE  TypeOK'
  BY <1>3, <1>8 DEF ReadNothing, Reply, Step, Answer
<1>9. ASSUME NEW h \in Handler, Write(h)
      PROVE  TypeOK'
  BY <1>2, <1>3, <1>9 DEF Write, Goto, Step
<1>10. ASSUME NEW h \in Handler, WriteFails(h)
      PROVE  TypeOK'
  BY <1>2, <1>3, <1>10 DEF WriteFails, Reply, Step, Answer
<1>11. ASSUME NEW h \in Handler, Check(h)
      PROVE  TypeOK'
  BY <1>3, <1>11 DEF Check, Goto, Reply, Step, Answer
<1>12. ASSUME NEW h \in Handler, Restore(h)
      PROVE  TypeOK'
  BY <1>3, <1>12 DEF Restore, Reply, Step, Answer
<1>13. CASE UNCHANGED vars
  BY <1>13 DEF vars
<1>14. QED
  BY <1>4, <1>5, <1>6, <1>7, <1>8, <1>9, <1>10, <1>11, <1>12, <1>13
     DEF Next, Handle

(* Every variable keeps its type. *)
THEOREM TypeCorrect == Spec => []TypeOK
BY TypeInit, TypeStep, PTL DEF Spec

-----------------------------------------------------------------------------
(* The table during a request: it is the one from before the request until *)
(* the write, then the edited one or, if the one failure of the request    *)
(* was to lose the write, still the one from before; and what is restored  *)
(* is a good backup, because a request that restores has met its failure.  *)
BeforeTheWrite(h) ==
  /\ pc[h] \in {"backup", "read", "write"} => table = started[h]
  /\ pc[h] \in {"write", "check", "restore"} => before[h] = started[h]

BackedUp(h) ==
  /\ pc[h] \in {"read", "write", "check"} =>
       backup[h] = started[h] \/ faults[h] = 1
  /\ pc[h] = "restore" => backup[h] = started[h] /\ faults[h] = 1

Written(h) ==
  pc[h] = "check" =>
    \/ table = After(h)
    \/ table = started[h] /\ backup[h] = started[h] /\ faults[h] = 1

Asked(h) ==
  pc[h] # "idle" =>
    requests > 0 /\ (op[h] = "uninstall" => target[h] \in dropped)

EditInv ==
  /\ TypeOK
  /\ \A h \in Handler :
       Asked(h) /\ BeforeTheWrite(h) /\ BackedUp(h) /\ Written(h)
  /\ AllOrNothing

OneFailure == OneAtATime /\ MaxFaults <= 1

LEMMA EditInit == Init => EditInv
BY TypeInit DEF Init, EditInv, Asked, BeforeTheWrite, BackedUp, Written,
                AllOrNothing

LEMMA EditStep ==
  ASSUME OneFailure
  PROVE  EditInv /\ [Next]_vars => EditInv'
<1> SUFFICES ASSUME EditInv, [Next]_vars
             PROVE  EditInv'
  OBVIOUS
<1>1. /\ TypeOK /\ TypeOK' /\ MaxFaults \in Nat /\ MaxFaults <= 1
      /\ \A h \in Handler : faults[h] \in 0..MaxFaults
  BY TypeStep, CrontabAssumption
     DEF EditInv, OneFailure, TypeOK, CrontabAssumption
<1>2. PICK h : Handler = {h} \/ Handler = {}
  BY DEF OneFailure, OneAtATime
<1>3. CASE Handler = {}
  BY <1>1, <1>3 DEF EditInv, AllOrNothing
<1>4. CASE Handler = {h}
  <2> DEFINE Good ==
        /\ Asked(h) /\ BeforeTheWrite(h) /\ BackedUp(h) /\ Written(h)
        /\ requests > 0 =>
             table \in {started[h], Transform(started[h], op[h], target[h])}
  <2>1. h \in Handler /\ Good
    BY <1>4 DEF EditInv, AllOrNothing
  <2>2. SUFFICES Good'
    BY <1>1, <1>4 DEF EditInv, AllOrNothing
  <2> USE DEF Asked, BeforeTheWrite, BackedUp, Written, After, request
  <2>3. ASSUME NEW o \in Op, NEW s \in Strategy, Request(h, o, s)
        PROVE  Good'
    BY <1>1, <2>1, <2>3 DEF Request, TypeOK
  <2>4. CASE Refuse(h) \/ ReadFails(h) \/ CheckFails(h)
    BY <1>1, <2>1, <2>4 DEF Refuse, ReadFails, CheckFails, Reply, TypeOK
  <2>5. CASE Backup(h)
    BY <1>1, <2>1, <2>5 DEF Backup, Call, Goto, TypeOK
  <2>6. CASE Read(h)
    BY <1>1, <2>1, <2>6 DEF Read, Goto, Reply, TypeOK
  <2>7. CASE ReadNothing(h)
    BY <1>1, <2>1, <2>7 DEF ReadNothing, Reply, TypeOK
  <2>8. CASE Write(h)
    BY <1>1, <2>1, <2>8 DEF Write, Call, Goto, TypeOK
  <2>9. CASE WriteFails(h)
    BY <1>1, <2>1, <2>9 DEF WriteFails, Reply, TypeOK
  <2>10. CASE Check(h)
    BY <1>1, <2>1, <2>10 DEF Check, Call, Goto, Reply, TypeOK
  <2>11. CASE Restore(h)
    BY <1>1, <2>1, <2>11 DEF Restore, Call, Reply, TypeOK
  <2>12. CASE UNCHANGED vars
    BY <2>1, <2>12 DEF vars
  <2>13. QED
    BY <1>4, <2>3, <2>4, <2>5, <2>6, <2>7, <2>8, <2>9, <2>10, <2>11, <2>12
       DEF Next, Handle
<1>5. QED
  BY <1>2, <1>3, <1>4

LEMMA EditHolds ==
  ASSUME OneFailure
  PROVE  Spec => []EditInv
BY EditInit, EditStep, PTL DEF Spec

(* Whatever the one failure of a request is, the crontab is the one from   *)
(* before the request or the one it asked for.                             *)
THEOREM EditsAreAllOrNothing ==
  ASSUME OneFailure
  PROVE  Spec => []AllOrNothing
<1>1. EditInv => AllOrNothing
  BY DEF EditInv
<1>2. QED
  BY EditHolds, <1>1, PTL

LEMMA OthersStep ==
  ASSUME OneFailure, EditInv, [Next]_vars, NEW h \in Handler,
         pc[h] \in {"write", "restore"}, pc'[h] # pc[h]
  PROVE  Others(table', target[h]) = Others(table, target[h])
<1>1. /\ TypeOK /\ \A g \in Handler : g = h
      /\ BeforeTheWrite(h) /\ BackedUp(h)
      /\ op[h] \in Op /\ target[h] \in Strategy /\ started[h] \in Seq(Line)
  BY DEF EditInv, OneFailure, OneAtATime, TypeOK
<1>2. Write(h) \/ WriteFails(h) \/ Restore(h)
  BY <1>1 DEF Next, Handle, Request, Refuse, Backup, Read, ReadFails,
              ReadNothing, Check, CheckFails, vars
<1>3. CASE Write(h) \/ WriteFails(h)
  <2>1. pc[h] = "write" /\ table' \in {table, After(h)}
    BY <1>3 DEF Write, WriteFails
  <2>2. table = started[h] /\ After(h) = Transform(table, op[h], target[h])
    BY <1>1, <2>1 DEF BeforeTheWrite, After
  <2>3. QED
    BY <1>1, <2>1, <2>2, TransformKeepsOthers
<1>4. CASE Restore(h)
  <2>1. table' = table \/ table' = started[h]
    BY <1>1, <1>4 DEF Restore, BackedUp
  <2>2. requests > 0
    BY <1>1, <1>4 DEF Restore, EditInv, Asked
  <2>3. table \in {started[h], Transform(started[h], op[h], target[h])}
    BY <2>2 DEF EditInv, AllOrNothing
  <2>4. QED
    BY <1>1, <2>1, <2>3, TransformKeepsOthers
<1>5. QED
  BY <1>2, <1>3, <1>4

(* A line that does not name the directory of the strategy is not changed  *)
(* by the write of a request, nor by restoring its backup.                 *)
THEOREM OtherLinesAreKept ==
  ASSUME OneFailure
  PROVE  Spec => OutOfScopeKept
<1>1. EditInv /\ [Next]_vars =>
        \A h \in Handler :
          pc[h] \in {"write", "restore"} /\ pc'[h] # pc[h] =>
            Others(table', target[h]) = Others(table, target[h])
  BY OthersStep
<1>2. QED
  BY EditHolds, <1>1, PTL DEF Spec, OutOfScopeKept

-----------------------------------------------------------------------------
(* What an answer "ok" means. *)
Answered ==
  \A h \in Handler :
    pc[h] = "idle" /\ answer[h] = "ok" => Effective(table, op[h], target[h])

LEMMA AnsweredStep ==
  ASSUME OneFailure, "listing" \notin Fault
  PROVE  EditInv /\ Answered /\ [Next]_vars => Answered'
<1> SUFFICES ASSUME EditInv, Answered, [Next]_vars, NEW h \in Handler,
                    pc'[h] = "idle", answer'[h] = "ok"
             PROVE  Effective(table', op'[h], target'[h])
  BY DEF Answered
<1>1. /\ TypeOK /\ \A g \in Handler : g = h
      /\ BeforeTheWrite(h) /\ BackedUp(h) /\ Written(h)
      /\ op[h] \in Op /\ target[h] \in Strategy /\ before[h] \in Seq(Line)
      /\ table \in Seq(Line)
      /\ faults[h] \in 0..MaxFaults /\ MaxFaults <= 1 /\ MaxFaults \in Nat
  BY CrontabAssumption
     DEF EditInv, OneFailure, OneAtATime, TypeOK, CrontabAssumption
<1> USE DEF request
<1>2. \/ ReadNothing(h) \/ Check(h) \/ UNCHANGED vars
  BY <1>1 DEF Next, Handle, Request, Refuse, Backup, Read, ReadFails, Write,
              WriteFails, CheckFails, Restore, Reply, Goto, TypeOK
<1>3. CASE ReadNothing(h)
  <2>1. table' = table /\ table = <<>>
    BY <1>3 DEF ReadNothing, Call
  <2>2. QED
    BY <2>1 DEF Effective
<1>4. CASE Check(h)
  <2>1. /\ pc[h] = "check" /\ table' = table /\ op' = op /\ target' = target
    BY <1>4 DEF Check
  <2>2. table = After(h)
    BY <1>1, <1>4, <2>1 DEF Check, Call, Goto, Written, TypeOK
  <2>3. QED
    BY <1>1, <2>1, <2>2, TransformIsEffective DEF After
<1>5. CASE UNCHANGED vars
  BY <1>5 DEF vars, Answered
<1>6. QED
  BY <1>2, <1>3, <1>4, <1>5

(* After a pause that was answered ok no line of the strategy runs, after a *)
(* resume none is paused, and after an uninstall none is left.              *)
THEOREM OkMeansDone ==
  ASSUME OneFailure, "listing" \notin Fault
  PROVE  Spec => []OkIsEffective
<1>1. Init => Answered
  BY DEF Init, Answered
<1>2. Answered => OkIsEffective
  BY DEF Answered, Effective, OkIsEffective
<1>3. QED
  BY EditInit, EditStep, AnsweredStep, <1>1, <1>2, PTL DEF Spec

-----------------------------------------------------------------------------
(* What any number of requests may have done to the table of the user.     *)
Faithful(t) ==
  \E gone \in SUBSET dropped :
    Unpaused(t) = Unpaused(Kept(first, Without(gone)))

LEMMA FaithfulTransform ==
  ASSUME first \in Seq(Line), NEW t \in Seq(Line), NEW o \in Op,
         NEW s \in Strategy, Faithful(t), o = "uninstall" => s \in dropped
  PROVE  Faithful(Transform(t, o, s))
<1>1. PICK gone \in SUBSET dropped :
        Unpaused(t) = Unpaused(Kept(first, Without(gone)))
  BY DEF Faithful
<1>2. Transform(t, o, s) \in Seq(Line)
  BY TransformType
<1>3. Plain \in [Line -> Line]
  BY LineMaps
<1>4. ASSUME NEW f \in {Paused(s), Resumed(s)}
      PROVE  Mapped(Mapped(t, f), Plain) = Mapped(t, Plain)
  <2>1. f \in [Line -> Line]
    BY LineMaps
  <2>2. ASSUME NEW l \in Line
        PROVE  Plain[f[l]] = Plain[l]
    <3>1. f[l] \in Line /\ Plain[f[l]] \in Line /\ Plain[l] \in Line
      BY <1>3, <2>1
    <3>2. f[l].job = l.job
      BY DEF Paused, Resumed, PauseLine, ResumeLine, Line
    <3>3. \/ f[l].mark = l.mark
          \/ {f[l].mark, l.mark} = {"live", "paused"}
      BY DEF Paused, Resumed, PauseLine, ResumeLine, Line
    <3>4. \A m \in Line :
            /\ Plain[m].job = m.job
            /\ Plain[m].mark = IF m.mark = "paused" THEN "live" ELSE m.mark
      BY DEF Plain, Line
    <3>5. Plain[f[l]].job = Plain[l].job /\ Plain[f[l]].mark = Plain[l].mark
      BY <3>1, <3>2, <3>3, <3>4
    <3>6. \A m, n \in Line : m.job = n.job /\ m.mark = n.mark => m = n
      BY DEF Line
    <3>7. QED
      BY <3>1, <3>5, <3>6
  <2>3. QED
    BY <1>3, <2>1, <2>2, MappedTwice
<1>5. CASE o = "pause" \/ o = "resume"
  <2>1. Unpaused(Transform(t, o, s)) = Unpaused(t)
    BY <1>2, <1>4, <1>5, TransformIs, UnpausedIs
  <2>2. QED
    BY <1>1, <2>1 DEF Faithful
<1>6. CASE o = "uninstall"
  <2> DEFINE out == Outside(s)
             stay == Without(gone)
             rest == Kept(first, stay)
  <2>1. /\ rest \in Seq(Line) /\ Kept(rest, out) \in Seq(Line)
        /\ Kept(t, out) \in Seq(Line)
    BY KeptInSeq
  <2>2. \A l \in Line : Plain[l] \in out <=> l \in out
    BY <1>3 DEF Plain, Outside, InScope, Line
  <2>3. stay \cap out = Without(gone \cup {s})
    BY DEF Without, Outside
  <2>4. Mapped(t, Plain) = Mapped(rest, Plain)
    BY <1>1, <2>1, UnpausedIs
  <2>5. Kept(rest, out) = Kept(first, stay \cap out)
    BY KeptTwice
  <2> HIDE DEF out, rest
  <2>6. Mapped(Kept(t, out), Plain) = Kept(Mapped(t, Plain), out)
    BY <1>3, <2>2, KeptOfMapped
  <2>7. Mapped(Kept(rest, out), Plain) = Kept(Mapped(rest, Plain), out)
    BY <1>3, <2>1, <2>2, KeptOfMapped
  <2>8. Unpaused(Kept(t, out)) = Unpaused(Kept(rest, out))
    BY <2>1, <2>4, <2>6, <2>7, UnpausedIs
  <2>9. Unpaused(Transform(t, o, s))
          = Unpaused(Kept(first, Without(gone \cup {s})))
    BY <1>6, <2>3, <2>5, <2>8, TransformIs DEF out
  <2>10. gone \cup {s} \in SUBSET dropped
    BY <1>1, <1>6
  <2>11. QED
    BY <2>9, <2>10 DEF Faithful
<1>7. QED
  BY <1>5, <1>6 DEF Op

FaithfulInv ==
  /\ EditInv
  /\ first \in Seq(Line)
  /\ Faithful(table)
  /\ \A h \in Handler : pc[h] # "idle" => Faithful(started[h])

LEMMA FaithfulInit == Init => FaithfulInv
<1> SUFFICES ASSUME Init
             PROVE  FaithfulInv
  OBVIOUS
<1>1. first \in Seq(Line) /\ EditInv
  BY EditInit, CrontabAssumption DEF Init, CrontabAssumption
<1>2. Without({}) = Line
  BY DEF Without
<1>3. Kept(first, Without({})) = first
  BY <1>1, <1>2, KeptAll
<1>4. Faithful(table)
  BY <1>3 DEF Faithful, Init
<1>5. QED
  BY <1>1, <1>4 DEF FaithfulInv, Init

LEMMA FaithfulStep ==
  ASSUME OneFailure
  PROVE  FaithfulInv /\ [Next]_vars => FaithfulInv'
<1> SUFFICES ASSUME FaithfulInv, [Next]_vars
             PROVE  FaithfulInv'
  OBVIOUS
<1>1. /\ EditInv /\ EditInv' /\ TypeOK /\ TypeOK'
      /\ \A g, h \in Handler : g = h
  BY EditStep DEF FaithfulInv, EditInv, OneFailure, OneAtATime
<1> USE DEF request
<1>2. first' = first /\ dropped \subseteq dropped'
  BY DEF Next, Handle, Request, Refuse, Backup, Read, ReadFails, ReadNothing,
         Write, WriteFails, Check, CheckFails, Restore, vars
<1>3. ASSUME NEW t, Faithful(t)
      PROVE  \E gone \in SUBSET dropped' :
               Unpaused(t) = Unpaused(Kept(first, Without(gone)))
  BY <1>2, <1>3 DEF Faithful
<1>4. CASE \E h \in Handler, o \in Op, s \in Strategy : Request(h, o, s)
  <2>1. PICK h \in Handler, o \in Op, s \in Strategy : Request(h, o, s)
    BY <1>4
  <2>2. table' = table /\ started'[h] = table
    BY <1>1, <2>1 DEF Request, TypeOK
  <2>3. QED
    BY <1>1, <1>2, <1>3, <2>2 DEF FaithfulInv, Faithful
<1>5. ASSUME NEW h \in Handler, Handle(h)
      PROVE  FaithfulInv'
  <2>1. /\ pc[h] # "idle" /\ requests' > 0 /\ started' = started
        /\ op' = op /\ target' = target /\ dropped' = dropped
    BY <1>1, <1>5
       DEF Handle, Refuse, Backup, Read, ReadFails, ReadNothing, Write,
           WriteFails, Check, CheckFails, Restore, Call, EditInv, Asked
  <2>2. /\ Faithful(started[h]) /\ op[h] \in Op /\ target[h] \in Strategy
        /\ started[h] \in Seq(Line)
        /\ op[h] = "uninstall" => target[h] \in dropped
    BY <1>1, <2>1 DEF FaithfulInv, EditInv, Asked, TypeOK
  <2>3. Faithful(Transform(started[h], op[h], target[h]))
    BY <2>2, FaithfulTransform DEF FaithfulInv
  <2>4. table' \in {started[h], Transform(started[h], op[h], target[h])}
    BY <1>1, <2>1 DEF EditInv, AllOrNothing
  <2>5. Faithful(table')
    BY <2>2, <2>3, <2>4
  <2>6. QED
    BY <1>1, <1>2, <2>1, <2>2, <2>5 DEF FaithfulInv, Faithful
<1>6. CASE UNCHANGED vars
  BY <1>1, <1>6 DEF vars, FaithfulInv, Faithful
<1>7. QED
  BY <1>4, <1>5, <1>6 DEF Next

(* Over any number of requests, all that the table of before the first one *)
(* has lost is whole strategies that an uninstall was requested for, and    *)
(* all that it has gained is pause marks.                                   *)
THEOREM OnlyPausedOrUninstalled ==
  ASSUME OneFailure
  PROVE  Spec => []NothingElseChanges
<1>1. FaithfulInv => NothingElseChanges
  BY DEF FaithfulInv, Faithful, NothingElseChanges
<1>2. QED
  BY FaithfulInit, FaithfulStep, <1>1, PTL DEF Spec
=============================================================================
