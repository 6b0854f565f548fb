----------------------------- MODULE ViewsProofs ----------------------------
(***************************************************************************)
(* Proofs about the five modules of what clients are shown, for any        *)
(* clients, lengths of a line, chunk and file, bots, figures, sessions,    *)
(* schedules and market hours: the stream of snapshots, the log tail, the  *)
(* daily rows and their sums, the sessions, the daily summary, and the     *)
(* types of their composition. Induction, where a sum or a walk over days  *)
(* needs it, is that of FilterProofs.                                      *)
(***************************************************************************)
EXTENDS MCViews, FilterProofs, FiniteSetTheorems

(*-------------------------------------------------------------------------*)
(* The stream of snapshots.                                                *)
(*-------------------------------------------------------------------------*)

(* A client that has yet to be sent the frame was sent nothing newer.      *)
FrameIsNewer ==
  /\ frame <= moment
  /\ \A c \in Peer :
       /\ shown[c] <= moment
       /\ c \in queue /\ link[c] = "open" => shown[c] <= frame

WsInv == WsTypeOK /\ FrameIsNewer

LEMMA WsInitInv == WsInit => WsInv
BY BroadcastAssumption
   DEF BroadcastAssumption, WsInit, WsInv, WsTypeOK, FrameIsNewer

LEMMA WsInvStep == WsInv /\ [WsNext]_wsVars => WsInv'
<1> SUFFICES ASSUME WsInv, [WsNext]_wsVars
             PROVE  WsInv'
  OBVIOUS
<1> USE DEF WsInv, WsTypeOK, FrameIsNewer, tick
<1>0. /\ moment \in Nat /\ frame \in Nat /\ MaxMoment \in Nat
      /\ \A c \in Peer : shown[c] \in Nat
  BY BroadcastAssumption DEF BroadcastAssumption
<1>1. ASSUME NEW c \in Peer, Connect(c) \/ Disconnect(c)
      PROVE  WsInv'
  <2>1. CASE Connect(c)
    BY <1>0, <2>1 DEF Connect
  <2>2. CASE Disconnect(c)
    BY <1>0, <2>2 DEF Disconnect
  <2>3. QED
    BY <1>1, <2>1, <2>2
<1>2. CASE StartTick
  BY <1>0, <1>2 DEF StartTick
<1>3. ASSUME NEW c \in Peer, SendTo(c) \/ SendFails(c)
      PROVE  WsInv'
  <2>1. CASE SendTo(c)
    BY <1>0, <2>1 DEF SendTo
  <2>2. CASE SendFails(c)
    BY <1>0, <2>2 DEF SendFails
  <2>3. QED
    BY <1>3, <2>1, <2>2
<1>4. CASE EndTick
  BY <1>0, <1>4 DEF EndTick
<1>5. CASE Elapse
  BY <1>0, <1>5 DEF Elapse
<1>6. ASSUME NEW c \in Peer, Stall(c) \/ Resume(c) \/ Lose(c)
      PROVE  WsInv'
  <2>1. CASE Stall(c)
    BY <1>0, <2>1 DEF Stall
  <2>2. CASE Resume(c)
    BY <1>0, <2>2 DEF Resume
  <2>3. CASE Lose(c)
    BY <1>0, <2>3 DEF Lose
  <2>4. QED
    BY <1>6, <2>1, <2>2, <2>3
<1>7. CASE UNCHANGED wsVars
  BY <1>7 DEF wsVars
<1>8. QED
  BY <1>1, <1>2, <1>3, <1>4, <1>5, <1>6, <1>7 DEF WsNext, BroadcastLoop

(* No step sends a client an older snapshot than it has.                   *)
LEMMA SendsInOrder ==
  ASSUME WsInv, [WsNext]_wsVars, NEW c \in Peer, link[c] = "open"
  PROVE  shown'[c] >= shown[c]
<1> USE DEF WsInv, WsTypeOK, tick
<1>1. /\ shown[c] \in Nat /\ frame \in Nat
      /\ shown \in [Peer -> 0..MaxMoment] /\ MaxMoment \in Nat
  BY BroadcastAssumption DEF BroadcastAssumption
<1>2. CASE UNCHANGED shown
  BY <1>1, <1>2
<1>3. ASSUME NEW d \in Peer, Connect(d) \/ Disconnect(d)
      PROVE  shown'[c] >= shown[c]
  BY <1>1, <1>3 DEF Connect, Disconnect
<1>4. ASSUME NEW d \in Peer, SendTo(d)
      PROVE  shown'[c] >= shown[c]
  BY <1>1, <1>4 DEF SendTo, FrameIsNewer
<1>5. QED
  BY <1>2, <1>3, <1>4
     DEF WsNext, BroadcastLoop, StartTick, SendFails, EndTick, Elapse, Stall,
         Resume, Lose, wsVars

(* A client is never sent a snapshot older than one it has.                *)
THEOREM SnapshotsComeInOrder == WsSpec => SnapshotsInOrder
<1>1. WsInv /\ [WsNext]_wsVars =>
        [\A c \in Peer : link[c] = "open" => shown'[c] >= shown[c]]_wsVars
  BY SendsInOrder
<1>2. QED
  BY WsInitInv, WsInvStep, <1>1, PTL DEF WsSpec, SnapshotsInOrder

(*-------------------------------------------------------------------------*)
(* The greatest and the least of some positions.                           *)
(*-------------------------------------------------------------------------*)

LEMMA GreatestIn ==
  ASSUME NEW n \in Nat, NEW S \in SUBSET (1..n), S # {}
  PROVE  Max(S) \in S /\ \A k \in S : k <= Max(S)
<1> DEFINE T == {n - k : k \in S}
<1>1. PICK d \in T : \A c \in T : d <= c
  <2>1. T \in SUBSET Nat
    <3>1. \A k \in S : k \in 1..n /\ n - k \in Nat
      OBVIOUS
    <3>2. QED
      BY <3>1
  <2>2. T # {}
    OBVIOUS
  <2> HIDE DEF T
  <2>3. QED
    BY <2>1, <2>2, LeastNatural
<1>2. PICK m \in S : d = n - m
  OBVIOUS
<1>3. \A k \in S : m >= k
  <2>1. \A k \in S : n - m <= n - k
    BY <1>1, <1>2
  <2>2. QED
    BY <2>1
<1>4. Max(S) \in S /\ \A k \in S : Max(S) >= k
  BY <1>2, <1>3, Zenon DEF Max
<1>5. QED
  BY <1>4

LEMMA LeastIn ==
  ASSUME NEW n \in Nat, NEW S \in SUBSET (1..n), S # {}
  PROVE  Min(S) \in S /\ \A k \in S : Min(S) <= k
<1>1. \E m \in S : \A k \in S : m <= k
  <2>1. S \in SUBSET Nat
    OBVIOUS
  <2>2. QED
    BY <2>1, LeastNatural
<1>2. QED
  BY <1>1, Zenon DEF Min

(*-------------------------------------------------------------------------*)
(* The log tail.                                                           *)
(*-------------------------------------------------------------------------*)

LEMMA LastStartIs ==
  ASSUME text \in Seq(ByteKind), NEW from \in Nat, from < Size
  PROVE  LastStart(from) \in (from + 1)..Size
<1>1. Size \in Nat
  BY DEF Size
<1>2. Starts(from) \in SUBSET ((from + 1)..Size)
  BY <1>1 DEF Starts
<1>3. Starts(from) \in SUBSET (1..Size) /\ Starts(from) # {}
  BY <1>1, <1>2 DEF Starts
<1>4. LastStart(from) \in Starts(from)
  BY <1>1, <1>3, GreatestIn DEF LastStart
<1>5. QED
  BY <1>2, <1>4

(* Encoded again, bytes are at least as many, and at most three times.     *)
LEMMA EncodedIs ==
  ASSUME NEW a \in Nat, NEW b \in Int, a <= b + 1
  PROVE  /\ EncodedLength(a, b) \in Int
         /\ b - a + 1 <= EncodedLength(a, b)
         /\ EncodedLength(a, b) <= 3 * (b - a + 1)
<1> DEFINE invalid == {i \in a..b : text[i] = "invalid"}
           many == Cardinality(invalid)
<1>1. IsFiniteSet(a..b) /\ Cardinality(a..b) = b - a + 1
  <2>1. IsFiniteSet(a..b)
    BY FS_Interval
  <2>2. Cardinality(a..b) = IF a > b THEN 0 ELSE b - a + 1
    BY FS_Interval
  <2>3. QED
    BY <2>1, <2>2
<1>2. IsFiniteSet(invalid) /\ many <= Cardinality(a..b)
  <2>1. invalid \in SUBSET (a..b)
    OBVIOUS
  <2> HIDE DEF invalid
  <2>2. QED
    BY <1>1, <2>1, FS_Subset
<1>3. many \in Nat
  BY <1>2, FS_CardinalityType
<1>4. EncodedLength(a, b) = b - a + 1 + 2 * many
  BY DEF EncodedLength
<1> HIDE DEF many
<1>5. QED
  BY <1>1, <1>2, <1>3, <1>4

(* What is left for the next poll is no less than the line that is not     *)
(* shown, unless a separator is left out of it.                            *)
LEMMA TrailingIs ==
  ASSUME text \in Seq(ByteKind), NEW from \in Nat
  PROVE  /\ Trailing(from) \in 0..(3 * Size)
         /\ ShownTo(from) \in 0..Size
         /\ Incomplete(from) /\ text[Size] # "return" =>
              Size - ShownTo(from) <= Trailing(from)
         /\ ~Incomplete(from) => Trailing(from) = 0 /\ ShownTo(from) = Size
<1>1. Size \in Nat
  BY DEF Size
<1>2. CASE ~Incomplete(from)
  BY <1>1, <1>2 DEF Trailing, ShownTo
<1>3. CASE Incomplete(from)
  <2> DEFINE to == IF text[Size] = "return" THEN Size - 1 ELSE Size
             start == LastStart(from)
  <2>1. start \in (from + 1)..Size
    BY <1>3, LastStartIs DEF Incomplete
  <2>2. /\ to \in Int /\ to <= Size
        /\ text[Size] # "return" => to = Size
        /\ start \in Nat \ {0} /\ start <= Size /\ start <= to + 1
    BY <1>1, <2>1
  <2>3. Trailing(from) = EncodedLength(start, to)
    BY <1>3 DEF Trailing
  <2>4. ShownTo(from) = start - 1
    BY <1>3 DEF ShownTo
  <2> HIDE DEF start, to
  <2>5. /\ EncodedLength(start, to) \in Int
        /\ to - start + 1 <= EncodedLength(start, to)
        /\ EncodedLength(start, to) <= 3 * (to - start + 1)
    BY <2>2, EncodedIs
  <2>6. Trailing(from) \in 0..(3 * Size)
    BY <1>1, <2>2, <2>3, <2>5
  <2>7. ShownTo(from) \in 0..Size
    BY <1>1, <2>2, <2>4
  <2>8. text[Size] # "return" => Size - ShownTo(from) <= Trailing(from)
    BY <1>1, <2>2, <2>3, <2>4, <2>5
  <2>9. QED
    BY <1>3, <2>6, <2>7, <2>8
<1>4. QED
  BY <1>2, <1>3

LEMMA CursorIsShown ==
  ASSUME text \in Seq(ByteKind), NEW from \in Nat,
         seenSize \in Nat, seenSize <= Size,
         ~(from < Size /\ text[Size] = "return")
  PROVE  NextCursor(from) <= ShownTo(from)
<1>1. Size \in Nat
  BY DEF Size
<1>2. /\ Trailing(from) \in Nat /\ ShownTo(from) \in Nat
      /\ Incomplete(from) => Size - ShownTo(from) <= Trailing(from)
      /\ ~Incomplete(from) => Trailing(from) = 0 /\ ShownTo(from) = Size
  <2>1. Incomplete(from) => text[Size] # "return"
    BY DEF Incomplete
  <2>2. Trailing(from) \in 0..(3 * Size) /\ ShownTo(from) \in 0..Size
    BY TrailingIs
  <2>3. Trailing(from) \in Nat /\ ShownTo(from) \in Nat
    BY <1>1, <2>2
  <2>4. QED
    BY <2>1, <2>3, TrailingIs
<1>3. NextCursor(from) = seenSize - Trailing(from)
  BY DEF NextCursor
<1>4. QED
  BY <1>1, <1>2, <1>3

LEMMA InitialFromIs ==
  ASSUME text \in Seq(ByteKind), seenSize \in Nat
  PROVE  InitialFrom \in 0..Size
<1>1. Size \in Nat /\ Chunk \in Nat
  BY LogTailAssumption DEF LogTailAssumption, Size
<1> DEFINE start == IF seenSize > Chunk THEN seenSize - Chunk ELSE 0
           lines == IF start >= Size THEN {}
                    ELSE IF start > 0 THEN Starts(start) \ {start + 1}
                    ELSE Starts(start)
           kept  == {s \in lines : Cardinality({t \in lines : t > s}) < Limit}
<1>2. start \in Nat
  BY <1>1
<1>3. start < Size => Starts(start) \in SUBSET (1..Size)
  <2> HIDE DEF start
  <2>1. QED
    BY <1>1, <1>2 DEF Starts
<1>4. lines \in SUBSET (1..Size)
  <2>1. CASE start >= Size
    BY <2>1
  <2>2. CASE ~(start >= Size)
    <3> HIDE DEF start
    <3>1. Starts(start) \in SUBSET (1..Size)
      BY <1>1, <1>2, <1>3, <2>2
    <3>2. QED
      BY <2>2, <3>1
  <2>3. QED
    BY <2>1, <2>2
<1>5. kept \in SUBSET (1..Size)
  <2> HIDE DEF lines
  <2>1. QED
    BY <1>4
<1>6. InitialFrom = IF kept = {} THEN Size ELSE Min(kept) - 1
  BY DEF InitialFrom
<1> HIDE DEF kept
<1>7. kept # {} => Min(kept) \in 1..Size
  BY <1>1, <1>5, LeastIn
<1>8. QED
  BY <1>1, <1>6, <1>7

(* What a poll relies on between its two steps, if the log was not rotated *)
(* meanwhile.                                                              *)
TailInv ==
  /\ text \in Seq(ByteKind) /\ seenSize \in Nat /\ first \in Nat
  /\ cursor \in SUBSET Int /\ poll \in {"idle", "read"}
  /\ there \in BOOLEAN /\ stale \in BOOLEAN
  /\ cutShort \in BOOLEAN /\ initial \in BOOLEAN
  /\ poll = "read" /\ ~stale => there /\ seenSize <= Size
  /\ NothingSkipped

LEMMA TailInitInv == TailInit => TailInv
<1> SUFFICES ASSUME TailInit
             PROVE  TailInv
  OBVIOUS
<1>1. /\ there = FALSE /\ text = <<>> /\ cursor = {} /\ poll = "idle"
      /\ seenSize = 0 /\ initial = TRUE /\ first = 0 /\ stale = FALSE
      /\ cutShort = FALSE
  BY DEF TailInit
<1>2. text \in Seq(ByteKind)
  BY <1>1
<1>3. QED
  BY <1>1, <1>2 DEF TailInv, NothingSkipped

LEMMA TailInvStep == TailInv /\ [TailNext]_tailVars => TailInv'
<1> SUFFICES ASSUME TailInv, [TailNext]_tailVars
             PROVE  TailInv'
  OBVIOUS
<1> USE DEF TailInv, NothingSkipped
<1>0. Size \in Nat
  BY DEF Size
<1>1. CASE PollNoFile
  BY <1>1 DEF PollNoFile, file, Size
<1>2. CASE Stat
  <2>1. /\ there /\ poll' = "read" /\ seenSize' = Size /\ poll = "idle"
        /\ initial' = (\A c \in cursor : c > Size)
        /\ stale' = IF initial' THEN FALSE ELSE stale
        /\ cutShort' = IF initial' THEN FALSE ELSE cutShort
        /\ UNCHANGED <<there, text, cursor, got, first>>
    BY <1>2 DEF Stat, file
  <2>2. initial' \in BOOLEAN
    BY <2>1
  <2>3. Size' = Size
    BY <2>1 DEF Size
  <2>4. CASE initial'
    <3>1. NothingSkipped'
      BY <2>1, <2>4
    <3>2. stale' \in BOOLEAN /\ cutShort' \in BOOLEAN
      BY <2>1, <2>4
    <3>3. /\ there' \in BOOLEAN /\ there'
          /\ seenSize' \in Nat /\ seenSize' <= Size'
      BY <1>0, <2>1, <2>3
    <3>4. QED
      BY <2>1, <2>2, <3>1, <3>2, <3>3
  <2>5. CASE ~initial'
    BY <1>0, <2>1, <2>2, <2>3, <2>5
  <2>6. QED
    BY <2>4, <2>5
<1>3. CASE ReadInitial
  <2>1. /\ got' = (InitialFrom + 1)..Size /\ first' = InitialFrom
        /\ cursor' = {seenSize} /\ poll = "read"
        /\ poll' = "idle" /\ seenSize' = 0 /\ initial' = TRUE
        /\ UNCHANGED <<there, text, stale, cutShort>>
    BY <1>3 DEF ReadInitial, Answered, file
  <2>2. InitialFrom \in Nat
    BY <1>0, InitialFromIs
  <2>3. ~stale => (InitialFrom + 1)..seenSize \subseteq got'
    BY <1>0, <2>1, <2>2
  <2>4. NothingSkipped'
    BY <2>1, <2>3
  <2>5. QED
    BY <2>1, <2>2, <2>4
<1>4. CASE ReadOn
  <2>1. PICK from \in cursor :
          /\ from >= 0
          /\ got' = got \cup (from + 1)..ShownTo(from)
          /\ cursor' = {NextCursor(from)}
          /\ cutShort' = (cutShort \/ (from < Size /\ text[Size] = "return"))
    BY <1>4 DEF ReadOn
  <2>2. /\ poll = "read" /\ ~initial /\ poll' = "idle" /\ seenSize' = 0
        /\ initial' = TRUE
        /\ UNCHANGED <<there, text, first, stale>>
    BY <1>4 DEF ReadOn, Answered, file
  <2>3. from \in Nat
    <3>1. from \in Int
      OBVIOUS
    <3>2. QED
      BY <2>1, <3>1
  <2>4. Trailing(from) \in Nat /\ ShownTo(from) \in Nat
    <3>1. Trailing(from) \in 0..(3 * Size) /\ ShownTo(from) \in 0..Size
      BY <2>3, TrailingIs
    <3>2. QED
      BY <1>0, <3>1
  <2>5. NextCursor(from) \in Int
    BY <2>4 DEF NextCursor
  <2>6. ~stale /\ ~cutShort' => (first + 1)..NextCursor(from) \subseteq got'
    <3> SUFFICES ASSUME ~stale, ~cutShort'
                 PROVE  (first + 1)..NextCursor(from) \subseteq got'
      OBVIOUS
    <3>1. ~cutShort /\ ~(from < Size /\ text[Size] = "return")
      BY <2>1
    <3>2. (first + 1)..from \subseteq got
      BY <2>2, <3>1
    <3>3. NextCursor(from) <= ShownTo(from)
      BY <2>2, <2>3, <3>1, CursorIsShown
    <3>4. ASSUME NEW b \in (first + 1)..NextCursor(from)
          PROVE  b \in got'
      <4>1. b \in (first + 1)..from \/ b \in (from + 1)..ShownTo(from)
        BY <2>3, <2>4, <2>5, <3>3
      <4>2. QED
        BY <2>1, <3>2, <4>1
    <3>5. QED
      BY <3>4
  <2>7. NothingSkipped'
    BY <2>1, <2>2, <2>6
  <2>8. cutShort' \in BOOLEAN
    BY <2>1
  <2>9. QED
    BY <2>1, <2>2, <2>5, <2>7, <2>8
<1>5. CASE ReadFails
  BY <1>5 DEF ReadFails, Answered, file, Size
<1>6. CASE Reopen
  BY <1>6 DEF Reopen, file, Size
<1>7. ASSUME NEW byte \in ByteKind, Grow(byte)
      PROVE  TailInv'
  <2>1. /\ there' = TRUE /\ text' = Append(text, byte)
        /\ UNCHANGED <<cursor, poll, seenSize, initial, got, first, stale,
                       cutShort>>
    BY <1>7 DEF Grow
  <2>2. text' \in Seq(ByteKind) /\ Size' = Size + 1
    BY <2>1 DEF Size
  <2>3. QED
    BY <1>0, <2>1, <2>2
<1>8. ASSUME NEW anew \in BOOLEAN, Rotate(anew)
      PROVE  TailInv'
  <2>1. /\ there' = anew /\ text' = <<>>
        /\ stale' = (cursor # {} \/ poll = "read")
        /\ UNCHANGED <<cursor, poll, seenSize, initial, got, first, cutShort>>
    BY <1>8 DEF Rotate
  <2>2. QED
    BY <2>1
<1>9. CASE UNCHANGED tailVars
  BY <1>9 DEF tailVars, file, Size
<1>10. QED
  BY <1>1, <1>2, <1>3, <1>4, <1>5, <1>6, <1>7, <1>8, <1>9 DEF TailNext

(* Every byte between the first one shown and the cursor has been shown,   *)
(* however the file grows between a poll's two steps and wherever its last *)
(* line is cut off, and whatever bytes of it are invalid, unless the file  *)
(* was rotated or what was read ended in a separator that is no newline.   *)
THEOREM NoByteIsSkipped == TailSpec => []NothingSkipped
<1>1. TailInv => NothingSkipped
  BY DEF TailInv
<1>2. QED
  BY <1>1, TailInitInv, TailInvStep, PTL DEF TailSpec

LEMMA TailInitType == TailInit => TailTypeOK
<1> SUFFICES ASSUME TailInit
             PROVE  TailTypeOK
  OBVIOUS
<1>1. MaxSize \in Nat /\ MaxRotates \in Nat
  BY LogTailAssumption DEF LogTailAssumption
<1>2. /\ there = FALSE /\ text = <<>> /\ cursor = {} /\ poll = "idle"
      /\ seenSize = 0 /\ initial = TRUE /\ got = {} /\ first = 0
      /\ stale = FALSE /\ cutShort = FALSE /\ rotates = 0
  BY DEF TailInit
<1>3. text \in Seq(ByteKind) /\ Len(text) <= MaxSize
  BY <1>1, <1>2
<1>4. cursor \in SUBSET (-3 * MaxSize..MaxSize) /\ got \in SUBSET (1..MaxSize)
  BY <1>2
<1>5. seenSize \in 0..MaxSize /\ first \in 0..MaxSize
      /\ rotates \in 0..MaxRotates
  BY <1>1, <1>2
<1>6. QED
  BY <1>2, <1>3, <1>4, <1>5 DEF TailTypeOK

LEMMA TailStepType == TailTypeOK /\ [TailNext]_tailVars => TailTypeOK'
<1> SUFFICES ASSUME TailTypeOK, [TailNext]_tailVars
             PROVE  TailTypeOK'
  OBVIOUS
<1> USE DEF TailTypeOK
<1>1. MaxSize \in Nat \ {0} /\ MaxRotates \in Nat
  BY LogTailAssumption DEF LogTailAssumption
<1>2. Size \in 0..MaxSize /\ -3 * MaxSize \in Int
  BY <1>1 DEF Size
<1>3. CASE PollNoFile
  <2>1. cursor' \in SUBSET (-3 * MaxSize..MaxSize)
    BY <1>1, <1>3 DEF PollNoFile
  <2>2. QED
    BY <1>3, <2>1 DEF PollNoFile, file
<1>4. CASE Stat
  <2>1. /\ seenSize' = Size /\ poll' = "read"
        /\ initial' = (\A c \in cursor : c > Size)
        /\ stale' = IF initial' THEN FALSE ELSE stale
        /\ cutShort' = IF initial' THEN FALSE ELSE cutShort
        /\ UNCHANGED <<there, text, cursor, got, first, rotates>>
    BY <1>4 DEF Stat, file
  <2>2. initial' \in BOOLEAN
    BY <2>1
  <2>3. stale' \in BOOLEAN /\ cutShort' \in BOOLEAN
    BY <2>1
  <2>4. QED
    BY <1>2, <2>1, <2>2, <2>3
<1>5. CASE ReadInitial
  <2>1. /\ got' = (InitialFrom + 1)..Size /\ first' = InitialFrom
        /\ cursor' = {seenSize} /\ poll' = "idle"
        /\ seenSize' = 0 /\ initial' = TRUE
        /\ UNCHANGED <<there, text, stale, cutShort, rotates>>
    BY <1>5 DEF ReadInitial, Answered, file
  <2>2. InitialFrom \in 0..Size
    BY <1>1, InitialFromIs
  <2>3. got' \in SUBSET (1..MaxSize)
    <3>1. ASSUME NEW b \in (InitialFrom + 1)..Size
          PROVE  b \in 1..MaxSize
      BY <1>1, <1>2, <2>2
    <3>2. QED
      BY <2>1, <3>1
  <2>4. cursor' \in SUBSET (-3 * MaxSize..MaxSize)
    BY <1>1, <1>2, <2>1
  <2>5. first' \in 0..MaxSize /\ seenSize' \in 0..MaxSize
    BY <1>1, <1>2, <2>1, <2>2
  <2>6. QED
    BY <2>1, <2>3, <2>4, <2>5
<1>6. CASE ReadOn
  <2>1. PICK from \in cursor :
          /\ from >= 0
          /\ got' = got \cup (from + 1)..ShownTo(from)
          /\ cursor' = {NextCursor(from)}
          /\ cutShort' = (cutShort \/ (from < Size /\ text[Size] = "return"))
    BY <1>6 DEF ReadOn
  <2>2. /\ poll' = "idle" /\ seenSize' = 0 /\ initial' = TRUE
        /\ UNCHANGED <<there, text, first, stale, rotates>>
    BY <1>6 DEF ReadOn, Answered, file
  <2>3. from \in Nat
    <3>1. from \in Int
      BY <1>1
    <3>2. QED
      BY <2>1, <3>1
  <2>4. Trailing(from) \in 0..(3 * Size) /\ ShownTo(from) \in 0..Size
    BY <2>3, TrailingIs
  <2>5. got' \in SUBSET (1..MaxSize)
    <3>1. ASSUME NEW b \in (from + 1)..ShownTo(from)
          PROVE  b \in 1..MaxSize
      BY <1>1, <1>2, <2>3, <2>4
    <3>2. QED
      BY <2>1, <3>1
  <2>6. NextCursor(from) \in -3 * MaxSize..MaxSize
    BY <1>1, <1>2, <2>4 DEF NextCursor
  <2>7. seenSize' \in 0..MaxSize /\ cutShort' \in BOOLEAN
    BY <1>1, <2>1, <2>2
  <2>8. QED
    BY <2>1, <2>2, <2>5, <2>6, <2>7
<1>7. CASE ReadFails
  <2>1. seenSize' \in 0..MaxSize
    BY <1>1, <1>7 DEF ReadFails, Answered
  <2>2. QED
    BY <1>7, <2>1 DEF ReadFails, Answered, file
<1>8. CASE Reopen
  <2>1. cursor' \in SUBSET (-3 * MaxSize..MaxSize) /\ first' \in 0..MaxSize
    BY <1>1, <1>8 DEF Reopen
  <2>2. QED
    BY <1>8, <2>1 DEF Reopen, file
<1>9. ASSUME NEW byte \in ByteKind, Grow(byte)
      PROVE  TailTypeOK'
  <2>1. /\ Size < MaxSize /\ there' = TRUE /\ text' = Append(text, byte)
        /\ UNCHANGED <<cursor, poll, seenSize, initial, got, first, stale,
                       cutShort, rotates>>
    BY <1>9 DEF Grow
  <2>2. text' \in Seq(ByteKind) /\ Len(text') = Size + 1
    BY <2>1 DEF Size
  <2>3. Len(text') <= MaxSize
    BY <1>1, <1>2, <2>1, <2>2
  <2>4. QED
    BY <2>1, <2>2, <2>3
<1>10. ASSUME NEW anew \in BOOLEAN, Rotate(anew)
       PROVE  TailTypeOK'
  <2>1. /\ rotates < MaxRotates /\ rotates' = rotates + 1
        /\ there' = anew /\ text' = <<>>
        /\ stale' = (cursor # {} \/ poll = "read")
        /\ UNCHANGED <<cursor, poll, seenSize, initial, got, first, cutShort>>
    BY <1>10 DEF Rotate
  <2>2. rotates' \in 0..MaxRotates
    BY <1>1, <2>1
  <2>3. text' \in Seq(ByteKind) /\ Len(text') <= MaxSize
    BY <1>1, <2>1
  <2>4. QED
    BY <2>1, <2>2, <2>3
<1>11. CASE UNCHANGED tailVars
  BY <1>11 DEF tailVars, file
<1>12. QED
  BY <1>3, <1>4, <1>5, <1>6, <1>7, <1>8, <1>9, <1>10, <1>11 DEF TailNext

(*-------------------------------------------------------------------------*)
(* The daily rows.                                                         *)
(*-------------------------------------------------------------------------*)

HasRow(t, b, d) == \E i \in 1..Len(t) : t[i].bot = b /\ t[i].date = d

(* The rows are in the order of their dates, and of each strategy and date *)
(* there is one at most, but for the dates of W.                           *)
Chronicle(t, d, W) ==
  /\ t \in Seq(Row)
  /\ \A i \in 1..Len(t) : t[i].date <= d
  /\ \A i, j \in 1..Len(t) : i <= j => t[i].date <= t[j].date
  /\ \A i, j \in 1..Len(t) :
       t[i].bot = t[j].bot /\ t[i].date = t[j].date /\ t[i].date \notin W =>
         i = j

(* A day that is over and was not missed has its rows, unless it was short *)
(* of an hour; the day that goes on has them once the loop sleeps until    *)
(* the next one. Only the sleep until 23:59 of a short day ends too late.  *)
HistoryInv ==
  /\ HistoryTypeOK
  /\ Chronicle(rows, day, misread)
  /\ end = "bare" => rows # <<>>
  /\ due <= day + 1
  /\ off = 1 => due \in Short
  /\ \A b \in Bot, d \in 0..day :
       /\ d \notin missed
       /\ \/ d < day /\ d \notin Short
          \/ d = day /\ sched = "asleep" /\ due > day
       => HasRow(rows, b, d)

(* A look at the first rows, and the days W on which one has failed then.  *)
Looked(upto, W) ==
  /\ upto \in 0..Len(rows)
  /\ misread \subseteq W
  /\ upto < Len(rows) => day \in W

(* The rows of one call: of the day, of one strategy each of which none    *)
(* was found, and of every such strategy.                                  *)
NewRows(batch, upto) ==
  /\ batch \in Seq(Row)
  /\ \A i \in 1..Len(batch) :
       batch[i].date = day /\ batch[i].bot \in Bot \ Already(day, upto)
  /\ \A i, j \in 1..Len(batch) : batch[i].bot = batch[j].bot => i = j
  /\ \A b \in Bot \ Already(day, upto) :
       \E i \in 1..Len(batch) : batch[i].bot = b

LEMMA BatchIsNew ==
  ASSUME HistoryTypeOK, NEW totals \in Totals, NEW upto
  PROVE  NewRows(Batch(totals, upto), upto)
<1> DEFINE all == [b \in Bot |-> b]
           absent == Bot \ Already(day, upto)
           todo == Kept(all, absent)
           row(b) == [bot |-> b, date |-> day, total |-> totals[b]]
<1>1. all \in Seq(Bot) /\ Len(all) = Cardinality(Bot) /\ Members(all) = Bot
      /\ NoneTwice(all)
  <2>1. Cardinality(Bot) \in Nat /\ Bot = 1..Cardinality(Bot)
    BY DailyHistoryAssumption, FS_CardinalityType DEF DailyHistoryAssumption
  <2>2. all \in Seq(Bot) /\ Len(all) = Cardinality(Bot)
    BY <2>1
  <2>3. QED
    BY <2>1, <2>2 DEF Members, NoneTwice
<1>2. Batch(totals, upto) = [i \in DOMAIN todo |-> row(todo[i])]
  BY DEF Batch
<1> HIDE DEF all, absent
<1>3. todo \in Seq(Bot) /\ Members(todo) = Bot \cap absent /\ NoneTwice(todo)
  BY <1>1, KeptInSeq, KeptMembers
<1> HIDE DEF todo
<1>4. \A b \in Bot : row(b) \in Row
  <2>1. \A b \in Bot : totals[b] \in {{}} \cup {{n} : n \in Pnl}
    BY DailyHistoryAssumption DEF DailyHistoryAssumption
  <2>2. QED
    BY <2>1 DEF Row, HistoryTypeOK
<1>5. /\ Batch(totals, upto) \in Seq(Row)
      /\ Len(Batch(totals, upto)) = Len(todo)
      /\ \A i \in 1..Len(todo) : Batch(totals, upto)[i] = row(todo[i])
  BY <1>2, <1>3, <1>4
<1> DEFINE batch == Batch(totals, upto)
<1> HIDE DEF batch
<1>6. \A i \in 1..Len(todo) :
        /\ todo[i] \in absent
        /\ batch[i].bot = todo[i] /\ batch[i].date = day
  <2>1. \A b : row(b).bot = b /\ row(b).date = day
    OBVIOUS
  <2> HIDE DEF row
  <2>2. \A i \in 1..Len(todo) : todo[i] \in absent /\ batch[i] = row(todo[i])
    BY <1>3, <1>5 DEF Members, batch
  <2>3. QED
    BY <2>1, <2>2
<1>7. \A i, j \in 1..Len(todo) : batch[i].bot = batch[j].bot => i = j
  BY <1>3, <1>6 DEF NoneTwice
<1>8. \A b \in Bot \ Already(day, upto) :
        \E i \in 1..Len(todo) : batch[i].bot = b
  BY <1>3, <1>6 DEF Members, absent
<1>9. NewRows(batch, upto)
  BY <1>5, <1>6, <1>7, <1>8 DEF NewRows, absent, batch
<1>10. QED
  BY <1>9 DEF batch

(* Some of the rows there are, then some of the new ones. *)
Spliced(m, batch, p, n) == SubSeq(rows, 1, m) \o SubSeq(batch, p, n)

LEMMA RowsSpliced ==
  ASSUME HistoryInv, NEW batch, NEW upto, NewRows(batch, upto),
         NEW W, Looked(upto, W),
         NEW m \in 0..Len(rows), NEW p \in {1, 2}, NEW n \in 0..Len(batch)
  PROVE  LET t == Spliced(m, batch, p, n) IN
         /\ Chronicle(t, day, W)
         /\ m <= Len(t)
         /\ \A i \in 1..m : t[i] = rows[i]
         /\ m = Len(rows) /\ p = 1 /\ n = Len(batch) =>
              \A b \in Bot : HasRow(t, b, day)
<1> DEFINE old == SubSeq(rows, 1, m)
           new == SubSeq(batch, p, n)
           t == old \o new
<1>1. /\ rows \in Seq(Row) /\ Len(rows) \in Nat /\ day \in Nat
      /\ batch \in Seq(Row) /\ Len(batch) \in Nat
      /\ \A r \in Row : r.date \in Nat /\ r.bot \in Bot
  BY DailyHistoryAssumption
     DEF HistoryInv, Chronicle, NewRows, HistoryTypeOK, Row,
         DailyHistoryAssumption
<1>2. /\ old \in Seq(Row) /\ Len(old) = m
      /\ \A i \in 1..m : old[i] = rows[i] /\ i \in 1..Len(rows)
  BY <1>1
<1>3. /\ new \in Seq(Row) /\ Len(new) \in Nat /\ Len(new) <= Len(batch)
      /\ \A i \in 1..Len(new) :
           new[i] = batch[p - 1 + i] /\ p - 1 + i \in 1..Len(batch)
      /\ p = 1 => Len(new) = n
  BY <1>1
<1> HIDE DEF old, new
<1>4. /\ t \in Seq(Row) /\ Len(t) = m + Len(new)
      /\ \A i \in 1..m : t[i] = old[i]
      /\ \A i \in (m + 1)..Len(t) : t[i] = new[i - m] /\ i - m \in 1..Len(new)
  <2>1. /\ t \in Seq(Row) /\ Len(t) = m + Len(new)
        /\ \A i \in 1..Len(t) : t[i] = IF i <= m THEN old[i] ELSE new[i - m]
    <3>1. /\ t \in Seq(Row) /\ Len(t) = Len(old) + Len(new)
          /\ \A i \in 1..(Len(old) + Len(new)) :
               t[i] = IF i <= Len(old) THEN old[i] ELSE new[i - Len(old)]
      BY <1>2, <1>3, ConcatProperties, Zenon
    <3> HIDE DEF t
    <3>2. QED
      BY <1>2, <3>1
  <2> HIDE DEF t
  <2>2. \A i \in 1..m : t[i] = old[i]
    BY <1>3, <2>1
  <2>3. \A i \in (m + 1)..Len(t) : t[i] = new[i - m] /\ i - m \in 1..Len(new)
    BY <1>3, <2>1
  <2>4. QED
    BY <2>1, <2>2, <2>3
<1> HIDE DEF t
<1>5. \A i \in 1..m : i \in 1..Len(rows) /\ t[i] = rows[i]
  BY <1>2, <1>4
<1>6. \A i \in (m + 1)..Len(t) :
        /\ p - 1 + i - m \in 1..Len(batch)
        /\ t[i] = batch[p - 1 + i - m]
        /\ t[i].date = day /\ t[i].bot \notin Already(day, upto)
  BY <1>1, <1>3, <1>4 DEF NewRows
<1>7. \A i \in 1..Len(t) : i \in 1..m \/ i \in (m + 1)..Len(t)
  BY <1>4
<1>8. \A i \in 1..m : t[i].date <= day /\ t[i].date \in Nat
  BY <1>1, <1>5 DEF HistoryInv, Chronicle
<1>9. ASSUME NEW i \in 1..m, NEW j \in (m + 1)..Len(t),
             t[i].bot = t[j].bot, t[i].date = t[j].date, t[i].date \notin W
      PROVE  FALSE
  <2>1. rows[i].date = day /\ rows[i].bot = t[j].bot /\ i \in DOMAIN rows
    BY <1>1, <1>5, <1>6, <1>9
  <2>2. i <= upto
    <3>1. day \notin W
      BY <1>6, <1>9
    <3>2. ~(upto < Len(rows)) /\ upto \in 0..Len(rows)
      BY <3>1 DEF Looked
    <3>3. i \in 1..Len(rows)
      BY <1>5
    <3>4. QED
      BY <1>1, <3>2, <3>3
  <2>3. t[j].bot \in Already(day, upto)
    BY <2>1, <2>2 DEF Already
  <2>4. QED
    BY <2>3, <1>6
<1>10. ASSUME NEW i \in (m + 1)..Len(t), NEW j \in (m + 1)..Len(t),
              t[i].bot = t[j].bot
       PROVE  i = j
  <2>1. /\ p - 1 + i - m \in 1..Len(batch) /\ t[i] = batch[p - 1 + i - m]
        /\ p - 1 + j - m \in 1..Len(batch) /\ t[j] = batch[p - 1 + j - m]
    BY <1>6
  <2>2. p - 1 + i - m = p - 1 + j - m
    BY <2>1, <1>10 DEF NewRows
  <2>3. QED
    BY <2>2
<1>11. ASSUME NEW i \in 1..m, NEW j \in 1..m
       PROVE  /\ i <= j => t[i].date <= t[j].date
              /\ t[i].bot = t[j].bot /\ t[i].date = t[j].date
                   /\ t[i].date \notin W => i = j
  BY <1>5 DEF HistoryInv, Chronicle, Looked
<1>12. Chronicle(t, day, W)
  <2>1. \A i \in 1..Len(t) : t[i].date <= day
    BY <1>1, <1>6, <1>7, <1>8
  <2>2. \A i, j \in 1..Len(t) : i <= j => t[i].date <= t[j].date
    <3> SUFFICES ASSUME NEW i \in 1..Len(t), NEW j \in 1..Len(t), i <= j
                 PROVE  t[i].date <= t[j].date
      OBVIOUS
    <3>1. CASE j \in 1..m
      BY <3>1, <1>11
    <3>2. CASE j \in (m + 1)..Len(t)
      BY <3>2, <2>1, <1>6
    <3>3. QED
      BY <3>1, <3>2, <1>7
  <2>3. \A i, j \in 1..Len(t) :
          t[i].bot = t[j].bot /\ t[i].date = t[j].date /\ t[i].date \notin W =>
            i = j
    BY <1>7, <1>9, <1>10, <1>11
  <2>4. QED
    BY <1>4, <2>1, <2>2, <2>3 DEF Chronicle
<1>13. ASSUME m = Len(rows), p = 1, n = Len(batch), NEW b \in Bot
       PROVE  HasRow(t, b, day)
  <2> USE DEF HasRow
  <2>1. CASE b \in Already(day, upto)
    <3>1. PICK i \in 1..Len(rows) : rows[i].bot = b /\ rows[i].date = day
      BY <1>1, <2>1 DEF Already
    <3>2. i \in 1..Len(t)
      BY <1>3, <1>4, <1>13
    <3>3. QED
      BY <1>5, <1>13, <3>1, <3>2
  <2>2. CASE b \notin Already(day, upto)
    <3>1. PICK i \in 1..Len(batch) : batch[i].bot = b
      BY <2>2 DEF NewRows
    <3>2. m + i \in (m + 1)..Len(t) /\ p - 1 + (m + i) - m = i
      BY <1>1, <1>3, <1>4, <1>13
    <3>3. QED
      BY <1>6, <3>1, <3>2
  <2>3. QED
    BY <2>1, <2>2
<1>14. m <= Len(t) /\ \A i \in 1..m : t[i] = rows[i]
  BY <1>3, <1>4, <1>5
<1>15. QED
  BY <1>12, <1>13, <1>14 DEF t, old, new, Spliced

LEMMA SwallowedDays ==
  ASSUME HistoryInv, NEW batch
  PROVE  Swallowed(batch) \subseteq 0..MaxDay
<1>1. /\ rows \in Seq(Row) /\ day \in 0..MaxDay
      /\ \A r \in Row : r.date \in 0..MaxDay
  BY DEF HistoryInv, HistoryTypeOK, Row
<1>2. end = "bare" => Len(rows) \in 1..Len(rows)
  BY <1>1 DEF HistoryInv
<1>3. QED
  BY <1>1, <1>2 DEF Swallowed

(* After an append of some of the new rows the file is still a chronicle,  *)
(* and has lost the rows of no day but those that Swallowed names.         *)
LEMMA AppendedRows ==
  ASSUME HistoryInv, NEW batch, NEW upto, NewRows(batch, upto),
         NEW W, Looked(upto, W), NEW n \in 0..Len(batch)
  PROVE  LET t == Appended(SubSeq(batch, 1, n)) IN
         /\ Chronicle(t, day, W)
         /\ \A b, d : HasRow(rows, b, d) /\ d \notin Swallowed(batch) =>
                      HasRow(t, b, d)
         /\ n = Len(batch) /\ day \notin Swallowed(batch) =>
              \A b \in Bot : HasRow(t, b, day)
         /\ n > (IF end = "whole" THEN 0 ELSE 1) => t # <<>>
<1> DEFINE kept == SubSeq(batch, 1, n)
           t == Appended(kept)
<1>1. /\ rows \in Seq(Row) /\ Len(rows) \in Nat
      /\ batch \in Seq(Row) /\ Len(batch) \in Nat /\ n \in Nat
      /\ end \in {"whole", "torn", "bare"}
      /\ end = "bare" => Len(rows) >= 1
  BY DEF HistoryInv, HistoryTypeOK, NewRows
<1>2. kept \in Seq(Row) /\ Len(kept) = n /\ (n = 0 <=> kept = <<>>)
  BY <1>1
<1>3. SubSeq(rows, 1, Len(rows)) = rows
  <2>1. /\ SubSeq(rows, 1, Len(rows)) \in Seq(Row)
        /\ Len(SubSeq(rows, 1, Len(rows))) = Len(rows)
        /\ \A i \in 1..Len(rows) : SubSeq(rows, 1, Len(rows))[i] = rows[i]
    BY <1>1
  <2>2. QED
    BY <1>1, <2>1, SeqEqual
<1>4. n > 0 => Tail(kept) = SubSeq(batch, 2, n)
  <2>1. SUFFICES ASSUME n > 0
                 PROVE  Tail(kept) = SubSeq(batch, 2, n)
    OBVIOUS
  <2>2. /\ Tail(kept) \in Seq(Row) /\ Len(Tail(kept)) = n - 1
        /\ \A i \in 1..(n - 1) : Tail(kept)[i] = batch[i + 1]
    <3>1. /\ Len(kept) = n /\ \A i \in 1..n : kept[i] = batch[i]
          /\ kept \in Seq(Row)
      BY <1>1
    <3>2. kept # <<>>
      BY <1>2, <2>1
    <3> HIDE DEF kept
    <3>3. /\ Tail(kept) \in Seq(Row) /\ Len(Tail(kept)) = n - 1
          /\ \A i \in 1..(n - 1) : Tail(kept)[i] = kept[i + 1]
      BY <3>1, <3>2
    <3>4. \A i \in 1..(n - 1) : i + 1 \in 1..n
      BY <1>1
    <3>5. QED
      BY <3>1, <3>3, <3>4
  <2>3. /\ SubSeq(batch, 2, n) \in Seq(Row) /\ Len(SubSeq(batch, 2, n)) = n - 1
        /\ \A i \in 1..(n - 1) : SubSeq(batch, 2, n)[i] = batch[i + 1]
    BY <1>1, <2>1
  <2>4. QED
    BY <2>2, <2>3, SeqEqual
<1>r. Len(rows) \in 0..Len(rows)
  BY <1>1
<1> HIDE DEF kept
<1>5. CASE end = "whole" \/ n = 0
  <2>1. t = Spliced(Len(rows), batch, 1, n)
    BY <1>2, <1>3, <1>5 DEF Appended, Spliced, kept
  <2> HIDE DEF t
  <2>2. /\ Chronicle(t, day, W) /\ Len(rows) <= Len(t)
        /\ \A i \in 1..Len(rows) : t[i] = rows[i]
        /\ n = Len(batch) => \A b \in Bot : HasRow(t, b, day)
    BY <1>1, <1>r, <2>1, RowsSpliced
  <2>3. \A b, d : HasRow(rows, b, d) => HasRow(t, b, d)
    BY <1>1, <2>2 DEF HasRow, Chronicle
  <2>4. end = "whole" /\ n > 0 => t # <<>>
    <3>1. ASSUME end = "whole", n > 0
          PROVE  Len(t) > 0
      BY <1>1, <1>2, <1>5, <3>1 DEF t, Appended
    <3>2. QED
      BY <3>1
  <2>5. QED
    BY <1>1, <1>5, <2>2, <2>3, <2>4 DEF t, kept
<1>6. CASE end = "torn" /\ n > 0
  <2>1. t = Spliced(Len(rows), batch, 2, n) /\ day \in Swallowed(batch)
    <3>1. kept # <<>> /\ batch # <<>>
      BY <1>1, <1>2, <1>6
    <3>2. t = rows \o Tail(kept)
      BY <1>6, <3>1 DEF Appended
    <3>3. QED
      BY <1>3, <1>4, <1>6, <3>1, <3>2 DEF Swallowed, Spliced
  <2> HIDE DEF t
  <2>2. /\ Chronicle(t, day, W) /\ Len(rows) <= Len(t)
        /\ \A i \in 1..Len(rows) : t[i] = rows[i]
    BY <1>1, <1>r, <2>1, RowsSpliced
  <2>3. \A b, d : HasRow(rows, b, d) => HasRow(t, b, d)
    BY <1>1, <2>2 DEF HasRow, Chronicle
  <2>4. n > 1 => t # <<>>
    <3>1. ASSUME n > 1
          PROVE  Len(t) > 0
      BY <1>1, <1>2, <1>4, <1>6, <3>1 DEF t, Appended
    <3>2. QED
      BY <3>1
  <2>5. QED
    BY <1>6, <2>1, <2>2, <2>3, <2>4 DEF t, kept
<1>7. CASE end = "bare" /\ n > 0
  <2>1. t = Spliced(Len(rows) - 1, batch, 2, n)
    <3>1. kept # <<>> /\ end # "whole"
      BY <1>1, <1>2, <1>7
    <3>2. t = SubSeq(rows, 1, Len(rows) - 1) \o Tail(kept)
      BY <1>7, <3>1 DEF Appended
    <3>3. QED
      BY <1>4, <1>7, <3>2 DEF Spliced
  <2>2. day \in Swallowed(batch) /\ rows[Len(rows)].date \in Swallowed(batch)
    BY <1>1, <1>2, <1>7 DEF Swallowed
  <2> HIDE DEF t
  <2>3. /\ Chronicle(t, day, W) /\ Len(rows) - 1 <= Len(t)
        /\ \A i \in 1..(Len(rows) - 1) : t[i] = rows[i]
    <3>1. Len(rows) - 1 \in 0..Len(rows)
      BY <1>1, <1>7
    <3>2. QED
      BY <1>1, <2>1, <3>1, RowsSpliced
  <2>4. ASSUME NEW b, NEW d, HasRow(rows, b, d), d \notin Swallowed(batch)
        PROVE  HasRow(t, b, d)
    <3>1. PICK i \in 1..Len(rows) : rows[i].bot = b /\ rows[i].date = d
      BY <2>4 DEF HasRow
    <3>2. i # Len(rows)
      BY <2>2, <2>4, <3>1
    <3>3. i \in 1..(Len(rows) - 1) /\ i \in 1..Len(t)
      BY <1>1, <2>3, <3>1, <3>2 DEF Chronicle
    <3>4. QED
      BY <2>3, <3>1, <3>3 DEF HasRow
  <2>5. n > 1 => t # <<>>
    <3>1. ASSUME n > 1
          PROVE  Len(t) > 0
      <4>1. /\ SubSeq(rows, 1, Len(rows) - 1) \in Seq(Row)
            /\ SubSeq(batch, 2, n) \in Seq(Row)
            /\ Len(SubSeq(batch, 2, n)) = n - 1
        BY <1>1, <1>7, <3>1
      <4>2. QED
        <5>1. Len(t) = Len(SubSeq(rows, 1, Len(rows) - 1)) + (n - 1)
          BY <2>1, <4>1, ConcatProperties DEF Spliced
        <5>2. QED
          BY <1>1, <3>1, <4>1, <5>1
    <3>2. QED
      BY <3>1
  <2>6. QED
    BY <1>7, <2>2, <2>3, <2>4, <2>5 DEF t, kept
<1>8. QED
  BY <1>1, <1>5, <1>6, <1>7

LEMMA HistoryInitInv == HistoryInit => HistoryInv
<1> SUFFICES ASSUME HistoryInit
             PROVE  HistoryInv
  OBVIOUS
<1>1. /\ day = 0 /\ hour = 0 /\ rows = <<>> /\ end = "whole"
      /\ sched = "boot" /\ due = 0 /\ off = 0 /\ deaths = 0
      /\ missed = {} /\ misread = {}
      /\ MaxDay \in Nat /\ MaxDeaths \in Nat
  BY DailyHistoryAssumption DEF DailyHistoryAssumption, HistoryInit
<1>2. rows \in Seq(Row) /\ Len(rows) = 0
  BY <1>1
<1>3. HistoryTypeOK
  <2>1. 0 \in 0..MaxDay /\ 0 \in 0..(MaxDay + 1) /\ 0 \in 0..MaxDeaths
    BY <1>1
  <2>2. QED
    BY <1>1, <1>2, <2>1 DEF HistoryTypeOK
<1>4. Chronicle(rows, day, misread)
  BY <1>1, <1>2 DEF Chronicle
<1>5. QED
  BY <1>1, <1>3, <1>4 DEF HistoryInv

(* Rows of the future are of no day so far. *)
LEMMA ChronicleGoesOn ==
  ASSUME NEW t, NEW d \in Nat, NEW W, Chronicle(t, d, W)
  PROVE  Chronicle(t, d + 1, W)
<1>1. \A i \in 1..Len(t) : t[i] \in Row /\ t[i].date <= d
  BY DEF Chronicle
<1>2. \A r \in Row : r.date \in Nat
  BY DailyHistoryAssumption DEF Row, DailyHistoryAssumption
<1>3. \A i \in 1..Len(t) : t[i].date <= d + 1
  BY <1>1, <1>2
<1>4. QED
  BY <1>3 DEF Chronicle

LEMMA SleepIs ==
  ASSUME HistoryInv, SleepOn
  PROVE  /\ sched' = "asleep"
         /\ due' \in 0..(MaxDay + 1) /\ due' <= day + 1
         /\ off' \in -1..1 /\ (off' = 1 => due' \in Short)
<1>1. day \in 0..MaxDay /\ MaxDay \in Nat
  BY DailyHistoryAssumption
     DEF HistoryInv, HistoryTypeOK, DailyHistoryAssumption
<1>2. sched' = "asleep" /\ due' = Next2359 /\ off' = OffBy
  BY DEF SleepOn
<1>3. due' \in 0..(MaxDay + 1) /\ due' <= day + 1
  BY <1>1, <1>2 DEF Next2359
<1>4. off' \in -1..1 /\ (off' = 1 => due' \in Short)
  BY <1>2 DEF OffBy
<1>5. QED
  BY <1>2, <1>3, <1>4

LEMMA GiveUpIs ==
  ASSUME HistoryInv, GiveUp
  PROVE  /\ sched' \in {"asleep", "backoff"}
         /\ due' \in 0..(MaxDay + 1) /\ due' <= day + 1
         /\ off' \in -1..1 /\ (off' = 1 => due' \in Short)
<1>1. CASE sched = "boot"
  BY <1>1, SleepIs DEF GiveUp
<1>2. CASE sched # "boot"
  <2>1. sched' = "backoff" /\ UNCHANGED <<due, off>>
    BY <1>2 DEF GiveUp
  <2>2. QED
    BY <2>1 DEF HistoryInv, HistoryTypeOK
<1>3. QED
  BY <1>1, <1>2

LEMMA LookIs ==
  ASSUME HistoryInv, NEW upto, Look(upto)
  PROVE  Looked(upto, misread') /\ misread' \in SUBSET (0..MaxDay)
BY DEF HistoryInv, HistoryTypeOK, Look, Looked

(* A snapshot, or the part of one that a death left. *)
LEMMA TakeKeepsHistory ==
  ASSUME HistoryInv, NEW totals \in Totals, NEW upto, Take(totals, upto)
  PROVE  HistoryInv'
<1> DEFINE batch == Batch(totals, upto)
           n == Len(batch)
<1>1. NewRows(batch, upto)
  BY BatchIsNew DEF HistoryInv
<1>2. /\ rows' = Appended(batch)
      /\ end' = IF batch = <<>> THEN end ELSE "whole"
      /\ missed' = missed \cup Swallowed(batch)
      /\ deaths' = deaths + Spent(upto) /\ deaths' <= MaxDeaths
      /\ Look(upto) /\ SleepOn
      /\ UNCHANGED <<day, hour>>
  BY DEF Take, clock
<1> HIDE DEF batch
<1>3. batch \in Seq(Row) /\ n \in 0..Len(batch) /\ SubSeq(batch, 1, n) = batch
  <2>1. batch \in Seq(Row) /\ n \in Nat
    BY <1>1 DEF NewRows
  <2>2. /\ SubSeq(batch, 1, n) \in Seq(Row) /\ Len(SubSeq(batch, 1, n)) = n
        /\ \A i \in 1..n : SubSeq(batch, 1, n)[i] = batch[i]
    BY <2>1
  <2>3. QED
    BY <2>1, <2>2, SeqEqual
<1>4. Looked(upto, misread') /\ misread' \in SUBSET (0..MaxDay)
  BY <1>2, LookIs
<1>5. /\ Chronicle(rows', day, misread')
      /\ \A b, d : HasRow(rows, b, d) /\ d \notin Swallowed(batch) =>
                   HasRow(rows', b, d)
      /\ day \notin Swallowed(batch) => \A b \in Bot : HasRow(rows', b, day)
  <2>1. Appended(SubSeq(batch, 1, n)) = rows' /\ n = Len(batch)
    BY <1>2, <1>3
  <2> HIDE DEF n
  <2>2. QED
    BY <1>1, <1>3, <1>4, <2>1, AppendedRows
<1>6. Swallowed(batch) \subseteq 0..MaxDay
  BY SwallowedDays
<1>7. end' = "bare" => rows' # <<>>
  BY <1>2, <1>3 DEF HistoryInv, Appended, HistoryTypeOK
<1>8. /\ sched' = "asleep"
      /\ due' \in 0..(MaxDay + 1) /\ due' <= day' + 1
      /\ off' \in -1..1 /\ (off' = 1 => due' \in Short)
  BY <1>2, SleepIs
<1>9. HistoryTypeOK'
  <2>1. deaths' \in 0..MaxDeaths
    BY <1>2, DailyHistoryAssumption
       DEF HistoryInv, HistoryTypeOK, DailyHistoryAssumption, Spent
  <2>2. end' \in {"whole", "torn", "bare"}
    BY <1>2 DEF HistoryInv, HistoryTypeOK
  <2>3. rows' \in Seq(Row) /\ missed' \in SUBSET (0..MaxDay)
    BY <1>2, <1>5, <1>6 DEF HistoryInv, HistoryTypeOK, Chronicle
  <2>4. QED
    BY <1>2, <1>4, <1>8, <2>1, <2>2, <2>3 DEF HistoryInv, HistoryTypeOK
<1>10. ASSUME NEW b \in Bot, NEW d \in 0..day', d \notin missed',
              (d < day' /\ d \notin Short) \/ d = day'
       PROVE  HasRow(rows', b, d)
  BY <1>2, <1>5, <1>10 DEF HistoryInv, HistoryTypeOK
<1>11. QED
  BY <1>2, <1>5, <1>7, <1>8, <1>9, <1>10 DEF HistoryInv

LEMMA BreakKeepsHistory ==
  ASSUME HistoryInv, NEW totals \in Totals, NEW upto,
         NEW n \in 0..Cardinality(Bot),
         NEW broken \in {"whole", "torn", "bare"},
         BreakOff(totals, upto, n, broken)
  PROVE  HistoryInv'
<1> DEFINE batch == Batch(totals, upto)
           kept == SubSeq(batch, 1, n)
<1>1. NewRows(batch, upto)
  BY BatchIsNew DEF HistoryInv
<1>2. /\ deaths + Spent(upto) < MaxDeaths /\ deaths' = deaths + Spent(upto) + 1
      /\ n <= Len(batch)
      /\ broken = "bare" => n > (IF end = "whole" THEN 0 ELSE 1)
      /\ broken = "torn" => n < Len(batch)
      /\ rows' = IF broken = "torn" /\ n = 0 /\ end = "bare"
                 THEN SubSeq(rows, 1, Len(rows) - 1)
                 ELSE Appended(kept)
      /\ end' = broken
      /\ missed' = missed \cup {day} \cup Swallowed(batch)
      /\ Look(upto)
      /\ UNCHANGED <<day, hour>>
      /\ (sched' = "down" /\ UNCHANGED <<due, off>>) \/ GiveUp
  BY DEF BreakOff, clock
<1> HIDE DEF batch
<1>3. n \in 0..Len(batch)
  <2>1. Len(batch) \in Nat /\ n \in Nat
    BY <1>1, DailyHistoryAssumption, FS_CardinalityType
       DEF NewRows, DailyHistoryAssumption
  <2>2. QED
    BY <1>2, <2>1
<1>4. Looked(upto, misread') /\ misread' \in SUBSET (0..MaxDay)
  BY <1>2, LookIs
<1>5. /\ Chronicle(rows', day, misread')
      /\ \A b, d : HasRow(rows, b, d) /\ d \notin Swallowed(batch) =>
                   HasRow(rows', b, d)
      /\ end' = "bare" => rows' # <<>>
  <2>1. CASE broken = "torn" /\ n = 0 /\ end = "bare"
    <3>1. /\ rows \in Seq(Row) /\ Len(rows) \in Nat /\ Len(rows) >= 1
          /\ batch \in Seq(Row) /\ batch # <<>>
      BY <1>1, <1>2, <2>1 DEF HistoryInv, HistoryTypeOK, NewRows
    <3>2. rows' = Spliced(Len(rows) - 1, batch, 1, 0)
      <4>1. SubSeq(batch, 1, 0) = <<>>
        BY <3>1
      <4>2. SubSeq(rows, 1, Len(rows) - 1) \in Seq(Row)
        BY <3>1
      <4>3. rows' = SubSeq(rows, 1, Len(rows) - 1)
        BY <1>2, <2>1
      <4>4. QED
        BY <4>1, <4>2, <4>3, ConcatEmptySeq DEF Spliced
    <3>3. /\ Chronicle(rows', day, misread') /\ Len(rows) - 1 <= Len(rows')
          /\ \A i \in 1..(Len(rows) - 1) : rows'[i] = rows[i]
      <4>1. Len(rows) - 1 \in 0..Len(rows) /\ 0 \in 0..Len(batch)
        BY <3>1
      <4>2. QED
        BY <1>1, <1>4, <3>2, <4>1, RowsSpliced
    <3>4. rows[Len(rows)].date \in Swallowed(batch)
      BY <2>1, <3>1 DEF Swallowed
    <3>5. ASSUME NEW b, NEW d, HasRow(rows, b, d), d \notin Swallowed(batch)
          PROVE  HasRow(rows', b, d)
      <4>1. PICK i \in 1..Len(rows) : rows[i].bot = b /\ rows[i].date = d
        BY <3>5 DEF HasRow
      <4>2. i # Len(rows)
        BY <3>4, <3>5, <4>1
      <4>3. i \in 1..(Len(rows) - 1) /\ i \in 1..Len(rows')
        BY <3>1, <3>3, <4>1, <4>2 DEF Chronicle
      <4>4. QED
        BY <3>3, <4>1, <4>3 DEF HasRow
    <3>6. QED
      BY <1>2, <2>1, <3>3, <3>5
  <2>2. CASE ~ (broken = "torn" /\ n = 0 /\ end = "bare")
    <3>1. rows' = Appended(SubSeq(batch, 1, n))
      BY <1>2, <2>2
    <3>2. QED
      BY <1>1, <1>2, <1>3, <1>4, <3>1, AppendedRows
  <2>3. QED
    BY <2>1, <2>2
<1>6. Swallowed(batch) \subseteq 0..MaxDay
  BY SwallowedDays
<1>0. /\ sched' \in {"asleep", "backoff", "down"}
      /\ due' \in 0..(MaxDay + 1) /\ off' \in -1..1
      /\ due' <= day' + 1 /\ (off' = 1 => due' \in Short)
  <2>1. CASE GiveUp
    BY <1>2, <2>1, GiveUpIs
  <2>2. CASE sched' = "down" /\ UNCHANGED <<due, off>>
    BY <1>2, <2>2 DEF HistoryInv, HistoryTypeOK
  <2>3. QED
    BY <1>2, <2>1, <2>2
<1>7. HistoryTypeOK'
  <2>1. deaths' \in 0..MaxDeaths
    BY <1>2, DailyHistoryAssumption
       DEF HistoryInv, HistoryTypeOK, DailyHistoryAssumption, Spent
  <2>2. rows' \in Seq(Row) /\ missed' \in SUBSET (0..MaxDay)
    BY <1>2, <1>5, <1>6 DEF HistoryInv, HistoryTypeOK, Chronicle
  <2>3. QED
    BY <1>0, <1>2, <1>4, <2>1, <2>2 DEF HistoryInv, HistoryTypeOK
<1>8. ASSUME NEW b \in Bot, NEW d \in 0..day', d \notin missed', d < day',
             d \notin Short
      PROVE  HasRow(rows', b, d)
  BY <1>2, <1>5, <1>8 DEF HistoryInv
<1>9. day \in missed'
  BY <1>2
<1>10. QED
  BY <1>0, <1>2, <1>5, <1>7, <1>8, <1>9 DEF HistoryInv

LEMMA HistoryStep == HistoryInv /\ [HistoryNext]_historyVars => HistoryInv'
<1> SUFFICES ASSUME HistoryInv, [HistoryNext]_historyVars
             PROVE  HistoryInv'
  OBVIOUS
<1>0. MaxDay \in Nat /\ MaxDeaths \in Nat /\ day \in Nat
  BY DailyHistoryAssumption
     DEF DailyHistoryAssumption, HistoryInv, HistoryTypeOK
<1>1. ASSUME NEW totals \in Totals, NEW upto, Take(totals, upto)
      PROVE  HistoryInv'
  BY <1>1, TakeKeepsHistory
<1>2. ASSUME NEW totals \in Totals, NEW upto,
             NEW n \in 0..Cardinality(Bot),
             NEW broken \in {"whole", "torn", "bare"},
             BreakOff(totals, upto, n, broken)
      PROVE  HistoryInv'
  BY <1>2, BreakKeepsHistory
<1> USE DEF HistoryInv, HistoryTypeOK
<1>3. CASE TakeFails
  <2>1. /\ deaths' \in 0..MaxDeaths /\ missed' = missed \cup {day}
        /\ UNCHANGED <<day, hour, rows, end, misread>>
        /\ GiveUp
    BY <1>0, <1>3 DEF TakeFails, clock
  <2>2. /\ sched' \in {"asleep", "backoff"}
        /\ due' \in 0..(MaxDay + 1) /\ due' <= day + 1
        /\ off' \in -1..1 /\ (off' = 1 => due' \in Short)
    BY <2>1, GiveUpIs
  <2>3. QED
    BY <2>1, <2>2
<1>4. CASE BackedOff
  <2>1. /\ ~Late /\ UNCHANGED <<day, hour, rows, end, deaths, missed, misread>>
        /\ SleepOn
    BY <1>4 DEF BackedOff, clock
  <2>2. /\ due' \in 0..(MaxDay + 1) /\ due' <= day + 1 /\ sched' = "asleep"
        /\ off' \in -1..1 /\ (off' = 1 => due' \in Short)
    BY <2>1, SleepIs
  <2>3. ~(due' > day)
    BY <1>0, <2>1 DEF SleepOn, Next2359
  <2>4. QED
    BY <2>1, <2>2, <2>3
<1>5. CASE Stop
  BY <1>0, <1>5 DEF Stop, clock
<1>6. CASE Boot
  BY <1>6 DEF Boot, clock
<1>7. CASE HourPasses
  <2>1. hour' \in 0..2
    BY <1>7 DEF HourPasses, Late
  <2>2. QED
    BY <1>7, <2>1 DEF HourPasses
<1>8. CASE Midnight
  <2>1. /\ Late /\ ~Takes /\ day' = day + 1 /\ day < MaxDay /\ hour' = 0
        /\ missed' = IF sched = "asleep" THEN missed ELSE missed \cup {day}
        /\ UNCHANGED <<rows, end, sched, due, off, deaths, misread>>
    BY <1>8 DEF Midnight
  <2>2. Chronicle(rows, day', misread)
    BY <2>1, ChronicleGoesOn
  <2>3. sched = "asleep" => due > day \/ day \in Short
    <3>1. ASSUME sched = "asleep", ~(due > day)
          PROVE  due = day /\ off = 1
      <4>1. ~Due
        BY <2>1, <3>1 DEF Takes
      <4>2. due = day
        BY <3>1, <4>1 DEF Due
      <4>3. hour = 2
        BY <2>1 DEF Late
      <4>4. off # 0 /\ off # -1
        BY <4>1, <4>2, <4>3 DEF Due, Late
      <4>5. QED
        BY <4>2, <4>4
    <3>2. QED
      BY <3>1
  <2>4. due' <= day' + 1 /\ ~(due' > day')
    BY <2>1
  <2>5. ASSUME NEW b \in Bot, NEW d \in 0..day', d \notin missed', d < day',
               d \notin Short
        PROVE  HasRow(rows', b, d)
    <3>1. d \in 0..day
      BY <2>1, <2>5
    <3>2. d \notin missed
      BY <2>1, <2>5
    <3>3. CASE d < day
      BY <2>1, <2>5, <3>1, <3>2, <3>3
    <3>4. CASE d = day
      <4>1. sched = "asleep"
        BY <2>1, <2>5, <3>4
      <4>2. due > day
        BY <2>3, <2>5, <3>4, <4>1
      <4>3. HasRow(rows, b, d)
        BY <3>1, <3>2, <3>4, <4>1, <4>2
      <4>4. QED
        BY <2>1, <4>3
    <3>5. QED
      BY <3>1, <3>3, <3>4
  <2>6. HistoryTypeOK'
    <3>1. day' \in 0..MaxDay
      BY <1>0, <2>1
    <3>2. missed' \in SUBSET (0..MaxDay)
      BY <2>1
    <3>3. QED
      BY <2>1, <3>1, <3>2
  <2>7. QED
    BY <2>1, <2>2, <2>4, <2>5, <2>6
<1>9. CASE UNCHANGED historyVars
  BY <1>9 DEF historyVars, clock
<1>10. QED
  BY <1>1, <1>2, <1>3, <1>4, <1>5, <1>6, <1>7, <1>8, <1>9
     DEF HistoryNext, Snapshot

LEMMA HistoryHolds == HistorySpec => []HistoryInv
BY HistoryInitInv, HistoryStep, PTL DEF HistorySpec

(* However often the server dies in a write or starts again, a strategy    *)
(* has one row for each past day, but for those in missed and those short  *)
(* of an hour, and never two for a day on which it could read the file.    *)
THEOREM OneRowForEachDay == HistorySpec => []OneRowPerDay
<1>1. HistoryInv => OneRowPerDay
  <2> SUFFICES ASSUME HistoryInv, NEW b \in Bot, NEW d \in 0..day
               PROVE  /\ d \notin misread => Cardinality(RowsOf(b, d)) <= 1
                      /\ d < day /\ d \notin missed \cup Short =>
                           RowsOf(b, d) # {}
    BY DEF OneRowPerDay
  <2> DEFINE those == RowsOf(b, d)
  <2>1. those = {i \in 1..Len(rows) : rows[i].bot = b /\ rows[i].date = d}
    BY DEF HistoryInv, HistoryTypeOK, RowsOf
  <2>2. d \notin misread => \A i, j \in those : i = j
    BY <2>1 DEF HistoryInv, Chronicle
  <2>3. d < day /\ d \notin missed \cup Short => those # {}
    BY <2>1 DEF HistoryInv, HasRow
  <2> HIDE DEF those
  <2>4. d \notin misread => Cardinality(those) <= 1
    <3>1. CASE those = {}
      BY <3>1, FS_EmptySet
    <3>2. CASE those # {} /\ d \notin misread
      <4>1. PICK i : those = {i}
        BY <2>2, <3>2
      <4>2. Cardinality({i}) = 1
        BY FS_Singleton
      <4>3. QED
        BY <4>1, <4>2
    <3>3. QED
      BY <3>1, <3>2
  <2>5. QED
    BY <2>3, <2>4 DEF those
<1>2. QED
  BY <1>1, HistoryHolds, PTL

(* The file is in the order of its dates, whatever was appended when: this *)
(* is why the model of read_pnl_entries need not sort.                     *)
LEMMA RowsAreSorted ==
  HistorySpec =>
    [](\A i, j \in 1..Len(rows) : i <= j => rows[i].date <= rows[j].date)
<1>1. HistoryInv =>
        \A i, j \in 1..Len(rows) : i <= j => rows[i].date <= rows[j].date
  BY DEF HistoryInv, Chronicle
<1>2. QED
  BY <1>1, HistoryHolds, PTL

(*-------------------------------------------------------------------------*)
(* The daily figures.                                                      *)
(*-------------------------------------------------------------------------*)

LEMMA MaxIs ==
  ASSUME NEW n \in Nat, NEW S \in SUBSET (1..n), NEW m \in S,
         \A k \in S : k <= m
  PROVE  Max(S) = m
<1>1. Max(S) \in S /\ \A k \in S : k <= Max(S)
  BY GreatestIn
<1>2. \A k \in S : k \in Nat
  OBVIOUS
<1>3. Max(S) <= m /\ m <= Max(S) /\ Max(S) \in Nat /\ m \in Nat
  BY <1>1, <1>2
<1>4. QED
  BY <1>3

(* The rows of S that have a total, and what it is. *)
Known(e, S) == {k \in S : e[k].total # {}}
Value(e, k) == CHOOSE n \in Pnl : e[k].total = {n}

LEMMA ValueIs ==
  ASSUME NEW e \in Seq(Row), NEW k \in 1..Len(e), e[k].total # {}
  PROVE  e[k].total = {Value(e, k)} /\ Value(e, k) \in Int
<1>1. e[k] \in Row
  OBVIOUS
<1>2. \E n \in Pnl : e[k].total = {n}
  BY <1>1 DEF Row
<1>3. Value(e, k) \in Pnl /\ e[k].total = {Value(e, k)}
  BY <1>2, Zenon DEF Value
<1>4. QED
  BY <1>3, DailyHistoryAssumption DEF DailyHistoryAssumption

(* A daily figure is what was gained since the last row that has a total.  *)
LEMMA GainIs ==
  ASSUME NEW e \in Seq(Row), NEW k \in 1..Len(e)
  PROVE  /\ e[k].total = {} \/ Known(e, 1..(k - 1)) = {} => Gain(e, k) = 0
         /\ e[k].total # {} /\ Known(e, 1..(k - 1)) # {} =>
              Gain(e, k) =
                Value(e, k) - Value(e, Max(Known(e, 1..(k - 1))))
<1> DEFINE earlier == Known(e, 1..(k - 1))
<1>1. /\ earlier \in SUBSET (1..(k - 1)) /\ k - 1 \in Nat
      /\ \A j \in earlier : j \in 1..Len(e) /\ e[j].total # {}
  BY DEF Known
<1>2. Baseline(e, k) = {j \in earlier : \A m \in earlier : m <= j}
  BY DEF Baseline, Known
<1>3. Delta(e, k) = {n - m : n \in e[k].total,
                            m \in UNION {e[j].total : j \in Baseline(e, k)}}
  BY DEF Delta
<1>4. ASSUME e[k].total = {} \/ earlier = {}
      PROVE  Gain(e, k) = 0
  <2>1. Delta(e, k) = {}
    BY <1>2, <1>3, <1>4
  <2>2. QED
    BY <2>1 DEF Gain
<1>5. ASSUME e[k].total # {}, earlier # {}
      PROVE  Gain(e, k) = Value(e, k) - Value(e, Max(earlier))
  <2> DEFINE m == Max(earlier)
  <2>1. m \in earlier /\ \A j \in earlier : j <= m
    BY <1>1, <1>5, GreatestIn
  <2>2. Baseline(e, k) = {m}
    <3>1. \A j \in earlier : m <= j => j = m
      BY <1>1, <2>1
    <3> HIDE DEF m, earlier
    <3>2. QED
      BY <1>2, <2>1, <3>1
  <2> HIDE DEF m, earlier
  <2>3. e[k].total = {Value(e, k)} /\ e[m].total = {Value(e, m)}
    BY <1>1, <1>5, <2>1, ValueIs
  <2>4. UNION {e[j].total : j \in Baseline(e, k)} = {Value(e, m)}
    BY <2>2, <2>3
  <2>5. Delta(e, k) = {Value(e, k) - Value(e, m)}
    BY <1>3, <2>3, <2>4
  <2>6. QED
    BY <2>5 DEF Gain, m
<1>6. QED
  BY <1>4, <1>5

(* What was gained from row f to row k. *)
Gained(e, f, k) ==
  IF k < f THEN 0 ELSE Value(e, Max(Known(e, 1..k))) - Value(e, f)

(* The row that the sum from row i on starts from: the last one before i   *)
(* that has a total or, if there is none, the first one.                   *)
StartsFrom(e, i, f) ==
  /\ f \in 1..Len(e) /\ e[f].total # {}
  /\ f < i => \A j \in (f + 1)..(i - 1) : e[j].total = {}
  /\ f >= i => \A j \in 1..(f - 1) : e[j].total = {}

LEMMA GainedStep ==
  ASSUME NEW e \in Seq(Row), NEW i \in 1..Len(e), NEW f, StartsFrom(e, i, f),
         NEW k \in i..Len(e)
  PROVE  Gained(e, f, k) = Gained(e, f, k - 1) + Gain(e, k)
<1> DEFINE upto == Known(e, 1..k)
           then == Known(e, 1..(k - 1))
<1>1. /\ k \in 1..Len(e) /\ k \in Nat /\ k - 1 \in Nat /\ i \in Nat
      /\ f \in 1..Len(e) /\ f \in Nat /\ e[f].total # {}
  BY DEF StartsFrom
<1>2. /\ upto \in SUBSET (1..k) /\ then \in SUBSET (1..(k - 1))
      /\ f <= k => f \in upto
      /\ f < k => f \in then
      /\ \A j \in upto : j # k => j \in then
      /\ \A j \in then : j \in upto /\ j # k
      /\ k \in upto <=> e[k].total # {}
      /\ \A j \in upto : j \in 1..Len(e) /\ e[j].total # {}
      /\ \A j \in then : j \in 1..Len(e) /\ e[j].total # {}
  BY <1>1 DEF Known
<1> HIDE DEF upto, then
<1>3. \A j \in 1..Len(e) : e[j].total # {} => Value(e, j) \in Int
  BY ValueIs
<1>4. CASE e[k].total = {}
  <2>1. Gain(e, k) = 0
    BY <1>1, <1>4, GainIs
  <2>2. upto = then
    BY <1>2, <1>4
  <2>3. f # k
    BY <1>1, <1>4
  <2>4. k < f <=> k - 1 < f
    BY <1>1, <2>3
  <2>5. f <= k => Value(e, Max(upto)) - Value(e, f) \in Int
    <3>1. SUFFICES ASSUME f <= k
                   PROVE  Value(e, Max(upto)) - Value(e, f) \in Int
      OBVIOUS
    <3>2. Max(upto) \in upto
      BY <1>1, <1>2, <3>1, GreatestIn
    <3>3. Max(upto) \in 1..Len(e) /\ e[Max(upto)].total # {}
      BY <1>2, <3>2
    <3>4. QED
      BY <1>1, <1>3, <3>3
  <2>6. QED
    BY <1>1, <2>1, <2>2, <2>4, <2>5 DEF Gained, upto, then
<1>5. CASE e[k].total # {}
  <2>1. Max(upto) = k
    <3>1. \A j \in upto : j <= k
      BY <1>2
    <3>2. QED
      BY <1>1, <1>2, <1>5, <3>1, MaxIs
  <2>2. f <= k
    BY <1>1, <1>5 DEF StartsFrom
  <2>3. CASE f = k
    <3>1. then = {}
      BY <1>1, <2>3 DEF StartsFrom, Known, then
    <3>2. Gain(e, k) = 0
      BY <1>1, <3>1, GainIs DEF then
    <3>3. Gained(e, f, k - 1) = 0
      BY <1>1, <2>3 DEF Gained
    <3>4. Gained(e, f, k) = Value(e, k) - Value(e, k)
      BY <1>1, <2>1, <2>3 DEF Gained, upto
    <3>5. QED
      BY <1>1, <1>3, <1>5, <3>2, <3>3, <3>4
  <2>4. CASE f < k
    <3>1. then # {} /\ Max(then) \in then
      BY <1>1, <1>2, <2>4, GreatestIn
    <3>2. Max(then) \in 1..Len(e) /\ e[Max(then)].total # {}
      BY <1>2, <3>1
    <3>3. Gain(e, k) = Value(e, k) - Value(e, Max(then))
      BY <1>1, <1>5, <3>1, GainIs DEF then
    <3>4. Gained(e, f, k - 1) = Value(e, Max(then)) - Value(e, f)
      BY <1>1, <2>4 DEF Gained, then
    <3>5. Gained(e, f, k) = Value(e, k) - Value(e, f)
      BY <1>1, <2>1, <2>4 DEF Gained, upto
    <3>6. QED
      BY <1>1, <1>3, <1>5, <3>2, <3>3, <3>4, <3>5
  <2>5. QED
    BY <1>1, <2>2, <2>3, <2>4
<1>6. QED
  BY <1>4, <1>5

LEMMA GainedBase ==
  ASSUME NEW e \in Seq(Row), NEW i \in 1..Len(e), NEW f, StartsFrom(e, i, f)
  PROVE  Gained(e, f, i - 1) = 0
<1>1. /\ f \in 1..Len(e) /\ f \in Nat /\ i \in Nat /\ i - 1 \in Nat
      /\ e[f].total # {}
  BY DEF StartsFrom
<1>2. CASE i - 1 < f
  BY <1>2 DEF Gained
<1>3. CASE ~ (i - 1 < f)
  <2> DEFINE S == Known(e, 1..(i - 1))
  <2>1. S \in SUBSET (1..(i - 1)) /\ f \in S
    BY <1>1, <1>3 DEF Known
  <2>2. \A j \in S : j <= f
    BY <1>1, <1>3 DEF StartsFrom, Known
  <2> HIDE DEF S
  <2>3. Max(S) = f
    BY <1>1, <2>1, <2>2, MaxIs
  <2>4. Value(e, f) \in Int
    BY <1>1, ValueIs
  <2>5. QED
    BY <1>1, <1>3, <2>3, <2>4 DEF Gained, S
<1>4. QED
  BY <1>2, <1>3

LEMMA SumIs ==
  ASSUME NEW e \in Seq(Row), NEW i \in 1..Len(e), NEW f, StartsFrom(e, i, f)
  PROVE  SumOf(i, e) = Gained(e, f, Len(e))
<1> DEFINE sum == CHOOSE s : s = [k \in (i - 1)..Len(e) |->
                    IF k = i - 1 THEN 0 ELSE s[k - 1] + Gain(e, k)]
           G == {n \in Nat : i - 1 + n <= Len(e) =>
                   sum[i - 1 + n] = Gained(e, f, i - 1 + n)}
<1>1. i \in Nat /\ Len(e) \in Nat /\ i - 1 \in Nat /\ i <= Len(e)
  OBVIOUS
<1>2. SumOf(i, e) = sum[Len(e)]
  BY Zenon DEF SumOf
<1>3. \E s : s = [k \in (i - 1)..Len(e) |->
                  IF k = i - 1 THEN 0 ELSE s[k - 1] + Gain(e, k)]
  <2> DEFINE r == [k \in (i - 1)..Len(e) |-> Gained(e, f, k)]
  <2>1. ASSUME NEW k \in (i - 1)..Len(e)
        PROVE  r[k] = IF k = i - 1 THEN 0 ELSE r[k - 1] + Gain(e, k)
    <3>1. CASE k = i - 1
      BY <3>1, GainedBase
    <3>2. CASE k # i - 1
      <4>1. k \in i..Len(e) /\ k - 1 \in (i - 1)..Len(e)
        BY <1>1, <3>2
      <4>2. r[k] = Gained(e, f, k) /\ r[k - 1] = Gained(e, f, k - 1)
        BY <4>1
      <4> HIDE DEF r
      <4>3. QED
        BY <3>2, <4>1, <4>2, GainedStep
    <3>3. QED
      BY <3>1, <3>2
  <2>2. r = [k \in (i - 1)..Len(e) |-> r[k]]
    OBVIOUS
  <2> HIDE DEF r
  <2>3. r = [k \in (i - 1)..Len(e) |->
              IF k = i - 1 THEN 0 ELSE r[k - 1] + Gain(e, k)]
    BY <2>1, <2>2
  <2>4. QED
    BY <2>3
<1>4. sum = [k \in (i - 1)..Len(e) |->
               IF k = i - 1 THEN 0 ELSE sum[k - 1] + Gain(e, k)]
  BY <1>3, Zenon
<1> HIDE DEF sum
<1>5. 0 \in G
  <2>1. i - 1 + 0 = i - 1 /\ i - 1 \in (i - 1)..Len(e)
    BY <1>1
  <2>2. sum[i - 1] = 0
    BY <1>4, <2>1
  <2>3. QED
    BY <2>1, <2>2, GainedBase
<1>6. ASSUME NEW n \in G
      PROVE  n + 1 \in G
  <2>1. SUFFICES ASSUME i - 1 + (n + 1) <= Len(e)
                 PROVE  sum[i - 1 + (n + 1)] = Gained(e, f, i - 1 + (n + 1))
    OBVIOUS
  <2> DEFINE k == i - 1 + (n + 1)
  <2>2. /\ k \in i..Len(e) /\ k \in (i - 1)..Len(e) /\ k # i - 1
        /\ k - 1 = i - 1 + n /\ i - 1 + n <= Len(e)
    BY <1>1, <2>1
  <2>3. sum[k - 1] = Gained(e, f, k - 1)
    BY <2>2
  <2> HIDE DEF k
  <2>4. sum[k] = sum[k - 1] + Gain(e, k)
    BY <1>4, <2>2
  <2>5. sum[k] = Gained(e, f, k)
    BY <2>2, <2>3, <2>4, GainedStep
  <2>6. QED
    BY <2>5 DEF k
<1>7. G = Nat
  <2>1. G \in SUBSET Nat
    OBVIOUS
  <2> HIDE DEF G
  <2>2. QED
    BY <1>5, <1>6, <2>1, InductionOverNat
<1>8. Len(e) - (i - 1) \in G /\ i - 1 + (Len(e) - (i - 1)) = Len(e)
  <2> HIDE DEF G
  <2>1. QED
    BY <1>1, <1>7
<1>9. QED
  BY <1>1, <1>2, <1>8

(* Of any rows: the figures from one on sum to the difference of totals.   *)
LEMMA Telescope ==
  ASSUME NEW e \in Seq(Row), NEW i \in 1..Len(e),
         Known(e, i..Len(e)) # {}
  PROVE  LET window == Known(e, i..Len(e))
             before == Known(e, 1..(i - 1))
             from   == IF before # {} THEN Max(before) ELSE Min(window)
         IN  e[Max(window)].total =
               {n + SumOf(i, e) : n \in e[from].total}
<1> DEFINE window == Known(e, i..Len(e))
           before == Known(e, 1..(i - 1))
           from   == IF before # {} THEN Max(before) ELSE Min(window)
           last   == Max(window)
<1>1. /\ Len(e) \in Nat /\ i \in Nat /\ i - 1 \in Nat
      /\ window \in SUBSET (1..Len(e)) /\ window # {}
      /\ before \in SUBSET (1..(i - 1))
  BY DEF Known
<1>2. last \in window /\ \A j \in window : j <= last
  BY <1>1, GreatestIn
<1>3. StartsFrom(e, i, from) /\ from <= last
  <2>1. CASE before # {}
    <3>1. from \in before /\ \A j \in before : j <= from
      BY <1>1, <2>1, GreatestIn
    <3> HIDE DEF from, last
    <3>2. /\ from \in 1..(i - 1) /\ e[from].total # {}
          /\ \A j \in (from + 1)..(i - 1) : e[j].total = {}
      BY <1>1, <3>1 DEF Known
    <3>3. last >= i
      BY <1>1, <1>2 DEF Known
    <3>4. QED
      BY <1>1, <1>2, <3>2, <3>3 DEF StartsFrom
  <2>2. CASE before = {}
    <3>1. from \in window /\ \A j \in window : from <= j
      BY <1>1, <2>2, LeastIn
    <3> HIDE DEF from, last
    <3>2. /\ from \in i..Len(e) /\ e[from].total # {}
          /\ \A j \in 1..(from - 1) : e[j].total = {}
      <4>1. from \in i..Len(e) /\ e[from].total # {}
        BY <3>1 DEF Known
      <4>2. ASSUME NEW j \in 1..(from - 1), e[j].total # {}
            PROVE  FALSE
        <5>1. CASE j < i
          BY <1>1, <2>2, <4>1, <4>2, <5>1 DEF Known
        <5>2. CASE j >= i
          BY <1>1, <3>1, <4>1, <4>2, <5>2 DEF Known
        <5>3. QED
          BY <1>1, <4>1, <5>1, <5>2
      <4>3. QED
        BY <4>1, <4>2
    <3>3. QED
      BY <1>1, <1>2, <3>1, <3>2 DEF StartsFrom
  <2>3. QED
    BY <2>1, <2>2
<1> HIDE DEF from, last
<1>4. Max(Known(e, 1..Len(e))) = last
  <2> DEFINE S == Known(e, 1..Len(e))
  <2>1. S \in SUBSET (1..Len(e)) /\ last \in S
    BY <1>1, <1>2 DEF Known
  <2>2. \A j \in S : j <= last
    BY <1>1, <1>2 DEF Known
  <2> HIDE DEF S
  <2>3. Max(S) = last
    BY <1>1, <2>1, <2>2, MaxIs
  <2>4. QED
    BY <2>3 DEF S
<1>5. SumOf(i, e) = Value(e, last) - Value(e, from)
  <2>1. SumOf(i, e) = Gained(e, from, Len(e))
    BY <1>3, SumIs
  <2>2. from \in 1..Len(e)
    BY <1>3 DEF StartsFrom
  <2>3. QED
    BY <1>1, <1>4, <2>1, <2>2 DEF Gained
<1>6. /\ e[last].total = {Value(e, last)} /\ Value(e, last) \in Int
      /\ e[from].total = {Value(e, from)} /\ Value(e, from) \in Int
  <2>1. last \in 1..Len(e) /\ e[last].total # {}
    BY <1>1, <1>2 DEF Known
  <2>2. from \in 1..Len(e) /\ e[from].total # {}
    BY <1>3 DEF StartsFrom
  <2>3. QED
    BY <2>1, <2>2, ValueIs
<1>7. e[last].total = {n + SumOf(i, e) : n \in e[from].total}
  BY <1>5, <1>6
<1>8. QED
  BY <1>7 DEF from, last

(* The figures of the last rows of a strategy, however many, add up to     *)
(* what it gained over them, whatever days have no row or no total.        *)
THEOREM FiguresAddUp == HistorySpec => []DeltasTelescope
<1>1. HistoryInv => DeltasTelescope
  <2>1. SUFFICES ASSUME HistoryInv
                 PROVE  DeltasTelescope
    OBVIOUS
  <2>2. \A b \in Bot, since \in 0..MaxDay : Entries(b, since) \in Seq(Row)
    BY <2>1, KeptInSeq DEF Entries, HistoryInv, HistoryTypeOK
  <2>3. ASSUME NEW b \in Bot, NEW since \in 0..MaxDay,
               NEW i \in DOMAIN Entries(b, since)
        PROVE  LET e == Entries(b, since)
                   window == Known(e, i..Len(e))
                   before == Known(e, 1..(i - 1))
                   from   == IF before # {} THEN Max(before) ELSE Min(window)
               IN  window # {} =>
                     e[Max(window)].total =
                       {n + SumOf(i, e) : n \in e[from].total}
    <3>1. Entries(b, since) \in Seq(Row) /\ i \in 1..Len(Entries(b, since))
      BY <2>2
    <3>2. QED
      BY <3>1, Telescope, Zenon
  <2>4. QED
    BY <2>3, Zenon DEF DeltasTelescope, Known
<1>2. QED
  BY <1>1, HistoryHolds, PTL

(*-------------------------------------------------------------------------*)
(* The sessions.                                                           *)
(*-------------------------------------------------------------------------*)

(* What is so of a session that was listed, whatever is written later: its *)
(* lines follow one another, from the one it starts with, which no line    *)
(* that is still in view comes close to from before.                       *)
StartsAt(s, a) ==
  /\ a \in s.lines /\ written[a] = {s.start}
  /\ \A k \in s.lines : a <= k
  /\ \A j \in 1..(a - 1) :
       j \in Recent => \A t \in written[j] : s.start - t >= Gap

IsSession(s) ==
  /\ s.lines \in SUBSET (1..Len(written))
  /\ s.start \in 1..MaxClock /\ s.end \in 1..MaxClock
  /\ \E a \in s.lines : StartsAt(s, a)
  /\ \A k \in s.lines : \A t \in written[k] : s.start <= t /\ t <= s.end
  /\ \A x, y \in s.lines : \A j \in x..y : j \in s.lines

Precedes(s, t) ==
  /\ s.end < t.start
  /\ \A k \in s.lines, j \in t.lines : k < j

(* The strategy's clock does not go back.                                  *)
Clocked ==
  /\ \A i, j \in 1..Len(written) : i <= j =>
       \A t \in written[i], u \in written[j] : t <= u
  /\ \A i \in 1..Len(written) : \A t \in written[i] : t <= time

Gapless(S) ==
  \A s, t \in S : \A x \in s.lines, y \in t.lines : \A j \in x..y :
    \E w \in S : j \in w.lines

SessionsInv ==
  /\ SessionsTypeOK
  /\ Clocked
  /\ \A s \in listed : IsSession(s)
  /\ \A s, t \in listed : s # t => Precedes(s, t) \/ Precedes(t, s)
  /\ Gapless(listed)

LEMMA SessionsFacts ==
  ASSUME SessionsTypeOK
  PROVE  /\ Gap \in Nat /\ Gap >= 1 /\ PageSize \in Nat /\ Window \in Nat
         /\ written \in Seq({{}} \cup {{t} : t \in 1..MaxClock})
         /\ Len(written) \in Nat /\ MaxClock \in Nat
         /\ Recent \in SUBSET (1..Len(written))
         /\ \A i \in Recent, k \in 1..Len(written) : i <= k => k \in Recent
         /\ Stamped \in SUBSET Recent
<1>1. /\ Gap \in Nat \ {0} /\ PageSize \in Nat \ {0} /\ Window \in Nat \ {0}
      /\ MaxClock \in Nat
  BY SessionsAssumption DEF SessionsAssumption
<1>2. written \in Seq({{}} \cup {{t} : t \in 1..MaxClock})
  BY DEF SessionsTypeOK
<1>3. Len(written) \in Nat /\ DOMAIN written = 1..Len(written)
  BY <1>2
<1>4. QED
  BY <1>1, <1>2, <1>3 DEF Recent, Stamped

LEMMA StampIs ==
  ASSUME SessionsTypeOK, NEW k \in 1..Len(written), written[k] # {}
  PROVE  written[k] = {Stamp(k)} /\ Stamp(k) \in 1..MaxClock
<1>1. \E t \in 1..MaxClock : written[k] = {t}
  BY SessionsFacts
<1>2. QED
  BY <1>1 DEF Stamp

LEMMA LastIs ==
  ASSUME NEW n \in Nat, NEW S \in SUBSET (1..n), S # {}
  PROVE  LastOf(S) \in S /\ \A j \in S : j <= LastOf(S)
<1>1. \E i \in S : \A j \in S : j <= i
  BY GreatestIn
<1>2. QED
  BY <1>1, Zenon DEF LastOf

LEMMA FirstIs ==
  ASSUME NEW n \in Nat, NEW S \in SUBSET (1..n), NEW i \in S,
         \A j \in S : j >= i
  PROVE  FirstOf(S) = i
<1>1. FirstOf(S) \in S /\ \A j \in S : j >= FirstOf(S)
  BY Zenon DEF FirstOf
<1>2. \A j \in S : j \in Nat
  OBVIOUS
<1>3. FirstOf(S) \in Nat /\ i \in Nat /\ FirstOf(S) >= i /\ i >= FirstOf(S)
  BY <1>1, <1>2
<1>4. QED
  BY <1>3

(* A line opens a session when no stamped line in view is close before it. *)
LEMMA OpensIs ==
  ASSUME SessionsTypeOK, Clocked, NEW i \in Stamped
  PROVE  Opens(i) <=> \A j \in Stamped : j < i => Stamp(i) - Stamp(j) >= Gap
<1> DEFINE before == Headers(i - 1)
<1>1. /\ Stamped \in SUBSET (1..Len(written)) /\ Len(written) \in Nat
      /\ Gap \in Nat /\ i \in 1..Len(written)
      /\ \A k \in Stamped :
           /\ k \in 1..Len(written) /\ written[k] = {Stamp(k)}
           /\ Stamp(k) \in Nat
  BY SessionsFacts, StampIs DEF Stamped
<1>2. /\ before = {j \in Stamped : j < i}
      /\ before \in SUBSET (1..Len(written))
  <2>1. \A j \in Stamped : j <= i - 1 <=> j < i
    BY <1>1
  <2>2. before = {j \in Stamped : j < i}
    BY <2>1 DEF Headers
  <2>3. QED
    BY <1>1, <2>2
<1>3. Opens(i) <=> before = {} \/ Stamp(i) - Stamp(LastOf(before)) >= Gap
  BY DEF Opens
<1> HIDE DEF before
<1>4. CASE before = {}
  BY <1>2, <1>3, <1>4
<1>5. CASE before # {}
  <2> DEFINE h == LastOf(before)
  <2>1. h \in before /\ \A j \in before : j <= h
    BY <1>1, <1>2, <1>5, LastIs
  <2> HIDE DEF h
  <2>2. \A j \in before : Stamp(j) <= Stamp(h)
    BY <1>1, <1>2, <2>1 DEF Clocked
  <2>3. \A j \in before : Stamp(i) - Stamp(h) <= Stamp(i) - Stamp(j)
    BY <1>1, <1>2, <2>1, <2>2
  <2>4. QED
    BY <1>1, <1>2, <1>3, <1>5, <2>1, <2>3 DEF h
<1>6. QED
  BY <1>4, <1>5

(* What extract_sessions makes of the lines from one that opens a session. *)
LEMMA SummaryIs ==
  ASSUME SessionsTypeOK, Clocked, NEW i \in Recent, Opens(i)
  PROVE  LET s == Summary(Bucket(i)) IN
         /\ IsSession(s)
         /\ StartsAt(s, i) /\ s.start = Stamp(i)
         /\ s.lines = Bucket(i)
         /\ \E z \in Stamped : z \in s.lines /\ written[z] = {s.end}
<1> DEFINE bucket == Bucket(i)
           marked == bucket \cap Stamped
           s == Summary(bucket)
           z == LastOf(marked)
<1>1. /\ Recent \in SUBSET (1..Len(written)) /\ Len(written) \in Nat
      /\ Gap \in Nat /\ Gap >= 1
      /\ \A j \in Recent, k \in 1..Len(written) : j <= k => k \in Recent
      /\ Stamped \in SUBSET Recent /\ i \in Nat
  BY SessionsFacts
<1>2. /\ i \in Stamped
      /\ \A k \in Stamped : written[k] = {Stamp(k)} /\ Stamp(k) \in 1..MaxClock
  BY <1>1, StampIs DEF Opens, Stamped
<1>3. /\ bucket \in SUBSET (1..Len(written)) /\ i \in bucket
      /\ \A k \in bucket : i <= k /\ k \in Recent
      /\ \A x, y \in bucket : \A j \in x..y : j \in bucket
  <2>1. /\ bucket \in SUBSET (1..Len(written)) /\ i \in bucket
        /\ \A k \in bucket : i <= k /\ k \in Recent
    <3>1. i <= i /\ \A j \in (i + 1)..i : FALSE
      BY <1>1
    <3>2. QED
      BY <1>1, <3>1 DEF Bucket
  <2>2. ASSUME NEW x \in bucket, NEW y \in bucket, NEW j \in x..y
        PROVE  j \in bucket
    <3>1. /\ x \in Nat /\ y \in Nat /\ j \in Nat /\ i <= j
          /\ j \in 1..Len(written) /\ i <= x
      BY <1>1, <2>1
    <3>2. j \in Recent
      BY <1>1, <3>1
    <3>3. \A m \in (i + 1)..j : m \in (i + 1)..y
      BY <1>1, <3>1
    <3>4. QED
      BY <3>1, <3>2, <3>3 DEF Bucket
  <2>3. QED
    BY <2>1, <2>2
<1>4. s.start = Stamp(FirstOf(marked)) /\ s.end = Stamp(z) /\ s.lines = bucket
  BY DEF Summary
<1> HIDE DEF bucket, s
<1>5. marked \in SUBSET (1..Len(written)) /\ i \in marked
  BY <1>2, <1>3
<1>6. FirstOf(marked) = i
  BY <1>1, <1>3, <1>5, FirstIs
<1>7. z \in marked /\ \A k \in marked : k <= z
  BY <1>1, <1>5, LastIs
<1> HIDE DEF marked, z
<1>8. s.start = Stamp(i) /\ s.end = Stamp(z) /\ z \in Stamped /\ z \in s.lines
  BY <1>4, <1>6, <1>7 DEF marked
<1>9. ASSUME NEW k \in bucket, NEW t \in written[k]
      PROVE  s.start <= t /\ t <= s.end
  <2>1. k \in Stamped /\ k \in marked
    BY <1>3, <1>9 DEF Stamped, marked
  <2>2. i <= k /\ k <= z /\ i \in 1..Len(written) /\ z \in 1..Len(written)
        /\ k \in 1..Len(written)
    BY <1>1, <1>2, <1>3, <1>7, <1>8, <2>1
  <2>3. Stamp(i) \in written[i] /\ Stamp(z) \in written[z]
    BY <1>2, <1>8
  <2>4. QED
    BY <1>8, <1>9, <2>2, <2>3 DEF Clocked
<1>10. StartsAt(s, i)
  <2>1. ASSUME NEW j \in 1..(i - 1), j \in Recent, NEW t \in written[j]
        PROVE  s.start - t >= Gap
    <3>1. j \in Stamped /\ j < i
      BY <1>1, <2>1 DEF Stamped
    <3>2. t = Stamp(j)
      BY <1>2, <2>1, <3>1
    <3>3. QED
      BY <1>2, <1>8, <3>1, <3>2, OpensIs
  <2>2. written[i] = {s.start}
    BY <1>2, <1>8
  <2>3. QED
    BY <1>3, <1>4, <2>1, <2>2 DEF StartsAt
<1>11. IsSession(s)
  <2>1. s.start \in 1..MaxClock /\ s.end \in 1..MaxClock
    BY <1>2, <1>8
  <2>2. QED
    BY <1>3, <1>4, <1>9, <1>10, <2>1 DEF IsSession
<1>12. written[z] = {s.end}
  BY <1>2, <1>8
<1>13. QED
  BY <1>4, <1>8, <1>10, <1>11, <1>12 DEF s, bucket

(* A line at or after one that opens a session is in some session.         *)
LEMMA InSomeBucket ==
  ASSUME SessionsTypeOK, NEW a \in Recent, Opens(a),
         NEW k \in 1..Len(written), a <= k
  PROVE  \E o \in Recent : a <= o /\ o <= k /\ Opens(o) /\ k \in Bucket(o)
<1> DEFINE S == {o \in Recent : o <= k /\ Opens(o)}
<1>1. /\ Recent \in SUBSET (1..Len(written)) /\ Len(written) \in Nat
      /\ \A j \in Recent, m \in 1..Len(written) : j <= m => m \in Recent
  BY SessionsFacts
<1>2. S \in SUBSET (1..Len(written)) /\ a \in S
  BY <1>1
<1>3. PICK o \in S : \A j \in S : j <= o
  <2> HIDE DEF S
  <2>1. QED
    BY <1>1, <1>2, GreatestIn
<1>4. o \in Recent /\ o <= k /\ Opens(o) /\ a <= o
  BY <1>2, <1>3
<1>5. ASSUME NEW j \in (o + 1)..k
      PROVE  ~ Opens(j)
  <2>1. o \in Nat /\ k \in Nat /\ j \in 1..Len(written) /\ o < j /\ j <= k
    BY <1>1, <1>4
  <2>2. j \in Recent
    BY <1>1, <1>4, <2>1
  <2>3. QED
    BY <1>3, <2>1, <2>2
<1>6. k \in Bucket(o)
  BY <1>1, <1>4, <1>5 DEF Bucket
<1>7. QED
  BY <1>4, <1>6

(* A page holds, with a session, every newer one it may hold.              *)
LEMMA PageIsNewest ==
  ASSUME SessionsTypeOK, Clocked, NEW b \in Nat, NEW s \in Page(b),
         NEW u \in Summaries, u.start < b, s.start <= u.start
  PROVE  u \in Page(b)
<1> DEFINE older == {t \in Summaries : t.start < b}
           newer(x) == {t \in older : t.start > x.start}
<1>1. s \in older /\ Cardinality(newer(s)) < PageSize
  BY DEF Page
<1>2. \A t \in Summaries : t.start \in Nat
  BY SummaryIs DEF Summaries, IsSession
<1>3. newer(u) \subseteq newer(s)
  <2>1. \A t \in older : t.start > u.start => t.start > s.start
    BY <1>1, <1>2
  <2>2. QED
    BY <2>1
<1>4. IsFiniteSet(newer(s))
  <2> DEFINE n == Len(written)
             T == newer(s)
             f(t) == [k \in 1..n |->
                        IF k \in Recent /\ Opens(k) /\ Summary(Bucket(k)) \in T
                        THEN Summary(Bucket(k)) ELSE t]
  <2>1. n \in Nat /\ Recent \in SUBSET (1..n)
    BY SessionsFacts
  <2>2. \A t \in T : \E k \in Recent : Opens(k) /\ t = Summary(Bucket(k))
    BY DEF Summaries
  <2> HIDE DEF n, T
  <2>3. CASE T = {}
    BY <2>3, FS_EmptySet DEF T
  <2>4. ASSUME NEW t \in T
        PROVE  f(t) \in Surjection(1..n, T)
    <3>1. f(t) \in [1..n -> T]
      BY <2>4
    <3>2. ASSUME NEW u1 \in T
          PROVE  \E k \in 1..n : f(t)[k] = u1
      <4>1. PICK k \in Recent : Opens(k) /\ u1 = Summary(Bucket(k))
        BY <2>2, <3>2
      <4>2. k \in 1..n /\ f(t)[k] = u1
        BY <2>1, <3>2, <4>1
      <4>3. QED
        BY <4>2
    <3> HIDE DEF f
    <3>3. QED
      BY <3>1, <3>2 DEF Surjection
  <2> HIDE DEF f
  <2>5. T # {} => IsFiniteSet(T)
    BY <2>1, <2>4, FS_NatSurjection DEF ExistsSurjection
  <2>6. QED
    BY <2>3, <2>5 DEF T
<1>5. Cardinality(newer(u)) < PageSize
  <2> HIDE DEF newer
  <2>1. /\ IsFiniteSet(newer(u))
        /\ Cardinality(newer(u)) <= Cardinality(newer(s))
        /\ Cardinality(newer(u)) \in Nat /\ Cardinality(newer(s)) \in Nat
    BY <1>3, <1>4, FS_Subset, FS_CardinalityType
  <2>2. PageSize \in Nat
    BY SessionsFacts
  <2>3. QED
    BY <1>1, <2>1, <2>2
<1>6. QED
  BY <1>5 DEF Page

LEMMA BucketsApart ==
  ASSUME SessionsTypeOK, Clocked, NEW i \in Recent, Opens(i),
         NEW a \in Recent, NEW s, StartsAt(s, a), IsSession(s), i < a, Opens(a)
  PROVE  Precedes(Summary(Bucket(i)), s)
<1> DEFINE r == Summary(Bucket(i))
<1>1. /\ IsSession(r) /\ r.lines = Bucket(i)
      /\ \E z \in Stamped : z \in r.lines /\ written[z] = {r.end}
  BY SummaryIs
<1> HIDE DEF r
<1>2. /\ Recent \in SUBSET (1..Len(written)) /\ Len(written) \in Nat
      /\ Gap \in Nat /\ Gap >= 1 /\ Stamped \in SUBSET Recent
  BY SessionsFacts
<1>3. ASSUME NEW k \in r.lines
      PROVE  k < a
  <2>0. k \in Bucket(i)
    BY <1>1
  <2>1. /\ k \in Nat /\ a \in Nat /\ i \in Nat
        /\ \A j \in (i + 1)..k : ~ Opens(j)
    BY <1>2, <2>0 DEF Bucket
  <2>2. k >= a => a \in (i + 1)..k
    BY <2>1
  <2>3. QED
    BY <2>1, <2>2
<1>4. r.end < s.start
  <2>1. PICK z \in Stamped : z \in r.lines /\ written[z] = {r.end}
    BY <1>1
  <2>2. z \in 1..(a - 1) /\ z \in Recent
    BY <1>2, <1>3, <2>1
  <2>3. s.start - r.end >= Gap
    BY <2>1, <2>2 DEF StartsAt
  <2>4. s.start \in Nat /\ r.end \in Nat
    BY <1>1 DEF IsSession
  <2>5. QED
    BY <1>2, <2>3, <2>4
<1>5. \A k \in r.lines, j \in s.lines : k < j
  <2>1. \A j \in s.lines : a <= j /\ j \in Nat
    BY DEF StartsAt, IsSession
  <2>2. \A k \in r.lines : k < a /\ k \in Nat /\ a \in Nat
    BY <1>1, <1>2, <1>3 DEF IsSession
  <2>3. QED
    BY <2>1, <2>2
<1>6. QED
  BY <1>4, <1>5 DEF Precedes, r

(* The sessions of a page do not meet.                                     *)
LEMMA PageOfSessions ==
  ASSUME SessionsTypeOK, Clocked, NEW b \in Nat
  PROVE  /\ \A s \in Page(b) : IsSession(s) /\ s.start < b
         /\ \A s, t \in Page(b) : s # t => Precedes(s, t) \/ Precedes(t, s)
<1>1. \A s \in Page(b) :
        /\ s.start < b
        /\ \E i \in Recent : Opens(i) /\ s = Summary(Bucket(i))
  BY DEF Page, Summaries
<1>2. \A s \in Page(b) : IsSession(s) /\ s.start < b
  BY <1>1, SummaryIs
<1>3. ASSUME NEW s \in Page(b), NEW t \in Page(b), s # t
      PROVE  Precedes(s, t) \/ Precedes(t, s)
  <2>1. PICK i \in Recent : Opens(i) /\ s = Summary(Bucket(i))
    BY <1>1
  <2>2. PICK j \in Recent : Opens(j) /\ t = Summary(Bucket(j))
    BY <1>1
  <2>3. i # j /\ i \in Nat /\ j \in Nat
    BY <1>3, <2>1, <2>2, SessionsFacts
  <2>4. StartsAt(s, i) /\ StartsAt(t, j) /\ IsSession(s) /\ IsSession(t)
    BY <2>1, <2>2, SummaryIs
  <2>5. i < j => Precedes(s, t)
    BY <2>1, <2>2, <2>4, BucketsApart
  <2>6. j < i => Precedes(t, s)
    BY <2>1, <2>2, <2>4, BucketsApart
  <2>7. QED
    BY <2>3, <2>5, <2>6
<1>4. QED
  BY <1>2, <1>3

(* Nor is a line left out between a page and what comes after it.          *)
LEMMA PageCovers ==
  ASSUME SessionsTypeOK, Clocked, NEW b \in Nat, NEW s \in Page(b),
         NEW x \in s.lines, NEW k \in 1..Len(written), x <= k,
         \A o \in Stamped : o <= k => Stamp(o) < b
  PROVE  \E w \in Page(b) : k \in w.lines
<1>1. /\ Recent \in SUBSET (1..Len(written)) /\ Len(written) \in Nat
      /\ Stamped \in SUBSET Recent
      /\ \A o \in Stamped : written[o] = {Stamp(o)}
  BY SessionsFacts, StampIs DEF Stamped
<1>2. PICK a \in Recent : Opens(a) /\ s = Summary(Bucket(a))
  BY DEF Page, Summaries
<1>3. StartsAt(s, a) /\ IsSession(s) /\ s.start = Stamp(a)
  BY <1>2, SummaryIs
<1>4. a <= k
  <2>1. a <= x /\ a \in Nat /\ x \in Nat
    BY <1>1, <1>3 DEF StartsAt, IsSession
  <2>2. QED
    BY <2>1
<1>5. PICK o \in Recent : a <= o /\ o <= k /\ Opens(o) /\ k \in Bucket(o)
  BY <1>2, <1>4, InSomeBucket
<1> DEFINE w == Summary(Bucket(o))
<1>6. w \in Summaries /\ w.start = Stamp(o) /\ w.lines = Bucket(o)
  BY <1>5, SummaryIs DEF Summaries
<1> HIDE DEF w
<1>7. a \in Stamped /\ o \in Stamped
  BY <1>2, <1>5 DEF Opens
<1>8. Stamp(a) <= Stamp(o)
  BY <1>1, <1>5, <1>7 DEF Clocked
<1>9. w \in Page(b)
  BY <1>3, <1>5, <1>6, <1>7, <1>8, PageIsNewest
<1>10. QED
  BY <1>5, <1>6, <1>9

LEMMA SessionsInitInv == SessionsInit => SessionsInv
<1> SUFFICES ASSUME SessionsInit
             PROVE  SessionsInv
  OBVIOUS
<1>1. /\ written = <<>> /\ time = 1 /\ listed = {}
      /\ MaxLines \in Nat /\ MaxClock \in Nat \ {0}
  BY SessionsAssumption DEF SessionsInit, SessionsAssumption
<1>2. SessionsTypeOK
  <2>1. /\ written \in Seq({{}} \cup {{t} : t \in 1..MaxClock})
        /\ Len(written) = 0
    BY <1>1
  <2>2. QED
    BY <1>1, <2>1 DEF SessionsTypeOK
<1>3. Clocked /\ Gapless(listed)
  BY <1>1 DEF Clocked, Gapless
<1>4. QED
  BY <1>1, <1>2, <1>3 DEF SessionsInv

(* The first page: what was written up to now. *)
LEMMA ListKeeps ==
  ASSUME SessionsInv, List
  PROVE  SessionsInv'
<1>1. SessionsTypeOK /\ Clocked
  BY DEF SessionsInv
<1>2. /\ listed' = Page(time + 1) /\ time + 1 \in Nat
      /\ UNCHANGED <<written, time>>
  BY <1>1 DEF List, SessionsTypeOK
<1>3. /\ \A s \in listed' : IsSession(s)
      /\ \A s, t \in listed' : s # t => Precedes(s, t) \/ Precedes(t, s)
  BY <1>1, <1>2, PageOfSessions
<1>4. Gapless(listed')
  <2>1. \A o \in Stamped : Stamp(o) < time + 1
    <3>1. ASSUME NEW o \in Stamped
          PROVE  Stamp(o) < time + 1
      <4>1. o \in 1..Len(written) /\ written[o] = {Stamp(o)} /\ Stamp(o) \in Nat
        BY <1>1, SessionsFacts, StampIs DEF Stamped
      <4>2. Stamp(o) <= time /\ time \in Nat
        BY <1>1, <4>1 DEF Clocked, SessionsTypeOK
      <4>3. QED
        BY <4>1, <4>2
    <3>2. QED
      BY <3>1
  <2>2. ASSUME NEW s \in listed', NEW t \in listed',
               NEW x \in s.lines, NEW y \in t.lines, NEW j \in x..y
        PROVE  \E w \in listed' : j \in w.lines
    <3>1. x \in 1..Len(written) /\ y \in 1..Len(written) /\ Len(written) \in Nat
      BY <1>1, <1>3, SessionsFacts DEF IsSession
    <3>2. j \in 1..Len(written) /\ x <= j
      BY <3>1
    <3>3. QED
      BY <1>1, <1>2, <2>1, <3>2, PageCovers
  <2>3. QED
    BY <2>2 DEF Gapless
<1>5. SessionsTypeOK'
  BY <1>1, <1>2, <1>3 DEF SessionsTypeOK, IsSession
<1>6. Clocked' /\ (\A s \in listed' : IsSession(s)')
  BY <1>1, <1>2, <1>3 DEF Clocked, IsSession, StartsAt, Recent
<1>7. QED
  BY <1>3, <1>4, <1>5, <1>6 DEF SessionsInv, Precedes, Gapless

(* A further page: the sessions before the oldest one listed. *)
LEMMA ListMoreKeeps ==
  ASSUME SessionsInv, ListMore
  PROVE  SessionsInv'
<1>1. SessionsTypeOK /\ Clocked
  BY DEF SessionsInv
<1>2. PICK oldest \in listed :
        /\ \A s \in listed : oldest.start <= s.start
        /\ listed' = listed \cup Page(oldest.start)
        /\ UNCHANGED <<written, time>>
  BY DEF ListMore
<1> DEFINE page == Page(oldest.start)
<1>3. /\ IsSession(oldest) /\ oldest.start \in Nat
      /\ \A s \in listed : IsSession(s) /\ s.start \in Nat /\ s.end \in Nat
  BY DEF SessionsInv, IsSession
<1>4. /\ \A s \in page : IsSession(s) /\ s.start < oldest.start
      /\ \A s, t \in page : s # t => Precedes(s, t) \/ Precedes(t, s)
  BY <1>1, <1>3, PageOfSessions
<1>5. PICK a \in oldest.lines : StartsAt(oldest, a)
  BY <1>3 DEF IsSession
<1>6. /\ Recent \in SUBSET (1..Len(written)) /\ Len(written) \in Nat
      /\ \A i \in Recent, k \in 1..Len(written) : i <= k => k \in Recent
      /\ Gap \in Nat /\ Gap >= 1 /\ Stamped \in SUBSET Recent
      /\ \A k \in Stamped : written[k] = {Stamp(k)} /\ Stamp(k) \in Nat
  BY <1>1, SessionsFacts, StampIs DEF Stamped
<1>7. a \in 1..Len(written) /\ written[a] = {oldest.start}
  BY <1>3, <1>5 DEF StartsAt, IsSession
<1>8. a \in Recent => a \in Stamped /\ Opens(a)
  <2>1. SUFFICES ASSUME a \in Recent
                 PROVE  a \in Stamped /\ Opens(a)
    OBVIOUS
  <2>2. a \in Stamped
    BY <1>7, <2>1 DEF Stamped
  <2>3. Stamp(a) = oldest.start
    BY <1>6, <1>7, <2>2
  <2>4. ASSUME NEW j \in Stamped, j < a
        PROVE  Stamp(a) - Stamp(j) >= Gap
    <3>1. j \in 1..(a - 1) /\ j \in Recent /\ Stamp(j) \in written[j]
      BY <1>6, <1>7, <2>4
    <3>2. QED
      BY <1>5, <2>3, <3>1 DEF StartsAt
  <2>5. QED
    BY <1>1, <2>2, <2>4, OpensIs
(* A session of the page opens before the oldest one, and so ends there.   *)
<1>9. ASSUME NEW s \in page
      PROVE  a \in Recent /\ Precedes(s, oldest)
  <2>1. PICK i \in Recent : Opens(i) /\ s = Summary(Bucket(i))
    BY DEF Page, Summaries
  <2>2. s.start = Stamp(i) /\ i \in Stamped /\ Stamp(i) < oldest.start
    BY <1>1, <1>4, <2>1, SummaryIs DEF Opens
  <2>3. i < a
    <3>1. ~ (a <= i)
      <4>1. a <= i => oldest.start <= Stamp(i)
        BY <1>1, <1>6, <1>7, <2>2 DEF Clocked
      <4>2. QED
        BY <1>3, <1>6, <2>2, <4>1
    <3>2. QED
      BY <1>6, <1>7, <3>1
  <2>4. a \in Recent
    BY <1>6, <1>7, <2>3
  <2>5. QED
    BY <1>1, <1>3, <1>5, <1>8, <2>1, <2>3, <2>4, BucketsApart
<1>10. ASSUME NEW s \in page, NEW t \in listed
       PROVE  Precedes(s, t)
  <2>1. CASE t = oldest
    BY <1>9, <2>1
  <2>2. CASE t # oldest
    <3>1. ~ Precedes(t, oldest)
      <4>1. t.start <= t.end
        <5>1. IsSession(t)
          BY <1>3
        <5>2. PICK k \in t.lines : written[k] = {t.start}
          BY <5>1 DEF IsSession, StartsAt
        <5>3. QED
          BY <5>1, <5>2 DEF IsSession
      <4>2. oldest.start <= t.start
        BY <1>2
      <4>3. QED
        BY <1>3, <4>1, <4>2 DEF Precedes
    <3>2. Precedes(oldest, t)
      BY <2>2, <3>1 DEF SessionsInv
    <3>3. s.end < t.start
      <4>1. s.end \in Nat /\ t.start \in Nat /\ s.end < oldest.start
        BY <1>3, <1>4, <1>9 DEF IsSession, Precedes
      <4>2. oldest.start <= t.start
        BY <1>2
      <4>3. QED
        BY <1>3, <4>1, <4>2
    <3>4. ASSUME NEW k \in s.lines, NEW j \in t.lines
          PROVE  k < j
      <4>1. k < a /\ a < j
        BY <1>5, <1>9, <3>2 DEF Precedes
      <4>2. k \in Nat /\ j \in Nat /\ a \in Nat
        BY <1>3, <1>4, <1>7 DEF IsSession
      <4>3. QED
        BY <4>1, <4>2
    <3>5. QED
      BY <3>3, <3>4 DEF Precedes
  <2>3. QED
    BY <2>1, <2>2
<1>11. \A s, t \in listed' : s # t => Precedes(s, t) \/ Precedes(t, s)
  BY <1>2, <1>4, <1>10 DEF SessionsInv
<1>12. \A s \in listed' : IsSession(s)
  BY <1>2, <1>3, <1>4
<1>13. Gapless(listed')
  <2>1. ASSUME NEW s \in listed', NEW t \in listed',
               NEW x \in s.lines, NEW y \in t.lines, NEW j \in x..y
        PROVE  \E w \in listed' : j \in w.lines
    <3>1. x \in 1..Len(written) /\ y \in 1..Len(written)
      BY <1>12 DEF IsSession
    <3>2. /\ j \in 1..Len(written) /\ x <= j /\ j <= y
          /\ x \in Nat /\ y \in Nat /\ j \in Nat /\ a \in Nat
      BY <1>6, <1>7, <3>1
    <3>3. CASE s \in listed /\ t \in listed
      BY <1>2, <3>3 DEF SessionsInv, Gapless
    <3>4. CASE s \in listed /\ t \in page
      <4>1. y < x
        BY <1>10, <3>4 DEF Precedes
      <4>2. QED
        BY <3>2, <4>1
    <3>5. CASE s \in page /\ j < a
      <4>1. ASSUME NEW o \in Stamped, o <= j
            PROVE  Stamp(o) < oldest.start
        <5>1. o \in 1..(a - 1) /\ o \in Recent /\ Stamp(o) \in written[o]
          BY <1>6, <3>2, <3>5, <4>1
        <5>2. oldest.start - Stamp(o) >= Gap
          BY <1>5, <5>1 DEF StartsAt
        <5>3. QED
          BY <1>3, <1>6, <5>2
      <4>2. \E w \in page : j \in w.lines
        BY <1>1, <1>3, <3>2, <3>5, <4>1, PageCovers
      <4>3. QED
        BY <1>2, <4>2
    <3>6. CASE s \in page /\ j >= a /\ t \in listed
      <4>1. j \in a..y
        BY <3>2, <3>6
      <4>2. \E w \in listed : j \in w.lines
        BY <3>6, <4>1 DEF SessionsInv, Gapless
      <4>3. QED
        BY <1>2, <4>2
    <3>7. CASE s \in page /\ j >= a /\ t \in page
      <4>1. y < a
        BY <1>9, <3>7 DEF Precedes
      <4>2. QED
        BY <3>2, <3>7, <4>1
    <3>8. QED
      BY <1>2, <3>2, <3>3, <3>4, <3>5, <3>6, <3>7
  <2>2. QED
    BY <2>1 DEF Gapless
<1>14. SessionsTypeOK'
  BY <1>1, <1>2, <1>12 DEF SessionsTypeOK, IsSession
<1>15. Clocked' /\ (\A s \in listed' : IsSession(s)')
  BY <1>1, <1>2, <1>12 DEF Clocked, IsSession, StartsAt, Recent
<1>16. QED
  BY <1>11, <1>13, <1>14, <1>15 DEF SessionsInv, Precedes, Gapless

(* The strategy writes on: lines go out of view, and none comes back.      *)
LEMMA LogKeeps ==
  ASSUME SessionsInv, NEW line \in {{}, {time}}, Log(line)
  PROVE  SessionsInv'
<1>1. SessionsTypeOK /\ Clocked
  BY DEF SessionsInv
<1>2. /\ Len(written) < MaxLines /\ written' = Append(written, line)
      /\ UNCHANGED <<time, listed>>
  BY DEF Log
<1>3. /\ written \in Seq({{}} \cup {{t} : t \in 1..MaxClock})
      /\ Len(written) \in Nat /\ time \in 1..MaxClock /\ MaxLines \in Nat
      /\ MaxClock \in Nat /\ Window \in Nat
  BY <1>1, SessionsFacts, SessionsAssumption
     DEF SessionsTypeOK, SessionsAssumption
<1>4. /\ written' \in Seq({{}} \cup {{t} : t \in 1..MaxClock})
      /\ Len(written') = Len(written) + 1
      /\ \A k \in 1..Len(written) : written'[k] = written[k]
      /\ written'[Len(written) + 1] = line
  <2>1. line \in {{}} \cup {{t} : t \in 1..MaxClock}
    BY <1>3
  <2> DEFINE Lines == {{}} \cup {{t} : t \in 1..MaxClock}
  <2>2. written \in Seq(Lines) /\ line \in Lines
    BY <1>3, <2>1
  <2> HIDE DEF Lines
  <2>3. /\ Append(written, line) \in Seq(Lines)
        /\ Len(Append(written, line)) = Len(written) + 1
        /\ \A k \in 1..Len(written) : Append(written, line)[k] = written[k]
        /\ Append(written, line)[Len(written) + 1] = line
    BY <2>2
  <2>4. QED
    BY <1>2, <2>3 DEF Lines
<1>5. SessionsTypeOK'
  BY <1>1, <1>2, <1>3, <1>4 DEF SessionsTypeOK
<1>6. Clocked'
  <2>1. \A i \in 1..Len(written') :
          i \in 1..Len(written) \/ i = Len(written) + 1
    BY <1>3, <1>4
  <2>2. \A i \in 1..Len(written') : \A t \in written'[i] : t <= time
    BY <1>1, <1>3, <1>4, <2>1 DEF Clocked
  <2>3. ASSUME NEW i \in 1..Len(written'), NEW j \in 1..Len(written'), i <= j,
               NEW t \in written'[i], NEW u \in written'[j]
        PROVE  t <= u
    <3>1. CASE j \in 1..Len(written)
      <4>1. i \in 1..Len(written)
        BY <1>3, <2>1, <2>3, <3>1
      <4>2. QED
        BY <1>1, <1>4, <2>3, <3>1, <4>1 DEF Clocked
    <3>2. CASE j = Len(written) + 1
      <4>1. u = time
        BY <1>4, <2>3, <3>2
      <4>2. QED
        BY <2>2, <2>3, <4>1
    <3>3. QED
      BY <2>1, <3>1, <3>2
  <2>4. QED
    BY <1>2, <2>2, <2>3 DEF Clocked
<1>7. \A j \in 1..Len(written) : j \in Recent' => j \in Recent
  BY <1>3, <1>4 DEF Recent
<1>8. ASSUME NEW s \in listed
      PROVE  IsSession(s)'
  <2>1. IsSession(s)
    BY DEF SessionsInv
  <2>2. /\ s.lines \in SUBSET (1..Len(written'))
        /\ s.lines \in SUBSET (1..Len(written))
    BY <1>3, <1>4, <2>1 DEF IsSession
  <2>3. \A k \in s.lines : written'[k] = written[k]
    BY <1>4, <2>2
  <2>4. PICK a \in s.lines : StartsAt(s, a)
    BY <2>1 DEF IsSession
  <2>5. \A j \in 1..(a - 1) : j \in 1..Len(written)
    BY <1>3, <2>2
  <2>6. \A j \in 1..(a - 1) :
          j \in Recent' => \A t \in written'[j] : s.start - t >= Gap
    BY <1>4, <1>7, <2>4, <2>5 DEF StartsAt
  <2>7. StartsAt(s, a)'
    BY <2>3, <2>4, <2>6 DEF StartsAt
  <2>8. QED
    BY <2>1, <2>2, <2>3, <2>7 DEF IsSession
<1>9. QED
  BY <1>2, <1>5, <1>6, <1>8 DEF SessionsInv, Precedes, Gapless

LEMMA SessionsStep == SessionsInv /\ [SessionsNext]_sessionVars => SessionsInv'
<1> SUFFICES ASSUME SessionsInv, [SessionsNext]_sessionVars
             PROVE  SessionsInv'
  OBVIOUS
<1>1. CASE List
  BY <1>1, ListKeeps
<1>2. CASE ListMore
  BY <1>2, ListMoreKeeps
<1>3. CASE Log({time}) \/ Log({})
  BY <1>3, LogKeeps
<1>4. ASSUME NEW d \in {1, Gap}, PassTime(d)
      PROVE  SessionsInv'
  <2>1. /\ time + d <= MaxClock /\ time' = time + d
        /\ UNCHANGED <<written, listed>>
    BY <1>4 DEF PassTime
  <2>2. /\ d \in Nat /\ MaxClock \in Nat /\ time \in 1..MaxClock
        /\ written \in Seq({{}} \cup {{t} : t \in 1..MaxClock})
    BY SessionsFacts DEF SessionsInv, SessionsTypeOK
  <2>3. SessionsTypeOK'
    BY <2>1, <2>2 DEF SessionsInv, SessionsTypeOK
  <2>4. Clocked'
    <3>1. \A i \in 1..Len(written) :
            \A t \in written[i] : t \in Nat /\ t <= time
      <4>1. \A i \in 1..Len(written) : \A t \in written[i] : t \in Nat
        BY <2>2
      <4>2. QED
        BY <4>1 DEF SessionsInv, Clocked
    <3>2. \A i \in 1..Len(written) : \A t \in written[i] : t <= time'
      BY <2>1, <2>2, <3>1
    <3>3. QED
      BY <2>1, <3>2 DEF SessionsInv, Clocked
  <2>5. \A s \in listed' : IsSession(s)'
    BY <2>1 DEF SessionsInv, IsSession, StartsAt, Recent
  <2>6. QED
    BY <2>1, <2>3, <2>4, <2>5 DEF SessionsInv, Precedes, Gapless
<1>5. CASE UNCHANGED sessionVars
  <2>1. UNCHANGED <<written, time, listed>>
    BY <1>5 DEF sessionVars
  <2>2. SessionsTypeOK' /\ Clocked'
    BY <2>1 DEF SessionsInv, SessionsTypeOK, Clocked
  <2>3. \A s \in listed' : IsSession(s)'
    BY <2>1 DEF SessionsInv, IsSession, StartsAt, Recent
  <2>4. QED
    BY <2>1, <2>2, <2>3 DEF SessionsInv, Precedes, Gapless
<1>6. QED
  BY <1>1, <1>2, <1>3, <1>4, <1>5 DEF SessionsNext

(* Opening a session that was listed shows its lines that are still there  *)
(* and no line of another one, and the pages leave out no session, however *)
(* the strategy has written on in between.                                 *)
THEOREM SessionsAreWhatWasListed == SessionsSpec => []DetailIsTheSession
<1>1. SessionsInv => DetailIsTheSession
  <2> SUFFICES ASSUME SessionsInv
               PROVE  DetailIsTheSession
    OBVIOUS
  <2>1. /\ SessionsTypeOK /\ Clocked
        /\ \A s \in listed : IsSession(s)
        /\ \A s, t \in listed : s # t => Precedes(s, t) \/ Precedes(t, s)
    BY DEF SessionsInv
  <2>2. /\ Recent \in SUBSET (1..Len(written)) /\ Len(written) \in Nat
        /\ Stamped \in SUBSET Recent
        /\ \A i \in Recent, k \in 1..Len(written) : i <= k => k \in Recent
        /\ \A k \in Stamped : written[k] = {Stamp(k)} /\ Stamp(k) \in Nat
    BY <2>1, SessionsFacts, StampIs DEF Stamped
  (* The stamped line above a line of a session is of the session. *)
  <2>3. ASSUME NEW s \in listed, NEW k \in s.lines, k \in Recent,
               Headers(k) # {}
        PROVE  /\ s.start <= Stamp(LastOf(Headers(k)))
               /\ Stamp(LastOf(Headers(k))) <= s.end
    <3> DEFINE h == LastOf(Headers(k))
    <3>1. PICK a \in s.lines : StartsAt(s, a)
      BY <2>1 DEF IsSession
    <3>2. /\ Headers(k) \in SUBSET (1..Len(written))
          /\ \A j \in Headers(k) : j \in Stamped /\ j <= k
      BY <2>2 DEF Headers
    <3>3. h \in Headers(k) /\ \A j \in Headers(k) : j <= h
      BY <2>2, <2>3, <3>2, LastIs
    <3> HIDE DEF h
    <3>4. a <= k /\ a \in 1..Len(written) /\ written[a] # {}
      BY <2>1, <3>1 DEF StartsAt, IsSession
    <3>5. h \in Stamped /\ h <= k /\ h \in Nat /\ a \in Nat /\ k \in Nat
      BY <2>2, <2>3, <3>2, <3>3, <3>4
    <3>6. a <= h
      <4>1. CASE a \in Recent
        <5>1. a \in Headers(k)
          BY <3>4, <4>1 DEF Headers, Stamped
        <5>2. QED
          BY <3>3, <5>1
      <4>2. CASE a \notin Recent
        BY <2>2, <3>4, <3>5, <4>2
      <4>3. QED
        BY <4>1, <4>2
    <3>7. h \in s.lines
      <4>1. h \in a..k
        BY <3>5, <3>6
      <4>2. QED
        BY <2>1, <4>1 DEF IsSession
    <3>8. Stamp(h) \in written[h]
      BY <2>2, <3>5
    <3>9. QED
      BY <2>1, <3>7, <3>8 DEF IsSession, h
  <2>4. ASSUME NEW s \in listed
        PROVE  {k \in s.lines : k \in Recent /\ Headers(k) # {}}
                 \subseteq Detail(s.start, s.end)
    BY <2>3 DEF Detail, InRange
  <2>5. ASSUME NEW s \in listed, NEW t \in listed \ {s}
        PROVE  Detail(s.start, s.end) \cap t.lines = {}
    <3>1. SUFFICES ASSUME NEW k \in t.lines, k \in Detail(s.start, s.end)
                   PROVE  FALSE
      OBVIOUS
    <3> DEFINE m == Stamp(LastOf(Headers(k)))
    <3>2. k \in Recent /\ Headers(k) # {} /\ s.start <= m /\ m <= s.end
      BY <3>1 DEF Detail, InRange
    <3>3. t.start <= m /\ m <= t.end
      BY <2>3, <3>2
    <3>4. m \in Nat
      <4>1. /\ Headers(k) \in SUBSET (1..Len(written))
            /\ \A j \in Headers(k) : j \in Stamped
        BY <2>2 DEF Headers
      <4>2. LastOf(Headers(k)) \in Headers(k)
        BY <2>2, <3>2, <4>1, LastIs
      <4>3. QED
        BY <2>2, <4>1, <4>2
    <3> HIDE DEF m
    <3>5. /\ s.start \in Nat /\ s.end \in Nat
          /\ t.start \in Nat /\ t.end \in Nat
      BY <2>1 DEF IsSession
    <3>6. s.end < t.start \/ t.end < s.start
      BY <2>1 DEF Precedes
    <3>7. QED
      BY <3>2, <3>3, <3>4, <3>5, <3>6
  <2>6. ASSUME NEW s \in listed, NEW t \in listed, s # t
        PROVE  s.lines \cap t.lines = {}
    <3>1. SUFFICES ASSUME NEW k \in s.lines, k \in t.lines
                   PROVE  FALSE
      OBVIOUS
    <3>2. k < k
      BY <2>1, <2>6, <3>1 DEF Precedes
    <3>3. k \in Nat
      BY <2>1, <3>1 DEF IsSession
    <3>4. QED
      BY <3>2, <3>3
  <2>7. ASSUME NEW s \in listed, NEW t \in listed, NEW u \in Summaries,
               s.start < u.start, u.start < t.start
        PROVE  \E w \in listed : u.lines \cap w.lines # {}
    <3>1. PICK i \in Recent : Opens(i) /\ u = Summary(Bucket(i))
      BY DEF Summaries
    <3>2. IsSession(u) /\ StartsAt(u, i)
      BY <2>1, <3>1, SummaryIs
    <3>3. PICK a \in s.lines : StartsAt(s, a)
      BY <2>1 DEF IsSession
    <3>4. PICK b \in t.lines : StartsAt(t, b)
      BY <2>1 DEF IsSession
    <3>5. /\ written[a] = {s.start} /\ a \in 1..Len(written)
          /\ written[b] = {t.start} /\ b \in 1..Len(written)
          /\ written[i] = {u.start} /\ i \in 1..Len(written)
          /\ i \in u.lines
          /\ s.start \in Nat /\ t.start \in Nat /\ u.start \in Nat
      BY <2>1, <2>2, <3>2, <3>3, <3>4 DEF StartsAt, IsSession
    <3>6. \A j, k \in 1..Len(written) :
            j <= k => \A v \in written[j], w \in written[k] : v <= w
      BY <2>1 DEF Clocked
    <3>7. ~ (i <= a)
      <4>1. i <= a => u.start <= s.start
        BY <3>5, <3>6
      <4>2. QED
        BY <2>7, <3>5, <4>1
    <3>8. ~ (b <= i)
      <4>1. b <= i => t.start <= u.start
        BY <3>5, <3>6
      <4>2. QED
        BY <2>7, <3>5, <4>1
    <3>9. i \in a..b
      BY <2>2, <3>5, <3>7, <3>8
    <3>10. \E w \in listed : i \in w.lines
      BY <3>9 DEF SessionsInv, Gapless
    <3>11. QED
      BY <3>5, <3>10
  <2>8. QED
    BY <2>4, <2>5, <2>6, <2>7 DEF DetailIsTheSession
<1>2. QED
  BY <1>1, SessionsInitInv, SessionsStep, PTL DEF SessionsSpec

(*-------------------------------------------------------------------------*)
(* The daily summary of a bot.                                             *)
(*-------------------------------------------------------------------------*)

LEMMA DivMod ==
  ASSUME NEW a \in Nat, NEW d \in Nat \ {0}
  PROVE  /\ a \div d \in Nat /\ a % d \in 0..(d - 1)
         /\ a = (a \div d) * d + (a % d)
OBVIOUS

LEMMA NextMultiple ==
  ASSUME NEW a \in Int, NEW b \in Int, a < b, NEW d \in Nat \ {0}
  PROVE  a * d + d <= b * d
OBVIOUS

LEMMA DivModIs ==
  ASSUME NEW q \in Nat, NEW d \in Nat \ {0}, NEW r \in 0..(d - 1)
  PROVE  (q * d + r) \div d = q /\ (q * d + r) % d = r
<1> DEFINE a == q * d + r
<1>1. a \in Nat
  OBVIOUS
<1>2. /\ a \div d \in Nat /\ a % d \in 0..(d - 1)
      /\ a = (a \div d) * d + (a % d)
  BY <1>1, DivMod
<1>3. QED
  BY <1>2

(* The closes that were claimed since the opening, by the times at which   *)
(* the lines were written; the summary goes by their stamps.               *)
Told ==
  {c \in [line : DOMAIN log, nth : 1..2] :
     InSession(log[c.line].at) /\ c.nth <= log[c.line].closed}
ToldCount == Cardinality(Told)

(* The closes since the opening, and none before it in the day.            *)
Counted ==
  IF InSession(instant) THEN balance = ClosesToday - ToldCount
  ELSE Told = {} /\ {i \in DOMAIN ledger : InSession(ledger[i])} = {}

NothingIsAhead ==
  /\ \A i \in DOMAIN log : log[i].at <= instant
  /\ \A i \in DOMAIN ledger : ledger[i] <= instant

Bounded ==
  /\ Len(log) <= MaxLogged /\ Len(ledger) <= MaxCloses
  /\ -2 * Len(log) <= balance /\ balance <= Len(ledger)

DayInv == DayTypeOK /\ NothingIsAhead /\ Bounded /\ Counted

LEMMA DayFacts ==
  ASSUME DayTypeOK
  PROVE  /\ DayLength \in Nat \ {0} /\ Open \in 1..(DayLength - 1)
         /\ Close \in (Open + 1)..(DayLength - 1)
         /\ MaxInstant \in Nat /\ MaxLogged \in Nat /\ MaxCloses \in Nat
         /\ instant \in Nat /\ Day \in Nat /\ Day * DayLength \in Nat
         /\ instant % DayLength \in 0..(DayLength - 1)
         /\ instant = Day * DayLength + (instant % DayLength)
         /\ SessionStart = Day * DayLength + Open
         /\ log \in Seq([at : 0..MaxInstant, closed : 0..2])
         /\ ledger \in Seq(0..MaxInstant)
         /\ balance \in Int
<1>1. /\ DayLength \in Nat \ {0} /\ Open \in 1..(DayLength - 1)
      /\ Close \in (Open + 1)..(DayLength - 1)
      /\ MaxInstant \in Nat /\ MaxLogged \in Nat /\ MaxCloses \in Nat
  <2>1. /\ DayLength \in Nat \ {0} /\ Open \in Nat /\ Close \in Nat
        /\ 0 < Open /\ Open < Close /\ Close < DayLength
        /\ MaxInstant \in Nat /\ MaxLogged \in Nat /\ MaxCloses \in Nat
    BY TradingDayAssumption, Zenon DEF TradingDayAssumption
  <2>2. QED
    BY <2>1
<1>2. /\ instant \in Nat /\ log \in Seq([at : 0..MaxInstant, closed : 0..2])
      /\ ledger \in Seq(0..MaxInstant) /\ balance \in Int
  BY <1>1 DEF DayTypeOK
<1>3. /\ Day \in Nat /\ instant % DayLength \in 0..(DayLength - 1)
      /\ instant = Day * DayLength + (instant % DayLength)
  BY <1>1, <1>2, DivMod DEF Day
<1>4. Day * DayLength \in Nat /\ SessionStart = Day * DayLength + Open
  BY <1>1, <1>3 DEF SessionStart
<1>5. QED
  BY <1>1, <1>2, <1>3, <1>4

LEMMA DayNumbers ==
  ASSUME DayTypeOK
  PROVE  /\ log \in Seq([at : 0..MaxInstant, closed : 0..2])
         /\ Len(log) \in Nat
         /\ ledger \in Seq(0..MaxInstant) /\ Len(ledger) \in Nat
         /\ MaxInstant \in Nat /\ MaxLogged \in Nat /\ MaxCloses \in Nat
         /\ instant \in 0..MaxInstant /\ balance \in Int
<1>1. MaxInstant \in Nat /\ MaxLogged \in Nat /\ MaxCloses \in Nat
  BY DayFacts
<1>2. QED
  BY <1>1 DEF DayTypeOK

(* Before the opening nothing of the day has been claimed or closed.       *)
LEMMA NothingBeforeOpening ==
  ASSUME DayTypeOK, NothingIsAhead, ~ InSession(instant)
  PROVE  Told = {} /\ {i \in DOMAIN ledger : InSession(ledger[i])} = {}
<1>1. instant \in Nat /\ SessionStart \in Nat /\ instant < SessionStart
  <2>1. /\ instant \in Nat /\ Day * DayLength \in Nat
        /\ Open \in 1..(DayLength - 1) /\ DayLength \in Nat
        /\ SessionStart = Day * DayLength + Open
    BY DayFacts
  <2>2. QED
    BY <2>1 DEF InSession
<1>2. ASSUME NEW i \in DOMAIN log
      PROVE  ~ InSession(log[i].at)
  <2>1. log \in Seq([at : 0..MaxInstant, closed : 0..2])
    BY DEF DayTypeOK
  <2>2. i \in 1..Len(log)
    BY <1>2, <2>1
  <2>3. log[i] \in [at : 0..MaxInstant, closed : 0..2]
    BY <2>1, <2>2, ElementOfSeq
  <2>4. log[i].at \in Nat /\ log[i].at <= instant
    BY <2>3 DEF NothingIsAhead
  <2>5. QED
    BY <1>1, <2>4 DEF InSession
<1>3. ASSUME NEW i \in DOMAIN ledger
      PROVE  ~ InSession(ledger[i])
  <2>1. ledger \in Seq(0..MaxInstant)
    BY DEF DayTypeOK
  <2>2. i \in 1..Len(ledger)
    BY <1>3, <2>1
  <2>3. ledger[i] \in 0..MaxInstant
    BY <2>1, <2>2, ElementOfSeq
  <2>4. ledger[i] \in Nat /\ ledger[i] <= instant
    BY <2>3 DEF NothingIsAhead
  <2>5. QED
    BY <1>1, <2>4 DEF InSession
<1>4. QED
  BY <1>2, <1>3 DEF Told

LEMMA DayInitInv == DayInit => DayInv
<1> SUFFICES ASSUME DayInit
             PROVE  DayInv
  OBVIOUS
<1>1. /\ instant = 0 /\ log = <<>> /\ ledger = <<>> /\ mtime = 0
      /\ balance = 0
  BY DEF DayInit
<1>2. /\ {MaxInstant, MaxLogged, MaxCloses} \subseteq Nat
      /\ Len(log) = 0 /\ Len(ledger) = 0
      /\ log \in Seq([at : 0..MaxInstant, closed : 0..2])
      /\ ledger \in Seq(0..MaxInstant)
  BY <1>1, TradingDayAssumption DEF TradingDayAssumption
<1>3. DayTypeOK /\ Bounded
  BY <1>1, <1>2 DEF DayTypeOK, Bounded
<1>4. NothingIsAhead
  BY <1>1 DEF NothingIsAhead
<1>5. ~ InSession(instant)
  <2>1. /\ DayLength \in Nat \ {0} /\ Open \in 1..(DayLength - 1)
        /\ Day * DayLength \in Nat /\ SessionStart = Day * DayLength + Open
    BY <1>3, DayFacts
  <2>2. QED
    BY <1>1, <2>1 DEF InSession
<1>6. QED
  BY <1>3, <1>4, <1>5, NothingBeforeOpening DEF DayInv, Counted

(* A line that claims n closes is n more claims, if it is of the session.  *)
LEMMA ToldAppend ==
  ASSUME DayTypeOK, NEW line \in [at : 0..MaxInstant, closed : 0..2],
         log' = Append(log, line), UNCHANGED instant, IsFiniteSet(Told)
  PROVE  /\ IsFiniteSet(Told')
         /\ ToldCount' =
              ToldCount + IF InSession(line.at) THEN line.closed ELSE 0
<1> DEFINE L == Len(log) + 1
           new == {c \in [line : {L}, nth : 1..2] :
                     InSession(line.at) /\ c.nth <= line.closed}
           one == [line |-> L, nth |-> 1]
           two == [line |-> L, nth |-> 2]
<1>1. /\ log \in Seq([at : 0..MaxInstant, closed : 0..2]) /\ Len(log) \in Nat
      /\ Len(log') = L /\ log'[L] = line /\ DOMAIN log' = 1..L
      /\ \A i \in 1..Len(log) : log'[i] = log[i]
      /\ DOMAIN log = 1..Len(log)
  BY DEF DayTypeOK
<1>2. SessionStart' = SessionStart
  BY DEF SessionStart, Day
<1>3. Told' = Told \cup new
  <2>1. ASSUME NEW c
        PROVE  c \in Told' <=> c \in Told \cup new
    <3>1. c \in Told' <=>
            /\ c \in [line : 1..L, nth : 1..2]
            /\ InSession(log'[c.line].at) /\ c.nth <= log'[c.line].closed
      BY <1>1, <1>2 DEF Told, InSession
    <3>2. c \in Told <=>
            /\ c \in [line : 1..Len(log), nth : 1..2]
            /\ InSession(log[c.line].at) /\ c.nth <= log[c.line].closed
      BY <1>1 DEF Told
    <3>3. CASE c \in [line : 1..Len(log), nth : 1..2]
      BY <1>1, <3>1, <3>2, <3>3
    <3>4. CASE c \in [line : {L}, nth : 1..2]
      BY <1>1, <3>1, <3>2, <3>4
    <3>5. CASE c \notin [line : 1..L, nth : 1..2]
      BY <1>1, <3>1, <3>2, <3>5
    <3>6. QED
      BY <1>1, <3>3, <3>4, <3>5
  <2>2. QED
    BY <2>1
<1>4. one \notin Told /\ two \notin Told /\ one # two
  BY <1>1 DEF Told
<1>5. CASE ~ InSession(line.at) \/ line.closed = 0
  <2>1. new = {}
    BY <1>5
  <2>2. Told' = Told /\ Cardinality(Told) \in Nat
    BY <1>3, <2>1, FS_CardinalityType
  <2>3. QED
    BY <1>5, <2>2 DEF ToldCount
<1>6. CASE InSession(line.at) /\ line.closed = 1
  <2>1. new = {one}
    BY <1>6
  <2>2. Told' = Told \cup {one}
    BY <1>3, <2>1
  <2>3. QED
    BY <1>4, <1>6, <2>2, FS_AddElement DEF ToldCount
<1>7. CASE InSession(line.at) /\ line.closed = 2
  <2>1. new = {one} \cup {two}
    BY <1>7
  <2>2. Told' = (Told \cup {one}) \cup {two}
    BY <1>3, <2>1
  <2>3. /\ IsFiniteSet(Told \cup {one})
        /\ Cardinality(Told \cup {one}) = Cardinality(Told) + 1
        /\ Cardinality(Told) \in Nat
    BY <1>4, FS_AddElement, FS_CardinalityType
  <2>4. two \notin Told \cup {one}
    BY <1>4
  <2>5. /\ IsFiniteSet((Told \cup {one}) \cup {two})
        /\ Cardinality((Told \cup {one}) \cup {two})
             = Cardinality(Told \cup {one}) + 1
    BY <2>3, <2>4, FS_AddElement
  <2>6. QED
    BY <1>7, <2>2, <2>3, <2>5 DEF ToldCount
<1>8. QED
  BY <1>5, <1>6, <1>7

LEMMA ToldIsFinite ==
  ASSUME DayTypeOK
  PROVE  IsFiniteSet(Told) /\ ToldCount \in Nat
<1>1. log \in Seq([at : 0..MaxInstant, closed : 0..2]) /\ Len(log) \in Nat
  BY DEF DayTypeOK
<1> DEFINE pairs == (1..Len(log)) \X (1..2)
           f == [p \in pairs |-> [line |-> p[1], nth |-> p[2]]]
<1>2. IsFiniteSet(pairs)
  <2>1. IsFiniteSet(1..Len(log))
    <3>1. 1 \in Int /\ Len(log) \in Int
      BY <1>1
    <3>2. QED
      BY <3>1, FS_Interval, Zenon
  <2>2. IsFiniteSet(1..2)
    <3>1. 1 \in Int /\ 2 \in Int
      OBVIOUS
    <3>2. QED
      BY <3>1, FS_Interval, Zenon
  <2>3. QED
    BY <2>1, <2>2, FS_Product
<1>3. f \in Surjection(pairs, [line : 1..Len(log), nth : 1..2])
  <2>1. ASSUME NEW c \in [line : 1..Len(log), nth : 1..2]
        PROVE  \E p \in pairs : f[p] = c
    <3>1. <<c.line, c.nth>> \in pairs
      OBVIOUS
    <3>2. c = [line |-> c.line, nth |-> c.nth]
      OBVIOUS
    <3>3. QED
      BY <3>1, <3>2
  <2>2. f \in [pairs -> [line : 1..Len(log), nth : 1..2]]
    OBVIOUS
  <2>3. QED
    BY <2>1, <2>2 DEF Surjection
<1>4. IsFiniteSet([line : 1..Len(log), nth : 1..2])
  BY <1>2, <1>3, FS_Surjection
<1>5. Told \subseteq [line : 1..Len(log), nth : 1..2]
  BY <1>1 DEF Told
<1>6. IsFiniteSet(Told)
  BY <1>4, <1>5, FS_Subset
<1>7. QED
  BY <1>6, FS_CardinalityType DEF ToldCount

LEMMA ClosesAreFinite ==
  ASSUME DayTypeOK
  PROVE  ClosesToday \in Nat
<1>1. /\ DOMAIN ledger = 1..Len(ledger)
      /\ 1 \in Int /\ Len(ledger) \in Int
  BY DEF DayTypeOK
<1>2. IsFiniteSet(DOMAIN ledger)
  BY <1>1, FS_Interval, Zenon
<1>3. IsFiniteSet({i \in DOMAIN ledger : InSession(ledger[i])})
  BY <1>2, FS_Subset
<1>4. QED
  BY <1>3, FS_CardinalityType DEF ClosesToday

(* And a close that is recorded in the session is one more of the ledger.  *)
LEMMA ClosesAppend ==
  ASSUME DayTypeOK, ledger' = Append(ledger, instant), UNCHANGED instant,
         InSession(instant)
  PROVE  ClosesToday' = ClosesToday + 1
<1> DEFINE L == Len(ledger) + 1
           made == {i \in DOMAIN ledger : InSession(ledger[i])}
<1>1. /\ ledger \in Seq(0..MaxInstant) /\ Len(ledger) \in Nat
      /\ instant \in 0..MaxInstant
  BY DEF DayTypeOK
<1>2. /\ DOMAIN ledger' = 1..L /\ ledger'[L] = instant
      /\ \A i \in 1..Len(ledger) : ledger'[i] = ledger[i]
      /\ DOMAIN ledger = 1..Len(ledger)
  BY <1>1
<1>3. SessionStart' = SessionStart
  BY DEF SessionStart, Day
<1>4. {i \in DOMAIN ledger : InSession(ledger[i])}' = made \cup {L}
  BY <1>1, <1>2, <1>3 DEF InSession
<1>5. L \notin made /\ made \subseteq 1..Len(ledger)
  BY <1>1, <1>2
<1>6. IsFiniteSet(made)
  BY <1>1, <1>5, FS_Interval, FS_Subset
<1>7. Cardinality(made \cup {L}) = Cardinality(made) + 1
  BY <1>5, <1>6, FS_AddElement
<1>8. QED
  BY <1>4, <1>7 DEF ClosesToday

LEMMA LineKeepsDay ==
  ASSUME DayInv, NEW line \in [at : 0..MaxInstant, closed : 0..2],
         line.at <= instant, line.at = instant \/ line.closed = 0,
         Len(log) < MaxLogged, log' = Append(log, line), mtime' = instant,
         balance' = balance - line.closed, UNCHANGED <<instant, ledger>>
  PROVE  DayInv'
<1>1. /\ DayTypeOK /\ NothingIsAhead /\ Bounded /\ Counted
  BY DEF DayInv
<1>2. /\ log \in Seq([at : 0..MaxInstant, closed : 0..2]) /\ Len(log) \in Nat
      /\ ledger \in Seq(0..MaxInstant) /\ Len(ledger) \in Nat
      /\ MaxInstant \in Nat /\ MaxLogged \in Nat /\ MaxCloses \in Nat
      /\ instant \in 0..MaxInstant /\ balance \in Int
      /\ line.at \in Nat /\ line.closed \in 0..2
  BY <1>1, DayNumbers
<1>3. /\ log' \in Seq([at : 0..MaxInstant, closed : 0..2])
      /\ Len(log') = Len(log) + 1 /\ log'[Len(log) + 1] = line
      /\ DOMAIN log = 1..Len(log) /\ DOMAIN log' = 1..(Len(log) + 1)
      /\ \A i \in 1..Len(log) : log'[i] = log[i]
  BY <1>2
<1>4. Bounded'
  BY <1>1, <1>2, <1>3 DEF Bounded
<1>5. DayTypeOK'
  <2>1. balance' \in (-2 * MaxLogged)..MaxCloses
    BY <1>2, <1>3, <1>4 DEF Bounded
  <2>2. mtime' \in 0..instant
    BY <1>2
  <2>3. QED
    BY <1>2, <1>3, <2>1, <2>2 DEF DayTypeOK
<1>6. NothingIsAhead'
  BY <1>1, <1>2, <1>3 DEF NothingIsAhead
<1>7. SessionStart' = SessionStart /\ InSession(instant)' = InSession(instant)
  BY DEF SessionStart, Day, InSession
<1>8. CASE InSession(instant)
  <2>1. ToldCount' = ToldCount + line.closed
    <3>1. ToldCount' = ToldCount + IF InSession(line.at) THEN line.closed ELSE 0
      BY <1>1, ToldIsFinite, ToldAppend
    <3>2. CASE line.at = instant
      BY <1>8, <3>1, <3>2
    <3>3. CASE line.closed = 0
      BY <3>1, <3>3
    <3>4. QED
      BY <3>2, <3>3
  <2>2. ClosesToday' = ClosesToday
    BY <1>7 DEF ClosesToday, InSession
  <2>3. ToldCount \in Nat /\ ClosesToday \in Nat
    BY <1>1, ToldIsFinite, ClosesAreFinite
  <2>4. balance = ClosesToday - ToldCount
    BY <1>1, <1>8 DEF Counted
  <2>5. balance' = ClosesToday' - ToldCount'
    <3>1. balance' = balance - line.closed /\ line.closed \in Int
      BY <1>2
    <3>2. QED
      BY <2>1, <2>2, <2>3, <2>4, <3>1
  <2>6. QED
    BY <1>4, <1>5, <1>6, <1>7, <1>8, <2>5 DEF DayInv, Counted
<1>9. CASE ~ InSession(instant)
  <2>1. (~ InSession(instant))'
    BY <1>7, <1>9
  <2>2. (Told = {} /\ {i \in DOMAIN ledger : InSession(ledger[i])} = {})'
    BY <1>5, <1>6, <2>1, NothingBeforeOpening, PTL
  <2>3. QED
    BY <1>4, <1>5, <1>6, <2>1, <2>2 DEF DayInv, Counted
<1>10. QED
  BY <1>8, <1>9

LEMMA CloseKeepsDay ==
  ASSUME DayInv, RecordClose
  PROVE  DayInv'
<1>1. /\ DayTypeOK /\ NothingIsAhead /\ Bounded /\ Counted
  BY DEF DayInv
<1>2. /\ Len(ledger) < MaxCloses /\ ledger' = Append(ledger, instant)
      /\ balance' = balance + 1 /\ UNCHANGED <<instant, log, mtime>>
  BY DEF RecordClose
<1>3. /\ ledger \in Seq(0..MaxInstant) /\ Len(ledger) \in Nat
      /\ Len(log) \in Nat
      /\ MaxInstant \in Nat /\ MaxLogged \in Nat /\ MaxCloses \in Nat
      /\ instant \in 0..MaxInstant /\ balance \in Int
  BY <1>1, DayNumbers
<1>4. /\ ledger' \in Seq(0..MaxInstant)
      /\ Len(ledger') = Len(ledger) + 1 /\ ledger'[Len(ledger) + 1] = instant
      /\ DOMAIN ledger = 1..Len(ledger)
      /\ DOMAIN ledger' = 1..(Len(ledger) + 1)
      /\ \A i \in 1..Len(ledger) : ledger'[i] = ledger[i]
  BY <1>2, <1>3
<1>5. Bounded'
  BY <1>1, <1>2, <1>3, <1>4 DEF Bounded
<1>6. DayTypeOK'
  <2>1. balance' \in (-2 * MaxLogged)..MaxCloses
    BY <1>2, <1>3, <1>4, <1>5 DEF Bounded
  <2>2. QED
    BY <1>1, <1>2, <1>4, <2>1 DEF DayTypeOK
<1>7. NothingIsAhead'
  BY <1>1, <1>2, <1>3, <1>4 DEF NothingIsAhead
<1>8. /\ SessionStart' = SessionStart
      /\ InSession(instant)' = InSession(instant)
  BY <1>2 DEF SessionStart, Day, InSession
<1>9. CASE InSession(instant)
  <2>1. ClosesToday' = ClosesToday + 1
    BY <1>1, <1>2, <1>9, ClosesAppend
  <2>2. ToldCount' = ToldCount
    BY <1>2, <1>8 DEF ToldCount, Told, InSession
  <2>3. balance = ClosesToday - ToldCount
    BY <1>1, <1>9 DEF Counted
  <2>4. ToldCount \in Nat /\ ClosesToday \in Nat
    BY <1>1, ToldIsFinite, ClosesAreFinite
  <2>5. balance' = ClosesToday' - ToldCount'
    BY <1>2, <2>1, <2>2, <2>3, <2>4
  <2>6. QED
    BY <1>5, <1>6, <1>7, <1>8, <1>9, <2>5 DEF DayInv, Counted
<1>10. CASE ~ InSession(instant)
  <2>1. (~ InSession(instant))'
    BY <1>8, <1>10
  <2>2. (Told = {} /\ {i \in DOMAIN ledger : InSession(ledger[i])} = {})'
    BY <1>6, <1>7, <2>1, NothingBeforeOpening, PTL
  <2>3. QED
    BY <1>5, <1>6, <1>7, <2>1, <2>2 DEF DayInv, Counted
<1>11. QED
  BY <1>9, <1>10

(* Time goes on in the session or out of it, or the market opens.          *)
LEMMA InstantKeepsDay ==
  ASSUME DayInv, PassInstant
  PROVE  DayInv'
<1>1. /\ DayTypeOK /\ NothingIsAhead /\ Bounded /\ Counted
  BY DEF DayInv
<1>2. /\ instant < MaxInstant /\ instant' = instant + 1
      /\ balance' = IF instant' % DayLength = Open THEN 0 ELSE balance
      /\ UNCHANGED <<log, ledger, mtime>>
  BY DEF PassInstant
<1>3. /\ log \in Seq([at : 0..MaxInstant, closed : 0..2]) /\ Len(log) \in Nat
      /\ ledger \in Seq(0..MaxInstant) /\ Len(ledger) \in Nat
      /\ MaxInstant \in Nat /\ MaxLogged \in Nat /\ MaxCloses \in Nat
      /\ instant \in 0..MaxInstant /\ balance \in Int
  BY <1>1, DayNumbers
<1>4. Bounded'
  BY <1>1, <1>2, <1>3 DEF Bounded
<1>5. DayTypeOK'
  <2>1. balance' \in (-2 * MaxLogged)..MaxCloses
    BY <1>2, <1>3, <1>4 DEF Bounded
  <2>2. instant' \in 0..MaxInstant /\ mtime' \in 0..instant'
    BY <1>1, <1>2, <1>3 DEF DayTypeOK
  <2>3. QED
    BY <1>2, <1>3, <2>1, <2>2 DEF DayTypeOK
<1>6. NothingIsAhead'
  <2>1. \A i \in DOMAIN log : log[i].at <= instant + 1
    <3>1. ASSUME NEW i \in 1..Len(log)
          PROVE  log[i].at <= instant + 1
      <4>1. log[i] \in [at : 0..MaxInstant, closed : 0..2]
        BY <1>3, ElementOfSeq
      <4>2. log[i].at \in Nat /\ log[i].at <= instant
        BY <1>1, <1>3, <4>1 DEF NothingIsAhead
      <4>3. QED
        BY <1>3, <4>2
    <3>2. DOMAIN log = 1..Len(log)
      BY <1>3
    <3>3. QED
      BY <3>1, <3>2, Zenon
  <2>2. \A i \in DOMAIN ledger : ledger[i] <= instant + 1
    <3>1. ASSUME NEW i \in 1..Len(ledger)
          PROVE  ledger[i] <= instant + 1
      <4>1. ledger[i] \in 0..MaxInstant
        BY <1>3, ElementOfSeq
      <4>2. ledger[i] \in Nat /\ ledger[i] <= instant
        BY <1>1, <1>3, <4>1 DEF NothingIsAhead
      <4>3. QED
        BY <1>3, <4>2
    <3>2. QED
      BY <1>3, <3>1
  <2>3. QED
    BY <1>2, <2>1, <2>2 DEF NothingIsAhead
<1>7. CASE ~ InSession(instant)'
  <2>1. (Told = {} /\ {i \in DOMAIN ledger : InSession(ledger[i])} = {})'
    BY <1>5, <1>6, <1>7, NothingBeforeOpening, PTL
  <2>2. QED
    BY <1>4, <1>5, <1>6, <1>7, <2>1 DEF DayInv, Counted
<1>8. CASE InSession(instant)'
  <2> DEFINE r == instant' % DayLength
             q == instant' \div DayLength
  <2>1. /\ DayLength \in Nat \ {0} /\ Open \in 1..(DayLength - 1)
        /\ instant \in Nat /\ Day \in Nat
        /\ SessionStart = Day * DayLength + Open
    BY <1>1, DayFacts
  <2>2. /\ q \in Nat /\ r \in 0..(DayLength - 1)
        /\ instant' = q * DayLength + r
    <3>1. instant' \in Nat
      BY <1>2, <1>3
    <3>2. QED
      BY <2>1, <3>1, DivMod
  <2>3. /\ Day' = q
        /\ SessionStart' = q * DayLength + Open
    BY DEF Day, SessionStart
  <2> HIDE DEF r, q
  <2>4. q * DayLength \in Nat /\ r >= Open
    <3>1. q * DayLength \in Nat
      BY <2>1, <2>2
    <3>2. instant' >= q * DayLength + Open
      BY <1>8, <2>3 DEF InSession
    <3>3. QED
      BY <2>1, <2>2, <3>1, <3>2
  <2>5. CASE r = Open
    <3>1. balance' = 0
      BY <1>2, <2>5 DEF r
    <3>2. ASSUME NEW i \in 1..Len(log)
          PROVE  ~ (log[i].at >= SessionStart')
      <4>1. log[i] \in [at : 0..MaxInstant, closed : 0..2]
        BY <1>3, ElementOfSeq
      <4>2. log[i].at \in Nat /\ log[i].at <= instant
        BY <1>1, <1>3, <4>1 DEF NothingIsAhead
      <4>3. QED
        BY <1>2, <1>3, <2>1, <2>2, <2>3, <2>4, <2>5, <4>2
    <3>3. ASSUME NEW i \in 1..Len(ledger)
          PROVE  ~ (ledger[i] >= SessionStart')
      <4>1. ledger[i] \in 0..MaxInstant
        BY <1>3, ElementOfSeq
      <4>2. ledger[i] \in Nat /\ ledger[i] <= instant
        BY <1>1, <1>3, <4>1 DEF NothingIsAhead
      <4>3. QED
        BY <1>2, <1>3, <2>1, <2>2, <2>3, <2>4, <2>5, <4>2
    <3>4. Told' = {} /\ {i \in DOMAIN ledger : InSession(ledger[i])}' = {}
      BY <1>2, <1>3, <3>2, <3>3 DEF Told, InSession
    <3>5. ToldCount' = 0 /\ ClosesToday' = 0
      BY <3>4, FS_EmptySet DEF ToldCount, ClosesToday
    <3>6. QED
      BY <1>4, <1>5, <1>6, <1>8, <3>1, <3>5 DEF DayInv, Counted
  <2>6. CASE r # Open
    <3>1. balance' = balance
      BY <1>2, <2>6 DEF r
    <3>2. instant = q * DayLength + (r - 1) /\ r - 1 \in Open..(DayLength - 1)
      BY <1>2, <1>3, <2>1, <2>2, <2>4, <2>6
    <3>3. Day = q
      <4>1. r - 1 \in 0..(DayLength - 1)
        BY <2>1, <3>2
      <4>2. (q * DayLength + (r - 1)) \div DayLength = q
        BY <2>1, <2>2, <4>1, DivModIs
      <4>3. QED
        BY <3>2, <4>2 DEF Day
    <3>4. SessionStart' = SessionStart
      BY <2>1, <2>3, <3>3
    <3>5. InSession(instant)
      BY <2>1, <2>4, <3>2, <3>3 DEF InSession
    <3>6. ToldCount' = ToldCount /\ ClosesToday' = ClosesToday
      BY <1>2, <3>4 DEF ToldCount, Told, ClosesToday, InSession
    <3>7. QED
      BY <1>1, <1>4, <1>5, <1>6, <1>8, <3>1, <3>5, <3>6 DEF DayInv, Counted
  <2>7. QED
    BY <2>5, <2>6
<1>9. QED
  BY <1>7, <1>8

LEMMA DayStep == DayInv /\ [DayNext]_dayVars => DayInv'
<1> SUFFICES ASSUME DayInv, [DayNext]_dayVars
             PROVE  DayInv'
  OBVIOUS
<1>1. ASSUME NEW delay \in {0, 1}, LogLine(delay)
      PROVE  DayInv'
  <2> DEFINE line == [at |-> instant - delay, closed |-> 0]
  <2>1. DayTypeOK
    BY DEF DayInv
  <2>2. /\ instant \in 0..MaxInstant /\ balance \in Int /\ MaxInstant \in Nat
        /\ mtime \in 0..instant
    BY <2>1, DayNumbers DEF DayTypeOK
  <2>3. instant >= delay
    <3>1. /\ instant % DayLength \in Nat /\ Day * DayLength \in Nat
          /\ instant = Day * DayLength + (instant % DayLength)
      BY <2>1, DayFacts
    <3>2. instant % DayLength >= delay
      BY <1>1 DEF LogLine
    <3>3. QED
      BY <1>1, <2>2, <3>1, <3>2
  <2>4. /\ line \in [at : 0..MaxInstant, closed : 0..2]
        /\ line.at <= instant /\ line.closed = 0
    BY <1>1, <2>2, <2>3
  <2>5. /\ Len(log) < MaxLogged /\ log' = Append(log, line)
        /\ mtime' = instant /\ UNCHANGED <<instant, ledger, balance>>
    BY <1>1 DEF LogLine
  <2>6. balance' = balance - line.closed
    BY <2>2, <2>4, <2>5
  <2> HIDE DEF line
  <2>7. QED
    BY <2>4, <2>5, <2>6, LineKeepsDay
<1>2. ASSUME NEW n \in {1, 2}, TellCloses(n)
      PROVE  DayInv'
  <2> DEFINE line == [at |-> instant, closed |-> n]
  <2>1. DayTypeOK
    BY DEF DayInv
  <2>2. /\ line \in [at : 0..MaxInstant, closed : 0..2]
        /\ line.at = instant /\ line.at <= instant /\ line.closed = n
    BY <1>2, <2>1, DayNumbers
  <2>3. /\ Len(log) < MaxLogged /\ log' = Append(log, line)
        /\ mtime' = instant /\ balance' = balance - n
        /\ UNCHANGED <<instant, ledger>>
    BY <1>2 DEF TellCloses
  <2> HIDE DEF line
  <2>4. QED
    BY <2>2, <2>3, LineKeepsDay
<1>3. CASE UNCHANGED dayVars
  <2>1. UNCHANGED <<instant, log, ledger, mtime, balance>>
    BY <1>3 DEF dayVars
  <2>2. DayTypeOK' /\ NothingIsAhead' /\ Bounded'
    BY <2>1 DEF DayInv, DayTypeOK, NothingIsAhead, Bounded
  <2>3. Counted'
    BY <2>1 DEF DayInv, Counted, ClosesToday, ToldCount, Told, InSession,
                SessionStart, Day
  <2>4. QED
    BY <2>2, <2>3 DEF DayInv
<1>4. QED
  BY <1>1, <1>2, <1>3, CloseKeepsDay, InstantKeepsDay DEF DayNext, BotWrites

(* A line and the first line of its minute are in the same window of a     *)
(* cron, because crons and the grace period are of whole minutes.          *)
LEMMA SameMinute ==
  ASSUME NEW M \in Nat \ {0}, NEW lo \in Nat, NEW hi \in Nat,
         lo % M = 0, hi % M = 0, NEW t \in Nat, NEW u \in Nat,
         t \div M = u \div M, lo <= t, t < hi
  PROVE  lo <= u /\ u < hi
<1> DEFINE a == lo \div M
           b == hi \div M
           m == t \div M
<1>1. /\ a \in Nat /\ b \in Nat /\ m \in Nat
      /\ lo = a * M /\ hi = b * M
      /\ m * M <= t /\ t < m * M + M
      /\ m * M <= u /\ u < m * M + M
  <2>1. a \in Nat /\ lo = a * M
    <3>1. a \in Nat /\ a * M \in Nat /\ lo = a * M + (lo % M)
      BY DivMod
    <3>2. QED
      BY <3>1
  <2>2. b \in Nat /\ hi = b * M
    <3>1. b \in Nat /\ b * M \in Nat /\ hi = b * M + (hi % M)
      BY DivMod
    <3>2. QED
      BY <3>1
  <2>3. m \in Nat /\ m * M <= t /\ t < m * M + M
    <3>1. m \in Nat /\ t % M \in 0..(M - 1) /\ t = m * M + (t % M)
      BY DivMod
    <3>2. m * M \in Nat
      BY <3>1
    <3>3. QED
      BY <3>1, <3>2
  <2>4. m * M <= u /\ u < m * M + M
    <3>1. u % M \in 0..(M - 1) /\ u = m * M + (u % M)
      BY DivMod
    <3>2. m * M \in Nat
      BY <2>3
    <3>3. QED
      BY <3>1, <3>2
  <2>5. QED
    BY <2>1, <2>2, <2>3, <2>4
<1> HIDE DEF a, b, m
<1>2. a <= m
  <2>1. SUFFICES ASSUME m < a
                 PROVE  FALSE
    BY <1>1
  <2>2. m * M + M <= a * M
    BY <1>1, <2>1, NextMultiple
  <2>3. m * M \in Nat
    BY <1>1
  <2>4. QED
    BY <1>1, <2>2, <2>3
<1>3. m < b
  <2>1. SUFFICES ASSUME b <= m
                 PROVE  FALSE
    BY <1>1
  <2>2. b * M <= m * M
    <3>1. CASE b = m
      BY <1>1, <3>1
    <3>2. CASE b < m
      <4>1. b * M + M <= m * M /\ b * M \in Nat /\ m * M \in Nat
        BY <1>1, <3>2, NextMultiple
      <4>2. QED
        BY <4>1
    <3>3. QED
      BY <1>1, <2>1, <3>1, <3>2
  <2>3. m * M \in Nat /\ b * M \in Nat
    BY <1>1
  <2>4. QED
    BY <1>1, <2>2, <2>3
<1>4. a * M <= m * M
  <2>1. CASE a = m
    BY <1>1, <2>1
  <2>2. CASE a < m
    <3>1. a * M + M <= m * M /\ a * M \in Nat /\ m * M \in Nat
      BY <1>1, <2>2, NextMultiple
    <3>2. QED
      BY <3>1
  <2>3. QED
    BY <1>1, <1>2, <2>1, <2>2
<1>5. m * M + M <= b * M
  BY <1>1, <1>3, NextMultiple
<1>6. a * M \in Nat /\ b * M \in Nat /\ m * M \in Nat
  BY <1>1
<1>7. QED
  BY <1>1, <1>4, <1>5, <1>6

LEMMA MultiplesAdd ==
  ASSUME NEW M \in Nat \ {0}, NEW x \in Nat, NEW y \in Nat,
         x % M = 0, y % M = 0
  PROVE  (x + y) % M = 0
<1> DEFINE a == x \div M
           b == y \div M
<1>1. a \in Nat /\ b \in Nat /\ x = a * M /\ y = b * M
  <2>1. a \in Nat /\ a * M \in Nat /\ x = a * M + (x % M)
    BY DivMod
  <2>2. b \in Nat /\ b * M \in Nat /\ y = b * M + (y % M)
    BY DivMod
  <2>3. QED
    BY <2>1, <2>2
<1> HIDE DEF a, b
<1>2. x + y = (a + b) * M + 0
  BY <1>1
<1>3. a + b \in Nat /\ 0 \in 0..(M - 1)
  BY <1>1
<1>4. ((a + b) * M + 0) % M = 0
  BY <1>3, DivModIs
<1>5. QED
  BY <1>2, <1>4

LEMMA MultiplesTimes ==
  ASSUME NEW M \in Nat \ {0}, NEW x \in Nat, NEW k \in Nat, x % M = 0
  PROVE  (k * x) % M = 0
<1> DEFINE a == x \div M
<1>1. a \in Nat /\ x = a * M
  <2>1. a \in Nat /\ a * M \in Nat /\ x = a * M + (x % M)
    BY DivMod
  <2>2. QED
    BY <2>1
<1> HIDE DEF a
<1>2. k * x = (k * a) * M + 0
  BY <1>1
<1>3. k * a \in Nat /\ 0 \in 0..(M - 1)
  BY <1>1
<1>4. ((k * a) * M + 0) % M = 0
  BY <1>3, DivModIs
<1>5. QED
  BY <1>2, <1>4

(* There is a working day within a week, and NextWorkDay is the next one.  *)
LEMMA NextWorkDayIs ==
  ASSUME NEW d \in Nat
  PROVE  /\ NextWorkDay(d) \in (d + 1)..(d + 7)
         /\ Weekday(NextWorkDay(d)) < 5
         /\ \A k \in (d + 1)..(NextWorkDay(d) - 1) : Weekday(k) >= 5
<1>1. FirstWeekday \in 0..6
  BY TradingDayAssumption DEF TradingDayAssumption
<1>2. \E n \in (d + 1)..(d + 7) :
        /\ (FirstWeekday + n) % 7 < 5
        /\ \A k \in (d + 1)..(n - 1) : (FirstWeekday + k) % 7 >= 5
  <2>1. PICK q \in Nat, r \in 0..6 : FirstWeekday + d = 7 * q + r
    <3>1. /\ (FirstWeekday + d) \div 7 \in Nat
          /\ (FirstWeekday + d) % 7 \in 0..6
          /\ FirstWeekday + d =
               7 * ((FirstWeekday + d) \div 7) + ((FirstWeekday + d) % 7)
      BY <1>1
    <3>2. QED
      BY <3>1
  <2>2. CASE r < 4 \/ r = 6
    <3>1. (FirstWeekday + (d + 1)) % 7 < 5
      BY <1>1, <2>1, <2>2
    <3>2. QED
      BY <3>1
  <2>3. CASE r = 4
    <3>1. /\ d + 3 \in (d + 1)..(d + 7)
          /\ (FirstWeekday + (d + 3)) % 7 < 5
      BY <1>1, <2>1, <2>3
    <3>2. \A k \in (d + 1)..((d + 3) - 1) : (FirstWeekday + k) % 7 >= 5
      BY <1>1, <2>1, <2>3
    <3>3. QED
      BY <3>1, <3>2
  <2>4. CASE r = 5
    <3>1. /\ d + 2 \in (d + 1)..(d + 7)
          /\ (FirstWeekday + (d + 2)) % 7 < 5
      BY <1>1, <2>1, <2>4
    <3>2. \A k \in (d + 1)..((d + 2) - 1) : (FirstWeekday + k) % 7 >= 5
      BY <1>1, <2>1, <2>4
    <3>3. QED
      BY <3>1, <3>2
  <2>5. QED
    BY <2>2, <2>3, <2>4
<1>3. \E n \in (d + 1)..(d + 7) :
        Weekday(n) < 5 /\ \A k \in (d + 1)..(n - 1) : Weekday(k) >= 5
  BY <1>2 DEF Weekday
<1>4. QED
  BY <1>3, Zenon DEF NextWorkDay

WeekdayType == \A d \in Nat : Weekday(d) \in 0..6

LEMMA WeekdayTyped == WeekdayType
<1>1. FirstWeekday \in 0..6
  BY TradingDayAssumption DEF TradingDayAssumption
<1>2. QED
  BY <1>1 DEF WeekdayType, Weekday

LEMMA ClocksAgree ==
  ASSUME DayTypeOK
  PROVE  /\ MarketOpen <=> Reason = "open"
         /\ ~MarketOpen => NextOpen = NextOpenOfMarket
<1>1. /\ DayLength \in Nat \ {0} /\ Open \in 1..(DayLength - 1)
      /\ Close \in (Open + 1)..(DayLength - 1)
      /\ instant \in Nat /\ Day \in Nat /\ Day * DayLength \in Nat
      /\ instant % DayLength \in 0..(DayLength - 1)
      /\ instant = Day * DayLength + (instant % DayLength)
      /\ SessionStart = Day * DayLength + Open
  BY DayFacts
<1>2. Weekday(Day) \in 0..6
  BY <1>1, WeekdayTyped DEF WeekdayType
<1> DEFINE start == Day * DayLength
           r == instant % DayLength
<1>3. /\ start \in Nat /\ r \in Nat /\ instant = start + r
      /\ SessionStart = start + Open
  BY <1>1
<1>4. /\ MarketOpen <=> Weekday(Day) < 5 /\ Open <= r /\ r < Close
      /\ NextOpen = IF Weekday(Day) < 5 /\ r < Open THEN start + Open
                    ELSE NextWorkDay(Day) * DayLength + Open
      /\ Reason = CASE Weekday(Day) >= 5 -> "weekend"
                    [] Weekday(Day) < 5 /\ r < Open -> "pre_market"
                    [] Weekday(Day) < 5 /\ r >= Close -> "after_hours"
                    [] OTHER -> "open"
  <2>1. MarketOpen <=> /\ Weekday(Day) < 5
                       /\ start + Open <= instant /\ instant < start + Close
    BY <1>3 DEF MarketOpen
  <2>2. NextOpen = IF Weekday(Day) < 5 /\ instant < start + Open
                   THEN start + Open
                   ELSE NextWorkDay(Day) * DayLength + Open
    BY <1>3 DEF NextOpen
  <2>3. Reason = CASE Weekday(Day) >= 5 -> "weekend"
                   [] Weekday(Day) < 5 /\ r < Open -> "pre_market"
                   [] Weekday(Day) < 5 /\ r >= Close -> "after_hours"
                   [] OTHER -> "open"
    BY DEF Reason
  <2> HIDE DEF start, r
  <2>4. start + Open <= instant <=> Open <= r
    BY <1>1, <1>3
  <2>5. instant < start + Close <=> r < Close
    BY <1>1, <1>3
  <2>6. instant < start + Open <=> r < Open
    BY <1>1, <1>3
  <2>7. QED
    BY <2>1, <2>2, <2>3, <2>4, <2>5, <2>6
<1>5. NextOpenOfMarket = IF Reason = "open" THEN instant
                         ELSE IF Reason = "pre_market" THEN start + Open
                         ELSE NextWorkDay(Day) * DayLength + Open
  BY DEF NextOpenOfMarket
<1> HIDE DEF start, r
<1>6. CASE Weekday(Day) >= 5
  <2>1. Reason = "weekend" /\ ~ (Weekday(Day) < 5)
    BY <1>2, <1>4, <1>6
  <2>2. QED
    BY <1>4, <1>5, <2>1
<1>7. CASE Weekday(Day) < 5 /\ r < Open
  <2>1. Reason = "pre_market" /\ ~ (Open <= r)
    BY <1>1, <1>2, <1>3, <1>4, <1>7
  <2>2. QED
    BY <1>4, <1>5, <1>7, <2>1
<1>8. CASE Weekday(Day) < 5 /\ r >= Close
  <2>1. Reason = "after_hours" /\ ~ (r < Close) /\ ~ (r < Open)
    BY <1>1, <1>2, <1>3, <1>4, <1>8
  <2>2. QED
    BY <1>4, <1>5, <2>1
<1>9. CASE Weekday(Day) < 5 /\ Open <= r /\ r < Close
  <2>1. Reason = "open"
    BY <1>1, <1>2, <1>3, <1>4, <1>9
  <2>2. QED
    BY <1>4, <1>9, <2>1
<1>10. QED
  BY <1>1, <1>2, <1>3, <1>6, <1>7, <1>8, <1>9

LEMMA OpensNext ==
  ASSUME DayTypeOK, ~MarketOpen
  PROVE  /\ instant < NextOpen /\ Weekday(NextOpen \div DayLength) < 5
         /\ \A t \in (instant + 1)..(NextOpen - 1) :
              t % DayLength = Open => Weekday(t \div DayLength) >= 5
<1>1. /\ DayLength \in Nat \ {0} /\ Open \in 1..(DayLength - 1)
      /\ instant \in Nat /\ Day \in Nat /\ Day * DayLength \in Nat
      /\ instant % DayLength \in 0..(DayLength - 1)
      /\ instant = Day * DayLength + (instant % DayLength)
      /\ SessionStart = Day * DayLength + Open
  BY DayFacts
<1>2. Open \in 0..(DayLength - 1)
  BY <1>1
<1>3. \A d \in Nat : Weekday(d) \in 0..6
  BY WeekdayTyped DEF WeekdayType
(* An opening ahead is of today or of a later day. *)
<1>4. ASSUME NEW t \in Nat, instant < t, t % DayLength = Open
      PROVE  /\ t \div DayLength \in Nat
             /\ t = (t \div DayLength) * DayLength + Open
             /\ Day <= t \div DayLength
  <2> DEFINE q == t \div DayLength
  <2>1. q \in Nat /\ t = q * DayLength + Open
    BY <1>1, <1>4, DivMod
  <2> HIDE DEF q
  <2>2. Day <= q
    <3>1. SUFFICES ASSUME q < Day
                   PROVE  FALSE
      BY <1>1, <2>1
    <3>2. q * DayLength + DayLength <= Day * DayLength
      BY <1>1, <2>1, <3>1, NextMultiple
    <3>3. q * DayLength \in Nat
      BY <1>1, <2>1
    <3>4. QED
      BY <1>1, <1>4, <2>1, <3>2, <3>3
  <2>3. QED
    BY <2>1, <2>2 DEF q
<1>5. CASE Weekday(Day) < 5 /\ instant < SessionStart
  <2>1. NextOpen = Day * DayLength + Open
    BY <1>1, <1>5 DEF NextOpen
  <2>2. NextOpen \div DayLength = Day
    BY <1>1, <1>2, <2>1, DivModIs
  <2>3. ASSUME NEW t \in (instant + 1)..(NextOpen - 1), t % DayLength = Open
        PROVE  FALSE
    <3>1. t \in Nat /\ instant < t /\ t < Day * DayLength + Open
      BY <1>1, <2>1
    <3> DEFINE q == t \div DayLength
    <3>2. q \in Nat /\ t = q * DayLength + Open /\ Day <= q
      BY <1>4, <2>3, <3>1
    <3> HIDE DEF q
    <3>3. CASE q = Day
      BY <1>1, <3>1, <3>2, <3>3
    <3>4. CASE Day < q
      <4>1. Day * DayLength + DayLength <= q * DayLength
        BY <1>1, <3>2, <3>4, NextMultiple
      <4>2. q * DayLength \in Nat
        BY <1>1, <3>2
      <4>3. QED
        BY <1>1, <3>1, <3>2, <4>1, <4>2
    <3>5. QED
      BY <1>1, <3>2, <3>3, <3>4
  <2>4. QED
    BY <1>1, <1>5, <2>1, <2>2, <2>3
<1>6. CASE ~ (Weekday(Day) < 5 /\ instant < SessionStart)
  <2> DEFINE n == NextWorkDay(Day)
  <2>1. /\ n \in (Day + 1)..(Day + 7) /\ Weekday(n) < 5
        /\ \A k \in (Day + 1)..(n - 1) : Weekday(k) >= 5
    BY <1>1, NextWorkDayIs
  <2>2. NextOpen = n * DayLength + Open
    BY <1>6 DEF NextOpen
  <2> HIDE DEF n
  <2>3. n \in Nat /\ Day < n /\ n * DayLength \in Nat
    BY <1>1, <2>1
  <2>4. NextOpen \div DayLength = n
    BY <1>1, <1>2, <2>2, <2>3, DivModIs
  <2>5. Day * DayLength + DayLength <= n * DayLength
    BY <1>1, <2>3, NextMultiple
  <2>6. instant < NextOpen
    BY <1>1, <2>2, <2>3, <2>5
  <2>7. ASSUME NEW t \in (instant + 1)..(NextOpen - 1), t % DayLength = Open
        PROVE  Weekday(t \div DayLength) >= 5
    <3>1. t \in Nat /\ instant < t /\ t < n * DayLength + Open
      BY <1>1, <2>2, <2>3
    <3> DEFINE q == t \div DayLength
    <3>2. q \in Nat /\ t = q * DayLength + Open /\ Day <= q
      BY <1>4, <2>7, <3>1
    <3> HIDE DEF q
    <3>3. q < n
      <4>1. SUFFICES ASSUME n <= q
                     PROVE  FALSE
        BY <2>3, <3>2
      <4>2. CASE n = q
        BY <1>1, <2>3, <3>1, <3>2, <4>2
      <4>3. CASE n < q
        <5>1. n * DayLength + DayLength <= q * DayLength
          BY <1>1, <2>3, <3>2, <4>3, NextMultiple
        <5>2. q * DayLength \in Nat
          BY <1>1, <3>2
        <5>3. QED
          BY <1>1, <2>3, <3>1, <3>2, <5>1, <5>2
      <4>4. QED
        BY <2>3, <3>2, <4>1, <4>2, <4>3
    <3>4. CASE q = Day
      <4>1. instant < SessionStart
        BY <1>1, <3>1, <3>2, <3>4
      <4>2. Weekday(Day) >= 5
        BY <1>1, <1>3, <1>6, <4>1
      <4>3. QED
        BY <3>4, <4>2 DEF q
    <3>5. CASE Day < q
      <4>1. q \in (Day + 1)..(n - 1)
        BY <1>1, <2>3, <3>2, <3>3, <3>5
      <4>2. QED
        BY <2>1, <4>1 DEF q
    <3>6. QED
      BY <1>1, <3>2, <3>4, <3>5
  <2>8. QED
    BY <2>1, <2>4, <2>6, <2>7
<1>7. QED
  BY <1>5, <1>6

Instants == {log[i].at : i \in DOMAIN log}

(* On hosts whose clocks show UTC a stamp is the time of its line, and the *)
(* summary has the fires and the claims there were.                        *)
FirstOfMinute(i) ==
  /\ InSession(log[i].at)
  /\ \A j \in 1..(i - 1) :
       InSession(log[j].at) => log[j].at \div Minute # log[i].at \div Minute

LEMMA StampsInUtc ==
  ASSUME DayTypeOK, Behind = 0
  PROVE  /\ Fires = {log[i].at : i \in {i \in DOMAIN log : FirstOfMinute(i)}}
         /\ Claims = Told
<1>1. log \in Seq([at : 0..MaxInstant, closed : 0..2]) /\ MaxInstant \in Nat
  BY DayNumbers
<1>2. \A i \in DOMAIN log : ReadAs(i) = log[i].at
  <2>1. ASSUME NEW i \in DOMAIN log
        PROVE  log[i].at \in Nat
    <3>1. i \in 1..Len(log)
      BY <1>1, <2>1
    <3>2. log[i] \in [at : 0..MaxInstant, closed : 0..2]
      BY <1>1, <3>1, ElementOfSeq
    <3>3. QED
      BY <1>1, <3>2
  <2>2. QED
    BY <2>1 DEF ReadAs
<1>3. \A i \in DOMAIN log : \A j \in 1..(i - 1) : j \in DOMAIN log
  BY <1>1
<1>4. Claims = Told
  BY <1>2 DEF Claims, Told
<1>5. \A i \in DOMAIN log :
        FirstOfMinute(i) <=>
          /\ InSession(ReadAs(i))
          /\ \A j \in 1..(i - 1) :
               InSession(ReadAs(j)) =>
                 ReadAs(j) \div Minute # ReadAs(i) \div Minute
  BY <1>2, <1>3, Zenon DEF FirstOfMinute
<1>6. Fires = {log[i].at : i \in {i \in DOMAIN log : FirstOfMinute(i)}}
  BY <1>2, <1>5, Zenon DEF Fires
<1>7. QED
  BY <1>4, <1>6

LEMMA FiresAreLines ==
  ASSUME DayTypeOK
  PROVE  /\ Behind = 0 => Fires \subseteq Instants
         /\ Instants \subseteq Nat
<1>1. log \in Seq([at : 0..MaxInstant, closed : 0..2]) /\ MaxInstant \in Nat
  BY DayNumbers
<1>2. ASSUME NEW i \in DOMAIN log
      PROVE  log[i].at \in Nat
  <2>1. i \in 1..Len(log)
    BY <1>1, <1>2
  <2>2. log[i] \in [at : 0..MaxInstant, closed : 0..2]
    BY <1>1, <2>1, ElementOfSeq
  <2>3. QED
    BY <1>1, <2>2
<1>3. Behind = 0 => Fires \subseteq Instants
  BY StampsInUtc DEF Instants
<1>4. QED
  BY <1>2, <1>3 DEF Instants

(* A line of the session within a cron's window makes the cron one that    *)
(* ran: the first line of its minute, which is kept, is in the window too. *)
LEMMA LinesInTheWindow ==
  ASSUME DayTypeOK, Behind = 0, NEW s \in Schedule, NEW t \in Instants,
         Expected(s) <= t, t < Expected(s) + Grace
  PROVE  Ran(s)
<1>1. /\ log \in Seq([at : 0..MaxInstant, closed : 0..2]) /\ MaxInstant \in Nat
      /\ Len(log) \in Nat
  BY DayNumbers
<1>2. /\ Minute \in Nat \ {0} /\ Grace \in Nat \ {0} /\ s \in Nat
      /\ Open \in Nat
      /\ s % Minute = 0 /\ Grace % Minute = 0 /\ DayLength % Minute = 0
      /\ Open <= s /\ DayLength \in Nat
  BY TradingDayAssumption, Zenon DEF TradingDayAssumption
<1>3. Day \in Nat /\ SessionStart = Day * DayLength + Open
  BY DayFacts
<1> DEFINE lo == Expected(s)
           hi == Expected(s) + Grace
<1>4. /\ lo \in Nat /\ hi \in Nat /\ lo % Minute = 0 /\ hi % Minute = 0
      /\ SessionStart <= lo /\ SessionStart \in Nat
  <2>1. Day * DayLength \in Nat /\ (Day * DayLength) % Minute = 0
    <3>1. Day * DayLength \in Nat
      BY <1>2, <1>3
    <3>2. (Day * DayLength) % Minute = 0
      BY <1>2, <1>3, MultiplesTimes, Zenon
    <3>3. QED
      BY <3>1, <3>2
  <2>2. lo = Day * DayLength + s
    BY DEF Expected
  <2> HIDE DEF lo
  <2>3. lo \in Nat /\ lo % Minute = 0
    BY <1>2, <2>1, <2>2, MultiplesAdd
  <2>4. lo + Grace \in Nat /\ (lo + Grace) % Minute = 0
    <3>1. Grace \in Nat
      BY <1>2
    <3>2. (lo + Grace) % Minute = 0
      BY <1>2, <2>3, <3>1, MultiplesAdd
    <3>3. QED
      BY <2>3, <3>1, <3>2
  <2>5. SessionStart <= lo /\ SessionStart \in Nat
    BY <1>2, <1>3, <2>1, <2>2
  <2>6. QED
    BY <2>3, <2>4, <2>5 DEF lo
<1>5. lo <= t /\ t < hi /\ t \in Nat
  BY FiresAreLines
<1>6. hi = lo + Grace
  OBVIOUS
<1>7. Ran(s) <=> \E f \in Fires : lo <= f /\ f <= hi
  BY DEF Ran
<1> HIDE DEF lo, hi
<1> DEFINE same == {i \in 1..Len(log) :
                      /\ InSession(log[i].at)
                      /\ log[i].at \div Minute = t \div Minute}
<1>8. same # {}
  <2>1. PICK i \in DOMAIN log : t = log[i].at
    BY DEF Instants
  <2>2. InSession(t)
    BY <1>4, <1>5 DEF InSession
  <2>3. i \in same
    BY <1>1, <2>1, <2>2
  <2>4. QED
    BY <2>3
<1>9. PICK n \in same : \A m \in same : n <= m
  <2>1. same \in SUBSET Nat
    BY <1>1
  <2>2. QED
    BY <1>8, <2>1, LeastNatural
<1>10. log[n].at \in Nat
  <2>1. log[n] \in [at : 0..MaxInstant, closed : 0..2]
    BY <1>1, ElementOfSeq
  <2>2. QED
    BY <1>1, <2>1
<1>11. lo <= log[n].at /\ log[n].at < hi
  BY <1>2, <1>4, <1>5, <1>10, SameMinute
<1>12. log[n].at \in Fires
  <2>1. ASSUME NEW j \in 1..(n - 1), InSession(log[j].at)
        PROVE  log[j].at \div Minute # log[n].at \div Minute
    <3>1. j \in 1..Len(log) /\ ~ (n <= j)
      BY <1>1
    <3>2. j \notin same
      BY <1>9, <3>1
    <3>3. QED
      BY <2>1, <3>1, <3>2
  <2>2. n \in DOMAIN log /\ InSession(log[n].at)
    BY <1>1
  <2>3. QED
    BY <2>1, <2>2, StampsInUtc DEF FirstOfMinute
<1>13. QED
  BY <1>4, <1>7, <1>10, <1>11, <1>12

LEMMA CronsAgree ==
  ASSUME DayTypeOK, NEW s \in Schedule
  PROVE  /\ CronStatus(s) = "missed" <=> s \in MissingCrons
         /\ Behind = 0 =>
              /\ CronStatus(s) = "missed" =>
                   /\ instant >= Expected(s) + Grace
                   /\ LinesOf(s) \subseteq {Expected(s) + Grace}
              /\ CronStatus(s) = "ok" => LinesOf(s) # {}
<1> DEFINE lo == Expected(s)
           hi == Expected(s) + Grace
           on == LinesOf(s)
<1>1. /\ lo \in Nat /\ hi \in Nat /\ instant \in Nat
      /\ Weekday(Day) \in 0..6
  <2>1. Grace \in Nat /\ s \in Nat
    BY TradingDayAssumption, Zenon DEF TradingDayAssumption
  <2>2. Day \in Nat /\ Day * DayLength \in Nat /\ instant \in Nat
    BY DayFacts
  <2>3. Expected(s) \in Nat
    BY <2>1, <2>2 DEF Expected
  <2>4. QED
    BY <2>1, <2>2, <2>3, WeekdayTyped DEF WeekdayType
<1>2. CronStatus(s) =
        CASE Weekday(Day) >= 5 -> "n/a"
          [] Weekday(Day) < 5 /\ Ran(s) -> "ok"
          [] Weekday(Day) < 5 /\ ~Ran(s) /\ instant < hi -> "pending"
          [] OTHER -> "missed"
  BY DEF CronStatus
<1>3. s \in MissingCrons <=> Weekday(Day) < 5 /\ instant >= hi /\ ~Ran(s)
  BY <1>1 DEF MissingCrons
<1>0. on = Instants \cap (lo..hi)
  BY DEF LinesOf, Instants
<1> HIDE DEF on
<1>4. Behind = 0 /\ Ran(s) => on # {}
  <2>1. SUFFICES ASSUME Behind = 0, Ran(s)
                 PROVE  on # {}
    OBVIOUS
  <2>2. PICK f \in Fires : lo <= f /\ f <= hi
    BY <2>1 DEF Ran
  <2>3. f \in Instants /\ f \in Nat
    BY <2>1, FiresAreLines
  <2> HIDE DEF lo, hi
  <2>4. f \in lo..hi
    BY <1>1, <2>2, <2>3
  <2>5. QED
    BY <1>0, <2>3, <2>4
<1>5. Behind = 0 /\ ~Ran(s) => on \subseteq {hi}
  <2>1. SUFFICES ASSUME Behind = 0, NEW t \in on, t # hi
                 PROVE  Ran(s)
    OBVIOUS
  <2>2. t \in Instants /\ lo <= t /\ t < hi
    <3> HIDE DEF lo, hi
    <3>1. t \in Instants /\ t \in lo..hi
      BY <1>0
    <3>2. QED
      BY <1>1, <2>1, <3>1
  <2>3. QED
    BY <2>1, <2>2, LinesInTheWindow
<1>6. /\ CronStatus(s) = "missed" <=>
           Weekday(Day) < 5 /\ instant >= hi /\ ~Ran(s)
      /\ CronStatus(s) = "ok" => Ran(s)
  <2> HIDE DEF lo, hi
  <2>1. CASE Weekday(Day) >= 5
    <3>1. CronStatus(s) = "n/a" /\ ~ (Weekday(Day) < 5)
      BY <1>1, <1>2, <2>1
    <3>2. QED
      BY <3>1
  <2>2. CASE Weekday(Day) < 5 /\ Ran(s)
    <3>1. CronStatus(s) = "ok"
      BY <1>1, <1>2, <2>2
    <3>2. QED
      BY <2>2, <3>1
  <2>3. CASE Weekday(Day) < 5 /\ ~Ran(s) /\ instant < hi
    <3>1. CronStatus(s) = "pending" /\ ~ (instant >= hi)
      BY <1>1, <1>2, <2>3
    <3>2. QED
      BY <3>1
  <2>4. CASE Weekday(Day) < 5 /\ ~Ran(s) /\ instant >= hi
    <3>1. CronStatus(s) = "missed"
      BY <1>1, <1>2, <2>4
    <3>2. QED
      BY <2>4, <3>1
  <2>5. QED
    BY <1>1, <2>1, <2>2, <2>3, <2>4
<1>7. QED
  BY <1>3, <1>4, <1>5, <1>6 DEF on

(* The parts of the summary agree with each other, on any schedule and     *)
(* grace period of whole minutes and at any time of any week, however the  *)
(* bot's lines and closes come in and whatever its clock shows, and with   *)
(* what happened if its clock shows UTC.                                   *)
THEOREM TheSummaryAgrees == DaySpec => []PagesAgree
<1>1. DayInv => PagesAgree
  <2> SUFFICES ASSUME DayInv
               PROVE  PagesAgree
    OBVIOUS
  <2>1. DayTypeOK /\ Counted
    BY DEF DayInv
  <2>2. /\ MarketOpen <=> Reason = "open"
        /\ ~MarketOpen => NextOpen = NextOpenOfMarket
    BY <2>1, ClocksAgree
  <2>3. ~MarketOpen =>
          /\ instant < NextOpen /\ Weekday(NextOpen \div DayLength) < 5
          /\ \A t \in (instant + 1)..(NextOpen - 1) :
               t % DayLength = Open => Weekday(t \div DayLength) >= 5
    BY <2>1, OpensNext
  <2>4. \A s \in Schedule :
          /\ CronStatus(s) = "missed" <=> s \in MissingCrons
          /\ Behind = 0 =>
               /\ CronStatus(s) = "missed" =>
                    /\ instant >= Expected(s) + Grace
                    /\ LinesOf(s) \subseteq {Expected(s) + Grace}
               /\ CronStatus(s) = "ok" => LinesOf(s) # {}
    BY <2>1, CronsAgree
  <2>5. Behind = 0 => (Mismatch <=> InSession(instant) /\ balance # 0)
    <3>0. SUFFICES ASSUME Behind = 0
                   PROVE  Mismatch <=> InSession(instant) /\ balance # 0
      OBVIOUS
    <3>1. Claimed = ToldCount
      BY <2>1, <3>0, StampsInUtc DEF Claimed, ToldCount
    <3>2. CASE InSession(instant)
      <4>1. balance = ClosesToday - ToldCount
        BY <2>1, <3>2 DEF Counted
      <4>2. ToldCount \in Nat /\ ClosesToday \in Nat
        BY <2>1, ToldIsFinite, ClosesAreFinite
      <4>3. QED
        BY <3>1, <3>2, <4>1, <4>2 DEF Mismatch
    <3>3. CASE ~ InSession(instant)
      <4>1. Told = {} /\ {i \in DOMAIN ledger : InSession(ledger[i])} = {}
        BY <2>1, <3>3 DEF Counted
      <4>2. ToldCount = 0 /\ ClosesToday = 0
        BY <4>1, FS_EmptySet DEF ToldCount, ClosesToday
      <4>3. QED
        BY <3>1, <3>3, <4>2 DEF Mismatch
    <3>4. QED
      BY <3>2, <3>3
  <2>6. Weekday(Day) >= 5 => ~StaleState /\ MissingCrons = {}
    <3>1. Weekday(Day) \in 0..6
      BY <2>1, DayFacts, WeekdayTyped DEF WeekdayType
    <3>2. QED
      BY <3>1 DEF StaleState, MarketOpen, MissingCrons
  <2>7. QED
    BY <2>2, <2>3, <2>4, <2>5, <2>6 DEF PagesAgree
<1>2. QED
  BY <1>1, DayInitInv, DayStep, PTL DEF DaySpec

(*-------------------------------------------------------------------------*)
(* The five modules side by side, as MCViews runs them.                    *)
(*-------------------------------------------------------------------------*)
ViewsInv == WsInv /\ HistoryInv /\ TailTypeOK /\ SessionsInv /\ DayInv

(* Every variable of the five modules keeps its type, in the composition   *)
(* that MCViews checks.                                                    *)
THEOREM TypeCorrect == Spec => []TypeOK
<1>1. Init => ViewsInv
  BY WsInitInv, HistoryInitInv, TailInitType, SessionsInitInv, DayInitInv
     DEF Init, ViewsInv
<1>2. ViewsInv /\ [Next]_vars => ViewsInv'
  <2> SUFFICES ASSUME ViewsInv, [Next]_vars
               PROVE  ViewsInv'
    OBVIOUS
  <2>1. /\ [WsNext]_wsVars /\ [HistoryNext]_historyVars
        /\ [TailNext]_tailVars /\ [SessionsNext]_sessionVars
        /\ [DayNext]_dayVars
    <3>1. CASE Next
      BY <3>1 DEF Next, Stream, Chart, LogPage, SessionPage, SummaryPage
    <3>2. CASE UNCHANGED vars
      BY <3>2 DEF vars
    <3>3. QED
      BY <3>1, <3>2
  <2>2. QED
    BY <2>1, WsInvStep, HistoryStep, TailStepType, SessionsStep, DayStep
       DEF ViewsInv
<1>3. ViewsInv => TypeOK
  BY DEF ViewsInv, TypeOK, WsInv, HistoryInv, SessionsInv, DayInv
<1>4. QED
  BY <1>1, <1>2, <1>3, PTL DEF Spec
=============================================================================
