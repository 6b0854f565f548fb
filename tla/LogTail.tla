------------------------------ MODULE LogTail -------------------------------
(***************************************************************************)
(* GET /strategies/{id}/logs (logs.tail_bytes): a client polls the log of  *)
(* a strategy with the cursor of the last answer. A poll takes the size of *)
(* the file, then reads from the cursor to the end, which may be further   *)
(* on by then. The strategy appends, logrotate starts the file anew.       *)
(*                                                                         *)
(* A byte is its position in the file and one of four kinds, for the code  *)
(* splits what it has decoded, and counts in bytes what it has encoded:    *)
(* "newline"; "return", which stands for whatever else str.splitlines      *)
(* splits at; "invalid", which is replaced by a character of three bytes,  *)
(* as the part of a character at the end of what is read is too; "plain".  *)
(***************************************************************************)
EXTENDS Integers, Sequences, FiniteSets, FiniteSetsExt

CONSTANTS
  Chunk,      \* _INITIAL_CHUNK_BYTES
  Limit,      \* the lines an initial load keeps
  MaxSize,    \* bound: bytes in the file
  MaxRotates  \* bound: rotations

ASSUME LogTailAssumption ==
  /\ Chunk \in Nat \ {0} /\ Limit \in Nat \ {0}
  /\ MaxSize \in Nat \ {0} /\ MaxRotates \in Nat

ByteKind == {"plain", "newline", "return", "invalid"}

VARIABLES
  there,    \* the file exists
  text,     \* its bytes
  cursor,   \* the client's cursor; empty: none
  poll,     \* "idle" or "read"
  seenSize, \* the size the poll has taken (0: no poll is in progress)
  initial,  \* the poll is an initial load (or none is in progress)
  got,      \* the bytes shown to the client since its last initial load
  first,    \* history: the byte before the first of them
  stale,    \* history: rotated since that load began
  cutShort, \* history: what a poll since then has read ended in a "return"
  rotates

file == <<there, text>>
tailVars == <<file, cursor, poll, seenSize, initial, got, first, stale,
              cutShort, rotates>>

Size == Len(text)

-----------------------------------------------------------------------------
(* str.splitlines: a "return" and the newline after it are one separator. *)
EndsLine(i) ==
  \/ text[i] = "newline"
  \/ text[i] = "return" /\ ~(i < Size /\ text[i + 1] = "newline")

(* Where the lines of the bytes after that position begin. *)
Starts(from) ==
  {from + 1} \cup {i \in (from + 2)..Size : EndsLine(i - 1)}

(* The bytes from a to b, decoded and encoded again. *)
EncodedLength(a, b) ==
  b - a + 1 + 2 * Cardinality({i \in a..b : text[i] = "invalid"})

(* What is read from there on does not end in a newline: its last line is  *)
(* taken to be incomplete, and is left for the next poll.                  *)
Incomplete(from) == from < Size /\ text[Size] # "newline"
LastStart(from) == Max(Starts(from))

(* The length of that line, which does not count its separator. *)
Trailing(from) ==
  IF ~Incomplete(from) THEN 0
  ELSE EncodedLength(LastStart(from),
                     IF text[Size] = "return" THEN Size - 1 ELSE Size)

(* Mutation: the cursor goes to the end, past the line that is left out. *)
NextCursorAtEnd(from) == seenSize

(* The cursor after an incremental read, and the last byte it shows. *)
NextCursor(from) == seenSize - Trailing(from)
ShownTo(from) == IF Incomplete(from) THEN LastStart(from) - 1 ELSE Size

(* The byte before the first that an initial load shows: the first line of *)
(* a chunk that begins within the file is dropped, and only Limit lines    *)
(* are kept, a part of a line at the end counting as one.                  *)
InitialFrom ==
  LET start == IF seenSize > Chunk THEN seenSize - Chunk ELSE 0
      lines == IF start >= Size THEN {}
               ELSE IF start > 0 THEN Starts(start) \ {start + 1}
               ELSE Starts(start)
      kept  == {s \in lines : Cardinality({t \in lines : t > s}) < Limit}
  IN  IF kept = {} THEN Size ELSE Min(kept) - 1

-----------------------------------------------------------------------------
Answered == poll' = "idle" /\ seenSize' = 0 /\ initial' = TRUE

PollNoFile ==
  /\ poll = "idle"
  /\ ~there
  /\ cursor' = {0}
  /\ UNCHANGED <<file, poll, seenSize, initial, got, first, stale, cutShort,
                 rotates>>

Stat ==
  /\ poll = "idle"
  /\ there
  /\ poll' = "read"
  /\ seenSize' = Size
  /\ initial' = \A c \in cursor : c > Size
  /\ stale' = IF initial' THEN FALSE ELSE stale
  /\ cutShort' = IF initial' THEN FALSE ELSE cutShort
  /\ UNCHANGED <<file, cursor, got, first, rotates>>

ReadInitial ==
  /\ poll = "read" /\ initial
  /\ there
  /\ got' = (InitialFrom + 1)..Size
  /\ first' = InitialFrom
  /\ cursor' = {seenSize}
  /\ Answered
  /\ UNCHANGED <<file, stale, cutShort, rotates>>

ReadOn ==
  /\ poll = "read" /\ ~initial
  /\ there
  /\ \E from \in cursor :
       /\ from >= 0
       /\ got' = got \cup (from + 1)..ShownTo(from)
       /\ cursor' = {NextCursor(from)}
       /\ cutShort' = (cutShort \/ (from < Size /\ text[Size] = "return"))
  /\ Answered
  /\ UNCHANGED <<file, first, stale, rotates>>

(* The file has gone since, or the cursor lies before its start, to which  *)
(* a long unfinished line or its invalid bytes may have taken it: the      *)
(* request fails and the client keeps its cursor.                          *)
ReadFails ==
  /\ poll = "read"
  /\ ~there \/ (~initial /\ \A c \in cursor : c < 0)
  /\ Answered
  /\ UNCHANGED <<file, cursor, got, first, stale, cutShort, rotates>>

(* The page is opened anew. *)
Reopen ==
  /\ poll = "idle" /\ cursor # {}
  /\ cursor' = {}
  /\ got' = {}
  /\ first' = 0
  /\ stale' = FALSE
  /\ cutShort' = FALSE
  /\ UNCHANGED <<file, poll, seenSize, initial, rotates>>

(* The strategy writes; bytes reach the file in any portions. *)
Grow(byte) ==
  /\ Size < MaxSize
  /\ there' = TRUE
  /\ text' = Append(text, byte)
  /\ UNCHANGED <<cursor, poll, seenSize, initial, got, first, stale, cutShort,
                 rotates>>

(* logrotate, with or without a new file at once. *)
Rotate(anew) ==
  /\ rotates < MaxRotates /\ Size > 0
  /\ rotates' = rotates + 1
  /\ there' = anew
  /\ text' = <<>>
  /\ stale' = (cursor # {} \/ poll = "read")
  /\ UNCHANGED <<cursor, poll, seenSize, initial, got, first, cutShort>>

-----------------------------------------------------------------------------
TailInit ==
  /\ there = FALSE
  /\ text = <<>>
  /\ cursor = {}
  /\ poll = "idle"
  /\ seenSize = 0
  /\ initial = TRUE
  /\ got = {}
  /\ first = 0
  /\ stale = FALSE
  /\ cutShort = FALSE
  /\ rotates = 0

TailNext ==
  \/ PollNoFile \/ Stat \/ ReadInitial \/ ReadOn \/ ReadFails \/ Reopen
  \/ \E byte \in ByteKind : Grow(byte)
  \/ \E anew \in BOOLEAN : Rotate(anew)

TailSpec == TailInit /\ [][TailNext]_tailVars

TailTypeOK ==
  /\ there \in BOOLEAN
  /\ text \in Seq(ByteKind) /\ Len(text) <= MaxSize
  /\ cursor \in SUBSET (-3 * MaxSize..MaxSize)
  /\ poll \in {"idle", "read"}
  /\ seenSize \in 0..MaxSize
  /\ initial \in BOOLEAN
  /\ got \in SUBSET (1..MaxSize)
  /\ first \in 0..MaxSize
  /\ stale \in BOOLEAN
  /\ cutShort \in BOOLEAN
  /\ rotates \in 0..MaxRotates

-----------------------------------------------------------------------------
(* Nothing of the log is skipped: every byte between the first one that    *)
(* was shown and the cursor has been shown, wherever a line was cut off,   *)
(* and however the file grew between a poll's look at its size and its     *)
(* read, unless the file was rotated since or a poll's bytes ended in a    *)
(* separator that is not a newline (bytes may be shown twice).             *)
NothingSkipped ==
  stale \/ cutShort \/ (poll = "read" /\ initial)
    \/ \A c \in cursor : (first + 1)..c \subseteq got
=============================================================================
