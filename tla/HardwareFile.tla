----------------------------- MODULE HardwareFile -----------------------------
(***************************************************************************)
(* hardware_file: the reader of the recorded hardware accesses. Accesses   *)
(* have no fixed size, so a place in the file is named by two numbers, the *)
(* offset (file_position) and the number of accesses read (position). A    *)
(* reader is one record and every call is a function of it.                *)
(*                                                                         *)
(*   stream  file_                       lastRead  last_read_position_     *)
(*   current current_                    position  position_               *)
(*                                                                         *)
(* The units of an offset are arbitrary: what matters is where the records *)
(* end. -1 is the 2^64 - 1 that pos() returns on a failed stream.          *)
(***************************************************************************)
EXTENDS Integers, Sequences

S == INSTANCE StreamableFile

\* body: the fields besides tsc.
Accesses == [tsc: Nat, body: Nat]

ZeroAccess == [tsc |-> 0, body |-> 0]

\* What an offset that is not the start of a record decodes to.
Garbled == [tsc |-> 1, body |-> 0]

Valid(access) == access.tsc # 0

HeaderSize == 1

(***************************************************************************)
(* "absent": it cannot be opened; "short": it ends within magic and        *)
(* version; "rejected": wrong magic. recs[i] ends at offset ends[i]; tail  *)
(* is what the incomplete record at the end of a truncated file decodes to.*)
(***************************************************************************)
HardwareFiles ==
  [kind: {"good", "absent", "short", "rejected"},
   recs: Seq(Accesses), ends: Seq(Nat), tail: Seq(Accesses)]

StartOf(f, i) == IF i = 1 THEN HeaderSize ELSE f.ends[i - 1]

AccessCount(f) == Len(f.recs)

IsHardwareFile(f) ==
  /\ f \in HardwareFiles
  /\ Len(f.ends) = AccessCount(f) /\ Len(f.tail) <= 1
  /\ \A i, j \in 1..(AccessCount(f) + 1) : i < j => StartOf(f, i) < StartOf(f, j)

\* Where the last complete record ends.
EndOf(f) == StartOf(f, AccessCount(f) + 1)

FileSize(f) == EndOf(f) + Len(f.tail)

\* The record that starts at an offset.
RecordAt(f, offset) == {i \in 1..AccessCount(f) : StartOf(f, i) = offset}

\* The accesses next() gives, one by one: an incomplete record is given like
\* another when its TSC is there.
Items(f) == IF f.tail # <<>> /\ Valid(f.tail[1]) THEN Append(f.recs, f.tail[1]) ELSE f.recs

\* How many items come before the first that is not valid.
ValidCount(f) ==
  CHOOSE n \in 0..Len(Items(f)) :
    /\ \A i \in 1..n : Valid(Items(f)[i])
    /\ n < Len(Items(f)) => ~Valid(Items(f)[n + 1])

Reader == [stream: S!Streams, current: Accesses, lastRead: Nat \cup {-1}, position: Nat]

NewReader(o) ==
  [stream |-> S!Unopened(o), current |-> ZeroAccess, lastRead |-> 0, position |-> 0]

-----------------------------------------------------------------------------
(* operator>>: the access read, and the stream after it. Anywhere but at a *)
(* record the length that is read makes the read run into the end.         *)

AccessRead(f, s) ==
  IF s.fail THEN ZeroAccess
  ELSE IF RecordAt(f, s.at) # {} THEN f.recs[CHOOSE i \in RecordAt(f, s.at) : TRUE]
  ELSE IF s.at >= FileSize(f) THEN ZeroAccess
  ELSE IF s.at = EndOf(f) THEN f.tail[1]
  ELSE Garbled

AfterAccess(f, s) ==
  LET size == IF RecordAt(f, s.at) # {}
              THEN f.ends[CHOOSE i \in RecordAt(f, s.at) : TRUE] - s.at
              ELSE FileSize(f) + 1
  IN  S!Read(s, size, FileSize(f))

\* Mistake: the offset is taken after the read.
NextOfLate(f, r) ==
  IF r.stream.eof
  THEN [r EXCEPT !.lastRead = S!Pos(r.stream), !.current.tsc = 0]
  ELSE LET s == AfterAccess(f, r.stream)
       IN  [stream   |-> s,
            current  |-> AccessRead(f, r.stream),
            lastRead |-> S!Pos(s),
            position |-> r.position + 1]

\* Mistake: at the end of the file the last access stays the current one.
NextOfKeeping(f, r) ==
  IF r.stream.eof
  THEN [r EXCEPT !.lastRead = S!Pos(r.stream)]
  ELSE [stream   |-> AfterAccess(f, r.stream),
        current  |-> AccessRead(f, r.stream),
        lastRead |-> S!Pos(r.stream),
        position |-> r.position + 1]

\* Mistake: the calls after the end are counted too.
NextOfCounting(f, r) ==
  [stream   |-> AfterAccess(f, r.stream),
   current  |-> AccessRead(f, r.stream),
   lastRead |-> S!Pos(r.stream),
   position |-> r.position + 1]

\* next. The read that fails at the end of the file is counted as well.
NextOf(f, r) ==
  IF r.stream.eof
  THEN [r EXCEPT !.lastRead = S!Pos(r.stream), !.current.tsc = 0]
  ELSE [stream   |-> AfterAccess(f, r.stream),
        current  |-> AccessRead(f, r.stream),
        lastRead |-> S!Pos(r.stream),
        position |-> r.position + 1]

\* load: it returns true for a "good" file, throws for a "rejected" one.
LoadOf(f, r) ==
  LET stream == CASE f.kind = "absent" -> S!Load(FALSE)
                  [] f.kind = "good"   -> S!Read(S!Load(TRUE), HeaderSize, FileSize(f))
                  [] OTHER             -> S!Close(S!Load(TRUE))
  IN  [r EXCEPT !.stream = stream, !.position = 0,
                !.lastRead = IF f.kind = "good" THEN S!Pos(stream) ELSE @]

\* Mistake: the access is left to the next call, also at position 0.
AdvanceOfUnread(f, r, offset, p) ==
  [r EXCEPT !.stream = S!Seek(@, offset), !.position = p - 1]

\* advance_to: the current access of position 0 is the one of before.
AdvanceOf(f, r, offset, p) ==
  LET sought == [r EXCEPT !.stream = S!Seek(@, offset), !.position = IF p = 0 THEN 0 ELSE p - 1]
  IN  IF p = 0 THEN sought ELSE NextOf(f, sought)

\* Mistake: the offset of the access the other reader has read.
SyncOfLastRead(r, other) ==
  [r EXCEPT !.stream = S!Seek(@, other.lastRead),
            !.position = other.position, !.current = other.current]

\* Mistake: the number of the access, for its offset.
SyncOfNumber(r, other) ==
  [r EXCEPT !.stream = S!Seek(@, other.position),
            !.position = other.position, !.current = other.current]

\* sync_with: last_read_position_ is not taken over.
SyncOf(r, other) ==
  [r EXCEPT !.stream = S!Seek(@, S!Pos(other.stream)),
            !.position = other.position, !.current = other.current]
=============================================================================
