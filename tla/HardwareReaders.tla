---------------------------- MODULE HardwareReaders ----------------------------
(***************************************************************************)
(* Readers of one file of hardware accesses, and the client that calls     *)
(* them: it reads, notes down (file_position(), position()), gives such a  *)
(* pair to advance_to of any reader, and syncs one reader with another.    *)
(*                                                                         *)
(* Next lets it do so at any time. CarefulNext is a client that heeds what *)
(* the calls tell it.                                                      *)
(***************************************************************************)
EXTENDS HardwareFile, FiniteSets

CONSTANTS
  Files,        \* the files of accesses
  Broken,       \* the files that load refuses
  Readers,      \* the hardware_file objects
  MaxPosition,  \* bound: no call to next beyond this position
  MaxSaved,     \* bound: the pairs noted down
  Nothing       \* no access

ASSUME FilesAssumption ==
  /\ \A f \in Files : IsHardwareFile(f) /\ f.kind = "good"
  /\ \A f \in Broken : IsHardwareFile(f) /\ f.kind # "good"

ASSUME BoundsAssumption == MaxPosition \in Nat /\ MaxSaved \in Nat

VARIABLES
  file,     \* the file the readers are opened on
  readers,  \* the hardware_file objects
  told,     \* what the last call to each told the client
  saved     \* the pairs noted down: fresh, right after an access was read,
            \* which was then shown

vars == <<file, readers, told, saved>>

Tellings == {"unloaded", "loaded", "valid", "invalid", "rewound", "synced"}

Marks == [at: Nat \cup {-1}, position: Nat, fresh: BOOLEAN, shown: Accesses]

Set(r, reader, telling) ==
  /\ readers' = [readers EXCEPT ![r] = reader]
  /\ told' = [told EXCEPT ![r] = telling]
  /\ UNCHANGED <<file, saved>>

\* load returned true, the last time it was called.
InUse(r) == told[r] # "unloaded"

Call(r, reader, telling) == Set(r, reader, IF InUse(r) THEN telling ELSE "unloaded")

Validity(reader) == IF Valid(reader.current) THEN "valid" ELSE "invalid"

LoadFile(r, f) ==
  Set(r, LoadOf(f, readers[r]), IF f.kind = "good" THEN "loaded" ELSE "unloaded")

ReadNext(r) ==
  /\ readers[r].position < MaxPosition
  /\ LET reader == NextOf(file, readers[r]) IN Call(r, reader, Validity(reader))

AdvanceTo(r, mark) ==
  LET reader == AdvanceOf(file, readers[r], mark.at, mark.position)
  IN  Call(r, reader, IF mark.position = 0 THEN "rewound" ELSE Validity(reader))

SyncWith(r, other) == Call(r, SyncOf(readers[r], readers[other]), "synced")

\* The client notes down file_position() and position(), of a reader that was
\* loaded: a new one gives the offset 0, which is no record.
Save(r) ==
  /\ InUse(r)
  /\ Cardinality(saved) < MaxSaved
  /\ saved' = saved \cup {[at       |-> readers[r].lastRead,
                           position |-> readers[r].position,
                           fresh    |-> told[r] \in {"valid", "invalid"},
                           shown    |-> readers[r].current]}
  /\ UNCHANGED <<file, readers, told>>

Init ==
  /\ file \in Files
  /\ readers \in [Readers -> {NewReader(o) : o \in BOOLEAN}]
  /\ told = [r \in Readers |-> "unloaded"]
  /\ saved = {}

Next ==
  \E r \in Readers :
    \/ \E f \in {file} \cup Broken : LoadFile(r, f)
    \/ ReadNext(r)
    \/ \E mark \in saved : AdvanceTo(r, mark)
    \/ \E other \in Readers \ {r} : SyncWith(r, other)
    \/ Save(r)

Spec == Init /\ [][Next]_vars

(***************************************************************************)
(* A client that uses a reader while it has a file open, and notes down a  *)
(* pair only where its two numbers are one place: after load, and when a   *)
(* call has read a valid access. They are not after sync_with, which takes *)
(* over one of them only, nor back at position 0, nor beyond the end.      *)
(***************************************************************************)
CarefulNext ==
  \E r \in Readers :
    \/ \E f \in {file} \cup Broken : LoadFile(r, f)
    \/ InUse(r) /\ ReadNext(r)
    \/ InUse(r) /\ \E mark \in saved : AdvanceTo(r, mark)
    \/ InUse(r) /\ \E other \in Readers \ {r} :
         InUse(other) /\ SyncWith(r, other)
    \/ told[r] \in {"loaded", "valid"} /\ Save(r)

CarefulSpec == Init /\ [][CarefulNext]_vars

-----------------------------------------------------------------------------
\* Every variable has its type.
TypeOK ==
  /\ file \in Files
  /\ readers \in [Readers -> Reader]
  /\ told \in [Readers -> Tellings]
  /\ saved \subseteq Marks

Readable(r) == readers[r].stream.isOpen /\ ~readers[r].stream.fail

Boundaries(f) == {StartOf(f, i) : i \in 1..(AccessCount(f) + 1)}

(***************************************************************************)
(* Whatever pairs are noted down, given back to either reader or passed on *)
(* by sync_with, a stream that can be read stands where a record starts:   *)
(* no call decodes an access from the middle of another.                   *)
(***************************************************************************)
StandsAtARecord == \A r \in Readers : Readable(r) => readers[r].stream.at \in Boundaries(file)

(***************************************************************************)
(* A pair noted down right after a call that read an access gives that     *)
(* access again, to every reader that has the file open and whatever was   *)
(* done since, that reader's stream failed or at its end included.         *)
(***************************************************************************)
RestoreRepeats ==
  [][\A r \in Readers : \A mark \in saved :
       AdvanceTo(r, mark) /\ mark.fresh /\ mark.at >= 0 /\ readers[r].stream.isOpen =>
         /\ readers'[r].current = mark.shown
         /\ readers'[r].lastRead = mark.at
         /\ readers'[r].position = mark.position]_vars

(***************************************************************************)
(* The end is final: on a stream that failed, by reading past the end or   *)
(* by going to the place of a reader that had, next() gives no access that *)
(* is valid, the one last read least of all.                               *)
(***************************************************************************)
EndIsFinal ==
  [][\A r \in Readers :
       ReadNext(r) /\ readers[r].stream.fail => ~Valid(readers'[r].current)]_vars

-----------------------------------------------------------------------------
(* The readers of a careful client are cursors on the accesses of the file.*)

\* Its number: position(), which counts the read that met the end as well, that
\* of an incomplete record for one access and not for two. A reader that did not
\* meet the end itself, but took over its place, goes on counting.
NumberIn(f, reader) ==
  IF ~reader.stream.fail \/ Valid(reader.current) THEN reader.position
  ELSE IF reader.stream.eof THEN reader.position + (Len(Items(f)) - AccessCount(f))
  ELSE Len(Items(f)) + 1

NumberOf(r) == IF InUse(r) THEN NumberIn(file, readers[r]) ELSE 0

ShownBy(r) ==
  IF NumberOf(r) \in 1..Len(Items(file)) THEN readers[r].current ELSE Nothing

Cursor == INSTANCE AccessCursor WITH
  items  <- Items(file),
  number <- [r \in Readers |-> NumberOf(r)],
  shown  <- [r \in Readers |-> ShownBy(r)],
  marks  <- {mark.position : mark \in saved}

(***************************************************************************)
(* For a careful client the two numbers are one place: each call moves a   *)
(* reader as a cursor on the sequence of accesses moves, position() is the *)
(* number of the access current() holds, and a pair noted down leads back  *)
(* to the access it was taken at.                                          *)
(***************************************************************************)
ImplementsCursor == Cursor!Spec
=============================================================================
