--------------------------- MODULE StreamableFile ---------------------------
(***************************************************************************)
(* streamable_file: the std::ifstream every reader of the library owns.    *)
(* A stream is one record and every operation is a function of it, so that *)
(* a reader applies several of them in one step, as its handler does.      *)
(*                                                                         *)
(*   isOpen  in_file_.is_open()          opened  opened_                   *)
(*   at      the file offset             eof     eof_                      *)
(*   fail    failbit of in_file_                                           *)
(*                                                                         *)
(* badbit (a device error) is not modelled; eofbit is only ever set by a   *)
(* read that falls short, which check_eof copies to eof at once.           *)
(***************************************************************************)
EXTENDS Integers

Streams == [isOpen: BOOLEAN, opened: BOOLEAN, at: Nat, fail: BOOLEAN, eof: BOOLEAN]

\* The constructor initialises eof_ and leaves opened_ indeterminate.
Unopened(o) == [isOpen |-> FALSE, opened |-> o, at |-> 0, fail |-> FALSE, eof |-> TRUE]

\* load: open() clears the state bits when it succeeds, sets failbit when not.
Load(exists) ==
  [isOpen |-> exists, opened |-> exists, at |-> 0, fail |-> ~exists, eof |-> ~exists]

\* Mistake: close leaves eof_ as it is.
CloseKeepingEof(s) == [s EXCEPT !.isOpen = FALSE, !.opened = FALSE]

Close(s) == [s EXCEPT !.isOpen = FALSE, !.opened = FALSE, !.eof = TRUE]

\* Mistake: the state bits of the stream are not cleared before seekg.
SeekUncleared(s, to) ==
  LET ok == s.isOpen /\ ~s.fail /\ to >= 0
  IN  [s EXCEPT !.at = IF ok THEN to ELSE @, !.fail = ~ok, !.eof = ~s.isOpen]

\* seekg takes a signed offset: from 2^63 on (or from where the file system
\* refuses to seek) the unsigned argument of seek is none.
Signed(to, limit) == IF to < limit THEN to ELSE -1

(***************************************************************************)
(* seek and seek_from_end: clear(), seekg, check_eof. A seekg that fails   *)
(* (a negative offset, or no open file) sets failbit only; check_eof looks *)
(* at badbit, eofbit and is_open.                                          *)
(***************************************************************************)
Seek(s, to) ==
  LET ok == s.isOpen /\ to >= 0
  IN  [s EXCEPT !.at = IF ok THEN to ELSE @, !.fail = ~ok, !.eof = ~s.isOpen]

\* Does reading n units of a file of the given size fall short?
FallsShort(s, n, size) == s.at + n > size

(***************************************************************************)
(* read_raw of n units, n at least 1. Nothing is read once eof_ is set; a  *)
(* read on a failed stream fails again and, eofbit being clear, leaves     *)
(* eof_ as it is.                                                          *)
(***************************************************************************)
Read(s, n, size) ==
  IF s.eof \/ s.fail THEN s
  ELSE IF FallsShort(s, n, size) THEN [s EXCEPT !.fail = TRUE, !.eof = TRUE]
  ELSE [s EXCEPT !.at = @ + n]

\* pos: tellg() is -1 on a failed or closed stream.
Pos(s) == IF s.fail \/ ~s.isOpen THEN -1 ELSE s.at
=============================================================================
