--------------------------- MODULE StreamableOutfile ---------------------------
(***************************************************************************)
(* streamable_outfile: the std::ofstream a file is written with. What is   *)
(* written to a file that could not be opened is lost, without a word.     *)
(***************************************************************************)
EXTENDS Sequences

Unopened == [isOpen |-> FALSE, written |-> <<>>]

\* open: an existing file is emptied.
Open(writable) == [isOpen |-> writable, written |-> <<>>]

\* close: no program calls it, they end with the file open.
Close(out) == [out EXCEPT !.isOpen = FALSE]

Write(out, item) == IF out.isOpen THEN [out EXCEPT !.written = Append(@, item)] ELSE out
=============================================================================
