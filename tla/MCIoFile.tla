------------------------------ MODULE MCIoFile ------------------------------
(***************************************************************************)
(* The files the runs of io_file load: up to three devices of two ids, one *)
(* of them 0, in files that are whole or cut.                              *)
(***************************************************************************)
EXTENDS IoFile

Device(name, id, ports, memory) ==
  [name |-> name, id |-> id, ports |-> ports, memory |-> memory]

MCDevices ==
  {Device(5, 0, <<>>, <<6>>), Device(7, 3, <<8, 9>>, <<>>), Device(4, 3, <<6>>, <<7, 8>>)}

Whole(ds) ==
  [kind |-> "good", written |-> ds, announced |-> Len(ds), cells |-> EncodedAll(ds),
   torn |-> FALSE]

\* A cell that is cut reads as 0, as itself or, an id being cut, as another id.
Cuts(f) ==
  LET upTo(k) == [f EXCEPT !.cells = SubSeq(@, 1, k)]
      tear(k, v) == [f EXCEPT !.cells = Append(SubSeq(@, 1, k - 1), v), !.torn = TRUE]
  IN  {upTo(k) : k \in 0..(Len(f.cells) - 1)}
        \cup {tear(k, v) : k \in DOMAIN f.cells, v \in {0, 2, 3}}

FilesOf(n) ==
  LET wholes == {Whole(ds) : ds \in BoundedSeq(MCDevices, n)}
  IN  wholes \cup UNION {Cuts(f) : f \in wholes}

\* Up to two devices in every form, two of them announced as one or three, and
\* three whole or without the end of the last.
MCFiles ==
  FilesOf(2)
    \cup {[Whole(ds) EXCEPT !.announced = n] : ds \in [1..2 -> MCDevices], n \in {1, 3}}
    \cup UNION {{f, [f EXCEPT !.cells = Front(@)]} :
                  f \in {Whole(ds) : ds \in [1..3 -> MCDevices]}}
    \cup {[Whole(<<>>) EXCEPT !.kind = k] : k \in Kinds}
=============================================================================
