----------------------------- MODULE MCSyncFile -----------------------------
(***************************************************************************)
(* The files that the runs of sync_file give it.                           *)
(***************************************************************************)
EXTENDS SyncFileClaims, MCScenarios

\* Every group, twice in a row: what next and current_event make of it.
EventFiles ==
  Scenarios(Starts, WellFormedGroups \cup MalformedGroups, 2, {EmulatedLast, ExitLast})

\* The records that seeking can land on, alone and among quiet neighbours, and
\* the malformed ones, begun at any of their records.
SeekFiles ==
  Scenarios(Starts, WellFormedGroups, 1, {EmulatedLast, ExitLast})
    \cup Scenarios(Starts, {Quiet(1, 1), DoubledEnter, IrqNow}, 2, {EmulatedLast})
    \cup Scenarios({<<>>, EmulatedLast}, MalformedGroups, 1, {EmulatedLast})

ASSUME ScenariosAssumption == \A f \in EventFiles \cup SeekFiles : IsScenario(f)

\* Every way a load can end, the versions, and files that end badly: within a
\* record, with an event that is quiet, or with points that belong to none.
Plain == IrqNow \o EmulatedLast
LoadFiles ==
  {[Good(Plain) EXCEPT !.kind = k, !.version = v] :
     k \in {"absent", "short", "rejected", "bad_data", "good"}, v \in {0, 2, 3}}
    \cup {[Good(Plain) EXCEPT !.tail = <<Pt(t, 3, 3)>>] : t \in {"OTHER", "VMENTER"}}
    \cup {Good(Plain \o end) : end \in {Quiet(3, 3), IrqLast, <<Pt("VMENTER", 3, 3)>>}}
    \cup {Good(<<>>)}

\* Here the longest file ends at offset 20.
MCLoadOffsetLimit == 23
MCLoadRecordQuotient == MCLoadOffsetLimit
MCLoadWord == 2 * MCLoadRecordQuotient

LoadReloads == {[Good(DoubledExit) EXCEPT !.kind = k] : k \in {"absent", "short", "good"}}

\* The files of the runs that refute a claim: one whose second event is
\* absorbed, one that ends with a quiet event, one with a point of no event.
AbsorbFiles == {Good(EmulatedLast \o Quiet(1, 1) \o EmulatedLast)}
QuietFiles  == {Good(EmulatedLast \o Quiet(3, 3))}
StrayFiles  == {Good(EmulatedLast \o <<Pt("VMENTER", 3, 3)>>)}
=============================================================================
