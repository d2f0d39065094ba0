-------------------------- MODULE MCDumpSyncEvents --------------------------
(***************************************************************************)
(* dump_sync_events on the small scenarios of MCScenarios, and on files    *)
(* that load refuses.                                                      *)
(***************************************************************************)
EXTENDS DumpSyncEvents, MCScenarios

DumpFiles ==
  Scenarios(Starts, WellFormedGroups, 2, {EmulatedLast, ExitLast})
    \cup Scenarios({<<>>, EmulatedLast}, MalformedGroups, 1, {EmulatedLast})
    \cup {[Good(EmulatedLast) EXCEPT !.kind = k] : k \in {"absent", "short", "rejected"}}
    \cup {Good(<<>>)}

ASSUME DumpFilesAssumption == \A f \in DumpFiles : f.kind = "good" => IsScenario(f)
=============================================================================
