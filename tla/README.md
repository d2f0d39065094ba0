# Verification of rvnsyncpoint

`rvnsyncpoint` reads what a modified VirtualBox records while a machine runs: the
*synchronization points* (VM exits, interrupts, VM enters with the registers of the CPU),
the memory written by the hardware, and the I/O ports of the devices. A replayer reads
these files back and forth. The library is sequential and stores nothing but what it reads;
what is hard in it is **where the reader is**: a call that returns one event reads on into
the next one and goes back, skips repeated records, walks backwards to rebuild an event, and
keeps the last event in a cache, while positions and offsets are unsigned 64-bit numbers.

This directory holds TLA+ models of that code, TLC configurations that check them on small
files, and proofs checked by TLAPS.

## 1. Inventory

| Component | Source | State | Operations | What makes it correct |
|---|---|---|---|---|
| `streamable_file` | `include/streamable_file.h`, `src/streamable_file.cpp` | `in_file_`, `eof_`, `opened_` | `load`, `close`, `seek`, `seek_from_end`, `pos`, `eof`, `is_open`, `read_raw`, `>>` | `eof()` is set when nothing more can be read; a closed file stays closed |
| `streamable_outfile` | `include/streamable_outfile.h`, `src/streamable_outfile.cpp` | `out_file_` | `open`, `close`, `write_raw`, `<<` | - |
| `sync_point` | `include/sync_point.h`, `src/sync_point.cpp` | registers, type, TSC, attached dumps | `==`, `is_equivalent`, `valid`, kinds | pure |
| `sync_event` | `include/sync_event.h`, `src/sync_event.cpp` | start and new context, interrupt, flags | `are_values_equivalent`, `check_sanity` | pure |
| `sync_file` | `include/sync_file.h`, `src/sync_file.cpp` | two streams, `current_`, `current_event_`, `position_`, `last_valid_position_`, `record_size_`, `version_` | `load`, `next`, `current_event`, `advance_to`, `seek_from_end`, `validate` | position, point and event fit together after any calls; the events are those of the records |
| data file | `sync_file.cpp:79-107`, `:393-413` | `data_file_`, `current_.data`, the data of the events | read by `next` | a point and an event have the memory dumps of their own records |
| `dump_sync_events` | `bin/dump_sync_events` | a `sync_file` | loop of `next` and `current_event` | prints every event once, in order, and ends |
| `dump_sync_points`, `dump_sync_points_data` | `bin/...` | a `sync_file` | loop of `next` | prints every run of identical points once, and ends |
| `hardware_file`, `hardware_access` | `include/`, `src/` | a stream, `current_`, `last_read_position_`, `position_` | `load`, `next`, `advance_to`, `sync_with` | a pair of positions that was saved brings a reader back |
| `reorder_hardware`, `dump_hardware` | `bin/...` | a `hardware_file`, a multimap | sort by TSC; print | a stable sort of the input; every access shown in its place |
| `io_file`, `device`, `dump_io` | `include/`, `src/`, `bin/` | a table of devices | `load`; print | the table is the file's |
| printing, build | `operator<<`, CMake, CI | - | - | not modelled |

Interaction: a reader owns its streams and calls them; a tool owns its reader. There are no
threads, callbacks or shared state. A client calls the reader from one thread, in any order.
`current_event` and `advance_to` call `next` and `seek`, the same operations a client calls,
on the same state, and may throw in the middle. Two readers of one hardware file meet in
`sync_with`; two programs meet in a file (`reorder_hardware` writes what `dump_hardware` reads).

Hard behaviours: look-ahead with put-back (`sync_file.cpp:173-183`), skipped duplicates
(`:418`), the reload loop (`:440-444`), the cached event (`:156`), the data file whose end
sticks (`:395`), wrap-around of positions (`:74`, `:180`, `:464`, `:479`), exceptions half-way
(`:266`, `:285`, `:329`), `load` on a used reader, truncated files of each kind, a stream that
fails without being at its end (`streamable_file.h:55`), the offset that is saved before a
read (`hardware_file.cpp:50`). `PROJECT.json` lists them as hazards with the properties that
cover them.

## 2. Modules

| Module | Models | Kind |
|---|---|---|
| `StreamableFile`, `StreamableOutfile` | the two streams | operators on a stream record |
| `SyncPoint` | `sync_point`, `sync_event` | pure operators |
| `SyncFile` | `sync_file` | state machine, its type invariant and properties of the reader |
| `SyncFileData` | the data file | extends the steps of `SyncFile` by the memory dumps |
| `SyncEvents` | - | the events of a sequence of records, defined at once: the reference |
| `SyncFileEvents` | - | properties of `sync_file` against that reference |
| `SyncFileClaims` | - | what comments say and the code does not do |
| `EventDump` | - | abstract specification of an event printer |
| `DumpSyncEvents` | `dump_sync_events` | composes `SyncFile`; implements `EventDump` |
| `DumpSyncPoints` | `dump_sync_points`, `dump_sync_points_data` | composes `SyncFileData` |
| `HardwareFile` | `hardware_file`, `hardware_access` | a reader as a record, each call a function of it |
| `AccessCursor` | - | abstract specification: cursors on a sequence |
| `HardwareReaders` | several readers and their client | state machine over `HardwareFile`; implements `AccessCursor` |
| `ReorderHardware`, `DumpHardware` | the two tools | state machines over `HardwareFile` |
| `HardwareTools` | one tool after the other | composes the two |
| `IoFile`, `DumpIo` | `io_file` and `device`; `dump_io` | state machines |
| `SyncTool` | what the tools over `sync_file` share | their two variables |
| `SyncFileProofs`, `SyncFileEventsProofs`, `SyncFileDataProofs`, `HardwareFileProofs`, `HardwareReadersProofs`, `HardwareToolsProofs`, `IoFileProofs`, `LibraryProofs` | - | theorems and lemmas |
| `MC...` | - | the small files of the runs |

### The sync file

`file` is the file on disk: how `load` takes it, its version, its records and possibly an
incomplete last record. The variables `stream`, `current`, `position`, `lastValid`, `event`
are `file_`, `current_`, `position_`, `last_valid_position_`, `current_event_`; `sized` tells
whether `record_size_` is nonzero. `pc`, `draft`, `held`, `ahead`, `irq`, `target` are the
program counter and the locals of `current_event`, `fetch_new_event` and `advance_to`.
`call` names the call last made, where it started and how it ended; only properties read it.

A call that reads the file once is one step (`LoadFile`, `CallNext`, `SeekFromEnd`,
`Validate`, and `AdvanceTo` without its reload): nothing can happen in between. The calls that
read several times are walked one `next` or `seek` at a time:

    CallCurrentEvent -> FetchMissing | FetchSkip* -> FetchExit
       -> FetchInterrupt -> FetchRepeated -> FetchEnter | FetchThrows     (fetch_new_event)
    FirstReturns -> Keep                                                 (no merge)
                 -> LookAhead -> fetch_new_event -> Merge -> ... | PutBack
    AdvanceTo -> ReloadBack* -> ReloadEvent -> fetch_new_event ...

`first_vmexit_missing` is computed once, on entry of `fetch_new_event`: `pc` is "fetch" there and
"skip" once its loop has moved. A `current_event` called at position 0, right after `load`, thus
passes over a first event without a VMEXIT, which one call of `next` before it would have given.

`NextFrom(f, r)` is the set of readers that `next()` may leave from a reader `r`, and
`SeekFrom` the same for `seek`. It has a member for each number of points that may be skipped
(`Skips`). That is one number but before version 3, where the `interrupt_vector` of a point that is
no interrupt is never assigned, so that two identical points may compare as different. On a
failed stream that is not at its end every read gives zeros: since version 3 `next()` then does not
return, `NextFrom` being empty, and before it may return after any number of reads, or not at all
(`Spins`, `CallNextSpins`, `FetchSpins`, `Spin`). The uninitialised members `opened_` and
`record_size_` take any value in `Init`.

Registers are numbers that the comparisons of the code tell apart (`SyncPoint`). The contexts of
an event also have the TSC, which no comparison looks at: what a merge takes over from the
absorbed event is seen by it. (The FPU words are copied in the same assignments; the field `tsc` of
a context stands for them too.) File offsets are counted in half records, the header being
`HeaderSlots` records long; positions are counted modulo `Word`, and `OffsetOf` and `PositionAt` give
the two conversions in the ranges where 64-bit arithmetic wraps. `seekg` takes a signed offset: from
`OffsetLimit` on (2^63, or where a file system refuses to go) an offset is none, and the stream fails
without being at its end (`Signed`, `SeekOffset`). `seek_from_end` gets any distance since version 3
(`EndArguments`); before, where records of 80 bytes divide neither the header nor 2^64, only those
within the file. `Header` and `Garbled` are what the header, and a record at a
wrong alignment, decode to: the reader really goes there (`claim_advance`).

`SyncEvents` is not a translation: it defines the event around a record by what lies around
it (`Reach`, `Enters`, `EndOf`, `Irqs`), never by reading one record after another. It shares
`IsSane` (`check_sanity`) and the comparisons with the model, so that no property of these
runs is about what `check_sanity` itself accepts.

### The memory dumps

`SyncFileData` conjoins to each step of `SyncFile` what it does to the second stream. A data
file is a series of cells: a dump, the mark of a list, or the torn dump a truncated file ends
with; `offsets` gives the cell of each record's list, 0 for none. `dataEof` is
`data_file_.eof()`; where that stream stands is not kept, as every list is sought by its
offset. `dumps`, `draftDumps`, `heldDumps`, `eventDumps` are the `data` of `current_`, of the
two local events and of `current_event_`. `ReadDumps` reads the lists of all the records one
call of `next` reads, those it skips included, and keeps the last one: a list that runs into
the end sets `dataEof` for all that follow. A seek reads too.

### Hardware accesses

`HardwareFile` gives each call of `hardware_file` as a function from reader to reader
(`LoadOf`, `NextOf`, `AdvanceOf`, `SyncOf`); the tools and `HardwareReaders` apply them. Records have
different lengths in the file (`ends`), so that an offset between two of them is a place where
reading gives `Garbled`. An incomplete last record (`tail`) keeps the fields that were there:
with a TSC it passes for an access. `HardwareReaders` adds a client that notes down pairs
(`file_position()`, `position()`) and gives them to `advance_to` of any reader, and syncs readers.
`Next` is a client that does so at any time; `CarefulNext` one that notes a pair only where
its two numbers are one place. What the calls do not promise to the first holds for the second:
each call is one of a cursor on the sequence of accesses (`AccessCursor`).

`ReorderHardware` keeps the entries of the multimap with the order of their insertion.
`HardwareTools` runs `dump_hardware` on the source or on what `reorder_hardware` wrote.

### The table of devices

A file is a series of cells (a text, an id, a length, a range) of which the last may be torn.
`load` reads as many devices as the file announces, one by one (`ReadDevice`), whether it holds
fewer or more; from beyond the end it reads zeros
but for the list items being read when the stream falls short (`ListAt`, `Reached`).

## 3. Runs

The runs of `sync_file` use `MCHeader` (three records long: one that reads as a valid exit,
then zeros) and a word of 80 positions (46 for `loads`): a file ends at offset 30 at most (20), and
offsets are refused from 36 on (23). `advance_to` 20 goes there. Positions that wrapped stay apart from
those that did not, as `ConstantsAssumption` asks.

| Run | Files and calls | Shows |
|---|---|---|
| `events` (129 k states) | all pairs of 17 groups of records (11 well formed, 6 malformed) after 3 starts and before 2 ends; `next` and `current_event` in any order | `EventMatchesRecords`, `ThrowsMeanMalformed`, `EventsAreWellFormed`, `ThrowMakesProgress` |
| `seeks` (1.1 M) | single groups, and pairs among quiet ones; also `advance_to` 1..9 and to an offset the stream refuses, `seek_from_end` beyond the start (after both the reader stalls), `validate` | `PositionNamesCurrent`, `EventMatchesRecords`, `AbsorbedEventsAreHidden`, `AdvanceToReaches`, `ThrowsMeanMalformed`, `LastValidStaysBehind`, `OnlySeeksOutsideStall` |
| `loads` (131 k) | every kind and version of file, with and without a data file, truncated files, stray ends, a second `load`; every call, to positions within the file and beyond either end, stalled readers of old versions included | `TypeOK`, `PositionNamesCurrent`, `PointCarriesItsDumps`, `ClosedReaderGivesNothing`, `OnlySeeksOutsideStall` |
| `dump` | pairs of well-formed groups, single malformed ones, refused files | `PrintsTheEvents` (refinement of `EventDump`), `DumpEnds` |
| `points` (431 k) | the tools, or a client with `next`, `current_event`, `advance_to`; single groups between starts and ends, pairs of those with repeated records; the data file whole, absent, or cut after or within every third cell | `PointCarriesItsDumps`, `NoForeignDumps`, `EventCarriesItsDumps`, `PrintsThePoints`, `PointsEnd` |
| `hardware` (264 k) | two readers, five files (equal TSCs, a TSC 0 in the middle, cut with and without TSC, empty), two saved pairs, positions up to 4 | `TypeOK`, `StandsAtARecord`, `RestoreRepeats`, `EndIsFinal`, `ImplementsCursor` (refinement of `AccessCursor`) |
| `hardware_tools` (125 k) | every file of up to four accesses with three TSCs, cut or not; `dump_hardware` without a number and with 0, 1, 3 | `WrittenInOrder`, `SortsStably`, `DumpShowsTheSource`, `ToolsEnd` |
| `io` (10 k) | every file of up to two devices cut at or within each cell, two devices announced as one or three, three devices whole or without the last cell, refused files; loaded one after the other, or by the tool | `TypeOK`, `FailedLoadsLeaveNothing`, `TableHoldsTheFile`, `DumpEnds` |

Why these bounds are enough. An event is built from its own records and the comparison with
one successor, and a merge reads at most one group ahead before it starts over, so that two
groups, a start and an end hold every pair of neighbours; chains of merges of length three
occur (`Quiet`, `Quiet`, an end). A group repeats each kind of record at most once more,
which is what `next` skips. For the dumps, records without a list, with one dump and with two
alternate, so that each kind of record has each. Hardware files of three accesses have a first,
a middle and a last one and both readers can be at different ones; `MaxPosition` bounds calls of
`next` and `MaxSaved` the pairs (a third pair is no different from a second one: `advance_to`
uses one). Four accesses over three TSCs hold two equal ones on either side of another. Two
devices meet all clashes of ids with what a cut id reads as. The readers of `hardware` are
interchangeable (`SYMMETRY`): that run states no liveness property.

The files of `events`, `seeks` and `dump` end with an event that no successor could absorb.
After a last event without effect, or points of no event, the code leaves the file or does not
return: these cases are in `loads` and are the subject of `claim_advance` and
`claim_returns`. There `EventMatchesRecords`, `LastValidStaysBehind` (a position that wraps
falls behind), `PrintsTheEvents` and `DumpEnds` do not hold. Other limits of what is stated:

- `EventMatchesRecords` leaves out a reader that is on no point: after `seek_from_end` or
  `advance_to(0)` it keeps the event of before. The start context of an event that absorbed others
  is that of one of them (`Combined`); `PrintsTheEvents` says that it is the first one's.
- A scenario is not a lone record without a VMEXIT: `current_event`, called before `next`, makes an event
  at position 1 of the zeros after its end. With more records and no VMEXIT it does not return.
- `LastValidStaysBehind` leaves out the stalled readers of versions before 3, whose `position()` may
  go round to 0 in one call of `next`. No run takes such a reader there by `advance_to`; the theorem has
  that case.
- `CombinedEventsKeepDumps` is about the moment after a merge (`pc = "merge"` with `ahead`), so that an
  event read on its own, whose predecessor would have been absorbed, does not count.
- `EventCarriesItsDumps` is checked without a second `load` (after one, `current_` is of the
  earlier file and may make the reader skip the first record) and without `seek_from_end` (which
  can leave position 1 without a point, from which an event is built of nothing).
- `PointsEnd` is checked on files that do not end within a record whose TSC is there: `next`
  returns that point for ever.
- `ImplementsCursor` is about the careful client. `position()` and `file_position()` are two
  places after `sync_with`, which takes over only the first, and beyond the end.

Each property has a mutant in the component modules, a definition marked `Mistake` that
stands for a plausible slip in the code; replacing the real definition by it breaks the property.

**Fairness.** `FairSpec`, `DumpSpec`, `UsersSpec` and `ToolsSpec` use weak fairness of the library's
or the tools' steps only: a program of one thread goes on once begun, as nothing else
can run. Other clients are never assumed to call anything. Safety runs use no fairness.
Deadlock is checked, except where the programs end (`dump`, `points`, `hardware_tools`, `io`,
`claim_trace`).

### Findings

Four runs are refuted; each compares a line of the repository with the code.

| Run | Line | Code |
|---|---|---|
| `claim_advance` | `sync_file.h:35` "May advance the file if necessary" | after a quiet last event it seeks to 2^64-1, into the header; `dump_sync_events` then prints such a file again and again |
| `claim_returns` | `sync_event.h:48` "An invalid event indicate failure to read it" | the invalid event merges with itself for ever |
| `claim_combines` | `sync_file.cpp:165` "we'll combine the two to produce only one event" | the memory dumps of the first event are dropped |
| `claim_trace` | `dump_hardware.cpp:12` " file [@][trace]" | the number n prints access n + 2, and none prints the first |

The models show other things that comments do not tell, and that no run is kept for:

- `is_valid()` reads `opened_`, uninitialised until the first `load` (`sync_file.h:41` "Returns
  true if there is a scenario file").
- Every seek sets `last_valid_position_`, also those `current_event` makes (`sync_file.h:96`
  "position of the last time we called validate()").
- `eof_` is not set by a read on a stream that already failed (`streamable_file.h:60` "Set if the
  last read operation failed or end of file is reached"); `next()` then does not return.
- `seek(0)` leaves the cached event, which `current_event` returns (`sync_file.h:35`).
- `advance_to` the VMENTER after a VMEXIT that was reported twice reloads from the second
  of the two, an event no forward reading gives (`sync_file.cpp:439`).
- `advance_to` a record of an absorbed event reads on to the end of the event that absorbs it
  (`sync_file.h:50` "until we reach the specified position").
- `load` keeps `current_`: the first record of the new file is skipped when it equals it.
- A `sync_with` leaves the two numbers a client would save at different places.

## 4. Proofs

Every safety property of the passing runs is the conclusion of a theorem below, for every value of the
constants that their assumptions allow. Where a theorem has a further hypothesis, it is named with it.

### `LibraryProofs`

What the proofs need of the operators of the community modules: `Min` and `Max` of a set of
numbers are members and bounds (`MinIs`, `MaxIs`, `MinFound`, `MaxFound`); a set that contains 0
and every successor is that of all numbers (`SetInduction`); and `FlattenSeq`, which is a recursive
function over lengths. That this function exists is shown first (`FlatExists`: partial functions up
to each length, which agree), then what it gives for an empty series, a series one longer,
a prefix, and the item at an offset (`FlattenEmpty`, `FlattenNext`, `FlattenPrefix`, `FlattenItem`).

### `SyncFileProofs`

For all files, headers, word sizes and arguments that satisfy `FilesAssumption` and
`ConstantsAssumption` (a file has whole records and at most one incomplete one, and is far
shorter than 2^64 bytes; the header is longer than a record; targets are below the
wrap-around):

- `TypeCorrect`: `Spec => []TypeOK`
- `PositionIsRight`: `Spec => []PositionNamesCurrent`
- `ClosedIsSilent`: `Spec => ClosedReaderGivesNothing`
- `NothingElseStalls`: `Spec => OnlySeeksOutsideStall`
- `LastValidIsBehind`: `Spec => LastValidStaysBehind`

The inductive invariant is

    IInv == TypeOK /\ LocalsAreBounded /\ OpenIsSized /\ SpinsOnFailure /\ Consistent(file, Here)

`PositionNamesCurrent` alone is not inductive: that the next record read is the one after
`position` needs the stream to stand at the offset of `position`, in each of the ranges
where that offset wraps. `Consistent` says this of a readable, aligned stream.
`OpenIsSized` (an open file has a record size) is what lets `seek` move position and stream
together; `SpinsOnFailure` keeps a reader whose position runs on without reading out of the
readable case; `LocalsAreBounded` keeps the targets of the put-back and of the reload in the
ranges `OffsetOf` handles. The proof goes by the operators first (`NextFrom` and `SeekFrom`
keep a reader consistent), then by one lemma per group of actions. `ClosedIsSilent` adds
`ClosedAtEnd`: a closed stream is at its end and no event is being fetched. `NothingElseStalls`
adds `LocalsInReach`: unless the reader has stalled already, the positions that the put-back of
`current_event` and the reload of `advance_to` seek to have offsets below `OffsetLimit`, those that wrapped
included. One seek of the library is outside: the put-back to before an event read from the
header, whose position is near `RecordQuotient`. Only a `seek_from_end` into the header leads there, and
the property names the case. `LastValidIsBehind` has `position` wrap in one case only, `next` on a
stalled stream before version 3, which the property excludes.

### `SyncFileEventsProofs`

The reader against the reference of `SyncEvents`, under the hypothesis

    Recorded == Reloads = {} /\ "seek_from_end" \notin Calls /\ <every readable file IsScenario>

A scenario (`IsScenario`) is a file as the recorder leaves it: version 3, whole, each point with its
TSC, of any length and any records, well formed or not, but for the end, which is not an event
that a successor could absorb (`claim_advance` shows what becomes of those), and for a lone record
without a VMEXIT (see above). The runs `seeks`
and `dump` satisfy it: `ScenariosAssumption` and `DumpFilesAssumption` have TLC evaluate `IsScenario`
on their files. After `seek_from_end`, or a second load, a reader is between two records with
the point or the event of another place; those calls are left to the runs `seeks` and `loads`.

- `GivenEventsMatch`: `Recorded => (Spec => []EventMatchesRecords)`, the central result: whatever was
  called before, a complete event is the one the records describe, although it was read from a place
  that came about by reading ahead and putting back, or walking backwards
- `GivenEventsAreWellFormed` (`EventsAreWellFormed`), `AbsorbedAreHidden` (`AbsorbedEventsAreHidden`),
  `ThrowsAreDeserved` (`ThrowsMeanMalformed`), `ThrowsMakeProgress` (`ThrowMakesProgress`),
  `AdvanceToArrives` (`AdvanceToReaches`), in the same form

One invariant gives all six: `EventInv`, with one part for each value of `pc`. `AtPart` says how far
into the event around `draft.position` the reader has come: `Shape(R, x, i, k, p)` cuts the
records from `x` to `p - 1` into the VMEXIT, the interrupt and its second report, and
`Drafted` is the local event then. `AtReturn` and `AtMerge` say that a finished event is
`EventOf` the records around it with the start context of one that it absorbed (`IsCombinedAt`), that
all was read up to its end or the start of the next, and that from where the call began only
absorbed events lie before it (`From`, `Sought`). `AtReload` is
the walk back of `advance_to`. `Lost` is the state that the code reaches when no event follows: an event
made of zeros at the end of the file, which goes round for ever. `StuckInv` is the reader whose
`advance_to` the stream refused: it has no event and its next call does not return. The properties alone are not
inductive at all, as they are about calls that have returned. The proof first says what
`next` makes of a run of records (`StepNext`), then goes through the actions of
`fetch_new_event` one by one, from `Shape` to `Shape` and at the last to `EventOf`.

- `ToolImplementsDump`: `Recorded => (DumpSpec => PrintsTheEvents)`: `dump_sync_events` implements
  `EventDump`. `DumpLoad` maps to `Load` or `Reject`, a `DumpPrint` to `Emit` or `Abort`, the
  `DumpTest` that ends the loop to `Finish`, and every other step to none. The invariant
  (`DumpInv`) is that as many events were printed as events are kept that start before the one the
  reader has come to (`Emitted`, `ComeTo`), that each `next` of the tool comes to the first
  of a run of records (`FirstOfRun`), and that what was fetched began where no absorbed event lies
  open before it (`Fresh`), so that the event printed has the start context of the first of those it
  absorbed (`IsWhole`, `FetchesWhole`).

### `SyncFileDataProofs`

- `DataChangesNothing`: `DataSpec => Spec`. Every step with dumps is a step of `SyncFile`, so
  that the theorems above hold of `DataSpec`, which `loads` checks.
- `UsersAreClients`: `UsersSpec => DataSpec`, so that all these hold while the tools run.
- `DumpsAreOwn`: `DataSpec => []NoForeignDumps`, for any data file at all. The invariant is
  `IInv /\ ClosedAtEnd /\ NoForeignDumps`: the record whose list was read last is the one before
  the offset of the stream, and `Consistent` makes that the record `position` names.
- `DumpsAreComplete`: `DataSpec => []PointCarriesItsDumps`, for any file and any calls. `DataInv` adds
  `EndNotMet`: a data file that ends with a mark, and has no torn dump, is never read beyond its last
  mark, unless the records have no lists at all.
- `EventsCarryTheirDumps`: `Recorded => (DataSpec => []EventCarriesItsDumps)`. `DumpsOf(R, x)` is the
  concatenation of the lists of those records of an event that contribute to it (`Contributes`: not
  the copies that `next` skips, and of several interrupts only the first). `GatherInv`
  says what has been gathered at each `pc`: `draftDumps` the lists up to the current record
  (`Gathered`), `heldDumps` those of the event held, `eventDumps` those of the cached one: its own and
  none before them, where the property leaves room for those of absorbed events.
- `ToolsPrintThePoints`: `(\A f \in Files : IsPlain(f)) => (UsersSpec => []PrintsThePoints)`, for any
  data file. A plain file is of version 3 or has no identical records side by side (before that
  version whether they are skipped depends on memory never written), does not begin
  with a record of zeros, which a new reader takes for a copy of its own point, and does not end within a record
  whose TSC is there, which `next` gives for ever. `PlainAssumption` has TLC evaluate it on the files of
  `points`. The invariant (`PointsInv`) is that what was printed is what there is to print before the
  current record.

### `HardwareFileProofs`, `HardwareReadersProofs`

About the client that calls at any time (`Spec`), for any files, any number of readers and any
bounds, and so about the careful one (`CarefulSpec`) that the run checks:

- `TypesHold`, `ReadersStandAtRecords` (`StandsAtARecord`), `PairsGiveTheirAccess` (`RestoreRepeats`),
  `TheEndIsFinal` (`EndIsFinal`),

and about the careful client

- `ReadersAreCursors`: `CarefulSpec => ImplementsCursor`.

`HardwareFileProofs` says what each call leaves of a reader. The invariants add to the property
that a reader and every saved offset stand at the start of a record (`Standing`), that a pair
saved right after a read gives its access when read again (`Giving`), and, for the careful
client, that offset and position are those of one record, also beyond the end, where the position
is one more than the accesses however often `next` is called (`InPlace`). `NumberIn`, the number the
cursor shows, follows `position_` there.

### `HardwareToolsProofs`

For any source that satisfies `FilesAssumption`:

- `ReorderTypes`: `Spec => []TypeOK` (of `ReorderHardware`).
- `WritesInOrder`: `Spec => []WrittenInOrder`, the assertion of the loop that writes. The
  invariant (`Ordered`) adds that what is written precedes what is not.
- `ReorderSorts`: `Spec => []SortsStably`: the destination holds each access of the source exactly once,
  by TSC, and equal ones in the order of the source. `SortInv` follows each access: it is still to be
  read, is an entry of the multimap, or stands in what was written after exactly those that
  belong before it.
- `ToolsShowTheSource`: `ToolsSpec => []DumpShowsTheSource`: `dump_hardware` without a number shows every
  access of its file under its position. The file is the source, or what `reorder_hardware` made of
  it, which needs `OnlyValid` (a written access has a TSC, so that the reader of the destination
  does not stop at it).

### `IoFileProofs`

For any files that satisfy `FilesAssumption`:

- `TableIsTyped`: `Spec => []TypeOK`,
- `FailureLeavesNothing`: `Spec => []FailedLoadsLeaveNothing`,
- `TableHolds`: `Spec => []TableHoldsTheFile`,
- `UsersUseIoFile`: `UsersSpec => Spec`, so that all of them hold of `dump_io`.

`TypeOK` alone is not inductive: a refused load replaces the file and keeps `left`, which has to be
0 when no load runs. Typing a device needs that a list cut short is still a sequence
(`ListType`). For `TableHolds` the invariant (`TableInv`) is that the reader stands at the cell where
the next device begins (`StandsAt`), and that the table is that of the devices before it
(`TableIs`). A file is the concatenation of the cells of its devices, so that the cell an offset
leads to is found by the lemmas about `FlattenSeq`.

### Only model-checked

All liveness properties (`DumpEnds` of both tools, `PointsEnd`, `ToolsEnd`): liveness under fairness is
out of the prover's reach. Induction is not: where a proof needs it, over the records of an
event or the devices of a file, it takes the least element of a set of numbers, since the library's induction
theorems have operators as parameters, which the installed provers cannot instantiate. What lies
outside the hypothesis `Recorded` is model-checked too: `EventMatchesRecords` after `seek_from_end`
(`seeks`), and `EventCarriesItsDumps` on the files of `points` that are no scenarios (older versions,
a last interrupt without a VMENTER, a point without TSC).

## 5. Not modelled

- Record sizes that `load` accepts and `next` cannot use (0, below 201), and files that end
  within the header, after the fields `load` reads.
- badbit: errors of the device under a file. Files are not changed while they are read.
- Records whose type is 0xfe without the interrupt flag.
- The FPU words apart from the TSC (see 2), printing.
- Before version 3, `seek_from_end` by more records than the file has.
- Dumps of files of version 0 (they have no data file of their own), and a `data_offset` that an
  incomplete last record still holds.
- The version field of a hardware file, which `load` reads and does not test.
- Pairs saved from a reader that was never loaded.
- `reorder_hardware` with its source as destination. An unwritable destination is modelled; the
  properties are about a writable one.
- In the device table: the fields of a range are one cell; texts with a NUL in them, and
  lengths too large for the memory.
- `RVN_MACHINES_DEBUG_SYNC`: no build file of the repository defines it.

## 6. Plan

1. *Done:* `StreamableFile`, `SyncPoint`, `SyncFile`, `SyncEvents`, `DumpSyncEvents`, and the first
   theorems.
2. *Done:* `SyncFileData` and the tools that print points; the readers of hardware files, their
   cursor and the hardware tools; the device table and its tool.
3. *Done:* theorems about the hardware readers, the refinement of `AccessCursor`, the sort, the
   dumps of points, the device table.
4. *Done:* the events of `sync_file` against `SyncEvents`, the refinement of `EventDump`, the dumps
   of points and events from a whole data file, the tools that print points, the stable sort and
   what `dump_hardware` shows of it, the whole device table.
5. Left: the theorems about events without the hypothesis `Recorded` where they hold (a reader that
   sought from the end until it stands on a point again, a second load); record sizes
   read from the file.
