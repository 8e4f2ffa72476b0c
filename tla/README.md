# Verification of codetracer-fuel-recorder

TLA+ models of the recorder that turns a FuelVM run into a CodeTracer trace,
and of what it reads to do so. They are checked with TLC on small instances, and
every safety property that a passing run checks is also proved with TLAPS for
every instance. Paths below are relative to the repository.

## 1. Inventory

The recorder is one thread. There is no concurrency in it; what is hard is the
*order* in which a callback sees and reports things, across three parties:

- the **FuelVM** stops before every instruction, calls the recorder's closure
  and, when resumed, executes the instruction. Receipts and the new program
  counter are therefore visible one breakpoint after the instruction that made
  them, and the receipts of the last instruction after no breakpoint at all;
- the **recorder** (`src/recorder.rs` or `src/source_level.rs`) keeps a few
  variables between breakpoints and rebuilds calls, lines and contracts from
  them;
- the **trace writer** (an FFI library that is not in the repository) commits a
  step late: at the next step, call or return, with whatever values wait.

| Component | State | Operations | What makes it correct |
|---|---|---|---|
| `src/interpreter.rs` single-stepping | the VM, receipts | `new`, `run`: build the transaction, transact, callback and resume until the program ends | every instruction gets one breakpoint before it executes; the run ends because gas does |
| `src/source_level.rs` source-level recorder | `frames` (return address, last location), `pending_call`, `prev_receipt_count` | start, closure (receipts, returns, call, step), drain, close, finish | the frames are the program's call stack; names, positions and events follow it; the trace closes whatever it opened |
| `src/recorder.rs` instruction-level recorder | `prev_line`, `nested_call_depth`, `nested_calls_seen`, `prev_receipt_count` | start, closure (switches, receipts, storage, step, values, synthetic call), drain, predicate result, finish | a step carries its own values; synthetic calls balance and match the steps; events in execution order, once |
| `src/contract_call.rs` contract tracker | `call_stack`, source maps, `processed_receipt_count`, `in_predicate` | register map, process receipts, look up, enter and exit predicate | its stack is the VM's; each location is the running contract's |
| trace writer (external) | open calls, committed steps, the pending step, waiting values | start, step, value, call, return, finish | the environment of the two recorders |
| `src/source_map.rs` | list of (index, path, line) | look up | first entry wins |
| `src/variable_tracker.rs` | names of registers, count of MOVIs | track an instruction, get a name | the name shown belongs to the value shown |
| `src/debug_info.rs` | index to location map | load, discover, from JSON, from DWARF | both forms agree |
| `src/abi_decoder.rs` and decoders of `src/recorder.rs:827-1340` | ABI schema | parse; decode a payload by shape and length | the schema is the program's, whatever shape its file has; a payload is shown as the value that was logged |
| `src/replay.rs` | fetched transaction, contracts, maps, summary | fetch, parse, extract, dry run | the summary counts what was answered |
| `src/graphql_debug.rs` | none | build and parse messages | pure text |
| `src/main.rs` | arguments | record, build, replay, disabled mode | the right recorder for the input at hand |

`record` and `record_with_debug_info` share the interpreter, the receipt
mirroring (`emit_receipt_special_event`) and the writer; only `record` uses the
contract tracker, the variable tracker and the source map. The command line
chooses between the two by the presence of debug symbols.

The hazards, at their lines and with the properties that would catch them, are
listed in `PROJECT.json`.

## 2. Modules

| Module | Models |
|---|---|
| `TraceWriter` | the writer, as one record and operators on it (no variables), shared by both recorders |
| `CallTrace` | abstract specification: what a trace promises its reader |
| `SourceLevelRecorder` | `record_with_debug_info` with the VM that steps a program |
| `InstructionRecorder` | `record` with the VM |
| `ContractCallTracker` | the tracker, its driver in `record`, and the VM's contexts |
| `VariableTracker` | the tracker beside the registers it names, and the names a snapshot shows |
| `Replay` | `replay_transaction` against a node that may fail any request |
| `CommandLine` | `main`: `record` up to the choice of recorder, and `replay`, composed with `Replay` |
| `AbiSchema` | the three shapes of an ABI file and `from_json` |
| `DebugInfo` | the JSON and DWARF forms of debug symbols and `load`; path joining |
| `PayloadDecoders` | the values a LOGD payload is shown as |
| `RecordInputs` | composes the last three: files and payloads of a known program, as `record` reads them |
| `Selections` | `Only(s, T)`, the elements of a sequence that are in a set: used where `SelectSeq` would be, because the provers can reason about it |
| `MCSourceLevel`, `MCInstruction`, `MCTracker`, `MCVariables`, `MCCommandLine`, `MCRecordInputs` | programs, maps, files and inputs for TLC |
| `TraceWriter_proofs`, `SequenceFacts_proofs` | lemmas on the writer, and on sequences and `Only` |
| `SourceLevelRecorder_proofs`, `InstructionRecorder_proofs`, `ContractCallTracker_proofs`, `VariableTracker_proofs`, `CommandLine_proofs`, `RecordInputs_proofs` | the theorems about each module |

`InstructionRecorder` and `SourceLevelRecorder` each instantiate `CallTrace` with
a mapping of their writer onto its variables, and both extend `TraceWriter`.
`CommandLine` extends `Replay`; `RecordInputs` extends `PayloadDecoders`, which
extends `AbiSchema`, and instantiates `DebugInfo`.

Operators whose names begin with `Mutant` are wrong variants of the definition
that follows them, one plausible slip each. Nothing uses them: replacing the
definition by its mutant makes the property that `PROJECT.json` pairs it with
fail, which shows what the property is able to notice.

### How the models correspond to the code

**Phases.** Both recorders go `idle -> begun -> (paused -> released)* -> halted
-> closed`, or to `failed` where the code returns an error. `paused` is a
breakpoint; `Callback` is the closure and leads to `released`, where the
VM's actions execute the instruction. `Finish` is everything after `run`
returns. An error of the VM (`RunFails`) leaves the trace begun and unfinished,
as the `?` of `source_level.rs:198` and `recorder.rs:530,1374` do; `Finish` may
itself end in `failed`, when a file cannot be written.

**The program** is a constant record: for each address what kind of instruction
is there, where control may go, and what the source map says. Data is left out:
a branch goes to any of its targets. `SourceLevelRecorder` also keeps the
program's own call stack (`stack`), which no recorder action reads, so that the
frames rebuilt by the recorder can be compared with it. `WellFormed` states what
the Sway compiler guarantees: control leaves a function only by a call or a
return, calls do not recurse (Sway rejects recursion; `rank` orders the
functions), the location of an instruction is in its own function except for the
jump out (`source_level.rs:187-189`), and a mapped first instruction maps to the
declaration. Recursion is really excluded by this, and it matters: with it the
frames could not be told apart by their return addresses.

**The writer** commits the pending step in `Flush`, as the comment at
`recorder.rs:666-699` describes. `Start` opens the entry frame and its step;
`RegisterReturns` is n returns in a row and counts any without an open call.
Values are abstract: `[kind |-> "regs", of |-> k]` is the snapshot of r16-r23
before the k-th instruction executed. `FinishWriting` loses the values that wait
for a step no one registers. Events are a variable of each recorder.

**Receipts** carry the number or address of their instruction. Kinds that are
mirrored alike (Mint, Burn, Transfer, TransferOut, MessageOut) are represented
by Log, and every value registered for one LOGD payload by one value. A LOGD
without data (`EmptyLogData`) is mirrored and gives no value.

In `InstructionRecorder` an instruction executes after its callback, `step_count`
numbers them, and a step remembers the number that opened it (`by`).
`ContractCallTracker` sees no Call receipt in `record` today, because the
transaction that `run` builds has no contract input; its module has the driver
code of `record` (569-591, 645-647) over a VM that does call contracts, which is
what the tracker and its tests are for. Synthetic calls are not part of that
module: they share the writer's stack with contract calls but not the depth,
which would matter once a transaction has a contract input.

**Names** in `VariableTracker` are lists of terms and verbs, joined end to end as
the code joins strings, so the brackets are lost as they are there. `Readings`
gives the value of a name under every way to bracket it. `clean` marks the
registers that no untracked instruction has reached; of the others the tracker
can know nothing. `drawn` says which loads a register's value comes from, operand
by operand; like `loads` and `clean` it belongs to the VM's side, and the tracker
does not read it. The arithmetic panics on overflow, as it does while the program
does not set `F_WRAPPING`. Of the reserved registers only `$zero` and `$one`
occur as operands: the others change on their own, and the tracker names them
`rN` all the same.

**Requests** in `Replay` are recorded in `log` with their answers, which no
action reads. A failed answer stands for every error of `send` and of the
parsers; a null field parses to empty parts and is no error. `CommandLine`
extends `Replay` and starts it with the resolved output directory. An ABI or
symbols are bad when they cannot be read or parsed, bytecode only when it cannot
be read: bytes that are no program are listed and recorded as one. What the two
recorders do there is an outcome: they may fail before, while or after they
write. The temporary build directory is a flag that every exit clears, as the
drop of `TempDir` does.

**Files** in `RecordInputs` are made from a program, or from a build, that only
the properties know: the recorder reads the document and the bytes. An ABI is
written in each of the three shapes that `abi_decoder.rs:42-49` accepts
(`ConcreteShape`, `NamedShape`, `IndexedShape`) and may have lost the entry of a
type or the name of a function. Symbols are JSON, DWARF, JSON with a key or with
a path index that is none (`bad_key`, `bad_path`), or another file altogether.
The DWARF rows are the external compiler's (`ForcRows`), as the comment at the
head of `debug_info.rs` tells of them: the table is shifted by one row, and of
the last entry only the address where the sequence ends survives. The
assumptions of the module say what a program, a build and the sources are: a
program uses types that the compiler lists, a build has one entry for each
instruction in the order of the instructions, with columns from 1, and forc
stores a path as it is or, of a dependency, relative to `~/.forc`.

**Payloads.** `Encoded` is the inverse of the decoders on the values a program
can mean. A payload is such an encoding, of the declared type or of any other,
whole, cut short, one byte too long, or with another first byte. A byte has
`Base` values, so a word is a number below `Base^8` and `read_u64_be` a sum of
powers of `Base`; the conversion to `i64` and the widths are kept. `Meant` says
which values a type has, and `LogsAssumption` that a program logs such values.

## 3. Runs

| Run | Question | Result |
|---|---|---|
| `source_level` | Do frames, names, positions and events follow the program? | holds, 2740 states |
| `instruction` | Do steps, snapshots, synthetic calls and events stay together? | holds, 3078 states |
| `tracker` | Is the rebuilt context stack the VM's, and the source the running contract's? | holds, 67136 states |
| `variables` | Do the names shown speak of the values shown? | holds, 702656 states |
| `command_line` | Is the right thing recorded, from good inputs, in the right place, and does a replay's summary match the answers? | holds, 54960 states |
| `record_inputs` | Are the schema the program's, the symbols the build's, and the values shown the values logged? | holds, 88148 states |
| `predicate_result` | Is a predicate's result on the final step (`recorder.rs:1426-1431`)? | no |
| `snapshot_leak` | Are no values carried to a later step (`recorder.rs:1345-1350`)? | no |
| `payload_step` | Is a LOGD payload on the step that produced it (`recorder.rs:603-608`)? | no |
| `path_change` | Does a library instruction show the library's file (`tests/test_tracer.rs:3475-3477`)? | no |
| `tracked_value` | Is the value returned with a new name the named one (`variable_tracker.rs:29`, `tests/test_variable_tracker.rs:64-65`)? | no |
| `historical_dry_run` | Does a historical replay fall back to a dry run (`replay.rs:898`)? | no |

**Properties of `source_level`.** `FramesMatchCallStack`: the open frames return
where the program's stack returns. `FramesNamed`: every open call bears the name
of the function active at its depth. `PositionShown`: the place shown is the
executing instruction's, and never another function's. `LastIsPending`: the
cached location and the writer's pending step agree, across calls and returns.
`ReceiptsMirroredOnce`, `CallsBalanced`, `RecordingEnds` and the refinement
`ImplementsCallTrace`. `StackInv` is the inductive invariant of the proof.

**Properties of `instruction`.** `SnapshotOnItsStep` (a step carries the values
of its instruction, the defect that `recorder.rs:675-699` tells of),
`SnapshotsKeptInOrder` (read step after step, the snapshots come once each and in
the order of execution; none is missing before the writer has finished, and then
only those taken after a last step that opened a region, which its call had
committed already),
`RegionsReadFromSteps` (the synthetic calls are exactly the wide gaps between
consecutive steps), `LineShown`, `EventsInExecutionOrder`,
`ReceiptsMirroredOnce`, `CallsBalanced`, `RecordingEnds`, `ImplementsCallTrace`.

**Properties of `tracker`.** `ContextsMatch` (the tracker's stack is the VM's),
`CallsMatchContexts` (the calls and returns registered are those of the contexts,
consecutive switches chain, and a run that ends inside contracts leaves exactly
their frames open), `ShownIsRunningContract`, `PredicateContextRestored`.

**Properties of `variables`.** `NamesReadAsValues`: at a breakpoint the name of
every clean register can be read as its value, although it was composed before
the value existed and its operands may have been overwritten since.
`ShownPairsRead`: so can the names in a snapshot, but for the register about to
be written. `ParamsNameFirstLoads`: term by term over every register's name, the
k-th load is called by the k-th parameter, or by its value once the parameters
are used up, and no other term is a parameter or a load.

**Properties of `command_line`.** `SummaryMatchesAnswers` relates the summary to
the log of answers: the order of the requests, without repeats, what each answer
added, and which failure alone may end a replay. Of the contracts it counts those
whose request did not fail, as the code does (but see section 5). `OnlyGoodInputsRecorded`,
`ListingIsLastResort` and `OnlyOutDirTouched` relate what is written, and where,
to every input that was given or found; a disabled recorder touches nothing.
`ProgramEnds` spans both commands.

**Properties of `record_inputs`.** `SchemaIsProgram`: the three shapes of an ABI
read as the same program, and a damaged one as its program or not at all.
`SymbolsAreBuild`: both forms of the symbols give the build's place for an
instruction, DWARF for all but the last, and no place for any other.
`LoggedIsShown`: a value of the declared type is shown as it was logged.
`ShownWasLogged`: a value that is shown is in the payload byte for byte, whatever
the payload is; what could not be decoded is told by `Undecoded`.

**The six that fail** are disagreements between the code and what a comment or
a test says of it. (1) Closing the synthetic calls commits the last step, so
`predicate_result`, registered after that, is in no step. (2) The call at a
transition commits the step; another instruction on the same line registers
values while no step is pending, and they appear on the next line, or at the
end of the trace nowhere. (3) A
receipt is visible a breakpoint late, so a payload is attached to the next
instruction's step. (4) Steps are emitted on a change of line number alone.
(5) The tracker reads the destination before the instruction has written it; the
unit test passes it registers that already hold the result. (6) The branch for
historical execution yields nothing.

### Bounds

- `MCSourceLevel`: three programs of eight instructions, three functions, two
  levels of calls. Between them: a call in a loop, a caller that resumes on its
  own line, one callee with two callers, a callee without a mapped first
  instruction, returns right after each other, misattributed jumps, traps at
  each depth. `GasLimit` 18 runs every loop more than once. A frame's state does
  not depend on how deep it is, and the theorems cover any depth.
- `MCInstruction`: three programs of five instructions; lines in two clusters,
  one gap exactly at the threshold (3 to 8) and one above (1 to 8 and more), so
  that entering, leaving and re-entering a region, staying on its line, and
  changing file all occur. `GasLimit` 6 gives up to seven breakpoints: three
  regions with several instructions each.
- `MCTracker`: two contracts, one with a gap in its map, and five instructions,
  enough for a contract to be entered, to call itself or the other and to
  return twice. The theorems cover any contracts and any depth.
- `MCVariables`: twelve instructions in any order, five executed (four and the
  first), values to 8 so that overflow and underflow happen; no ABI, or one with
  two parameters. Every tracked operation, a destination that is its own
  operand, and names of up to eight terms occur.
- `MCCommandLine`: all arguments and environments; two contracts, input lists
  with repeats, with other inputs between, and empty.
- `MCRecordInputs`: bytes of eight values, so that words wrap to negative numbers
  and a tag may be one no variant has; every output type with a decoder, one
  without, a name that needs `trim`, and none; builds of up to three
  instructions, in a file of the project and in one of a dependency, with and
  without a home directory. `MaxLogs` is 1: payloads do not share state.

Gas is the real bound of a run (`script_gas_limit`), so `GasLimit` and
`MaxSteps` are small values of a parameter the program has. In `MCVariables` `MaxValue`
stands for 2^64 - 1. No other cap is used, and no state constraint.

### Fairness

`WF_vars(Next)`: one thread runs the VM and the closure by turns and nothing in
it waits for anything, so some step is taken as long as one is possible. No
particular action is assumed fair. `RecordingEnds` then rests on gas.
`ProgramEnds` assumes the same of the command line: requests are blocking and
time out in the HTTP client, and forc ends.

## 4. Proofs

Thirty-seven theorems, each from the assumptions that its module declares on its
constants and nothing else. They are about every value of the constants: any
program, source map, depth of calls, gas, contracts, ABI, symbols, payload, node.
What they assume is named where the constants are declared; the parts that matter
are `WellFormed` in `SourceLevelRecorder` (what the Sway compiler guarantees,
section 2), what forc writes of a program and a build in `RecordInputs` (the same
section) and, elsewhere, types of the constants.

### Source-level recorder

| Theorem | States |
|---|---|
| `TypeCorrect`, `CallsAlwaysBalanced`, `LastAlwaysPending` | `TypeOK`, `CallsBalanced`, `LastIsPending` |
| `StackInvHolds`, `FramesAreCallStack` | `StackInv`, `FramesMatchCallStack` |
| `PositionAlwaysShown`, `FramesAlwaysNamed` | `PositionShown`, `FramesNamed` |
| `ReceiptsAlwaysMirroredOnce` | `ReceiptsMirroredOnce` |
| `Implements` | `ImplementsCallTrace` |

The first three are inductive together (`BaseInv`): each relates the writer to
the frames, and the closure changes both through `Returned` and `Entered`.
`SurvivorsFacts` and `ReturnedFacts` say what the while loop leaves; the
existence of the frame where it stops is the largest element of a finite set,
found by well-founded induction on subsets (`LargestExists`).

`FramesMatchCallStack` is not inductive: at a breakpoint, before the closure has
run, frames and stack differ by the call or return just executed. `StackInv`
adds that difference (`FramesAwaiting`), the freshness of the pending call
(`PendingCallFresh`) and the order of the stack (`StackOrdered`). The last is
the heart of it: along the stack the functions go up in rank, so no open frame
but the top one can return to the current address, and the loop pops exactly
the frame that ended (`SurvivorsAre`). This is where the ban on recursion is
needed.

`PositionShown` adds to that where the place will be after the breakpoint
(`PositionAwaiting`, `EntryBelow`: `PlaceInv`), `FramesNamed` the name each open
frame was given from its callee's first mapped instruction (`NameInv`), and
`ReceiptsMirroredOnce` that only the last instruction leaves other receipts than
logs (`ReceiptInv`).

### Instruction-level recorder

| Theorem | States |
|---|---|
| `TypeCorrect`, `CallsAlwaysBalanced` | `TypeOK`, `CallsBalanced` |
| `LineAlwaysShown` | `LineShown` |
| `SnapshotAlwaysOnItsStep`, `SnapshotsAlwaysKeptInOrder` | `SnapshotOnItsStep`, `SnapshotsKeptInOrder` |
| `RegionsAlwaysReadFromSteps` | `RegionsReadFromSteps` |
| `ReceiptsAlwaysMirroredOnce`, `EventsAlwaysInExecutionOrder` | `ReceiptsMirroredOnce`, `EventsInExecutionOrder` |
| `Implements` | `ImplementsCallTrace` |

A snapshot waits in one of three places: on a committed step, with the pending
step, or with the values that no step holds yet. `SnapshotOnItsStep` speaks of
the first only, and becomes inductive once the place is abstracted: `Holds(w, i,
v)` says that the i-th step has v or will have it when it is committed.
`CarriedInv` says so of the step each instruction opened. `ShownInv` ties
`prev_line` to the latest step.

`SnapshotsKeptInOrder` is about the concatenation of all steps' values
(`ValuesInSteps`) and what waits: the writer's operations leave it as it is, and
registering values appends to it (`FlushReads`, `RegisterValuesReads` and their
siblings in `TraceWriter_proofs`), so that the snapshots in it are always the
first so many (`KeptInv`). What finishing loses is what waits then, and it is
something only if no step is pending; `CommittedInv` says that the last step has
then opened a region and the steps carry the snapshots up to its own. It holds
because a transition is a gap to `Baseline`, which `RegionsInv` says is the line
of the step registered before (`TransitionOpensRegion`).

`RegionsInv` says that a synthetic call is open exactly when some pair of
consecutive steps is wide, and is the last such pair; the pending step counts as
one, which is why the moment of the commit does not matter. `OrderInv` is the
ordering of events with its bound on each side of a breakpoint (an event at a
breakpoint is older than the instruction there) and the one receipt that may
still be unseen.

### Contract tracker

`TypeCorrect`, `ContextsAlwaysMatch`, `CallsAlwaysMatchContexts`,
`PredicateContextAlwaysRestored`, `ShownIsAlwaysRunningContract`. The invariant
(`TrackInv`) is that the tracker is at most one receipt behind the VM: its stack
is the contexts, or becomes the contexts by that receipt. So any depth of calls
and any order of returns is covered, not the two of the run.

### Variable tracker

`TypeCorrect`, `ParamsAlwaysNameFirstLoads`, `NamesAlwaysReadAsValues`,
`ShownPairsAlwaysRead`. Names are given a step before the value they speak of is
written, so the loads compared are those up to and including the instruction at
the breakpoint (`Upcoming`, and `UpcomingDrawn` for those a register draws on).
`NamesInv` has the terms of every name aligned with these (`Told`), and joining
two names joins the loads behind them (`ToldJoin`). `ReadInv` says that every register but the one ahead
(`Ahead`) has a value its name can be read as, and that the instruction's result
is one of the readings of the name just given.

What a name reads as is recursive: the readings of each part of a name, in order
of their length, from those of shorter parts. `SpansExist` shows that there is
such a table, `ReadsWithin` that a part has the same readings in any name it
occurs in and after any loads that give its terms the same values, and
`JoinReads`, from the two, that a result of an operation is a reading of the
joined name. That a further load changes no reading (`ReadsGrow`) needs
`NamesInv`: a name only speaks of loads that have happened.

### Command line

`TypeCorrect`, `OnlyOutDirAlwaysTouched`, `OnlyGoodInputsAlwaysRecorded`,
`ListingIsAlwaysLastResort`. `CliInv` adds to the properties what holds between
resolving the inputs and writing: which source the program, the symbols and the
ABI came from (`Chosen`) and that nothing is written before (`Writing`).

`SummaryAlwaysMatchesAnswers` is about the replay within it, for any contracts,
inputs and pattern of failures. `ExtractFacts` says that the ids extracted are
distinct and are the contracts among the inputs; `Answered` describes the log
stage by stage: the transaction, a request for each id before the next
(`CodeAsked`, with the count of those that did not fail), and at most one dry
run (`RunAsked`).

### Record inputs

| Theorem | States |
|---|---|
| `TypeCorrect` | `TypeOK` |
| `SchemaIsAlwaysProgram` | `SchemaIsProgram` |
| `SymbolsAreAlwaysBuild` | `SymbolsAreBuild` |
| `LoggedIsAlwaysShown`, `ShownAlwaysWasLogged` | `LoggedIsShown`, `ShownWasLogged` |

The run has bytes of eight values, fifteen types and three instructions; the
theorems have bytes of any even number of values from 6 on (256 among them) and
any program, build and log. The invariants are small (`LogInv`: what is shown is
what the payload decodes to; `InputsInv`: nothing is read before its time). The
work is in the functions, and there in one argument for each direction.

*Payloads.* `Bytes` divides by `Base` again and again, `BigEndian` multiplies and
adds. `ValueOfBytes` and `BytesOfValue` say that they are inverse to each other
for every width up to 8, from the digits' own recurrence, and `HalfFacts` that
the conversion to `i64` and back loses nothing. Words, views and runs of words
follow, with slices of a payload that is joined from parts (`ThreeParts`,
`JoinedSlices`). Then there is one lemma of each direction for every type:
`...Decodes`, that the encoding of a value decodes to it, and `...Faithful`, that
the encoding of whatever is decoded is in the payload. `MeantDecodes` and
`AllFaithful` collect them.

*ABI.* `CollectedFacts` says what a map collects from its entries. For a table of
types, whole or with an entry lost, `LookedUp` gives that each key leads to its
own type or, if that was lost, nowhere; `ReferencesResolve` carries this to the
references of the three shapes. So a function is either malformed or the
program's (`ProgramIsRead`), and malformed only if the loss was one of its own.

*Symbols.* `Maps(info, b, count, h)` says that a map has the places of the first
`count` instructions of a build and nothing else. `JsonMaps` shows it of the JSON
form for all of them, by `StoredResolves` for the paths relative to the home
directory, and `RowsMap` of the DWARF form for all but the last: the first row
has column 0 and the last ends the sequence, and every other row leads to its
file (`RowLeadsToFile`). That the indices of a build increase is what makes each
entry the only one for its instruction.

### Only model-checked

Liveness (`RecordingEnds`, `ProgramEnds`), which the prover cannot do.

## 5. Not modelled

- Texts: the formatting of names, of metadata and of mirrored events; types
  registered with the writer, of which only the widths of integers are kept; the
  disassembly that `source_level.rs` writes.
- Syntaxes: JSON and the ELF and DWARF encodings are parsed by libraries. The
  models begin at the values those return.
- `src/graphql_debug.rs` builds and parses texts of requests, keeps no state and
  makes no decision: there is nothing in it for an invariant to relate.
- `InstructionRecorder` with `ContractCallTracker`. The transaction that `run`
  builds has no contract input, so no state of the program has a synthetic call
  and a contract call on one stack. Should it get one, the depth that only the
  synthetic calls count would be the first thing to model.
- File output except for its failure; the build files, the CI, the test programs.

Whether the real writer behaves as `TraceWriter` is not checkable here; the model
follows the comments in `recorder.rs` and the way the code calls it.

Other disagreements between texts and code that were met, with no run: the
README and `recorder.rs:592-601` name ScriptResult among the routed receipts,
while 1407 skips it; `contract_call.rs:22-25` describes a detection of
predicates by a zero id that does not exist; `main.rs:26-28` says a disabled
recorder still validates its inputs where applicable, while `record` returns
before it looks at them; `main.rs:204-206` says that a disabled command "must
execute its target operation in pass-through mode", while `record` and
`run_replay` print a line and execute nothing (the comment at 240-242 explains
it: there is no separate target); `replay.rs:962` calls `contracts_with_bytecode`
the number of contracts "for which bytecode was fetched", while a contract that
the node answers with null parses to an empty bytecode (572-585), is kept like any
other (863) and counted.

What the payload decoders do at their edges, which no text speaks of: an
`Option` with an unknown tag or too short a `Some` is shown as `None`; an `Ok`
cut short is shown as an empty `Err`; a word of 2^63 or more is shown negative;
an empty `Bytes` shows nothing. `ShownWasLogged` excepts the first two by
`Undecoded`, which says so.

## 6. Plan

Done: every component that has state, and every safety property proved. What would add
most next:

1. Addresses modulo 2^64 in `SourceLevelRecorder` (`source_level.rs:176`), which
   are abstract there: the return target is a wrapping sum, and `u64::MAX`
   stands for the top-level frame.
2. The composition of the two call stacks, when the recorder runs transactions
   with contract inputs.
