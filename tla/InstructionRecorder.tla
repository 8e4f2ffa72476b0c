------------------------- MODULE InstructionRecorder -------------------------
(***************************************************************************)
(* FuelRecorder::record (src/src/recorder.rs): the instruction-level       *)
(* trace of raw bytecode against a source map, made while the FuelVM       *)
(* single-steps (FuelInterpreter::run, src/src/interpreter.rs).            *)
(*                                                                         *)
(* A step is registered when the line changes; a line further than         *)
(* NESTED_CALL_LINE_GAP_THRESHOLD from the last one opens a synthetic      *)
(* call.  What is hard is the order in which the closure tells the writer  *)
(* of the step, its values and the call: the writer commits a step late,   *)
(* with whatever values wait at that moment.                               *)
(*                                                                         *)
(* Instructions are numbered as they execute.  The number identifies the   *)
(* register snapshot taken before an instruction (r16-r23), the receipt it *)
(* appends and the step it opens.                                          *)
(***************************************************************************)
EXTENDS TraceWriter, Selections

CONSTANTS Addr,          \* instruction addresses of the program
          Entry,
          Path, Line,    \* what the source map maps an address to
          Toplevel,      \* the frame start() opens
          SourcePath,    \* source_path, where start() puts the entry step
          Programs,      \* the programs that may be recorded
          GasLimit,      \* instructions the program may execute
          NESTED_CALL_LINE_GAP_THRESHOLD

Ops == {"plain", "log", "logd", "logd_empty", "storage", "end", "revert"}

Place == [path : Path, line : Line]

(* A program and its source map (lookup_source is total: an unmapped       *)
(* address shows the default path and its own index).                      *)
Program == [ op : [Addr -> Ops],
             next : [Addr -> SUBSET Addr],
             place : [Addr -> Place] ]

ASSUME AddrAssumption == Entry \in Addr
ASSUME PlaceAssumption == 1 \in Line /\ Line \subseteq Nat /\ SourcePath \in Path
ASSUME MarkAssumption ==
  None \notin Nat /\ None \notin [path : Path, line : Line, by : Nat] /\ Toplevel \notin Nat
ASSUME ProgramAssumption == Programs \subseteq Program
ASSUME GasAssumption == GasLimit \in Nat /\ NESTED_CALL_LINE_GAP_THRESHOLD \in Nat

VARIABLES
  prog, program_kind,
  phase,              \* idle -> begun -> (paused -> released)* -> halted -> closed
  pc, receipts, gas,  \* the VM
  step_count,         \* breakpoints so far: the number of the instruction at pc
  prev_line,          \* line of the last registered step
  nested_call_depth,  \* synthetic calls open
  nested_calls_seen,  \* synthetic calls opened so far
  seen,               \* prev_receipt_count
  writer, events

vmVars == <<pc, receipts, gas>>
recVars == <<step_count, prev_line, nested_call_depth, nested_calls_seen, seen,
             writer, events>>
vars == <<prog, program_kind, phase, vmVars, recVars>>

Returns == {"Return1", "Return0", "ReturnData"}
Traps == {"Panic", "Revert"}
Logs == {"Log", "LogData", "EmptyLogData"}   \* LogData with a payload, and without
ReceiptKinds == Logs \union {"ScriptResult"} \union Returns \union Traps
Receipt(kind) == [kind |-> kind, by |-> step_count]
OfKind(kinds) == [kind : kinds, by : Nat]

------------------------------------------------------------------------------
(* The VM.                                                                 *)

Running == phase = "released" /\ gas > 0 /\ gas' = gas - 1 /\ phase' = "paused"

(* A receipt appears with the instruction that makes it, so the recorder   *)
(* sees it at the next breakpoint.                                         *)
Advance ==
  /\ Running
  /\ prog.op[pc] \in {"plain", "log", "logd", "logd_empty"}
  /\ pc' \in prog.next[pc]
  /\ receipts' = CASE prog.op[pc] = "log" -> Append(receipts, Receipt("Log"))
                   [] prog.op[pc] = "logd" -> Append(receipts, Receipt("LogData"))
                   [] prog.op[pc] = "logd_empty" -> Append(receipts, Receipt("EmptyLogData"))
                   [] OTHER -> receipts
  /\ UNCHANGED <<prog, program_kind, recVars>>

(* RET, RETD and RVRT end the program; any instruction may panic, and SRW  *)
(* and SWW always do in a script.                                          *)
Halt ==
  /\ phase = "released"
  /\ \E kind \in Returns \union Traps :
       /\ kind \in Returns => prog.op[pc] = "end" /\ gas > 0
       /\ kind = "Revert" => prog.op[pc] = "revert" /\ gas > 0
       /\ receipts' = receipts \o <<Receipt(kind), Receipt("ScriptResult")>>
  /\ phase' = "halted"
  /\ UNCHANGED <<prog, program_kind, pc, gas, recVars>>

------------------------------------------------------------------------------
(* The recorder.                                                           *)

Mirrored(rs) == Only(rs, OfKind(ReceiptKinds \ Returns))

Drained(rs) == Only(rs, OfKind(ReceiptKinds \ (Returns \union {"ScriptResult"})))

Unseen == SubSeq(receipts, seen + 1, Len(receipts))

(* emit_storage_opcode_event, for the instruction about to execute.        *)
StorageEvents ==
  IF prog.op[pc] = "storage"
  THEN <<[kind |-> "Storage", by |-> step_count + 1]>>
  ELSE <<>>

MutantEventsSwapped == StorageEvents \o Mirrored(Unseen)

EventsAt == Mirrored(Unseen) \o StorageEvents

line == prog.place[pc].line

Baseline == IF prev_line = None THEN 1 ELSE prev_line

Gap(a, b) == IF a > b THEN a - b ELSE b - a

MutantTransitionAfterFirst ==
  prev_line # None /\ Gap(line, prev_line) > NESTED_CALL_LINE_GAP_THRESHOLD

IsFunctionTransition ==
  prev_line # line /\ Gap(line, Baseline) > NESTED_CALL_LINE_GAP_THRESHOLD

StepPlace(number) ==
  [path |-> prog.place[pc].path, line |-> line, by |-> number]

MutantStepWhenWide(w) ==
  IF IsFunctionTransition THEN RegisterStep(w, StepPlace(step_count + 1)) ELSE w

Stepped(w) ==
  IF prev_line # line THEN RegisterStep(w, StepPlace(step_count + 1)) ELSE w

(* step_logd_payload: the first non-empty payload among the new receipts.  *)
LogdPayload ==
  LET logds == {i \in (seen + 1)..Len(receipts) : receipts[i].kind = "LogData"}
      first == CHOOSE i \in logds : \A j \in logds : i <= j
  IN  IF logds = {} THEN <<>> ELSE <<[kind |-> "logd", of |-> receipts[first].by]>>

Snapshot(number) == [kind |-> "regs", of |-> number]

MutantValuesOnNewLine(w) ==
  IF prev_line = line THEN w
  ELSE RegisterValues(w, <<Snapshot(step_count + 1)>> \o LogdPayload)

Valued(w) == RegisterValues(w, <<Snapshot(step_count + 1)>> \o LogdPayload)

MutantClosesEntry(w) ==
  IF ~IsFunctionTransition THEN w
  ELSE RegisterCall(RegisterReturns(w, nested_call_depth + 1), nested_calls_seen + 1)

MutantNoReturn(w) ==
  IF ~IsFunctionTransition THEN w ELSE RegisterCall(w, nested_calls_seen + 1)

(* The synthetic call of a transition: the region left is closed, and the  *)
(* n-th region gets the n-th name (outer, middle, inner, fn_4, ... or the  *)
(* names given by with_call_names).                                        *)
Crossed(w) ==
  IF ~IsFunctionTransition THEN w
  ELSE RegisterCall(RegisterReturns(w, IF nested_call_depth > 0 THEN 1 ELSE 0),
                    nested_calls_seen + 1)

MutantCrossedFirst == Valued(Crossed(Stepped(writer)))

(* Step, values, call: the order the comment at recorder.rs:666-699 is     *)
(* about.                                                                  *)
WriterAt == Crossed(Valued(Stepped(writer)))

(* The result a predicate returned: a RET of zero, or no RET, is false.    *)
PredicateResult ==
  [ kind |-> "predicate_result",
    of |-> IF \E i \in 1..Len(receipts) : receipts[i].kind = "Return1" THEN 1 ELSE 0 ]

WriterAtEnd ==
  LET closed == RegisterReturns(writer, nested_call_depth)
      result == IF program_kind = "Predicate"
                THEN RegisterValues(closed, <<PredicateResult>>) ELSE closed
  IN  FinishWriting(RegisterReturns(result, 1))

MutantDepthGrows == nested_call_depth + 1

(* One synthetic call is closed, if one is open, and one opened.           *)
DepthAfterTransition ==
  (IF nested_call_depth > 0 THEN nested_call_depth - 1 ELSE 0) + 1

Begin ==
  /\ phase = "idle"
  /\ phase' = "begun"
  /\ writer' = Start(Toplevel, [path |-> SourcePath, line |-> 1, by |-> 0])
  /\ UNCHANGED <<prog, program_kind, vmVars, step_count, prev_line,
                 nested_call_depth, nested_calls_seen, seen, events>>

(* The output directory or the trace files cannot be created.              *)
BeginFails ==
  /\ phase = "idle"
  /\ phase' = "failed"
  /\ UNCHANGED <<prog, program_kind, vmVars, recVars>>

Transact ==
  /\ phase = "begun"
  /\ phase' = "paused"
  /\ UNCHANGED <<prog, program_kind, vmVars, recVars>>

(* FuelInterpreter::new, the transaction or resume() fails: the trace is   *)
(* left begun and not finished.                                            *)
RunFails ==
  /\ phase \in {"begun", "released"}
  /\ phase' = "failed"
  /\ UNCHANGED <<prog, program_kind, vmVars, recVars>>

(* The closure called at a breakpoint.  Two of its calls change only state *)
(* kept elsewhere: ContractCallTracker sees no Call receipt here, because  *)
(* the transaction run() builds has no contract among its inputs, and      *)
(* VariableTracker only chooses the names of the values.                   *)
Callback ==
  /\ phase = "paused"
  /\ phase' = "released"
  /\ step_count' = step_count + 1
  /\ events' = events \o EventsAt
  /\ seen' = Len(receipts)
  /\ prev_line' = line
  /\ writer' = WriterAt
  /\ IF IsFunctionTransition
       THEN /\ nested_call_depth' = DepthAfterTransition
            /\ nested_calls_seen' = nested_calls_seen + 1
       ELSE UNCHANGED <<nested_call_depth, nested_calls_seen>>
  /\ UNCHANGED <<prog, program_kind, vmVars>>

MutantFinishWithoutDrain ==
  /\ phase = "halted"
  /\ phase' \in {"closed", "failed"}
  /\ writer' = WriterAtEnd
  /\ nested_call_depth' = 0
  /\ UNCHANGED <<prog, program_kind, vmVars, step_count, prev_line,
                 nested_calls_seen, seen, events>>

MutantFinishSpins ==
  /\ phase = "halted" /\ nested_call_depth = 0
  /\ phase' \in {"closed", "failed"}
  /\ events' = events \o Drained(Unseen)
  /\ seen' = Len(receipts)
  /\ writer' = WriterAtEnd
  /\ UNCHANGED <<prog, program_kind, vmVars, step_count, prev_line,
                 nested_call_depth, nested_calls_seen>>

(* After the run: the terminal receipts, the calls still open, the         *)
(* predicate's result, the entry frame; writing the files may fail.        *)
Finish ==
  /\ phase = "halted"
  /\ phase' \in {"closed", "failed"}
  /\ events' = events \o Drained(Unseen)
  /\ seen' = Len(receipts)
  /\ writer' = WriterAtEnd
  /\ nested_call_depth' = 0
  /\ UNCHANGED <<prog, program_kind, vmVars, step_count, prev_line,
                 nested_calls_seen>>

Done == phase \in {"closed", "failed"} /\ UNCHANGED vars

------------------------------------------------------------------------------

Init ==
  /\ prog \in Programs
  /\ program_kind \in {"Script", "Predicate"}
  /\ phase = "idle"
  /\ pc = Entry /\ receipts = <<>> /\ gas = GasLimit
  /\ step_count = 0 /\ prev_line = None
  /\ nested_call_depth = 0 /\ nested_calls_seen = 0 /\ seen = 0
  /\ writer = Created /\ events = <<>>

VM == Advance \/ Halt

Recorder == Begin \/ BeginFails \/ Transact \/ RunFails \/ Callback \/ Finish

Next == VM \/ Recorder \/ Done

(* One thread runs the recorder and the VM in turn; nothing in it blocks.  *)
Spec == Init /\ [][Next]_vars /\ WF_vars(Next)

------------------------------------------------------------------------------
(* Properties.                                                             *)

Phases == {"idle", "begun", "paused", "released", "halted", "closed", "failed"}

StepPlaces == [path : Path, line : Line, by : Nat]

Values == [kind : {"regs", "logd", "predicate_result"}, of : Nat]

FunctionName == {Toplevel} \union Nat

(* Every variable keeps its type. *)
TypeOK ==
  /\ prog \in Programs /\ program_kind \in {"Script", "Predicate"}
  /\ phase \in Phases
  /\ pc \in Addr
  /\ receipts \in Seq([kind : ReceiptKinds, by : Nat])
  /\ gas \in 0..GasLimit
  /\ step_count \in Nat
  /\ prev_line \in Line \union {None}
  /\ nested_call_depth \in 0..1
  /\ nested_calls_seen \in Nat
  /\ seen \in 0..Len(receipts)
  /\ writer \in WriterType(FunctionName, StepPlaces, Values)

Recording == phase \in {"begun", "paused", "released", "halted"}

(* The synthetic calls never nest and always balance: beside the entry     *)
(* frame the writer has open what nested_call_depth counts, no return is   *)
(* registered with nothing open, and a finished trace has none left        *)
(* (recorder.rs:1354-1373, 1421-1424 and 1457).                            *)
CallsBalanced ==
  /\ writer.unmatched = 0
  /\ Recording => Len(writer.open) = 1 + nested_call_depth
  /\ phase = "closed" => writer.open = <<>>

(* The steps registered so far, the pending one last. *)
Registered ==
  [i \in 1..Len(writer.steps) |-> writer.steps[i].place]
    \o (IF writer.pending = None THEN <<>> ELSE <<writer.pending>>)

Gaps(steps) ==
  [i \in 1..(Len(steps) - 1) |-> Gap(steps[i].line, steps[i + 1].line)]

Wide(steps) == Only(Gaps(steps), {g \in Nat : g > NESTED_CALL_LINE_GAP_THRESHOLD})

(* The regions can be read back from the steps alone: there is one call    *)
(* for every pair of consecutive steps a wide gap apart, counting from the *)
(* entry step on line 1, and the open one has the latest name.             *)
RegionsReadFromSteps ==
  phase = "released" =>
    /\ nested_calls_seen = Len(Wide(Registered))
    /\ writer.open = IF Wide(Registered) = <<>> THEN <<Toplevel>>
                                                ELSE <<Toplevel, nested_calls_seen>>

(* While an instruction executes, the last step registered shows its line. *)
LineShown ==
  phase = "released" => Registered[Len(Registered)].line = line

(* A step carries the register snapshot of the instruction that opened it, *)
(* also at a function transition, where the call is registered after the   *)
(* values (recorder.rs:675-699).                                           *)
SnapshotOnItsStep ==
  \A i \in 1..Len(writer.steps) :
    LET s == writer.steps[i]
    IN  s.place.by > 0 =>
          \E j \in 1..Len(s.values) : s.values[j] = Snapshot(s.place.by)

(* The register snapshots that a reader of all steps meets, and those that *)
(* still wait for a step.                                                  *)
Snapshots == Only(ValuesInSteps(writer) \o writer.values, [kind : {"regs"}, of : Nat])

(* The last committed step is a region's first: a wide gap comes before it.*)
LastOpensRegion ==
  LET n == Len(writer.steps)
  IN  n > 1 /\ Gap(writer.steps[n].place.line, writer.steps[n - 1].place.line)
                  > NESTED_CALL_LINE_GAP_THRESHOLD

(* The snapshots come once each and in the order of execution, whichever   *)
(* steps carry them.  None is missing before the writer has finished, and  *)
(* then only those taken after a last step that opened a region, whose     *)
(* call had committed it already (recorder.rs:700-728, 1354-1373 and 1457).*)
SnapshotsKeptInOrder ==
  LET kept == Len(Snapshots)
  IN  /\ Snapshots = [k \in 1..kept |-> Snapshot(k)]
      /\ kept # step_count =>
           /\ phase \in {"closed", "failed"}
           /\ LastOpensRegion
           /\ kept = writer.steps[Len(writer.steps)].place.by

(* A receipt reaches the event stream once, and a finished trace has them  *)
(* all, the program's own Return and ScriptResult excepted.                *)
ReceiptsMirroredOnce ==
  /\ Only(events, OfKind(ReceiptKinds))
       = Only(SubSeq(receipts, 1, seen), OfKind(Logs \union Traps))
  /\ phase = "closed" => seen = Len(receipts)

(* The events are in the order of the instructions that caused them: a     *)
(* storage access comes after the receipts of earlier instructions and     *)
(* before the trap it causes (recorder.rs:627-642).                        *)
EventsInExecutionOrder ==
  \A i, j \in 1..Len(events) :
    i < j => \/ events[i].by < events[j].by
             \/ events[i].by = events[j].by /\ events[j].kind \in Traps

(* A recording ends.                                                       *)
RecordingEnds == <>(phase \in {"closed", "failed"})

(* The trace keeps what CallTrace promises.                                *)
Trace == INSTANCE CallTrace WITH
  Function <- FunctionName, Place <- StepPlaces,
  open <- writer.open, position <- writer.pending,
  status <- CASE phase = "idle" -> "unopened"
              [] phase = "closed" -> "closed"
              [] phase = "failed" -> "abandoned"
              [] OTHER -> "recording"

ImplementsCallTrace == Trace!Spec

------------------------------------------------------------------------------
(* What comments and tests say of the recorder, and the code does not do.  *)

(* "a predicate_result ... attached to the final step"                     *)
(* (recorder.rs:1428-1430).                                                *)
PredicateResultOnFinalStep ==
  phase = "closed" /\ program_kind = "Predicate" =>
    LET final == writer.steps[Len(writer.steps)]
    IN  \E j \in 1..Len(final.values) : final.values[j].kind = "predicate_result"

(* A step carries snapshots of instructions on its own line only:          *)
(* registering the values before the call keeps them from being "orphan    *)
(* values that leak onto the next step" (recorder.rs:1345-1350).  The      *)
(* snapshots a step carries are of the instructions from the one that      *)
(* opened it to the one that opened the next.                              *)
NoSnapshotLeaks ==
  \A i \in 1..Len(writer.steps) :
    LET s == writer.steps[i]
    IN  \A j \in 1..Len(s.values) :
          s.values[j].kind = "regs" => s.values[j].of >= s.place.by

(* A LOGD payload is attached "to the step that produced it"               *)
(* (recorder.rs:603-608).                                                  *)
PayloadOnProducingStep ==
  \A i \in 1..(Len(writer.steps) - 1) :
    LET s == writer.steps[i]
    IN  \A j \in 1..Len(s.values) :
          s.values[j].kind = "logd" => s.values[j].of >= s.place.by

(* "opcodes mapped to the library file MUST surface as step events whose   *)
(* path ends with the library file name" (tests/test_tracer.rs:3475-3477). *)
PathShown ==
  phase = "released" =>
    Registered[Len(Registered)].path = prog.place[pc].path
==============================================================================
