------------------------- MODULE ContractCallTracker -------------------------
(***************************************************************************)
(* ContractCallTracker (src/src/contract_call.rs) driven as FuelRecorder   *)
(* ::record drives it: process_receipts with the whole receipt list at     *)
(* every breakpoint, the switches turned into calls and returns of the     *)
(* trace (recorder.rs:569-591), then lookup_source for the instruction     *)
(* about to execute.                                                       *)
(*                                                                         *)
(* The VM's own context stack is the variable "contexts", which no tracker *)
(* action reads: the tracker rebuilds it from the receipts.                *)
(***************************************************************************)
EXTENDS TraceWriter

CONSTANTS ContractId,      \* the contracts, without the zero id
          Zero,            \* ContractId::zeroed(), the script's own id
          Index,           \* opcode indices
          Place,           \* source locations
          Maps,            \* the source map each contract may register
          DefaultMap,      \* default_source_map
          LineOfIndex,     \* (default path, index + 1), the last resort
          Toplevel,
          MaxSteps         \* instructions executed

(* A source map; None where it maps nothing (SwaySourceMap::lookup).       *)
SourceMap == [Index -> Place \union {None}]

ASSUME IdAssumption == 0 \in Index /\ Zero \notin ContractId /\ Toplevel \notin ContractId
ASSUME MapAssumption == /\ None \notin Place
                        /\ Maps \in [ContractId -> SourceMap]
                        /\ DefaultMap \in SourceMap
                        /\ LineOfIndex \in [Index -> Place]
ASSUME StepsAssumption == MaxSteps \in Nat

VARIABLES
  program_kind, phase,   \* new -> setup -> (paused -> released)* -> done
  contexts, index,       \* the VM: contracts being executed, the opcode index
  receipts, fuel,        \* the VM: receipts so far, instructions left
  call_stack, source_maps, processed_receipt_count, in_predicate, \* the tracker
  switches,              \* every ContractSwitch it has returned
  shown,                 \* what lookup_source last returned
  writer

vmVars == <<contexts, index, receipts, fuel>>
trackerVars == <<call_stack, source_maps, processed_receipt_count, in_predicate>>
vars == <<program_kind, phase, vmVars, trackerVars, switches, shown, writer>>

Top(s) == s[Len(s)]
Popped(s) == SubSeq(s, 1, Len(s) - 1)

------------------------------------------------------------------------------
(* The VM.  A receipt carries the id of the contract that appends it.      *)

Receipt(kind, to) == [kind |-> kind, id |-> Top(contexts), to |-> to]

Running == /\ phase = "released" /\ fuel > 0
           /\ fuel' = fuel - 1
           /\ phase' = "paused"
           /\ index' \in Index
           /\ UNCHANGED <<program_kind, trackerVars, switches, shown, writer>>

Execute == /\ Running
           /\ \/ UNCHANGED receipts
              \/ receipts' = Append(receipts, Receipt("Log", Zero))
           /\ UNCHANGED contexts

(* CALL; predicates may not.                                               *)
Call == /\ Running
        /\ program_kind = "Script"
        /\ \E c \in ContractId :
             /\ receipts' = Append(receipts, Receipt("Call", c))
             /\ contexts' = Append(contexts, c)

(* RET and RETD inside a contract.                                         *)
Return == /\ Running
          /\ Len(contexts) > 1
          /\ \E kind \in {"Return", "ReturnData"} :
               receipts' = Append(receipts, Receipt(kind, Zero))
          /\ contexts' = Popped(contexts)

------------------------------------------------------------------------------
(* The tracker.                                                            *)

New == <<[contract_id |-> Zero, context |-> "Script"]>>

EnterContract(t, r) ==
  LET stack == Append(t.stack, [contract_id |-> r.to, context |-> "Contract"])
  IN  [ stack |-> stack,
        switches |-> Append(t.switches, [kind |-> "Enter", from |-> r.id,
                                         to |-> r.to, depth |-> Len(stack)]) ]

MutantExitTo(t, r) ==
  LET stack == Popped(t.stack)
  IN  IF Len(t.stack) <= 1 THEN t
      ELSE [ stack |-> stack,
             switches |-> Append(t.switches,
                                 [kind |-> "Exit", from |-> r.id,
                                  to |-> Top(t.stack).contract_id,
                                  depth |-> Len(stack)]) ]

ExitContract(t, r) ==
  LET stack == Popped(t.stack)
  IN  IF Len(t.stack) <= 1 THEN t
      ELSE [ stack |-> stack,
             switches |-> Append(t.switches,
                                 [kind |-> "Exit", from |-> r.id,
                                  to |-> Top(stack).contract_id,
                                  depth |-> Len(stack)]) ]

MutantIgnoreReturnData(t, r) ==
  CASE r.kind = "Call" -> EnterContract(t, r)
    [] r.kind = "Return" -> ExitContract(t, r)
    [] OTHER -> t

Apply(t, r) ==
  CASE r.kind = "Call" -> EnterContract(t, r)
    [] r.kind \in {"Return", "ReturnData"} -> ExitContract(t, r)
    [] OTHER -> t

(* process_receipts: the stack and the switches after the receipts it has  *)
(* not seen.                                                               *)
Processed ==
  LET new == SubSeq(receipts, processed_receipt_count + 1, Len(receipts))
      after[i \in 0..Len(new)] ==
        IF i = 0 THEN [stack |-> call_stack, switches |-> <<>>]
                 ELSE Apply(after[i - 1], new[i])
  IN  after[Len(new)]

MutantSeenAddedUp == processed_receipt_count + Len(receipts)

SeenAfter == Len(receipts)

MutantLookupCaller(stack, i) ==
  LET c == stack[1].contract_id
  IN  IF c # Zero /\ source_maps[c] /\ Maps[c][i] # None THEN Maps[c][i]
      ELSE IF DefaultMap[i] # None THEN DefaultMap[i] ELSE LineOfIndex[i]

(* lookup_source: the running contract's map, then the default one, then   *)
(* the opcode index as a line.                                             *)
LookupSource(stack, i) ==
  LET c == Top(stack).contract_id
  IN  IF c # Zero /\ source_maps[c] /\ Maps[c][i] # None THEN Maps[c][i]
      ELSE IF DefaultMap[i] # None THEN DefaultMap[i] ELSE LineOfIndex[i]

(* The recorder's calls and returns for the switches of one breakpoint.    *)
Recorded(w, new) ==
  LET after[i \in 0..Len(new)] ==
        IF i = 0 THEN w
        ELSE IF new[i].kind = "Enter" THEN RegisterCall(after[i - 1], new[i].to)
        ELSE RegisterReturns(after[i - 1], 1)
  IN  after[Len(new)]

RegisterSourceMap ==
  /\ phase = "new"
  /\ \E c \in ContractId : source_maps' = [source_maps EXCEPT ![c] = TRUE]
  /\ UNCHANGED <<program_kind, phase, vmVars, call_stack, processed_receipt_count,
                 in_predicate, switches, shown, writer>>

(* The trace starts; enter_predicate, for a predicate.                     *)
Begin ==
  /\ phase = "new"
  /\ phase' = "paused"
  /\ writer' = Start(Toplevel, LineOfIndex[0])
  /\ IF program_kind = "Predicate"
       THEN /\ in_predicate' = TRUE
            /\ call_stack' = Append(call_stack, [contract_id |-> Zero,
                                                 context |-> "Predicate"])
       ELSE UNCHANGED <<in_predicate, call_stack>>
  /\ UNCHANGED <<program_kind, vmVars, source_maps, processed_receipt_count,
                 switches, shown>>

Breakpoint ==
  /\ phase = "paused"
  /\ phase' = "released"
  /\ call_stack' = Processed.stack
  /\ switches' = switches \o Processed.switches
  /\ processed_receipt_count' = SeenAfter
  /\ writer' = Recorded(writer, Processed.switches)
  /\ shown' = LookupSource(Processed.stack, index)
  /\ UNCHANGED <<program_kind, vmVars, source_maps, in_predicate>>

MutantExitKeepsContext(stack) == stack

ExitedPredicate(stack) ==
  IF Top(stack).context = "Predicate" THEN Popped(stack) ELSE stack

(* The program ends: the script's own RET, a revert or a panic at any      *)
(* depth.  The run's last receipts are not processed.  exit_predicate.     *)
Finish ==
  /\ phase = "released"
  /\ phase' = "done"
  /\ IF program_kind = "Predicate"
       THEN in_predicate' = FALSE /\ call_stack' = ExitedPredicate(call_stack)
       ELSE UNCHANGED <<in_predicate, call_stack>>
  /\ writer' = FinishWriting(RegisterReturns(writer, 1))
  /\ UNCHANGED <<program_kind, vmVars, source_maps, processed_receipt_count,
                 switches, shown>>

Done == phase = "done" /\ UNCHANGED vars

------------------------------------------------------------------------------

Init ==
  /\ program_kind \in {"Script", "Predicate"}
  /\ phase = "new"
  /\ contexts = <<Zero>> /\ index \in Index /\ receipts = <<>> /\ fuel = MaxSteps
  /\ call_stack = New
  /\ source_maps = [c \in ContractId |-> FALSE]
  /\ processed_receipt_count = 0 /\ in_predicate = FALSE
  /\ switches = <<>> /\ shown = None /\ writer = Created

VM == Execute \/ Call \/ Return

Next == VM \/ RegisterSourceMap \/ Begin \/ Breakpoint \/ Finish \/ Done

Spec == Init /\ [][Next]_vars

------------------------------------------------------------------------------
(* Properties.                                                             *)

Contexts == [contract_id : ContractId \union {Zero},
             context : {"Script", "Contract", "Predicate"}]

ReceiptType == [kind : {"Log", "Call", "Return", "ReturnData"},
                id : ContractId \union {Zero}, to : ContractId \union {Zero}]

SwitchType == [kind : {"Enter", "Exit"}, from : ContractId \union {Zero},
               to : ContractId \union {Zero}, depth : Nat]

(* Every variable keeps its type; the call stack is never empty, which     *)
(* current_context expects.                                                *)
TypeOK ==
  /\ program_kind \in {"Script", "Predicate"}
  /\ phase \in {"new", "paused", "released", "done"}
  /\ contexts \in Seq(ContractId \union {Zero}) /\ contexts # <<>>
  /\ index \in Index
  /\ receipts \in Seq(ReceiptType)
  /\ fuel \in 0..MaxSteps
  /\ call_stack \in Seq(Contexts) /\ call_stack # <<>>
  /\ source_maps \in [ContractId -> BOOLEAN]
  /\ processed_receipt_count \in 0..Len(receipts)
  /\ in_predicate \in BOOLEAN
  /\ switches \in Seq(SwitchType)
  /\ shown \in Place \union {None}
  /\ writer \in WriterType(ContractId \union {Toplevel}, Place, {})

(* The context below every contract: the script's, or the predicate's.     *)
Base == IF program_kind = "Predicate" THEN 2 ELSE 1

(* Whenever an instruction executes, the stack rebuilt from the receipts   *)
(* is the VM's own: the contracts in it, in order, over the script's or    *)
(* the predicate's context (contract_call.rs:203-244).                     *)
ContextsMatch ==
  phase = "released" =>
    /\ Top(call_stack).contract_id = Top(contexts)
    /\ Len(call_stack) = Base + Len(contexts) - 1
    /\ \A i \in 2..Len(contexts) :
         call_stack[Base + i - 1] = [contract_id |-> contexts[i], context |-> "Contract"]

(* Each switch leaves the contract the one before entered or came back to, *)
(* one deeper on Enter, one less on Exit.                                  *)
Chained ==
  \A i \in 1..Len(switches) :
    LET before == IF i = 1 THEN [to |-> Zero, depth |-> 1] ELSE switches[i - 1]
    IN  /\ switches[i].from = before.to
        /\ switches[i].depth = before.depth + (IF switches[i].kind = "Enter" THEN 1
                                                                           ELSE -1)

(* The switches make one chain, and the calls they open in the trace are   *)
(* the contracts being executed, in order; when the script ends by itself  *)
(* none is left open, and when it ends inside contracts exactly their      *)
(* frames are.                                                             *)
CallsMatchContexts ==
  /\ Chained
  /\ writer.unmatched = 0
  /\ phase = "released" => writer.open = <<Toplevel>> \o Tail(contexts)
  /\ phase = "done" => Len(writer.open) = Len(contexts) - 1

(* The source shown for an instruction is that of the contract the VM is   *)
(* in, wherever its map has the instruction, and never that of another     *)
(* contract: at worst the default source.                                  *)
ShownIsRunningContract ==
  phase = "released" =>
    LET c == Top(contexts)
        own == c # Zero /\ source_maps[c] /\ Maps[c][index] # None
    IN  IF own THEN shown = Maps[c][index]
               ELSE shown \in {DefaultMap[index], LineOfIndex[index]}

IsPredicate == in_predicate \/ Top(call_stack).context = "Predicate"

(* The tracker reports a predicate exactly while one runs, and is back in  *)
(* the script's context after it ("the call stack invariant",              *)
(* recorder.rs:412-416).                                                   *)
PredicateContextRestored ==
  /\ phase = "released" => (IsPredicate <=> program_kind = "Predicate")
  /\ phase = "done" => /\ ~IsPredicate
                       /\ program_kind = "Predicate" => call_stack = New
==============================================================================
