--------------------- MODULE InstructionRecorder_proofs ---------------------
(***************************************************************************)
(* Theorems about InstructionRecorder for every program, source map, gas   *)
(* limit and line gap that its assumptions allow.                          *)
(*                                                                         *)
(* The argument: a step, its values and a call are three requests to a     *)
(* writer that commits late.  What a reader sees (StepAt, Holds and Latest *)
(* of TraceWriter_proofs) does not depend on when the writer commits, so   *)
(* only the order of the three requests matters.                           *)
(***************************************************************************)
EXTENDS InstructionRecorder, TraceWriter_proofs, SequenceFacts_proofs

WT == WriterType(FunctionName, StepPlaces, Values)

ReceiptType == [kind : ReceiptKinds, by : Nat]

(* Nothing has happened before start(). *)
Untouched ==
  phase \in {"idle", "begun"} =>
    nested_call_depth = 0 /\ prev_line = None /\ step_count = 0

BaseInv == TypeOK /\ CallsBalanced /\ Untouched

(* What the assumptions say of the program being recorded. *)
LEMMA ProgramFacts ==
  ASSUME NEW p \in Programs
  PROVE  \A a \in Addr :
           /\ p.next[a] \subseteq Addr
           /\ p.place[a] \in Place
           /\ p.place[a].path \in Path /\ p.place[a].line \in Line
<1>1. p \in Program
  BY ProgramAssumption
<1> QED
  BY <1>1 DEF Program, Place

(* What the writer does with requests of this recorder. *)
LEMMA WriterFacts ==
  ASSUME NEW w \in WT
  PROVE  /\ w.open \in Seq(FunctionName) /\ Len(w.open) \in Nat
         /\ Flush(w) \in WT /\ Flush(w).open = w.open /\ Flush(w).unmatched = w.unmatched
         /\ \A place \in StepPlaces :
              /\ RegisterStep(w, place) \in WT
              /\ RegisterStep(w, place).open = w.open
              /\ RegisterStep(w, place).unmatched = w.unmatched
         /\ \A vs \in Seq(Values) :
              /\ RegisterValues(w, vs) \in WT
              /\ RegisterValues(w, vs).open = w.open
              /\ RegisterValues(w, vs).unmatched = w.unmatched
         /\ \A fn \in FunctionName :
              /\ RegisterCall(w, fn) \in WT
              /\ RegisterCall(w, fn).open = Append(w.open, fn)
              /\ Len(RegisterCall(w, fn).open) = Len(w.open) + 1
              /\ RegisterCall(w, fn).unmatched = w.unmatched
         /\ \A n \in 0..Len(w.open) :
              /\ RegisterReturns(w, n) \in WT
              /\ RegisterReturns(w, n).open = SubSeq(w.open, 1, Len(w.open) - n)
              /\ Len(RegisterReturns(w, n).open) = Len(w.open) - n
              /\ RegisterReturns(w, n).unmatched = w.unmatched
<1>1. w.open \in Seq(FunctionName) /\ Len(w.open) \in Nat
  BY DEF WT, WriterType
<1>2. Flush(w) \in WT /\ Flush(w).open = w.open /\ Flush(w).unmatched = w.unmatched
  BY FlushFacts DEF WT
<1>3. ASSUME NEW place \in StepPlaces
      PROVE  /\ RegisterStep(w, place) \in WT
             /\ RegisterStep(w, place).open = w.open
             /\ RegisterStep(w, place).unmatched = w.unmatched
  BY RegisterStepFacts DEF WT
<1>4. ASSUME NEW vs \in Seq(Values)
      PROVE  /\ RegisterValues(w, vs) \in WT
             /\ RegisterValues(w, vs).open = w.open
             /\ RegisterValues(w, vs).unmatched = w.unmatched
  BY RegisterValuesFacts DEF WT
<1>5. ASSUME NEW fn \in FunctionName
      PROVE  /\ RegisterCall(w, fn) \in WT
             /\ RegisterCall(w, fn).open = Append(w.open, fn)
             /\ Len(RegisterCall(w, fn).open) = Len(w.open) + 1
             /\ RegisterCall(w, fn).unmatched = w.unmatched
  <2>1. /\ RegisterCall(w, fn) \in WT
        /\ RegisterCall(w, fn).open = Append(w.open, fn)
        /\ RegisterCall(w, fn).unmatched = w.unmatched
    BY RegisterCallFacts DEF WT
  <2> QED
    BY <1>1, <2>1, AppendFacts
<1>6. ASSUME NEW n \in 0..Len(w.open)
      PROVE  /\ RegisterReturns(w, n) \in WT
             /\ RegisterReturns(w, n).open = SubSeq(w.open, 1, Len(w.open) - n)
             /\ Len(RegisterReturns(w, n).open) = Len(w.open) - n
             /\ RegisterReturns(w, n).unmatched = w.unmatched
  BY RegisterReturnsFacts DEF WT
<1> QED
  BY <1>1, <1>2, <1>3, <1>4, <1>5, <1>6

------------------------------------------------------------------------------
(* The closure: a step, the values, a call.                                *)

LEMMA PayloadType ==
  ASSUME TypeOK
  PROVE  LogdPayload \in Seq([kind : {"logd"}, of : Nat])
<1> DEFINE logds == {i \in (seen + 1)..Len(receipts) : receipts[i].kind = "LogData"}
           first == CHOOSE i \in logds : \A j \in logds : i <= j
<1>1. receipts \in Seq(ReceiptType) /\ Len(receipts) \in Nat /\ seen \in Nat
  BY DEF TypeOK, ReceiptType
<1>2. CASE logds = {}
  BY <1>2 DEF LogdPayload
<1>3. CASE logds # {}
  <2>1. logds \subseteq 1..Len(receipts)
    BY <1>1
  <2>2. \E i \in logds : \A j \in logds : i <= j
    <3> HIDE DEF logds
    <3> QED BY <1>1, <1>3, <2>1, SmallestExists
  <2>3. first \in 1..Len(receipts)
    <3>1. first \in logds
      <4> HIDE DEF logds
      <4> QED BY <2>2
    <3> QED BY <2>1, <3>1
  <2>4. LogdPayload = <<[kind |-> "logd", of |-> receipts[first].by]>>
    BY <1>3 DEF LogdPayload
  <2> HIDE DEF first
  <2>5. receipts[first].by \in Nat
    <3>1. receipts[first] \in ReceiptType
      BY <1>1, <2>3
    <3> QED BY <3>1 DEF ReceiptType
  <2> QED
    BY <2>4, <2>5
<1> QED
  BY <1>2, <1>3

(* What the closure registers at a breakpoint. *)
NewValues == <<Snapshot(step_count + 1)>> \o LogdPayload

LEMMA ValuesFacts ==
  ASSUME TypeOK
  PROVE  /\ NewValues \in Seq(Values)
         /\ Len(NewValues) >= 1
         /\ NewValues[1] = Snapshot(step_count + 1)
         /\ \A j \in 1..Len(NewValues) :
              NewValues[j].kind = "regs" => NewValues[j] = Snapshot(step_count + 1)
<1> DEFINE p == LogdPayload
           s == Snapshot(step_count + 1)
<1>1. p \in Seq([kind : {"logd"}, of : Nat])
  BY PayloadType
<1>2. s \in Values
  BY DEF TypeOK, Snapshot, Values
<1>3. NewValues = <<s>> \o p
  BY DEF NewValues
<1>4. Len(p) \in Nat /\ \A j \in 1..Len(p) : p[j] \in Values /\ p[j].kind = "logd"
  <2>1. Len(p) \in Nat /\ \A j \in 1..Len(p) : p[j] \in [kind : {"logd"}, of : Nat]
    BY <1>1, ElementFacts
  <2>2. [kind : {"logd"}, of : Nat] \subseteq Values
    BY DEF Values
  <2> HIDE DEF p
  <2> QED
    BY <2>1, <2>2
<1> HIDE DEF p, s
<1>5. /\ Len(NewValues) = Len(p) + 1
      /\ NewValues[1] = s
      /\ \A j \in 2..Len(NewValues) : NewValues[j] = p[j - 1] /\ j - 1 \in 1..Len(p)
  BY <1>1, <1>3, <1>4
<1>6. NewValues \in Seq(Values)
  <2>1. p \in Seq(Values)
    BY <1>1, <1>4, RetypeFacts
  <2> QED BY <1>2, <1>3, <2>1
<1>7. \A j \in 1..Len(NewValues) : NewValues[j].kind = "regs" => NewValues[j] = s
  <2> SUFFICES ASSUME NEW j \in 1..Len(NewValues), NewValues[j].kind = "regs", j # 1
               PROVE  FALSE
    BY <1>5
  <2>1. j \in 2..Len(NewValues)
    BY <1>4, <1>5
  <2> QED
    BY <1>4, <1>5, <2>1
<1> QED
  BY <1>4, <1>5, <1>6, <1>7 DEF s

(* The three writers between the calls of the closure. *)
W1 == Stepped(writer)
W2 == Valued(W1)

LEMMA SteppedFacts ==
  ASSUME TypeOK
  PROVE  /\ W1 \in WT /\ W1.open = writer.open /\ W1.unmatched = writer.unmatched
         /\ W2 \in WT /\ W2.open = writer.open /\ W2.unmatched = writer.unmatched
         /\ W2 = RegisterValues(W1, NewValues)
         /\ StepPlace(step_count + 1) \in StepPlaces
<1>1. writer \in WT /\ prog \in Programs /\ pc \in Addr /\ step_count \in Nat
  BY DEF TypeOK, WT
<1>2. StepPlace(step_count + 1) \in StepPlaces
  BY <1>1, ProgramFacts DEF StepPlace, StepPlaces, line
<1>3. W1 \in WT /\ W1.open = writer.open /\ W1.unmatched = writer.unmatched
  BY <1>1, <1>2, WriterFacts DEF W1, Stepped
<1>4. W2 = RegisterValues(W1, NewValues)
  BY DEF W2, Valued, NewValues
<1>5. W2 \in WT /\ W2.open = W1.open /\ W2.unmatched = W1.unmatched
  BY <1>3, <1>4, ValuesFacts, WriterFacts
<1> QED
  BY <1>2, <1>3, <1>4, <1>5

(* The writer after the closure, and the calls it has open. *)
LEMMA CallbackFacts ==
  ASSUME BaseInv, phase = "paused"
  PROVE  /\ WriterAt \in WT
         /\ WriterAt.unmatched = 0
         /\ Len(WriterAt.open) =
              1 + IF IsFunctionTransition THEN DepthAfterTransition ELSE nested_call_depth
         /\ IsFunctionTransition => DepthAfterTransition = 1
<1>1. /\ writer.open \in Seq(FunctionName) /\ writer.unmatched = 0
      /\ Len(writer.open) = 1 + nested_call_depth /\ nested_call_depth \in 0..1
      /\ nested_calls_seen \in Nat
  BY DEF BaseInv, TypeOK, CallsBalanced, Recording, WriterType
<1>2. W2 \in WT /\ W2.open = writer.open /\ W2.unmatched = 0
  BY <1>1, SteppedFacts DEF BaseInv
<1>3. WriterAt = Crossed(W2)
  BY DEF WriterAt, W1, W2
<1>4. CASE ~IsFunctionTransition
  BY <1>1, <1>2, <1>3, <1>4 DEF Crossed
<1>5. CASE IsFunctionTransition
  <2> DEFINE n == IF nested_call_depth > 0 THEN 1 ELSE 0
             r == RegisterReturns(W2, n)
             c == RegisterCall(r, nested_calls_seen + 1)
  <2>1. n \in 0..Len(W2.open) /\ Len(W2.open) - n = 1
    BY <1>1, <1>2
  <2>2. WriterAt = c
    BY <1>3, <1>5 DEF Crossed
  <2> HIDE DEF n
  <2>3. r \in WT /\ Len(r.open) = 1 /\ r.unmatched = 0
    BY <1>2, <2>1, WriterFacts
  <2>4. nested_calls_seen + 1 \in FunctionName
    BY <1>1 DEF FunctionName
  <2> HIDE DEF r
  <2>5. c \in WT /\ Len(c.open) = Len(r.open) + 1 /\ c.unmatched = 0
    BY <2>3, <2>4, WriterFacts
  <2>7. Len(c.open) = 2
    BY <2>3, <2>5
  <2>8. DepthAfterTransition = 1
    BY <1>1 DEF DepthAfterTransition
  <2> QED
    BY <1>5, <2>2, <2>5, <2>7, <2>8
<1> QED
  BY <1>4, <1>5

(* The writer once everything is closed. *)
Closed == RegisterReturns(writer, nested_call_depth)

WithResult ==
  IF program_kind = "Predicate" THEN RegisterValues(Closed, <<PredicateResult>>) ELSE Closed

LEMMA FinishFacts ==
  ASSUME BaseInv, phase = "halted"
  PROVE  /\ Closed \in WT
         /\ <<PredicateResult>> \in Seq(Values)
         /\ WithResult \in WT
         /\ RegisterReturns(WithResult, 1) \in WT
         /\ WriterAtEnd = FinishWriting(RegisterReturns(WithResult, 1))
         /\ WriterAtEnd \in WT
         /\ WriterAtEnd.open = <<>>
         /\ WriterAtEnd.unmatched = 0
         /\ WriterAtEnd.pending = None
<1>1. /\ writer \in WT /\ writer.open \in Seq(FunctionName) /\ writer.unmatched = 0
      /\ Len(writer.open) = 1 + nested_call_depth /\ nested_call_depth \in 0..1
  BY DEF BaseInv, TypeOK, CallsBalanced, Recording, WT, WriterType
<1>2. nested_call_depth \in 0..Len(writer.open)
  BY <1>1
<1>3. Closed \in WT /\ Len(Closed.open) = 1 /\ Closed.unmatched = 0
  <2>1. /\ Closed \in WT /\ Len(Closed.open) = Len(writer.open) - nested_call_depth
        /\ Closed.unmatched = writer.unmatched
    BY <1>1, <1>2, WriterFacts DEF Closed
  <2> QED
    BY <1>1, <2>1
<1>4. PredicateResult \in Values
  BY DEF PredicateResult, Values
<1>5. WithResult \in WT /\ Len(WithResult.open) = 1 /\ WithResult.unmatched = 0
  <2>1. <<PredicateResult>> \in Seq(Values)
    BY <1>4
  <2>2. \/ WithResult = RegisterValues(Closed, <<PredicateResult>>)
        \/ WithResult = Closed
    BY DEF WithResult
  <2>3. CASE WithResult = Closed
    BY <1>3, <2>3
  <2>4. CASE WithResult = RegisterValues(Closed, <<PredicateResult>>)
    BY <1>3, <2>1, <2>4, WriterFacts
  <2> QED
    BY <2>2, <2>3, <2>4
<1> DEFINE r == RegisterReturns(WithResult, 1)
<1>6. /\ r \in WT /\ r.unmatched = 0
      /\ Len(r.open) = 0
  <2>1. 1 \in 0..Len(WithResult.open) /\ Len(WithResult.open) - 1 = 0
    BY <1>5
  <2> QED
    BY <1>5, <2>1, WriterFacts
<1>7. WriterAtEnd = FinishWriting(r)
  BY DEF WriterAtEnd, WithResult, Closed
<1> HIDE DEF r
<1>8. r.open = <<>>
  <2>1. r.open \in Seq(FunctionName)
    BY <1>6, WriterFacts
  <2> QED BY <1>6, <2>1
<1>9. /\ FinishWriting(r) \in WT /\ FinishWriting(r).open = <<>>
      /\ FinishWriting(r).unmatched = 0 /\ FinishWriting(r).pending = None
  BY <1>6, <1>8, FinishWritingFacts DEF WT
<1> QED
  BY <1>3, <1>4, <1>5, <1>6, <1>7, <1>9 DEF r

------------------------------------------------------------------------------
(* Types and balance.                                                      *)

LEMMA ReceiptsGrow ==
  ASSUME TypeOK, NEW rs \in Seq(ReceiptType)
  PROVE  /\ receipts \o rs \in Seq(ReceiptType)
         /\ seen \in 0..Len(receipts \o rs)
BY DEF TypeOK, ReceiptType

(* Every step keeps the types and the balance. *)
LEMMA BaseInvStep == BaseInv /\ [Next]_vars => BaseInv'
<1> SUFFICES ASSUME BaseInv, [Next]_vars
             PROVE  BaseInv'
  OBVIOUS
<1> USE DEF BaseInv, Untouched
<1>a. prog \in Programs /\ pc \in Addr /\ \A a \in Addr : prog.next[a] \subseteq Addr
  BY ProgramFacts DEF TypeOK
<1>b. \A k \in ReceiptKinds : Receipt(k) \in ReceiptType
  BY DEF TypeOK, Receipt, ReceiptType
<1>1. CASE Advance
  <2>1. pc' \in Addr /\ gas' \in 0..GasLimit /\ phase = "released" /\ phase' = "paused"
    BY <1>1, <1>a, GasAssumption DEF Advance, Running, TypeOK
  <2>2. \E rs \in Seq(ReceiptType) : receipts' = receipts \o rs
    <3>1. \A k \in ReceiptKinds : Append(receipts, Receipt(k)) = receipts \o <<Receipt(k)>>
      BY DEF TypeOK
    <3>2. \A k \in ReceiptKinds : <<Receipt(k)>> \in Seq(ReceiptType)
      BY <1>b
    <3>3. \A k \in Logs : k \in ReceiptKinds
      BY DEF ReceiptKinds
    <3>4. receipts = receipts \o <<>> /\ <<>> \in Seq(ReceiptType)
      BY DEF TypeOK
    <3>5. (\E k \in Logs : receipts' = Append(receipts, Receipt(k))) \/ receipts' = receipts
      BY <1>1 DEF Advance, Logs
    <3> QED BY <3>1, <3>2, <3>3, <3>4, <3>5
  <2>3. receipts' \in Seq(ReceiptType) /\ seen \in 0..Len(receipts')
    BY <2>2, ReceiptsGrow
  <2> QED
    BY <1>1, <2>1, <2>3 DEF Advance, recVars, TypeOK, CallsBalanced, Recording, Phases,
       ReceiptType
<1>2. CASE Halt
  <2>1. PICK k \in Returns \union Traps :
          receipts' = receipts \o <<Receipt(k), Receipt("ScriptResult")>>
    BY <1>2 DEF Halt
  <2>2. <<Receipt(k), Receipt("ScriptResult")>> \in Seq(ReceiptType)
    <3>1. k \in ReceiptKinds /\ "ScriptResult" \in ReceiptKinds
      BY DEF ReceiptKinds
    <3> QED BY <1>b, <3>1
  <2>3. receipts' \in Seq(ReceiptType) /\ seen \in 0..Len(receipts')
    BY <2>1, <2>2, ReceiptsGrow
  <2> QED
    BY <1>2, <2>3 DEF Halt, recVars, TypeOK, CallsBalanced, Recording, Phases, ReceiptType
<1>3. CASE Begin
  <2> DEFINE entry == [path |-> SourcePath, line |-> 1, by |-> 0]
  <2>1. entry \in StepPlaces
    BY PlaceAssumption DEF StepPlaces
  <2> HIDE DEF entry
  <2>2. /\ Start(Toplevel, entry) \in WT
        /\ Start(Toplevel, entry).unmatched = 0
        /\ Len(Start(Toplevel, entry).open) = 1
    BY <2>1 DEF Start, WT, WriterType, FunctionName
  <2>3. writer' = Start(Toplevel, entry)
    BY <1>3 DEF Begin, entry
  <2>4. nested_call_depth = 0 /\ nested_call_depth' = 0
    BY <1>3 DEF Begin, Untouched
  <2> QED
    BY <1>3, <2>2, <2>3, <2>4 DEF Begin, vmVars, TypeOK, CallsBalanced, Recording, Phases, WT
<1>4. CASE BeginFails \/ Transact \/ RunFails
  BY <1>4 DEF BeginFails, Transact, RunFails, vmVars, recVars, TypeOK, CallsBalanced,
              Recording, Phases
<1>5. CASE Callback
  <2>1. /\ WriterAt \in WT /\ WriterAt.unmatched = 0
        /\ Len(WriterAt.open) =
             1 + IF IsFunctionTransition THEN DepthAfterTransition ELSE nested_call_depth
        /\ IsFunctionTransition => DepthAfterTransition = 1
    BY <1>5, CallbackFacts DEF Callback
  <2>2. line \in Line
    BY <1>a, ProgramFacts DEF line
  <2>3. /\ nested_call_depth' \in 0..1 /\ nested_calls_seen' \in Nat
        /\ Len(WriterAt.open) = 1 + nested_call_depth'
    BY <1>5, <2>1 DEF Callback, TypeOK
  <2>4. /\ writer' = WriterAt /\ phase' = "released" /\ prev_line' = line
        /\ seen' = Len(receipts) /\ step_count' = step_count + 1
        /\ UNCHANGED <<prog, program_kind, pc, receipts, gas>>
    BY <1>5 DEF Callback, vmVars
  <2>5. seen' \in 0..Len(receipts') /\ step_count' \in Nat
    BY <2>4 DEF TypeOK
  <2> QED
    BY <2>1, <2>2, <2>3, <2>4, <2>5 DEF TypeOK, CallsBalanced, Phases, WT
<1>6. CASE Finish
  <2>1. /\ WriterAtEnd \in WT /\ WriterAtEnd.open = <<>> /\ WriterAtEnd.unmatched = 0
    BY <1>6, FinishFacts DEF Finish
  <2>2. /\ writer' = WriterAtEnd /\ phase' \in {"closed", "failed"}
        /\ nested_call_depth' = 0 /\ seen' = Len(receipts)
        /\ UNCHANGED <<prog, program_kind, pc, receipts, gas, step_count, prev_line,
                       nested_calls_seen>>
    BY <1>6 DEF Finish, vmVars
  <2>3. seen' \in 0..Len(receipts')
    BY <2>2 DEF TypeOK
  <2> QED
    BY <2>1, <2>2, <2>3 DEF TypeOK, CallsBalanced, Recording, Phases, WT
<1>7. CASE Done \/ UNCHANGED vars
  BY <1>7 DEF Done, vars, vmVars, recVars, TypeOK, CallsBalanced, Recording
<1> QED
  BY <1>1, <1>2, <1>3, <1>4, <1>5, <1>6, <1>7 DEF Next, VM, Recorder

LEMMA BaseInvInit == Init => BaseInv
<1> SUFFICES ASSUME Init PROVE BaseInv
  OBVIOUS
<1>1. writer \in WT /\ writer.unmatched = 0
  BY DEF Init, Created, WT, WriterType
<1> QED
  BY <1>1, AddrAssumption, GasAssumption
  DEF Init, BaseInv, Untouched, TypeOK, CallsBalanced, Recording, Phases, WT

LEMMA BaseInvariant == Spec => []BaseInv
BY BaseInvInit, BaseInvStep, PTL DEF Spec

(* Every variable of the recorder and the VM keeps its type; in particular *)
(* the recorder never has two synthetic calls open, for every program.     *)
THEOREM TypeCorrect == Spec => []TypeOK
BY BaseInvariant, PTL DEF BaseInv

(* The synthetic calls balance in the trace of every program: one entry    *)
(* frame and at most one region open, no return without a call, and        *)
(* nothing open at the end.                                                *)
THEOREM CallsAlwaysBalanced == Spec => []CallsBalanced
BY BaseInvariant, PTL DEF BaseInv

------------------------------------------------------------------------------
(* What the reader of the trace sees.                                      *)

(* The last step registered is on the recorder's line, and while an        *)
(* instruction executes that line is the instruction's.                    *)
ShownInv ==
  /\ Recording => HasStep(writer)
  /\ Recording /\ prev_line # None => Latest(writer).line = prev_line
  /\ phase = "released" => prev_line = line

(* The step an instruction opened, committed or pending, has its snapshot. *)
CarriedInv ==
  \A i \in Nat, p \in StepPlaces :
    StepAt(writer, i, p) /\ p.by > 0 => Holds(writer, i, Snapshot(p.by))

SeenInv == BaseInv /\ ShownInv /\ CarriedInv

LEMMA SnapshotFacts ==
  /\ \A k, l : Snapshot(k) = Snapshot(l) => k = l
  /\ \A k : Snapshot(k).kind = "regs"
BY DEF Snapshot

(* Positions are natural numbers, from 1 to one past the committed steps. *)
LEMMA PositionFacts ==
  ASSUME NEW w \in WT
  PROVE  /\ Len(w.steps) \in Nat
         /\ \A i, v : Holds(w, i, v) => i \in 1..(Len(w.steps) + 1)
         /\ \A i, p : StepAt(w, i, p) => i \in 1..(Len(w.steps) + 1)
<1>1. Len(w.steps) \in Nat
  BY DEF WT, WriterType
<1> QED
  BY <1>1 DEF Holds, StepAt

(* What the closure adds for the reader: perhaps a step, and the values of *)
(* the instruction about to execute, to the last step.                     *)
LEMMA CallbackShows ==
  ASSUME BaseInv, phase = "paused"
  PROVE  /\ HasStep(writer) => HasStep(WriterAt)
         /\ Latest(WriterAt) =
              IF prev_line # line THEN StepPlace(step_count + 1) ELSE Latest(writer)
         /\ \E n \in Nat :
              /\ \A i, p : StepAt(WriterAt, i, p) =>
                             \/ StepAt(writer, i, p)
                             \/ i = n /\ p = StepPlace(step_count + 1)
              /\ \A i, v : Holds(WriterAt, i, v) <=>
                             \/ Holds(writer, i, v)
                             \/ i = n /\ \E j \in 1..Len(NewValues) : NewValues[j] = v
<1> DEFINE n == Len(W1.steps) + 1
           new == StepPlace(step_count + 1)
<1>1. /\ writer \in WT /\ W1 \in WT /\ W2 \in WT /\ new \in StepPlaces
      /\ W2 = RegisterValues(W1, NewValues)
      /\ NewValues \in Seq(Values)
      /\ None \notin StepPlaces
  BY SteppedFacts, ValuesFacts, MarkAssumption DEF BaseInv, TypeOK, WT, StepPlaces
<1>2. n \in Nat
  BY <1>1, PositionFacts
<1>3. /\ HasStep(writer) => HasStep(W1)
      /\ Latest(W1) = IF prev_line # line THEN new ELSE Latest(writer)
      /\ \A i, p : StepAt(W1, i, p) => StepAt(writer, i, p) \/ (i = n /\ p = new)
      /\ \A i, v : Holds(W1, i, v) <=> Holds(writer, i, v)
  <2>1. CASE prev_line # line
    <3>1. W1 = RegisterStep(writer, new)
      BY <2>1 DEF W1, Stepped
    <3> HIDE DEF new
    <3> QED
      BY <1>1, <2>1, <3>1, RegisterStepShows DEF WT
  <2>2. CASE prev_line = line
    BY <2>2 DEF W1, Stepped
  <2> QED
    BY <2>1, <2>2
<1>4. /\ HasStep(W1) => HasStep(W2)
      /\ Latest(W2) = Latest(W1)
      /\ \A i, p : StepAt(W2, i, p) <=> StepAt(W1, i, p)
      /\ \A i, v : Holds(W2, i, v) <=>
                     \/ Holds(W1, i, v)
                     \/ i = n /\ \E j \in 1..Len(NewValues) : NewValues[j] = v
  BY <1>1, RegisterValuesShows DEF WT
<1>5. /\ HasStep(W2) => HasStep(WriterAt)
      /\ Latest(WriterAt) = Latest(W2)
      /\ \A i, p : StepAt(WriterAt, i, p) <=> StepAt(W2, i, p)
      /\ \A i, v : Holds(WriterAt, i, v) <=> Holds(W2, i, v)
  <2>1. WriterAt = Crossed(W2)
    BY DEF WriterAt, W1, W2
  <2>2. CASE ~IsFunctionTransition
    BY <2>1, <2>2 DEF Crossed
  <2>3. CASE IsFunctionTransition
    <3> DEFINE m == IF nested_call_depth > 0 THEN 1 ELSE 0
               r == RegisterReturns(W2, m)
    <3>1. WriterAt = RegisterCall(r, nested_calls_seen + 1)
      BY <2>1, <2>3 DEF Crossed
    <3>2. m \in 0..Len(W2.open)
      BY SteppedFacts DEF BaseInv, TypeOK, CallsBalanced, Recording
    <3> HIDE DEF m
    <3>3. /\ r \in WT
          /\ HasStep(W2) => HasStep(r)
          /\ Latest(r) = Latest(W2)
          /\ \A i, p : StepAt(r, i, p) <=> StepAt(W2, i, p)
          /\ \A i, v : Holds(r, i, v) <=> Holds(W2, i, v)
      BY <1>1, <3>2, WriterFacts, RegisterReturnsShows DEF WT
    <3> HIDE DEF r
    <3> QED
      BY <3>1, <3>3, RegisterCallShows DEF WT
  <2> QED
    BY <2>2, <2>3
<1> HIDE DEF n, new
<1>6. /\ \A i, p : StepAt(WriterAt, i, p) => StepAt(writer, i, p) \/ (i = n /\ p = new)
      /\ \A i, v : Holds(WriterAt, i, v) <=>
                     \/ Holds(writer, i, v)
                     \/ i = n /\ \E j \in 1..Len(NewValues) : NewValues[j] = v
  BY <1>3, <1>4, <1>5
<1> QED
  BY <1>2, <1>3, <1>4, <1>5, <1>6 DEF new

(* What is registered at the end adds no step and takes nothing from one. *)
LEMMA FinishShows ==
  ASSUME BaseInv, phase = "halted"
  PROVE  /\ \A i, p : StepAt(WriterAtEnd, i, p) <=> StepAt(writer, i, p)
         /\ \A i, p, k : StepAt(writer, i, p) /\ Holds(writer, i, Snapshot(k)) =>
                           Holds(WriterAtEnd, i, Snapshot(k))
<1> DEFINE r == RegisterReturns(WithResult, 1)
<1>1. /\ writer \in WT /\ Closed \in WT /\ WithResult \in WT /\ r \in WT
      /\ <<PredicateResult>> \in Seq(Values)
      /\ WriterAtEnd = FinishWriting(r)
  BY FinishFacts DEF BaseInv, TypeOK, WT
<1>2. /\ \A i, p : StepAt(Closed, i, p) <=> StepAt(writer, i, p)
      /\ \A i, v : Holds(Closed, i, v) <=> Holds(writer, i, v)
  BY <1>1, RegisterReturnsShows DEF Closed, WT
<1>3. /\ \A i, p : StepAt(WithResult, i, p) <=> StepAt(Closed, i, p)
      /\ \A i, k : Holds(WithResult, i, Snapshot(k)) <=> Holds(Closed, i, Snapshot(k))
  <2>1. CASE program_kind = "Predicate"
    <3> DEFINE vs == <<PredicateResult>>
    <3>1. \A k : \A j \in 1..Len(vs) : vs[j] # Snapshot(k)
      BY SnapshotFacts DEF PredicateResult
    <3>2. WithResult = RegisterValues(Closed, vs)
      BY <2>1 DEF WithResult
    <3>3. vs \in Seq(Values)
      BY <1>1
    <3> HIDE DEF vs
    <3>4. /\ \A i, p : StepAt(RegisterValues(Closed, vs), i, p) <=> StepAt(Closed, i, p)
          /\ \A i, v : Holds(RegisterValues(Closed, vs), i, v) <=>
                         \/ Holds(Closed, i, v)
                         \/ i = Len(Closed.steps) + 1 /\ \E j \in 1..Len(vs) : vs[j] = v
      BY <1>1, <3>3, RegisterValuesShows DEF WT
    <3> QED
      BY <3>1, <3>2, <3>4
  <2>2. CASE program_kind # "Predicate"
    BY <2>2 DEF WithResult
  <2> QED
    BY <2>1, <2>2
<1>4. /\ \A i, p : StepAt(r, i, p) <=> StepAt(WithResult, i, p)
      /\ \A i, v : Holds(r, i, v) <=> Holds(WithResult, i, v)
  BY <1>1, RegisterReturnsShows DEF WT
<1> HIDE DEF r
<1>5. /\ \A i, p : StepAt(WriterAtEnd, i, p) <=> StepAt(r, i, p)
      /\ \A i, p, v : StepAt(r, i, p) /\ Holds(r, i, v) => Holds(WriterAtEnd, i, v)
  BY <1>1, FinishWritingShows DEF WT
<1> QED
  BY <1>2, <1>3, <1>4, <1>5

(* Every step keeps what the reader sees right. *)
LEMMA SeenInvStep ==
  ASSUME SeenInv, [Next]_vars
  PROVE  ShownInv' /\ CarriedInv'
<1> USE DEF SeenInv
<1>1. CASE Begin
  <2> DEFINE entry == [path |-> SourcePath, line |-> 1, by |-> 0]
  <2>1. /\ writer'.steps = <<>> /\ writer'.values = <<>> /\ writer'.pending = entry
        /\ phase' = "begun" /\ prev_line' = prev_line /\ step_count' = step_count
    BY <1>1 DEF Begin, Start
  <2>2. entry \in StepPlaces /\ entry.by = 0
    BY PlaceAssumption DEF StepPlaces
  <2> HIDE DEF entry
  <2>3. prev_line = None /\ step_count = 0
    BY <1>1 DEF Begin, BaseInv, Untouched
  <2>4. HasStep(writer')
    BY <2>1, <2>2, MarkAssumption DEF HasStep, StepPlaces
  <2>5. ShownInv'
    BY <2>1, <2>3, <2>4 DEF ShownInv
  <2>6. /\ \A i, v : ~Holds(writer', i, v)
        /\ \A i, p : StepAt(writer', i, p) => p = entry
    BY <2>1 DEF Holds, StepAt
  <2>7. CarriedInv'
    BY <2>2, <2>6 DEF CarriedInv
  <2> QED
    BY <2>5, <2>7
<1>2. CASE Callback
  <2>1. /\ writer' = WriterAt /\ phase = "paused" /\ phase' = "released"
        /\ prev_line' = line /\ step_count' = step_count + 1
        /\ UNCHANGED <<prog, pc>>
    BY <1>2 DEF Callback, vmVars
  <2>2. /\ HasStep(writer)
        /\ line' = line /\ line \in Nat /\ step_count \in Nat
        /\ prev_line # None => Latest(writer).line = prev_line
    BY <2>1, ProgramFacts, PlaceAssumption
    DEF ShownInv, Recording, line, BaseInv, TypeOK
  <2>3. ShownInv'
    <3>1. StepPlace(step_count + 1).line = line
      BY DEF StepPlace
    <3>2. Latest(WriterAt).line = line
      BY <2>1, <2>2, <3>1, CallbackShows, MarkAssumption
    <3>3. HasStep(WriterAt)
      BY <2>1, <2>2, CallbackShows
    <3> QED
      BY <2>1, <2>2, <3>2, <3>3 DEF ShownInv
  <2> DEFINE Fresh(v) == \E j \in 1..Len(NewValues) : NewValues[j] = v
             c == step_count + 1
  <2>4. PICK n \in Nat :
          /\ \A i, p : StepAt(WriterAt, i, p) =>
                         StepAt(writer, i, p) \/ (i = n /\ p = StepPlace(c))
          /\ \A i, v : Holds(WriterAt, i, v) <=> Holds(writer, i, v) \/ (i = n /\ Fresh(v))
    BY <2>1, CallbackShows
  <2>5. \A k : Fresh(Snapshot(k)) <=> k = c
    <3>1. /\ 1 \in 1..Len(NewValues) /\ NewValues[1] = Snapshot(c)
          /\ \A j \in 1..Len(NewValues) :
               NewValues[j].kind = "regs" => NewValues[j] = Snapshot(c)
      BY ValuesFacts, ElementFacts DEF BaseInv
    <3> QED
      BY <3>1, SnapshotFacts
  <2>6. StepPlace(c).by = c
    BY DEF StepPlace
  <2> HIDE DEF Fresh
  <2>7. CarriedInv'
    <3> SUFFICES ASSUME NEW i \in Nat, NEW p \in StepPlaces, StepAt(WriterAt, i, p), p.by > 0
                 PROVE  Holds(WriterAt, i, Snapshot(p.by))
      BY <2>1 DEF CarriedInv
    <3>1. CASE StepAt(writer, i, p)
      BY <2>4, <3>1 DEF CarriedInv
    <3>2. CASE i = n /\ p = StepPlace(c)
      BY <2>4, <2>5, <2>6, <3>2
    <3> QED
      BY <2>4, <3>1, <3>2
  <2> QED
    BY <2>3, <2>7
<1>3. CASE Finish
  <2>1. /\ writer' = WriterAtEnd /\ phase = "halted" /\ phase' \in {"closed", "failed"}
        /\ step_count' = step_count
    BY <1>3 DEF Finish
  <2>2. ShownInv'
    BY <2>1 DEF ShownInv, Recording
  <2>3. /\ \A i, p : StepAt(writer', i, p) <=> StepAt(writer, i, p)
        /\ \A i, p, k : StepAt(writer, i, p) /\ Holds(writer, i, Snapshot(k)) =>
                          Holds(writer', i, Snapshot(k))
    BY <2>1, FinishShows
  <2>4. CarriedInv'
    BY <2>3 DEF CarriedInv
  <2> QED
    BY <2>2, <2>4
<1>4. CASE Advance \/ Halt \/ BeginFails \/ Transact \/ RunFails \/ Done \/ UNCHANGED vars
  <2>1. /\ UNCHANGED <<writer, step_count, prev_line>>
        /\ phase' = "released" => phase = "released" /\ UNCHANGED <<prog, pc>>
        /\ Recording' => Recording
    BY <1>4 DEF Advance, Running, Halt, BeginFails, Transact, RunFails, Done, vars, recVars,
                vmVars, Recording
  <2>2. phase' = "released" => line' = line
    BY <2>1 DEF line
  <2>3. ShownInv'
    BY <2>1, <2>2 DEF ShownInv
  <2> QED
    BY <2>1, <2>3 DEF CarriedInv
<1> QED
  BY <1>1, <1>2, <1>3, <1>4 DEF Next, VM, Recorder

LEMMA SeenInvariant == Spec => []SeenInv
<1>1. Init => SeenInv
  <2> SUFFICES ASSUME Init PROVE ShownInv /\ CarriedInv
    BY BaseInvInit DEF SeenInv
  <2>1. /\ \A i, v : ~Holds(writer, i, v)
        /\ \A i, p : ~StepAt(writer, i, p)
    BY DEF Init, Created, Holds, StepAt
  <2> QED
    BY <2>1 DEF Init, ShownInv, Recording, CarriedInv
<1>2. SeenInv /\ [Next]_vars => SeenInv'
  BY BaseInvStep, SeenInvStep DEF SeenInv
<1> QED
  BY <1>1, <1>2, PTL DEF Spec

(* While an instruction executes the trace shows its line, for every       *)
(* program and source map, whether the step is committed or still pending. *)
THEOREM LineAlwaysShown == Spec => []LineShown
<1>1. SeenInv => LineShown
  <2> SUFFICES ASSUME SeenInv, phase = "released"
               PROVE  Registered[Len(Registered)].line = line
    BY DEF LineShown
  <2>1. Len(writer.steps) \in Nat /\ HasStep(writer)
    BY PositionFacts DEF SeenInv, BaseInv, TypeOK, WT, ShownInv, Recording
  <2> DEFINE n == Len(writer.steps)
             committed == [i \in 1..n |-> writer.steps[i].place]
             shown == {writer.steps[i].place : i \in 1..n} \union {writer.pending}
  <2>2. committed \in Seq(shown) /\ Len(committed) = n /\ writer.pending \in shown
    BY <2>1
  <2>3. Registered[Len(Registered)] = Latest(writer)
    <3>1. CASE writer.pending # None
      <4>1. Registered = committed \o <<writer.pending>>
        BY <3>1 DEF Registered
      <4> HIDE DEF committed, shown
      <4>2. Len(Registered) = n + 1 /\ Registered[n + 1] = writer.pending
        BY <2>1, <2>2, <4>1
      <4> QED BY <3>1, <4>2 DEF Latest
    <3>2. CASE writer.pending = None
      <4>1. Registered = committed \o <<>>
        BY <3>2 DEF Registered
      <4>2. n \in 1..n
        BY <2>1, <3>2 DEF HasStep
      <4>3. committed[n] = writer.steps[n].place
        BY <4>2
      <4> HIDE DEF committed
      <4>4. Registered = committed
        BY <2>2, <4>1
      <4> QED BY <2>2, <3>2, <4>3, <4>4 DEF Latest
    <3> QED BY <3>1, <3>2
  <2>4. line # None
    BY ProgramFacts, PlaceAssumption, MarkAssumption DEF SeenInv, BaseInv, TypeOK, line
  <2> QED
    BY <2>3, <2>4 DEF SeenInv, ShownInv, Recording
<1> QED
  BY <1>1, SeenInvariant, PTL

(* Every committed step carries the registers as they were before the      *)
(* instruction that opened it, for every program and source map.           *)
THEOREM SnapshotAlwaysOnItsStep == Spec => []SnapshotOnItsStep
<1>1. SeenInv => SnapshotOnItsStep
  <2> SUFFICES ASSUME SeenInv, NEW i \in 1..Len(writer.steps), writer.steps[i].place.by > 0
               PROVE  \E j \in 1..Len(writer.steps[i].values) :
                        writer.steps[i].values[j] = Snapshot(writer.steps[i].place.by)
    BY DEF SnapshotOnItsStep
  <2>1. /\ writer.steps \in Seq([place : StepPlaces, values : Seq(Values)])
        /\ Len(writer.steps) \in Nat
    BY DEF SeenInv, BaseInv, TypeOK, WriterType
  <2>2. writer.steps[i].place \in StepPlaces /\ i \in Nat /\ i # Len(writer.steps) + 1
    <3>1. writer.steps[i] \in [place : StepPlaces, values : Seq(Values)]
      BY <2>1, ElementFacts
    <3> QED BY <2>1, <3>1
  <2>3. StepAt(writer, i, writer.steps[i].place)
    BY DEF StepAt
  <2>4. Holds(writer, i, Snapshot(writer.steps[i].place.by))
    BY <2>2, <2>3 DEF SeenInv, CarriedInv
  <2> QED
    BY <2>2, <2>4 DEF Holds
<1> QED
  BY <1>1, SeenInvariant, PTL

------------------------------------------------------------------------------
(* The trace keeps what CallTrace promises.                                *)

(* Where the writer stands after the closure: one frame more, a frame in   *)
(* place of another, or the same frames.                                   *)
LEMMA CallbackMoves ==
  ASSUME BaseInv, phase = "paused"
  PROVE  /\ ~IsFunctionTransition =>
              /\ WriterAt.open = writer.open
              /\ WriterAt.pending = writer.pending \/ WriterAt.pending \in StepPlaces
         /\ IsFunctionTransition =>
              /\ WriterAt.pending = None
              /\ nested_call_depth = 0 => Trace!OneMore(writer.open, WriterAt.open)
              /\ nested_call_depth = 1 =>
                   /\ Len(writer.open) > 1
                   /\ Trace!OneMore(SubSeq(writer.open, 1, Len(writer.open) - 1),
                                    WriterAt.open)
<1>1. /\ writer \in WT /\ W1 \in WT /\ W2 \in WT
      /\ W2 = RegisterValues(W1, NewValues) /\ NewValues \in Seq(Values)
      /\ W2.open = writer.open
      /\ StepPlace(step_count + 1) \in StepPlaces
      /\ WriterAt = Crossed(W2)
      /\ nested_calls_seen + 1 \in FunctionName
      /\ writer.open \in Seq(FunctionName) /\ Len(writer.open) = 1 + nested_call_depth
      /\ nested_call_depth \in 0..1
  BY SteppedFacts, ValuesFacts
  DEF BaseInv, TypeOK, CallsBalanced, Recording, WT, WriterAt, W1, W2, FunctionName, WriterType
<1>2. W2.pending = W1.pending
  BY <1>1, RegisterValuesFacts DEF WT
<1>3. W1.pending = writer.pending \/ W1.pending \in StepPlaces
  <2>1. CASE prev_line # line
    BY <1>1, <2>1, RegisterStepFacts DEF W1, Stepped, WT
  <2>2. CASE prev_line = line
    BY <2>2 DEF W1, Stepped
  <2> QED
    BY <2>1, <2>2
<1>4. CASE ~IsFunctionTransition
  BY <1>1, <1>2, <1>3, <1>4 DEF Crossed
<1>5. CASE IsFunctionTransition
  <2> DEFINE n == IF nested_call_depth > 0 THEN 1 ELSE 0
             kept == SubSeq(writer.open, 1, Len(writer.open) - n)
             r == RegisterReturns(W2, n)
             fn == nested_calls_seen + 1
  <2>1. WriterAt = RegisterCall(r, fn) /\ fn \in FunctionName
    BY <1>1, <1>5 DEF Crossed
  <2>2. n \in 0..Len(W2.open)
    BY <1>1
  <2>3. n = nested_call_depth
    BY <1>1
  <2> HIDE DEF n, fn
  <2>a. W2 \in WT /\ W2.open = writer.open
    BY <1>1
  <2>b. r \in WT /\ r.open = SubSeq(W2.open, 1, Len(W2.open) - n)
    BY <2>2, <2>a, WriterFacts
  <2>4. r \in WT /\ r.open = kept
    BY <2>a, <2>b
  <2> HIDE DEF r, kept
  <2>5. WriterAt.open = Append(kept, fn) /\ WriterAt.pending = None
    <3>1. /\ RegisterCall(r, fn).open = Append(r.open, fn)
          /\ RegisterCall(r, fn).pending = None
      BY <2>1, <2>4, RegisterCallFacts DEF WT
    <3> QED BY <2>1, <2>4, <3>1
  <2>6. kept \in Seq(FunctionName)
    BY <2>4, WriterFacts
  <2>7. Trace!OneMore(kept, Append(kept, fn))
    <3>1. /\ Len(Append(kept, fn)) = Len(kept) + 1
          /\ SubSeq(Append(kept, fn), 1, Len(kept)) = kept
          /\ Append(kept, fn)[Len(Append(kept, fn))] = fn
      BY <2>1, <2>6
    <3> QED BY <2>1, <3>1 DEF Trace!OneMore
  <2>8. nested_call_depth = 0 => kept = writer.open
    BY <1>1, <2>3 DEF kept
  <2>9. nested_call_depth = 1 =>
          kept = SubSeq(writer.open, 1, Len(writer.open) - 1) /\ Len(writer.open) > 1
    BY <1>1, <2>3 DEF kept
  <2> QED
    BY <1>5, <2>5, <2>7, <2>8, <2>9
<1> QED
  BY <1>4, <1>5

(* Each step of the recorder is a step of CallTrace, or is invisible. *)
LEMMA StepIsTraceStep ==
  ASSUME BaseInv, [Next]_vars
  PROVE  [Trace!Next]_(Trace!vars)
<1> DEFINE status == CASE phase = "idle" -> "unopened"
                       [] phase = "closed" -> "closed"
                       [] phase = "failed" -> "abandoned"
                       [] OTHER -> "recording"
<1>a. /\ phase = "idle" => status = "unopened"
      /\ Recording => status = "recording"
      /\ phase' = "closed" => status' = "closed"
      /\ phase' = "failed" => status' = "abandoned"
      /\ Recording' => status' = "recording"
  BY DEF Recording
<1>b. phase' = phase => status' = status
  OBVIOUS
<1>c. /\ Trace!vars = <<writer.open, writer.pending, status>>
      /\ Trace!vars' = <<writer'.open, writer'.pending, status'>>
  BY Zenon DEF Trace!vars
<1> HIDE DEF status
<1>1. CASE Begin
  <2> DEFINE entry == [path |-> SourcePath, line |-> 1, by |-> 0]
  <2>1. /\ status = "unopened" /\ status' = "recording"
        /\ writer'.open = <<Toplevel>> /\ writer'.pending = entry
    BY <1>1, <1>a DEF Begin, Start, Recording
  <2>2. entry \in StepPlaces
    BY PlaceAssumption DEF StepPlaces
  <2> QED
    BY <2>1, <2>2 DEF Trace!Next, Trace!Open, status
<1>2. CASE Callback
  <2>1. status = "recording" /\ status' = "recording" /\ writer' = WriterAt /\ phase = "paused"
    BY <1>2, <1>a DEF Callback, Recording
  <2>2. writer.pending \in StepPlaces \union {None} /\ nested_call_depth \in 0..1
    BY DEF BaseInv, TypeOK, WriterType
  <2>3. CASE ~IsFunctionTransition /\ WriterAt.pending = writer.pending
    BY <1>c, <2>1, <2>3, CallbackMoves
  <2>4. CASE ~IsFunctionTransition /\ WriterAt.pending # writer.pending
    <3>1. WriterAt.open = writer.open /\ WriterAt.pending \in StepPlaces
      BY <2>1, <2>4, CallbackMoves
    <3> QED
      BY <2>1, <3>1 DEF Trace!Next, Trace!Move, status
  <2>5. CASE IsFunctionTransition /\ nested_call_depth = 0
    <3>1. WriterAt.pending = None /\ Trace!OneMore(writer.open, WriterAt.open)
      BY <2>1, <2>5, CallbackMoves
    <3> QED
      BY <2>1, <3>1 DEF Trace!Next, Trace!Enter, Trace!Positions, status
  <2>6. CASE IsFunctionTransition /\ nested_call_depth = 1
    <3>1. /\ WriterAt.pending = None /\ Len(writer.open) > 1
          /\ Trace!OneMore(SubSeq(writer.open, 1, Len(writer.open) - 1), WriterAt.open)
      BY <2>1, <2>6, CallbackMoves
    <3> QED
      BY <2>1, <3>1 DEF Trace!Next, Trace!Sibling, Trace!Positions, status
  <2>7. nested_call_depth = 0 \/ nested_call_depth = 1
    BY <2>2
  <2> QED
    BY <2>3, <2>4, <2>5, <2>6, <2>7
<1>3. CASE Finish
  <2>1. /\ status = "recording" /\ status' \in {"closed", "abandoned"}
        /\ writer' = WriterAtEnd /\ phase = "halted"
    BY <1>3, <1>a DEF Finish, Recording
  <2>2. WriterAtEnd.open = <<>> /\ WriterAtEnd.pending = None
    BY <2>1, FinishFacts
  <2> QED
    BY <2>1, <2>2 DEF Trace!Next, Trace!Close, Trace!Abandon, status
<1>4. CASE BeginFails \/ RunFails
  <2>1. /\ status \in {"unopened", "recording"} /\ status' = "abandoned"
        /\ writer' = writer
    BY <1>4, <1>a DEF BeginFails, RunFails, recVars, Recording
  <2> QED
    BY <2>1 DEF Trace!Next, Trace!Abandon, status
<1>5. CASE Advance \/ Halt \/ Transact
  <2>1. Recording /\ Recording' /\ writer' = writer
    BY <1>5 DEF Advance, Running, Halt, Transact, recVars, Recording
  <2> QED
    BY <1>a, <1>c, <2>1
<1>6. CASE Done \/ UNCHANGED vars
  BY <1>6, <1>b, <1>c DEF Done, vars, recVars
<1> QED
  BY <1>1, <1>2, <1>3, <1>4, <1>5, <1>6 DEF Next, VM, Recorder

(* The instruction-level trace of every program nests its calls, enters or *)
(* leaves one frame at a time and closes each exactly once.                *)
THEOREM Implements == Spec => ImplementsCallTrace
<1>1. Init => Trace!Init
  BY DEF Init, Created, Trace!Init
<1>2. BaseInv /\ [Next]_vars => [Trace!Next]_(Trace!vars)
  BY StepIsTraceStep
<1> QED
  BY <1>1, <1>2, BaseInvariant, PTL DEF Spec, ImplementsCallTrace, Trace!Spec

------------------------------------------------------------------------------
(* The events.                                                             *)

EventType == [kind : ReceiptKinds \union {"Storage"}, by : Nat]

MirroredKinds == Logs \union Traps

InOrder(es) ==
  \A i, j \in 1..Len(es) :
    i < j => \/ es[i].by < es[j].by
             \/ es[i].by = es[j].by /\ es[j].kind \in Traps

(* Which events there are, and which receipts wait to become events: at a  *)
(* breakpoint the log of the instruction that has just run, at the end the *)
(* two that ended the program.  An event of the instruction about to run   *)
(* is a storage access, and no log can follow it.                          *)
OrderInv ==
  /\ events \in Seq(EventType)
  /\ EventsInExecutionOrder
  /\ ReceiptsMirroredOnce
  /\ phase \in {"idle", "begun"} => receipts = <<>> /\ events = <<>>
  /\ phase \in {"idle", "begun", "paused", "released"} =>
       \A i \in 1..Len(receipts) : receipts[i].kind \in Logs
  /\ phase = "paused" =>
       /\ \A i \in 1..Len(events) : events[i].by < step_count
       /\ Len(receipts) <= seen + 1
       /\ Len(receipts) = seen + 1 => receipts[seen + 1].by = step_count
  /\ phase = "released" =>
       /\ Len(receipts) = seen
       /\ \A i \in 1..Len(events) :
            \/ events[i].by < step_count
            \/ events[i].by = step_count /\ prog.op[pc] = "storage"
  /\ phase = "halted" =>
       /\ \A i \in 1..Len(events) : events[i].by <= step_count
       /\ Len(receipts) = seen + 2
       /\ receipts[seen + 1].kind \in Returns \union Traps
       /\ receipts[seen + 1].by = step_count
       /\ receipts[seen + 2].kind = "ScriptResult"

(* One event more keeps the order when it is no earlier than the others. *)
LEMMA OrderExtends ==
  ASSUME NEW es \in Seq(EventType), InOrder(es), NEW e \in EventType,
         \A i \in 1..Len(es) : es[i].by < e.by \/ (es[i].by = e.by /\ e.kind \in Traps)
  PROVE  InOrder(Append(es, e)) /\ Append(es, e) \in Seq(EventType)
<1>1. /\ Len(es) \in Nat /\ Len(Append(es, e)) = Len(es) + 1
      /\ Append(es, e)[Len(es) + 1] = e
      /\ \A i \in 1..Len(es) : Append(es, e)[i] = es[i]
      /\ Append(es, e) \in Seq(EventType)
  OBVIOUS
<1>3. \A k, l \in 1..Len(es) :
        k < l => es[k].by < es[l].by \/ (es[k].by = es[l].by /\ es[l].kind \in Traps)
  BY DEF InOrder
<1> DEFINE s == Append(es, e)
           n == Len(es)
<1> HIDE DEF s, n
<1>2. ASSUME NEW i \in 1..(n + 1), NEW j \in 1..(n + 1), i < j
      PROVE  s[i].by < s[j].by \/ (s[i].by = s[j].by /\ s[j].kind \in Traps)
  <2>1. i \in 1..n /\ s[i] = es[i]
    BY <1>1, <1>2 DEF s, n
  <2>2. CASE j = n + 1
    BY <1>1, <2>1, <2>2 DEF s, n
  <2>3. CASE j # n + 1
    <3>1. j \in 1..n /\ s[j] = es[j]
      BY <1>1, <2>3 DEF s, n
    <3>2. i \in 1..Len(es) /\ j \in 1..Len(es)
      BY <2>1, <3>1 DEF n
    <3>4. es[i].by < es[j].by \/ (es[i].by = es[j].by /\ es[j].kind \in Traps)
      BY <1>2, <1>3, <3>2
    <3> QED
      BY <2>1, <3>1, <3>4
  <2> QED
    BY <2>2, <2>3
<1> QED
  BY <1>1, <1>2 DEF InOrder, s, n

(* A receipt is an event. *)
LEMMA ReceiptIsEvent == ReceiptType \subseteq EventType
BY DEF ReceiptType, EventType

(* The closure appends the log of the last instruction, if there was one,  *)
(* and the storage access of the next, if it is one.                       *)
LEMMA CallbackOrder ==
  ASSUME BaseInv, OrderInv, phase = "paused"
  PROVE  /\ events \o EventsAt \in Seq(EventType)
         /\ InOrder(events \o EventsAt)
         /\ Only(events \o EventsAt, ReceiptType)
              = Only(SubSeq(receipts, 1, Len(receipts)), OfKind(MirroredKinds))
         /\ \A i \in 1..Len(events \o EventsAt) :
              \/ (events \o EventsAt)[i].by < step_count + 1
              \/ (events \o EventsAt)[i].by = step_count + 1 /\ prog.op[pc] = "storage"
<1> DEFINE T == OfKind(ReceiptKinds \ Returns)
           x == Only(Unseen, T)
           st == StorageEvents
           ev == [kind |-> "Storage", by |-> step_count + 1]
<1>1. /\ receipts \in Seq(ReceiptType) /\ Len(receipts) \in Nat
      /\ seen \in 0..Len(receipts) /\ step_count \in Nat
      /\ \A i \in 1..Len(receipts) : receipts[i] \in ReceiptType
  BY ElementFacts DEF BaseInv, TypeOK, ReceiptType
<1>2. /\ Unseen \in Seq(ReceiptType)
      /\ Len(Unseen) = Len(receipts) - seen
      /\ \A i \in 1..(Len(receipts) - seen) : Unseen[i] = receipts[seen + i]
  BY <1>1, SplitFacts DEF Unseen
<1>3. Len(Unseen) <= 1 /\ (Len(Unseen) = 1 => Unseen[1] = receipts[seen + 1] /\ Unseen[1].by = step_count)
  BY <1>1, <1>2 DEF OrderInv
<1>4. x = <<>> \/ (x = <<Unseen[1]>> /\ Unseen[1] \in ReceiptType /\ Unseen[1].by = step_count)
  <2>1. x = <<>> \/ (Len(Unseen) = 1 /\ Unseen[1] \in T /\ x = <<Unseen[1]>>)
    <3>1. Unseen \in Seq(ReceiptType) /\ Len(Unseen) <= 1
      BY <1>2, <1>3
    <3> HIDE DEF T
    <3> QED BY <3>1, SelectsOne
  <2>2. Unseen \in Seq(ReceiptType) /\ (Len(Unseen) = 1 => 1 \in 1..Len(Unseen))
    BY <1>2
  <2>3. Len(Unseen) = 1 => Unseen[1] \in ReceiptType
    <3> HIDE DEF T, x, st, ev
    <3> QED BY ONLY <2>2, ElementFacts
  <2> QED
    BY <1>3, <2>1, <2>3
<1>5. EventsAt = x \o st
  BY DEF EventsAt, Mirrored
<1>6. ev \in EventType /\ ev \notin ReceiptType /\ ev.by = step_count + 1
  BY <1>1 DEF EventType, ReceiptType, ReceiptKinds, Returns, Traps, Logs
<1>7. st = <<>> \/ (st = <<ev>> /\ prog.op[pc] = "storage")
  BY DEF StorageEvents
<1>8. st \in Seq(EventType) /\ Only(st, ReceiptType) = <<>>
  <2> HIDE DEF st, ev
  <2>1. Only(<<>>, ReceiptType) = <<>> /\ Only(<<ev>>, ReceiptType) = <<>>
    BY <1>6, OnlyEmpty, OnlyOne
  <2>2. CASE st = <<>>
    BY <2>1, <2>2
  <2>3. CASE st = <<ev>>
    <3>1. <<ev>> \in Seq(EventType)
      BY <1>6
    <3> QED
      BY <2>1, <2>3, <3>1
  <2> QED
    BY <1>7, <2>2, <2>3
<1>9. x \in Seq(ReceiptType)
  <2>1. CASE x = <<>>
    BY <2>1
  <2>2. CASE x = <<Unseen[1]>> /\ Unseen[1] \in ReceiptType
    <3>1. <<Unseen[1]>> \in Seq(ReceiptType)
      BY <2>2
    <3> QED BY <2>2, <3>1, Zenon
  <2> QED
    BY <1>4, <2>1, <2>2
<1>10. /\ events \in Seq(EventType) /\ InOrder(events)
       /\ \A i \in 1..Len(events) : events[i].by < step_count
       /\ Only(events, ReceiptType) = Only(SubSeq(receipts, 1, seen), OfKind(MirroredKinds))
  BY DEF OrderInv, EventsInExecutionOrder, InOrder, ReceiptsMirroredOnce, ReceiptType,
         OfKind, MirroredKinds
<1>11. \A i \in 1..Len(receipts) :
         receipts[i] \in T <=> receipts[i] \in OfKind(MirroredKinds)
  <2>1. \A i \in 1..Len(receipts) : receipts[i].kind \in Logs
    BY DEF OrderInv
  <2> QED
    BY <1>1, <2>1 DEF OfKind, ReceiptType, ReceiptKinds, MirroredKinds, Returns, Traps, Logs
<1> HIDE DEF x, st, ev, T
<1>12. /\ events \o EventsAt = (events \o x) \o st
       /\ Only(events \o EventsAt, ReceiptType) = Only(events, ReceiptType) \o x
  <2>1. Only(x, ReceiptType) = x /\ x \in Seq(EventType)
    BY <1>9, ReceiptIsEvent, OnlyAll, SeqMonotonic
  <2>2. events \o (x \o st) = (events \o x) \o st
    <3>1. events \in Seq(EventType) /\ x \in Seq(EventType) /\ st \in Seq(EventType)
      BY <1>8, <1>10, <2>1
    <3>2. \A s, t, u \in Seq(EventType) : (s \o t) \o u = s \o (t \o u)
      OBVIOUS
    <3> QED
      BY ONLY <3>1, <3>2, Zenon
  <2>3. Only((events \o x) \o st, ReceiptType) = Only(events, ReceiptType) \o x
    <3>1. /\ events \in Seq(EventType) /\ x \in Seq(EventType) /\ st \in Seq(EventType)
          /\ Only(x, ReceiptType) = x /\ Only(st, ReceiptType) = <<>>
      BY <1>8, <1>10, <2>1
    <3> QED
      BY ONLY <3>1, OnlyMiddle
  <2> QED
    BY <1>5, <2>2, <2>3, Zenon
<1>13. Only(events \o EventsAt, ReceiptType)
         = Only(SubSeq(receipts, 1, Len(receipts)), OfKind(MirroredKinds))
  <2>1. Only(SubSeq(receipts, 1, seen), OfKind(MirroredKinds))
          \o Only(SubSeq(receipts, seen + 1, Len(receipts)), T)
        = Only(SubSeq(receipts, 1, Len(receipts)), OfKind(MirroredKinds))
    BY <1>1, <1>11, OnlySplit
  <2> QED
    BY <1>10, <1>12, <2>1 DEF x, Unseen
<1> DEFINE m == events \o x
<1>14. /\ m \in Seq(EventType) /\ InOrder(m)
       /\ \A i \in 1..Len(m) : m[i].by < step_count + 1
  <2>1. CASE x = <<>>
    <3>1. m = events
      BY <1>6, <1>10, <2>1, GrowFacts
    <3>2. \A i \in 1..Len(events) : events[i] \in EventType
      BY <1>10, ElementFacts
    <3> HIDE DEF m
    <3> QED
      BY <1>1, <1>10, <3>1, <3>2 DEF EventType
  <2>2. CASE x = <<Unseen[1]>> /\ Unseen[1] \in ReceiptType /\ Unseen[1].by = step_count
    <3> DEFINE r == Unseen[1]
    <3>1. r \in EventType /\ r.by = step_count
      BY <2>2 DEF ReceiptType, EventType
    <3> HIDE DEF r
    <3>2. m = Append(events, r)
      <4>1. Append(events, r) = events \o <<r>>
        BY <1>10, <3>1, GrowFacts
      <4> QED
        BY <2>2, <4>1 DEF r
    <3> HIDE DEF m
    <3>3. m \in Seq(EventType) /\ InOrder(m)
      <4>1. \A i \in 1..Len(events) :
              events[i].by < r.by \/ (events[i].by = r.by /\ r.kind \in Traps)
        BY <1>10, <3>1
      <4> QED BY <1>10, <3>1, <3>2, <4>1, OrderExtends
    <3>4. /\ m[Len(events) + 1] = r
          /\ \A i \in 1..Len(events) : m[i] = events[i]
          /\ \A i \in 1..Len(m) : i \in 1..Len(events) \/ i = Len(events) + 1
      BY <1>10, <3>1, <3>2, GrowFacts
    <3>5. ASSUME NEW i \in 1..Len(m) PROVE m[i].by < step_count + 1
      <4>1. i \in 1..Len(events) \/ i = Len(events) + 1
        BY <3>4
      <4>2. \A j \in 1..Len(events) : events[j].by \in Nat
        <5>1. \A j \in 1..Len(events) : events[j] \in EventType
          BY <1>10, ElementFacts
        <5> QED BY <5>1 DEF EventType
      <4> QED
        BY <1>1, <1>10, <3>1, <3>4, <4>1, <4>2
    <3> QED
      BY <3>3, <3>5
  <2> QED
    BY <1>4, <2>1, <2>2
<1>15. CASE st = <<>>
  <2>1. m \o st = m
    <3> HIDE DEF m
    <3> QED BY <1>6, <1>14, <1>15, GrowFacts
  <2> QED
    BY <1>12, <1>13, <1>14, <2>1
<1>16. CASE st = <<ev>> /\ prog.op[pc] = "storage"
  <2> HIDE DEF m
  <2>1. m \o st = Append(m, ev)
    <3>1. Append(m, ev) = m \o <<ev>>
      BY <1>6, <1>14, GrowFacts
    <3> QED
      BY <1>16, <3>1, Zenon
  <2>2. Append(m, ev) \in Seq(EventType) /\ InOrder(Append(m, ev))
    BY <1>6, <1>14, OrderExtends
  <2>3. /\ Append(m, ev)[Len(m) + 1] = ev
        /\ \A i \in 1..Len(m) : Append(m, ev)[i] = m[i]
        /\ \A i \in 1..Len(Append(m, ev)) : i \in 1..Len(m) \/ i = Len(m) + 1
    BY <1>6, <1>14, GrowFacts
  <2>4. ASSUME NEW i \in 1..Len(Append(m, ev))
        PROVE  Append(m, ev)[i].by < step_count + 1 \/ Append(m, ev)[i].by = step_count + 1
    <3>1. i \in 1..Len(m) \/ i = Len(m) + 1
      BY <2>3
    <3> QED
      BY <1>6, <1>14, <2>3, <3>1
  <2>5. events \o EventsAt = Append(m, ev)
    BY <1>12, <2>1 DEF m
  <2> QED
    BY <1>13, <1>16, <2>2, <2>4, <2>5
<1> QED
  BY <1>7, <1>15, <1>16

(* Appending nothing or one event. *)
LEMMA OrderKept ==
  ASSUME NEW es \in Seq(EventType), InOrder(es), NEW x, NEW r \in EventType, NEW n \in Nat,
         \A i \in 1..Len(es) : es[i].by <= n,
         x = <<>> \/ (x = <<r>> /\ r.by = n /\ r.kind \in Traps)
  PROVE  es \o x \in Seq(EventType) /\ InOrder(es \o x)
<1>1. CASE x = <<>>
  <2>1. es \o <<>> = es
    BY GrowFacts
  <2> QED
    BY <1>1, <2>1, Zenon
<1>2. CASE x = <<r>> /\ r.by = n /\ r.kind \in Traps
  <2>1. es \o <<r>> = Append(es, r)
    BY GrowFacts
  <2>2. \A i \in 1..Len(es) :
          es[i].by < r.by \/ (es[i].by = r.by /\ r.kind \in Traps)
    <3>1. \A i \in 1..Len(es) : es[i].by \in Nat
      <4>1. \A i \in 1..Len(es) : es[i] \in EventType
        BY ElementFacts
      <4> QED BY <4>1 DEF EventType
    <3> QED
      BY <1>2, <3>1
  <2>3. Append(es, r) \in Seq(EventType) /\ InOrder(Append(es, r))
    BY <2>2, OrderExtends
  <2> QED
    BY <1>2, <2>1, <2>3, Zenon
<1> QED
  BY <1>1, <1>2

(* At the end a trap becomes an event, a return and the result do not. *)
LEMMA FinishOrder ==
  ASSUME BaseInv, OrderInv, phase = "halted"
  PROVE  /\ events \o Drained(Unseen) \in Seq(EventType)
         /\ InOrder(events \o Drained(Unseen))
         /\ Only(events \o Drained(Unseen), ReceiptType)
              = Only(SubSeq(receipts, 1, Len(receipts)), OfKind(MirroredKinds))
<1> DEFINE T == OfKind(ReceiptKinds \ (Returns \union {"ScriptResult"}))
           x == Only(Unseen, T)
           r == Unseen[1]
<1>1. /\ receipts \in Seq(ReceiptType) /\ Len(receipts) \in Nat
      /\ seen \in 0..Len(receipts) /\ step_count \in Nat
  BY ElementFacts DEF BaseInv, TypeOK, ReceiptType
<1>2. /\ Unseen \in Seq(ReceiptType)
      /\ Len(Unseen) = Len(receipts) - seen
      /\ \A i \in 1..(Len(receipts) - seen) : Unseen[i] = receipts[seen + i]
  BY <1>1, SplitFacts DEF Unseen
<1>3. /\ Len(Unseen) = 2 /\ r = receipts[seen + 1] /\ Unseen[2].kind = "ScriptResult"
      /\ r.by = step_count
  BY <1>1, <1>2 DEF OrderInv
<1>4. r \in ReceiptType /\ r \in EventType
  <2>1. \A i \in 1..Len(Unseen) : Unseen[i] \in ReceiptType
    BY <1>2, ElementFacts
  <2> QED
    BY <1>3, <2>1, ReceiptIsEvent
<1>5. T = OfKind(MirroredKinds)
  BY DEF OfKind, MirroredKinds, ReceiptKinds, Returns, Traps, Logs
<1>6. r \in T => r.kind \in Traps
  BY <1>1, <1>3 DEF OrderInv, OfKind, ReceiptKinds, Returns, Traps
<1>7. x = <<>> \/ (x = <<r>> /\ r.by = step_count /\ r.kind \in Traps)
  <2>1. Unseen[2] \notin T
    BY <1>3 DEF OfKind
  <2>2. x = IF r \in T THEN <<r>> ELSE <<>>
    <3>1. Unseen \in Seq(ReceiptType) /\ Len(Unseen) = 2
      BY <1>2, <1>3
    <3> HIDE DEF T
    <3> QED BY <2>1, <3>1, SelectsFirst
  <2> QED
    BY <1>3, <1>6, <2>2
<1>8. x \in Seq(ReceiptType)
  <2>1. <<r>> \in Seq(ReceiptType)
    BY <1>4
  <2> HIDE DEF x, r
  <2>2. CASE x = <<>>
    BY <2>2
  <2>3. CASE x = <<r>>
    BY <2>1, <2>3, Zenon
  <2> QED
    BY <1>7, <2>2, <2>3
<1>9. /\ events \in Seq(EventType) /\ InOrder(events)
      /\ \A i \in 1..Len(events) : events[i].by <= step_count
      /\ Only(events, ReceiptType) = Only(SubSeq(receipts, 1, seen), OfKind(MirroredKinds))
  BY DEF OrderInv, EventsInExecutionOrder, InOrder, ReceiptsMirroredOnce, ReceiptType,
         OfKind, MirroredKinds
<1>10. Drained(Unseen) = x
  BY DEF Drained
<1> HIDE DEF x, r
<1>11. events \o x \in Seq(EventType) /\ InOrder(events \o x)
  BY <1>1, <1>4, <1>7, <1>9, OrderKept
<1>12. Only(events \o x, ReceiptType) = Only(events, ReceiptType) \o x
  <2>1. x \in Seq(EventType) /\ events \in Seq(EventType)
    BY <1>8, <1>9, ReceiptIsEvent, SeqMonotonic
  <2>2. Only(events \o x, ReceiptType) = Only(events, ReceiptType) \o Only(x, ReceiptType)
    BY ONLY <2>1, OnlyOfConcat, Zenon
  <2>3. Only(x, ReceiptType) = x
    BY <1>8, OnlyAll
  <2> QED
    BY <2>2, <2>3, Zenon
<1>13. Only(SubSeq(receipts, 1, seen), OfKind(MirroredKinds))
         \o Only(SubSeq(receipts, seen + 1, Len(receipts)), T)
       = Only(SubSeq(receipts, 1, Len(receipts)), OfKind(MirroredKinds))
  <2>1. \A i \in 1..Len(receipts) :
          receipts[i] \in T <=> receipts[i] \in OfKind(MirroredKinds)
    BY <1>5
  <2>2. receipts \in Seq(ReceiptType) /\ seen \in 0..Len(receipts)
    BY <1>1
  <2> DEFINE U == OfKind(MirroredKinds)
  <2> HIDE DEF T, U
  <2>3. \A i \in 1..Len(receipts) : receipts[i] \in T <=> receipts[i] \in U
    BY <2>1 DEF U
  <2>4. Only(SubSeq(receipts, 1, seen), U) \o Only(SubSeq(receipts, seen + 1, Len(receipts)), T)
          = Only(SubSeq(receipts, 1, Len(receipts)), U)
    BY ONLY <2>2, <2>3, OnlySplit, SMTT(60)
  <2> QED
    BY <2>4 DEF U
<1> QED
  BY <1>9, <1>10, <1>11, <1>12, <1>13 DEF x, Unseen

(* The VM appends: what the recorder has mirrored stays as it was. *)
LEMMA MirrorKept ==
  ASSUME BaseInv, OrderInv, NEW rs \in Seq(ReceiptType), receipts' = receipts \o rs,
         seen' = seen, events' = events, phase' # "closed"
  PROVE  ReceiptsMirroredOnce'
<1>1. receipts \in Seq(ReceiptType) /\ seen \in 0..Len(receipts)
  BY DEF BaseInv, TypeOK, ReceiptType
<1>2. SubSeq(receipts \o rs, 1, seen) = SubSeq(receipts, 1, seen)
  BY <1>1, PrefixKept
<1>3. SubSeq(receipts', 1, seen') = SubSeq(receipts, 1, seen)
  BY <1>2, Zenon
<1> DEFINE k == OfKind(Logs \union Traps)
           all == OfKind(ReceiptKinds)
<1>4. Only(events, all) = Only(SubSeq(receipts, 1, seen), k)
  BY DEF OrderInv, ReceiptsMirroredOnce
<1> HIDE DEF k, all
<1>5. Only(events', all) = Only(SubSeq(receipts', 1, seen'), k)
  BY <1>3, <1>4, Zenon
<1> QED
  BY <1>5 DEF ReceiptsMirroredOnce, k, all

(* An instruction appends at most its own log. *)
LEMMA AdvanceReceipts ==
  ASSUME BaseInv, OrderInv, Advance
  PROVE  /\ \E rs \in Seq(ReceiptType) : receipts' = receipts \o rs
         /\ \/ receipts' = receipts
            \/ \E e \in ReceiptType :
                 /\ e.kind \in Logs /\ e.by = step_count
                 /\ receipts' = Append(receipts, e)
<1>1. receipts \in Seq(ReceiptType) /\ step_count \in Nat
  BY DEF BaseInv, TypeOK, ReceiptType
<1>2. ASSUME NEW k \in Logs
      PROVE  Receipt(k) \in ReceiptType /\ Receipt(k).kind = k /\ Receipt(k).by = step_count
  BY <1>1 DEF Receipt, ReceiptType, ReceiptKinds
<1>3. (\E k \in Logs : receipts' = Append(receipts, Receipt(k))) \/ receipts' = receipts
  BY DEF Advance, Logs
<1>4. \/ receipts' = receipts
      \/ \E e \in ReceiptType :
           /\ e.kind \in Logs /\ e.by = step_count
           /\ receipts' = Append(receipts, e)
  BY <1>2, <1>3
<1>5. \E rs \in Seq(ReceiptType) : receipts' = receipts \o rs
  <2>1. CASE receipts' = receipts
    <3>1. receipts \o <<>> = receipts /\ <<>> \in Seq(ReceiptType)
      BY <1>1, ConcatEmptySeq
    <3> QED
      BY <2>1, <3>1
  <2>2. ASSUME NEW e \in ReceiptType, receipts' = Append(receipts, e)
        PROVE  \E rs \in Seq(ReceiptType) : receipts' = receipts \o rs
    <3>1. Append(receipts, e) = receipts \o <<e>> /\ <<e>> \in Seq(ReceiptType)
      BY <1>1, AppendIsConcat
    <3> QED
      BY <2>2, <3>1
  <2> QED
    BY <1>4, <2>1, <2>2
<1> QED
  BY <1>4, <1>5

(* The program's end appends its last receipt and the script's result. *)
LEMMA HaltReceipts ==
  ASSUME BaseInv, OrderInv, Halt
  PROVE  /\ \E rs \in Seq(ReceiptType) : receipts' = receipts \o rs
         /\ Len(receipts') = seen + 2
         /\ receipts'[seen + 1].kind \in Returns \union Traps
         /\ receipts'[seen + 1].by = step_count
         /\ receipts'[seen + 2].kind = "ScriptResult"
<1>1. /\ receipts \in Seq(ReceiptType) /\ step_count \in Nat /\ Len(receipts) \in Nat
      /\ Len(receipts) = seen
  BY ElementFacts DEF BaseInv, TypeOK, ReceiptType, OrderInv, Halt
<1>2. PICK k \in Returns \union Traps :
        receipts' = receipts \o <<Receipt(k), Receipt("ScriptResult")>>
  BY DEF Halt
<1> DEFINE a == Receipt(k)
           b == Receipt("ScriptResult")
           rs == <<a, b>>
<1>3. /\ a \in ReceiptType /\ a.kind = k /\ a.by = step_count
      /\ b \in ReceiptType /\ b.kind = "ScriptResult"
  BY <1>1 DEF Receipt, ReceiptType, ReceiptKinds
<1> HIDE DEF a, b
<1>4. rs \in Seq(ReceiptType) /\ Len(rs) = 2 /\ rs[1] = a /\ rs[2] = b
  BY <1>3
<1>5. receipts' = receipts \o rs
  BY <1>2 DEF a, b
<1> HIDE DEF rs
<1>6. /\ Len(receipts \o rs) = Len(receipts) + 2
      /\ (receipts \o rs)[Len(receipts) + 1] = rs[1]
      /\ (receipts \o rs)[Len(receipts) + 2] = rs[2]
  <2> DEFINE n == Len(receipts)
             c == receipts \o rs
  <2>1. /\ Len(c) = n + Len(rs)
        /\ \A i \in 1..(n + Len(rs)) : c[i] = IF i <= n THEN receipts[i] ELSE rs[i - n]
    BY <1>1, <1>4, ConcatProperties
  <2>2. n \in Nat
    BY <1>1
  <2> HIDE DEF n, c
  <2>3. Len(c) = n + 2 /\ c[n + 1] = rs[1] /\ c[n + 2] = rs[2]
    <3>1. /\ n + 1 \in 1..(n + 2) /\ ~(n + 1 <= n) /\ (n + 1) - n = 1
          /\ n + 2 \in 1..(n + 2) /\ ~(n + 2 <= n) /\ (n + 2) - n = 2
      BY <2>2
    <3> QED
      BY <1>4, <2>1, <3>1
  <2> QED
    BY <2>3 DEF n, c
<1> QED
  BY <1>1, <1>3, <1>4, <1>5, <1>6

LEMMA OrderInvStep == BaseInv /\ OrderInv /\ [Next]_vars => OrderInv'
<1> SUFFICES ASSUME BaseInv, OrderInv, [Next]_vars
             PROVE  OrderInv'
  OBVIOUS
<1>a. /\ receipts \in Seq(ReceiptType) /\ Len(receipts) \in Nat
      /\ seen \in 0..Len(receipts) /\ step_count \in Nat
  BY ElementFacts DEF BaseInv, TypeOK, ReceiptType
<1>b. /\ events \in Seq(EventType)
      /\ \A i \in 1..Len(events) : events[i].by \in Nat
  <2>1. events \in Seq(EventType)
    BY DEF OrderInv
  <2>2. \A i \in 1..Len(events) : events[i] \in EventType
    BY <2>1, ElementFacts
  <2> QED
    BY <2>1, <2>2 DEF EventType
<1>1. CASE Advance
  <2>1. /\ phase = "released" /\ phase' = "paused"
        /\ UNCHANGED <<prog, step_count, seen, events>>
        /\ prog.op[pc] # "storage"
    BY <1>1 DEF Advance, Running, recVars
  <2>2. ReceiptsMirroredOnce'
    BY <1>1, <2>1, AdvanceReceipts, MirrorKept
  <2>3. \A i \in 1..Len(events) : events[i].by < step_count
    BY <2>1 DEF OrderInv
  <2>4. /\ Len(receipts) = seen
        /\ \A i \in 1..Len(receipts) : receipts[i].kind \in Logs
    BY <2>1 DEF OrderInv
  <2>5. /\ \A i \in 1..Len(receipts') : receipts'[i].kind \in Logs
        /\ Len(receipts') <= seen + 1
        /\ Len(receipts') = seen + 1 => receipts'[seen + 1].by = step_count
    <3>1. CASE receipts' = receipts
      BY <1>a, <2>4, <3>1
    <3>2. ASSUME NEW e \in ReceiptType, e.kind \in Logs, e.by = step_count,
                 receipts' = Append(receipts, e)
          PROVE  <2>5
      <4>1. /\ Len(Append(receipts, e)) = Len(receipts) + 1
            /\ Append(receipts, e)[Len(receipts) + 1] = e
            /\ \A i \in 1..Len(receipts) : Append(receipts, e)[i] = receipts[i]
            /\ \A i \in 1..Len(Append(receipts, e)) :
                 i \in 1..Len(receipts) \/ i = Len(receipts) + 1
        BY <1>a, GrowFacts
      <4>2. \A i \in 1..Len(Append(receipts, e)) :
              Append(receipts, e)[i].kind \in Logs
        BY <2>4, <3>2, <4>1
      <4> QED
        BY <1>a, <2>4, <3>2, <4>1, <4>2
    <3> QED
      BY <1>1, <3>1, <3>2, AdvanceReceipts
  <2> QED
    BY <2>1, <2>2, <2>3, <2>5 DEF OrderInv, EventsInExecutionOrder
<1>2. CASE Halt
  <2>1. /\ phase = "released" /\ phase' = "halted"
        /\ UNCHANGED <<prog, step_count, seen, events>>
    BY <1>2 DEF Halt, recVars
  <2>2. ReceiptsMirroredOnce'
    BY <1>2, <2>1, HaltReceipts, MirrorKept
  <2>3. \A i \in 1..Len(events) : events[i].by <= step_count
    BY <1>a, <1>b, <2>1 DEF OrderInv
  <2>4. /\ Len(receipts') = seen + 2
        /\ receipts'[seen + 1].kind \in Returns \union Traps
        /\ receipts'[seen + 1].by = step_count
        /\ receipts'[seen + 2].kind = "ScriptResult"
    BY <1>2, HaltReceipts
  <2> QED
    BY <2>1, <2>2, <2>3, <2>4 DEF OrderInv, EventsInExecutionOrder
<1>3. CASE Begin \/ BeginFails \/ Transact \/ RunFails
  <2>1. /\ UNCHANGED <<receipts, events, seen, step_count, prog, pc>>
        /\ \/ phase = "idle" /\ phase' = "begun"
           \/ phase = "begun" /\ phase' = "paused"
           \/ phase' = "failed"
    BY <1>3 DEF Begin, BeginFails, Transact, RunFails, vmVars, recVars
  <2>2. ReceiptsMirroredOnce' /\ EventsInExecutionOrder' /\ events' \in Seq(EventType)
    BY <2>1 DEF OrderInv, ReceiptsMirroredOnce, EventsInExecutionOrder
  <2>3. CASE phase = "idle" /\ phase' = "begun"
    BY <2>1, <2>2, <2>3 DEF OrderInv
  <2>4. CASE phase = "begun" /\ phase' = "paused"
    <3>1. receipts' = <<>> /\ events' = <<>> /\ seen' = 0 /\ Len(<<>>) = 0
      BY <1>a, <2>1, <2>4 DEF OrderInv
    <3> QED
      BY <2>2, <2>4, <3>1 DEF OrderInv
  <2>5. CASE phase' = "failed"
    BY <2>2, <2>5 DEF OrderInv
  <2> QED
    BY <2>1, <2>3, <2>4, <2>5
<1>4. CASE Callback
  <2>1. /\ phase = "paused" /\ phase' = "released"
        /\ events' = events \o EventsAt /\ seen' = Len(receipts)
        /\ step_count' = step_count + 1
        /\ UNCHANGED <<prog, pc, receipts>>
    BY <1>4 DEF Callback, vmVars
  <2>2. /\ events \o EventsAt \in Seq(EventType)
        /\ InOrder(events \o EventsAt)
        /\ Only(events \o EventsAt, ReceiptType)
             = Only(SubSeq(receipts, 1, Len(receipts)), OfKind(MirroredKinds))
        /\ \A i \in 1..Len(events \o EventsAt) :
             \/ (events \o EventsAt)[i].by < step_count + 1
             \/ (events \o EventsAt)[i].by = step_count + 1 /\ prog.op[pc] = "storage"
    BY <2>1, CallbackOrder
  <2> DEFINE es == events \o EventsAt
  <2> HIDE DEF es
  <2>3. events' = es
    BY <2>1 DEF es
  <2>4. EventsInExecutionOrder'
    BY <2>2, <2>3 DEF InOrder, EventsInExecutionOrder, es
  <2>5. ReceiptsMirroredOnce'
    BY <2>1, <2>2, <2>3 DEF ReceiptsMirroredOnce, OfKind, ReceiptType, MirroredKinds, es
  <2>6. \A i \in 1..Len(receipts) : receipts[i].kind \in Logs
    BY <2>1 DEF OrderInv
  <2>7. \A i \in 1..Len(es) : \/ es[i].by < step_count + 1
                              \/ es[i].by = step_count + 1 /\ prog.op[pc] = "storage"
    BY <2>2 DEF es
  <2>8. es \in Seq(EventType)
    BY <2>2 DEF es
  <2> QED
    BY <2>1, <2>3, <2>4, <2>5, <2>6, <2>7, <2>8 DEF OrderInv
<1>5. CASE Finish
  <2>1. /\ phase = "halted" /\ phase' \in {"closed", "failed"}
        /\ events' = events \o Drained(Unseen) /\ seen' = Len(receipts)
        /\ UNCHANGED <<prog, pc, receipts>>
    BY <1>5 DEF Finish, vmVars
  <2>2. /\ events \o Drained(Unseen) \in Seq(EventType)
        /\ InOrder(events \o Drained(Unseen))
        /\ Only(events \o Drained(Unseen), ReceiptType)
             = Only(SubSeq(receipts, 1, Len(receipts)), OfKind(MirroredKinds))
    BY <2>1, FinishOrder
  <2> DEFINE es == events \o Drained(Unseen)
  <2> HIDE DEF es
  <2>3. events' = es
    BY <2>1 DEF es
  <2>4. EventsInExecutionOrder'
    BY <2>2, <2>3 DEF InOrder, EventsInExecutionOrder, es
  <2>5. ReceiptsMirroredOnce'
    BY <2>1, <2>2, <2>3 DEF ReceiptsMirroredOnce, OfKind, ReceiptType, MirroredKinds, es
  <2>6. es \in Seq(EventType)
    BY <2>2 DEF es
  <2> QED
    BY <2>1, <2>3, <2>4, <2>5, <2>6 DEF OrderInv
<1>6. CASE Done \/ UNCHANGED vars
  <2>1. UNCHANGED <<phase, prog, pc, receipts, events, seen, step_count>>
    BY <1>6 DEF Done, vars, vmVars, recVars
  <2> QED
    BY <2>1 DEF OrderInv, EventsInExecutionOrder, ReceiptsMirroredOnce
<1> QED
  BY <1>1, <1>2, <1>3, <1>4, <1>5, <1>6 DEF Next, VM, Recorder

LEMMA OrderInvInit == Init => OrderInv
<1> SUFFICES ASSUME Init PROVE OrderInv
  OBVIOUS
<1>1. receipts = <<>> /\ events = <<>> /\ seen = 0 /\ phase = "idle" /\ Len(<<>>) = 0
  BY DEF Init
<1>2. ReceiptsMirroredOnce
  <2>1. SubSeq(<<>>, 1, 0) = <<>>
    OBVIOUS
  <2>2. /\ Only(<<>>, OfKind(ReceiptKinds)) = <<>>
        /\ Only(<<>>, OfKind(Logs \union Traps)) = <<>>
    BY OnlyEmpty
  <2> QED
    BY <1>1, <2>1, <2>2 DEF ReceiptsMirroredOnce
<1>3. events \in Seq(EventType)
  BY <1>1
<1> QED
  BY <1>1, <1>2, <1>3 DEF OrderInv, EventsInExecutionOrder

LEMMA OrderInvariant == Spec => []OrderInv
BY BaseInvariant, OrderInvInit, OrderInvStep, PTL DEF Spec

(* In the events of every program each receipt that is to be mirrored is   *)
(* there once and in its place, and at the end none is missing             *)
(* (recorder.rs: the closure's receipt loop and the drain after the run).  *)
THEOREM ReceiptsAlwaysMirroredOnce == Spec => []ReceiptsMirroredOnce
BY OrderInvariant, PTL DEF OrderInv

(* The events of every program are in the order of the instructions that   *)
(* caused them, a storage access before the trap it ends in.               *)
THEOREM EventsAlwaysInExecutionOrder == Spec => []EventsInExecutionOrder
BY OrderInvariant, PTL DEF OrderInv

------------------------------------------------------------------------------
(* The regions.                                                            *)

Places(w) == [i \in 1..Len(w.steps) |-> w.steps[i].place]

(* Registered, of any writer. *)
RegisteredIn(w) == IF w.pending = None THEN Places(w) ELSE Append(Places(w), w.pending)

LEMMA PlacesFacts ==
  ASSUME NEW w \in WT
  PROVE  /\ Len(w.steps) \in Nat
         /\ Places(w) \in Seq(StepPlaces) /\ Len(Places(w)) = Len(w.steps)
         /\ \A i \in 1..Len(w.steps) : Places(w)[i] = w.steps[i].place
         /\ RegisteredIn(w) \in Seq(StepPlaces)
         /\ w.pending # None => w.pending \in StepPlaces
<1>1. /\ w.steps \in Seq([place : StepPlaces, values : Seq(Values)])
      /\ w.pending # None => w.pending \in StepPlaces
  BY DEF WT, WriterType
<1>2. /\ Len(w.steps) \in Nat
      /\ \A i \in 1..Len(w.steps) : w.steps[i].place \in StepPlaces
  <2>1. /\ Len(w.steps) \in Nat
        /\ \A i \in 1..Len(w.steps) :
             w.steps[i] \in [place : StepPlaces, values : Seq(Values)]
    BY <1>1, ElementFacts
  <2> QED
    BY <2>1
<1>3. /\ Places(w) \in Seq(StepPlaces) /\ Len(Places(w)) = Len(w.steps)
      /\ \A i \in 1..Len(w.steps) : Places(w)[i] = w.steps[i].place
  BY <1>2 DEF Places
<1> QED
  BY <1>1, <1>2, <1>3 DEF RegisteredIn

LEMMA FlushRegistersNothing ==
  ASSUME NEW w \in WT
  PROVE  Flush(w) \in WT /\ Flush(w).pending = None /\ RegisteredIn(Flush(w)) = RegisteredIn(w)
<1> DEFINE f == Flush(w)
           n == Len(w.steps)
<1>1. f \in WT /\ f.pending = None
  BY FlushFacts DEF WT
<1>2. CASE w.pending = None
  BY <1>1, <1>2 DEF Flush
<1>3. CASE w.pending # None
  <2>1. /\ n \in Nat /\ Len(f.steps) = n + 1
        /\ f.steps[n + 1].place = w.pending
        /\ \A i \in 1..n : f.steps[i] = w.steps[i]
    <3>1. /\ n \in Nat /\ Len(f.steps) = n + 1
          /\ f.steps[n + 1] = [place |-> w.pending, values |-> w.values]
          /\ \A i \in 1..n : f.steps[i] = w.steps[i]
      BY <1>3, FlushSteps DEF WT
    <3> HIDE DEF f, n
    <3> QED
      BY <3>1
  <2> HIDE DEF f
  <2>2. /\ RegisteredIn(f) = Places(f)
        /\ Places(f) \in Seq(StepPlaces) /\ Len(Places(f)) = n + 1
        /\ \A i \in 1..(n + 1) : Places(f)[i] = f.steps[i].place
    BY <1>1, <2>1, PlacesFacts DEF RegisteredIn
  <2> DEFINE r == RegisteredIn(w)
  <2>3. /\ Places(w) \in Seq(StepPlaces) /\ Len(Places(w)) = n /\ w.pending \in StepPlaces
        /\ \A i \in 1..n : Places(w)[i] = w.steps[i].place
    BY <1>3, PlacesFacts
  <2>4. /\ r \in Seq(StepPlaces) /\ Len(r) = n + 1 /\ r[n + 1] = w.pending
        /\ \A i \in 1..n : r[i] = w.steps[i].place
    <3>1. r = Append(Places(w), w.pending)
      BY <1>3 DEF RegisteredIn
    <3> QED
      BY <2>3, <3>1, AppendFacts, GrowFacts
  <2> HIDE DEF r
  <2>5. \A i \in 1..(n + 1) : Places(f)[i] = r[i]
    <3>1. \A i \in 1..(n + 1) : i \in 1..n \/ i = n + 1
      BY <2>1
    <3> QED
      BY <2>1, <2>2, <2>4, <3>1
  <2>6. Places(f) = r
    BY <2>2, <2>4, <2>5, SeqEqual
  <2> QED
    BY <1>1, <2>2, <2>6 DEF f, r
<1> QED
  BY <1>2, <1>3

(* Only a step adds to the steps registered. *)
LEMMA RequestsRegister ==
  ASSUME NEW w \in WT
  PROVE  /\ \A p \in StepPlaces :
              RegisteredIn(RegisterStep(w, p)) = Append(RegisteredIn(w), p)
         /\ \A vs \in Seq(Values) : RegisteredIn(RegisterValues(w, vs)) = RegisteredIn(w)
         /\ \A fn \in FunctionName : RegisteredIn(RegisterCall(w, fn)) = RegisteredIn(w)
         /\ \A n \in 0..Len(w.open) : RegisteredIn(RegisterReturns(w, n)) = RegisteredIn(w)
<1> DEFINE f == Flush(w)
<1>1. f \in WT /\ f.pending = None /\ RegisteredIn(f) = RegisteredIn(w)
  BY FlushRegistersNothing
<1>2. None \notin StepPlaces
  BY MarkAssumption DEF StepPlaces
<1>3. ASSUME NEW v, NEW u, v.steps = u.steps, v.pending = u.pending
      PROVE  RegisteredIn(v) = RegisteredIn(u)
  BY <1>3 DEF RegisteredIn, Places
<1>4. ASSUME NEW p \in StepPlaces
      PROVE  RegisteredIn(RegisterStep(w, p)) = Append(RegisteredIn(w), p)
  <2> DEFINE g == RegisterStep(w, p)
  <2>1. g = [f EXCEPT !.pending = p]
    BY DEF RegisterStep
  <2>2. g.steps = f.steps /\ g.pending = p
    <3> HIDE DEF f, g
    <3> QED
      BY <1>1, <2>1 DEF WT, WriterType
  <2>3. RegisteredIn(g) = Append(Places(f), p)
    <3> HIDE DEF f, g
    <3>1. Places(g) = Places(f)
      BY <2>2 DEF Places
    <3>2. g.pending # None
      BY <1>2, <2>2
    <3> QED
      BY <2>2, <3>1, <3>2 DEF RegisteredIn
  <2>4. RegisteredIn(f) = Places(f)
    BY <1>1 DEF RegisteredIn
  <2> HIDE DEF f, g
  <2>5. RegisteredIn(g) = Append(RegisteredIn(w), p)
    BY <1>1, <2>3, <2>4
  <2> QED
    BY <2>5 DEF g
<1>5. ASSUME NEW vs \in Seq(Values)
      PROVE  RegisteredIn(RegisterValues(w, vs)) = RegisteredIn(w)
  <2>1. /\ RegisterValues(w, vs).steps = w.steps
        /\ RegisterValues(w, vs).pending = w.pending
    BY RegisterValuesFacts DEF WT
  <2> QED
    BY <1>3, <2>1
<1>6. ASSUME NEW fn \in FunctionName
      PROVE  RegisteredIn(RegisterCall(w, fn)) = RegisteredIn(w)
  <2> DEFINE g == RegisterCall(w, fn)
  <2>1. g = [f EXCEPT !.open = Append(@, fn)]
    BY DEF RegisterCall
  <2>2. g.steps = f.steps /\ g.pending = f.pending
    <3> HIDE DEF f, g
    <3> QED
      BY <1>1, <2>1 DEF WT, WriterType
  <2> HIDE DEF f, g
  <2>3. RegisteredIn(g) = RegisteredIn(w)
    BY <1>1, <1>3, <2>2
  <2> QED
    BY <2>3 DEF g
<1>7. ASSUME NEW n \in 0..Len(w.open)
      PROVE  RegisteredIn(RegisterReturns(w, n)) = RegisteredIn(w)
  <2> DEFINE g == RegisterReturns(w, n)
  <2>1. CASE n = 0
    BY <2>1 DEF RegisterReturns
  <2>2. CASE n # 0
    <3>1. g = [f EXCEPT !.open = SubSeq(@, 1, Len(@) - n),
                        !.unmatched = @ + (IF n > Len(w.open) THEN n - Len(w.open) ELSE 0)]
      BY <2>2 DEF RegisterReturns
    <3>2. g.steps = f.steps /\ g.pending = f.pending
      <4> HIDE DEF f, g
      <4> QED
        BY <1>1, <3>1 DEF WT, WriterType
    <3> HIDE DEF f, g
    <3>3. RegisteredIn(g) = RegisteredIn(w)
      BY <1>1, <1>3, <3>2
    <3> QED
      BY <3>3 DEF g
  <2> QED
    BY <2>1, <2>2
<1> QED
  BY <1>4, <1>5, <1>6, <1>7

(* The closure registers a step when the line changes, and calls for a     *)
(* transition.                                                             *)
LEMMA CallbackRegisters ==
  ASSUME BaseInv, phase = "paused"
  PROVE  /\ RegisteredIn(WriterAt) =
              IF prev_line # line THEN Append(RegisteredIn(writer), StepPlace(step_count + 1))
                                  ELSE RegisteredIn(writer)
         /\ WriterAt.open =
              IF IsFunctionTransition
              THEN Append(SubSeq(writer.open, 1, 1), nested_calls_seen + 1)
              ELSE writer.open
<1> DEFINE new == StepPlace(step_count + 1)
<1>1. /\ writer \in WT /\ W1 \in WT /\ W2 \in WT /\ new \in StepPlaces
      /\ W2 = RegisterValues(W1, NewValues) /\ NewValues \in Seq(Values)
      /\ W2.open = writer.open /\ WriterAt = Crossed(W2)
      /\ Len(writer.open) = 1 + nested_call_depth /\ nested_call_depth \in 0..1
      /\ nested_calls_seen + 1 \in FunctionName
  BY SteppedFacts, ValuesFacts
  DEF BaseInv, TypeOK, CallsBalanced, Recording, WT, FunctionName, WriterAt, W1, W2
<1>2. RegisteredIn(W1) = IF prev_line # line THEN Append(RegisteredIn(writer), new)
                                             ELSE RegisteredIn(writer)
  <2>1. CASE prev_line # line
    <3>1. W1 = RegisterStep(writer, new)
      BY <2>1 DEF W1, Stepped
    <3> HIDE DEF new
    <3> QED
      BY <1>1, <2>1, <3>1, RequestsRegister
  <2>2. CASE prev_line = line
    BY <2>2 DEF W1, Stepped
  <2> QED
    BY <2>1, <2>2
<1>3. RegisteredIn(W2) = RegisteredIn(W1)
  BY <1>1, RequestsRegister
<1>4. CASE ~IsFunctionTransition
  BY <1>1, <1>2, <1>3, <1>4 DEF Crossed
<1>5. CASE IsFunctionTransition
  <2> DEFINE m == IF nested_call_depth > 0 THEN 1 ELSE 0
             r == RegisterReturns(W2, m)
             c == RegisterCall(r, nested_calls_seen + 1)
  <2>1. m \in 0..Len(W2.open) /\ Len(W2.open) - m = 1
    BY <1>1
  <2>2. WriterAt = c
    BY <1>1, <1>5 DEF Crossed
  <2> HIDE DEF m
  <2>3. /\ r \in WT /\ RegisteredIn(r) = RegisteredIn(W2)
        /\ r.open = SubSeq(W2.open, 1, Len(W2.open) - m)
    BY <1>1, <2>1, WriterFacts, RequestsRegister
  <2> HIDE DEF r
  <2>4. RegisteredIn(c) = RegisteredIn(r) /\ c.open = Append(r.open, nested_calls_seen + 1)
    BY <1>1, <2>3, WriterFacts, RequestsRegister
  <2>5. r.open = SubSeq(writer.open, 1, 1)
    BY <1>1, <2>1, <2>3
  <2> HIDE DEF c
  <2> QED
    BY <1>2, <1>3, <1>5, <2>2, <2>3, <2>4, <2>5
<1> QED
  BY <1>4, <1>5

WideGaps == {g \in Nat : g > NESTED_CALL_LINE_GAP_THRESHOLD}

LEMMA GapFacts ==
  ASSUME NEW a \in Nat, NEW b \in Nat
  PROVE  Gap(a, b) \in Nat /\ Gap(a, b) = Gap(b, a)
BY DEF Gap

LEMMA LineFacts ==
  ASSUME NEW p \in StepPlaces
  PROVE  p.line \in Nat
BY PlaceAssumption DEF StepPlaces

(* A further step adds the gap before it, if that is wide. *)
LEMMA WideGrows ==
  ASSUME NEW r \in Seq(StepPlaces), Len(r) >= 1, NEW p \in StepPlaces
  PROVE  LET gap == Gap(r[Len(r)].line, p.line)
         IN  /\ Wide(r) \in Seq(Nat) /\ gap \in Nat
             /\ Wide(Append(r, p)) =
                  IF gap > NESTED_CALL_LINE_GAP_THRESHOLD THEN Append(Wide(r), gap) ELSE Wide(r)
<1> DEFINE n == Len(r)
           gap == Gap(r[n].line, p.line)
           s == Append(r, p)
<1>1. /\ n \in Nat /\ n >= 1 /\ Len(s) = n + 1 /\ s[n + 1] = p
      /\ \A i \in 1..n : s[i] = r[i] /\ r[i].line \in Nat
  <2>1. n \in Nat /\ \A i \in 1..n : r[i] \in StepPlaces
    BY ElementFacts
  <2>2. \A i \in 1..n : r[i].line \in Nat
    BY <2>1, LineFacts
  <2> QED
    BY <2>1, <2>2, AppendFacts
<1>2. gap \in Nat
  <2>1. n \in 1..n /\ p.line \in Nat
    BY <1>1, LineFacts
  <2> QED
    BY <1>1, <2>1, GapFacts
<1> HIDE DEF n, gap, s
<1>3. Gaps(r) \in Seq(Nat) /\ Len(Gaps(r)) = n - 1
  <2>1. Gaps(r) = [i \in 1..(n - 1) |-> Gap(r[i].line, r[i + 1].line)]
    BY DEF Gaps, n
  <2>2. \A i \in 1..(n - 1) : Gap(r[i].line, r[i + 1].line) \in Nat
    <3> TAKE i \in 1..(n - 1)
    <3>1. i \in 1..n /\ i + 1 \in 1..n
      BY <1>1
    <3> QED
      BY <1>1, <3>1, GapFacts
  <2> QED
    BY <1>1, <2>1, <2>2
<1>4. Gaps(s) \in Seq(Nat) /\ Len(Gaps(s)) = n
      /\ \A i \in 1..n : Gaps(s)[i] = IF i = n THEN gap ELSE Gaps(r)[i]
  <2>1. Gaps(s) = [i \in 1..n |-> Gap(s[i].line, s[i + 1].line)]
    <3>1. Len(s) - 1 = n
      BY <1>1
    <3> QED
      BY <3>1 DEF Gaps
  <2>2. ASSUME NEW i \in 1..n
        PROVE  Gap(s[i].line, s[i + 1].line) = IF i = n THEN gap ELSE Gaps(r)[i]
    <3>1. CASE i = n
      BY <1>1, <3>1 DEF gap
    <3>2. CASE i # n
      <4>1. i \in 1..(n - 1) /\ i \in 1..n /\ i + 1 \in 1..n
        BY <1>1, <3>2
      <4>2. Gaps(r)[i] = Gap(r[i].line, r[i + 1].line)
        BY <4>1 DEF Gaps, n
      <4> QED
        BY <1>1, <3>2, <4>1, <4>2
    <3> QED
      BY <3>1, <3>2
  <2>3. \A i \in 1..n : (IF i = n THEN gap ELSE Gaps(r)[i]) \in Nat
    <3> TAKE i \in 1..n
    <3>1. i # n => i \in 1..Len(Gaps(r))
      BY <1>1, <1>3
    <3>2. i # n => Gaps(r)[i] \in Nat
      BY <1>3, <3>1, ElementFacts
    <3> QED
      BY <1>2, <3>2
  <2>4. Gaps(s) = [i \in 1..n |-> IF i = n THEN gap ELSE Gaps(r)[i]]
    BY <2>1, <2>2
  <2> QED
    BY <1>1, <2>3, <2>4
<1>5. Gaps(s) = Append(Gaps(r), gap)
  <2> DEFINE g == Gaps(r)
             t == Append(g, gap)
  <2>1. /\ t \in Seq(Nat) /\ Len(t) = n /\ t[n] = gap
        /\ \A i \in 1..(n - 1) : t[i] = g[i]
    <3>1. (n - 1) + 1 = n
      BY <1>1
    <3> HIDE DEF g
    <3>2. /\ t \in Seq(Nat) /\ Len(t) = Len(g) + 1 /\ t[Len(g) + 1] = gap
          /\ \A i \in 1..Len(g) : t[i] = g[i]
      BY <1>2, <1>3, GrowFacts DEF g
    <3> HIDE DEF t
    <3> QED
      BY <1>3, <3>1, <3>2 DEF g
  <2> HIDE DEF t
  <2>2. \A i \in 1..n : Gaps(s)[i] = t[i]
    <3>1. \A i \in 1..n : i = n \/ i \in 1..(n - 1)
      BY <1>1
    <3>2. \A i \in 1..(n - 1) : i # n
      BY <1>1
    <3> QED
      BY <1>4, <2>1, <3>1, <3>2
  <2>3. Gaps(s) = t
    BY <1>4, <2>1, <2>2, SeqEqual
  <2> QED
    BY <2>3 DEF t
<1>6. Wide(r) = Only(Gaps(r), WideGaps) /\ Wide(s) = Only(Gaps(s), WideGaps)
  BY DEF Wide, WideGaps
<1>7. Wide(r) \in Seq(Nat)
  <2>1. Only(Gaps(r), WideGaps) \in Seq(Nat \intersect WideGaps)
    BY <1>3, OnlyType
  <2>2. Nat \intersect WideGaps \subseteq Nat
    OBVIOUS
  <2>3. Wide(r) \in Seq(Nat \intersect WideGaps)
    BY <1>6, <2>1
  <2> QED
    BY <2>3, ElementFacts, RetypeFacts
<1>8. Wide(s) = IF gap \in WideGaps THEN Append(Wide(r), gap) ELSE Wide(r)
  <2>1. Only(Append(Gaps(r), gap), WideGaps)
          = IF gap \in WideGaps THEN Append(Only(Gaps(r), WideGaps), gap)
                                ELSE Only(Gaps(r), WideGaps)
    BY <1>2, <1>3, OnlyAppend
  <2> QED
    BY <1>5, <1>6, <2>1
<1>9. gap \in WideGaps <=> gap > NESTED_CALL_LINE_GAP_THRESHOLD
  BY <1>2 DEF WideGaps
<1> QED
  BY <1>2, <1>7, <1>8, <1>9 DEF gap, n, s

(* The regions so far, at any time of a recording. *)
RegionsInv ==
  /\ phase = "idle" => nested_calls_seen = 0
  /\ phase \in {"begun", "paused", "released"} =>
       LET steps == RegisteredIn(writer)
       IN  /\ Len(steps) >= 1
           /\ steps[Len(steps)].line = Baseline
           /\ nested_calls_seen = Len(Wide(steps))
           /\ writer.open = IF Wide(steps) = <<>> THEN <<Toplevel>>
                                                  ELSE <<Toplevel, nested_calls_seen>>

LEMMA PairFacts ==
  ASSUME NEW a, NEW b
  PROVE  /\ SubSeq(<<a>>, 1, 1) = <<a>> /\ SubSeq(<<a, b>>, 1, 1) = <<a>>
         /\ Append(<<a>>, b) = <<a, b>>
<1>1. <<a>> \in Seq({a, b}) /\ <<a, b>> \in Seq({a, b})
  OBVIOUS
<1>2. SubSeq(<<a>>, 1, 1) = <<a>> /\ SubSeq(<<a, b>>, 1, 1) = <<a>>
  <2> DEFINE s == <<a>>
             t == <<a, b>>
  <2>1. /\ s \in Seq({a, b}) /\ t \in Seq({a, b}) /\ t # <<>>
        /\ Len(s) = 1 /\ Len(t) = 2 /\ Len(t) - 1 = 1 /\ s[1] = a /\ t[1] = a
        /\ 1 \in 0..Len(s) /\ 1 \in 0..Len(t)
    BY <1>1
  <2> HIDE DEF s, t
  <2>2. SubSeq(s, 1, Len(s)) = s /\ SubSeq(t, 1, 1) \in Seq({a, b})
    BY <2>1, SplitFacts
  <2>3. /\ Len(SubSeq(t, 1, Len(t) - 1)) = Len(t) - 1
        /\ \A i \in 1..(Len(t) - 1) : SubSeq(t, 1, Len(t) - 1)[i] = t[i]
    BY <2>1, PopFacts
  <2>4. Len(SubSeq(t, 1, 1)) = 1 /\ SubSeq(t, 1, 1)[1] = a
    BY <2>1, <2>3
  <2>5. \A i \in 1..Len(SubSeq(t, 1, 1)) : SubSeq(t, 1, 1)[i] = s[i]
    <3>1. \A i \in 1..1 : i = 1
      OBVIOUS
    <3> QED
      BY <2>1, <2>4, <3>1
  <2>6. SubSeq(t, 1, 1) = s
    BY <2>1, <2>2, <2>4, <2>5, SeqEqual
  <2> QED
    BY <2>1, <2>2, <2>6 DEF s, t
<1>3. Append(<<a>>, b) = <<a, b>>
  <2>1. Append(<<a>>, b) \in Seq({a, b})
    BY <1>1
  <2>2. /\ Len(Append(<<a>>, b)) = 2 /\ Append(<<a>>, b)[1] = a /\ Append(<<a>>, b)[2] = b
        /\ Len(<<a, b>>) = 2 /\ <<a, b>>[1] = a /\ <<a, b>>[2] = b
    OBVIOUS
  <2>3. \A i \in 1..2 : i = 1 \/ i = 2
    OBVIOUS
  <2>4. \A i \in 1..Len(Append(<<a>>, b)) : Append(<<a>>, b)[i] = <<a, b>>[i]
    BY <2>2, <2>3
  <2> QED
    BY <1>1, <2>1, <2>2, <2>4, SeqEqual
<1> QED
  BY <1>2, <1>3

LEMMA CallbackRegions ==
  ASSUME BaseInv, RegionsInv, Callback
  PROVE  RegionsInv'
<1> DEFINE r == RegisteredIn(writer)
           new == StepPlace(step_count + 1)
           gap == Gap(r[Len(r)].line, new.line)
<1>1. /\ phase = "paused" /\ phase' = "released" /\ writer' = WriterAt /\ prev_line' = line
      /\ nested_calls_seen' = nested_calls_seen + IF IsFunctionTransition THEN 1 ELSE 0
      /\ nested_calls_seen \in Nat
  BY DEF Callback, BaseInv, TypeOK
<1>2. /\ r \in Seq(StepPlaces) /\ new \in StepPlaces /\ new.line = line
      /\ line \in Nat /\ line # None
  <2>1. writer \in WT /\ new \in StepPlaces /\ new.line = line
    BY SteppedFacts DEF BaseInv, TypeOK, WT, StepPlace
  <2>2. line \in Nat
    BY <2>1, LineFacts
  <2> QED
    BY <2>1, <2>2, PlacesFacts, MarkAssumption
<1>3. /\ Len(r) >= 1 /\ r[Len(r)].line = Baseline
      /\ nested_calls_seen = Len(Wide(r))
      /\ writer.open = IF Wide(r) = <<>> THEN <<Toplevel>> ELSE <<Toplevel, nested_calls_seen>>
  BY <1>1 DEF RegionsInv
<1>4. Baseline' = line
  BY <1>1, <1>2 DEF Baseline
<1>5. /\ Wide(r) \in Seq(Nat) /\ gap \in Nat
      /\ Wide(Append(r, new)) =
           IF gap > NESTED_CALL_LINE_GAP_THRESHOLD THEN Append(Wide(r), gap) ELSE Wide(r)
  <2> HIDE DEF r, new
  <2> QED
    BY <1>2, <1>3, WideGrows
<1>6. /\ Len(Append(r, new)) = Len(r) + 1 /\ Append(r, new)[Len(r) + 1] = new
      /\ Len(r) \in Nat
  <2> HIDE DEF r, new
  <2> QED
    BY <1>2, AppendFacts, ElementFacts
<1>7. gap = Gap(line, Baseline)
  <2>1. r[Len(r)] \in StepPlaces
    <3>1. Len(r) \in 1..Len(r)
      BY <1>3, <1>6
    <3> HIDE DEF r
    <3> QED
      BY <1>2, <3>1, ElementFacts
  <2>2. Baseline \in Nat
    BY <1>3, <2>1, LineFacts
  <2>3. Gap(Baseline, line) = Gap(line, Baseline)
    BY <1>2, <2>2, GapFacts
  <2> QED
    BY <1>2, <1>3, <2>3
<1> HIDE DEF r, new, gap
<1>8. /\ RegisteredIn(writer') = IF prev_line # line THEN Append(r, new) ELSE r
      /\ writer'.open = IF IsFunctionTransition
                        THEN Append(SubSeq(writer.open, 1, 1), nested_calls_seen + 1)
                        ELSE writer.open
  BY <1>1, CallbackRegisters DEF r, new
<1>9. CASE prev_line = line
  <2>1. ~IsFunctionTransition /\ Baseline = line
    BY <1>2, <1>9 DEF IsFunctionTransition, Baseline
  <2>2. /\ RegisteredIn(writer') = r /\ writer'.open = writer.open
        /\ nested_calls_seen' = nested_calls_seen
    BY <1>1, <1>8, <1>9, <2>1
  <2> QED
    BY <1>1, <1>3, <1>4, <2>1, <2>2 DEF RegionsInv
<1>10. CASE prev_line # line /\ ~IsFunctionTransition
  <2>1. Wide(Append(r, new)) = Wide(r)
    BY <1>5, <1>7, <1>10 DEF IsFunctionTransition
  <2>2. /\ RegisteredIn(writer') = Append(r, new) /\ writer'.open = writer.open
        /\ nested_calls_seen' = nested_calls_seen
    BY <1>1, <1>8, <1>10
  <2>3. /\ Len(RegisteredIn(writer')) >= 1
        /\ RegisteredIn(writer')[Len(RegisteredIn(writer'))].line = line
    BY <1>2, <1>6, <2>2
  <2> QED
    BY <1>1, <1>3, <1>4, <2>1, <2>2, <2>3 DEF RegionsInv
<1>11. CASE prev_line # line /\ IsFunctionTransition
  <2> DEFINE w == Append(Wide(r), gap)
  <2>1. Wide(Append(r, new)) = w
    BY <1>5, <1>7, <1>11 DEF IsFunctionTransition
  <2>2. w # <<>> /\ Len(w) = nested_calls_seen + 1
    <3> DEFINE v == Wide(r)
    <3>0. v \in Seq(Nat) /\ w = Append(v, gap)
      BY <1>5
    <3> HIDE DEF v, w
    <3>1. Len(w) = Len(v) + 1 /\ Len(v) \in Nat
      BY <3>0, AppendFacts, ElementFacts
    <3> QED
      BY <1>3, <3>1 DEF v
  <2>3. writer'.open = <<Toplevel, nested_calls_seen + 1>>
    <3>1. SubSeq(writer.open, 1, 1) = <<Toplevel>>
      BY <1>3, PairFacts
    <3>2. Append(<<Toplevel>>, nested_calls_seen + 1) = <<Toplevel, nested_calls_seen + 1>>
      BY PairFacts
    <3> QED
      BY <1>8, <1>11, <3>1, <3>2
  <2> HIDE DEF w
  <2>4. RegisteredIn(writer') = Append(r, new) /\ nested_calls_seen' = nested_calls_seen + 1
    BY <1>1, <1>8, <1>11
  <2>5. /\ Len(RegisteredIn(writer')) >= 1
        /\ RegisteredIn(writer')[Len(RegisteredIn(writer'))].line = line
    BY <1>2, <1>6, <2>4
  <2> QED
    BY <1>1, <1>4, <2>1, <2>2, <2>3, <2>4, <2>5 DEF RegionsInv
<1> QED
  BY <1>9, <1>10, <1>11 DEF IsFunctionTransition

LEMMA BeginRegions ==
  ASSUME BaseInv, RegionsInv, Begin
  PROVE  RegionsInv'
<1> DEFINE entry == [path |-> SourcePath, line |-> 1, by |-> 0]
<1>1. /\ writer'.steps = <<>> /\ writer'.pending = entry /\ writer'.open = <<Toplevel>>
      /\ phase' = "begun" /\ prev_line' = None
      /\ nested_calls_seen' = 0
  BY DEF Begin, Start, RegionsInv, BaseInv, Untouched
<1>2. entry # None /\ entry.line = 1 /\ entry \in StepPlaces
  BY PlaceAssumption, MarkAssumption DEF StepPlaces
<1> HIDE DEF entry
<1>3. RegisteredIn(writer') = <<entry>>
  <2>1. Places(writer') = <<>>
    BY <1>1 DEF Places
  <2> QED
    BY <1>1, <1>2, <2>1 DEF RegisteredIn
<1>4. Wide(<<entry>>) = <<>>
  <2>1. Gaps(<<entry>>) = <<>>
    BY DEF Gaps
  <2> QED
    BY <2>1, OnlyEmpty DEF Wide
<1>5. Baseline' = 1
  BY <1>1 DEF Baseline
<1>6. Len(<<entry>>) = 1 /\ <<entry>>[1] = entry /\ Len(<<>>) = 0
  OBVIOUS
<1> QED
  BY <1>1, <1>2, <1>3, <1>4, <1>5, <1>6 DEF RegionsInv

LEMMA RegionsInvariant == Spec => []RegionsInv
<1>1. Init => RegionsInv
  BY DEF Init, RegionsInv
<1>2. BaseInv /\ RegionsInv /\ [Next]_vars => RegionsInv'
  <2> SUFFICES ASSUME BaseInv, RegionsInv, [Next]_vars PROVE RegionsInv'
    OBVIOUS
  <2>1. CASE Begin
    BY <2>1, BeginRegions
  <2>2. CASE Callback
    BY <2>2, CallbackRegions
  <2>3. CASE Advance \/ Transact
    <3>1. /\ UNCHANGED <<writer, prev_line, nested_calls_seen>>
          /\ phase \in {"begun", "released"} /\ phase' = "paused"
      BY <2>3 DEF Advance, Running, Transact, recVars
    <3>2. Baseline' = Baseline
      BY <3>1 DEF Baseline
    <3> QED
      BY <3>1, <3>2 DEF RegionsInv
  <2>4. CASE Halt \/ BeginFails \/ RunFails \/ Finish
    BY <2>4 DEF Halt, BeginFails, RunFails, Finish, RegionsInv
  <2>5. CASE Done \/ UNCHANGED vars
    <3>1. UNCHANGED <<phase, writer, prev_line, nested_calls_seen>>
      BY <2>5 DEF Done, vars, recVars
    <3>2. Baseline' = Baseline
      BY <3>1 DEF Baseline
    <3> QED
      BY <3>1, <3>2 DEF RegionsInv
  <2> QED
    BY <2>1, <2>2, <2>3, <2>4, <2>5 DEF Next, VM, Recorder
<1> QED
  BY <1>1, <1>2, BaseInvariant, PTL DEF Spec

(* However the lines jump and whenever the writer commits, the synthetic   *)
(* calls of a trace can be read back from its steps.                       *)
THEOREM RegionsAlwaysReadFromSteps == Spec => []RegionsReadFromSteps
<1>1. BaseInv /\ RegionsInv => RegionsReadFromSteps
  <2> SUFFICES ASSUME BaseInv, RegionsInv, phase = "released" PROVE RegionsReadFromSteps
    BY DEF RegionsReadFromSteps
  <2>1. Registered = RegisteredIn(writer)
    <3>1. writer \in WT
      BY DEF BaseInv, TypeOK, WT
    <3>2. /\ Places(writer) \in Seq(StepPlaces)
          /\ writer.pending # None => writer.pending \in StepPlaces
      BY <3>1, PlacesFacts
    <3>3. Registered = Places(writer) \o (IF writer.pending = None THEN <<>>
                                                                ELSE <<writer.pending>>)
      BY DEF Registered, Places
    <3>4. Places(writer) \o <<>> = Places(writer)
      BY <3>2
    <3>5. writer.pending # None =>
            Places(writer) \o <<writer.pending>> = Append(Places(writer), writer.pending)
      BY <3>2, GrowFacts
    <3> QED
      BY <3>3, <3>4, <3>5 DEF RegisteredIn
  <2> QED
    BY <2>1 DEF RegionsInv, RegionsReadFromSteps
<1> QED
  BY <1>1, BaseInvariant, RegionsInvariant, PTL

------------------------------------------------------------------------------
(* The snapshots.                                                          *)

Regs == [kind : {"regs"}, of : Nat]

(* The snapshots of the first n instructions. *)
FirstSnapshots(n) == [k \in 1..n |-> Snapshot(k)]

SnapshotsIn(w) == Only(Reads(w), Regs)

(* When no step waits to be committed, the last one opened a region, and   *)
(* the steps carry the snapshots up to its own; a later one waits.         *)
CommittedInv ==
  Recording /\ writer.pending = None =>
    /\ LastOpensRegion
    /\ Only(ValuesInSteps(writer), Regs)
         = FirstSnapshots(writer.steps[Len(writer.steps)].place.by)

(* SnapshotsKeptInOrder, by the number of snapshots kept. *)
KeptInv ==
  /\ \E n \in Nat :
       /\ SnapshotsIn(writer) = FirstSnapshots(n)
       /\ n # step_count =>
            /\ phase \in {"closed", "failed"}
            /\ LastOpensRegion
            /\ n = writer.steps[Len(writer.steps)].place.by
  /\ CommittedInv

LEMMA FirstSnapshotsFacts ==
  ASSUME NEW n \in Nat
  PROVE  /\ FirstSnapshots(n) \in Seq(Regs) /\ Len(FirstSnapshots(n)) = n
         /\ Append(FirstSnapshots(n), Snapshot(n + 1)) = FirstSnapshots(n + 1)
<1>1. ASSUME NEW m \in Nat
      PROVE  /\ FirstSnapshots(m) \in Seq(Regs) /\ Len(FirstSnapshots(m)) = m
             /\ \A i \in 1..m : FirstSnapshots(m)[i] = Snapshot(i)
  BY DEF FirstSnapshots, Snapshot, Regs
<1>2. Snapshot(n + 1) \in Regs /\ n + 1 \in Nat
  BY DEF Snapshot, Regs
<1> DEFINE s == FirstSnapshots(n)
           e == Snapshot(n + 1)
           t == Append(s, e)
           u == FirstSnapshots(n + 1)
<1>3. /\ s \in Seq(Regs) /\ Len(s) = n /\ \A i \in 1..n : s[i] = Snapshot(i)
      /\ u \in Seq(Regs) /\ Len(u) = n + 1 /\ \A i \in 1..(n + 1) : u[i] = Snapshot(i)
  BY <1>1, <1>2
<1> HIDE DEF s, e, u
<1>4. /\ t \in Seq(Regs) /\ Len(t) = n + 1 /\ t[n + 1] = e
      /\ \A i \in 1..n : t[i] = s[i]
  BY <1>2, <1>3, GrowFacts DEF e
<1> HIDE DEF t
<1>5. \A i \in 1..(n + 1) : t[i] = u[i]
  <2>1. \A i \in 1..(n + 1) : i \in 1..n \/ i = n + 1
    OBVIOUS
  <2> QED
    BY <1>3, <1>4, <2>1 DEF e
<1>6. t = u
  BY <1>3, <1>4, <1>5, SeqEqual
<1> QED
  BY <1>3, <1>6 DEF s, t, e, u

LEMMA KeptMeans ==
  ASSUME KeptInv
  PROVE  SnapshotsKeptInOrder
<1>1. PICK n \in Nat :
        /\ SnapshotsIn(writer) = FirstSnapshots(n)
        /\ n # step_count =>
             /\ phase \in {"closed", "failed"}
             /\ LastOpensRegion
             /\ n = writer.steps[Len(writer.steps)].place.by
  BY DEF KeptInv
<1>2. Snapshots = FirstSnapshots(n)
  BY <1>1 DEF Snapshots, SnapshotsIn, Reads, Regs
<1>3. Len(Snapshots) = n
  BY <1>2, FirstSnapshotsFacts
<1> QED
  BY <1>1, <1>2, <1>3 DEF SnapshotsKeptInOrder, FirstSnapshots

LEMMA NothingRead ==
  ASSUME NEW w \in WT, w.steps = <<>>, w.values = <<>>
  PROVE  SnapshotsIn(w) = FirstSnapshots(0)
<1>1. ValuesInSteps(w) = <<>>
  BY ValuesInStepsType DEF WT
<1>2. Reads(w) = <<>>
  BY <1>1 DEF Reads
<1>3. FirstSnapshots(0) = <<>>
  BY DEF FirstSnapshots
<1> QED
  BY <1>2, <1>3, OnlyEmpty DEF SnapshotsIn

(* What the closure registers has one snapshot. *)
LEMMA NewSnapshot ==
  ASSUME TypeOK
  PROVE  Only(NewValues, Regs) = <<Snapshot(step_count + 1)>>
<1> DEFINE s == Snapshot(step_count + 1)
           p == LogdPayload
           L == [kind : {"logd"}, of : Nat]
<1>1. p \in Seq(L) /\ NewValues = <<s>> \o p
  BY PayloadType DEF NewValues
<1>2. s \in Regs /\ s \in Values
  BY DEF TypeOK, Snapshot, Regs, Values
<1>3. L \subseteq Values /\ L \intersect Regs = {}
  BY DEF Values, Regs
<1> HIDE DEF s, p, L
<1>4. Only(p, Regs) = <<>>
  <2>1. Only(p, Regs) \in Seq({})
    BY <1>1, <1>3, OnlyType
  <2> QED
    BY <2>1
<1>5. p \in Seq(Values) /\ <<s>> \in Seq(Values)
  <2>1. p \in Seq(Values)
    BY <1>1, <1>3, SeqMonotonic
  <2> QED
    BY <1>2, <2>1
<1>6. Only(<<s>>, Regs) = <<s>>
  BY <1>2, OnlyOne
<1>7. Only(<<s>> \o p, Regs) = Only(<<s>>, Regs) \o Only(p, Regs)
  BY ONLY <1>5, OnlyOfConcat, Zenon
<1>8. <<s>> \o <<>> = <<s>>
  BY <1>5, ConcatEmptySeq
<1> QED
  BY <1>1, <1>4, <1>6, <1>7, <1>8, Zenon DEF s

(* The closure adds the snapshot of the instruction about to run; at a     *)
(* transition the steps then carry every snapshot so far.                  *)
LEMMA CallbackReads ==
  ASSUME BaseInv, phase = "paused"
  PROVE  /\ Reads(WriterAt) = Reads(writer) \o NewValues
         /\ IsFunctionTransition => ValuesInSteps(WriterAt) = Reads(WriterAt)
         /\ prev_line # line /\ ~IsFunctionTransition => WriterAt.pending # None
         /\ prev_line = line =>
              WriterAt.steps = writer.steps /\ WriterAt.pending = writer.pending
<1> DEFINE new == StepPlace(step_count + 1)
<1>1. /\ writer \in WT /\ W1 \in WT /\ W2 \in WT /\ new \in StepPlaces
      /\ W2 = RegisterValues(W1, NewValues) /\ NewValues \in Seq(Values)
      /\ W2.open = writer.open /\ WriterAt = Crossed(W2)
      /\ nested_calls_seen + 1 \in FunctionName
      /\ Len(writer.open) = 1 + nested_call_depth /\ nested_call_depth \in 0..1
  BY SteppedFacts, ValuesFacts
  DEF BaseInv, TypeOK, CallsBalanced, Recording, WT, FunctionName, WriterAt, W1, W2
<1>2. None \notin StepPlaces
  BY MarkAssumption DEF StepPlaces
<1>3. /\ Reads(W1) = Reads(writer)
      /\ prev_line # line => W1.pending # None
      /\ prev_line = line => W1 = writer
  <2>1. CASE prev_line # line
    <3>1. W1 = RegisterStep(writer, new)
      BY <2>1 DEF W1, Stepped
    <3> HIDE DEF new
    <3>2. RegisterStep(writer, new).pending = new
      BY <1>1, RegisterStepFacts DEF WT
    <3>3. Reads(RegisterStep(writer, new)) = Reads(writer)
      BY <1>1, RegisterStepReads DEF WT
    <3> QED
      BY <1>1, <1>2, <2>1, <3>1, <3>2, <3>3
  <2>2. CASE prev_line = line
    BY <2>2 DEF W1, Stepped
  <2> QED
    BY <2>1, <2>2
<1>4. /\ Reads(W2) = Reads(writer) \o NewValues
      /\ W2.pending = W1.pending /\ W2.steps = W1.steps
  <2>1. /\ RegisterValues(W1, NewValues).pending = W1.pending
        /\ RegisterValues(W1, NewValues).steps = W1.steps
    BY <1>1, RegisterValuesFacts DEF WT
  <2>2. Reads(RegisterValues(W1, NewValues)) = Reads(W1) \o NewValues
    BY <1>1, RegisterValuesReads DEF WT
  <2> QED
    BY <1>1, <1>3, <2>1, <2>2
<1>5. CASE ~IsFunctionTransition
  BY <1>1, <1>3, <1>4, <1>5 DEF Crossed
<1>6. CASE IsFunctionTransition
  <2> DEFINE m == IF nested_call_depth > 0 THEN 1 ELSE 0
             r == RegisterReturns(W2, m)
             fn == nested_calls_seen + 1
  <2>1. WriterAt = RegisterCall(r, fn)
    BY <1>1, <1>6 DEF Crossed
  <2>2. m \in 0..Len(W2.open)
    BY <1>1
  <2>3. prev_line # line
    BY <1>6 DEF IsFunctionTransition
  <2>4. W2.pending # None
    BY <1>3, <1>4, <2>3
  <2> HIDE DEF m, fn
  <2>5. r \in WT
    BY <1>1, <2>2, WriterFacts
  <2>6. /\ Reads(r) = Reads(W2)
        /\ m # 0 => r.values = <<>>
        /\ m = 0 => r = W2
    <3>1. m = 0 => r = W2
      BY DEF RegisterReturns
    <3> HIDE DEF r
    <3>2. /\ Reads(RegisterReturns(W2, m)) = Reads(W2)
          /\ m # 0 => RegisterReturns(W2, m).values = <<>>
      BY <1>1, <2>4, RegisterReturnsReads DEF WT
    <3> QED
      BY <3>1, <3>2 DEF r
  <2> HIDE DEF r
  <2>7. r.pending # None \/ r.values = <<>>
    BY <2>4, <2>6
  <2>8. Reads(RegisterCall(r, fn)) = Reads(r) /\ RegisterCall(r, fn).values = <<>>
    BY <2>5, <2>7, RegisterCallReads DEF WT
  <2>9. ValuesInSteps(WriterAt) \in Seq(Values)
    <3>1. WriterAt \in WT
      BY CallbackFacts
    <3> QED
      BY <3>1, ValuesInStepsType DEF WT
  <2>10. ValuesInSteps(WriterAt) = Reads(WriterAt)
    BY <2>1, <2>8, <2>9, ConcatEmptySeq DEF Reads
  <2> QED
    BY <1>4, <1>6, <2>1, <2>3, <2>6, <2>8, <2>10
<1> QED
  BY <1>5, <1>6

(* At a transition the steps are all committed, and the last one opens a   *)
(* region: the one before it shows the baseline.                           *)
LEMMA TransitionOpensRegion ==
  ASSUME BaseInv, RegionsInv, phase = "paused", IsFunctionTransition
  PROVE  LET n == Len(WriterAt.steps)
         IN  /\ n > 1 /\ n \in Nat
             /\ WriterAt.steps[n].place = StepPlace(step_count + 1)
             /\ Gap(WriterAt.steps[n].place.line, WriterAt.steps[n - 1].place.line)
                   > NESTED_CALL_LINE_GAP_THRESHOLD
<1> DEFINE r == RegisteredIn(writer)
           new == StepPlace(step_count + 1)
           n == Len(WriterAt.steps)
<1>1. WriterAt \in WT /\ writer \in WT /\ WriterAt.pending = None
  BY CallbackFacts, CallbackMoves DEF BaseInv, TypeOK, WT
<1>2. r \in Seq(StepPlaces) /\ Len(r) \in Nat /\ Len(r) >= 1 /\ r[Len(r)].line = Baseline
  BY <1>1, PlacesFacts, ElementFacts DEF RegionsInv
<1>3. Places(WriterAt) = Append(r, new)
  <2>1. RegisteredIn(WriterAt) = Append(r, new)
    BY CallbackRegisters DEF IsFunctionTransition
  <2> QED
    BY <1>1, <2>1 DEF RegisteredIn
<1>4. /\ n \in Nat /\ Len(Places(WriterAt)) = n
      /\ \A i \in 1..n : Places(WriterAt)[i] = WriterAt.steps[i].place
  BY <1>1, PlacesFacts
<1> HIDE DEF r, new, n
<1>5. /\ Len(Append(r, new)) = Len(r) + 1 /\ Append(r, new)[Len(r) + 1] = new
      /\ \A i \in 1..Len(r) : Append(r, new)[i] = r[i]
  BY <1>2, AppendFacts
<1>6. n = Len(r) + 1 /\ n - 1 = Len(r) /\ n \in 1..n /\ n - 1 \in 1..n /\ Len(r) \in 1..Len(r)
  BY <1>2, <1>3, <1>4, <1>5
<1>7. /\ WriterAt.steps[n].place = new
      /\ WriterAt.steps[n - 1].place = r[Len(r)]
  BY <1>3, <1>4, <1>5, <1>6
<1>8. new.line = line
  BY DEF new, StepPlace
<1>9. Gap(WriterAt.steps[n].place.line, WriterAt.steps[n - 1].place.line) = Gap(line, Baseline)
  BY <1>2, <1>7, <1>8
<1> QED
  BY <1>2, <1>6, <1>7, <1>9 DEF IsFunctionTransition, new, n

(* The end commits the step that is pending, with every snapshot; when     *)
(* none is, the steps stay as they are.                                    *)
LEMMA FinishReads ==
  ASSUME BaseInv, phase = "halted"
  PROVE  /\ SnapshotsIn(WriterAtEnd) = Only(ValuesInSteps(WriterAtEnd), Regs)
         /\ writer.pending # None => SnapshotsIn(WriterAtEnd) = SnapshotsIn(writer)
         /\ writer.pending = None => WriterAtEnd.steps = writer.steps
<1> DEFINE r == RegisterReturns(WithResult, 1)
           vs == IF program_kind = "Predicate" THEN <<PredicateResult>> ELSE <<>>
<1>1. /\ writer \in WT /\ Closed \in WT /\ WithResult \in WT /\ r \in WT
      /\ vs \in Seq(Values)
      /\ WriterAtEnd = FinishWriting(r) /\ WriterAtEnd \in WT
  BY FinishFacts DEF BaseInv, TypeOK, WT
<1>2. Only(vs, Regs) = <<>>
  <2>1. PredicateResult \notin Regs
    BY DEF PredicateResult, Regs
  <2> HIDE DEF vs
  <2>2. Only(<<PredicateResult>>, Regs) = <<>> /\ Only(<<>>, Regs) = <<>>
    BY <2>1, OnlyOne, OnlyEmpty
  <2> QED
    BY <2>2 DEF vs
<1>3. /\ Reads(Closed) = Reads(writer)
      /\ writer.pending = None => Closed.steps = writer.steps /\ Closed.pending = None
      /\ writer.pending # None => Closed.pending # None \/ Closed.values = <<>>
  <2>1. /\ Reads(Closed) = Reads(writer)
        /\ nested_call_depth # 0 /\ writer.pending # None => Closed.values = <<>>
        /\ writer.pending = None => Closed.steps = writer.steps
        /\ nested_call_depth # 0 => Closed.pending = None
    BY <1>1, RegisterReturnsReads DEF WT, Closed
  <2>2. nested_call_depth = 0 => Closed = writer
    BY DEF Closed, RegisterReturns
  <2> QED
    BY <2>1, <2>2
<1>4. /\ WithResult.steps = Closed.steps /\ WithResult.pending = Closed.pending
      /\ Only(Reads(WithResult), Regs) = Only(Reads(Closed), Regs)
      /\ ValuesInSteps(WithResult) = ValuesInSteps(Closed)
  <2>1. CASE program_kind # "Predicate"
    BY <2>1 DEF WithResult
  <2>2. CASE program_kind = "Predicate"
    <3>1. WithResult = RegisterValues(Closed, vs)
      BY <2>2 DEF WithResult
    <3> HIDE DEF vs
    <3>2. /\ WithResult.steps = Closed.steps /\ WithResult.pending = Closed.pending
      BY <1>1, <3>1, RegisterValuesFacts DEF WT
    <3>3. Reads(WithResult) = Reads(Closed) \o vs /\ Reads(Closed) \in Seq(Values)
      <4>1. Reads(RegisterValues(Closed, vs)) = Reads(Closed) \o vs
        BY <1>1, RegisterValuesReads DEF WT
      <4>2. Reads(Closed) \in Seq(Values)
        BY <1>1, FlushReads DEF WT
      <4> QED
        BY <3>1, <4>1, <4>2
    <3>4. Only(Reads(Closed) \o vs, Regs) = Only(Reads(Closed), Regs) \o Only(vs, Regs)
      BY ONLY <1>1, <3>3, OnlyOfConcat, Zenon
    <3>5. Only(Reads(Closed), Regs) \o <<>> = Only(Reads(Closed), Regs)
      <4>1. Only(Reads(Closed), Regs) \in Seq(Values \intersect Regs)
        BY <3>3, OnlyType
      <4> QED
        BY <4>1, ConcatEmptySeq
    <3> QED
      BY <1>2, <3>2, <3>3, <3>4, <3>5, SameReads
  <2> QED
    BY <2>1, <2>2
<1>5. /\ Reads(r) = Reads(WithResult) /\ r.pending = None
      /\ WithResult.pending # None => r.values = <<>>
      /\ WithResult.pending = None => r.steps = WithResult.steps
  BY <1>1, RegisterReturnsReads DEF WT
<1> HIDE DEF r, vs
<1>6. WriterAtEnd.steps = r.steps /\ WriterAtEnd.values = <<>>
  <2>1. Flush(r) = r
    BY <1>5 DEF Flush
  <2> QED
    BY <1>1, <2>1, FinishWritingFacts DEF WT
<1>7. Reads(WriterAtEnd) = ValuesInSteps(WriterAtEnd) /\ ValuesInSteps(WriterAtEnd) = ValuesInSteps(r)
  <2>1. ValuesInSteps(WriterAtEnd) \in Seq(Values)
    BY <1>1, ValuesInStepsType DEF WT
  <2> QED
    BY <1>6, <2>1, ConcatEmptySeq, SameReads DEF Reads
<1>8. CASE writer.pending = None
  <2>1. WriterAtEnd.steps = writer.steps
    BY <1>3, <1>4, <1>5, <1>6, <1>8
  <2> QED
    BY <1>7, <1>8, <2>1 DEF SnapshotsIn
<1>9. CASE writer.pending # None
  <2>1. CASE Closed.pending # None
    <3>1. r.values = <<>> /\ ValuesInSteps(r) \in Seq(Values)
      BY <1>1, <1>4, <1>5, <2>1, ValuesInStepsType DEF WT
    <3>2. Reads(r) = ValuesInSteps(r)
      BY <3>1, ConcatEmptySeq DEF Reads
    <3> QED
      BY <1>3, <1>4, <1>5, <1>7, <1>9, <3>2 DEF SnapshotsIn
  <2>2. CASE Closed.pending = None
    <3>1. Closed.values = <<>> /\ ValuesInSteps(Closed) \in Seq(Values)
      BY <1>1, <1>3, <1>9, <2>2, ValuesInStepsType DEF WT
    <3>2. Reads(Closed) = ValuesInSteps(Closed)
      BY <3>1, ConcatEmptySeq DEF Reads
    <3>3. r.steps = WithResult.steps
      BY <1>4, <1>5, <2>2
    <3>4. ValuesInSteps(r) = ValuesInSteps(Closed)
      BY <1>4, <3>3, SameReads
    <3> QED
      BY <1>3, <1>7, <1>9, <3>2, <3>4 DEF SnapshotsIn
  <2> QED
    BY <2>1, <2>2
<1> QED
  BY <1>8, <1>9

LEMMA CallbackKeeps ==
  ASSUME BaseInv, RegionsInv, KeptInv, Callback
  PROVE  KeptInv'
<1> DEFINE c == step_count + 1
<1>1. /\ phase = "paused" /\ phase' = "released" /\ writer' = WriterAt
      /\ step_count' = c /\ step_count \in Nat /\ c \in Nat
      /\ WriterAt \in WT /\ writer \in WT /\ NewValues \in Seq(Values)
  BY CallbackFacts, ValuesFacts DEF Callback, BaseInv, TypeOK, WT
<1>2. SnapshotsIn(writer) = FirstSnapshots(step_count)
  BY <1>1 DEF KeptInv
<1>3. SnapshotsIn(WriterAt) = FirstSnapshots(c)
  <2>1. Reads(WriterAt) = Reads(writer) \o NewValues
    BY <1>1, CallbackReads
  <2>2. Reads(writer) \in Seq(Values)
    BY <1>1, FlushReads DEF WT
  <2>3. Only(Reads(writer) \o NewValues, Regs) = Only(Reads(writer), Regs) \o Only(NewValues, Regs)
    BY ONLY <1>1, <2>2, OnlyOfConcat, Zenon
  <2>4. Only(NewValues, Regs) = <<Snapshot(c)>>
    BY NewSnapshot DEF BaseInv
  <2>5. FirstSnapshots(step_count) \o <<Snapshot(c)>> = Append(FirstSnapshots(step_count), Snapshot(c))
    <3>1. FirstSnapshots(step_count) \in Seq(Regs) /\ Snapshot(c) \in Regs
      BY <1>1, FirstSnapshotsFacts DEF Snapshot, Regs
    <3> HIDE DEF c
    <3> QED
      BY <3>1, GrowFacts
  <2>6. Append(FirstSnapshots(step_count), Snapshot(c)) = FirstSnapshots(c)
    BY <1>1, FirstSnapshotsFacts
  <2> QED
    BY <1>2, <2>1, <2>3, <2>4, <2>5, <2>6, Zenon DEF SnapshotsIn
<1>4. CommittedInv'
  <2> SUFFICES ASSUME WriterAt.pending = None
               PROVE  /\ LastOpensRegion'
                      /\ Only(ValuesInSteps(WriterAt), Regs)
                           = FirstSnapshots(WriterAt.steps[Len(WriterAt.steps)].place.by)
    BY <1>1 DEF CommittedInv
  <2>1. CASE IsFunctionTransition
    <3>1. /\ Len(WriterAt.steps) > 1
          /\ WriterAt.steps[Len(WriterAt.steps)].place = StepPlace(c)
          /\ Gap(WriterAt.steps[Len(WriterAt.steps)].place.line,
                 WriterAt.steps[Len(WriterAt.steps) - 1].place.line)
               > NESTED_CALL_LINE_GAP_THRESHOLD
      BY <1>1, <2>1, TransitionOpensRegion
    <3>2. LastOpensRegion'
      BY <1>1, <3>1 DEF LastOpensRegion
    <3>3. Only(ValuesInSteps(WriterAt), Regs) = FirstSnapshots(c)
      BY <1>1, <1>3, <2>1, CallbackReads DEF SnapshotsIn
    <3>4. StepPlace(c).by = c
      BY DEF StepPlace
    <3> QED
      BY <3>1, <3>2, <3>3, <3>4
  <2>2. CASE prev_line = line
    <3>1. WriterAt.steps = writer.steps /\ writer.pending = None
      BY <1>1, <2>2, CallbackReads
    <3>2. /\ LastOpensRegion
          /\ Only(ValuesInSteps(writer), Regs)
               = FirstSnapshots(writer.steps[Len(writer.steps)].place.by)
      BY <1>1, <3>1 DEF KeptInv, CommittedInv, Recording
    <3>3. LastOpensRegion'
      BY <1>1, <3>1, <3>2 DEF LastOpensRegion
    <3> QED
      BY <3>1, <3>2, <3>3, SameReads
  <2>3. IsFunctionTransition \/ prev_line = line
    BY <1>1, CallbackReads
  <2> QED
    BY <2>1, <2>2, <2>3
<1>5. SnapshotsIn(writer)' = SnapshotsIn(WriterAt)
  BY <1>1 DEF SnapshotsIn, Reads, ValuesInSteps
<1> QED
  BY <1>1, <1>3, <1>4, <1>5 DEF KeptInv

LEMMA FinishKeeps ==
  ASSUME BaseInv, KeptInv, Finish
  PROVE  KeptInv'
<1>1. /\ phase = "halted" /\ phase' \in {"closed", "failed"} /\ writer' = WriterAtEnd
      /\ step_count' = step_count /\ step_count \in Nat /\ writer \in WT
  BY DEF Finish, BaseInv, TypeOK, WT
<1>2. SnapshotsIn(writer) = FirstSnapshots(step_count)
  BY <1>1 DEF KeptInv
<1>3. CommittedInv'
  BY <1>1 DEF CommittedInv, Recording
<1>4. SnapshotsIn(writer)' = SnapshotsIn(WriterAtEnd)
  BY <1>1 DEF SnapshotsIn, Reads, ValuesInSteps
<1>5. CASE writer.pending # None
  <2>1. SnapshotsIn(WriterAtEnd) = FirstSnapshots(step_count)
    BY <1>1, <1>2, <1>5, FinishReads
  <2> QED
    BY <1>1, <1>3, <1>4, <2>1 DEF KeptInv
<1>6. CASE writer.pending = None
  <2> DEFINE n == writer.steps[Len(writer.steps)].place.by
  <2>1. LastOpensRegion /\ Only(ValuesInSteps(writer), Regs) = FirstSnapshots(n)
    BY <1>1, <1>6 DEF KeptInv, CommittedInv, Recording
  <2>2. n \in Nat
    <3>1. writer.steps \in Seq([place : StepPlaces, values : Seq(Values)])
      BY <1>1 DEF WT, WriterType
    <3>2. Len(writer.steps) \in 1..Len(writer.steps)
      BY <2>1, <3>1, ElementFacts DEF LastOpensRegion
    <3>3. writer.steps[Len(writer.steps)] \in [place : StepPlaces, values : Seq(Values)]
      BY <3>1, <3>2, ElementFacts
    <3> QED
      BY <3>3 DEF StepPlaces
  <2>3. WriterAtEnd.steps = writer.steps
    BY <1>1, <1>6, FinishReads
  <2>4. SnapshotsIn(WriterAtEnd) = FirstSnapshots(n)
    BY <1>1, <2>1, <2>3, FinishReads, SameReads
  <2>5. LastOpensRegion' /\ n = writer'.steps[Len(writer'.steps)].place.by
    BY <1>1, <2>1, <2>3 DEF LastOpensRegion
  <2> HIDE DEF n
  <2> QED
    BY <1>1, <1>3, <1>4, <2>2, <2>4, <2>5 DEF KeptInv
<1> QED
  BY <1>5, <1>6

LEMMA KeptInvStep == BaseInv /\ RegionsInv /\ KeptInv /\ [Next]_vars => KeptInv'
<1> SUFFICES ASSUME BaseInv, RegionsInv, KeptInv, [Next]_vars
             PROVE  KeptInv'
  OBVIOUS
<1>1. CASE Begin
  <2> DEFINE entry == [path |-> SourcePath, line |-> 1, by |-> 0]
  <2>1. /\ writer' = Start(Toplevel, entry)
        /\ step_count' = 0
    BY <1>1 DEF Begin, BaseInv, Untouched
  <2>2. entry \in StepPlaces /\ entry # None
    BY PlaceAssumption, MarkAssumption DEF StepPlaces
  <2> HIDE DEF entry
  <2>3. /\ Start(Toplevel, entry) \in WT
        /\ Start(Toplevel, entry).steps = <<>> /\ Start(Toplevel, entry).values = <<>>
        /\ Start(Toplevel, entry).pending = entry
    BY <2>2 DEF Start, WT, WriterType, FunctionName
  <2>4. SnapshotsIn(Start(Toplevel, entry)) = FirstSnapshots(0)
    BY <2>3, NothingRead
  <2>5. SnapshotsIn(writer)' = SnapshotsIn(Start(Toplevel, entry))
    BY <2>1 DEF SnapshotsIn, Reads, ValuesInSteps
  <2>6. CommittedInv'
    BY <2>1, <2>2, <2>3 DEF CommittedInv
  <2> QED
    BY <2>1, <2>4, <2>5, <2>6 DEF KeptInv
<1>2. CASE Callback
  BY <1>2, CallbackKeeps
<1>3. CASE Finish
  BY <1>3, FinishKeeps
<1>4. CASE Advance \/ Halt \/ BeginFails \/ Transact \/ RunFails \/ Done \/ UNCHANGED vars
  <2>1. /\ UNCHANGED <<writer, step_count>>
        /\ phase \in {"closed", "failed"} => phase' \in {"closed", "failed"}
        /\ Recording' => Recording
    BY <1>4 DEF Advance, Running, Halt, BeginFails, Transact, RunFails, Done, vars, recVars,
                Recording
  <2>2. CommittedInv'
    BY <2>1 DEF KeptInv, CommittedInv, LastOpensRegion, ValuesInSteps
  <2>3. SnapshotsIn(writer)' = SnapshotsIn(writer)
    BY <2>1 DEF SnapshotsIn, Reads, ValuesInSteps
  <2>4. LastOpensRegion' <=> LastOpensRegion
    BY <2>1 DEF LastOpensRegion
  <2> QED
    BY <2>1, <2>2, <2>3, <2>4 DEF KeptInv
<1> QED
  BY <1>1, <1>2, <1>3, <1>4 DEF Next, VM, Recorder

(* A reader of all steps meets the snapshots of the program's instructions *)
(* once each and in the order they executed, for every program and source  *)
(* map.  The only ones missing are those taken after a last step that      *)
(* opened a region, and only from a trace that has been finished.          *)
THEOREM SnapshotsAlwaysKeptInOrder == Spec => []SnapshotsKeptInOrder
<1>1. Init => KeptInv
  <2> SUFFICES ASSUME Init PROVE KeptInv
    OBVIOUS
  <2>1. writer \in WT /\ writer.steps = <<>> /\ writer.values = <<>>
    BY DEF Init, Created, WT, WriterType
  <2>2. SnapshotsIn(writer) = FirstSnapshots(0) /\ step_count = 0 /\ ~Recording
    BY <2>1, NothingRead DEF Init, Recording
  <2> QED
    BY <2>2 DEF KeptInv, CommittedInv
<1>2. BaseInv /\ RegionsInv /\ KeptInv /\ [Next]_vars => KeptInv'
  BY KeptInvStep
<1>3. KeptInv => SnapshotsKeptInOrder
  BY KeptMeans
<1> QED
  BY <1>1, <1>2, <1>3, BaseInvariant, RegionsInvariant, PTL DEF Spec
==============================================================================
