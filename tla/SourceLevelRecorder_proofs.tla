--------------------- MODULE SourceLevelRecorder_proofs ---------------------
(***************************************************************************)
(* Theorems about SourceLevelRecorder for every set of programs, locations *)
(* and gas limit that its assumptions allow.                               *)
(*                                                                         *)
(* The argument: the closure pops the frames that return to the current    *)
(* address, so everything rests on which frames those are.  Calls go up in *)
(* rank (StackOrdered), hence no two open frames return to one address and *)
(* none returns to where the running function is; the while loop pops the  *)
(* one frame that ended, or none.                                          *)
(***************************************************************************)
EXTENDS SourceLevelRecorder, TraceWriter_proofs, SequenceFacts_proofs

WT == WriterType(FunctionName, Loc, {})

------------------------------------------------------------------------------
(* The while loop.                                                         *)

(* Survivors is what the loop leaves: the frames above it return to a, and *)
(* the last one left is the top-level frame or returns elsewhere.          *)
LEMMA SurvivorsFacts ==
  ASSUME NEW fs \in Seq(FrameType), fs # <<>>, NEW a
  PROVE  /\ Survivors(fs, a) \in 1..Len(fs)
         /\ Survivors(fs, a) = 1 \/ fs[Survivors(fs, a)].return_addr # a
         /\ \A m \in (Survivors(fs, a) + 1)..Len(fs) : fs[m].return_addr = a
<1> DEFINE A == {n \in 1..Len(fs) : n = 1 \/ fs[n].return_addr # a}
           P(n) == /\ n = 1 \/ fs[n].return_addr # a
                   /\ \A m \in (n + 1)..Len(fs) : fs[m].return_addr = a
<1>1. Len(fs) \in Nat /\ 1 \in 1..Len(fs)
  OBVIOUS
<1>2. A \subseteq 1..Len(fs) /\ A # {}
  BY <1>1
<1>3. PICK n \in A : \A k \in A : k <= n
  <2> HIDE DEF A
  <2> QED BY <1>1, <1>2, LargestExists
<1>4. n \in 1..Len(fs) /\ P(n)
  BY <1>1, <1>3
<1>5. Survivors(fs, a) = CHOOSE k \in 1..Len(fs) : P(k)
  BY DEF Survivors
<1>6. Survivors(fs, a) \in 1..Len(fs) /\ P(Survivors(fs, a))
  <2> HIDE DEF P
  <2> QED BY <1>4, <1>5
<1> QED
  BY <1>6

(* The frames after the loop: as many as survive, their addresses kept. *)
LEMMA ReturnedFacts ==
  ASSUME NEW fs \in Seq(FrameType), fs # <<>>, NEW a
  PROVE  /\ Returned(fs, a) \in Seq(FrameType)
         /\ Len(Returned(fs, a)) = Survivors(fs, a)
         /\ \A i \in 1..Survivors(fs, a) :
              Returned(fs, a)[i].return_addr = fs[i].return_addr
         /\ Top(Returned(fs, a)).last =
              IF Survivors(fs, a) = Len(fs) THEN Top(fs).last ELSE None
<1> DEFINE n == Survivors(fs, a)
<1>1. n \in 1..Len(fs) /\ Len(fs) \in Nat
  BY SurvivorsFacts
<1> HIDE DEF n
<1>2. CASE n = Len(fs)
  BY <1>1, <1>2 DEF Returned, Top, n
<1>3. CASE n # Len(fs)
  <2> DEFINE kept == SubSeq(fs, 1, n)
             top == [kept[n] EXCEPT !.last = None]
  <2>1. /\ kept \in Seq(FrameType)
        /\ Len(kept) = n
        /\ \A i \in 1..n : kept[i] = fs[i]
    BY <1>1
  <2>2. Returned(fs, a) = [kept EXCEPT ![n] = top]
    BY <1>3 DEF Returned, n
  <2>3. /\ top \in FrameType
        /\ top.return_addr = fs[n].return_addr
        /\ top.last = None
    <3>1. kept[n] \in FrameType /\ kept[n] = fs[n]
      BY <1>1, <2>1
    <3> HIDE DEF kept
    <3> QED BY <3>1 DEF FrameType
  <2> HIDE DEF kept, top
  <2>4. /\ [kept EXCEPT ![n] = top] \in Seq(FrameType)
        /\ Len([kept EXCEPT ![n] = top]) = n
        /\ \A i \in 1..n : [kept EXCEPT ![n] = top][i] =
                             IF i = n THEN top ELSE kept[i]
    BY <1>1, <2>1, <2>3
  <2> QED
    BY <1>1, <1>3, <2>1, <2>2, <2>3, <2>4 DEF Top, n
<1> QED
  BY <1>2, <1>3

------------------------------------------------------------------------------
(* Types, balance, and the recorder's idea of the writer's position.       *)

BaseInv == TypeOK /\ CallsBalanced /\ LastIsPending

(* What the assumptions say of the program being recorded. *)
LEMMA ProgramFacts ==
  ASSUME NEW p \in Programs
  PROVE  /\ p.first \in Loc
         /\ \A a \in Addr :
              /\ p.loc[a] \in Loc \union {None}
              /\ p.next[a] \subseteq Addr
              /\ p.callee[a] \in Addr
              /\ p.fn[a] \in Fn
              /\ p.rank[p.fn[a]] \in Nat
              /\ p.op[a] = "call" => a + 1 \in Addr
         /\ \A l \in Loc : p.decl[l] \in Fn \union {None}
<1>1. p \in Program /\ WellFormed(p)
  BY ProgramAssumption
<1> QED
  BY <1>1 DEF Program, WellFormed

(* The frames and the writer once the closure has closed what ended and    *)
(* opened what began: still as many calls as frames, and the top frame's   *)
(* last location still the pending step.                                   *)
LEMMA CallbackFacts ==
  ASSUME BaseInv, phase = "paused"
  PROVE  /\ FramesAt \in Seq(FrameType) /\ FramesAt # <<>>
         /\ WriterAt \in WT
         /\ Len(WriterAt.open) = Len(FramesAt)
         /\ WriterAt.unmatched = 0
         /\ Top(FramesAt).last = WriterAt.pending
<1> DEFINE n == Survivors(frames, pc)
           ret == Returned(frames, pc)
           w == RegisterReturns(writer, Len(frames) - n)
<1>1. /\ frames \in Seq(FrameType) /\ frames # <<>>
      /\ writer \in WT /\ writer.open \in Seq(FunctionName)
      /\ Len(writer.open) = Len(frames)
      /\ writer.unmatched = 0
      /\ Top(frames).last = writer.pending
      /\ pending_call \in Nat \union {None}
      /\ prog \in Programs /\ pc \in Addr
  BY DEF BaseInv, TypeOK, CallsBalanced, LastIsPending, Recording, WT, WriterType
<1>2. n \in 1..Len(frames)
  BY <1>1, SurvivorsFacts
<1>3. /\ ret \in Seq(FrameType)
      /\ Len(ret) = n
      /\ Top(ret).last = IF n = Len(frames) THEN Top(frames).last ELSE None
  BY <1>1, ReturnedFacts
<1> HIDE DEF n, ret
<1>4. Len(frames) - n \in 0..Len(writer.open)
  BY <1>1, <1>2
<1>5. /\ w \in WT
      /\ Len(w.open) = n
      /\ w.unmatched = 0
      /\ w.pending = Top(ret).last
  BY <1>1, <1>2, <1>3, <1>4, RegisterReturnsFacts DEF WT
<1> HIDE DEF w
<1>6. CASE pending_call = None
  <2>1. FramesAt = ret /\ WriterAt = w
    BY <1>6 DEF FramesAt, Entered, WriterAt, ret, w, n
  <2> QED
    BY <1>2, <1>3, <1>5, <2>1
<1>7. CASE pending_call # None
  <2> DEFINE name == NameFor(prog.loc[pc])
             fr == [return_addr |-> pending_call, last |-> None]
  <2>1. FramesAt = Append(ret, fr) /\ WriterAt = RegisterCall(w, name)
    BY <1>7 DEF FramesAt, Entered, WriterAt, ret, w, n
  <2>2. name \in FunctionName
    BY <1>1, ProgramFacts DEF NameFor, FunctionName
  <2>3. fr \in FrameType /\ fr.last = None
    BY <1>1, <1>7 DEF FrameType
  <2> HIDE DEF name, fr
  <2>4. /\ RegisterCall(w, name) \in WT
        /\ RegisterCall(w, name).open = Append(w.open, name)
        /\ RegisterCall(w, name).unmatched = w.unmatched
        /\ RegisterCall(w, name).pending = None
    BY <1>5, <2>2, RegisterCallFacts DEF WT
  <2>5. w.open \in Seq(FunctionName)
    BY <1>5 DEF WT, WriterType
  <2>6. /\ Append(ret, fr) \in Seq(FrameType)
        /\ Len(Append(ret, fr)) = n + 1
        /\ Append(ret, fr)[n + 1] = fr
        /\ Len(Append(w.open, name)) = n + 1
    BY <1>2, <1>3, <1>5, <2>2, <2>3, <2>5
  <2> QED
    BY <1>2, <1>5, <2>1, <2>3, <2>4, <2>6 DEF Top
<1> QED
  BY <1>6, <1>7

(* The receipts the VM appends, and how many of them have been seen. *)
LEMMA ReceiptsGrow ==
  ASSUME TypeOK, NEW rs \in Seq([kind : ReceiptKinds, pc : Addr])
  PROVE  /\ receipts \o rs \in Seq([kind : ReceiptKinds, pc : Addr])
         /\ seen \in 0..Len(receipts \o rs)
BY DEF TypeOK

(* Every step keeps the types, the balance and the position. *)
LEMMA BaseInvStep == BaseInv /\ [Next]_vars => BaseInv'
<1> SUFFICES ASSUME BaseInv, [Next]_vars
             PROVE  BaseInv'
  OBVIOUS
<1> USE DEF BaseInv
<1>a. /\ prog \in Programs /\ pc \in Addr
      /\ \A a \in Addr :
           /\ prog.next[a] \subseteq Addr
           /\ prog.callee[a] \in Addr
           /\ prog.loc[a] \in Loc \union {None}
           /\ prog.op[a] = "call" => a + 1 \in Addr
      /\ prog.first \in Loc
  BY ProgramFacts DEF TypeOK
<1>b. \A k \in ReceiptKinds : Receipt(k) \in [kind : ReceiptKinds, pc : Addr]
  BY DEF TypeOK, Receipt
<1>c. stack # <<>> =>
        /\ stack[Len(stack)] \in [ret : Addr, callee : Addr]
        /\ SubSeq(stack, 1, Len(stack) - 1) \in Seq([ret : Addr, callee : Addr])
  <2> DEFINE Call == [ret : Addr, callee : Addr]
  <2>1. stack \in Seq(Call)
    BY DEF TypeOK
  <2> HIDE DEF Call
  <2>2. stack # <<>> => Len(stack) \in Nat \ {0}
    BY <2>1
  <2>3. stack # <<>> => stack[Len(stack)] \in Call
    BY <2>1, <2>2
  <2>4. stack # <<>> => SubSeq(stack, 1, Len(stack) - 1) \in Seq(Call)
    BY <2>1, <2>2
  <2> QED BY <2>3, <2>4 DEF Call
<1>d. Running => phase = "released" /\ Recording
  BY DEF Running, Recording
<1>e. Running => gas' \in 0..GasLimit /\ phase' \in Phases /\ phase' # "closed"
  BY GasAssumption DEF Running, TypeOK, Phases
<1>1. CASE Advance
  <2>1. pc' \in Addr
    BY <1>1, <1>a DEF Advance
  <2>2. /\ receipts' \in Seq([kind : ReceiptKinds, pc : Addr])
        /\ seen \in 0..Len(receipts')
    <3>1. CASE prog.op[pc] = "log"
      <4>1. receipts' = Append(receipts, Receipt("Log"))
        BY <1>1, <3>1 DEF Advance
      <4>2. Receipt("Log") \in [kind : ReceiptKinds, pc : Addr]
        BY <1>b DEF ReceiptKinds
      <4> QED BY <4>1, <4>2 DEF TypeOK
    <3>2. CASE prog.op[pc] # "log"
      BY <1>1, <3>2 DEF Advance, TypeOK
    <3> QED BY <3>1, <3>2
  <2> QED
    BY <1>1, <1>d, <1>e, <2>1, <2>2
    DEF Advance, recVars, TypeOK, CallsBalanced, LastIsPending, Top
<1>2. CASE JumpAndLink
  <2>1. pc' \in Addr /\ stack' \in Seq([ret : Addr, callee : Addr])
    BY <1>2, <1>a DEF JumpAndLink, TypeOK
  <2> QED
    BY <1>2, <1>d, <1>e, <2>1
    DEF JumpAndLink, recVars, TypeOK, CallsBalanced, LastIsPending, Top
<1>3. CASE JumpBack
  <2>1. pc' \in Addr /\ stack' \in Seq([ret : Addr, callee : Addr])
    BY <1>3, <1>c DEF JumpBack
  <2> QED
    BY <1>3, <1>d, <1>e, <2>1
    DEF JumpBack, recVars, TypeOK, CallsBalanced, LastIsPending, Top
<1>4. CASE Halt
  <2>1. /\ receipts' \in Seq([kind : ReceiptKinds, pc : Addr])
        /\ seen \in 0..Len(receipts')
    <3>1. PICK k \in {"Return", "Revert", "Panic"} :
            receipts' = receipts \o <<Receipt(k), Receipt("ScriptResult")>>
      BY <1>4 DEF Halt
    <3>2. <<Receipt(k), Receipt("ScriptResult")>> \in Seq([kind : ReceiptKinds, pc : Addr])
      BY <1>b DEF ReceiptKinds
    <3> QED BY <3>1, <3>2, ReceiptsGrow
  <2> QED
    BY <1>4, <1>d, <2>1
    DEF Halt, recVars, TypeOK, CallsBalanced, LastIsPending, Recording, Phases
<1>5. CASE Begin
  <2> DEFINE fr == [return_addr |-> EndOfScript, last |-> prog.first]
  <2>1. fr \in FrameType
    BY <1>a, MarkAssumption DEF FrameType
  <2>2. <<fr>> \in Seq(FrameType) /\ Len(<<fr>>) = 1 /\ <<fr>>[1] = fr
    BY <2>1
  <2>3. /\ Start(Toplevel, prog.first) \in WT
        /\ Start(Toplevel, prog.first).unmatched = 0
        /\ Len(Start(Toplevel, prog.first).open) = 1
        /\ Start(Toplevel, prog.first).pending = prog.first
    BY <1>a DEF Start, WT, WriterType, FunctionName
  <2> QED
    BY <1>5, <2>2, <2>3
    DEF Begin, vmVars, TypeOK, CallsBalanced, LastIsPending, Recording, Phases, Top, WT
<1>6. CASE BeginFails
  BY <1>6 DEF BeginFails, vmVars, recVars, TypeOK, CallsBalanced, LastIsPending,
              Recording, Phases
<1>7. CASE Transact
  BY <1>7 DEF Transact, vmVars, recVars, TypeOK, CallsBalanced, LastIsPending,
              Recording, Phases
<1>8. CASE RunFails
  BY <1>8 DEF RunFails, vmVars, recVars, TypeOK, CallsBalanced, LastIsPending,
              Recording, Phases
<1>9. CASE Callback
  <2>1. /\ FramesAt \in Seq(FrameType) /\ FramesAt # <<>>
        /\ WriterAt \in WT
        /\ Len(WriterAt.open) = Len(FramesAt)
        /\ WriterAt.unmatched = 0
        /\ Top(FramesAt).last = WriterAt.pending
    BY <1>9, CallbackFacts DEF Callback
  <2>2. /\ frames' \in Seq(FrameType) /\ Len(frames') >= 1
        /\ writer' \in WT
        /\ Len(writer'.open) = Len(frames')
        /\ writer'.unmatched = 0
        /\ Top(frames').last = writer'.pending
    <3> DEFINE N == Len(FramesAt)
               top == [FramesAt[N] EXCEPT !.last = prog.loc[pc]]
    <3>1. N \in Nat \ {0} /\ FramesAt[N] \in FrameType
      BY <2>1
    <3>2. CASE IsStep(FramesAt)
      <4>1. prog.loc[pc] \in Loc
        BY <1>a, <3>2 DEF IsStep
      <4>2. top \in FrameType /\ top.last = prog.loc[pc]
        BY <3>1, <4>1 DEF FrameType
      <4>3. frames' = [FramesAt EXCEPT ![N] = top]
        BY <1>9, <3>2 DEF Callback
      <4>4. writer' = RegisterStep(WriterAt, prog.loc[pc])
        BY <1>9, <3>2 DEF Callback
      <4>5. /\ writer' \in WT
            /\ writer'.open = WriterAt.open
            /\ writer'.unmatched = 0
            /\ writer'.pending = prog.loc[pc]
        BY <2>1, <4>1, <4>4, RegisterStepFacts DEF WT
      <4> HIDE DEF top
      <4>6. /\ frames' \in Seq(FrameType)
            /\ Len(frames') = N
            /\ frames'[N] = top
        BY <2>1, <3>1, <4>2, <4>3
      <4> QED
        BY <2>1, <3>1, <4>2, <4>5, <4>6 DEF Top
    <3>3. CASE ~IsStep(FramesAt)
      BY <1>9, <2>1, <3>1, <3>3 DEF Callback
    <3> QED
      BY <3>2, <3>3
  <2>3. pending_call' \in Nat \union {None}
    BY <1>9, <1>a, AddrAssumption DEF Callback, PendingAfter
  <2>4. UNCHANGED <<prog, pc, stack, receipts, gas>> /\ phase' = "released" /\ seen' = Len(receipts)
    BY <1>9 DEF Callback, vmVars
  <2>5. TypeOK'
    BY <2>2, <2>3, <2>4 DEF TypeOK, Phases, WT
  <2> QED
    BY <2>2, <2>4, <2>5 DEF CallsBalanced, LastIsPending
<1>10. CASE Finish
  <2> DEFINE r == RegisterReturns(writer, Len(frames))
  <2>1. /\ writer \in WT /\ writer.unmatched = 0
        /\ Len(writer.open) = Len(frames) /\ Len(frames) \in Nat
    BY <1>10 DEF Finish, TypeOK, CallsBalanced, Recording, WT
  <2>2. /\ r \in WT /\ r.unmatched = 0
        /\ r.open = SubSeq(writer.open, 1, Len(writer.open) - Len(frames))
    BY <2>1, RegisterReturnsFacts DEF WT
  <2>3. writer.open \in Seq(FunctionName)
    BY <2>1 DEF WT, WriterType
  <2>4. r.open = <<>>
    BY <2>1, <2>2, <2>3
  <2> HIDE DEF r
  <2>5. /\ FinishWriting(r) \in WT /\ FinishWriting(r).open = <<>>
        /\ FinishWriting(r).unmatched = 0
    BY <2>2, <2>4, FinishWritingFacts DEF WT
  <2>6. writer' = FinishWriting(r)
    BY <1>10 DEF Finish, r
  <2> QED
    BY <1>10, <2>5, <2>6
    DEF Finish, vmVars, TypeOK, CallsBalanced, LastIsPending, Recording, Phases, WT
<1>11. CASE Done
  BY <1>11 DEF Done, vars, vmVars, recVars, TypeOK, CallsBalanced, LastIsPending, Recording
<1>12. CASE UNCHANGED vars
  BY <1>12 DEF vars, vmVars, recVars, TypeOK, CallsBalanced, LastIsPending, Recording
<1> QED
  BY <1>1, <1>2, <1>3, <1>4, <1>5, <1>6, <1>7, <1>8, <1>9, <1>10, <1>11, <1>12
  DEF Next, VM, Recorder

(* Before anything has run, the types hold and nothing is open. *)
LEMMA BaseInvInit == Init => BaseInv
<1> SUFFICES ASSUME Init PROVE BaseInv
  OBVIOUS
<1>1. prog.first \in Loc
  BY ProgramFacts DEF Init
<1>2. writer \in WT /\ writer.unmatched = 0
  BY <1>1 DEF Init, Created, WT, WriterType, FunctionName
<1> QED
  BY <1>2, AddrAssumption, GasAssumption
  DEF Init, BaseInv, TypeOK, CallsBalanced, LastIsPending, Recording, Phases, WT

LEMMA BaseInvariant == Spec => []BaseInv
BY BaseInvInit, BaseInvStep, PTL DEF Spec

(* Every variable of the recorder and the VM keeps its type, for every     *)
(* program the assumptions allow.                                          *)
THEOREM TypeCorrect == Spec => []TypeOK
BY BaseInvariant, PTL DEF BaseInv

(* Calls and returns balance: the writer's open calls are the recorder's   *)
(* frames, no return is unmatched, and a finished trace has none open.     *)
THEOREM CallsAlwaysBalanced == Spec => []CallsBalanced
BY BaseInvariant, PTL DEF BaseInv

(* The recorder's cached last location is the writer's pending step. *)
THEOREM LastAlwaysPending == Spec => []LastIsPending
BY BaseInvariant, PTL DEF BaseInv

------------------------------------------------------------------------------
(* The frames are the program's call stack.                                *)

(* Control stays inside a function except at a call, which goes up in rank. *)
LEMMA RankFacts ==
  ASSUME NEW p \in Programs, NEW a \in Addr
  PROVE  /\ p.op[a] \in {"plain", "log"} => \A b \in p.next[a] : p.fn[b] = p.fn[a]
         /\ p.op[a] = "call" =>
              /\ p.fn[a + 1] = p.fn[a]
              /\ p.rank[p.fn[p.callee[a]]] > p.rank[p.fn[a]]
<1>1. WellFormed(p)
  BY ProgramAssumption
<1> QED
  BY <1>1 DEF WellFormed

Rank(a) == prog.rank[prog.fn[a]]

(* What every call on the stack has below the running function. *)
LEMMA StackFacts ==
  ASSUME TypeOK, StackOrdered
  PROVE  /\ Rank(pc) \in Nat
         /\ \A i \in 1..Len(stack) :
              /\ stack[i].ret \in Addr
              /\ Rank(stack[i].ret) \in Nat
              /\ Rank(stack[i].ret) < Rank(pc)
              /\ stack[i].ret # pc
              /\ \A j \in (i + 1)..Len(stack) : Rank(stack[i].ret) < Rank(stack[j].ret)
<1>1. \A a \in Addr : Rank(a) \in Nat
  BY ProgramFacts DEF TypeOK, Rank
<1>2. \A i \in 1..Len(stack) : stack[i] \in [ret : Addr, callee : Addr]
  BY ElementFacts DEF TypeOK
<1>3. \A i \in 1..Len(stack) :
        /\ Rank(stack[i].ret) < Rank(pc)
        /\ \A j \in (i + 1)..Len(stack) : Rank(stack[i].ret) < Rank(stack[j].ret)
  BY DEF StackOrdered, Rank
<1>4. pc \in Addr
  BY DEF TypeOK
<1>5. \A i \in 1..Len(stack) : stack[i].ret \in Addr
  BY <1>2
<1>6. \A i \in 1..Len(stack) : stack[i].ret # pc
  BY <1>1, <1>3, <1>4
<1> QED
  BY <1>1, <1>3, <1>4, <1>5, <1>6

(* The VM's steps keep the order of the stack. *)
LEMMA StackOrderedStep ==
  ASSUME TypeOK, StackOrdered, PendingCallFresh, [Next]_vars
  PROVE  StackOrdered'
<1>1. /\ pc \in Addr /\ prog \in Programs
      /\ stack \in Seq([ret : Addr, callee : Addr]) /\ Len(stack) \in Nat
  BY DEF TypeOK
<1>2. CASE Advance
  <2>1. prog' = prog /\ stack' = stack /\ prog.fn[pc'] = prog.fn[pc]
    BY <1>1, <1>2, RankFacts DEF Advance
  <2> QED
    BY <2>1 DEF StackOrdered
<1>3. CASE JumpAndLink
  <2> DEFINE call == [ret |-> pc + 1, callee |-> prog.callee[pc]]
  <2>1. /\ prog' = prog /\ pc' = prog.callee[pc] /\ stack' = Append(stack, call)
        /\ prog.op[pc] = "call"
    BY <1>3 DEF JumpAndLink
  <2>2. /\ pc + 1 \in Addr /\ prog.callee[pc] \in Addr
        /\ Rank(pc + 1) = Rank(pc) /\ Rank(pc') > Rank(pc)
        /\ Rank(pc') \in Nat
    BY <1>1, <2>1, RankFacts, ProgramFacts DEF Rank
  <2>3. call.ret = pc + 1 /\ call \in [ret : Addr, callee : Addr]
    BY <2>2
  <2> HIDE DEF call
  <2>4. /\ Len(stack') = Len(stack) + 1
        /\ stack'[Len(stack) + 1] = call
        /\ \A i \in 1..Len(stack) : stack'[i] = stack[i]
    BY <1>1, <2>1, <2>3
  <2>5. /\ Rank(pc) \in Nat
        /\ \A i \in 1..Len(stack) :
             /\ Rank(stack[i].ret) \in Nat
             /\ Rank(stack[i].ret) < Rank(pc)
             /\ \A j \in (i + 1)..Len(stack) : Rank(stack[i].ret) < Rank(stack[j].ret)
    BY StackFacts
  <2>6. ASSUME NEW i \in 1..Len(stack')
        PROVE  /\ Rank(stack'[i].ret) < Rank(pc')
               /\ \A j \in (i + 1)..Len(stack') :
                    Rank(stack'[i].ret) < Rank(stack'[j].ret)
    <3>1. CASE i = Len(stack) + 1
      BY <1>1, <2>2, <2>3, <2>4, <2>5, <3>1
    <3>2. CASE i # Len(stack) + 1
      <4>1. i \in 1..Len(stack) /\ stack'[i] = stack[i]
        BY <1>1, <2>4, <3>2
      <4>2. Rank(stack'[i].ret) < Rank(pc')
        BY <2>2, <2>5, <4>1
      <4>3. ASSUME NEW j \in (i + 1)..Len(stack')
            PROVE  Rank(stack'[i].ret) < Rank(stack'[j].ret)
        <5>1. CASE j = Len(stack) + 1
          BY <2>2, <2>3, <2>4, <2>5, <4>1, <5>1
        <5>2. CASE j # Len(stack) + 1
          <6>1. j \in (i + 1)..Len(stack) /\ j \in 1..Len(stack)
            BY <1>1, <2>4, <4>1, <5>2
          <6> QED
            BY <2>4, <2>5, <4>1, <6>1
        <5> QED
          BY <5>1, <5>2
      <4> QED
        BY <4>2, <4>3
    <3> QED
      BY <3>1, <3>2
  <2> QED
    BY <2>1, <2>6 DEF StackOrdered, Rank
<1>4. CASE JumpBack
  <2> DEFINE n == Len(stack) - 1
  <2>1. /\ prog' = prog /\ stack # <<>>
        /\ pc' = stack[n + 1].ret /\ stack' = SubSeq(stack, 1, n)
    BY <1>1, <1>4 DEF JumpBack
  <2>2. /\ n \in Nat /\ Len(stack') = n /\ n + 1 \in 1..Len(stack)
        /\ \A i \in 1..n : stack'[i] = stack[i]
    BY <1>1, <2>1, PopFacts
  <2>3. \A i \in 1..n :
          /\ i \in 1..Len(stack)
          /\ n + 1 \in (i + 1)..Len(stack)
          /\ \A j \in (i + 1)..n : j \in (i + 1)..Len(stack)
    BY <2>2
  <2>4. \A i \in 1..Len(stack) : \A j \in (i + 1)..Len(stack) :
          Rank(stack[i].ret) < Rank(stack[j].ret)
    BY DEF StackOrdered, Rank
  <2>5. ASSUME NEW i \in 1..Len(stack')
        PROVE  /\ Rank(stack'[i].ret) < Rank(pc')
               /\ \A j \in (i + 1)..Len(stack') :
                    Rank(stack'[i].ret) < Rank(stack'[j].ret)
    <3>1. Rank(stack'[i].ret) < Rank(pc')
      BY <2>1, <2>2, <2>3, <2>4
    <3>2. ASSUME NEW j \in (i + 1)..Len(stack')
          PROVE  Rank(stack'[i].ret) < Rank(stack'[j].ret)
      <4>1. j \in 1..n /\ j \in (i + 1)..Len(stack)
        BY <2>2, <2>3
      <4> QED
        BY <2>2, <2>3, <2>4, <4>1
    <3> QED
      BY <3>1, <3>2
  <2> QED
    BY <2>1, <2>5 DEF StackOrdered, Rank
<1>5. CASE Recorder \/ Halt \/ Done \/ UNCHANGED vars
  <2>1. prog' = prog /\ pc' = pc /\ stack' = stack
    BY <1>5 DEF Recorder, Begin, BeginFails, Transact, RunFails, Callback, Finish,
                Halt, Done, vars, vmVars
  <2> QED
    BY <2>1 DEF StackOrdered
<1> QED
  BY <1>2, <1>3, <1>4, <1>5 DEF Next, VM

(* At a breakpoint the loop pops the frame the last instruction returned   *)
(* from, if it returned, and nothing else.                                 *)
LEMMA SurvivorsAre ==
  ASSUME BaseInv, StackInv, phase = "paused"
  PROVE  /\ Len(stack) # Len(frames) - 2 => Survivors(frames, pc) = Len(frames)
         /\ Len(stack) = Len(frames) - 2 => Survivors(frames, pc) = Len(frames) - 1
<1> DEFINE n == Survivors(frames, pc)
<1>1. /\ frames \in Seq(FrameType) /\ frames # <<>>
      /\ Len(frames) \in Nat /\ Len(stack) \in Nat
  BY ElementFacts DEF BaseInv, TypeOK, CallsBalanced, Recording
<1>2. /\ n \in 1..Len(frames)
      /\ n = 1 \/ frames[n].return_addr # pc
      /\ \A m \in (n + 1)..Len(frames) : frames[m].return_addr = pc
  BY <1>1, SurvivorsFacts
<1> HIDE DEF n
<1>3. \A i \in 1..Len(stack) :
        stack[i].ret # pc /\ (i < Len(frames) => frames[i + 1].return_addr = stack[i].ret)
  BY StackFacts DEF BaseInv, StackInv, FramesAwaiting
<1>4. \/ Len(stack) = Len(frames) \/ Len(stack) = Len(frames) - 1
      \/ Len(stack) = Len(frames) - 2 /\ frames[Len(frames)].return_addr = pc
  BY DEF StackInv, FramesAwaiting, Top
<1>5. \A m \in 2..Len(frames) :
        m - 1 <= Len(stack) => frames[m].return_addr # pc
  <2> SUFFICES ASSUME NEW m \in 2..Len(frames), m - 1 <= Len(stack)
               PROVE  frames[m].return_addr # pc
    OBVIOUS
  <2>1. m - 1 \in 1..Len(stack) /\ m - 1 < Len(frames) /\ (m - 1) + 1 = m
    BY <1>1
  <2> QED
    BY <1>3, <2>1
<1>6. ASSUME Len(stack) # Len(frames) - 2 PROVE n = Len(frames)
  <2> SUFFICES ASSUME n < Len(frames) PROVE FALSE
    BY <1>1, <1>2
  <2>1. Len(frames) \in (n + 1)..Len(frames) /\ Len(frames) \in 2..Len(frames)
    BY <1>1, <1>2
  <2>2. Len(frames) - 1 <= Len(stack)
    BY <1>1, <1>4, <1>6
  <2> QED
    BY <1>2, <1>5, <2>1, <2>2
<1>7. ASSUME Len(stack) = Len(frames) - 2 PROVE n = Len(frames) - 1
  <2>1. frames[Len(frames)].return_addr = pc /\ Len(frames) >= 2
    BY <1>1, <1>4, <1>7
  <2>2. n < Len(frames)
    BY <1>1, <1>2, <2>1
  <2> SUFFICES ASSUME n < Len(frames) - 1 PROVE FALSE
    BY <1>1, <1>2, <2>2
  <2>3. Len(frames) - 1 \in (n + 1)..Len(frames) /\ Len(frames) - 1 \in 2..Len(frames)
    BY <1>1, <1>2
  <2> QED
    BY <1>1, <1>2, <1>5, <1>7, <2>3
<1> QED
  BY <1>6, <1>7 DEF n

(* After the closure has closed and opened frames, they are the stack's. *)
LEMMA FramesAtMatch ==
  ASSUME BaseInv, StackInv, phase = "paused"
  PROVE  /\ Len(FramesAt) = Len(stack) + 1
         /\ FramesAt[1].return_addr = EndOfScript
         /\ \A i \in 1..Len(stack) : FramesAt[i + 1].return_addr = stack[i].ret
<1> DEFINE kept == Returned(frames, pc)
           n == Survivors(frames, pc)
           fr == [return_addr |-> pending_call, last |-> None]
<1>1. /\ frames \in Seq(FrameType) /\ frames # <<>>
      /\ Len(frames) \in Nat /\ Len(stack) \in Nat
  BY ElementFacts DEF BaseInv, TypeOK, CallsBalanced, Recording
<1>2. /\ n \in 1..Len(frames)
      /\ kept \in Seq(FrameType)
      /\ Len(kept) = n
      /\ \A i \in 1..n : kept[i].return_addr = frames[i].return_addr
  BY <1>1, SurvivorsFacts, ReturnedFacts
<1>3. /\ Len(stack) # Len(frames) - 2 => n = Len(frames)
      /\ Len(stack) = Len(frames) - 2 => n = Len(frames) - 1
  BY SurvivorsAre
<1>4. FramesAt = IF pending_call = None THEN kept ELSE Append(kept, fr)
  BY DEF FramesAt, Entered
<1>5. fr.return_addr = pending_call
  OBVIOUS
<1> HIDE DEF kept, n, fr
<1>6. /\ frames[1].return_addr = EndOfScript
      /\ \A i \in 1..Len(stack) :
           i < Len(frames) => frames[i + 1].return_addr = stack[i].ret
  BY DEF StackInv, FramesAwaiting
<1>7. CASE pending_call = None
  <2>1. Len(stack) = Len(frames) - 1 \/ Len(stack) = Len(frames) - 2
    BY <1>7 DEF StackInv, FramesAwaiting
  <2>2. n = Len(stack) + 1
    BY <1>1, <1>3, <2>1
  <2>3. ASSUME NEW i \in 1..Len(stack)
        PROVE  kept[i + 1].return_addr = stack[i].ret
    <3>1. i + 1 \in 1..n /\ i < Len(frames)
      BY <1>1, <1>2, <2>2
    <3> QED
      BY <1>2, <1>6, <3>1
  <2>4. kept[1].return_addr = EndOfScript
    BY <1>1, <1>2, <1>6
  <2> QED
    BY <1>2, <1>4, <1>7, <2>2, <2>3, <2>4
<1>8. CASE pending_call # None
  <2>1. Len(stack) = Len(frames) /\ stack[Len(stack)].ret = pending_call
    BY <1>8 DEF StackInv, FramesAwaiting
  <2>2. n = Len(stack)
    BY <1>1, <1>3, <2>1
  <2>3. /\ Len(FramesAt) = n + 1
        /\ FramesAt[n + 1] = fr
        /\ \A i \in 1..n : FramesAt[i] = kept[i]
    BY <1>2, <1>4, <1>8, AppendFacts
  <2>4. ASSUME NEW i \in 1..Len(stack)
        PROVE  FramesAt[i + 1].return_addr = stack[i].ret
    <3>1. CASE i = Len(stack)
      BY <1>5, <2>1, <2>2, <2>3, <3>1
    <3>2. CASE i # Len(stack)
      <4>1. i + 1 \in 1..n /\ i < Len(frames)
        BY <1>1, <2>1, <2>2, <3>2
      <4> QED
        BY <1>2, <1>6, <2>3, <4>1
    <3> QED
      BY <3>1, <3>2
  <2>5. FramesAt[1].return_addr = EndOfScript
    <3>1. 1 \in 1..n
      BY <1>1, <1>2
    <3> QED
      BY <1>2, <1>6, <2>3, <3>1
  <2> QED
    BY <2>2, <2>3, <2>4, <2>5
<1> QED
  BY <1>7, <1>8

(* The frames follow the stack through the VM's steps and the closure. *)
LEMMA StackInvStep ==
  ASSUME BaseInv, StackInv, [Next]_vars
  PROVE  StackInv'
<1>1. /\ frames \in Seq(FrameType) /\ Len(frames) \in Nat
      /\ stack \in Seq([ret : Addr, callee : Addr]) /\ Len(stack) \in Nat
      /\ pc \in Addr /\ Addr \subseteq Nat /\ None \notin Nat
      /\ (Recording => Len(frames) >= 1)
  BY ElementFacts, AddrAssumption, MarkAssumption DEF BaseInv, TypeOK, CallsBalanced
<1>2. StackOrdered'
  BY StackOrderedStep DEF BaseInv, StackInv
<1>3. CASE Advance
  <2>1. /\ phase = "released" /\ phase' = "paused" /\ prog.op[pc] # "call"
        /\ UNCHANGED <<prog, stack, frames, pending_call>>
    BY <1>3 DEF Advance, Running, recVars
  <2>2. /\ pending_call = None
        /\ Len(frames) = Len(stack) + 1
        /\ frames[1].return_addr = EndOfScript
        /\ \A i \in 1..Len(stack) : frames[i + 1].return_addr = stack[i].ret
    BY <2>1 DEF StackInv, PendingCallFresh, FramesMatchCallStack
  <2>3. Len(stack) = Len(frames) - 1
    BY <1>1, <2>2
  <2>4. FramesAwaiting'
    BY <2>1, <2>2, <2>3 DEF FramesAwaiting
  <2> QED
    BY <1>2, <2>1, <2>4 DEF StackInv, PendingCallFresh, FramesMatchCallStack
<1>4. CASE JumpAndLink
  <2> DEFINE call == [ret |-> pc + 1, callee |-> prog.callee[pc]]
  <2>1. /\ phase = "released" /\ phase' = "paused" /\ prog.op[pc] = "call"
        /\ UNCHANGED <<prog, frames, pending_call>>
        /\ stack' = Append(stack, call)
    BY <1>4 DEF JumpAndLink, Running, recVars
  <2>2. /\ pending_call = pc + 1
        /\ Len(frames) = Len(stack) + 1
        /\ frames[1].return_addr = EndOfScript
        /\ \A i \in 1..Len(stack) : frames[i + 1].return_addr = stack[i].ret
    BY <2>1 DEF StackInv, PendingCallFresh, FramesMatchCallStack
  <2>3. call.ret = pc + 1
    OBVIOUS
  <2> HIDE DEF call
  <2>4. /\ Len(stack') = Len(frames)
        /\ stack'[Len(stack')].ret = pending_call
        /\ \A i \in 1..Len(stack) : stack'[i] = stack[i]
    BY <1>1, <2>1, <2>2, <2>3, AppendFacts
  <2>5. \A i \in 1..Len(stack') :
          i < Len(frames) => frames[i + 1].return_addr = stack'[i].ret
    <3> SUFFICES ASSUME NEW i \in 1..Len(stack'), i < Len(frames)
                 PROVE  frames[i + 1].return_addr = stack'[i].ret
      OBVIOUS
    <3>1. i \in 1..Len(stack)
      BY <1>1, <2>2, <2>4
    <3> QED
      BY <2>2, <2>4, <3>1
  <2>6. pending_call # None
    BY <1>1, <2>2
  <2>7. FramesAwaiting'
    BY <2>1, <2>2, <2>4, <2>5, <2>6 DEF FramesAwaiting
  <2> QED
    BY <1>2, <2>1, <2>7 DEF StackInv, PendingCallFresh, FramesMatchCallStack
<1>5. CASE JumpBack
  <2>1. /\ phase = "released" /\ phase' = "paused" /\ prog.op[pc] # "call"
        /\ UNCHANGED <<prog, frames, pending_call>>
        /\ stack # <<>> /\ pc' = stack[Len(stack)].ret
        /\ stack' = SubSeq(stack, 1, Len(stack) - 1)
    BY <1>5 DEF JumpBack, Running, recVars
  <2>2. /\ pending_call = None
        /\ Len(frames) = Len(stack) + 1
        /\ frames[1].return_addr = EndOfScript
        /\ \A i \in 1..Len(stack) : frames[i + 1].return_addr = stack[i].ret
    BY <2>1 DEF StackInv, PendingCallFresh, FramesMatchCallStack
  <2>3. /\ Len(stack') = Len(stack) - 1 /\ Len(stack) \in 1..Len(stack)
        /\ \A i \in 1..(Len(stack) - 1) : stack'[i] = stack[i] /\ i \in 1..Len(stack)
    BY <1>1, <2>1, PopFacts
  <2>4. Len(stack') = Len(frames) - 2 /\ Top(frames).return_addr = pc'
    BY <1>1, <2>1, <2>2, <2>3 DEF Top
  <2>5. \A i \in 1..Len(stack') : frames[i + 1].return_addr = stack'[i].ret
    BY <2>2, <2>3
  <2>6. FramesAwaiting'
    BY <2>1, <2>2, <2>4, <2>5 DEF FramesAwaiting, Top
  <2> QED
    BY <1>2, <2>1, <2>6 DEF StackInv, PendingCallFresh, FramesMatchCallStack
<1>6. CASE Begin
  <2>1. /\ phase = "idle" /\ phase' = "begun"
        /\ UNCHANGED <<stack, pending_call>>
        /\ frames' = <<[return_addr |-> EndOfScript, last |-> prog.first]>>
    BY <1>6 DEF Begin, vmVars
  <2>2. pending_call = None /\ stack = <<>>
    BY <2>1 DEF StackInv, PendingCallFresh
  <2>3. /\ Len(frames') = 1 /\ frames'[1].return_addr = EndOfScript
        /\ Len(stack') = Len(frames') - 1
    BY <2>1, <2>2
  <2>4. FramesAwaiting'
    BY <2>1, <2>2, <2>3 DEF FramesAwaiting
  <2> QED
    BY <1>2, <2>1, <2>4 DEF StackInv, PendingCallFresh, FramesMatchCallStack
<1>7. CASE Transact
  BY <1>2, <1>7
  DEF Transact, vmVars, recVars, StackInv, FramesAwaiting, PendingCallFresh,
      FramesMatchCallStack, Top
<1>8. CASE Callback
  <2>1. /\ phase = "paused" /\ phase' = "released"
        /\ UNCHANGED <<prog, pc, stack>>
        /\ pending_call' = IF prog.op[pc] = "call" THEN pc + 1 ELSE None
        /\ IF IsStep(FramesAt)
             THEN frames' = [FramesAt EXCEPT ![Len(FramesAt)] =
                                [@ EXCEPT !.last = prog.loc[pc]]]
             ELSE frames' = FramesAt
    BY <1>8 DEF Callback, PendingAfter, vmVars
  <2>2. /\ Len(FramesAt) = Len(stack) + 1
        /\ FramesAt[1].return_addr = EndOfScript
        /\ \A i \in 1..Len(stack) : FramesAt[i + 1].return_addr = stack[i].ret
        /\ FramesAt \in Seq(FrameType)
    BY <2>1, FramesAtMatch, CallbackFacts
  <2>3. /\ Len(frames') = Len(FramesAt)
        /\ \A i \in 1..Len(FramesAt) : frames'[i].return_addr = FramesAt[i].return_addr
    <3>1. CASE ~IsStep(FramesAt)
      BY <2>1, <3>1
    <3>2. CASE IsStep(FramesAt)
      <4> DEFINE N == Len(FramesAt)
                 top == [FramesAt[N] EXCEPT !.last = prog.loc[pc]]
      <4>1. N \in Nat /\ N \in 1..N /\ FramesAt[N] \in FrameType
        BY <1>1, <2>2, ElementFacts
      <4>2. top.return_addr = FramesAt[N].return_addr
        BY <4>1 DEF FrameType
      <4>3. frames' = [FramesAt EXCEPT ![N] = top]
        BY <2>1, <3>2
      <4> HIDE DEF top
      <4> QED
        BY <2>2, <4>1, <4>2, <4>3
    <3> QED
      BY <3>1, <3>2
  <2>4. ASSUME NEW i \in 1..Len(stack)
        PROVE  frames'[i + 1].return_addr = stack[i].ret
    <3>1. i + 1 \in 1..Len(FramesAt)
      BY <1>1, <2>2
    <3> QED
      BY <2>2, <2>3, <3>1
  <2>5. frames'[1].return_addr = EndOfScript
    <3>1. 1 \in 1..Len(FramesAt)
      BY <1>1, <2>2
    <3> QED
      BY <2>2, <2>3, <3>1
  <2>6. FramesMatchCallStack'
    BY <2>1, <2>2, <2>3, <2>4, <2>5 DEF FramesMatchCallStack
  <2>7. FramesAwaiting' /\ PendingCallFresh'
    BY <2>1 DEF FramesAwaiting, PendingCallFresh
  <2> QED
    BY <1>2, <2>6, <2>7 DEF StackInv
<1>9. CASE Halt \/ BeginFails \/ RunFails \/ Finish
  <2>1. phase' \in {"halted", "failed", "closed"}
    BY <1>9 DEF Halt, BeginFails, RunFails, Finish
  <2> QED
    BY <1>2, <2>1 DEF StackInv, FramesAwaiting, PendingCallFresh, FramesMatchCallStack
<1>10. CASE Done \/ UNCHANGED vars
  BY <1>2, <1>10
  DEF Done, vars, vmVars, recVars, StackInv, FramesAwaiting, PendingCallFresh,
      FramesMatchCallStack, Top
<1> QED
  BY <1>3, <1>4, <1>5, <1>6, <1>7, <1>8, <1>9, <1>10 DEF Next, VM, Recorder

LEMMA StackInvInit == Init => StackInv
BY DEF Init, StackInv, StackOrdered, FramesAwaiting, PendingCallFresh, FramesMatchCallStack

LEMMA StackInvariant == Spec => [](BaseInv /\ StackInv)
<1>1. Init => BaseInv /\ StackInv
  BY BaseInvInit, StackInvInit
<1>2. BaseInv /\ StackInv /\ [Next]_vars => (BaseInv /\ StackInv)'
  BY BaseInvStep, StackInvStep
<1> QED
  BY <1>1, <1>2, PTL DEF Spec

(* The order of the stack, the difference the last instruction makes to it *)
(* and the pending call are as the loop needs them, at every breakpoint.   *)
THEOREM StackInvHolds == Spec => []StackInv
BY StackInvariant, PTL

(* The frames rebuilt from addresses alone are the program's own call      *)
(* stack whenever an instruction executes, for every program that obeys    *)
(* the call convention, whatever its depth.                                *)
THEOREM FramesAreCallStack == Spec => []FramesMatchCallStack
<1>1. StackInv => FramesMatchCallStack
  BY DEF StackInv
<1> QED
  BY <1>1, StackInvariant, PTL

------------------------------------------------------------------------------
(* The recorder implements CallTrace.                                      *)

(* What the closure tells the writer before any step: one call, one        *)
(* return, or nothing.                                                     *)
LEMMA CallbackMoves ==
  ASSUME BaseInv, StackInv, phase = "paused"
  PROVE  /\ pending_call # None =>
              /\ NameFor(prog.loc[pc]) \in FunctionName
              /\ WriterAt.open = Append(writer.open, NameFor(prog.loc[pc]))
         /\ pending_call = None /\ Len(stack) = Len(frames) - 1 => WriterAt = writer
         /\ pending_call = None /\ Len(stack) = Len(frames) - 2 =>
              /\ Len(writer.open) > 1
              /\ WriterAt.open = SubSeq(writer.open, 1, Len(writer.open) - 1)
         /\ \/ pending_call # None
            \/ pending_call = None /\ Len(stack) = Len(frames) - 1
            \/ pending_call = None /\ Len(stack) = Len(frames) - 2
<1> DEFINE n == Len(frames) - Survivors(frames, pc)
           name == NameFor(prog.loc[pc])
<1>1. /\ writer \in WT /\ Len(writer.open) = Len(frames)
      /\ Len(frames) \in Nat /\ Len(stack) \in Nat
      /\ prog \in Programs /\ pc \in Addr
  BY ElementFacts DEF BaseInv, TypeOK, CallsBalanced, Recording, WT
<1>2. name \in FunctionName
  BY <1>1, ProgramFacts DEF NameFor, FunctionName
<1>3. WriterAt = IF pending_call = None THEN RegisterReturns(writer, n)
                 ELSE RegisterCall(RegisterReturns(writer, n), name)
  BY DEF WriterAt
<1>4. /\ Len(stack) # Len(frames) - 2 => n = 0
      /\ Len(stack) = Len(frames) - 2 => n = 1
  BY <1>1, SurvivorsAre
<1>5. RegisterReturns(writer, 0) = writer
  BY DEF RegisterReturns
<1>6. RegisterCall(writer, name).open = Append(writer.open, name)
  BY <1>1, <1>2, RegisterCallFacts DEF WT
<1> HIDE DEF n, name
<1>7. \/ pending_call # None /\ Len(stack) = Len(frames)
      \/ pending_call = None /\ Len(stack) = Len(frames) - 1
      \/ pending_call = None /\ Len(stack) = Len(frames) - 2
  BY DEF StackInv, FramesAwaiting
<1>8. CASE pending_call # None
  BY <1>1, <1>2, <1>3, <1>4, <1>5, <1>6, <1>7, <1>8 DEF name
<1>9. CASE pending_call = None /\ Len(stack) = Len(frames) - 1
  BY <1>1, <1>3, <1>4, <1>5, <1>9
<1>10. CASE pending_call = None /\ Len(stack) = Len(frames) - 2
  <2>1. n = 1 /\ 1 \in 0..Len(writer.open) /\ Len(writer.open) > 1
    BY <1>1, <1>4, <1>10
  <2>2. RegisterReturns(writer, 1).open = SubSeq(writer.open, 1, Len(writer.open) - 1)
    BY <1>1, <2>1, RegisterReturnsFacts DEF WT
  <2> QED
    BY <1>1, <1>3, <1>10, <2>1, <2>2
<1> QED
  BY <1>7, <1>8, <1>9, <1>10 DEF name

(* Every step of the recorder and the VM is a step of CallTrace, or none. *)
LEMMA StepIsTraceStep ==
  ASSUME BaseInv, StackInv, [Next]_vars
  PROVE  [Trace!Next]_(Trace!vars)
<1> DEFINE status == CASE phase = "idle" -> "unopened"
                       [] phase = "closed" -> "closed"
                       [] phase = "failed" -> "abandoned"
                       [] OTHER -> "recording"
<1>a. /\ phase = "idle" => status = "unopened"
      /\ Recording => status = "recording"
      /\ phase' = "closed" => status' = "closed"
      /\ phase' = "failed" => status' = "abandoned"
      /\ Recording' => status' = "recording"
  BY DEF Recording
<1>b. phase' = phase => status' = status
  OBVIOUS
<1>c. /\ Trace!vars = <<writer.open, writer.pending, status>>
      /\ Trace!vars' = <<writer'.open, writer'.pending, status'>>
  BY Zenon DEF Trace!vars
<1> HIDE DEF status
<1>1. CASE Begin
  <2>1. /\ status = "unopened" /\ status' = "recording"
        /\ writer'.open = <<Toplevel>> /\ writer'.pending = prog.first
    BY <1>1, <1>a DEF Begin, Start, Recording
  <2>2. prog.first \in Loc
    BY ProgramFacts DEF BaseInv, TypeOK
  <2> QED
    BY <2>1, <2>2 DEF Trace!Next, Trace!Open, status
<1>2. CASE Callback
  <2>1. status = "recording" /\ status' = "recording" /\ phase = "paused"
    BY <1>2, <1>a DEF Callback, Recording
  <2>2. /\ WriterAt \in WT
        /\ prog.loc[pc] \in Loc \union {None}
    BY <2>1, CallbackFacts, ProgramFacts DEF BaseInv, TypeOK
  <2>3. /\ IsStep(FramesAt) =>
             writer' = RegisterStep(WriterAt, prog.loc[pc]) /\ prog.loc[pc] \in Loc
        /\ ~IsStep(FramesAt) => writer' = WriterAt
    BY <1>2, <2>2 DEF Callback, IsStep
  <2>4. /\ IsStep(FramesAt) =>
             writer'.open = WriterAt.open /\ writer'.pending \in Loc
        /\ ~IsStep(FramesAt) => writer' = WriterAt
    BY <2>2, <2>3, RegisterStepFacts DEF WT
  <2>5. writer'.open = WriterAt.open /\ writer'.pending \in Loc \union {None}
    BY <2>2, <2>4 DEF WT, WriterType
  <2>6. writer.open \in Seq(FunctionName)
    BY DEF BaseInv, TypeOK, WriterType
  <2>7. CASE pending_call # None
    <3>1. /\ NameFor(prog.loc[pc]) \in FunctionName
          /\ writer'.open = Append(writer.open, NameFor(prog.loc[pc]))
      BY <2>1, <2>5, <2>7, CallbackMoves
    <3> HIDE DEF NameFor
    <3>2. Trace!OneMore(writer.open, writer'.open)
      BY <2>6, <3>1 DEF Trace!OneMore
    <3> QED
      BY <2>1, <2>5, <3>2 DEF Trace!Next, Trace!Enter, Trace!Positions, status
  <2>8. CASE pending_call = None /\ Len(stack) = Len(frames) - 1
    <3>1. WriterAt = writer
      BY <2>1, <2>8, CallbackMoves
    <3>2. CASE IsStep(FramesAt)
      BY <2>1, <2>4, <3>1, <3>2 DEF Trace!Next, Trace!Move, status
    <3>3. CASE ~IsStep(FramesAt)
      BY <1>c, <2>1, <2>4, <3>1, <3>3
    <3> QED
      BY <3>2, <3>3
  <2>9. CASE pending_call = None /\ Len(stack) = Len(frames) - 2
    <3>1. /\ Len(writer.open) > 1
          /\ writer'.open = SubSeq(writer.open, 1, Len(writer.open) - 1)
      BY <2>1, <2>5, <2>9, CallbackMoves
    <3> QED
      BY <2>1, <2>5, <3>1 DEF Trace!Next, Trace!Leave, Trace!Positions, status
  <2> QED
    BY <2>1, <2>7, <2>8, <2>9, CallbackMoves
<1>3. CASE Finish
  <2> DEFINE r == RegisterReturns(writer, Len(frames))
  <2>1. /\ status = "recording" /\ status' \in {"closed", "abandoned"}
        /\ writer' = FinishWriting(r) /\ phase = "halted"
    BY <1>3, <1>a DEF Finish, Recording
  <2>2. /\ writer \in WT /\ writer.open \in Seq(FunctionName)
        /\ Len(writer.open) = Len(frames) /\ Len(frames) \in Nat
    BY <2>1, ElementFacts DEF BaseInv, TypeOK, CallsBalanced, Recording, WT, WriterType
  <2>3. r \in WT /\ r.open = SubSeq(writer.open, 1, Len(writer.open) - Len(frames))
    BY <2>2, RegisterReturnsFacts DEF WT
  <2>4. r.open = <<>>
    BY <2>2, <2>3
  <2> HIDE DEF r
  <2>5. writer'.open = <<>> /\ writer'.pending = None
    BY <2>1, <2>3, <2>4, FinishWritingFacts DEF WT
  <2> QED
    BY <2>1, <2>5 DEF Trace!Next, Trace!Close, Trace!Abandon, status
<1>4. CASE BeginFails \/ RunFails
  <2>1. /\ status \in {"unopened", "recording"} /\ status' = "abandoned"
        /\ writer' = writer
    BY <1>4, <1>a DEF BeginFails, RunFails, recVars, Recording
  <2> QED
    BY <2>1 DEF Trace!Next, Trace!Abandon, status
<1>5. CASE VM \/ Transact
  <2>1. Recording /\ Recording' /\ writer' = writer
    BY <1>5 DEF VM, Advance, JumpAndLink, JumpBack, Running, Halt, Transact, recVars,
                Recording
  <2> QED
    BY <1>a, <1>c, <2>1
<1>6. CASE Done \/ UNCHANGED vars
  BY <1>6, <1>b, <1>c DEF Done, vars, recVars
<1> QED
  BY <1>1, <1>2, <1>3, <1>4, <1>5, <1>6 DEF Next, Recorder

(* The source-level trace of every program nests its calls, enters or      *)
(* leaves one frame at a time and closes each exactly once.                *)
THEOREM Implements == Spec => ImplementsCallTrace
<1>1. Init => Trace!Init
  BY DEF Init, Created, Trace!Init
<1>2. BaseInv /\ StackInv /\ [Next]_vars => [Trace!Next]_(Trace!vars)
  BY StepIsTraceStep
<1> QED
  BY <1>1, <1>2, StackInvariant, PTL DEF Spec, ImplementsCallTrace, Trace!Spec

------------------------------------------------------------------------------
(* What the trace shows while an instruction executes.                     *)

(* The entry function is at the bottom of the stack. *)
EntryBelow ==
  /\ phase \in {"idle", "begun"} => pc = Entry /\ stack = <<>>
  /\ stack = <<>> => prog.fn[pc] = prog.fn[Entry]
  /\ stack # <<>> => prog.fn[stack[1].ret] = prog.fn[Entry]

(* Between the instruction and the closure the place shown is still the    *)
(* running function's, when no call or return came between.                *)
PositionAwaiting ==
  /\ phase \in {"begun", "paused"} /\ pending_call = None /\ Len(stack) = Len(frames) - 1 =>
       (writer.pending # None => prog.owner[writer.pending] = prog.fn[pc])

PlaceInv == EntryBelow /\ PositionAwaiting /\ PositionShown

(* What the compiler's mapping says of an instruction that runs. *)
LEMMA MappingFacts ==
  ASSUME NEW p \in Programs, NEW a \in Addr
  PROVE  /\ p.op[a] = "return" => p.rank[p.fn[a]] > p.rank[p.fn[Entry]]
         /\ p.loc[a] # None /\ p.op[a] \notin {"return", "end"} =>
              p.owner[p.loc[a]] = p.fn[a]
         /\ p.owner[p.first] = p.fn[Entry]
         /\ p.rank[p.fn[a]] \in Nat /\ p.rank[p.fn[Entry]] \in Nat
<1>1. WellFormed(p)
  BY ProgramAssumption
<1> QED
  BY <1>1, ProgramFacts, AddrAssumption DEF WellFormed

(* The bottom of the stack is the entry function's through every step. *)
LEMMA EntryBelowStep ==
  ASSUME BaseInv, EntryBelow, [Next]_vars
  PROVE  EntryBelow'
<1>1. /\ stack \in Seq([ret : Addr, callee : Addr]) /\ Len(stack) \in Nat
      /\ prog \in Programs /\ pc \in Addr
  BY ElementFacts DEF BaseInv, TypeOK
<1>2. CASE Advance
  <2>1. /\ phase' = "paused" /\ prog' = prog /\ stack' = stack
        /\ prog.op[pc] \in {"plain", "log"} /\ pc' \in prog.next[pc]
    BY <1>2 DEF Advance, Running
  <2>2. prog.fn[pc'] = prog.fn[pc]
    BY <1>1, <2>1, RankFacts
  <2> QED
    BY <2>1, <2>2 DEF EntryBelow
<1>3. CASE JumpAndLink
  <2> DEFINE call == [ret |-> pc + 1, callee |-> prog.callee[pc]]
  <2>1. /\ phase' = "paused" /\ prog' = prog /\ prog.op[pc] = "call"
        /\ stack' = Append(stack, call)
    BY <1>3 DEF JumpAndLink, Running
  <2>2. call.ret = pc + 1 /\ prog.fn[pc + 1] = prog.fn[pc]
    BY <1>1, <2>1, RankFacts
  <2> HIDE DEF call
  <2>3. /\ stack' # <<>>
        /\ stack = <<>> => stack'[1] = call
        /\ stack # <<>> => stack'[1] = stack[1]
    BY <1>1, <2>1
  <2> QED
    BY <2>1, <2>2, <2>3 DEF EntryBelow
<1>4. CASE JumpBack
  <2> DEFINE n == Len(stack) - 1
  <2>1. /\ phase' = "paused" /\ prog' = prog /\ stack # <<>>
        /\ pc' = stack[n + 1].ret /\ stack' = SubSeq(stack, 1, n)
    BY <1>1, <1>4 DEF JumpBack, Running
  <2>2. /\ n \in Nat /\ Len(stack') = n
        /\ \A i \in 1..n : stack'[i] = stack[i]
    BY <1>1, <2>1, PopFacts
  <2>3. CASE n = 0
    <3>1. n + 1 = 1
      BY <2>3
    <3> HIDE DEF n
    <3>2. stack' = SubSeq(stack, 1, 0) /\ pc' = stack[1].ret
      BY <2>1, <2>3, <3>1
    <3>3. SubSeq(stack, 1, 0) = <<>>
      BY <1>1
    <3> QED
      BY <2>1, <3>2, <3>3 DEF EntryBelow
  <2>4. CASE n # 0
    <3>1. stack' # <<>> /\ stack'[1] = stack[1]
      BY <2>2, <2>4
    <3> QED
      BY <2>1, <3>1 DEF EntryBelow
  <2> QED
    BY <2>3, <2>4
<1>5. CASE Recorder \/ Halt \/ Done \/ UNCHANGED vars
  <2>1. /\ prog' = prog /\ pc' = pc /\ stack' = stack
        /\ phase' \in {"idle", "begun"} => phase \in {"idle", "begun"}
    BY <1>5 DEF Recorder, Begin, BeginFails, Transact, RunFails, Callback, Finish,
                Halt, Done, vars, vmVars
  <2> QED
    BY <2>1 DEF EntryBelow
<1> QED
  BY <1>2, <1>3, <1>4, <1>5 DEF Next, VM

(* An instruction that makes a step is mapped to its own function: one     *)
(* that leaves its frame makes none, and those are the ones the compiler   *)
(* may attribute to another.                                               *)
LEMMA StepIsOwn ==
  ASSUME BaseInv, StackInv, EntryBelow, phase = "paused", ~LeavesFrame(FramesAt),
         prog.loc[pc] # None
  PROVE  prog.owner[prog.loc[pc]] = prog.fn[pc]
<1>1. /\ prog \in Programs /\ pc \in Addr
      /\ stack \in Seq([ret : Addr, callee : Addr]) /\ Len(stack) \in Nat
  BY ElementFacts DEF BaseInv, TypeOK
<1>2. /\ Len(FramesAt) = Len(stack) + 1
      /\ \A i \in 1..Len(stack) : FramesAt[i + 1].return_addr = stack[i].ret
  BY FramesAtMatch
<1>3. prog.op[pc] # "end"
  BY DEF LeavesFrame
<1>4. ASSUME prog.op[pc] = "return" PROVE FALSE
  <2>1. CASE stack = <<>>
    BY <1>1, <1>4, <2>1, MappingFacts DEF EntryBelow
  <2>2. CASE stack # <<>>
    <3>1. Len(stack) \in 1..Len(stack)
      BY <1>1, <2>2
    <3> QED
      BY <1>2, <1>4, <2>2, <3>1 DEF LeavesFrame, Top
  <2> QED
    BY <2>1, <2>2
<1> QED
  BY <1>1, <1>3, <1>4, MappingFacts

(* A call or a return leaves no pending step behind: the frame entered or  *)
(* left for shows its place with its next step.                            *)
LEMMA CallbackClears ==
  ASSUME BaseInv, StackInv, phase = "paused",
         ~(pending_call = None /\ Len(stack) = Len(frames) - 1)
  PROVE  WriterAt.pending = None
<1> DEFINE n == Len(frames) - Survivors(frames, pc)
           name == NameFor(prog.loc[pc])
<1>1. /\ writer \in WT /\ Len(writer.open) = Len(frames)
      /\ Len(frames) \in Nat /\ Len(stack) \in Nat
      /\ prog \in Programs /\ pc \in Addr
  BY ElementFacts DEF BaseInv, TypeOK, CallsBalanced, Recording, WT
<1>2. name \in FunctionName
  BY <1>1, ProgramFacts DEF NameFor, FunctionName
<1>3. WriterAt = IF pending_call = None THEN RegisterReturns(writer, n)
                 ELSE RegisterCall(RegisterReturns(writer, n), name)
  BY DEF WriterAt
<1>4. /\ Len(stack) # Len(frames) - 2 => n = 0
      /\ Len(stack) = Len(frames) - 2 => n = 1
  BY <1>1, SurvivorsAre
<1>5. RegisterReturns(writer, 0) = writer
  BY DEF RegisterReturns
<1> HIDE DEF n, name
<1>6. \/ pending_call # None /\ Len(stack) = Len(frames)
      \/ pending_call = None /\ Len(stack) = Len(frames) - 2
  BY DEF StackInv, FramesAwaiting
<1>7. CASE pending_call # None
  <2>1. WriterAt = RegisterCall(writer, name)
    BY <1>1, <1>3, <1>4, <1>5, <1>6, <1>7
  <2> QED
    BY <1>1, <1>2, <2>1, RegisterCallFacts DEF WT
<1>8. CASE pending_call = None
  <2>1. n = 1 /\ 1 \in 0..Len(writer.open)
    BY <1>1, <1>4, <1>6, <1>8
  <2> QED
    BY <1>1, <1>3, <1>8, <2>1, RegisterReturnsFacts DEF WT
<1> QED
  BY <1>7, <1>8

(* Every step keeps what the trace shows in the running function. *)
LEMMA PlaceInvStep ==
  ASSUME BaseInv, StackInv, PlaceInv, [Next]_vars
  PROVE  PlaceInv'
<1>1. /\ prog \in Programs /\ pc \in Addr
      /\ Len(stack) \in Nat /\ Len(frames) \in Nat
  BY ElementFacts DEF BaseInv, TypeOK
<1>2. EntryBelow'
  BY EntryBelowStep DEF PlaceInv
<1>3. CASE Advance
  <2>1. /\ phase = "released" /\ phase' = "paused"
        /\ UNCHANGED <<prog, stack, frames, pending_call, writer>>
        /\ prog.op[pc] \in {"plain", "log"} /\ pc' \in prog.next[pc]
    BY <1>3 DEF Advance, Running, recVars
  <2>2. prog.fn[pc'] = prog.fn[pc]
    BY <1>1, <2>1, RankFacts
  <2> QED
    BY <1>2, <2>1, <2>2 DEF PlaceInv, PositionAwaiting, PositionShown
<1>4. CASE JumpAndLink
  <2>1. phase = "released" /\ phase' = "paused" /\ pending_call' = pending_call
        /\ prog.op[pc] = "call"
    BY <1>4 DEF JumpAndLink, Running, recVars
  <2>2. pending_call' # None
    BY <1>1, <2>1, AddrAssumption, MarkAssumption DEF StackInv, PendingCallFresh
  <2> QED
    BY <1>2, <2>1, <2>2 DEF PlaceInv, PositionAwaiting, PositionShown
<1>5. CASE JumpBack
  <2>1. phase = "released" /\ phase' = "paused" /\ frames' = frames /\ stack # <<>>
        /\ stack' = SubSeq(stack, 1, Len(stack) - 1)
    BY <1>5 DEF JumpBack, Running, recVars
  <2>2. stack \in Seq([ret : Addr, callee : Addr])
    BY DEF BaseInv, TypeOK
  <2>3. Len(frames) = Len(stack) + 1 /\ Len(stack') = Len(stack) - 1
    BY <2>1, <2>2, PopFacts DEF StackInv, FramesMatchCallStack
  <2>4. Len(stack') # Len(frames') - 1
    BY <1>1, <2>1, <2>3
  <2> QED
    BY <1>2, <2>1, <2>4 DEF PlaceInv, PositionAwaiting, PositionShown
<1>6. CASE Begin
  <2>1. /\ phase = "idle" /\ phase' = "begun" /\ prog' = prog /\ pc' = pc
        /\ writer'.pending = prog.first
    BY <1>6 DEF Begin, Start, vmVars
  <2>2. pc = Entry /\ prog.owner[prog.first] = prog.fn[Entry]
    BY <1>1, <2>1, MappingFacts DEF PlaceInv, EntryBelow
  <2> QED
    BY <1>2, <2>1, <2>2 DEF PlaceInv, PositionAwaiting, PositionShown
<1>7. CASE Transact
  BY <1>2, <1>7 DEF Transact, vmVars, recVars, PlaceInv, PositionAwaiting, PositionShown
<1>8. CASE Callback
  <2>1. /\ phase = "paused" /\ phase' = "released"
        /\ UNCHANGED <<prog, pc, stack>>
        /\ IsStep(FramesAt) =>
             /\ frames' = [FramesAt EXCEPT ![Len(FramesAt)] =
                             [@ EXCEPT !.last = prog.loc[pc]]]
             /\ writer' = RegisterStep(WriterAt, prog.loc[pc])
        /\ ~IsStep(FramesAt) => frames' = FramesAt /\ writer' = WriterAt
    BY <1>8 DEF Callback, vmVars
  <2>2. /\ FramesAt \in Seq(FrameType) /\ FramesAt # <<>>
        /\ WriterAt \in WT
        /\ Top(FramesAt).last = WriterAt.pending
        /\ prog.loc[pc] \in Loc \union {None}
    BY <1>1, <2>1, CallbackFacts, ProgramFacts
  <2>3. Top(frames').return_addr = Top(FramesAt).return_addr
    <3> DEFINE N == Len(FramesAt)
               top == [FramesAt[N] EXCEPT !.last = prog.loc[pc]]
    <3>1. N \in Nat /\ N \in 1..N /\ FramesAt[N] \in FrameType
      BY <2>2
    <3>2. top.return_addr = FramesAt[N].return_addr
      BY <3>1 DEF FrameType
    <3> HIDE DEF top
    <3>3. /\ [FramesAt EXCEPT ![N] = top][N] = top
          /\ Len([FramesAt EXCEPT ![N] = top]) = N
      BY <2>2, <3>1
    <3> QED
      BY <2>1, <3>2, <3>3 DEF Top, top
  <2>4. LeavesFrame(frames)' <=> LeavesFrame(FramesAt)
    BY <2>1, <2>3 DEF LeavesFrame, Top
  <2>5. CASE IsStep(FramesAt)
    <3>1. prog.loc[pc] # None /\ ~LeavesFrame(FramesAt) /\ prog.loc[pc] \in Loc
      BY <2>2, <2>5 DEF IsStep
    <3>2. writer'.pending = prog.loc[pc]
      BY <2>1, <2>2, <2>5, <3>1, RegisterStepFacts DEF WT
    <3>3. prog.owner[prog.loc[pc]] = prog.fn[pc]
      BY <2>1, <3>1, StepIsOwn DEF PlaceInv
    <3>4. PositionShown' /\ PositionAwaiting'
      BY <2>1, <3>2, <3>3 DEF PositionShown, PositionAwaiting
    <3> QED
      BY <1>2, <3>4 DEF PlaceInv
  <2>6. CASE ~IsStep(FramesAt)
    <3>1. writer' = WriterAt
      BY <2>1, <2>6
    <3>2. prog.loc[pc] # None /\ ~LeavesFrame(FramesAt) => writer'.pending = prog.loc[pc]
      BY <2>2, <2>6, <3>1 DEF IsStep
    <3>3. writer'.pending # None => prog.owner[writer'.pending] = prog.fn[pc]
      <4>1. CASE pending_call = None /\ Len(stack) = Len(frames) - 1
        <5>1. WriterAt = writer
          BY <2>1, <4>1, CallbackMoves
        <5> QED
          BY <2>1, <3>1, <4>1, <5>1 DEF PlaceInv, PositionAwaiting
      <4>2. CASE ~(pending_call = None /\ Len(stack) = Len(frames) - 1)
        BY <2>1, <3>1, <4>2, CallbackClears
      <4> QED
        BY <4>1, <4>2
    <3>4. PositionShown'
      BY <2>1, <2>4, <3>2, <3>3 DEF PositionShown
    <3> QED
      BY <1>2, <2>1, <3>4 DEF PlaceInv, PositionAwaiting
  <2> QED
    BY <2>5, <2>6
<1>9. CASE Halt \/ BeginFails \/ RunFails \/ Finish
  <2>1. phase' \in {"halted", "failed", "closed"}
    BY <1>9 DEF Halt, BeginFails, RunFails, Finish
  <2> QED
    BY <1>2, <2>1 DEF PlaceInv, PositionAwaiting, PositionShown
<1>10. CASE Done \/ UNCHANGED vars
  BY <1>2, <1>10
  DEF Done, vars, vmVars, recVars, PlaceInv, PositionAwaiting, PositionShown,
      LeavesFrame, Top
<1> QED
  BY <1>3, <1>4, <1>5, <1>6, <1>7, <1>8, <1>9, <1>10 DEF Next, VM, Recorder

------------------------------------------------------------------------------
(* The names of the open calls.                                            *)

(* The open calls are named for what is mapped at their first instruction, *)
(* which the callee's function declares; a callee is the next to run.      *)
NameInv ==
  /\ \A i \in 1..Len(stack) :
       prog.loc[stack[i].callee] # None =>
         prog.decl[prog.loc[stack[i].callee]] = prog.fn[stack[i].callee]
  /\ phase \in {"begun", "paused", "released"} =>
       \A i \in 1..Len(stack) :
         i < Len(frames) => writer.open[i + 1] = NameFor(prog.loc[stack[i].callee])
  /\ phase \in {"begun", "paused"} /\ pending_call # None =>
       pc = stack[Len(stack)].callee

(* Every step keeps the names. *)
LEMMA NameInvStep ==
  ASSUME BaseInv, StackInv, NameInv, [Next]_vars
  PROVE  NameInv'
<1>1. /\ prog \in Programs /\ pc \in Addr
      /\ stack \in Seq([ret : Addr, callee : Addr])
      /\ Len(stack) \in Nat /\ Len(frames) \in Nat
      /\ writer \in WT /\ writer.open \in Seq(FunctionName)
  BY ElementFacts DEF BaseInv, TypeOK, WT, WriterType
<1>2. CASE Advance
  <2>1. /\ phase = "released" /\ phase' = "paused"
        /\ UNCHANGED <<prog, stack, frames, pending_call, writer>>
        /\ prog.op[pc] # "call"
    BY <1>2 DEF Advance, Running, recVars
  <2>2. pending_call' = None
    BY <2>1 DEF StackInv, PendingCallFresh
  <2> QED
    BY <2>1, <2>2 DEF NameInv, NameFor
<1>3. CASE JumpAndLink
  <2> DEFINE call == [ret |-> pc + 1, callee |-> prog.callee[pc]]
  <2>1. /\ phase = "released" /\ phase' = "paused" /\ prog.op[pc] = "call"
        /\ UNCHANGED <<prog, frames, pending_call, writer>>
        /\ stack' = Append(stack, call) /\ pc' = prog.callee[pc]
    BY <1>3 DEF JumpAndLink, Running, recVars
  <2>2. call.callee = pc'
    BY <2>1
  <2>3. prog.loc[pc'] # None => prog.decl[prog.loc[pc']] = prog.fn[pc']
    <3>1. WellFormed(prog)
      BY <1>1, ProgramAssumption
    <3> QED
      BY <1>1, <2>1, <3>1 DEF WellFormed
  <2> HIDE DEF call
  <2>4. /\ Len(stack') = Len(stack) + 1 /\ stack'[Len(stack) + 1] = call
        /\ \A i \in 1..Len(stack) : stack'[i] = stack[i]
    BY <1>1, <2>1, AppendFacts
  <2>5. Len(frames) = Len(stack) + 1
    BY <2>1 DEF StackInv, FramesMatchCallStack
  <2>6. \A i \in 1..Len(stack') : i = Len(stack) + 1 \/ i \in 1..Len(stack)
    BY <1>1, <2>4
  <2>7. ASSUME NEW i \in 1..Len(stack')
        PROVE  /\ prog.loc[stack'[i].callee] # None =>
                    prog.decl[prog.loc[stack'[i].callee]] = prog.fn[stack'[i].callee]
               /\ i < Len(frames) =>
                    writer.open[i + 1] = NameFor(prog.loc[stack'[i].callee])
    <3>1. CASE i = Len(stack) + 1
      BY <1>1, <2>2, <2>3, <2>4, <2>5, <3>1
    <3>2. CASE i \in 1..Len(stack)
      BY <2>1, <2>4, <3>2 DEF NameInv
    <3> QED
      BY <2>6, <3>1, <3>2
  <2>8. pc' = stack'[Len(stack')].callee
    BY <2>2, <2>4
  <2> QED
    BY <2>1, <2>7, <2>8 DEF NameInv, NameFor
<1>4. CASE JumpBack
  <2> DEFINE n == Len(stack) - 1
  <2>1. /\ phase = "released" /\ phase' = "paused" /\ prog.op[pc] # "call"
        /\ UNCHANGED <<prog, frames, pending_call, writer>>
        /\ stack # <<>> /\ stack' = SubSeq(stack, 1, n)
    BY <1>4 DEF JumpBack, Running, recVars
  <2>2. /\ n \in Nat /\ Len(stack') = n
        /\ \A i \in 1..n : stack'[i] = stack[i] /\ i \in 1..Len(stack)
    BY <1>1, <2>1, PopFacts
  <2>3. pending_call' = None
    BY <2>1 DEF StackInv, PendingCallFresh
  <2>4. ASSUME NEW i \in 1..Len(stack')
        PROVE  /\ prog.loc[stack'[i].callee] # None =>
                    prog.decl[prog.loc[stack'[i].callee]] = prog.fn[stack'[i].callee]
               /\ i < Len(frames) =>
                    writer.open[i + 1] = NameFor(prog.loc[stack'[i].callee])
    <3>1. i \in 1..Len(stack) /\ stack'[i] = stack[i]
      BY <2>2
    <3> QED
      BY <2>1, <3>1 DEF NameInv
  <2> HIDE DEF n
  <2> QED
    BY <2>1, <2>3, <2>4 DEF NameInv, NameFor
<1>5. CASE Begin
  <2>1. phase = "idle" /\ stack' = stack /\ pending_call' = pending_call
    BY <1>5 DEF Begin, vmVars
  <2>2. stack' = <<>> /\ pending_call' = None
    BY <2>1 DEF StackInv, PendingCallFresh
  <2>3. 1..Len(stack') = {}
    BY <2>2
  <2> QED
    BY <2>2, <2>3 DEF NameInv
<1>6. CASE Transact
  BY <1>6 DEF Transact, vmVars, recVars, NameInv, NameFor
<1>7. CASE Callback
  <2>1. /\ phase = "paused" /\ phase' = "released"
        /\ UNCHANGED <<prog, pc, stack>>
        /\ IsStep(FramesAt) =>
             writer' = RegisterStep(WriterAt, prog.loc[pc]) /\ prog.loc[pc] # None
        /\ ~IsStep(FramesAt) => writer' = WriterAt
    BY <1>7 DEF Callback, vmVars, IsStep
  <2>2. WriterAt \in WT /\ prog.loc[pc] \in Loc \union {None}
    BY <1>1, <2>1, CallbackFacts, ProgramFacts
  <2>3. writer'.open = WriterAt.open
    BY <2>1, <2>2, RegisterStepFacts DEF WT
  <2>4. Len(writer.open) = Len(frames)
    BY <2>1 DEF BaseInv, CallsBalanced, Recording
  <2>5. \A i \in 1..Len(stack) :
          i < Len(frames) => writer.open[i + 1] = NameFor(prog.loc[stack[i].callee])
    BY <2>1 DEF NameInv
  <2> DEFINE name == NameFor(prog.loc[pc])
  <2>6. ASSUME NEW i \in 1..Len(stack)
        PROVE  writer'.open[i + 1] = NameFor(prog.loc[stack[i].callee])
    <3>1. CASE pending_call # None
      <4>1. Len(stack) = Len(frames) /\ pc = stack[Len(stack)].callee
        BY <2>1, <3>1 DEF StackInv, FramesAwaiting, NameInv
      <4>2. name \in FunctionName /\ writer'.open = Append(writer.open, name)
        BY <2>1, <2>3, <3>1, CallbackMoves
      <4> HIDE DEF name
      <4>3. /\ writer'.open[Len(frames) + 1] = name
            /\ \A j \in 1..Len(frames) : writer'.open[j] = writer.open[j]
        BY <1>1, <2>4, <4>2, AppendFacts
      <4>4. CASE i = Len(stack)
        BY <4>1, <4>3, <4>4 DEF name
      <4>5. CASE i # Len(stack)
        <5>1. i < Len(frames) /\ i + 1 \in 1..Len(frames)
          BY <1>1, <4>1, <4>5
        <5> QED
          BY <2>5, <4>3, <5>1
      <4> QED
        BY <4>4, <4>5
    <3>2. CASE pending_call = None /\ Len(stack) = Len(frames) - 1
      <4>1. writer'.open = writer.open
        BY <2>1, <2>3, <3>2, CallbackMoves
      <4>2. i < Len(frames)
        BY <1>1, <3>2
      <4> QED
        BY <2>5, <4>1, <4>2
    <3>3. CASE pending_call = None /\ Len(stack) = Len(frames) - 2
      <4>1. /\ Len(writer.open) > 1
            /\ writer'.open = SubSeq(writer.open, 1, Len(writer.open) - 1)
        BY <2>1, <2>3, <3>3, CallbackMoves
      <4>2. i < Len(frames) /\ i + 1 \in 1..(Len(writer.open) - 1)
        BY <1>1, <2>4, <3>3
      <4>3. writer.open # <<>>
        BY <1>1, <4>1
      <4>4. writer'.open[i + 1] = writer.open[i + 1]
        BY <1>1, <4>1, <4>2, <4>3, PopFacts
      <4> QED
        BY <2>5, <4>2, <4>4
    <3> QED
      BY <2>1, <3>1, <3>2, <3>3, CallbackMoves
  <2> HIDE DEF name
  <2> QED
    BY <2>1, <2>6 DEF NameInv, NameFor
<1>8. CASE Halt \/ BeginFails \/ RunFails \/ Finish
  <2>1. /\ phase' \in {"halted", "failed", "closed"}
        /\ prog' = prog /\ stack' = stack
    BY <1>8 DEF Halt, BeginFails, RunFails, Finish, vmVars
  <2> QED
    BY <2>1 DEF NameInv
<1>9. CASE Done \/ UNCHANGED vars
  BY <1>9 DEF Done, vars, vmVars, recVars, NameInv, NameFor
<1> QED
  BY <1>2, <1>3, <1>4, <1>5, <1>6, <1>7, <1>8, <1>9 DEF Next, VM, Recorder

LEMMA ShownInit == Init => PlaceInv /\ NameInv
BY DEF Init, PlaceInv, EntryBelow, PositionAwaiting, PositionShown, NameInv

LEMMA ShownInvariant == Spec => [](PlaceInv /\ NameInv)
<1>1. Init => PlaceInv /\ NameInv
  BY ShownInit
<1>2. BaseInv /\ StackInv /\ PlaceInv /\ NameInv /\ [Next]_vars => (PlaceInv /\ NameInv)'
  BY PlaceInvStep, NameInvStep
<1> QED
  BY <1>1, <1>2, StackInvariant, PTL DEF Spec

(* The trace shows a mapped instruction's own place whenever one executes  *)
(* in its frame, and never a place of another function, also when a        *)
(* sub-call has just returned and however forc attributes its jumps.       *)
THEOREM PositionAlwaysShown == Spec => []PositionShown
<1>1. PlaceInv => PositionShown
  BY DEF PlaceInv
<1> QED
  BY <1>1, ShownInvariant, PTL

(* Every open call carries the name of the function active at its depth,   *)
(* or no name when its first instruction is unmapped.                      *)
THEOREM FramesAlwaysNamed == Spec => []FramesNamed
<1>1. ASSUME BaseInv, StackInv, NameInv PROVE FramesNamed
  <2> SUFFICES ASSUME phase = "released", NEW i \in 1..Len(stack)
               PROVE  writer.open[i + 1] = IF prog.loc[stack[i].callee] = None THEN Unnamed
                                           ELSE prog.fn[stack[i].callee]
    BY DEF FramesNamed
  <2>1. /\ prog \in Programs /\ Len(stack) \in Nat
        /\ stack[i] \in [ret : Addr, callee : Addr]
    BY <1>1, ElementFacts DEF BaseInv, TypeOK
  <2>2. i < Len(frames)
    BY <1>1, <2>1 DEF StackInv, FramesMatchCallStack
  <2>3. writer.open[i + 1] = NameFor(prog.loc[stack[i].callee])
    BY <1>1, <2>2 DEF NameInv
  <2>4. prog.loc[stack[i].callee] # None =>
          prog.decl[prog.loc[stack[i].callee]] = prog.fn[stack[i].callee]
    BY <1>1 DEF NameInv
  <2>5. prog.fn[stack[i].callee] \in Fn /\ prog.fn[stack[i].callee] # None
    BY <2>1, ProgramFacts, MarkAssumption
  <2> QED
    BY <2>3, <2>4, <2>5 DEF NameFor
<1> QED
  BY <1>1, ShownInvariant, StackInvariant, PTL

------------------------------------------------------------------------------
(* The events.                                                             *)

ReceiptType == [kind : ReceiptKinds, pc : Addr]

Shown == {"Log", "Panic", "Revert"}

(* Only the VM's end leaves receipts that are not logs, so a breakpoint    *)
(* mirrors what the end would.                                             *)
ReceiptInv ==
  /\ ReceiptsMirroredOnce
  /\ phase \notin {"halted", "closed", "failed"} =>
       \A i \in 1..Len(receipts) : receipts[i].kind = "Log"

(* Every step keeps the events the receipts seen. *)
LEMMA ReceiptInvStep ==
  ASSUME BaseInv, ReceiptInv, [Next]_vars
  PROVE  ReceiptInv'
<1>1. /\ receipts \in Seq(ReceiptType) /\ Len(receipts) \in Nat
      /\ seen \in 0..Len(receipts) /\ pc \in Addr
      /\ \A i \in 1..Len(receipts) : receipts[i] \in ReceiptType
  BY ElementFacts DEF BaseInv, TypeOK, ReceiptType
<1>2. /\ events = Only(SubSeq(receipts, 1, seen), OfKind(Shown))
      /\ OfKind(Shown)' = OfKind(Shown)
  BY DEF ReceiptInv, ReceiptsMirroredOnce, Shown, OfKind
<1>3. \A k \in ReceiptKinds : Receipt(k) \in ReceiptType /\ Receipt(k).kind = k
  BY <1>1 DEF Receipt, ReceiptType
<1>4. CASE Advance
  <2>1. phase = "released" /\ phase' = "paused" /\ UNCHANGED <<seen, events>>
    BY <1>4 DEF Advance, Running, recVars
  <2>2. \A i \in 1..Len(receipts) : receipts[i].kind = "Log"
    BY <2>1 DEF ReceiptInv
  <2>3. CASE receipts' = receipts
    BY <2>1, <2>2, <2>3 DEF ReceiptInv, ReceiptsMirroredOnce, OfKind
  <2>4. CASE prog.op[pc] = "log"
    <3> DEFINE r == Receipt("Log")
    <3>1. receipts' = Append(receipts, r)
      BY <1>4, <2>4 DEF Advance
    <3>2. r \in ReceiptType /\ r.kind = "Log"
      BY <1>3 DEF ReceiptKinds
    <3> HIDE DEF r
    <3>3. receipts' = receipts \o <<r>> /\ <<r>> \in Seq(ReceiptType)
      BY <1>1, <3>1, <3>2, AppendIsConcat
    <3>4. SubSeq(receipts', 1, seen) = SubSeq(receipts, 1, seen)
      BY <1>1, <3>3, PrefixKept
    <3>5. \A i \in 1..Len(receipts') : receipts'[i].kind = "Log"
      <4>1. /\ Len(receipts') = Len(receipts) + 1 /\ receipts'[Len(receipts) + 1] = r
            /\ \A i \in 1..Len(receipts) : receipts'[i] = receipts[i]
        BY <1>1, <3>1, AppendFacts
      <4>2. \A i \in 1..(Len(receipts) + 1) : i \in 1..Len(receipts) \/ i = Len(receipts) + 1
        BY <1>1
      <4> QED
        BY <2>2, <3>2, <4>1, <4>2
    <3> QED
      BY <1>2, <2>1, <3>4, <3>5 DEF ReceiptInv, ReceiptsMirroredOnce, Shown
  <2> QED
    BY <1>4, <2>3, <2>4 DEF Advance
<1>5. CASE Halt
  <2>1. /\ phase' = "halted" /\ UNCHANGED <<seen, events>>
        /\ \E k \in {"Return", "Revert", "Panic"} :
             receipts' = receipts \o <<Receipt(k), Receipt("ScriptResult")>>
    BY <1>5 DEF Halt, recVars
  <2>2. PICK k \in {"Return", "Revert", "Panic"} :
          receipts' = receipts \o <<Receipt(k), Receipt("ScriptResult")>>
    BY <2>1
  <2>3. <<Receipt(k), Receipt("ScriptResult")>> \in Seq(ReceiptType)
    BY <1>3 DEF ReceiptKinds
  <2>4. SubSeq(receipts', 1, seen) = SubSeq(receipts, 1, seen)
    BY <1>1, <2>2, <2>3, PrefixKept
  <2> QED
    BY <1>2, <2>1, <2>4 DEF ReceiptInv, ReceiptsMirroredOnce, Shown
<1>6. CASE Callback
  <2> DEFINE T == OfKind(ReceiptKinds \ {"Return"})
  <2>1. /\ phase = "paused" /\ phase' = "released" /\ receipts' = receipts
        /\ events' = events \o Only(SubSeq(receipts, seen + 1, Len(receipts)), T)
        /\ seen' = Len(receipts)
    BY <1>6 DEF Callback, Mirrored, Unseen, vmVars
  <2>2. \A i \in 1..Len(receipts) : receipts[i].kind = "Log"
    BY <2>1 DEF ReceiptInv
  <2>3. \A i \in 1..Len(receipts) : receipts[i] \in T <=> receipts[i] \in OfKind(Shown)
    BY <1>1, <2>2 DEF OfKind, Shown, ReceiptKinds, ReceiptType
  <2> HIDE DEF T
  <2>4. events' = Only(SubSeq(receipts, 1, Len(receipts)), OfKind(Shown))
    BY <1>1, <1>2, <2>1, <2>3, OnlySplit
  <2> QED
    BY <1>2, <2>1, <2>2, <2>4 DEF ReceiptInv, ReceiptsMirroredOnce, Shown
<1>7. CASE Finish
  <2> DEFINE T == OfKind(ReceiptKinds \ {"Return", "ScriptResult"})
  <2>1. /\ phase' \in {"closed", "failed"} /\ receipts' = receipts
        /\ events' = events \o Only(SubSeq(receipts, seen + 1, Len(receipts)), T)
        /\ seen' = Len(receipts)
    BY <1>7 DEF Finish, Drained, Unseen, vmVars
  <2>2. \A i \in 1..Len(receipts) : receipts[i] \in T <=> receipts[i] \in OfKind(Shown)
    BY <1>1 DEF OfKind, Shown, ReceiptKinds, ReceiptType
  <2> HIDE DEF T
  <2>3. events' = Only(SubSeq(receipts, 1, Len(receipts)), OfKind(Shown))
    BY <1>1, <1>2, <2>1, <2>2, OnlySplit
  <2> QED
    BY <1>2, <2>1, <2>3 DEF ReceiptInv, ReceiptsMirroredOnce, Shown
<1>8. CASE JumpAndLink \/ JumpBack
  <2>1. phase = "released" /\ phase' = "paused" /\ UNCHANGED <<receipts, seen, events>>
    BY <1>8 DEF JumpAndLink, JumpBack, Running, recVars
  <2> QED
    BY <1>2, <2>1 DEF ReceiptInv, ReceiptsMirroredOnce, Shown
<1>9. CASE Begin \/ BeginFails \/ Transact \/ RunFails
  <2>1. /\ UNCHANGED <<receipts, seen, events>>
        /\ phase \notin {"halted", "closed", "failed"} /\ phase' # "closed"
    BY <1>9 DEF Begin, BeginFails, Transact, RunFails, vmVars, recVars
  <2> QED
    BY <1>2, <2>1 DEF ReceiptInv, ReceiptsMirroredOnce, Shown
<1>10. CASE Done \/ UNCHANGED vars
  <2>1. UNCHANGED <<receipts, seen, events, phase>>
    BY <1>10 DEF Done, vars, vmVars, recVars
  <2> QED
    BY <1>2, <2>1 DEF ReceiptInv, ReceiptsMirroredOnce, Shown
<1> QED
  BY <1>4, <1>5, <1>6, <1>7, <1>8, <1>9, <1>10 DEF Next, VM, Recorder

(* A receipt is mirrored into the event stream once and in order, however  *)
(* many come, and a finished trace has every one but the script's own      *)
(* Return and ScriptResult.                                                *)
THEOREM ReceiptsAlwaysMirroredOnce == Spec => []ReceiptsMirroredOnce
<1>1. Init => ReceiptInv
  <2>1. SubSeq(<<>>, 1, 0) = <<>>
    OBVIOUS
  <2>2. Only(<<>>, OfKind({"Log", "Panic", "Revert"})) = <<>>
    BY OnlyEmpty
  <2>3. 1..Len(<<>>) = {}
    OBVIOUS
  <2> QED
    BY <2>1, <2>2, <2>3 DEF Init, ReceiptInv, ReceiptsMirroredOnce
<1>2. BaseInv /\ ReceiptInv /\ [Next]_vars => ReceiptInv'
  BY ReceiptInvStep
<1>3. ReceiptInv => ReceiptsMirroredOnce
  BY DEF ReceiptInv
<1> QED
  BY <1>1, <1>2, <1>3, BaseInvariant, PTL DEF Spec
==============================================================================
