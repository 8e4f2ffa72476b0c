------------------------- MODULE SourceLevelRecorder -------------------------
(***************************************************************************)
(* FuelRecorder::record_with_debug_info (src/src/source_level.rs): the     *)
(* trace of a forc-built script, made from forc's debug symbols while the  *)
(* FuelVM single-steps (FuelInterpreter::run, src/src/interpreter.rs).     *)
(*                                                                         *)
(* The VM stops before every instruction and calls the recorder's closure  *)
(* (Callback); when it is resumed it executes that instruction (the VM     *)
(* actions).  The recorder sees the address, the instruction, the          *)
(* registers and the receipts so far; the call stack is the program's own  *)
(* affair, and the recorder rebuilds it from the addresses alone.  Here    *)
(* the program's stack is the variable "stack", which no recorder action   *)
(* reads.                                                                  *)
(***************************************************************************)
EXTENDS TraceWriter, Selections

CONSTANTS Addr,          \* instruction addresses of the script
          Entry,         \* the address of its first instruction
          EndOfScript,   \* u64::MAX, the top-level frame's return address
          Loc,           \* source locations (path and line)
          Fn,            \* functions of the program
          Toplevel,      \* the frame start() opens
          Unnamed,       \* any of the "<fn at ...>" names
          Programs,      \* the programs that may be recorded
          GasLimit       \* instructions the script may execute

Ops == {"plain", "log", "call", "return", "end", "revert"}

(* A program as the VM and the debug symbols see it.  Control stays inside *)
(* a function except at a call (jal $$reta) and at a return (jal $zero     *)
(* $$reta 0); calls go up in rank, because Sway rejects recursion; the     *)
(* entry function is called by nobody and does not return.  The compiler   *)
(* maps an instruction to its own function, except that it may attribute   *)
(* the jump out of a function to another one (source_level.rs:187-189),    *)
(* and it maps a function's first instruction, when it maps it at all, to  *)
(* the function's declaration.  The first mapped instruction in layout     *)
(* order is the entry function's.                                          *)
Program ==
  [ op : [Addr -> Ops],
    next : [Addr -> SUBSET Addr],             \* where plain and log may go
    callee : [Addr -> Addr],                  \* where call goes
    loc : [Addr -> Loc \union {None}],        \* ForcDebugInfo::lookup
    fn : [Addr -> Fn],
    rank : [Fn -> Nat],
    owner : [Loc -> Fn],                      \* the function a location is in
    decl : [Loc -> Fn \union {None}],         \* FunctionNames::declared_at
    first : Loc ]                             \* ForcDebugInfo::first

WellFormed(p) ==
  /\ \A a \in Addr :
       /\ p.op[a] \in {"plain", "log"} =>
            \A b \in p.next[a] : p.fn[b] = p.fn[a]
       /\ p.op[a] = "call" =>
            /\ a + 1 \in Addr
            /\ p.fn[a + 1] = p.fn[a]
            /\ p.rank[p.fn[p.callee[a]]] > p.rank[p.fn[a]]
            /\ LET l == p.loc[p.callee[a]]
               IN  l # None => p.decl[l] = p.fn[p.callee[a]]
       /\ p.op[a] = "return" => p.rank[p.fn[a]] > p.rank[p.fn[Entry]]
       /\ p.loc[a] # None /\ p.op[a] \notin {"return", "end"} =>
            p.owner[p.loc[a]] = p.fn[a]
  /\ \E a \in Addr : /\ p.loc[a] = p.first
                    /\ \A b \in Addr : b < a => p.loc[b] = None
  /\ p.owner[p.first] = p.fn[Entry]

ASSUME AddrAssumption == Addr \subseteq Nat /\ Entry \in Addr
ASSUME MarkAssumption == EndOfScript \in Nat \ Addr /\ None \notin Nat \union Loc \union Fn
ASSUME NameAssumption == Toplevel \notin Fn /\ Unnamed \notin Fn
ASSUME ProgramAssumption == Programs \subseteq Program /\ \A p \in Programs : WellFormed(p)
ASSUME GasAssumption == GasLimit \in Nat

VARIABLES
  prog,          \* the program being recorded
  phase,         \* idle -> begun -> (paused -> released)* -> halted -> closed
  pc, stack,     \* the VM: the next instruction, and the calls it is in
  receipts, gas, \* the VM: receipts so far, instructions still paid for
  frames,        \* the recorder's open frames
  pending_call,  \* return address of a call whose callee has not executed yet
  seen,          \* prev_receipt_count
  writer, events

vmVars == <<pc, stack, receipts, gas>>
recVars == <<frames, pending_call, seen, writer, events>>
vars == <<prog, phase, vmVars, recVars>>

ReceiptKinds == {"Log", "Panic", "Revert", "Return", "ScriptResult"}
Receipt(kind) == [kind |-> kind, pc |-> pc]
OfKind(kinds) == [kind : kinds, pc : Addr]

FunctionName == Fn \union {Toplevel, Unnamed}

------------------------------------------------------------------------------
(* The VM: what executing the instruction at pc does.                      *)

MutantUnmetered == phase = "released" /\ gas > 0 /\ gas' = gas /\ phase' = "paused"

Running == phase = "released" /\ gas > 0 /\ gas' = gas - 1 /\ phase' = "paused"

Advance ==
  /\ Running
  /\ prog.op[pc] \in {"plain", "log"}
  /\ pc' \in prog.next[pc]
  /\ receipts' = IF prog.op[pc] = "log" THEN Append(receipts, Receipt("Log"))
                                        ELSE receipts
  /\ UNCHANGED <<prog, stack, recVars>>

JumpAndLink ==
  /\ Running
  /\ prog.op[pc] = "call"
  /\ stack' = Append(stack, [ret |-> pc + 1, callee |-> prog.callee[pc]])
  /\ pc' = prog.callee[pc]
  /\ UNCHANGED <<prog, receipts, recVars>>

JumpBack ==
  /\ Running
  /\ prog.op[pc] = "return"
  /\ stack # <<>>
  /\ pc' = stack[Len(stack)].ret
  /\ stack' = SubSeq(stack, 1, Len(stack) - 1)
  /\ UNCHANGED <<prog, receipts, recVars>>

(* RET and RVRT end the script, and any instruction may panic (overflow,   *)
(* memory, no gas left): the loop in run() breaks.                         *)
Halt ==
  /\ phase = "released"
  /\ \E kind \in {"Return", "Revert", "Panic"} :
       /\ kind = "Return" => prog.op[pc] = "end" /\ gas > 0
       /\ kind = "Revert" => prog.op[pc] = "revert" /\ gas > 0
       /\ receipts' = receipts \o <<Receipt(kind), Receipt("ScriptResult")>>
  /\ phase' = "halted"
  /\ UNCHANGED <<prog, pc, stack, gas, recVars>>

------------------------------------------------------------------------------
(* The recorder.                                                           *)

Top(s) == s[Len(s)]

(* emit_receipt_special_event mirrors every receipt but Return.            *)
Mirrored(rs) == Only(rs, OfKind(ReceiptKinds \ {"Return"}))

(* The final drain also leaves out ScriptResult.                           *)
Drained(rs) == Only(rs, OfKind(ReceiptKinds \ {"Return", "ScriptResult"}))

Unseen == SubSeq(receipts, seen + 1, Len(receipts))

(* The while loop pops every frame on top that returns to address a, and   *)
(* never the top-level one: Survivors is the number of frames it leaves.   *)
Survivors(fs, a) ==
  CHOOSE n \in 1..Len(fs) :
    /\ n = 1 \/ fs[n].return_addr # a
    /\ \A m \in (n + 1)..Len(fs) : fs[m].return_addr = a

MutantReturnedStale(fs, a) == SubSeq(fs, 1, Survivors(fs, a))

Returned(fs, a) ==
  LET n == Survivors(fs, a)
  IN  IF n = Len(fs) THEN fs
      ELSE [SubSeq(fs, 1, n) EXCEPT ![n] = [@ EXCEPT !.last = None]]

MutantEnteredAlways(fs) == Append(fs, [return_addr |-> pending_call, last |-> None])

Entered(fs) ==
  IF pending_call = None THEN fs
  ELSE Append(fs, [return_addr |-> pending_call, last |-> None])

(* name_for: the function declared where the callee's first instruction is *)
(* mapped.                                                                 *)
MutantNameForCaller(l) == IF l # None THEN prog.owner[prog.first] ELSE Unnamed

NameFor(l) == IF l # None /\ prog.decl[l] # None THEN prog.decl[l] ELSE Unnamed

(* The instruction takes control out of the frame: ret ends the script,    *)
(* and "jal $zero" leaves when its destination, which the register holds,  *)
(* is the top frame's return address.                                      *)
MutantLeavesOnlyAtEnd(fs) == prog.op[pc] = "end"

LeavesFrame(fs) ==
  \/ prog.op[pc] = "end"
  \/ prog.op[pc] = "return" /\ stack # <<>> /\ Top(stack).ret = Top(fs).return_addr

(* The frames open when the instruction at pc executes, and the writer     *)
(* that has been told so.                                                  *)
FramesAt == Entered(Returned(frames, pc))

MutantWriterUnwound ==
  LET w == RegisterReturns(writer, IF Survivors(frames, pc) < Len(frames)
                                     THEN Len(frames) - 1 ELSE 0)
  IN  IF pending_call = None THEN w ELSE RegisterCall(w, NameFor(prog.loc[pc]))

WriterAt ==
  LET w == RegisterReturns(writer, Len(frames) - Survivors(frames, pc))
  IN  IF pending_call = None THEN w ELSE RegisterCall(w, NameFor(prog.loc[pc]))

IsStep(fs) ==
  /\ ~LeavesFrame(fs)
  /\ prog.loc[pc] # None
  /\ Top(fs).last # prog.loc[pc]

(* Create the trace files and start the trace.  The directory or the files *)
(* may be impossible to write: then nothing was begun.                     *)
Begin ==
  /\ phase = "idle"
  /\ phase' = "begun"
  /\ writer' = Start(Toplevel, prog.first)
  /\ frames' = <<[return_addr |-> EndOfScript, last |-> prog.first]>>
  /\ UNCHANGED <<prog, vmVars, pending_call, seen, events>>

BeginFails ==
  /\ phase = "idle"
  /\ phase' = "failed"
  /\ UNCHANGED <<prog, vmVars, recVars>>

(* FuelInterpreter::run builds the transaction and stops at the first      *)
(* instruction.                                                            *)
Transact ==
  /\ phase = "begun"
  /\ phase' = "paused"
  /\ UNCHANGED <<prog, vmVars, recVars>>

(* The transaction is refused, or resume() returns an error: the recorder  *)
(* returns with the trace begun and not finished.                          *)
RunFails ==
  /\ phase \in {"begun", "released"}
  /\ phase' = "failed"
  /\ UNCHANGED <<prog, vmVars, recVars>>

MutantPendingOffByOne == IF prog.op[pc] = "call" THEN pc ELSE None

MutantPendingKept == IF prog.op[pc] = "call" THEN pc + 1 ELSE pending_call

(* A call's return address is remembered until the next breakpoint.        *)
PendingAfter == IF prog.op[pc] = "call" THEN pc + 1 ELSE None

(* The closure called at a breakpoint.                                     *)
Callback ==
  /\ phase = "paused"
  /\ phase' = "released"
  /\ events' = events \o Mirrored(Unseen)
  /\ seen' = Len(receipts)
  /\ IF IsStep(FramesAt)
       THEN /\ frames' = [FramesAt EXCEPT ![Len(FramesAt)] =
                             [@ EXCEPT !.last = prog.loc[pc]]]
            /\ writer' = RegisterStep(WriterAt, prog.loc[pc])
       ELSE frames' = FramesAt /\ writer' = WriterAt
  /\ pending_call' = PendingAfter
  /\ UNCHANGED <<prog, vmVars>>

MutantFinishKeepsEntry ==
  /\ phase = "halted"
  /\ phase' \in {"closed", "failed"}
  /\ events' = events \o Drained(Unseen)
  /\ seen' = Len(receipts)
  /\ writer' = FinishWriting(RegisterReturns(writer, Len(frames) - 1))
  /\ UNCHANGED <<prog, vmVars, frames, pending_call>>

MutantFinishWithoutDrain ==
  /\ phase = "halted"
  /\ phase' \in {"closed", "failed"}
  /\ writer' = FinishWriting(RegisterReturns(writer, Len(frames)))
  /\ UNCHANGED <<prog, vmVars, frames, pending_call, seen, events>>

(* After the run: drain the receipts of the last instruction, close every  *)
(* frame and finish the trace; writing its files may fail.                 *)
Finish ==
  /\ phase = "halted"
  /\ phase' \in {"closed", "failed"}
  /\ events' = events \o Drained(Unseen)
  /\ seen' = Len(receipts)
  /\ writer' = FinishWriting(RegisterReturns(writer, Len(frames)))
  /\ UNCHANGED <<prog, vmVars, frames, pending_call>>

Done == phase \in {"closed", "failed"} /\ UNCHANGED vars

------------------------------------------------------------------------------

Init ==
  /\ prog \in Programs
  /\ phase = "idle"
  /\ pc = Entry /\ stack = <<>> /\ receipts = <<>> /\ gas = GasLimit
  /\ frames = <<>> /\ pending_call = None /\ seen = 0
  /\ writer = Created /\ events = <<>>

VM == Advance \/ JumpAndLink \/ JumpBack \/ Halt

Recorder == Begin \/ BeginFails \/ Transact \/ RunFails \/ Callback \/ Finish

Next == VM \/ Recorder \/ Done

(* One thread runs the recorder and the VM in turn, and nothing in it      *)
(* blocks.                                                                 *)
Spec == Init /\ [][Next]_vars /\ WF_vars(Next)

------------------------------------------------------------------------------
(* Properties.                                                             *)

Phases == {"idle", "begun", "paused", "released", "halted", "closed", "failed"}

FrameType == [return_addr : Nat, last : Loc \union {None}]

(* Every variable keeps its type.                                          *)
TypeOK ==
  /\ prog \in Programs
  /\ phase \in Phases
  /\ pc \in Addr
  /\ stack \in Seq([ret : Addr, callee : Addr])
  /\ receipts \in Seq([kind : ReceiptKinds, pc : Addr])
  /\ gas \in 0..GasLimit
  /\ frames \in Seq(FrameType)
  /\ pending_call \in Nat \union {None}
  /\ seen \in 0..Len(receipts)
  /\ writer \in WriterType(FunctionName, Loc, {})

Recording == phase \in {"begun", "paused", "released", "halted"}

(* While the trace is being written the writer has as many calls open as   *)
(* the recorder has frames, at least the top-level one, and no return was  *)
(* ever registered with nothing open; a finished trace has closed them all *)
(* (the pops of source_level.rs:135-143 and the closing loop of 214-216).  *)
CallsBalanced ==
  /\ writer.unmatched = 0
  /\ Recording => Len(frames) >= 1 /\ Len(writer.open) = Len(frames)
  /\ phase = "closed" => writer.open = <<>>

(* "Frames follow the FuelVM call convention" (source_level.rs:11-14):     *)
(* whenever an instruction executes, the open frames return where the      *)
(* program's own call stack returns, in the same order.                    *)
FramesMatchCallStack ==
  phase = "released" =>
    /\ Len(frames) = Len(stack) + 1
    /\ frames[1].return_addr = EndOfScript
    /\ \A i \in 1..Len(stack) : frames[i + 1].return_addr = stack[i].ret

(* Along the program's stack the functions go up in rank, and the running  *)
(* one is above them all.                                                  *)
StackOrdered ==
  LET Rank(a) == prog.rank[prog.fn[a]]
  IN  \A i \in 1..Len(stack) :
        /\ Rank(stack[i].ret) < Rank(pc)
        /\ \A j \in (i + 1)..Len(stack) : Rank(stack[i].ret) < Rank(stack[j].ret)

(* How the frames and the stack differ at a breakpoint, before the closure *)
(* has run: by the call or the return the last instruction made.           *)
FramesAwaiting ==
  phase \in {"begun", "paused"} =>
    /\ frames[1].return_addr = EndOfScript
    /\ \/ /\ pending_call # None
          /\ Len(stack) = Len(frames)
          /\ stack[Len(stack)].ret = pending_call
       \/ pending_call = None /\ Len(stack) = Len(frames) - 1
       \/ /\ pending_call = None
          /\ Len(stack) = Len(frames) - 2
          /\ Top(frames).return_addr = pc
    /\ \A i \in 1..Len(stack) :
         i < Len(frames) => frames[i + 1].return_addr = stack[i].ret

(* A call is pending exactly while the instruction that made it executes   *)
(* and until the callee's first breakpoint.                                *)
PendingCallFresh ==
  /\ phase = "released" =>
       pending_call = IF prog.op[pc] = "call" THEN pc + 1 ELSE None
  /\ phase = "idle" => pending_call = None /\ stack = <<>>

(* The inductive invariant behind FramesMatchCallStack.                    *)
StackInv == StackOrdered /\ FramesAwaiting /\ PendingCallFresh /\ FramesMatchCallStack

(* Each open call carries the name of the function that is really active   *)
(* at that depth, or is unnamed because its first instruction is unmapped. *)
FramesNamed ==
  phase = "released" =>
    \A i \in 1..Len(stack) :
      writer.open[i + 1] = IF prog.loc[stack[i].callee] = None THEN Unnamed
                           ELSE prog.fn[stack[i].callee]

(* The place the trace shows while an instruction executes: its own        *)
(* location when it is mapped and stays in its frame (also on the line the *)
(* caller left from: source_level.rs:138-142), and never a location of     *)
(* another function, although forc attributes some jumps to one.           *)
PositionShown ==
  phase = "released" =>
    /\ prog.loc[pc] # None /\ ~LeavesFrame(frames) => writer.pending = prog.loc[pc]
    /\ writer.pending # None => prog.owner[writer.pending] = prog.fn[pc]

(* Nothing is recorded twice in a row: a committed step and the step after *)
(* it in the same frame show different places.  The pending step is the    *)
(* top frame's last location, so a new step is a change of place.          *)
LastIsPending == Recording => Top(frames).last = writer.pending

(* A receipt reaches the event stream once and in order: those seen at a   *)
(* breakpoint, and at the end all of them, the script's own Return and     *)
(* ScriptResult excepted (source_level.rs:128-131 and 200-210).            *)
ReceiptsMirroredOnce ==
  /\ events = Only(SubSeq(receipts, 1, seen), OfKind({"Log", "Panic", "Revert"}))
  /\ phase = "closed" => seen = Len(receipts)

(* A recording ends: the script's gas is finite and the recorder never     *)
(* waits.                                                                  *)
RecordingEnds == <>(phase \in {"closed", "failed"})

(* The trace keeps what CallTrace promises.                                *)
Trace == INSTANCE CallTrace WITH
  Function <- FunctionName, Place <- Loc,
  open <- writer.open, position <- writer.pending,
  status <- CASE phase = "idle" -> "unopened"
              [] phase = "closed" -> "closed"
              [] phase = "failed" -> "abandoned"
              [] OTHER -> "recording"

ImplementsCallTrace == Trace!Spec
==============================================================================
