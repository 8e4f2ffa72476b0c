--------------------------- MODULE VariableTracker ---------------------------
(***************************************************************************)
(* VariableTracker (src/src/variable_tracker.rs) as FuelRecorder::record   *)
(* drives it: names for registers, guessed from the instructions, shown    *)
(* beside the registers' values.                                           *)
(*                                                                         *)
(* A name is composed before its instruction executes, from the names of   *)
(* the operands; the register has the value the name speaks of only after  *)
(* it.  The module runs the tracker beside the registers it talks about    *)
(* and asks whether a name can be read as an expression with the value of  *)
(* the register it names.                                                  *)
(*                                                                         *)
(* A name is the list of its terms and the verbs between them.  As in the  *)
(* code, composing flattens: (a - b) - c and a - (b - c) have one name.    *)
(***************************************************************************)
EXTENDS Integers, Sequences

CONSTANTS None,
          Register,
          Reserved,      \* registers below 16, of those that never change
          Displayed,     \* the registers of a snapshot, r16-r23
          MaxValue,      \* the largest register value
          Instructions,  \* what programs are made of
          ParamCounts,   \* parameters the ABI gives the entry point
          MaxSteps       \* instructions executed

Immediate == {"ADDI", "SUBI", "MULI"}

Ops == {"MOVI", "ADD", "SUB", "MUL", "other", "undecodable"} \union Immediate

Value == 0..MaxValue

Instruction == [ op : Ops, dst : Register, lhs : Register, rhs : Register, imm : Value ]

ASSUME RegisterAssumption ==
  /\ Register \subseteq Nat
  /\ Reserved \subseteq Register /\ Displayed \subseteq Register \ Reserved
ASSUME ValueAssumption ==
  MaxValue \in Nat /\ MaxSteps \in Nat /\ Reserved \subseteq Value
ASSUME InstructionAssumption == Instructions \subseteq Instruction
ASSUME ParamAssumption == ParamCounts \subseteq Nat

VARIABLES
  instr,           \* the instruction at pc
  phase,           \* paused -> released -> paused ... -> halted
  steps,
  registers,
  clean,           \* written by tracked instructions on clean operands only
  loads,           \* what MOVI has loaded into general-purpose registers
  drawn,           \* the loads a register's last tracked write drew on
  register_names,
  param_count,     \* length of abi_params
  movi_count,
  tracked,         \* what process_step returned
  shown            \* the last snapshot: a name and a value per register

vmVars == <<steps, registers, clean, loads, drawn>>
trackerVars == <<register_names, param_count, movi_count, tracked, shown>>
vars == <<instr, phase, vmVars, trackerVars>>

------------------------------------------------------------------------------
(* Names.                                                                  *)

(* A term: a parameter by its position, imm_N, rN, or a plain literal.     *)
Atom(kind, n) == [terms |-> <<[kind |-> kind, n |-> n]>>, verbs |-> <<>>]

Join(a, verb, b) ==
  [terms |-> a.terms \o b.terms, verbs |-> a.verbs \o <<verb>> \o b.verbs]

VerbOf == [ ADD |-> "plus", ADDI |-> "plus", SUB |-> "minus", SUBI |-> "minus",
            MUL |-> "times", MULI |-> "times" ]

RegisterName(r) ==
  IF r \in DOMAIN register_names THEN register_names[r] ELSE Atom("reg", r)

MutantMoviNeverCounted ==
  IF 0 < param_count THEN Atom("param", 1) ELSE Atom("imm", instr.imm)

MoviName ==
  IF movi_count < param_count THEN Atom("param", movi_count + 1)
                              ELSE Atom("imm", instr.imm)

Second ==
  IF instr.op \in Immediate THEN Atom("lit", instr.imm) ELSE RegisterName(instr.rhs)

MutantOperandsSwapped ==
  IF instr.op = "MOVI" THEN MoviName
  ELSE Join(Second, VerbOf[instr.op], RegisterName(instr.lhs))

NewName ==
  IF instr.op = "MOVI" THEN MoviName
  ELSE Join(RegisterName(instr.lhs), VerbOf[instr.op], Second)

MutantTracksReserved == instr.op \in {"MOVI"} \union DOMAIN VerbOf

IsTracked ==
  instr.op \in {"MOVI"} \union DOMAIN VerbOf /\ instr.dst \notin Reserved

(* The registers are read before the instruction executes. *)
TrackedVariable ==
  [ name |-> NewName,
    value |-> IF instr.op = "MOVI" THEN instr.imm ELSE registers[instr.dst],
    register |-> instr.dst ]

MutantNamesAsTracked(names, new) ==
  [ r \in Displayed |->
      [ name |-> IF new # None THEN new.name
                 ELSE IF r \in DOMAIN names THEN names[r] ELSE Atom("reg", r),
        value |-> registers[r] ] ]

(* The loop over r16-r23 in record.  *)
Snapshot(names, new) ==
  [ r \in Displayed |->
      [ name |-> IF new # None /\ new.register = r THEN new.name
                 ELSE IF r \in DOMAIN names THEN names[r] ELSE Atom("reg", r),
        value |-> registers[r] ] ]

------------------------------------------------------------------------------

(* A breakpoint.  An instruction that is not tracked leaves every name as  *)
(* it is, whatever it writes.                                              *)
ProcessStep ==
  /\ phase = "paused"
  /\ phase' = "released"
  /\ IF IsTracked
       THEN /\ tracked' = TrackedVariable
            /\ register_names' = [r \in DOMAIN register_names \union {instr.dst} |->
                                    IF r = instr.dst THEN NewName ELSE register_names[r]]
            /\ movi_count' = movi_count + IF instr.op = "MOVI" THEN 1 ELSE 0
       ELSE tracked' = None /\ UNCHANGED <<register_names, movi_count>>
  /\ shown' = Snapshot(register_names', tracked')
  /\ UNCHANGED <<instr, vmVars, param_count>>

Apply(verb, a, b) ==
  CASE verb = "plus" -> a + b [] verb = "minus" -> a - b [] verb = "times" -> a * b

Result ==
  IF instr.op = "MOVI" THEN instr.imm
  ELSE Apply(VerbOf[instr.op], registers[instr.lhs],
             IF instr.op \in Immediate THEN instr.imm ELSE registers[instr.rhs])

OperandsClean ==
  /\ instr.op \in {"MOVI"} \union DOMAIN VerbOf
  /\ instr.op # "MOVI" => clean[instr.lhs]
  /\ instr.op \in DOMAIN VerbOf \ Immediate => clean[instr.rhs]

(* The loads behind the result, operand by operand; 0 stands for an operand *)
(* that is no load: an immediate, or a register before its first write.    *)
DrawsOn ==
  IF instr.op = "MOVI" THEN <<Len(loads) + 1>>
  ELSE drawn[instr.lhs] \o IF instr.op \in Immediate THEN <<0>> ELSE drawn[instr.rhs]

(* The VM.  A result out of range and a write to a reserved register panic *)
(* (F_WRAPPING is not set); an instruction that is not tracked may write   *)
(* anything.                                                               *)
Execute ==
  /\ phase = "released" /\ steps < MaxSteps
  /\ instr.op # "undecodable" /\ instr.dst \notin Reserved
  /\ \E v \in Value :
       /\ instr.op # "other" => v = Result
       /\ registers' = [registers EXCEPT ![instr.dst] = v]
  /\ clean' = [clean EXCEPT ![instr.dst] = OperandsClean]
  /\ loads' = IF instr.op = "MOVI" THEN Append(loads, instr.imm) ELSE loads
  /\ drawn' = IF instr.op = "other" THEN drawn ELSE [drawn EXCEPT ![instr.dst] = DrawsOn]
  /\ steps' = steps + 1
  /\ instr' \in Instructions
  /\ phase' = "paused"
  /\ UNCHANGED trackerVars

(* The program returns or panics. *)
Halt ==
  /\ phase = "released"
  /\ phase' = "halted"
  /\ UNCHANGED <<instr, vmVars, trackerVars>>

Done == phase = "halted" /\ UNCHANGED vars

InitialValue(r) == IF r \in Reserved THEN r ELSE 0   \* $zero and $one

(* set_abi comes before the first step, or not at all. *)
Init ==
  /\ instr \in Instructions /\ phase = "paused" /\ steps = 0
  /\ registers = [r \in Register |-> InitialValue(r)]
  /\ clean = [r \in Register |-> TRUE]
  /\ loads = <<>> /\ drawn = [r \in Register |-> <<0>>]
  /\ register_names = <<>>
  /\ param_count \in ParamCounts
  /\ movi_count = 0 /\ tracked = None
  /\ shown = [r \in Displayed |-> [name |-> Atom("reg", r), value |-> 0]]

Next == ProcessStep \/ Execute \/ Halt \/ Done

Spec == Init /\ [][Next]_vars

------------------------------------------------------------------------------
(* Properties.                                                             *)

(* A verb between every two terms. *)
Names ==
  { name \in [ terms : Seq([kind : {"param", "imm", "reg", "lit"}, n : Nat]),
               verbs : Seq({"plus", "minus", "times"}) ] :
      Len(name.terms) = Len(name.verbs) + 1 }

(* Every variable keeps its type; reserved registers are never named. *)
TypeOK ==
  /\ instr \in Instructions /\ phase \in {"paused", "released", "halted"}
  /\ steps \in 0..MaxSteps
  /\ registers \in [Register -> Value] /\ clean \in [Register -> BOOLEAN]
  /\ loads \in Seq(Value) /\ drawn \in [Register -> Seq(0..Len(loads))]
  /\ DOMAIN register_names \subseteq Register \ Reserved
  /\ \A r \in DOMAIN register_names : register_names[r] \in Names
  /\ param_count \in ParamCounts /\ movi_count \in Nat
  /\ tracked \in {None} \union [name : Names, value : Value, register : Register]
  /\ shown \in [Displayed -> [name : Names, value : Value]]

Denotes(t, given) ==
  CASE t.kind = "param" -> given[t.n]
    [] t.kind = "reg" -> InitialValue(t.n)
    [] OTHER -> t.n

Pairwise(verb, A, B) == {Apply(verb, a, b) : a \in A, b \in B}

(* What the d + 1 terms from each i on may mean, given that of fewer.      *)
Row(name, given, spans, d) ==
  [ i \in 1..(Len(name.terms) - d) |->
      IF d = 0 THEN {Denotes(name.terms[i], given)}
      ELSE UNION { Pairwise(name.verbs[i + k], spans[k][i], spans[d - k - 1][i + k + 1]) :
                   k \in 0..(d - 1) } ]

(* What a name may mean after the loads given: its value under every way   *)
(* to bracket it.                                                          *)
Readings(name, given) ==
  LET last == Len(name.terms) - 1
      Span[d \in 0..last] == Row(name, given, Span, d)
  IN  Span[last][1]

(* A name follows its register: at a breakpoint, whatever was moved,       *)
(* overwritten and recomputed before, the name of a register that no       *)
(* untracked write has reached can be read as its value                    *)
(* (variable_tracker.rs:80-242).                                           *)
NamesReadAsValues ==
  phase = "paused" =>
    \A r \in Register : clean[r] => registers[r] \in Readings(RegisterName(r), loads)

(* The pairs a snapshot shows belong together, except for the register the *)
(* instruction is about to write (recorder.rs:708-728).                    *)
ShownPairsRead ==
  phase = "released" =>
    \A r \in Displayed :
      clean[r] /\ r # instr.dst => shown[r].value \in Readings(shown[r].name, loads)

(* What the k-th load is to be called.                                     *)
LoadTerm(k) ==
  IF k <= param_count THEN [kind |-> "param", n |-> k] ELSE [kind |-> "imm", n |-> loads[k]]

(* The ABI's parameters name the first loads, in their order, and no other:*)
(* term by term, a name calls each load that the register's last tracked   *)
(* write drew on by the parameter with the number of the load, and by its  *)
(* value once the parameters are used up; no other term is a parameter or  *)
(* a load (variable_tracker.rs:80-242).                                    *)
ParamsNameFirstLoads ==
  phase = "paused" =>
    \A r \in Register :
      LET terms == RegisterName(r).terms
      IN  /\ Len(terms) = Len(drawn[r])
          /\ \A i \in 1..Len(terms) :
               IF drawn[r][i] > 0 THEN terms[i] = LoadTerm(drawn[r][i])
                                  ELSE terms[i].kind \notin {"param", "imm"}

------------------------------------------------------------------------------

(* process_step returns the name of a sum with the sum: "current value"    *)
(* (variable_tracker.rs:29), 42 for imm_10_plus_imm_32                     *)
(* (tests/test_variable_tracker.rs:64-65).                                 *)
TrackedValueIsResult ==
  phase = "released" /\ tracked # None => tracked.value = Result
==============================================================================
