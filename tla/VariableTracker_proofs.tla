----------------------- MODULE VariableTracker_proofs -----------------------
(***************************************************************************)
(* Theorems about VariableTracker, for every set of instructions, any      *)
(* number of parameters and programs of any length.                        *)
(*                                                                         *)
(* The argument: between a breakpoint and the execution of its instruction *)
(* the names are ahead of the registers by the load to come, so names are  *)
(* compared with the loads that will have happened then.                   *)
(***************************************************************************)
EXTENDS VariableTracker, SequenceFacts_proofs

Loading == phase = "released" /\ IsTracked /\ instr.op = "MOVI"

(* The loads when the instruction shown has executed. *)
Upcoming == IF Loading THEN Append(loads, instr.imm) ELSE loads

(* What a register's last tracked write has drawn on when it has. *)
UpcomingDrawn(r) ==
  IF phase = "released" /\ IsTracked /\ r = instr.dst THEN DrawsOn ELSE drawn[r]

(* What ParamsNameFirstLoads asks of a term, for the load behind it, the   *)
(* loads and the number of parameters given.                               *)
ToldTerm(t, k, ls, count) ==
  IF k > 0 THEN t = IF k <= count THEN [kind |-> "param", n |-> k]
                                  ELSE [kind |-> "imm", n |-> ls[k]]
           ELSE t.kind \notin {"param", "imm"}

Told(name, d, ls, count) ==
  /\ d \in Seq(0..Len(ls)) /\ Len(d) = Len(name.terms)
  /\ \A i \in 1..Len(name.terms) : ToldTerm(name.terms[i], d[i], ls, count)

AllTold ==
  \A r \in Register : Told(RegisterName(r), UpcomingDrawn(r), Upcoming, param_count)

NamesInv ==
  phase # "halted" =>
    /\ movi_count = Len(Upcoming)
    /\ AllTold

VarInv == TypeOK /\ NamesInv

Terms == [kind : {"param", "imm", "reg", "lit"}, n : Nat]
Verbs == {"plus", "minus", "times"}

------------------------------------------------------------------------------
(* Names.                                                                  *)

LEMMA NameMade ==
  ASSUME NEW s \in Seq(Terms), NEW t \in Seq(Verbs), Len(s) = Len(t) + 1
  PROVE  [terms |-> s, verbs |-> t] \in Names
<1> DEFINE name == [terms |-> s, verbs |-> t]
           All == [terms : Seq(Terms), verbs : Seq(Verbs)]
<1>1. name.terms = s /\ name.verbs = t /\ name \in All
  OBVIOUS
<1>2. Names = {x \in All : Len(x.terms) = Len(x.verbs) + 1}
  BY DEF Names, Terms, Verbs
<1> HIDE DEF name, All
<1>3. name \in Names
  BY <1>1, <1>2
<1> QED
  BY <1>3 DEF name

LEMMA AtomFacts ==
  ASSUME NEW kind \in {"param", "imm", "reg", "lit"}, NEW n \in Nat
  PROVE  /\ Atom(kind, n) \in Names
         /\ Len(Atom(kind, n).terms) = 1
         /\ Atom(kind, n).terms[1] = [kind |-> kind, n |-> n]
<1>1. [kind |-> kind, n |-> n] \in Terms
  BY DEF Terms
<1>2. /\ <<[kind |-> kind, n |-> n]>> \in Seq(Terms) /\ <<>> \in Seq(Verbs)
      /\ Len(<<[kind |-> kind, n |-> n]>>) = 1 /\ Len(<<>>) = 0
  BY <1>1
<1>3. Len(<<[kind |-> kind, n |-> n]>>) = Len(<<>>) + 1
  BY <1>2
<1>4. Atom(kind, n) \in Names
  BY <1>2, <1>3, NameMade DEF Atom
<1> QED
  BY <1>4 DEF Atom

LEMMA NameFacts ==
  ASSUME NEW name \in Names
  PROVE  /\ name.terms \in Seq(Terms) /\ name.verbs \in Seq(Verbs)
         /\ Len(name.terms) \in Nat /\ Len(name.terms) >= 1
         /\ Len(name.verbs) = Len(name.terms) - 1
<1>1. /\ name.terms \in Seq(Terms) /\ name.verbs \in Seq(Verbs)
      /\ Len(name.terms) = Len(name.verbs) + 1
  BY DEF Names, Terms, Verbs
<1>2. Len(name.terms) \in Nat /\ Len(name.verbs) \in Nat
  BY <1>1, ElementFacts
<1> QED
  BY <1>1, <1>2

LEMMA JoinFacts ==
  ASSUME NEW a \in Names, NEW b \in Names, NEW verb \in Verbs
  PROVE  /\ Join(a, verb, b) \in Names
         /\ Join(a, verb, b).terms = a.terms \o b.terms
         /\ Join(a, verb, b).verbs = a.verbs \o <<verb>> \o b.verbs
<1>1. /\ a.terms \in Seq(Terms) /\ b.terms \in Seq(Terms)
      /\ a.verbs \in Seq(Verbs) /\ b.verbs \in Seq(Verbs)
  BY NameFacts
<1>2. /\ a.terms \o b.terms \in Seq(Terms)
      /\ Len(a.terms \o b.terms) = Len(a.terms) + Len(b.terms)
  BY <1>1
<1>3. /\ a.verbs \o <<verb>> \o b.verbs \in Seq(Verbs)
      /\ Len(a.verbs \o <<verb>> \o b.verbs) = Len(a.verbs) + 1 + Len(b.verbs)
  <2>1. <<verb>> \in Seq(Verbs) /\ Len(<<verb>>) = 1
    OBVIOUS
  <2>2. a.verbs \o <<verb>> \in Seq(Verbs) /\ Len(a.verbs \o <<verb>>) = Len(a.verbs) + 1
    BY <1>1, <2>1
  <2> QED
    BY <1>1, <2>2
<1> DEFINE s == a.terms \o b.terms
           t == a.verbs \o <<verb>> \o b.verbs
<1>4. Join(a, verb, b) = [terms |-> s, verbs |-> t]
  BY DEF Join
<1>5. /\ s \in Seq(Terms) /\ t \in Seq(Verbs)
      /\ Len(s) = Len(a.terms) + Len(b.terms) /\ Len(t) = Len(a.verbs) + 1 + Len(b.verbs)
  BY <1>2, <1>3
<1> HIDE DEF s, t
<1>6. Len(s) = Len(t) + 1
  <2>1. /\ Len(a.terms) \in Nat /\ Len(a.verbs) = Len(a.terms) - 1
        /\ Len(b.terms) \in Nat /\ Len(b.verbs) = Len(b.terms) - 1
    BY NameFacts
  <2> QED
    BY <1>5, <2>1
<1>7. [terms |-> s, verbs |-> t] \in Names
  BY <1>5, <1>6, NameMade
<1>8. Join(a, verb, b).terms = s /\ Join(a, verb, b).verbs = t
  BY <1>4
<1> QED
  BY <1>4, <1>7, <1>8 DEF s, t

LEMMA ConcatFacts ==
  ASSUME NEW S, NEW s \in Seq(S), NEW t \in Seq(S)
  PROVE  /\ s \o t \in Seq(S) /\ Len(s \o t) = Len(s) + Len(t)
         /\ \A i \in 1..(Len(s) + Len(t)) :
              (s \o t)[i] = IF i <= Len(s) THEN s[i] ELSE t[i - Len(s)]
BY ConcatProperties, LenProperties

LEMMA ToldJoin ==
  ASSUME NEW a \in Names, NEW b \in Names, NEW verb \in Verbs, NEW ls, NEW count,
         NEW c, NEW d, Told(a, c, ls, count), Told(b, d, ls, count)
  PROVE  Told(Join(a, verb, b), c \o d, ls, count)
<1> DEFINE s == a.terms
           t == b.terms
           S == 0..Len(ls)
<1>1. s \in Seq(Terms) /\ t \in Seq(Terms) /\ Join(a, verb, b).terms = s \o t
  BY JoinFacts, NameFacts
<1>2. /\ c \in Seq(S) /\ Len(c) = Len(s) /\ d \in Seq(S) /\ Len(d) = Len(t)
      /\ \A i \in 1..Len(s) : ToldTerm(s[i], c[i], ls, count)
      /\ \A i \in 1..Len(t) : ToldTerm(t[i], d[i], ls, count)
  BY DEF Told
<1> HIDE DEF s, t, S
<1>3. /\ Len(s) \in Nat /\ Len(t) \in Nat /\ Len(s \o t) = Len(s) + Len(t)
      /\ c \o d \in Seq(S) /\ Len(c \o d) = Len(s) + Len(t)
      /\ \A i \in 1..(Len(s) + Len(t)) :
           /\ (s \o t)[i] = IF i <= Len(s) THEN s[i] ELSE t[i - Len(s)]
           /\ (c \o d)[i] = IF i <= Len(s) THEN c[i] ELSE d[i - Len(s)]
  <2>1. /\ Len(s \o t) = Len(s) + Len(t)
        /\ \A i \in 1..(Len(s) + Len(t)) :
             (s \o t)[i] = IF i <= Len(s) THEN s[i] ELSE t[i - Len(s)]
    BY <1>1, ConcatFacts
  <2>2. /\ c \o d \in Seq(S) /\ Len(c \o d) = Len(c) + Len(d)
        /\ \A i \in 1..(Len(c) + Len(d)) :
             (c \o d)[i] = IF i <= Len(c) THEN c[i] ELSE d[i - Len(c)]
    BY <1>2, ConcatFacts
  <2>3. Len(s) \in Nat /\ Len(t) \in Nat
    BY <1>1, ElementFacts
  <2> QED
    BY <1>2, <2>1, <2>2, <2>3
<1>4. \A i \in 1..Len(s \o t) : ToldTerm((s \o t)[i], (c \o d)[i], ls, count)
  <2> TAKE i \in 1..Len(s \o t)
  <2>1. i \in 1..Len(s) \/ (~(i <= Len(s)) /\ i - Len(s) \in 1..Len(t))
    BY <1>3
  <2>2. CASE i \in 1..Len(s)
    BY <1>2, <1>3, <2>2
  <2>3. CASE ~(i <= Len(s)) /\ i - Len(s) \in 1..Len(t)
    BY <1>2, <1>3, <2>3
  <2> QED
    BY <2>1, <2>2, <2>3
<1> QED
  BY <1>1, <1>3, <1>4 DEF Told, S

(* A further load leaves every name true. *)
LEMMA ToldGrows ==
  ASSUME NEW name, NEW d, NEW ls \in Seq(Value), NEW v \in Value, NEW count \in Nat,
         Told(name, d, ls, count)
  PROVE  Told(name, d, Append(ls, v), count)
<1>1. /\ Len(ls) \in Nat /\ Len(Append(ls, v)) = Len(ls) + 1
      /\ \A i \in 1..Len(ls) : Append(ls, v)[i] = ls[i]
  BY AppendFacts
<1>2. /\ d \in Seq(0..Len(ls)) /\ Len(d) = Len(name.terms)
      /\ \A i \in 1..Len(d) : ToldTerm(name.terms[i], d[i], ls, count)
  BY DEF Told
<1>3. \A i \in 1..Len(d) : d[i] \in 0..Len(ls) /\ d[i] \in 0..Len(Append(ls, v))
  BY <1>1, <1>2, ElementFacts
<1>4. d \in Seq(0..Len(Append(ls, v)))
  BY <1>2, <1>3, RetypeFacts
<1>5. ASSUME NEW i \in 1..Len(d)
      PROVE  ToldTerm(name.terms[i], d[i], Append(ls, v), count)
  <2>1. d[i] > 0 => Append(ls, v)[d[i]] = ls[d[i]]
    BY <1>1, <1>3
  <2> QED
    BY <1>2, <2>1 DEF ToldTerm
<1> QED
  BY <1>2, <1>4, <1>5 DEF Told

(* A name of a single term. *)
LEMMA ToldAtom ==
  ASSUME NEW kind \in {"param", "imm", "reg", "lit"}, NEW n \in Nat, NEW ls, NEW count,
         NEW k \in 0..Len(ls), ToldTerm([kind |-> kind, n |-> n], k, ls, count)
  PROVE  Told(Atom(kind, n), <<k>>, ls, count)
<1>1. /\ Len(Atom(kind, n).terms) = 1
      /\ Atom(kind, n).terms[1] = [kind |-> kind, n |-> n]
  BY AtomFacts
<1>2. <<k>> \in Seq(0..Len(ls)) /\ Len(<<k>>) = 1 /\ <<k>>[1] = k
  OBVIOUS
<1> QED
  BY <1>1, <1>2 DEF Told

LEMMA RegisterNameFacts ==
  ASSUME TypeOK, NEW r \in Register
  PROVE  RegisterName(r) \in Names
<1>1. r \in Nat /\ Atom("reg", r) \in Names
  BY RegisterAssumption, AtomFacts
<1> QED
  BY <1>1 DEF RegisterName, TypeOK

(* The instruction shown, with the types of its parts. *)
LEMMA InstrFacts ==
  ASSUME TypeOK
  PROVE  /\ instr.op \in Ops /\ instr.dst \in Register /\ instr.imm \in Value
         /\ instr.lhs \in Register /\ instr.rhs \in Register
         /\ Value \subseteq Nat /\ param_count \in Nat
         /\ \A op \in DOMAIN VerbOf : VerbOf[op] \in Verbs
<1>1. instr \in Instruction
  BY InstructionAssumption DEF TypeOK
<1>2. Value \subseteq Nat /\ param_count \in Nat
  BY ValueAssumption, ParamAssumption DEF TypeOK, Value
<1>3. \A op \in DOMAIN VerbOf : VerbOf[op] \in Verbs
  BY DEF VerbOf, Verbs
<1> QED
  BY <1>1, <1>2, <1>3 DEF Instruction

LEMMA NewNameFacts ==
  ASSUME TypeOK, IsTracked
  PROVE  NewName \in Names
<1>1. movi_count + 1 \in Nat /\ instr.imm \in Nat
  BY InstrFacts DEF TypeOK
<1>2. /\ Atom("param", movi_count + 1) \in Names /\ Atom("imm", instr.imm) \in Names
      /\ Atom("lit", instr.imm) \in Names
  BY <1>1, AtomFacts
<1>3. RegisterName(instr.lhs) \in Names /\ RegisterName(instr.rhs) \in Names
  BY InstrFacts, RegisterNameFacts
<1>4. CASE instr.op = "MOVI"
  BY <1>2, <1>4 DEF NewName, MoviName
<1>5. CASE instr.op # "MOVI"
  <2>1. NewName = Join(RegisterName(instr.lhs), VerbOf[instr.op], Second)
    BY <1>5 DEF NewName
  <2>2. Second \in Names /\ VerbOf[instr.op] \in Verbs
    BY <1>2, <1>3, <1>5, InstrFacts DEF Second, IsTracked
  <2> QED
    BY <1>3, <2>1, <2>2, JoinFacts
<1> QED
  BY <1>4, <1>5

(* The name about to be given tells of the loads it draws on. *)
LEMMA NewNameTold ==
  ASSUME VarInv, phase = "paused", IsTracked
  PROVE  Told(NewName, DrawsOn,
              IF instr.op = "MOVI" THEN Append(loads, instr.imm) ELSE loads, param_count)
<1>1. /\ TypeOK /\ loads \in Seq(Value) /\ Len(loads) \in Nat
      /\ param_count \in Nat /\ instr.imm \in Value /\ instr.imm \in Nat
  BY InstrFacts, ElementFacts DEF VarInv, TypeOK
<1>2. movi_count = Len(loads)
  BY <1>1 DEF VarInv, NamesInv, Upcoming, Loading
<1>3. \A r \in Register : Told(RegisterName(r), drawn[r], loads, param_count)
  BY DEF VarInv, NamesInv, AllTold, Upcoming, UpcomingDrawn, Loading
<1>4. CASE instr.op = "MOVI"
  <2> DEFINE ls == Append(loads, instr.imm)
             k == Len(loads) + 1
  <2>1. Len(ls) = k /\ ls[k] = instr.imm
    BY <1>1, AppendFacts
  <2>2. /\ DrawsOn = <<k>>
        /\ NewName = IF k <= param_count THEN Atom("param", k) ELSE Atom("imm", instr.imm)
    BY <1>1, <1>2, <1>4 DEF DrawsOn, NewName, MoviName
  <2>3. k \in Nat /\ k > 0 /\ k \in 0..Len(ls)
    BY <1>1, <2>1
  <2> HIDE DEF ls, k
  <2>4. CASE k <= param_count
    <3>1. ToldTerm([kind |-> "param", n |-> k], k, ls, param_count)
      BY <2>3, <2>4 DEF ToldTerm
    <3>2. Told(Atom("param", k), <<k>>, ls, param_count)
      BY <2>3, <3>1, ToldAtom
    <3> QED
      BY <1>4, <2>2, <2>4, <3>2 DEF ls
  <2>5. CASE ~(k <= param_count)
    <3>1. ToldTerm([kind |-> "imm", n |-> instr.imm], k, ls, param_count)
      BY <2>1, <2>3, <2>5 DEF ToldTerm
    <3>2. Told(Atom("imm", instr.imm), <<k>>, ls, param_count)
      BY <1>1, <2>3, <3>1, ToldAtom
    <3> QED
      BY <1>4, <2>2, <2>5, <3>2 DEF ls
  <2> QED
    BY <2>4, <2>5
<1>5. CASE instr.op # "MOVI"
  <2> DEFINE d == IF instr.op \in Immediate THEN <<0>> ELSE drawn[instr.rhs]
  <2>1. /\ NewName = Join(RegisterName(instr.lhs), VerbOf[instr.op], Second)
        /\ DrawsOn = drawn[instr.lhs] \o d
        /\ VerbOf[instr.op] \in Verbs /\ RegisterName(instr.lhs) \in Names
        /\ Told(RegisterName(instr.lhs), drawn[instr.lhs], loads, param_count)
    BY <1>1, <1>3, <1>5, InstrFacts, RegisterNameFacts DEF NewName, DrawsOn, IsTracked
  <2>2. Second \in Names /\ Told(Second, d, loads, param_count)
    <3>1. CASE instr.op \in Immediate
      <4>1. ToldTerm([kind |-> "lit", n |-> instr.imm], 0, loads, param_count)
        BY DEF ToldTerm
      <4>2. 0 \in 0..Len(loads)
        BY <1>1
      <4>3. Told(Atom("lit", instr.imm), <<0>>, loads, param_count)
        BY <1>1, <4>1, <4>2, ToldAtom
      <4>4. Atom("lit", instr.imm) \in Names
        BY <1>1, AtomFacts
      <4> QED
        BY <3>1, <4>3, <4>4 DEF Second
    <3>2. CASE instr.op \notin Immediate
      BY <1>1, <1>3, <3>2, InstrFacts, RegisterNameFacts DEF Second
    <3> QED
      BY <3>1, <3>2
  <2> HIDE DEF d
  <2> QED
    BY <1>5, <2>1, <2>2, ToldJoin
<1> QED
  BY <1>4, <1>5

------------------------------------------------------------------------------
(* Steps.                                                                  *)

LEMMA VarInit == Init => VarInv
<1> SUFFICES ASSUME Init PROVE VarInv
  OBVIOUS
<1>1. TypeOK
  <2>1. registers \in [Register -> Value] /\ clean \in [Register -> BOOLEAN]
    <3>1. \A r \in Register : InitialValue(r) \in Value
      <4>1. 0 \in Value /\ Reserved \subseteq Value
        BY ValueAssumption DEF Value
      <4> QED
        BY <4>1 DEF InitialValue
    <3> QED
      BY <3>1 DEF Init
  <2>2. \A r \in Displayed : Atom("reg", r) \in Names
    BY RegisterAssumption, AtomFacts
  <2>3. shown \in [Displayed -> [name : Names, value : Value]]
    BY <2>2, ValueAssumption DEF Init, Value
  <2>4. /\ loads \in Seq(Value) /\ DOMAIN register_names = {}
        /\ drawn \in [Register -> Seq(0..Len(loads))]
    BY DEF Init
  <2>5. steps \in 0..MaxSteps
    BY ValueAssumption DEF Init
  <2> QED
    BY <2>1, <2>3, <2>4, <2>5 DEF Init, TypeOK
<1>2. NamesInv
  <2>1. Upcoming = <<>> /\ movi_count = Len(Upcoming) /\ phase = "paused"
    BY DEF Init, Upcoming, Loading
  <2>2. ASSUME NEW r \in Register
        PROVE  Told(RegisterName(r), UpcomingDrawn(r), Upcoming, param_count)
    <3>1. RegisterName(r) = Atom("reg", r) /\ UpcomingDrawn(r) = <<0>> /\ r \in Nat
      BY RegisterAssumption DEF Init, RegisterName, UpcomingDrawn
    <3>2. ToldTerm([kind |-> "reg", n |-> r], 0, Upcoming, param_count)
      BY DEF ToldTerm
    <3>3. 0 \in 0..Len(Upcoming)
      BY <2>1
    <3> QED
      BY <3>1, <3>2, <3>3, ToldAtom
  <2> QED
    BY <2>1, <2>2 DEF NamesInv, AllTold
<1> QED
  BY <1>1, <1>2 DEF VarInv

(* What ProcessStep does to the names. *)
LEMMA ProcessFacts ==
  ASSUME TypeOK, ProcessStep
  PROVE  /\ phase = "paused" /\ phase' = "released"
         /\ UNCHANGED <<instr, vmVars, param_count>>
         /\ IsTracked' = IsTracked
         /\ IsTracked =>
              /\ DOMAIN register_names' = DOMAIN register_names \union {instr.dst}
              /\ \A r \in DOMAIN register_names' :
                   register_names'[r] = IF r = instr.dst THEN NewName ELSE register_names[r]
              /\ movi_count' = movi_count + IF instr.op = "MOVI" THEN 1 ELSE 0
         /\ ~IsTracked => UNCHANGED <<register_names, movi_count>>
BY DEF ProcessStep, IsTracked

LEMMA ProcessTyped ==
  ASSUME TypeOK, ProcessStep
  PROVE  TypeOK'
<1>1. /\ phase' = "released"
      /\ UNCHANGED <<instr, steps, registers, clean, loads, drawn, param_count>>
  BY DEF ProcessStep, vmVars
<1>2. movi_count' \in Nat
  BY ProcessFacts DEF TypeOK
<1>3. /\ DOMAIN register_names' \subseteq Register \ Reserved
      /\ \A r \in DOMAIN register_names' : register_names'[r] \in Names
  <2>1. CASE IsTracked
    <3>1. instr.dst \in Register \ Reserved /\ NewName \in Names
      BY <2>1, InstrFacts, NewNameFacts DEF IsTracked
    <3> QED
      BY <2>1, <3>1, ProcessFacts DEF TypeOK
  <2>2. CASE ~IsTracked
    BY <2>2, ProcessFacts DEF TypeOK
  <2> QED
    BY <2>1, <2>2
<1>4. tracked' \in {None} \union [name : Names, value : Value, register : Register]
  <2>1. CASE IsTracked
    <3>1. tracked' = [ name |-> NewName,
                       value |-> IF instr.op = "MOVI" THEN instr.imm ELSE registers[instr.dst],
                       register |-> instr.dst ]
      BY <2>1 DEF ProcessStep, TrackedVariable
    <3>2. instr.dst \in Register /\ instr.imm \in Value /\ registers[instr.dst] \in Value
      BY InstrFacts DEF TypeOK
    <3>3. NewName \in Names
      BY <2>1, NewNameFacts
    <3> QED
      BY <3>1, <3>2, <3>3
  <2>2. CASE ~IsTracked
    BY <2>2 DEF ProcessStep
  <2> QED
    BY <2>1, <2>2
<1>5. shown' \in [Displayed -> [name : Names, value : Value]]
  <2>1. shown' = [ r \in Displayed |->
                     [ name |-> IF tracked' # None /\ tracked'.register = r THEN tracked'.name
                                ELSE IF r \in DOMAIN register_names' THEN register_names'[r]
                                ELSE Atom("reg", r),
                       value |-> registers[r] ] ]
    BY DEF ProcessStep, Snapshot
  <2>2. ASSUME NEW r \in Displayed
        PROVE  /\ Atom("reg", r) \in Names /\ registers[r] \in Value
               /\ tracked' # None => tracked'.name \in Names
               /\ r \in DOMAIN register_names' => register_names'[r] \in Names
    <3>1. r \in Register /\ r \in Nat
      BY RegisterAssumption
    <3>2. Atom("reg", r) \in Names
      BY <3>1, AtomFacts
    <3> QED
      BY <1>3, <1>4, <3>1, <3>2 DEF TypeOK
  <2> QED
    BY <2>1, <2>2
<1> QED
  BY <1>1, <1>2, <1>3, <1>4, <1>5 DEF TypeOK

LEMMA ProcessNames ==
  ASSUME VarInv, ProcessStep
  PROVE  NamesInv'
<1>1. /\ TypeOK /\ loads \in Seq(Value) /\ Len(loads) \in Nat
      /\ param_count \in Nat /\ instr.imm \in Value /\ phase = "paused" /\ phase' = "released"
  BY InstrFacts, ElementFacts, ProcessFacts DEF VarInv, TypeOK
<1>2. UNCHANGED <<instr, loads, drawn, param_count>> /\ (IsTracked' <=> IsTracked)
  BY <1>1, ProcessFacts DEF vmVars
<1> DEFINE ls == IF IsTracked /\ instr.op = "MOVI" THEN Append(loads, instr.imm) ELSE loads
<1>3. Upcoming' = ls
  BY <1>1, <1>2 DEF Upcoming, Loading
<1>4. movi_count = Len(loads)
  BY <1>1 DEF VarInv, NamesInv, Upcoming, Loading
<1>5. movi_count' = Len(ls)
  BY <1>1, <1>4, ProcessFacts, AppendFacts
<1>6. \A r \in Register : Told(RegisterName(r), drawn[r], ls, param_count)
  <2>1. \A r \in Register : Told(RegisterName(r), drawn[r], loads, param_count)
    BY <1>1 DEF VarInv, NamesInv, AllTold, Upcoming, UpcomingDrawn, Loading
  <2> QED
    BY <1>1, <2>1, ToldGrows
<1>7. IsTracked => Told(NewName, DrawsOn, ls, param_count)
  BY <1>1, NewNameTold
<1> HIDE DEF ls
<1>8. ASSUME NEW r \in Register
      PROVE  Told(RegisterName(r)', UpcomingDrawn(r)', ls, param_count)
  <2>1. CASE IsTracked /\ r = instr.dst
    <3>1. RegisterName(r)' = NewName
      BY <1>1, <2>1, ProcessFacts DEF RegisterName
    <3>2. UpcomingDrawn(r)' = DrawsOn
      BY <1>1, <1>2, <2>1 DEF UpcomingDrawn, DrawsOn
    <3> QED
      BY <1>7, <2>1, <3>1, <3>2
  <2>2. CASE ~(IsTracked /\ r = instr.dst)
    <3>1. RegisterName(r)' = RegisterName(r)
      <4>1. CASE IsTracked
        BY <1>1, <2>2, <4>1, ProcessFacts DEF RegisterName
      <4>2. CASE ~IsTracked
        BY <1>1, <4>2, ProcessFacts DEF RegisterName
      <4> QED
        BY <4>1, <4>2
    <3>2. UpcomingDrawn(r)' = drawn[r]
      BY <1>2, <2>2 DEF UpcomingDrawn
    <3> QED
      BY <1>6, <3>1, <3>2
  <2> QED
    BY <2>1, <2>2
<1>9. AllTold'
  BY <1>2, <1>3, <1>8 DEF AllTold
<1> QED
  BY <1>3, <1>5, <1>9 DEF NamesInv

LEMMA ExecuteStep ==
  ASSUME VarInv, Execute
  PROVE  VarInv'
<1>1. /\ phase = "released" /\ phase' = "paused" /\ steps < MaxSteps /\ steps' = steps + 1
      /\ instr.op # "undecodable" /\ instr.dst \notin Reserved /\ instr' \in Instructions
      /\ UNCHANGED <<register_names, param_count, movi_count, tracked, shown>>
  BY DEF Execute, trackerVars
<1>2. TypeOK /\ instr.dst \in Register /\ instr.imm \in Value
  BY InstrFacts DEF VarInv
<1>3. registers' \in [Register -> Value]
  BY <1>2 DEF Execute, TypeOK
<1>4. clean' \in [Register -> BOOLEAN]
  <2>1. OperandsClean \in BOOLEAN
    BY DEF OperandsClean
  <2>2. clean' = [clean EXCEPT ![instr.dst] = OperandsClean]
    BY DEF Execute
  <2> QED
    BY <1>2, <2>1, <2>2 DEF TypeOK
<1>5. loads' = Upcoming /\ loads' \in Seq(Value)
  <2>1. loads' = IF instr.op = "MOVI" THEN Append(loads, instr.imm) ELSE loads
    BY DEF Execute
  <2>2. Loading <=> instr.op = "MOVI"
    BY <1>1 DEF Loading, IsTracked
  <2>3. loads \in Seq(Value) /\ Append(loads, instr.imm) \in Seq(Value)
    BY <1>2 DEF TypeOK
  <2> QED
    BY <2>1, <2>2, <2>3 DEF Upcoming
<1>6. steps' \in 0..MaxSteps
  BY <1>1, <1>2, ValueAssumption DEF TypeOK
<1>7. \A r \in Register : drawn'[r] = UpcomingDrawn(r)
  <2>1. IsTracked <=> instr.op # "other"
    BY <1>1, <1>2, InstrFacts DEF IsTracked, Ops, VerbOf, Immediate
  <2>2. drawn' = IF instr.op = "other" THEN drawn ELSE [drawn EXCEPT ![instr.dst] = DrawsOn]
    BY DEF Execute
  <2> QED
    BY <1>1, <1>2, <2>1, <2>2 DEF UpcomingDrawn, TypeOK
<1>8. movi_count = Len(Upcoming) /\ AllTold
  BY <1>1 DEF VarInv, NamesInv
<1>9. drawn' \in [Register -> Seq(0..Len(loads'))]
  <2>1. drawn' = [r \in Register |-> drawn'[r]]
    BY <1>2 DEF Execute, TypeOK
  <2>2. \A r \in Register : drawn'[r] \in Seq(0..Len(loads'))
    BY <1>5, <1>7, <1>8 DEF AllTold, Told
  <2> QED
    BY <2>1, <2>2
<1>10. TypeOK'
  BY <1>1, <1>2, <1>3, <1>4, <1>5, <1>6, <1>9 DEF TypeOK
<1>11. Upcoming' = Upcoming
  BY <1>1, <1>5 DEF Upcoming, Loading
<1>12. AllTold'
  <2>1. \A r \in Register :
          RegisterName(r)' = RegisterName(r) /\ UpcomingDrawn(r)' = UpcomingDrawn(r)
    BY <1>1, <1>7 DEF RegisterName, UpcomingDrawn
  <2> QED
    BY <1>1, <1>8, <1>11, <2>1 DEF AllTold
<1> QED
  BY <1>1, <1>8, <1>10, <1>11, <1>12 DEF VarInv, NamesInv

LEMMA VarStep == VarInv /\ [Next]_vars => VarInv'
<1> SUFFICES ASSUME VarInv, [Next]_vars PROVE VarInv'
  OBVIOUS
<1>1. CASE ProcessStep
  BY <1>1, ProcessTyped, ProcessNames DEF VarInv
<1>2. CASE Execute
  BY <1>2, ExecuteStep
<1>3. CASE Halt
  BY <1>3 DEF Halt, VarInv, TypeOK, NamesInv, vmVars, trackerVars
<1>4. CASE Done \/ UNCHANGED vars
  <2>1. UNCHANGED <<instr, phase, steps, registers, clean, loads, drawn,
                    register_names, param_count, movi_count, tracked, shown>>
    BY <1>4 DEF Done, vars, vmVars, trackerVars
  <2>2. TypeOK'
    BY <2>1 DEF VarInv, TypeOK
  <2>3. (Loading <=> Loading') /\ Upcoming' = Upcoming
    BY <2>1 DEF Upcoming, Loading, IsTracked
  <2>4. AllTold' <=> AllTold
    <3>1. \A r \in Register :
            RegisterName(r)' = RegisterName(r) /\ UpcomingDrawn(r)' = UpcomingDrawn(r)
      BY <2>1 DEF RegisterName, UpcomingDrawn, IsTracked, DrawsOn
    <3> QED
      BY <2>1, <2>3, <3>1 DEF AllTold
  <2>5. NamesInv'
    BY <2>1, <2>3, <2>4 DEF VarInv, NamesInv
  <2> QED
    BY <2>2, <2>5 DEF VarInv
<1> QED
  BY <1>1, <1>2, <1>3, <1>4 DEF Next

LEMMA VarAlways == Spec => []VarInv
BY VarInit, VarStep, PTL DEF Spec

(* Every variable keeps its type and no reserved register is named,        *)
(* whatever the program.                                                   *)
THEOREM TypeCorrect == Spec => []TypeOK
<1>1. VarInv => TypeOK
  BY DEF VarInv
<1> QED
  BY <1>1, VarAlways, PTL

(* However the names of loads are moved, joined and overwritten, a name    *)
(* calls each load it draws on by the parameter with the load's own        *)
(* number, or by its value past the parameters, and calls nothing else so. *)
THEOREM ParamsAlwaysNameFirstLoads == Spec => []ParamsNameFirstLoads
<1>1. ASSUME VarInv PROVE ParamsNameFirstLoads
  <2>1. SUFFICES ASSUME phase = "paused" PROVE ParamsNameFirstLoads
    BY DEF ParamsNameFirstLoads
  <2>2. \A r \in Register : Told(RegisterName(r), drawn[r], loads, param_count)
    BY <1>1, <2>1 DEF VarInv, NamesInv, AllTold, Upcoming, UpcomingDrawn, Loading
  <2>3. ASSUME NEW r \in Register, NEW i \in 1..Len(RegisterName(r).terms)
        PROVE  IF drawn[r][i] > 0 THEN RegisterName(r).terms[i] = LoadTerm(drawn[r][i])
               ELSE RegisterName(r).terms[i].kind \notin {"param", "imm"}
    BY <2>2 DEF Told, ToldTerm, LoadTerm
  <2> QED
    BY <2>2, <2>3 DEF ParamsNameFirstLoads, Told
<1> QED
  BY <1>1, VarAlways, PTL

------------------------------------------------------------------------------
(* What names mean.                                                        *)

LEMMA RowAgree ==
  ASSUME NEW name, NEW given, NEW f, NEW g, NEW d \in Nat,
         \A k \in 0..(d - 1) : f[k] = g[k]
  PROVE  Row(name, given, f, d) = Row(name, given, g, d)
<1>1. ASSUME NEW i, NEW k \in 0..(d - 1)
      PROVE  Pairwise(name.verbs[i + k], f[k][i], f[d - k - 1][i + k + 1])
               = Pairwise(name.verbs[i + k], g[k][i], g[d - k - 1][i + k + 1])
  <2>1. d - k - 1 \in 0..(d - 1)
    OBVIOUS
  <2>2. f[k] = g[k] /\ f[d - k - 1] = g[d - k - 1]
    BY <2>1
  <2> QED
    BY <2>2
<1>2. ASSUME NEW i
      PROVE  { Pairwise(name.verbs[i + k], f[k][i], f[d - k - 1][i + k + 1]) : k \in 0..(d - 1) }
               = { Pairwise(name.verbs[i + k], g[k][i], g[d - k - 1][i + k + 1]) : k \in 0..(d - 1) }
  BY <1>1, Zenon
<1> QED
  BY <1>2, Zenon DEF Row

LEMMA SpansExist ==
  ASSUME NEW name, NEW given, NEW n \in Nat
  PROVE  \E f : f = [d \in 0..n |-> Row(name, given, f, d)]
<1> DEFINE Has(m) == \E f : f = [d \in 0..m |-> Row(name, given, f, d)]
           A == {m \in 1..n : ~Has(m)}
<1>1. Has(0)
  <2> DEFINE f == [d \in 0..0 |-> Row(name, given, <<>>, d)]
  <2>1. \A d \in 0..0 : Row(name, given, f, d) = Row(name, given, <<>>, d)
    <3>1. \A d \in 0..0 : d \in Nat /\ \A k \in 0..(d - 1) : f[k] = <<>>[k]
      OBVIOUS
    <3> HIDE DEF f
    <3> QED BY <3>1, RowAgree
  <2>2. f = [d \in 0..0 |-> Row(name, given, f, d)]
    BY <2>1, Zenon
  <2> QED
    BY <2>2
<1>2. ASSUME NEW m \in 1..n, Has(m - 1) PROVE Has(m)
  <2>1. PICK f : f = [d \in 0..(m - 1) |-> Row(name, given, f, d)]
    BY <1>2
  <2> DEFINE g == [d \in 0..m |-> Row(name, given, f, d)]
  <2>2. ASSUME NEW d \in 0..m PROVE Row(name, given, g, d) = Row(name, given, f, d)
    <3>1. d \in Nat /\ \A k \in 0..(d - 1) : k \in 0..m /\ k \in 0..(m - 1)
      OBVIOUS
    <3>2. \A k \in 0..(m - 1) : f[k] = Row(name, given, f, k)
      BY <2>1
    <3>3. \A k \in 0..m : g[k] = Row(name, given, f, k)
      OBVIOUS
    <3> HIDE DEF g
    <3>4. \A k \in 0..(d - 1) : g[k] = f[k]
      BY <3>1, <3>2, <3>3
    <3> QED
      BY <3>1, <3>4, RowAgree
  <2>3. g = [d \in 0..m |-> Row(name, given, g, d)]
    BY <2>2, Zenon
  <2> QED
    BY <2>3
<1> HIDE DEF Has
<1>3. A = {}
  <2> SUFFICES ASSUME A # {} PROVE FALSE
    OBVIOUS
  <2>1. PICK m \in A : \A k \in A : m <= k
    <3> A \subseteq 1..n
      OBVIOUS
    <3> HIDE DEF A
    <3> QED BY SmallestExists
  <2>2. m \in 1..n /\ ~Has(m) /\ m - 1 \notin A
    BY <2>1
  <2>3. m - 1 = 0 \/ m - 1 \in 1..n
    BY <2>2
  <2>4. Has(m - 1)
    BY <1>1, <2>2, <2>3
  <2> QED
    BY <1>2, <2>2, <2>4
<1>4. Has(n)
  <2>1. n = 0 \/ n \in 1..n
    OBVIOUS
  <2> QED
    BY <1>1, <1>3, <2>1
<1> QED
  BY <1>4 DEF Has

(* The spans of a name, from single terms up to the whole. *)
Spans(f, name, given) ==
  /\ \A i \in 1..Len(name.terms) : f[0][i] = {Denotes(name.terms[i], given)}
  /\ \A d \in 1..(Len(name.terms) - 1) : \A i \in 1..(Len(name.terms) - d) :
       f[d][i] = UNION { Pairwise(name.verbs[i + k], f[k][i], f[d - k - 1][i + k + 1]) :
                         k \in 0..(d - 1) }

LEMMA ReadingsFacts ==
  ASSUME NEW name \in Names, NEW given
  PROVE  \E f : Spans(f, name, given) /\ Readings(name, given) = f[Len(name.terms) - 1][1]
<1> DEFINE last == Len(name.terms) - 1
           f == CHOOSE f : f = [d \in 0..last |-> Row(name, given, f, d)]
<1>1. last \in Nat /\ Len(name.terms) \in Nat /\ last = Len(name.terms) - 1
  BY NameFacts
<1>2. f = [d \in 0..last |-> Row(name, given, f, d)]
  <2> HIDE DEF last
  <2>1. \E g : g = [d \in 0..last |-> Row(name, given, g, d)]
    BY <1>1, SpansExist
  <2> QED
    BY <2>1
<1>3. Readings(name, given) = f[last][1]
  BY DEF Readings
<1> HIDE DEF f, last
<1>4. \A d \in 0..last : f[d] = Row(name, given, f, d)
  BY <1>2
<1>5. ASSUME NEW i \in 1..Len(name.terms)
      PROVE  f[0][i] = {Denotes(name.terms[i], given)}
  <2>1. f[0] = Row(name, given, f, 0) /\ i \in 1..(Len(name.terms) - 0)
    BY <1>1, <1>4
  <2> QED
    BY <2>1 DEF Row
<1>6. ASSUME NEW d \in 1..last, NEW i \in 1..(Len(name.terms) - d)
      PROVE  f[d][i] = UNION { Pairwise(name.verbs[i + k], f[k][i], f[d - k - 1][i + k + 1]) :
                               k \in 0..(d - 1) }
  <2>1. f[d] = Row(name, given, f, d) /\ d # 0
    BY <1>1, <1>4
  <2> QED
    BY <2>1, Zenon DEF Row
<1> QED
  BY <1>1, <1>3, <1>5, <1>6 DEF Spans

(* m with the loads ls is the part of n with the loads gs after "at" terms. *)
Within(m, ls, n, gs, at) ==
  /\ at + Len(m.terms) <= Len(n.terms)
  /\ \A i \in 1..Len(m.terms) : Denotes(m.terms[i], ls) = Denotes(n.terms[at + i], gs)
  /\ \A i \in 1..Len(m.verbs) : m.verbs[i] = n.verbs[at + i]

(* A name reads the same inside another. *)
LEMMA ReadsWithin ==
  ASSUME NEW m \in Names, NEW n \in Names, NEW at \in Nat, NEW ls, NEW gs,
         Within(m, ls, n, gs, at),
         NEW f, NEW g, Spans(f, m, ls), Spans(g, n, gs)
  PROVE  \A d \in 0..(Len(m.terms) - 1) : \A i \in 1..(Len(m.terms) - d) :
           f[d][i] = g[d][at + i]
<1> DEFINE size == Len(m.terms)
           whole == Len(n.terms)
           Same(d) == \A i \in 1..(size - d) : f[d][i] = g[d][at + i]
           A == {d \in 1..(size - 1) : ~Same(d)}
<1>1. /\ size \in Nat /\ size >= 1 /\ Len(m.verbs) = size - 1 /\ whole \in Nat
      /\ at + size <= whole
  BY NameFacts DEF Within
<1>2. /\ \A i \in 1..size : f[0][i] = {Denotes(m.terms[i], ls)}
      /\ \A i \in 1..whole : g[0][i] = {Denotes(n.terms[i], gs)}
  BY DEF Spans
<1>3. \A d \in 1..(size - 1) : \A i \in 1..(size - d) :
        f[d][i] = UNION { Pairwise(m.verbs[i + k], f[k][i], f[d - k - 1][i + k + 1]) :
                          k \in 0..(d - 1) }
  BY DEF Spans
<1>4. \A d \in 1..(whole - 1) : \A i \in 1..(whole - d) :
        g[d][i] = UNION { Pairwise(n.verbs[i + k], g[k][i], g[d - k - 1][i + k + 1]) :
                          k \in 0..(d - 1) }
  BY DEF Spans
<1>5. /\ \A i \in 1..size : Denotes(m.terms[i], ls) = Denotes(n.terms[at + i], gs)
      /\ \A i \in 1..(size - 1) : m.verbs[i] = n.verbs[at + i]
  BY <1>1 DEF Within
<1> HIDE DEF size, whole
<1>6. Same(0)
  <2>1. \A i \in 1..(size - 0) : i \in 1..size /\ at + i \in 1..whole
    BY <1>1
  <2> QED
    BY <1>2, <1>5, <2>1
<1>7. ASSUME NEW d \in 1..(size - 1), \A k \in 0..(d - 1) : Same(k)
      PROVE  Same(d)
  <2> TAKE i \in 1..(size - d)
  <2>1. /\ d \in 1..(whole - 1) /\ at + i \in 1..(whole - d)
        /\ \A k \in 0..(d - 1) :
             /\ i + k \in 1..(size - 1) /\ (at + i) + k = at + (i + k)
             /\ i \in 1..(size - k)
             /\ d - k - 1 \in 0..(d - 1) /\ i + k + 1 \in 1..(size - (d - k - 1))
             /\ (at + i) + k + 1 = at + (i + k + 1)
    BY <1>1
  <2> DEFINE F(k) == Pairwise(m.verbs[i + k], f[k][i], f[d - k - 1][i + k + 1])
             G(k) == Pairwise(n.verbs[(at + i) + k], g[k][at + i], g[d - k - 1][(at + i) + k + 1])
  <2>2. f[d][i] = UNION {F(k) : k \in 0..(d - 1)}
    BY <1>3
  <2>3. g[d][at + i] = UNION {G(k) : k \in 0..(d - 1)}
    BY <1>4, <2>1
  <2>4. ASSUME NEW k \in 0..(d - 1) PROVE F(k) = G(k)
    <3>1. m.verbs[i + k] = n.verbs[(at + i) + k]
      BY <1>5, <2>1
    <3>2. f[k][i] = g[k][at + i]
      BY <1>7, <2>1
    <3>3. f[d - k - 1][i + k + 1] = g[d - k - 1][(at + i) + k + 1]
      BY <1>7, <2>1
    <3> QED
      BY <3>1, <3>2, <3>3
  <2> HIDE DEF F, G
  <2>5. {F(k) : k \in 0..(d - 1)} = {G(k) : k \in 0..(d - 1)}
    BY <2>4, Zenon
  <2> QED
    BY <2>2, <2>3, <2>5
<1> HIDE DEF Same
<1>8. A = {}
  <2> SUFFICES ASSUME A # {} PROVE FALSE
    OBVIOUS
  <2>1. PICK d \in A : \A k \in A : d <= k
    <3>1. A \subseteq 1..(size - 1) /\ size - 1 \in Nat
      BY <1>1
    <3> HIDE DEF A
    <3> QED BY <3>1, SmallestExists
  <2>2. d \in 1..(size - 1) /\ ~Same(d)
    BY <2>1
  <2>3. ASSUME NEW k \in 0..(d - 1) PROVE Same(k)
    <3>1. k = 0 \/ (k \in 1..(size - 1) /\ ~(d <= k))
      BY <1>1, <2>2
    <3>2. CASE k = 0
      BY <1>6, <3>2
    <3>3. CASE k \in 1..(size - 1) /\ ~(d <= k)
      BY <2>1, <3>3
    <3> QED
      BY <3>1, <3>2, <3>3
  <2> QED
    BY <1>7, <2>2, <2>3
<1>9. \A d \in 0..(size - 1) : Same(d)
  <2>1. \A d \in 0..(size - 1) : d = 0 \/ d \in 1..(size - 1)
    BY <1>1
  <2> QED
    BY <1>6, <1>8, <2>1
<1> QED
  BY <1>9 DEF Same, size

(* Only what a name's own terms denote counts. *)
LEMMA ReadsSame ==
  ASSUME NEW name \in Names, NEW ls, NEW gs,
         \A i \in 1..Len(name.terms) : Denotes(name.terms[i], ls) = Denotes(name.terms[i], gs)
  PROVE  Readings(name, ls) = Readings(name, gs)
<1> DEFINE size == Len(name.terms)
<1>1. size \in Nat /\ size >= 1
  BY NameFacts
<1>2. PICK f : Spans(f, name, ls) /\ Readings(name, ls) = f[size - 1][1]
  BY ReadingsFacts
<1>3. PICK g : Spans(g, name, gs) /\ Readings(name, gs) = g[size - 1][1]
  BY ReadingsFacts
<1>4. Within(name, ls, name, gs, 0)
  <2>1. \A i \in 1..size : 0 + i = i
    BY <1>1
  <2>2. \A i \in 1..Len(name.verbs) : 0 + i = i
    OBVIOUS
  <2>3. 0 + size <= size
    BY <1>1
  <2> QED
    BY <2>1, <2>2, <2>3 DEF Within
<1>5. \A d \in 0..(size - 1) : \A i \in 1..(size - d) : f[d][i] = g[d][0 + i]
  <2>1. 0 \in Nat
    OBVIOUS
  <2> QED
    BY <1>2, <1>3, <1>4, <2>1, ReadsWithin
<1>6. size - 1 \in 0..(size - 1) /\ 1 \in 1..(size - (size - 1)) /\ 0 + 1 = 1
  BY <1>1
<1>7. f[size - 1][1] = g[size - 1][0 + 1]
  BY <1>5, <1>6
<1> QED
  BY <1>2, <1>3, <1>6, <1>7

LEMMA AtomReads ==
  ASSUME NEW kind \in {"param", "imm", "reg", "lit"}, NEW n \in Nat, NEW given
  PROVE  Readings(Atom(kind, n), given) = {Denotes([kind |-> kind, n |-> n], given)}
<1> DEFINE name == Atom(kind, n)
           t == [kind |-> kind, n |-> n]
<1>1. name \in Names /\ Len(name.terms) = 1 /\ name.terms[1] = t
  BY AtomFacts
<1> HIDE DEF name, t
<1>2. PICK f : Spans(f, name, given) /\ Readings(name, given) = f[Len(name.terms) - 1][1]
  BY <1>1, ReadingsFacts
<1>3. Len(name.terms) - 1 = 0 /\ 1 \in 1..Len(name.terms)
  BY <1>1
<1>4. f[0][1] = {Denotes(name.terms[1], given)}
  BY <1>2, <1>3 DEF Spans
<1> QED
  BY <1>1, <1>2, <1>3, <1>4 DEF name, t

(* The concatenations of Join, position by position. *)
Joined(n, a, verb, b, la, lb) ==
  /\ n \in Names /\ Len(n.terms) = la + lb
  /\ \A i \in 1..la : n.terms[i] = a.terms[i]
  /\ \A i \in 1..lb : n.terms[la + i] = b.terms[i]
  /\ \A i \in 1..(la - 1) : n.verbs[i] = a.verbs[i]
  /\ n.verbs[la] = verb
  /\ \A i \in 1..(lb - 1) : n.verbs[la + i] = b.verbs[i]

LEMMA JoinPlaces ==
  ASSUME NEW a \in Names, NEW b \in Names, NEW verb \in Verbs
  PROVE  Joined(Join(a, verb, b), a, verb, b, Len(a.terms), Len(b.terms))
<1> DEFINE n == Join(a, verb, b)
           la == Len(a.terms)
           lb == Len(b.terms)
           sa == a.terms
           sb == b.terms
           va == a.verbs
           vb == b.verbs
           vv == va \o <<verb>>
<1>1. n \in Names /\ n.terms = sa \o sb /\ n.verbs = vv \o vb
  BY JoinFacts
<1>2. /\ sa \in Seq(Terms) /\ sb \in Seq(Terms) /\ va \in Seq(Verbs) /\ vb \in Seq(Verbs)
      /\ la \in Nat /\ la >= 1 /\ lb \in Nat /\ lb >= 1
      /\ la = Len(sa) /\ lb = Len(sb) /\ Len(va) = la - 1 /\ Len(vb) = lb - 1
  <2>1. sa \in Seq(Terms) /\ va \in Seq(Verbs) /\ la \in Nat /\ la >= 1 /\ Len(va) = la - 1
    BY NameFacts
  <2>2. sb \in Seq(Terms) /\ vb \in Seq(Verbs) /\ lb \in Nat /\ lb >= 1 /\ Len(vb) = lb - 1
    BY NameFacts
  <2> QED
    BY <2>1, <2>2
<1> HIDE DEF n, la, lb, sa, sb, va, vb
<1>3. /\ vv \in Seq(Verbs) /\ Len(vv) = la /\ vv[la] = verb
      /\ \A i \in 1..(la - 1) : vv[i] = va[i]
  <2>1. /\ <<verb>> \in Seq(Verbs) /\ Len(<<verb>>) = 1 /\ <<verb>>[1] = verb
    OBVIOUS
  <2>2. vv \in Seq(Verbs) /\ Len(vv) = Len(va) + Len(<<verb>>)
    BY <1>2, <2>1
  <2>3. \A i \in 1..Len(vv) : vv[i] = IF i <= Len(va) THEN va[i] ELSE <<verb>>[i - Len(va)]
    BY <1>2, <2>1, <2>2, ConcatProperties
  <2> HIDE DEF vv
  <2>4. Len(vv) = la /\ la \in 1..Len(vv) /\ ~(la <= Len(va)) /\ la - Len(va) = 1
    BY <1>2, <2>1, <2>2
  <2>5. \A i \in 1..(la - 1) : i \in 1..Len(vv) /\ i <= Len(va)
    BY <1>2, <2>4
  <2> QED
    BY <2>1, <2>2, <2>3, <2>4, <2>5
<1> HIDE DEF vv
<1>4. /\ Len(sa \o sb) = la + lb
      /\ \A i \in 1..(la + lb) : (sa \o sb)[i] = IF i <= la THEN sa[i] ELSE sb[i - la]
  BY <1>2, ConcatProperties
<1>5. \A i \in 1..(la + lb - 1) : (vv \o vb)[i] = IF i <= la THEN vv[i] ELSE vb[i - la]
  <2>1. Len(vv) + Len(vb) = la + lb - 1
    BY <1>2, <1>3
  <2> QED
    BY <1>2, <1>3, <2>1, ConcatProperties
<1> DEFINE s == sa \o sb
           t == vv \o vb
<1>6. /\ n.terms = s /\ n.verbs = t /\ Len(s) = la + lb
      /\ \A i \in 1..(la + lb) : s[i] = IF i <= la THEN sa[i] ELSE sb[i - la]
      /\ \A i \in 1..(la + lb - 1) : t[i] = IF i <= la THEN vv[i] ELSE vb[i - la]
  BY <1>1, <1>4, <1>5
<1> HIDE DEF s, t
<1>7. \A i \in 1..la : i \in 1..(la + lb) /\ i \in 1..(la + lb - 1) /\ i <= la
  BY <1>2
<1>8. \A i \in 1..lb : la + i \in 1..(la + lb) /\ ~(la + i <= la) /\ (la + i) - la = i
  BY <1>2
<1>9. \A i \in 1..(lb - 1) : la + i \in 1..(la + lb - 1) /\ ~(la + i <= la) /\ (la + i) - la = i
  BY <1>2
<1>10. \A i \in 1..(la - 1) : i \in 1..la
  BY <1>2
<1>11. \A i \in 1..la : s[i] = sa[i] /\ t[i] = vv[i]
  BY <1>6, <1>7
<1>12. \A i \in 1..lb : s[la + i] = sb[i]
  BY <1>6, <1>8
<1>13. \A i \in 1..(lb - 1) : t[la + i] = vb[i]
  BY <1>6, <1>9
<1>14. la \in 1..la
  BY <1>2
<1>15. t[la] = verb /\ \A i \in 1..(la - 1) : t[i] = va[i]
  BY <1>3, <1>10, <1>11, <1>14
<1> QED
  BY <1>1, <1>6, <1>11, <1>12, <1>13, <1>15 DEF Joined, n, la, lb, sa, sb, va, vb

(* Operands that read as their values make a name that reads as the result. *)
LEMMA JoinReads ==
  ASSUME NEW a \in Names, NEW b \in Names, NEW verb \in Verbs, NEW given,
         NEW x \in Readings(a, given), NEW y \in Readings(b, given)
  PROVE  Apply(verb, x, y) \in Readings(Join(a, verb, b), given)
<1> DEFINE n == Join(a, verb, b)
           la == Len(a.terms)
           lb == Len(b.terms)
<1>1. /\ n \in Names /\ Len(n.terms) = la + lb
      /\ \A i \in 1..la : n.terms[i] = a.terms[i]
      /\ \A i \in 1..lb : n.terms[la + i] = b.terms[i]
      /\ \A i \in 1..(la - 1) : n.verbs[i] = a.verbs[i]
      /\ n.verbs[la] = verb
      /\ \A i \in 1..(lb - 1) : n.verbs[la + i] = b.verbs[i]
  <2>1. Joined(n, a, verb, b, la, lb)
    BY JoinPlaces
  <2> QED
    BY <2>1, Zenon DEF Joined
<1>2. /\ la \in Nat /\ la >= 1 /\ Len(a.verbs) = la - 1
      /\ lb \in Nat /\ lb >= 1 /\ Len(b.verbs) = lb - 1
  BY NameFacts
<1>3. PICK f : Spans(f, a, given) /\ Readings(a, given) = f[la - 1][1]
  BY ReadingsFacts
<1>4. PICK g : Spans(g, b, given) /\ Readings(b, given) = g[lb - 1][1]
  BY ReadingsFacts
<1> DEFINE whole == Len(n.terms)
<1>10. la = Len(a.terms) /\ lb = Len(b.terms) /\ whole = Len(n.terms)
  OBVIOUS
<1>11. whole = la + lb
  BY <1>1
<1>12. la \in Nat /\ la >= 1 /\ lb \in Nat /\ lb >= 1
  BY <1>2
<1> HIDE DEF n, la, lb, whole
<1>13. /\ whole - 1 = la + lb - 1 /\ 0 + la <= whole /\ la + lb <= whole
       /\ la + lb - 1 \in 1..(whole - 1) /\ 1 \in 1..(whole - (la + lb - 1))
       /\ la - 1 \in 0..((la + lb - 1) - 1)
  BY <1>11, <1>12
<1>5. PICK h : Spans(h, n, given) /\ Readings(n, given) = h[la + lb - 1][1]
  <2>1. PICK h : Spans(h, n, given) /\ Readings(n, given) = h[whole - 1][1]
    BY <1>1, ReadingsFacts DEF whole
  <2>2. Readings(n, given) = h[la + lb - 1][1]
    BY <1>13, <2>1
  <2> QED
    BY <2>1, <2>2, Zenon
<1>6. h[la - 1][1] = f[la - 1][1]
  <2>1. 0 \in Nat /\ Within(a, given, n, given, 0)
    <3>1. 0 \in Nat /\ 0 + la <= whole
      BY <1>13
    <3>2. \A i \in 1..la : n.terms[0 + i] = a.terms[i]
      BY <1>1, <1>12
    <3>3. \A i \in 1..Len(a.verbs) : n.verbs[0 + i] = a.verbs[i]
      BY <1>1, <1>2
    <3> QED
      BY <1>10, <3>1, <3>2, <3>3, Zenon DEF Within
  <2>2. \A d \in 0..(la - 1) : \A i \in 1..(la - d) : f[d][i] = h[d][0 + i]
    BY <1>1, <1>3, <1>5, <2>1, ReadsWithin DEF la
  <2>3. la - 1 \in 0..(la - 1) /\ 1 \in 1..(la - (la - 1)) /\ 0 + 1 = 1
    BY <1>12
  <2> QED
    BY <2>2, <2>3
<1>7. h[lb - 1][la + 1] = g[lb - 1][1]
  <2>1. Within(b, given, n, given, la)
    <3>1. la + lb <= whole
      BY <1>13
    <3>2. \A i \in 1..lb : n.terms[la + i] = b.terms[i]
      BY <1>1
    <3>3. \A i \in 1..Len(b.verbs) : n.verbs[la + i] = b.verbs[i]
      BY <1>1, <1>2
    <3> QED
      BY <1>10, <3>1, <3>2, <3>3, Zenon DEF Within
  <2>2. \A d \in 0..(lb - 1) : \A i \in 1..(lb - d) : g[d][i] = h[d][la + i]
    BY <1>1, <1>12, <1>4, <1>5, <2>1, ReadsWithin DEF lb
  <2>3. lb - 1 \in 0..(lb - 1) /\ 1 \in 1..(lb - (lb - 1))
    BY <1>12
  <2> QED
    BY <2>2, <2>3
<1>8. Pairwise(verb, f[la - 1][1], g[lb - 1][1]) \subseteq h[la + lb - 1][1]
  <2> DEFINE d == la + lb - 1
             k == la - 1
             F(j) == Pairwise(n.verbs[1 + j], h[j][1], h[d - j - 1][1 + j + 1])
  <2>1. d \in 1..(whole - 1) /\ 1 \in 1..(whole - d) /\ k \in 0..(d - 1)
    BY <1>13
  <2>2. h[d][1] = UNION {F(j) : j \in 0..(d - 1)}
    <3> HIDE DEF d
    <3> QED
      BY <1>5, <2>1, Zenon DEF Spans, whole
  <2>3. 1 + k = la /\ d - k - 1 = lb - 1 /\ 1 + k + 1 = la + 1
    BY <1>12
  <2>4. F(k) = Pairwise(verb, f[la - 1][1], g[lb - 1][1])
    BY <1>1, <1>6, <1>7, <2>3
  <2> HIDE DEF F
  <2> QED
    BY <2>1, <2>2, <2>4
<1>9. Apply(verb, x, y) \in Pairwise(verb, f[la - 1][1], g[lb - 1][1])
  BY <1>3, <1>4 DEF Pairwise
<1> QED
  BY <1>5, <1>8, <1>9 DEF n

------------------------------------------------------------------------------
(* Names read as values.                                                   *)

(* The register whose name is ahead of its value. *)
Ahead(r) == phase = "released" /\ IsTracked /\ r = instr.dst

Reads(value, r, ls) == value \in Readings(RegisterName(r), ls)

ReadInv ==
  phase # "halted" =>
    /\ \A r \in Register : clean[r] /\ ~Ahead(r) => Reads(registers[r], r, Upcoming)
    /\ Ahead(instr.dst) /\ OperandsClean => Reads(Result, instr.dst, Upcoming)

FullInv == VarInv /\ ReadInv /\ ShownPairsRead

(* A further load changes no name that tells of earlier ones. *)
LEMMA ReadsGrow ==
  ASSUME TypeOK, NEW name \in Names, NEW v \in Value,
         NEW d, NEW count, Told(name, d, loads, count)
  PROVE  Readings(name, Append(loads, v)) = Readings(name, loads)
<1>1. loads \in Seq(Value) /\ \A i \in 1..Len(loads) : Append(loads, v)[i] = loads[i]
  BY AppendFacts DEF TypeOK
<1>2. ASSUME NEW i \in 1..Len(name.terms)
      PROVE  Denotes(name.terms[i], Append(loads, v)) = Denotes(name.terms[i], loads)
  <2> DEFINE t == name.terms[i]
             k == d[i]
  <2>1. k \in 0..Len(loads) /\ ToldTerm(t, k, loads, count)
    BY ElementFacts DEF Told
  <2> HIDE DEF t, k
  <2>2. CASE t.kind = "param"
    <3>1. k > 0 /\ t = [kind |-> "param", n |-> k]
      BY <2>1, <2>2 DEF ToldTerm
    <3>2. t.n \in 1..Len(loads)
      BY <1>1, <2>1, <3>1
    <3> QED
      BY <1>1, <2>2, <3>2 DEF Denotes, t
  <2>3. CASE t.kind # "param"
    BY <2>3 DEF Denotes, t
  <2> QED
    BY <2>2, <2>3
<1> QED
  BY <1>2, ReadsSame

LEMMA ReadInit == Init => ReadInv /\ ShownPairsRead
<1> SUFFICES ASSUME Init PROVE ReadInv /\ ShownPairsRead
  OBVIOUS
<1>1. phase = "paused" /\ DOMAIN register_names = {}
  BY DEF Init
<1>2. ASSUME NEW r \in Register PROVE Reads(registers[r], r, Upcoming)
  <2>1. r \in Nat /\ RegisterName(r) = Atom("reg", r)
    BY <1>1, RegisterAssumption DEF RegisterName
  <2>2. Readings(Atom("reg", r), Upcoming) = {Denotes([kind |-> "reg", n |-> r], Upcoming)}
    BY <2>1, AtomReads
  <2>3. Denotes([kind |-> "reg", n |-> r], Upcoming) = InitialValue(r)
    BY DEF Denotes
  <2>4. registers[r] = InitialValue(r)
    BY DEF Init
  <2> QED
    BY <2>1, <2>2, <2>3, <2>4 DEF Reads
<1> QED
  BY <1>1, <1>2 DEF ReadInv, Ahead, ShownPairsRead

(* At a breakpoint, what the two operands are is what their names say. *)
LEMMA OperandReads ==
  ASSUME VarInv, ReadInv, phase = "paused", IsTracked, instr.op # "MOVI", OperandsClean
  PROVE  Result \in Readings(NewName, loads)
<1> DEFINE verb == VerbOf[instr.op]
           lhs == RegisterName(instr.lhs)
           second == IF instr.op \in Immediate THEN instr.imm ELSE registers[instr.rhs]
<1>1. TypeOK /\ Upcoming = loads
  BY DEF VarInv, Upcoming, Loading
<1>2. \A r \in Register : clean[r] => registers[r] \in Readings(RegisterName(r), loads)
  BY <1>1 DEF ReadInv, Ahead, Reads
<1>3. /\ NewName = Join(lhs, verb, Second) /\ verb \in Verbs
      /\ Result = Apply(verb, registers[instr.lhs], second)
  BY <1>1, InstrFacts DEF NewName, IsTracked, Result
<1>4. lhs \in Names /\ registers[instr.lhs] \in Readings(lhs, loads)
  <2>1. instr.lhs \in Register /\ clean[instr.lhs]
    BY <1>1, InstrFacts DEF OperandsClean
  <2> QED
    BY <1>1, <1>2, <2>1, RegisterNameFacts
<1>5. Second \in Names /\ second \in Readings(Second, loads)
  <2>1. CASE instr.op \in Immediate
    <3>1. Second = Atom("lit", instr.imm) /\ instr.imm \in Nat /\ second = instr.imm
      BY <1>1, <2>1, InstrFacts DEF Second
    <3>2. Second \in Names
      BY <3>1, AtomFacts
    <3>3. Readings(Atom("lit", instr.imm), loads)
            = {Denotes([kind |-> "lit", n |-> instr.imm], loads)}
      BY <3>1, AtomReads
    <3>4. Denotes([kind |-> "lit", n |-> instr.imm], loads) = instr.imm
      BY DEF Denotes
    <3> QED
      BY <3>1, <3>2, <3>3, <3>4
  <2>2. CASE instr.op \notin Immediate
    <3>1. Second = RegisterName(instr.rhs) /\ second = registers[instr.rhs]
      BY <2>2 DEF Second
    <3>2. instr.rhs \in Register /\ clean[instr.rhs]
      <4>1. instr.op \in DOMAIN VerbOf \ Immediate
        BY <2>2 DEF IsTracked
      <4> QED
        BY <1>1, <4>1, InstrFacts DEF OperandsClean
    <3> QED
      BY <1>1, <1>2, <3>1, <3>2, RegisterNameFacts
  <2> QED
    BY <2>1, <2>2
<1> HIDE DEF verb, lhs, second
<1> QED
  BY <1>3, <1>4, <1>5, JoinReads

(* The name of a load is the value it loads. *)
LEMMA LoadReads ==
  ASSUME VarInv, phase = "paused", IsTracked, instr.op = "MOVI"
  PROVE  Result \in Readings(NewName, Append(loads, instr.imm))
<1> DEFINE ls == Append(loads, instr.imm)
<1>1. /\ TypeOK /\ loads \in Seq(Value) /\ movi_count = Len(loads) /\ movi_count + 1 \in Nat
      /\ instr.imm \in Nat /\ Result = instr.imm
  <2>1. TypeOK /\ loads \in Seq(Value) /\ movi_count \in Nat
    BY DEF VarInv, TypeOK
  <2>2. movi_count = Len(loads)
    BY DEF VarInv, NamesInv, Upcoming, Loading
  <2>3. instr.imm \in Nat
    BY <2>1, InstrFacts
  <2> QED
    BY <2>1, <2>2, <2>3 DEF Result
<1>2. ls[movi_count + 1] = instr.imm
  BY <1>1, AppendFacts
<1> HIDE DEF ls
<1>3. CASE movi_count < param_count
  <2>1. NewName = Atom("param", movi_count + 1)
    BY <1>3 DEF NewName, MoviName
  <2>2. Readings(Atom("param", movi_count + 1), ls)
          = {Denotes([kind |-> "param", n |-> movi_count + 1], ls)}
    BY <1>1, AtomReads
  <2>3. Denotes([kind |-> "param", n |-> movi_count + 1], ls) = ls[movi_count + 1]
    BY DEF Denotes
  <2> QED
    BY <1>1, <1>2, <2>1, <2>2, <2>3 DEF ls
<1>4. CASE ~(movi_count < param_count)
  <2>1. NewName = Atom("imm", instr.imm)
    BY <1>4 DEF NewName, MoviName
  <2>2. Readings(Atom("imm", instr.imm), ls) = {Denotes([kind |-> "imm", n |-> instr.imm], ls)}
    BY <1>1, AtomReads
  <2>3. Denotes([kind |-> "imm", n |-> instr.imm], ls) = instr.imm
    BY DEF Denotes
  <2> QED
    BY <1>1, <2>1, <2>2, <2>3 DEF ls
<1> QED
  BY <1>3, <1>4

LEMMA ProcessReads ==
  ASSUME FullInv, ProcessStep
  PROVE  ReadInv' /\ ShownPairsRead'
<1>1. TypeOK /\ VarInv /\ ReadInv /\ phase = "paused" /\ phase' = "released"
  BY ProcessFacts DEF FullInv, VarInv
<1>2. /\ UNCHANGED <<instr, registers, clean, loads, param_count>>
      /\ (IsTracked' <=> IsTracked)
  BY <1>1, ProcessFacts DEF vmVars
<1>3. Upcoming = loads /\ \A r \in Register : Told(RegisterName(r), drawn[r], loads, param_count)
  BY <1>1 DEF VarInv, NamesInv, AllTold, Upcoming, UpcomingDrawn, Loading
<1>4. Upcoming' = IF IsTracked /\ instr.op = "MOVI" THEN Append(loads, instr.imm) ELSE loads
  BY <1>1, <1>2 DEF Upcoming, Loading
<1>5. instr.dst \in Register /\ instr.imm \in Value
  BY <1>1, InstrFacts
<1>6. ASSUME NEW r \in Register, ~(IsTracked /\ r = instr.dst)
      PROVE  RegisterName(r)' = RegisterName(r)
  <2>1. CASE IsTracked
    <3>1. /\ DOMAIN register_names' = DOMAIN register_names \union {instr.dst}
          /\ \A q \in DOMAIN register_names' :
               register_names'[q] = IF q = instr.dst THEN NewName ELSE register_names[q]
      BY <1>1, <2>1, ProcessFacts
    <3> QED
      BY <1>6, <2>1, <3>1 DEF RegisterName
  <2>2. CASE ~IsTracked
    BY <1>1, <2>2, ProcessFacts DEF RegisterName
  <2> QED
    BY <2>1, <2>2
<1>7. IsTracked => RegisterName(instr.dst)' = NewName
  BY <1>1, <1>2, ProcessFacts DEF RegisterName
<1>8. ASSUME NEW r \in Register, clean[r], ~(IsTracked /\ r = instr.dst)
      PROVE  /\ registers[r] \in Readings(RegisterName(r)', loads)
             /\ registers[r] \in Readings(RegisterName(r)', Upcoming')
  <2>1. registers[r] \in Readings(RegisterName(r), loads)
    BY <1>1, <1>3, <1>8 DEF ReadInv, Ahead, Reads
  <2>2. Readings(RegisterName(r), Append(loads, instr.imm)) = Readings(RegisterName(r), loads)
    BY <1>1, <1>3, <1>5, RegisterNameFacts, ReadsGrow
  <2> QED
    BY <1>4, <1>6, <1>8, <2>1, <2>2
<1>9. \A r \in Register : clean'[r] /\ ~Ahead(r)' => Reads(registers[r], r, Upcoming)'
  BY <1>1, <1>2, <1>8 DEF Ahead, Reads
<1>10. Ahead(instr.dst)' /\ OperandsClean' => Reads(Result, instr.dst, Upcoming)'
  <2> SUFFICES ASSUME Ahead(instr.dst)', OperandsClean' PROVE Reads(Result, instr.dst, Upcoming)'
    OBVIOUS
  <2>1. IsTracked /\ OperandsClean
    BY <1>2 DEF Ahead, OperandsClean
  <2>2. Result' = Result
    BY <1>2 DEF Result
  <2>3. Result \in Readings(NewName, Upcoming')
    <3>1. CASE instr.op = "MOVI"
      BY <1>1, <1>4, <2>1, <3>1, LoadReads
    <3>2. CASE instr.op # "MOVI"
      BY <1>1, <1>4, <2>1, <3>2, OperandReads
    <3> QED
      BY <3>1, <3>2
  <2> QED
    BY <1>2, <1>7, <2>1, <2>2, <2>3 DEF Reads
<1>11. ShownPairsRead'
  <2> SUFFICES ASSUME NEW r \in Displayed, clean[r], r # instr.dst
               PROVE  shown'[r].value \in Readings(shown'[r].name, loads)
    BY <1>2 DEF ShownPairsRead
  <2>1. r \in Register
    BY RegisterAssumption
  <2>2. shown'[r] = [ name |-> IF tracked' # None /\ tracked'.register = r THEN tracked'.name
                               ELSE IF r \in DOMAIN register_names' THEN register_names'[r]
                               ELSE Atom("reg", r),
                      value |-> registers[r] ]
    BY DEF ProcessStep, Snapshot
  <2>3. tracked' = None \/ tracked'.register = instr.dst
    BY DEF ProcessStep, TrackedVariable
  <2>4. shown'[r].name = RegisterName(r)' /\ shown'[r].value = registers[r]
    BY <2>2, <2>3 DEF RegisterName
  <2> QED
    BY <1>8, <2>1, <2>4
<1> QED
  BY <1>9, <1>10, <1>11, <1>1 DEF ReadInv

LEMMA ExecuteReads ==
  ASSUME FullInv, Execute
  PROVE  ReadInv' /\ ShownPairsRead'
<1>1. TypeOK /\ ReadInv /\ VarInv /\ phase = "released" /\ phase' = "paused"
  BY DEF FullInv, VarInv, Execute
<1>2. /\ instr.op # "undecodable" /\ instr.dst \notin Reserved
      /\ clean' = [clean EXCEPT ![instr.dst] = OperandsClean]
      /\ loads' = IF instr.op = "MOVI" THEN Append(loads, instr.imm) ELSE loads
      /\ register_names' = register_names
  BY DEF Execute, trackerVars
<1>3. PICK v \in Value :
        /\ instr.op # "other" => v = Result
        /\ registers' = [registers EXCEPT ![instr.dst] = v]
  BY DEF Execute
<1>4. instr.dst \in Register
  BY <1>1, InstrFacts
<1>5. Upcoming' = Upcoming
  BY <1>1, <1>2 DEF Upcoming, Loading, IsTracked
<1>6. \A r \in Register : RegisterName(r)' = RegisterName(r)
  BY <1>2 DEF RegisterName
<1>7. ASSUME NEW r \in Register, clean'[r]
      PROVE  registers'[r] \in Readings(RegisterName(r), Upcoming)
  <2>1. CASE r = instr.dst
    <3>1. OperandsClean /\ registers'[r] = v
      BY <1>1, <1>2, <1>3, <1>4, <1>7, <2>1 DEF TypeOK
    <3>2. instr.op # "other" /\ IsTracked
      BY <1>2, <3>1 DEF OperandsClean, IsTracked, VerbOf
    <3> QED
      BY <1>1, <1>3, <2>1, <3>1, <3>2 DEF ReadInv, Ahead, Reads
  <2>2. CASE r # instr.dst
    <3>1. clean[r] /\ registers'[r] = registers[r]
      BY <1>1, <1>2, <1>3, <1>7, <2>2 DEF TypeOK
    <3> QED
      BY <1>1, <2>2, <3>1 DEF ReadInv, Ahead, Reads
  <2> QED
    BY <2>1, <2>2
<1>8. ReadInv'
  BY <1>1, <1>5, <1>6, <1>7 DEF ReadInv, Ahead, Reads
<1> QED
  BY <1>1, <1>8 DEF ShownPairsRead

LEMMA FullStep == FullInv /\ [Next]_vars => FullInv'
<1> SUFFICES ASSUME FullInv, [Next]_vars PROVE FullInv'
  OBVIOUS
<1>1. VarInv'
  BY VarStep DEF FullInv
<1>2. CASE ProcessStep
  BY <1>1, <1>2, ProcessReads DEF FullInv
<1>3. CASE Execute
  BY <1>1, <1>3, ExecuteReads DEF FullInv
<1>4. CASE Halt
  <2>1. phase' = "halted"
    BY <1>4 DEF Halt
  <2> QED
    BY <1>1, <2>1 DEF FullInv, ReadInv, ShownPairsRead
<1>5. CASE Done \/ UNCHANGED vars
  <2>1. UNCHANGED <<instr, phase, steps, registers, clean, loads, drawn,
                    register_names, param_count, movi_count, tracked, shown>>
    BY <1>5 DEF Done, vars, vmVars, trackerVars
  <2>2. ShownPairsRead'
    BY <2>1 DEF FullInv, ShownPairsRead
  <2>3. /\ \A r : RegisterName(r)' = RegisterName(r) /\ (Ahead(r)' <=> Ahead(r))
        /\ Upcoming' = Upcoming /\ Result' = Result /\ (OperandsClean' <=> OperandsClean)
    BY <2>1 DEF RegisterName, Ahead, Upcoming, Loading, IsTracked, Result, OperandsClean
  <2>4. ReadInv'
    BY <2>1, <2>3 DEF FullInv, ReadInv, Reads
  <2> QED
    BY <1>1, <2>2, <2>4 DEF FullInv
<1> QED
  BY <1>2, <1>3, <1>4, <1>5 DEF Next

LEMMA FullAlways == Spec => []FullInv
<1>1. Init => FullInv
  BY VarInit, ReadInit DEF FullInv
<1> QED
  BY <1>1, FullStep, PTL DEF Spec

(* A name follows its register in every program: as long as no untracked   *)
(* write has reached a register, its name can be read as its value at      *)
(* every breakpoint.                                                       *)
THEOREM NamesAlwaysReadAsValues == Spec => []NamesReadAsValues
<1>1. ASSUME FullInv PROVE NamesReadAsValues
  <2> SUFFICES ASSUME phase = "paused", NEW r \in Register, clean[r]
               PROVE  registers[r] \in Readings(RegisterName(r), loads)
    BY DEF NamesReadAsValues
  <2>1. Upcoming = loads /\ ~Ahead(r)
    BY DEF Upcoming, Loading, Ahead
  <2> QED
    BY <1>1, <2>1 DEF FullInv, ReadInv, Reads
<1> QED
  BY <1>1, FullAlways, PTL

(* A snapshot's pairs belong together in every program, but for the        *)
(* register the instruction is about to write.                             *)
THEOREM ShownPairsAlwaysRead == Spec => []ShownPairsRead
<1>1. FullInv => ShownPairsRead
  BY DEF FullInv
<1> QED
  BY <1>1, FullAlways, PTL
==============================================================================
