------------------------- MODULE TraceWriter_proofs -------------------------
(***************************************************************************)
(* Facts about the writer's operators, for any sets of function names,     *)
(* places and values: they keep the writer's type, and each changes the    *)
(* open calls and the pending step as its name says.                       *)
(***************************************************************************)
EXTENDS TraceWriter, SequenceFacts_proofs

(* Committing the pending step keeps the open calls. *)
LEMMA FlushFacts ==
  ASSUME NEW Function, NEW Place, NEW Value,
         NEW w \in WriterType(Function, Place, Value)
  PROVE  /\ Flush(w) \in WriterType(Function, Place, Value)
         /\ Flush(w).open = w.open
         /\ Flush(w).unmatched = w.unmatched
         /\ Flush(w).pending = None
<1>1. CASE w.pending = None
  BY <1>1 DEF Flush
<1>2. CASE w.pending # None
  <2>1. [place |-> w.pending, values |-> w.values]
          \in [place : Place, values : Seq(Value)]
    BY <1>2 DEF WriterType
  <2>2. Append(w.steps, [place |-> w.pending, values |-> w.values])
          \in Seq([place : Place, values : Seq(Value)])
    BY <2>1 DEF WriterType
  <2>3. <<>> \in Seq(Value)
    OBVIOUS
  <2> QED
    BY <1>2, <2>2, <2>3 DEF Flush, WriterType
<1> QED
  BY <1>1, <1>2

(* The end commits the pending step, and the values that still wait are    *)
(* dropped.                                                                *)
LEMMA FinishWritingFacts ==
  ASSUME NEW Function, NEW Place, NEW Value,
         NEW w \in WriterType(Function, Place, Value)
  PROVE  /\ FinishWriting(w) \in WriterType(Function, Place, Value)
         /\ FinishWriting(w).open = w.open
         /\ FinishWriting(w).unmatched = w.unmatched
         /\ FinishWriting(w).pending = None
         /\ FinishWriting(w).steps = Flush(w).steps
         /\ FinishWriting(w).values = <<>>
<1> DEFINE f == Flush(w)
<1>1. /\ f \in WriterType(Function, Place, Value)
      /\ f.open = w.open
      /\ f.unmatched = w.unmatched
      /\ f.pending = None
  BY FlushFacts
<1>2. FinishWriting(w) = [f EXCEPT !.values = <<>>]
  BY DEF FinishWriting
<1>3. <<>> \in Seq(Value)
  OBVIOUS
<1> HIDE DEF f
<1>4. /\ FinishWriting(w) \in WriterType(Function, Place, Value)
      /\ FinishWriting(w).open = f.open
      /\ FinishWriting(w).unmatched = f.unmatched
      /\ FinishWriting(w).pending = f.pending
      /\ FinishWriting(w).steps = f.steps
      /\ FinishWriting(w).values = <<>>
  BY <1>1, <1>2, <1>3 DEF WriterType
<1> QED
  BY <1>1, <1>4 DEF f

(* A registered step becomes the pending one and leaves the calls alone. *)
LEMMA RegisterStepFacts ==
  ASSUME NEW Function, NEW Place, NEW Value,
         NEW w \in WriterType(Function, Place, Value), NEW place \in Place
  PROVE  /\ RegisterStep(w, place) \in WriterType(Function, Place, Value)
         /\ RegisterStep(w, place).open = w.open
         /\ RegisterStep(w, place).unmatched = w.unmatched
         /\ RegisterStep(w, place).pending = place
<1> DEFINE f == Flush(w)
<1>1. /\ f \in WriterType(Function, Place, Value)
      /\ f.open = w.open
      /\ f.unmatched = w.unmatched
  BY FlushFacts
<1> HIDE DEF f
<1>2. RegisterStep(w, place) = [f EXCEPT !.pending = place]
  BY DEF RegisterStep, f
<1> QED
  BY <1>1, <1>2 DEF WriterType

(* A registered call is on top of the open ones, and no step is pending. *)
LEMMA RegisterCallFacts ==
  ASSUME NEW Function, NEW Place, NEW Value,
         NEW w \in WriterType(Function, Place, Value), NEW fn \in Function
  PROVE  /\ RegisterCall(w, fn) \in WriterType(Function, Place, Value)
         /\ RegisterCall(w, fn).open = Append(w.open, fn)
         /\ RegisterCall(w, fn).unmatched = w.unmatched
         /\ RegisterCall(w, fn).pending = None
<1> DEFINE f == Flush(w)
<1>1. /\ f \in WriterType(Function, Place, Value)
      /\ f.open = w.open
      /\ f.unmatched = w.unmatched
      /\ f.pending = None
  BY FlushFacts
<1> HIDE DEF f
<1>2. RegisterCall(w, fn) = [f EXCEPT !.open = Append(@, fn)]
  BY DEF RegisterCall, f
<1>3. Append(f.open, fn) \in Seq(Function)
  BY <1>1 DEF WriterType
<1> QED
  BY <1>1, <1>2, <1>3 DEF WriterType

(* n returns close the n calls on top when that many are open, and none of *)
(* them is unmatched.                                                      *)
LEMMA RegisterReturnsFacts ==
  ASSUME NEW Function, NEW Place, NEW Value,
         NEW w \in WriterType(Function, Place, Value),
         NEW n \in 0..Len(w.open)
  PROVE  /\ RegisterReturns(w, n) \in WriterType(Function, Place, Value)
         /\ RegisterReturns(w, n).open = SubSeq(w.open, 1, Len(w.open) - n)
         /\ Len(RegisterReturns(w, n).open) = Len(w.open) - n
         /\ RegisterReturns(w, n).unmatched = w.unmatched
         /\ RegisterReturns(w, n).pending = IF n = 0 THEN w.pending ELSE None
<1> DEFINE f == Flush(w)
<1>1. /\ f \in WriterType(Function, Place, Value)
      /\ f.open = w.open
      /\ f.unmatched = w.unmatched
      /\ f.pending = None
  BY FlushFacts
<1> HIDE DEF f
<1>2. w.open \in Seq(Function) /\ w.unmatched \in Nat /\ Len(w.open) \in Nat
  BY DEF WriterType
<1>3. /\ SubSeq(w.open, 1, Len(w.open) - n) \in Seq(Function)
      /\ Len(SubSeq(w.open, 1, Len(w.open) - n)) = Len(w.open) - n
  BY <1>2
<1>4. CASE n = 0
  <2>1. SubSeq(w.open, 1, Len(w.open) - n) = w.open
    BY <1>2, <1>4
  <2> QED
    BY <1>4, <2>1 DEF RegisterReturns
<1>5. CASE n # 0
  <2> DEFINE lost == IF n > Len(w.open) THEN n - Len(w.open) ELSE 0
  <2>1. lost = 0 /\ f.unmatched + lost = w.unmatched
    BY <1>1, <1>2
  <2>2. RegisterReturns(w, n) =
          [f EXCEPT !.open = SubSeq(f.open, 1, Len(f.open) - n),
                    !.unmatched = f.unmatched + lost]
    BY <1>5, Zenon DEF RegisterReturns, f
  <2> HIDE DEF lost
  <2> QED
    BY <1>1, <1>3, <1>5, <2>1, <2>2 DEF WriterType
<1> QED
  BY <1>4, <1>5

(* Values wait: nothing else changes. *)
LEMMA RegisterValuesFacts ==
  ASSUME NEW Function, NEW Place, NEW Value,
         NEW w \in WriterType(Function, Place, Value), NEW vs \in Seq(Value)
  PROVE  /\ RegisterValues(w, vs) \in WriterType(Function, Place, Value)
         /\ RegisterValues(w, vs).open = w.open
         /\ RegisterValues(w, vs).unmatched = w.unmatched
         /\ RegisterValues(w, vs).pending = w.pending
         /\ RegisterValues(w, vs).steps = w.steps
         /\ RegisterValues(w, vs).values = w.values \o vs
<1>1. w.values \o vs \in Seq(Value)
  BY DEF WriterType
<1>2. RegisterValues(w, vs) = [w EXCEPT !.values = w.values \o vs]
  BY DEF RegisterValues
<1> HIDE DEF RegisterValues
<1> QED
  BY <1>1, <1>2 DEF WriterType

------------------------------------------------------------------------------
(* What a reader of the trace sees does not depend on when a step is       *)
(* committed: the pending step counts as the last one, and the values that *)
(* wait as those of the step after the committed ones.                     *)

(* The latest step registered, committed or not. *)
Latest(w) == IF w.pending # None THEN w.pending ELSE w.steps[Len(w.steps)].place

HasStep(w) == w.pending # None \/ Len(w.steps) > 0

(* The i-th step registered shows a place. *)
StepAt(w, i, p) ==
  \/ i \in 1..Len(w.steps) /\ w.steps[i].place = p
  \/ i = Len(w.steps) + 1 /\ w.pending # None /\ w.pending = p

(* A value is in the i-th step, or waits for it. *)
Holds(w, i, v) ==
  \/ i \in 1..Len(w.steps) /\ \E j \in 1..Len(w.steps[i].values) : w.steps[i].values[j] = v
  \/ i = Len(w.steps) + 1 /\ \E j \in 1..Len(w.values) : w.values[j] = v

(* What Flush does to the committed steps. *)
LEMMA FlushSteps ==
  ASSUME NEW Function, NEW Place, NEW Value,
         NEW w \in WriterType(Function, Place, Value), w.pending # None
  PROVE  /\ Flush(w).values = <<>>
         /\ Len(w.steps) \in Nat
         /\ Len(Flush(w).steps) = Len(w.steps) + 1
         /\ Flush(w).steps[Len(w.steps) + 1] = [place |-> w.pending, values |-> w.values]
         /\ \A i \in 1..Len(w.steps) : Flush(w).steps[i] = w.steps[i]
<1> DEFINE s == [place |-> w.pending, values |-> w.values]
<1>1. Flush(w).values = <<>> /\ Flush(w).steps = Append(w.steps, s)
  BY DEF Flush, WriterType
<1>2. w.steps \in Seq([place : Place, values : Seq(Value)])
  BY DEF WriterType
<1> HIDE DEF s
<1>3. /\ Len(w.steps) \in Nat
      /\ Len(Append(w.steps, s)) = Len(w.steps) + 1
      /\ Append(w.steps, s)[Len(w.steps) + 1] = s
      /\ \A i \in 1..Len(w.steps) : Append(w.steps, s)[i] = w.steps[i]
  BY <1>2
<1> QED
  BY <1>1, <1>3 DEF s

(* Committing the pending step shows the reader nothing new. *)
LEMMA FlushShowsTheSame ==
  ASSUME NEW Function, NEW Place, NEW Value,
         NEW w \in WriterType(Function, Place, Value)
  PROVE  /\ Latest(Flush(w)) = Latest(w)
         /\ HasStep(w) => HasStep(Flush(w))
         /\ \A i, p : StepAt(Flush(w), i, p) <=> StepAt(w, i, p)
         /\ \A i, v : Holds(Flush(w), i, v) <=> Holds(w, i, v)
<1>1. CASE w.pending = None
  BY <1>1 DEF Flush
<1>2. CASE w.pending # None
  <2> DEFINE f == Flush(w)
             n == Len(w.steps)
  <2>1. /\ f.values = <<>> /\ n \in Nat /\ Len(f.steps) = n + 1
        /\ f.steps[n + 1] = [place |-> w.pending, values |-> w.values]
        /\ \A i \in 1..n : f.steps[i] = w.steps[i]
        /\ f.pending = None
    BY <1>2, FlushSteps, FlushFacts
  <2> HIDE DEF f
  <2>2. Latest(f) = Latest(w) /\ HasStep(f)
    BY <1>2, <2>1 DEF Latest, HasStep
  <2>4. ASSUME NEW i, NEW p PROVE StepAt(f, i, p) <=> StepAt(w, i, p)
    <3>1. CASE i \in 1..n
      BY <2>1, <3>1 DEF StepAt
    <3>2. CASE i = n + 1
      <4>1. i \in 1..Len(f.steps) /\ f.steps[i].place = w.pending
        BY <2>1, <3>2
      <4> QED
        BY <1>2, <2>1, <3>2, <4>1 DEF StepAt
    <3>3. CASE i \notin 1..n /\ i # n + 1
      <4>1. i \notin 1..Len(f.steps)
        BY <2>1, <3>3
      <4> QED
        BY <2>1, <3>3, <4>1 DEF StepAt
    <3> QED
      BY <3>1, <3>2, <3>3
  <2>3. ASSUME NEW i, NEW v PROVE Holds(f, i, v) <=> Holds(w, i, v)
    <3>1. CASE i \in 1..n
      BY <2>1, <3>1 DEF Holds
    <3>2. CASE i = n + 1
      <4>1. i \in 1..Len(f.steps) /\ f.steps[i].values = w.values
        BY <2>1, <3>2
      <4>2. Holds(f, i, v) <=> \E j \in 1..Len(w.values) : w.values[j] = v
        BY <2>1, <3>2, <4>1 DEF Holds
      <4> QED
        BY <2>1, <3>2, <4>2 DEF Holds
    <3>3. CASE i \notin 1..n /\ i # n + 1
      <4>1. i \notin 1..Len(f.steps)
        BY <2>1, <3>3
      <4>2. ~Holds(f, i, v)
        BY <2>1, <4>1 DEF Holds
      <4> QED
        BY <3>3, <4>2 DEF Holds
    <3> QED
      BY <3>1, <3>2, <3>3
  <2> QED
    BY <2>2, <2>3, <2>4 DEF f
<1> QED
  BY <1>1, <1>2

(* The end shows the same steps, each with the values it had. *)
LEMMA FinishWritingShows ==
  ASSUME NEW Function, NEW Place, NEW Value,
         NEW w \in WriterType(Function, Place, Value)
  PROVE  /\ \A i, p : StepAt(FinishWriting(w), i, p) <=> StepAt(w, i, p)
         /\ \A i, p, v : StepAt(w, i, p) /\ Holds(w, i, v) => Holds(FinishWriting(w), i, v)
<1> DEFINE f == Flush(w)
           g == FinishWriting(w)
<1>1. /\ f \in WriterType(Function, Place, Value) /\ f.pending = None
      /\ \A i, p : StepAt(f, i, p) <=> StepAt(w, i, p)
      /\ \A i, v : Holds(f, i, v) <=> Holds(w, i, v)
  BY FlushFacts, FlushShowsTheSame
<1>2. g.steps = f.steps /\ g.pending = None
  BY FinishWritingFacts
<1>3. Len(f.steps) \in Nat
  BY <1>1 DEF WriterType
<1> HIDE DEF f, g
<1>4. \A i, p : StepAt(g, i, p) <=> StepAt(w, i, p)
  BY <1>1, <1>2 DEF StepAt
<1>5. ASSUME NEW i, NEW p, NEW v, StepAt(w, i, p), Holds(w, i, v)
      PROVE  Holds(g, i, v)
  <2>a. StepAt(f, i, p) /\ f.pending = None
    BY <1>1, <1>5
  <2>1. i \in 1..Len(f.steps) /\ i # Len(f.steps) + 1
    BY <1>3, <2>a DEF StepAt
  <2>2. Holds(f, i, v)
    BY <1>1, <1>5
  <2> QED
    BY <1>2, <2>1, <2>2 DEF Holds
<1> QED
  BY <1>4, <1>5 DEF g

(* A commit makes no step fewer. *)
LEMMA FlushGrows ==
  ASSUME NEW Function, NEW Place, NEW Value,
         NEW w \in WriterType(Function, Place, Value)
  PROVE  /\ Len(w.steps) \in Nat /\ Len(Flush(w).steps) \in Nat
         /\ Len(w.steps) <= Len(Flush(w).steps)
<1>1. CASE w.pending = None
  BY <1>1 DEF Flush, WriterType
<1>2. CASE w.pending # None
  <2> DEFINE s == [place |-> w.pending, values |-> w.values]
  <2>1. Flush(w).steps = Append(w.steps, s)
    BY <1>2 DEF Flush, WriterType
  <2>2. w.steps \in Seq([place : Place, values : Seq(Value)])
    BY DEF WriterType
  <2> HIDE DEF s
  <2> QED
    BY <2>1, <2>2
<1> QED
  BY <1>1, <1>2

(* A registered step is the latest; no value moves. *)
LEMMA RegisterStepShows ==
  ASSUME NEW Function, NEW Place, NEW Value,
         NEW w \in WriterType(Function, Place, Value), NEW place \in Place,
         None \notin Place
  PROVE  /\ Latest(RegisterStep(w, place)) = place
         /\ HasStep(RegisterStep(w, place))
         /\ Len(w.steps) \in Nat /\ Len(RegisterStep(w, place).steps) \in Nat
         /\ Len(w.steps) <= Len(RegisterStep(w, place).steps)
         /\ \A i, p : StepAt(RegisterStep(w, place), i, p) <=>
                        \/ StepAt(w, i, p)
                        \/ i = Len(RegisterStep(w, place).steps) + 1 /\ p = place
         /\ \A i, v : Holds(RegisterStep(w, place), i, v) <=> Holds(w, i, v)
<1> DEFINE f == Flush(w)
<1>1. /\ f \in WriterType(Function, Place, Value) /\ f.pending = None
      /\ \A i, p : StepAt(f, i, p) <=> StepAt(w, i, p)
      /\ \A i, v : Holds(f, i, v) <=> Holds(w, i, v)
  BY FlushFacts, FlushShowsTheSame
<1> HIDE DEF f
<1>2. RegisterStep(w, place) = [f EXCEPT !.pending = place]
  BY DEF RegisterStep, f
<1>3. /\ RegisterStep(w, place).steps = f.steps
      /\ RegisterStep(w, place).values = f.values
      /\ RegisterStep(w, place).pending = place
  BY <1>1, <1>2 DEF WriterType
<1>4. /\ Len(w.steps) \in Nat /\ Len(f.steps) \in Nat
      /\ Len(w.steps) <= Len(f.steps)
  BY FlushGrows DEF f
<1>5. place # None
  OBVIOUS
<1>b. f.pending = None
  BY <1>1
<1> DEFINE r == RegisterStep(w, place)
<1>a. r.steps = f.steps /\ r.values = f.values /\ r.pending = place
  BY <1>3
<1> HIDE DEF r
<1>6. Latest(r) = place /\ HasStep(r)
  BY <1>a, <1>5 DEF Latest, HasStep
<1>7. \A i, v : Holds(r, i, v) <=> Holds(w, i, v)
  <2>1. \A i, v : Holds(r, i, v) <=> Holds(f, i, v)
    BY <1>a DEF Holds
  <2> QED
    BY <1>1, <2>1
<1>8. ASSUME NEW i, NEW p
      PROVE  StepAt(r, i, p) <=> StepAt(w, i, p) \/ (i = Len(r.steps) + 1 /\ p = place)
  <2>1. StepAt(f, i, p) <=> i \in 1..Len(f.steps) /\ f.steps[i].place = p
    BY <1>b DEF StepAt
  <2>2. StepAt(r, i, p) <=> \/ i \in 1..Len(f.steps) /\ f.steps[i].place = p
                            \/ i = Len(f.steps) + 1 /\ place = p
    BY <1>a, <1>5 DEF StepAt
  <2> QED
    BY <1>1, <1>a, <2>1, <2>2
<1> QED
  BY <1>a, <1>4, <1>6, <1>7, <1>8 DEF r

(* Calls and returns move no value and are no step. *)
LEMMA RegisterCallShows ==
  ASSUME NEW Function, NEW Place, NEW Value,
         NEW w \in WriterType(Function, Place, Value), NEW fn
  PROVE  /\ Latest(RegisterCall(w, fn)) = Latest(w)
         /\ HasStep(w) => HasStep(RegisterCall(w, fn))
         /\ \A i, p : StepAt(RegisterCall(w, fn), i, p) <=> StepAt(w, i, p)
         /\ \A i, v : Holds(RegisterCall(w, fn), i, v) <=> Holds(w, i, v)
<1> DEFINE f == Flush(w)
<1>1. /\ f \in WriterType(Function, Place, Value) /\ Latest(f) = Latest(w)
      /\ HasStep(w) => HasStep(f)
      /\ \A i, p : StepAt(f, i, p) <=> StepAt(w, i, p)
      /\ \A i, v : Holds(f, i, v) <=> Holds(w, i, v)
  BY FlushFacts, FlushShowsTheSame
<1> HIDE DEF f
<1>2. RegisterCall(w, fn) = [f EXCEPT !.open = Append(@, fn)]
  BY DEF RegisterCall, f
<1>3. /\ RegisterCall(w, fn).steps = f.steps
      /\ RegisterCall(w, fn).values = f.values
      /\ RegisterCall(w, fn).pending = f.pending
  BY <1>1, <1>2 DEF WriterType
<1> QED
  BY <1>1, <1>3 DEF Latest, HasStep, StepAt, Holds

LEMMA RegisterReturnsShows ==
  ASSUME NEW Function, NEW Place, NEW Value,
         NEW w \in WriterType(Function, Place, Value), NEW n
  PROVE  /\ Latest(RegisterReturns(w, n)) = Latest(w)
         /\ HasStep(w) => HasStep(RegisterReturns(w, n))
         /\ \A i, p : StepAt(RegisterReturns(w, n), i, p) <=> StepAt(w, i, p)
         /\ \A i, v : Holds(RegisterReturns(w, n), i, v) <=> Holds(w, i, v)
<1> DEFINE f == Flush(w)
<1>1. /\ f \in WriterType(Function, Place, Value) /\ Latest(f) = Latest(w)
      /\ HasStep(w) => HasStep(f)
      /\ \A i, p : StepAt(f, i, p) <=> StepAt(w, i, p)
      /\ \A i, v : Holds(f, i, v) <=> Holds(w, i, v)
  BY FlushFacts, FlushShowsTheSame
<1> HIDE DEF f
<1>2. CASE n = 0
  BY <1>2 DEF RegisterReturns
<1>3. CASE n # 0
  <2> DEFINE lost == IF n > Len(w.open) THEN n - Len(w.open) ELSE 0
  <2>1. RegisterReturns(w, n) =
          [f EXCEPT !.open = SubSeq(f.open, 1, Len(f.open) - n),
                    !.unmatched = f.unmatched + lost]
    BY <1>3, Zenon DEF RegisterReturns, f
  <2> HIDE DEF lost
  <2>2. /\ RegisterReturns(w, n).steps = f.steps
        /\ RegisterReturns(w, n).values = f.values
        /\ RegisterReturns(w, n).pending = f.pending
    BY <1>1, <2>1 DEF WriterType
  <2> QED
    BY <1>1, <2>2 DEF Latest, HasStep, StepAt, Holds
<1> QED
  BY <1>2, <1>3

(* Values registered wait for the next step to be committed. *)
LEMMA RegisterValuesShows ==
  ASSUME NEW Function, NEW Place, NEW Value,
         NEW w \in WriterType(Function, Place, Value), NEW vs \in Seq(Value)
  PROVE  /\ Latest(RegisterValues(w, vs)) = Latest(w)
         /\ HasStep(w) => HasStep(RegisterValues(w, vs))
         /\ \A i, p : StepAt(RegisterValues(w, vs), i, p) <=> StepAt(w, i, p)
         /\ \A i, v :
              Holds(RegisterValues(w, vs), i, v) <=>
                \/ Holds(w, i, v)
                \/ i = Len(w.steps) + 1 /\ \E j \in 1..Len(vs) : vs[j] = v
<1>1. /\ RegisterValues(w, vs).steps = w.steps
      /\ RegisterValues(w, vs).pending = w.pending
      /\ RegisterValues(w, vs).values = w.values \o vs
  BY RegisterValuesFacts
<1>2. w.values \in Seq(Value)
  BY DEF WriterType
<1>3. ASSUME NEW v
      PROVE  (\E j \in 1..Len(w.values \o vs) : (w.values \o vs)[j] = v)
               <=> \/ \E j \in 1..Len(w.values) : w.values[j] = v
                   \/ \E j \in 1..Len(vs) : vs[j] = v
  <2>1. /\ Len(w.values) \in Nat /\ Len(vs) \in Nat
        /\ Len(w.values \o vs) = Len(w.values) + Len(vs)
        /\ \A j \in 1..(Len(w.values) + Len(vs)) :
             (w.values \o vs)[j] = IF j <= Len(w.values) THEN w.values[j]
                                                       ELSE vs[j - Len(w.values)]
    BY <1>2
  <2>2. ASSUME NEW j \in 1..Len(w.values \o vs), (w.values \o vs)[j] = v
        PROVE  \/ \E k \in 1..Len(w.values) : w.values[k] = v
               \/ \E k \in 1..Len(vs) : vs[k] = v
    <3>1. CASE j <= Len(w.values)
      <4>1. j \in 1..Len(w.values) /\ w.values[j] = v
        BY <2>1, <2>2, <3>1
      <4> QED BY <4>1
    <3>2. CASE ~(j <= Len(w.values))
      <4>1. j - Len(w.values) \in 1..Len(vs) /\ vs[j - Len(w.values)] = v
        BY <2>1, <2>2, <3>2
      <4> QED BY <4>1
    <3> QED BY <3>1, <3>2
  <2>3. ASSUME NEW k \in 1..Len(w.values), w.values[k] = v
        PROVE  \E j \in 1..Len(w.values \o vs) : (w.values \o vs)[j] = v
    <3>1. k \in 1..Len(w.values \o vs) /\ (w.values \o vs)[k] = v
      BY <2>1, <2>3
    <3> QED BY <3>1
  <2>4. ASSUME NEW k \in 1..Len(vs), vs[k] = v
        PROVE  \E j \in 1..Len(w.values \o vs) : (w.values \o vs)[j] = v
    <3>1. /\ k + Len(w.values) \in 1..Len(w.values \o vs)
          /\ (w.values \o vs)[k + Len(w.values)] = v
      BY <2>1, <2>4
    <3> QED BY <3>1
  <2> QED BY <2>2, <2>3, <2>4
<1>4. /\ Latest(RegisterValues(w, vs)) = Latest(w)
      /\ HasStep(w) => HasStep(RegisterValues(w, vs))
      /\ \A i, p : StepAt(RegisterValues(w, vs), i, p) <=> StepAt(w, i, p)
  BY <1>1 DEF Latest, HasStep, StepAt
<1>5. ASSUME NEW i, NEW v
      PROVE  Holds(RegisterValues(w, vs), i, v) <=>
                \/ Holds(w, i, v)
                \/ i = Len(w.steps) + 1 /\ \E j \in 1..Len(vs) : vs[j] = v
  BY <1>1, <1>3 DEF Holds
<1> QED
  BY <1>4, <1>5

------------------------------------------------------------------------------
(* The values of the committed steps, by induction on the step, as the     *)
(* absence of a smallest step where it fails.                              *)

(* What ValuesInSteps computes up to the n-th step. *)
Joined(steps, f, n) ==
  [i \in 0..n |-> IF i = 0 THEN <<>> ELSE f[i - 1] \o steps[i].values]

LEMMA JoinedUnique ==
  ASSUME NEW s, NEW t, NEW f, NEW g, NEW n \in Nat, NEW m \in Nat, n <= m,
         f = Joined(s, f, n), g = Joined(t, g, m), \A i \in 1..n : s[i] = t[i]
  PROVE  \A i \in 0..n : f[i] = g[i]
<1> DEFINE A == {i \in 1..n : f[i] # g[i]}
<1>1. f[0] = <<>> /\ g[0] = <<>>
  BY DEF Joined
<1>2. /\ \A i \in 1..n : f[i] = f[i - 1] \o s[i].values
      /\ \A i \in 1..n : g[i] = g[i - 1] \o t[i].values
  <2>1. /\ \A i \in 0..n : f[i] = Joined(s, f, n)[i]
        /\ \A i \in 0..m : g[i] = Joined(t, g, m)[i]
    OBVIOUS
  <2>2. \A i \in 1..n : i \in 0..n /\ i \in 0..m /\ i # 0
    OBVIOUS
  <2> QED
    BY <2>1, <2>2 DEF Joined
<1>3. CASE A = {}
  BY <1>1, <1>3
<1>4. CASE A # {}
  <2>1. PICK k \in A : \A i \in A : k <= i
    <3> A \subseteq 1..n
      OBVIOUS
    <3> HIDE DEF A
    <3> QED BY <1>4, SmallestExists
  <2>2. k \in 1..n /\ f[k] # g[k] /\ k - 1 \notin A
    BY <2>1
  <2>3. f[k - 1] = g[k - 1]
    BY <1>1, <2>2
  <2>4. f[k] = g[k]
    BY <1>2, <2>2, <2>3
  <2> QED
    BY <2>2, <2>4
<1> QED
  BY <1>3, <1>4

LEMMA JoinedExists ==
  ASSUME NEW s, NEW n \in Nat
  PROVE  \E f : f = Joined(s, f, n)
<1> DEFINE Has(k) == \E f : f = Joined(s, f, k)
           A == {k \in 1..n : ~Has(k)}
<1>1. Has(0)
  <2>1. [i \in 0..0 |-> <<>>] = Joined(s, [i \in 0..0 |-> <<>>], 0)
    BY DEF Joined
  <2> QED
    BY <2>1
<1>2. ASSUME NEW k \in 1..n, Has(k - 1)
      PROVE  Has(k)
  <2>1. PICK f : f = Joined(s, f, k - 1)
    BY <1>2
  <2> DEFINE last == f[k - 1] \o s[k].values
             g == [i \in 0..k |-> IF i < k THEN f[i] ELSE last]
  <2>2. \A i \in 0..k : g[i] = IF i < k THEN f[i] ELSE last
    OBVIOUS
  <2>3. \A i \in 0..(k - 1) : f[i] = IF i = 0 THEN <<>> ELSE f[i - 1] \o s[i].values
    BY <2>1 DEF Joined
  <2>4. \A i \in 0..k : g[i] = IF i = 0 THEN <<>> ELSE g[i - 1] \o s[i].values
    <3> SUFFICES ASSUME NEW i \in 0..k
                 PROVE  g[i] = IF i = 0 THEN <<>> ELSE g[i - 1] \o s[i].values
      OBVIOUS
    <3> HIDE DEF g, last
    <3>1. CASE i = 0
      BY <2>2, <2>3, <3>1
    <3>2. CASE i # 0 /\ i < k
      <4>1. i - 1 \in 0..k /\ i - 1 < k /\ i \in 0..(k - 1)
        BY <3>2
      <4>2. g[i - 1] = f[i - 1] /\ g[i] = f[i]
        BY <2>2, <3>2, <4>1
      <4> QED BY <2>3, <3>2, <4>1, <4>2
    <3>3. CASE i = k
      <4>1. i - 1 \in 0..k /\ i - 1 < k /\ ~(i < k) /\ i # 0
        BY <3>3
      <4>2. g[i - 1] = f[i - 1] /\ g[i] = last
        BY <2>2, <4>1
      <4>3. g[i] = g[i - 1] \o s[i].values
        BY ONLY <3>3, <4>2, Zenon DEF last
      <4> QED BY <4>1, <4>3
    <3> QED BY <3>1, <3>2, <3>3
  <2>5. g = [i \in 0..k |-> g[i]]
    OBVIOUS
  <2> HIDE DEF g
  <2>6. g = Joined(s, g, k)
    BY <2>4, <2>5 DEF Joined
  <2> QED
    BY <2>6
<1>3. CASE A = {}
  <2>1. n = 0 \/ n \in 1..n
    OBVIOUS
  <2> QED
    BY <1>1, <1>3, <2>1
<1>4. CASE A # {}
  <2>1. PICK k \in A : \A i \in A : k <= i
    <3> A \subseteq 1..n
      OBVIOUS
    <3> HIDE DEF A
    <3> QED BY <1>4, SmallestExists
  <2>2. k \in 1..n /\ ~Has(k) /\ k - 1 \notin A
    BY <2>1
  <2>3. k - 1 = 0 \/ k - 1 \in 1..n
    BY <2>2
  <2>4. Has(k - 1)
    BY <1>1, <2>2, <2>3
  <2> QED
    BY <1>2, <2>2, <2>4
<1> QED
  BY <1>3, <1>4

LEMMA ValuesInStepsIs ==
  ASSUME NEW w, Len(w.steps) \in Nat, NEW f, f = Joined(w.steps, f, Len(w.steps))
  PROVE  ValuesInSteps(w) = f[Len(w.steps)]
<1> DEFINE g == CHOOSE g : g = Joined(w.steps, g, Len(w.steps))
<1>1. g = Joined(w.steps, g, Len(w.steps))
  <2>1. \E h : h = Joined(w.steps, h, Len(w.steps))
    BY JoinedExists
  <2> QED
    BY <2>1
<1>2. ValuesInSteps(w) = g[Len(w.steps)]
  BY DEF ValuesInSteps, Joined
<1> HIDE DEF g
<1>3. \A i \in 0..Len(w.steps) : f[i] = g[i]
  BY <1>1, JoinedUnique
<1> QED
  BY <1>2, <1>3

(* They are a sequence of values, and there are none before the first step.*)
LEMMA ValuesInStepsType ==
  ASSUME NEW Function, NEW Place, NEW Value,
         NEW w \in WriterType(Function, Place, Value)
  PROVE  /\ ValuesInSteps(w) \in Seq(Value)
         /\ w.steps = <<>> => ValuesInSteps(w) = <<>>
<1> DEFINE n == Len(w.steps)
<1>1. n \in Nat /\ \A i \in 1..n : w.steps[i].values \in Seq(Value)
  <2>1. w.steps \in Seq([place : Place, values : Seq(Value)])
    BY DEF WriterType
  <2>2. n \in Nat /\ \A i \in 1..n : w.steps[i] \in [place : Place, values : Seq(Value)]
    BY <2>1, ElementFacts
  <2> QED
    BY <2>2
<1>2. PICK f : f = Joined(w.steps, f, n)
  BY <1>1, JoinedExists
<1>3. ValuesInSteps(w) = f[n]
  BY <1>1, <1>2, ValuesInStepsIs
<1> HIDE DEF n
<1>4. f[0] = <<>> /\ f[0] \in Seq(Value)
  <2>1. f[0] = <<>>
    BY <1>1, <1>2 DEF Joined
  <2>2. <<>> \in Seq(Value)
    OBVIOUS
  <2> QED
    BY <2>1, <2>2
<1> DEFINE A == {i \in 1..n : f[i] \notin Seq(Value)}
<1>5. A = {}
  <2> SUFFICES ASSUME A # {} PROVE FALSE
    OBVIOUS
  <2>1. PICK k \in A : \A i \in A : k <= i
    <3> A \subseteq 1..n
      OBVIOUS
    <3> HIDE DEF A
    <3> QED BY <1>1, SmallestExists
  <2>2. k \in 1..n /\ f[k] \notin Seq(Value) /\ k - 1 \notin A
    BY <1>1, <2>1
  <2> HIDE DEF A
  <2>3. k - 1 = 0 \/ k - 1 \in 1..n
    BY <1>1, <2>2
  <2>4. f[k - 1] \in Seq(Value)
    <3>1. CASE k - 1 = 0
      BY <1>4, <3>1
    <3>2. CASE k - 1 \in 1..n
      BY <2>2, <3>2 DEF A
    <3> QED
      BY <2>3, <3>1, <3>2
  <2>5. f[k] = f[k - 1] \o w.steps[k].values
    <3>1. k \in 0..n /\ k # 0
      BY <1>1, <2>2
    <3>2. f[k] = Joined(w.steps, f, n)[k]
      BY <1>2
    <3> QED
      BY <3>1, <3>2 DEF Joined
  <2>6. f[k] \in Seq(Value)
    BY <1>1, <2>2, <2>4, <2>5, ConcatProperties
  <2> QED
    BY <2>2, <2>6
<1>6. n = 0 \/ n \in 1..n
  BY <1>1
<1>7. f[n] \in Seq(Value)
  BY <1>4, <1>5, <1>6
<1>8. w.steps = <<>> => n = 0
  BY DEF n
<1> QED
  BY <1>3, <1>4, <1>7, <1>8

(* One committed step more adds the values it carries. *)
OneStepMore(v, w, s) ==
  /\ Len(w.steps) \in Nat
  /\ Len(v.steps) = Len(w.steps) + 1 /\ v.steps[Len(w.steps) + 1] = s
  /\ \A i \in 1..Len(w.steps) : v.steps[i] = w.steps[i]

LEMMA ValuesInStepsGrow ==
  ASSUME NEW v, NEW w, NEW s, OneStepMore(v, w, s)
  PROVE  ValuesInSteps(v) = ValuesInSteps(w) \o s.values
<1> DEFINE n == Len(w.steps)
<1>1. /\ n \in Nat /\ Len(v.steps) = n + 1 /\ v.steps[n + 1] = s
      /\ \A i \in 1..n : w.steps[i] = v.steps[i]
  BY DEF OneStepMore
<1>2. PICK f : f = Joined(w.steps, f, n)
  BY <1>1, JoinedExists
<1>3. PICK g : g = Joined(v.steps, g, n + 1)
  <2>1. n + 1 \in Nat
    BY <1>1
  <2> HIDE DEF n
  <2> QED
    BY <2>1, JoinedExists
<1>4. ValuesInSteps(w) = f[n]
  BY <1>1, <1>2, ValuesInStepsIs
<1>5. ValuesInSteps(v) = g[n + 1]
  <2>1. Len(v.steps) \in Nat /\ g = Joined(v.steps, g, Len(v.steps))
    BY <1>1, <1>3
  <2>2. ValuesInSteps(v) = g[Len(v.steps)]
    BY <2>1, ValuesInStepsIs
  <2> QED
    BY <1>1, <2>2
<1> HIDE DEF n
<1>6. f[n] = g[n]
  <2> DEFINE old == w.steps
             new == v.steps
  <2>1. n + 1 \in Nat /\ n <= n + 1 /\ n \in 0..n /\ n \in Nat
    BY <1>1
  <2>2. /\ f = Joined(old, f, n) /\ g = Joined(new, g, n + 1)
        /\ \A i \in 1..n : old[i] = new[i]
    BY <1>1, <1>2, <1>3
  <2> HIDE DEF old, new
  <2>3. \A i \in 0..n : f[i] = g[i]
    BY ONLY <2>1, <2>2, JoinedUnique
  <2> QED
    BY <2>1, <2>3
<1>7. g[n + 1] = g[n] \o s.values
  <2>1. n + 1 \in 0..(n + 1) /\ n + 1 # 0 /\ (n + 1) - 1 = n
    BY <1>1
  <2>2. g[n + 1] = Joined(v.steps, g, n + 1)[n + 1]
    BY <1>3
  <2> QED
    BY <1>1, <2>1, <2>2 DEF Joined
<1> QED
  BY <1>4, <1>5, <1>6, <1>7

(* The values a reader has met after the last committed step, and those    *)
(* that wait.                                                              *)
Reads(w) == ValuesInSteps(w) \o w.values

(* A commit moves the waiting values into a step; none is lost or doubled. *)
LEMMA FlushReads ==
  ASSUME NEW Function, NEW Place, NEW Value,
         NEW w \in WriterType(Function, Place, Value)
  PROVE  /\ Reads(w) \in Seq(Value)
         /\ Reads(Flush(w)) = Reads(w)
         /\ w.pending = None => Flush(w) = w
         /\ w.pending # None \/ w.values = <<>> =>
              Flush(w).values = <<>> /\ ValuesInSteps(Flush(w)) = Reads(w)
<1>1. ValuesInSteps(w) \in Seq(Value) /\ w.values \in Seq(Value)
  BY ValuesInStepsType DEF WriterType
<1>2. Reads(w) \in Seq(Value)
  BY <1>1, ConcatProperties DEF Reads
<1>3. CASE w.pending = None
  <2>1. Flush(w) = w
    BY <1>3 DEF Flush
  <2>2. w.values = <<>> => Reads(w) = ValuesInSteps(w)
    BY <1>1, ConcatEmptySeq DEF Reads
  <2> QED
    BY <1>2, <1>3, <2>1, <2>2
<1>4. CASE w.pending # None
  <2> DEFINE s == [place |-> w.pending, values |-> w.values]
             f == Flush(w)
  <2>1. f.values = <<>> /\ OneStepMore(f, w, s)
    BY <1>4, FlushSteps DEF OneStepMore
  <2>2. s.values = w.values
    OBVIOUS
  <2> HIDE DEF s, f
  <2>3. ValuesInSteps(f) = ValuesInSteps(w) \o s.values
    BY <2>1, ValuesInStepsGrow
  <2>4. ValuesInSteps(f) = Reads(w)
    BY <2>2, <2>3 DEF Reads
  <2>5. Reads(f) = Reads(w)
    BY <1>2, <2>1, <2>4, ConcatEmptySeq DEF Reads
  <2> QED
    BY <1>2, <1>4, <2>1, <2>4, <2>5 DEF f
<1> QED
  BY <1>3, <1>4

(* A writer with the steps and the waiting values of another reads alike. *)
LEMMA SameReads ==
  ASSUME NEW v, NEW w, v.steps = w.steps
  PROVE  /\ ValuesInSteps(v) = ValuesInSteps(w)
         /\ v.values = w.values => Reads(v) = Reads(w)
BY DEF ValuesInSteps, Reads

(* Steps, calls and returns commit; registered values are read last. *)
LEMMA RegisterStepReads ==
  ASSUME NEW Function, NEW Place, NEW Value,
         NEW w \in WriterType(Function, Place, Value), NEW place
  PROVE  Reads(RegisterStep(w, place)) = Reads(w)
<1> DEFINE f == Flush(w)
           g == RegisterStep(w, place)
<1>1. f \in WriterType(Function, Place, Value) /\ Reads(f) = Reads(w)
  BY FlushFacts, FlushReads
<1>2. g = [f EXCEPT !.pending = place]
  BY DEF RegisterStep
<1> HIDE DEF f, g
<1>3. g.steps = f.steps /\ g.values = f.values
  BY <1>1, <1>2 DEF WriterType
<1> QED
  BY <1>1, <1>3, SameReads DEF g

LEMMA RegisterCallReads ==
  ASSUME NEW Function, NEW Place, NEW Value,
         NEW w \in WriterType(Function, Place, Value), NEW fn
  PROVE  /\ Reads(RegisterCall(w, fn)) = Reads(w)
         /\ w.pending # None \/ w.values = <<>> => RegisterCall(w, fn).values = <<>>
<1> DEFINE f == Flush(w)
           g == RegisterCall(w, fn)
<1>1. /\ f \in WriterType(Function, Place, Value) /\ Reads(f) = Reads(w)
      /\ w.pending # None \/ w.values = <<>> => f.values = <<>>
  BY FlushFacts, FlushReads
<1>2. g = [f EXCEPT !.open = Append(@, fn)]
  BY DEF RegisterCall
<1> HIDE DEF f, g
<1>3. g.steps = f.steps /\ g.values = f.values
  BY <1>1, <1>2 DEF WriterType
<1> QED
  BY <1>1, <1>3, SameReads DEF g

LEMMA RegisterReturnsReads ==
  ASSUME NEW Function, NEW Place, NEW Value,
         NEW w \in WriterType(Function, Place, Value), NEW n
  PROVE  /\ Reads(RegisterReturns(w, n)) = Reads(w)
         /\ n # 0 /\ (w.pending # None \/ w.values = <<>>) =>
              RegisterReturns(w, n).values = <<>>
         /\ w.pending = None => RegisterReturns(w, n).steps = w.steps
         /\ n # 0 => RegisterReturns(w, n).pending = None
<1> DEFINE f == Flush(w)
           g == RegisterReturns(w, n)
<1>1. /\ f \in WriterType(Function, Place, Value) /\ Reads(f) = Reads(w)
      /\ w.pending # None \/ w.values = <<>> => f.values = <<>>
      /\ w.pending = None => f = w
      /\ f.pending = None
  BY FlushFacts, FlushReads
<1>2. CASE n = 0
  BY <1>2 DEF RegisterReturns
<1>3. CASE n # 0
  <2> DEFINE lost == IF n > Len(w.open) THEN n - Len(w.open) ELSE 0
  <2>1. g = [f EXCEPT !.open = SubSeq(f.open, 1, Len(f.open) - n),
                      !.unmatched = f.unmatched + lost]
    BY <1>3, Zenon DEF RegisterReturns
  <2> HIDE DEF lost, f, g
  <2>2. g.steps = f.steps /\ g.values = f.values /\ g.pending = f.pending
    BY <1>1, <2>1 DEF WriterType
  <2> QED
    BY <1>1, <2>2, SameReads DEF g
<1> QED
  BY <1>2, <1>3

LEMMA RegisterValuesReads ==
  ASSUME NEW Function, NEW Place, NEW Value,
         NEW w \in WriterType(Function, Place, Value), NEW vs \in Seq(Value)
  PROVE  Reads(RegisterValues(w, vs)) = Reads(w) \o vs
<1> DEFINE g == RegisterValues(w, vs)
<1>1. g.steps = w.steps /\ g.values = w.values \o vs
  BY RegisterValuesFacts
<1>2. ValuesInSteps(w) \in Seq(Value) /\ w.values \in Seq(Value)
  BY ValuesInStepsType DEF WriterType
<1> HIDE DEF g
<1>3. Reads(g) = ValuesInSteps(w) \o (w.values \o vs)
  BY <1>1, SameReads DEF Reads
<1>4. ValuesInSteps(w) \o (w.values \o vs) = (ValuesInSteps(w) \o w.values) \o vs
  <2>1. \A s, t, u \in Seq(Value) : s \o (t \o u) = (s \o t) \o u
    OBVIOUS
  <2>2. vs \in Seq(Value)
    OBVIOUS
  <2> QED
    BY ONLY <1>2, <2>1, <2>2, Zenon
<1> QED
  BY <1>3, <1>4 DEF g, Reads
==============================================================================
