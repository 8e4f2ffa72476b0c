--------------------- MODULE ContractCallTracker_proofs ---------------------
(***************************************************************************)
(* Theorems about ContractCallTracker for every set of contracts, source   *)
(* maps, and length of a run.                                              *)
(*                                                                         *)
(* The argument: at a breakpoint the tracker is at most one receipt behind *)
(* the VM.  What it has rebuilt are the contexts before that receipt, and  *)
(* processing the receipt makes up for it.                                 *)
(***************************************************************************)
EXTENDS ContractCallTracker, TraceWriter_proofs, SequenceFacts_proofs

Ids == ContractId \union {Zero}

WT == WriterType(ContractId \union {Toplevel}, Place, {})

Frame(c) == [contract_id |-> c, context |-> "Contract"]

(* The stack and the open calls are those of the contexts ks. *)
Rebuilt(stack, ks) ==
  /\ Len(stack) = Len(ks)
  /\ stack[1] = New[1]
  /\ \A i \in 2..Len(ks) : stack[i] = Frame(ks[i])

Opened(open, ks) ==
  /\ Len(open) = Len(ks)
  /\ open[1] = Toplevel
  /\ \A i \in 2..Len(ks) : open[i] = ks[i]

PredicateStack == Append(New, [contract_id |-> Zero, context |-> "Predicate"])

(* Where the chain of switches has come to. *)
ChainEnd ==
  IF switches = <<>> THEN [to |-> Zero, depth |-> 1]
  ELSE [to |-> Top(switches).to, depth |-> Top(switches).depth]

Agrees(ks) ==
  /\ Opened(writer.open, ks)
  /\ IF program_kind = "Predicate"
       THEN call_stack = PredicateStack /\ switches = <<>>
       ELSE Rebuilt(call_stack, ks)
              /\ ChainEnd = [to |-> Top(call_stack).contract_id, depth |-> Len(call_stack)]

(* The receipt not seen yet, and the contexts before it. *)
OneBehind ==
  LET r == Top(receipts)
  IN  \/ r.kind = "Log" /\ Agrees(contexts)
      \/ /\ r.kind = "Call" /\ program_kind = "Script"
         /\ Len(contexts) > 1
         /\ r.id = Top(Popped(contexts)) /\ r.to = Top(contexts)
         /\ Agrees(Popped(contexts))
      \/ /\ r.kind \in {"Return", "ReturnData"} /\ program_kind = "Script"
         /\ r.id \in ContractId /\ Agrees(Append(contexts, r.id))

TrackInv ==
  /\ TypeOK
  /\ writer.unmatched = 0
  /\ Chained
  /\ contexts[1] = Zero /\ \A i \in 2..Len(contexts) : contexts[i] \in ContractId
  /\ program_kind = "Predicate" => contexts = <<Zero>>
  /\ phase = "new" =>
       /\ contexts = <<Zero>> /\ receipts = <<>> /\ processed_receipt_count = 0
       /\ call_stack = New /\ switches = <<>> /\ ~in_predicate
  /\ phase \in {"paused", "released"} => (in_predicate <=> program_kind = "Predicate")
  /\ phase = "paused" =>
       \/ processed_receipt_count = Len(receipts) /\ Agrees(contexts)
       \/ Len(receipts) = processed_receipt_count + 1 /\ OneBehind
  /\ phase = "released" => processed_receipt_count = Len(receipts) /\ Agrees(contexts)
  /\ phase = "done" =>
       /\ Len(writer.open) = Len(contexts) - 1
       /\ ~in_predicate
       /\ program_kind = "Predicate" => call_stack = New
       /\ Top(call_stack).context # "Predicate"

------------------------------------------------------------------------------
(* Processing one receipt, or none.                                        *)

LEMMA ProcessedNone ==
  ASSUME TypeOK, Len(receipts) = processed_receipt_count
  PROVE  Processed = [stack |-> call_stack, switches |-> <<>>]
<1> DEFINE new == SubSeq(receipts, processed_receipt_count + 1, Len(receipts))
           start == [stack |-> call_stack, switches |-> <<>>]
<1>1. Len(new) = 0
  <2>1. receipts \in Seq(ReceiptType) /\ Len(receipts) \in 0..Len(receipts)
    BY DEF TypeOK
  <2> QED BY <2>1, SplitFacts
<1> HIDE DEF new
<1> DEFINE Is(f) == f = [i \in 0..Len(new) |-> IF i = 0 THEN start ELSE Apply(f[i - 1], new[i])]
<1>2. \E f : Is(f)
  <2>1. 0..Len(new) = {0}
    BY <1>1
  <2>2. [i \in {0} |-> start] = [i \in {0} |-> IF i = 0 THEN start
                                 ELSE Apply([j \in {0} |-> start][i - 1], new[i])]
    OBVIOUS
  <2> QED BY <2>1, <2>2
<1>3. ASSUME NEW f, Is(f) PROVE f[Len(new)] = start
  BY <1>1, <1>3
<1>4. Processed = (CHOOSE f : Is(f))[Len(new)]
  BY DEF Processed, new
<1> HIDE DEF Is
<1>5. Is(CHOOSE f : Is(f))
  BY <1>2
<1> QED
  BY <1>3, <1>4, <1>5

LEMMA ProcessedOne ==
  ASSUME TypeOK, Len(receipts) = processed_receipt_count + 1
  PROVE  Processed = Apply([stack |-> call_stack, switches |-> <<>>], Top(receipts))
<1> DEFINE new == SubSeq(receipts, processed_receipt_count + 1, Len(receipts))
           start == [stack |-> call_stack, switches |-> <<>>]
<1>1. Len(new) = 1 /\ new[1] = Top(receipts)
  <2>1. /\ receipts \in Seq(ReceiptType)
        /\ processed_receipt_count \in 0..Len(receipts)
        /\ 1 \in 1..(Len(receipts) - processed_receipt_count)
    BY DEF TypeOK
  <2> QED BY <2>1, SplitFacts DEF Top
<1> HIDE DEF new
<1> DEFINE Is(f) == f = [i \in 0..Len(new) |-> IF i = 0 THEN start ELSE Apply(f[i - 1], new[i])]
<1>2. \E f : Is(f)
  <2> DEFINE g == [i \in 0..1 |-> IF i = 0 THEN start ELSE Apply(start, new[1])]
  <2>1. g[0] = start /\ \A i \in 0..1 : i # 0 => i = 1
    OBVIOUS
  <2>2. g = [i \in 0..1 |-> IF i = 0 THEN start ELSE Apply(g[i - 1], new[i])]
    BY <2>1
  <2> HIDE DEF g
  <2> QED BY <1>1, <2>2
<1>3. ASSUME NEW f, Is(f) PROVE f[Len(new)] = Apply(start, new[1])
  <2>1. 0 \in 0..Len(new) /\ 1 \in 0..Len(new) /\ 1 # 0 /\ 1 - 1 = 0
    BY <1>1
  <2>2. f[0] = start /\ f[1] = Apply(f[0], new[1])
    BY <1>3, <2>1
  <2> QED
    BY <1>1, <2>2
<1>4. Processed = (CHOOSE f : Is(f))[Len(new)]
  BY DEF Processed, new
<1> HIDE DEF Is
<1>5. Is(CHOOSE f : Is(f))
  BY <1>2
<1> QED
  BY <1>1, <1>3, <1>4, <1>5

(* What the recorder makes of the switches of one breakpoint. *)
LEMMA RecordedFacts ==
  ASSUME NEW w
  PROVE  /\ Recorded(w, <<>>) = w
         /\ \A s : Recorded(w, <<s>>) = IF s.kind = "Enter" THEN RegisterCall(w, s.to)
                                                          ELSE RegisterReturns(w, 1)
<1> DEFINE Step(v, s) == IF s.kind = "Enter" THEN RegisterCall(v, s.to)
                                             ELSE RegisterReturns(v, 1)
           Is(f, new) == f = [i \in 0..Len(new) |->
                                IF i = 0 THEN w
                                ELSE IF new[i].kind = "Enter"
                                     THEN RegisterCall(f[i - 1], new[i].to)
                                     ELSE RegisterReturns(f[i - 1], 1)]
<1>1. \A new : Recorded(w, new) = (CHOOSE f : Is(f, new))[Len(new)]
  BY DEF Recorded
<1>2. Recorded(w, <<>>) = w
  <2>1. \E f : Is(f, <<>>)
    <3>1. 0..Len(<<>>) = {0}
      OBVIOUS
    <3>2. [i \in {0} |-> w] = [i \in {0} |->
                                IF i = 0 THEN w
                                ELSE IF <<>>[i].kind = "Enter"
                                     THEN RegisterCall([j \in {0} |-> w][i - 1], <<>>[i].to)
                                     ELSE RegisterReturns([j \in {0} |-> w][i - 1], 1)]
      OBVIOUS
    <3> QED BY <3>1, <3>2
  <2>2. ASSUME NEW f, Is(f, <<>>) PROVE f[Len(<<>>)] = w
    BY <2>2
  <2> HIDE DEF Is
  <2>3. Is(CHOOSE f : Is(f, <<>>), <<>>)
    BY <2>1
  <2> QED BY <1>1, <2>2, <2>3
<1>3. ASSUME NEW s PROVE Recorded(w, <<s>>) = Step(w, s)
  <2> DEFINE new == <<s>>
  <2>1. Len(new) = 1 /\ new[1] = s
    OBVIOUS
  <2> HIDE DEF new
  <2>2. \E f : Is(f, new)
    <3> DEFINE g == [i \in 0..1 |-> IF i = 0 THEN w ELSE Step(w, new[1])]
    <3>1. g[0] = w /\ \A i \in 0..1 : i # 0 => i = 1
      OBVIOUS
    <3>2. g = [i \in 0..1 |-> IF i = 0 THEN w
                              ELSE IF new[i].kind = "Enter"
                                   THEN RegisterCall(g[i - 1], new[i].to)
                                   ELSE RegisterReturns(g[i - 1], 1)]
      BY <3>1
    <3> HIDE DEF g
    <3> QED BY <2>1, <3>2
  <2>3. ASSUME NEW f, Is(f, new) PROVE f[Len(new)] = Step(w, new[1])
    <3>1. 0 \in 0..Len(new) /\ 1 \in 0..Len(new) /\ 1 # 0 /\ 1 - 1 = 0
      BY <2>1
    <3>2. f[0] = w /\ f[1] = Step(f[0], new[1])
      BY <2>3, <3>1
    <3> QED
      BY <2>1, <3>2
  <2>4. Recorded(w, new) = (CHOOSE f : Is(f, new))[Len(new)]
    BY <1>1
  <2> HIDE DEF Is, Step
  <2>5. Is(CHOOSE f : Is(f, new), new)
    BY <2>2
  <2>6. Recorded(w, new) = Step(w, s)
    BY <2>1, <2>3, <2>4, <2>5
  <2> QED
    BY <2>6 DEF new
<1> QED
  BY <1>2, <1>3

------------------------------------------------------------------------------
(* Sequences, stacks and chains.                                           *)

LEMMA PushPop ==
  ASSUME NEW S, NEW s \in Seq(S), s # <<>>
  PROVE  /\ Popped(s) \in Seq(S) /\ Top(s) \in S
         /\ Len(Popped(s)) = Len(s) - 1
         /\ \A i \in 1..(Len(s) - 1) : Popped(s)[i] = s[i]
         /\ Append(Popped(s), Top(s)) = s
<1> DEFINE n == Len(s)
           p == Popped(s)
           e == Top(s)
<1>1. /\ n - 1 \in Nat /\ n \in 1..n /\ Len(p) = n - 1
      /\ \A i \in 1..(n - 1) : p[i] = s[i] /\ i \in 1..n
  BY PopFacts DEF Popped
<1>2. e \in S /\ e = s[n] /\ \A i \in 1..n : s[i] \in S
  BY <1>1, ElementFacts DEF Top
<1>3. p \in Seq(S)
  <2>1. 1 \in 1..(n + 1) /\ n - 1 \in 0..n
    BY <1>1
  <2> QED
    BY <1>1, <2>1, SplitFacts DEF Popped
<1> HIDE DEF p, e
<1> DEFINE q == Append(p, e)
<1>4. /\ q \in Seq(S) /\ Len(q) = (n - 1) + 1 /\ q[(n - 1) + 1] = e
      /\ \A i \in 1..(n - 1) : q[i] = p[i]
  BY <1>1, <1>2, <1>3
<1> HIDE DEF q
<1>5. Len(q) = Len(s) /\ \A i \in 1..Len(q) : q[i] = s[i]
  <2>1. \A i \in 1..n : i \in 1..(n - 1) \/ i = n
    BY <1>1
  <2>2. (n - 1) + 1 = n
    BY <1>1
  <2> QED
    BY <1>1, <1>2, <1>4, <2>1, <2>2
<1>6. q = s
  BY <1>4, <1>5, SeqEqual
<1> QED
  BY <1>1, <1>2, <1>3, <1>6 DEF q, p, e, n

LEMMA PopPush ==
  ASSUME NEW S, NEW s \in Seq(S), NEW e \in S
  PROVE  Popped(Append(s, e)) = s
<1> DEFINE t == Append(s, e)
           p == Popped(t)
<1>1. /\ t \in Seq(S) /\ Len(t) = Len(s) + 1 /\ Len(s) \in Nat
      /\ \A i \in 1..Len(s) : t[i] = s[i]
  BY GrowFacts
<1> HIDE DEF t
<1>2. t # <<>> /\ Len(t) - 1 = Len(s)
  BY <1>1
<1>3. p \in Seq(S) /\ Len(p) = Len(s) /\ \A i \in 1..Len(s) : p[i] = t[i]
  <2>1. /\ Popped(t) \in Seq(S) /\ Len(Popped(t)) = Len(t) - 1
        /\ \A i \in 1..(Len(t) - 1) : Popped(t)[i] = t[i]
    BY <1>1, <1>2, PushPop
  <2> QED
    BY <1>2, <2>1
<1> HIDE DEF p
<1>4. Len(p) = Len(s) /\ \A i \in 1..Len(p) : p[i] = s[i]
  BY <1>1, <1>3
<1>5. p = s
  BY <1>3, <1>4, SeqEqual
<1> QED
  BY <1>5 DEF p, t

(* One context more on the stack, or one less. *)
LEMMA RebuiltPush ==
  ASSUME NEW stack \in Seq(Contexts), NEW ks \in Seq(Ids), ks # <<>>, Rebuilt(stack, ks),
         NEW c \in ContractId
  PROVE  Rebuilt(Append(stack, Frame(c)), Append(ks, c))
<1> DEFINE s == Append(stack, Frame(c))
           k == Append(ks, c)
           n == Len(ks)
<1>1. /\ n \in Nat /\ n >= 1 /\ Len(stack) = n
      /\ Len(s) = n + 1 /\ s[n + 1] = Frame(c) /\ \A i \in 1..n : s[i] = stack[i]
      /\ Len(k) = n + 1 /\ k[n + 1] = c /\ \A i \in 1..n : k[i] = ks[i]
  <2>1. Len(ks) \in Nat /\ Len(ks) >= 1 /\ Len(stack) = Len(ks)
    BY DEF Rebuilt
  <2>2. /\ Len(s) = Len(stack) + 1 /\ s[Len(stack) + 1] = Frame(c)
        /\ \A i \in 1..Len(stack) : s[i] = stack[i]
    BY AppendFacts
  <2>3. /\ Len(k) = Len(ks) + 1 /\ k[Len(ks) + 1] = c
        /\ \A i \in 1..Len(ks) : k[i] = ks[i]
    BY AppendFacts
  <2> HIDE DEF s, k
  <2> QED
    BY <2>1, <2>2, <2>3
<1>2. \A i \in 2..(n + 1) : i = n + 1 \/ (i \in 2..n /\ i \in 1..n)
  BY <1>1
<1> HIDE DEF s, k, n
<1>3. stack[1] = New[1] /\ \A i \in 2..n : stack[i] = Frame(ks[i])
  BY DEF Rebuilt, n
<1>4. Rebuilt(s, k)
  BY <1>1, <1>2, <1>3 DEF Rebuilt
<1> QED
  BY <1>4 DEF s, k

LEMMA RebuiltPop ==
  ASSUME NEW stack \in Seq(Contexts), NEW ks \in Seq(Ids), ks # <<>>, NEW c \in ContractId,
         Rebuilt(stack, Append(ks, c))
  PROVE  /\ Len(stack) = Len(ks) + 1 /\ Top(stack) = Frame(c)
         /\ Rebuilt(Popped(stack), ks)
<1> DEFINE p == Popped(stack)
           k == Append(ks, c)
           n == Len(ks)
<1>1. /\ n \in Nat /\ n >= 1
      /\ Len(k) = n + 1 /\ k[n + 1] = c /\ \A i \in 1..n : k[i] = ks[i]
  BY AppendFacts
<1>2. /\ Len(stack) = n + 1 /\ stack[1] = New[1]
      /\ \A i \in 2..(n + 1) : stack[i] = Frame(k[i])
  BY <1>1 DEF Rebuilt
<1>3. Len(p) = n /\ \A i \in 1..n : p[i] = stack[i]
  <2>1. stack # <<>>
    BY <1>1, <1>2
  <2>2. Len(p) = Len(stack) - 1 /\ \A i \in 1..(Len(stack) - 1) : p[i] = stack[i]
    BY <2>1, PushPop
  <2> HIDE DEF p
  <2> QED BY <1>1, <1>2, <2>2
<1> HIDE DEF p, k
<1>4. \A i \in 2..n : i \in 1..n /\ i \in 2..(n + 1)
  BY <1>1
<1>5. Rebuilt(p, ks)
  BY <1>1, <1>2, <1>3, <1>4 DEF Rebuilt
<1>6. stack[n + 1] = Frame(c)
  BY <1>1, <1>2
<1> QED
  BY <1>2, <1>5, <1>6 DEF p, Top

LEMMA OpenedPush ==
  ASSUME NEW S, NEW open \in Seq(S), NEW ks \in Seq(Ids), ks # <<>>, Opened(open, ks),
         NEW c \in ContractId
  PROVE  Opened(Append(open, c), Append(ks, c))
<1> DEFINE s == Append(open, c)
           k == Append(ks, c)
           n == Len(ks)
<1>1. /\ n \in Nat /\ n >= 1 /\ Len(open) = n
      /\ Len(s) = n + 1 /\ s[n + 1] = c /\ \A i \in 1..n : s[i] = open[i]
      /\ Len(k) = n + 1 /\ k[n + 1] = c /\ \A i \in 1..n : k[i] = ks[i]
  <2>1. Len(ks) \in Nat /\ Len(ks) >= 1 /\ Len(open) = Len(ks)
    BY DEF Opened
  <2>2. /\ Len(s) = Len(open) + 1 /\ s[Len(open) + 1] = c
        /\ \A i \in 1..Len(open) : s[i] = open[i]
    BY AppendFacts
  <2>3. /\ Len(k) = Len(ks) + 1 /\ k[Len(ks) + 1] = c
        /\ \A i \in 1..Len(ks) : k[i] = ks[i]
    BY AppendFacts
  <2> HIDE DEF s, k
  <2> QED
    BY <2>1, <2>2, <2>3
<1>2. \A i \in 2..(n + 1) : i = n + 1 \/ (i \in 2..n /\ i \in 1..n)
  BY <1>1
<1> HIDE DEF s, k, n
<1>3. open[1] = Toplevel /\ \A i \in 2..n : open[i] = ks[i]
  BY DEF Opened, n
<1>4. Opened(s, k)
  BY <1>1, <1>2, <1>3 DEF Opened
<1> QED
  BY <1>4 DEF s, k

LEMMA OpenedPop ==
  ASSUME NEW S, NEW open \in Seq(S), NEW ks \in Seq(Ids), ks # <<>>, NEW c \in ContractId,
         Opened(open, Append(ks, c))
  PROVE  /\ Len(open) = Len(ks) + 1
         /\ Opened(SubSeq(open, 1, Len(open) - 1), ks)
<1> DEFINE p == SubSeq(open, 1, Len(open) - 1)
           k == Append(ks, c)
           n == Len(ks)
<1>1. /\ n \in Nat /\ n >= 1
      /\ Len(k) = n + 1 /\ k[n + 1] = c /\ \A i \in 1..n : k[i] = ks[i]
  BY AppendFacts
<1>2. /\ Len(open) = n + 1 /\ open[1] = Toplevel
      /\ \A i \in 2..(n + 1) : open[i] = k[i]
  BY <1>1 DEF Opened
<1>3. Len(p) = n /\ \A i \in 1..n : p[i] = open[i]
  <2>1. open # <<>>
    BY <1>1, <1>2
  <2>2. Len(p) = Len(open) - 1 /\ \A i \in 1..(Len(open) - 1) : p[i] = open[i]
    BY <2>1, PopFacts
  <2> HIDE DEF p
  <2> QED BY <1>1, <1>2, <2>2
<1> HIDE DEF p, k
<1>4. \A i \in 2..n : i \in 1..n /\ i \in 2..(n + 1)
  BY <1>1
<1>5. Opened(p, ks)
  BY <1>1, <1>2, <1>3, <1>4 DEF Opened
<1> QED
  BY <1>2, <1>5 DEF p

(* The innermost context. *)
LEMMA RebuiltTop ==
  ASSUME NEW stack, NEW ks \in Seq(Ids), ks # <<>>, ks[1] = Zero, Rebuilt(stack, ks)
  PROVE  Top(stack).contract_id = Top(ks)
<1>1. Len(ks) \in Nat /\ Len(ks) >= 1 /\ Len(stack) = Len(ks)
  BY DEF Rebuilt
<1>2. CASE Len(ks) = 1
  BY <1>1, <1>2 DEF Rebuilt, Top, New
<1>3. CASE Len(ks) # 1
  <2>1. Len(ks) \in 2..Len(ks)
    BY <1>1, <1>3
  <2>2. stack[Len(ks)] = Frame(ks[Len(ks)])
    BY <2>1 DEF Rebuilt
  <2> QED
    BY <1>1, <2>2 DEF Top, Frame
<1> QED
  BY <1>2, <1>3

(* A chain of switches, and its end. *)
ChainOf(sw) ==
  \A i \in 1..Len(sw) :
    LET before == IF i = 1 THEN [to |-> Zero, depth |-> 1] ELSE sw[i - 1]
    IN  /\ sw[i].from = before.to
        /\ sw[i].depth = before.depth + (IF sw[i].kind = "Enter" THEN 1 ELSE -1)

EndOf(sw) ==
  IF sw = <<>> THEN [to |-> Zero, depth |-> 1] ELSE [to |-> Top(sw).to, depth |-> Top(sw).depth]

LEMMA ChainGrows ==
  ASSUME NEW sw \in Seq(SwitchType), ChainOf(sw), NEW s \in SwitchType,
         s.from = EndOf(sw).to,
         s.depth = EndOf(sw).depth + (IF s.kind = "Enter" THEN 1 ELSE -1)
  PROVE  /\ ChainOf(Append(sw, s)) /\ Append(sw, s) \in Seq(SwitchType)
         /\ EndOf(Append(sw, s)) = [to |-> s.to, depth |-> s.depth]
<1> DEFINE t == Append(sw, s)
           n == Len(sw)
<1>1. /\ n \in Nat /\ Len(t) = n + 1 /\ t[n + 1] = s /\ t \in Seq(SwitchType)
      /\ \A i \in 1..n : t[i] = sw[i]
  BY AppendFacts
<1>2. t # <<>>
  BY <1>1
<1> HIDE DEF t
<1>3. EndOf(t) = [to |-> s.to, depth |-> s.depth]
  BY <1>1, <1>2 DEF EndOf, Top
<1>4. ASSUME NEW i \in 1..(n + 1)
      PROVE  LET before == IF i = 1 THEN [to |-> Zero, depth |-> 1] ELSE t[i - 1]
             IN  /\ t[i].from = before.to
                 /\ t[i].depth = before.depth + (IF t[i].kind = "Enter" THEN 1 ELSE -1)
  <2>1. CASE i \in 1..n
    <3>1. t[i] = sw[i] /\ (i # 1 => t[i - 1] = sw[i - 1])
      BY <1>1, <2>1
    <3> QED
      BY <2>1, <3>1 DEF ChainOf
  <2>2. CASE i = n + 1
    <3>1. CASE n = 0
      <4>1. sw = <<>>
        BY <3>1
      <4> QED
        BY <1>1, <2>2, <3>1, <4>1 DEF EndOf
    <3>2. CASE n # 0
      <4>1. sw # <<>> /\ i # 1 /\ i - 1 = n /\ n \in 1..n
        BY <1>1, <2>2, <3>2
      <4>2. t[i - 1] = sw[n] /\ EndOf(sw) = [to |-> sw[n].to, depth |-> sw[n].depth]
        BY <1>1, <4>1 DEF EndOf, Top
      <4> QED
        BY <1>1, <2>2, <4>1, <4>2
    <3> QED
      BY <3>1, <3>2
  <2> QED
    BY <1>1, <2>1, <2>2
<1>5. ChainOf(t)
  BY <1>1, <1>4 DEF ChainOf
<1> QED
  BY <1>1, <1>3, <1>5 DEF t

------------------------------------------------------------------------------
(* A breakpoint: the tracker catches up.                                   *)

CaughtUp(stack, sw, w) ==
  /\ stack \in Seq(Contexts) /\ stack # <<>>
  /\ sw \in Seq(SwitchType) /\ ChainOf(sw)
  /\ w \in WT /\ w.unmatched = 0
  /\ Opened(w.open, contexts)
  /\ IF program_kind = "Predicate"
       THEN stack = PredicateStack /\ sw = <<>>
       ELSE /\ Rebuilt(stack, contexts)
            /\ EndOf(sw) = [to |-> Top(stack).contract_id, depth |-> Len(stack)]

LEMMA BaseFacts ==
  ASSUME TrackInv
  PROVE  /\ call_stack \in Seq(Contexts) /\ call_stack # <<>>
         /\ switches \in Seq(SwitchType) /\ ChainOf(switches) /\ ChainEnd = EndOf(switches)
         /\ writer \in WT /\ writer.unmatched = 0
         /\ writer.open \in Seq(ContractId \union {Toplevel})
         /\ contexts \in Seq(Ids) /\ contexts # <<>> /\ contexts[1] = Zero
         /\ receipts \in Seq(ReceiptType)
         /\ processed_receipt_count \in 0..Len(receipts)
<1>1. /\ call_stack \in Seq(Contexts) /\ call_stack # <<>>
      /\ switches \in Seq(SwitchType)
      /\ writer \in WT /\ writer.unmatched = 0
      /\ contexts \in Seq(Ids) /\ contexts # <<>> /\ contexts[1] = Zero
      /\ receipts \in Seq(ReceiptType)
      /\ processed_receipt_count \in 0..Len(receipts)
  BY DEF TrackInv, TypeOK, WT, Ids
<1>2. ChainOf(switches) /\ ChainEnd = EndOf(switches)
  BY DEF TrackInv, Chained, ChainOf, ChainEnd, EndOf
<1>3. writer.open \in Seq(ContractId \union {Toplevel})
  BY <1>1 DEF WT, WriterType
<1> QED
  BY <1>1, <1>2, <1>3

LEMMA NothingNew ==
  ASSUME TrackInv, Agrees(contexts), Processed = [stack |-> call_stack, switches |-> <<>>]
  PROVE  CaughtUp(Processed.stack, switches \o Processed.switches,
                  Recorded(writer, Processed.switches))
<1>1. Processed.stack = call_stack /\ Processed.switches = <<>>
  OBVIOUS
<1>2. switches \o <<>> = switches
  BY BaseFacts, ConcatEmptySeq
<1>3. Recorded(writer, <<>>) = writer
  BY RecordedFacts
<1>4. CaughtUp(call_stack, switches, writer)
  BY BaseFacts DEF Agrees, CaughtUp
<1> QED
  BY <1>1, <1>2, <1>3, <1>4, Zenon

(* A call. *)
LEMMA CallSeen ==
  ASSUME TrackInv, program_kind = "Script",
         NEW r \in ReceiptType, r.kind = "Call", NEW ks \in Seq(Ids), ks # <<>>,
         NEW c \in ContractId, contexts = Append(ks, c), r.id = Top(ks), r.to = c,
         ks[1] = Zero, Agrees(ks),
         Processed = Apply([stack |-> call_stack, switches |-> <<>>], r)
  PROVE  CaughtUp(Processed.stack, switches \o Processed.switches,
                  Recorded(writer, Processed.switches))
<1> DEFINE st == Append(call_stack, Frame(c))
           n == Len(st)
           s == [kind |-> "Enter", from |-> r.id, to |-> c, depth |-> n]
           w == RegisterCall(writer, c)
<1>1. Processed = [stack |-> st, switches |-> Append(<<>>, s)]
  BY DEF Apply, EnterContract, Frame
<1>2. /\ Rebuilt(call_stack, ks) /\ Opened(writer.open, ks)
      /\ ChainEnd = [to |-> Top(call_stack).contract_id, depth |-> Len(call_stack)]
  BY DEF Agrees
<1>3. Frame(c) \in Contexts /\ Frame(c).contract_id = c
  BY DEF Frame, Contexts
<1>4. /\ st \in Seq(Contexts) /\ st # <<>> /\ n = Len(call_stack) + 1 /\ n \in Nat
      /\ Top(st) = Frame(c)
  <2>1. /\ Append(call_stack, Frame(c)) \in Seq(Contexts)
        /\ Len(call_stack) \in Nat /\ Len(Append(call_stack, Frame(c))) = Len(call_stack) + 1
        /\ Append(call_stack, Frame(c))[Len(call_stack) + 1] = Frame(c)
    BY <1>3, BaseFacts, GrowFacts
  <2> QED
    BY <2>1 DEF Top
<1>5. s \in SwitchType /\ s.from = EndOf(switches).to
      /\ s.depth = EndOf(switches).depth + (IF s.kind = "Enter" THEN 1 ELSE -1)
  <2>1. Top(call_stack).contract_id = Top(ks)
    BY <1>2, RebuiltTop
  <2>2. EndOf(switches) = [to |-> Top(call_stack).contract_id, depth |-> Len(call_stack)]
    BY <1>2, BaseFacts
  <2>3. s \in SwitchType
    BY <1>4 DEF SwitchType, ReceiptType
  <2> QED
    BY <1>4, <2>1, <2>2, <2>3
<1>6. Rebuilt(st, contexts)
  BY <1>2, BaseFacts, RebuiltPush
<1>7. w \in WT /\ w.unmatched = 0 /\ Opened(w.open, contexts)
  <2>1. writer \in WriterType(ContractId \union {Toplevel}, Place, {})
        /\ writer.unmatched = 0 /\ c \in ContractId \union {Toplevel}
    BY BaseFacts DEF WT
  <2>2. /\ w \in WriterType(ContractId \union {Toplevel}, Place, {})
        /\ w.open = Append(writer.open, c)
        /\ w.unmatched = writer.unmatched
    BY <2>1, RegisterCallFacts
  <2>3. Opened(Append(writer.open, c), Append(ks, c))
    BY <1>2, BaseFacts, OpenedPush
  <2> HIDE DEF w
  <2> QED
    BY <2>1, <2>2, <2>3 DEF WT
<1>8. Recorded(writer, <<s>>) = w
  <2>1. s.kind = "Enter" /\ s.to = c
    OBVIOUS
  <2> HIDE DEF s
  <2> QED
    BY <2>1, RecordedFacts
<1>9. /\ Processed.stack = st /\ Processed.switches = <<s>>
  BY <1>1
<1>s. s.to = c /\ s.depth = n
  OBVIOUS
<1> HIDE DEF s, st, w, n
<1>10. switches \o <<s>> = Append(switches, s)
  BY <1>5, BaseFacts, GrowFacts
<1>11. /\ ChainOf(Append(switches, s)) /\ Append(switches, s) \in Seq(SwitchType)
       /\ EndOf(Append(switches, s)) = [to |-> s.to, depth |-> s.depth]
  BY <1>5, BaseFacts, ChainGrows
<1>12. CaughtUp(st, Append(switches, s), w)
  BY <1>s, <1>3, <1>4, <1>6, <1>7, <1>11 DEF CaughtUp, n
<1> QED
  BY <1>8, <1>9, <1>10, <1>12, Zenon

(* A return. *)
LEMMA ReturnSeen ==
  ASSUME TrackInv, program_kind = "Script",
         NEW r \in ReceiptType, r.kind \in {"Return", "ReturnData"},
         r.id \in ContractId, Agrees(Append(contexts, r.id)),
         Processed = Apply([stack |-> call_stack, switches |-> <<>>], r)
  PROVE  CaughtUp(Processed.stack, switches \o Processed.switches,
                  Recorded(writer, Processed.switches))
<1> DEFINE st == Popped(call_stack)
           n == Len(st)
           s == [kind |-> "Exit", from |-> r.id, to |-> Top(st).contract_id, depth |-> n]
           w == RegisterReturns(writer, 1)
<1>2. /\ Rebuilt(call_stack, Append(contexts, r.id))
      /\ Opened(writer.open, Append(contexts, r.id))
      /\ ChainEnd = [to |-> Top(call_stack).contract_id, depth |-> Len(call_stack)]
  BY DEF Agrees
<1>3. /\ Len(call_stack) = Len(contexts) + 1 /\ Top(call_stack) = Frame(r.id)
      /\ Rebuilt(st, contexts)
  BY <1>2, BaseFacts, RebuiltPop
<1>4. /\ Len(contexts) \in Nat /\ Len(contexts) >= 1 /\ Len(call_stack) > 1
  BY <1>3, BaseFacts
<1>1. Processed = [stack |-> st, switches |-> Append(<<>>, s)]
  BY <1>4 DEF Apply, ExitContract
<1>5. /\ st \in Seq(Contexts) /\ n = Len(contexts) /\ st # <<>> /\ Top(st) \in Contexts
  <2>1. Popped(call_stack) \in Seq(Contexts) /\ Len(Popped(call_stack)) = Len(call_stack) - 1
    BY BaseFacts, PushPop
  <2>2. st \in Seq(Contexts) /\ n = Len(contexts) /\ st # <<>>
    BY <1>3, <1>4, <2>1
  <2> HIDE DEF st
  <2>3. Top(st) \in Contexts
    BY <2>2, PushPop
  <2> QED
    BY <2>2, <2>3
<1>6. s \in SwitchType /\ s.from = EndOf(switches).to
      /\ s.depth = EndOf(switches).depth + (IF s.kind = "Enter" THEN 1 ELSE -1)
  <2>1. EndOf(switches) = [to |-> r.id, depth |-> Len(contexts) + 1]
    BY <1>2, <1>3, BaseFacts DEF Frame
  <2> HIDE DEF st
  <2>2. s \in SwitchType
    BY <1>4, <1>5 DEF SwitchType, ReceiptType, Contexts
  <2>3. s.from = r.id /\ s.depth = Len(contexts) /\ s.kind = "Exit"
    BY <1>5
  <2> HIDE DEF s
  <2> QED
    BY <1>4, <2>1, <2>2, <2>3
<1>7. w \in WT /\ w.unmatched = 0 /\ Opened(w.open, contexts)
  <2>1. /\ Len(writer.open) = Len(contexts) + 1
        /\ Opened(SubSeq(writer.open, 1, Len(writer.open) - 1), contexts)
    BY <1>2, BaseFacts, OpenedPop
  <2>2. /\ writer \in WriterType(ContractId \union {Toplevel}, Place, {})
        /\ writer.unmatched = 0 /\ 1 \in 0..Len(writer.open)
    BY <1>4, <2>1, BaseFacts DEF WT
  <2>3. /\ w \in WriterType(ContractId \union {Toplevel}, Place, {})
        /\ w.open = SubSeq(writer.open, 1, Len(writer.open) - 1)
        /\ w.unmatched = writer.unmatched
    BY <2>2, RegisterReturnsFacts
  <2> HIDE DEF w
  <2> QED
    BY <2>1, <2>2, <2>3 DEF WT
<1>8. Recorded(writer, <<s>>) = w
  <2>1. s.kind # "Enter"
    OBVIOUS
  <2> HIDE DEF s
  <2> QED
    BY <2>1, RecordedFacts
<1>9. /\ Processed.stack = st /\ Processed.switches = <<s>>
  BY <1>1
<1>s. s.to = Top(st).contract_id /\ s.depth = Len(st)
  OBVIOUS
<1> HIDE DEF s, st, w, n
<1>10. switches \o <<s>> = Append(switches, s)
  BY <1>6, BaseFacts, GrowFacts
<1>11. /\ ChainOf(Append(switches, s)) /\ Append(switches, s) \in Seq(SwitchType)
       /\ EndOf(Append(switches, s)) = [to |-> s.to, depth |-> s.depth]
  BY <1>6, BaseFacts, ChainGrows
<1>12. CaughtUp(st, Append(switches, s), w)
  BY <1>s, <1>3, <1>5, <1>7, <1>11 DEF CaughtUp
<1> QED
  BY <1>8, <1>9, <1>10, <1>12, Zenon

LEMMA BreakpointFacts ==
  ASSUME TrackInv, phase = "paused"
  PROVE  CaughtUp(Processed.stack, switches \o Processed.switches,
                  Recorded(writer, Processed.switches))
<1> DEFINE r == Top(receipts)
<1>1. CASE processed_receipt_count = Len(receipts) /\ Agrees(contexts)
  <2>1. Processed = [stack |-> call_stack, switches |-> <<>>]
    BY <1>1, ProcessedNone DEF TrackInv
  <2> QED
    BY <1>1, <2>1, NothingNew
<1>2. CASE Len(receipts) = processed_receipt_count + 1 /\ OneBehind
  <2>1. Processed = Apply([stack |-> call_stack, switches |-> <<>>], r)
    BY <1>2, ProcessedOne DEF TrackInv
  <2>2. r \in ReceiptType
    <3>1. receipts \in Seq(ReceiptType) /\ receipts # <<>>
      BY <1>2, BaseFacts
    <3> QED BY <3>1, PushPop
  <2> HIDE DEF r
  <2>3. CASE r.kind = "Log" /\ Agrees(contexts)
    <3>1. Processed = [stack |-> call_stack, switches |-> <<>>]
      BY <2>1, <2>3 DEF Apply
    <3> QED
      BY <2>3, <3>1, NothingNew
  <2>4. CASE /\ r.kind = "Call" /\ program_kind = "Script"
             /\ Len(contexts) > 1
             /\ r.id = Top(Popped(contexts)) /\ r.to = Top(contexts)
             /\ Agrees(Popped(contexts))
    <3> DEFINE ks == Popped(contexts)
               c == Top(contexts)
    <3>1. /\ ks \in Seq(Ids) /\ Len(ks) = Len(contexts) - 1 /\ Append(ks, c) = contexts
          /\ \A i \in 1..(Len(contexts) - 1) : ks[i] = contexts[i]
      BY BaseFacts, PushPop
    <3>2. c \in ContractId
      <4>1. Len(contexts) \in 2..Len(contexts)
        BY <2>4, BaseFacts
      <4> QED
        BY <4>1 DEF TrackInv, Top
    <3> HIDE DEF ks
    <3>3. ks # <<>> /\ ks[1] = Zero
      <4>1. Len(contexts) \in Nat /\ 1 \in 1..(Len(contexts) - 1)
        BY <2>4, BaseFacts
      <4> QED
        BY <3>1, <4>1, BaseFacts
    <3> HIDE DEF c
    <3>4. r.id = Top(ks) /\ r.to = c /\ Agrees(ks) /\ r.kind = "Call" /\ program_kind = "Script"
          /\ contexts = Append(ks, c)
      BY <2>4, <3>1 DEF ks, c
    <3> QED
      BY <2>1, <2>2, <3>1, <3>2, <3>3, <3>4, CallSeen
  <2>5. CASE /\ r.kind \in {"Return", "ReturnData"} /\ program_kind = "Script"
             /\ r.id \in ContractId /\ Agrees(Append(contexts, r.id))
    BY <2>1, <2>2, <2>5, ReturnSeen
  <2> QED
    BY <1>2, <2>3, <2>4, <2>5 DEF OneBehind, r
<1> QED
  BY <1>1, <1>2 DEF TrackInv

(* Which contract the caught-up stack is in, and what lookup_source shows. *)
LEMMA CaughtUpTop ==
  ASSUME TrackInv, NEW stack, NEW sw, NEW w, CaughtUp(stack, sw, w)
  PROVE  /\ Top(stack).contract_id = Top(contexts)
         /\ Top(stack).context = "Predicate" <=> program_kind = "Predicate"
<1>1. CASE program_kind = "Predicate"
  <2>1. stack = PredicateStack /\ contexts = <<Zero>>
    BY <1>1 DEF CaughtUp, TrackInv
  <2> QED
    BY <1>1, <2>1 DEF PredicateStack, New, Top
<1>2. CASE program_kind # "Predicate"
  <2>1. Rebuilt(stack, contexts)
    BY <1>2 DEF CaughtUp
  <2>2. Top(stack).contract_id = Top(contexts)
    BY <2>1, BaseFacts, RebuiltTop
  <2>3. Top(stack).context # "Predicate"
    <3>1. Len(contexts) \in Nat /\ Len(contexts) >= 1 /\ Len(stack) = Len(contexts)
      BY <2>1, BaseFacts DEF Rebuilt
    <3>2. Len(contexts) = 1 \/ Len(contexts) \in 2..Len(contexts)
      BY <3>1
    <3>3. CASE Len(contexts) = 1
      BY <2>1, <3>1, <3>3 DEF Rebuilt, Top, New
    <3>4. CASE Len(contexts) \in 2..Len(contexts)
      <4>1. stack[Len(contexts)] = Frame(contexts[Len(contexts)])
        BY <2>1, <3>4 DEF Rebuilt
      <4> QED
        BY <3>1, <4>1 DEF Top, Frame
    <3> QED
      BY <3>2, <3>3, <3>4
  <2> QED
    BY <1>2, <2>2, <2>3
<1> QED
  BY <1>1, <1>2

LEMMA LookupFacts ==
  ASSUME TypeOK, NEW stack, Top(stack).contract_id \in Ids
  PROVE  LookupSource(stack, index) \in Place
<1> DEFINE c == Top(stack).contract_id
<1>1. index \in Index /\ DefaultMap[index] \in Place \union {None} /\ LineOfIndex[index] \in Place
  BY MapAssumption DEF TypeOK, SourceMap
<1>2. c # Zero => Maps[c][index] \in Place \union {None}
  <2> SUFFICES ASSUME c # Zero PROVE Maps[c][index] \in Place \union {None}
    OBVIOUS
  <2>1. Maps[c] \in SourceMap
    BY MapAssumption DEF Ids
  <2> QED
    BY <1>1, <2>1 DEF SourceMap
<1> QED
  BY <1>1, <1>2 DEF LookupSource

------------------------------------------------------------------------------
(* The invariant holds.                                                    *)

LEMMA VMStep == TrackInv /\ VM => TrackInv'
<1> SUFFICES ASSUME TrackInv, VM
             PROVE  TrackInv'
  OBVIOUS
<1>1. /\ phase = "released" /\ phase' = "paused"
      /\ fuel' = fuel - 1 /\ fuel > 0 /\ index' \in Index
      /\ UNCHANGED <<program_kind, call_stack, source_maps, processed_receipt_count,
                     in_predicate, switches, shown, writer>>
  BY DEF VM, Execute, Call, Return, Running, trackerVars
<1>2. /\ processed_receipt_count = Len(receipts) /\ Agrees(contexts)
      /\ processed_receipt_count \in Nat
  BY <1>1, BaseFacts DEF TrackInv
<1>3. /\ fuel' \in 0..MaxSteps
      /\ program_kind' \in {"Script", "Predicate"} /\ phase' \in {"new", "paused", "released", "done"}
      /\ call_stack' \in Seq(Contexts) /\ call_stack' # <<>>
      /\ source_maps' \in [ContractId -> BOOLEAN] /\ in_predicate' \in BOOLEAN
      /\ switches' \in Seq(SwitchType) /\ shown' \in Place \union {None}
      /\ writer' \in WriterType(ContractId \union {Toplevel}, Place, {})
      /\ writer'.unmatched = 0 /\ Chained'
      /\ in_predicate' <=> program_kind' = "Predicate"
  BY <1>1, StepsAssumption DEF TrackInv, TypeOK, Chained
<1>4. Top(contexts) \in Ids
  BY BaseFacts, PushPop
<1>5. ASSUME receipts' \in Seq(ReceiptType),
             contexts' \in Seq(Ids), contexts' # <<>>, contexts'[1] = Zero,
             \A i \in 2..Len(contexts') : contexts'[i] \in ContractId,
             program_kind = "Predicate" => contexts' = <<Zero>>,
             \/ Len(receipts') = processed_receipt_count /\ Agrees(contexts)'
             \/ Len(receipts') = processed_receipt_count + 1 /\ OneBehind'
      PROVE  TrackInv'
  <2>1. processed_receipt_count' \in 0..Len(receipts')
    BY <1>1, <1>2, <1>5
  <2>2. TypeOK'
    BY <1>1, <1>3, <1>5, <2>1 DEF TypeOK, Ids
  <2> QED
    BY <1>1, <1>3, <1>5, <2>2 DEF TrackInv
<1>6. ASSUME NEW r \in ReceiptType, receipts' = Append(receipts, r)
      PROVE  /\ receipts' \in Seq(ReceiptType)
             /\ Len(receipts') = processed_receipt_count + 1
             /\ Top(receipts') = r
  <2>1. /\ Append(receipts, r) \in Seq(ReceiptType)
        /\ Len(Append(receipts, r)) = Len(receipts) + 1
        /\ Append(receipts, r)[Len(receipts) + 1] = r
    BY BaseFacts, GrowFacts
  <2> QED
    BY <1>2, <1>6, <2>1 DEF Top
<1>7. CASE Execute
  <2>1. contexts' = contexts /\ (receipts' = receipts \/ receipts' = Append(receipts, Receipt("Log", Zero)))
    BY <1>7 DEF Execute
  <2>2. Agrees(contexts)'
    BY <1>1, <1>2, <2>1 DEF Agrees, ChainEnd
  <2>3. /\ contexts' \in Seq(Ids) /\ contexts' # <<>> /\ contexts'[1] = Zero
        /\ \A i \in 2..Len(contexts') : contexts'[i] \in ContractId
        /\ program_kind = "Predicate" => contexts' = <<Zero>>
    BY <2>1, BaseFacts DEF TrackInv
  <2>4. CASE receipts' = receipts
    BY <1>2, <1>5, <2>2, <2>3, <2>4, BaseFacts
  <2>5. CASE receipts' = Append(receipts, Receipt("Log", Zero))
    <3>1. Receipt("Log", Zero) \in ReceiptType /\ Receipt("Log", Zero).kind = "Log"
      BY <1>4 DEF Receipt, ReceiptType, Ids
    <3>2. /\ receipts' \in Seq(ReceiptType) /\ Len(receipts') = processed_receipt_count + 1
          /\ Top(receipts').kind = "Log"
      BY <1>6, <2>5, <3>1
    <3>3. OneBehind'
      BY <2>2, <3>2 DEF OneBehind
    <3> QED
      BY <1>5, <2>3, <3>2, <3>3
  <2> QED
    BY <2>1, <2>4, <2>5
<1>8. CASE Call
  <2>1. PICK c \in ContractId : /\ receipts' = Append(receipts, Receipt("Call", c))
                                /\ contexts' = Append(contexts, c)
    BY <1>8 DEF Call
  <2>2. program_kind = "Script"
    BY <1>8 DEF Call
  <2>3. /\ Receipt("Call", c) \in ReceiptType /\ Receipt("Call", c).kind = "Call"
        /\ Receipt("Call", c).id = Top(contexts) /\ Receipt("Call", c).to = c
    BY <1>4 DEF Receipt, ReceiptType, Ids
  <2>4. /\ Append(contexts, c) \in Seq(Ids)
        /\ Len(contexts) \in Nat /\ Len(contexts) >= 1
        /\ Len(Append(contexts, c)) = Len(contexts) + 1
        /\ Append(contexts, c)[Len(contexts) + 1] = c
        /\ \A i \in 1..Len(contexts) : Append(contexts, c)[i] = contexts[i]
    <3>1. contexts \in Seq(Ids) /\ c \in Ids /\ contexts # <<>>
      BY BaseFacts DEF Ids
    <3>2. Len(contexts) >= 1
      BY <3>1
    <3> QED
      BY <3>1, <3>2, GrowFacts
  <2>5. /\ contexts' \in Seq(Ids) /\ contexts' # <<>> /\ contexts'[1] = Zero
        /\ \A i \in 2..Len(contexts') : contexts'[i] \in ContractId
        /\ Len(contexts') > 1 /\ Top(contexts') = c
    <3>1. \A i \in 2..(Len(contexts) + 1) :
            i = Len(contexts) + 1 \/ (i \in 2..Len(contexts) /\ i \in 1..Len(contexts))
      BY <2>4
    <3>2. \A i \in 2..Len(contexts) : contexts[i] \in ContractId
      BY DEF TrackInv
    <3>3. contexts' \in Seq(Ids) /\ Len(contexts') = Len(contexts) + 1 /\ contexts'[Len(contexts) + 1] = c
          /\ \A i \in 1..Len(contexts) : contexts'[i] = contexts[i]
      BY <2>1, <2>4, Zenon
    <3>4. contexts'[1] = Zero /\ Len(contexts') > 1 /\ contexts' # <<>>
      BY <2>4, <3>3, BaseFacts
    <3> QED
      BY <3>1, <3>2, <3>3, <3>4 DEF Top
  <2>6. Popped(contexts') = contexts
    <3>1. contexts \in Seq(Ids) /\ c \in Ids
      BY BaseFacts DEF Ids
    <3>2. Popped(Append(contexts, c)) = contexts
      BY <3>1, PopPush
    <3> QED
      BY <2>1, <3>2, Zenon
  <2>7. /\ receipts' \in Seq(ReceiptType) /\ Len(receipts') = processed_receipt_count + 1
        /\ Top(receipts') = Receipt("Call", c)
    BY <1>6, <2>1, <2>3
  <2>8. Agrees(Popped(contexts))'
    BY <1>1, <1>2, <2>6 DEF Agrees, ChainEnd
  <2>9. OneBehind'
    BY <1>1, <2>2, <2>3, <2>5, <2>6, <2>7, <2>8 DEF OneBehind
  <2> QED
    BY <1>5, <2>2, <2>5, <2>7, <2>9
<1>9. CASE Return
  <2>1. PICK kind \in {"Return", "ReturnData"} : receipts' = Append(receipts, Receipt(kind, Zero))
    BY <1>9 DEF Return
  <2>2. Len(contexts) > 1 /\ contexts' = Popped(contexts)
    BY <1>9 DEF Return
  <2>3. program_kind = "Script"
    <3>1. ASSUME contexts = <<Zero>> PROVE FALSE
      <4>1. Len(contexts) = 1
        BY <3>1
      <4> QED
        BY <2>2, <4>1
    <3> QED
      BY <3>1 DEF TrackInv, TypeOK
  <2>4. /\ Receipt(kind, Zero) \in ReceiptType /\ Receipt(kind, Zero).kind = kind
        /\ Receipt(kind, Zero).id = Top(contexts)
    BY <1>4 DEF Receipt, ReceiptType, Ids
  <2>5. /\ Popped(contexts) \in Seq(Ids) /\ Len(Popped(contexts)) = Len(contexts) - 1
        /\ \A i \in 1..(Len(contexts) - 1) : Popped(contexts)[i] = contexts[i]
        /\ Append(Popped(contexts), Top(contexts)) = contexts
        /\ Len(contexts) \in Nat
    <3>1. contexts \in Seq(Ids) /\ contexts # <<>>
      BY BaseFacts
    <3> QED
      BY <3>1, PushPop, ElementFacts
  <2>6. Top(contexts) \in ContractId
    <3>1. Len(contexts) \in 2..Len(contexts)
      BY <2>2, <2>5
    <3> QED
      BY <3>1 DEF TrackInv, Top
  <2>7. /\ contexts' \in Seq(Ids) /\ contexts' # <<>> /\ contexts'[1] = Zero
        /\ \A i \in 2..Len(contexts') : contexts'[i] \in ContractId
    <3>1. \A i \in 2..(Len(contexts) - 1) : i \in 2..Len(contexts) /\ i \in 1..(Len(contexts) - 1)
      BY <2>5
    <3>2. 1 \in 1..(Len(contexts) - 1)
      BY <2>2, <2>5
    <3>3. \A i \in 2..Len(contexts) : contexts[i] \in ContractId
      BY DEF TrackInv
    <3>4. contexts' \in Seq(Ids) /\ Len(contexts') = Len(contexts) - 1
          /\ \A i \in 1..(Len(contexts) - 1) : contexts'[i] = contexts[i]
      BY <2>2, <2>5, Zenon
    <3>5. contexts' # <<>> /\ contexts'[1] = Zero
      BY <3>2, <3>4, BaseFacts
    <3> QED
      BY <3>1, <3>3, <3>4, <3>5
  <2>8. /\ receipts' \in Seq(ReceiptType) /\ Len(receipts') = processed_receipt_count + 1
        /\ Top(receipts') = Receipt(kind, Zero)
    BY <1>6, <2>1, <2>4
  <2>9. Append(contexts', Top(receipts').id) = contexts
    BY <2>2, <2>4, <2>5, <2>8, Zenon
  <2>10. Agrees(Append(contexts, Top(receipts).id))'
    BY <1>1, <1>2, <2>9 DEF Agrees, ChainEnd
  <2>11. OneBehind'
    BY <1>1, <2>3, <2>4, <2>6, <2>8, <2>10 DEF OneBehind
  <2> QED
    BY <1>5, <2>3, <2>7, <2>8, <2>11
<1> QED
  BY <1>7, <1>8, <1>9 DEF VM

LEMMA RecorderStep ==
  TrackInv /\ (RegisterSourceMap \/ Begin \/ Breakpoint \/ Finish \/ Done \/ UNCHANGED vars)
    => TrackInv'
<1> SUFFICES ASSUME TrackInv,
                    RegisterSourceMap \/ Begin \/ Breakpoint \/ Finish \/ Done \/ UNCHANGED vars
             PROVE  TrackInv'
  OBVIOUS
<1>1. CASE RegisterSourceMap
  <2>1. /\ phase = "new"
        /\ \E c \in ContractId : source_maps' = [source_maps EXCEPT ![c] = TRUE]
        /\ UNCHANGED <<program_kind, phase, contexts, index, receipts, fuel, call_stack,
                       processed_receipt_count, in_predicate, switches, shown, writer>>
    BY <1>1 DEF RegisterSourceMap, vmVars
  <2>2. TypeOK'
    BY <2>1 DEF TrackInv, TypeOK
  <2> QED
    BY <2>1, <2>2 DEF TrackInv, Chained
<1>2. CASE Begin
  <2>1. /\ phase = "new" /\ phase' = "paused"
        /\ writer' = Start(Toplevel, LineOfIndex[0])
        /\ UNCHANGED <<program_kind, contexts, index, receipts, fuel, source_maps,
                       processed_receipt_count, switches, shown>>
        /\ IF program_kind = "Predicate"
             THEN in_predicate' = TRUE
                    /\ call_stack' = Append(call_stack, [contract_id |-> Zero,
                                                         context |-> "Predicate"])
             ELSE in_predicate' = in_predicate /\ call_stack' = call_stack
    BY <1>2 DEF Begin, vmVars
  <2>2. /\ contexts = <<Zero>> /\ receipts = <<>> /\ processed_receipt_count = 0
        /\ call_stack = New /\ switches = <<>> /\ ~in_predicate
    BY <2>1 DEF TrackInv
  <2>3. /\ writer' \in WriterType(ContractId \union {Toplevel}, Place, {})
        /\ writer'.unmatched = 0 /\ writer'.open = <<Toplevel>>
    <3>1. LineOfIndex[0] \in Place
      BY IdAssumption, MapAssumption
    <3> DEFINE l == LineOfIndex[0]
    <3> HIDE DEF l
    <3>2. Start(Toplevel, l) \in WriterType(ContractId \union {Toplevel}, Place, {})
      BY <3>1 DEF Start, WriterType, l
    <3>3. Start(Toplevel, l).unmatched = 0 /\ Start(Toplevel, l).open = <<Toplevel>>
      BY DEF Start
    <3> QED
      BY <2>1, <3>2, <3>3 DEF l
  <2>4. /\ New \in Seq(Contexts) /\ New # <<>>
        /\ PredicateStack \in Seq(Contexts) /\ PredicateStack # <<>>
    BY DEF New, PredicateStack, Contexts
  <2>5. call_stack' = IF program_kind = "Predicate" THEN PredicateStack ELSE New
    BY <2>1, <2>2 DEF PredicateStack
  <2>6. call_stack' \in Seq(Contexts) /\ call_stack' # <<>>
    BY <2>4, <2>5
  <2>7. TypeOK'
    <3>1. in_predicate' \in BOOLEAN
      BY <2>1 DEF TrackInv, TypeOK
    <3> QED
      BY <2>1, <2>3, <2>6, <3>1 DEF TrackInv, TypeOK
  <2>8. Agrees(contexts)'
    <3>1. Opened(<<Toplevel>>, <<Zero>>)
      BY DEF Opened
    <3>2. Rebuilt(New, <<Zero>>)
      BY DEF Rebuilt, New
    <3>3. [to |-> Zero, depth |-> 1] = [to |-> Top(New).contract_id, depth |-> Len(New)]
      BY DEF New, Top
    <3>4. contexts' = <<Zero>> /\ switches' = <<>> /\ program_kind' = program_kind
          /\ writer'.open = <<Toplevel>>
      BY <2>1, <2>2, <2>3
    <3>5. Opened(writer'.open, contexts')
      BY <3>1, <3>4, Zenon
    <3>6. CASE program_kind = "Predicate"
      BY <2>5, <3>4, <3>5, <3>6 DEF Agrees
    <3>7. CASE program_kind # "Predicate"
      <4>1. call_stack' = New /\ ChainEnd' = [to |-> Zero, depth |-> 1]
        BY <2>5, <3>4, <3>7 DEF ChainEnd
      <4>2. Rebuilt(call_stack', contexts')
        BY <3>2, <3>4, <4>1, Zenon
      <4>3. ChainEnd' = [to |-> Top(call_stack').contract_id, depth |-> Len(call_stack')]
        BY <3>3, <4>1, Zenon
      <4> QED
        BY <3>4, <3>5, <3>7, <4>2, <4>3 DEF Agrees
    <3> QED
      BY <3>6, <3>7
  <2>9. in_predicate' <=> program_kind' = "Predicate"
    BY <2>1, <2>2
  <2>10. /\ processed_receipt_count' = Len(receipts')
         /\ contexts' = <<Zero>> /\ contexts'[1] = Zero
         /\ \A i \in 2..Len(contexts') : contexts'[i] \in ContractId
         /\ Chained'
    BY <2>1, <2>2 DEF Chained
  <2> QED
    BY <2>1, <2>3, <2>7, <2>8, <2>9, <2>10 DEF TrackInv
<1>3. CASE Breakpoint
  <2> DEFINE st == Processed.stack
             sw == switches \o Processed.switches
             w == Recorded(writer, Processed.switches)
  <2>1. /\ phase = "paused" /\ phase' = "released"
        /\ call_stack' = st /\ switches' = sw /\ writer' = w
        /\ processed_receipt_count' = Len(receipts)
        /\ shown' = LookupSource(st, index)
        /\ UNCHANGED <<program_kind, contexts, index, receipts, fuel, source_maps, in_predicate>>
    BY <1>3 DEF Breakpoint, vmVars, SeenAfter
  <2>2. CaughtUp(st, sw, w)
    BY <2>1, BreakpointFacts
  <2> HIDE DEF st, sw, w
  <2>3. LookupSource(st, index) \in Place
    <3>1. Top(st).contract_id \in Ids
      <4>1. Top(contexts) \in Ids
        BY BaseFacts, PushPop
      <4> QED
        BY <2>2, <4>1, CaughtUpTop
    <3> QED
      BY <3>1, LookupFacts DEF TrackInv
  <2>4. /\ call_stack' \in Seq(Contexts) /\ call_stack' # <<>> /\ switches' \in Seq(SwitchType)
        /\ writer' \in WriterType(ContractId \union {Toplevel}, Place, {})
        /\ writer'.unmatched = 0 /\ shown' \in Place
        /\ processed_receipt_count' \in 0..Len(receipts')
    <3>1. Len(receipts) \in 0..Len(receipts)
      BY BaseFacts
    <3> QED
      BY <2>1, <2>2, <2>3, <3>1 DEF CaughtUp, WT
  <2>5. TypeOK'
    BY <2>1, <2>4 DEF TrackInv, TypeOK
  <2>6. Chained'
    BY <2>1, <2>2 DEF CaughtUp, ChainOf, Chained
  <2>7. Agrees(contexts)'
    <3>1. /\ contexts' = contexts /\ call_stack' = st /\ switches' = sw /\ writer' = w
          /\ program_kind' = program_kind
      BY <2>1
    <3>2. ChainEnd' = EndOf(sw)
      BY <3>1 DEF ChainEnd, EndOf
    <3> QED
      BY <2>2, <3>1, <3>2 DEF CaughtUp, Agrees
  <2> QED
    BY <2>1, <2>4, <2>5, <2>6, <2>7 DEF TrackInv
<1>4. CASE Finish
  <2> DEFINE w == RegisterReturns(writer, 1)
  <2>1. /\ phase = "released" /\ phase' = "done"
        /\ writer' = FinishWriting(w)
        /\ UNCHANGED <<program_kind, contexts, index, receipts, fuel, source_maps,
                       processed_receipt_count, switches, shown>>
        /\ IF program_kind = "Predicate"
             THEN in_predicate' = FALSE /\ call_stack' = ExitedPredicate(call_stack)
             ELSE in_predicate' = in_predicate /\ call_stack' = call_stack
    BY <1>4 DEF Finish, vmVars
  <2>2. Agrees(contexts) /\ (in_predicate <=> program_kind = "Predicate")
    BY <2>1 DEF TrackInv
  <2>3. CaughtUp(call_stack, switches, writer)
    BY <2>2, BaseFacts DEF Agrees, CaughtUp
  <2>4. /\ writer' \in WriterType(ContractId \union {Toplevel}, Place, {})
        /\ writer'.unmatched = 0 /\ Len(writer'.open) = Len(contexts) - 1
    <3>1. /\ writer \in WriterType(ContractId \union {Toplevel}, Place, {})
          /\ writer.unmatched = 0 /\ 1 \in 0..Len(writer.open)
          /\ Len(writer.open) = Len(contexts)
      <4>1. Len(writer.open) = Len(contexts) /\ Len(contexts) \in Nat /\ Len(contexts) >= 1
        BY <2>2, BaseFacts DEF Agrees, Opened
      <4> QED
        BY <4>1, BaseFacts DEF WT
    <3>2. /\ w \in WriterType(ContractId \union {Toplevel}, Place, {})
          /\ Len(w.open) = Len(writer.open) - 1
          /\ w.unmatched = writer.unmatched
      BY <3>1, RegisterReturnsFacts
    <3> HIDE DEF w
    <3>3. /\ FinishWriting(w) \in WriterType(ContractId \union {Toplevel}, Place, {})
          /\ FinishWriting(w).open = w.open /\ FinishWriting(w).unmatched = w.unmatched
      BY <3>2, FinishWritingFacts
    <3> QED
      BY <2>1, <3>1, <3>2, <3>3
  <2>5. /\ call_stack' \in Seq(Contexts) /\ call_stack' # <<>>
        /\ program_kind = "Predicate" => call_stack' = New
        /\ Top(call_stack').context # "Predicate"
    <3>1. CASE program_kind = "Predicate"
      <4>1. call_stack' = Popped(PredicateStack)
        <5>1. Top(call_stack).context = "Predicate"
          BY <2>3, <3>1, CaughtUpTop
        <5>2. call_stack = PredicateStack
          BY <2>2, <3>1 DEF Agrees
        <5>3. call_stack' = ExitedPredicate(call_stack)
          BY <2>1, <3>1
        <5> QED
          BY <5>1, <5>2, <5>3 DEF ExitedPredicate
      <4>2. Popped(PredicateStack) = New
        <5> DEFINE e == [contract_id |-> Zero, context |-> "Predicate"]
        <5>1. New \in Seq(Contexts) /\ e \in Contexts
          BY DEF New, Contexts
        <5> HIDE DEF e
        <5>2. Popped(Append(New, e)) = New
          BY <5>1, PopPush
        <5> QED
          BY <5>2 DEF PredicateStack, e
      <4>3. New \in Seq(Contexts) /\ New # <<>> /\ Top(New).context = "Script"
        BY DEF New, Contexts, Top
      <4> QED
        BY <4>1, <4>2, <4>3
    <3>2. CASE program_kind # "Predicate"
      <4>1. Top(call_stack).context # "Predicate" /\ call_stack' = call_stack
        BY <2>1, <2>3, <3>2, CaughtUpTop
      <4> QED
        BY <3>2, <4>1, BaseFacts
    <3> QED
      BY <3>1, <3>2
  <2>6. ~in_predicate' /\ in_predicate' \in BOOLEAN
    <3>1. in_predicate \in BOOLEAN
      BY DEF TrackInv, TypeOK
    <3>2. CASE program_kind = "Predicate"
      BY <2>1, <3>2
    <3>3. CASE program_kind # "Predicate"
      BY <2>1, <2>2, <3>1, <3>3
    <3> QED
      BY <3>2, <3>3
  <2>7. TypeOK'
    BY <2>1, <2>4, <2>5, <2>6 DEF TrackInv, TypeOK
  <2> QED
    BY <2>1, <2>4, <2>5, <2>6, <2>7 DEF TrackInv, Chained
<1>5. CASE Done \/ UNCHANGED vars
  <2>1. UNCHANGED <<program_kind, phase, contexts, index, receipts, fuel, call_stack,
                    source_maps, processed_receipt_count, in_predicate, switches, shown, writer>>
    BY <1>5 DEF Done, vars, vmVars, trackerVars
  <2> QED
    BY <2>1 DEF TrackInv, TypeOK, Chained, Agrees, ChainEnd, OneBehind
<1> QED
  BY <1>1, <1>2, <1>3, <1>4, <1>5

LEMMA TrackInvInit == Init => TrackInv
<1> SUFFICES ASSUME Init PROVE TrackInv
  OBVIOUS
<1>1. /\ writer \in WriterType(ContractId \union {Toplevel}, Place, {})
      /\ writer.unmatched = 0
  BY DEF Init, Created, WriterType
<1>2. New \in Seq(Contexts) /\ New # <<>>
  BY DEF New, Contexts
<1>3. /\ contexts \in Seq(ContractId \union {Zero}) /\ contexts # <<>> /\ contexts[1] = Zero
      /\ receipts \in Seq(ReceiptType) /\ Len(receipts) = 0 /\ switches \in Seq(SwitchType)
      /\ \A i \in 2..Len(contexts) : contexts[i] \in ContractId
      /\ \A i \in 1..Len(switches) : FALSE
  BY DEF Init
<1>4. TypeOK
  <2>1. /\ source_maps \in [ContractId -> BOOLEAN] /\ in_predicate \in BOOLEAN
        /\ shown \in Place \union {None} /\ index \in Index
    BY DEF Init
  <2>4. /\ phase \in {"new", "paused", "released", "done"}
        /\ program_kind \in {"Script", "Predicate"}
        /\ fuel \in 0..MaxSteps
    BY StepsAssumption DEF Init
  <2>2. processed_receipt_count \in 0..Len(receipts)
    BY <1>3 DEF Init
  <2>3. call_stack \in Seq(Contexts) /\ call_stack # <<>>
    BY <1>2 DEF Init
  <2> QED
    BY <1>1, <1>3, <2>1, <2>2, <2>3, <2>4 DEF TypeOK
<1> QED
  BY <1>1, <1>3, <1>4 DEF Init, TrackInv, Chained

LEMMA TrackInvariant == Spec => []TrackInv
<1>1. TrackInv /\ [Next]_vars => TrackInv'
  BY VMStep, RecorderStep DEF Next
<1> QED
  BY <1>1, TrackInvInit, PTL DEF Spec

------------------------------------------------------------------------------
(* The theorems.                                                           *)

(* Every variable keeps its type; the call stack is never empty, whatever  *)
(* receipts come.                                                          *)
THEOREM TypeCorrect == Spec => []TypeOK
BY TrackInvariant, PTL DEF TrackInv

(* The stack the tracker rebuilds from receipts is the VM's stack of       *)
(* contexts whenever an instruction executes, at any depth.                *)
THEOREM ContextsAlwaysMatch == Spec => []ContextsMatch
<1>1. TrackInv => ContextsMatch
  <2> SUFFICES ASSUME TrackInv, phase = "released"
               PROVE  /\ Top(call_stack).contract_id = Top(contexts)
                      /\ Len(call_stack) = Base + Len(contexts) - 1
                      /\ \A i \in 2..Len(contexts) :
                           call_stack[Base + i - 1] = [contract_id |-> contexts[i], context |-> "Contract"]
    BY DEF ContextsMatch
  <2>1. CaughtUp(call_stack, switches, writer)
    BY BaseFacts DEF TrackInv, Agrees, CaughtUp
  <2>2. Top(call_stack).contract_id = Top(contexts)
    BY <2>1, CaughtUpTop
  <2>3. CASE program_kind = "Predicate"
    <3>1. call_stack = PredicateStack /\ contexts = <<Zero>> /\ Base = 2
      BY <2>1, <2>3 DEF CaughtUp, TrackInv, Base
    <3>2. Len(PredicateStack) = 2 /\ Len(<<Zero>>) = 1
      BY DEF PredicateStack, New
    <3> QED
      BY <2>2, <3>1, <3>2
  <2>4. CASE program_kind # "Predicate"
    <3>1. Rebuilt(call_stack, contexts) /\ Base = 1 /\ Len(contexts) \in Nat
      BY <2>1, <2>4, BaseFacts DEF CaughtUp, Base
    <3>2. \A i \in 2..Len(contexts) : Base + i - 1 = i
      BY <3>1
    <3> QED
      BY <2>2, <3>1, <3>2 DEF Rebuilt, Frame
  <2> QED
    BY <2>3, <2>4
<1> QED
  BY <1>1, TrackInvariant, PTL

(* The calls in the trace are the contracts being executed, and the        *)
(* switches make one chain.                                                *)
THEOREM CallsAlwaysMatchContexts == Spec => []CallsMatchContexts
<1>1. TrackInv => CallsMatchContexts
  <2> SUFFICES ASSUME TrackInv PROVE CallsMatchContexts
    OBVIOUS
  <2>1. ASSUME phase = "released" PROVE writer.open = <<Toplevel>> \o Tail(contexts)
    <3> DEFINE S == ContractId \union {Toplevel, Zero}
               t == Tail(contexts)
               n == Len(contexts)
               o == <<Toplevel>> \o t
    <3>1. contexts \in Seq(Ids) /\ contexts # <<>> /\ n \in Nat /\ n >= 1
      BY BaseFacts
    <3>2. t \in Seq(Ids) /\ Len(t) = n - 1 /\ \A i \in 1..(n - 1) : t[i] = contexts[i + 1]
      BY <3>1
    <3>3. <<Toplevel>> \in Seq({Toplevel}) /\ Len(<<Toplevel>>) = 1 /\ <<Toplevel>>[1] = Toplevel
      OBVIOUS
    <3> HIDE DEF t, S
    <3>4. t \in Seq(S) /\ <<Toplevel>> \in Seq(S) /\ writer.open \in Seq(S)
      <4>1. Ids \subseteq S /\ {Toplevel} \subseteq S /\ ContractId \union {Toplevel} \subseteq S
        BY DEF S, Ids
      <4> QED
        BY <3>2, <3>3, <4>1, BaseFacts, SeqMonotonic
    <3>5. /\ o \in Seq(S) /\ Len(o) = 1 + Len(t)
          /\ \A i \in 1..(1 + Len(t)) :
               o[i] = IF i <= 1 THEN <<Toplevel>>[i] ELSE t[i - 1]
      BY <3>3, <3>4, ConcatProperties
    <3> HIDE DEF o, n
    <3>6. Opened(writer.open, contexts)
      BY <2>1 DEF TrackInv, Agrees
    <3>7. Len(writer.open) = n /\ Len(o) = n
      BY <3>1, <3>2, <3>5, <3>6 DEF Opened, n
    <3>8. \A i \in 1..n : writer.open[i] = o[i]
      <4>1. \A i \in 1..n : i = 1 \/ (i \in 2..n /\ ~(i <= 1) /\ i - 1 \in 1..(n - 1) /\ (i - 1) + 1 = i)
        BY <3>1
      <4>2. o[1] = Toplevel
        BY <3>1, <3>2, <3>3, <3>5
      <4>3. \A i \in 2..n : o[i] = t[i - 1]
        BY <3>1, <3>2, <3>5
      <4>4. \A i \in 2..n : t[i - 1] = contexts[i]
        BY <3>1, <3>2
      <4>5. writer.open[1] = Toplevel /\ \A i \in 2..n : writer.open[i] = contexts[i]
        BY <3>6 DEF Opened, n
      <4> QED
        BY <4>1, <4>2, <4>3, <4>4, <4>5
    <3>9. writer.open = o
      BY <3>4, <3>5, <3>7, <3>8, SeqEqual
    <3> QED
      BY <3>9 DEF o, t
  <2> QED
    BY <2>1 DEF TrackInv, CallsMatchContexts
<1> QED
  BY <1>1, TrackInvariant, PTL

(* The tracker reports a predicate exactly while one runs, and is back in  *)
(* the script's context after it.                                          *)
THEOREM PredicateContextAlwaysRestored == Spec => []PredicateContextRestored
<1>1. TrackInv => PredicateContextRestored
  <2> SUFFICES ASSUME TrackInv PROVE PredicateContextRestored
    OBVIOUS
  <2>1. phase = "released" => (IsPredicate <=> program_kind = "Predicate")
    <3> SUFFICES ASSUME phase = "released" PROVE IsPredicate <=> program_kind = "Predicate"
      OBVIOUS
    <3>1. CaughtUp(call_stack, switches, writer) /\ (in_predicate <=> program_kind = "Predicate")
      BY BaseFacts DEF TrackInv, Agrees, CaughtUp
    <3>2. Top(call_stack).context = "Predicate" <=> program_kind = "Predicate"
      BY <3>1, CaughtUpTop
    <3> QED
      BY <3>1, <3>2 DEF IsPredicate
  <2>2. phase = "done" => ~IsPredicate /\ (program_kind = "Predicate" => call_stack = New)
    BY DEF TrackInv, IsPredicate
  <2> QED
    BY <2>1, <2>2 DEF PredicateContextRestored
<1> QED
  BY <1>1, TrackInvariant, PTL

(* The source shown for an instruction is the running contract's, or a     *)
(* default, never another contract's, for any source maps.                 *)
THEOREM ShownIsAlwaysRunningContract == Spec => []ShownIsRunningContract
<1>1. Init => ShownIsRunningContract
  BY DEF Init, ShownIsRunningContract
<1>2. TrackInv /\ ShownIsRunningContract /\ [Next]_vars => ShownIsRunningContract'
  <2> SUFFICES ASSUME TrackInv, ShownIsRunningContract, [Next]_vars, phase' = "released"
               PROVE  ShownIsRunningContract'
    BY DEF ShownIsRunningContract
  <2>1. CASE Breakpoint
    <3> DEFINE st == Processed.stack
    <3>1. /\ phase = "paused" /\ shown' = LookupSource(st, index)
          /\ UNCHANGED <<contexts, index, source_maps>>
      BY <2>1 DEF Breakpoint, vmVars
    <3>2. Top(st).contract_id = Top(contexts)
      BY <3>1, BreakpointFacts, CaughtUpTop
    <3> HIDE DEF st
    <3> QED
      BY <3>1, <3>2 DEF ShownIsRunningContract, LookupSource
  <2>2. CASE ~Breakpoint
    <3>1. UNCHANGED <<phase, contexts, index, source_maps, shown>>
      BY <2>2 DEF Next, VM, Execute, Call, Return, Running, RegisterSourceMap, Begin, Finish,
                  Done, vars, vmVars, trackerVars
    <3> QED
      BY <3>1 DEF ShownIsRunningContract
  <2> QED
    BY <2>1, <2>2
<1> QED
  BY <1>1, <1>2, TrackInvariant, PTL DEF Spec
==============================================================================
