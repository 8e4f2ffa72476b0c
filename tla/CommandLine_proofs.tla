------------------------- MODULE CommandLine_proofs -------------------------
(***************************************************************************)
(* Theorems about CommandLine, and Replay within it, for every set of      *)
(* contracts and of transactions, and every number of receipts.            *)
(*                                                                         *)
(* The argument: where the program may write is fixed by its arguments and *)
(* environment, and what it writes by what it chose; the choice, once      *)
(* made, keeps what it was made from.  The log of a replay has the         *)
(* transaction first, then the contracts in the order of their first       *)
(* input, then the dry run, and the counts follow it request by request.   *)
(***************************************************************************)
EXTENDS CommandLine, SequenceFacts_proofs

(* What has been chosen, and what it was chosen from. *)
Chosen ==
  /\ status \in {"project", "built", "chosen"} => args.abi # "bad" /\ abi # "bad"
  /\ status \in {"project", "built"} => args.bytecode = None
  /\ status = "chosen" =>
       /\ symbols.file = None =>
            args.bytecode # None /\ args.debug_symbols = None
              /\ found = [json |-> None, obj |-> None]
       /\ symbols.form = "obj" => found.json = None

(* The program writes as it ends; what it is asked not to do it has not    *)
(* begun.                                                                  *)
Writing ==
  /\ written # {} => Exited
  /\ status \in {"start", "project"} => ~build_dir
  /\ status = "start" => stage = "idle"
  /\ stage = "idle" => summary = None /\ log = <<>>
  /\ stage # "idle" => config.output_dir = ResolveOutDir
  /\ RecordingDisabled => status \in {"start", "ok"} /\ stage = "idle" /\ written = {}
  /\ \A w \in written : w.dir = ResolveOutDir

Rest == Chosen /\ Writing /\ OnlyGoodInputsRecorded /\ ListingIsLastResort

(* A replay begins at its first contract. *)
Typed ==
  /\ TypeOK
  /\ status = "start" => stage = "idle"
  /\ stage \in {"idle", "transaction"} => next = 1

CliInv == Typed /\ Rest

------------------------------------------------------------------------------
(* Types.                                                                  *)

LEMMA ResolvedFacts ==
  ASSUME args \in Args, env \in Env
  PROVE  /\ ResolveOutDir \in Dir
         /\ \/ ResolveOutDir = "flag" /\ args.out_dir = "flag"
            \/ ResolveOutDir = "env" /\ args.out_dir = None /\ env.out_dir = "env"
            \/ ResolveOutDir = "default" /\ args.out_dir = None /\ env.out_dir # "env"
BY DirAssumption, MarkAssumption DEF ResolveOutDir, Args, Env

Distinct(s) == \A i, j \in 1..Len(s) : s[i] = s[j] => i = j
Elements(s) == {s[k] : k \in 1..Len(s)}

(* A new element appended to distinct ones. *)
LEMMA AppendDistinct ==
  ASSUME NEW S, NEW s \in Seq(S), NEW e \in S, Distinct(s), e \notin Elements(s)
  PROVE  /\ Append(s, e) \in Seq(S) /\ Distinct(Append(s, e))
         /\ Elements(Append(s, e)) = Elements(s) \union {e}
<1> DEFINE t == Append(s, e)
           n == Len(s)
<1>1. /\ n \in Nat /\ t \in Seq(S) /\ Len(t) = n + 1 /\ t[n + 1] = e
      /\ \A k \in 1..n : t[k] = s[k] /\ s[k] # e
  BY DEF Elements
<1> HIDE DEF t
<1>2. Distinct(t)
  <2> SUFFICES ASSUME NEW i \in 1..(n + 1), NEW j \in 1..(n + 1), t[i] = t[j]
               PROVE  i = j
    BY <1>1 DEF Distinct
  <2>1. CASE i \in 1..n /\ j \in 1..n
    BY <1>1, <2>1 DEF Distinct
  <2>2. CASE i \notin 1..n \/ j \notin 1..n
    <3>1. \A k \in 1..(n + 1) : k \notin 1..n => k = n + 1
      BY <1>1
    <3> QED
      BY <1>1, <2>2, <3>1
  <2> QED
    BY <2>1, <2>2
<1>3. Elements(t) = Elements(s) \union {e}
  <2>1. Elements(t) = {t[k] : k \in 1..(n + 1)}
    BY <1>1 DEF Elements
  <2>2. \A k : k \in 1..(n + 1) <=> k \in 1..n \/ k = n + 1
    BY <1>1
  <2> QED
    BY <1>1, <2>1, <2>2 DEF Elements
<1> QED
  BY <1>1, <1>2, <1>3 DEF t

(* The ids of a transaction's contracts: each once, and all of them. *)
LEMMA ExtractFacts ==
  ASSUME NEW inputs \in Seq(Contract \union OtherInput)
  PROVE  /\ ExtractContractIds(inputs) \in Seq(Contract)
         /\ Distinct(ExtractContractIds(inputs))
         /\ Elements(ExtractContractIds(inputs)) = Elements(inputs) \ OtherInput
<1> DEFINE n == Len(inputs)
           first == { k \in 1..n :
                        inputs[k] \in Contract /\ \A j \in 1..(k - 1) : inputs[j] # inputs[k] }
           Is(f) == f = [k \in 0..n |->
                           IF k = 0 THEN <<>>
                           ELSE IF k \in first THEN Append(f[k - 1], inputs[k]) ELSE f[k - 1]]
<1>1. n \in Nat /\ first \subseteq 1..n /\ \A k \in first : inputs[k] \in Contract
  BY ElementFacts
<1>2. ExtractContractIds(inputs) = (CHOOSE f : Is(f))[n]
  BY DEF ExtractContractIds
<1> HIDE DEF first, n
<1>3. \E f : Is(f)
  <2> DEFINE Has(m) == \E f : f = [k \in 0..m |->
                           IF k = 0 THEN <<>>
                           ELSE IF k \in first THEN Append(f[k - 1], inputs[k]) ELSE f[k - 1]]
             A == {k \in 1..n : ~Has(k)}
  <2>2. Has(0)
    <3>1. [k \in 0..0 |-> <<>>]
            = [k \in 0..0 |->
                 IF k = 0 THEN <<>>
                 ELSE IF k \in first THEN Append([j \in 0..0 |-> <<>>][k - 1], inputs[k])
                                     ELSE [j \in 0..0 |-> <<>>][k - 1]]
      OBVIOUS
    <3> QED BY <3>1
  <2>3. ASSUME NEW m \in 1..n, Has(m - 1) PROVE Has(m)
    <3>1. PICK f : f = [k \in 0..(m - 1) |->
                          IF k = 0 THEN <<>>
                          ELSE IF k \in first THEN Append(f[k - 1], inputs[k]) ELSE f[k - 1]]
      BY <2>3
    <3> DEFINE last == IF m \in first THEN Append(f[m - 1], inputs[m]) ELSE f[m - 1]
               g == [k \in 0..m |-> IF k < m THEN f[k] ELSE last]
    <3>2. \A k \in 0..m : g[k] = IF k < m THEN f[k] ELSE last
      OBVIOUS
    <3>3. \A k \in 0..(m - 1) :
            f[k] = IF k = 0 THEN <<>>
                   ELSE IF k \in first THEN Append(f[k - 1], inputs[k]) ELSE f[k - 1]
      BY <3>1
    <3>4. ASSUME NEW k \in 0..m
          PROVE  g[k] = IF k = 0 THEN <<>>
                        ELSE IF k \in first THEN Append(g[k - 1], inputs[k]) ELSE g[k - 1]
      <4> HIDE DEF g, last
      <4>0. m \in Nat /\ m >= 1
        BY <1>1
      <4>1. CASE k = 0
        BY <3>2, <3>3, <4>0, <4>1
      <4>2. CASE k # 0 /\ k < m
        <5>1. k - 1 \in 0..m /\ k - 1 < m /\ k \in 0..(m - 1)
          BY <4>0, <4>2
        <5>2. g[k - 1] = f[k - 1] /\ g[k] = f[k]
          BY <3>2, <4>2, <5>1
        <5> QED
          BY <3>3, <4>2, <5>1, <5>2
      <4>3. CASE k = m
        <5>1. k - 1 \in 0..m /\ k - 1 < m /\ ~(k < m) /\ k # 0
          BY <4>0, <4>3
        <5>2. g[k - 1] = f[k - 1] /\ g[k] = last
          BY <3>2, <5>1
        <5> QED
          BY <4>3, <5>1, <5>2 DEF last
      <4> QED
        BY <4>0, <4>1, <4>2, <4>3
    <3>5. g = [k \in 0..m |-> g[k]]
      OBVIOUS
    <3> HIDE DEF g
    <3>6. g = [k \in 0..m |->
                 IF k = 0 THEN <<>>
                 ELSE IF k \in first THEN Append(g[k - 1], inputs[k]) ELSE g[k - 1]]
      BY <3>4, <3>5
    <3> QED
      BY <3>6
  <2> HIDE DEF Has
  <2>4. A = {}
    <3> SUFFICES ASSUME A # {} PROVE FALSE
      OBVIOUS
    <3>1. PICK m \in A : \A k \in A : m <= k
      <4> A \subseteq 1..n
        OBVIOUS
      <4> HIDE DEF A
      <4> QED BY <1>1, SmallestExists
    <3>2. m \in 1..n /\ ~Has(m) /\ m - 1 \notin A
      BY <1>1, <3>1
    <3>3. m - 1 = 0 \/ m - 1 \in 1..n
      BY <1>1, <3>2
    <3>4. Has(m - 1)
      BY <2>2, <3>2, <3>3
    <3> QED
      BY <2>3, <3>2, <3>4
  <2>5. Has(n)
    <3>1. n = 0 \/ n \in 1..n
      BY <1>1
    <3> QED
      BY <2>2, <2>4, <3>1
  <2> QED
    BY <2>5 DEF Has
<1> DEFINE f == CHOOSE f : Is(f)
<1>4. Is(f)
  <2> HIDE DEF Is
  <2> QED BY <1>3
<1> HIDE DEF f
<1> DEFINE Upto(k) == {inputs[j] : j \in {i \in first : i <= k}}
           Good(k) == f[k] \in Seq(Contract) /\ Distinct(f[k]) /\ Elements(f[k]) = Upto(k)
           B == {k \in 1..n : ~Good(k)}
<1>5. Good(0)
  <2>1. f[0] = <<>> /\ Len(<<>>) = 0 /\ <<>> \in Seq(Contract)
    BY <1>1, <1>4
  <2>2. Upto(0) = {}
    BY <1>1
  <2> QED
    BY <2>1, <2>2 DEF Distinct, Elements
<1>6. \A k \in 1..n : f[k] = IF k \in first THEN Append(f[k - 1], inputs[k]) ELSE f[k - 1]
  <2>1. \A k \in 1..n : k \in 0..n /\ k # 0
    BY <1>1
  <2> QED
    BY <1>4, <2>1
<1>7. ASSUME NEW k \in 1..n, Good(k - 1) PROVE Good(k)
  <2>1. CASE k \in first
    <3>1. inputs[k] \in Contract /\ inputs[k] \notin Upto(k - 1)
      <4>1. \A i \in first : i <= k - 1 => inputs[i] # inputs[k]
        <5>1. \A i \in first : i <= k - 1 => i \in 1..(k - 1)
          BY <1>1
        <5> QED
          BY <2>1, <5>1 DEF first
      <4> QED
        BY <1>1, <2>1, <4>1
    <3>2. Upto(k) = Upto(k - 1) \union {inputs[k]}
      <4>1. \A i \in first : i <= k <=> i <= k - 1 \/ i = k
        BY <1>1
      <4> QED
        BY <2>1, <4>1
    <3>3. f[k] = Append(f[k - 1], inputs[k])
      BY <1>6, <2>1
    <3>4. f[k - 1] \in Seq(Contract) /\ Distinct(f[k - 1]) /\ Elements(f[k - 1]) = Upto(k - 1)
      BY <1>7
    <3> DEFINE e == inputs[k]
               s == f[k - 1]
               U == Upto(k - 1)
    <3>5. s \in Seq(Contract) /\ Distinct(s) /\ e \in Contract /\ e \notin Elements(s)
      BY <3>1, <3>4
    <3> HIDE DEF e, s, U
    <3>6. /\ Append(s, e) \in Seq(Contract) /\ Distinct(Append(s, e))
          /\ Elements(Append(s, e)) = Elements(s) \union {e}
      BY <3>5, AppendDistinct
    <3>7. f[k] = Append(s, e) /\ Upto(k) = U \union {e} /\ Elements(s) = U
      BY <3>2, <3>3, <3>4 DEF s, e, U
    <3> HIDE DEF Upto
    <3> QED
      BY <3>6, <3>7
  <2>2. CASE k \notin first
    <3>1. f[k] = f[k - 1]
      BY <1>6, <2>2
    <3>2. \A i \in first : i <= k <=> i <= k - 1
      BY <1>1, <2>2
    <3>3. Upto(k) = Upto(k - 1)
      BY <3>2
    <3> HIDE DEF Upto
    <3> QED
      BY <1>7, <3>1, <3>3
  <2> QED
    BY <2>1, <2>2
<1> HIDE DEF Is, Good
<1>8. B = {}
  <2> SUFFICES ASSUME B # {} PROVE FALSE
    OBVIOUS
  <2>1. PICK k \in B : \A i \in B : k <= i
    <3> B \subseteq 1..n
      OBVIOUS
    <3> HIDE DEF B
    <3> QED BY <1>1, SmallestExists
  <2>2. k \in 1..n /\ ~Good(k) /\ k - 1 \notin B
    BY <1>1, <2>1
  <2>3. k - 1 = 0 \/ k - 1 \in 1..n
    BY <1>1, <2>2
  <2>4. Good(k - 1)
    BY <1>5, <2>2, <2>3
  <2> QED
    BY <1>7, <2>2, <2>4
<1>9. Good(n)
  <2>1. n = 0 \/ n \in 1..n
    BY <1>1
  <2> QED
    BY <1>5, <1>8, <2>1
<1>10. Upto(n) = Elements(inputs) \ OtherInput
  <2>1. ASSUME NEW j \in 1..n, inputs[j] \in Contract
        PROVE  \E i \in first : inputs[i] = inputs[j]
    <3> DEFINE Same == {i \in 1..n : inputs[i] = inputs[j]}
    <3>1. PICK i \in Same : \A l \in Same : i <= l
      <4> Same \subseteq 1..n /\ Same # {}
        BY <2>1
      <4> HIDE DEF Same
      <4> QED BY <1>1, SmallestExists
    <3>2. \A l \in 1..(i - 1) : l \in 1..n /\ ~(i <= l)
      BY <1>1, <3>1
    <3>3. \A l \in 1..(i - 1) : inputs[l] # inputs[i]
      BY <3>1, <3>2
    <3> QED
      BY <2>1, <3>1, <3>3 DEF first
  <2>2. Upto(n) = {inputs[j] : j \in first}
    <3>1. \A i \in first : i <= n
      BY <1>1
    <3> QED BY <3>1
  <2>3. \A j \in 1..n : inputs[j] \in Contract <=> inputs[j] \notin OtherInput
    <3>1. \A j \in 1..n : inputs[j] \in Contract \union OtherInput
      BY ElementFacts DEF n
    <3> QED
      BY <3>1, DistinctAssumption
  <2>4. Elements(inputs) = {inputs[j] : j \in 1..n}
    BY DEF Elements, n
  <2> QED
    BY <1>1, <2>1, <2>2, <2>3, <2>4
<1> HIDE DEF Upto
<1> QED
  BY <1>2, <1>9, <1>10 DEF Good, f

LEMMA AnswerFacts ==
  /\ \A a \in TransactionAnswer :
       /\ a.content \in {None, EmptyTransaction} \union Transaction
       /\ a.content.inputs \in Seq(Contract \union OtherInput)
  /\ \A a \in DryRunAnswer : a.content \in 0..MaxReceipts
<1>1. ASSUME NEW a \in TransactionAnswer
      PROVE  /\ a.content \in {None, EmptyTransaction} \union Transaction
             /\ a.content.inputs \in Seq(Contract \union OtherInput)
  <2>1. a.content \in Transaction \/ a.content = EmptyTransaction
    BY DEF TransactionAnswer, Answers
  <2>2. CASE a.content \in Transaction
    BY <2>2, InputAssumption DEF Transaction
  <2>3. CASE a.content = EmptyTransaction
    <3>0. EmptyTransaction.inputs = <<>>
      BY DEF EmptyTransaction
    <3>1. a.content.inputs = <<>>
      BY <2>3, <3>0, Zenon
    <3>2. <<>> \in Seq(Contract \union OtherInput)
      OBVIOUS
    <3> QED
      BY <2>3, <3>1, <3>2
  <2> QED
    BY <2>1, <2>2, <2>3
<1>2. ASSUME NEW a \in DryRunAnswer
      PROVE  a.content \in 0..MaxReceipts
  BY DistinctAssumption DEF DryRunAnswer, Answers
<1> QED
  BY <1>1, <1>2

LEMMA ReplayTyped ==
  ASSUME Typed, ReplayNext
  PROVE  /\ ReplayTypeOK'
         /\ stage' \in {"idle", "transaction"} => next' = 1
<1> USE DEF Typed, TypeOK, ReplayTypeOK, Ended
<1>1. CASE FetchTransaction
  <2>1. PICK a \in TransactionAnswer :
          IF a.status = "failed"
            THEN stage' = "failed" /\ UNCHANGED <<tx_data, contract_ids>>
            ELSE /\ stage' = "bytecode" /\ tx_data' = a.content
                 /\ contract_ids' = ExtractContractIds(a.content.inputs)
    BY <1>1 DEF FetchTransaction
  <2>2. /\ stage = "transaction" /\ next = 1
        /\ UNCHANGED <<config, next, contracts, source_info, dry_run_result>>
    BY <1>1 DEF FetchTransaction
  <2>3. contract_ids' \in Seq(Contract)
    BY <2>1, AnswerFacts, ExtractFacts
  <2>4. tx_data' \in {None, EmptyTransaction} \union Transaction
    BY <2>1, AnswerFacts
  <2>5. next' \in 1..(Len(contract_ids') + 1)
    <3>1. Len(contract_ids') \in Nat
      BY <2>3
    <3> QED
      BY <2>2, <3>1
  <2>6. stage' \in {"failed", "bytecode"}
    BY <2>1
  <2> HIDE DEF TypeOK
  <2> QED
    BY <2>2, <2>3, <2>4, <2>5, <2>6 DEF TypeOK
<1>2. CASE FetchBytecode
  <2>1. /\ stage = "bytecode" /\ next <= Len(contract_ids) /\ next' = next + 1
        /\ contracts' \in {contracts, Append(contracts, contract_ids[next])}
        /\ UNCHANGED <<config, stage, tx_data, contract_ids, source_info, dry_run_result>>
    BY <1>2 DEF FetchBytecode
  <2>2. contract_ids[next] \in Contract /\ next' \in 1..(Len(contract_ids) + 1)
    BY <2>1
  <2>3. contracts' \in Seq(Contract)
    <3>1. contracts \in Seq(Contract)
      OBVIOUS
    <3>2. Append(contracts, contract_ids[next]) \in Seq(Contract)
      BY <2>2, <3>1
    <3> QED
      BY <2>1, <3>1, <3>2
  <2> QED
    BY <2>1, <2>2, <2>3
<1>3. CASE FindSourceMaps
  BY <1>3 DEF FindSourceMaps
<1>4. CASE DryRun
  <2>1. /\ stage' = "write" /\ dry_run_result' \in {None} \union (0..MaxReceipts)
    BY <1>4, AnswerFacts DEF DryRun
  <2>2. UNCHANGED <<config, next, tx_data, contract_ids, contracts, source_info>>
    BY <1>4 DEF DryRun
  <2>3. /\ stage' \in {"idle", "transaction", "bytecode", "dry_run", "write"} \union Ended
        /\ stage' \notin {"idle", "transaction"}
    BY <2>1
  <2>4. /\ config' \in Config /\ tx_data' \in {None, EmptyTransaction} \union Transaction
        /\ contract_ids' \in Seq(Contract) /\ next' \in 1..(Len(contract_ids') + 1)
        /\ contracts' \in Seq(Contract) /\ source_info' \in Seq(Contract)
    BY <2>2
  <2> HIDE DEF Typed, TypeOK, Ended
  <2> QED
    BY <2>1, <2>3, <2>4
<1>5. CASE Write
  BY <1>5 DEF Write
<1> QED
  BY <1>1, <1>2, <1>3, <1>4, <1>5 DEF ReplayNext

LEMMA WroteType ==
  ASSUME TypeOK, NEW what \in {"listing", "listing_trace", "source_trace"}
  PROVE  Wrote(what) \subseteq [dir : Dir, what : {"listing", "listing_trace", "source_trace"}]
<1>1. ResolveOutDir \in Dir
  BY ResolvedFacts DEF TypeOK
<1> QED
  BY <1>1 DEF Wrote, TypeOK

(* The symbols found beside the bytecode. *)
LEMMA DiscoverType ==
  ASSUME NEW beside \in [json : File, obj : File]
  PROVE  /\ Discover(beside) \in [file : File, form : {"given", "json", "obj"}]
         /\ Discover(beside).file = None => beside = [json |-> None, obj |-> None]
         /\ Discover(beside).form = "obj" => beside.json = None
BY DEF Discover

LEMMA TypedStep == Typed /\ [Next]_vars => Typed'
<1> SUFFICES ASSUME Typed, [Next]_vars PROVE Typed'
  OBVIOUS
<1>a. /\ config \in Config /\ args \in Args /\ env \in Env /\ abi \in File
      /\ args.abi \in File /\ args.debug_symbols \in File
      /\ None \in File /\ "good" \in File
      /\ next = 1 \/ stage \notin {"idle", "transaction"}
  BY DEF Typed, TypeOK, ReplayTypeOK, Args, File
<1>b. ASSUME UNCHANGED replayVars PROVE /\ ReplayTypeOK'
                                        /\ stage' \in {"idle", "transaction"} => next' = 1
  BY <1>b DEF Typed, TypeOK, ReplayTypeOK, replayVars
<1>1. CASE Disabled \/ Version
  <2>1. UNCHANGED <<args, env, abi, found, symbols, written, replayVars>>
        /\ status' = "ok" /\ build_dir' = FALSE
    BY <1>1 DEF Disabled, Version, Exit
  <2> QED
    BY <1>b, <2>1 DEF Typed, TypeOK
<1>2. CASE RecordBegins
  <2>1. UNCHANGED <<args, env, written, replayVars>>
    BY <1>2 DEF RecordBegins
  <2>2. /\ status' \in {"error", "project", "chosen"} /\ abi' \in File
        /\ build_dir' \in BOOLEAN
        /\ found' \in [json : File, obj : File]
        /\ symbols' \in [file : File, form : {"given", "json", "obj"}]
    <3>1. CASE args.abi = "bad"
      BY <1>2, <1>a, <3>1 DEF RecordBegins, Exit, Typed, TypeOK
    <3>2. CASE args.abi # "bad" /\ args.bytecode = None
      BY <1>2, <1>a, <3>2 DEF RecordBegins, Typed, TypeOK
    <3>3. CASE args.abi # "bad" /\ args.bytecode # None
      <4>1. /\ status' = "chosen" /\ abi' = args.abi /\ build_dir' = build_dir
            /\ found' \in [json : File, obj : File]
            /\ symbols' = IF args.debug_symbols # None
                          THEN [file |-> args.debug_symbols, form |-> "given"]
                          ELSE Discover(found')
        BY <1>2, <3>3 DEF RecordBegins
      <4>2. symbols' \in [file : File, form : {"given", "json", "obj"}]
        BY <1>a, <4>1, DiscoverType
      <4> QED
        BY <1>a, <4>1, <4>2 DEF Typed, TypeOK
    <3> QED
      BY <3>1, <3>2, <3>3
  <2> QED
    BY <1>b, <2>1, <2>2 DEF Typed, TypeOK
<1>3. CASE BuildProject
  <2>1. /\ UNCHANGED <<args, env, abi, found, symbols, written, replayVars>>
        /\ status' \in {"error", "built"} /\ build_dir' \in BOOLEAN
    BY <1>3 DEF BuildProject, Exit
  <2> QED
    BY <1>b, <2>1 DEF Typed, TypeOK
<1>4. CASE TakeArtefacts
  <2>1. UNCHANGED <<args, env, written, replayVars>>
    BY <1>4 DEF TakeArtefacts
  <2>2. /\ status' \in {"error", "chosen"} /\ abi' \in File
        /\ build_dir' \in BOOLEAN
        /\ found' \in [json : File, obj : File]
        /\ symbols' \in [file : File, form : {"given", "json", "obj"}]
    <3>1. CASE Exit("error") /\ UNCHANGED <<abi, found, symbols>>
      BY <1>a, <3>1 DEF Exit, Typed, TypeOK
    <3>2. CASE /\ found' \in [json : File, obj : File]
               /\ symbols' = Discover(found')
               /\ \E forc_abi \in {None, "good"} :
                    /\ abi' = IF abi # None THEN abi ELSE forc_abi
                    /\ status' = "chosen" /\ UNCHANGED build_dir
      <4>1. symbols' \in [file : File, form : {"given", "json", "obj"}]
        BY <3>2, DiscoverType
      <4> QED
        BY <1>a, <3>2, <4>1 DEF Typed, TypeOK
    <3> QED
      BY <1>4, <3>1, <3>2 DEF TakeArtefacts
  <2> QED
    BY <1>b, <2>1, <2>2 DEF Typed, TypeOK
<1>5. CASE RecordBytecode
  <2>1. /\ UNCHANGED <<args, env, abi, found, symbols, replayVars>>
        /\ status' \in {"error", "ok"} /\ build_dir' = FALSE
        /\ written' \in {written, Wrote("source_trace"), Wrote("listing"),
                         Wrote("listing") \union Wrote("listing_trace")}
    BY <1>5 DEF RecordBytecode, Exit
  <2>2. written' \subseteq [dir : Dir, what : {"listing", "listing_trace", "source_trace"}]
    <3>1. TypeOK
      BY DEF Typed
    <3>2. \A what \in {"listing", "listing_trace", "source_trace"} :
            Wrote(what) \subseteq [dir : Dir, what : {"listing", "listing_trace", "source_trace"}]
      BY <3>1, WroteType
    <3>3. written \subseteq [dir : Dir, what : {"listing", "listing_trace", "source_trace"}]
      BY <3>1 DEF TypeOK
    <3> QED
      BY <2>1, <3>2, <3>3
  <2> QED
    BY <1>b, <2>1, <2>2 DEF Typed, TypeOK
<1>6. CASE RunReplay
  <2>1. /\ status = "start" /\ status' = "replaying" /\ stage' = "transaction"
        /\ config' = [config EXCEPT !.output_dir = ResolveOutDir]
        /\ UNCHANGED <<args, env, abi, found, symbols, build_dir, written, tx_data,
                       contract_ids, next, contracts, source_info, dry_run_result>>
    BY <1>6 DEF RunReplay
  <2>2. config' \in Config
    BY <1>a, <2>1, ResolvedFacts DEF Config
  <2>3. /\ tx_data' \in {None, EmptyTransaction} \union Transaction
        /\ contract_ids' \in Seq(Contract) /\ next' \in 1..(Len(contract_ids') + 1)
        /\ contracts' \in Seq(Contract) /\ source_info' \in Seq(Contract)
        /\ dry_run_result' \in {None} \union (0..MaxReceipts)
    BY <2>1 DEF Typed, TypeOK, ReplayTypeOK
  <2>4. ReplayTypeOK'
    BY <2>1, <2>2, <2>3 DEF ReplayTypeOK
  <2>5. next' = 1
    BY <2>1 DEF Typed
  <2> QED
    BY <2>1, <2>4, <2>5 DEF Typed, TypeOK
<1>7. CASE ReplayStep
  <2>1. UNCHANGED cliVars /\ ReplayNext
    BY <1>7 DEF ReplayStep
  <2>2. status' # "start"
    <3>1. stage # "idle"
      BY <2>1 DEF ReplayNext, FetchTransaction, FetchBytecode, FindSourceMaps, DryRun, Write
    <3> QED
      BY <2>1, <3>1 DEF cliVars, Typed
  <2>3. ReplayTypeOK' /\ (stage' \in {"idle", "transaction"} => next' = 1)
    BY <2>1, ReplayTyped
  <2> QED
    BY <2>1, <2>2, <2>3 DEF Typed, TypeOK, cliVars
<1>8. CASE ReplayReturns
  <2>1. /\ UNCHANGED <<args, env, abi, found, symbols, written, replayVars>>
        /\ status' \in {"error", "ok"} /\ build_dir' = FALSE
    BY <1>8 DEF ReplayReturns, Exit
  <2> QED
    BY <1>b, <2>1 DEF Typed, TypeOK
<1>9. CASE Done \/ UNCHANGED vars
  <2>1. UNCHANGED cliVars /\ UNCHANGED replayVars
    BY <1>9 DEF Done, vars
  <2> QED
    BY <1>b, <2>1 DEF Typed, TypeOK, cliVars, replayVars
<1> QED
  BY <1>1, <1>2, <1>3, <1>4, <1>5, <1>6, <1>7, <1>8, <1>9 DEF Next

LEMMA TypedInit == Init => Typed
<1> SUFFICES ASSUME Init PROVE Typed
  OBVIOUS
<1>1. ReplayTypeOK
  <2>1. <<>> \in Seq(Contract) /\ Len(<<>>) = 0
    OBVIOUS
  <2> QED
    BY <2>1 DEF Init, ReplayInit, ReplayTypeOK
<1>2. /\ abi \in File /\ found \in [json : File, obj : File]
      /\ symbols \in [file : File, form : {"given", "json", "obj"}]
  BY DEF Init, File
<1> QED
  BY <1>1, <1>2 DEF Init, ReplayInit, Typed, TypeOK

(* Every variable keeps its type, whatever the node answers and however    *)
(* many contracts and receipts there are.                                  *)
THEOREM TypeCorrect == Spec => []TypeOK
<1>1. Typed => TypeOK
  BY DEF Typed
<1> QED
  BY <1>1, TypedInit, TypedStep, PTL DEF Spec

------------------------------------------------------------------------------
(* What is written, where and from what.                                   *)

(* A step of the replay begins and ends after it was started, and where it *)
(* writes does not change.                                                 *)
LEMMA ReplayKeeps ==
  ASSUME ReplayNext
  PROVE  stage # "idle" /\ stage' # "idle" /\ config' = config
<1>1. CASE FetchTransaction
  BY <1>1 DEF FetchTransaction
<1>2. CASE FetchBytecode
  BY <1>2 DEF FetchBytecode
<1>3. CASE FindSourceMaps
  BY <1>3 DEF FindSourceMaps
<1>4. CASE DryRun
  BY <1>4 DEF DryRun
<1>5. CASE Write
  BY <1>5 DEF Write
<1> QED
  BY <1>1, <1>2, <1>3, <1>4, <1>5 DEF ReplayNext

LEMMA CliInit == Init => CliInv
<1> SUFFICES ASSUME Init PROVE CliInv
  OBVIOUS
<1>1. Typed
  BY TypedInit
<1>2. Chosen /\ Writing
  BY DEF Init, ReplayInit, Chosen, Writing, Exited
<1>3. OnlyGoodInputsRecorded /\ ListingIsLastResort
  BY DEF Init, OnlyGoodInputsRecorded, ListingIsLastResort, Exited
<1> QED
  BY <1>1, <1>2, <1>3 DEF CliInv, Rest

(* The resolution of the directory depends on the arguments only. *)
LEMMA SameOutDir ==
  ASSUME UNCHANGED <<args, env>>
  PROVE  /\ ResolveOutDir' = ResolveOutDir
         /\ RecordingDisabled' = RecordingDisabled
BY DEF ResolveOutDir, RecordingDisabled

LEMMA RestUnchanged ==
  ASSUME Rest, UNCHANGED cliVars,
         UNCHANGED <<stage, config, summary, log>> \/ ReplayNext
  PROVE  Rest'
<1>1. UNCHANGED <<args, env, status, abi, found, symbols, build_dir, written>>
  BY DEF cliVars
<1>2. Chosen' /\ OnlyGoodInputsRecorded' /\ ListingIsLastResort'
  BY <1>1 DEF Rest, Chosen, OnlyGoodInputsRecorded, ListingIsLastResort, Exited
<1>3. Writing'
  <2>1. CASE UNCHANGED <<stage, config, summary, log>>
    BY <1>1, <2>1, SameOutDir DEF Rest, Writing, Exited
  <2>2. CASE ReplayNext
    <3>1. stage # "idle" /\ stage' # "idle" /\ config' = config
      BY <2>2, ReplayKeeps
    <3> QED
      BY <1>1, <3>1, SameOutDir DEF Rest, Writing, Exited
  <2> QED
    BY <2>1, <2>2
<1> QED
  BY <1>2, <1>3 DEF Rest

(* A step that writes nothing, and leaves the replay alone. *)
LEMMA RestQuiet ==
  ASSUME Rest, UNCHANGED <<args, env, written, replayVars>>,
         status \notin {"ok", "error"}, status' # "start", Chosen',
         RecordingDisabled => status' = "ok",
         status' = "project" => ~build_dir',
         status' \in {"ok", "error"} => ~build_dir'
  PROVE  Rest'
<1>1. UNCHANGED <<args, env, written, stage, config, summary, log>>
  BY DEF replayVars
<1>2. written = {}
  BY DEF Rest, Writing, Exited
<1>3. OnlyGoodInputsRecorded' /\ ListingIsLastResort'
  BY <1>1, <1>2 DEF OnlyGoodInputsRecorded, ListingIsLastResort, Exited
<1>4. Writing'
  BY <1>1, <1>2, SameOutDir DEF Rest, Writing, Exited
<1> QED
  BY <1>3, <1>4 DEF Rest

LEMMA RestStep ==
  ASSUME Typed, Rest, [Next]_vars
  PROVE  Rest'
<1>a. /\ args.abi \in File /\ args.bytecode \in File /\ args.debug_symbols \in File
      /\ None # "bad" /\ None # "good"
  BY MarkAssumption DEF Typed, TypeOK, Args
<1>1. CASE Disabled \/ Version
  <2>1. /\ UNCHANGED <<args, env, written, replayVars>>
        /\ status = "start" /\ status' = "ok" /\ ~build_dir'
    BY <1>1 DEF Disabled, Version, Exit
  <2>2. Chosen'
    BY <2>1 DEF Chosen
  <2> QED
    BY <2>1, <2>2, RestQuiet
<1>2. CASE RecordBegins
  <2>1. /\ UNCHANGED <<args, env, written, replayVars>>
        /\ status = "start" /\ ~RecordingDisabled /\ ~build_dir
    BY <1>2 DEF RecordBegins, Rest, Writing
  <2>2. CASE args.abi = "bad"
    <3>1. status' = "error" /\ ~build_dir'
      BY <1>2, <2>2 DEF RecordBegins, Exit
    <3>2. Chosen'
      BY <3>1 DEF Chosen
    <3> QED
      BY <2>1, <3>1, <3>2, RestQuiet
  <2>3. CASE args.abi # "bad" /\ args.bytecode = None
    <3>1. status' = "project" /\ abi' = args.abi /\ build_dir' = build_dir
      BY <1>2, <2>3 DEF RecordBegins
    <3>2. Chosen'
      BY <2>1, <2>3, <3>1 DEF Chosen
    <3> QED
      BY <2>1, <3>1, <3>2, RestQuiet
  <2>4. CASE args.abi # "bad" /\ args.bytecode # None
    <3>1. /\ status' = "chosen" /\ abi' = args.abi /\ build_dir' = build_dir
          /\ found' \in [json : File, obj : File]
          /\ symbols' = IF args.debug_symbols # None
                        THEN [file |-> args.debug_symbols, form |-> "given"]
                        ELSE Discover(found')
      BY <1>2, <2>4 DEF RecordBegins
    <3>2. /\ symbols'.file = None =>
               args.debug_symbols = None /\ found' = [json |-> None, obj |-> None]
          /\ symbols'.form = "obj" => found'.json = None
      <4>1. CASE args.debug_symbols # None
        BY <3>1, <4>1
      <4>2. CASE args.debug_symbols = None
        <5>1. symbols' = Discover(found')
          BY <3>1, <4>2
        <5> QED
          BY <3>1, <4>2, <5>1, DiscoverType
      <4> QED
        BY <4>1, <4>2
    <3>3. Chosen'
      BY <2>1, <2>4, <3>1, <3>2 DEF Chosen
    <3> QED
      BY <2>1, <3>1, <3>3, RestQuiet
  <2> QED
    BY <2>2, <2>3, <2>4
<1>3. CASE BuildProject
  <2>1. /\ UNCHANGED <<args, env, abi, found, symbols, written, replayVars>>
        /\ status = "project" /\ status' \in {"error", "built"}
        /\ status' = "error" => ~build_dir'
    BY <1>3 DEF BuildProject, Exit
  <2>2. Chosen'
    BY <2>1 DEF Rest, Chosen
  <2>3. ~RecordingDisabled
    BY <2>1 DEF Rest, Writing
  <2> QED
    BY <2>1, <2>2, <2>3, RestQuiet
<1>4. CASE TakeArtefacts
  <2>1. /\ UNCHANGED <<args, env, written, replayVars>> /\ status = "built"
    BY <1>4 DEF TakeArtefacts
  <2>2. ~RecordingDisabled
    BY <2>1 DEF Rest, Writing
  <2>3. CASE Exit("error")
    <3>1. Chosen'
      BY <2>3 DEF Exit, Chosen
    <3> QED
      BY <2>1, <2>2, <2>3, <3>1, RestQuiet DEF Exit
  <2>4. CASE /\ found' \in [json : File, obj : File]
             /\ Discover(found').file # None /\ symbols' = Discover(found')
             /\ \E forc_abi \in {None, "good"} :
                  /\ abi' = IF abi # None THEN abi ELSE forc_abi
                  /\ status' = "chosen" /\ UNCHANGED build_dir
    <3>1. /\ symbols'.file # None
          /\ symbols'.form = "obj" => found'.json = None
      BY <2>4, DiscoverType
    <3>2. abi' # "bad" /\ status' = "chosen"
      BY <1>a, <2>1, <2>4 DEF Rest, Chosen
    <3>3. Chosen'
      BY <2>1, <3>1, <3>2 DEF Rest, Chosen
    <3> QED
      BY <2>1, <2>2, <3>2, <3>3, RestQuiet
  <2> QED
    BY <1>4, <2>3, <2>4 DEF TakeArtefacts
<1>5. CASE RecordBytecode
  <2>1. /\ UNCHANGED <<args, env, abi, found, symbols, replayVars>>
        /\ status = "chosen" /\ status' \in {"error", "ok"} /\ build_dir' = FALSE
    BY <1>5 DEF RecordBytecode, Exit
  <2>2. UNCHANGED <<stage, config, summary, log>>
    BY <2>1 DEF replayVars
  <2>3. /\ ~RecordingDisabled /\ written = {}
        /\ args.abi # "bad" /\ abi # "bad"
    BY <2>1 DEF Rest, Writing, Chosen, Exited
  <2>4. Chosen'
    BY <2>1 DEF Chosen
  <2>5. /\ \A w \in written' : w.dir = ResolveOutDir
        /\ written' # {} => "bad" \notin {args.bytecode, symbols.file}
        /\ \A w \in written' : w.what # "source_trace" => symbols.file = None
    <3>1. \/ written' = {}
          \/ /\ args.bytecode # "bad" /\ symbols.file = "good"
             /\ written' = {[dir |-> ResolveOutDir, what |-> "source_trace"]}
          \/ /\ args.bytecode # "bad" /\ symbols.file = None
             /\ written' \subseteq {[dir |-> ResolveOutDir, what |-> "listing"],
                                    [dir |-> ResolveOutDir, what |-> "listing_trace"]}
      BY <1>5, <2>3 DEF RecordBytecode, Wrote
    <3> QED
      BY <1>a, <3>1
  <2>6. Writing'
    BY <2>1, <2>2, <2>3, <2>5, SameOutDir DEF Rest, Writing, Exited
  <2>7. OnlyGoodInputsRecorded'
    BY <2>1, <2>3, <2>5 DEF OnlyGoodInputsRecorded
  <2>8. ListingIsLastResort'
    BY <2>1, <2>5 DEF Rest, Chosen, ListingIsLastResort
  <2> QED
    BY <2>4, <2>6, <2>7, <2>8 DEF Rest
<1>6. CASE RunReplay
  <2>1. /\ status = "start" /\ status' = "replaying" /\ stage' = "transaction"
        /\ config' = [config EXCEPT !.output_dir = ResolveOutDir] /\ ~RecordingDisabled
        /\ UNCHANGED <<args, env, abi, found, symbols, build_dir, written>>
    BY <1>6 DEF RunReplay
  <2>2. config'.output_dir = ResolveOutDir
    BY <2>1 DEF Typed, TypeOK, ReplayTypeOK, Config
  <2>3. written = {}
    BY <2>1 DEF Rest, Writing, Exited
  <2>4. Writing'
    BY <2>1, <2>2, <2>3, SameOutDir DEF Rest, Writing, Exited
  <2>5. Chosen' /\ OnlyGoodInputsRecorded' /\ ListingIsLastResort'
    BY <2>1, <2>3 DEF Chosen, OnlyGoodInputsRecorded, ListingIsLastResort, Exited
  <2> QED
    BY <2>4, <2>5 DEF Rest
<1>7. CASE ReplayStep
  BY <1>7, RestUnchanged DEF ReplayStep
<1>8. CASE ReplayReturns
  <2>1. /\ UNCHANGED <<args, env, written, replayVars>>
        /\ status = "replaying" /\ status' \in {"error", "ok"} /\ ~build_dir'
    BY <1>8 DEF ReplayReturns, Exit
  <2>2. Chosen'
    BY <2>1 DEF Chosen
  <2>3. ~RecordingDisabled
    BY <2>1 DEF Rest, Writing
  <2> QED
    BY <2>1, <2>2, <2>3, RestQuiet
<1>9. CASE Done \/ UNCHANGED vars
  <2>1. UNCHANGED cliVars /\ UNCHANGED <<stage, config, summary, log>>
    BY <1>9 DEF Done, vars, replayVars
  <2> QED
    BY <2>1, RestUnchanged
<1> QED
  BY <1>1, <1>2, <1>3, <1>4, <1>5, <1>6, <1>7, <1>8, <1>9 DEF Next

LEMMA CliStep == CliInv /\ [Next]_vars => CliInv'
BY TypedStep, RestStep DEF CliInv

LEMMA CliAlways == Spec => []CliInv
BY CliInit, CliStep, PTL DEF Spec

(* Whatever the node answers and whatever fails, every file is written in  *)
(* the one directory the arguments and the environment name, and a         *)
(* disabled recorder leaves the disk and the node alone.                   *)
THEOREM OnlyOutDirAlwaysTouched == Spec => []OnlyOutDirTouched
<1>1. ASSUME CliInv PROVE OnlyOutDirTouched
  <2> USE <1>1
  <2>1. args \in Args /\ env \in Env
    BY DEF CliInv, Typed, TypeOK
  <2>2. \A dir \in Touched : dir = ResolveOutDir
    BY DEF CliInv, Rest, Writing, Touched
  <2>3. \A dir \in Touched :
          \/ dir = "flag" /\ args.out_dir = "flag"
          \/ dir = "env" /\ args.out_dir = None /\ env.out_dir = "env"
          \/ dir = "default" /\ args.out_dir = None /\ env.out_dir # "env"
    BY <2>1, <2>2, ResolvedFacts
  <2>4. RecordingDisabled => Touched = {} /\ log = <<>> /\ ~build_dir
    BY DEF CliInv, Rest, Writing, Touched, OnlyGoodInputsRecorded, Exited
  <2> QED
    BY <2>3, <2>4 DEF OnlyOutDirTouched, RecordingDisabled
<1> QED
  BY <1>1, CliAlways, PTL

(* Whatever fails on the way, nothing is recorded from an input that is    *)
(* bad and no build directory is left behind.                              *)
THEOREM OnlyGoodInputsAlwaysRecorded == Spec => []OnlyGoodInputsRecorded
<1>1. CliInv => OnlyGoodInputsRecorded
  BY DEF CliInv, Rest
<1> QED
  BY <1>1, CliAlways, PTL

(* Whichever way the inputs were found, a listing is only written where    *)
(* there are no symbols at all.                                            *)
THEOREM ListingIsAlwaysLastResort == Spec => []ListingIsLastResort
<1>1. CliInv => ListingIsLastResort
  BY DEF CliInv, Rest
<1> QED
  BY <1>1, CliAlways, PTL

------------------------------------------------------------------------------
(* What the node was asked and answered.                                   *)

Request == [ request : {"transaction", "bytecode", "dry_run"},
             about : {None, "", "tx"} \union Contract,
             answer : TransactionAnswer \union BytecodeAnswer \union DryRunAnswer ]

Asked == {"bytecode", "dry_run", "write", "disk_failed", "done"}

Receipts == IF dry_run_result = None THEN 0 ELSE dry_run_result

(* The contracts before the next have been asked for, and those whose code *)
(* was sent are kept.                                                      *)
CodeAsked ==
  /\ \A k \in 2..next : log[k].request = "bytecode" /\ log[k].about = contract_ids[k - 1]
  /\ Len(contracts) = Cardinality({k \in 2..next : log[k].answer.status # "failed"})

(* At most one dry run has been asked for, after everything else.          *)
RunAsked ==
  \/ Len(log) = next /\ dry_run_result = None
  \/ /\ stage \in {"write", "disk_failed", "done"}
     /\ Len(log) = next + 1
     /\ log[next + 1].request = "dry_run" /\ log[next + 1].answer.content = Receipts

(* The log, stage by stage.                                                *)
Answered ==
  /\ stage \in {"idle", "transaction"} =>
       log = <<>> /\ contracts = <<>> /\ dry_run_result = None
  /\ stage = "failed" => log[1].answer.status = "failed"
  /\ stage \in Asked =>
       /\ tx_data \in {EmptyTransaction} \union Transaction
       /\ log[1].request = "transaction" /\ log[1].answer.content = tx_data
       /\ contract_ids = ExtractContractIds(tx_data.inputs)
       /\ stage # "bytecode" => next = Len(contract_ids) + 1
       /\ CodeAsked
       /\ RunAsked
  /\ summary # None => stage = "done" /\ summary = Summary

AnswerInv == Typed /\ log \in Seq(Request) /\ Answered

LEMMA SendFacts ==
  ASSUME log \in Seq(Request), NEW e \in Request, log' = Append(log, e)
  PROVE  /\ log' \in Seq(Request) /\ Len(log) \in Nat /\ Len(log') = Len(log) + 1
         /\ log'[Len(log) + 1] = e
         /\ \A k \in 1..Len(log) : log'[k] = log[k]
<1> HIDE DEF Request
<1> QED OBVIOUS

LEMMA TransactionFacts ==
  ASSUME NEW a \in TransactionAnswer
  PROVE  /\ a.content \in {EmptyTransaction} \union Transaction
         /\ a.status = "failed" \/ a.status \in {"ok", "null"}
         /\ [request |-> "transaction", about |-> None, answer |-> a] \in Request
<1>1. a.content \in {EmptyTransaction} \union Transaction /\ a.status \in {"ok", "failed", "null"}
  BY DEF TransactionAnswer, Answers
<1>2. [request |-> "transaction", about |-> None, answer |-> a] \in Request
  <2> HIDE DEF TransactionAnswer
  <2> QED BY DEF Request
<1> QED
  BY <1>1, <1>2

(* One more position counted, or not. *)
LEMMA CountFacts ==
  ASSUME NEW n \in Nat, n >= 1, NEW A, A \subseteq 2..n, NEW B, B \subseteq 2..(n + 1),
         \A k \in 2..n : k \in A <=> k \in B
  PROVE  /\ Cardinality(A) \in Nat
         /\ Cardinality(B) = Cardinality(A) + (IF n + 1 \in B THEN 1 ELSE 0)
<1>1. IsFiniteSet(A) /\ n + 1 \notin A /\ Cardinality(A) \in Nat
  <2>1. IsFiniteSet(2..n)
    BY FS_Interval
  <2>2. n + 1 \notin A
    OBVIOUS
  <2> QED
    BY <2>1, <2>2, FS_Subset, FS_CardinalityType
<1>2. \A k : k \in 2..(n + 1) <=> k \in 2..n \/ k = n + 1
  OBVIOUS
<1>3. CASE n + 1 \in B
  <2>1. B = A \union {n + 1}
    BY <1>2, <1>3
  <2>2. Cardinality(A \union {n + 1}) = Cardinality(A) + 1
    BY <1>1, FS_AddElement
  <2> QED
    BY <1>1, <1>3, <2>1, <2>2
<1>4. CASE n + 1 \notin B
  <2>1. B = A
    BY <1>2, <1>4
  <2> QED
    BY <1>1, <1>4, <2>1
<1> QED
  BY <1>1, <1>3, <1>4

LEMMA FetchTransactionAnswered ==
  ASSUME AnswerInv, FetchTransaction
  PROVE  log' \in Seq(Request) /\ Answered'
<1>1. PICK a \in TransactionAnswer :
        /\ log' = Sent("transaction", None, a)
        /\ IF a.status = "failed"
             THEN stage' = "failed" /\ UNCHANGED <<tx_data, contract_ids>>
             ELSE /\ stage' = "bytecode"
                  /\ tx_data' = a.content
                  /\ contract_ids' = ExtractContractIds(tx_data'.inputs)
  BY DEF FetchTransaction
<1>2. /\ stage = "transaction" /\ next = 1 /\ log = <<>> /\ contracts = <<>>
      /\ dry_run_result = None /\ summary = None /\ log \in Seq(Request)
      /\ UNCHANGED <<next, contracts, dry_run_result, summary>>
  BY DEF FetchTransaction, AnswerInv, Answered, Typed
<1> DEFINE e == [request |-> "transaction", about |-> None, answer |-> a]
<1>3. log' = Append(log, e) /\ e \in Request
  BY <1>1, TransactionFacts DEF Sent
<1>4. e.request = "transaction" /\ e.answer = a
  OBVIOUS
<1> HIDE DEF e
<1>5. Len(log) = 0
  BY <1>2
<1>6. log' \in Seq(Request) /\ Len(log') = 1 /\ log'[1] = e
  BY <1>2, <1>3, <1>5, SendFacts
<1>7. CASE a.status = "failed"
  BY <1>1, <1>2, <1>4, <1>6, <1>7 DEF Answered, Asked
<1>8. CASE a.status # "failed"
  <2>1. /\ stage' = "bytecode" /\ tx_data' = a.content
        /\ contract_ids' = ExtractContractIds(tx_data'.inputs)
    BY <1>1, <1>8
  <2>2. tx_data' \in {EmptyTransaction} \union Transaction
    BY <2>1, TransactionFacts
  <2>3. 2..next' = {}
    BY <1>2
  <2>4. CodeAsked'
    <3>1. {k \in 2..next' : log'[k].answer.status # "failed"} = {}
      BY <2>3
    <3>2. Len(contracts') = 0 /\ Cardinality({}) = 0
      BY <1>2, FS_EmptySet
    <3> QED
      BY <2>3, <3>1, <3>2 DEF CodeAsked
  <2>5. RunAsked'
    BY <1>2, <1>6 DEF RunAsked
  <2> QED
    BY <1>2, <1>4, <1>6, <2>1, <2>2, <2>4, <2>5 DEF Answered, Asked
<1> QED
  BY <1>6, <1>7, <1>8

LEMMA FetchBytecodeAnswered ==
  ASSUME AnswerInv, FetchBytecode
  PROVE  log' \in Seq(Request) /\ Answered'
<1>1. PICK a \in BytecodeAnswer :
        /\ log' = Sent("bytecode", contract_ids[next], a)
        /\ contracts' = IF a.status = "failed" THEN contracts
                        ELSE Append(contracts, contract_ids[next])
  BY DEF FetchBytecode
<1>2. /\ stage = "bytecode" /\ next <= Len(contract_ids) /\ next' = next + 1
      /\ UNCHANGED <<stage, tx_data, contract_ids, dry_run_result, summary>>
  BY DEF FetchBytecode
<1>3. /\ contract_ids \in Seq(Contract) /\ next \in 1..(Len(contract_ids) + 1)
      /\ contracts \in Seq(Contract) /\ log \in Seq(Request)
  BY DEF AnswerInv, Typed, TypeOK, ReplayTypeOK
<1>4. /\ tx_data \in {EmptyTransaction} \union Transaction
      /\ log[1].request = "transaction" /\ log[1].answer.content = tx_data
      /\ contract_ids = ExtractContractIds(tx_data.inputs)
      /\ CodeAsked
      /\ Len(log) = next /\ dry_run_result = None /\ summary = None
  BY <1>2 DEF AnswerInv, Answered, Asked, RunAsked
<1>5. next \in Nat /\ next >= 1 /\ contract_ids[next] \in Contract
  BY <1>2, <1>3
<1> DEFINE e == [request |-> "bytecode", about |-> contract_ids[next], answer |-> a]
<1>6. log' = Append(log, e) /\ e \in Request
  <2> HIDE DEF BytecodeAnswer
  <2> QED
    BY <1>1, <1>5 DEF Sent, Request
<1>7. e.request = "bytecode" /\ e.about = contract_ids[next] /\ e.answer = a
  OBVIOUS
<1> HIDE DEF e
<1>8. /\ log' \in Seq(Request) /\ Len(log') = next + 1 /\ log'[next + 1] = e
      /\ \A k \in 1..next : log'[k] = log[k]
  BY <1>3, <1>4, <1>6, SendFacts
<1>9. \A k \in 2..next : k \in 1..next
  BY <1>5
<1>10. CodeAsked'
  <2>1. ASSUME NEW k \in 2..(next + 1)
        PROVE  log'[k].request = "bytecode" /\ log'[k].about = contract_ids[k - 1]
    <3>1. CASE k \in 2..next
      BY <1>4, <1>8, <1>9, <3>1 DEF CodeAsked
    <3>2. CASE k = next + 1
      BY <1>5, <1>7, <1>8, <3>2
    <3> QED
      BY <1>5, <3>1, <3>2
  <2> DEFINE A == {k \in 2..next : log[k].answer.status # "failed"}
             B == {k \in 2..(next + 1) : log'[k].answer.status # "failed"}
  <2>2. /\ A \subseteq 2..next /\ B \subseteq 2..(next + 1)
        /\ \A k \in 2..next : k \in A <=> k \in B
    <3>1. \A k \in 2..next : k \in 2..(next + 1) /\ log'[k] = log[k]
      BY <1>5, <1>8, <1>9
    <3> QED
      BY <3>1
  <2>3. next + 1 \in B <=> a.status # "failed"
    <3>1. next + 1 \in 2..(next + 1)
      BY <1>5
    <3> QED
      BY <1>7, <1>8, <3>1
  <2>4. Len(contracts) = Cardinality(A)
    BY <1>4 DEF CodeAsked
  <2> HIDE DEF A, B
  <2>5. Cardinality(B) = Cardinality(A) + (IF next + 1 \in B THEN 1 ELSE 0)
    BY <1>5, <2>2, CountFacts
  <2>6. Len(contracts') = Len(contracts) + (IF a.status # "failed" THEN 1 ELSE 0)
    BY <1>1, <1>3, <1>5
  <2>7. Len(contracts') = Cardinality(B)
    BY <2>3, <2>4, <2>5, <2>6
  <2> QED
    BY <1>2, <2>1, <2>7 DEF CodeAsked, B
<1>11. RunAsked'
  BY <1>2, <1>4, <1>8 DEF RunAsked
<1>12. 1 \in 1..next
  BY <1>5
<1>13. log'[1].request = "transaction" /\ log'[1].answer.content = tx_data
  BY <1>4, <1>8, <1>12
<1> QED
  BY <1>2, <1>4, <1>8, <1>10, <1>11, <1>13 DEF Answered, Asked

LEMMA FindSourceMapsAnswered ==
  ASSUME AnswerInv, FindSourceMaps
  PROVE  log' \in Seq(Request) /\ Answered'
<1>1. /\ stage = "bytecode" /\ next > Len(contract_ids) /\ stage' = "dry_run"
      /\ UNCHANGED <<tx_data, contract_ids, next, contracts, dry_run_result, summary, log>>
  BY DEF FindSourceMaps
<1>2. contract_ids \in Seq(Contract) /\ next \in 1..(Len(contract_ids) + 1) /\ log \in Seq(Request)
  BY DEF AnswerInv, Typed, TypeOK, ReplayTypeOK
<1>3. next = Len(contract_ids) + 1
  BY <1>1, <1>2
<1>4. CodeAsked' /\ RunAsked'
  <2>1. CodeAsked /\ RunAsked
    BY <1>1 DEF AnswerInv, Answered, Asked
  <2> QED
    BY <1>1, <2>1 DEF CodeAsked, RunAsked
<1>5. summary = None
  BY <1>1 DEF AnswerInv, Answered
<1>6. /\ tx_data \in {EmptyTransaction} \union Transaction
      /\ log[1].request = "transaction" /\ log[1].answer.content = tx_data
      /\ contract_ids = ExtractContractIds(tx_data.inputs)
  BY <1>1 DEF AnswerInv, Answered, Asked
<1> QED
  BY <1>1, <1>2, <1>3, <1>4, <1>5, <1>6 DEF Answered, Asked

LEMMA DryRunAnswered ==
  ASSUME AnswerInv, DryRun
  PROVE  log' \in Seq(Request) /\ Answered'
<1>1. /\ stage = "dry_run" /\ stage' = "write"
      /\ UNCHANGED <<tx_data, contract_ids, next, contracts, summary>>
  BY DEF DryRun
<1>2. /\ contract_ids \in Seq(Contract) /\ next \in 1..(Len(contract_ids) + 1)
      /\ log \in Seq(Request)
  BY DEF AnswerInv, Typed, TypeOK, ReplayTypeOK
<1>3. /\ tx_data \in {EmptyTransaction} \union Transaction
      /\ log[1].request = "transaction" /\ log[1].answer.content = tx_data
      /\ contract_ids = ExtractContractIds(tx_data.inputs) /\ next = Len(contract_ids) + 1
      /\ CodeAsked
      /\ Len(log) = next /\ dry_run_result = None /\ summary = None
  BY <1>1 DEF AnswerInv, Answered, Asked, RunAsked
<1>4. next \in Nat /\ next >= 1 /\ 1 \in 1..next /\ \A k \in 2..next : k \in 1..next
  BY <1>2
<1>5. CASE UNCHANGED <<dry_run_result, log>>
  <2>1. CodeAsked' /\ RunAsked'
    BY <1>1, <1>3, <1>5 DEF CodeAsked, RunAsked
  <2> QED
    BY <1>1, <1>2, <1>3, <1>5, <2>1 DEF Answered, Asked
<1>6. CASE \E a \in DryRunAnswer :
             /\ log' = Sent("dry_run", tx_data.id, a)
             /\ dry_run_result' = IF a.status = "failed" THEN None ELSE a.content
  <2>1. PICK a \in DryRunAnswer :
             /\ log' = Sent("dry_run", tx_data.id, a)
             /\ dry_run_result' = IF a.status = "failed" THEN None ELSE a.content
    BY <1>6
  <2> DEFINE e == [request |-> "dry_run", about |-> tx_data.id, answer |-> a]
  <2>2. tx_data.id \in {"", "tx"}
    <3>1. EmptyTransaction.id = "" /\ \A t \in Transaction : t.id = "tx"
      BY DEF EmptyTransaction, Transaction
    <3> QED
      BY <1>3, <3>1
  <2>3. log' = Append(log, e) /\ e \in Request
    <3> HIDE DEF DryRunAnswer
    <3> QED
      BY <2>1, <2>2 DEF Sent, Request
  <2>4. e.request = "dry_run" /\ e.answer = a
    OBVIOUS
  <2> HIDE DEF e
  <2>5. /\ log' \in Seq(Request) /\ Len(log') = next + 1 /\ log'[next + 1] = e
        /\ \A k \in 1..next : log'[k] = log[k]
    BY <1>2, <1>3, <2>3, SendFacts
  <2>6. a.content \in Nat /\ (a.status = "failed" => a.content = 0)
    BY DistinctAssumption DEF DryRunAnswer, Answers
  <2>7. a.content = Receipts'
    BY <2>1, <2>6, DistinctAssumption DEF Receipts
  <2>8. RunAsked'
    BY <1>1, <2>4, <2>5, <2>7 DEF RunAsked
  <2>9. CodeAsked'
    <3>1. \A k \in 2..next : log'[k] = log[k]
      BY <1>4, <2>5
    <3>2. {k \in 2..next : log'[k].answer.status # "failed"}
            = {k \in 2..next : log[k].answer.status # "failed"}
      BY <3>1
    <3> QED
      BY <1>1, <1>3, <3>1, <3>2 DEF CodeAsked
  <2>10. log'[1].request = "transaction" /\ log'[1].answer.content = tx_data
    BY <1>3, <1>4, <2>5
  <2> QED
    BY <1>1, <1>3, <2>5, <2>8, <2>9, <2>10 DEF Answered, Asked
<1> QED
  BY <1>5, <1>6 DEF DryRun

LEMMA WriteAnswered ==
  ASSUME AnswerInv, Write
  PROVE  log' \in Seq(Request) /\ Answered'
<1>1. /\ stage = "write" /\ stage' \in {"done", "disk_failed"}
      /\ stage' = "done" => summary' = Summary
      /\ stage' = "disk_failed" => summary' = summary
      /\ UNCHANGED <<config, tx_data, contract_ids, next, contracts, source_info,
                     dry_run_result, log>>
  BY DEF Write
<1>2. /\ tx_data \in {EmptyTransaction} \union Transaction
      /\ log[1].request = "transaction" /\ log[1].answer.content = tx_data
      /\ contract_ids = ExtractContractIds(tx_data.inputs) /\ next = Len(contract_ids) + 1
      /\ CodeAsked /\ RunAsked /\ summary = None /\ log \in Seq(Request)
  BY <1>1 DEF AnswerInv, Answered, Asked
<1>3. CodeAsked' /\ RunAsked'
  BY <1>1, <1>2 DEF CodeAsked, RunAsked, Receipts
<1>4. Summary' = Summary
  BY <1>1 DEF Summary
<1>5. summary' # None => stage' = "done" /\ summary' = Summary'
  BY <1>1, <1>2, <1>4
<1> QED
  BY <1>1, <1>2, <1>3, <1>5 DEF Answered, Asked

LEMMA AnswerStep == AnswerInv /\ [Next]_vars => AnswerInv'
<1> SUFFICES ASSUME AnswerInv, [Next]_vars PROVE AnswerInv'
  OBVIOUS
<1>1. Typed'
  BY TypedStep DEF AnswerInv
<1>2. CASE ReplayStep
  <2>1. ReplayNext
    BY <1>2 DEF ReplayStep
  <2>2. log' \in Seq(Request) /\ Answered'
    BY <2>1, FetchTransactionAnswered, FetchBytecodeAnswered, FindSourceMapsAnswered,
       DryRunAnswered, WriteAnswered DEF ReplayNext
  <2> QED
    BY <1>1, <2>2 DEF AnswerInv
<1>3. CASE RunReplay
  <2>1. /\ stage = "idle" /\ stage' = "transaction"
        /\ UNCHANGED <<contracts, dry_run_result, summary, log>>
    BY <1>3 DEF RunReplay, AnswerInv, Typed
  <2>2. log = <<>> /\ contracts = <<>> /\ dry_run_result = None /\ summary = None
    BY <2>1 DEF AnswerInv, Answered
  <2> QED
    BY <1>1, <2>1, <2>2 DEF AnswerInv, Answered, Asked
<1>4. CASE UNCHANGED replayVars
  <2>1. UNCHANGED <<config, stage, tx_data, contract_ids, next, contracts, source_info,
                    dry_run_result, summary, log>>
    BY <1>4 DEF replayVars
  <2>2. (CodeAsked <=> CodeAsked') /\ (RunAsked <=> RunAsked') /\ Summary' = Summary
    BY <2>1 DEF CodeAsked, RunAsked, Receipts, Summary
  <2>3. Answered'
    BY <2>1, <2>2 DEF AnswerInv, Answered
  <2> QED
    BY <1>1, <2>1, <2>3 DEF AnswerInv
<1> QED
  BY <1>2, <1>3, <1>4 DEF Next, vars, Disabled, Version, RecordBegins, BuildProject,
     TakeArtefacts, RecordBytecode, ReplayReturns, Done

LEMMA AnswerInit == Init => AnswerInv
<1> SUFFICES ASSUME Init PROVE AnswerInv
  OBVIOUS
<1>1. <<>> \in Seq(Request)
  OBVIOUS
<1> QED
  BY <1>1, TypedInit DEF Init, ReplayInit, AnswerInv, Answered, Asked

LEMMA AnswerAlways == Spec => []AnswerInv
BY AnswerInit, AnswerStep, PTL DEF Spec

(* The contracts of a transaction are those of its inputs. *)
LEMMA IdsFacts ==
  ASSUME tx_data \in {EmptyTransaction} \union Transaction
  PROVE  /\ ExtractContractIds(tx_data.inputs) \in Seq(Contract)
         /\ Distinct(ExtractContractIds(tx_data.inputs))
         /\ Elements(ExtractContractIds(tx_data.inputs)) = Elements(tx_data.inputs) \ OtherInput
<1>1. tx_data.inputs \in Seq(Contract \union OtherInput)
  <2>1. CASE tx_data = EmptyTransaction
    <3>1. EmptyTransaction.inputs = <<>>
      BY DEF EmptyTransaction
    <3>2. <<>> \in Seq(Contract \union OtherInput)
      OBVIOUS
    <3> QED
      BY <2>1, <3>1, <3>2, Zenon
  <2>2. CASE tx_data \in Transaction
    BY <2>2, InputAssumption DEF Transaction
  <2> QED
    BY <2>1, <2>2
<1> QED
  BY <1>1, ExtractFacts

(* Whichever requests fail, and whatever contracts and receipts there are, *)
(* each contract of the transaction was asked for once, and the summary    *)
(* counts the requests that did not fail and the receipts of the dry run.  *)
THEOREM SummaryAlwaysMatchesAnswers == Spec => []SummaryMatchesAnswers
<1>1. ASSUME AnswerInv PROVE SummaryMatchesAnswers
  <2> USE <1>1
  <2>1. SUFFICES ASSUME summary # None
        PROVE  LET inputs == log[1].answer.content.inputs
                   ids == summary.contract_ids
               IN  /\ Requests("bytecode") = 2..(Len(ids) + 1)
                   /\ \A k \in 1..Len(ids) : log[k + 1].about = ids[k]
                   /\ \A i, j \in 1..Len(ids) : ids[i] = ids[j] => i = j
                   /\ {ids[k] : k \in 1..Len(ids)} = {inputs[k] : k \in 1..Len(inputs)} \ OtherInput
                   /\ summary.contracts_with_bytecode
                        = Cardinality({k \in Requests("bytecode") : log[k].answer.status # "failed"})
                   /\ \A k \in Requests("dry_run") :
                        k = Len(log) /\ summary.dry_run_receipts = log[k].answer.content
                   /\ Requests("dry_run") = {} => summary.dry_run_receipts = 0
    BY DEF AnswerInv, Answered, SummaryMatchesAnswers
  <2> DEFINE ids == summary.contract_ids
             inputs == log[1].answer.content.inputs
             n == Len(contract_ids)
  <2>2. stage = "done" /\ summary = Summary
    BY <2>1 DEF AnswerInv, Answered
  <2>3. /\ tx_data \in {EmptyTransaction} \union Transaction
        /\ log[1].request = "transaction" /\ log[1].answer.content = tx_data
        /\ contract_ids = ExtractContractIds(tx_data.inputs)
        /\ next = n + 1 /\ CodeAsked /\ RunAsked
    BY <2>2 DEF AnswerInv, Answered, Asked
  <2>4. /\ ids = contract_ids /\ summary.contracts_with_bytecode = Len(contracts)
        /\ summary.dry_run_receipts = Receipts
    BY <2>2 DEF Summary, Receipts
  <2>5. n \in Nat /\ contract_ids \in Seq(Contract) /\ inputs = tx_data.inputs
    BY <2>3 DEF AnswerInv, Typed, TypeOK, ReplayTypeOK
  <2>6. Distinct(contract_ids) /\ Elements(contract_ids) = Elements(inputs) \ OtherInput
    BY <2>3, <2>5, IdsFacts
  <2> HIDE DEF ids, inputs, n
  <2>7. \A k \in 2..(n + 1) : log[k].request = "bytecode" /\ log[k].about = contract_ids[k - 1]
    BY <2>3 DEF CodeAsked
  <2>8. \/ Len(log) = n + 1 /\ dry_run_result = None
        \/ /\ Len(log) = n + 2 /\ log[n + 2].request = "dry_run"
           /\ log[n + 2].answer.content = Receipts
    BY <2>3, <2>5 DEF RunAsked
  <2>9. Requests("bytecode") = 2..(n + 1)
    <3>1. \A k \in 1..Len(log) : k = 1 \/ k \in 2..(n + 1) \/ (k = n + 2 /\ log[k].request = "dry_run")
      BY <2>5, <2>8
    <3>2. \A k \in 2..(n + 1) : k \in 1..Len(log)
      BY <2>5, <2>8
    <3>3. \A k \in 1..Len(log) : log[k].request = "bytecode" <=> k \in 2..(n + 1)
      BY <2>3, <2>5, <2>7, <3>1
    <3> QED
      BY <3>2, <3>3 DEF Requests
  <2>10. \A k \in Requests("dry_run") : k = n + 2 /\ Len(log) = n + 2
    <3>1. \A k \in 1..Len(log) : k = 1 \/ k \in 2..(n + 1) \/ (k = n + 2 /\ Len(log) = n + 2)
      BY <2>5, <2>8
    <3> QED
      BY <2>3, <2>7, <3>1 DEF Requests
  <2>11. Requests("dry_run") = {} => Len(log) = n + 1
    <3>1. Len(log) = n + 2 => n + 2 \in 1..Len(log)
      BY <2>5
    <3> QED
      BY <2>8, <3>1 DEF Requests
  <2>12. \A k \in 1..Len(ids) : log[k + 1].about = ids[k]
    <3>1. \A k \in 1..n : k + 1 \in 2..(n + 1) /\ (k + 1) - 1 = k
      BY <2>5
    <3>2. Len(ids) = n
      BY <2>4 DEF n
    <3> QED
      BY <2>4, <2>7, <3>1, <3>2
  <2>13. summary.contracts_with_bytecode
           = Cardinality({k \in Requests("bytecode") : log[k].answer.status # "failed"})
    BY <2>3, <2>4, <2>9 DEF CodeAsked
  <2>14. /\ Len(ids) = n /\ \A i, j \in 1..Len(ids) : ids[i] = ids[j] => i = j
         /\ {ids[k] : k \in 1..Len(ids)} = {inputs[k] : k \in 1..Len(inputs)} \ OtherInput
    BY <2>4, <2>6 DEF Distinct, Elements, n
  <2>15. \A k \in Requests("dry_run") :
           k = Len(log) /\ summary.dry_run_receipts = log[k].answer.content
    <3>1. Len(log) = n + 2 => log[n + 2].answer.content = Receipts
      BY <2>5, <2>8
    <3> QED
      BY <2>4, <2>10, <3>1
  <2>16. Requests("dry_run") = {} => summary.dry_run_receipts = 0
    <3>1. Len(log) = n + 1 => dry_run_result = None
      BY <2>5, <2>8
    <3> QED
      BY <2>4, <2>11, <3>1 DEF Receipts
  <2> QED
    BY <2>9, <2>12, <2>13, <2>14, <2>15, <2>16 DEF ids, inputs
<1> QED
  BY <1>1, AnswerAlways, PTL
==============================================================================
