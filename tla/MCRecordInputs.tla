--------------------------- MODULE MCRecordInputs ---------------------------
(***************************************************************************)
(* RecordInputs on small inputs: bytes of eight values; every output type  *)
(* with a decoder, one without, a padded name and none at all; builds of   *)
(* up to three instructions in a file of the project and in a dependency.  *)
(***************************************************************************)
EXTENDS RecordInputs

MCBase == 8

Padded == " b256 "

MCTypes == << "()", "u64", Padded, "(u64, b256, bool)", "enum Outcome", "enum Option<u64>",
              "enum Result<u64, str>", "[u64; 4]", "(u8, u16, u32, u64)", "enum Match",
              "Bytes", "enum Identity", "ContractId", "b256", "configurable_payload" >>

MCOutputs == {MCTypes[n] : n \in 4..Len(MCTypes)}

MCTrim == [t \in {MCTypes[n] : n \in 1..Len(MCTypes)} |-> IF t = Padded THEN "b256" ELSE t]

Function(name, inputs, output) == [name |-> name, inputs |-> inputs, output |-> output]
Param(name, type) == [name |-> name, type_name |-> type]

MCPrograms ==
  {<<Function("main", <<Param("x", "u64")>>, type)>> :
     type \in MCOutputs \union {"u64", Padded, None}}
  \union
  {<<Function("transfer", <<Param("to", "ContractId"), Param("n", "u64")>>, "b256")>>,
   <<Function("test", <<>>, "enum Outcome"), Function("main", <<>>, "enum Match")>>}

MCSources ==
  << [path |-> [absolute |-> TRUE, parts |-> <<"project", "main.sw">>],
      stored |-> [absolute |-> TRUE, parts |-> <<"project", "main.sw">>]],
     [path |-> [absolute |-> TRUE, parts |-> <<"home", ".forc", "std", "lib.sw">>],
      stored |-> [absolute |-> FALSE, parts |-> <<"std", "lib.sw">>]] >>

MCHome == [absolute |-> TRUE, parts |-> <<"home">>]

Span == {[file |-> 1, line |-> 3, column |-> 1], [file |-> 1, line |-> 8, column |-> 5],
         [file |-> 2, line |-> 3, column |-> 1]}
Placed(i, span) == [index |-> i, file |-> span.file, line |-> span.line, column |-> span.column]

(* An instruction without a span, here 1, has no entry. *)
MCBuilds ==
  {<<Placed(i, s)>> : i \in {0, 2}, s \in Span}
  \union {<<Placed(i, s), Placed(2, t)>> : i \in {0, 1}, s, t \in Span}
  \union {<<Placed(0, s), Placed(2, t), Placed(3, u)>> : s, t, u \in Span}

Word0 == IntValue(0, "u64")
WordMax == IntValue(-1, "u64")               \* every bit set
WordOdd == IntValue(8^7 * 2 + 5, "u64")      \* tag 2 as a payload's first byte
MCWords == {Word0, WordMax, WordOdd}

Hash(first) == View([k \in 1..32 |-> IF k = 1 THEN first ELSE k % 3])
Hashes == {Hash(0), Hash(7)}
Text(n) == View([k \in 1..n |-> k % 8])

MCLogs == [t \in MCOutputs |->
  CASE t = "(u64, b256, bool)" ->
         {TupleValue(<<w, h, BoolValue(b)>>) : w \in MCWords, h \in Hashes, b \in BOOLEAN}
    [] t = "enum Outcome" ->
         {VariantValue("Success", w) : w \in MCWords}
           \union {VariantValue("Failure", Text(8)), VariantValue("Skipped", TupleValue(<<>>))}
    [] t = "enum Option<u64>" ->
         {VariantValue("Some", w) : w \in MCWords} \union {VariantValue("None", TupleValue(<<>>))}
    [] t = "enum Result<u64, str>" ->
         {VariantValue("Ok", w) : w \in MCWords}
           \union {VariantValue("Err", Text(n)) : n \in {1, 8}}
    [] t = "[u64; 4]" -> {SequenceValue(<<v, w, w, v>>, TRUE) : v, w \in MCWords}
    [] t = "(u8, u16, u32, u64)" ->
         {TupleValue(<<IntValue(a, "u8"), IntValue(b, "u16"), IntValue(c, "u32"), w>>) :
            a \in {1, 7}, b \in {0, 63}, c \in {9}, w \in MCWords}
    [] t = "enum Match" ->
         {VariantValue(name, w) : name \in {"Add", "Sub", "Mul"}, w \in MCWords}
           \union {VariantValue("Noop", TupleValue(<<>>))}
    [] t = "Bytes" -> {Text(n) : n \in {1, 8}}
    [] t = "enum Identity" ->
         {VariantValue(name, h) : name \in {"Address", "ContractId"}, h \in Hashes}
    [] t = "ContractId" -> Hashes
    [] t = "b256" -> {SequenceValue(h.elements, FALSE) : h \in Hashes}
    [] t = "configurable_payload" ->
         {TupleValue(<<w>>) : w \in MCWords} \union {TupleValue(<<v, w>>) : v, w \in MCWords}]
==============================================================================
