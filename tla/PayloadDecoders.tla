--------------------------- MODULE PayloadDecoders ---------------------------
(***************************************************************************)
(* The values FuelRecorder::record shows of a LOGD payload                 *)
(* (src/src/recorder.rs:486-527, 730-1340): the bytes, their words, and    *)
(* the value the type of main's output in the ABI decodes them to.         *)
(*                                                                         *)
(* A payload is a sequence of bytes; a byte has Base values (256 in the    *)
(* code, fewer in a run), a word is 8 bytes, big-endian, and is shown as   *)
(* the i64 of the same bits.  Lengths and tags are the code's.             *)
(***************************************************************************)
EXTENDS AbiSchema, Integers

CONSTANTS Base,      \* values of a byte
          Trim       \* str::trim of a type name

ASSUME BaseAssumption == Base \in Nat /\ Base >= 5 /\ Base % 2 = 0

Byte == 0..(Base - 1)

------------------------------------------------------------------------------
(* ValueRecords.  The type of an Int is its width.                         *)

IntValue(i, type) == [kind |-> "Int", i |-> i, type |-> type]
BoolValue(b) == [kind |-> "Bool", b |-> b]
SequenceValue(elements, is_slice) ==
  [kind |-> "Sequence", elements |-> elements, is_slice |-> is_slice]
TupleValue(elements) == [kind |-> "Tuple", elements |-> elements]
StructValue(fields) == [kind |-> "Struct", field_values |-> fields]
VariantValue(name, contents) ==
  [kind |-> "Variant", discriminator |-> name, contents |-> contents]
NoValue == [kind |-> "None"]

Slice(bytes, from, to) == SubSeq(bytes, from + 1, to)   \* bytes[from..to]

(* from_be_bytes. *)
BigEndian(bytes) ==
  LET value[n \in 0..Len(bytes)] ==
        IF n = 0 THEN 0 ELSE value[n - 1] * Base + bytes[n]
  IN  value[Len(bytes)]

Power[k \in 0..8] == IF k = 0 THEN 1 ELSE Base * Power[k - 1]

(* word as i64: the upper half of the words is negative. *)
AsI64(word) ==
  IF word < (Base \div 2) * Power[7] THEN word ELSE word - Power[8]

Word(bytes) == IntValue(AsI64(BigEndian(bytes)), "u64")

Ints(bytes) == [n \in 1..Len(bytes) |-> IntValue(bytes[n], "u64")]
View(bytes) == SequenceValue(Ints(bytes), TRUE)

(* chunks_exact(8) *)
Words(bytes) ==
  [n \in 1..(Len(bytes) \div 8) |-> Word(Slice(bytes, 8 * (n - 1), 8 * n))]

------------------------------------------------------------------------------
(* The decoders.  Each yields the one named value it registers, or none.   *)

Shown(name, value) == <<[name |-> name, value |-> value]>>
When(condition, shown) == IF condition THEN shown ELSE <<>>

TupleDecoded(p) ==
  TupleValue(<<Word(Slice(p, 0, 8)), View(Slice(p, 8, 40)), BoolValue(p[41] # 0)>>)

(* A variant with a word: the tag, then 8 bytes. *)
MutantHasWord(p) == Len(p) > 9

HasWord(p) == Len(p) >= 9
WordOf(p) == Word(Slice(p, 1, 9))

OutcomeVariant(p) ==
  IF p[1] = 0 /\ HasWord(p) THEN VariantValue("Success", WordOf(p))
  ELSE IF p[1] = 1 /\ HasWord(p) THEN VariantValue("Failure", View(Slice(p, 1, 9)))
  ELSE IF p[1] = 2 THEN VariantValue("Skipped", TupleValue(<<>>))
  ELSE VariantValue("Unknown", NoValue)

MutantOptionDecoded(p) ==
  IF p[1] = 0 THEN VariantValue("None", TupleValue(<<>>))
  ELSE IF HasWord(p) THEN VariantValue("Some", WordOf(p))
  ELSE VariantValue("None", TupleValue(<<>>))

OptionDecoded(p) ==
  IF p[1] = 0 THEN VariantValue("None", TupleValue(<<>>))
  ELSE IF p[1] = 1 /\ HasWord(p) THEN VariantValue("Some", WordOf(p))
  ELSE VariantValue("None", TupleValue(<<>>))

ResultDecoded(p) ==
  IF p[1] = 0 /\ HasWord(p) THEN VariantValue("Ok", WordOf(p))
  ELSE IF p[1] = 1 /\ Len(p) >= 2
    THEN VariantValue("Err", View(Slice(p, 1, IF Len(p) <= 9 THEN Len(p) ELSE 9)))
  ELSE VariantValue("Err", View(<<>>))

WidthsDecoded(p) ==
  TupleValue(<< IntValue(p[1], "u8"), IntValue(BigEndian(Slice(p, 1, 3)), "u16"),
           IntValue(BigEndian(Slice(p, 3, 7)), "u32"), Word(Slice(p, 7, 15)) >>)

MatchArmVariant(p) ==
  IF p[1] \in 0..2 /\ HasWord(p) THEN VariantValue(<<"Add", "Sub", "Mul">>[p[1] + 1], WordOf(p))
  ELSE IF p[1] = 3 THEN VariantValue("Noop", TupleValue(<<>>))
  ELSE VariantValue("Unknown", NoValue)

IdentityVariant(p) ==
  VariantValue(IF p[1] = 0 THEN "Address" ELSE IF p[1] = 1 THEN "ContractId" ELSE "Unknown",
          View(Slice(p, 1, 33)))

(* What every payload shows: its bytes; its words, as a struct of at least *)
(* two and as a vector.                                                    *)
RawValues(p) ==
  LET whole == Len(p) % 8 = 0
  IN  Shown("logd_payload", SequenceValue(Ints(p), FALSE))
        \o When(whole /\ Len(p) >= 16, Shown("logd_struct", StructValue(Words(p))))
        \o When(whole /\ Len(p) >= 8, Shown("vec_dynamic", SequenceValue(Words(p), FALSE)))

(* The value an output of that type decodes to; type is None without ABI,  *)
(* without main or without output.                                         *)
DecodedValue(type, p) ==
  CASE type = "(u64, b256, bool)" ->
         When(Len(p) = 41, Shown("tuple_decoded", TupleDecoded(p)))
    [] type = "enum Outcome" -> Shown("outcome_variant", OutcomeVariant(p))
    [] type = "enum Option<u64>" -> Shown("option_decoded", OptionDecoded(p))
    [] type = "enum Result<u64, str>" -> Shown("result_decoded", ResultDecoded(p))
    [] type = "[u64; 4]" ->
         When(Len(p) = 32, Shown("array_fixed", SequenceValue(Words(p), TRUE)))
    [] type = "(u8, u16, u32, u64)" ->
         When(Len(p) = 15, Shown("integer_widths_decoded", WidthsDecoded(p)))
    [] type = "enum Match" -> Shown("match_arm_variant", MatchArmVariant(p))
    [] type = "Bytes" -> Shown("bytes_decoded", View(p))
    [] type = "enum Identity" ->
         When(Len(p) >= 33, Shown("identity_variant", IdentityVariant(p)))
    [] type \in {"Address", "ContractId", "AssetId"} ->
         When(Len(p) >= 32, Shown("address_decoded", View(Slice(p, 0, 32))))
    [] type = "b256" -> When(Len(p) = 32, Shown("b256_decoded", SequenceValue(Ints(p), FALSE)))
    [] type = "configurable_payload" ->
         When(Len(p) % 8 = 0, Shown("configurable_decoded", TupleValue(Words(p))))
    [] OTHER -> <<>>

(* The type that picks the decoder: main's output, trimmed. *)
DecoderType(schema) ==
  IF schema = None THEN None
  ELSE LET type == FunctionOutputType(schema, "main")
       IN  IF type = None THEN None ELSE Trim[type]

(* The values of a step whose first log payload is p; an empty payload is  *)
(* not one.                                                                *)
PayloadValues(schema, p) ==
  IF p = <<>> THEN <<>> ELSE RawValues(p) \o DecodedValue(DecoderType(schema), p)
==============================================================================
