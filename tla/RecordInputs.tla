---------------------------- MODULE RecordInputs ----------------------------
(***************************************************************************)
(* What the record command reads before and while it records: the ABI,     *)
(* then the debug symbols (main.rs:247-261, 381-429), and, in a recording  *)
(* against the listing, the payload of every LOGD, decoded as the ABI says *)
(* (recorder.rs:486-527, 737-1340).                                        *)
(*                                                                         *)
(* The program, its build and what it logs are known to the properties     *)
(* only; the recorder sees the files and the bytes.                        *)
(***************************************************************************)
EXTENDS PayloadDecoders

CONSTANTS
  Programs,      \* sequences of functions: name, inputs, output
  Types,         \* every type a compiler lists, in order
  Builds,        \* what instructions come from, in index order
  Sources,       \* the source files: path, and path as the JSON map stores it
  Home,          \* the home directory
  Logs,          \* for each output type, the values a program of it may log
  MaxLogs        \* LOGDs executed

Symbols == INSTANCE DebugInfo

AbiFunction == [ name : STRING, inputs : Seq([name : STRING, type_name : STRING]),
                 output : STRING \union {None} ]

TypesOf(p) ==
  {p[n].output : n \in 1..Len(p)}
    \union UNION { {p[n].inputs[k].type_name : k \in 1..Len(p[n].inputs)} : n \in 1..Len(p) }

ASSUME MaxLogsAssumption == MaxLogs \in Nat

(* A program only uses types that the compiler lists; no value is None or  *)
(* Error.                                                                  *)
ASSUME ProgramsAssumption ==
  /\ Types \in Seq(STRING) /\ None \notin STRING /\ Error \notin STRING
  /\ \A n \in 1..Len(Types) :
       None \notin {Id(Types[n]), ById(Id(Types[n])), ByType(NamedType(Types[n])),
                   ByType(TypeIndex(n))}
  /\ \A p \in Programs :
       /\ p \in Seq(AbiFunction) /\ [functions |-> p] \notin {None, Error}
       /\ TypesOf(p) \ {None} \subseteq {Types[n] : n \in 1..Len(Types)}

Path == [absolute : BOOLEAN, parts : Seq(STRING)]
Place == [path : Path, line : Nat, column : Nat]

(* forc keeps the path of a dependency relative to ~/.forc and any other   *)
(* path as it is.                                                          *)
ASSUME SourcesAssumption ==
  /\ Home \in Path /\ Home.absolute /\ None \notin Path
  /\ Sources \in Seq([path : Path, stored : Path])
  /\ \A n \in 1..Len(Sources) :
       LET file == Sources[n]
       IN  /\ file.path.absolute /\ file.path.parts # <<>>
           /\ \/ file.stored = file.path
              \/ /\ ~file.stored.absolute
                 /\ file.path.parts = Append(Home.parts, ".forc") \o file.stored.parts

(* A build lists what its instructions come from, one entry for each, in   *)
(* the order of the instructions; columns count from 1.                    *)
ASSUME BuildsAssumption ==
  /\ \A b \in Builds :
       /\ b \in Seq([ index : Nat, file : 1..Len(Sources), line : Nat, column : Nat \ {0} ])
       /\ b # <<>>
       /\ \A n \in 1..Len(b) : \A m \in 1..(n - 1) : b[m].index < b[n].index
  /\ None \notin Nat
  /\ \A indices \in SUBSET UNION { {b[n].index : n \in 1..Len(b)} : b \in Builds } :
       Error \notin [indices -> Place]

VARIABLES
  phase,         \* "abi" -> "symbols" -> "source_level" or "listing"; "failed"
  home,          \* the environment: Home or None
  program, lost, \* of the ABI given: its program, what its file has lost
  abi,           \* None, the schema read, or Error
  build, form,   \* of the symbols given: the build, what became of it
  debug,         \* None, the map read, or Error
  logged,        \* LOGDs so far
  payload,       \* the payload of the last
  shown          \* the values its step shows

abiVars == <<program, lost, abi>>
symbolVars == <<build, form, debug>>
logVars == <<logged, payload, shown>>
vars == <<phase, home, abiVars, symbolVars, logVars>>

------------------------------------------------------------------------------
(* The files.  A document may have lost the type in one type's entry, or   *)
(* the name of one function.                                               *)

Nothing == [kind |-> "nothing"]
Entry(type) == [kind |-> "entry", type |-> type]
NameOf(n) == [kind |-> "name", at |-> n]

Losses(p) ==
  {Nothing} \union {Entry(type) : type \in TypesOf(p) \union {Types[1]}}
            \union {NameOf(n) : n \in 1..Len(p)}

Without(table, type) ==
  [n \in 1..Len(table) |-> IF table[n].val = type THEN [table[n] EXCEPT !.val = None]
                                                  ELSE table[n]]

Damaged(document, loss) ==
  CASE loss.kind = "nothing" -> document
    [] loss.kind = "entry" ->
         [document EXCEPT !.concreteTypes = Without(@, loss.type),
                          !.types = Without(@, loss.type)]
    [] loss.kind = "name" -> [document EXCEPT !.functions[loss.at].name = None]

Shapes == {"concrete", "named", "indexed"}

Document(p, shape) ==
  CASE shape = "concrete" -> ConcreteShape(p, Types)
    [] shape = "named" -> NamedShape(p, Types)
    [] shape = "indexed" -> IndexedShape(p, Types)

(* The symbols of a build: as JSON, as DWARF, as JSON with a key or a path *)
(* index that is none, or another file altogether.                         *)
JsonOf(b) == Symbols!ForcJson(b, Sources)

SymbolFile(b, f) ==
  CASE f = "json" -> [form |-> "json", content |-> JsonOf(b)]
    [] f = "dwarf" -> [form |-> "dwarf", content |-> Symbols!ForcRows(b, Sources)]
    [] f = "bad_key" -> [form |-> "json",
                         content |-> [JsonOf(b) EXCEPT !.map[Len(b)].key = None]]
    [] f = "bad_path" -> [form |-> "json",
                          content |-> [JsonOf(b) EXCEPT !.map[Len(b)].path = Len(Sources)]]
    [] OTHER -> [form |-> "other", content |-> <<>>]

Forms == {"json", "dwarf", "bad_key", "bad_path", "other"}

------------------------------------------------------------------------------

(* --abi, or the ABI of the build. *)
LoadAbi ==
  /\ phase = "abi"
  /\ \E p \in Programs : \E shape \in Shapes, loss \in Losses(p) :
       /\ program' = p /\ lost' = loss
       /\ abi' = FromJson(Damaged(Document(p, shape), loss))
  /\ phase' = IF abi' = Error THEN "failed" ELSE "symbols"
  /\ UNCHANGED <<home, symbolVars, logVars>>

NoAbi ==
  /\ phase = "abi"
  /\ phase' = "symbols"
  /\ UNCHANGED <<home, abiVars, symbolVars, logVars>>

LoadSymbols ==
  /\ phase = "symbols"
  /\ \E b \in Builds, f \in Forms :
       /\ build' = b /\ form' = f
       /\ debug' = Symbols!Load(SymbolFile(b, f), home)
  /\ phase' = IF debug' = Error THEN "failed" ELSE "source_level"
  /\ UNCHANGED <<home, abiVars, logVars>>

NoSymbols ==
  /\ phase = "symbols"
  /\ phase' = "listing"
  /\ UNCHANGED <<home, abiVars, symbolVars, logVars>>

------------------------------------------------------------------------------
(* What programs log.  Encoded is the wire form of a shown value: the      *)
(* inverse of the decoders, on the values a program can mean.              *)

(* to_be_bytes: rest[k] is n without its k last bytes. *)
Bytes(n, width) ==
  LET rest[k \in 0..width] == IF k = 0 THEN n ELSE rest[k - 1] \div Base
  IN  [k \in 1..width |-> rest[width - k] % Base]

WordBytes(int) == Bytes(IF int.i < 0 THEN int.i + Power[8] ELSE int.i, 8)
Viewed(view) == [n \in 1..Len(view.elements) |-> view.elements[n].i]

Concatenated(words) ==
  [n \in 1..(8 * Len(words)) |-> WordBytes(words[((n - 1) \div 8) + 1])[((n - 1) % 8) + 1]]

Contents(v) ==
  CASE v.kind = "Int" -> WordBytes(v)
    [] v.kind = "Sequence" -> Viewed(v)
    [] v.kind = "Tuple" -> <<>>

Tag == [ Success |-> 0, Failure |-> 1, Skipped |-> 2, None |-> 0, Some |-> 1,
         Ok |-> 0, Err |-> 1, Add |-> 0, Sub |-> 1, Mul |-> 2, Noop |-> 3,
         Address |-> 0, ContractId |-> 1 ]

Encoded(type, v) ==
  CASE type = "(u64, b256, bool)" ->
         WordBytes(v.elements[1]) \o Viewed(v.elements[2])
           \o <<IF v.elements[3].b THEN 1 ELSE 0>>
    [] type = "(u8, u16, u32, u64)" ->
         Bytes(v.elements[1].i, 1) \o Bytes(v.elements[2].i, 2)
           \o Bytes(v.elements[3].i, 4) \o WordBytes(v.elements[4])
    [] type \in {"[u64; 4]", "configurable_payload"} -> Concatenated(v.elements)
    [] type \in {"Bytes", "b256", "Address", "ContractId", "AssetId"} -> Viewed(v)
    [] OTHER -> <<Tag[v.discriminator]>> \o Contents(v.contents)

(* A word of the i64s, a byte view, a run of words. *)
Half == (Base \div 2) * Power[7]
IsWord(v) == v = IntValue(v.i, "u64") /\ v.i \in (-Half)..(Half - 1)
IsView(v, size) == v = View(Viewed(v)) /\ Viewed(v) \in [1..size -> Byte]
AreWords(s, size) == s = [n \in 1..size |-> s[n]] /\ \A n \in 1..size : IsWord(s[n])

IsVariant(v, name) == v = VariantValue(name, v.contents)
Unit == TupleValue(<<>>)

(* v is a value of the type: of a str, as much as its decoder keeps. *)
Meant(type, v) ==
  CASE type = "(u64, b256, bool)" ->
         /\ v = TupleValue(<<v.elements[1], v.elements[2], BoolValue(v.elements[3].b)>>)
         /\ IsWord(v.elements[1]) /\ IsView(v.elements[2], 32) /\ v.elements[3].b \in BOOLEAN
    [] type = "enum Outcome" ->
         \/ IsVariant(v, "Success") /\ IsWord(v.contents)
         \/ IsVariant(v, "Failure") /\ IsView(v.contents, 8)
         \/ v = VariantValue("Skipped", Unit)
    [] type = "enum Option<u64>" ->
         \/ IsVariant(v, "Some") /\ IsWord(v.contents)
         \/ v = VariantValue("None", Unit)
    [] type = "enum Result<u64, str>" ->
         \/ IsVariant(v, "Ok") /\ IsWord(v.contents)
         \/ IsVariant(v, "Err") /\ \E size \in 1..8 : IsView(v.contents, size)
    [] type = "[u64; 4]" ->
         v = SequenceValue(v.elements, TRUE) /\ AreWords(v.elements, 4)
    [] type = "(u8, u16, u32, u64)" ->
         /\ v = TupleValue(<< IntValue(v.elements[1].i, "u8"), IntValue(v.elements[2].i, "u16"),
                              IntValue(v.elements[3].i, "u32"), v.elements[4] >>)
         /\ v.elements[1].i \in Byte /\ v.elements[2].i \in 0..(Power[2] - 1)
         /\ v.elements[3].i \in 0..(Power[4] - 1) /\ IsWord(v.elements[4])
    [] type = "enum Match" ->
         \/ (\E name \in {"Add", "Sub", "Mul"} : IsVariant(v, name)) /\ IsWord(v.contents)
         \/ v = VariantValue("Noop", Unit)
    [] type = "Bytes" -> IsView(v, Len(v.elements)) /\ Len(v.elements) \in Nat
    [] type = "enum Identity" ->
         /\ \E name \in {"Address", "ContractId"} : IsVariant(v, name)
         /\ IsView(v.contents, 32)
    [] type \in {"Address", "ContractId", "AssetId"} -> IsView(v, 32)
    [] type = "b256" ->
         v = SequenceValue(Ints(Viewed(v)), FALSE) /\ Viewed(v) \in [1..32 -> Byte]
    [] type = "configurable_payload" ->
         /\ v = TupleValue(v.elements) /\ Len(v.elements) \in Nat
         /\ AreWords(v.elements, Len(v.elements))
    [] OTHER -> FALSE

Decodable == DOMAIN Logs

ASSUME LogsAssumption == \A type \in Decodable : \A v \in Logs[type] : Meant(type, v)

Payloads == UNION { {Encoded(type, v) : v \in Logs[type]} : type \in Decodable }

(* Every payload the logs have, cut short, followed by a byte, or with     *)
(* another first byte: what a program logs need not be its output.         *)
Variations(p) ==
  {p, Append(p, 0)} \union
    IF p = <<>> THEN {}
    ELSE {SubSeq(p, 1, n) : n \in {1, Len(p) - 1}} \union {[p EXCEPT ![1] = tag] : tag \in 0..4}

LogData ==
  /\ phase = "listing" /\ logged < MaxLogs
  /\ logged' = logged + 1
  /\ \E p \in Payloads : \E bytes \in Variations(p) :
       /\ payload' = bytes
       /\ shown' = PayloadValues(abi, bytes)
  /\ UNCHANGED <<phase, home, abiVars, symbolVars>>

Done == phase \in {"failed", "source_level", "listing"} /\ UNCHANGED vars

------------------------------------------------------------------------------

Init ==
  /\ phase = "abi" /\ home \in {None, Home}
  /\ program = <<>> /\ lost = Nothing /\ abi = None
  /\ build = <<>> /\ form = "other" /\ debug = None
  /\ logged = 0 /\ payload = <<>> /\ shown = <<>>

Next == LoadAbi \/ NoAbi \/ LoadSymbols \/ NoSymbols \/ LogData \/ Done

Spec == Init /\ [][Next]_vars

------------------------------------------------------------------------------
(* Properties.                                                             *)

(* Every variable keeps its type; a step shows the bytes first, and at     *)
(* most three values more.                                                 *)
TypeOK ==
  /\ phase \in {"abi", "symbols", "source_level", "listing", "failed"}
  /\ home \in {None, Home}
  /\ program \in Programs \union {<<>>}
  /\ lost \in Losses(program)
  /\ build \in Builds \union {<<>>} /\ form \in Forms
  /\ logged \in 0..MaxLogs /\ payload \in Seq(Byte)
  /\ Len(shown) \in 0..4
  /\ debug \notin {None, Error} => DOMAIN debug # {}
  /\ phase = "failed" <=> Error \in {abi, debug}

(* The three shapes of an ABI read as the same program: every parameter    *)
(* and output with the type the source gives it.  A document that has lost *)
(* something reads as its program or not at all (abi_decoder.rs:42-49).    *)
SchemaIsProgram ==
  /\ abi \notin {None, Error} => abi.functions = program
  /\ abi = Error => lost # Nothing
  /\ abi = Error /\ lost.kind = "entry" => lost.type \in TypesOf(program)

(* Both forms of the symbols give the build's place for an instruction,    *)
(* DWARF for all but the last, and no place for any other instruction; a   *)
(* dependency's path needs a home in the JSON form (debug_info.rs:8-23).   *)
SymbolsAreBuild ==
  phase = "source_level" =>
    LET mapped == IF form = "dwarf" THEN SubSeq(build, 1, Len(build) - 1) ELSE build
    IN  /\ DOMAIN debug = {mapped[n].index : n \in 1..Len(mapped)}
        /\ \A n \in 1..Len(mapped) :
             LET file == Sources[mapped[n].file]
                 loc == debug[mapped[n].index]
             IN  /\ loc.line = mapped[n].line /\ loc.column = mapped[n].column
                 /\ form = "dwarf" \/ home # None \/ file.stored = file.path
                      => loc.path = file.path
        /\ Symbols!First(debug).line = build[1].line

Declared == DecoderType(abi)
Decoded == SubSeq(shown, Len(shown) - Len(DecodedValue(Declared, payload)) + 1, Len(shown))

(* A value of the declared type that is logged is shown, as it was logged. *)
LoggedIsShown ==
  payload # <<>> /\ Declared \in Decodable =>
    \A v \in Logs[Declared] :
      payload = Encoded(Declared, v) => Decoded # <<>> /\ Decoded[1].value = v

(* None and an empty Err stand for what could not be decoded, Unknown for  *)
(* a tag no variant has.                                                   *)
Undecoded(v) ==
  v.kind = "Variant" /\ \/ v.discriminator \in {"Unknown", "None"}
                        \/ v.discriminator = "Err" /\ v.contents.elements = <<>>

(* Nothing is shown that was not logged: a decoded value's wire form is in *)
(* the payload, byte for byte, whatever the payload is (a bool is any byte *)
(* but 0).                                                                 *)
ShownWasLogged ==
  payload # <<>> /\ Declared \in Decodable =>
    \A n \in 1..Len(Decoded) :
      LET v == Decoded[n].value
          wire == Encoded(Declared, v)
      IN  Undecoded(v) \/
            /\ Len(wire) <= Len(payload)
            /\ \A k \in 1..Len(wire) :
                 \/ wire[k] = payload[k]
                 \/ k = 41 /\ wire[k] = 1 /\ payload[k] # 0
==============================================================================
