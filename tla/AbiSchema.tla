------------------------------ MODULE AbiSchema ------------------------------
(***************************************************************************)
(* AbiSchema (src/src/abi_decoder.rs): a Sway ABI JSON document and the    *)
(* schema from_json reads out of it.                                       *)
(*                                                                         *)
(* A document has two type tables and its functions.  A parameter or an    *)
(* output refers to its type with a JSON value: a string, or an object     *)
(* with a concreteTypeId, a type, both or neither.  A type is a name or an *)
(* index.  Names, ids and types are opaque.                                *)
(***************************************************************************)
EXTENDS Naturals, Sequences

CONSTANTS None,    \* an absent or null JSON value, the absent Option
          Error    \* the Err of a Result

ASSUME ErrorAssumption == Error # None

NamedType(name) == [tag |-> "name", val |-> name]
TypeIndex(i) == [tag |-> "index", val |-> i]
NoType == [tag |-> "none", val |-> None]

ById(id) == [str |-> id, concreteTypeId |-> None, type |-> NoType]
ByConcreteId(id) == [str |-> None, concreteTypeId |-> id, type |-> NoType]
ByType(type) == [str |-> None, concreteTypeId |-> None, type |-> type]

(* Collecting into a map: a pair without key or value is left out, a later *)
(* pair replaces an earlier one with its key.                              *)
Collected(pairs) ==
  LET complete == {n \in 1..Len(pairs) : pairs[n].key # None /\ pairs[n].val # None}
  IN  [ k \in {pairs[n].key : n \in complete} |->
          LET last == CHOOSE n \in complete :
                        pairs[n].key = k /\ \A m \in complete : m > n => pairs[m].key # k
          IN  pairs[last].val ]

Get(map, key) == IF key \in DOMAIN map THEN map[key] ELSE Error

(* An object with only a type that is no reference is taken at its word.   *)
MutantTypeName(v, concrete, indexed) ==
  IF v.str # None THEN v.str
  ELSE IF v.concreteTypeId # None THEN Get(concrete, v.concreteTypeId)
  ELSE CASE v.type.tag = "name" -> v.type.val
         [] v.type.tag = "index" -> Get(indexed, v.type.val)
         [] OTHER -> Error

(* The type a reference resolves to. *)
TypeName(v, concrete, indexed) ==
  IF v.str # None /\ v.str \in DOMAIN concrete THEN concrete[v.str]
  ELSE IF v.concreteTypeId # None THEN Get(concrete, v.concreteTypeId)
  ELSE CASE v.type.tag = "name" -> v.type.val
         [] v.type.tag = "index" -> Get(indexed, v.type.val)
         [] OTHER -> Error

Malformed(f) ==
  \/ f.name = None \/ f.output = Error
  \/ \E k \in 1..Len(f.inputs) : f.inputs[k].type_name = Error

(* from_json: one function that cannot be resolved fails the document.     *)
FromJson(document) ==
  LET concrete == Collected(document.concreteTypes)
      indexed == Collected(document.types)
      TypeOf(v) == TypeName(v, concrete, indexed)
      Function(f) ==
        [ name |-> f.name,
          inputs |-> [k \in 1..Len(f.inputs) |->
                        [name |-> f.inputs[k].name, type_name |-> TypeOf(f.inputs[k].type)]],
          output |-> IF f.output = None THEN None ELSE TypeOf(f.output) ]
      functions == [n \in 1..Len(document.functions) |-> Function(document.functions[n])]
  IN  IF \E n \in 1..Len(functions) : Malformed(functions[n]) THEN Error
      ELSE [functions |-> functions]

(* The first function with a name, as a sequence of at most one.           *)
Found(schema, name) ==
  LET named == SelectSeq(schema.functions, LAMBDA f : f.name = name)
  IN  IF named = <<>> THEN <<>> ELSE <<named[1]>>

FunctionParams(schema, name) ==
  IF Found(schema, name) = <<>> THEN <<>> ELSE Found(schema, name)[1].inputs

FunctionOutputType(schema, name) ==
  IF Found(schema, name) = <<>> THEN None ELSE Found(schema, name)[1].output

------------------------------------------------------------------------------
(* The three shapes of one program's ABI: forc 0.70's, with types by       *)
(* reference, and the two older ones.  Types is every type the compiler    *)
(* lists, in order; ids are made from the types.                           *)

Id(type) == <<"id", type>>

Shaped(program, Input(_), Output(_)) ==
  [n \in 1..Len(program) |->
     [ name |-> program[n].name,
       inputs |-> [k \in 1..Len(program[n].inputs) |->
                     [name |-> program[n].inputs[k].name,
                      type |-> Input(program[n].inputs[k].type_name)]],
       output |-> IF program[n].output = None THEN None ELSE Output(program[n].output) ]]

ConcreteShape(program, types) ==
  [ concreteTypes |-> [n \in 1..Len(types) |-> [key |-> Id(types[n]), val |-> types[n]]],
    types |-> <<>>,
    functions |-> Shaped(program, LAMBDA t : ByConcreteId(Id(t)), LAMBDA t : ById(Id(t))) ]

NamedShape(program, types) ==
  LET Name(t) == ByType(NamedType(t))
  IN  [concreteTypes |-> <<>>, types |-> <<>>, functions |-> Shaped(program, Name, Name)]

IndexedShape(program, types) ==
  LET Index(t) == ByType(TypeIndex(CHOOSE n \in 1..Len(types) : types[n] = t))
  IN  [ concreteTypes |-> <<>>,
        types |-> [n \in 1..Len(types) |-> [key |-> n, val |-> types[n]]],
        functions |-> Shaped(program, Index, Index) ]
==============================================================================
