------------------------------ MODULE DebugInfo ------------------------------
(***************************************************************************)
(* ForcDebugInfo (src/src/debug_info.rs): the map from instruction index   *)
(* to source location, read from the JSON source map or from the rows of   *)
(* the DWARF line table.                                                   *)
(*                                                                         *)
(* A path is the sequence of its parts with a flag for absolute ones.  A   *)
(* JSON map is the sequence of its entries in the order of their keys'     *)
(* text; a key that is no number is None.  A DWARF row carries its file's  *)
(* name and directory, and the directory of its compilation unit.          *)
(***************************************************************************)
EXTENDS Naturals, Sequences

CONSTANTS None,    \* an absent value
          Error    \* the Err of a Result

Join(dir, path) ==
  IF path.absolute THEN path
  ELSE [absolute |-> dir.absolute, parts |-> dir.parts \o path.parts]

(* BTreeMap::insert of the entries kept, one after the other. *)
Inserted(entries, kept) ==
  [ i \in {entries[n].index : n \in kept} |->
      LET last == CHOOSE n \in kept :
                    entries[n].index = i /\ \A m \in kept : m > n => entries[m].index # i
      IN  entries[last].loc ]

------------------------------------------------------------------------------
(* The JSON map. *)

(* Dependencies are relative to ~/.forc; any other path is taken as it is. *)
Resolve(document, path, home) ==
  IF ~path.absolute /\ home # None /\ path \in document.dependency_paths
    THEN Join([home EXCEPT !.parts = Append(@, ".forc")], path)
    ELSE path

FromJson(document, home) ==
  LET map == document.map
      Location(span) == [ path |-> Resolve(document, document.paths[span.path + 1], home),
                          line |-> span.line, column |-> span.column ]
  IN  IF \E n \in 1..Len(map) : map[n].key = None \/ map[n].path >= Len(document.paths)
        THEN Error
        ELSE Inserted([n \in 1..Len(map) |->
                         [index |-> map[n].key, loc |-> Location(map[n])]],
                      1..Len(map))

------------------------------------------------------------------------------
(* The DWARF line table. *)

MutantAttributed(row) == ~row.end_sequence

(* The rows that attribute an instruction to a place: none that ends a     *)
(* sequence, none at column 0.                                             *)
Attributed(row) ==
  /\ ~row.end_sequence
  /\ row.column # 0 /\ row.line # None /\ row.file # None

RowPath(row) == Join(row.comp_dir, Join(row.dir, row.file))

FromRows(rows) ==
  Inserted([n \in 1..Len(rows) |->
              [ index |-> rows[n].address,
                loc |-> [ path |-> RowPath(rows[n]),
                          line |-> rows[n].line, column |-> rows[n].column ] ]],
           {n \in 1..Len(rows) : Attributed(rows[n])})

------------------------------------------------------------------------------

MutantLoad(file, home) ==
  CASE file.form = "json" -> FromJson(file.content, home)
    [] file.form = "dwarf" -> FromRows(file.content)
    [] OTHER -> Error

(* load: whichever form the file holds, if it maps anything. *)
Load(file, home) ==
  LET info == CASE file.form = "json" -> FromJson(file.content, home)
                [] file.form = "dwarf" -> FromRows(file.content)
                [] OTHER -> Error
  IN  IF info = Error THEN Error
      ELSE IF DOMAIN info = {} THEN Error ELSE info

First(info) ==
  info[CHOOSE i \in DOMAIN info : \A j \in DOMAIN info : i <= j]

------------------------------------------------------------------------------
(* What forc writes of a build: the spans of its instructions, in index    *)
(* order, each in a file of the sources.                                   *)

ForcJson(build, sources) ==
  [ dependency_paths |-> {sources[n].stored : n \in {m \in 1..Len(sources) :
                                                     sources[m].stored # sources[m].path}},
    paths |-> [n \in 1..Len(sources) |-> sources[n].stored],
    map |-> [n \in 1..Len(build) |->
               [ key |-> build[n].index, path |-> build[n].file - 1,
                 line |-> build[n].line, column |-> build[n].column ]] ]

Row(entry, sources, end) ==
  LET parts == sources[entry.file].path.parts
  IN  [ address |-> entry.index, line |-> entry.line, column |-> entry.column,
        file |-> [absolute |-> FALSE, parts |-> <<parts[Len(parts)]>>],
        dir |-> [absolute |-> TRUE, parts |-> SubSeq(parts, 1, Len(parts) - 1)],
        comp_dir |-> [absolute |-> TRUE, parts |-> <<>>],
        end_sequence |-> end ]

(* Each row is emitted before its fields are filled in: the table starts   *)
(* with an implicit row at address 0, column 0, and the last entry is only *)
(* the address its sequence ends at (debug_info.rs:11-23).                 *)
ForcRows(build, sources) ==
  <<Row([index |-> 0, file |-> 1, line |-> 1, column |-> 0], sources, FALSE)>>
    \o [n \in 1..(Len(build) - 1) |-> Row(build[n], sources, FALSE)]
    \o <<Row(build[Len(build)], sources, TRUE)>>
==============================================================================
