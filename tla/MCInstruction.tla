---------------------------- MODULE MCInstruction ----------------------------
(***************************************************************************)
(* Small programs for InstructionRecorder.  Lines 1 and 3 are in one       *)
(* cluster, 12 and 14 in another; 8 is just over the threshold from 1 and  *)
(* just within it from 3.                                                  *)
(***************************************************************************)
EXTENDS InstructionRecorder

MCAddr == 0..4
MCPath == {"main.sw", "library.sw"}
MCLine == {1, 3, 8, 12, 14}

(* From a list of instructions <<op, next, path, line>>.                   *)
Code(list) ==
  [ op |-> [a \in MCAddr |-> list[a + 1][1]],
    next |-> [a \in MCAddr |-> list[a + 1][2]],
    place |-> [a \in MCAddr |-> [path |-> list[a + 1][3], line |-> list[a + 1][4]]] ]

(* A loop over one line, payloads, and two clusters entered by turns.      *)
Clusters == Code(<<
  <<"plain",  {0, 1},    "main.sw", 1>>,
  <<"logd",   {2, 3},    "main.sw", 12>>,
  <<"log",    {0, 3},    "main.sw", 12>>,
  <<"logd",   {1, 2, 4}, "main.sw", 3>>,
  <<"end",    {},        "main.sw", 3>> >>)

(* The first step is already a transition; the gaps of the threshold; a    *)
(* storage access right after an empty log; a revert.                             *)
Boundary == Code(<<
  <<"log",     {1, 2, 3}, "main.sw", 8>>,
  <<"logd_empty", {0, 3}, "main.sw", 3>>,
  <<"plain",   {0, 4},    "main.sw", 14>>,
  <<"storage", {},        "main.sw", 8>>,
  <<"revert",  {},        "main.sw", 1>> >>)

(* Two files, with equal line numbers in both.                             *)
TwoFiles == Code(<<
  <<"plain",  {1, 2}, "main.sw", 1>>,
  <<"plain",  {2, 3}, "library.sw", 1>>,
  <<"logd",   {0, 3}, "library.sw", 12>>,
  <<"plain",  {4},    "main.sw", 12>>,
  <<"end",    {},     "main.sw", 14>> >>)

MCPrograms == {Clusters, Boundary, TwoFiles}
==============================================================================
