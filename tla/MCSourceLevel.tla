---------------------------- MODULE MCSourceLevel ----------------------------
(***************************************************************************)
(* Three small scripts for SourceLevelRecorder.  Locations are named by    *)
(* function and line; the "d" lines are declarations.                      *)
(***************************************************************************)
EXTENDS SourceLevelRecorder

MCAddr == 0..7
MCLoc == {"md", "m1", "m2", "fd", "f1", "gd", "g1"}
MCFn == {"main", "f", "g"}

(* From a list of instructions <<op, next, callee, loc, fn>>.              *)
Script(code) ==
  [ op |-> [a \in MCAddr |-> code[a + 1][1]],
    next |-> [a \in MCAddr |-> code[a + 1][2]],
    callee |-> [a \in MCAddr |-> code[a + 1][3]],
    loc |-> [a \in MCAddr |-> code[a + 1][4]],
    fn |-> [a \in MCAddr |-> code[a + 1][5]],
    rank |-> [x \in MCFn |-> CASE x = "main" -> 0 [] x = "f" -> 1 [] x = "g" -> 2],
    owner |-> [l \in MCLoc |-> CASE l \in {"md", "m1", "m2"} -> "main"
                                 [] l \in {"fd", "f1"} -> "f"
                                 [] OTHER -> "g"],
    decl |-> [l \in MCLoc |-> CASE l = "md" -> "main" [] l = "fd" -> "f"
                                [] l = "gd" -> "g" [] OTHER -> None],
    first |-> LET mapped == {a \in MCAddr : code[a + 1][4] # None}
              IN  code[(CHOOSE a \in mapped : \A b \in mapped : a <= b) + 1][4] ]

(* A call in a loop; the caller resumes on the line it left from, and the  *)
(* callee's return is attributed to another function's declaration.        *)
Looping == Script(<<
  <<"plain",  {1},    0, "md", "main">>,
  <<"call",   {},     4, "m1", "main">>,
  <<"plain",  {1, 3}, 0, "m1", "main">>,
  <<"end",    {},     0, "fd", "main">>,
  <<"plain",  {5},    0, "fd", "f">>,
  <<"log",    {6},    0, "f1", "f">>,
  <<"return", {},     0, "gd", "f">>,
  <<"revert", {},     0, None, "g">> >>)

(* Two levels of calls, one callee called from two places, its first       *)
(* instruction unmapped, and a revert inside it.                           *)
Nested == Script(<<
  <<"call",   {},     3, "m1", "main">>,
  <<"call",   {},     6, "m1", "main">>,
  <<"end",    {},     0, None, "main">>,
  <<"call",   {},     6, "fd", "f">>,
  <<"log",    {5},    0, "f1", "f">>,
  <<"return", {},     0, "gd", "f">>,
  <<"log",    {6, 7}, 0, None, "g">>,
  <<"return", {},     0, "g1", "g">> >>)

(* A chain of calls whose returns follow each other at once, a call that   *)
(* is its function's last instruction but the return, and a trap.          *)
Chain == Script(<<
  <<"call",   {},     2, None, "main">>,
  <<"plain",  {0, 1}, 0, "m2", "main">>,
  <<"call",   {},     5, "fd", "f">>,
  <<"return", {},     0, "fd", "f">>,
  <<"revert", {},     0, "f1", "f">>,
  <<"plain",  {6, 7}, 0, "gd", "g">>,
  <<"return", {},     0, "fd", "g">>,
  <<"revert", {},     0, "g1", "g">> >>)

MCPrograms == {Looping, Nested, Chain}
==============================================================================
