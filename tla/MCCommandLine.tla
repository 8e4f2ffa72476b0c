---------------------------- MODULE MCCommandLine ----------------------------
(***************************************************************************)
(* Two contracts; inputs that repeat a contract, have other inputs between *)
(* them, or have none; every combination of arguments and environment.     *)
(***************************************************************************)
EXTENDS CommandLine

MCInputs ==
  { <<>>, <<"coin", "c1", "c2", "c1">>, <<"unnamed", "c2", "message">> }
==============================================================================
