----------------------------- MODULE MCVariables -----------------------------
(***************************************************************************)
(* Programs over twelve instructions: every tracked operation, operands    *)
(* that are also the destination, a reserved operand ($one) and a reserved *)
(* destination, a register outside the snapshot (24), a write the tracker  *)
(* does not see.                                                           *)
(***************************************************************************)
EXTENDS VariableTracker

MCRegister == {1, 16, 17, 24}

I(op, dst, lhs, rhs, imm) ==
  [op |-> op, dst |-> dst, lhs |-> lhs, rhs |-> rhs, imm |-> imm]

MCInstructions ==
  { I("MOVI", 16, 1, 1, 2), I("MOVI", 17, 1, 1, 3), I("MOVI", 1, 1, 1, 3),
    I("ADD", 17, 16, 17, 0), I("SUB", 16, 17, 16, 0), I("MUL", 24, 16, 16, 0),
    I("ADD", 16, 24, 1, 0), I("ADDI", 16, 16, 1, 1), I("SUBI", 17, 24, 1, 1),
    I("MULI", 16, 17, 1, 2), I("other", 17, 1, 1, 0), I("undecodable", 1, 1, 1, 0) }
==============================================================================
