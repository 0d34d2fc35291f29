------------------------------ MODULE MCStatements -----------------------------
(***************************************************************************)
(* Three doubles: one is printed as it is, one is whole, and one has more  *)
(* than six digits.                                                        *)
(***************************************************************************)
EXTENDS Statements

MCPrintedAs ==
  [v \in DoubleLiterals |-> CASE v = "1.0"       -> "1"
                             [] v = "0.4999999" -> "0.5"
                             [] OTHER           -> v]

===============================================================================
