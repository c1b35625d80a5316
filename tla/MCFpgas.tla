------------------------------ MODULE MCFpgas ------------------------------
(* The daemon on two FPGAs with the same power-good line, and a module the *)
(* descriptor declares but whose construction was skipped.                 *)
EXTENDS Orchestrator, TLC

MCChildIds == [m \in {} |-> <<>>]
MCPgLine == [e \in Fpgas |-> "pg"]
MCBcLine == [e \in Fpgas |-> IF e = "fpga0" THEN "bc0" ELSE "bc1"]
MCInitOrder == <<"fpga0", "fpga1">>

(* The calls differ in nothing but their names.                            *)
CallSymmetry == Permutations(Calls)
=============================================================================
