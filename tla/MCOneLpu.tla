------------------------------ MODULE MCOneLpu ------------------------------
(* The daemon on a single element with an active-low boot-complete line.   *)
EXTENDS Orchestrator

MCModules == {"m0"}
MCChildIds == [m \in MCModules |-> <<"lpu0", "lpu0">>]
MCPgLine == [e \in {"lpu0"} |-> "pg"]
MCBcLine == [e \in {"lpu0"} |-> "bc"]
MCInitOrder == <<"lpu0">>
=============================================================================
