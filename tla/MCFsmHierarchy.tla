--------------------------- MODULE MCFsmHierarchy ---------------------------
(* The FSM layers on two full modules (two LPUs each) and one FPGA.        *)
EXTENDS FsmHierarchy

MCLpus == {"lpu0", "lpu1", "lpu2", "lpu3"}
MCFpgas == {"fpga0"}
MCModules == {"m0", "m1"}
MCChildIds == [m \in MCModules |-> IF m = "m0" THEN <<"lpu0", "lpu1">>
                                   ELSE <<"lpu2", "lpu3">>]
=============================================================================
