---------------------------- MODULE MCSpiFlash ----------------------------
(* Two chips behind one programmer, as the code and data flash of a CPU.   *)
EXTENDS SpiFlash

MCKindsOf == [s \in Spis |-> IF s = "code" THEN {"Read"} ELSE {"Write"}]
MCPortOf == [s \in Spis |-> "port"]
===========================================================================
