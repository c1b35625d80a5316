---------------------------- MODULE MCFwStatus ----------------------------
(* One device of every kind in turn, beside a USB RCM device.  The first   *)
(* is complete, finds its bus by USB port or not at all, is not on chassis *)
(* power, or lacks its endpoint id.                                        *)
EXTENDS FwStatus
CONSTANTS d1, d2
MCDevices == {d1, d2}
MCMixes == {f \in [MCDevices -> Kinds] : f[d2] = "USBRcm"}
MCLacks == {[d \in MCDevices |-> IF d = d1 THEN l ELSE {}] :
             l \in {{}, {"I2CBus"}, {"I2CBus", "USBPort"}, {"hasChassisPowerSource"}, {"MctpEID", "SMAEID"}}}
MCProbe == [d \in MCDevices |-> IF d = d1 THEN Answers ELSE {"recovery"}]
=============================================================================
