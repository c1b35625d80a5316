--------------------------- MODULE MCPreBootDiag ---------------------------
(* A small channel; every call may fail but those the properties need:     *)
(* reading DiagResult, the explicit Get, and the writes of the failure     *)
(* path.                                                                   *)
EXTENDS PreBootDiag

MCFailingCalls == {"getStatus", "setInProgress", "setModeOn", "clearResult",
                   "readSystem", "readTid", "asyncSet", "writeResult",
                   "setRunning", "setCompleted", "setModeOff"}
=============================================================================
