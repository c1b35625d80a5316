------------------------- MODULE RecoveryContract -------------------------
(* What the recovery workers promise of the devices they are started on:   *)
(* a device reported healthy was never disturbed, a device reported        *)
(* recovered was worked on and is out of recovery mode when it is          *)
(* reported, and neither is disturbed again.  A failed device may still be *)
(* cleaned up.  Two things limit the promise: a device that is still       *)
(* booting when it is reported is not in recovery mode but may come up in  *)
(* it, and a device whose answer was garbled is reported by that answer.   *)
CONSTANT Devices

VARIABLES
  touched,     \* a strap, a reset or a write of the worker reached it
  inRecovery,  \* the device is in its recovery mode
  booting,     \* it was reset and has not come up yet
  misread,     \* an answer of its recovery loader was taken for firmware's
  verdict      \* what the message registry says of it

vars == <<touched, inRecovery, booting, misread, verdict>>

Verdicts == {"none", "healthy", "recovered", "unverified", "failed"}

Init ==
  /\ touched = [d \in Devices |-> FALSE]
  /\ inRecovery \in [Devices -> BOOLEAN]
  /\ booting = [d \in Devices |-> FALSE]
  /\ misread = [d \in Devices |-> FALSE]
  /\ verdict = [d \in Devices |-> "none"]

(* Straps, resets, images: whatever the worker does to a device it is not  *)
(* done with.                                                              *)
Disturb(d) ==
  /\ verdict[d] \in {"none", "failed"}
  /\ touched' = [touched EXCEPT ![d] = TRUE]
  /\ \E b \in BOOLEAN : inRecovery' = [inRecovery EXCEPT ![d] = b]
  /\ \E b \in BOOLEAN : booting' = [booting EXCEPT ![d] = b]
  /\ \E b \in BOOLEAN : misread' = [misread EXCEPT ![d] = b]
  /\ \/ UNCHANGED verdict
     \/ verdict' = [verdict EXCEPT ![d] = "failed"]

(* A device that was reset comes up by itself, at any time.                *)
ComesUp(d) ==
  /\ booting[d] /\ booting' = [booting EXCEPT ![d] = FALSE]
  /\ \E b \in BOOLEAN : inRecovery' = [inRecovery EXCEPT ![d] = b]
  /\ UNCHANGED <<touched, misread, verdict>>

(* An outcome the tool did not verify says only that it did its work.      *)
Report(d) ==
  /\ verdict[d] = "none"
  /\ \E m \in BOOLEAN : misread' = [misread EXCEPT ![d] = m]
  /\ \E v \in Verdicts \ {"none"} :
       /\ v = "healthy" => ~touched[d] /\ (misread'[d] \/ ~inRecovery[d])
       /\ v = "recovered" => touched[d] /\ (misread'[d] \/ ~inRecovery[d])
       /\ v = "unverified" => touched[d]
       /\ verdict' = [verdict EXCEPT ![d] = v]
  /\ UNCHANGED <<touched, inRecovery, booting>>

(* An error that concerns the whole package is reported for every device.  *)
ReportAll ==
  /\ \A d \in Devices : verdict[d] = "none"
  /\ verdict' = [d \in Devices |-> "failed"]
  /\ UNCHANGED <<touched, inRecovery, booting, misread>>

Next == ReportAll \/ \E d \in Devices : Disturb(d) \/ ComesUp(d) \/ Report(d)

Spec == Init /\ [][Next]_vars
===========================================================================
