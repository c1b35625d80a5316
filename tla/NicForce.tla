----------------------------- MODULE NicForce -----------------------------
(* com.nvidia.SetRecoveryMode of the ConnectX, NVSwitch and NVLink         *)
(* management NIC resources of fw-status: flash-not-present is asserted,   *)
(* reset is pulsed, and the lines are given back at the levels they have.  *)
(* The method throws when a step fails.                                    *)
EXTENDS RecoveryWorker

(* gpio: both lines are configured; strap: flash-not-present is asserted;  *)
(* low: reset is asserted.                                                 *)
NicHwInit == [mode: {"functional", "recovery", "gone"}, driven: {FALSE}, gpio: BOOLEAN,
              strap: BOOLEAN, low: {FALSE}]

NicThrows(d) == Conclude(d, "failed")

(* Both lines are requested as outputs at their inactive levels; a line    *)
(* that is missing or in use ends the call.                                *)
initGpioLines(d) ==
  /\ Turn(d) /\ pc[d] = "todo"
  /\ \/ NicThrows(d) /\ hw' \in {hw, [hw EXCEPT ![d].driven = hw[d].gpio]}
     \/ /\ hw[d].gpio
        /\ hw' = [hw EXCEPT ![d].strap = FALSE, ![d].driven = TRUE] /\ Continue(d, "fnp")

AssertFlashNotPresent(d) ==
  /\ Turn(d) /\ pc[d] = "fnp"
  /\ \/ NicThrows(d) /\ UNCHANGED hw
     \/ hw' = [hw EXCEPT ![d].strap = TRUE] /\ Continue(d, "assert")

AssertNicReset(d) ==
  /\ Turn(d) /\ pc[d] = "assert"
  /\ \/ NicThrows(d) /\ UNCHANGED hw
     \/ hw' = [hw EXCEPT ![d].low = TRUE, ![d].mode = "gone"] /\ Continue(d, "release")

(* A failure here leaves the NIC in reset.  The NIC that left reset is not *)
(* looked at: it may not have come up.                                     *)
ReleaseNicReset(d) ==
  /\ Turn(d) /\ pc[d] = "release"
  /\ \/ NicThrows(d) /\ UNCHANGED hw
     \/ \E m \in ResetModes(hw[d].strap, "good") :
          /\ hw' = [hw EXCEPT ![d].low = FALSE, ![d].mode = m]
          /\ Continue(d, "done")

NicForceNext == \E d \in Devices :
  initGpioLines(d) \/ AssertFlashNotPresent(d) \/ AssertNicReset(d) \/ ReleaseNicReset(d)
===========================================================================
