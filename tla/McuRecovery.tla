---------------------------- MODULE McuRecovery ----------------------------
(* mcu-recovery and mcu-recovery-tool: an MCU is strapped into its ISP ROM, *)
(* given a signed image by blhost and reset into normal boot.              *)
EXTENDS RecoveryWorker

CONSTANT ResetRounds   \* attempts of performResetFlow

ASSUME ResetRoundsPositive == ResetRounds \in Nat \ {0}

McuHwInit == [mode: {"functional", "recovery", "gone"}, flash: {"good", "bad"},
              strap: {FALSE}, driven: {FALSE}, rounds: {0},
              pins: BOOLEAN, provisioned: BOOLEAN]

(* Reset is pulsed with the strap at a level; without both lines nothing   *)
(* happens.                                                                *)
Pulse(h, strap) ==
  IF h.pins
  THEN { [h EXCEPT !.strap = strap, !.driven = TRUE, !.mode = m] :
           m \in ResetModes(strap, h.flash) }
  ELSE {h}
enterRecoveryMode(d) == \E h \in Pulse(hw[d], TRUE) : hw' = [hw EXCEPT ![d] = h]
exitRecoveryMode(d) == \E h \in Pulse(hw[d], FALSE) : hw' = [hw EXCEPT ![d] = h]

(* The service's exit status does not depend on the devices.               *)
McuConclude(d, v) ==
  verdict' = [verdict EXCEPT ![d] = v] /\ Goto(d, "done") /\ UNCHANGED task
handleRecoveryError(d) == exitRecoveryMode(d) /\ McuConclude(d, "failed")

(* No usable configuration ends any of the commands with an error; libusb  *)
(* or a GPIO that cannot be opened ends the service with -1 and the tool   *)
(* with 0; a file that is not SB3 or SB4 ends both with 0.                 *)
McuEndsBefore(status) ==
  /\ ~exited /\ \A d \in Devices : pc[d] = "todo"
  /\ task' = status
  /\ pc' = [d \in Devices |-> "done"] /\ UNCHANGED <<hw, verdict>>

(* An MCU that does not answer is only logged; one that is not provisioned *)
(* is refused; a healthy one is left alone unless the operator forces it.  *)
McuProbe(d, force) ==
  /\ Turn(d) /\ pc[d] = "todo"
  /\ \/ hw[d].mode = "gone" /\ McuConclude(d, "none") /\ UNCHANGED hw
     \/ /\ hw[d].mode # "gone" /\ ~hw[d].provisioned
        /\ McuConclude(d, "failed") /\ UNCHANGED hw
     \/ /\ hw[d].mode = "functional" /\ hw[d].provisioned /\ ~force
        /\ McuConclude(d, "healthy") /\ UNCHANGED hw
     \/ /\ hw[d].provisioned
        /\ (hw[d].mode = "recovery" \/ (hw[d].mode = "functional" /\ force))
        /\ enterRecoveryMode(d) /\ Continue(d, "entered")

(* If it does not come back from the reset it is dropped without a word.   *)
McuReprobe(d) ==
  /\ Turn(d) /\ pc[d] = "entered"
  /\ IF hw[d].mode = "gone" THEN McuConclude(d, "none") ELSE Continue(d, "blhost")
  /\ UNCHANGED hw

(* Security state, the encryption key of an unlocked part, then the image: *)
(* a failing command leaves recovery mode, a blhost that cannot be run     *)
(* does not.                                                               *)
McuPerformRecovery(d) ==
  /\ Turn(d) /\ pc[d] = "blhost"
  /\ \/ handleRecoveryError(d)
     \/ McuConclude(d, "failed") /\ UNCHANGED hw
     \/ /\ hw[d].mode = "recovery"
        /\ \E h \in Pulse([hw[d] EXCEPT !.flash = "good", !.driven = TRUE], FALSE) :
             hw' = [hw EXCEPT ![d] = h]
        /\ Continue(d, "check")

McuCheck(d) ==
  /\ Turn(d) /\ pc[d] = "check"
  /\ \/ hw[d].mode = "gone" /\ handleRecoveryError(d)
     \/ hw[d].mode = "functional" /\ McuConclude(d, "recovered") /\ UNCHANGED hw
     \/ hw[d].mode = "recovery" /\ McuConclude(d, "failed") /\ UNCHANGED hw

McuInitialize == McuEndsBefore("ok") \/ McuEndsBefore("error")

McuNext == McuInitialize
           \/ \E d \in Devices : McuProbe(d, FALSE) \/ McuReprobe(d)
                                 \/ McuPerformRecovery(d) \/ McuCheck(d)
McuForceNext == McuInitialize
                \/ \E d \in Devices : McuProbe(d, TRUE) \/ McuReprobe(d)
                                      \/ McuPerformRecovery(d) \/ McuCheck(d)

(* ForceReset: every MCU not yet healthy is reset, then each is looked at, *)
(* until all are healthy or the rounds are used up.                        *)
Pending == {d \in Devices : pc[d] # "done"}
BugRoundsNotCounted(h) ==
  IF h.pins THEN { [h EXCEPT !.driven = TRUE, !.mode = m] : m \in ResetModes(h.strap, h.flash) }
  ELSE {h}
ResetOnce(h) ==
  IF h.pins THEN { [h EXCEPT !.driven = TRUE, !.rounds = @ + 1, !.mode = m] :
                     m \in ResetModes(h.strap, h.flash) }
  ELSE { [h EXCEPT !.rounds = @ + 1] }
McuResetPulse(d) ==
  /\ ~exited /\ pc[d] = "todo"
  /\ \A e \in Pending : pc[e] = "reset" => hw[e].rounds > hw[d].rounds
  /\ \E h \in ResetOnce(hw[d]) : hw' = [hw EXCEPT ![d] = h]
  /\ Continue(d, "reset")

(* A healthy MCU is taken off the list and its lines are released.         *)
McuResetCheck(d) ==
  /\ ~exited /\ pc[d] = "reset"
  /\ \A e \in Pending : hw[e].rounds = hw[d].rounds
  /\ IF hw[d].mode = "functional"
     THEN McuConclude(d, IF hw[d].driven THEN "recovered" ELSE "healthy")
     ELSE IF hw[d].rounds = ResetRounds THEN McuConclude(d, "failed")
     ELSE Continue(d, "todo")
  /\ UNCHANGED hw

McuResetNext == McuInitialize \/ \E d \in Devices : McuResetPulse(d) \/ McuResetCheck(d)

(* SetForceRecovery: all MCUs are strapped into recovery, then each is     *)
(* looked for; one that is not there makes the command fail.  Lines that   *)
(* cannot be opened, or that throw when they are driven, are only logged:  *)
(* the command returns, the MCUs are left wherever the three loops over    *)
(* them had come to, and it exits 0.                                       *)
GaveUp == task = "ok" /\ \E d \in Devices : verdict[d] = "failed"
Interrupted(h) ==
  Pulse(h, TRUE) \cup {h}
  \cup IF h.pins THEN { [h EXCEPT !.strap = TRUE, !.driven = TRUE],
                        [h EXCEPT !.strap = TRUE, !.driven = TRUE, !.mode = "gone"] }
     ELSE {}
McuForceThrows(d) ==
  /\ ~exited /\ pc[d] # "done" /\ (GaveUp \/ \A e \in Devices : pc[e] # "done")
  /\ \E h \in Interrupted(hw[d]) : hw' = [hw EXCEPT ![d] = h]
  /\ McuConclude(d, "failed")
McuForceEnter(d) ==
  /\ ~exited /\ pc[d] = "todo" /\ ~GaveUp
  /\ enterRecoveryMode(d) /\ Continue(d, "forced")
McuForceVerify(d) ==
  /\ ~exited /\ pc[d] = "forced" /\ \A e \in Devices : pc[e] # "todo"
  /\ ~GaveUp
  /\ IF InRecovery(d) THEN McuConclude(d, "none") ELSE Conclude(d, "failed")
  /\ UNCHANGED hw

McuSetForceNext == McuEndsBefore("error")
                   \/ \E d \in Devices : McuForceEnter(d) \/ McuForceThrows(d) \/ McuForceVerify(d)
===========================================================================
