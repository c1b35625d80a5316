---------------------------- MODULE OcpRecovery ----------------------------
(* ocp-recovery: every GPU is recovered in a thread of its own over the    *)
(* OCP recovery registers: images are streamed into a memory window and    *)
(* activated one by one.                                                   *)
EXTENDS RecoveryWorker

CONSTANTS
  Images,    \* FSP, build info, OOB hub and FSP runtime, in that order
  Chunks,    \* chunks of an image
  Attempts   \* retryAttemptsPerChunk

ASSUME OcpBounds == Images \in Nat \ {0} /\ Chunks \in Nat \ {0} /\ Attempts \in Nat \ {0}

(* The window counts what was streamed into it: `copies` of the chunk      *)
(* being sent, and whether every chunk so far arrived exactly once.        *)
OcpHwInit == [mode: {"functional", "recovery", "unknown", "gone"}, flash: {"bad"},
              strap: {FALSE}, driven: {FALSE}, activated: {0}, sent: {0},
              attempt: {0}, copies: {0}, intact: {TRUE}]

(* What the two status registers say; either read can fail.                *)
DeviceStatusOf(h) == {"CommandFailure"} \cup
  CASE h.mode = "functional" -> {"DeviceHealthy", "RecoveryImgRunning"}
    [] h.mode = "recovery" -> {"RecoveryMode"}
    [] h.mode = "unknown" -> {"BootFailure"}
    [] OTHER -> {}
RecoveryStatusOf(h) == {"CommandFailure"} \cup
  CASE h.mode = "functional" -> {"NotInRecoveryMode", "RecoverySuccess"}
    [] h.mode = "recovery" -> {"AwaitingRecoveryImg"}
    [] OTHER -> {"RecoveryFailed"}

OperationalStatus(device, recovery) ==
  CASE "CommandFailure" \in {device, recovery} -> "Unreachable"
    [] device = "DeviceHealthy" -> "Operational"
    [] device = "RecoveryImgRunning" /\ recovery \in {"BootingRecoveryImg", "RecoverySuccess"} ->
         "Operational"
    [] device = "RecoveryMode" /\ recovery = "AwaitingRecoveryImg" -> "RecoveryMode"
    [] OTHER -> "UnknownState"
getOperationalStatus(d) ==
  { OperationalStatus(x[1], x[2]) : x \in DeviceStatusOf(hw[d]) \X RecoveryStatusOf(hw[d]) }

(* The package lacks one of the images: no device is looked at.            *)
OcpImagesMissing ==
  /\ ~exited /\ \A d \in Devices : pc[d] = "todo"
  /\ task' = "error" /\ pc' = [d \in Devices |-> "done"] /\ UNCHANGED <<hw, verdict>>

(* A GPU behind a USB bridge that is not enumerated has no I2C bus and is  *)
(* left out without a message.                                             *)
OcpNoTarget(d) == ~exited /\ pc[d] = "todo" /\ Continue(d, "done") /\ UNCHANGED hw

OcpProbe(d) ==
  /\ ~exited /\ pc[d] = "todo"
  /\ \E s \in getOperationalStatus(d) :
       CASE s = "Operational" -> Conclude(d, "healthy")
         [] s = "Unreachable" -> Conclude(d, "failed")
         [] s = "UnknownState" -> Continue(d, "force")
         [] s = "RecoveryMode" -> Continue(d, "image")
  /\ UNCHANGED hw

(* A device in no known state is reset into recovery and looked at again.  *)
OcpForceRecovery(d) ==
  /\ ~exited /\ pc[d] = "force"
  /\ \/ Conclude(d, "failed") /\ UNCHANGED hw
     \/ /\ \E m \in {"recovery", "unknown", "gone"} :
             hw' = [hw EXCEPT ![d].mode = m, ![d].driven = TRUE]
        /\ Continue(d, "forced")

OcpForced(d) ==
  /\ ~exited /\ pc[d] = "forced"
  /\ \E s \in getOperationalStatus(d) :
       IF s = "RecoveryMode" THEN Continue(d, "image") ELSE Conclude(d, "failed")
  /\ UNCHANGED hw

(* The control registers open the window for the next image.               *)
OcpOpenWindow(d) ==
  /\ ~exited /\ pc[d] = "image"
  /\ \/ Conclude(d, "failed") /\ UNCHANGED hw               \* file or register
     \/ /\ hw' = [hw EXCEPT ![d].driven = TRUE, ![d].sent = 0, ![d].attempt = 0, ![d].copies = 0]
        /\ Continue(d, "chunk")

(* One attempt to stream a chunk; a write that is reported as failed may   *)
(* have reached the window all the same.                                   *)
Retry(d) ==
  IF hw[d].attempt + 1 < Attempts THEN Continue(d, "chunk") ELSE Conclude(d, "failed")
OcpSendChunk(d) ==
  /\ ~exited /\ pc[d] = "chunk" /\ hw[d].sent < Chunks
  /\ \E landed \in BOOLEAN :
       \/ /\ landed /\ Continue(d, "ack")
          /\ hw' = [hw EXCEPT ![d].copies = @ + 1]
       \/ /\ hw' = [hw EXCEPT ![d].copies = IF landed THEN @ + 1 ELSE @, ![d].attempt = @ + 1]
          /\ Retry(d)

(* The acknowledgement is polled; without it the chunk is sent again,      *)
(* although the window holds it already.                                   *)
OcpAwaitAck(d) ==
  /\ ~exited /\ pc[d] = "ack"
  /\ \/ /\ hw' = [hw EXCEPT ![d].sent = @ + 1, ![d].intact = @ /\ hw[d].copies = 1,
                            ![d].copies = 0, ![d].attempt = 0]
        /\ Continue(d, "chunk")
     \/ hw' = [hw EXCEPT ![d].attempt = @ + 1] /\ Retry(d)

(* Activation hands the window to the device, which authenticates it; the  *)
(* worker goes on to the next image without looking.                       *)
Authenticated(h) == h.intact /\ h.activated + 1 = Images
OcpActivate(d) ==
  /\ ~exited /\ pc[d] = "chunk" /\ hw[d].sent = Chunks
  /\ \/ Conclude(d, "failed") /\ UNCHANGED hw
     \/ LET h == [hw[d] EXCEPT !.activated = @ + 1,
                   !.flash = IF Authenticated(hw[d]) THEN "good" ELSE "bad"] IN
        /\ \E m \in IF h.activated < Images THEN {hw[d].mode}
                    ELSE IF h.flash = "good" THEN {"functional", "unknown"}
                    ELSE {"recovery", "unknown"} :
             hw' = [hw EXCEPT ![d] = [h EXCEPT !.mode = m]]
        /\ Continue(d, IF h.activated < Images THEN "image" ELSE "check")

OcpCheck(d) ==
  /\ ~exited /\ pc[d] = "check"
  /\ \E s \in getOperationalStatus(d) :
       Conclude(d, IF s = "Operational" THEN "recovered" ELSE "failed")
  /\ UNCHANGED hw

OcpNext == OcpImagesMissing \/ \E d \in Devices :
  \/ OcpNoTarget(d) \/ OcpProbe(d) \/ OcpForceRecovery(d) \/ OcpForced(d) \/ OcpOpenWindow(d)
  \/ OcpSendChunk(d) \/ OcpAwaitAck(d) \/ OcpActivate(d) \/ OcpCheck(d)
===========================================================================
