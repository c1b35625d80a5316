-------------------------- MODULE GlacierRecovery --------------------------
(* glacier-recovery: the key hash blob, the header and the firmware are    *)
(* written into an ERoT in crisis recovery, which is then started from     *)
(* SRAM and asked whether it is still in recovery.                         *)
EXTENDS RecoveryWorker, Sequences

CONSTANT CheckRetries   \* maxRetries of the check after recovery

ASSUME CheckRetriesPositive == CheckRetries \in Nat \ {0}

Parts == <<"keyHashBlob", "header", "firmware">>

GlacierHwInit == [mode: {"functional", "recovery", "gone"}, flash: {"bad"}, strap: {FALSE},
                  driven: {FALSE}, tries: {0}, sent: {0}, hidden: BOOLEAN, garbled: {FALSE}]

(* The crisis loader echoes a command once it has handled it, running      *)
(* firmware answers something else; a loader that stays pending, a bad     *)
(* checksum or a refused write is an error.  The echo is looked at before  *)
(* the checksum, so a loader whose echo was garbled on the wire is taken   *)
(* for running firmware; `garbled` remembers that, for checking only.      *)
ValidateGetResponseCmd(h) ==
  CASE h.mode = "recovery" -> {"Ok", "Error", "FirmwareNotInRecovery"}
    [] h.mode = "functional" -> {"FirmwareNotInRecovery", "Error"}
    [] OTHER -> {"Error"}

Reads(d, r) ==
  hw' = [hw EXCEPT ![d].garbled = r = "FirmwareNotInRecovery" /\ InRecovery(d)]

(* The response is polled for; a read that fails throws.                   *)
Response(h) == ValidateGetResponseCmd(h) \cup {"Throw"}

(* The initialisation command; a write that fails is an error.             *)
performInitialization(d) == Response(hw[d]) \cup {"Error"}

(* Each chunk of a part carries its offset, so one that is written again   *)
(* lands where it did before; the first chunk that fails fails the part.   *)
writeImage(d) == {r = "Ok" : r \in Response(hw[d]) \cup {"Error"}}

(* An ERoT hidden behind the FPGA is unlocked first; if that fails it is   *)
(* reported, but the task is not failed.                                   *)
GlacierProbe(d) ==
  /\ Turn(d) /\ pc[d] = "todo"
  /\ \/ /\ hw[d].hidden /\ UNCHANGED <<hw, task>>
        /\ verdict' = [verdict EXCEPT ![d] = "failed"] /\ Goto(d, "done")
     \/ \E r \in performInitialization(d) :
          /\ Reads(d, r)
          /\ CASE r = "Ok" -> Continue(d, "write")
               [] r = "FirmwareNotInRecovery" -> Conclude(d, "healthy")
               [] OTHER -> Conclude(d, "failed")

GlacierWritePart(d) ==
  /\ Turn(d) /\ pc[d] = "write" /\ hw[d].sent < Len(Parts)
  /\ \E ok \in writeImage(d) :
       IF ok THEN hw' = [hw EXCEPT ![d].sent = @ + 1, ![d].driven = TRUE] /\ Continue(d, "write")
       ELSE hw' \in {hw, [hw EXCEPT ![d].driven = TRUE]} /\ Conclude(d, "failed")

GlacierExecute(d) ==
  /\ Turn(d) /\ pc[d] = "write" /\ hw[d].sent = Len(Parts)
  /\ \/ Conclude(d, "failed") /\ UNCHANGED hw
     \/ /\ \E f \in {"good", "bad"}, gone \in BOOLEAN :
             hw' = [hw EXCEPT ![d].flash = f,
                              ![d].mode = IF gone THEN "gone"
                                          ELSE IF f = "good" THEN "functional" ELSE @]
        /\ Continue(d, "check")

(* The check is repeated when it got no answer; the last one fails the     *)
(* device.  `tries` is the loop's own counter.                             *)
GlacierCheck(d) ==
  /\ Turn(d) /\ pc[d] = "check"
  /\ \E r \in performInitialization(d) :
       CASE r = "FirmwareNotInRecovery" -> Conclude(d, "recovered") /\ Reads(d, r)
         [] r \in {"Ok", "Throw"} -> Conclude(d, "failed") /\ UNCHANGED hw
         [] r = "Error" /\ hw[d].tries < CheckRetries - 1 ->
              hw' = [hw EXCEPT ![d].tries = @ + 1] /\ Continue(d, "check")
         [] OTHER -> Conclude(d, "failed") /\ UNCHANGED hw

GlacierNext == \E d \in Devices :
  GlacierProbe(d) \/ GlacierWritePart(d) \/ GlacierExecute(d) \/ GlacierCheck(d)
===========================================================================
