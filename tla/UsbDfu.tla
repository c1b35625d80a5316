------------------------------ MODULE UsbDfu ------------------------------
(* usb-dfu-recovery: an HMC is strapped into its USB boot ROM, fed the     *)
(* bundle that starts recovery U-Boot, given the image, left alone while   *)
(* U-Boot writes flash, and reset into normal boot.                        *)
EXTENDS RecoveryWorker

CONSTANTS
  ChipSelects,    \* 2 for recovery_both: the image is programmed twice
  SettleUnits,    \* postFlashSettleSecs, in units of time
  ProgramUnits    \* the longest the HMC writes one chip select

ASSUME DfuTiming == ChipSelects \in 1..2 /\ SettleUnits \in Nat /\ ProgramUnits \in 1..SettleUnits

(* Between a reset and its enumeration, typically for two or three         *)
(* seconds, an HMC is "booting": off the bus, to come up in mode `next`.   *)
DfuHw == [mode: {"functional", "recovery", "uboot", "gone", "programming", "booting"},
          next: {"functional", "recovery", "gone"},
          flash: {"good", "bad", "torn"}, strap: BOOLEAN, driven: BOOLEAN,
          left: 0..(ProgramUnits * ChipSelects)]

(* An HMC comes up functional, in its boot ROM, in a recovery U-Boot an    *)
(* earlier attempt left behind, or not at all.                             *)
DfuHwInit == [mode: {"functional", "recovery", "uboot", "gone"}, next: {"gone"},
              flash: {"good", "bad"}, strap: {FALSE}, driven: {FALSE}, left: {0}]

(* The HMC enumerates, whatever the worker is doing meanwhile, and also    *)
(* after it has exited.                                                    *)
DfuComesUp(d) ==
  /\ hw[d].mode = "booting"
  /\ hw' = [hw EXCEPT ![d].mode = hw[d].next, ![d].next = "gone"]

(* The probe reads sysfs and `dfu-util -l`; without the listing a recovery *)
(* U-Boot is not recognised, and without a configured functional identity  *)
(* a healthy HMC is not.  The port filter keeps other HMCs out of it.      *)
getRecoveryStatus(d, listed, known) ==
  CASE hw[d].mode = "recovery" -> "BootRom"
    [] hw[d].mode = "uboot" /\ listed -> "RecoveryUBoot"
    [] hw[d].mode = "functional" /\ known -> "NotInRecovery"
    [] OTHER -> "Unknown"

(* The strap and the mux are driven, then reset is pulsed; a pulse that    *)
(* fails half way leaves the HMC in reset.                                 *)
Strapped(h, v, m, n) == [h EXCEPT !.strap = v, !.driven = TRUE, !.mode = m, !.next = n,
                                  !.flash = Torn(h), !.left = 0]
StrapOnly(h, v) == [h EXCEPT !.strap = v, !.driven = TRUE]

setRecoveryStrap(d, v, pulse, ok) ==
  LET h == hw[d] IN
  IF ok
  THEN \E n \in IF pulse THEN ResetModes(v, Torn(h)) ELSE {h.next} :
         hw' = [hw EXCEPT ![d] = IF pulse THEN Strapped(h, v, "booting", n) ELSE StrapOnly(h, v)]
  ELSE hw' \in { hw,                                         \* mux or strap line missing
                 [hw EXCEPT ![d] = StrapOnly(h, v)],         \* reset line missing
                 [hw EXCEPT ![d] = Strapped(h, v, "gone", "gone")] } \* reset not released

(* Every failure after the strap was driven returns the HMC to normal boot *)
(* as well as it can; whether that worked is not looked at.                *)
FailDeasserting(d) == \E ok \in BOOLEAN : setRecoveryStrap(d, FALSE, TRUE, ok) /\ Conclude(d, "failed")
FailSilently(d) == Conclude(d, "failed") /\ UNCHANGED hw

(* resolvePackageComponents: a missing or ambiguous component fails the    *)
(* whole request before any device is looked at.                           *)
DfuPackageIncomplete ==
  /\ ~exited /\ \A d \in Devices : pc[d] = "todo"
  /\ verdict' = [d \in Devices |-> "failed"] /\ task' = "error"
  /\ pc' = [d \in Devices |-> "done"] /\ UNCHANGED hw

(* GPIO names, USB identity and polarity of the device's Entity Manager    *)
(* object: a missing or malformed one fails the device.                    *)
DfuReadConfig(d) ==
  /\ Turn(d) /\ pc[d] = "todo"
  /\ FailSilently(d) \/ (Continue(d, "probe") /\ UNCHANGED hw)

(* The images and dfu-util are looked for before any line is driven.       *)
preflightChecks(d, step) == FailSilently(d) \/ (Continue(d, step) /\ UNCHANGED hw)

(* The HMC is probed: a healthy one is left alone, one that is in DFU      *)
(* already is not reset.                                                   *)
StepFor(status) == [BootRom |-> "hold", RecoveryUBoot |-> "holdUBoot", Unknown |-> "assert"][status]
DfuProbe(d) ==
  /\ Turn(d) /\ pc[d] = "probe"
  /\ \E listed, known \in BOOLEAN :
       LET status == getRecoveryStatus(d, listed, known) IN
       IF status = "NotInRecovery" THEN Conclude(d, "healthy") /\ UNCHANGED hw
       ELSE preflightChecks(d, StepFor(status))

(* PerformRecovery of the command line, which has options that the service *)
(* does not: with --force the probe does not count, a healthy HMC is       *)
(* strapped and flashed too.                                               *)
ByTool == svc = "usbdfu-tool"
DfuForced(d) == ByTool /\ Turn(d) /\ pc[d] = "probe" /\ preflightChecks(d, "assert")

(* Already in DFU: the lines are held without a reset pulse, which would   *)
(* lose a recovery U-Boot.                                                 *)
DfuHoldStraps(d) ==
  /\ Turn(d) /\ pc[d] \in {"hold", "holdUBoot"}
  /\ \E ok \in BOOLEAN :
       /\ setRecoveryStrap(d, TRUE, FALSE, ok)
       /\ IF ~ok THEN Conclude(d, "failed")
          ELSE Continue(d, IF pc[d] = "hold" THEN "bundle" ELSE "flash")

DfuAssertRecovery(d) ==
  /\ Turn(d) /\ pc[d] = "assert"
  /\ \E ok \in BOOLEAN :
       /\ setRecoveryStrap(d, TRUE, TRUE, ok)
       /\ IF ok THEN Continue(d, "enumerate") ELSE Conclude(d, "failed")

DfuWaitEnumeration(d) ==
  /\ Turn(d) /\ pc[d] = "enumerate"
  /\ \/ hw[d].mode = "recovery" /\ Continue(d, "bundle") /\ UNCHANGED hw
     \/ hw[d].mode # "recovery" /\ FailDeasserting(d)

(* The bundle is sent binary by binary; the last one starts U-Boot.        *)
DfuPreliminaryBundle(d) ==
  /\ Turn(d) /\ pc[d] = "bundle"
  /\ \/ FailDeasserting(d)
     \/ /\ \E m \in {"uboot", "gone"} : hw' = [hw EXCEPT ![d].mode = m]
        /\ Continue(d, "waitUBoot")

DfuWaitRecoveryUBoot(d) ==
  /\ Turn(d) /\ pc[d] = "waitUBoot"
  /\ \/ hw[d].mode = "uboot" /\ Continue(d, "flash") /\ UNCHANGED hw
     \/ FailDeasserting(d)

(* The image is cut to its flash length in a temporary file.               *)
DfuStageImage(d) ==
  /\ Turn(d) /\ pc[d] = "flash"
  /\ FailDeasserting(d) \/ (Continue(d, "download") /\ UNCHANGED hw)

(* The image goes to DRAM; ending the session makes U-Boot authenticate    *)
(* and write it.  The detach command can fail after it took effect.  With  *)
(* --no-detach the session is left open and nothing is written.            *)
Programming(h, n) == [h EXCEPT !.mode = "programming", !.left = n]
DfuFlashFirmware(d) ==
  /\ Turn(d) /\ pc[d] = "download"
  /\ \/ FailDeasserting(d)
     \/ \E n \in 1..(ProgramUnits * ChipSelects), s \in {"settle", "detachFailed"} :
          hw' = [hw EXCEPT ![d] = Programming(@, n)] /\ Continue(d, s)
     \/ ByTool /\ Continue(d, "deassert") /\ UNCHANGED hw

DfuDetachFailed(d) == Turn(d) /\ pc[d] = "detachFailed" /\ FailDeasserting(d)

(* U-Boot gives no sign that it is done, so the whole ceiling is waited    *)
(* for; the image it wrote is good only if it authenticated.               *)
SettleTime == SettleUnits * ChipSelects
DfuWaitProgrammed(d) ==
  /\ Turn(d) /\ pc[d] = "settle"
  /\ \E auth \in {"good", "bad"} :
       hw' = [hw EXCEPT ![d] =
                IF @.left <= SettleTime
                THEN [@ EXCEPT !.mode = "gone", !.left = 0, !.flash = auth]
                ELSE [@ EXCEPT !.left = @ - SettleTime]]
  /\ Continue(d, "deassert")

DfuDeassertRecovery(d) ==
  /\ Turn(d) /\ pc[d] = "deassert"
  /\ \E ok \in BOOLEAN :
       /\ setRecoveryStrap(d, FALSE, TRUE, ok)
       /\ IF ok THEN Continue(d, "verify") ELSE Conclude(d, "failed")

BugTrustsStrap(d) ==
  /\ Turn(d) /\ pc[d] = "verify" /\ Conclude(d, "recovered") /\ UNCHANGED hw
(* The worker calls it recovered at the first poll that does not find the  *)
(* boot ROM on the bus, and so also while the HMC is still booting.  With  *)
(* --no-verify it does not look.                                           *)
DfuVerifyExit(d) ==
  /\ Turn(d) /\ pc[d] = "verify"
  /\ \/ Conclude(d, IF hw[d].mode = "recovery" THEN "failed" ELSE "recovered")
     \/ ByTool /\ Conclude(d, "unverified")
  /\ UNCHANGED hw

DfuStep(d) ==
  \/ DfuReadConfig(d) \/ DfuHoldStraps(d) \/ DfuAssertRecovery(d) \/ DfuWaitEnumeration(d)
  \/ DfuPreliminaryBundle(d) \/ DfuWaitRecoveryUBoot(d) \/ DfuStageImage(d)
  \/ DfuFlashFirmware(d) \/ DfuDetachFailed(d) \/ DfuWaitProgrammed(d)
  \/ DfuDeassertRecovery(d) \/ DfuVerifyExit(d)

DfuNext == DfuPackageIncomplete \/ \E d \in Devices : DfuStep(d) \/ DfuProbe(d)
DfuToolNext == DfuNext \/ \E d \in Devices : DfuForced(d)
===========================================================================
