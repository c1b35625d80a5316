-------------------------- MODULE RecoveryWorkers --------------------------
(* Whichever worker the updater starts, the contract it keeps              *)
(* with the devices and with the message registry.                         *)
EXTENDS UsbDfu, McuRecovery, OcpRecovery, GlacierRecovery, DebugToken, NicForce

Services == {"usbdfu", "usbdfu-tool", "mcu", "mcu-force", "mcu-reset", "mcu-setforce", "ocp", "glacier",
             "token-install", "token-erase", "nic-force"}

HwInit(s) ==
  CASE s \in {"usbdfu", "usbdfu-tool"} -> DfuHwInit
    [] s = "ocp" -> OcpHwInit
    [] s = "glacier" -> GlacierHwInit
    [] s \in {"token-install", "token-erase"} -> TokenHwInit
    [] s = "nic-force" -> NicHwInit
    [] OTHER -> McuHwInit

Init ==
  /\ svc \in Services
  /\ hw \in [Devices -> HwInit(svc)]
  /\ pc = [d \in Devices |-> "todo"]
  /\ verdict = [d \in Devices |-> "none"]
  /\ task = "ok" /\ exited = FALSE

Work ==
  \/ svc = "usbdfu" /\ DfuNext
  \/ svc = "usbdfu-tool" /\ DfuToolNext
  \/ svc = "mcu" /\ McuNext
  \/ svc = "mcu-force" /\ McuForceNext
  \/ svc = "mcu-reset" /\ McuResetNext
  \/ svc = "mcu-setforce" /\ McuSetForceNext
  \/ svc = "ocp" /\ OcpNext
  \/ svc = "glacier" /\ GlacierNext
  \/ svc = "token-install" /\ TokenInstallNext
  \/ svc = "token-erase" /\ TokenEraseNext
  \/ svc = "nic-force" /\ NicForceNext

Running == (Work /\ UNCHANGED <<svc, exited>>) \/ (Exit /\ UNCHANGED svc)

(* The worker is a oneshot service; the next request starts another one.   *)
Done == exited /\ UNCHANGED vars

(* An HMC that was reset enumerates in its own time.                       *)
Enumerates ==
  /\ svc \in {"usbdfu", "usbdfu-tool"} /\ \E d \in Devices : DfuComesUp(d)
  /\ UNCHANGED <<svc, pc, verdict, task, exited>>

Next == Running \/ Enumerates \/ Done

(* A worker's threads are scheduled and every wait in them has a deadline. *)
Spec == Init /\ [][Next]_vars /\ WF_vars(Running)

TypeOK ==
  /\ svc \in Services
  /\ \A d \in Devices : hw[d].mode \in {"functional", "recovery", "uboot", "programming",
                                        "booting", "unknown", "gone"}
  /\ verdict \in [Devices -> {"none", "healthy", "recovered", "unverified", "failed"}]
  /\ task \in {"ok", "error"} /\ exited \in BOOLEAN

Contract == INSTANCE RecoveryContract
              WITH touched <- [d \in Devices |-> hw[d].driven],
                   inRecovery <- [d \in Devices |-> InRecovery(d)],
                   booting <- [d \in Devices |-> hw[d].mode = "booting"],
                   misread <- [d \in Devices |-> svc = "glacier" /\ hw[d].garbled],
                   verdict <- verdict

(* Every worker keeps the recovery contract: the devices it reports        *)
(* healthy were never strapped, reset or written, and the ones it reports  *)
(* recovered were, are out of recovery mode, and are left alone from then  *)
(* on, whichever step failed on the way.  usb-dfu recovery looks as soon   *)
(* as it has released the reset: an HMC that is still booting then is out  *)
(* of recovery mode, and what it comes up as is not promised; with         *)
(* --no-verify nothing is.  An ERoT is believed to run its firmware, also  *)
(* when its loader's answer was garbled on the wire.                       *)
KeepsContract == Contract!Spec

(* An HMC reported recovered, verified or not, does not hold an image that *)
(* a reset of the worker tore while it was written, as long as U-Boot      *)
(* needs no longer than the settle time; a GPU reported recovered was sent *)
(* every image, each chunk of it exactly once, whatever was retried.  A    *)
(* device the token tool counts as done holds every token the package has  *)
(* for it, or none after an erasure, also when an operation that missed    *)
(* its deadline ended while the next one was awaited.                      *)
ReportedWorkIsDone == \A d \in Devices : verdict[d] \in {"recovered", "unverified"} =>
  /\ svc \in {"usbdfu", "usbdfu-tool"} => hw[d].flash # "torn"
  /\ svc = "ocp" => hw[d].intact /\ hw[d].activated = Images
  /\ svc = "token-install" => 1..hw[d].want \subseteq hw[d].held
  /\ svc = "token-erase" => hw[d].held = {}

(* usb-dfu and OCP recovery and the installation of tokens do not exit 0   *)
(* when a device failed, so the updater's JobRemoved handler sees the      *)
(* failure; SetRecoveryMode of a NIC throws.  Nor does SetForceRecovery    *)
(* when an MCU it looked for is not in recovery mode; but one whose lines  *)
(* cannot be opened or driven it gives up on with 0, and the other MCU     *)
(* commands, glacier recovery and token erasure make no such promise.      *)
ExitTellsFailure ==
  /\ exited /\ svc \in {"usbdfu", "usbdfu-tool", "ocp", "token-install", "nic-force"}
       /\ (\E d \in Devices : verdict[d] = "failed")
     => task = "error"
  /\ svc = "mcu-setforce" /\ exited /\ task = "ok"
     => \/ \A d \in Devices : InRecovery(d)          \* as every look at them found
        \/ \A d \in Devices : verdict[d] = "failed"  \* gave up

(* Whatever the devices do, the worker ends, and the updater that waits    *)
(* for its unit is released.                                               *)
WorkerEnds == <>exited
===========================================================================
