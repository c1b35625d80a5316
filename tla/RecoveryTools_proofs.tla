----------------------- MODULE RecoveryTools_proofs -----------------------
(* That every recovery worker implements the recovery contract, that what  *)
(* it reports as done is done and that its exit status tells a failure,    *)
(* for any number of devices, images, chunks, retries, rounds and tokens;  *)
(* that no Vera CPU samples half programmed straps, and that the USB RCM   *)
(* worker passes over no progress code, for any number of images, polls,   *)
(* queue slots and codes.                                                  *)
EXTENDS RecoveryWorkers, VeraRecovery, FiniteSetTheorems, WellFoundedInduction, TLAPS

---------------------------------------------------------------------------
(* What each worker knows of a device at step p of its handling, with the  *)
(* hardware in state h and the verdict v.                                  *)

Verdict == {"none", "healthy", "recovered", "unverified", "failed"}
RecoveryMode(h) == h.mode \in {"recovery", "uboot", "programming"}

(* An HMC is not written before its lines are driven, writes flash only    *)
(* while the worker waits or gives up, and is never torn on the way to a   *)
(* report of success.                                                      *)
DfuInv(p, h, v) ==
  /\ h \in DfuHw
  /\ p \in {"todo", "probe"} => ~h.driven
  /\ p \in {"enumerate", "bundle", "waitUBoot", "flash", "download", "settle", "detachFailed",
            "deassert", "verify"} => h.driven
  /\ p \notin {"settle", "detachFailed", "done"} => h.mode # "programming" /\ h.flash # "torn"
  /\ p = "verify" => h.mode \in {"functional", "recovery", "gone", "booting"}
  /\ v \in {"recovered", "unverified"} => h.flash # "torn"

McuHw == [mode : {"functional", "recovery", "gone"}, flash : {"good", "bad"}, strap : BOOLEAN,
          driven : BOOLEAN, rounds : Nat, pins : BOOLEAN, provisioned : BOOLEAN]
McuInv(s, p, h) ==
  /\ h \in McuHw
  /\ s \in {"mcu", "mcu-force"} => /\ p = "todo" => ~h.driven
                                   /\ p = "check" => h.driven

(* A GPU that runs after the last activation was sent intact images.       *)
OcpHw == [mode : {"functional", "recovery", "unknown", "gone"}, flash : {"good", "bad"},
          strap : BOOLEAN, driven : BOOLEAN, activated : Nat, sent : Nat, attempt : Nat,
          copies : Nat, intact : BOOLEAN]
OcpInv(p, h, v) ==
  /\ h \in OcpHw
  /\ p = "todo" => ~h.driven
  /\ p \in {"chunk", "ack", "check"} => h.driven
  /\ p \in {"todo", "force", "forced", "image", "chunk", "ack"} => h.activated < Images
  /\ p = "check" => h.activated = Images /\ (h.mode = "functional" => h.intact)
  /\ v \in {"recovered", "unverified"} => h.intact /\ h.activated = Images

GlacierHw == [mode : {"functional", "recovery", "gone"}, flash : {"good", "bad"}, strap : BOOLEAN,
              driven : BOOLEAN, tries : Nat, sent : Nat, hidden : BOOLEAN, garbled : BOOLEAN]
GlacierInv(p, h) ==
  /\ h \in GlacierHw
  /\ p = "todo" => ~h.driven /\ h.sent = 0 /\ ~h.garbled
  /\ p = "write" => (h.sent > 0 => h.driven)
  /\ p = "check" => h.driven

(* The operations before the one at hand are settled; unless one of them   *)
(* went wrong they succeeded, and a success shows in what the device holds.*)
OpStates == {"InProgress", "never", "Success", "NotInstalled", "Error"}
TokenHw == [mode : {"functional"}, driven : BOOLEAN, id : BOOLEAN, want : Nat, at : Nat,
            ops : Seq(OpStates), held : SUBSET Nat, status : OpStates \cup {"none"}, polls : Int,
            bad : BOOLEAN]
Settled(p, h) == {i \in 1..h.at : p \in {"get", "wait"} => i # h.at}
GoodStates(s) == IF s = "token-erase" THEN {"Success", "NotInstalled"} ELSE {"Success"}
Shows(s, h, i) == IF s = "token-erase" THEN h.held = {} ELSE i \in h.held
TokenInv(s, p, h, v) ==
  /\ h \in TokenHw /\ Len(h.ops) = h.at
  /\ p \in {"todo", "match"} => h.at = 0
  /\ p = "call" => h.at < h.want
  /\ p \in {"get", "wait"} => h.at >= 1 /\ h.at <= h.want /\ h.driven
  /\ ~h.bad => (h.at > 0 => h.driven) /\ \A i \in Settled(p, h) : h.ops[i] \in GoodStates(s)
  /\ \A i \in 1..h.at : h.ops[i] \in GoodStates(s) => Shows(s, h, i)
  /\ v \in {"recovered", "unverified"} => ~h.bad /\ h.at >= 1 /\ h.at >= h.want /\ p = "done"

NicHw == [mode : {"functional", "recovery", "gone"}, driven : BOOLEAN, gpio : BOOLEAN, strap : BOOLEAN,
          low : BOOLEAN]
NicInv(p, h) ==
  /\ h \in NicHw
  /\ p = "todo" => ~h.driven
  /\ p \in {"fnp", "assert", "release"} => h.driven

ServiceInv(s, p, h, v) ==
  /\ s \in {"usbdfu", "usbdfu-tool"} => DfuInv(p, h, v)
  /\ s \in {"mcu", "mcu-force", "mcu-reset", "mcu-setforce"} => McuInv(s, p, h)
  /\ s = "ocp" => OcpInv(p, h, v)
  /\ s = "glacier" => GlacierInv(p, h)
  /\ s \in {"token-install", "token-erase"} => TokenInv(s, p, h, v)
  /\ s = "nic-force" => NicInv(p, h)

(* The workers whose exit status the updater can trust.                    *)
TellsFailure == {"usbdfu", "usbdfu-tool", "ocp", "token-install", "nic-force"}

(* A device has a verdict only when the worker is done with it.            *)
WorkerInv ==
  /\ svc \in Services /\ task \in {"ok", "error"} /\ exited \in BOOLEAN
  /\ pc = [d \in Devices |-> pc[d]] /\ hw = [d \in Devices |-> hw[d]] /\ verdict \in [Devices -> Verdict]
  /\ \A d \in Devices : /\ ServiceInv(svc, pc[d], hw[d], verdict[d])
                        /\ verdict[d] # "none" => pc[d] = "done"
                        /\ verdict[d] = "failed" /\ svc \in TellsFailure => task = "error"

(* What every step of a worker has to be shown to do.                      *)
GoodStep == WorkerInv' /\ [Contract!Next]_(Contract!vars)

---------------------------------------------------------------------------
(* Steps of one device                                                     *)

(* A step on device d, and what is allowed of it.                          *)
Moved(d, p, h, v) ==
  /\ pc' = [pc EXCEPT ![d] = p] /\ hw' = [hw EXCEPT ![d] = h] /\ verdict' = [verdict EXCEPT ![d] = v]
  /\ UNCHANGED <<svc, exited>> /\ task' \in {task, "error"}
Sound(p, h, v) ==
  /\ ServiceInv(svc, p, h, v) /\ v \in Verdict /\ (v # "none" => p = "done")
  /\ v = "failed" /\ svc \in TellsFailure => task' = "error"

(* The other devices are left alone.                                       *)
LEMMA OneDevice ==
  ASSUME WorkerInv, NEW d \in Devices, NEW p, NEW h, NEW v, Moved(d, p, h, v), Sound(p, h, v)
  PROVE  WorkerInv' /\ hw'[d] = h /\ \A e \in Devices : e # d => hw'[e] = hw[e]
<1>1. /\ pc = [e \in Devices |-> pc[e]] /\ hw = [e \in Devices |-> hw[e]] /\ verdict \in [Devices -> Verdict]
      /\ svc \in Services /\ task \in {"ok", "error"} /\ exited \in BOOLEAN
  BY DEF WorkerInv
<1>2. /\ pc'[d] = p /\ \A e \in Devices : e # d => pc'[e] = pc[e]
      /\ pc' = [e \in Devices |-> pc'[e]]
  BY <1>1 DEF Moved
<1>3. /\ hw'[d] = h /\ \A e \in Devices : e # d => hw'[e] = hw[e]
      /\ hw' = [e \in Devices |-> hw'[e]]
  BY <1>1 DEF Moved
<1>4. /\ verdict'[d] = v /\ \A e \in Devices : e # d => verdict'[e] = verdict[e]
      /\ verdict' \in [Devices -> Verdict]
  BY <1>1 DEF Moved, Sound
<1>5. ASSUME NEW e \in Devices
      PROVE  /\ ServiceInv(svc, pc'[e], hw'[e], verdict'[e])
             /\ verdict'[e] # "none" => pc'[e] = "done"
             /\ verdict'[e] = "failed" /\ svc \in TellsFailure => task' = "error"
  <2>1. CASE e = d
    BY <1>2, <1>3, <1>4, <2>1 DEF Sound
  <2>2. CASE e # d
    BY <1>2, <1>3, <1>4, <2>2 DEF WorkerInv, Moved
  <2> QED
    BY <2>1, <2>2
<1>6. WorkerInv'
  BY <1>1, <1>2, <1>3, <1>4, <1>5 DEF WorkerInv, Moved
<1> QED
  BY <1>3, <1>6

(* A step leaves a device as the contract sees it, or disturbs it.         *)
Garbled(h) == svc = "glacier" /\ h.garbled
Undisturbed(g, h) ==
  h.driven = g.driven /\ RecoveryMode(h) = RecoveryMode(g) /\ (h.mode = "booting" <=> g.mode = "booting")
Disturbed(h) == h.driven = TRUE

LEMMA UndisturbedMaps ==
  ASSUME NEW d \in Devices, NEW h, hw'[d] = h, \A e \in Devices : e # d => hw'[e] = hw[e], Undisturbed(hw[d], h)
  PROVE  /\ [e \in Devices |-> hw[e].driven]' = [e \in Devices |-> hw[e].driven]
         /\ [e \in Devices |-> InRecovery(e)]' = [e \in Devices |-> InRecovery(e)]
         /\ [e \in Devices |-> hw[e].mode = "booting"]' = [e \in Devices |-> hw[e].mode = "booting"]
  BY DEF Undisturbed, InRecovery, RecoveryMode

(* What was misread of the other devices stays as it is.                   *)
LEMMA GarbledMaps ==
  ASSUME NEW d \in Devices, NEW h, hw'[d] = h, \A e \in Devices : e # d => hw'[e] = hw[e], UNCHANGED svc
  PROVE  [e \in Devices |-> svc = "glacier" /\ hw[e].garbled]'
           = [[e \in Devices |-> svc = "glacier" /\ hw[e].garbled] EXCEPT ![d] = Garbled(h)]
  BY DEF Garbled

LEMMA DisturbedMaps ==
  ASSUME NEW d \in Devices, NEW h, hw'[d] = h, \A e \in Devices : e # d => hw'[e] = hw[e], Disturbed(h),
         verdict[d] \in {"none", "failed"}, UNCHANGED verdict \/ verdict' = [verdict EXCEPT ![d] = "failed"],
         UNCHANGED svc
  PROVE  Contract!Disturb(d)
<1>1. [e \in Devices |-> hw[e].driven]' = [[e \in Devices |-> hw[e].driven] EXCEPT ![d] = TRUE]
  BY DEF Disturbed
<1>2. [e \in Devices |-> InRecovery(e)]' = [[e \in Devices |-> InRecovery(e)] EXCEPT ![d] = RecoveryMode(h)]
  BY DEF InRecovery, RecoveryMode
<1>3. RecoveryMode(h) \in BOOLEAN /\ (h.mode = "booting") \in BOOLEAN /\ Garbled(h) \in BOOLEAN
  BY DEF RecoveryMode, Garbled
<1>4. [e \in Devices |-> hw[e].mode = "booting"]'
        = [[e \in Devices |-> hw[e].mode = "booting"] EXCEPT ![d] = (h.mode = "booting")]
  OBVIOUS
<1>5. [e \in Devices |-> svc = "glacier" /\ hw[e].garbled]'
        = [[e \in Devices |-> svc = "glacier" /\ hw[e].garbled] EXCEPT ![d] = Garbled(h)]
  BY GarbledMaps
<1> QED
  BY <1>1, <1>2, <1>3, <1>4, <1>5 DEF Contract!Disturb

(* The worker goes on with a device.                                       *)
LEMMA Goes ==
  ASSUME WorkerInv, NEW d \in Devices, NEW p, NEW h, verdict[d] = "none",
         Moved(d, p, h, "none"), ServiceInv(svc, p, h, "none"),
         (Undisturbed(hw[d], h) /\ (svc = "glacier" => h.garbled = hw[d].garbled)) \/ Disturbed(h)
  PROVE  GoodStep
<1>1. Sound(p, h, "none") /\ UNCHANGED <<verdict, svc>>
  BY DEF WorkerInv, Verdict, Sound, Moved
<1>2. WorkerInv' /\ hw'[d] = h /\ \A e \in Devices : e # d => hw'[e] = hw[e]
  BY <1>1, OneDevice
<1>3. CASE Disturbed(h)
  BY <1>1, <1>2, <1>3, DisturbedMaps DEF GoodStep, Contract!Next
<1>4. CASE Undisturbed(hw[d], h) /\ (svc = "glacier" => h.garbled = hw[d].garbled)
  <2>1. [e \in Devices |-> svc = "glacier" /\ hw[e].garbled]' = [e \in Devices |-> svc = "glacier" /\ hw[e].garbled]
    BY <1>1, <1>2, <1>4
  <2> QED
    BY <1>1, <1>2, <1>4, <2>1, UndisturbedMaps DEF GoodStep, Contract!vars
<1> QED
  BY <1>3, <1>4

(* The worker reports a device.                                            *)
LEMMA Reports ==
  ASSUME WorkerInv, NEW d \in Devices, NEW h, NEW v \in {"healthy", "recovered", "unverified", "failed"}, verdict[d] = "none",
         Moved(d, "done", h, v), ServiceInv(svc, "done", h, v),
         v = "failed" /\ svc \in TellsFailure => task' = "error",
         \/ v = "failed" /\ Disturbed(h)
         \/ /\ Undisturbed(hw[d], h)
            /\ v = "healthy" => hw[d].driven = FALSE /\ (Garbled(h) \/ ~RecoveryMode(h))
            /\ v = "recovered" => hw[d].driven = TRUE /\ (Garbled(h) \/ ~RecoveryMode(h))
            /\ v = "unverified" => hw[d].driven = TRUE
  PROVE  GoodStep
<1>1. Sound("done", h, v) /\ verdict' = [verdict EXCEPT ![d] = v]
  BY DEF Sound, Verdict, Moved
<1>2. WorkerInv' /\ hw'[d] = h /\ \A e \in Devices : e # d => hw'[e] = hw[e]
  BY <1>1, OneDevice
<1>3. CASE v = "failed" /\ Disturbed(h)
  <2>1. verdict' = [verdict EXCEPT ![d] = "failed"] /\ UNCHANGED svc
    BY <1>1, <1>3 DEF Moved
  <2> QED
    BY <1>2, <1>3, <2>1, DisturbedMaps DEF GoodStep, Contract!Next
<1>4. CASE /\ Undisturbed(hw[d], h)
           /\ v = "healthy" => hw[d].driven = FALSE /\ (Garbled(h) \/ ~RecoveryMode(h))
           /\ v = "recovered" => hw[d].driven = TRUE /\ (Garbled(h) \/ ~RecoveryMode(h))
           /\ v = "unverified" => hw[d].driven = TRUE
  <2>1. /\ [e \in Devices |-> hw[e].driven]' = [e \in Devices |-> hw[e].driven]
        /\ [e \in Devices |-> InRecovery(e)]' = [e \in Devices |-> InRecovery(e)]
        /\ [e \in Devices |-> hw[e].mode = "booting"]' = [e \in Devices |-> hw[e].mode = "booting"]
    BY <1>2, <1>4, UndisturbedMaps
  <2>2. InRecovery(d) = RecoveryMode(h)
    BY <1>4 DEF Undisturbed, InRecovery, RecoveryMode
  <2>3. /\ Garbled(h) \in BOOLEAN
        /\ [e \in Devices |-> svc = "glacier" /\ hw[e].garbled]'
             = [[e \in Devices |-> svc = "glacier" /\ hw[e].garbled] EXCEPT ![d] = Garbled(h)]
        /\ [e \in Devices |-> svc = "glacier" /\ hw[e].garbled]'[d] = Garbled(h)
    BY <1>2, GarbledMaps DEF Garbled, Moved
  <2>4. Contract!Report(d)
    BY <1>1, <1>4, <2>1, <2>2, <2>3 DEF Contract!Report, Contract!Verdicts
  <2> QED
    BY <1>2, <2>4 DEF GoodStep, Contract!Next
<1> QED
  BY <1>3, <1>4

(* The device moves by itself, also after it was reported.                 *)
LEMMA Settles ==
  ASSUME WorkerInv, NEW d \in Devices, NEW h, hw' = [hw EXCEPT ![d] = h],
         UNCHANGED <<svc, exited, pc, verdict, task>>, ServiceInv(svc, pc[d], h, verdict[d]),
         Undisturbed(hw[d], h), svc # "glacier"
  PROVE  GoodStep
<1>1. Moved(d, pc[d], h, verdict[d]) /\ Sound(pc[d], h, verdict[d]) /\ UNCHANGED verdict
  BY DEF WorkerInv, Moved, Sound
<1>2. WorkerInv' /\ hw'[d] = h /\ \A e \in Devices : e # d => hw'[e] = hw[e]
  BY <1>1, OneDevice
<1> QED
  BY <1>1, <1>2, UndisturbedMaps DEF GoodStep, Contract!vars, Garbled

(* A step that concerns every device: all are done with, and either none   *)
(* is reported or all have failed.                                         *)
LEMMA AllDone ==
  ASSUME WorkerInv, \A d \in Devices : pc[d] # "done", UNCHANGED <<svc, exited, hw>>,
         task' \in {"ok", "error"}, pc' = [d \in Devices |-> "done"],
         \A d \in Devices : ServiceInv(svc, "done", hw[d], "none") /\ ServiceInv(svc, "done", hw[d], "failed"),
         \/ UNCHANGED verdict
         \/ verdict' = [d \in Devices |-> "failed"] /\ (svc \in TellsFailure => task' = "error")
  PROVE  GoodStep
<1>1. \A d \in Devices : verdict[d] = "none"
  BY DEF WorkerInv
<1>2. verdict \in [Devices -> Verdict] /\ svc \in Services /\ exited \in BOOLEAN /\ hw = [d \in Devices |-> hw[d]]
  BY DEF WorkerInv
<1>3. CASE UNCHANGED verdict
  <2>1. WorkerInv'
    BY <1>1, <1>2, <1>3 DEF WorkerInv
  <2>2. UNCHANGED Contract!vars
    BY <1>3 DEF Contract!vars, InRecovery
  <2> QED
    BY <2>1, <2>2 DEF GoodStep
<1>4. CASE verdict' = [d \in Devices |-> "failed"] /\ (svc \in TellsFailure => task' = "error")
  <2>1. WorkerInv'
    BY <1>1, <1>2, <1>4 DEF WorkerInv, Verdict
  <2>2. Contract!ReportAll
    BY <1>1, <1>4 DEF Contract!ReportAll, InRecovery
  <2> QED
    BY <2>1, <2>2 DEF GoodStep, Contract!Next
<1> QED
  BY <1>3, <1>4

(* The same in the terms the workers use: hw changes at d only, and the    *)
(* worker continues or concludes.                                          *)
HwAt(d, h) == hw' = [hw EXCEPT ![d] = h] /\ UNCHANGED <<svc, exited>>

LEMMA HwKept ==
  ASSUME WorkerInv, NEW d \in Devices, UNCHANGED <<hw, svc, exited>>
  PROVE  HwAt(d, hw[d]) /\ Undisturbed(hw[d], hw[d])
  BY DEF WorkerInv, HwAt, Undisturbed

LEMMA Continues ==
  ASSUME WorkerInv, NEW d \in Devices, pc[d] # "done", NEW p, NEW h, Continue(d, p), HwAt(d, h),
         ServiceInv(svc, p, h, "none"),
         (Undisturbed(hw[d], h) /\ (svc = "glacier" => h.garbled = hw[d].garbled)) \/ Disturbed(h)
  PROVE  GoodStep
<1>1. verdict[d] = "none"
  BY DEF WorkerInv
<1>2. Moved(d, p, h, "none")
  BY <1>1 DEF WorkerInv, Continue, Goto, HwAt, Moved
<1> QED
  BY <1>1, <1>2, Goes

LEMMA Concludes ==
  ASSUME WorkerInv, NEW d \in Devices, pc[d] # "done", NEW h, NEW v \in {"healthy", "recovered", "unverified", "failed"},
         Conclude(d, v), HwAt(d, h), ServiceInv(svc, "done", h, v),
         \/ v = "failed" /\ Disturbed(h)
         \/ /\ Undisturbed(hw[d], h)
            /\ v = "healthy" => hw[d].driven = FALSE /\ (Garbled(h) \/ ~RecoveryMode(h))
            /\ v = "recovered" => hw[d].driven = TRUE /\ (Garbled(h) \/ ~RecoveryMode(h))
            /\ v = "unverified" => hw[d].driven = TRUE
  PROVE  GoodStep
<1>1. verdict[d] = "none"
  BY DEF WorkerInv
<1>2. Moved(d, "done", h, v) /\ (v = "failed" => task' = "error")
  BY DEF Conclude, Goto, HwAt, Moved
<1> QED
  BY <1>1, <1>2, Reports

(* Outcomes that do not touch the device.                                  *)
LEMMA FailsQuietly ==
  ASSUME WorkerInv, NEW d \in Devices, pc[d] # "done", Conclude(d, "failed"), UNCHANGED <<hw, svc, exited>>,
         ServiceInv(svc, "done", hw[d], "failed")
  PROVE  GoodStep
  BY HwKept, Concludes

LEMMA ContinuesQuietly ==
  ASSUME WorkerInv, NEW d \in Devices, pc[d] # "done", NEW p, Continue(d, p), UNCHANGED <<hw, svc, exited>>,
         ServiceInv(svc, p, hw[d], "none")
  PROVE  GoodStep
  BY HwKept, Continues

---------------------------------------------------------------------------
(* usb-dfu-recovery                                                        *)

LEMMA DfuService ==
  ASSUME svc \in {"usbdfu", "usbdfu-tool"}
  PROVE  \A p, h, v : ServiceInv(svc, p, h, v) <=> DfuInv(p, h, v)
  BY DEF ServiceInv

(* The longest programming is over when the settle time is.                *)
LEMMA SettleCovers ==
  /\ ProgramUnits * ChipSelects \in Nat /\ SettleTime \in Nat /\ ProgramUnits * ChipSelects <= SettleTime
  /\ ProgramUnits * ChipSelects >= 1
<1>1. CASE ChipSelects = 1
  BY <1>1, DfuTiming DEF SettleTime
<1>2. CASE ChipSelects = 2
  BY <1>2, DfuTiming DEF SettleTime
<1> QED
  BY <1>1, <1>2, DfuTiming

LEMMA StrapFacts ==
  ASSUME WorkerInv, NEW d \in Devices, hw[d] \in DfuHw, UNCHANGED <<svc, exited>>,
         NEW v \in BOOLEAN, NEW pulse \in BOOLEAN, NEW ok \in BOOLEAN, setRecoveryStrap(d, v, pulse, ok)
  PROVE  \E h : /\ HwAt(d, h) /\ h \in DfuHw
                /\ IF ok THEN Disturbed(h) ELSE Undisturbed(hw[d], h) \/ Disturbed(h)
                /\ ok /\ pulse => h.flash = Torn(hw[d]) /\ h.mode = "booting"
                /\ ok /\ ~pulse => h.flash = hw[d].flash /\ h.mode = hw[d].mode
<1>1. /\ Torn(hw[d]) \in {"good", "bad", "torn"} /\ 0 \in 0..(ProgramUnits * ChipSelects)
      /\ \A m \in ResetModes(v, Torn(hw[d])) : m \in {"functional", "recovery", "gone"}
  BY SettleCovers DEF Torn, DfuHw, ResetModes
<1>2. \A m \in {"gone", "booting"}, n \in {"functional", "recovery", "gone"} :
        LET h == Strapped(hw[d], v, m, n)
        IN h \in DfuHw /\ Disturbed(h) /\ h.flash = Torn(hw[d]) /\ h.mode = m
  BY <1>1 DEF Strapped, DfuHw, Disturbed
<1>3. LET h == StrapOnly(hw[d], v)
      IN h \in DfuHw /\ Disturbed(h) /\ h.flash = hw[d].flash /\ h.mode = hw[d].mode
  BY DEF StrapOnly, DfuHw, Disturbed
<1>4. CASE ok /\ pulse
  <2>1. PICK n \in ResetModes(v, Torn(hw[d])) : hw' = [hw EXCEPT ![d] = Strapped(hw[d], v, "booting", n)]
    BY <1>4 DEF setRecoveryStrap
  <2> QED
    BY <1>1, <1>2, <1>4, <2>1 DEF HwAt
<1>5. CASE ok /\ ~pulse
  <2>1. hw' = [hw EXCEPT ![d] = StrapOnly(hw[d], v)]
    BY <1>5 DEF setRecoveryStrap
  <2> QED
    BY <1>3, <1>5, <2>1 DEF HwAt
<1>6. CASE ~ok
  <2>1. \/ hw' = hw \/ hw' = [hw EXCEPT ![d] = StrapOnly(hw[d], v)]
        \/ hw' = [hw EXCEPT ![d] = Strapped(hw[d], v, "gone", "gone")]
    BY <1>6 DEF setRecoveryStrap
  <2>2. CASE hw' = hw
    BY <1>6, <2>2, HwKept
  <2>3. CASE hw' # hw
    BY <1>2, <1>3, <1>6, <2>1, <2>3 DEF HwAt
  <2> QED
    BY <2>2, <2>3
<1> QED
  BY <1>4, <1>5, <1>6

(* Giving up on an HMC, whether or not it can be returned to normal boot.  *)
LEMMA FailDeassertingGood ==
  ASSUME WorkerInv, svc \in {"usbdfu", "usbdfu-tool"}, NEW d \in Devices, pc[d] # "done",
         FailDeasserting(d), UNCHANGED <<svc, exited>>
  PROVE  GoodStep
<1>1. hw[d] \in DfuHw
  BY DfuService DEF WorkerInv, DfuInv
<1>2. PICK ok \in BOOLEAN : setRecoveryStrap(d, FALSE, TRUE, ok) /\ Conclude(d, "failed")
  BY DEF FailDeasserting
<1>3. PICK h : HwAt(d, h) /\ h \in DfuHw /\ (Undisturbed(hw[d], h) \/ Disturbed(h))
  BY <1>1, <1>2, StrapFacts
<1>4. ServiceInv(svc, "done", h, "failed")
  BY <1>3, DfuService DEF DfuInv
<1> QED
  BY <1>2, <1>3, <1>4, Concludes

(* A change of hw that ends in the next step of the same worker.           *)
LEMMA DfuContinues ==
  ASSUME WorkerInv, svc \in {"usbdfu", "usbdfu-tool"}, NEW d \in Devices, pc[d] # "done",
         NEW p, NEW h, Continue(d, p), HwAt(d, h), DfuInv(p, h, "none"), Disturbed(h)
  PROVE  GoodStep
  BY DfuService, Continues

LEMMA DfuStepGood ==
  ASSUME WorkerInv, svc \in {"usbdfu", "usbdfu-tool"}, NEW d \in Devices, DfuStep(d), UNCHANGED <<svc, exited>>
  PROVE  GoodStep
<1>1. DfuInv(pc[d], hw[d], verdict[d]) /\ hw[d] \in DfuHw
  BY DfuService DEF WorkerInv, DfuInv
<1>2. DfuInv("done", hw[d], "failed")
  BY <1>1 DEF DfuInv
<1>3. ASSUME pc[d] # "done", Conclude(d, "failed"), UNCHANGED hw PROVE GoodStep
  BY <1>2, <1>3, DfuService, FailsQuietly
<1>4. ASSUME pc[d] # "done", NEW p, Continue(d, p), UNCHANGED hw, DfuInv(p, hw[d], "none") PROVE GoodStep
  BY <1>4, DfuService, ContinuesQuietly
<1>5. CASE DfuReadConfig(d)
  <2>1. DfuInv("probe", hw[d], "none")
    BY <1>1, <1>5 DEF DfuInv, DfuReadConfig
  <2> QED
    BY <1>3, <1>4, <1>5, <2>1 DEF DfuReadConfig, FailSilently
<1>6. CASE DfuHoldStraps(d)
  <2>1. PICK ok \in BOOLEAN :
          /\ setRecoveryStrap(d, TRUE, FALSE, ok)
          /\ IF ~ok THEN Conclude(d, "failed") ELSE \E p \in {"bundle", "flash"} : Continue(d, p)
    BY <1>6 DEF DfuHoldStraps
  <2>2. PICK h : /\ HwAt(d, h) /\ h \in DfuHw
                 /\ IF ok THEN Disturbed(h) ELSE Undisturbed(hw[d], h) \/ Disturbed(h)
                 /\ ok => h.flash = hw[d].flash /\ h.mode = hw[d].mode
    BY <1>1, <2>1, StrapFacts
  <2>3. CASE ok
    <3>1. PICK p \in {"bundle", "flash"} : Continue(d, p)
      BY <2>1, <2>3
    <3>2. DfuInv(p, h, "none")
      BY <1>1, <1>6, <2>2, <2>3 DEF DfuInv, Disturbed, DfuHoldStraps
    <3> QED
      BY <1>6, <2>2, <2>3, <3>1, <3>2, DfuContinues DEF DfuHoldStraps
  <2>4. CASE ~ok
    <3>1. ServiceInv(svc, "done", h, "failed")
      BY <2>2, DfuService DEF DfuInv
    <3> QED
      BY <1>6, <2>1, <2>2, <2>4, <3>1, Concludes DEF DfuHoldStraps
  <2> QED
    BY <2>3, <2>4
<1>7. CASE DfuAssertRecovery(d)
  <2>1. PICK ok \in BOOLEAN :
          /\ setRecoveryStrap(d, TRUE, TRUE, ok)
          /\ IF ok THEN Continue(d, "enumerate") ELSE Conclude(d, "failed")
    BY <1>7 DEF DfuAssertRecovery
  <2>2. PICK h : /\ HwAt(d, h) /\ h \in DfuHw
                 /\ IF ok THEN Disturbed(h) ELSE Undisturbed(hw[d], h) \/ Disturbed(h)
                 /\ ok => h.flash = Torn(hw[d]) /\ h.mode = "booting"
    BY <1>1, <2>1, StrapFacts
  <2>3. CASE ok
    <3>1. DfuInv("enumerate", h, "none")
      BY <1>1, <1>7, <2>2, <2>3 DEF DfuInv, Disturbed, DfuAssertRecovery, Torn
    <3> QED
      BY <1>7, <2>1, <2>2, <2>3, <3>1, DfuContinues DEF DfuAssertRecovery
  <2>4. CASE ~ok
    <3>1. ServiceInv(svc, "done", h, "failed")
      BY <2>2, DfuService DEF DfuInv
    <3> QED
      BY <1>7, <2>1, <2>2, <2>4, <3>1, Concludes DEF DfuAssertRecovery
  <2> QED
    BY <2>3, <2>4
<1>8. CASE DfuWaitEnumeration(d)
  <2>1. DfuInv("bundle", hw[d], "none")
    BY <1>1, <1>8 DEF DfuInv, DfuWaitEnumeration
  <2> QED
    BY <1>4, <1>8, <2>1, FailDeassertingGood DEF DfuWaitEnumeration
<1>9. CASE DfuPreliminaryBundle(d)
  <2>1. ASSUME NEW m \in {"uboot", "gone"}, hw' = [hw EXCEPT ![d].mode = m], Continue(d, "waitUBoot")
        PROVE  GoodStep
    <3> DEFINE h == [hw[d] EXCEPT !.mode = m]
    <3>1. HwAt(d, h)
      BY <2>1 DEF HwAt
    <3>2. DfuInv("waitUBoot", h, "none") /\ Disturbed(h)
      BY <1>1, <1>9, <2>1 DEF DfuInv, DfuHw, Disturbed, DfuPreliminaryBundle
    <3> HIDE DEF h
    <3> QED
      BY <1>9, <2>1, <3>1, <3>2, DfuContinues DEF DfuPreliminaryBundle
  <2> QED
    BY <1>9, <2>1, FailDeassertingGood DEF DfuPreliminaryBundle
<1>10. CASE DfuWaitRecoveryUBoot(d)
  <2>1. DfuInv("flash", hw[d], "none")
    BY <1>1, <1>10 DEF DfuInv, DfuWaitRecoveryUBoot
  <2> QED
    BY <1>4, <1>10, <2>1, FailDeassertingGood DEF DfuWaitRecoveryUBoot
<1>11. CASE DfuStageImage(d)
  <2>1. DfuInv("download", hw[d], "none")
    BY <1>1, <1>11 DEF DfuInv, DfuStageImage
  <2> QED
    BY <1>4, <1>11, <2>1, FailDeassertingGood DEF DfuStageImage
<1>12. CASE DfuFlashFirmware(d)
  <2>1. ASSUME NEW n \in 1..(ProgramUnits * ChipSelects), NEW s \in {"settle", "detachFailed"},
               hw' = [hw EXCEPT ![d] = Programming(@, n)], Continue(d, s)
        PROVE  GoodStep
    <3> DEFINE h == Programming(hw[d], n)
    <3>1. HwAt(d, h)
      BY <2>1 DEF HwAt
    <3>2. n \in 0..(ProgramUnits * ChipSelects)
      BY SettleCovers
    <3>3. DfuInv(s, h, "none") /\ Disturbed(h)
      BY <1>1, <1>12, <2>1, <3>2 DEF DfuInv, DfuHw, Disturbed, DfuFlashFirmware, Programming
    <3> HIDE DEF h
    <3> QED
      BY <1>12, <2>1, <3>1, <3>3, DfuContinues DEF DfuFlashFirmware
  <2>2. DfuInv("deassert", hw[d], "none") /\ pc[d] = "download"
    BY <1>1, <1>12 DEF DfuInv, DfuFlashFirmware
  <2> QED
    BY <1>4, <1>12, <2>1, <2>2, FailDeassertingGood DEF DfuFlashFirmware
<1>13. CASE DfuDetachFailed(d)
  BY <1>13, FailDeassertingGood DEF DfuDetachFailed
<1>14. CASE DfuWaitProgrammed(d)
  <2>1. hw[d].left <= SettleTime
    BY <1>1, SettleCovers DEF DfuHw
  <2>2. PICK auth \in {"good", "bad"} :
          hw' = [hw EXCEPT ![d] = [hw[d] EXCEPT !.mode = "gone", !.left = 0, !.flash = auth]]
    BY <1>14, <2>1 DEF DfuWaitProgrammed
  <2> DEFINE h == [hw[d] EXCEPT !.mode = "gone", !.left = 0, !.flash = auth]
  <2>3. HwAt(d, h)
    BY <2>2 DEF HwAt
  <2>4. 0 \in 0..(ProgramUnits * ChipSelects)
    BY SettleCovers
  <2>5. DfuInv("deassert", h, "none") /\ Disturbed(h)
    BY <1>1, <1>14, <2>4 DEF DfuInv, DfuHw, Disturbed, DfuWaitProgrammed
  <2> HIDE DEF h
  <2> QED
    BY <1>14, <2>3, <2>5, DfuContinues DEF DfuWaitProgrammed
<1>15. CASE DfuDeassertRecovery(d)
  <2>1. PICK ok \in BOOLEAN :
          /\ setRecoveryStrap(d, FALSE, TRUE, ok)
          /\ IF ok THEN Continue(d, "verify") ELSE Conclude(d, "failed")
    BY <1>15 DEF DfuDeassertRecovery
  <2>2. PICK h : /\ HwAt(d, h) /\ h \in DfuHw
                 /\ IF ok THEN Disturbed(h) ELSE Undisturbed(hw[d], h) \/ Disturbed(h)
                 /\ ok => h.flash = Torn(hw[d]) /\ h.mode = "booting"
    BY <1>1, <2>1, StrapFacts
  <2>3. CASE ok
    <3>1. DfuInv("verify", h, "none")
      BY <1>1, <1>15, <2>2, <2>3 DEF DfuInv, Disturbed, DfuDeassertRecovery, Torn
    <3> QED
      BY <1>15, <2>1, <2>2, <2>3, <3>1, DfuContinues DEF DfuDeassertRecovery
  <2>4. CASE ~ok
    <3>1. ServiceInv(svc, "done", h, "failed")
      BY <2>2, DfuService DEF DfuInv
    <3> QED
      BY <1>15, <2>1, <2>2, <2>4, <3>1, Concludes DEF DfuDeassertRecovery
  <2> QED
    BY <2>3, <2>4
<1>16. CASE DfuVerifyExit(d)
  <2>1. hw[d].driven = TRUE /\ (hw[d].mode # "recovery" => ~RecoveryMode(hw[d])) /\ pc[d] = "verify"
    BY <1>1, <1>16 DEF DfuInv, DfuHw, DfuVerifyExit, RecoveryMode
  <2>2. DfuInv("done", hw[d], "recovered") /\ DfuInv("done", hw[d], "unverified") /\ UNCHANGED <<hw, svc, exited>>
    BY <1>1, <1>16, <2>1 DEF DfuInv, DfuVerifyExit
  <2>3. ASSUME NEW v \in {"recovered", "unverified"}, Conclude(d, v), v = "recovered" => hw[d].mode # "recovery"
        PROVE  GoodStep
    <3>1. DfuInv("done", hw[d], v) /\ (v = "recovered" => ~RecoveryMode(hw[d]))
      BY <2>1, <2>2, <2>3
    <3> QED
      BY <2>1, <2>2, <2>3, <3>1, DfuService, HwKept, Concludes
  <2> QED
    BY <1>3, <1>16, <2>1, <2>2, <2>3 DEF DfuVerifyExit
<1> QED
  BY <1>5, <1>6, <1>7, <1>8, <1>9, <1>10, <1>11, <1>12, <1>13, <1>14, <1>15, <1>16 DEF DfuStep

LEMMA DfuPackageGood ==
  ASSUME WorkerInv, svc \in {"usbdfu", "usbdfu-tool"}, DfuPackageIncomplete, UNCHANGED <<svc, exited>>
  PROVE  GoodStep
<1>1. \A d \in Devices : ServiceInv(svc, "done", hw[d], "none") /\ ServiceInv(svc, "done", hw[d], "failed")
  BY DfuService DEF WorkerInv, DfuInv
<1> QED
  BY <1>1, AllDone DEF DfuPackageIncomplete

(* The images are looked for, and then the lines are driven.               *)
LEMMA PreflightGood ==
  ASSUME WorkerInv, svc \in {"usbdfu", "usbdfu-tool"}, NEW d \in Devices, pc[d] = "probe",
         NEW p \in {"hold", "holdUBoot", "assert"}, preflightChecks(d, p), UNCHANGED <<svc, exited>>
  PROVE  GoodStep
<1>1. DfuInv(pc[d], hw[d], verdict[d])
  BY DfuService DEF WorkerInv
<1>2. DfuInv("done", hw[d], "failed") /\ DfuInv(p, hw[d], "none")
  BY <1>1 DEF DfuInv
<1> QED
  BY <1>2, DfuService, FailsQuietly, ContinuesQuietly DEF preflightChecks, FailSilently

LEMMA DfuProbeGood ==
  ASSUME WorkerInv, svc \in {"usbdfu", "usbdfu-tool"}, NEW d \in Devices, DfuProbe(d), UNCHANGED <<svc, exited>>
  PROVE  GoodStep
<1>1. DfuInv(pc[d], hw[d], verdict[d]) /\ pc[d] = "probe"
  BY DfuService DEF WorkerInv, DfuProbe
<1>2. PICK listed \in BOOLEAN, known \in BOOLEAN :
        LET status == getRecoveryStatus(d, listed, known) IN
        IF status = "NotInRecovery" THEN Conclude(d, "healthy") /\ UNCHANGED hw
        ELSE preflightChecks(d, StepFor(status))
  BY DEF DfuProbe
<1> DEFINE status == getRecoveryStatus(d, listed, known)
<1>3. /\ status \in {"BootRom", "RecoveryUBoot", "NotInRecovery", "Unknown"}
      /\ status = "NotInRecovery" => hw[d].mode = "functional"
  BY DEF getRecoveryStatus
<1>4. CASE status = "NotInRecovery"
  <2>1. Conclude(d, "healthy") /\ UNCHANGED <<hw, svc, exited>>
    BY <1>2, <1>4
  <2>2. hw[d].driven = FALSE /\ ~RecoveryMode(hw[d]) /\ DfuInv("done", hw[d], "healthy")
    BY <1>1, <1>3, <1>4 DEF DfuInv, DfuHw, RecoveryMode
  <2> QED
    BY <1>1, <2>1, <2>2, DfuService, HwKept, Concludes
<1>5. CASE status # "NotInRecovery"
  <2>1. StepFor(status) \in {"hold", "holdUBoot", "assert"}
    BY <1>3, <1>5 DEF StepFor
  <2>2. preflightChecks(d, StepFor(status))
    BY <1>2, <1>5
  <2> QED
    BY <1>1, <2>1, <2>2, PreflightGood
<1> QED
  BY <1>4, <1>5

LEMMA DfuForcedGood ==
  ASSUME WorkerInv, svc \in {"usbdfu", "usbdfu-tool"}, NEW d \in Devices, DfuForced(d), UNCHANGED <<svc, exited>>
  PROVE  GoodStep
  BY PreflightGood DEF DfuForced

(* An HMC comes up, whatever it was reported as.                           *)
LEMMA EnumeratesGood ==
  ASSUME WorkerInv, Enumerates
  PROVE  GoodStep
<1>1. PICK d \in Devices : DfuComesUp(d)
  BY DEF Enumerates
<1> DEFINE h == [hw[d] EXCEPT !.mode = hw[d].next, !.next = "gone"]
<1>2. /\ UNCHANGED <<svc, pc, verdict, task, exited>> /\ svc \in {"usbdfu", "usbdfu-tool"}
      /\ hw' = [hw EXCEPT ![d] = h] /\ hw[d].mode = "booting"
  BY <1>1 DEF Enumerates, DfuComesUp
<1>3. DfuInv(pc[d], hw[d], verdict[d])
  BY <1>2, DfuService DEF WorkerInv
<1>4. DfuInv(pc[d], h, verdict[d]) /\ h.driven = hw[d].driven /\ h.mode # "booting"
  BY <1>2, <1>3 DEF DfuInv, DfuHw
<1> HIDE DEF h
<1>5. Moved(d, pc[d], h, verdict[d]) /\ Sound(pc[d], h, verdict[d])
  BY <1>2, <1>4, DfuService DEF WorkerInv, Moved, Sound
<1>6. WorkerInv' /\ hw'[d] = h /\ \A e \in Devices : e # d => hw'[e] = hw[e]
  BY <1>5, OneDevice
<1>7. /\ [e \in Devices |-> hw[e].driven]' = [e \in Devices |-> hw[e].driven]
      /\ [e \in Devices |-> svc = "glacier" /\ hw[e].garbled]' = [e \in Devices |-> svc = "glacier" /\ hw[e].garbled]
  BY <1>2, <1>4, <1>6
<1>8. [e \in Devices |-> InRecovery(e)]' = [[e \in Devices |-> InRecovery(e)] EXCEPT ![d] = RecoveryMode(h)]
  BY <1>6 DEF InRecovery, RecoveryMode
<1>9. /\ [e \in Devices |-> hw[e].mode = "booting"]' = [[e \in Devices |-> hw[e].mode = "booting"] EXCEPT ![d] = FALSE]
  BY <1>4, <1>6
<1>10. ([e \in Devices |-> hw[e].mode = "booting"])[d] = TRUE
  BY <1>2
<1>11. RecoveryMode(h) \in BOOLEAN
  BY DEF RecoveryMode
<1>12. Contract!ComesUp(d)
  BY <1>2, <1>7, <1>8, <1>9, <1>10, <1>11 DEF Contract!ComesUp
<1> QED
  BY <1>6, <1>12 DEF GoodStep, Contract!Next

---------------------------------------------------------------------------
(* mcu-recovery and mcu-recovery-tool                                      *)

McuServices == {"mcu", "mcu-force", "mcu-reset", "mcu-setforce"}

LEMMA McuService ==
  ASSUME svc \in McuServices
  PROVE  \A p, h, v : ServiceInv(svc, p, h, v) <=> McuInv(svc, p, h)
  BY DEF ServiceInv, McuServices

(* mcu-recovery does not let a verdict reach its exit status.              *)
LEMMA McuConcludes ==
  ASSUME WorkerInv, svc \in McuServices, NEW d \in Devices, pc[d] # "done", NEW h,
         NEW v \in {"healthy", "recovered", "failed"}, McuConclude(d, v), HwAt(d, h), McuInv(svc, "done", h),
         \/ v = "failed" /\ Disturbed(h)
         \/ /\ Undisturbed(hw[d], h)
            /\ v = "healthy" => hw[d].driven = FALSE /\ (Garbled(h) \/ ~RecoveryMode(h))
            /\ v = "recovered" => hw[d].driven = TRUE /\ (Garbled(h) \/ ~RecoveryMode(h))
            /\ v = "unverified" => hw[d].driven = TRUE
  PROVE  GoodStep
<1>1. verdict[d] = "none" /\ svc \notin TellsFailure
  BY DEF WorkerInv, TellsFailure, McuServices
<1>2. Moved(d, "done", h, v)
  BY DEF McuConclude, Goto, HwAt, Moved
<1>3. ServiceInv(svc, "done", h, v)
  BY McuService DEF McuServices
<1> QED
  BY <1>1, <1>2, <1>3, Reports

(* A device that is dropped without a word.                                *)
LEMMA McuDrops ==
  ASSUME WorkerInv, svc \in McuServices, NEW d \in Devices, pc[d] # "done",
         McuConclude(d, "none"), UNCHANGED <<hw, svc, exited>>
  PROVE  GoodStep
<1>1. verdict[d] = "none"
  BY DEF WorkerInv
<1>2. Moved(d, "done", hw[d], "none")
  BY HwKept DEF McuConclude, Goto, HwAt, Moved
<1>3. ServiceInv(svc, "done", hw[d], "none")
  BY McuService DEF WorkerInv, McuInv
<1> QED
  BY <1>1, <1>2, <1>3, HwKept, Goes

(* A reset pulse reaches the MCU, or nothing happens.                      *)
LEMMA PulseFacts ==
  ASSUME NEW g \in McuHw, NEW level \in BOOLEAN, NEW h \in Pulse(g, level)
  PROVE  h \in McuHw /\ (h = g \/ Disturbed(h))
<1>1. CASE g.pins
  <2>1. PICK m \in ResetModes(level, g.flash) : h = [g EXCEPT !.strap = level, !.driven = TRUE, !.mode = m]
    BY <1>1 DEF Pulse
  <2>2. m \in {"functional", "recovery", "gone"}
    BY <2>1 DEF ResetModes
  <2> QED
    BY <2>1, <2>2 DEF McuHw, Disturbed
<1>2. CASE ~g.pins
  BY <1>2 DEF Pulse
<1> QED
  BY <1>1, <1>2

LEMMA McuInitializeGood ==
  ASSUME WorkerInv, svc \in McuServices, McuInitialize \/ McuEndsBefore("error"), UNCHANGED <<svc, exited>>
  PROVE  GoodStep
<1>1. \A d \in Devices : ServiceInv(svc, "done", hw[d], "none") /\ ServiceInv(svc, "done", hw[d], "failed")
  BY McuService DEF WorkerInv, McuInv
<1> QED
  BY <1>1, AllDone DEF McuInitialize, McuEndsBefore

LEMMA McuStepGood ==
  ASSUME WorkerInv, svc \in {"mcu", "mcu-force"}, NEW d \in Devices, NEW f \in BOOLEAN,
         McuProbe(d, f) \/ McuReprobe(d) \/ McuPerformRecovery(d) \/ McuCheck(d), UNCHANGED <<svc, exited>>
  PROVE  GoodStep
<1>1. McuInv(svc, pc[d], hw[d]) /\ hw[d] \in McuHw
  BY McuService DEF WorkerInv, McuInv, McuServices
<1>2. McuInv(svc, "done", hw[d]) /\ svc \in McuServices
  BY <1>1 DEF McuInv, McuServices
<1>3. ASSUME pc[d] # "done", McuConclude(d, "failed"), UNCHANGED hw PROVE GoodStep
  BY <1>2, <1>3, HwKept, McuConcludes
<1>4. ASSUME pc[d] # "done", handleRecoveryError(d) PROVE GoodStep
  <2>1. PICK h \in Pulse(hw[d], FALSE) : hw' = [hw EXCEPT ![d] = h]
    BY <1>4 DEF handleRecoveryError, exitRecoveryMode
  <2>2. h \in McuHw /\ (h = hw[d] \/ Disturbed(h)) /\ HwAt(d, h)
    BY <1>1, <2>1, PulseFacts DEF HwAt
  <2>3. McuInv(svc, "done", h) /\ (Undisturbed(hw[d], h) \/ Disturbed(h))
    BY <2>2 DEF McuInv, Undisturbed
  <2>4. McuConclude(d, "failed")
    BY <1>4 DEF handleRecoveryError
  <2> QED
    BY <1>2, <1>4, <2>2, <2>3, <2>4, McuConcludes
<1>5. CASE McuProbe(d, f)
  <2>1. pc[d] = "todo" /\ hw[d].driven = FALSE
    BY <1>1, <1>5 DEF McuInv, McuHw, McuProbe
  <2>2. ASSUME hw[d].mode = "functional", McuConclude(d, "healthy"), UNCHANGED hw PROVE GoodStep
    <3>1. ~RecoveryMode(hw[d])
      BY <2>2 DEF RecoveryMode
    <3> QED
      BY <1>2, <2>1, <2>2, <3>1, HwKept, McuConcludes
  <2>3. ASSUME enterRecoveryMode(d), Continue(d, "entered") PROVE GoodStep
    <3>1. PICK h \in Pulse(hw[d], TRUE) : hw' = [hw EXCEPT ![d] = h]
      BY <2>3 DEF enterRecoveryMode
    <3>2. h \in McuHw /\ (h = hw[d] \/ Disturbed(h)) /\ HwAt(d, h)
      BY <1>1, <3>1, PulseFacts DEF HwAt
    <3>3. ServiceInv(svc, "entered", h, "none") /\ (Undisturbed(hw[d], h) \/ Disturbed(h))
      BY <1>2, <3>2, McuService DEF McuInv, Undisturbed
    <3> QED
      BY <2>1, <2>3, <3>2, <3>3, Continues
  <2> QED
    BY <1>2, <1>3, <1>5, <2>1, <2>2, <2>3, McuDrops DEF McuProbe
<1>6. CASE McuReprobe(d)
  <2>1. ServiceInv(svc, "blhost", hw[d], "none")
    BY <1>1, <1>2, McuService DEF McuInv
  <2> QED
    BY <1>2, <1>6, <2>1, McuDrops, ContinuesQuietly DEF McuReprobe
<1>7. CASE McuPerformRecovery(d)
  <2>1. ASSUME NEW h \in Pulse([hw[d] EXCEPT !.flash = "good", !.driven = TRUE], FALSE),
               hw' = [hw EXCEPT ![d] = h], Continue(d, "check")
        PROVE  GoodStep
    <3> DEFINE g == [hw[d] EXCEPT !.flash = "good", !.driven = TRUE]
    <3>1. g \in McuHw /\ Disturbed(g)
      BY <1>1 DEF McuHw, Disturbed
    <3> HIDE DEF g
    <3>2. h \in McuHw /\ Disturbed(h)
      BY <2>1, <3>1, PulseFacts DEF g
    <3>3. HwAt(d, h) /\ ServiceInv(svc, "check", h, "none")
      BY <1>2, <2>1, <3>2, McuService DEF HwAt, McuInv, Disturbed
    <3> QED
      BY <1>7, <2>1, <3>2, <3>3, Continues DEF McuPerformRecovery
  <2> QED
    BY <1>3, <1>4, <1>7, <2>1 DEF McuPerformRecovery
<1>8. CASE McuCheck(d)
  <2>1. pc[d] = "check" /\ hw[d].driven = TRUE
    BY <1>1, <1>8 DEF McuInv, McuHw, McuCheck
  <2>2. ASSUME hw[d].mode = "functional", McuConclude(d, "recovered"), UNCHANGED hw PROVE GoodStep
    <3>1. ~RecoveryMode(hw[d])
      BY <2>2 DEF RecoveryMode
    <3> QED
      BY <1>2, <2>1, <2>2, <3>1, HwKept, McuConcludes
  <2> QED
    BY <1>3, <1>4, <1>8, <2>1, <2>2 DEF McuCheck
<1> QED
  BY <1>5, <1>6, <1>7, <1>8

LEMMA McuResetGood ==
  ASSUME WorkerInv, svc = "mcu-reset", NEW d \in Devices, McuResetPulse(d) \/ McuResetCheck(d),
         UNCHANGED <<svc, exited>>
  PROVE  GoodStep
<1>1. hw[d] \in McuHw /\ svc \in McuServices
  BY McuService DEF WorkerInv, McuInv, McuServices
<1>2. \A p, h, v : h \in McuHw => McuInv(svc, p, h) /\ ServiceInv(svc, p, h, v)
  BY <1>1, McuService DEF McuInv
<1>3. CASE McuResetPulse(d)
  <2>1. PICK h \in ResetOnce(hw[d]) : hw' = [hw EXCEPT ![d] = h]
    BY <1>3 DEF McuResetPulse
  <2>2. h \in McuHw /\ (Undisturbed(hw[d], h) \/ Disturbed(h))
    <3>1. CASE hw[d].pins
      <4>1. PICK m \in ResetModes(hw[d].strap, hw[d].flash) :
              h = [hw[d] EXCEPT !.driven = TRUE, !.rounds = @ + 1, !.mode = m]
        BY <2>1, <3>1 DEF ResetOnce
      <4>2. m \in {"functional", "recovery", "gone"} /\ hw[d].rounds + 1 \in Nat
        BY <1>1, <4>1 DEF ResetModes, McuHw
      <4> QED
        BY <1>1, <4>1, <4>2 DEF McuHw, Disturbed
    <3>2. CASE ~hw[d].pins
      <4>1. h = [hw[d] EXCEPT !.rounds = @ + 1] /\ hw[d].rounds + 1 \in Nat
        BY <1>1, <2>1, <3>2 DEF ResetOnce, McuHw
      <4> QED
        BY <1>1, <4>1 DEF McuHw, Undisturbed, RecoveryMode
    <3> QED
      BY <3>1, <3>2
  <2>3. HwAt(d, h) /\ ServiceInv(svc, "reset", h, "none")
    BY <1>2, <2>1, <2>2 DEF HwAt
  <2> QED
    BY <1>3, <2>2, <2>3, Continues DEF McuResetPulse
<1>4. CASE McuResetCheck(d)
  <2>1. ASSUME NEW v \in {"recovered", "healthy"}, McuConclude(d, v), hw[d].mode = "functional",
               v = "healthy" => hw[d].driven = FALSE, v = "recovered" => hw[d].driven = TRUE
        PROVE  GoodStep
    <3>1. ~RecoveryMode(hw[d]) /\ UNCHANGED <<hw, svc, exited>> /\ pc[d] = "reset"
      BY <1>4, <2>1 DEF RecoveryMode, McuResetCheck
    <3> QED
      BY <1>1, <1>2, <2>1, <3>1, HwKept, McuConcludes
  <2>2. ASSUME McuConclude(d, "failed") PROVE GoodStep
    BY <1>1, <1>2, <1>4, <2>2, HwKept, McuConcludes DEF McuResetCheck
  <2>3. hw[d].driven \in BOOLEAN
    BY <1>1 DEF McuHw
  <2> QED
    BY <1>1, <1>2, <1>4, <2>1, <2>2, <2>3, ContinuesQuietly DEF McuResetCheck
<1> QED
  BY <1>3, <1>4

LEMMA McuSetForceGood ==
  ASSUME WorkerInv, svc = "mcu-setforce", NEW d \in Devices,
         McuForceEnter(d) \/ McuForceThrows(d) \/ McuForceVerify(d), UNCHANGED <<svc, exited>>
  PROVE  GoodStep
<1>1. hw[d] \in McuHw /\ svc \in McuServices
  BY McuService DEF WorkerInv, McuInv, McuServices
<1>2. \A p, h, v : h \in McuHw => ServiceInv(svc, p, h, v)
  BY <1>1, McuService DEF McuInv
<1>3. CASE McuForceEnter(d)
  <2>1. PICK h \in Pulse(hw[d], TRUE) : hw' = [hw EXCEPT ![d] = h]
    BY <1>3 DEF McuForceEnter, enterRecoveryMode
  <2>2. h \in McuHw /\ (h = hw[d] \/ Disturbed(h)) /\ HwAt(d, h)
    BY <1>1, <2>1, PulseFacts DEF HwAt
  <2>3. ServiceInv(svc, "forced", h, "none") /\ (Undisturbed(hw[d], h) \/ Disturbed(h))
    BY <1>2, <2>2 DEF Undisturbed
  <2> QED
    BY <1>3, <2>2, <2>3, Continues DEF McuForceEnter
<1>4. CASE McuForceVerify(d)
  BY <1>1, <1>2, <1>4, McuDrops, FailsQuietly DEF McuForceVerify
<1>5. CASE McuForceThrows(d)
  <2>1. PICK h \in Interrupted(hw[d]) : hw' = [hw EXCEPT ![d] = h]
    BY <1>5 DEF McuForceThrows
  <2>2. h \in McuHw /\ (h = hw[d] \/ Disturbed(h)) /\ HwAt(d, h)
    <3>1. CASE h \in Pulse(hw[d], TRUE)
      BY <1>1, <2>1, <3>1, PulseFacts DEF HwAt
    <3>2. CASE h \notin Pulse(hw[d], TRUE)
      BY <1>1, <2>1, <3>2 DEF HwAt, Interrupted, McuHw, Disturbed
    <3> QED
      BY <3>1, <3>2
  <2>3. McuInv(svc, "done", h) /\ (Undisturbed(hw[d], h) \/ Disturbed(h))
    BY <2>2 DEF Undisturbed, McuInv
  <2> QED
    BY <1>1, <1>5, <2>2, <2>3, McuConcludes DEF McuForceThrows
<1> QED
  BY <1>3, <1>4, <1>5

---------------------------------------------------------------------------
(* ocp-recovery                                                            *)

LEMMA OcpService ==
  ASSUME svc = "ocp"
  PROVE  \A p, h, v : ServiceInv(svc, p, h, v) <=> OcpInv(p, h, v)
  BY DEF ServiceInv

(* Only a functional GPU looks operational.                                *)
LEMMA OperationalFacts ==
  ASSUME NEW d \in Devices, hw[d] \in OcpHw, NEW s \in getOperationalStatus(d)
  PROVE  /\ s \in {"Operational", "Unreachable", "UnknownState", "RecoveryMode"}
         /\ s = "Operational" => hw[d].mode = "functional"
<1>1. PICK x \in DeviceStatusOf(hw[d]) \X RecoveryStatusOf(hw[d]) : s = OperationalStatus(x[1], x[2])
  BY DEF getOperationalStatus
<1>2. s \in {"Operational", "Unreachable", "UnknownState", "RecoveryMode"}
  BY <1>1 DEF OperationalStatus
<1>3. s = "Operational" => x[1] \in {"DeviceHealthy", "RecoveryImgRunning"}
  BY <1>1 DEF OperationalStatus
<1>4. x[1] \in {"DeviceHealthy", "RecoveryImgRunning"} => hw[d].mode = "functional"
  BY <1>1 DEF DeviceStatusOf, OcpHw
<1> QED
  BY <1>2, <1>3, <1>4

(* A retry of the chunk, or the end of the attempts.                       *)
LEMMA RetryGood ==
  ASSUME WorkerInv, svc = "ocp", NEW d \in Devices, pc[d] # "done", NEW h, Retry(d), HwAt(d, h),
         OcpInv("chunk", h, "none"), Disturbed(h)
  PROVE  GoodStep
<1>1. OcpInv("done", h, "failed")
  BY DEF OcpInv
<1> QED
  BY <1>1, OcpService, Continues, Concludes DEF Retry

LEMMA OcpImagesGood ==
  ASSUME WorkerInv, svc = "ocp", OcpImagesMissing, UNCHANGED <<svc, exited>>
  PROVE  GoodStep
<1>1. \A d \in Devices : ServiceInv(svc, "done", hw[d], "none") /\ ServiceInv(svc, "done", hw[d], "failed")
  BY OcpService DEF WorkerInv, OcpInv
<1> QED
  BY <1>1, AllDone DEF OcpImagesMissing

LEMMA OcpStepGood ==
  ASSUME WorkerInv, svc = "ocp", NEW d \in Devices, UNCHANGED <<svc, exited>>,
         \/ OcpNoTarget(d) \/ OcpProbe(d) \/ OcpForceRecovery(d) \/ OcpForced(d) \/ OcpOpenWindow(d)
         \/ OcpSendChunk(d) \/ OcpAwaitAck(d) \/ OcpActivate(d) \/ OcpCheck(d)
  PROVE  GoodStep
<1>1. OcpInv(pc[d], hw[d], verdict[d]) /\ hw[d] \in OcpHw
  BY OcpService DEF WorkerInv, OcpInv
<1>2. ASSUME pc[d] # "done", Conclude(d, "failed"), UNCHANGED hw PROVE GoodStep
  <2>1. ServiceInv(svc, "done", hw[d], "failed")
    BY <1>1, OcpService DEF OcpInv
  <2> QED
    BY <1>2, <2>1, FailsQuietly
<1>3. ASSUME pc[d] # "done", NEW p, Continue(d, p), UNCHANGED hw, OcpInv(p, hw[d], "none") PROVE GoodStep
  BY <1>3, OcpService, ContinuesQuietly
<1>4. ASSUME pc[d] # "done", NEW p, NEW h, Continue(d, p), HwAt(d, h), OcpInv(p, h, "none"), Disturbed(h)
      PROVE  GoodStep
  BY <1>4, OcpService, Continues
<1>5. CASE OcpNoTarget(d)
  <2>1. OcpInv("done", hw[d], "none")
    BY <1>1 DEF OcpInv
  <2> QED
    BY <1>3, <1>5, <2>1 DEF OcpNoTarget
<1>6. CASE OcpProbe(d)
  <2>1. PICK s \in getOperationalStatus(d) :
          CASE s = "Operational" -> Conclude(d, "healthy")
            [] s = "Unreachable" -> Conclude(d, "failed")
            [] s = "UnknownState" -> Continue(d, "force")
            [] s = "RecoveryMode" -> Continue(d, "image")
    BY <1>6 DEF OcpProbe
  <2>2. pc[d] = "todo" /\ UNCHANGED <<hw, svc, exited>>
    BY <1>6 DEF OcpProbe
  <2>3. hw[d].driven = FALSE /\ OcpInv("force", hw[d], "none") /\ OcpInv("image", hw[d], "none") /\ OcpInv("done", hw[d], "healthy")
    BY <1>1, <2>2 DEF OcpInv, OcpHw
  <2>4. s = "Operational" => ~RecoveryMode(hw[d])
    BY <1>1, <2>1, OperationalFacts DEF RecoveryMode
  <2>5. CASE s = "Operational"
    <3>1. Conclude(d, "healthy")
      BY <2>1, <2>5
    <3> QED
      BY <2>2, <2>3, <2>4, <2>5, <3>1, OcpService, HwKept, Concludes
  <2>6. CASE s # "Operational"
    <3>1. Conclude(d, "failed") \/ Continue(d, "force") \/ Continue(d, "image")
      BY <1>1, <2>1, <2>6, OperationalFacts
    <3> QED
      BY <1>2, <1>3, <2>2, <2>3, <3>1
  <2> QED
    BY <2>5, <2>6
<1>7. CASE OcpForceRecovery(d)
  <2>1. ASSUME NEW m \in {"recovery", "unknown", "gone"},
               hw' = [hw EXCEPT ![d].mode = m, ![d].driven = TRUE], Continue(d, "forced")
        PROVE  GoodStep
    <3> DEFINE h == [hw[d] EXCEPT !.mode = m, !.driven = TRUE]
    <3>1. HwAt(d, h)
      BY <2>1 DEF HwAt, WorkerInv
    <3>2. OcpInv("forced", h, "none") /\ Disturbed(h)
      BY <1>1, <1>7 DEF OcpInv, OcpHw, Disturbed, OcpForceRecovery
    <3> HIDE DEF h
    <3> QED
      BY <1>4, <1>7, <2>1, <3>1, <3>2 DEF OcpForceRecovery
  <2> QED
    BY <1>2, <1>7, <2>1 DEF OcpForceRecovery
<1>8. CASE OcpForced(d)
  <2>1. OcpInv("image", hw[d], "none")
    BY <1>1, <1>8 DEF OcpInv, OcpForced
  <2> QED
    BY <1>2, <1>3, <1>8, <2>1 DEF OcpForced
<1>9. CASE OcpOpenWindow(d)
  <2>1. ASSUME hw' = [hw EXCEPT ![d].driven = TRUE, ![d].sent = 0, ![d].attempt = 0, ![d].copies = 0],
               Continue(d, "chunk")
        PROVE  GoodStep
    <3> DEFINE h == [hw[d] EXCEPT !.driven = TRUE, !.sent = 0, !.attempt = 0, !.copies = 0]
    <3>1. HwAt(d, h)
      BY <2>1 DEF HwAt, WorkerInv
    <3>2. OcpInv("chunk", h, "none") /\ Disturbed(h)
      BY <1>1, <1>9 DEF OcpInv, OcpHw, Disturbed, OcpOpenWindow
    <3> HIDE DEF h
    <3> QED
      BY <1>4, <1>9, <2>1, <3>1, <3>2 DEF OcpOpenWindow
  <2> QED
    BY <1>2, <1>9, <2>1 DEF OcpOpenWindow
<1>10. CASE OcpSendChunk(d)
  <2>1. hw[d].copies \in Nat /\ hw[d].attempt \in Nat /\ pc[d] = "chunk" /\ hw[d].driven = TRUE
    BY <1>1, <1>10 DEF OcpInv, OcpHw, OcpSendChunk
  <2>2. ASSUME hw' = [hw EXCEPT ![d].copies = @ + 1], Continue(d, "ack") PROVE GoodStep
    <3> DEFINE h == [hw[d] EXCEPT !.copies = @ + 1]
    <3>1. HwAt(d, h)
      BY <2>2 DEF HwAt, WorkerInv
    <3>2. OcpInv("ack", h, "none") /\ Disturbed(h)
      BY <1>1, <2>1 DEF OcpInv, OcpHw, Disturbed
    <3> HIDE DEF h
    <3> QED
      BY <1>4, <2>1, <2>2, <3>1, <3>2
  <2>3. ASSUME NEW landed \in BOOLEAN, Retry(d),
               hw' = [hw EXCEPT ![d].copies = IF landed THEN @ + 1 ELSE @, ![d].attempt = @ + 1]
        PROVE  GoodStep
    <3> DEFINE c == IF landed THEN hw[d].copies + 1 ELSE hw[d].copies
               a == hw[d].attempt + 1
               h == [hw[d] EXCEPT !.copies = c, !.attempt = a]
    <3>1. HwAt(d, h)
      BY <2>3 DEF HwAt, WorkerInv
    <3>2. c \in Nat /\ a \in Nat
      BY <2>1
    <3> HIDE DEF c, a
    <3>3. OcpInv("chunk", h, "none") /\ Disturbed(h)
      BY <1>1, <2>1, <3>2 DEF OcpInv, OcpHw, Disturbed
    <3> HIDE DEF h
    <3> QED
      BY <2>1, <2>3, <3>1, <3>3, RetryGood
  <2> QED
    BY <1>10, <2>2, <2>3 DEF OcpSendChunk
<1>11. CASE OcpAwaitAck(d)
  <2>1. hw[d].sent \in Nat /\ hw[d].attempt \in Nat /\ hw[d].intact \in BOOLEAN /\ pc[d] = "ack" /\ hw[d].driven = TRUE
    BY <1>1, <1>11 DEF OcpInv, OcpHw, OcpAwaitAck
  <2>2. ASSUME hw' = [hw EXCEPT ![d].sent = @ + 1, ![d].intact = @ /\ hw[d].copies = 1,
                                ![d].copies = 0, ![d].attempt = 0], Continue(d, "chunk")
        PROVE  GoodStep
    <3> DEFINE i == hw[d].intact /\ hw[d].copies = 1
               n == hw[d].sent + 1
               h == [hw[d] EXCEPT !.sent = n, !.intact = i, !.copies = 0, !.attempt = 0]
    <3>1. HwAt(d, h)
      BY <2>2 DEF HwAt, WorkerInv
    <3>2. i \in BOOLEAN /\ n \in Nat
      BY <2>1
    <3> HIDE DEF i, n
    <3>3. OcpInv("chunk", h, "none") /\ Disturbed(h)
      BY <1>1, <2>1, <3>2 DEF OcpInv, OcpHw, Disturbed
    <3> HIDE DEF h
    <3> QED
      BY <1>4, <2>1, <2>2, <3>1, <3>3
  <2>3. ASSUME hw' = [hw EXCEPT ![d].attempt = @ + 1], Retry(d) PROVE GoodStep
    <3> DEFINE h == [hw[d] EXCEPT !.attempt = @ + 1]
    <3>1. HwAt(d, h)
      BY <2>3 DEF HwAt, WorkerInv
    <3>2. OcpInv("chunk", h, "none") /\ Disturbed(h)
      BY <1>1, <2>1 DEF OcpInv, OcpHw, Disturbed
    <3> HIDE DEF h
    <3> QED
      BY <2>1, <2>3, <3>1, <3>2, RetryGood
  <2> QED
    BY <1>11, <2>2, <2>3 DEF OcpAwaitAck
<1>12. CASE OcpActivate(d)
  <2>1. /\ hw[d].activated \in Nat /\ hw[d].activated < Images /\ Images \in Nat /\ pc[d] = "chunk"
        /\ hw[d].driven = TRUE /\ hw[d].mode \in {"functional", "recovery", "unknown", "gone"}
    BY <1>1, <1>12, OcpBounds DEF OcpInv, OcpHw, OcpActivate
  <2> DEFINE f == IF Authenticated(hw[d]) THEN "good" ELSE "bad"
             n == hw[d].activated + 1
             g == [hw[d] EXCEPT !.activated = n, !.flash = f]
  <2>2. ASSUME NEW m \in IF g.activated < Images THEN {hw[d].mode}
                         ELSE IF g.flash = "good" THEN {"functional", "unknown"} ELSE {"recovery", "unknown"},
               hw' = [hw EXCEPT ![d] = [g EXCEPT !.mode = m]],
               Continue(d, IF g.activated < Images THEN "image" ELSE "check")
        PROVE  GoodStep
    <3> DEFINE h == [g EXCEPT !.mode = m]
               p == IF g.activated < Images THEN "image" ELSE "check"
    <3>1. HwAt(d, h) /\ Continue(d, p)
      BY <2>2 DEF HwAt
    <3>2. n \in Nat /\ f \in {"good", "bad"} /\ (f = "good" => hw[d].intact)
      BY <2>1 DEF Authenticated
    <3> HIDE DEF f, n
    <3>3. /\ g \in OcpHw /\ g.activated = n /\ g.flash = f /\ g.driven = TRUE
          /\ g.intact = hw[d].intact
      BY <1>1, <2>1, <3>2 DEF OcpHw
    <3> HIDE DEF g
    <3>4. /\ m \in {"functional", "recovery", "unknown", "gone"}
          /\ g.activated >= Images => g.activated = Images /\ (m = "functional" => g.intact)
      BY <2>1, <2>2, <3>2, <3>3 DEF n
    <3>5. /\ h \in OcpHw /\ h.activated = g.activated /\ h.driven = TRUE /\ h.mode = m
          /\ h.intact = g.intact
      BY <3>3, <3>4 DEF OcpHw
    <3> HIDE DEF h
    <3>6. OcpInv(p, h, "none") /\ Disturbed(h)
      BY <2>1, <3>2, <3>3, <3>4, <3>5 DEF OcpInv, Disturbed
    <3> HIDE DEF p
    <3> QED
      BY <1>4, <2>1, <3>1, <3>6
  <2> QED
    BY <1>2, <1>12, <2>1, <2>2 DEF OcpActivate
<1>13. CASE OcpCheck(d)
  <2>1. PICK s \in getOperationalStatus(d) : Conclude(d, IF s = "Operational" THEN "recovered" ELSE "failed")
    BY <1>13 DEF OcpCheck
  <2>2. pc[d] = "check" /\ UNCHANGED <<hw, svc, exited>> /\ hw[d].driven = TRUE
    BY <1>1, <1>13 DEF OcpCheck, OcpInv, OcpHw
  <2>3. CASE s = "Operational"
    <3>1. hw[d].mode = "functional" /\ ~RecoveryMode(hw[d])
      BY <1>1, <2>1, <2>3, OperationalFacts DEF RecoveryMode
    <3>2. OcpInv("done", hw[d], "recovered") /\ Conclude(d, "recovered")
      BY <1>1, <2>1, <2>2, <2>3, <3>1 DEF OcpInv
    <3> QED
      BY <2>2, <3>1, <3>2, OcpService, HwKept, Concludes
  <2>4. CASE s # "Operational"
    BY <1>2, <2>1, <2>2, <2>4
  <2> QED
    BY <2>3, <2>4
<1> QED
  BY <1>5, <1>6, <1>7, <1>8, <1>9, <1>10, <1>11, <1>12, <1>13

---------------------------------------------------------------------------
(* glacier-recovery                                                        *)

LEMMA GlacierService ==
  ASSUME svc = "glacier"
  PROVE  \A p, h, v : ServiceInv(svc, p, h, v) <=> GlacierInv(p, h)
  BY DEF ServiceInv

(* What an answer leaves of the device: that it is not in recovery is      *)
(* answered by running firmware, or misread.                               *)
LEMMA GlacierReads ==
  ASSUME WorkerInv, svc = "glacier", NEW d \in Devices, hw[d] \in GlacierHw, UNCHANGED <<svc, exited>>,
         NEW r, Reads(d, r)
  PROVE  \E h \in GlacierHw :
           /\ HwAt(d, h) /\ Undisturbed(hw[d], h) /\ h.sent = hw[d].sent /\ h.tries = hw[d].tries
           /\ r # "FirmwareNotInRecovery" => h.garbled = FALSE
           /\ r = "FirmwareNotInRecovery" => Garbled(h) \/ ~RecoveryMode(h)
<1> DEFINE g == r = "FirmwareNotInRecovery" /\ InRecovery(d)
           h == [hw[d] EXCEPT !.garbled = g]
<1>1. g \in BOOLEAN /\ (r = "FirmwareNotInRecovery" => (g <=> RecoveryMode(hw[d]))) /\ (r # "FirmwareNotInRecovery" => g = FALSE)
  BY DEF InRecovery, RecoveryMode
<1>2. hw' = [hw EXCEPT ![d] = h]
  BY DEF Reads
<1> HIDE DEF g
<1>3. /\ h \in GlacierHw /\ h.driven = hw[d].driven /\ h.mode = hw[d].mode /\ h.garbled = g
      /\ h.sent = hw[d].sent /\ h.tries = hw[d].tries
  BY <1>1 DEF GlacierHw
<1> HIDE DEF h
<1> QED
  BY <1>1, <1>2, <1>3 DEF HwAt, Undisturbed, RecoveryMode, Garbled

LEMMA GlacierStepGood ==
  ASSUME WorkerInv, svc = "glacier", NEW d \in Devices, UNCHANGED <<svc, exited>>,
         GlacierProbe(d) \/ GlacierWritePart(d) \/ GlacierExecute(d) \/ GlacierCheck(d)
  PROVE  GoodStep
<1>1. GlacierInv(pc[d], hw[d]) /\ hw[d] \in GlacierHw /\ GlacierInv("done", hw[d])
  BY GlacierService DEF WorkerInv, GlacierInv
<1>2. ASSUME pc[d] # "done", Conclude(d, "failed"), UNCHANGED hw PROVE GoodStep
  BY <1>1, <1>2, GlacierService, FailsQuietly
<1>3. ASSUME pc[d] # "done", NEW p, NEW h, Continue(d, p), HwAt(d, h), GlacierInv(p, h), Disturbed(h)
      PROVE  GoodStep
  BY <1>3, GlacierService, Continues
<1>4. CASE GlacierProbe(d)
  <2>1. pc[d] = "todo" /\ hw[d].driven = FALSE /\ hw[d].sent = 0 /\ hw[d].garbled = FALSE
    BY <1>1, <1>4 DEF GlacierInv, GlacierHw, GlacierProbe
  <2>2. ASSUME verdict' = [verdict EXCEPT ![d] = "failed"], Goto(d, "done"), UNCHANGED <<hw, task>> PROVE GoodStep
    <3>1. Moved(d, "done", hw[d], "failed") /\ Undisturbed(hw[d], hw[d])
      BY <2>1, <2>2, HwKept DEF Moved, Goto, HwAt
    <3>2. verdict[d] = "none" /\ svc \notin TellsFailure /\ ServiceInv(svc, "done", hw[d], "failed")
      BY <1>1, <2>1, GlacierService DEF WorkerInv, TellsFailure
    <3> QED
      BY <3>1, <3>2, Reports
  <2>3. ASSUME NEW r, Reads(d, r),
               \/ r = "Ok" /\ Continue(d, "write")
               \/ r = "FirmwareNotInRecovery" /\ Conclude(d, "healthy")
               \/ r \notin {"Ok", "FirmwareNotInRecovery"} /\ Conclude(d, "failed")
        PROVE  GoodStep
    <3>1. PICK h \in GlacierHw :
             /\ HwAt(d, h) /\ Undisturbed(hw[d], h) /\ h.sent = hw[d].sent
             /\ r # "FirmwareNotInRecovery" => h.garbled = FALSE
             /\ r = "FirmwareNotInRecovery" => Garbled(h) \/ ~RecoveryMode(h)
      BY <1>1, <2>3, GlacierReads
    <3>2. ServiceInv(svc, "done", h, "healthy") /\ ServiceInv(svc, "done", h, "failed")
      BY <3>1, GlacierService DEF GlacierInv
    <3>3. CASE r = "Ok" /\ Continue(d, "write")
      <4>1. ServiceInv(svc, "write", h, "none")
        BY <2>1, <3>1, <3>3, GlacierService DEF GlacierInv
      <4> QED
        BY <2>1, <3>1, <3>3, <4>1, Continues
    <3>4. CASE r = "FirmwareNotInRecovery" /\ Conclude(d, "healthy")
      BY <2>1, <3>1, <3>2, <3>4, Concludes
    <3>5. CASE r \notin {"Ok", "FirmwareNotInRecovery"} /\ Conclude(d, "failed")
      BY <2>1, <3>1, <3>2, <3>5, Concludes
    <3> QED
      BY <2>3, <3>3, <3>4, <3>5
  <2> QED
    BY <1>4, <2>2, <2>3 DEF GlacierProbe
<1>5. CASE GlacierWritePart(d)
  <2>1. pc[d] = "write" /\ hw[d].sent \in Nat
    BY <1>1, <1>5 DEF GlacierHw, GlacierWritePart
  <2>2. ASSUME hw' = [hw EXCEPT ![d].sent = @ + 1, ![d].driven = TRUE], Continue(d, "write") PROVE GoodStep
    <3> DEFINE n == hw[d].sent + 1
               h == [hw[d] EXCEPT !.sent = n, !.driven = TRUE]
    <3>1. HwAt(d, h)
      BY <2>2 DEF HwAt, WorkerInv
    <3>2. n \in Nat
      BY <2>1
    <3> HIDE DEF n
    <3>3. GlacierInv("write", h) /\ Disturbed(h)
      BY <1>1, <2>1, <3>2 DEF GlacierInv, GlacierHw, Disturbed
    <3> HIDE DEF h
    <3> QED
      BY <1>3, <2>1, <2>2, <3>1, <3>3
  <2>3. ASSUME hw' = [hw EXCEPT ![d].driven = TRUE], Conclude(d, "failed") PROVE GoodStep
    <3> DEFINE h == [hw[d] EXCEPT !.driven = TRUE]
    <3>1. HwAt(d, h)
      BY <2>3 DEF HwAt, WorkerInv
    <3>2. GlacierInv("done", h) /\ Disturbed(h)
      BY <1>1, <2>1 DEF GlacierInv, GlacierHw, Disturbed
    <3> HIDE DEF h
    <3> QED
      BY <2>1, <2>3, <3>1, <3>2, GlacierService, Concludes
  <2> QED
    BY <1>2, <1>5, <2>1, <2>2, <2>3 DEF GlacierWritePart
<1>6. CASE GlacierExecute(d)
  <2>1. pc[d] = "write" /\ hw[d].driven = TRUE
    <3>1. hw[d].sent = 3 /\ pc[d] = "write"
      BY <1>6 DEF GlacierExecute, Parts
    <3> QED
      BY <1>1, <3>1 DEF GlacierInv, GlacierHw
  <2>2. ASSUME NEW f \in {"good", "bad"}, NEW gone \in BOOLEAN,
               hw' = [hw EXCEPT ![d].flash = f,
                                ![d].mode = IF gone THEN "gone" ELSE IF f = "good" THEN "functional" ELSE @],
               Continue(d, "check")
        PROVE  GoodStep
    <3> DEFINE m == IF gone THEN "gone" ELSE IF f = "good" THEN "functional" ELSE hw[d].mode
               h == [hw[d] EXCEPT !.flash = f, !.mode = m]
    <3>1. HwAt(d, h)
      BY <2>2 DEF HwAt, WorkerInv
    <3>2. m \in {"functional", "recovery", "gone"}
      BY <1>1 DEF GlacierHw
    <3> HIDE DEF m
    <3>3. GlacierInv("check", h) /\ Disturbed(h)
      BY <1>1, <2>1, <3>2 DEF GlacierInv, GlacierHw, Disturbed
    <3> HIDE DEF h
    <3> QED
      BY <1>3, <2>1, <2>2, <3>1, <3>3
  <2> QED
    BY <1>2, <1>6, <2>1, <2>2 DEF GlacierExecute
<1>7. CASE GlacierCheck(d)
  <2>1. pc[d] = "check" /\ hw[d].driven = TRUE /\ hw[d].tries \in Nat
    BY <1>1, <1>7 DEF GlacierInv, GlacierHw, GlacierCheck
  <2>2. ASSUME NEW r, r = "FirmwareNotInRecovery", Conclude(d, "recovered"), Reads(d, r) PROVE GoodStep
    <3>1. PICK h \in GlacierHw : HwAt(d, h) /\ Undisturbed(hw[d], h) /\ (Garbled(h) \/ ~RecoveryMode(h))
      BY <1>1, <2>2, GlacierReads
    <3>2. ServiceInv(svc, "done", h, "recovered")
      BY <2>1, <3>1, GlacierService DEF GlacierInv
    <3> QED
      BY <2>1, <2>2, <3>1, <3>2, Concludes
  <2>3. ASSUME hw' = [hw EXCEPT ![d].tries = @ + 1], Continue(d, "check") PROVE GoodStep
    <3> DEFINE h == [hw[d] EXCEPT !.tries = @ + 1]
    <3>1. HwAt(d, h)
      BY <2>3 DEF HwAt, WorkerInv
    <3>2. GlacierInv("check", h) /\ Disturbed(h)
      BY <1>1, <2>1 DEF GlacierInv, GlacierHw, Disturbed
    <3> HIDE DEF h
    <3> QED
      BY <1>3, <2>1, <2>3, <3>1, <3>2
  <2> QED
    BY <1>2, <1>7, <2>1, <2>2, <2>3 DEF GlacierCheck
<1> QED
  BY <1>4, <1>5, <1>6, <1>7

---------------------------------------------------------------------------
(* SetRecoveryMode of a NIC                                                *)

LEMMA NicService ==
  ASSUME svc = "nic-force"
  PROVE  \A p, h, v : ServiceInv(svc, p, h, v) <=> NicInv(p, h)
  BY DEF ServiceInv

LEMMA NicStepGood ==
  ASSUME WorkerInv, svc = "nic-force", NEW d \in Devices, UNCHANGED <<svc, exited>>,
         initGpioLines(d) \/ AssertFlashNotPresent(d) \/ AssertNicReset(d) \/ ReleaseNicReset(d)
  PROVE  GoodStep
<1>1. NicInv(pc[d], hw[d]) /\ hw[d] \in NicHw /\ NicInv("done", hw[d])
  BY NicService DEF WorkerInv, NicInv
<1>2. ASSUME pc[d] # "done", NicThrows(d), UNCHANGED hw PROVE GoodStep
  BY <1>1, <1>2, NicService, FailsQuietly DEF NicThrows
<1>3. ASSUME pc[d] # "done", NEW p, NEW h, Continue(d, p), HwAt(d, h), NicInv(p, h), Disturbed(h)
      PROVE  GoodStep
  BY <1>3, NicService, Continues
<1>4. CASE initGpioLines(d)
  <2>1. pc[d] = "todo" /\ hw[d].driven = FALSE /\ hw[d].gpio \in BOOLEAN
    BY <1>1, <1>4 DEF NicInv, NicHw, initGpioLines
  <2>2. ASSUME hw' = [hw EXCEPT ![d].driven = hw[d].gpio], NicThrows(d) PROVE GoodStep
    <3> DEFINE h == [hw[d] EXCEPT !.driven = hw[d].gpio]
    <3>1. HwAt(d, h)
      BY <2>2 DEF HwAt, WorkerInv
    <3>2. NicInv("done", h) /\ (Undisturbed(hw[d], h) \/ Disturbed(h))
      BY <1>1, <2>1 DEF NicInv, NicHw, Disturbed, Undisturbed, RecoveryMode
    <3> HIDE DEF h
    <3> QED
      BY <2>1, <2>2, <3>1, <3>2, NicService, Concludes DEF NicThrows
  <2>3. ASSUME hw' = [hw EXCEPT ![d].strap = FALSE, ![d].driven = TRUE], Continue(d, "fnp") PROVE GoodStep
    <3> DEFINE h == [hw[d] EXCEPT !.strap = FALSE, !.driven = TRUE]
    <3>1. HwAt(d, h)
      BY <2>3 DEF HwAt, WorkerInv
    <3>2. NicInv("fnp", h) /\ Disturbed(h)
      BY <1>1 DEF NicInv, NicHw, Disturbed
    <3> HIDE DEF h
    <3> QED
      BY <1>3, <2>1, <2>3, <3>1, <3>2
  <2> QED
    BY <1>2, <1>4, <2>1, <2>2, <2>3 DEF initGpioLines
<1>5. CASE AssertFlashNotPresent(d)
  <2>1. ASSUME hw' = [hw EXCEPT ![d].strap = TRUE], Continue(d, "assert") PROVE GoodStep
    <3> DEFINE h == [hw[d] EXCEPT !.strap = TRUE]
    <3>1. HwAt(d, h)
      BY <2>1 DEF HwAt, WorkerInv
    <3>2. NicInv("assert", h) /\ Disturbed(h)
      BY <1>1, <1>5 DEF NicInv, NicHw, Disturbed, AssertFlashNotPresent
    <3> HIDE DEF h
    <3> QED
      BY <1>3, <1>5, <2>1, <3>1, <3>2 DEF AssertFlashNotPresent
  <2> QED
    BY <1>2, <1>5, <2>1 DEF AssertFlashNotPresent
<1>6. CASE AssertNicReset(d)
  <2>1. ASSUME hw' = [hw EXCEPT ![d].low = TRUE, ![d].mode = "gone"], Continue(d, "release") PROVE GoodStep
    <3> DEFINE h == [hw[d] EXCEPT !.low = TRUE, !.mode = "gone"]
    <3>1. HwAt(d, h)
      BY <2>1 DEF HwAt, WorkerInv
    <3>2. NicInv("release", h) /\ Disturbed(h)
      BY <1>1, <1>6 DEF NicInv, NicHw, Disturbed, AssertNicReset
    <3> HIDE DEF h
    <3> QED
      BY <1>3, <1>6, <2>1, <3>1, <3>2 DEF AssertNicReset
  <2> QED
    BY <1>2, <1>6, <2>1 DEF AssertNicReset
<1>7. CASE ReleaseNicReset(d)
  <2>1. ASSUME NEW m \in ResetModes(hw[d].strap, "good"), hw' = [hw EXCEPT ![d].low = FALSE, ![d].mode = m],
               Continue(d, "done")
        PROVE  GoodStep
    <3> DEFINE h == [hw[d] EXCEPT !.low = FALSE, !.mode = m]
    <3>1. HwAt(d, h)
      BY <2>1 DEF HwAt, WorkerInv
    <3>2. m \in {"functional", "recovery", "gone"}
      BY DEF ResetModes
    <3>3. NicInv("done", h) /\ Disturbed(h)
      BY <1>1, <1>7, <3>2 DEF NicInv, NicHw, Disturbed, ReleaseNicReset
    <3> HIDE DEF h
    <3> QED
      BY <1>3, <1>7, <2>1, <3>1, <3>3 DEF ReleaseNicReset
  <2> QED
    BY <1>2, <1>7, <2>1 DEF ReleaseNicReset
<1> QED
  BY <1>4, <1>5, <1>6, <1>7

---------------------------------------------------------------------------
(* updateDebugToken                                                        *)

TokenServices == {"token-install", "token-erase"}

LEMMA TokenService ==
  ASSUME svc \in TokenServices
  PROVE  \A p, h, v : ServiceInv(svc, p, h, v) <=> TokenInv(svc, p, h, v)
  BY DEF ServiceInv, TokenServices

(* The endpoint while its operation at hand is not settled yet.            *)
InHand(s, h) ==
  /\ h \in TokenHw /\ Len(h.ops) = h.at /\ h.at >= 1 /\ h.at <= h.want
  /\ ~h.bad => \A i \in 1..h.at : i # h.at => h.ops[i] \in GoodStates(s)
  /\ \A i \in 1..h.at : h.ops[i] \in GoodStates(s) => Shows(s, h, i)

LEMMA InHandFacts ==
  ASSUME NEW s \in TokenServices, NEW p \in {"get", "wait"}, NEW h
  PROVE  /\ InHand(s, h) /\ h.driven => TokenInv(s, p, h, "none")
         /\ \A v : TokenInv(s, p, h, v) => InHand(s, h) /\ h.driven
  BY DEF InHand, TokenInv, Settled, TokenHw

(* The operation at hand is over: the next token, or the endpoint's end.   *)
LEMMA SettleGood ==
  ASSUME WorkerInv, svc \in TokenServices, NEW d \in Devices, pc[d] # "done", NEW h, NEW ok \in BOOLEAN,
         NEW t, t \in {task, "error"}, svc = "token-install" => t = "error",
         Settle(d, h, ok, t), UNCHANGED <<svc, exited>>, InHand(svc, h), Undisturbed(hw[d], h) \/ Disturbed(h),
         ok => Undisturbed(hw[d], h) /\ h.driven = TRUE /\ h.ops[h.at] \in GoodStates(svc)
  PROVE  GoodStep
<1> DEFINE b == h.bad \/ ~ok
           g == [h EXCEPT !.bad = b]
<1>1. h \in TokenHw /\ h.at \in Nat /\ h.want \in Nat /\ b \in BOOLEAN
  BY DEF InHand, TokenHw
<1>2. /\ HwAt(d, g)
      /\ IF g.at < g.want THEN Continue(d, "call")
         ELSE /\ verdict' = [verdict EXCEPT ![d] = IF g.bad THEN "failed" ELSE "recovered"]
              /\ task' = IF g.bad THEN t ELSE task
              /\ Goto(d, "done")
  BY DEF Settle, HwAt
<1> HIDE DEF b
<1>3. /\ g \in TokenHw /\ g.bad = b /\ g.at = h.at /\ g.want = h.want /\ g.ops = h.ops /\ g.held = h.held
      /\ g.driven = h.driven /\ g.mode = h.mode
  BY <1>1 DEF TokenHw
<1> HIDE DEF g
<1>4. /\ Undisturbed(hw[d], h) => Undisturbed(hw[d], g)
      /\ Disturbed(h) => Disturbed(g)
      /\ ~RecoveryMode(g)
  BY <1>1, <1>3 DEF Undisturbed, Disturbed, RecoveryMode, TokenHw
<1>5. ~g.bad => ok /\ ~h.bad
  BY <1>3 DEF b
<1>6. ~g.bad => g.driven /\ \A i \in 1..g.at : g.ops[i] \in GoodStates(svc)
  BY <1>3, <1>5 DEF InHand
<1>7. \A i \in 1..g.at : g.ops[i] \in GoodStates(svc) => Shows(svc, g, i)
  BY <1>3 DEF InHand, Shows
<1>8. Len(g.ops) = g.at /\ g.at >= 1
  BY <1>3 DEF InHand
<1>9. CASE g.at < g.want
  <2>1. TokenInv(svc, "call", g, "none")
    BY <1>3, <1>6, <1>7, <1>8, <1>9 DEF TokenInv, Settled
  <2> QED
    BY <1>2, <1>4, <1>9, <2>1, TokenService, Continues DEF TokenServices
<1>10. CASE ~(g.at < g.want)
  <2>1. /\ TokenInv(svc, "done", g, "failed")
        /\ ~g.bad => TokenInv(svc, "done", g, "recovered")
    BY <1>1, <1>3, <1>6, <1>7, <1>8, <1>10 DEF TokenInv, Settled
  <2>2. verdict[d] = "none"
    BY DEF WorkerInv
  <2>3. CASE g.bad
    <3>1. Moved(d, "done", g, "failed") /\ task' = t
      BY <1>2, <1>10, <2>3 DEF Moved, HwAt, Goto
    <3>2. svc \in TellsFailure => task' = "error"
      BY <3>1 DEF TellsFailure, TokenServices
    <3> QED
      BY <1>4, <2>1, <2>2, <3>1, <3>2, TokenService, Reports
  <2>4. CASE ~g.bad
    <3>1. Moved(d, "done", g, "recovered")
      BY <1>2, <1>10, <2>4 DEF Moved, HwAt, Goto
    <3>2. Undisturbed(hw[d], g) /\ hw[d].driven = TRUE
      BY <1>3, <1>4, <1>5, <2>4 DEF Undisturbed
    <3> QED
      BY <1>4, <2>1, <2>2, <2>4, <3>1, <3>2, TokenService, Reports
  <2> QED
    BY <2>3, <2>4
<1> QED
  BY <1>9, <1>10

(* A call puts a new operation at the end of nsmd's list, or none.         *)
LEMMA CalledFacts ==
  ASSUME NEW s \in TokenServices, NEW g, NEW v, TokenInv(s, "call", g, v)
  PROVE  /\ InHand(s, Started(g)) /\ Disturbed(Started(g))
         /\ InHand(s, NotStarted(g)) /\ Undisturbed(g, NotStarted(g))
<1>1. /\ g \in TokenHw /\ Len(g.ops) = g.at /\ g.at < g.want /\ g.at \in Nat /\ g.want \in Nat
      /\ g.ops \in Seq(OpStates)
  BY DEF TokenInv, TokenHw
<1> DEFINE n == g.at + 1
<1>2. ASSUME NEW x \in {"InProgress", "never"}
      PROVE  /\ Append(g.ops, x) \in Seq(OpStates) /\ Len(Append(g.ops, x)) = n /\ Append(g.ops, x)[n] = x
             /\ \A i \in 1..n : i # n => i \in 1..g.at /\ Append(g.ops, x)[i] = g.ops[i]
  BY <1>1 DEF OpStates
<1>3. n \in Nat /\ n >= 1 /\ n <= g.want
  BY <1>1
<1> HIDE DEF n
<1>4. ASSUME NEW x \in {"InProgress", "never"}, NEW h \in TokenHw, h.at = n, h.ops = Append(g.ops, x),
             h.want = g.want, h.held = g.held, h.bad = g.bad
      PROVE  InHand(s, h)
  <2>1. x \notin GoodStates(s)
    BY DEF GoodStates
  <2>2. ~g.bad => \A i \in 1..g.at : g.ops[i] \in GoodStates(s)
    BY DEF TokenInv, Settled
  <2>3. \A i \in 1..g.at : g.ops[i] \in GoodStates(s) => Shows(s, h, i)
    BY <1>4 DEF TokenInv, Shows
  <2>4. ~h.bad => \A i \in 1..h.at : i # h.at => h.ops[i] \in GoodStates(s)
    BY <1>2, <1>4, <2>2
  <2>5. \A i \in 1..h.at : h.ops[i] \in GoodStates(s) => Shows(s, h, i)
    BY <1>2, <1>4, <2>1, <2>3
  <2> QED
    BY <1>2, <1>3, <1>4, <2>4, <2>5 DEF InHand
<1>5. /\ Started(g) = [g EXCEPT !.at = n, !.ops = Append(g.ops, "InProgress"), !.driven = TRUE]
      /\ NotStarted(g) = [g EXCEPT !.at = n, !.ops = Append(g.ops, "never")]
  BY DEF Started, NotStarted, n
<1>6. /\ Started(g) \in TokenHw /\ Started(g).at = n /\ Started(g).ops = Append(g.ops, "InProgress")
      /\ Started(g).want = g.want /\ Started(g).held = g.held /\ Started(g).bad = g.bad /\ Started(g).driven = TRUE
  BY <1>1, <1>2, <1>3, <1>5 DEF TokenHw
<1>7. /\ NotStarted(g) \in TokenHw /\ NotStarted(g).at = n /\ NotStarted(g).ops = Append(g.ops, "never")
      /\ NotStarted(g).want = g.want /\ NotStarted(g).held = g.held /\ NotStarted(g).bad = g.bad
      /\ NotStarted(g).driven = g.driven /\ NotStarted(g).mode = g.mode
  BY <1>1, <1>2, <1>3, <1>5 DEF TokenHw
<1> QED
  BY <1>4, <1>6, <1>7 DEF Disturbed, Undisturbed, RecoveryMode

(* The worker's copy of Status and of its deadline.                        *)
Noted(g, x, n) == [g EXCEPT !.status = x, !.polls = n]

LEMMA StatusFacts ==
  ASSUME NEW s \in TokenServices, NEW g, InHand(s, g), g.driven = TRUE, NEW x \in OpStates, NEW n \in Int
  PROVE  /\ InHand(s, Noted(g, x, n)) /\ Undisturbed(g, Noted(g, x, n)) /\ Noted(g, x, n).driven = TRUE
<1> DEFINE h == Noted(g, x, n)
<1>1. /\ h \in TokenHw /\ h.driven = TRUE /\ h.mode = g.mode /\ h.driven = g.driven
      /\ h.ops = g.ops /\ h.at = g.at /\ h.want = g.want /\ h.held = g.held /\ h.bad = g.bad
  BY DEF InHand, TokenHw, Noted
<1> HIDE DEF h
<1>2. InHand(s, h) /\ Undisturbed(g, h)
  BY <1>1 DEF InHand, Undisturbed, RecoveryMode, Shows
<1> QED
  BY <1>1, <1>2 DEF h

LEMMA EndedGood ==
  ASSUME WorkerInv, svc \in TokenServices, NEW d \in Devices, pc[d] # "done", NEW h, NEW erase \in BOOLEAN,
         NEW t, t \in {task, "error"}, svc = "token-install" => t = "error", erase => svc = "token-erase",
         Ended(d, h, erase, t), UNCHANGED <<svc, exited>>, InHand(svc, h), Undisturbed(hw[d], h), h.driven = TRUE,
         h.status = "Success" => h.ops[h.at] = "Success"
  PROVE  GoodStep
<1>1. PICK ok \in BOOLEAN : Settle(d, h, ok, t) /\ (ok => h.ops[h.at] \in GoodStates(svc))
  BY DEF Ended, NotInstalledAnyway, GoodStates
<1> QED
  BY <1>1, SettleGood

(* One endpoint, for an installation and for an erasure.                   *)
LEMMA TokenStepGood ==
  ASSUME WorkerInv, svc \in TokenServices, NEW d \in Devices, UNCHANGED <<svc, exited>>, NEW erase \in BOOLEAN,
         erase => svc = "token-erase", NEW t, t \in {task, "error"}, svc = "token-install" => t = "error",
         TokenMatch(d) \/ CallToken(d, t) \/ GetStatus(d, erase, t) \/ AwaitStatus(d, erase, t)
  PROVE  GoodStep
<1>1. TokenInv(svc, pc[d], hw[d], verdict[d]) /\ hw[d] \in TokenHw
  BY TokenService DEF WorkerInv, TokenInv
<1>2. CASE TokenMatch(d)
  <2>1. pc[d] = "match" /\ hw[d].at = 0 /\ UNCHANGED <<hw, svc, exited>>
    BY <1>1, <1>2 DEF TokenMatch, Visit, TokenInv
  <2>2. /\ TokenInv(svc, "done", hw[d], "failed") /\ TokenInv(svc, "done", hw[d], "none")
        /\ hw[d].want > 0 => TokenInv(svc, "call", hw[d], "none")
    BY <1>1, <2>1 DEF TokenInv, Settled
  <2>3. \/ Conclude(d, "failed") \/ Continue(d, "done") \/ (hw[d].want > 0 /\ Continue(d, "call"))
    BY <1>2 DEF TokenMatch
  <2> QED
    BY <2>1, <2>2, <2>3, TokenService, FailsQuietly, ContinuesQuietly
<1>3. CASE CallToken(d, t)
  <2>1. pc[d] = "call" /\ TokenInv(svc, "call", hw[d], verdict[d])
    BY <1>1, <1>3 DEF CallToken, Visit
  <2>2. /\ InHand(svc, Started(hw[d])) /\ Disturbed(Started(hw[d]))
        /\ InHand(svc, NotStarted(hw[d])) /\ Undisturbed(hw[d], NotStarted(hw[d]))
    BY <2>1, CalledFacts
  <2>3. CASE Settle(d, NotStarted(hw[d]), FALSE, t) \/ Settle(d, Started(hw[d]), FALSE, t)
    BY <2>1, <2>2, <2>3, SettleGood
  <2>4. CASE hw' = [hw EXCEPT ![d] = Started(hw[d])] /\ Continue(d, "get")
    <3>1. HwAt(d, Started(hw[d])) /\ TokenInv(svc, "get", Started(hw[d]), "none")
      BY <2>2, <2>4, InHandFacts DEF HwAt, Disturbed
    <3> QED
      BY <2>1, <2>2, <2>4, <3>1, TokenService, Continues
  <2> QED
    BY <1>3, <2>3, <2>4 DEF CallToken
<1>4. ASSUME pc[d] \in {"get", "wait"}
      PROVE  /\ InHand(svc, hw[d]) /\ hw[d].driven = TRUE /\ hw[d].ops[hw[d].at] \in OpStates
             /\ hw[d].polls \in Int /\ Undisturbed(hw[d], hw[d])
  <2>1. InHand(svc, hw[d]) /\ hw[d].driven = TRUE /\ hw[d].polls \in Int
    BY <1>1, <1>4, InHandFacts DEF TokenHw
  <2>2. hw[d].ops \in Seq(OpStates) /\ hw[d].at \in 1..Len(hw[d].ops)
    BY <1>1, <2>1 DEF InHand, TokenHw
  <2> QED
    BY <2>1, <2>2 DEF Undisturbed
<1>5. ASSUME pc[d] \in {"get", "wait"}, NEW h, InHand(svc, h), h.driven = TRUE, Undisturbed(hw[d], h),
             hw' = [hw EXCEPT ![d] = h], Continue(d, "wait")
      PROVE  GoodStep
  <2>1. HwAt(d, h) /\ TokenInv(svc, "wait", h, "none")
    BY <1>5, InHandFacts DEF HwAt
  <2> QED
    BY <1>5, <2>1, TokenService, Continues DEF TokenServices
<1>6. CASE GetStatus(d, erase, t)
  <2>1. pc[d] = "get"
    BY <1>6 DEF GetStatus, Visit
  <2>2. CASE Settle(d, hw[d], FALSE, t)
    BY <1>4, <2>1, <2>2, SettleGood
  <2> DEFINE x == hw[d].ops[hw[d].at]
             h == Noted(hw[d], x, SignalPolls)
  <2>3. CASE IF h.status = "InProgress" THEN hw' = [hw EXCEPT ![d] = h] /\ Continue(d, "wait")
             ELSE Ended(d, h, erase, t)
    <3>1. x \in OpStates /\ SignalPolls \in Int
      BY <1>4, <2>1, DebugTokenAssumption
    <3> HIDE DEF x
    <3>2. InHand(svc, h) /\ h.driven = TRUE /\ Undisturbed(hw[d], h)
      BY <1>4, <2>1, <3>1, StatusFacts
    <3>3. h.status = x /\ h.ops = hw[d].ops /\ h.at = hw[d].at
      BY <1>1 DEF TokenHw, Noted
    <3> HIDE DEF h
    <3>4. h.status = "Success" => h.ops[h.at] = "Success"
      BY <3>3 DEF x
    <3> QED
      BY <1>5, <2>1, <2>3, <3>2, <3>4, EndedGood
  <2> QED
    BY <1>6, <2>2, <2>3 DEF GetStatus, Noted
<1>7. CASE AwaitStatus(d, erase, t)
  <2>1. pc[d] = "wait"
    BY <1>7 DEF AwaitStatus, Visit
  <2>2. PICK x \in StatusSignals(d) :
          LET h == [hw[d] EXCEPT !.status = x, !.polls = @ - 1] IN
          IF x = "InProgress" /\ h.polls > 0 THEN hw' = [hw EXCEPT ![d] = h] /\ Continue(d, "wait")
          ELSE Ended(d, [h EXCEPT !.polls = 0], erase, t)
    BY <1>7 DEF AwaitStatus
  <2>3. x \in OpStates /\ (x = "Success" => hw[d].ops[hw[d].at] = "Success")
    BY <1>4, <2>1, <2>2 DEF StatusSignals, OpStates
  <2> DEFINE n == hw[d].polls - 1
             h == Noted(hw[d], x, n)
             e == Noted(hw[d], x, 0)
  <2>4. [h EXCEPT !.polls = 0] = e
    BY <1>1 DEF TokenHw, Noted
  <2>5. \/ hw' = [hw EXCEPT ![d] = h] /\ Continue(d, "wait")
        \/ Ended(d, e, erase, t)
    BY <2>2, <2>4 DEF Noted
  <2>6. n \in Int
    BY <1>4, <2>1
  <2> HIDE DEF n
  <2>7. InHand(svc, h) /\ h.driven = TRUE /\ Undisturbed(hw[d], h)
    BY <1>4, <2>1, <2>3, <2>6, StatusFacts
  <2>8. InHand(svc, e) /\ e.driven = TRUE /\ Undisturbed(hw[d], e)
    <3>1. 0 \in Int
      OBVIOUS
    <3> QED
      BY <1>4, <2>1, <2>3, <3>1, StatusFacts
  <2>9. e.status = "Success" => e.ops[e.at] = "Success"
    <3>1. e.status = x /\ e.ops = hw[d].ops /\ e.at = hw[d].at
      BY <1>1 DEF TokenHw, Noted
    <3> QED
      BY <2>3, <3>1
  <2> HIDE DEF h, e
  <2> QED
    BY <1>5, <2>1, <2>5, <2>7, <2>8, <2>9, EndedGood
<1> QED
  BY <1>2, <1>3, <1>6, <1>7

(* nsmd ends an operation, whether or not anyone waits for it.             *)
LEMMA OperationEnds ==
  ASSUME WorkerInv, svc \in TokenServices, NEW d \in Devices, NEW i \in DOMAIN hw[d].ops,
         hw[d].ops[i] = "InProgress", UNCHANGED <<svc, exited, pc, verdict, task>>,
         NEW x \in {"Success", "NotInstalled", "Error"}, NEW held \in SUBSET Nat,
         hw' = [hw EXCEPT ![d] = [hw[d] EXCEPT !.ops = [@ EXCEPT ![i] = x], !.held = held]],
         svc = "token-install" => hw[d].held \subseteq held /\ (x = "Success" => i \in held),
         svc = "token-erase" => held = {} \/ (held = hw[d].held /\ x = "Error")
  PROVE  GoodStep
<1> DEFINE g == hw[d]
           ops == [g.ops EXCEPT ![i] = x]
           h == [g EXCEPT !.ops = ops, !.held = held]
<1>1. TokenInv(svc, pc[d], g, verdict[d]) /\ g \in TokenHw /\ g.ops \in Seq(OpStates) /\ Len(g.ops) = g.at
  BY TokenService DEF WorkerInv, TokenInv, TokenHw
<1>2. /\ ops \in Seq(OpStates) /\ Len(ops) = g.at /\ ops[i] = x /\ i \in 1..g.at
      /\ \A j \in 1..g.at : j # i => ops[j] = g.ops[j]
  BY <1>1 DEF OpStates
<1> HIDE DEF ops
<1>3. /\ h \in TokenHw /\ h.ops = ops /\ h.held = held /\ h.at = g.at /\ h.want = g.want /\ h.bad = g.bad
      /\ h.driven = g.driven /\ h.mode = g.mode
  BY <1>1, <1>2 DEF TokenHw
<1>4. hw' = [hw EXCEPT ![d] = h]
  BY DEF ops
<1> HIDE DEF h
<1>5. "InProgress" \notin GoodStates(svc) /\ GoodStates(svc) \subseteq {"Success", "NotInstalled"}
  BY DEF GoodStates
<1>6. ~h.bad => \A j \in Settled(pc[d], h) : h.ops[j] \in GoodStates(svc)
  BY <1>1, <1>2, <1>3, <1>5 DEF TokenInv, Settled
<1>7. \A j \in 1..h.at : h.ops[j] \in GoodStates(svc) => Shows(svc, h, j)
  <2> SUFFICES ASSUME NEW j \in 1..g.at, ops[j] \in GoodStates(svc) PROVE Shows(svc, h, j)
    BY <1>3
  <2>1. CASE svc = "token-install"
    <3>1. GoodStates(svc) = {"Success"}
      BY <2>1 DEF GoodStates
    <3>2. j # i => j \in g.held
      BY <1>1, <1>2, <2>1 DEF TokenInv, Shows
    <3> QED
      BY <1>2, <1>3, <2>1, <3>1, <3>2 DEF Shows
  <2>2. CASE svc = "token-erase"
    <3>1. held = {} \/ (held = g.held /\ x = "Error")
      BY <2>2
    <3>2. j # i => g.held = {}
      BY <1>1, <1>2, <2>2 DEF TokenInv, Shows
    <3>3. x = "Error" => j # i
      BY <1>2, <1>5
    <3> QED
      BY <1>3, <2>2, <3>1, <3>2, <3>3 DEF Shows
  <2> QED
    BY <2>1, <2>2 DEF TokenServices
<1>8. TokenInv(svc, pc[d], h, verdict[d])
  BY <1>1, <1>2, <1>3, <1>6, <1>7 DEF TokenInv
<1>9. Undisturbed(g, h)
  BY <1>3 DEF Undisturbed, RecoveryMode
<1> QED
  BY <1>4, <1>8, <1>9, TokenService, Settles DEF TokenServices

LEMMA DeviceInstallsGood ==
  ASSUME WorkerInv, svc = "token-install", NEW d \in Devices, DeviceInstalls(d), UNCHANGED <<svc, exited>>
  PROVE  GoodStep
<1>1. PICK i \in DOMAIN hw[d].ops :
        /\ hw[d].ops[i] = "InProgress" /\ UNCHANGED <<pc, verdict, task>>
        /\ \/ hw' = [hw EXCEPT ![d].ops[i] = "Success", ![d].held = @ \cup {i}]
           \/ hw' = [hw EXCEPT ![d].ops[i] = "Error"]
  BY DEF DeviceInstalls
<1>2. hw[d] \in TokenHw /\ hw[d].held \in SUBSET Nat /\ i \in Nat /\ svc \in TokenServices
  BY TokenService DEF WorkerInv, TokenInv, TokenHw, TokenServices
<1>3. CASE hw' = [hw EXCEPT ![d].ops[i] = "Success", ![d].held = @ \cup {i}]
  <2> DEFINE held == hw[d].held \cup {i}
  <2>1. hw' = [hw EXCEPT ![d] = [hw[d] EXCEPT !.ops = [@ EXCEPT ![i] = "Success"], !.held = held]]
    BY <1>2, <1>3 DEF WorkerInv, TokenHw
  <2>2. held \in SUBSET Nat /\ hw[d].held \subseteq held /\ i \in held
    BY <1>2
  <2> HIDE DEF held
  <2> QED
    BY <1>1, <1>2, <2>1, <2>2, OperationEnds
<1>4. CASE hw' = [hw EXCEPT ![d].ops[i] = "Error"]
  <2>1. hw' = [hw EXCEPT ![d] = [hw[d] EXCEPT !.ops = [@ EXCEPT ![i] = "Error"], !.held = hw[d].held]]
    BY <1>2, <1>4 DEF WorkerInv, TokenHw
  <2> QED
    BY <1>1, <1>2, <2>1, OperationEnds, ZenonT(40)
<1> QED
  BY <1>1, <1>3, <1>4

LEMMA DeviceErasesGood ==
  ASSUME WorkerInv, svc = "token-erase", NEW d \in Devices, DeviceErases(d), UNCHANGED <<svc, exited>>
  PROVE  GoodStep
<1>1. PICK i \in DOMAIN hw[d].ops :
        /\ hw[d].ops[i] = "InProgress" /\ UNCHANGED <<pc, verdict, task>>
        /\ \/ hw' = [hw EXCEPT ![d].ops[i] = IF hw[d].held = {} THEN "NotInstalled" ELSE "Success", ![d].held = {}]
           \/ hw' = [hw EXCEPT ![d].ops[i] = "Error"]
  BY DEF DeviceErases
<1>2. hw[d] \in TokenHw /\ hw[d].held \in SUBSET Nat /\ i \in Nat /\ svc \in TokenServices
  BY TokenService DEF WorkerInv, TokenInv, TokenHw, TokenServices
<1>3. ASSUME NEW x \in {"NotInstalled", "Success"}, hw' = [hw EXCEPT ![d].ops[i] = x, ![d].held = {}]
      PROVE  GoodStep
  <2>1. hw' = [hw EXCEPT ![d] = [hw[d] EXCEPT !.ops = [@ EXCEPT ![i] = x], !.held = {}]]
    BY <1>2, <1>3 DEF WorkerInv, TokenHw
  <2>2. {} \in SUBSET Nat /\ x \in {"Success", "NotInstalled", "Error"} /\ svc # "token-install"
    BY <1>3
  <2> QED
    BY <1>1, <1>2, <2>1, <2>2, OperationEnds
<1>4. CASE hw' = [hw EXCEPT ![d].ops[i] = "Error"]
  <2>1. hw' = [hw EXCEPT ![d] = [hw[d] EXCEPT !.ops = [@ EXCEPT ![i] = "Error"], !.held = hw[d].held]]
    BY <1>2, <1>4 DEF WorkerInv, TokenHw
  <2> QED
    BY <1>1, <1>2, <2>1, OperationEnds
<1> QED
  BY <1>1, <1>3, <1>4

LEMMA TokensForType ==
  ASSUME NEW pkg \in Packages, NEW d PROVE TokensFor(pkg, d) \in Nat
<1>1. PICK n \in 0..MaxRecords : pkg.records \in [1..n -> Devices \cup {"noserial", "invalid"}]
  BY DEF Packages
<1>2. IsFiniteSet(1..n)
  BY <1>1, DebugTokenAssumption, FS_Interval
<1>3. IsFiniteSet({i \in DOMAIN pkg.records : pkg.records[i] = d})
  BY <1>1, <1>2, FS_Subset
<1> QED
  BY <1>3, FS_CardinalityType DEF TokensFor

(* What the package or the erasure asks of every endpoint.                 *)
LEMMA AllStart ==
  ASSUME WorkerInv, svc \in TokenServices, Fresh, UNCHANGED <<svc, exited, verdict, task>>,
         NEW n \in [Devices -> Nat], NEW p \in {"match", "call"}, p = "call" => \A d \in Devices : n[d] = 1,
         hw' = [d \in Devices |-> [hw[d] EXCEPT !.want = n[d]]], pc' = [d \in Devices |-> p]
  PROVE  GoodStep
<1>1. \A d \in Devices : TokenInv(svc, "todo", hw[d], verdict[d]) /\ verdict[d] = "none"
  BY TokenService DEF WorkerInv, Fresh
<1>2. ASSUME NEW d \in Devices
      PROVE  TokenInv(svc, p, hw'[d], "none") /\ hw'[d].driven = hw[d].driven /\ hw'[d].mode = hw[d].mode
  <2> DEFINE h == [hw[d] EXCEPT !.want = n[d]]
  <2>1. hw'[d] = h /\ hw[d] \in TokenHw /\ Len(hw[d].ops) = hw[d].at /\ hw[d].at = 0
    BY <1>1 DEF TokenInv
  <2>2. /\ h \in TokenHw /\ h.at = hw[d].at /\ h.ops = hw[d].ops /\ h.held = hw[d].held /\ h.bad = hw[d].bad
        /\ h.driven = hw[d].driven /\ h.mode = hw[d].mode /\ h.want = n[d]
    BY <2>1 DEF TokenHw
  <2> HIDE DEF h
  <2>3. TokenInv(svc, p, h, "none")
    BY <2>1, <2>2 DEF TokenInv, Settled
  <2> QED
    BY <2>1, <2>2, <2>3
<1>3. WorkerInv'
  <2>1. /\ svc' \in Services /\ task' \in {"ok", "error"} /\ exited' \in BOOLEAN /\ verdict' \in [Devices -> Verdict]
        /\ pc' = [d \in Devices |-> pc'[d]] /\ hw' = [d \in Devices |-> hw'[d]]
    BY DEF WorkerInv
  <2>2. \A d \in Devices : ServiceInv(svc', pc'[d], hw'[d], verdict'[d]) /\ verdict'[d] = "none"
    BY <1>1, <1>2, TokenService
  <2> QED
    BY <2>1, <2>2 DEF WorkerInv
<1>4. UNCHANGED Contract!vars
  BY <1>2 DEF Contract!vars, InRecovery
<1> QED
  BY <1>3, <1>4 DEF GoodStep

LEMMA TokenDone ==
  ASSUME WorkerInv, svc \in TokenServices, NEW d \in Devices
  PROVE  \/ ServiceInv(svc, "done", hw[d], "none") /\ ServiceInv(svc, "done", hw[d], "failed")
         \/ pc[d] # "todo"
  BY TokenService DEF WorkerInv, TokenInv, Settled

LEMMA AllFailedGood ==
  ASSUME WorkerInv, svc \in TokenServices, Fresh, NEW t, t \in {task, "error"},
         svc = "token-install" => t = "error", AllFailed(t), UNCHANGED <<svc, exited>>
  PROVE  GoodStep
<1>1. t \in {"ok", "error"} /\ (svc \in TellsFailure => t = "error")
  BY DEF WorkerInv, TellsFailure, TokenServices
<1> QED
  BY <1>1, TokenDone, AllDone DEF AllFailed, Fresh

LEMMA InstallGood ==
  ASSUME WorkerInv, svc = "token-install", installDebugToken, UNCHANGED <<svc, exited>>
  PROVE  GoodStep
<1>1. svc \in TokenServices /\ Fresh
  BY DEF TokenServices, installDebugToken
<1>2. CASE AllFailed("error")
  BY <1>1, <1>2, AllFailedGood
<1>3. ASSUME NEW pkg \in Packages, UNCHANGED <<verdict, task>>,
             hw' = [d \in Devices |-> [hw[d] EXCEPT !.want = TokensFor(pkg, d)]],
             pc' = [d \in Devices |-> "match"]
      PROVE  GoodStep
  <2> DEFINE n == [d \in Devices |-> TokensFor(pkg, d)]
  <2>1. n \in [Devices -> Nat]
    BY TokensForType
  <2>2. hw' = [d \in Devices |-> [hw[d] EXCEPT !.want = n[d]]]
    BY <1>3
  <2> HIDE DEF n
  <2> QED
    BY <1>1, <1>3, <2>1, <2>2, AllStart
<1> QED
  BY <1>2, <1>3 DEF installDebugToken

LEMMA EraseGood ==
  ASSUME WorkerInv, svc = "token-erase", eraseDebugToken, UNCHANGED <<svc, exited>>
  PROVE  GoodStep
<1>1. svc \in TokenServices /\ Fresh
  BY DEF TokenServices, eraseDebugToken
<1>2. CASE AllFailed(task)
  BY <1>1, <1>2, AllFailedGood
<1>3. CASE pc' = [d \in Devices |-> "done"] /\ UNCHANGED <<hw, verdict, task>>
  <2>1. task' \in {"ok", "error"}
    BY <1>3 DEF WorkerInv
  <2> QED
    BY <1>1, <1>3, <2>1, TokenDone, AllDone DEF Fresh
<1>4. CASE /\ hw' = [d \in Devices |-> [hw[d] EXCEPT !.want = 1]]
           /\ pc' = [d \in Devices |-> "call"] /\ UNCHANGED <<verdict, task>>
  <2> DEFINE n == [d \in Devices |-> 1]
  <2>1. n \in [Devices -> Nat] /\ \A d \in Devices : n[d] = 1
    OBVIOUS
  <2>2. hw' = [d \in Devices |-> [hw[d] EXCEPT !.want = n[d]]]
    BY <1>4
  <2> HIDE DEF n
  <2> QED
    BY <1>1, <1>4, <2>1, <2>2, AllStart
<1> QED
  BY <1>2, <1>3, <1>4 DEF eraseDebugToken

---------------------------------------------------------------------------
(* All workers                                                             *)

LEMMA WorkGood ==
  ASSUME WorkerInv, Work, UNCHANGED <<svc, exited>>
  PROVE  GoodStep
<1>1. CASE (svc = "usbdfu" /\ DfuNext) \/ (svc = "usbdfu-tool" /\ DfuToolNext)
  BY <1>1, DfuPackageGood, DfuStepGood, DfuProbeGood, DfuForcedGood DEF DfuNext, DfuToolNext
<1>2. CASE (svc = "mcu" /\ McuNext) \/ (svc = "mcu-force" /\ McuForceNext)
  BY <1>2, McuInitializeGood, McuStepGood DEF McuNext, McuForceNext, McuServices
<1>3. CASE svc = "mcu-reset" /\ McuResetNext
  BY <1>3, McuInitializeGood, McuResetGood DEF McuResetNext, McuServices
<1>4. CASE svc = "mcu-setforce" /\ McuSetForceNext
  BY <1>4, McuInitializeGood, McuSetForceGood DEF McuSetForceNext, McuServices
<1>5. CASE svc = "ocp" /\ OcpNext
  BY <1>5, OcpImagesGood, OcpStepGood DEF OcpNext
<1>6. CASE svc = "glacier" /\ GlacierNext
  BY <1>6, GlacierStepGood DEF GlacierNext
<1>7. CASE svc = "token-install" /\ TokenInstallNext
  <2>1. svc \in TokenServices /\ ~FALSE
    BY <1>7 DEF TokenServices
  <2>2. ASSUME NEW d \in Devices, nsmTokenInstallV2(d) PROVE GoodStep
    BY <1>7, <2>1, <2>2, TokenStepGood DEF nsmTokenInstallV2
  <2> QED
    BY <1>7, <2>2, InstallGood, DeviceInstallsGood DEF TokenInstallNext
<1>8. CASE svc = "token-erase" /\ TokenEraseNext
  <2>1. svc \in TokenServices
    BY <1>8 DEF TokenServices
  <2>2. ASSUME NEW d \in Devices, nsmTokenEraseV2(d) PROVE GoodStep
    BY <1>8, <2>1, <2>2, TokenStepGood DEF nsmTokenEraseV2
  <2> QED
    BY <1>8, <2>2, EraseGood, DeviceErasesGood DEF TokenEraseNext
<1>9. CASE svc = "nic-force" /\ NicForceNext
  BY <1>9, NicStepGood DEF NicForceNext
<1> QED
  BY <1>1, <1>2, <1>3, <1>4, <1>5, <1>6, <1>7, <1>8, <1>9 DEF Work

LEMMA NextGood == WorkerInv /\ [Next]_vars => GoodStep
<1> SUFFICES ASSUME WorkerInv, [Next]_vars PROVE GoodStep
  OBVIOUS
<1>1. CASE Work /\ UNCHANGED <<svc, exited>>
  BY <1>1, WorkGood
<1>2. CASE Exit /\ UNCHANGED svc
  <2>1. WorkerInv'
    BY <1>2 DEF Exit, WorkerInv
  <2>2. UNCHANGED Contract!vars
    BY <1>2 DEF Exit, Contract!vars, InRecovery
  <2> QED
    BY <2>1, <2>2 DEF GoodStep
<1>3. CASE UNCHANGED vars
  <2>1. WorkerInv'
    BY <1>3 DEF vars, WorkerInv
  <2>2. UNCHANGED Contract!vars
    BY <1>3 DEF vars, Contract!vars, InRecovery
  <2> QED
    BY <2>1, <2>2 DEF GoodStep
<1> QED
  BY <1>1, <1>2, <1>3, EnumeratesGood DEF Next, Running, Done

LEMMA ZeroIsNat == 0 \in Nat
  OBVIOUS

(* A device as a worker finds it.                                          *)
LEMMA WorkerInitInv == Init => WorkerInv /\ Contract!Init
<1> SUFFICES ASSUME Init PROVE WorkerInv /\ Contract!Init
  OBVIOUS
<1>1. svc \in Services /\ task = "ok" /\ exited = FALSE /\ \A d \in Devices : hw[d] \in HwInit(svc)
  BY DEF Init
<1>2. /\ pc = [d \in Devices |-> pc[d]] /\ hw = [d \in Devices |-> hw[d]]
      /\ verdict \in [Devices -> Verdict] /\ \A d \in Devices : pc[d] = "todo" /\ verdict[d] = "none"
  BY DEF Init, Verdict
<1>3. ASSUME NEW h \in HwInit(svc) PROVE /\ ServiceInv(svc, "todo", h, "none") /\ h.driven = FALSE
                                           /\ h.mode # "booting" /\ (svc = "glacier" => h.garbled = FALSE)
  <2>1. CASE svc \in {"usbdfu", "usbdfu-tool"}
    <3>1. h \in DfuHwInit /\ 0 \in 0..(ProgramUnits * ChipSelects)
      BY <1>3, <2>1, SettleCovers DEF HwInit
    <3> QED
      BY <2>1, <3>1, DfuService DEF DfuHwInit, DfuInv, DfuHw
  <2>2. CASE svc \in McuServices
    <3>1. h \in McuHwInit
      BY <1>3, <2>2 DEF HwInit, McuServices
    <3>2. h \in McuHw /\ h.driven = FALSE /\ h.mode # "booting"
      BY <3>1, ZeroIsNat DEF McuHwInit, McuHw
    <3> QED
      BY <2>2, <3>2, McuService DEF McuInv, McuServices
  <2>3. CASE svc = "ocp"
    <3>1. h \in OcpHwInit
      BY <1>3, <2>3 DEF HwInit
    <3>2. h \in OcpHw /\ h.driven = FALSE /\ h.activated = 0 /\ h.mode # "booting"
      BY <3>1, ZeroIsNat DEF OcpHwInit, OcpHw
    <3>3. 0 < Images
      BY OcpBounds
    <3> QED
      BY <2>3, <3>2, <3>3, OcpService DEF OcpInv
  <2>4. CASE svc = "glacier"
    <3>1. h \in GlacierHwInit
      BY <1>3, <2>4 DEF HwInit
    <3>2. h \in GlacierHw /\ h.driven = FALSE /\ h.sent = 0 /\ h.garbled = FALSE /\ h.mode # "booting"
      BY <3>1, ZeroIsNat DEF GlacierHwInit, GlacierHw
    <3> QED
      BY <2>4, <3>2, GlacierService DEF GlacierInv
  <2>5. CASE svc \in TokenServices
    <3>1. h \in TokenHwInit
      BY <1>3, <2>5 DEF HwInit, TokenServices
    <3>2. /\ h.ops = <<>> /\ h.at = 0 /\ h.driven = FALSE /\ h.held \in {{}, {0}} /\ h.mode = "functional"
          /\ h.id \in BOOLEAN /\ h.want = 0 /\ h.status = "none" /\ h.polls = 0 /\ h.bad = FALSE
      BY <3>1 DEF TokenHwInit
    <3>3. /\ <<>> \in Seq(OpStates) /\ Len(<<>>) = 0 /\ {{}, {0}} \subseteq SUBSET Nat
          /\ 0 \in Int /\ "none" \in OpStates \cup {"none"}
      OBVIOUS
    <3>4. h \in TokenHw
      <4>1. h = [mode |-> h.mode, driven |-> h.driven, id |-> h.id, want |-> h.want, at |-> h.at,
                 ops |-> h.ops, held |-> h.held, status |-> h.status, polls |-> h.polls, bad |-> h.bad]
        BY <3>1 DEF TokenHwInit
      <4>2. /\ h.ops \in Seq(OpStates) /\ h.at \in Nat /\ h.want \in Nat /\ h.held \in SUBSET Nat
            /\ h.status \in OpStates \cup {"none"} /\ h.polls \in Int
        BY <3>2, <3>3, ZeroIsNat
      <4>3. h.driven \in BOOLEAN /\ h.id \in BOOLEAN /\ h.bad \in BOOLEAN /\ h.mode \in {"functional"}
        BY <3>2
      <4> QED
        BY <4>1, <4>2, <4>3 DEF TokenHw
    <3> QED
      BY <2>5, <3>2, <3>3, <3>4, TokenService DEF TokenInv, Settled, TokenServices
  <2>6. CASE svc = "nic-force"
    <3>1. h \in NicHwInit
      BY <1>3, <2>6 DEF HwInit
    <3> QED
      BY <2>6, <3>1, NicService DEF NicHwInit, NicInv, NicHw
  <2> QED
    BY <1>1, <2>1, <2>2, <2>3, <2>4, <2>5, <2>6 DEF Services, McuServices, TokenServices
<1>4. WorkerInv
  BY <1>1, <1>2, <1>3 DEF WorkerInv
<1>5. Contract!Init
  <2>1. [d \in Devices |-> InRecovery(d)] \in [Devices -> BOOLEAN]
    BY DEF InRecovery
  <2>2. [d \in Devices |-> hw[d].driven] = [d \in Devices |-> FALSE]
    BY <1>1, <1>3
  <2>3. verdict = [d \in Devices |-> "none"]
    BY DEF Init
  <2>4. /\ [d \in Devices |-> hw[d].mode = "booting"] = [d \in Devices |-> FALSE]
        /\ [d \in Devices |-> svc = "glacier" /\ hw[d].garbled] = [d \in Devices |-> FALSE]
    BY <1>1, <1>3
  <2> QED
    BY <2>1, <2>2, <2>3, <2>4 DEF Contract!Init
<1> QED
  BY <1>4, <1>5

LEMMA WorkerInvariant == Spec => []WorkerInv
<1>1. WorkerInv /\ [Next]_vars => WorkerInv'
  BY NextGood DEF GoodStep
<1> QED
  BY <1>1, WorkerInitInv, PTL DEF Spec

(* Every recovery worker implements the recovery contract: what it reports *)
(* healthy it never disturbed, what it reports recovered it worked on and  *)
(* does not touch again, and a device reported either way is out of        *)
(* recovery mode, unless it was still restarting when it was looked at     *)
(* (waitForRecoveryExit), was not looked at (--no-verify), or its answer   *)
(* came garbled (validateGetResponseCmd checks the command byte first).    *)
THEOREM WorkersKeepContract == Spec => KeepsContract
<1>1. WorkerInv /\ [Next]_vars => [Contract!Next]_(Contract!vars)
  BY NextGood DEF GoodStep
<1> QED
  BY <1>1, WorkerInitInv, WorkerInvariant, PTL DEF Spec, KeepsContract, Contract!Spec

(* What a worker reports as recovered is: the HMC's image was not torn,    *)
(* the GPU was sent every chunk once, the endpoint holds every token of    *)
(* its package, or none after an erasure.                                  *)
THEOREM ReportsAreTrue == Spec => []ReportedWorkIsDone
<1>1. WorkerInv => ReportedWorkIsDone
  <2> SUFFICES ASSUME WorkerInv, NEW d \in Devices, verdict[d] \in {"recovered", "unverified"}
               PROVE  /\ svc \in {"usbdfu", "usbdfu-tool"} => hw[d].flash # "torn"
                      /\ svc = "ocp" => hw[d].intact /\ hw[d].activated = Images
                      /\ svc = "token-install" => 1..hw[d].want \subseteq hw[d].held
                      /\ svc = "token-erase" => hw[d].held = {}
    BY DEF ReportedWorkIsDone
  <2>1. ServiceInv(svc, pc[d], hw[d], verdict[d])
    BY DEF WorkerInv
  <2>2. svc \in {"usbdfu", "usbdfu-tool"} => hw[d].flash # "torn"
    BY <2>1, DfuService DEF DfuInv
  <2>3. svc = "ocp" => hw[d].intact /\ hw[d].activated = Images
    BY <2>1, OcpService DEF OcpInv
  <2>4. ASSUME svc \in TokenServices
        PROVE  /\ hw[d].at \in Nat /\ hw[d].at >= 1 /\ hw[d].want \in Nat /\ hw[d].want <= hw[d].at
               /\ \A i \in 1..hw[d].at : Shows(svc, hw[d], i)
    BY <2>1, <2>4, TokenService DEF TokenInv, Settled, TokenHw
  <2>5. svc = "token-install" => 1..hw[d].want \subseteq hw[d].held
    BY <2>4 DEF Shows, TokenServices
  <2>6. svc = "token-erase" => hw[d].held = {}
    BY <2>4 DEF Shows, TokenServices
  <2> QED
    BY <2>2, <2>3, <2>5, <2>6
<1> QED
  BY <1>1, WorkerInvariant, PTL

(* While SetForceRecovery has met no MCU that is not in recovery, it has   *)
(* either found every one it is done with there, or given up.              *)
SetForceInv == svc = "mcu-setforce" =>
  /\ exited => \A d \in Devices : pc[d] = "done"
  /\ task = "ok" => \/ \A d \in Devices : verdict[d] = "none" /\ (pc[d] = "done" => InRecovery(d))
                    \/ \A d \in Devices : pc[d] = "done" => verdict[d] = "failed"

LEMMA SetForceStep == WorkerInv /\ SetForceInv /\ [Next]_vars => SetForceInv'
<1> SUFFICES ASSUME WorkerInv, SetForceInv, [Next]_vars, svc' = "mcu-setforce" PROVE SetForceInv'
  BY DEF SetForceInv
<1>1. svc = "mcu-setforce"
  BY DEF Next, Running, Enumerates, Done, vars
<1>2. /\ \A d \in Devices : verdict[d] # "none" => pc[d] = "done"
      /\ pc = [d \in Devices |-> pc[d]] /\ hw = [d \in Devices |-> hw[d]] /\ verdict \in [Devices -> Verdict]
  BY DEF WorkerInv
<1>3. CASE UNCHANGED vars
  BY <1>1, <1>3 DEF SetForceInv, vars, InRecovery
<1>4. CASE Exit /\ UNCHANGED svc
  BY <1>1, <1>4 DEF SetForceInv, Exit, InRecovery
<1>5. CASE McuEndsBefore("error") /\ UNCHANGED <<svc, exited>>
  BY <1>5 DEF SetForceInv, McuEndsBefore
<1>6. ASSUME NEW d \in Devices, McuForceEnter(d), UNCHANGED <<svc, exited>> PROVE SetForceInv'
  <2>1. /\ ~exited' /\ task' = task /\ verdict' = verdict /\ pc'[d] = "forced"
        /\ \A e \in Devices \ {d} : pc'[e] = pc[e] /\ hw'[e] = hw[e]
    BY <1>2, <1>6 DEF McuForceEnter, enterRecoveryMode, Continue, Goto
  <2> QED
    BY <1>1, <2>1 DEF SetForceInv, InRecovery
<1>7. ASSUME NEW d \in Devices, McuForceThrows(d), UNCHANGED <<svc, exited>> PROVE SetForceInv'
  <2>1. /\ ~exited' /\ task' = task /\ verdict'[d] = "failed"
        /\ GaveUp \/ \A e \in Devices : pc[e] # "done"
        /\ \A e \in Devices \ {d} : pc'[e] = pc[e] /\ verdict'[e] = verdict[e]
    BY <1>2, <1>7 DEF McuForceThrows, McuConclude, Goto
  <2>2. task = "ok" => \A e \in Devices : pc[e] = "done" => verdict[e] = "failed"
    BY <1>1, <2>1 DEF SetForceInv, GaveUp
  <2> QED
    BY <2>1, <2>2 DEF SetForceInv
<1>8. ASSUME NEW d \in Devices, McuForceVerify(d), UNCHANGED <<svc, exited>> PROVE SetForceInv'
  <2>1. ~exited' /\ UNCHANGED hw /\ ~GaveUp /\ \A e \in Devices \ {d} : pc'[e] = pc[e] /\ verdict'[e] = verdict[e]
    BY <1>2, <1>8 DEF McuForceVerify, McuConclude, Conclude, Goto
  <2>2. CASE InRecovery(d)
    <3>1. task' = task /\ verdict'[d] = "none"
      BY <1>2, <1>8, <2>2 DEF McuForceVerify, McuConclude
    <3>2. task = "ok" => \A e \in Devices : verdict[e] = "none" /\ (pc[e] = "done" => InRecovery(e))
      BY <1>1, <1>2, <2>1 DEF SetForceInv, GaveUp
    <3> QED
      BY <2>1, <2>2, <3>1, <3>2 DEF SetForceInv, InRecovery
  <2>3. CASE ~InRecovery(d)
    <3>1. task' = "error"
      BY <1>8, <2>3 DEF McuForceVerify, Conclude
    <3> QED
      BY <2>1, <3>1 DEF SetForceInv
  <2> QED
    BY <2>2, <2>3
<1> QED
  BY <1>1, <1>3, <1>4, <1>5, <1>6, <1>7, <1>8 DEF Next, Running, Done, Enumerates, Work, McuSetForceNext

(* A worker that lets a verdict reach its exit status does so for every    *)
(* device that failed, whatever became of the others; SetForceRecovery     *)
(* exits 0 only when it saw every MCU in recovery mode, or gave up on all. *)
THEOREM ExitStatusTells == Spec => []ExitTellsFailure
<1>1. WorkerInv /\ SetForceInv => ExitTellsFailure
  <2> SUFFICES ASSUME WorkerInv, SetForceInv PROVE ExitTellsFailure
    OBVIOUS
  <2>1. svc \in TellsFailure /\ (\E d \in Devices : verdict[d] = "failed") => task = "error"
    BY DEF WorkerInv
  <2>2. svc = "mcu-setforce" /\ exited /\ task = "ok"
        => (\A d \in Devices : InRecovery(d)) \/ (\A d \in Devices : verdict[d] = "failed")
    BY DEF SetForceInv
  <2> QED
    BY <2>1, <2>2 DEF ExitTellsFailure, TellsFailure
<1>2. Init => SetForceInv
  BY DEF Init, SetForceInv
<1> QED
  BY <1>1, <1>2, SetForceStep, WorkerInvariant, PTL DEF Spec


---------------------------------------------------------------------------
(* Forced recovery                                                         *)

Strap == {"default", "partial", "recovery"}
Phases == {"idle", "assert", "straps", "release", "result", "confirm", "defaults"}
Request == [by : {"none", "cli", "api"}, at : Phases, b : Board, ok : BOOLEAN,
            tries : Nat, reply : {"none", "ok", "failed"}]

ForceTyped ==
  /\ strap \in [Board -> Strap] /\ sampled \in [Board -> Strap]
  /\ force \in Request /\ lines \subseteq Board /\ rst \subseteq Board

(* A phase is only left towards the next one when every board took part:   *)
(* this is what the boards' straps say when the resets are released.       *)
StrapsFirst ==
  /\ force.at = "straps" /\ force.ok => \A b \in Board : b < force.b => strap[b] = "recovery"
  /\ force.at = "release" => \A b \in Board : strap[b] = "recovery"

ForceInv == ForceTyped /\ StrapsFirst /\ NoPartialBoot

(* The next board of a phase is a board, and the phase that follows starts *)
(* on board 0 with no failure so far.                                      *)
LEMMA NextBoardFacts ==
  ASSUME ForceTyped, NEW ok \in BOOLEAN, NEW phase \in Phases, NextBoard(ok, phase)
  PROVE  /\ force' \in Request
         /\ \/ /\ force'.at = force.at /\ force'.b = force.b + 1
               /\ force.b + 1 \in Board /\ force'.ok = (force.ok /\ ok)
            \/ force'.at = phase /\ force'.b = 0 /\ force.ok /\ ok /\ force.b = Boards - 1
            \/ force'.at = "result"
<1>1. Boards \in Nat /\ Boards >= 1 /\ Board = 0..(Boards - 1) /\ 0 \in Board
  BY ForceBounds DEF Board
<1>2. force \in Request /\ force.b \in 0..(Boards - 1) /\ force.ok \in BOOLEAN
  BY <1>1 DEF ForceTyped, Request
<1>3. CASE force.b < Boards - 1
  <2>1. force.b + 1 \in Board
    BY <1>1, <1>2, <1>3
  <2>2. force' = [force EXCEPT !.b = @ + 1, !.ok = (force.ok /\ ok)]
    BY <1>3 DEF NextBoard
  <2> QED
    BY <1>2, <2>1, <2>2 DEF Request
<1>4. CASE ~(force.b < Boards - 1)
  <2>1. force' = [force EXCEPT !.b = 0, !.ok = (force.ok /\ ok),
                               !.at = IF force.ok /\ ok THEN phase ELSE "result"]
    BY <1>4 DEF NextBoard
  <2>2. force.b = Boards - 1
    BY <1>1, <1>2, <1>4
  <2>3. (IF force.ok /\ ok THEN phase ELSE "result") \in Phases
    BY DEF Phases
  <2> QED
    BY <1>1, <1>2, <2>1, <2>2, <2>3 DEF Request
<1> QED
  BY <1>3, <1>4

(* The initial states.                                                     *)
LEMMA ForceInitInv == ForceInit => ForceInv
<1> SUFFICES ASSUME ForceInit PROVE ForceInv
  OBVIOUS
<1>1. 0 \in Board
  BY ForceBounds DEF Board
<1>2. Idle \in Request /\ force = Idle /\ force.at = "idle"
  BY <1>1 DEF Idle, Request, Phases, ForceInit
<1>3. strap \in [Board -> Strap] /\ sampled \in [Board -> Strap] /\ NoPartialBoot
  BY DEF ForceInit, Strap, NoPartialBoot
<1> QED
  BY <1>2, <1>3 DEF ForceInv, ForceTyped, StrapsFirst, ForceInit

(* What programming the straps of one board leaves: the other boards' are  *)
(* as they were.                                                           *)
LEMMA StrapWritten ==
  ASSUME strap \in [Board -> Strap], NEW i \in Board, NEW v \in Strap,
         strap' = [strap EXCEPT ![i] = v]
  PROVE  strap' \in [Board -> Strap] /\ strap'[i] = v /\ \A b \in Board : b # i => strap'[b] = strap[b]
  OBVIOUS

(* Every step of a forced recovery.                                        *)
LEMMA ForceStep == ForceInv /\ ForceNext => ForceInv'
<1> SUFFICES ASSUME ForceInv, ForceNext PROVE ForceInv'
  OBVIOUS
<1>1. /\ strap \in [Board -> Strap] /\ sampled \in [Board -> Strap] /\ force \in Request
      /\ lines \subseteq Board /\ rst \subseteq Board
  BY DEF ForceInv, ForceTyped
<1>2. Boards \in Nat /\ Boards >= 1 /\ Board = 0..(Boards - 1) /\ 0 \in Board
  BY ForceBounds DEF Board
<1>3. /\ force.b \in Board /\ force.ok \in BOOLEAN /\ force.at \in Phases /\ force.tries \in Nat
      /\ force.reply \in {"none", "ok", "failed"} /\ Idle \in Request
      /\ \A b \in Board : setGpio(b) \subseteq BOOLEAN
  BY <1>1, <1>2 DEF Request, Idle, Phases, setGpio
<1>4. ASSUME NEW by \in {"cli", "api"}, forceRecoveryMode(by) PROVE ForceInv'
  <2>1. force' = [Idle EXCEPT !.by = by, !.at = "assert"]
    BY <1>4 DEF forceRecoveryMode
  <2>2. force' \in Request /\ force'.at = "assert"
    BY <1>3, <2>1 DEF Idle, Request, Phases
  <2> QED
    BY <1>1, <1>4, <2>2 DEF forceRecoveryMode, ForceInv, ForceTyped, StrapsFirst, NoPartialBoot
<1>5. CASE AssertReset
  <2>1. PICK ok \in setGpio(force.b) :
          rst' = (IF ok THEN rst \cup {force.b} ELSE rst) /\ NextBoard(ok, "straps")
    BY <1>5 DEF AssertReset
  <2>2. /\ force' \in Request
        /\ \/ force'.at = "assert" \/ force'.at = "result" \/ (force'.at = "straps" /\ force'.b = 0)
    BY <1>3, <1>5, <2>1, NextBoardFacts DEF AssertReset, ForceInv, Phases
  <2>3. \A b \in Board : ~(b < 0)
    BY <1>2
  <2> QED
    BY <1>1, <1>3, <1>5, <2>1, <2>2, <2>3 DEF AssertReset, ForceInv, ForceTyped, StrapsFirst, NoPartialBoot
<1>6. CASE WriteStraps
  <2>1. PICK ok \in setGpio(force.b), written \in BOOLEAN :
          /\ strap' = [strap EXCEPT ![force.b] =
                         IF ok THEN "recovery" ELSE IF written THEN "partial" ELSE @]
          /\ NextBoard(ok, "release")
    BY <1>6 DEF WriteStraps
  <2> DEFINE v == IF ok THEN "recovery" ELSE IF written THEN "partial" ELSE strap[force.b]
  <2>2. v \in Strap /\ (ok => v = "recovery") /\ strap' = [strap EXCEPT ![force.b] = v]
    BY <1>1, <1>3, <2>1 DEF Strap
  <2> HIDE DEF v
  <2>3. strap' \in [Board -> Strap] /\ strap'[force.b] = v /\ \A b \in Board : b # force.b => strap'[b] = strap[b]
    BY <1>1, <1>3, <2>2, StrapWritten
  <2>4. force.ok => \A b \in Board : b < force.b => strap[b] = "recovery"
    BY <1>6 DEF WriteStraps, ForceInv, StrapsFirst
  <2>5. force.ok /\ ok => \A b \in Board : b < force.b + 1 => strap'[b] = "recovery"
    BY <1>2, <1>3, <2>2, <2>3, <2>4
  <2>6. /\ force' \in Request
        /\ \/ force'.at = "straps" /\ force'.b = force.b + 1 /\ force'.ok = (force.ok /\ ok)
           \/ force'.at = "release" /\ force.ok /\ ok /\ force.b = Boards - 1
           \/ force'.at = "result"
    BY <1>3, <1>6, <2>1, NextBoardFacts DEF WriteStraps, ForceInv, Phases
  <2>7. force'.at = "release" => \A b \in Board : strap'[b] = "recovery"
    BY <1>2, <2>5, <2>6
  <2>8. force'.at = "straps" /\ force'.ok => \A b \in Board : b < force'.b => strap'[b] = "recovery"
    BY <2>5, <2>6
  <2> QED
    BY <1>1, <1>6, <2>3, <2>6, <2>7, <2>8
    DEF WriteStraps, ForceInv, ForceTyped, StrapsFirst, NoPartialBoot, Board
<1>7. CASE ReleaseReset
  <2>1. PICK ok \in setGpio(force.b) :
          rst' = (IF ok THEN rst \ {force.b} ELSE rst) /\ NextBoard(ok, "result")
    BY <1>7 DEF ReleaseReset
  <2>2. \A b \in Board : strap[b] = "recovery"
    BY <1>7 DEF ReleaseReset, ForceInv, StrapsFirst
  <2>3. sampled' = Sample(rst') /\ UNCHANGED <<lines, strap>>
    BY <1>7 DEF ReleaseReset
  <2>4. sampled' \in [Board -> Strap] /\ NoPartialBoot'
    BY <1>1, <2>2, <2>3 DEF Sample, ForceInv, NoPartialBoot, Strap, Board
  <2>5. force' \in Request /\ force'.at \in {"release", "result"}
    BY <1>3, <1>7, <2>1, NextBoardFacts DEF ReleaseReset, ForceInv, Phases
  <2> QED
    BY <1>1, <2>1, <2>2, <2>3, <2>4, <2>5 DEF ForceInv, ForceTyped, StrapsFirst, Board
<1>8. CASE ForceResult
  <2>1. force' \in Request /\ force'.at \in {"idle", "confirm"}
    <3>1. CASE force.by = "cli"
      <4>1. force' = [Idle EXCEPT !.reply = IF force.ok THEN "ok" ELSE "failed"]
        BY <1>8, <3>1 DEF ForceResult
      <4> QED
        BY <1>3, <4>1 DEF Idle, Request, Phases
    <3>2. CASE force.by # "cli"
      <4>1. force' = [force EXCEPT !.at = "confirm", !.ok = FALSE]
        BY <1>8, <3>2 DEF ForceResult
      <4> QED
        BY <1>1, <4>1 DEF Request, Phases
    <3> QED
      BY <3>1, <3>2
  <2> QED
    BY <1>1, <1>8, <2>1 DEF ForceResult, ForceInv, ForceTyped, StrapsFirst, NoPartialBoot, Board
<1>9. CASE ConfirmRecovery
  <2>1. force' \in Request /\ force'.at \in {"confirm", "defaults"}
    <3>1. \/ force' = [force EXCEPT !.at = "defaults", !.ok = TRUE, !.reply = "ok"]
          \/ force' = [force EXCEPT !.tries = @ + 1] /\ force.at = "confirm"
          \/ force' = [force EXCEPT !.at = "defaults", !.ok = TRUE, !.reply = "failed"]
      BY <1>9 DEF ConfirmRecovery
    <3>2. ASSUME force' = [force EXCEPT !.tries = @ + 1] PROVE force' \in Request /\ force'.at = force.at
      BY <1>1, <1>3, <3>2 DEF Request
    <3>3. ASSUME NEW r \in {"ok", "failed"}, force' = [force EXCEPT !.at = "defaults", !.ok = TRUE, !.reply = r]
          PROVE  force' \in Request /\ force'.at = "defaults"
      BY <1>1, <3>3 DEF Request, Phases
    <3> QED
      BY <3>1, <3>2, <3>3
  <2> QED
    BY <1>1, <1>9, <2>1 DEF ConfirmRecovery, ForceInv, ForceTyped, StrapsFirst, NoPartialBoot, Board
<1>10. CASE DefaultStraps
  <2>1. PICK ok \in setGpio(force.b), written \in BOOLEAN :
          strap' = [strap EXCEPT ![force.b] =
                      IF ok THEN "default" ELSE IF written THEN "partial" ELSE @]
    BY <1>10 DEF DefaultStraps
  <2>2. strap' \in [Board -> Strap]
    BY <1>1, <1>3, <2>1 DEF Strap
  <2>3. force' \in Request /\ force'.at \in {"idle", "defaults"}
    <3>1. CASE force.b < Boards - 1
      <4>1. force' = [force EXCEPT !.b = @ + 1] /\ force.b + 1 \in Board /\ force.at = "defaults"
        BY <1>2, <1>3, <1>10, <3>1 DEF DefaultStraps
      <4> QED
        BY <1>1, <4>1 DEF Request
    <3>2. CASE ~(force.b < Boards - 1)
      <4>1. force' = [Idle EXCEPT !.reply = force.reply, !.by = "api"]
        BY <1>10, <3>2 DEF DefaultStraps
      <4> QED
        BY <1>3, <4>1 DEF Idle, Request, Phases
    <3> QED
      BY <3>1, <3>2
  <2> QED
    BY <1>1, <1>10, <2>2, <2>3 DEF DefaultStraps, ForceInv, ForceTyped, StrapsFirst, NoPartialBoot, Board
<1> QED
  BY <1>4, <1>5, <1>6, <1>7, <1>8, <1>9, <1>10 DEF ForceNext

---------------------------------------------------------------------------
(* The USB RCM worker                                                      *)

(* A set of naturals has a least element, a bounded one a greatest.        *)
LEMMA MinFacts ==
  ASSUME NEW S \in SUBSET Nat, S # {}
  PROVE  Min(S) \in S /\ \A y \in S : Min(S) <= y
<1>1. PICK x \in S : \A y \in S : ~(<<y, x>> \in OpToRel(<, Nat))
  BY NatLessThanWellFounded, WFMin
<1>2. \A y \in S : x <= y
  <2> SUFFICES ASSUME NEW y \in S PROVE x <= y
    OBVIOUS
  <2>1. <<y, x>> \in Nat \X Nat
    OBVIOUS
  <2>2. ~(y < x)
    BY <1>1, <2>1 DEF OpToRel
  <2> QED
    BY <2>2
<1> QED
  BY <1>2 DEF Min

LEMMA MaxFacts ==
  ASSUME NEW n \in Nat, NEW S \in SUBSET (0..n), S # {}
  PROVE  Max(S) \in S /\ \A y \in S : y <= Max(S)
<1> DEFINE T == {n - y : y \in S}
<1>1. T \in SUBSET Nat /\ T # {}
  <2>1. \A y \in S : n - y \in Nat
    OBVIOUS
  <2> QED
    BY <2>1
<1>2. Min(T) \in T /\ \A d \in T : Min(T) <= d
  BY <1>1, MinFacts
<1>3. PICK x \in S : Min(T) = n - x
  BY <1>2
<1>4. \A y \in S : x >= y
  <2> SUFFICES ASSUME NEW y \in S PROVE x >= y
    OBVIOUS
  <2>1. n - x <= n - y
    BY <1>2, <1>3
  <2> QED
    BY <2>1
<1>5. Max(S) \in S /\ \A y \in S : Max(S) >= y
  BY <1>4 DEF Max
<1> QED
  BY <1>5

(* A number below the modulus is its own remainder.                        *)
LEMMA SmallModulus ==
  ASSUME NEW m \in Nat \ {0}, NEW a \in 0..(m - 1)
  PROVE  a % m = a
  OBVIOUS

LEMMA ModulusRange ==
  ASSUME NEW m \in Nat \ {0}, NEW a \in Nat
  PROVE  a % m \in 0..(m - 1)
  OBVIOUS

LEMMA SelfModulus ==
  ASSUME NEW m \in Nat \ {0}, NEW a \in 0..(m - 1)
  PROVE  m % m = 0 /\ (a + m) % m = a
  OBVIOUS

Outcomes == {"none", "healthy", "recovered", "enterDOTRecovery", "failed"}
Task == [at : {"idle", "open", "send", "poll", "read", "sent"}, img : 0..(ImageCount + 1),
         withBlob : BOOLEAN, last : Nat, polls : Nat, slot : 0..(QueueSize - 1), left : 0..QueueSize,
         got : SUBSET Nat, accepted : BOOLEAN]

RcmTyped ==
  /\ log \in Seq(Codes) /\ cpu \in {"off", "up", "error", "complete"} /\ outcome \in Outcomes
  /\ rcm \in Task /\ rcm.got \subseteq Stamps /\ rcm.last <= Len(log) /\ seen \subseteq Stamps

ImagesInOrder ==
  /\ rcm.at \in {"idle", "open"} => rcm.img = 0
  /\ rcm.at = "send" => rcm.img < ListLength
  /\ rcm.at \in {"poll", "read", "sent"} => rcm.img <= ListLength

(* As long as the queue has not wrapped, a poll reads it from the first    *)
(* code on: what it has is a prefix of the log and the slots it has still  *)
(* to read were written before it started.                                 *)
ReadsPrefix ==
  rcm.at = "read" /\ Len(log) <= QueueSize =>
    \E n \in 0..Len(log) : /\ rcm.got = 1..n /\ n + rcm.left <= Len(log)
                           /\ rcm.left > 0 => rcm.slot = n

(* A worker that runs has not reported; it runs because the CPU logged its *)
(* boot mode; a fatal error it has looked at is what it reported.          *)
ReportsOnce ==
  /\ rcm.at # "idle" => outcome = "none" /\ Len(log) >= 1
  /\ \A t \in seen : log[t] = "error" => outcome = "failed"

PassesNothing == Len(log) <= QueueSize => 1..rcm.last \subseteq seen

RcmInv == RcmTyped /\ ImagesInOrder /\ ReadsPrefix /\ ReportsOnce /\ PassesNothing

(* The task before it starts and after it ended.                           *)
LEMMA NoTaskFacts == NoTask \in Task /\ NoTask.at = "idle" /\ NoTask.img = 0 /\ NoTask.last = 0 /\ NoTask.got = {}
<1>1. ImageCount \in Nat \ {0} /\ QueueSize \in Nat \ {0}
  BY RcmBounds
<1> QED
  BY <1>1 DEF NoTask, Task

(* The bounds as the steps use them.                                       *)
LEMMA RcmConstants ==
  /\ ImageCount \in Nat /\ ImageCount >= 1 /\ QueueSize \in Nat \ {0} /\ QueueSize >= 1
  /\ Polls \in Nat /\ MaxCodes \in Nat
  BY RcmBounds

(* The initial states.                                                     *)
LEMMA RcmInitInv == RcmInit => RcmInv
<1> SUFFICES ASSUME RcmInit PROVE RcmInv
  OBVIOUS
<1>1. log \in Seq(Codes) /\ Len(log) \in Nat
  <2>1. <<>> \in Seq(Codes) /\ \A c, d \in Codes : <<c>> \in Seq(Codes) /\ <<c, d>> \in Seq(Codes)
    OBVIOUS
  <2>2. {"bootNormal", "bootRecovery", "error", "complete"} \subseteq Codes
    BY DEF Codes
  <2> QED
    BY <2>1, <2>2 DEF RcmInit
<1>2. rcm \in Task /\ rcm.at = "idle" /\ rcm.img = 0 /\ rcm.last = 0 /\ rcm.got = {} /\ seen = {} /\ outcome = "none"
  BY NoTaskFacts DEF RcmInit
<1>3. RcmTyped
  BY <1>1, <1>2 DEF RcmTyped, Outcomes, RcmInit
<1> QED
  BY <1>1, <1>2, <1>3 DEF RcmInv, ImagesInOrder, ReadsPrefix, ReportsOnce, PassesNothing

(* The worker ends: what it looked at last decides what it may report.     *)
LEMMA ConcludeKeeps ==
  ASSUME RcmInv, outcome = "none", NEW o \in Outcomes, RcmConclude(o), UNCHANGED <<log, cpu>>,
         seen' \subseteq Stamps, \A t \in seen' \ seen : log[t] = "error" => o = "failed"
  PROVE  RcmInv'
<1>1. rcm' \in Task /\ rcm'.at = "idle" /\ rcm'.img = 0 /\ rcm'.last = 0 /\ rcm'.got = {} /\ outcome' = o
  BY NoTaskFacts DEF RcmConclude
<1>2. log \in Seq(Codes) /\ Len(log) \in Nat /\ Stamps' = Stamps
  BY DEF RcmInv, RcmTyped, Stamps
<1>3. \A t \in seen : log[t] # "error"
  BY DEF RcmInv, ReportsOnce
<1>4. RcmTyped'
  BY <1>1, <1>2 DEF RcmInv, RcmTyped
<1>5. ReportsOnce'
  BY <1>1, <1>2, <1>3 DEF ReportsOnce
<1> QED
  BY <1>1, <1>2, <1>4, <1>5 DEF RcmInv, ImagesInOrder, ReadsPrefix, PassesNothing

(* The worker goes on, and has looked at nothing new.                      *)
LEMMA TaskKeeps ==
  ASSUME RcmInv, outcome = "none", Len(log) >= 1, UNCHANGED <<log, cpu, seen, outcome>>,
         rcm' \in Task, rcm'.got \subseteq Stamps, rcm'.last \in {0, rcm.last}, ImagesInOrder', ReadsPrefix'
  PROVE  RcmInv'
<1>1. log \in Seq(Codes) /\ Len(log) \in Nat /\ Stamps' = Stamps /\ rcm \in Task
  BY DEF RcmInv, RcmTyped, Stamps
<1>2. rcm'.last <= Len(log) /\ (rcm'.last = 0 \/ rcm'.last = rcm.last)
  BY <1>1 DEF RcmInv, RcmTyped
<1>3. RcmTyped'
  BY <1>1, <1>2 DEF RcmInv, RcmTyped
<1>4. ReportsOnce' /\ PassesNothing'
  BY <1>1, <1>2 DEF RcmInv, ReportsOnce, PassesNothing
<1> QED
  BY <1>3, <1>4 DEF RcmInv

(* main and the claim of the interface.                                    *)
LEMMA RcmStartKeeps == RcmInv /\ RcmStart => RcmInv'
<1> SUFFICES ASSUME RcmInv, RcmStart PROVE RcmInv'
  OBVIOUS
<1>1. /\ outcome = "none" /\ UNCHANGED <<log, cpu, seen>> /\ seen \subseteq Stamps /\ log \in Seq(Codes)
      /\ seen' \subseteq Stamps
  BY DEF RcmStart, RcmInv, RcmTyped
<1>2. PICK status \in {RecoveryStatus, "Unknown"} :
        CASE status = "NotInRecovery" -> RcmConclude("healthy")
          [] status = "RecoveryComplete" -> RcmConclude("recovered")
          [] status = "InRecovery" -> rcm' = [NoTask EXCEPT !.at = "open"] /\ UNCHANGED outcome
          [] OTHER -> RcmConclude("failed")
  BY DEF RcmStart
<1>3. CASE status = "InRecovery"
  <2>1. rcm' = [NoTask EXCEPT !.at = "open"] /\ UNCHANGED outcome
    BY <1>2, <1>3
  <2>2. BootStamps # {}
    BY <1>2, <1>3 DEF RecoveryStatus
  <2>3. Len(log) >= 1
    BY <1>1, <2>2 DEF BootStamps, Stamps
  <2>4. rcm' \in Task /\ rcm'.at = "open" /\ rcm'.got = {} /\ rcm'.last = 0 /\ rcm'.img = 0
    BY <2>1, NoTaskFacts DEF Task
  <2>5. ImagesInOrder' /\ ReadsPrefix'
    BY <2>4 DEF ImagesInOrder, ReadsPrefix
  <2> QED
    BY <1>1, <2>1, <2>3, <2>4, <2>5, TaskKeeps
<1>4. CASE status # "InRecovery"
  <2>1. \E o \in Outcomes : RcmConclude(o)
    BY <1>2, <1>4 DEF Outcomes
  <2> QED
    BY <1>1, <2>1, ConcludeKeeps
<1> QED
  BY <1>3, <1>4

LEMMA RcmOpenKeeps == RcmInv /\ RcmOpen => RcmInv'
<1> SUFFICES ASSUME RcmInv, RcmOpen PROVE RcmInv'
  OBVIOUS
<1>1. /\ outcome = "none" /\ Len(log) >= 1 /\ UNCHANGED <<log, cpu, seen>> /\ seen' \subseteq Stamps
      /\ rcm.at = "open" /\ rcm.img = 0 /\ rcm \in Task
  BY DEF RcmOpen, RcmInv, RcmTyped, ReportsOnce, ImagesInOrder
<1>2. CASE RcmConclude("failed")
  BY <1>1, <1>2, ConcludeKeeps DEF Outcomes
<1>3. ASSUME NEW req \in getBlobRequirement,
             rcm' = [rcm EXCEPT !.at = "send", !.withBlob = (req = "DOT")] /\ UNCHANGED outcome
      PROVE  RcmInv'
  <2>1. /\ rcm' \in Task /\ rcm'.at = "send" /\ rcm'.img = 0 /\ rcm'.got = rcm.got /\ rcm'.last = rcm.last
    BY <1>1, <1>3 DEF Task
  <2>2. ImagesInOrder' /\ ReadsPrefix'
    BY <2>1, RcmConstants DEF ImagesInOrder, ReadsPrefix, ListLength
  <2> QED
    BY <1>1, <1>3, <2>1, <2>2, TaskKeeps DEF RcmInv, RcmTyped
<1> QED
  BY <1>2, <1>3 DEF RcmOpen

LEMMA RcmSendKeeps == RcmInv /\ RcmSendImage => RcmInv'
<1> SUFFICES ASSUME RcmInv, RcmSendImage PROVE RcmInv'
  OBVIOUS
<1>1. /\ outcome = "none" /\ Len(log) >= 1 /\ UNCHANGED <<log, cpu, seen>> /\ seen' \subseteq Stamps
      /\ rcm.at = "send" /\ rcm.img < ListLength /\ rcm \in Task
  BY DEF RcmSendImage, RcmInv, RcmTyped, ReportsOnce, ImagesInOrder
<1>2. \/ RcmConclude("enterDOTRecovery") \/ RcmConclude("failed")
      \/ rcm' = [rcm EXCEPT !.at = "poll", !.img = @ + 1, !.polls = 0] /\ UNCHANGED outcome
  BY DEF RcmSendImage
<1>3. CASE RcmConclude("enterDOTRecovery") \/ RcmConclude("failed")
  BY <1>1, <1>3, ConcludeKeeps DEF Outcomes
<1>4. CASE rcm' = [rcm EXCEPT !.at = "poll", !.img = @ + 1, !.polls = 0] /\ UNCHANGED outcome
  <2>1. rcm.img \in Nat /\ ListLength \in Nat /\ ListLength <= ImageCount + 1
    BY <1>1, RcmConstants DEF Task, ListLength
  <2>2. rcm.img + 1 \in 0..(ImageCount + 1) /\ rcm.img + 1 <= ListLength
    BY <1>1, <2>1, RcmConstants
  <2>3. /\ rcm' \in Task /\ rcm'.at = "poll" /\ rcm'.img = rcm.img + 1 /\ rcm'.got = rcm.got
        /\ rcm'.last = rcm.last /\ rcm'.withBlob = rcm.withBlob
    BY <1>1, <1>4, <2>2 DEF Task
  <2>4. ImagesInOrder' /\ ReadsPrefix'
    BY <2>2, <2>3 DEF ImagesInOrder, ReadsPrefix, ListLength
  <2> QED
    BY <1>1, <1>4, <2>3, <2>4, TaskKeeps DEF RcmInv, RcmTyped
<1> QED
  BY <1>2, <1>3, <1>4

(* The pointers of a queue that has not wrapped: the first code is in slot *)
(* 0, and as many slots are read as codes were logged.                     *)
LEMMA PointerFacts ==
  ASSUME log \in Seq(Codes), Len(log) >= 1
  PROVE  /\ startIndex \in 0..(QueueSize - 1) /\ entriesToRead \in 0..QueueSize
         /\ Len(log) <= QueueSize => startIndex = 0 /\ entriesToRead = Len(log)
<1>1. Len(log) \in Nat /\ QueueSize \in Nat \ {0}
  BY RcmConstants
<1>2. endIndex \in 0..(QueueSize - 1) /\ startIndex \in 0..(QueueSize - 1)
  <2>1. endIndex \in 0..(QueueSize - 1) /\ 0 \in 0..(QueueSize - 1)
    <3>1. Len(log) % QueueSize \in 0..(QueueSize - 1)
      BY <1>1, ModulusRange
    <3> QED
      BY <1>1, <3>1 DEF endIndex
  <2> QED
    BY <2>1 DEF startIndex
<1>3. endIndex + QueueSize - startIndex \in Nat
  BY <1>1, <1>2
<1>4. (endIndex + QueueSize - startIndex) % QueueSize \in 0..(QueueSize - 1)
  BY <1>1, <1>3, ModulusRange
<1>5. entriesToRead \in 0..QueueSize
  BY <1>1, <1>4 DEF entriesToRead
<1>6. ASSUME Len(log) <= QueueSize PROVE startIndex = 0 /\ entriesToRead = Len(log)
  <2>1. startIndex = 0
    BY <1>1, <1>6 DEF startIndex
  <2>2. CASE Len(log) = QueueSize
    <3>1. endIndex = 0
      BY <1>1, <2>2, SelfModulus DEF endIndex
    <3> QED
      BY <2>1, <2>2, <3>1 DEF entriesToRead
  <2>3. CASE Len(log) < QueueSize
    <3>1. Len(log) \in 0..(QueueSize - 1)
      BY <1>1, <2>3
    <3>2. endIndex = Len(log) /\ (Len(log) + QueueSize) % QueueSize = Len(log)
      BY <1>1, <3>1, SmallModulus, SelfModulus DEF endIndex
    <3>3. endIndex + QueueSize - 0 = Len(log) + QueueSize /\ endIndex # 0
      BY <1>1, <3>2
    <3> QED
      BY <2>1, <3>2, <3>3 DEF entriesToRead
  <2> QED
    BY <1>1, <1>6, <2>2, <2>3
<1> QED
  BY <1>2, <1>5, <1>6

(* What a slot holds is a code of the log, or nothing; before the queue    *)
(* wraps slot n holds code n + 1.                                          *)
LEMMA SlotFacts ==
  ASSUME log \in Seq(Codes), NEW i \in 0..(QueueSize - 1)
  PROVE  /\ SlotStamp(i) \in Stamps \cup {0}
         /\ Len(log) <= QueueSize /\ i < Len(log) => SlotStamp(i) = i + 1
<1> DEFINE ts == {t \in Stamps : (t - 1) % QueueSize = i}
<1>1. Len(log) \in Nat /\ QueueSize \in Nat \ {0} /\ Stamps = 1..Len(log)
  BY RcmConstants DEF Stamps
<1>2. SlotStamp(i) = IF ts = {} THEN 0 ELSE Max(ts)
  BY DEF SlotStamp
<1>3. ts \in SUBSET Stamps /\ ts \in SUBSET (0..Len(log))
  BY <1>1
<1>4. ts # {} => Max(ts) \in ts
  BY <1>1, <1>3, MaxFacts
<1>5. ASSUME Len(log) <= QueueSize, i < Len(log) PROVE SlotStamp(i) = i + 1
  <2>1. \A t \in Stamps : (t - 1) % QueueSize = t - 1
    <3> SUFFICES ASSUME NEW t \in Stamps PROVE (t - 1) % QueueSize = t - 1
      OBVIOUS
    <3>1. t - 1 \in 0..(QueueSize - 1)
      BY <1>1, <1>5
    <3> QED
      BY <1>1, <3>1, SmallModulus
  <2>2. i + 1 \in Stamps /\ (i + 1) - 1 = i
    BY <1>1, <1>5
  <2>3. i + 1 \in ts
    BY <2>1, <2>2
  <2>4. \A t \in ts : t = i + 1
    BY <1>1, <2>1
  <2> QED
    BY <1>2, <1>4, <2>3, <2>4
<1> QED
  BY <1>2, <1>3, <1>4, <1>5

(* A poll reads the pointers, then slot after slot.                        *)
LEMMA RcmReadPointersKeeps == RcmInv /\ RcmReadPointers => RcmInv'
<1> SUFFICES ASSUME RcmInv, RcmReadPointers PROVE RcmInv'
  OBVIOUS
<1>1. /\ outcome = "none" /\ Len(log) >= 1 /\ UNCHANGED <<log, cpu, seen, outcome>>
      /\ rcm.at = "poll" /\ rcm.img <= ListLength /\ rcm \in Task /\ log \in Seq(Codes)
      /\ rcm' = [rcm EXCEPT !.at = "read", !.slot = startIndex, !.left = entriesToRead, !.got = {}]
  BY DEF RcmReadPointers, RcmInv, RcmTyped, ReportsOnce, ImagesInOrder
<1>2. /\ rcm' \in Task /\ rcm'.at = "read" /\ rcm'.img = rcm.img /\ rcm'.got = {} /\ rcm'.last = rcm.last
      /\ rcm'.withBlob = rcm.withBlob /\ rcm'.slot = startIndex /\ rcm'.left = entriesToRead
  BY <1>1, PointerFacts DEF Task
<1>3. ImagesInOrder'
  BY <1>1, <1>2 DEF ImagesInOrder, ListLength
<1>4. ReadsPrefix'
  <2> SUFFICES ASSUME Len(log) <= QueueSize
               PROVE  \E n \in 0..Len(log) : /\ rcm'.got = 1..n /\ n + rcm'.left <= Len(log)
                                             /\ rcm'.left > 0 => rcm'.slot = n
    BY <1>1 DEF ReadsPrefix
  <2>1. rcm'.slot = 0 /\ rcm'.left = Len(log) /\ rcm'.got = 1..0 /\ 0 \in 0..Len(log) /\ 0 + Len(log) <= Len(log)
    BY <1>1, <1>2, PointerFacts
  <2> QED
    BY <2>1
<1> QED
  BY <1>1, <1>2, <1>3, <1>4, TaskKeeps

LEMMA RcmReadEntryKeeps == RcmInv /\ RcmReadEntry => RcmInv'
<1> SUFFICES ASSUME RcmInv, RcmReadEntry PROVE RcmInv'
  OBVIOUS
<1>1. /\ outcome = "none" /\ Len(log) >= 1 /\ UNCHANGED <<log, cpu, seen, outcome>>
      /\ rcm.at = "read" /\ rcm.left > 0 /\ rcm.img <= ListLength /\ rcm \in Task /\ log \in Seq(Codes)
      /\ rcm.got \subseteq Stamps
      /\ rcm' = [rcm EXCEPT !.slot = (@ + 1) % QueueSize, !.left = @ - 1,
                            !.got = @ \cup ({SlotStamp(rcm.slot)} \ {0})]
  BY DEF RcmReadEntry, RcmInv, RcmTyped, ReportsOnce, ImagesInOrder
<1>2. /\ rcm.slot \in 0..(QueueSize - 1) /\ rcm.left \in 0..QueueSize /\ QueueSize \in Nat \ {0}
      /\ Stamps = 1..Len(log) /\ Len(log) \in Nat
  BY <1>1, RcmConstants DEF Task, Stamps
<1>3. (rcm.slot + 1) % QueueSize \in 0..(QueueSize - 1) /\ rcm.left - 1 \in 0..QueueSize
  BY <1>1, <1>2, ModulusRange
<1>4. SlotStamp(rcm.slot) \in Stamps \cup {0}
  BY <1>1, <1>2, SlotFacts
<1> DEFINE g == rcm.got \cup ({SlotStamp(rcm.slot)} \ {0})
<1>5. g \subseteq Stamps /\ g \subseteq Nat
  BY <1>1, <1>2, <1>4
<1>6. rcm' = [rcm EXCEPT !.slot = (rcm.slot + 1) % QueueSize, !.left = rcm.left - 1, !.got = g]
  BY <1>1
<1> HIDE DEF g
<1>7. /\ rcm' \in Task /\ rcm'.at = "read" /\ rcm'.img = rcm.img /\ rcm'.got = g /\ rcm'.last = rcm.last
      /\ rcm'.withBlob = rcm.withBlob /\ rcm'.slot = (rcm.slot + 1) % QueueSize /\ rcm'.left = rcm.left - 1
  BY <1>1, <1>3, <1>5, <1>6 DEF Task
<1>8. ImagesInOrder'
  BY <1>1, <1>7 DEF ImagesInOrder, ListLength
<1>9. ReadsPrefix'
  <2> SUFFICES ASSUME Len(log) <= QueueSize
               PROVE  \E n \in 0..Len(log) : /\ rcm'.got = 1..n /\ n + rcm'.left <= Len(log)
                                             /\ rcm'.left > 0 => rcm'.slot = n
    BY <1>1 DEF ReadsPrefix
  <2>1. PICK n \in 0..Len(log) : rcm.got = 1..n /\ n + rcm.left <= Len(log) /\ rcm.slot = n
    BY <1>1 DEF RcmInv, ReadsPrefix
  <2>2. n < Len(log) /\ n + 1 \in 0..Len(log)
    BY <1>1, <1>2, <2>1
  <2>3. SlotStamp(rcm.slot) = n + 1
    BY <1>1, <1>2, <2>1, <2>2, SlotFacts
  <2>4. g = 1..(n + 1)
    BY <1>2, <2>1, <2>2, <2>3 DEF g
  <2>5. rcm'.left > 0 => rcm'.slot = n + 1
    <3> SUFFICES ASSUME rcm.left - 1 > 0 PROVE (n + 1) % QueueSize = n + 1
      BY <1>7, <2>1
    <3>1. n + 1 \in 0..(QueueSize - 1)
      BY <1>2, <2>1
    <3> QED
      BY <1>2, <3>1, SmallModulus
  <2>6. (n + 1) + rcm'.left <= Len(log)
    BY <1>2, <1>7, <2>1
  <2> QED
    BY <1>7, <2>2, <2>4, <2>5, <2>6
<1> QED
  BY <1>1, <1>5, <1>7, <1>8, <1>9, TaskKeeps

(* The next poll, or the end of the monitor window.                        *)
LEMMA NextPollFacts ==
  ASSUME NEW r \in Task
  PROVE  /\ NextPoll(r) \in Task /\ NextPoll(r).at \in {"poll", "sent"} /\ NextPoll(r).img = r.img
         /\ NextPoll(r).withBlob = r.withBlob /\ NextPoll(r).last = r.last /\ NextPoll(r).got = r.got
<1>1. r.polls + 1 \in Nat
  BY DEF Task
<1>2. NextPoll(r) = [r EXCEPT !.at = "poll", !.polls = r.polls + 1] \/ NextPoll(r) = [r EXCEPT !.at = "sent"]
  BY DEF NextPoll
<1>3. CASE NextPoll(r) = [r EXCEPT !.at = "poll", !.polls = r.polls + 1]
  BY <1>1, <1>3 DEF Task
<1>4. CASE NextPoll(r) = [r EXCEPT !.at = "sent"]
  BY <1>4 DEF Task
<1> QED
  BY <1>2, <1>3, <1>4

LEMMA RcmReadFailsKeeps == RcmInv /\ RcmReadFails => RcmInv'
<1> SUFFICES ASSUME RcmInv, RcmReadFails PROVE RcmInv'
  OBVIOUS
<1>1. /\ outcome = "none" /\ Len(log) >= 1 /\ UNCHANGED <<log, cpu, seen, outcome>>
      /\ rcm.img <= ListLength /\ rcm \in Task /\ rcm' = NextPoll([rcm EXCEPT !.got = {}])
  BY DEF RcmReadFails, RcmInv, RcmTyped, ReportsOnce, ImagesInOrder
<1> DEFINE r == [rcm EXCEPT !.got = {}]
<1>2. r \in Task /\ r.img = rcm.img /\ r.withBlob = rcm.withBlob /\ r.last = rcm.last /\ r.got = {}
  BY <1>1 DEF Task
<1> HIDE DEF r
<1>3. /\ rcm' \in Task /\ rcm'.at \in {"poll", "sent"} /\ rcm'.img = rcm.img /\ rcm'.got = {}
      /\ rcm'.withBlob = rcm.withBlob /\ rcm'.last = rcm.last
  BY <1>1, <1>2, NextPollFacts DEF r
<1>4. ImagesInOrder' /\ ReadsPrefix'
  BY <1>1, <1>3 DEF ImagesInOrder, ReadsPrefix, ListLength
<1> QED
  BY <1>1, <1>3, <1>4, TaskKeeps

LEMMA RcmNextImageKeeps == RcmInv /\ RcmNextImage => RcmInv'
<1> SUFFICES ASSUME RcmInv, RcmNextImage PROVE RcmInv'
  OBVIOUS
<1>1. /\ outcome = "none" /\ Len(log) >= 1 /\ UNCHANGED <<log, cpu, seen>> /\ seen' \subseteq Stamps
      /\ rcm.at = "sent" /\ rcm \in Task /\ rcm.got \subseteq Stamps
  BY DEF RcmNextImage, RcmInv, RcmTyped, ReportsOnce
<1>2. \/ rcm.img < ListLength /\ rcm' = [rcm EXCEPT !.at = "send"] /\ UNCHANGED outcome
      \/ RcmConclude("enterDOTRecovery") \/ RcmConclude("recovered")
  BY DEF RcmNextImage
<1>3. CASE RcmConclude("enterDOTRecovery") \/ RcmConclude("recovered")
  BY <1>1, <1>3, ConcludeKeeps DEF Outcomes
<1>4. CASE rcm.img < ListLength /\ rcm' = [rcm EXCEPT !.at = "send"] /\ UNCHANGED outcome
  <2>1. /\ rcm' \in Task /\ rcm'.at = "send" /\ rcm'.img = rcm.img /\ rcm'.got = rcm.got
        /\ rcm'.withBlob = rcm.withBlob /\ rcm'.last = rcm.last
    BY <1>1, <1>4 DEF Task
  <2>2. ImagesInOrder' /\ ReadsPrefix'
    BY <1>4, <2>1 DEF ImagesInOrder, ReadsPrefix, ListLength
  <2> QED
    BY <1>1, <1>4, <2>1, <2>2, TaskKeeps
<1> QED
  BY <1>2, <1>3, <1>4

(* The codes of a poll in timestamp order: none that is evaluated stops    *)
(* the evaluation, and of a poll that read a prefix of the log none is     *)
(* left out before the last one that counts as processed.                  *)
LEMMA EvaluatedFacts ==
  ASSUME RcmTyped
  PROVE  /\ Evaluated \subseteq Stamps /\ \A t \in Evaluated : log[t] # "error"
         /\ Stops # {} => Min(Stops) \in Stops /\ Min(Stops) \in Stamps
         /\ LastProcessed \in Nat /\ LastProcessed <= Len(log)
         /\ \A n \in Nat : rcm.got = 1..n =>
              \A t \in 1..LastProcessed : t <= rcm.last \/ t \in Evaluated
<1>1. /\ log \in Seq(Codes) /\ Len(log) \in Nat /\ Stamps = 1..Len(log) /\ rcm.got \subseteq Stamps
      /\ rcm.last \in Nat /\ rcm.last <= Len(log)
  BY DEF RcmTyped, Stamps, Task
<1>2. FreshCodes \subseteq Stamps /\ Stops \subseteq FreshCodes /\ Stops \in SUBSET Nat
  BY <1>1 DEF FreshCodes, Stops
<1>3. Stops # {} => Min(Stops) \in Stops /\ Min(Stops) \in Nat /\ \A t \in Stops : Min(Stops) <= t
  BY <1>2, MinFacts
<1>4. Evaluated \subseteq FreshCodes
  BY DEF Evaluated
<1>5. ASSUME NEW t \in Evaluated PROVE log[t] # "error"
  <2>1. t \in Nat
    BY <1>1, <1>2, <1>4
  <2>2. Stops # {} => t < Min(Stops)
    BY DEF Evaluated
  <2>3. t \notin Stops
    BY <1>3, <2>1, <2>2
  <2> QED
    BY <1>4, <2>3 DEF Stops, isRecoveryError
<1> DEFINE P == {rcm.last} \cup Evaluated
<1>6. P \in SUBSET (0..Len(log)) /\ P # {}
  <2>1. rcm.last \in 0..Len(log) /\ Stamps \subseteq 0..Len(log)
    BY <1>1
  <2> QED
    BY <1>2, <1>4, <2>1
<1>7. LastProcessed \in P /\ \A t \in P : t <= LastProcessed
  BY <1>1, <1>6, MaxFacts DEF LastProcessed
<1>8. LastProcessed \in Nat /\ LastProcessed <= Len(log)
  BY <1>1, <1>6, <1>7
<1>9. ASSUME NEW n \in Nat, rcm.got = 1..n, NEW t \in 1..LastProcessed, ~(t <= rcm.last)
      PROVE  t \in Evaluated
  <2>1. LastProcessed \in Evaluated /\ LastProcessed \in rcm.got
    BY <1>1, <1>7, <1>8, <1>9, <1>4 DEF FreshCodes
  <2>2. t \in FreshCodes
    BY <1>1, <1>8, <1>9, <2>1 DEF FreshCodes
  <2>3. Stops # {} => LastProcessed < Min(Stops)
    BY <2>1 DEF Evaluated
  <2>4. Stops # {} => t < Min(Stops)
    BY <1>3, <1>8, <2>3
  <2> QED
    BY <2>2, <2>4 DEF Evaluated
<1> QED
  BY <1>2, <1>3, <1>4, <1>5, <1>8, <1>9

LEMMA CheckKeeps == RcmInv /\ checkForNewProgressCodes => RcmInv'
<1> SUFFICES ASSUME RcmInv, checkForNewProgressCodes PROVE RcmInv'
  OBVIOUS
<1> DEFINE code == IF Stops = {} THEN "none" ELSE log[Min(Stops)]
           r == [rcm EXCEPT !.last = LastProcessed]
<1>1. /\ outcome = "none" /\ Len(log) >= 1 /\ UNCHANGED <<log, cpu>> /\ seen \subseteq Stamps
      /\ rcm.at = "read" /\ rcm.img <= ListLength /\ rcm \in Task /\ rcm.got \subseteq Stamps
      /\ log \in Seq(Codes) /\ RcmTyped
      /\ seen' = seen \cup Evaluated \cup (IF Stops = {} THEN {} ELSE {Min(Stops)})
  BY DEF checkForNewProgressCodes, RcmInv, RcmTyped, ReportsOnce, ImagesInOrder
<1>2. \/ Stops = {} /\ rcm' = NextPoll(r) /\ UNCHANGED outcome
      \/ RcmConclude("recovered") /\ code = "complete"
      \/ code = "dotError" /\ rcm' = [r EXCEPT !.at = "sent", !.accepted = TRUE] /\ UNCHANGED outcome
      \/ RcmConclude("failed")
  BY DEF checkForNewProgressCodes, isRecoveryComplete, isMutableDotSoftIgnorableError
<1>3. /\ Evaluated \subseteq Stamps /\ \A t \in Evaluated : log[t] # "error"
      /\ Stops # {} => Min(Stops) \in Stamps
      /\ LastProcessed \in Nat /\ LastProcessed <= Len(log)
  BY <1>1, EvaluatedFacts
<1>4. seen' \subseteq Stamps /\ seen \subseteq seen' /\ Evaluated \subseteq seen'
  BY <1>1, <1>3
<1>5. \A t \in seen' \ seen : log[t] = "error" => code = "error"
  BY <1>1, <1>3
<1>6. r \in Task /\ r.img = rcm.img /\ r.withBlob = rcm.withBlob /\ r.last = LastProcessed /\ r.got = rcm.got
  BY <1>1, <1>3 DEF Task
<1> HIDE DEF code, r
<1>7. CASE RcmConclude("failed") \/ (RcmConclude("recovered") /\ code = "complete")
  BY <1>1, <1>4, <1>5, <1>7, ConcludeKeeps DEF Outcomes
<1>8. CASE /\ UNCHANGED outcome /\ code # "error"
           /\ rcm' = NextPoll(r) \/ rcm' = [r EXCEPT !.at = "sent", !.accepted = TRUE]
  <2>1. /\ rcm' \in Task /\ rcm'.at \in {"poll", "sent"} /\ rcm'.img = rcm.img /\ rcm'.got = rcm.got
        /\ rcm'.withBlob = rcm.withBlob /\ rcm'.last = LastProcessed
    <3>1. CASE rcm' = NextPoll(r)
      BY <1>6, <3>1, NextPollFacts
    <3>2. CASE rcm' = [r EXCEPT !.at = "sent", !.accepted = TRUE]
      BY <1>6, <3>2 DEF Task
    <3> QED
      BY <1>8, <3>1, <3>2
  <2>2. ImagesInOrder' /\ ReadsPrefix'
    BY <1>1, <2>1 DEF ImagesInOrder, ReadsPrefix, ListLength
  <2>3. Stamps' = Stamps
    BY <1>1 DEF Stamps
  <2>4. RcmTyped'
    BY <1>1, <1>3, <1>4, <1>8, <2>1, <2>3 DEF RcmTyped
  <2>5. ReportsOnce'
    BY <1>1, <1>4, <1>5, <1>8 DEF ReportsOnce, RcmInv
  <2>6. PassesNothing'
    <3> SUFFICES ASSUME Len(log) <= QueueSize, NEW t \in 1..LastProcessed PROVE t \in seen'
      BY <1>1, <2>1 DEF PassesNothing
    <3>1. PICK n \in 0..Len(log) : rcm.got = 1..n
      BY <1>1 DEF RcmInv, ReadsPrefix
    <3>2. n \in Nat
      BY <1>1, <3>1
    <3>3. t <= rcm.last \/ t \in Evaluated
      BY <1>1, <3>1, <3>2, EvaluatedFacts
    <3>4. rcm.last \in Nat /\ 1..rcm.last \subseteq seen
      BY <1>1 DEF RcmInv, PassesNothing, Task
    <3> QED
      BY <1>3, <1>4, <3>3, <3>4
  <2> QED
    BY <2>2, <2>4, <2>5, <2>6 DEF RcmInv
<1>9. Stops = {} => code # "error"
  BY DEF code
<1> QED
  BY <1>2, <1>7, <1>8, <1>9

(* The CPU logs a code while the worker reads the queue.                   *)
LEMMA CpuLogsKeeps ==
  ASSUME RcmInv, NEW c \in {"progress", "dotError", "error", "complete"}, CpuLogs(c)
  PROVE  RcmInv'
<1>1. /\ log' = Append(log, c) /\ UNCHANGED <<rcm, seen, outcome>> /\ cpu' \in {"up", "error", "complete"}
      /\ log \in Seq(Codes) /\ rcm.at # "idle" /\ seen \subseteq Stamps /\ rcm \in Task
      /\ rcm.got \subseteq Stamps /\ rcm.last <= Len(log) /\ c \in Codes
  BY DEF CpuLogs, RcmInv, RcmTyped, Codes
<1>2. /\ log' \in Seq(Codes) /\ Len(log') = Len(log) + 1 /\ Len(log) \in Nat
      /\ \A t \in 1..Len(log) : log'[t] = log[t]
  BY <1>1
<1>3. Stamps \subseteq Stamps' /\ Stamps = 1..Len(log) /\ rcm.last \in Nat /\ rcm.left \in Nat
  BY <1>1, <1>2 DEF Stamps, Task
<1>4. RcmTyped'
  BY <1>1, <1>2, <1>3 DEF RcmInv, RcmTyped
<1>5. ImagesInOrder'
  BY <1>1 DEF RcmInv, ImagesInOrder, ListLength
<1>6. QueueSize \in Nat /\ (Len(log') <= QueueSize => Len(log) <= QueueSize)
  BY <1>2, RcmConstants
<1>7. ReadsPrefix'
  <2> SUFFICES ASSUME rcm.at = "read", Len(log') <= QueueSize
               PROVE  \E n \in 0..Len(log') : /\ rcm.got = 1..n /\ n + rcm.left <= Len(log')
                                              /\ rcm.left > 0 => rcm.slot = n
    BY <1>1 DEF ReadsPrefix
  <2>1. PICK n \in 0..Len(log) : rcm.got = 1..n /\ n + rcm.left <= Len(log) /\ (rcm.left > 0 => rcm.slot = n)
    BY <1>6 DEF RcmInv, ReadsPrefix
  <2>2. n \in 0..Len(log') /\ n + rcm.left <= Len(log')
    BY <1>2, <1>3, <2>1
  <2> QED
    BY <2>1, <2>2
<1>8. ReportsOnce'
  BY <1>1, <1>2, <1>3 DEF RcmInv, ReportsOnce
<1>9. PassesNothing'
  BY <1>1, <1>6 DEF RcmInv, PassesNothing
<1> QED
  BY <1>4, <1>5, <1>7, <1>8, <1>9 DEF RcmInv

---------------------------------------------------------------------------
(* The composition                                                         *)

VeraInv == ForceInv /\ RcmInv

LEMMA VeraInvariant == VeraSpec => []VeraInv
<1>1. VeraInit => VeraInv
  BY ForceInitInv, RcmInitInv DEF VeraInit, VeraInv
<1>2. VeraInv /\ [VeraNext]_veraVars => VeraInv'
  <2> SUFFICES ASSUME VeraInv, [VeraNext]_veraVars PROVE VeraInv'
    OBVIOUS
  <2>1. ASSUME UNCHANGED forceVars, ForceInv PROVE ForceInv'
    BY <2>1 DEF forceVars, ForceInv, ForceTyped, StrapsFirst, NoPartialBoot
  <2>2. ASSUME UNCHANGED rcmVars, RcmInv PROVE RcmInv'
    BY <2>2 DEF rcmVars, RcmInv, RcmTyped, ImagesInOrder, ReadsPrefix, ReportsOnce, PassesNothing, Stamps, ListLength
  <2>3. CASE ForceBoards
    BY <2>2, <2>3, ForceStep DEF ForceBoards, VeraInv
  <2>4. CASE Recover
    BY <2>1, <2>4, RcmStartKeeps, RcmOpenKeeps, RcmSendKeeps, RcmReadPointersKeeps, RcmReadEntryKeeps,
       RcmReadFailsKeeps, CheckKeeps, RcmNextImageKeeps, CpuLogsKeeps
    DEF Recover, RcmNext, RcmWork, VeraInv
  <2>5. CASE UNCHANGED veraVars
    BY <2>1, <2>2, <2>5 DEF veraVars, VeraInv
  <2> QED
    BY <2>3, <2>4, <2>5 DEF VeraNext, Finished
<1> QED
  BY <1>1, <1>2, PTL DEF VeraSpec

(* No CPU leaves reset with half programmed straps: the resets are only    *)
(* released when the straps of every board were written.                   *)
THEOREM StrapsComplete == VeraSpec => []NoPartialBoot
<1>1. VeraInv => NoPartialBoot
  BY DEF VeraInv, ForceInv
<1> QED
  BY <1>1, VeraInvariant, PTL

(* The worker looks at every code up to the last one it counts as          *)
(* processed, unless the queue wrapped, and a fatal error it looked at is  *)
(* never reported as a recovery.                                           *)
THEOREM CodesNotPassedOver == VeraSpec => []NoCodePassedOver
<1>1. VeraInv => NoCodePassedOver
  <2> SUFFICES ASSUME RcmInv PROVE NoCodePassedOver
    BY DEF VeraInv
  <2>1. (\E t \in seen : log[t] = "error") => outcome = "failed"
    BY DEF RcmInv, ReportsOnce
  <2>2. Len(log) <= QueueSize => 1..rcm.last \subseteq seen
    BY DEF RcmInv, PassesNothing
  <2> QED
    BY <2>1, <2>2 DEF NoCodePassedOver
<1> QED
  BY <1>1, VeraInvariant, PTL

(* Type correctness of both requests.                                      *)
THEOREM VeraTyped == VeraSpec => []VeraTypeOK
<1>1. VeraInv => VeraTypeOK
  <2> SUFFICES ASSUME ForceTyped, RcmTyped PROVE VeraTypeOK
    BY DEF VeraInv, ForceInv, RcmInv
  <2>1. \A t \in Stamps : log[t] \in Codes
    BY DEF RcmTyped, Stamps
  <2>2. rcm.at \in {"idle", "open", "send", "poll", "read", "sent"} /\ rcm.img \in 0..(ImageCount + 1)
    BY DEF RcmTyped, Task
  <2> QED
    BY <2>1, <2>2 DEF VeraTypeOK, ForceTyped, RcmTyped, Strap, Outcomes
<1> QED
  BY <1>1, VeraInvariant, PTL

===========================================================================
