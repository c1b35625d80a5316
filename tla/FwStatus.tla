----------------------------- MODULE FwStatus -----------------------------
(* fw-status: the daemon that publishes one health object per recovery     *)
(* configuration of Entity Manager and keeps it current from chassis power *)
(* signals, MCTP endpoint signals and probes of the device.  It is one     *)
(* thread: D-Bus calls block it, and signals sent meanwhile are queued if  *)
(* their match is installed.  A failed call answers with nothing.          *)
EXTENDS Naturals, Sequences, FiniteSets

CONSTANTS
  Devices,    \* recovery configurations
  Mixes,      \* the kinds of the devices: functions from Devices to Kinds
  Lacks,      \* properties the configurations lack: functions from Devices
  Probe,      \* what a probe of each device may say: a set for each
  MaxEvents   \* bound: power and endpoint changes, log entries, refreshes
              \* of other causes, failed calls

(* A probe: the device cannot be read, is in recovery, or is not.          *)
Answers == {"fail", "recovery", "healthy"}
Kinds == {"Gpu", "ConnectX", "NVSwitch", "NVLinkMgmtNic", "USBRcm", "MCU", "ERoT", "FixedERoT", "Cpld"}

ASSUME FwStatusAssumption ==
  /\ IsFiniteSet(Devices) /\ MaxEvents \in Nat
  /\ Mixes \subseteq [Devices -> Kinds] /\ Mixes # {} /\ Lacks # {}
  /\ Probe \in [Devices -> (SUBSET Answers) \ {{}}]

VARIABLES
  kind,        \* the kind of each device's configuration
  has,         \* the properties of each device's configuration
  configs,     \* devices whose configuration is on D-Bus
  chassisObj,  \* the chassis state object is on D-Bus
  chassis,     \* CurrentPowerState: "On" or "Off"
  endpoint,    \* the device's MCTP endpoint is on D-Bus
  missed,      \* CPLDs whose endpoint last changed between query and match
  authLog,     \* the log holds an authentication failure of the device
  sig,         \* signals for this daemon, oldest first
  p,           \* where the daemon is, and the locals of publish
  r,           \* the resources
  watch,       \* chassisPowerStateMatch is installed
  retry,       \* chassisDiscoveryRetryMatch is installed
  timer,       \* powerStateRefreshTimer runs
  manager,     \* mcuRecoveryManager exists
  spent,       \* events so far
  blind        \* a call that nothing repeats has failed

world == <<kind, has, configs, chassisObj, chassis, endpoint, missed, authLog>>
vars == <<world, sig, p, r, watch, retry, timer, manager, spent, blind>>

(* The properties without which a branch of publishDBusRecoveryObject      *)
(* skips its configuration; one with a value it cannot use counts as       *)
(* missing.  A GPU is found by its I2C bus, or else by its USB port.       *)
GpuRequires == {"MctpEID"}
GpuBus == {"I2CBus", "USBPort"}
ConnectXRequires == {"EID", "I2CBus", "I2CAddress", "SMAEID"}
NVLinkMgmtNicRequires == {"EID", "I2CBus", "I2CAddress", "SMAEID"}
NVSwitchRequires == {"EID", "I2CBus", "I2CAddress", "SMAEID"}
ERoTRequires == {"MctpEID", "APBootStatusType", "APEID"}
FixedERoTRequires == {"MctpEID", "APBootStatusType"}
CpldRequires == {"SMAEID", "DeviceId"}
MCURequires == {"MctpEID"}
USBRcmRequires == {"USBPort", "MctpEID", "FMCComponentName", "FWSComponentName"}
Requires(k) ==
  CASE k = "Gpu" -> GpuRequires [] k = "ConnectX" -> ConnectXRequires
    [] k = "NVLinkMgmtNic" -> NVLinkMgmtNicRequires [] k = "NVSwitch" -> NVSwitchRequires
    [] k = "ERoT" -> ERoTRequires [] k = "FixedERoT" -> FixedERoTRequires
    [] k = "Cpld" -> CpldRequires [] k = "MCU" -> MCURequires [] OTHER -> USBRcmRequires
Properties(k) == Requires(k) \cup {"hasChassisPowerSource"} \cup (IF k = "Gpu" THEN GpuBus ELSE {})
Complete(d) == Requires(kind[d]) \subseteq has[d] /\ (kind[d] = "Gpu" => has[d] \cap GpuBus # {})
ByUsbPort(d) == kind[d] = "Gpu" /\ "I2CBus" \notin has[d]

(* A BaseResource: registered, its endpoint matches installed, the known   *)
(* endpoint, whether there ever was one, the cached power state and what   *)
(* depends on it, the published state (Off is health Warning, Enabled is   *)
(* OK, the others are Critical), and for some kinds the MCU manager or the *)
(* latched authentication failure.                                         *)
NewResource ==
  [made |-> FALSE, match |-> FALSE, ep |-> FALSE, once |-> FALSE, power |-> "", settling |-> FALSE,
   state |-> "none", mgr |-> FALSE, log |-> FALSE, auth |-> FALSE]

(* hasChassisPowerSource, by the configuration.                            *)
Chassis(d) == "hasChassisPowerSource" \in has[d]
isChassisPoweredOff(x) == x.power = "Off"
Lost(x) == IF x.once THEN "UnavailableOffline" ELSE "Absent"

(* updateHealth of each kind; ans is what the probe of the device says.    *)
Fallback(x, ans) ==
  CASE ans = "fail" -> Lost(x) [] ans = "recovery" -> "StandbyOffline" [] OTHER -> "Degraded"
gpuHealth(x, ans) ==
  IF x.ep THEN "Enabled" ELSE IF isChassisPoweredOff(x) THEN "Off"
  ELSE IF x.settling THEN x.state ELSE Fallback(x, ans)
(* These probe first: an endpoint does not hide a device that cannot be read. *)
connectxHealth(x, ans) ==
  IF ~x.ep /\ isChassisPoweredOff(x) THEN "Off" ELSE IF ~x.ep /\ x.settling THEN x.state
  ELSE IF x.ep /\ ans # "fail" THEN "Enabled" ELSE Fallback(x, ans)
nvswitchHealth(x, ans) == connectxHealth(x, ans)
nvlinkHealth(x, ans) == connectxHealth(x, ans)
usbRcmHealth(x, ans) ==
  IF ~x.ep /\ isChassisPoweredOff(x) THEN "Off" ELSE IF ~x.ep /\ x.settling THEN x.state
  ELSE IF x.ep THEN "Enabled" ELSE Fallback(x, ans)
(* An MCU resource made without the manager never gets one.                *)
mcuHealth(x, ans) ==
  IF ~x.ep /\ isChassisPoweredOff(x) THEN "Off" ELSE IF ~x.mgr THEN Lost(x)
  ELSE IF x.ep THEN "Enabled" ELSE Fallback(x, ans)
(* An ERoT that cannot be read counts as in recovery.                      *)
erotHealth(x, ans) ==
  IF ~x.ep /\ isChassisPoweredOff(x) THEN "Off" ELSE IF x.ep THEN "Enabled"
  ELSE IF ans = "healthy" THEN "Degraded" ELSE "StandbyOffline"
cpldHealth(x) ==
  IF x.auth THEN "StandbyOffline" ELSE IF x.ep THEN "Enabled" ELSE Lost(x)

updateHealth(d, x, ans) ==
  [x EXCEPT !.state =
    CASE kind[d] = "Gpu" -> gpuHealth(x, ans) [] kind[d] = "ConnectX" -> connectxHealth(x, ans)
      [] kind[d] = "NVSwitch" -> nvswitchHealth(x, ans) [] kind[d] = "NVLinkMgmtNic" -> nvlinkHealth(x, ans)
      [] kind[d] = "USBRcm" -> usbRcmHealth(x, ans) [] kind[d] = "MCU" -> mcuHealth(x, ans)
      [] kind[d] = "ERoT" -> erotHealth(x, ans) [] kind[d] = "Cpld" -> cpldHealth(x)
      [] OTHER -> "Enabled"]

Spend(n) == spent + n <= MaxEvents /\ spent' = spent + n
(* A blocking D-Bus call that fails; nothing repeats it.                   *)
Fails == Spend(1) /\ blind' = TRUE
Answered == UNCHANGED <<spent, blind>>

Init ==
  /\ kind \in Mixes
  /\ \E lacks \in Lacks : has = [d \in Devices |-> Properties(kind[d]) \ lacks[d]]
  /\ \E d \in Devices : Complete(d)
  /\ configs = {} /\ chassisObj \in BOOLEAN /\ chassis \in {"On", "Off"}
  /\ endpoint = [d \in Devices |-> FALSE] /\ missed = {} /\ authLog = [d \in Devices |-> FALSE]
  /\ sig = <<>> /\ p = [at |-> "main", todo |-> {}, cur |-> {}, init |-> "", again |-> FALSE, noBus |-> {}]
  /\ r = [d \in Devices |-> NewResource]
  /\ watch = FALSE /\ retry = FALSE /\ timer = FALSE /\ manager = FALSE
  /\ spent = 0 /\ blind = FALSE

(* One round of probes.                                                    *)
Probes == {ans \in [Devices -> Answers] : \A d \in Devices : ans[d] \in Probe[d]}
Made == {d \in Devices : r[d].made}
Goto(at) == p' = [p EXCEPT !.at = at]
(* The resources after f's new values and each one's updateHealth.         *)
Refreshed(S, f, ans) == [d \in Devices |-> IF d \in S THEN updateHealth(d, f[d], ans[d]) ELSE f[d]]

(* checkEntityManagerAvailability: the match, then a look at what exists.  *)
CheckEntityManager ==
  /\ p.at = "main" /\ Goto("look") /\ Answered
  /\ UNCHANGED <<world, sig, r, watch, retry, timer, manager>>
checkForRecoveryConfigEMObjects ==
  /\ p.at = "look"
  /\ \/ Goto(IF configs = {} THEN "idle" ELSE "objects") /\ Answered
     \/ Goto("idle") /\ Fails
  /\ UNCHANGED <<world, sig, r, watch, retry, timer, manager>>

(* publishDBusRecoveryObject.  A configuration whose resource exists is    *)
(* skipped.                                                                *)
PublishObjects ==
  /\ p.at = "objects"
  /\ \/ p' = [p EXCEPT !.at = "power", !.todo = configs \ Made] /\ Answered
     \/ p' = [p EXCEPT !.at = "power", !.todo = {}] /\ Fails
  /\ UNCHANGED <<world, sig, r, watch, retry, timer, manager>>

(* getHostPwrStatus: empty when the object is missing or the call fails.   *)
PublishPower ==
  /\ p.at = "power" /\ UNCHANGED blind
  /\ \/ p' = [p EXCEPT !.at = "mcu", !.init = IF chassisObj THEN chassis ELSE ""] /\ Spend(0)
     \/ chassisObj /\ p' = [p EXCEPT !.at = "mcu", !.init = ""] /\ Spend(1)
  /\ UNCHANGED <<world, sig, r, watch, retry, timer, manager>>

getMCUConfig ==
  /\ p.at = "mcu" /\ Goto("make") /\ UNCHANGED blind
  /\ \/ manager' = (manager \/ \E d \in configs : kind[d] = "MCU") /\ Spend(0)
     \/ UNCHANGED manager /\ Spend(1)
  /\ UNCHANGED <<world, sig, r, watch, retry, timer>>

Construct(d) ==
  /\ p.at = "make" /\ d \in p.todo
  /\ p' = IF Complete(d) THEN [p EXCEPT !.at = IF kind[d] = "Cpld" THEN "log" ELSE "match", !.cur = {d}]
          ELSE [p EXCEPT !.todo = @ \ {d}]
  /\ Answered /\ UNCHANGED <<world, sig, r, watch, retry, timer, manager>>

(* getI2CBusFromUSBPort finds no I2C bus behind the port: the GPU is       *)
(* skipped, until another configuration brings the next publish.           *)
NoI2CBus(d) ==
  /\ p.at = "make" /\ d \in p.todo /\ Complete(d) /\ ByUsbPort(d)
  /\ p' = [p EXCEPT !.todo = @ \ {d}, !.noBus = @ \cup {d}]
  /\ Spend(1) /\ UNCHANGED <<world, sig, r, watch, retry, timer, manager, blind>>

BugQueriesFirst ==
  \E d \in p.cur :
    \/ /\ p.at = "match" /\ Goto("query") /\ Answered
       /\ r' = [r EXCEPT ![d].ep = endpoint[d], ![d].once = endpoint[d]]
    \/ /\ p.at = "query" /\ Goto("apply") /\ Answered /\ r' = [r EXCEPT ![d].match = TRUE]
(* monitorMCTPEndpoint: the matches first, then the query.                 *)
monitorMCTPEndpoint ==
  \E d \in p.cur :
    \/ /\ p.at = "match" /\ Goto("query") /\ Answered /\ r' = [r EXCEPT ![d].match = TRUE]
    \/ /\ p.at = "query" /\ Goto("apply") /\ Answered
       /\ r' = [r EXCEPT ![d].ep = endpoint[d], ![d].once = endpoint[d]]
    \/ /\ p.at = "query" /\ Goto("apply") /\ Fails /\ r' = r
MonitorEndpoint == monitorMCTPEndpoint /\ UNCHANGED <<world, sig, watch, retry, timer, manager>>

(* CpldResource: the logging match before the scan of the log, but its SMA *)
(* endpoint is queried before the matches.                                 *)
monitorCpld ==
  /\ \E d \in p.cur :
       \/ p.at = "log" /\ Goto("logscan") /\ Answered /\ r' = [r EXCEPT ![d].log = TRUE]
       \/ p.at = "logscan" /\ Goto("sma") /\ Answered /\ r' = [r EXCEPT ![d].auth = authLog[d]]
       \/ p.at = "logscan" /\ Goto("sma") /\ Fails /\ r' = r
       \/ /\ p.at = "sma" /\ Goto("smamatch") /\ Answered
          /\ r' = [r EXCEPT ![d].ep = endpoint[d], ![d].once = endpoint[d]]
       \/ p.at = "sma" /\ Goto("smamatch") /\ Fails /\ r' = r
       \/ p.at = "smamatch" /\ Goto("apply") /\ Answered /\ r' = [r EXCEPT ![d].match = TRUE]
  /\ UNCHANGED <<world, sig, watch, retry, timer, manager>>

Connected(d) ==
  [r[d] EXCEPT !.made = TRUE, !.mgr = manager, !.power = IF Chassis(d) THEN p.init ELSE r[d].power]
applyChassisConnectionAndRefresh ==
  /\ p.at = "apply" /\ Answered
  /\ \E d \in p.cur : \E ans \in Probe[d] :
       /\ r' = [r EXCEPT ![d] = updateHealth(d, Connected(d), ans)]
       /\ p' = [p EXCEPT !.at = "make", !.todo = @ \ {d}, !.cur = {}]
  /\ UNCHANGED <<world, sig, watch, retry, timer, manager>>

PublishDone ==
  /\ p.at = "make" /\ p.todo = {} /\ Answered
  /\ p' = [p EXCEPT !.at = IF watch THEN "idle" ELSE "watch", !.again = FALSE, !.init = ""]
  /\ UNCHANGED <<world, sig, r, watch, retry, timer, manager>>

(* startCentralizedPowerStateWatcher up to the match; again: called for a  *)
(* second time after the retry match was armed, or from its callback.      *)
startCentralizedPowerStateWatcher ==
  /\ p.at = "watch" /\ UNCHANGED blind
  /\ \/ chassisObj /\ watch' = TRUE /\ Goto("reread") /\ Spend(0)
     \/ UNCHANGED watch /\ Goto(IF p.again THEN "idle" ELSE "arm") /\ Spend(IF chassisObj THEN 1 ELSE 0)
  /\ UNCHANGED <<world, sig, r, retry, timer, manager>>

armCentralizedPowerStateWatcherRetry ==
  /\ p.at = "arm" /\ Answered /\ retry' = TRUE
  /\ p' = IF retry THEN [p EXCEPT !.at = "idle"] ELSE [p EXCEPT !.at = "watch", !.again = TRUE]
  /\ UNCHANGED <<world, sig, r, watch, timer, manager>>

Stale(v) == {d \in Made : Chassis(d) /\ r[d].power # v}
BugSettlesWithoutTimer(v, ans) ==
  LET S == Stale(v)
      cached == [d \in Devices |-> IF d \in S THEN [r[d] EXCEPT !.power = v, !.settling = (v = "On")] ELSE r[d]]
  IN r' = (IF v = "Off" THEN Refreshed(S, cached, ans) ELSE cached) /\ UNCHANGED timer
(* reconcileChassisPowerState(v) for a v that was read.                    *)
reconcileChassisPowerState(v, ans) ==
  LET S == Stale(v)
      cached == [d \in Devices |-> IF d \in S THEN [r[d] EXCEPT !.power = v, !.settling = (v = "On")] ELSE r[d]]
  IN /\ r' = IF v = "Off" THEN Refreshed(S, cached, ans) ELSE cached
     /\ timer' = IF S = {} THEN timer ELSE (v = "On")

(* The second read, after the match: the first may be stale by now.        *)
RereadPower ==
  /\ p.at = "reread" /\ Goto("idle") /\ retry' = (retry /\ ~p.again)
  /\ \/ Answered /\ \E ans \in Probes : reconcileChassisPowerState(chassis, ans)
     \/ Fails /\ UNCHANGED <<r, timer>>
  /\ UNCHANGED <<world, sig, watch, manager>>

(* A signal is taken from the queue.                                       *)
Take(s) == p.at = "idle" /\ sig # <<>> /\ s = Head(sig) /\ sig' = Tail(sig) /\ Answered

(* The centralized watcher: off is acted on now, on after the settle delay. *)
PowerChanged(v, ans) ==
  LET S == {d \in Made : Chassis(d)}
      cached == [d \in Devices |-> IF d \in S THEN [r[d] EXCEPT !.power = v, !.settling = (v = "On")] ELSE r[d]]
  IN /\ r' = IF v = "Off" THEN Refreshed(S, cached, ans) ELSE cached
     /\ timer' = (v = "On")
OnPower == \E v \in {"On", "Off"}, ans \in Probes :
  /\ Take([what |-> "power", arg |-> v]) /\ PowerChanged(v, ans)
  /\ UNCHANGED <<world, p, watch, retry, manager>>

OnEndpointAdded == \E d \in Devices : \E ans \in Probe[d] :
  /\ Take([what |-> "added", arg |-> d])
  /\ r' = [r EXCEPT ![d] = updateHealth(d, [@ EXCEPT !.ep = TRUE, !.once = TRUE], ans)]
  /\ UNCHANGED <<world, p, watch, retry, timer, manager>>
OnEndpointRemoved == \E d \in Devices : \E ans \in Probe[d] :
  /\ Take([what |-> "removed", arg |-> d])
  /\ r' = IF r[d].ep THEN [r EXCEPT ![d] = updateHealth(d, [@ EXCEPT !.ep = FALSE], ans)] ELSE r
  /\ UNCHANGED <<world, p, watch, retry, timer, manager>>
OnLogEntry == \E d \in Devices :
  /\ Take([what |-> "log", arg |-> d])
  /\ r' = [r EXCEPT ![d] = updateHealth(d, [@ EXCEPT !.auth = TRUE], "fail")]
  /\ UNCHANGED <<world, p, watch, retry, timer, manager>>
BugPublishesOnce == \E d \in Devices :
  /\ Take([what |-> "config", arg |-> d]) /\ Goto(IF Made = {} THEN "objects" ELSE "idle")
  /\ UNCHANGED <<world, r, watch, retry, timer, manager>>
OnConfig == \E d \in Devices :
  /\ Take([what |-> "config", arg |-> d]) /\ Goto("objects")
  /\ UNCHANGED <<world, r, watch, retry, timer, manager>>
OnChassisObject ==
  /\ Take([what |-> "chassis", arg |-> "-"])
  /\ p' = IF retry /\ ~watch THEN [p EXCEPT !.at = "watch", !.again = TRUE] ELSE p
  /\ retry' = (retry /\ ~watch)
  /\ UNCHANGED <<world, r, watch, timer, manager>>

refreshChassisPoweredResourcesHealth == \E ans \in Probes :
  /\ p.at = "idle" /\ timer /\ timer' = FALSE /\ Answered
  /\ LET S == {d \in Made : Chassis(d)}
     IN r' = Refreshed(S, [d \in Devices |-> IF d \in S THEN [r[d] EXCEPT !.settling = FALSE] ELSE r[d]], ans)
  /\ UNCHANGED <<world, sig, p, watch, retry, manager>>

(* An SMA endpoint that comes or goes, and a USB device that appears at    *)
(* the port of a USB RCM device, refresh their resource.                   *)
RefreshOne(d) ==
  /\ p.at = "idle" /\ d \in Made /\ Spend(1)
  /\ \E ans \in Probe[d] : r' = [r EXCEPT ![d] = updateHealth(d, @, ans)]
  /\ UNCHANGED <<world, sig, p, watch, retry, timer, manager, blind>>
OnGpuSma == \E d \in Devices : kind[d] = "Gpu" /\ RefreshOne(d)
OnConnectXSma == \E d \in Devices : kind[d] = "ConnectX" /\ RefreshOne(d)
OnNVSwitchSma == \E d \in Devices : kind[d] = "NVSwitch" /\ RefreshOne(d)
OnNVLinkSma == \E d \in Devices : kind[d] = "NVLinkMgmtNic" /\ RefreshOne(d)
handleUdevEvent == \E d \in Devices : kind[d] = "USBRcm" /\ RefreshOne(d)

(* After a forced recovery of an MCU or a USB RCM device.                  *)
refreshAllResourceHealth == \E ans \in Probes :
  /\ p.at = "idle" /\ (\E d \in Made : kind[d] \in {"MCU", "USBRcm"}) /\ Spend(1)
  /\ r' = Refreshed(Made, r, ans)
  /\ UNCHANGED <<world, sig, p, watch, retry, timer, manager, blind>>

Daemon ==
  \/ CheckEntityManager \/ checkForRecoveryConfigEMObjects \/ PublishObjects \/ PublishPower
  \/ getMCUConfig \/ (\E d \in Devices : Construct(d) \/ NoI2CBus(d)) \/ MonitorEndpoint \/ monitorCpld
  \/ applyChassisConnectionAndRefresh \/ PublishDone
  \/ startCentralizedPowerStateWatcher \/ armCentralizedPowerStateWatcherRetry \/ RereadPower
  \/ OnPower \/ OnEndpointAdded \/ OnEndpointRemoved \/ OnLogEntry \/ OnConfig \/ OnChassisObject
  \/ refreshChassisPoweredResourcesHealth

(* The world.  A signal reaches the queue if a match for it is installed.  *)
Emit(installed, what, arg) == sig' = IF installed THEN Append(sig, [what |-> what, arg |-> arg]) ELSE sig
daemon == <<p, r, watch, retry, timer, manager, blind>>

EntityManagerAdds == \E d \in Devices \ configs :
  /\ configs' = configs \cup {d} /\ Emit(p.at # "main", "config", d)
  /\ UNCHANGED <<kind, has, chassisObj, chassis, endpoint, missed, authLog, daemon, spent>>
ChassisAppears ==
  /\ ~chassisObj /\ chassisObj' = TRUE /\ Emit(retry, "chassis", "-")
  /\ UNCHANGED <<kind, has, configs, chassis, endpoint, missed, authLog, daemon, spent>>
PowerSwitches ==
  /\ Spend(1) /\ chassis' = IF chassis = "On" THEN "Off" ELSE "On"
  /\ Emit(watch, "power", chassis')
  /\ UNCHANGED <<kind, has, configs, chassisObj, endpoint, missed, authLog, daemon>>
(* A CPLD that has queried its endpoint and has no match for it yet does   *)
(* not learn of the change; the next change tells it.                      *)
EndpointChanges == \E d \in Devices :
  /\ Spend(1) /\ endpoint' = [endpoint EXCEPT ![d] = ~@]
  /\ Emit(r[d].match, IF endpoint[d] THEN "removed" ELSE "added", d)
  /\ missed' = IF p.at = "smamatch" /\ d \in p.cur THEN missed \cup {d}
               ELSE IF r[d].match THEN missed \ {d} ELSE missed
  /\ UNCHANGED <<kind, has, configs, chassisObj, chassis, authLog, daemon>>
AuthenticationFails == \E d \in Devices :
  /\ kind[d] = "Cpld" /\ ~authLog[d] /\ Spend(1)
  /\ authLog' = [authLog EXCEPT ![d] = TRUE] /\ Emit(r[d].log, "log", d)
  /\ UNCHANGED <<kind, has, configs, chassisObj, chassis, endpoint, missed, daemon>>
World == EntityManagerAdds \/ ChassisAppears \/ PowerSwitches \/ EndpointChanges \/ AuthenticationFails

Next ==
  \/ Daemon \/ World \/ OnGpuSma \/ OnConnectXSma \/ OnNVSwitchSma \/ OnNVLinkSma
  \/ handleUdevEvent \/ refreshAllResourceHealth
Spec == Init /\ [][Next]_vars /\ WF_vars(Daemon)

TypeOK ==
  /\ kind \in Mixes /\ configs \subseteq Devices /\ chassis \in {"On", "Off"}
  /\ p.todo \subseteq Devices /\ p.cur \subseteq Devices /\ spent \in 0..MaxEvents
  /\ \A d \in Devices : r[d].power \in {"", "On", "Off"}

Quiet == p.at = "idle" /\ sig = <<>> /\ ~timer

(* A resource whose health update is deferred by the power-on settle       *)
(* window has the timer that ends the window, whether the power-on came    *)
(* as a signal, was found by the re-read or struck during publish          *)
(* (setPowerOnSettling, schedulePowerStateHealthRefresh).                  *)
SettlingHasTimer == \A d \in Devices : r[d].settling => timer

(* Once nothing is pending, a resource on chassis power holds the power    *)
(* state the chassis really has, or knows that it has none (the one read   *)
(* at the start of publish may be old when the match is there), and what   *)
(* it publishes fits its endpoint and its power: Enabled with the          *)
(* endpoint, never without it; Off exactly when it has neither power nor   *)
(* endpoint, so not after power came back.  A device that cannot be read,  *)
(* an MCU without its manager and a CPLD that failed authentication stay   *)
(* Critical, and a CPLD ignores power.  (updateHealth)                     *)
(* One resource of the code can be wrong: a CPLD asks for its endpoint     *)
(* before it has the matches (monitorSMAEndpoint), and a change in between *)
(* leaves it stale until the next one.  It is left out exactly then.       *)
HealthIsCurrent ==
  (Quiet /\ watch /\ ~blind) => \A d \in Made :
    LET x == r[d] IN
    /\ Chassis(d) => x.power \in {chassis, ""}
    /\ d \notin missed =>
         /\ (x.state = "Enabled" /\ kind[d] # "FixedERoT") => endpoint[d]
         /\ endpoint[d] =>
              \/ x.state = "Enabled" \/ x.auth
              \/ kind[d] \in {"ConnectX", "NVSwitch", "NVLinkMgmtNic"} \/ (kind[d] = "MCU" /\ ~x.mgr)
         /\ (x.power # "" /\ kind[d] \notin {"FixedERoT", "Cpld"}) =>
              ((x.state = "Off") <=> (chassis = "Off" /\ ~endpoint[d]))

(* Every complete configuration has its object once nothing is pending,    *)
(* whether Entity Manager added it before, during or after a publish       *)
(* (checkEntityManagerAvailability keeps its match, publish is repeated),  *)
(* but for a GPU behind a USB port that had no I2C bus when a publish came *)
(* by: no event of its own repeats the lookup (getI2CBusFromUSBPort).      *)
ConfigsPublished ==
  (p.at = "idle" /\ sig = <<>> /\ ~blind) => \A d \in configs :
    Complete(d) => r[d].made \/ (ByUsbPort(d) /\ d \in p.noBus)
=============================================================================
