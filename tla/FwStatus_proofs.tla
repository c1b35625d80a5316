------------------------- MODULE FwStatus_proofs -------------------------
(* That the settle window always ends, that no configuration is missed and *)
(* that the published health is current, for any number of devices of any  *)
(* kinds, any answers of their probes and any number of events and failed  *)
(* calls.                                                                  *)
EXTENDS FwStatus, TLAPS

Powers == {"", "On", "Off"}
States == {"none", "Enabled", "Off", "UnavailableOffline", "Absent", "StandbyOffline", "Degraded"}
Resource ==
  [made : BOOLEAN, match : BOOLEAN, ep : BOOLEAN, once : BOOLEAN, power : Powers, settling : BOOLEAN,
   state : States, mgr : BOOLEAN, log : BOOLEAN, auth : BOOLEAN]
(* The steps of publish at which one resource is under construction.       *)
Constructing == {"match", "query", "log", "logscan", "sma", "smamatch", "apply"}
Places ==
  {"main", "look", "objects", "power", "mcu", "make", "watch", "arm", "reread", "idle"} \cup Constructing
Signal ==
  [what : {"power", "added", "removed", "log", "config", "chassis"}, arg : {"On", "Off", "-"} \cup Devices]
Publishing ==
  [at : Places, todo : SUBSET Devices, cur : SUBSET Devices, init : Powers, again : BOOLEAN, noBus : SUBSET Devices]

Typed ==
  /\ kind \in [Devices -> Kinds] /\ configs \subseteq Devices
  /\ chassis \in {"On", "Off"} /\ endpoint \in [Devices -> BOOLEAN] /\ authLog \in [Devices -> BOOLEAN]
  /\ chassisObj \in BOOLEAN
  /\ sig \in Seq(Signal)
  /\ p \in Publishing
  /\ r \in [Devices -> Resource]
  /\ watch \in BOOLEAN /\ retry \in BOOLEAN /\ timer \in BOOLEAN /\ manager \in BOOLEAN /\ blind \in BOOLEAN

(* publish constructs only resources that do not exist, one at a time.     *)
ConstructsOnce ==
  /\ \A d \in p.todo : ~r[d].made
  /\ p.cur \subseteq p.todo
  /\ p.at \notin Constructing => p.cur = {}

(* Only an existing resource whose cached power state is On is in its      *)
(* settle window: the power-off that ends a window finds all of them, and  *)
(* so does the re-read, which looks for a power state that differs.        *)
SettlesPoweredOn == \A d \in Devices :
  r[d].settling => r[d].made /\ Chassis(d) /\ r[d].power = "On" /\ timer

(* A complete configuration without a resource is still to be found by a   *)
(* publish, or it is a GPU behind a USB port for which one found no bus.   *)
Announced ==
  /\ p.at \in {"main", "look", "idle", "watch", "arm", "reread"} => p.todo = {}
  /\ ~blind => \A d \in configs :
       \/ ~Complete(d) \/ r[d].made \/ d \in p.todo \/ p.at \in {"main", "look", "objects"}
       \/ (ByUsbPort(d) /\ d \in p.noBus)
       \/ \E i \in 1..Len(sig) : sig[i].what = "config"

StatusInv == Typed /\ ConstructsOnce /\ SettlesPoweredOn /\ Announced

(* Every device has one of the kinds.                                      *)
LEMMA KindTypes == \A f \in Mixes : f \in [Devices -> Kinds]
  BY FwStatusAssumption

(* updateHealth publishes a state and touches nothing else.                *)
LEMMA HealthKeeps ==
  ASSUME NEW d, NEW x \in Resource, NEW ans
  PROVE  LET y == updateHealth(d, x, ans)
         IN y \in Resource /\ y.made = x.made /\ y.settling = x.settling /\ y.power = x.power
<1>1. Fallback(x, ans) \in States
  BY DEF Fallback, Lost, States
<1>2. /\ gpuHealth(x, ans) \in States /\ connectxHealth(x, ans) \in States
      /\ usbRcmHealth(x, ans) \in States
  BY <1>1 DEF gpuHealth, connectxHealth, usbRcmHealth, Resource, States
<1>3. mcuHealth(x, ans) \in States /\ erotHealth(x, ans) \in States /\ cpldHealth(x) \in States
  BY <1>1 DEF mcuHealth, erotHealth, cpldHealth, Lost, States
<1>4. PICK s \in States : updateHealth(d, x, ans) = [x EXCEPT !.state = s]
  BY <1>2, <1>3 DEF updateHealth, nvswitchHealth, nvlinkHealth, States
<1> QED
  BY <1>4 DEF Resource

(* So does a round of updateHealth over several resources.                 *)
LEMMA RefreshKeeps ==
  ASSUME NEW S, NEW f \in [Devices -> Resource], NEW ans
  PROVE  /\ Refreshed(S, f, ans) \in [Devices -> Resource]
         /\ \A d \in Devices : /\ Refreshed(S, f, ans)[d].made = f[d].made
                                /\ Refreshed(S, f, ans)[d].settling = f[d].settling
                                /\ Refreshed(S, f, ans)[d].power = f[d].power
<1>1. \A d \in Devices : LET y == updateHealth(d, f[d], ans[d])
        IN y \in Resource /\ y.made = f[d].made /\ y.settling = f[d].settling /\ y.power = f[d].power
  BY HealthKeeps
<1> QED
  BY <1>1 DEF Refreshed

(* The initial states.                                                     *)
LEMMA StatusInit == Init => StatusInv
<1> SUFFICES ASSUME Init PROVE StatusInv
  OBVIOUS
<1>1. NewResource \in Resource /\ ~NewResource.settling /\ ~NewResource.made
  BY DEF NewResource, Resource, Powers, States
<1>2. r \in [Devices -> Resource]
  <2>1. r = [d \in Devices |-> NewResource]
    BY DEF Init
  <2> QED
    BY <1>1, <2>1
<1>3. p \in Publishing
  BY DEF Init, Publishing, Places, Powers
<1>4. Typed
  <2>1. kind \in [Devices -> Kinds]
    BY KindTypes DEF Init
  <2>2. sig = <<>>
    BY DEF Init
  <2>3. sig \in Seq(Signal)
    BY <2>2
  <2> QED
    BY <1>2, <1>3, <2>1, <2>3 DEF Init, Typed
<1>5. ConstructsOnce /\ SettlesPoweredOn /\ Announced
  BY <1>1 DEF Init, ConstructsOnce, SettlesPoweredOn, Announced
<1> QED
  BY <1>4, <1>5 DEF StatusInv

(* What a step does to the resources, for the steps that leave power,      *)
(* settling and existence alone.                                           *)
Keeps == \A d \in Devices :
  r'[d].made = r[d].made /\ r'[d].settling = r[d].settling /\ r'[d].power = r[d].power

(* One resource's updateHealth after a change of its other fields is such  *)
(* a step.                                                                 *)
LEMMA HealthStep ==
  ASSUME Typed, NEW d \in Devices, NEW ans, NEW x \in Resource,
         x.made = r[d].made, x.settling = r[d].settling, x.power = r[d].power,
         r' = [r EXCEPT ![d] = updateHealth(d, x, ans)]
  PROVE  r' \in [Devices -> Resource] /\ Keeps
<1> DEFINE y == updateHealth(d, x, ans)
<1>1. y \in Resource /\ y.made = r[d].made /\ y.settling = r[d].settling /\ y.power = r[d].power
  BY HealthKeeps
<1> HIDE DEF y
<1>2. r' = [r EXCEPT ![d] = y]
  BY DEF y
<1> QED
  BY <1>1, <1>2 DEF Typed, Keeps

(* So is that change without the updateHealth.                             *)
LEMMA FieldStep ==
  ASSUME Typed, NEW d \in Devices, NEW x \in Resource,
         x.made = r[d].made, x.settling = r[d].settling, x.power = r[d].power,
         r' = [r EXCEPT ![d] = x]
  PROVE  r' \in [Devices -> Resource] /\ Keeps
  BY DEF Typed, Keeps

(* The endpoint queries and the health updates are such steps.             *)
LEMMA EndpointSteps ==
  ASSUME Typed,
         MonitorEndpoint \/ monitorCpld \/ OnEndpointAdded \/ OnEndpointRemoved \/ OnLogEntry
  PROVE  r' \in [Devices -> Resource] /\ Keeps
<1>1. CASE MonitorEndpoint \/ monitorCpld
  <2>1. PICK d \in Devices :
          \/ r' = r
          \/ r' = [r EXCEPT ![d].match = TRUE]
          \/ r' = [r EXCEPT ![d].log = TRUE]
          \/ r' = [r EXCEPT ![d].auth = authLog[d]]
          \/ r' = [r EXCEPT ![d].ep = endpoint[d], ![d].once = endpoint[d]]
    BY <1>1 DEF MonitorEndpoint, monitorMCTPEndpoint, monitorCpld, Typed, Publishing
  <2>2. CASE r' = r
    BY <2>2 DEF Typed, Keeps
  <2>3. CASE r' = [r EXCEPT ![d].match = TRUE]
    <3> DEFINE x == [r[d] EXCEPT !.match = TRUE]
    <3>1. x \in Resource /\ x.made = r[d].made /\ x.settling = r[d].settling /\ x.power = r[d].power
      BY DEF Typed, Resource
    <3> QED
      BY <2>3, <3>1, FieldStep
  <2>4. CASE r' = [r EXCEPT ![d].log = TRUE]
    <3> DEFINE x == [r[d] EXCEPT !.log = TRUE]
    <3>1. x \in Resource /\ x.made = r[d].made /\ x.settling = r[d].settling /\ x.power = r[d].power
      BY DEF Typed, Resource
    <3> QED
      BY <2>4, <3>1, FieldStep
  <2>5. CASE r' = [r EXCEPT ![d].auth = authLog[d]]
    <3> DEFINE x == [r[d] EXCEPT !.auth = authLog[d]]
    <3>1. x \in Resource /\ x.made = r[d].made /\ x.settling = r[d].settling /\ x.power = r[d].power
      BY DEF Typed, Resource
    <3> QED
      BY <2>5, <3>1, FieldStep
  <2>6. CASE r' = [r EXCEPT ![d].ep = endpoint[d], ![d].once = endpoint[d]]
    <3> DEFINE x == [r[d] EXCEPT !.ep = endpoint[d], !.once = endpoint[d]]
    <3>1. x \in Resource /\ x.made = r[d].made /\ x.settling = r[d].settling /\ x.power = r[d].power
      BY DEF Typed, Resource
    <3>2. r' = [r EXCEPT ![d] = x]
      BY <2>6 DEF Typed
    <3> QED
      BY <3>1, <3>2, FieldStep
  <2> QED
    BY <2>1, <2>2, <2>3, <2>4, <2>5, <2>6
<1>2. CASE OnEndpointAdded
  <2>1. PICK d \in Devices, ans \in Answers :
          r' = [r EXCEPT ![d] = updateHealth(d, [r[d] EXCEPT !.ep = TRUE, !.once = TRUE], ans)]
    BY <1>2, FwStatusAssumption DEF OnEndpointAdded
  <2> DEFINE x == [r[d] EXCEPT !.ep = TRUE, !.once = TRUE]
  <2>2. x \in Resource /\ x.made = r[d].made /\ x.settling = r[d].settling /\ x.power = r[d].power
    BY DEF Typed, Resource
  <2> QED
    BY <2>1, <2>2, HealthStep
<1>3. CASE OnEndpointRemoved
  <2>1. PICK d \in Devices, ans \in Answers :
          \/ r' = [r EXCEPT ![d] = updateHealth(d, [r[d] EXCEPT !.ep = FALSE], ans)]
          \/ r' = r
    BY <1>3, FwStatusAssumption DEF OnEndpointRemoved
  <2> DEFINE x == [r[d] EXCEPT !.ep = FALSE]
  <2>2. x \in Resource /\ x.made = r[d].made /\ x.settling = r[d].settling /\ x.power = r[d].power
    BY DEF Typed, Resource
  <2>3. CASE r' = r
    BY <2>3 DEF Typed, Keeps
  <2> QED
    BY <2>1, <2>2, <2>3, HealthStep
<1>4. CASE OnLogEntry
  <2>1. PICK d \in Devices : r' = [r EXCEPT ![d] = updateHealth(d, [r[d] EXCEPT !.auth = TRUE], "fail")]
    BY <1>4 DEF OnLogEntry
  <2> DEFINE x == [r[d] EXCEPT !.auth = TRUE]
  <2>2. x \in Resource /\ x.made = r[d].made /\ x.settling = r[d].settling /\ x.power = r[d].power
    BY DEF Typed, Resource
  <2> QED
    BY <2>1, <2>2, HealthStep
<1> QED
  BY <1>1, <1>2, <1>3, <1>4

(* So are the refreshes of other causes.                                   *)
OtherRefresh ==
  \/ OnGpuSma \/ OnConnectXSma \/ OnNVSwitchSma \/ OnNVLinkSma \/ handleUdevEvent \/ refreshAllResourceHealth
LEMMA RefreshSteps ==
  ASSUME Typed, OtherRefresh
  PROVE  r' \in [Devices -> Resource] /\ Keeps /\ UNCHANGED <<world, sig, p, watch, retry, timer, manager, blind>>
<1>1. CASE refreshAllResourceHealth
  <2>1. PICK ans : r' = Refreshed(Made, r, ans)
    BY <1>1 DEF refreshAllResourceHealth
  <2>2. r \in [Devices -> Resource]
    BY DEF Typed
  <2>3. r' \in [Devices -> Resource] /\ Keeps
    BY <2>1, <2>2, RefreshKeeps DEF Keeps
  <2> QED
    BY <1>1, <2>3 DEF refreshAllResourceHealth
<1>2. CASE \E d \in Devices : RefreshOne(d)
  <2>1. PICK d \in Devices : RefreshOne(d)
    BY <1>2
  <2>2. PICK ans : r' = [r EXCEPT ![d] = updateHealth(d, r[d], ans)]
    BY <2>1 DEF RefreshOne
  <2>3. r[d] \in Resource
    BY DEF Typed
  <2> QED
    BY <2>1, <2>2, <2>3, HealthStep DEF RefreshOne
<1> QED
  BY <1>1, <1>2 DEF OtherRefresh, OnGpuSma, OnConnectXSma, OnNVSwitchSma, OnNVLinkSma, handleUdevEvent

(* A power state that was read or signalled reaches the resources of S.    *)
Cached(S, v) ==
  [d \in Devices |-> IF d \in S THEN [r[d] EXCEPT !.power = v, !.settling = (v = "On")] ELSE r[d]]
(* The resources of S have the new power state and their settle window     *)
(* open exactly for a power-on; the others are as before.                  *)
LEMMA CachedFacts ==
  ASSUME Typed, NEW S, NEW v \in {"On", "Off"}
  PROVE  /\ Cached(S, v) \in [Devices -> Resource]
         /\ \A d \in Devices : LET y == Cached(S, v)[d] IN
              /\ y.made = r[d].made
              /\ d \in S => y.power = v /\ (y.settling <=> v = "On")
              /\ d \notin S => y = r[d]
<1>1. \A d \in Devices : r[d] \in Resource
  BY DEF Typed
<1>2. ASSUME NEW d \in Devices
      PROVE  LET y == [r[d] EXCEPT !.power = v, !.settling = (v = "On")]
             IN y \in Resource /\ y.made = r[d].made /\ y.power = v /\ (y.settling <=> v = "On")
  BY <1>1 DEF Resource, Powers
<1> QED
  BY <1>1, <1>2 DEF Cached

(* The window ends with the timer, or with the power-off that finds every  *)
(* resource in its window; a power-on that opens one starts the timer.     *)
LEMMA PowerSteps ==
  ASSUME Typed, SettlesPoweredOn, UNCHANGED <<kind, has>>, NEW v \in {"On", "Off"}, NEW ans,
         reconcileChassisPowerState(v, ans) \/ PowerChanged(v, ans)
  PROVE  /\ r' \in [Devices -> Resource] /\ timer' \in BOOLEAN
         /\ \A d \in Devices : r'[d].made = r[d].made
         /\ SettlesPoweredOn'
<1>1. PICK S : /\ S = Stale(v) \/ S = {d \in Made : Chassis(d)}
               /\ r' = Cached(S, v) \/ r' = Refreshed(S, Cached(S, v), ans)
               /\ timer' = (v = "On") \/ (S = {} /\ S = Stale(v) /\ timer' = timer)
  <2>1. CASE reconcileChassisPowerState(v, ans)
    <3> WITNESS Stale(v)
    <3> QED
      BY <2>1 DEF reconcileChassisPowerState, Cached
  <2>2. CASE PowerChanged(v, ans)
    <3> WITNESS {d \in Made : Chassis(d)}
    <3> QED
      BY <2>2 DEF PowerChanged, Cached
  <2> QED
    BY <2>1, <2>2
<1>2. Cached(S, v) \in [Devices -> Resource] /\ r' \in [Devices -> Resource]
  <2>1. Cached(S, v) \in [Devices -> Resource]
    BY CachedFacts
  <2> QED
    BY <1>1, <2>1, RefreshKeeps
<1>3. ASSUME NEW d \in Devices
      PROVE  /\ r'[d].made = r[d].made
             /\ d \in S => r'[d].power = v /\ (r'[d].settling <=> v = "On")
             /\ d \notin S => r'[d].power = r[d].power /\ r'[d].settling = r[d].settling
  <2>1. CASE r' = Cached(S, v)
    BY <2>1, CachedFacts
  <2>2. CASE r' = Refreshed(S, Cached(S, v), ans)
    BY <1>2, <2>2, CachedFacts, RefreshKeeps
  <2> QED
    BY <1>1, <2>1, <2>2
<1>4. timer' \in BOOLEAN
  BY <1>1 DEF Typed
<1>5. ASSUME NEW d \in Devices, r'[d].settling
      PROVE  r'[d].made /\ Chassis(d)' /\ r'[d].power = "On" /\ timer'
  <2>1. CASE d \in S
    <3>1. v = "On" /\ r'[d].power = "On"
      BY <1>3, <1>5, <2>1
    <3>2. r[d].made /\ Chassis(d) /\ S # {}
      BY <1>1, <2>1 DEF Stale, Made
    <3> QED
      BY <1>1, <1>3, <3>1, <3>2 DEF Chassis
  <2>2. CASE d \notin S
    <3>1. r[d].settling /\ r'[d].power = r[d].power
      BY <1>3, <1>5, <2>2
    <3>2. r[d].made /\ Chassis(d) /\ r[d].power = "On" /\ timer
      BY <3>1 DEF SettlesPoweredOn
    <3>3. S = Stale(v) /\ v = "On"
      BY <1>1, <2>2, <3>2 DEF Stale, Made
    <3> QED
      BY <1>1, <1>3, <3>1, <3>2, <3>3 DEF Chassis
  <2> QED
    BY <2>1, <2>2
<1> QED
  BY <1>2, <1>3, <1>4, <1>5 DEF SettlesPoweredOn

(* The timer closes every settle window.                                   *)
LEMMA TimerStep ==
  ASSUME Typed, SettlesPoweredOn, refreshChassisPoweredResourcesHealth
  PROVE  /\ r' \in [Devices -> Resource] /\ \A d \in Devices : r'[d].made = r[d].made
         /\ SettlesPoweredOn'
<1> DEFINE S == {d \in Made : Chassis(d)}
           f == [d \in Devices |-> IF d \in S THEN [r[d] EXCEPT !.settling = FALSE] ELSE r[d]]
<1>1. PICK ans : r' = Refreshed(S, f, ans)
  BY DEF refreshChassisPoweredResourcesHealth
<1>2. \A d \in Devices : r[d] \in Resource
  BY DEF Typed
<1>3. ASSUME NEW d \in Devices
      PROVE  LET y == [r[d] EXCEPT !.settling = FALSE]
             IN y \in Resource /\ y.made = r[d].made /\ ~y.settling
  BY <1>2 DEF Resource
<1>4. /\ f \in [Devices -> Resource]
      /\ \A d \in Devices : f[d].made = r[d].made /\ (d \in S => ~f[d].settling) /\ (d \notin S => f[d] = r[d])
  BY <1>2, <1>3
<1>5. /\ r' \in [Devices -> Resource]
      /\ \A d \in Devices : r'[d].made = f[d].made /\ r'[d].settling = f[d].settling
  <2> HIDE DEF f, S
  <2> QED
    BY <1>1, <1>4, RefreshKeeps
<1>6. \A d \in Devices : ~r'[d].settling
  <2> SUFFICES ASSUME NEW d \in Devices, r'[d].settling PROVE FALSE
    OBVIOUS
  <2>1. f[d].settling
    BY <1>5
  <2>2. d \notin S /\ r[d].settling
    BY <1>4, <2>1
  <2> QED
    BY <2>2 DEF SettlesPoweredOn, Made
<1> QED
  BY <1>4, <1>5, <1>6 DEF SettlesPoweredOn

(* Signals.                                                                *)
Unread == \E i \in 1..Len(sig) : sig[i].what = "config"
(* A new signal leaves the older ones in the queue.                        *)
LEMMA EmitFacts ==
  ASSUME Typed, NEW b, NEW w \in {"power", "added", "removed", "log", "config", "chassis"},
         NEW a \in {"On", "Off", "-"} \cup Devices, Emit(b, w, a)
  PROVE  sig' \in Seq(Signal) /\ (Unread => Unread') /\ (b /\ w = "config" => Unread')
<1> DEFINE m == [what |-> w, arg |-> a]
<1>1. m \in Signal /\ m.what = w
  BY DEF Signal
<1>2. sig \in Seq(Signal)
  BY DEF Typed
<1>3. CASE ~b
  BY <1>2, <1>3 DEF Emit, Unread
<1>4. CASE b
  <2>1. sig' = Append(sig, m)
    BY <1>4 DEF Emit
  <2> HIDE DEF m
  <2>2. /\ sig' \in Seq(Signal) /\ Len(sig') = Len(sig) + 1 /\ sig'[Len(sig) + 1] = m
        /\ \A i \in 1..Len(sig) : sig'[i] = sig[i]
    BY <1>1, <1>2, <2>1
  <2>3. Len(sig) \in Nat
    BY <1>2
  <2> QED
    BY <1>1, <2>2, <2>3 DEF Unread
<1> QED
  BY <1>3, <1>4

(* Taking another signal leaves an unread configuration signal unread.     *)
LEMMA TakeFacts ==
  ASSUME Typed, NEW m, Take(m)
  PROVE  sig' \in Seq(Signal) /\ (Unread /\ m.what # "config" => Unread')
<1>1. sig \in Seq(Signal) /\ sig # <<>> /\ m = Head(sig) /\ sig' = Tail(sig)
  BY DEF Typed, Take
<1>2. /\ sig' \in Seq(Signal) /\ Len(sig) \in Nat /\ Len(sig') = Len(sig) - 1 /\ m = sig[1]
      /\ \A i \in 1..Len(sig') : sig'[i] = sig[i + 1]
  BY <1>1
<1>3. ASSUME Unread, m.what # "config" PROVE Unread'
  <2>1. PICK i \in 1..Len(sig) : sig[i].what = "config"
    BY <1>3 DEF Unread
  <2>2. i # 1
    BY <1>2, <1>3, <2>1
  <2>3. i - 1 \in 1..Len(sig') /\ sig'[i - 1] = sig[i]
    BY <1>2, <2>2
  <2> QED
    BY <2>1, <2>3 DEF Unread
<1> QED
  BY <1>2, <1>3

(* The groups of steps.  Publish: the daemon is not idle and r keeps its   *)
(* power fields, or a resource is finished.                                *)
LEMMA PublishSteps ==
  ASSUME StatusInv,
         \/ CheckEntityManager \/ checkForRecoveryConfigEMObjects \/ PublishObjects \/ PublishPower
         \/ getMCUConfig \/ (\E d \in Devices : Construct(d) \/ NoI2CBus(d)) \/ PublishDone
  PROVE  StatusInv'
<1> USE DEF StatusInv
<1>1. UNCHANGED <<r, sig, timer, watch, retry, kind, has, configs, chassisObj, chassis, endpoint, authLog>>
  BY DEF CheckEntityManager, checkForRecoveryConfigEMObjects, PublishObjects, PublishPower, getMCUConfig,
         Construct, NoI2CBus, PublishDone, world
<1>0. \A d \in Devices : (Complete(d)' <=> Complete(d)) /\ (ByUsbPort(d)' <=> ByUsbPort(d))
  BY <1>1 DEF Complete, ByUsbPort
<1>2. /\ p' \in Publishing /\ manager' \in BOOLEAN /\ blind' \in BOOLEAN /\ (blind => blind')
      /\ p'.todo \subseteq p.todo \/ p'.todo \subseteq configs \ Made
      /\ p'.cur \subseteq p'.todo
      /\ p'.at \notin Constructing => p'.cur = {}
  <2>1. CASE CheckEntityManager \/ checkForRecoveryConfigEMObjects
    BY <2>1 DEF CheckEntityManager, checkForRecoveryConfigEMObjects, Goto, Answered, Fails, Typed,
                Publishing, Places, Constructing, ConstructsOnce
  <2>2. CASE PublishObjects
    BY <2>2, ZenonT(40) DEF PublishObjects, Answered, Fails, Typed, Publishing, Places, Constructing, ConstructsOnce
  <2>3. CASE PublishPower \/ getMCUConfig
    BY <2>3 DEF PublishPower, getMCUConfig, Goto, Typed, Publishing, Places, Constructing,
                ConstructsOnce, Powers
  <2>4. CASE \E d \in Devices : Construct(d)
    <3>1. PICK d \in Devices : Construct(d)
      BY <2>4
    <3>2. /\ d \in p.todo /\ p.at = "make" /\ p.cur = {} /\ p \in Publishing
          /\ UNCHANGED <<manager, blind>>
      BY <3>1 DEF Construct, Answered, Typed, Constructing, ConstructsOnce
    <3>3. CASE Complete(d)
      <4>1. p' = [p EXCEPT !.at = IF kind[d] = "Cpld" THEN "log" ELSE "match", !.cur = {d}]
        BY <3>1, <3>3 DEF Construct
      <4> QED
        BY <3>2, <4>1 DEF Publishing, Places, Constructing, Typed
    <3>4. CASE ~Complete(d)
      <4>1. p' = [p EXCEPT !.todo = @ \ {d}]
        BY <3>1, <3>4 DEF Construct
      <4> QED
        BY <3>2, <4>1 DEF Publishing, Places, Constructing, Typed
    <3> QED
      BY <3>3, <3>4
  <2>5. CASE PublishDone
    BY <2>5 DEF PublishDone, Answered, Typed, Publishing, Places, Constructing, ConstructsOnce, Powers
  <2>6. CASE \E d \in Devices : NoI2CBus(d)
    <3>1. PICK d \in Devices : NoI2CBus(d)
      BY <2>6
    <3>2. /\ p.at = "make" /\ p.cur = {} /\ p \in Publishing /\ UNCHANGED <<manager, blind>>
          /\ p' = [p EXCEPT !.todo = @ \ {d}, !.noBus = @ \cup {d}]
      BY <3>1 DEF NoI2CBus, Typed, Constructing, ConstructsOnce
    <3> QED
      BY <3>2 DEF Publishing, Places, Constructing, Typed
  <2> QED
    BY <2>1, <2>2, <2>3, <2>4, <2>5, <2>6
<1>3. Typed'
  BY <1>1, <1>2 DEF Typed
<1>4. ConstructsOnce'
  BY <1>1, <1>2 DEF ConstructsOnce, Made, Typed
<1>5. SettlesPoweredOn'
  BY <1>1 DEF SettlesPoweredOn, Chassis
<1>6. Announced'
  <2>1. CASE CheckEntityManager
    BY <1>0, <1>1, <2>1 DEF CheckEntityManager, Goto, Answered, Announced, Typed, Publishing
  <2>2. CASE checkForRecoveryConfigEMObjects
    BY <1>0, <1>1, <2>2 DEF checkForRecoveryConfigEMObjects, Goto, Answered, Fails, Announced, Typed, Publishing
  <2>3. CASE PublishObjects
    BY <1>0, <1>1, <2>3, ZenonT(40) DEF PublishObjects, Answered, Fails, Announced, Typed, Publishing, Made
  <2>4. CASE PublishPower \/ getMCUConfig
    BY <1>0, <1>1, <2>4 DEF PublishPower, getMCUConfig, Goto, Announced, Typed, Publishing
  <2>5. CASE \E d \in Devices : Construct(d)
    <3>1. PICK d \in Devices : Construct(d)
      BY <2>5
    <3>2. /\ p.at = "make" /\ p \in Publishing /\ blind' = blind /\ p'.noBus = p.noBus
          /\ Complete(d) => p'.todo = p.todo /\ p'.at \in {"log", "match"}
          /\ ~Complete(d) => p'.todo = p.todo \ {d} /\ p'.at = "make"
      <4>1. p.at = "make" /\ p \in Publishing /\ blind' = blind
        BY <3>1 DEF Construct, Answered, Typed
      <4>2. CASE Complete(d)
        <5>1. p' = [p EXCEPT !.at = IF kind[d] = "Cpld" THEN "log" ELSE "match", !.cur = {d}]
          BY <3>1, <4>2 DEF Construct
        <5> QED
          BY <4>1, <4>2, <5>1 DEF Publishing
      <4>3. CASE ~Complete(d)
        <5>1. p' = [p EXCEPT !.todo = @ \ {d}]
          BY <3>1, <4>3 DEF Construct
        <5> QED
          BY <4>1, <4>3, <5>1 DEF Publishing
      <4> QED
        BY <4>1, <4>2, <4>3
    <3> QED
      BY <1>0, <1>1, <3>2 DEF Announced, Typed
  <2>6. CASE PublishDone
    BY <1>0, <1>1, <2>6 DEF PublishDone, Answered, Announced, Typed, Publishing
  <2>7. CASE \E d \in Devices : NoI2CBus(d)
    <3>1. PICK d \in Devices : NoI2CBus(d)
      BY <2>7
    <3>2. /\ p.at = "make" /\ p'.at = "make" /\ blind' = blind /\ ByUsbPort(d)
          /\ p'.todo = p.todo \ {d} /\ p'.noBus = p.noBus \cup {d}
      BY <3>1 DEF NoI2CBus, Typed, Publishing
    <3> QED
      BY <1>0, <1>1, <3>2 DEF Announced, Typed
  <2> QED
    BY <2>1, <2>2, <2>3, <2>4, <2>5, <2>6, <2>7
<1> QED
  BY <1>3, <1>4, <1>5, <1>6

(* Steps that leave existence, power and settling of the resources alone   *)
(* and do not drop a configuration keep the invariant.                     *)
LEMMA KeepingSteps ==
  ASSUME StatusInv, Typed', Keeps, UNCHANGED <<kind, has, configs, timer>>, blind => blind',
         p'.todo = p.todo, p'.noBus = p.noBus, p'.cur = p.cur, p'.at \notin Constructing => p'.cur = {},
         p'.at \in {"main", "look", "idle", "watch", "arm", "reread"} => p'.todo = {},
         p.at \notin {"main", "look", "objects"} \/ p'.at = p.at, Unread => Unread'
  PROVE  StatusInv'
<1> USE DEF StatusInv
<1>1. ConstructsOnce'
  <2>1. \A d \in p'.todo : d \in Devices /\ ~r[d].made
    BY DEF ConstructsOnce, Typed, Publishing
  <2> QED
    BY <2>1 DEF ConstructsOnce, Keeps
<1>2. SettlesPoweredOn'
  BY DEF SettlesPoweredOn, Keeps, Chassis
<1>3. Announced'
  <2>1. \A d \in Devices :
          (Complete(d)' <=> Complete(d)) /\ (ByUsbPort(d)' <=> ByUsbPort(d)) /\ r'[d].made = r[d].made
    BY DEF Complete, ByUsbPort, Keeps
  <2>2. configs \subseteq Devices /\ blind \in BOOLEAN
    BY DEF Typed
  <2> QED
    BY <2>1, <2>2 DEF Announced, Unread
<1> QED
  BY <1>1, <1>2, <1>3

(* A resource's matches and queries.                                       *)
LEMMA ConstructionSteps ==
  ASSUME StatusInv, MonitorEndpoint \/ monitorCpld
  PROVE  StatusInv'
<1> USE DEF StatusInv
<1>1. r' \in [Devices -> Resource] /\ Keeps
  BY EndpointSteps
<1>2. UNCHANGED <<world, sig, watch, retry, timer, manager>>
  BY DEF MonitorEndpoint, monitorCpld
<1>3. PICK at \in Constructing : p' = [p EXCEPT !.at = at]
  BY DEF MonitorEndpoint, monitorMCTPEndpoint, monitorCpld, Goto, Constructing
<1>4. p.at \in Constructing
  BY DEF MonitorEndpoint, monitorMCTPEndpoint, monitorCpld, Constructing
<1>5. blind' \in BOOLEAN /\ (blind => blind')
  BY DEF MonitorEndpoint, monitorMCTPEndpoint, monitorCpld, Answered, Fails, Typed
<1>6. p' \in Publishing /\ p'.todo = p.todo /\ p'.noBus = p.noBus /\ p'.cur = p.cur /\ p'.at = at
  BY <1>3 DEF Typed, Publishing, Places
<1>7. Typed'
  BY <1>1, <1>2, <1>5, <1>6 DEF Typed, world
<1> QED
  BY <1>1, <1>2, <1>4, <1>5, <1>6, <1>7, KeepingSteps DEF Constructing, world, Unread

(* The watcher is installed or waits for the chassis object.               *)
LEMMA WatcherSteps ==
  ASSUME StatusInv, startCentralizedPowerStateWatcher \/ armCentralizedPowerStateWatcherRetry
  PROVE  StatusInv'
<1> USE DEF StatusInv
<1>1. UNCHANGED <<world, sig, r, timer, manager, blind>>
  BY DEF startCentralizedPowerStateWatcher, armCentralizedPowerStateWatcherRetry, Answered
<1>2. watch' \in BOOLEAN /\ retry' \in BOOLEAN
  BY DEF startCentralizedPowerStateWatcher, armCentralizedPowerStateWatcherRetry, Typed
<1>3. p.at \in {"watch", "arm"}
  BY DEF startCentralizedPowerStateWatcher, armCentralizedPowerStateWatcherRetry
<1>4. /\ p' \in Publishing /\ p'.todo = p.todo /\ p'.noBus = p.noBus /\ p'.cur = p.cur
      /\ p'.at \in {"reread", "idle", "arm", "watch"}
  <2>1. CASE startCentralizedPowerStateWatcher
    BY <2>1 DEF startCentralizedPowerStateWatcher, Goto, Typed, Publishing, Places
  <2>2. CASE armCentralizedPowerStateWatcherRetry
    BY <2>2 DEF armCentralizedPowerStateWatcherRetry, Typed, Publishing, Places
  <2> QED
    BY <2>1, <2>2
<1>5. Typed' /\ Keeps
  BY <1>1, <1>2, <1>4 DEF Typed, world, Keeps
<1>6. p.todo = {} /\ p.cur = {}
  BY <1>3 DEF Announced, ConstructsOnce, Constructing
<1> QED
  BY <1>1, <1>3, <1>4, <1>5, <1>6, KeepingSteps DEF world, Unread

(* The daemon waits for events: what the idle loop leaves behind.          *)
LEMMA IdleFacts ==
  ASSUME StatusInv, p.at = "idle"
  PROVE  p.todo = {} /\ p.cur = {}
  BY DEF StatusInv, Announced, ConstructsOnce, Constructing

(* The events that refresh a resource, and the chassis object's arrival.   *)
LEMMA EventSteps ==
  ASSUME StatusInv,
         OnEndpointAdded \/ OnEndpointRemoved \/ OnLogEntry \/ OnChassisObject \/ OtherRefresh
  PROVE  StatusInv'
<1> USE DEF StatusInv
<1>1. CASE OnEndpointAdded \/ OnEndpointRemoved \/ OnLogEntry
  <2>1. PICK m : Take(m) /\ m.what # "config"
    <3>1. CASE OnEndpointAdded
      <4>1. PICK d \in Devices : Take([what |-> "added", arg |-> d])
        BY <3>1 DEF OnEndpointAdded
      <4> QED
        BY <4>1
    <3>2. CASE OnEndpointRemoved
      <4>1. PICK d \in Devices : Take([what |-> "removed", arg |-> d])
        BY <3>2 DEF OnEndpointRemoved
      <4> QED
        BY <4>1
    <3>3. CASE OnLogEntry
      BY <3>3 DEF OnLogEntry
    <3> QED
      BY <1>1, <3>1, <3>2, <3>3
  <2>2. UNCHANGED <<world, p, watch, retry, timer, manager>>
    BY <1>1 DEF OnEndpointAdded, OnEndpointRemoved, OnLogEntry
  <2>3. p.at = "idle" /\ blind' = blind
    BY <2>1 DEF Take, Answered
  <2>4. sig' \in Seq(Signal) /\ (Unread => Unread')
    BY <2>1, TakeFacts
  <2>5. r' \in [Devices -> Resource] /\ Keeps
    BY <1>1, EndpointSteps
  <2>6. Typed'
    BY <2>2, <2>3, <2>4, <2>5 DEF Typed, world
  <2> QED
    BY <2>2, <2>3, <2>4, <2>5, <2>6, IdleFacts, KeepingSteps DEF world
<1>2. CASE OnChassisObject
  <2>1. PICK m : Take(m) /\ m.what # "config"
    BY <1>2 DEF OnChassisObject
  <2>2. UNCHANGED <<world, r, watch, timer, manager>> /\ retry' \in BOOLEAN
    BY <1>2 DEF OnChassisObject
  <2>3. p.at = "idle" /\ blind' = blind
    BY <2>1 DEF Take, Answered
  <2>4. sig' \in Seq(Signal) /\ (Unread => Unread')
    BY <2>1, TakeFacts
  <2>5. /\ p' \in Publishing /\ p'.todo = p.todo /\ p'.noBus = p.noBus /\ p'.cur = p.cur
        /\ p'.at \in {"idle", "watch"}
    BY <1>2, <2>3 DEF OnChassisObject, Typed, Publishing, Places
  <2>6. Typed' /\ Keeps
    BY <2>2, <2>3, <2>4, <2>5 DEF Typed, world, Keeps
  <2> QED
    BY <2>2, <2>3, <2>4, <2>5, <2>6, IdleFacts, KeepingSteps DEF world
<1>3. CASE OtherRefresh
  <2>1. /\ r' \in [Devices -> Resource] /\ Keeps
        /\ UNCHANGED <<world, sig, p, watch, retry, timer, manager, blind>>
    BY <1>3, RefreshSteps
  <2>2. Typed'
    BY <2>1 DEF Typed, world
  <2>3. p.at \notin Constructing => p.cur = {}
    BY DEF ConstructsOnce
  <2>4. p.at \in {"main", "look", "idle", "watch", "arm", "reread"} => p.todo = {}
    BY DEF Announced
  <2> QED
    BY <2>1, <2>2, <2>3, <2>4, KeepingSteps DEF world, Unread
<1> QED
  BY <1>1, <1>2, <1>3

(* A power state is read, signalled, or has settled.                       *)
LEMMA PowerEventSteps ==
  ASSUME StatusInv, RereadPower \/ OnPower \/ refreshChassisPoweredResourcesHealth
  PROVE  StatusInv'
<1> USE DEF StatusInv
<1>1. UNCHANGED <<world, watch, manager>> /\ retry' \in BOOLEAN
  BY DEF RereadPower, OnPower, refreshChassisPoweredResourcesHealth, Typed
<1>2. /\ p.at \in {"idle", "reread"} /\ p' \in Publishing
      /\ p'.todo = p.todo /\ p'.noBus = p.noBus /\ p'.cur = p.cur /\ p'.at = "idle"
  <2>1. CASE RereadPower
    BY <2>1 DEF RereadPower, Goto, Typed, Publishing, Places
  <2>2. CASE OnPower \/ refreshChassisPoweredResourcesHealth
    BY <2>2 DEF OnPower, Take, refreshChassisPoweredResourcesHealth, Typed
  <2> QED
    BY <2>1, <2>2
<1>3. blind' \in BOOLEAN /\ (blind => blind')
  BY DEF RereadPower, OnPower, Take, refreshChassisPoweredResourcesHealth, Answered, Fails, Typed
<1>4. sig' \in Seq(Signal) /\ (Unread => Unread')
  <2>1. CASE OnPower
    <3>1. PICK m : Take(m) /\ m.what # "config"
      BY <2>1 DEF OnPower
    <3> QED
      BY <3>1, TakeFacts
  <2>2. CASE RereadPower \/ refreshChassisPoweredResourcesHealth
    BY <2>2 DEF RereadPower, refreshChassisPoweredResourcesHealth, Typed, Unread
  <2> QED
    BY <2>1, <2>2
<1>5. /\ r' \in [Devices -> Resource] /\ timer' \in BOOLEAN
      /\ \A d \in Devices : r'[d].made = r[d].made
      /\ SettlesPoweredOn'
  <2>0. UNCHANGED <<kind, has>>
    BY <1>1 DEF world
  <2>1. CASE RereadPower
    <3>1. CASE UNCHANGED <<r, timer>>
      BY <2>0, <3>1 DEF SettlesPoweredOn, Chassis, Typed
    <3>2. CASE \E ans \in Probes : reconcileChassisPowerState(chassis, ans)
      BY <2>0, <3>2, PowerSteps DEF Typed
    <3> QED
      BY <2>1, <3>1, <3>2 DEF RereadPower
  <2>2. CASE OnPower
    <3>1. PICK v \in {"On", "Off"}, ans \in Probes : PowerChanged(v, ans)
      BY <2>2 DEF OnPower
    <3> QED
      BY <2>0, <3>1, PowerSteps
  <2>3. CASE refreshChassisPoweredResourcesHealth
    BY <2>3, TimerStep DEF refreshChassisPoweredResourcesHealth
  <2> QED
    BY <2>1, <2>2, <2>3
<1>6. Typed'
  BY <1>1, <1>2, <1>3, <1>4, <1>5 DEF Typed, world
<1>7. p.todo = {} /\ p.cur = {} /\ p.at \notin {"main", "look", "objects"}
  BY <1>2 DEF Announced, ConstructsOnce, Constructing
<1>8. ConstructsOnce'
  BY <1>2, <1>7 DEF ConstructsOnce
<1>9. Announced'
  <2>1. \A d \in Devices : (Complete(d)' <=> Complete(d)) /\ (ByUsbPort(d)' <=> ByUsbPort(d))
    BY <1>1 DEF Complete, ByUsbPort, world
  <2>2. configs' = configs /\ configs \subseteq Devices /\ blind \in BOOLEAN
    BY <1>1 DEF Typed, world
  <2> QED
    BY <1>2, <1>3, <1>4, <1>5, <1>7, <2>1, <2>2 DEF Announced, Unread
<1> QED
  BY <1>5, <1>6, <1>8, <1>9

(* The resource is finished: it enters the world with the power state that *)
(* was read, which opens no settle window.                                 *)
LEMMA FinishStep ==
  ASSUME StatusInv, applyChassisConnectionAndRefresh
  PROVE  StatusInv'
<1> USE DEF StatusInv
<1>0. PICK d \in p.cur : \E ans \in Probe[d] :
        /\ r' = [r EXCEPT ![d] = updateHealth(d, Connected(d), ans)]
        /\ p' = [p EXCEPT !.at = "make", !.todo = @ \ {d}, !.cur = {}]
  BY DEF applyChassisConnectionAndRefresh
<1>1. PICK ans \in Probe[d] :
        /\ r' = [r EXCEPT ![d] = updateHealth(d, Connected(d), ans)]
        /\ p' = [p EXCEPT !.at = "make", !.todo = @ \ {d}, !.cur = {}]
  BY <1>0
<1>2. p.at = "apply" /\ UNCHANGED <<world, sig, watch, retry, timer, manager, blind>>
  BY DEF applyChassisConnectionAndRefresh, Answered
<1>3. d \in Devices /\ d \in p.todo /\ p.init \in Powers /\ r[d] \in Resource
  BY DEF Typed, Publishing, ConstructsOnce
<1>4. ~r[d].made /\ ~r[d].settling
  BY <1>3 DEF ConstructsOnce, SettlesPoweredOn
<1> DEFINE y == updateHealth(d, Connected(d), ans)
<1>5. Connected(d) \in Resource /\ Connected(d).made /\ Connected(d).settling = r[d].settling
  BY <1>3 DEF Connected, Resource, Typed
<1>6. y \in Resource /\ y.made /\ ~y.settling
  BY <1>4, <1>5, HealthKeeps
<1>7. r' = [r EXCEPT ![d] = y]
  BY <1>1
<1> HIDE DEF y
<1>8. /\ r' \in [Devices -> Resource] /\ r'[d].made /\ ~r'[d].settling
      /\ \A e \in Devices \ {d} : r'[e] = r[e]
  BY <1>3, <1>6, <1>7 DEF Typed
<1>9. /\ p' \in Publishing /\ p'.todo = p.todo \ {d} /\ p'.noBus = p.noBus /\ p'.cur = {}
      /\ p'.at = "make"
  BY <1>1, <1>3 DEF Typed, Publishing, Places
<1>10. Typed'
  BY <1>2, <1>8, <1>9 DEF Typed, world
<1>11. ConstructsOnce'
  <2>1. \A e \in p'.todo : e \in Devices \ {d} /\ ~r[e].made
    BY <1>9 DEF ConstructsOnce, Typed, Publishing
  <2> QED
    BY <1>8, <1>9, <2>1 DEF ConstructsOnce
<1>12. SettlesPoweredOn'
  BY <1>2, <1>8 DEF SettlesPoweredOn, Chassis, world
<1>13. Announced'
  <2>1. \A e \in Devices : (Complete(e)' <=> Complete(e)) /\ (ByUsbPort(e)' <=> ByUsbPort(e))
    BY <1>2 DEF Complete, ByUsbPort, world
  <2>2. configs' = configs /\ configs \subseteq Devices
    BY <1>2 DEF Typed, world
  <2> QED
    BY <1>2, <1>8, <1>9, <2>1, <2>2 DEF Announced
<1> QED
  BY <1>10, <1>11, <1>12, <1>13

(* A configuration signal starts a publish that will find everything.      *)
LEMMA ConfigStep ==
  ASSUME StatusInv, OnConfig
  PROVE  StatusInv'
<1> USE DEF StatusInv
<1>1. PICK m : Take(m)
  BY DEF OnConfig
<1>2. UNCHANGED <<world, r, watch, retry, timer, manager>> /\ Goto("objects")
  BY DEF OnConfig
<1>3. p.at = "idle" /\ blind' = blind
  BY <1>1 DEF Take, Answered
<1>4. sig' \in Seq(Signal)
  BY <1>1, TakeFacts
<1>5. p' \in Publishing /\ p'.todo = p.todo /\ p'.cur = p.cur /\ p'.at = "objects"
  BY <1>2 DEF Goto, Typed, Publishing, Places
<1>6. Typed'
  BY <1>2, <1>3, <1>4, <1>5 DEF Typed, world
<1>7. ConstructsOnce'
  BY <1>3, <1>5, IdleFacts DEF ConstructsOnce
<1>8. SettlesPoweredOn'
  BY <1>2 DEF SettlesPoweredOn, Chassis, world
<1>9. Announced'
  BY <1>5 DEF Announced
<1> QED
  BY <1>6, <1>7, <1>8, <1>9

(* The world changes nothing of the daemon's but its queue.                *)
LEMMA WorldSteps ==
  ASSUME StatusInv, World
  PROVE  StatusInv'
<1> USE DEF StatusInv
<1>1. UNCHANGED <<p, r, watch, retry, timer, manager, blind, kind, has>>
  BY DEF World, EntityManagerAdds, ChassisAppears, PowerSwitches, EndpointChanges, AuthenticationFails, daemon
<1>2. /\ chassis' \in {"On", "Off"} /\ endpoint' \in [Devices -> BOOLEAN] /\ chassisObj' \in BOOLEAN
      /\ authLog' \in [Devices -> BOOLEAN] /\ configs' \subseteq Devices
  <2>1. CASE EntityManagerAdds
    BY <2>1 DEF EntityManagerAdds, Typed
  <2>2. CASE ChassisAppears
    BY <2>2 DEF ChassisAppears, Typed
  <2>3. CASE PowerSwitches
    BY <2>3 DEF PowerSwitches, Typed
  <2>4. CASE EndpointChanges
    BY <2>4 DEF EndpointChanges, Typed
  <2>5. CASE AuthenticationFails
    BY <2>5 DEF AuthenticationFails, Typed
  <2> QED
    BY <2>1, <2>2, <2>3, <2>4, <2>5 DEF World
<1>3. /\ sig' \in Seq(Signal) /\ (Unread => Unread')
      /\ configs' = configs \/ p.at = "main" \/ Unread'
  <2>1. CASE EntityManagerAdds
    <3>1. PICK d \in Devices : Emit(p.at # "main", "config", d)
      BY <2>1 DEF EntityManagerAdds
    <3> QED
      BY <3>1, EmitFacts
  <2>2. CASE ChassisAppears
    <3>1. Emit(retry, "chassis", "-") /\ configs' = configs
      BY <2>2 DEF ChassisAppears
    <3> QED
      BY <3>1, EmitFacts
  <2>3. CASE PowerSwitches
    <3>1. PICK a \in {"On", "Off"} : Emit(watch, "power", a)
      BY <1>2, <2>3 DEF PowerSwitches
    <3>2. configs' = configs
      BY <2>3 DEF PowerSwitches
    <3> QED
      BY <3>1, <3>2, EmitFacts
  <2>4. CASE EndpointChanges
    <3>1. PICK d \in Devices, w \in {"removed", "added"} : Emit(r[d].match, w, d)
      BY <2>4 DEF EndpointChanges
    <3>2. configs' = configs
      BY <2>4 DEF EndpointChanges
    <3> QED
      BY <3>1, <3>2, EmitFacts
  <2>5. CASE AuthenticationFails
    <3>1. PICK d \in Devices : Emit(r[d].log, "log", d)
      BY <2>5 DEF AuthenticationFails
    <3>2. configs' = configs
      BY <2>5 DEF AuthenticationFails
    <3> QED
      BY <3>1, <3>2, EmitFacts
  <2> QED
    BY <2>1, <2>2, <2>3, <2>4, <2>5 DEF World
<1>4. Typed'
  BY <1>1, <1>2, <1>3 DEF Typed
<1>5. ConstructsOnce' /\ SettlesPoweredOn'
  BY <1>1 DEF ConstructsOnce, SettlesPoweredOn, Chassis
<1>6. Announced'
  <2>1. \A d \in Devices : (Complete(d)' <=> Complete(d)) /\ (ByUsbPort(d)' <=> ByUsbPort(d))
    BY <1>1 DEF Complete, ByUsbPort
  <2>2. configs \subseteq Devices /\ configs' \subseteq Devices /\ blind \in BOOLEAN
    BY <1>2 DEF Typed
  <2> QED
    BY <1>1, <1>3, <2>1, <2>2 DEF Announced, Unread
<1> QED
  BY <1>4, <1>5, <1>6

(* Every step keeps the invariant.                                         *)
LEMMA StatusStep == StatusInv /\ [Next]_vars => StatusInv'
<1> SUFFICES ASSUME StatusInv, [Next]_vars PROVE StatusInv'
  OBVIOUS
<1>1. CASE Next
  BY <1>1, PublishSteps, ConstructionSteps, FinishStep, WatcherSteps, PowerEventSteps, EventSteps,
     ConfigStep, WorldSteps DEF Next, Daemon, OtherRefresh
<1>2. CASE UNCHANGED vars
  <2>1. UNCHANGED <<kind, has, configs, chassisObj, chassis, endpoint, authLog, sig, p, r, watch, retry,
                    timer, manager, blind>>
    BY <1>2 DEF vars, world
  <2>2. Typed' /\ ConstructsOnce' /\ SettlesPoweredOn'
    BY <2>1 DEF StatusInv, Typed, ConstructsOnce, SettlesPoweredOn, Chassis
  <2>3. Announced'
    BY <2>1 DEF StatusInv, Announced, Complete, ByUsbPort
  <2> QED
    BY <2>2, <2>3 DEF StatusInv
<1> QED
  BY <1>1, <1>2

(* StatusInv holds in every reachable state, for any set of devices: the   *)
(* settle windows have their timer, and every complete configuration has a *)
(* resource or a publish still to come, GPUs without their bus apart.      *)
THEOREM StatusInvariant == Spec => []StatusInv
  BY StatusInit, StatusStep, PTL DEF Spec

(* No resource is left in its power-on settle window without the timer     *)
(* that ends it (setPowerOnSettling), for any mix of devices.              *)
THEOREM SettleWindowsEnd == Spec => []SettlingHasTimer
<1>1. StatusInv => SettlingHasTimer
  BY DEF StatusInv, SettlesPoweredOn, SettlingHasTimer
<1> QED
  BY <1>1, StatusInvariant, PTL

(* publishDBusRecoveryObject misses no configuration, whenever it was      *)
(* added, as long as the calls that find configurations are answered; the  *)
(* GPUs it skips are those behind a USB port for which it found no bus.    *)
THEOREM EveryConfigIsPublished == Spec => []ConfigsPublished
<1>1. StatusInv => ConfigsPublished
  <2> SUFFICES ASSUME StatusInv, p.at = "idle", sig = <<>>, ~blind, NEW d \in configs, Complete(d)
               PROVE  r[d].made \/ (ByUsbPort(d) /\ d \in p.noBus)
    BY DEF ConfigsPublished
  <2>1. p.todo = {}
    BY IdleFacts
  <2>2. ~Unread
    BY DEF Unread
  <2> QED
    BY <2>1, <2>2 DEF StatusInv, Announced, Unread
<1> QED
  BY <1>1, StatusInvariant, PTL

-----------------------------------------------------------------------------
(* Health is current.  Signal i of the queue is about the endpoint of d,   *)
(* or about power.                                                         *)
AboutEndpoint(d, i) == sig[i].what \in {"added", "removed"} /\ sig[i].arg = d
AboutPower(i) == sig[i].what = "power"
EndpointPending(d) == \E i \in 1..Len(sig) : AboutEndpoint(d, i)
PowerPending == \E i \in 1..Len(sig) : AboutPower(i)

(* The newest signal about an endpoint, or about power, tells what is now: *)
(* its match was there, and stays.                                         *)
NewestTells ==
  /\ \A d \in Devices : \A i \in 1..Len(sig) : AboutEndpoint(d, i) =>
       /\ r[d].match
       /\ \/ \E j \in 1..Len(sig) : j > i /\ AboutEndpoint(d, j)
          \/ sig[i].what = (IF endpoint[d] THEN "added" ELSE "removed")
  /\ \A i \in 1..Len(sig) : AboutPower(i) =>
       /\ watch
       /\ \/ \E j \in 1..Len(sig) : j > i /\ AboutPower(j)
          \/ sig[i].arg = chassis

(* The endpoint matches are there before the query that counts on them,    *)
(* and one resource is constructed at a time.                              *)
Matched ==
  /\ \A d, e \in p.cur : d = e
  /\ \A d \in Devices : r[d].made => r[d].match
  /\ \A d \in p.cur : p.at \in {"query", "apply"} => r[d].match

(* A resource knows its endpoint, or the signal that tells it is queued,   *)
(* or it is a CPLD that missed the last change.                            *)
EndpointKnown ==
  ~blind => \A d \in Devices \ missed :
    (r[d].made \/ (d \in p.cur /\ p.at \in {"smamatch", "apply"})) =>
      (r[d].ep = endpoint[d] \/ EndpointPending(d))

(* Likewise the chassis power, from the re-read on; a resource that is not *)
(* on chassis power has no power state.                                    *)
PowerKnown ==
  /\ \A d \in Devices : ~Chassis(d) => r[d].power = ""
  /\ (~blind /\ watch /\ p.at # "reread" /\ ~PowerPending) =>
       /\ \A d \in Devices : r[d].made => r[d].power \in {chassis, ""}
       /\ p.at \in Constructing \cup {"mcu", "make"} => p.init \in {chassis, ""}

(* What a resource outside its settle window publishes fits what it knows. *)
Fits(d, x) ==
  /\ (x.state = "Enabled" /\ kind[d] # "FixedERoT") => x.ep
  /\ x.ep => \/ x.state = "Enabled" \/ x.auth
             \/ kind[d] \in {"ConnectX", "NVSwitch", "NVLinkMgmtNic"} \/ (kind[d] = "MCU" /\ ~x.mgr)
  /\ (x.power # "" /\ kind[d] \notin {"FixedERoT", "Cpld"}) => ((x.state = "Off") <=> (x.power = "Off" /\ ~x.ep))
StatesFit == \A d \in Devices : (r[d].made /\ ~r[d].settling) => Fits(d, r[d])

HealthInv == NewestTells /\ Matched /\ EndpointKnown /\ PowerKnown /\ StatesFit

(* The fields that updateHealth reads and leaves alone.                    *)
Same(y, x) ==
  /\ y.made = x.made /\ y.match = x.match /\ y.ep = x.ep /\ y.power = x.power /\ y.settling = x.settling

(* Outside a settle window updateHealth publishes what fits.               *)
LEMMA HealthFits ==
  ASSUME Typed, NEW d \in Devices, NEW x \in Resource, NEW ans, Chassis(d) \/ x.power = ""
  PROVE  LET y == updateHealth(d, x, ans)
         IN y \in Resource /\ Same(y, x) /\ (~x.settling => Fits(d, y))
<1> DEFINE y == updateHealth(d, x, ans)
<1>1. y \in Resource
  BY HealthKeeps
<1>2. PICK s : /\ y = [x EXCEPT !.state = s]
               /\ s = CASE kind[d] = "Gpu" -> gpuHealth(x, ans) [] kind[d] = "ConnectX" -> connectxHealth(x, ans)
                        [] kind[d] = "NVSwitch" -> nvswitchHealth(x, ans)
                        [] kind[d] = "NVLinkMgmtNic" -> nvlinkHealth(x, ans)
                        [] kind[d] = "USBRcm" -> usbRcmHealth(x, ans) [] kind[d] = "MCU" -> mcuHealth(x, ans)
                        [] kind[d] = "ERoT" -> erotHealth(x, ans) [] kind[d] = "Cpld" -> cpldHealth(x)
                        [] OTHER -> "Enabled"
  BY DEF updateHealth
<1>3. /\ Same(y, x) /\ y.state = s /\ y.auth = x.auth /\ y.mgr = x.mgr
  BY <1>2 DEF Same, Resource
<1>4. Fallback(x, ans) \notin {"Enabled", "Off"} /\ Lost(x) \notin {"Enabled", "Off"}
  BY DEF Fallback, Lost
<1>5. kind[d] \in Kinds
  BY DEF Typed
<1>6. ASSUME ~x.settling PROVE Fits(d, y)
  <2> HIDE DEF y
  <2> USE <1>3, <1>4, <1>6 DEF Fits, Same, isChassisPoweredOff
  <2>1. CASE kind[d] = "Gpu"
    BY <1>2, <2>1 DEF gpuHealth
  <2>2. CASE kind[d] \in {"ConnectX", "NVSwitch", "NVLinkMgmtNic"}
    <3>1. s = connectxHealth(x, ans)
      BY <1>2, <2>2 DEF nvswitchHealth, nvlinkHealth
    <3> QED
      BY <2>2, <3>1 DEF connectxHealth
  <2>3. CASE kind[d] = "USBRcm"
    BY <1>2, <2>3 DEF usbRcmHealth
  <2>4. CASE kind[d] = "MCU"
    BY <1>2, <2>4 DEF mcuHealth
  <2>5. CASE kind[d] = "ERoT"
    BY <1>2, <2>5 DEF erotHealth
  <2>6. CASE kind[d] = "Cpld"
    BY <1>2, <2>6 DEF cpldHealth
  <2>7. CASE kind[d] = "FixedERoT"
    BY <1>2, <2>7
  <2> QED
    BY <1>5, <2>1, <2>2, <2>3, <2>4, <2>5, <2>6, <2>7 DEF Kinds
<1> QED
  BY <1>1, <1>3, <1>6

(* A round of updateHealth over S.                                         *)
LEMMA RefreshFits ==
  ASSUME Typed, NEW S, NEW f \in [Devices -> Resource], NEW ans, NEW d \in Devices,
         Chassis(d) \/ f[d].power = ""
  PROVE  /\ Same(Refreshed(S, f, ans)[d], f[d])
         /\ (d \in S /\ ~f[d].settling) => Fits(d, Refreshed(S, f, ans)[d])
<1>1. LET y == updateHealth(d, f[d], ans[d])
      IN Same(y, f[d]) /\ (~f[d].settling => Fits(d, y))
  BY HealthFits
<1>2. Refreshed(S, f, ans)[d] = IF d \in S THEN updateHealth(d, f[d], ans[d]) ELSE f[d]
  BY DEF Refreshed
<1> QED
  BY <1>1, <1>2 DEF Same

(* The queue while nothing is sent or taken: matches stay installed.       *)
LEMMA QueueStays ==
  ASSUME NewestTells, UNCHANGED <<sig, endpoint, chassis>>, watch => watch',
         \A d \in Devices : r[d].match => r'[d].match
  PROVE  /\ NewestTells'
         /\ PowerPending' = PowerPending /\ \A d \in Devices : EndpointPending(d)' = EndpointPending(d)
<1>1. \A i : AboutPower(i)' = AboutPower(i) /\ \A d : AboutEndpoint(d, i)' = AboutEndpoint(d, i)
  BY DEF AboutPower, AboutEndpoint
<1>2. NewestTells'
  BY <1>1 DEF NewestTells
<1> QED
  BY <1>1, <1>2 DEF PowerPending, EndpointPending

(* A signal is taken: if it was the last about something, it tells what is *)
(* now.                                                                    *)
LEMMA QueueTaken ==
  ASSUME Typed, NewestTells, UNCHANGED <<endpoint, chassis>>, watch => watch',
         \A d \in Devices : r[d].match => r'[d].match,
         NEW m, Take(m)
  PROVE  /\ NewestTells'
         /\ (PowerPending /\ ~PowerPending') => m.what = "power" /\ m.arg = chassis
         /\ PowerPending' => PowerPending
         /\ \A d \in Devices :
              /\ EndpointPending(d)' => EndpointPending(d)
              /\ (EndpointPending(d) /\ ~EndpointPending(d)') =>
                    m.arg = d /\ m.what = (IF endpoint[d] THEN "added" ELSE "removed")
<1>1. sig \in Seq(Signal) /\ sig # <<>> /\ m = Head(sig) /\ sig' = Tail(sig)
  BY DEF Typed, Take
<1>2. /\ Len(sig) \in Nat /\ Len(sig') = Len(sig) - 1 /\ m = sig[1] /\ Len(sig) > 0
      /\ \A i \in 1..Len(sig') : sig'[i] = sig[i + 1]
  BY <1>1
<1>3. /\ \A i \in 1..Len(sig') : i + 1 \in 1..Len(sig) /\ (AboutPower(i)' <=> AboutPower(i + 1))
      /\ \A i \in 1..Len(sig') : \A d \in Devices : AboutEndpoint(d, i)' <=> AboutEndpoint(d, i + 1)
  BY <1>2 DEF AboutPower, AboutEndpoint
<1>4. \A i \in 1..Len(sig) : i # 1 => i - 1 \in 1..Len(sig') /\ (i - 1) + 1 = i
  BY <1>2
<1>5. ASSUME NEW d \in Devices, NEW i \in 1..Len(sig'), AboutEndpoint(d, i)'
      PROVE  /\ r'[d].match
             /\ \/ \E j \in 1..Len(sig') : j > i /\ AboutEndpoint(d, j)'
                \/ sig'[i].what = (IF endpoint'[d] THEN "added" ELSE "removed")
  <2>1. AboutEndpoint(d, i + 1) /\ i + 1 \in 1..Len(sig) /\ sig'[i] = sig[i + 1]
    BY <1>2, <1>3, <1>5
  <2>2. CASE \E j \in 1..Len(sig) : j > i + 1 /\ AboutEndpoint(d, j)
    <3>1. PICK j \in 1..Len(sig) : j > i + 1 /\ AboutEndpoint(d, j)
      BY <2>2
    <3>2. j - 1 \in 1..Len(sig') /\ j - 1 > i /\ AboutEndpoint(d, j - 1)'
      BY <1>2, <1>3, <1>4, <3>1
    <3> QED
      BY <2>1, <3>2 DEF NewestTells
  <2>3. CASE ~ \E j \in 1..Len(sig) : j > i + 1 /\ AboutEndpoint(d, j)
    BY <2>1, <2>3 DEF NewestTells
  <2> QED
    BY <2>2, <2>3
<1>6. ASSUME NEW i \in 1..Len(sig'), AboutPower(i)'
      PROVE  /\ watch'
             /\ \/ \E j \in 1..Len(sig') : j > i /\ AboutPower(j)'
                \/ sig'[i].arg = chassis'
  <2>1. AboutPower(i + 1) /\ i + 1 \in 1..Len(sig) /\ sig'[i] = sig[i + 1]
    BY <1>2, <1>3, <1>6
  <2>2. CASE \E j \in 1..Len(sig) : j > i + 1 /\ AboutPower(j)
    <3>1. PICK j \in 1..Len(sig) : j > i + 1 /\ AboutPower(j)
      BY <2>2
    <3>2. j - 1 \in 1..Len(sig') /\ j - 1 > i /\ AboutPower(j - 1)'
      BY <1>2, <1>3, <1>4, <3>1
    <3> QED
      BY <2>1, <3>2 DEF NewestTells
  <2>3. CASE ~ \E j \in 1..Len(sig) : j > i + 1 /\ AboutPower(j)
    BY <2>1, <2>3 DEF NewestTells
  <2> QED
    BY <2>2, <2>3
<1>7. NewestTells'
  BY <1>5, <1>6 DEF NewestTells
<1>8. /\ PowerPending' => PowerPending
      /\ \A d \in Devices : EndpointPending(d)' => EndpointPending(d)
  BY <1>3 DEF PowerPending, EndpointPending
<1>9. ASSUME PowerPending, ~PowerPending' PROVE m.what = "power" /\ m.arg = chassis
  <2>1. ASSUME NEW i \in 1..Len(sig), AboutPower(i) PROVE i = 1
    <3> SUFFICES ASSUME i # 1 PROVE FALSE
      OBVIOUS
    <3>1. i - 1 \in 1..Len(sig') /\ (i - 1) + 1 = i
      BY <1>4
    <3>2. AboutPower(i - 1)'
      BY <1>3, <2>1, <3>1
    <3> QED
      BY <1>9, <3>1, <3>2 DEF PowerPending
  <2>2. AboutPower(1) /\ 1 \in 1..Len(sig)
    BY <1>2, <1>9, <2>1 DEF PowerPending
  <2>3. ~ \E j \in 1..Len(sig) : j > 1 /\ AboutPower(j)
    BY <2>1
  <2> QED
    BY <1>2, <2>2, <2>3 DEF NewestTells, AboutPower
<1>10. ASSUME NEW d \in Devices, EndpointPending(d), ~EndpointPending(d)'
       PROVE  m.arg = d /\ m.what = (IF endpoint[d] THEN "added" ELSE "removed")
  <2>1. ASSUME NEW i \in 1..Len(sig), AboutEndpoint(d, i) PROVE i = 1
    <3> SUFFICES ASSUME i # 1 PROVE FALSE
      OBVIOUS
    <3>1. i - 1 \in 1..Len(sig') /\ (i - 1) + 1 = i
      BY <1>4
    <3>2. AboutEndpoint(d, i - 1)'
      BY <1>3, <2>1, <3>1
    <3> QED
      BY <1>10, <3>1, <3>2 DEF EndpointPending
  <2>2. AboutEndpoint(d, 1) /\ 1 \in 1..Len(sig)
    BY <1>2, <1>10, <2>1 DEF EndpointPending
  <2>3. ~ \E j \in 1..Len(sig) : j > 1 /\ AboutEndpoint(d, j)
    BY <2>1
  <2> QED
    BY <1>2, <2>2, <2>3 DEF NewestTells, AboutEndpoint
<1> QED
  BY <1>7, <1>8, <1>9, <1>10

(* A signal is sent.                                                       *)
LEMMA QueueGrows ==
  ASSUME Typed, NEW m \in Signal, sig' = Append(sig, m)
  PROVE  \E n \in Nat :
           /\ n = Len(sig) /\ Len(sig') = n + 1 /\ sig'[n + 1] = m
           /\ \A i \in 1..Len(sig) :
                /\ i \in 1..Len(sig') /\ i < n + 1 /\ sig'[i] = sig[i] /\ AboutPower(i)' = AboutPower(i)
                /\ \A d \in Devices : AboutEndpoint(d, i)' = AboutEndpoint(d, i)
           /\ \A i \in 1..Len(sig') : i \in 1..Len(sig) \/ i = n + 1
<1>1. sig \in Seq(Signal) /\ Len(sig) \in Nat
  BY DEF Typed
<1>2. PICK n \in Nat : n = Len(sig)
  BY <1>1
<1>3. Len(sig') = n + 1 /\ sig'[n + 1] = m /\ \A i \in 1..Len(sig) : sig'[i] = sig[i]
  BY <1>1, <1>2
<1>4. ASSUME NEW i \in 1..Len(sig)
      PROVE  /\ i \in 1..Len(sig') /\ i < n + 1 /\ sig'[i] = sig[i] /\ AboutPower(i)' = AboutPower(i)
             /\ \A d \in Devices : AboutEndpoint(d, i)' = AboutEndpoint(d, i)
  BY <1>2, <1>3 DEF AboutPower, AboutEndpoint
<1>5. \A i \in 1..Len(sig') : i \in 1..Len(sig) \/ i = n + 1
  BY <1>2, <1>3
<1> QED
  BY <1>2, <1>3, <1>4, <1>5

(* The world changes an endpoint, power or something else, and says so if  *)
(* the match is there.                                                     *)
LEMMA WorldTells ==
  ASSUME Typed, NewestTells, UNCHANGED <<r, watch>>, NEW b \in BOOLEAN, NEW m \in Signal,
         sig' = IF b THEN Append(sig, m) ELSE sig,
         chassis' = chassis \/ (m.what = "power" /\ m.arg = chassis' /\ b = watch),
         \A d \in Devices : endpoint'[d] = endpoint[d]
           \/ /\ m.what = (IF endpoint'[d] THEN "added" ELSE "removed") /\ m.arg = d /\ b = r[d].match,
         m.what = "power" => b = watch /\ m.arg = chassis',
         m.what \in {"added", "removed"} =>
           \E d \in Devices : m.arg = d /\ b = r[d].match /\ m.what = (IF endpoint'[d] THEN "added" ELSE "removed")
  PROVE  /\ NewestTells'
         /\ PowerPending => PowerPending'
         /\ (chassis' # chassis /\ watch) => PowerPending'
         /\ \A d \in Devices :
              /\ EndpointPending(d) => EndpointPending(d)'
              /\ (endpoint'[d] # endpoint[d] /\ r[d].match) => EndpointPending(d)'
<1>1. CASE b
  <2>1. PICK n \in Nat :
           /\ n = Len(sig) /\ Len(sig') = n + 1 /\ sig'[n + 1] = m
           /\ \A i \in 1..Len(sig) :
                /\ i \in 1..Len(sig') /\ i < n + 1 /\ sig'[i] = sig[i] /\ AboutPower(i)' = AboutPower(i)
                /\ \A d \in Devices : AboutEndpoint(d, i)' = AboutEndpoint(d, i)
           /\ \A i \in 1..Len(sig') : i \in 1..Len(sig) \/ i = n + 1
    BY <1>1, QueueGrows
  <2>2. n + 1 \in 1..Len(sig') /\ (AboutPower(n + 1)' <=> m.what = "power")
    BY <2>1 DEF AboutPower
  <2>3. \A d \in Devices : AboutEndpoint(d, n + 1)' <=> m.what \in {"added", "removed"} /\ m.arg = d
    BY <2>1 DEF AboutEndpoint
  <2>4. ASSUME NEW d \in Devices, NEW i \in 1..Len(sig'), AboutEndpoint(d, i)'
        PROVE  /\ r'[d].match
               /\ \/ \E j \in 1..Len(sig') : j > i /\ AboutEndpoint(d, j)'
                  \/ sig'[i].what = (IF endpoint'[d] THEN "added" ELSE "removed")
    <3>1. CASE i = n + 1
      <4>1. m.what \in {"added", "removed"} /\ m.arg = d
        BY <2>3, <2>4, <3>1
      <4>2. r[d].match = b /\ m.what = (IF endpoint'[d] THEN "added" ELSE "removed")
        BY <4>1
      <4> QED
        BY <1>1, <2>1, <3>1, <4>2
    <3>2. CASE i \in 1..Len(sig)
      <4>1. AboutEndpoint(d, i) /\ sig'[i] = sig[i] /\ n + 1 > i
        BY <2>1, <2>4, <3>2
      <4>2. r[d].match
        BY <3>2, <4>1 DEF NewestTells
      <4>3. CASE \E j \in 1..Len(sig) : j > i /\ AboutEndpoint(d, j)
        BY <2>1, <4>2, <4>3
      <4>4. CASE sig[i].what = (IF endpoint[d] THEN "added" ELSE "removed")
        <5>1. CASE endpoint'[d] = endpoint[d]
          BY <4>1, <4>2, <4>4, <5>1
        <5>2. CASE endpoint'[d] # endpoint[d]
          BY <2>2, <2>3, <4>1, <4>2, <5>2
        <5> QED
          BY <5>1, <5>2
      <4> QED
        BY <3>2, <4>1, <4>3, <4>4 DEF NewestTells
    <3> QED
      BY <2>1, <3>1, <3>2
  <2>5. ASSUME NEW i \in 1..Len(sig'), AboutPower(i)'
        PROVE  /\ watch'
               /\ \/ \E j \in 1..Len(sig') : j > i /\ AboutPower(j)'
                  \/ sig'[i].arg = chassis'
    <3>1. CASE i = n + 1
      BY <1>1, <2>1, <2>2, <2>5, <3>1
    <3>2. CASE i \in 1..Len(sig)
      <4>1. AboutPower(i) /\ sig'[i] = sig[i] /\ n + 1 > i
        BY <2>1, <2>5, <3>2
      <4>2. watch
        BY <3>2, <4>1 DEF NewestTells
      <4>3. CASE \E j \in 1..Len(sig) : j > i /\ AboutPower(j)
        BY <2>1, <4>2, <4>3
      <4>4. CASE sig[i].arg = chassis
        <5>1. CASE chassis' = chassis
          BY <4>1, <4>2, <4>4, <5>1
        <5>2. CASE chassis' # chassis
          BY <2>2, <4>1, <4>2, <5>2
        <5> QED
          BY <5>1, <5>2
      <4> QED
        BY <3>2, <4>1, <4>3, <4>4 DEF NewestTells
    <3> QED
      BY <2>1, <3>1, <3>2
  <2>6. NewestTells'
    BY <2>4, <2>5 DEF NewestTells
  <2>7. (PowerPending => PowerPending') /\ \A d \in Devices : EndpointPending(d) => EndpointPending(d)'
    BY <2>1 DEF PowerPending, EndpointPending
  <2>8. /\ (chassis' # chassis /\ watch) => PowerPending'
        /\ \A d \in Devices : (endpoint'[d] # endpoint[d] /\ r[d].match) => EndpointPending(d)'
    BY <2>2, <2>3 DEF PowerPending, EndpointPending
  <2> QED
    BY <2>6, <2>7, <2>8
<1>2. CASE ~b
  <2>1. /\ sig' = sig /\ (watch => chassis' = chassis)
        /\ \A d \in Devices : r[d].match => endpoint'[d] = endpoint[d]
    BY <1>2
  <2>2. \A i : AboutPower(i)' = AboutPower(i) /\ \A d : AboutEndpoint(d, i)' = AboutEndpoint(d, i)
    BY <2>1 DEF AboutPower, AboutEndpoint
  <2>3. NewestTells'
    BY <2>1, <2>2 DEF NewestTells
  <2> QED
    BY <2>1, <2>2, <2>3 DEF PowerPending, EndpointPending
<1> QED
  BY <1>1, <1>2

(* The initial states.                                                     *)
LEMMA HealthInit == Init => HealthInv
<1> SUFFICES ASSUME Init PROVE HealthInv
  OBVIOUS
<1>1. /\ sig = <<>> /\ p.cur = {} /\ ~watch /\ p.at = "main"
      /\ \A d \in Devices : ~r[d].made /\ r[d].power = ""
  BY DEF Init, NewResource
<1>2. 1..Len(sig) = {}
  <2>1. sig = <<>>
    BY <1>1
  <2>2. Len(sig) = 0
    BY <2>1
  <2> QED
    BY <2>2
<1>3. NewestTells
  BY <1>2 DEF NewestTells
<1> QED
  BY <1>1, <1>3 DEF HealthInv, Matched, EndpointKnown, PowerKnown, StatesFit

(* Steps of publish between the resources.                                 *)
LEMMA HealthPublish ==
  ASSUME StatusInv, StatusInv', HealthInv,
         \/ CheckEntityManager \/ checkForRecoveryConfigEMObjects \/ PublishObjects \/ PublishPower
         \/ getMCUConfig \/ (\E d \in Devices : Construct(d) \/ NoI2CBus(d)) \/ PublishDone
  PROVE  HealthInv'
<1> USE DEF HealthInv
<1>1. UNCHANGED <<r, sig, watch, kind, has, chassis, endpoint, missed>>
  BY DEF CheckEntityManager, checkForRecoveryConfigEMObjects, PublishObjects, PublishPower, getMCUConfig,
         Construct, NoI2CBus, PublishDone, world
<1>2. p \in Publishing /\ (p.at \notin Constructing => p.cur = {})
  BY DEF StatusInv, Typed, ConstructsOnce
<1>3. /\ blind => blind'
      /\ p.at # "reread"
      /\ \A d, e \in p'.cur : d = e
      /\ p'.cur # {} => p'.at \in {"log", "match"}
      /\ p'.at \in Constructing \cup {"mcu", "make"} =>
           p'.init \in {chassis, ""} \/ (p'.init = p.init /\ p.at \in {"mcu", "make"})
  <2>1. CASE CheckEntityManager \/ checkForRecoveryConfigEMObjects \/ PublishObjects
    <3>1. p.cur = {} /\ p.at # "reread"
      BY <1>2, <2>1 DEF CheckEntityManager, checkForRecoveryConfigEMObjects, PublishObjects, Constructing
    <3>2. p'.cur = p.cur /\ p'.at \in {"look", "idle", "objects", "power"}
      BY <1>2, <2>1 DEF CheckEntityManager, checkForRecoveryConfigEMObjects, PublishObjects, Goto, Publishing
    <3>3. blind => blind'
      BY <2>1 DEF CheckEntityManager, checkForRecoveryConfigEMObjects, PublishObjects, Answered, Fails
    <3> QED
      BY <3>1, <3>2, <3>3 DEF Constructing
  <2>2. CASE PublishPower \/ getMCUConfig \/ PublishDone
    <3>1. p.cur = {} /\ p.at \in {"power", "mcu", "make"} /\ blind' = blind
      BY <1>2, <2>2 DEF PublishPower, getMCUConfig, PublishDone, Answered, Constructing
    <3>2. p'.cur = p.cur
      BY <1>2, <2>2 DEF PublishPower, getMCUConfig, PublishDone, Goto, Publishing
    <3>3. CASE PublishPower
      <4>1. PICK v \in {chassis, ""} : p' = [p EXCEPT !.at = "mcu", !.init = v]
        BY <3>3 DEF PublishPower
      <4>2. p'.init = v
        BY <1>2, <4>1 DEF Publishing
      <4> QED
        BY <3>1, <3>2, <4>2
    <3>4. CASE getMCUConfig
      BY <1>2, <3>1, <3>2, <3>4 DEF getMCUConfig, Goto, Publishing
    <3>5. CASE PublishDone
      <4>1. p'.init = ""
        BY <1>2, <3>5 DEF PublishDone, Publishing
      <4> QED
        BY <3>1, <3>2, <4>1
    <3> QED
      BY <2>2, <3>3, <3>4, <3>5
  <2>3. CASE \E d \in Devices : Construct(d)
    <3>1. PICK d \in Devices : Construct(d)
      BY <2>3
    <3>2. p.at = "make" /\ p.cur = {} /\ blind' = blind
      BY <1>2, <3>1 DEF Construct, Answered, Constructing
    <3>3. \/ p' = [p EXCEPT !.at = IF kind[d] = "Cpld" THEN "log" ELSE "match", !.cur = {d}]
          \/ p' = [p EXCEPT !.todo = @ \ {d}]
      BY <3>1 DEF Construct
    <3>4. CASE p' = [p EXCEPT !.at = IF kind[d] = "Cpld" THEN "log" ELSE "match", !.cur = {d}]
      <4>1. p'.at \in {"log", "match"} /\ p'.cur = {d} /\ p'.init = p.init
        BY <1>2, <3>4 DEF Publishing
      <4> QED
        BY <3>2, <4>1
    <3>5. CASE p' = [p EXCEPT !.todo = @ \ {d}]
      <4>1. p'.at = p.at /\ p'.cur = p.cur /\ p'.init = p.init
        BY <1>2, <3>5 DEF Publishing
      <4> QED
        BY <3>2, <4>1
    <3> QED
      BY <3>3, <3>4, <3>5
  <2>4. CASE \E d \in Devices : NoI2CBus(d)
    <3>1. PICK d \in Devices : NoI2CBus(d)
      BY <2>4
    <3>2. p.at = "make" /\ p.cur = {} /\ blind' = blind
      BY <1>2, <3>1 DEF NoI2CBus, Constructing
    <3>3. p' = [p EXCEPT !.todo = @ \ {d}, !.noBus = @ \cup {d}]
      BY <3>1 DEF NoI2CBus
    <3>4. p'.cur = p.cur /\ p'.init = p.init /\ p'.at = p.at
      BY <1>2, <3>3 DEF Publishing
    <3> QED
      BY <3>2, <3>4
  <2> QED
    BY <2>1, <2>2, <2>3, <2>4
<1>4. NewestTells' /\ PowerPending' = PowerPending /\ \A d \in Devices : EndpointPending(d)' = EndpointPending(d)
  BY <1>1, QueueStays
<1>5. p'.cur # {} => p'.at \notin {"query", "apply", "smamatch"}
  BY <1>3
<1>6. Matched'
  BY <1>1, <1>3, <1>5 DEF Matched
<1>7. EndpointKnown'
  BY <1>1, <1>3, <1>4, <1>5 DEF EndpointKnown
<1>8. PowerKnown'
  BY <1>1, <1>3, <1>4 DEF PowerKnown, Chassis
<1>9. StatesFit'
  BY <1>1 DEF StatesFit, Fits
<1> QED
  BY <1>4, <1>6, <1>7, <1>8, <1>9

(* Matches and queries: the query of an endpoint comes after its matches,  *)
(* or, for a CPLD, a change between the two makes it miss the endpoint.    *)
LEMMA HealthConstruction ==
  ASSUME StatusInv, StatusInv', HealthInv, MonitorEndpoint \/ monitorCpld
  PROVE  HealthInv'
<1> USE DEF HealthInv
<1>1. UNCHANGED <<sig, watch, kind, has, chassis, endpoint, missed>>
  BY DEF MonitorEndpoint, monitorCpld, world
<1>2. p \in Publishing /\ r \in [Devices -> Resource]
  BY DEF StatusInv, Typed
<1>3. PICK d \in p.cur :
        \/ p.at = "match" /\ Goto("query") /\ Answered /\ r' = [r EXCEPT ![d].match = TRUE]
        \/ p.at = "query" /\ Goto("apply") /\ Answered
           /\ r' = [r EXCEPT ![d].ep = endpoint[d], ![d].once = endpoint[d]]
        \/ p.at = "query" /\ Goto("apply") /\ Fails /\ r' = r
        \/ p.at = "log" /\ Goto("logscan") /\ Answered /\ r' = [r EXCEPT ![d].log = TRUE]
        \/ p.at = "logscan" /\ Goto("sma") /\ Answered /\ r' = [r EXCEPT ![d].auth = authLog[d]]
        \/ p.at = "logscan" /\ Goto("sma") /\ Fails /\ r' = r
        \/ p.at = "sma" /\ Goto("smamatch") /\ Answered
           /\ r' = [r EXCEPT ![d].ep = endpoint[d], ![d].once = endpoint[d]]
        \/ p.at = "sma" /\ Goto("smamatch") /\ Fails /\ r' = r
        \/ p.at = "smamatch" /\ Goto("apply") /\ Answered /\ r' = [r EXCEPT ![d].match = TRUE]
  BY DEF MonitorEndpoint, monitorMCTPEndpoint, monitorCpld
<1>4. d \in Devices /\ ~r[d].made /\ (\A e \in p.cur : e = d)
  BY <1>2 DEF StatusInv, ConstructsOnce, Publishing, Matched
<1>5. p'.cur = p.cur /\ p'.init = p.init /\ p.at \in Constructing /\ p'.at \in Constructing /\ (blind => blind')
  BY <1>2, <1>3 DEF Goto, Publishing, Answered, Fails, Constructing
<1>6. r[d] \in Resource /\ (p.at = "query" => r[d].match)
  BY <1>2, <1>4 DEF Matched
<1>7. /\ \A e \in Devices \ {d} : r'[e] = r[e]
      /\ r'[d].made = r[d].made /\ r'[d].power = r[d].power
      /\ r[d].match => r'[d].match
      /\ p'.at \in {"query", "apply"} => r'[d].match
      /\ (p'.at \in {"smamatch", "apply"} /\ ~blind') =>
            r'[d].ep = endpoint[d] \/ (p.at = "smamatch" /\ r'[d].ep = r[d].ep)
  <2>1. CASE Goto("query") \/ (p.at = "smamatch" /\ Goto("apply"))
    <3>1. r' = [r EXCEPT ![d].match = TRUE]
      BY <1>2, <1>3, <2>1 DEF Goto, Publishing
    <3>2. r'[d] = [r[d] EXCEPT !.match = TRUE] /\ \A e \in Devices \ {d} : r'[e] = r[e]
      BY <1>2, <1>4, <3>1
    <3>3. p'.at = "query" \/ p.at = "smamatch"
      BY <1>2, <2>1 DEF Goto, Publishing
    <3> QED
      BY <1>6, <3>2, <3>3 DEF Resource
  <2>2. CASE Answered /\ p.at \in {"query", "sma"}
    <3>2. r' = [r EXCEPT ![d].ep = endpoint[d], ![d].once = endpoint[d]] \/ (blind' = TRUE /\ r' = r)
      BY <1>3, <2>2 DEF Fails
    <3>3. CASE r' = [r EXCEPT ![d].ep = endpoint[d], ![d].once = endpoint[d]]
      <4>1. r'[d] = [r[d] EXCEPT !.ep = endpoint[d], !.once = endpoint[d]] /\ \A e \in Devices \ {d} : r'[e] = r[e]
        BY <1>2, <1>4, <3>3
      <4>2. p'.at = "apply" => p.at = "query"
        BY <1>2, <1>3, <2>2 DEF Goto, Publishing
      <4>3. p'.at # "query"
        BY <1>2, <1>3, <2>2 DEF Goto, Publishing
      <4> QED
        BY <1>6, <4>1, <4>2, <4>3 DEF Resource
    <3>4. CASE blind' = TRUE /\ r' = r
      <4>1. p'.at = "apply" => p.at = "query"
        BY <1>2, <1>3, <2>2 DEF Goto, Publishing
      <4>2. p'.at # "query"
        BY <1>2, <1>3, <2>2 DEF Goto, Publishing
      <4> QED
        BY <1>6, <3>4, <4>1, <4>2
    <3> QED
      BY <3>2, <3>3, <3>4
  <2>3. CASE Fails /\ p.at \in {"query", "sma", "logscan"} /\ r' = r
    <3>1. p'.at = "apply" => p.at = "query"
      BY <1>2, <1>3, <2>3 DEF Goto, Publishing
    <3>2. p'.at # "query"
      BY <1>2, <1>3, <2>3 DEF Goto, Publishing
    <3> QED
      BY <1>6, <2>3, <3>1, <3>2 DEF Fails
  <2>4. CASE p.at \in {"log", "logscan"}
    <3>1. p'.at \in {"logscan", "sma"}
      BY <1>2, <1>3, <2>4 DEF Goto, Publishing
    <3>2. r' = [r EXCEPT ![d].log = TRUE] \/ r' = [r EXCEPT ![d].auth = authLog[d]] \/ r' = r
      BY <1>3, <2>4
    <3>3. /\ r'[d] = [r[d] EXCEPT !.log = TRUE] \/ r'[d] = [r[d] EXCEPT !.auth = authLog[d]] \/ r'[d] = r[d]
          /\ \A e \in Devices \ {d} : r'[e] = r[e]
      BY <1>2, <1>4, <3>2
    <3>4. r'[d].made = r[d].made /\ r'[d].power = r[d].power /\ r'[d].match = r[d].match
      BY <1>6, <3>3 DEF Resource
    <3> QED
      BY <3>1, <3>3, <3>4
  <2> QED
    BY <1>3, <2>1, <2>2, <2>3, <2>4
<1>8. /\ NewestTells'
      /\ PowerPending' = PowerPending /\ \A e \in Devices : EndpointPending(e)' = EndpointPending(e)
  <2>1. \A e \in Devices : r[e].match => r'[e].match
    BY <1>7
  <2> QED
    BY <1>1, <2>1, QueueStays
<1>9. Matched'
  <2>1. \A e \in Devices : r'[e].made => r'[e].match
    BY <1>4, <1>7 DEF Matched
  <2> QED
    BY <1>4, <1>5, <1>7, <2>1 DEF Matched
<1>10. EndpointKnown'
  <2> SUFFICES ASSUME ~blind', NEW e \in Devices, e \notin missed,
                      r'[e].made \/ (e \in p'.cur /\ p'.at \in {"smamatch", "apply"})
               PROVE  r'[e].ep = endpoint'[e] \/ EndpointPending(e)'
    BY <1>1 DEF EndpointKnown
  <2>1. CASE e = d
    <3>1. p'.at \in {"smamatch", "apply"}
      BY <1>4, <1>7, <2>1
    <3>2. CASE r'[d].ep = endpoint[d]
      BY <1>1, <2>1, <3>2
    <3>3. CASE p.at = "smamatch" /\ r'[d].ep = r[d].ep
      <4>1. ~blind
        BY <1>5
      <4> QED
        BY <1>1, <1>4, <1>8, <2>1, <3>3, <4>1 DEF EndpointKnown
    <3> QED
      BY <1>7, <3>1, <3>2, <3>3
  <2>2. CASE e # d
    <3>1. r'[e] = r[e] /\ e \notin p'.cur /\ ~blind
      BY <1>4, <1>5, <1>7, <2>2
    <3> QED
      BY <1>1, <1>8, <3>1 DEF EndpointKnown
  <2> QED
    BY <2>1, <2>2
<1>11. \A e \in Devices : r'[e].power = r[e].power /\ r'[e].made = r[e].made
  BY <1>7
<1>12. PowerKnown'
  <2>1. p.at # "reread"
    BY <1>5 DEF Constructing
  <2> QED
    BY <1>1, <1>5, <1>8, <1>11, <2>1 DEF PowerKnown, Chassis
<1>13. StatesFit'
  BY <1>1, <1>4, <1>7, ZenonT(40) DEF StatesFit, Fits
<1> QED
  BY <1>8, <1>9, <1>10, <1>12, <1>13

(* The resource is finished with the power state that publish read, which  *)
(* is what the chassis has unless a signal says otherwise.                 *)
LEMMA HealthFinish ==
  ASSUME StatusInv, StatusInv', HealthInv, applyChassisConnectionAndRefresh
  PROVE  HealthInv'
<1> USE DEF HealthInv
<1>0. PICK d \in p.cur : \E ans \in Probe[d] :
        /\ r' = [r EXCEPT ![d] = updateHealth(d, Connected(d), ans)]
        /\ p' = [p EXCEPT !.at = "make", !.todo = @ \ {d}, !.cur = {}]
  BY DEF applyChassisConnectionAndRefresh
<1>1. PICK ans \in Probe[d] :
        /\ r' = [r EXCEPT ![d] = updateHealth(d, Connected(d), ans)]
        /\ p' = [p EXCEPT !.at = "make", !.todo = @ \ {d}, !.cur = {}]
  BY <1>0
<1>2. p.at = "apply" /\ UNCHANGED <<sig, watch, blind, kind, has, chassis, endpoint, missed>>
  BY DEF applyChassisConnectionAndRefresh, Answered, world
<1>3. Typed /\ p \in Publishing /\ r \in [Devices -> Resource] /\ d \in Devices /\ r[d] \in Resource
  BY DEF StatusInv, Typed, Publishing
<1>4. /\ Connected(d) \in Resource /\ Connected(d).made /\ Connected(d).match /\ Connected(d).ep = r[d].ep
      /\ Connected(d).power = IF Chassis(d) THEN p.init ELSE r[d].power
  BY <1>2, <1>3 DEF Connected, Resource, Typed, Publishing, Matched
<1>5. Chassis(d) \/ Connected(d).power = ""
  BY <1>3, <1>4 DEF PowerKnown
<1> DEFINE y == updateHealth(d, Connected(d), ans)
<1>6. y \in Resource /\ Same(y, Connected(d)) /\ (~Connected(d).settling => Fits(d, y))
  BY <1>3, <1>4, <1>5, HealthFits
<1>7. r'[d] = y /\ \A e \in Devices \ {d} : r'[e] = r[e]
  BY <1>1, <1>3
<1> HIDE DEF y
<1>8. /\ r'[d].made /\ r'[d].match /\ r'[d].ep = r[d].ep /\ (~r'[d].settling => Fits(d, r'[d]))
      /\ r'[d].power = IF Chassis(d) THEN p.init ELSE r[d].power
  BY <1>4, <1>6, <1>7 DEF Same
<1>9. p'.cur = {} /\ p'.at = "make" /\ p'.init = p.init
  BY <1>1, <1>3 DEF Publishing
<1>10. /\ NewestTells'
       /\ PowerPending' = PowerPending /\ \A e \in Devices : EndpointPending(e)' = EndpointPending(e)
  <2>1. \A e \in Devices : r[e].match => r'[e].match
    BY <1>7, <1>8
  <2> QED
    BY <1>2, <2>1, QueueStays
<1>11. Matched'
  <2>1. \A e \in Devices : r'[e].made => r'[e].match
    BY <1>7, <1>8 DEF Matched
  <2> QED
    BY <1>9, <2>1 DEF Matched
<1>12. EndpointKnown'
  <2> SUFFICES ASSUME ~blind', NEW e \in Devices, e \notin missed, r'[e].made
               PROVE  r'[e].ep = endpoint'[e] \/ EndpointPending(e)'
    BY <1>2, <1>9 DEF EndpointKnown
  <2>1. r[e].ep = endpoint[e] \/ EndpointPending(e)
    BY <1>2, <1>7 DEF EndpointKnown
  <2> QED
    BY <1>2, <1>7, <1>8, <1>10, <2>1
<1>13. PowerKnown'
  <2>1. \A e \in Devices : ~Chassis(e)' => r'[e].power = ""
    BY <1>2, <1>7, <1>8 DEF PowerKnown, Chassis
  <2>2. ASSUME ~blind', watch', ~PowerPending'
        PROVE  /\ \A e \in Devices : r'[e].made => r'[e].power \in {chassis, ""}
               /\ p.init \in {chassis, ""}
    <3>1. /\ \A e \in Devices : r[e].made => r[e].power \in {chassis, ""}
          /\ p.init \in {chassis, ""}
      BY <1>2, <1>10, <2>2 DEF PowerKnown, Constructing
    <3>2. ~Chassis(d) => r[d].power = ""
      BY <1>3 DEF PowerKnown
    <3> QED
      BY <1>7, <1>8, <3>1, <3>2
  <2> QED
    BY <1>2, <1>9, <2>1, <2>2 DEF PowerKnown
<1>14. StatesFit'
  BY <1>2, <1>7, <1>8, ZenonT(40) DEF StatesFit, Fits
<1> QED
  BY <1>10, <1>11, <1>12, <1>13, <1>14

(* The power match is installed, and power is read again after it.         *)
LEMMA HealthWatcher ==
  ASSUME StatusInv, StatusInv', HealthInv,
         startCentralizedPowerStateWatcher \/ armCentralizedPowerStateWatcherRetry
  PROVE  HealthInv'
<1> USE DEF HealthInv
<1>1. UNCHANGED <<sig, r, kind, has, chassis, endpoint, missed, blind>>
  BY DEF startCentralizedPowerStateWatcher, armCentralizedPowerStateWatcherRetry, Answered, world
<1>2. p \in Publishing /\ watch \in BOOLEAN
  BY DEF StatusInv, Typed
<1>3. /\ p.at \in {"watch", "arm"} /\ p'.at \in {"reread", "idle", "arm", "watch"}
      /\ watch' = watch \/ (watch' = TRUE /\ p'.at = "reread")
  <2>1. CASE startCentralizedPowerStateWatcher
    BY <1>2, <2>1 DEF startCentralizedPowerStateWatcher, Goto, Publishing
  <2>2. CASE armCentralizedPowerStateWatcherRetry
    BY <1>2, <2>2 DEF armCentralizedPowerStateWatcherRetry, Publishing
  <2> QED
    BY <2>1, <2>2
<1>4. /\ p'.at \notin Constructing /\ p'.cur = {} /\ p'.at \notin {"mcu", "make"}
      /\ p.at # "reread"
  BY <1>3 DEF StatusInv, ConstructsOnce, Constructing
<1>5. /\ NewestTells'
      /\ PowerPending' = PowerPending /\ \A e \in Devices : EndpointPending(e)' = EndpointPending(e)
  BY <1>1, <1>3, QueueStays
<1>6. Matched' /\ EndpointKnown'
  BY <1>1, <1>4, <1>5 DEF Matched, EndpointKnown
<1>7. PowerKnown'
  <2>1. \A d \in Devices : ~Chassis(d)' => r'[d].power = ""
    BY <1>1 DEF PowerKnown, Chassis
  <2>2. ASSUME ~blind', watch', p'.at # "reread", ~PowerPending'
        PROVE  \A d \in Devices : r'[d].made => r'[d].power \in {chassis', ""}
    BY <1>1, <1>3, <1>4, <1>5, <2>2 DEF PowerKnown
  <2> QED
    BY <1>4, <2>1, <2>2 DEF PowerKnown
<1>8. StatesFit'
  BY <1>1 DEF StatesFit, Fits
<1> QED
  BY <1>5, <1>6, <1>7, <1>8

(* A power state reaches every resource on chassis power; power-off is     *)
(* published at once, power-on opens the settle window.                    *)
LEMMA PowerFits ==
  ASSUME StatusInv, HealthInv, UNCHANGED kind, NEW v \in {"On", "Off"}, NEW ans,
         reconcileChassisPowerState(v, ans) \/ PowerChanged(v, ans)
  PROVE  /\ \A d \in Devices :
              /\ r'[d].made = r[d].made /\ r'[d].match = r[d].match /\ r'[d].ep = r[d].ep
              /\ (r[d].made /\ Chassis(d)) => r'[d].power = v
              /\ ~Chassis(d) => r'[d].power = r[d].power
         /\ StatesFit'
<1>0. Typed /\ r \in [Devices -> Resource]
  BY DEF StatusInv, Typed
<1>1. PICK S : /\ S = Stale(v) \/ S = {d \in Made : Chassis(d)}
               /\ r' = IF v = "Off" THEN Refreshed(S, Cached(S, v), ans) ELSE Cached(S, v)
  <2>1. CASE reconcileChassisPowerState(v, ans)
    <3> WITNESS Stale(v)
    <3> QED
      BY <2>1 DEF reconcileChassisPowerState, Cached
  <2>2. CASE PowerChanged(v, ans)
    <3> WITNESS {d \in Made : Chassis(d)}
    <3> QED
      BY <2>2 DEF PowerChanged, Cached
  <2> QED
    BY <2>1, <2>2
<1>2. ASSUME NEW d \in Devices
      PROVE  /\ d \in S => r[d].made /\ Chassis(d)
             /\ d \notin S => ~r[d].made \/ ~Chassis(d) \/ r[d].power = v
  BY <1>1 DEF Stale, Made
<1>3. Cached(S, v) \in [Devices -> Resource]
  BY <1>0, CachedFacts
<1>4. ASSUME NEW d \in Devices
      PROVE  LET y == Cached(S, v)[d] IN
             /\ y.made = r[d].made /\ y.match = r[d].match /\ y.ep = r[d].ep
             /\ d \in S => y.power = v /\ (y.settling <=> v = "On")
             /\ d \notin S => y = r[d]
  <2>1. r[d] \in Resource
    BY <1>0
  <2>2. Cached(S, v)[d] = IF d \in S THEN [r[d] EXCEPT !.power = v, !.settling = (v = "On")] ELSE r[d]
    BY DEF Cached
  <2> QED
    BY <2>1, <2>2 DEF Resource
<1>5. \A d \in Devices : Chassis(d) \/ Cached(S, v)[d].power = ""
  BY <1>2, <1>4 DEF HealthInv, PowerKnown
<1>6. ASSUME NEW d \in Devices
      PROVE  /\ r'[d].made = r[d].made /\ r'[d].match = r[d].match /\ r'[d].ep = r[d].ep
             /\ d \in S => r'[d].power = v /\ (r'[d].settling \/ Fits(d, r'[d]))
             /\ d \notin S => r'[d] = r[d]
  <2>1. CASE v = "On"
    BY <1>1, <1>4, <2>1
  <2>2. CASE v = "Off"
    <3>1. r' = Refreshed(S, Cached(S, v), ans)
      BY <1>1, <2>2
    <3>2. /\ Same(r'[d], Cached(S, v)[d])
          /\ (d \in S /\ ~Cached(S, v)[d].settling) => Fits(d, r'[d])
          /\ d \notin S => r'[d] = Cached(S, v)[d]
      <4> DEFINE y == Refreshed(S, Cached(S, v), ans)[d]
      <4>1. /\ Same(y, Cached(S, v)[d])
            /\ (d \in S /\ ~Cached(S, v)[d].settling) => Fits(d, y)
            /\ d \notin S => y = Cached(S, v)[d]
        <5>1. Cached(S, v)[d] \in Resource /\ (Chassis(d) \/ Cached(S, v)[d].power = "")
          BY <1>3, <1>5
        <5>2. Same(y, Cached(S, v)[d]) /\ ((d \in S /\ ~Cached(S, v)[d].settling) => Fits(d, y))
          BY <1>0, <1>3, <5>1, RefreshFits
        <5>3. d \notin S => y = Cached(S, v)[d]
          BY DEF Refreshed
        <5> QED
          BY <5>2, <5>3
      <4> QED
        BY <3>1, <4>1
    <3> QED
      BY <1>4, <2>2, <3>2 DEF Same
  <2> QED
    BY <2>1, <2>2
<1>7. StatesFit'
  <2> SUFFICES ASSUME NEW d \in Devices, r'[d].made, ~r'[d].settling PROVE Fits(d, r[d])'
    BY DEF StatesFit
  <2>1. Fits(d, r'[d])
    BY <1>6 DEF HealthInv, StatesFit
  <2> QED
    BY <2>1 DEF Fits
<1> QED
  BY <1>2, <1>6, <1>7

(* The settle windows end, and their resources publish what fits.          *)
LEMMA TimerFits ==
  ASSUME StatusInv, HealthInv, refreshChassisPoweredResourcesHealth
  PROVE  /\ \A d \in Devices : /\ r'[d].made = r[d].made /\ r'[d].match = r[d].match
                               /\ r'[d].ep = r[d].ep /\ r'[d].power = r[d].power
         /\ StatesFit'
<1>0. Typed /\ r \in [Devices -> Resource] /\ kind' = kind
  BY DEF StatusInv, Typed, refreshChassisPoweredResourcesHealth, world
<1> DEFINE S == {d \in Made : Chassis(d)}
           f == [d \in Devices |-> IF d \in S THEN [r[d] EXCEPT !.settling = FALSE] ELSE r[d]]
<1>1. PICK ans : r' = Refreshed(S, f, ans)
  BY DEF refreshChassisPoweredResourcesHealth
<1>2. ASSUME NEW d \in Devices
      PROVE  LET y == [r[d] EXCEPT !.settling = FALSE]
             IN /\ y \in Resource /\ ~y.settling
                /\ y.made = r[d].made /\ y.match = r[d].match /\ y.ep = r[d].ep /\ y.power = r[d].power
  <2>1. r[d] \in Resource
    BY <1>0
  <2> QED
    BY <2>1 DEF Resource
<1>3. /\ f \in [Devices -> Resource]
      /\ \A d \in Devices :
           /\ f[d].made = r[d].made /\ f[d].match = r[d].match /\ f[d].ep = r[d].ep /\ f[d].power = r[d].power
           /\ d \in S => ~f[d].settling
           /\ d \notin S => f[d] = r[d]
  BY <1>0, <1>2
<1> HIDE DEF f, S
<1>4. \A d \in Devices : Chassis(d) \/ f[d].power = ""
  BY <1>3 DEF HealthInv, PowerKnown
<1>5. ASSUME NEW d \in Devices
      PROVE  /\ Same(r'[d], f[d])
             /\ (d \in S /\ ~f[d].settling) => Fits(d, r'[d])
             /\ d \notin S => r'[d] = f[d]
  <2> DEFINE y == Refreshed(S, f, ans)[d]
  <2>1. /\ Same(y, f[d])
        /\ (d \in S /\ ~f[d].settling) => Fits(d, y)
        /\ d \notin S => y = f[d]
    <3>1. f[d] \in Resource /\ (Chassis(d) \/ f[d].power = "")
      BY <1>3, <1>4
    <3>2. Same(y, f[d]) /\ ((d \in S /\ ~f[d].settling) => Fits(d, y))
      BY <1>0, <1>3, <3>1, RefreshFits
    <3>3. d \notin S => y = f[d]
      BY DEF Refreshed
    <3> QED
      BY <3>2, <3>3
  <2> QED
    BY <1>1, <2>1
<1>6. StatesFit'
  <2> SUFFICES ASSUME NEW d \in Devices, r'[d].made, ~r'[d].settling PROVE Fits(d, r[d])'
    BY DEF StatesFit
  <2>1. Fits(d, r'[d])
    BY <1>3, <1>5 DEF HealthInv, StatesFit
  <2> QED
    BY <1>0, <2>1 DEF Fits
<1> QED
  BY <1>3, <1>5, <1>6 DEF Same

(* One resource takes something in and updates its health.                 *)
LEMMA OneFits ==
  ASSUME StatusInv, HealthInv, UNCHANGED kind, NEW d \in Devices, NEW ans, NEW x \in Resource,
         x.made = r[d].made, x.match = r[d].match, x.power = r[d].power, x.settling = r[d].settling,
         r' = [r EXCEPT ![d] = updateHealth(d, x, ans)]
  PROVE  /\ \A e \in Devices :
              /\ r'[e].made = r[e].made /\ r'[e].match = r[e].match /\ r'[e].power = r[e].power
              /\ e # d => r'[e].ep = r[e].ep
         /\ r'[d].ep = x.ep
         /\ StatesFit'
<1>1. Typed /\ r \in [Devices -> Resource] /\ (Chassis(d) \/ x.power = "")
  BY DEF StatusInv, Typed, HealthInv, PowerKnown
<1> DEFINE y == updateHealth(d, x, ans)
<1>2. Same(y, x) /\ (~x.settling => Fits(d, y))
  BY <1>1, HealthFits
<1>3. r'[d] = y /\ \A e \in Devices \ {d} : r'[e] = r[e]
  BY <1>1
<1> HIDE DEF y
<1>4. StatesFit'
  <2> SUFFICES ASSUME NEW e \in Devices, r'[e].made, ~r'[e].settling PROVE Fits(e, r[e])'
    BY DEF StatesFit
  <2>1. Fits(e, r'[e])
    BY <1>2, <1>3 DEF HealthInv, StatesFit, Same
  <2> QED
    BY <2>1 DEF Fits
<1> QED
  BY <1>2, <1>3, <1>4 DEF Same

(* What is left of the invariant once the loop is reached, or another      *)
(* round of publish starts.                                                *)
LEMMA HealthAtLoop ==
  ASSUME StatusInv', HealthInv, UNCHANGED <<kind, has, chassis, endpoint, missed, watch>>, blind => blind',
         p'.at \notin Constructing \cup {"mcu", "make"},
         \A d \in Devices :
           /\ r'[d].made = r[d].made /\ r'[d].match = r[d].match
           /\ ~Chassis(d) => r'[d].power = r[d].power,
         (~blind' /\ watch' /\ p'.at # "reread" /\ ~PowerPending') =>
           \A d \in Devices : r[d].made => r'[d].power \in {chassis, ""},
         ~blind' => \A d \in Devices :
           (r[d].ep = endpoint[d] \/ EndpointPending(d)) => (r'[d].ep = endpoint[d] \/ EndpointPending(d)')
  PROVE  Matched' /\ EndpointKnown' /\ PowerKnown'
<1> USE DEF HealthInv
<1>1. p'.cur = {}
  BY DEF StatusInv, ConstructsOnce
<1>2. Matched'
  BY <1>1 DEF Matched
<1>3. EndpointKnown'
  BY <1>1 DEF EndpointKnown
<1>4. PowerKnown'
  BY <1>1 DEF PowerKnown, Chassis
<1> QED
  BY <1>2, <1>3, <1>4

(* A power state is read, signalled, or has settled.                       *)
LEMMA HealthPower ==
  ASSUME StatusInv, StatusInv', HealthInv, RereadPower \/ OnPower \/ refreshChassisPoweredResourcesHealth
  PROVE  HealthInv'
<1> USE DEF HealthInv
<1>1. UNCHANGED <<kind, has, chassis, endpoint, missed, watch>> /\ (blind => blind')
  <2>1. UNCHANGED <<kind, has, chassis, endpoint, missed, watch>>
    BY DEF RereadPower, OnPower, refreshChassisPoweredResourcesHealth, world
  <2>2. Answered \/ Fails
    BY DEF RereadPower, OnPower, Take, refreshChassisPoweredResourcesHealth
  <2> QED
    BY <2>1, <2>2 DEF Answered, Fails
<1>2. /\ p \in Publishing /\ r \in [Devices -> Resource] /\ Typed /\ chassis \in {"On", "Off"}
      /\ \A d \in Devices : ~Chassis(d) => r[d].power = ""
  BY DEF StatusInv, Typed, PowerKnown
<1>3. p'.at = "idle" /\ p'.at \notin Constructing \cup {"mcu", "make"}
  BY <1>2 DEF RereadPower, OnPower, Take, refreshChassisPoweredResourcesHealth, Goto, Publishing, Constructing
<1>4. CASE RereadPower
  <2>1. sig' = sig
    BY <1>4 DEF RereadPower
  <2>2. CASE Fails /\ UNCHANGED <<r, timer>>
    <3>1. blind' /\ r' = r
      BY <2>2 DEF Fails
    <3>2. NewestTells'
      BY <1>1, <2>1, <3>1, QueueStays
    <3>3. StatesFit'
      BY <1>1, <3>1 DEF StatesFit, Fits
    <3> QED
      BY <1>1, <1>3, <3>1, <3>2, <3>3, HealthAtLoop
  <2>3. CASE Answered /\ \E ans \in Probes : reconcileChassisPowerState(chassis, ans)
    <3>1. PICK v \in {"On", "Off"}, ans \in Probes : v = chassis /\ reconcileChassisPowerState(v, ans)
      BY <1>2, <2>3
    <3>2. /\ \A d \in Devices :
               /\ r'[d].made = r[d].made /\ r'[d].match = r[d].match /\ r'[d].ep = r[d].ep
               /\ (r[d].made /\ Chassis(d)) => r'[d].power = v
               /\ ~Chassis(d) => r'[d].power = r[d].power
          /\ StatesFit'
      BY <1>1, <3>1, PowerFits
    <3>3. /\ NewestTells'
          /\ PowerPending' = PowerPending /\ \A d \in Devices : EndpointPending(d)' = EndpointPending(d)
      BY <1>1, <2>1, <3>2, QueueStays
    <3>4. \A d \in Devices : r[d].made => r'[d].power \in {chassis, ""}
      BY <1>2, <3>1, <3>2
    <3>5. Matched' /\ EndpointKnown' /\ PowerKnown'
      BY <1>1, <1>3, <3>2, <3>3, <3>4, HealthAtLoop
    <3> QED
      BY <3>2, <3>3, <3>5
  <2> QED
    BY <1>4, <2>2, <2>3 DEF RereadPower
<1>5. CASE OnPower
  <2>1. PICK v \in {"On", "Off"}, ans \in Probes : Take([what |-> "power", arg |-> v]) /\ PowerChanged(v, ans)
    BY <1>5 DEF OnPower
  <2>2. /\ \A d \in Devices :
             /\ r'[d].made = r[d].made /\ r'[d].match = r[d].match /\ r'[d].ep = r[d].ep
             /\ (r[d].made /\ Chassis(d)) => r'[d].power = v
             /\ ~Chassis(d) => r'[d].power = r[d].power
        /\ StatesFit'
    BY <1>1, <2>1, PowerFits
  <2> DEFINE m == [what |-> "power", arg |-> v]
  <2>3. Take(m) /\ m.what = "power" /\ m.arg = v
    BY <2>1
  <2> HIDE DEF m
  <2>4. /\ NewestTells'
        /\ (PowerPending /\ ~PowerPending') => m.arg = chassis
        /\ \A d \in Devices : EndpointPending(d) => EndpointPending(d)'
    BY <1>1, <1>2, <2>2, <2>3, QueueTaken
  <2>5. PowerPending
    <3>1. sig \in Seq(Signal) /\ sig # <<>> /\ m = Head(sig)
      BY <1>2, <2>3 DEF Take, Typed
    <3>2. 1 \in 1..Len(sig) /\ sig[1] = m
      BY <3>1
    <3> QED
      BY <2>3, <3>2 DEF PowerPending, AboutPower
  <2>6. ~PowerPending' => \A d \in Devices : r[d].made => r'[d].power \in {chassis, ""}
    BY <1>2, <2>2, <2>3, <2>4, <2>5
  <2>7. Matched' /\ EndpointKnown' /\ PowerKnown'
    BY <1>1, <1>3, <2>2, <2>4, <2>6, HealthAtLoop
  <2> QED
    BY <2>2, <2>4, <2>7
<1>6. CASE refreshChassisPoweredResourcesHealth
  <2>1. /\ \A d \in Devices : /\ r'[d].made = r[d].made /\ r'[d].match = r[d].match
                              /\ r'[d].ep = r[d].ep /\ r'[d].power = r[d].power
        /\ StatesFit'
    BY <1>6, TimerFits
  <2>2. p' = p /\ p.at = "idle" /\ sig' = sig /\ blind' = blind
    BY <1>6 DEF refreshChassisPoweredResourcesHealth, Answered
  <2>3. /\ NewestTells'
        /\ PowerPending' = PowerPending /\ \A d \in Devices : EndpointPending(d)' = EndpointPending(d)
    BY <1>1, <2>1, <2>2, QueueStays
  <2>4. (~blind' /\ watch' /\ ~PowerPending') => \A d \in Devices : r[d].made => r'[d].power \in {chassis, ""}
    BY <1>1, <2>1, <2>2, <2>3 DEF PowerKnown
  <2>5. Matched' /\ EndpointKnown' /\ PowerKnown'
    BY <1>1, <1>3, <2>1, <2>3, <2>4, HealthAtLoop
  <2> QED
    BY <2>1, <2>3, <2>5
<1> QED
  BY <1>4, <1>5, <1>6

(* Endpoint and log signals.                                               *)
LEMMA HealthEvents ==
  ASSUME StatusInv, StatusInv', HealthInv, OnEndpointAdded \/ OnEndpointRemoved \/ OnLogEntry
  PROVE  HealthInv'
<1> USE DEF HealthInv
<1>1. UNCHANGED <<kind, has, chassis, endpoint, missed, watch, p>>
  BY DEF OnEndpointAdded, OnEndpointRemoved, OnLogEntry, world
<1>2. r \in [Devices -> Resource] /\ endpoint \in [Devices -> BOOLEAN] /\ Typed
  BY DEF StatusInv, Typed
<1>3. PICK d \in Devices, w \in {"added", "removed", "log"} :
        /\ Take([what |-> w, arg |-> d])
        /\ \A e \in Devices :
             /\ r'[e].made = r[e].made /\ r'[e].match = r[e].match /\ r'[e].power = r[e].power
             /\ e # d => r'[e].ep = r[e].ep
        /\ r'[d].ep = IF w = "added" THEN TRUE ELSE IF w = "removed" THEN FALSE ELSE r[d].ep
        /\ StatesFit'
  <2>1. CASE OnEndpointAdded
    <3>1. PICK d \in Devices, ans \in Answers :
            /\ Take([what |-> "added", arg |-> d])
            /\ r' = [r EXCEPT ![d] = updateHealth(d, [r[d] EXCEPT !.ep = TRUE, !.once = TRUE], ans)]
      BY <2>1, FwStatusAssumption DEF OnEndpointAdded
    <3> DEFINE x == [r[d] EXCEPT !.ep = TRUE, !.once = TRUE]
    <3>2. r[d] \in Resource
      BY <1>2
    <3>3. /\ x \in Resource /\ x.made = r[d].made /\ x.match = r[d].match /\ x.power = r[d].power
          /\ x.settling = r[d].settling /\ x.ep = TRUE
      BY <3>2 DEF Resource
    <3>4. /\ \A e \in Devices :
               /\ r'[e].made = r[e].made /\ r'[e].match = r[e].match /\ r'[e].power = r[e].power
               /\ e # d => r'[e].ep = r[e].ep
          /\ r'[d].ep = x.ep
          /\ StatesFit'
      <4> HIDE DEF x
      <4>1. r' = [r EXCEPT ![d] = updateHealth(d, x, ans)]
        BY <3>1 DEF x
      <4> QED
        BY <1>1, <3>3, <4>1, OneFits
    <3> QED
      BY <3>1, <3>3, <3>4
  <2>2. CASE OnEndpointRemoved
    <3>1. PICK d \in Devices, ans \in Answers :
            /\ Take([what |-> "removed", arg |-> d])
            /\ r' = IF r[d].ep THEN [r EXCEPT ![d] = updateHealth(d, [r[d] EXCEPT !.ep = FALSE], ans)] ELSE r
      BY <2>2, FwStatusAssumption DEF OnEndpointRemoved
    <3>2. r[d] \in Resource
      BY <1>2
    <3>3. CASE r[d].ep
      <4> DEFINE x == [r[d] EXCEPT !.ep = FALSE]
      <4>1. /\ x \in Resource /\ x.made = r[d].made /\ x.match = r[d].match /\ x.power = r[d].power
            /\ x.settling = r[d].settling /\ x.ep = FALSE
        BY <3>2 DEF Resource
      <4>2. /\ \A e \in Devices :
                 /\ r'[e].made = r[e].made /\ r'[e].match = r[e].match /\ r'[e].power = r[e].power
                 /\ e # d => r'[e].ep = r[e].ep
            /\ r'[d].ep = x.ep
            /\ StatesFit'
        <5> HIDE DEF x
        <5>1. r' = [r EXCEPT ![d] = updateHealth(d, x, ans)]
          BY <3>1, <3>3 DEF x
        <5> QED
          BY <1>1, <4>1, <5>1, OneFits
      <4> QED
        BY <3>1, <4>1, <4>2
    <3>4. CASE ~r[d].ep
      <4>1. r' = r /\ r[d].ep = FALSE
        BY <3>1, <3>2, <3>4 DEF Resource
      <4>2. StatesFit'
        BY <1>1, <4>1 DEF StatesFit, Fits
      <4> QED
        BY <3>1, <4>1, <4>2
    <3> QED
      BY <3>3, <3>4
  <2>3. CASE OnLogEntry
    <3>1. PICK d \in Devices :
            /\ Take([what |-> "log", arg |-> d])
            /\ r' = [r EXCEPT ![d] = updateHealth(d, [r[d] EXCEPT !.auth = TRUE], "fail")]
      BY <2>3 DEF OnLogEntry
    <3> DEFINE x == [r[d] EXCEPT !.auth = TRUE]
    <3>2. r[d] \in Resource
      BY <1>2
    <3>3. /\ x \in Resource /\ x.made = r[d].made /\ x.match = r[d].match /\ x.power = r[d].power
          /\ x.settling = r[d].settling /\ x.ep = r[d].ep
      BY <3>2 DEF Resource
    <3>4. /\ \A e \in Devices :
               /\ r'[e].made = r[e].made /\ r'[e].match = r[e].match /\ r'[e].power = r[e].power
               /\ e # d => r'[e].ep = r[e].ep
          /\ r'[d].ep = x.ep
          /\ StatesFit'
      <4> HIDE DEF x
      <4>1. r' = [r EXCEPT ![d] = updateHealth(d, x, "fail")]
        BY <3>1 DEF x
      <4> QED
        BY <1>1, <3>3, <4>1, OneFits
    <3> QED
      BY <3>1, <3>3, <3>4
  <2> QED
    BY <2>1, <2>2, <2>3
<1>4. p.at = "idle" /\ blind' = blind
  BY <1>3 DEF Take, Answered
<1> DEFINE m == [what |-> w, arg |-> d]
<1>5. Take(m) /\ m.what = w /\ m.arg = d
  BY <1>3
<1> HIDE DEF m
<1>6. /\ NewestTells'
      /\ (PowerPending /\ ~PowerPending') => m.what = "power"
      /\ \A e \in Devices : (EndpointPending(e) /\ ~EndpointPending(e)') =>
            m.arg = e /\ m.what = (IF endpoint[e] THEN "added" ELSE "removed")
  BY <1>1, <1>2, <1>3, <1>5, QueueTaken
<1>7. w \in {"added", "removed"} => EndpointPending(d)
  <2>1. sig \in Seq(Signal) /\ sig # <<>> /\ m = Head(sig)
    BY <1>2, <1>5 DEF Take, Typed
  <2>2. 1 \in 1..Len(sig) /\ sig[1] = m
    BY <2>1
  <2> QED
    BY <1>5, <2>2 DEF EndpointPending, AboutEndpoint
<1>8. ASSUME NEW e \in Devices, r[e].ep = endpoint[e] \/ EndpointPending(e)
      PROVE  r'[e].ep = endpoint[e] \/ EndpointPending(e)'
  <2>1. CASE e # d
    BY <1>3, <1>5, <1>6, <1>8, <2>1
  <2>2. CASE e = d /\ w = "log"
    BY <1>3, <1>5, <1>6, <1>8, <2>2
  <2>3. CASE e = d /\ w # "log"
    <3>1. EndpointPending(d)' \/ w = (IF endpoint[d] THEN "added" ELSE "removed")
      BY <1>5, <1>6, <1>7, <2>3
    <3>2. r'[d].ep = (w = "added") /\ endpoint[d] \in BOOLEAN
      BY <1>2, <1>3, <2>3
    <3> QED
      BY <2>3, <3>1, <3>2
  <2> QED
    BY <2>1, <2>2, <2>3
<1>9. (~blind' /\ watch' /\ ~PowerPending') => \A e \in Devices : r[e].made => r'[e].power \in {chassis, ""}
  BY <1>1, <1>3, <1>4, <1>5, <1>6 DEF PowerKnown
<1>10. p'.at \notin Constructing \cup {"mcu", "make"}
  BY <1>1, <1>4 DEF Constructing
<1>11. Matched' /\ EndpointKnown' /\ PowerKnown'
  BY <1>1, <1>3, <1>4, <1>8, <1>9, <1>10, HealthAtLoop
<1> QED
  BY <1>3, <1>6, <1>11

(* Another round of publish, or another try to watch the chassis.          *)
LEMMA HealthRounds ==
  ASSUME StatusInv, StatusInv', HealthInv, OnConfig \/ OnChassisObject
  PROVE  HealthInv'
<1> USE DEF HealthInv
<1>1. UNCHANGED <<kind, has, chassis, endpoint, missed, watch, r>>
  BY DEF OnConfig, OnChassisObject, world
<1>2. p \in Publishing /\ Typed
  BY DEF StatusInv, Typed
<1>3. PICK m : Take(m) /\ m.what \in {"config", "chassis"}
  <2>1. CASE OnConfig
    <3>1. PICK d \in Devices : Take([what |-> "config", arg |-> d])
      BY <2>1 DEF OnConfig
    <3> QED
      BY <3>1
  <2>2. CASE OnChassisObject
    BY <2>2 DEF OnChassisObject
  <2> QED
    BY <2>1, <2>2
<1>4. p.at = "idle" /\ blind' = blind
  BY <1>3 DEF Take, Answered
<1>5. p'.at \in {"objects", "watch", "idle"}
  BY <1>2, <1>4 DEF OnConfig, OnChassisObject, Goto, Publishing
<1>6. p'.at \notin Constructing \cup {"mcu", "make"}
  BY <1>5 DEF Constructing
<1>7. /\ NewestTells'
      /\ PowerPending => PowerPending'
      /\ \A e \in Devices : EndpointPending(e) => EndpointPending(e)'
  BY <1>1, <1>2, <1>3, QueueTaken
<1>8. (~blind' /\ watch' /\ ~PowerPending') => \A e \in Devices : r[e].made => r'[e].power \in {chassis, ""}
  BY <1>1, <1>4, <1>7 DEF PowerKnown
<1>9. StatesFit'
  BY <1>1 DEF StatesFit, Fits
<1>10. Matched' /\ EndpointKnown' /\ PowerKnown'
  BY <1>1, <1>4, <1>6, <1>7, <1>8, HealthAtLoop
<1> QED
  BY <1>7, <1>9, <1>10

(* Refreshes of other causes.                                              *)
LEMMA HealthRefreshes ==
  ASSUME StatusInv, StatusInv', HealthInv, OtherRefresh
  PROVE  HealthInv'
<1> USE DEF HealthInv
<1>1. Typed /\ r \in [Devices -> Resource]
  BY DEF StatusInv, Typed
<1>2. UNCHANGED <<kind, has, chassis, endpoint, missed, watch, p, sig, blind>>
  BY <1>1, RefreshSteps DEF world
<1>3. p.at = "idle"
  BY DEF OtherRefresh, OnGpuSma, OnConnectXSma, OnNVSwitchSma, OnNVLinkSma, handleUdevEvent,
         refreshAllResourceHealth, RefreshOne
<1>4. /\ \A d \in Devices : /\ r'[d].made = r[d].made /\ r'[d].match = r[d].match
                            /\ r'[d].ep = r[d].ep /\ r'[d].power = r[d].power
      /\ StatesFit'
  <2>1. CASE refreshAllResourceHealth
    <3>1. PICK ans : r' = Refreshed(Made, r, ans)
      BY <2>1 DEF refreshAllResourceHealth
    <3>2. ASSUME NEW d \in Devices
          PROVE  /\ Same(r'[d], r[d])
                 /\ (d \in Made /\ ~r[d].settling) => Fits(d, r'[d])
      <4>1. Chassis(d) \/ r[d].power = ""
        BY DEF PowerKnown
      <4>2. /\ Same(Refreshed(Made, r, ans)[d], r[d])
            /\ (d \in Made /\ ~r[d].settling) => Fits(d, Refreshed(Made, r, ans)[d])
        BY <1>1, <4>1, RefreshFits
      <4> QED
        BY <3>1, <4>2
    <3>3. StatesFit'
      <4> SUFFICES ASSUME NEW d \in Devices, r'[d].made, ~r'[d].settling PROVE Fits(d, r[d])'
        BY DEF StatesFit
      <4>1. Fits(d, r'[d])
        BY <3>2 DEF Same, Made
      <4> QED
        BY <1>2, <4>1 DEF Fits
    <3> QED
      BY <3>2, <3>3 DEF Same
  <2>2. CASE \E d \in Devices : RefreshOne(d)
    <3>1. PICK d \in Devices : RefreshOne(d)
      BY <2>2
    <3>2. PICK ans : r' = [r EXCEPT ![d] = updateHealth(d, r[d], ans)]
      BY <3>1 DEF RefreshOne
    <3>3. PICK x \in Resource : x = r[d]
      BY <1>1
    <3>4. r' = [r EXCEPT ![d] = updateHealth(d, x, ans)]
      BY <3>2, <3>3
    <3>5. /\ \A e \in Devices :
               /\ r'[e].made = r[e].made /\ r'[e].match = r[e].match /\ r'[e].power = r[e].power
               /\ e # d => r'[e].ep = r[e].ep
          /\ r'[d].ep = x.ep
          /\ StatesFit'
      BY <1>2, <3>3, <3>4, OneFits, ZenonT(40)
    <3> QED
      BY <3>3, <3>5
  <2> QED
    BY <2>1, <2>2 DEF OtherRefresh, OnGpuSma, OnConnectXSma, OnNVSwitchSma, OnNVLinkSma, handleUdevEvent
<1>5. /\ NewestTells'
      /\ PowerPending' = PowerPending /\ \A d \in Devices : EndpointPending(d)' = EndpointPending(d)
  BY <1>2, <1>4, QueueStays
<1>6. p'.at \notin Constructing \cup {"mcu", "make"}
  BY <1>2, <1>3 DEF Constructing
<1>7. (~blind' /\ watch' /\ ~PowerPending') => \A d \in Devices : r[d].made => r'[d].power \in {chassis, ""}
  BY <1>2, <1>3, <1>4, <1>5 DEF PowerKnown
<1>8. Matched' /\ EndpointKnown' /\ PowerKnown'
  BY <1>2, <1>4, <1>5, <1>6, <1>7, HealthAtLoop
<1> QED
  BY <1>4, <1>5, <1>8

(* The world: what changes is told, or nobody counts on it yet, or a CPLD  *)
(* misses it between its query and its matches.                            *)
LEMMA HealthWorld ==
  ASSUME StatusInv, StatusInv', HealthInv, World
  PROVE  HealthInv'
<1> USE DEF HealthInv
<1>1. UNCHANGED <<p, r, watch, blind, kind, has>>
  BY DEF World, EntityManagerAdds, ChassisAppears, PowerSwitches, EndpointChanges, AuthenticationFails, daemon
<1>2. Typed /\ Typed' /\ r \in [Devices -> Resource] /\ endpoint \in [Devices -> BOOLEAN]
  BY DEF StatusInv, Typed
<1>3. PICK b \in BOOLEAN, m \in Signal :
        /\ sig' = IF b THEN Append(sig, m) ELSE sig
        /\ chassis' = chassis \/ (m.what = "power" /\ m.arg = chassis' /\ b = watch)
        /\ \A d \in Devices : endpoint'[d] = endpoint[d]
             \/ /\ m.what = (IF endpoint'[d] THEN "added" ELSE "removed") /\ m.arg = d /\ b = r[d].match
        /\ m.what = "power" => b = watch /\ m.arg = chassis'
        /\ m.what \in {"added", "removed"} =>
             \E d \in Devices : m.arg = d /\ b = r[d].match /\ m.what = (IF endpoint'[d] THEN "added" ELSE "removed")
  <2>1. CASE EntityManagerAdds
    <3>1. PICK d \in Devices : Emit(p.at # "main", "config", d)
      BY <2>1 DEF EntityManagerAdds
    <3>2. UNCHANGED <<chassis, endpoint>>
      BY <2>1 DEF EntityManagerAdds
    <3> DEFINE m == [what |-> "config", arg |-> d]
    <3>3. m \in Signal /\ m.what = "config" /\ (p.at # "main") \in BOOLEAN
      BY DEF Signal
    <3>4. sig' = IF p.at # "main" THEN Append(sig, m) ELSE sig
      BY <3>1 DEF Emit
    <3> HIDE DEF m
    <3> QED
      BY <3>2, <3>3, <3>4
  <2>2. CASE ChassisAppears
    <3>1. Emit(retry, "chassis", "-") /\ UNCHANGED <<chassis, endpoint>>
      BY <2>2 DEF ChassisAppears
    <3> DEFINE m == [what |-> "chassis", arg |-> "-"]
    <3>2. m \in Signal /\ m.what = "chassis" /\ retry \in BOOLEAN
      BY <1>2 DEF Signal, Typed
    <3>3. sig' = IF retry THEN Append(sig, m) ELSE sig
      BY <3>1 DEF Emit
    <3> HIDE DEF m
    <3> QED
      BY <3>1, <3>2, <3>3
  <2>3. CASE PowerSwitches
    <3>1. Emit(watch, "power", chassis') /\ UNCHANGED endpoint
      BY <2>3 DEF PowerSwitches
    <3>2. PICK v \in {"On", "Off"} : v = chassis'
      BY <1>2 DEF Typed
    <3> DEFINE m == [what |-> "power", arg |-> v]
    <3>3. m \in Signal /\ m.what = "power" /\ m.arg = chassis' /\ watch \in BOOLEAN
      BY <1>2, <3>2 DEF Signal, Typed
    <3>4. sig' = IF watch THEN Append(sig, m) ELSE sig
      BY <3>1, <3>2 DEF Emit
    <3> HIDE DEF m
    <3> QED
      BY <3>1, <3>3, <3>4
  <2>4. CASE EndpointChanges
    <3>1. PICK d \in Devices :
            /\ endpoint' = [endpoint EXCEPT ![d] = ~@]
            /\ Emit(r[d].match, IF endpoint[d] THEN "removed" ELSE "added", d)
      BY <2>4 DEF EndpointChanges
    <3>2. /\ endpoint'[d] = ~endpoint[d] /\ endpoint[d] \in BOOLEAN /\ r[d].match \in BOOLEAN
          /\ \A e \in Devices \ {d} : endpoint'[e] = endpoint[e]
      BY <1>2, <3>1 DEF Resource
    <3>3. PICK w \in {"added", "removed"} : w = (IF endpoint'[d] THEN "added" ELSE "removed")
      OBVIOUS
    <3> DEFINE m == [what |-> w, arg |-> d]
    <3>4. m \in Signal /\ m.what = w /\ m.arg = d
      BY DEF Signal
    <3>5. w = (IF endpoint[d] THEN "removed" ELSE "added")
      BY <3>2, <3>3
    <3>6. sig' = IF r[d].match THEN Append(sig, m) ELSE sig
      BY <3>1, <3>5 DEF Emit
    <3>7. chassis' = chassis
      BY <2>4 DEF EndpointChanges
    <3> HIDE DEF m
    <3>8. /\ chassis' = chassis \/ (m.what = "power" /\ m.arg = chassis' /\ r[d].match = watch)
          /\ m.what # "power"
          /\ \A e \in Devices : endpoint'[e] = endpoint[e]
               \/ /\ m.what = (IF endpoint'[e] THEN "added" ELSE "removed") /\ m.arg = e
                  /\ r[d].match = r[e].match
      BY <3>1, <3>2, <3>3, <3>4, <3>7
    <3> QED
      BY <3>2, <3>3, <3>4, <3>6, <3>8
  <2>5. CASE AuthenticationFails
    <3>1. PICK d \in Devices : Emit(r[d].log, "log", d)
      BY <2>5 DEF AuthenticationFails
    <3>2. UNCHANGED <<chassis, endpoint>>
      BY <2>5 DEF AuthenticationFails
    <3> DEFINE m == [what |-> "log", arg |-> d]
    <3>3. m \in Signal /\ m.what = "log" /\ r[d].log \in BOOLEAN
      BY <1>2 DEF Signal, Resource
    <3>4. sig' = IF r[d].log THEN Append(sig, m) ELSE sig
      BY <3>1 DEF Emit
    <3> HIDE DEF m
    <3> QED
      BY <3>2, <3>3, <3>4
  <2> QED
    BY <2>1, <2>2, <2>3, <2>4, <2>5 DEF World
<1>4. /\ NewestTells'
      /\ PowerPending => PowerPending'
      /\ (chassis' # chassis /\ watch) => PowerPending'
      /\ \A d \in Devices :
           /\ EndpointPending(d) => EndpointPending(d)'
           /\ (endpoint'[d] # endpoint[d] /\ r[d].match) => EndpointPending(d)'
  BY <1>1, <1>2, <1>3, WorldTells
<1>0. ASSUME NEW d \in Devices, d \notin missed'
      PROVE  \/ d \notin missed /\ endpoint'[d] = endpoint[d]
             \/ endpoint'[d] # endpoint[d] /\ ~(p.at = "smamatch" /\ d \in p.cur)
  <2>1. CASE EndpointChanges
    <3>1. PICK e \in Devices :
            /\ endpoint' = [endpoint EXCEPT ![e] = ~@]
            /\ missed' = IF p.at = "smamatch" /\ e \in p.cur THEN missed \cup {e}
                         ELSE IF r[e].match THEN missed \ {e} ELSE missed
      BY <2>1 DEF EndpointChanges
    <3>2. endpoint'[e] = ~endpoint[e] /\ endpoint[e] \in BOOLEAN /\ (d # e => endpoint'[d] = endpoint[d])
      BY <1>2, <3>1
    <3> QED
      BY <1>0, <3>1, <3>2
  <2>2. CASE ~EndpointChanges
    BY <1>0, <2>2 DEF World, EntityManagerAdds, ChassisAppears, PowerSwitches, AuthenticationFails
  <2> QED
    BY <2>1, <2>2
<1>5. Matched'
  BY <1>1 DEF Matched
<1>6. EndpointKnown'
  <2> SUFFICES ASSUME ~blind', NEW d \in Devices, d \notin missed',
                      r[d].made \/ (d \in p.cur /\ p.at \in {"smamatch", "apply"})
               PROVE  r[d].ep = endpoint'[d] \/ EndpointPending(d)'
    BY <1>1 DEF EndpointKnown
  <2>1. CASE endpoint'[d] = endpoint[d]
    BY <1>0, <1>1, <1>4, <2>1 DEF EndpointKnown
  <2>2. CASE endpoint'[d] # endpoint[d]
    <3>1. r[d].match
      BY <1>0, <2>2 DEF Matched
    <3> QED
      BY <1>4, <2>2, <3>1
  <2> QED
    BY <2>1, <2>2
<1>7. PowerKnown'
  <2>1. \A d \in Devices : ~Chassis(d)' => r'[d].power = ""
    BY <1>1 DEF PowerKnown, Chassis
  <2>2. ASSUME ~blind', watch', p'.at # "reread", ~PowerPending'
        PROVE  chassis' = chassis /\ ~PowerPending /\ ~blind /\ watch /\ p.at # "reread"
    BY <1>1, <1>4, <2>2
  <2> QED
    BY <1>1, <2>1, <2>2 DEF PowerKnown
<1>8. StatesFit'
  BY <1>1 DEF StatesFit, Fits
<1> QED
  BY <1>4, <1>5, <1>6, <1>7, <1>8

(* Every step keeps it.                                                    *)
LEMMA HealthStepKeeps == StatusInv /\ StatusInv' /\ HealthInv /\ [Next]_vars => HealthInv'
<1> SUFFICES ASSUME StatusInv, StatusInv', HealthInv, [Next]_vars PROVE HealthInv'
  OBVIOUS
<1>1. CASE Next
  BY <1>1, HealthPublish, HealthConstruction, HealthFinish, HealthWatcher, HealthPower, HealthEvents,
     HealthRounds, HealthRefreshes, HealthWorld DEF Next, Daemon, OtherRefresh
<1>2. CASE UNCHANGED vars
  <2>1. UNCHANGED <<kind, has, chassis, endpoint, missed, sig, p, r, watch, blind>>
    BY <1>2 DEF vars, world
  <2>2. NewestTells' /\ PowerPending' = PowerPending /\ \A d \in Devices : EndpointPending(d)' = EndpointPending(d)
    BY <2>1, QueueStays DEF HealthInv
  <2>3. Matched' /\ EndpointKnown' /\ PowerKnown' /\ StatesFit'
    BY <2>1, <2>2 DEF HealthInv, Matched, EndpointKnown, PowerKnown, StatesFit, Fits, Chassis
  <2> QED
    BY <2>2, <2>3 DEF HealthInv
<1> QED
  BY <1>1, <1>2

(* HealthInv holds in every reachable state: what the daemon knows of      *)
(* endpoints and power is current or a queued signal corrects it, but for  *)
(* the endpoint of a CPLD that changed between its query and its matches.  *)
THEOREM HealthInvariant == Spec => []HealthInv
  BY StatusInvariant, HealthInit, HealthStepKeeps, PTL DEF Spec

(* Once nothing is pending, what every resource publishes fits the power   *)
(* and the endpoint the device really has (updateHealth), for any mix of   *)
(* devices and any number of events, as long as the calls that nothing     *)
(* repeats were answered.  For a CPLD whose endpoint last changed between  *)
(* its query and its matches it says nothing of the endpoint.              *)
THEOREM PublishedHealthIsCurrent == Spec => []HealthIsCurrent
<1>1. StatusInv /\ HealthInv => HealthIsCurrent
  <2> SUFFICES ASSUME StatusInv, HealthInv, Quiet, watch, ~blind, NEW d \in Made
               PROVE  LET x == r[d] IN
                      /\ Chassis(d) => x.power \in {chassis, ""}
                      /\ d \notin missed =>
                           /\ (x.state = "Enabled" /\ kind[d] # "FixedERoT") => endpoint[d]
                           /\ endpoint[d] =>
                                \/ x.state = "Enabled" \/ x.auth
                                \/ kind[d] \in {"ConnectX", "NVSwitch", "NVLinkMgmtNic"}
                                \/ (kind[d] = "MCU" /\ ~x.mgr)
                           /\ (x.power # "" /\ kind[d] \notin {"FixedERoT", "Cpld"}) =>
                                ((x.state = "Off") <=> (chassis = "Off" /\ ~endpoint[d]))
    BY DEF HealthIsCurrent
  <2>1. d \in Devices /\ r[d].made /\ p.at = "idle" /\ ~r[d].settling
    BY DEF Made, Quiet, StatusInv, SettlesPoweredOn
  <2>2. ~PowerPending /\ ~EndpointPending(d)
    <3>1. 1..Len(sig) = {}
      <4>1. sig = <<>>
        BY DEF Quiet
      <4>2. Len(sig) = 0
        BY <4>1
      <4> QED
        BY <4>2
    <3> QED
      BY <3>1 DEF PowerPending, EndpointPending
  <2>3. (d \notin missed => r[d].ep = endpoint[d]) /\ r[d].power \in {chassis, ""}
    BY <2>1, <2>2 DEF HealthInv, EndpointKnown, PowerKnown
  <2>4. Fits(d, r[d])
    BY <2>1 DEF HealthInv, StatesFit
  <2> QED
    BY <2>3, <2>4 DEF Fits
<1> QED
  BY <1>1, StatusInvariant, HealthInvariant, PTL

=============================================================================
