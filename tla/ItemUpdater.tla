---------------------------- MODULE ItemUpdater ----------------------------
(***************************************************************************)
(* An item updater daemon (src/src): one image under activation, one       *)
(* update service of systemd per device, in turn.  Version (version.cpp)   *)
(* is the D-Bus object a client activates, BaseItemUpdater and             *)
(* BaseController (base_item_updater.cpp, base_controller.cpp) make it,    *)
(* replace it when an image is uploaded and erase it on request, Watch     *)
(* (watch.cpp) tells them of uploads.                                      *)
(*                                                                         *)
(* A callback of the event loop is one action.  The methods of Version     *)
(* call each other, so they are operators from one state w of the daemon   *)
(* to the next:                                                            *)
(*   v        the Version object                                           *)
(*   files    the staged images                                            *)
(*   out      messages sent to systemd                                     *)
(*   echoes   PropertiesChanged signals with RequestedActivation = Active  *)
(*   crashed  a null pointer was dereferenced                              *)
(* systemd, the clients and the message bus are external.  The bus         *)
(* delivers each message in the order it was given to it.                  *)
(***************************************************************************)
EXTENDS Integers, Sequences, FiniteSets

CONSTANTS
    Devices,         \* what the inventory may list
    Images,          \* file names of uploads
    NeedVerify,      \* needVerify() of the updater
    UpdateTogether,  \* updateAllTogether()
    Filters,         \* results of applyTargetFilters
    BusResults,      \* whether StartUnit may be sent: TRUE, FALSE (SdBusError)
    MaxMessages,     \* bound on messages between the daemon and systemd
    MaxDeletes,      \* bound on Delete calls
    MayRestart       \* whether the daemon may be restarted

ASSUME UpdaterAssumption ==
    /\ IsFiniteSet(Devices)
    /\ Filters \subseteq {"UpdateAll", "UpdateSelected", "UpdateNone"}
    /\ BusResults \subseteq BOOLEAN
    /\ {NeedVerify, UpdateTogether, MayRestart} \subseteq BOOLEAN
    /\ {MaxMessages, MaxDeletes} \subseteq Nat
    /\ "na.img" \notin Images

VARIABLES
    version,    \* versions: the Version object, or NoVersion
    files,      \* image files in the upload directory
    written,    \* inotify events not yet read
    matches,    \* size of activationMatches
    daemon,     \* "up" or "crashed"
    inventory,  \* devices the inventory lists
    units,      \* systemd: the state of every update service
    calls,      \* StartUnit and StopUnit calls on their way to systemd
    inbox,      \* signals on their way to the daemon
    deletes,    \* Delete calls made
    served,     \* history: devices whose service ended well during the
                \* current activation
    clean       \* history: nothing of an earlier activation was left in
                \* systemd or on the bus when the current one started

systemdVars == <<units, calls>>
daemonVars == <<version, matches, daemon>>
vars == <<daemonVars, files, written, inventory, systemdVars, inbox, deletes,
          served, clean>>

Paths == Images \cup {"na.img"}
Units == Devices \X Paths
NoUnit == <<>>
OtherUnit == <<"other">>
NoProgress == -1
NoVersion == [status |-> "none"]
Statuses == {"Ready", "Activating", "Active", "Failed"}

(* The constructor of Version.                                             *)
Version(path, status) ==
    [status |-> status, requested |-> "None", path |-> path, queue |-> <<>>,
     unit |-> NoUnit, progress |-> NoProgress, step |-> 0, timer |-> FALSE]

JobRemoved(u, result) == [type |-> "job", unit |-> u, result |-> result]
Echo == [type |-> "echo"]

-----------------------------------------------------------------------------
(* Methods of Version.                                                     *)
cleanupImageUploadDir(w) == [w EXCEPT !.files = @ \ {w.v.path}]

(* The property is set; a change is announced on the bus.                  *)
SetRequested(w, value) ==
    [w EXCEPT !.v.requested = value,
              !.echoes = IF value = "Active" /\ w.v.requested # "Active"
                         THEN @ + 1 ELSE @]

(* activation(value) with any value but Activating.                        *)
SetActivation(w, status) ==
    [w EXCEPT !.v.status = status, !.v.progress = NoProgress]

onUpdateFailed(w) ==
    IF w.v.queue = <<>> THEN w
    ELSE SetRequested(
            cleanupImageUploadDir(
                SetActivation([w EXCEPT !.v.queue = <<>>], "Failed")),
            "None")

finishActivation(w) ==
    cleanupImageUploadDir(SetActivation(SetRequested(w, "None"), "Active"))

(* doUpdate(inventoryPath): sent is whether StartUnit could be sent.       *)
doUpdateDevice(w, sent) ==
    LET started == [w EXCEPT !.v.unit = <<Head(w.v.queue), w.v.path>>]
    IN  IF sent
        THEN [w  |-> [started EXCEPT !.out = Append(@, <<"start", started.v.unit>>),
                                     !.v.timer = TRUE],
              ok |-> TRUE]
        ELSE [w |-> onUpdateFailed(started), ok |-> FALSE]

doUpdate(w, sent) ==
    IF w.v.queue = <<>> THEN [w |-> finishActivation(w), ok |-> TRUE]
    ELSE doUpdateDevice(w, sent)

onUpdateDone(w, sent) ==
    IF w.v.queue = <<>> \/ w.v.progress = NoProgress THEN w
    ELSE doUpdate([w EXCEPT !.v.progress = @ + w.v.step,
                            !.v.queue = Tail(@)], sent).w

BugCancelOnlyStops(w) ==
    IF w.v.unit = NoUnit THEN w
    ELSE [w EXCEPT !.out = Append(@, <<"stop", w.v.unit>>), !.v.unit = NoUnit]
cancelInProgressUpdate(w) ==
    onUpdateFailed(
        IF w.v.unit = NoUnit THEN w
        ELSE [w EXCEPT !.out = Append(@, <<"stop", w.v.unit>>),
                       !.v.unit = NoUnit])

(* Some of the devices, in an order the object mapper may list them.       *)
Listings(S) ==
    {s \in UNION {[1..n -> S] : n \in 0..Cardinality(S)} :
        \A i, j \in DOMAIN s : s[i] = s[j] => i = j}

(* What an activation meets: the verdict on the signature, the devices     *)
(* that isCompatible accepts, the target filter, whether StartUnit can be  *)
(* sent.                                                                   *)
Circumstances(w) ==
    [verified: IF ~NeedVerify THEN {TRUE}
               ELSE IF w.v.path \in w.files THEN BOOLEAN ELSE {FALSE},
     compatible: Listings(inventory),
     filter: Filters,
     sent: BusResults]

(* The devices startActivation pushes.                                     *)
DevicesToUpdate(c) ==
    IF UpdateTogether /\ c.compatible # <<>> THEN <<Head(c.compatible)>>
    ELSE c.compatible

progressStep(q) == IF q = <<>> THEN 90 ELSE 80 \div Len(q)

(* The new state of the daemon and the status startActivation returns.     *)
startActivation(w, c) ==
    IF ~c.verified \/ inventory = {}
    THEN [w |-> cleanupImageUploadDir(w), status |-> "Failed"]
    ELSE LET q == w.v.queue \o DevicesToUpdate(c)
             w1 == [w EXCEPT
                      !.v.queue = q,
                      !.v.step = progressStep(q),
                      !.v.progress = IF @ = NoProgress THEN 0 ELSE @]
             r == doUpdate(w1, c.sent)
         IN  IF c.filter = "UpdateNone"
             THEN [w |-> finishActivation(w1), status |-> "Active"]
             ELSE IF ~r.ok THEN [w |-> r.w, status |-> "Failed"]
             ELSE IF r.w.v.progress = NoProgress
             THEN [w |-> [r.w EXCEPT !.crashed = TRUE], status |-> "Active"]
             ELSE [w |-> [r.w EXCEPT !.v.progress = 10],
                   status |-> "Activating"]

(* requestedActivation(value): a request that ends in Failed at once is    *)
(* not kept.                                                               *)
Starts(w, value) == value = "Active" /\ w.v.requested # "Active"
                    /\ w.v.status \in {"Ready", "Failed", "Active"}
requestedActivation(w, value, c) ==
    IF ~Starts(w, value) THEN SetRequested(w, value)
    ELSE LET r == startActivation(w, c)
             done == [r.w EXCEPT !.v.status = r.status]
         IN  SetRequested(done, IF r.status = "Failed" THEN "None" ELSE value)

-----------------------------------------------------------------------------
(* What a callback leaves behind.                                          *)
Daemon == [v |-> version, files |-> files, out |-> <<>>, echoes |-> 0,
           crashed |-> FALSE]

(* received: the signals left in the inbox.                                *)
Becomes(w, received) ==
    /\ version' = w.v
    /\ files' = w.files
    /\ calls' = calls \o w.out
    /\ inbox' = received \o [i \in 1..(w.echoes * matches) |-> Echo]
    /\ daemon' = IF w.crashed THEN "crashed" ELSE "up"

Ready == daemon = "up" /\ version # NoVersion
Room == Len(inbox) + Len(calls) < MaxMessages

NothingLeft(received) ==
    /\ \A u \in Units : units[u] = "inactive"
    /\ calls = <<>>
    /\ \A i \in 1..Len(received) : received[i].type # "job"

(* The history of an activation starts and ends with it.                   *)
Activating(v) == v.status = "Activating"
Track(startsClean) ==
    /\ served' = IF Activating(version) /\ Activating(version') THEN served
                 ELSE {}
    /\ clean' = IF Activating(version) THEN clean /\ Activating(version')
                ELSE Activating(version') /\ startsClean

(* The object's requestedActivation(value), whoever calls it.              *)
Request(value, received) ==
    /\ \E c \in Circumstances(Daemon) :
         Becomes(requestedActivation(Daemon, value, c), received)
    /\ Track(NothingLeft(received))

(* A client sets RequestedActivation; Active is all that clients ask for.  *)
SetRequestedActivation ==
    /\ Ready /\ Room
    /\ Request("Active", inbox)
    /\ UNCHANGED <<matches, written, inventory, units, deletes>>

Received(type) == daemon = "up" /\ inbox # <<>> /\ Head(inbox).type = type

(* The daemon's own change of the property comes back to it; the object it *)
(* finds may be another one by now.                                        *)
onReqActivationChanged ==
    /\ Received("echo")
    /\ \/ /\ version # NoVersion
          /\ Request("Active", Tail(inbox))
       \/ /\ version = NoVersion
          /\ inbox' = Tail(inbox)
          /\ UNCHANGED <<version, files, calls, daemon, served, clean>>
    /\ UNCHANGED <<matches, written, inventory, units, deletes>>

(* A job of systemd ended; only the current unit's "done", "failed" and    *)
(* "dependency" count.                                                     *)
BugIgnoresUnitName(msg, unit) == TRUE
ForCurrentUnit(msg, unit) == msg.unit = unit
unitStateChange ==
    /\ Received("job")
    /\ LET msg == Head(inbox)
           mine == version # NoVersion /\ ForCurrentUnit(msg, version.unit)
       IN  \/ /\ mine /\ msg.result = "done"
              /\ \E sent \in BusResults :
                    Becomes(onUpdateDone(Daemon, sent), Tail(inbox))
           \/ /\ mine /\ msg.result \in {"failed", "dependency"}
              /\ Becomes(onUpdateFailed(Daemon), Tail(inbox))
           \/ /\ mine => msg.result \notin {"done", "failed", "dependency"}
              /\ inbox' = Tail(inbox)
              /\ UNCHANGED <<version, files, calls, daemon>>
    /\ Track(FALSE)
    /\ UNCHANGED <<matches, written, inventory, units, deletes>>

(* The watchdog timer of startTimer; it is never stopped, only replaced.   *)
(* It runs for minutes: systemd has long taken the StartUnit call and the  *)
(* daemon its own echo when it expires.  A job's result may just be there. *)
Settled == calls = <<>> /\ \A i \in 1..Len(inbox) : inbox[i].type # "echo"
TimerExpired ==
    /\ Ready /\ version.timer /\ Settled
    /\ LET w == [Daemon EXCEPT !.v.timer = FALSE]
       IN  Becomes(IF version.queue = <<>> THEN w
                   ELSE cancelInProgressUpdate(w), inbox)
    /\ Track(FALSE)
    /\ UNCHANGED <<matches, written, inventory, units, deletes>>

-----------------------------------------------------------------------------
(* Images and inventory.                                                   *)

(* A client writes an image into the upload directory.                     *)
Upload(i) ==
    /\ Room
    /\ files' = files \cup {i}
    /\ written' = written \cup {i}
    /\ UNCHANGED <<daemonVars, inventory, systemdVars, inbox, deletes, served,
                   clean>>

(* Watch::callback and processImage: a new object for the image, unless an *)
(* activation is in progress; then the file is removed.                    *)
initiateUpdateImage(i) ==
    IF version.status = "Activating"
    THEN files' = files \ {i} /\ UNCHANGED version
    ELSE version' = Version(i, "Ready") /\ UNCHANGED files
processImage(i) ==
    /\ daemon = "up" /\ i \in written
    /\ written' = written \ {i}
    /\ \/ /\ i \in files
          /\ initiateUpdateImage(i)
          /\ matches' = IF version = NoVersion THEN matches + 1 ELSE matches
       \/ i \notin files /\ UNCHANGED <<version, files, matches>>
    /\ UNCHANGED <<daemon, inventory, systemdVars, inbox, deletes, served,
                   clean>>

(* Delete::delete_ and erase, whatever the object is doing.                *)
delete ==
    /\ Ready /\ deletes < MaxDeletes
    /\ version' = NoVersion
    /\ deletes' = deletes + 1
    /\ Track(FALSE)
    /\ UNCHANGED <<matches, daemon, files, written, inventory, systemdVars,
                   inbox>>

(* createSoftwareObject: an object for the running firmware, if none is    *)
(* there; its image does not exist.                                        *)
createSoftwareObject(v, devices) ==
    IF v = NoVersion /\ devices # {} THEN Version("na.img", "Active") ELSE v

(* A device appears in the inventory, or its properties become known       *)
(* (newDeviceAdded, onInventoryChanged).                                   *)
newDeviceAdded(d) ==
    /\ daemon = "up"
    /\ inventory' = inventory \cup {d}
    /\ version' = createSoftwareObject(version, inventory')
    /\ UNCHANGED <<matches, daemon, files, written, systemdVars, inbox,
                   deletes, served, clean>>

(* The daemon is started again by systemd, after a crash or otherwise: the *)
(* upload directory is emptied, the update services go on.                 *)
Restart ==
    /\ MayRestart \/ daemon = "crashed"
    /\ daemon' = "up"
    /\ version' = createSoftwareObject(NoVersion, inventory)
    /\ files' = {} /\ written' = {} /\ matches' = 0 /\ inbox' = <<>>
    /\ Track(FALSE)
    /\ UNCHANGED <<inventory, systemdVars, deletes>>

-----------------------------------------------------------------------------
(* systemd (external).  The services are Type=oneshot: a start job lasts   *)
(* as long as the service runs.                                            *)
Signal(msg) == inbox' = Append(inbox, msg)

StartUnit(u) ==
    /\ units' = [units EXCEPT ![u] = IF @ = "running" \/ u[2] \in files
                                     THEN "running" ELSE "imageless"]
    /\ IF units[u] = "stopping" THEN Signal(JobRemoved(u, "canceled"))
       ELSE UNCHANGED inbox

StopUnit(u) ==
    /\ units' = [units EXCEPT ![u] = IF @ = "inactive" THEN @ ELSE "stopping"]
    /\ CASE units[u] = "inactive" -> Signal(JobRemoved(u, "done"))
         [] units[u] = "stopping" -> UNCHANGED inbox
         [] OTHER -> Signal(JobRemoved(u, "canceled"))

SystemdCall ==
    /\ calls # <<>>
    /\ LET u == Head(calls)[2]
       IN  IF Head(calls)[1] = "start" THEN StartUnit(u) ELSE StopUnit(u)
    /\ calls' = Tail(calls)
    /\ UNCHANGED <<daemonVars, files, written, inventory, deletes, served,
                   clean>>

(* The service ends; without its image it fails.                           *)
UnitEnds(u, result) ==
    /\ Room
    /\ units[u] = "running" \/ (units[u] = "imageless" /\ result # "done")
    /\ units' = [units EXCEPT ![u] = "inactive"]
    /\ Signal(JobRemoved(u, result))
    /\ served' = IF result = "done" /\ clean THEN served \cup {u[1]}
                 ELSE served
    /\ UNCHANGED <<daemonVars, files, written, inventory, calls, deletes,
                   clean>>

(* JobRemoved is sent for every unit of the system.                        *)
OtherJob(result) ==
    /\ Room
    /\ Signal(JobRemoved(OtherUnit, result))
    /\ UNCHANGED <<daemonVars, files, written, inventory, systemdVars, deletes,
                   served, clean>>

StopEnds(u) ==
    /\ Room
    /\ units[u] = "stopping"
    /\ units' = [units EXCEPT ![u] = "inactive"]
    /\ Signal(JobRemoved(u, "done"))
    /\ UNCHANGED <<daemonVars, files, written, inventory, calls, deletes,
                   served, clean>>

-----------------------------------------------------------------------------
Init ==
    /\ inventory \in SUBSET Devices
    /\ version = createSoftwareObject(NoVersion, inventory)
    /\ files = {} /\ written = {} /\ matches = 0 /\ daemon = "up"
    /\ units = [u \in Units |-> "inactive"]
    /\ calls = <<>> /\ inbox = <<>> /\ deletes = 0
    /\ served = {} /\ clean = FALSE

Client ==
    \/ SetRequestedActivation
    \/ \E i \in Images : Upload(i)
    \/ delete

Systemd ==
    \/ SystemdCall
    \/ \E u \in Units :
        \/ \E result \in {"done", "failed", "timeout"} : UnitEnds(u, result)
        \/ StopEnds(u)
    \/ OtherJob("done")

Next ==
    \/ Client \/ Systemd
    \/ onReqActivationChanged \/ unitStateChange \/ TimerExpired
    \/ \E i \in Images : processImage(i)
    \/ \E d \in Devices : newDeviceAdded(d)
    \/ Restart

Spec == Init /\ [][Next]_vars

(* The event loop dispatches an armed timer and the signals that arrived,  *)
(* and systemd takes its calls.  No service has to end.                    *)
FairSpec ==
    /\ Spec
    /\ WF_vars(SystemdCall)
    /\ WF_vars(onReqActivationChanged \/ unitStateChange)
    /\ WF_vars(TimerExpired)

-----------------------------------------------------------------------------
VersionType ==
    [status: Statuses, requested: {"None", "Active"}, path: Paths,
     queue: Seq(Devices), unit: Units \cup {NoUnit},
     progress: NoProgress..100, step: 0..90, timer: BOOLEAN]

(* progress is a percentage: the steps of 80 / n never add up to more.     *)
TypeOK ==
    /\ version \in VersionType \cup {NoVersion}
    /\ files \subseteq Images /\ written \subseteq Images
    /\ matches \in Nat
    /\ daemon \in {"up", "crashed"}
    /\ inventory \subseteq Devices
    /\ units \in [Units -> {"inactive", "running", "imageless", "stopping"}]
    /\ calls \in Seq({"start", "stop"} \X Units)

(* A device leaves the queue on success only after its own service ended   *)
(* well, so an image is Active only when it is on every device, if nothing *)
(* of an earlier activation was under way at the start.  (A stop job of a  *)
(* timed-out update also ends with "done" and names the same unit.)        *)
CountedDevicesAreUpdated ==
    [][/\ clean /\ version'.status \in {"Activating", "Active"}
       /\ version'.unit # NoUnit /\ version'.queue # version.queue
       => Head(version.queue) \in served]_vars

(* Every activation ends, also when systemd reports a result the daemon    *)
(* ignores ("timeout", "canceled") or none at all.                         *)
ActivationEnds ==
    daemon = "up" /\ Activating(version) ~> ~Activating(version)

=============================================================================
