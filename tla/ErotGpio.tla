----------------------------- MODULE ErotGpio -----------------------------
(* fw-status, GPIOResource: the health of an ERoT and of its AP, followed  *)
(* through the FATAL_ERROR line, the crisis I2C, the MCTP endpoint and the *)
(* boot status queries.  Every handler runs to completion on the event     *)
(* loop: it is a function of the resource's record g and of what it reads. *)
EXTENDS MctpRequester, Sequences

CONSTANTS
  MaxTries,    \* maxAPBootStatusQueryRetries
  MaxEvents,   \* bound: disturbances of any kind: the AP changes, the ERoT
               \* enters recovery, the chassis or the line goes or comes, a
               \* message or a send is lost or late, a probe or a read fails
  MaxInFlight  \* bound: requests and responses on the MCTP bus

ASSUME ErotAssumption ==
  /\ {"ap", "exit"} \subseteq Clients
  /\ {MaxTries, MaxEvents, MaxInFlight} \subseteq Nat

VARIABLES
  mode,      \* MonitorMode: "Interrupt" or "Polling"
  exit,      \* RecoveryExitCheck: "MctpEndpoint" or "MctpVdm"
  boot,      \* the AP: "booting", "complete" or "fatal"
  erotDown,  \* the ERoT runs its recovery firmware
  endpoint,  \* its MCTP endpoint is on D-Bus
  chassis,   \* the chassis is on
  lineUp,    \* the GPIO line can be read
  edges,     \* line events in the kernel's FIFO: TRUE is an assertion
  signal,    \* an interfacesAdded signal for the endpoint is queued
  power,     \* chassis power signals queued, oldest first
  wire,      \* requests on the MCTP bus: instance id, and of an older query
  inbox,     \* responses not yet received
  alive,     \* the daemon runs
  g,         \* the GPIOResource
  q,         \* the requester
  spent,     \* disturbances so far
  excused    \* something the code does not follow up has happened

env == <<boot, erotDown, endpoint, chassis, lineUp>>
vars == <<mode, exit, env, edges, signal, power, wire, inbox, alive, g, q, spent, excused>>

(* The FATAL_ERROR line: the ERoT asserts it for itself and for its AP.    *)
Level == erotDown \/ boot = "fatal"

(* The resource: line requested, event registered, retry timer; the value  *)
(* last polled; chassis known off, settle timer; isFirmwareInRecovery and  *)
(* the recovery monitor; the ERoT's and the AP's health; the AP check, its *)
(* timer, its retries; the suspended queries; a discovery asked for.       *)
NewResource ==
  [line |-> FALSE, event |-> FALSE, retry |-> FALSE, last |-> "none", off |-> FALSE,
   settle |-> FALSE, rec |-> FALSE, mon |-> FALSE, health |-> "none", ap |-> "none",
   check |-> FALSE, timer |-> FALSE, tries |-> 0, co |-> {}, own |-> FALSE, kick |-> FALSE]

stopAPBootStatusCheck(r) == [r EXCEPT !.check = FALSE, !.timer = FALSE, !.tries = 0]
startAPBootStatusCheck(r) == [r EXCEPT !.check = TRUE, !.timer = TRUE, !.tries = 0, !.own = FALSE]

(* The MCTP target is restarted; mctpd adds the endpoint if it is missing. *)
triggerMctpDiscovery(r) == [r EXCEPT !.kick = ~endpoint]

(* startERoTRecoveryMonitor: Polling only; it also asks for MCTP discovery. *)
startERoTRecoveryMonitor(r) ==
  IF mode = "Polling" THEN triggerMctpDiscovery([r EXCEPT !.mon = TRUE]) ELSE r

InRecovery(r) ==
  startERoTRecoveryMonitor([r EXCEPT !.rec = TRUE, !.health = "recovery"])
LeaveRecovery(r) ==
  IF r.rec THEN triggerMctpDiscovery([r EXCEPT !.mon = FALSE, !.rec = FALSE]) ELSE r

(* updateERoTHealth.  down: the crisis probe did not answer that the       *)
(* firmware is out of recovery, an I2C failure included.                   *)
updateERoTHealth(r, reason, down) ==
  IF r.off THEN [r EXCEPT !.health = "off"]
  ELSE IF down THEN InRecovery(r)
  ELSE LET cleared == IF reason = "Deassert" THEN [stopAPBootStatusCheck(r) EXCEPT !.ap = "none"] ELSE r
           healthy == [LeaveRecovery(cleared) EXCEPT !.health = "healthy"]
       IN IF reason = "Assert" THEN startAPBootStatusCheck(triggerMctpDiscovery(healthy)) ELSE healthy

ReasonOf(level) == IF level THEN "Assert" ELSE "Deassert"
Known(v) == IF v THEN "asserted" ELSE "deasserted"

(* A line that cannot be found or requested stays free and polling tries   *)
(* again; a failed read lets it go.  An unchanged value is not acted on.   *)
pollGpio(r, down) ==
  IF ~lineUp THEN [r EXCEPT !.line = FALSE, !.last = "none"]
  ELSE LET seen == [r EXCEPT !.line = TRUE, !.last = Known(Level)]
       IN IF r.last = Known(Level) THEN seen ELSE updateERoTHealth(seen, ReasonOf(Level), down)

BugRegistersBlindly(r, down, read) ==
  IF ~lineUp THEN [r EXCEPT !.line = FALSE, !.event = FALSE, !.last = "none", !.retry = TRUE]
  ELSE [r EXCEPT !.line = TRUE, !.event = TRUE, !.retry = FALSE]
(* registerGPIOEvent: the first read acts on an asserted line only.  When  *)
(* it fails there is a warning, and the event is registered nevertheless.  *)
registerGPIOEvent(r, down, read) ==
  IF ~lineUp THEN [r EXCEPT !.line = FALSE, !.event = FALSE, !.last = "none", !.retry = TRUE]
  ELSE LET held == [r EXCEPT !.line = TRUE, !.event = TRUE, !.retry = FALSE]
       IN IF read /\ Level THEN updateERoTHealth(held, "Assert", down) ELSE held

(* updateHealth, on power changes and once after construction.             *)
updateHealth(r, down) ==
  IF mode = "Polling" THEN pollGpio(r, down) ELSE updateERoTHealth(r, "Refresh", down)

BugRetriesForever(r) == IF r.check THEN [r EXCEPT !.timer = TRUE] ELSE r
handleAPBootStatusUnavailable(r) ==
  IF ~r.check THEN r
  ELSE IF r.tries >= MaxTries THEN [stopAPBootStatusCheck(r) EXCEPT !.ap = "Degraded"]
  ELSE [r EXCEPT !.tries = @ + 1, !.timer = TRUE]

handleAPBootStatus(r, answer) ==
  CASE answer = "fatal" -> [stopAPBootStatusCheck(r) EXCEPT !.ap = "Standby"]
    [] answer = "complete" -> [stopAPBootStatusCheck(r) EXCEPT !.ap = "none"]
    [] OTHER -> handleAPBootStatusUnavailable(r)

(* queryAPBootStatusAsync after its co_await; "null" is no response.       *)
APQueryAnswered(r, answer) ==
  LET h == [r EXCEPT !.co = @ \ {"ap"}] IN
  IF ~h.check THEN h
  ELSE IF answer = "null" THEN handleAPBootStatusUnavailable(h)
  ELSE handleAPBootStatus(h, answer)

(* reevaluateERoTHealthAfterRecovery: the line's level now, else the last  *)
(* polled one, else asserted.                                              *)
reevaluateERoTHealthAfterRecovery(r, down) ==
  updateERoTHealth(r, IF r.line /\ lineUp THEN ReasonOf(Level)
                      ELSE IF ~r.line /\ r.last = "deasserted" THEN "Deassert" ELSE "Assert", down)

BugExitCheckGivesUp(r, answer, down) ==
  LET h == [r EXCEPT !.co = @ \ {"exit"}] IN
  IF ~h.mon THEN h
  ELSE IF answer = "null" THEN [h EXCEPT !.mon = FALSE]
  ELSE reevaluateERoTHealthAfterRecovery(h, down)
(* queryERoTExitAsync after its co_await.                                  *)
ExitQueryAnswered(r, answer, down) ==
  LET h == [r EXCEPT !.co = @ \ {"exit"}] IN
  IF ~h.mon THEN h
  ELSE IF answer = "null" THEN triggerMctpDiscovery(h)
  ELSE reevaluateERoTHealthAfterRecovery(h, down)

(* The coroutines in C, resumed one after the other with the same answer.  *)
Resumed(r, C, answer, down) ==
  LET r1 == IF "ap" \in C THEN APQueryAnswered(r, answer) ELSE r
  IN IF "exit" \in C THEN ExitQueryAnswered(r1, answer, down) ELSE r1

Spend(n) == spent + n <= MaxEvents /\ spent' = spent + n

(* The daemon is constructed again after a crash; systemd restarts it.     *)
Init ==
  /\ mode \in {"Interrupt", "Polling"}
  /\ exit \in (IF mode = "Polling" THEN {"MctpEndpoint", "MctpVdm"} ELSE {"MctpEndpoint"})
  /\ boot \in {"booting", "fatal"} /\ erotDown \in BOOLEAN
  /\ endpoint = FALSE /\ chassis = TRUE /\ lineUp = TRUE
  /\ edges = <<>> /\ signal = FALSE /\ power = <<>> /\ wire = {} /\ inbox = {}
  /\ alive = FALSE /\ g = NewResource /\ q = NewRequester
  /\ spent = 0 /\ excused = FALSE

(* What a crisis probe may answer, and what that costs.                    *)
Probe(down) == erotDown => down
Cost(down) == IF down # erotDown THEN 1 ELSE 0
(* An assertion the code drops: with the chassis off it returns early, and *)
(* in Interrupt mode nothing looks again after a failed probe.             *)
Dropped(down) == (g.off /\ Level) \/ (down # erotDown /\ mode = "Interrupt")
(* A first read that fails: nothing reads the asserted line again.         *)
Unread(read) == ~read /\ Level
Failed(read) == IF read THEN 0 ELSE 1

Construct ==
  /\ ~alive /\ alive' = TRUE /\ q' = NewRequester
  /\ \E down, read \in BOOLEAN :
       /\ Probe(down) /\ Spend(Cost(down) + Failed(read)) /\ (read \/ (mode = "Interrupt" /\ lineUp))
       /\ g' = LET made == IF mode = "Interrupt" THEN registerGPIOEvent(NewResource, down, read)
                           ELSE NewResource
               IN updateHealth([made EXCEPT !.off = ~chassis], down)
       /\ excused' = (excused \/ Dropped(down) \/ Unread(read) \/ (~chassis /\ Level))
  /\ edges' = <<>> /\ signal' = FALSE /\ power' = <<>>
  /\ UNCHANGED <<mode, exit, env, wire, inbox>>

(* A handler that only touches the resource; failed: the further calls of  *)
(* it that fail.                                                           *)
Resource(down, failed) ==
  /\ alive /\ Probe(down) /\ Spend(Cost(down) + failed)
  /\ UNCHANGED <<mode, exit, env, wire, inbox, alive, q>>

PollTimer == \E down \in BOOLEAN :
  /\ mode = "Polling" /\ Resource(down, 0)
  /\ (g.last # Known(Level) \/ ~lineUp) /\ g' = pollGpio(g, down) /\ g' # g
  /\ excused' = (excused \/ Dropped(down)) /\ UNCHANGED <<edges, signal, power>>

(* waitForGPIOEvent; a line that went away ends in the retry timer.        *)
waitForGPIOEvent == \E down \in BOOLEAN :
  /\ g.event /\ Resource(down, 0) /\ UNCHANGED <<signal, power>>
  /\ \/ /\ lineUp /\ edges # <<>> /\ edges' = Tail(edges)
        /\ g' = updateERoTHealth(g, ReasonOf(Head(edges)), down)
        /\ excused' = (excused \/ (g.off /\ Head(edges)) \/ down # erotDown)
     \/ /\ ~lineUp /\ down = erotDown /\ edges' = <<>> /\ UNCHANGED excused
        /\ g' = [g EXCEPT !.line = FALSE, !.event = FALSE, !.last = "none", !.retry = TRUE]

(* Any other error of the read is thrown on: sdeventplus makes it a failed *)
(* handler, and sd-event disables the source.  Nothing arms it again.      *)
GPIOEventThrows ==
  /\ g.event /\ lineUp /\ edges # <<>> /\ Resource(erotDown, 1)
  /\ g' = [g EXCEPT !.event = FALSE] /\ edges' = <<>> /\ UNCHANGED <<signal, power, excused>>

retryGPIOEventRegistration == \E down, read \in BOOLEAN :
  /\ g.retry /\ lineUp /\ Resource(down, Failed(read))
  /\ g' = registerGPIOEvent(g, down, read)
  /\ excused' = (excused \/ Dropped(down) \/ Unread(read)) /\ UNCHANGED <<edges, signal, power>>

(* The centralized watcher: off is acted on at once, on after the settle   *)
(* delay.                                                                  *)
OnPower == \E down \in BOOLEAN :
  /\ power # <<>> /\ power' = Tail(power) /\ Resource(down, 0)
  /\ IF Head(power) THEN g' = [g EXCEPT !.off = FALSE, !.settle = TRUE] /\ down = erotDown
     ELSE g' = updateHealth([g EXCEPT !.off = TRUE, !.settle = FALSE], down)
  /\ excused' = (excused \/ (~Head(power) /\ Level) \/ Dropped(down)) /\ UNCHANGED <<edges, signal>>

SettleTimer == \E down \in BOOLEAN :
  /\ g.settle /\ Resource(down, 0)
  /\ g' = updateHealth([g EXCEPT !.settle = FALSE], down)
  /\ excused' = (excused \/ Dropped(down)) /\ UNCHANGED <<edges, signal, power>>

(* The wire after i is sent; a full one (MaxInFlight) loses it.            *)
Sent(w, S) ==
  IF Cardinality(w) + Cardinality(inbox) < MaxInFlight THEN w \cup {[id |-> i, old |-> FALSE] : i \in S} ELSE w

(* The walk over the request entries that ends a requester's handler: r    *)
(* and q1 are the state it starts from, the failed sends resume theirs.    *)
Walk(q1, sync, r, cost) ==
  \/ /\ ~MustCrash(q1) /\ UNCHANGED alive
     /\ \E x \in Walks(q1, sync) :
          /\ Spend(cost + Cardinality(x.failed))
          /\ q' = runRegisteredRequest(q1, x)
          /\ g' = Resumed(r, ClientsOf(q1, x.failed), "null", TRUE)
          /\ wire' = Sent({[m EXCEPT !.old = @ \/ m.id \in sync] : m \in wire}, x.started)
  \/ MayCrash(q1) /\ alive' = FALSE /\ UNCHANGED <<spent, wire>> /\ q' = NewRequester /\ g' = NewResource

(* queryBootStatus up to its suspension; r is the resource that asks.  No  *)
(* socket, no free id or a hollow entry under the id end it at once.       *)
Query(c, r) ==
  LET asking == [r EXCEPT !.co = @ \cup {c}, !.own = IF c = "ap" THEN TRUE ELSE @]
      refused(b) == /\ g' = Resumed(asking, {c}, "null", TRUE) /\ Spend(b)
                    /\ UNCHANGED <<wire, inbox, alive>>
  IN \/ refused(1) /\ UNCHANGED q
     \/ IF next(q) \subseteq Entries(q) THEN refused(0) /\ q' = [q EXCEPT !.used = @ \cup next(q)]
        ELSE \E i \in next(q) :
               /\ Walk(registerRequest(q, i, c), {i}, asking, 0)
               /\ inbox' = {[m EXCEPT !.old = @ \/ m.id = i] : m \in inbox}

(* runAPBootStatusQuery: the timer is disarmed even when an older query is *)
(* still suspended.                                                        *)
runAPBootStatusQuery ==
  /\ alive /\ g.timer /\ UNCHANGED <<mode, exit, env, edges, signal, power, excused>>
  /\ IF g.check /\ "ap" \notin g.co THEN Query("ap", [g EXCEPT !.timer = FALSE])
     ELSE g' = [g EXCEPT !.timer = FALSE] /\ UNCHANGED <<q, wire, inbox, alive, spent>>

(* runERoTRecoveryMonitor, each minute, and onERoTEndpointAdded.           *)
ExitCheck ==
  IF exit = "MctpVdm"
  THEN IF "exit" \in g.co THEN UNCHANGED <<g, q, wire, inbox, alive, spent>> ELSE Query("exit", g)
  ELSE \E down \in BOOLEAN :
         /\ Probe(down) /\ Spend(Cost(down))
         /\ g' = IF endpoint THEN reevaluateERoTHealthAfterRecovery(g, down) ELSE triggerMctpDiscovery(g)
         /\ UNCHANGED <<q, wire, inbox, alive>>
runERoTRecoveryMonitor ==
  /\ alive /\ g.mon /\ ExitCheck
  /\ UNCHANGED <<mode, exit, env, edges, signal, power, excused>>
onERoTEndpointAdded ==
  /\ alive /\ signal /\ signal' = FALSE
  /\ IF g.mon THEN ExitCheck ELSE UNCHANGED <<g, q, wire, inbox, alive, spent>>
  /\ UNCHANGED <<mode, exit, env, edges, power, excused>>

(* handleReceivedMsg: the response is matched by its instance id alone.    *)
Receive == \E m \in inbox : \E down \in BOOLEAN :
  /\ alive /\ Probe(down)
  /\ LET i == m.id
         C == IF q.entry[i].st \in {"none", "hollow"} THEN {} ELSE {q.entry[i].client}
     IN /\ IF i \in HollowIds(q)
           THEN alive' = FALSE /\ q' = NewRequester /\ g' = NewResource /\ UNCHANGED <<spent, wire>>
           ELSE Walk(handleResponse(q, i), {}, Resumed(g, C, m.ans, down), Cost(down))
        /\ excused' = (excused \/ ("ap" \in C /\ g.check /\ (m.old \/ ~g.own)))
  /\ inbox' = inbox \ {m}
  /\ UNCHANGED <<mode, exit, env, edges, signal, power>>

(* A timer that fires although the answer is on its way is a disturbance.  *)
(* The timers take seconds, the deferred removal runs long before them.    *)
Slow(i) ==
  IF (\E m \in inbox : m.id = i) \/ (~erotDown /\ endpoint /\ \E m \in wire : m.id = i) THEN 1 ELSE 0

ResendTimer == \E i \in Running(q) :
  /\ alive /\ q.doomed = {} /\ q.entry[i].left > 0 /\ q' = Resend(q, i) /\ Spend(Slow(i))
  /\ wire' = Sent(wire, {i})
  /\ UNCHANGED <<mode, exit, env, edges, signal, power, inbox, alive, g, excused>>

InstanceIdTimer == \E i \in Running(q) :
  /\ alive /\ q.doomed = {} /\ q.entry[i].left = 0 /\ q' = instanceIdExpiry(q, i) /\ Spend(Slow(i))
  /\ UNCHANGED <<mode, exit, env, edges, signal, power, wire, inbox, alive, g, excused>>

RemoveEntry(i) ==
  /\ alive /\ i \in q.doomed
  /\ LET q1 == removeRequestEntry(q, i) IN
     IF i \in Entries(q) THEN Walk(q1, {}, Resumed(g, {q.entry[i].client}, "null", TRUE), 0)
     ELSE q' = q1 /\ UNCHANGED <<g, wire, alive, spent>>
  /\ UNCHANGED <<mode, exit, env, edges, signal, power, inbox, excused>>

(* The world.  In Interrupt mode a change of the line is an event in the   *)
(* kernel; a Polling resource that sees the line fall and rise between two *)
(* polls sees nothing.                                                     *)
Lines(levels) ==
  /\ edges' = IF g.event /\ lineUp THEN edges \o levels ELSE edges
  /\ excused' = (excused \/ (mode = "Polling" /\ alive /\ ~g.rec /\ g.last = "asserted"
                             /\ levels # <<>> /\ levels[Len(levels)]))
  /\ Len(edges') <= 3
Changed(l) == IF l = Level THEN <<>> ELSE <<l>>

ApChanges == \E b \in {"booting", "complete", "fatal"} :
  /\ Spend(1)
  /\ <<boot, b>> \in {<<"booting", "complete">>, <<"booting", "fatal">>, <<"complete", "booting">>,
                      <<"fatal", "booting">>}
  /\ boot' = b /\ Lines(Changed(erotDown \/ b = "fatal"))
  /\ UNCHANGED <<mode, exit, erotDown, endpoint, chassis, lineUp, signal, power, wire, inbox, alive, g, q>>

ErotEnters ==
  /\ ~erotDown /\ Spend(1)
  /\ erotDown' = TRUE /\ endpoint' = FALSE /\ Lines(Changed(TRUE))
  /\ UNCHANGED <<mode, exit, boot, chassis, lineUp, signal, power, wire, inbox, alive, g, q>>

(* The ERoT restarts: the line falls, and rises again for an unhealthy AP. *)
ErotLeaves ==
  /\ erotDown /\ erotDown' = FALSE
  /\ Lines(IF boot = "fatal" THEN <<FALSE, TRUE>> ELSE <<FALSE>>)
  /\ UNCHANGED <<mode, exit, boot, endpoint, chassis, lineUp, signal, power, wire, inbox, alive, g, q, spent>>

(* mctpd adds the endpoint once its target was restarted; the match exists *)
(* from the first time the monitor was started.                            *)
EndpointAppears ==
  /\ ~erotDown /\ ~endpoint /\ g.kick /\ endpoint' = TRUE /\ signal' = (alive /\ g.mon)
  /\ g' = [g EXCEPT !.kick = FALSE]
  /\ UNCHANGED <<mode, exit, boot, erotDown, chassis, lineUp, edges, power, wire, inbox, alive, q, spent, excused>>

ChassisPower ==
  /\ Spend(1)
  /\ chassis' = ~chassis /\ power' = IF alive THEN Append(power, ~chassis) ELSE power
  /\ UNCHANGED <<mode, exit, boot, erotDown, endpoint, lineUp, edges, signal, wire, inbox, alive, g, q, excused>>

(* A line that went away comes back under a new handle only.               *)
LineChanges ==
  /\ Spend(IF lineUp THEN 1 ELSE 0)
  /\ lineUp' = ~lineUp /\ (lineUp \/ ~g.line)
  /\ UNCHANGED <<mode, exit, boot, erotDown, endpoint, chassis, edges, signal, power, wire, inbox, alive, g, q, excused>>

Answers == \E m \in wire :
  /\ ~erotDown /\ endpoint
  /\ wire' = wire \ {m} /\ inbox' = inbox \cup {[id |-> m.id, old |-> m.old, ans |-> boot]}
  /\ UNCHANGED <<mode, exit, env, edges, signal, power, alive, g, q, spent, excused>>

Lost == \E m \in wire :
  /\ Spend(IF erotDown \/ ~endpoint THEN 0 ELSE 1)
  /\ wire' = wire \ {m}
  /\ UNCHANGED <<mode, exit, env, edges, signal, power, inbox, alive, g, q, excused>>

Daemon ==
  \/ Construct \/ PollTimer \/ waitForGPIOEvent \/ GPIOEventThrows \/ retryGPIOEventRegistration
  \/ OnPower \/ SettleTimer
  \/ runAPBootStatusQuery \/ runERoTRecoveryMonitor \/ onERoTEndpointAdded
  \/ Receive \/ ResendTimer \/ InstanceIdTimer \/ \E i \in Ids : RemoveEntry(i)
World == ApChanges \/ ErotEnters \/ ErotLeaves \/ EndpointAppears \/ ChassisPower \/ LineChanges \/ Answers \/ Lost
Next == Daemon \/ World

TypeOK ==
  /\ g.co \subseteq Clients /\ q.used \subseteq Ids /\ q.doomed \subseteq Ids
  /\ g.tries \in 0..MaxTries /\ g.health \in {"none", "healthy", "recovery", "off"}

Quiet ==
  /\ alive /\ lineUp /\ edges = <<>> /\ power = <<>> /\ ~g.off /\ ~g.rec /\ ~g.check
  /\ IF mode = "Polling" THEN g.last = Known(Level) ELSE g.event
(* An AP that failed for good is reported on D-Bus once everything has     *)
(* settled, also when the failure came with the ERoT's own recovery, in    *)
(* either monitor mode (updateERoTHealth, the AP boot status check).  The  *)
(* code itself drops some cases, and excused records them: an assertion    *)
(* while the chassis is off, an answer of an earlier query, a pulse        *)
(* between two polls, and in Interrupt mode a crisis probe that failed or  *)
(* a first read that failed on an asserted line (registerGPIOEvent warns,  *)
(* registers the event and does not read again).  Nor is anything said of  *)
(* a resource whose event source was disabled: it never counts as quiet.   *)
FatalApIsReported == (Quiet /\ ~excused /\ boot = "fatal") => g.ap # "none"

Fair ==
  /\ WF_vars(Construct) /\ WF_vars(PollTimer) /\ WF_vars(OnPower) /\ WF_vars(runAPBootStatusQuery)
  /\ WF_vars(runERoTRecoveryMonitor) /\ WF_vars(Receive) /\ WF_vars(ResendTimer)
  /\ WF_vars(InstanceIdTimer) /\ (\A i \in Ids : WF_vars(RemoveEntry(i))) /\ WF_vars(EndpointAppears)
  /\ WF_vars(Answers)
Spec == Init /\ [][Next]_vars /\ Fair

(* No AP check stays open: lost requests expire, the entry behind them is  *)
(* run, retries are counted, and a timer that fires while an older query   *)
(* is suspended leaves the check to that query (runAPBootStatusQuery).     *)
ChecksEnd == g.check ~> ~g.check

(* A Polling resource finds out that its ERoT left recovery for good,      *)
(* although the line never shows it (startERoTRecoveryMonitor).            *)
RecoveryExitSeen ==
  <>[](mode = "Polling" /\ ~erotDown /\ chassis) => <>[](g.rec = FALSE)
=============================================================================
