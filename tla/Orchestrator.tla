---------------------------- MODULE Orchestrator ----------------------------
(***************************************************************************)
(* The daemon pwrseq-monitor: line reports from phosphor-multi-gpio-monitor*)
(* (gpio-mon) drive the element FSMs, D-Bus clients reset elements, timers *)
(* bound boots and resets (src/orchestrator.cpp, src/dbus_manager.cpp,     *)
(* src/hal).                                                               *)
(*                                                                         *)
(* The daemon is one sd-event loop.  A callback of the loop (a queue       *)
(* drain, a timer, a D-Bus method) runs to completion; the calls it has    *)
(* still to make are the sequence todo, and no other callback starts       *)
(* before todo is empty.  gpio-mon and the clients are other processes,    *)
(* but nothing a running callback does depends on what they do meanwhile:  *)
(* a step of theirs during a callback is the same as one right after it,   *)
(* and is taken there.                                                     *)
(***************************************************************************)
EXTENDS FsmHierarchy, LpuTelemetry, Sequences, FiniteSets

CONSTANTS
    Lines,          \* the PG and BC input lines
    ActiveLow,      \* the lines whose descriptor polarity is active-low
    PgLine, BcLine, \* the PG and the BC line of every element
    InitOrder,      \* the elements in the order initFromDescriptor made them
    Calls, NoCall,  \* D-Bus method calls in progress at a time
    Kinds,          \* reset kinds the clients ask for
    PulseResults,   \* what actuating a reset line may answer
    ReadMayFail,    \* whether gpio-mon's ReadGpio may fail
    LogDev,         \* the LPUs whose log device opened
    VrCalls,        \* arguments of the SetVrTelemetryEnabled calls
    IoctlResults,   \* what a polling ioctl may answer
    MaxTelemetryRetry,  \* kMaxTelemetryRetryAttempts
    MaxReports,     \* bound on line reports in flight
    MayRestart      \* whether the daemon may be restarted

Levels == {"lo", "hi"}
Unbound == "unbound"
Outcomes == {"Ok", "NotSupported", "NotPresent", "PulseFailed"}

ASSUME LinesAssumption ==
    /\ IsFiniteSet(Lines)
    /\ PgLine \in [Elements -> Lines]
    /\ BcLine \in [Elements -> Lines]
    /\ \A e, f \in Elements : PgLine[e] # BcLine[f]
    /\ ActiveLow \subseteq Lines
    /\ InitOrder \in Seq(Elements)
    /\ \A e \in Elements : \E i \in 1..Len(InitOrder) : InitOrder[i] = e
    /\ \A i, j \in 1..Len(InitOrder) : InitOrder[i] = InitOrder[j] => i = j

ASSUME ServiceAssumption ==
    /\ NoCall \notin Calls
    /\ Kinds \subseteq {"Warm", "Cold", "PowerCycle"}
    /\ PulseResults \subseteq {"Ok", "Absent", "HwError"}
    /\ ReadMayFail \in BOOLEAN
    /\ LogDev \subseteq Lpus
    /\ VrCalls \subseteq BOOLEAN
    /\ IoctlResults \subseteq BOOLEAN /\ IoctlResults # {}
    /\ MaxTelemetryRetry \in Nat \ {0}
    /\ MaxReports \in Nat
    /\ MayRestart \in BOOLEAN

VARIABLES
    level,          \* gpio-mon: electrical level of each line, or Unbound
    signals,        \* reports on the bus, not yet seen by the daemon
    pendingQueue,   \* DBusManager::pendingQueue_
    cached,         \* SharedLine cache: last logical level of each line
    todo,           \* the calls the running callback has still to make
    pendingResets,  \* pendingResets_: the call waiting for each element
    telemetry,      \* polling state of each LPU
    calls           \* the clients' Reset and ResetAll calls

lineVars == <<level, signals, pendingQueue>>
vars == <<elements, modules, tray, level, signals, pendingQueue, cached,
          todo, pendingResets, telemetry, calls>>

Idle == todo = <<>>

(* PendingReply of a call, with the Tracker of requestResetAllSync: how    *)
(* many results the reply still needs and the elements that delivered one. *)
(* What an answered call was answered is not kept.                         *)
IdleCall == [status |-> "idle", missing |-> 0, got |-> {}]
OpenCall(missing, got) == [status |-> "open", missing |-> missing, got |-> got]
RepliedCall == [status |-> "replied", missing |-> 0, got |-> {}]

Init ==
    /\ FsmInit
    /\ level = [l \in Lines |-> Unbound]
    /\ signals = <<>>
    /\ pendingQueue = <<>>
    /\ cached = [l \in Lines |-> FALSE]
    /\ todo = <<>>
    /\ pendingResets = [e \in Elements |-> NoCall]
    /\ telemetry = [e \in Lpus |-> InitTelemetry]
    /\ calls = [c \in Calls |-> IdleCall]

-----------------------------------------------------------------------------
(* The calls a callback makes.                                             *)
Notify(l, v)        == [op |-> "notify", line |-> l, value |-> v]
PgEdge(e, asserted) == [op |-> "pgEdge", el |-> e, asserted |-> asserted]
Emit(e, ev)         == [op |-> "emit", el |-> e, event |-> ev]
Pulse(e, kind)      == [op |-> "pulse", el |-> e, kind |-> kind]
AssertReset(e, kind) == [op |-> "assert", el |-> e, kind |-> kind]
Released(e)         == [op |-> "released", el |-> e]
Complete(e, out)    == [op |-> "complete", el |-> e, outcome |-> out]
EraseTimer(e)       == [op |-> "eraseTimer", el |-> e]

(* SharedLine::notifyExternal and bootCompleteLogicallyAsserted            *)
Logical(l, electrical) ==
    IF l \in ActiveLow THEN electrical = "lo" ELSE electrical = "hi"

(* gpio-mon reports a level: an edge, or the same level again after a      *)
(* re-snapshot.                                                            *)
Report(l, v) ==
    /\ Idle
    /\ Len(signals) + Len(pendingQueue) < MaxReports
    /\ level' = [level EXCEPT ![l] = v]
    /\ signals' = Append(signals, [line |-> l, value |-> v])
    /\ UNCHANGED <<elements, modules, tray, pendingQueue, cached, todo,
                   pendingResets, telemetry, calls>>

(* gpio-mon loses the line (its chip went away): nothing is injected.      *)
Unbind(l) ==
    /\ Idle
    /\ level[l] # Unbound
    /\ level' = [level EXCEPT ![l] = Unbound]
    /\ UNCHANGED <<elements, modules, tray, signals, pendingQueue, cached,
                   todo, pendingResets, telemetry, calls>>

(* DBusManager::injectLineState: queue the report, arm the drain source.   *)
injectLineState ==
    /\ Idle /\ signals # <<>>
    /\ pendingQueue' = Append(pendingQueue, Head(signals))
    /\ signals' = Tail(signals)
    /\ UNCHANGED <<elements, modules, tray, level, cached, todo,
                   pendingResets, telemetry, calls>>

(* drainPendingNotifies_: the whole queue, in order, in one callback.      *)
drainPendingNotifies ==
    /\ Idle /\ pendingQueue # <<>>
    /\ todo' = [i \in 1..Len(pendingQueue) |->
                   Notify(pendingQueue[i].line, pendingQueue[i].value)]
    /\ pendingQueue' = <<>>
    /\ UNCHANGED <<elements, modules, tray, level, signals, cached,
                   pendingResets, telemetry, calls>>

-----------------------------------------------------------------------------
(* Steps of a running callback: each takes the head of todo.               *)
Running(op) == todo # <<>> /\ Head(todo).op = op

(* A set of elements in the order initFromDescriptor made them, which is   *)
(* also that of the indices presentInstances sorts by: there is one such   *)
(* sequence.                                                               *)
InInitOrder(S) ==
    {s \in [1..Cardinality(S) -> S] :
        /\ \A e \in S : \E i \in DOMAIN s : s[i] = e
        /\ \A i, j \in DOMAIN s : i < j =>
              \E k, n \in 1..Len(InitOrder) :
                  k < n /\ InitOrder[k] = s[i] /\ InitOrder[n] = s[j]}

(* The subscribers of a line; they are called in registration order.       *)
Subscribers(l) == {e \in Elements : PgLine[e] = l \/ BcLine[e] = l}

(* SharedLine::notifyExternal: set the cache, call every subscriber.       *)
StepNotify ==
    /\ Running("notify")
    /\ LET l == Head(todo).line
           asserted == Logical(l, Head(todo).value)
       IN  /\ cached' = [cached EXCEPT ![l] = asserted]
           /\ \E subs \in InInitOrder(Subscribers(l)) :
                todo' = [i \in 1..Len(subs) |->
                           IF PgLine[subs[i]] = l THEN PgEdge(subs[i], asserted)
                           ELSE Emit(subs[i], IF asserted THEN "BcHi" ELSE "BcLo")]
                        \o Tail(todo)
    /\ UNCHANGED <<elements, modules, tray, level, signals, pendingQueue,
                   pendingResets, telemetry, calls>>

(* emitPowerGoodEdge: a rising edge also replays a latched boot-complete,  *)
(* a falling edge forgets it.                                              *)
StepPgEdge ==
    /\ Running("pgEdge")
    /\ LET e == Head(todo).el
       IN  IF Head(todo).asserted
           THEN /\ todo' = <<Emit(e, "PgHi")>>
                           \o (IF cached[BcLine[e]] THEN <<Emit(e, "BcHi")>>
                               ELSE <<>>)
                           \o Tail(todo)
                /\ UNCHANGED cached
           ELSE /\ todo' = <<Emit(e, "PgLo")>> \o Tail(todo)
                /\ cached' = [cached EXCEPT ![BcLine[e]] = FALSE]
    /\ UNCHANGED <<elements, modules, tray, level, signals, pendingQueue,
                   pendingResets, telemetry, calls>>

(* The element FSM takes an event and the LPU's telemetry follows a change *)
(* of state.                                                               *)
Follow(e) ==
    IF e \in LogDev /\ elements'[e].state # elements[e].state
    THEN \E t \in TelemetryOnStateChange(telemetry[e], elements[e].state,
                                         elements'[e].state, IoctlResults) :
            telemetry' = [telemetry EXCEPT ![e] = t]
    ELSE UNCHANGED telemetry

Dispatch(e, event) == DispatchElement(e, event) /\ Follow(e)

(* A call's callback is given one result; the reply goes out with the last *)
(* one (Tracker::add), and PendingReply ignores what comes after it.       *)
BugRepliesToFirst(call, e) == RepliedCall
BugWaitsForOneMore(call, e) ==
    IF call.status = "open" /\ call.missing > 0
    THEN OpenCall(call.missing - 1, call.got \cup {e})
    ELSE RepliedCall
AddResult(call, e) ==
    IF call.status = "open" /\ call.missing > 1
    THEN OpenCall(call.missing - 1, call.got \cup {e})
    ELSE RepliedCall

(* completePending_: drop the pending reset, then run its callback.        *)
completePending(e) ==
    IF pendingResets[e] = NoCall THEN UNCHANGED <<pendingResets, calls>>
    ELSE /\ pendingResets' = [pendingResets EXCEPT ![e] = NoCall]
         /\ calls' = [calls EXCEPT ![pendingResets[e]] = AddResult(@, e)]

(* Orchestrator::emit: dispatch, then a BcHi completes a pending reset.    *)
StepEmit ==
    /\ Running("emit")
    /\ Dispatch(Head(todo).el, Head(todo).event)
    /\ IF Head(todo).event = "BcHi" THEN completePending(Head(todo).el)
       ELSE UNCHANGED <<pendingResets, calls>>
    /\ todo' = Tail(todo)
    /\ UNCHANGED <<level, signals, pendingQueue, cached>>

(* The driver's reset / resetAssert: an LPU has only a warm reset.         *)
DriverReset(e, kind) ==
    IF e \in Lpus /\ kind # "Warm" THEN {"NotSupported"} ELSE PulseResults

OutcomeOf(result) ==
    CASE result = "NotSupported" -> "NotSupported"
      [] result = "Absent"       -> "NotPresent"
      [] OTHER                   -> "PulseFailed"

(* requestReset: RstAsserted, actuate the line, RstReleased in any case;   *)
(* then requestResetAsync completes a reset that did not go out.           *)
BugFailedPulseSkipsFsm ==
    /\ Running("pulse")
    /\ LET e == Head(todo).el
       IN  \E result \in DriverReset(e, Head(todo).kind) :
            \/ /\ result = "Ok"
               /\ Dispatch(e, "RstAsserted")
               /\ todo' = <<Released(e)>> \o Tail(todo)
            \/ /\ result # "Ok"
               /\ todo' = <<Complete(e, OutcomeOf(result))>> \o Tail(todo)
               /\ UNCHANGED <<elements, modules, tray, telemetry>>
    /\ UNCHANGED <<level, signals, pendingQueue, cached, pendingResets, calls>>
StepPulse ==
    /\ Running("pulse")
    /\ LET e == Head(todo).el
       IN  /\ Dispatch(e, "RstAsserted")
           /\ cached' = [cached EXCEPT ![BcLine[e]] = FALSE]
           /\ \E result \in DriverReset(e, Head(todo).kind) :
                todo' = <<Released(e)>>
                        \o (IF result = "Ok" THEN <<>>
                            ELSE <<Complete(e, OutcomeOf(result))>>)
                        \o Tail(todo)
    /\ UNCHANGED <<level, signals, pendingQueue, pendingResets, calls>>

(* One element of requestResetAllSync's phase 1; its phase-2 step runs     *)
(* after every element has been asserted.                                  *)
StepAssert ==
    /\ Running("assert")
    /\ LET e == Head(todo).el
       IN  /\ Dispatch(e, "RstAsserted")
           /\ \E result \in DriverReset(e, Head(todo).kind) :
                todo' = Append(Tail(todo),
                               IF result = "Ok" THEN Released(e)
                               ELSE Complete(e, OutcomeOf(result)))
    /\ UNCHANGED <<level, signals, pendingQueue, cached, pendingResets, calls>>

StepReleased ==
    /\ Running("released")
    /\ Dispatch(Head(todo).el, "RstReleased")
    /\ todo' = Tail(todo)
    /\ UNCHANGED <<level, signals, pendingQueue, cached, pendingResets, calls>>

StepComplete ==
    /\ Running("complete")
    /\ completePending(Head(todo).el)
    /\ todo' = Tail(todo)
    /\ UNCHANGED <<elements, modules, tray, level, signals, pendingQueue,
                   cached, telemetry>>

(* The boot timer's callback ends by dropping its entry of bootTimers_.    *)
StepEraseTimer ==
    /\ Running("eraseTimer")
    /\ elements' = [elements EXCEPT ![Head(todo).el].bootTimer = FALSE]
    /\ todo' = Tail(todo)
    /\ UNCHANGED <<modules, tray, level, signals, pendingQueue, cached,
                   pendingResets, telemetry, calls>>

Step == StepNotify \/ StepPgEdge \/ StepEmit \/ StepPulse \/ StepAssert
        \/ StepReleased \/ StepComplete \/ StepEraseTimer

-----------------------------------------------------------------------------
(* D-Bus methods.                                                          *)
(* resetEligible_: the element saw power-good at least once.               *)
resetEligible(e) == elements[e].seenPgHi

FreeCall(c) == Idle /\ calls[c].status # "open"

(* dispatchReset answered on the spot: the target is no element            *)
(* (NotPresent), another reset of the element is in flight (Busy), it      *)
(* never saw power (NotPresent), or the completion timer could not be      *)
(* armed (PulseFailed).                                                    *)
RejectReset(c, e) ==
    /\ FreeCall(c)
    /\ e \in Elements => \/ pendingResets[e] # NoCall
                         \/ ~resetEligible(e)
                         \/ FALSE \in TimerAdd
    /\ calls' = [calls EXCEPT ![c] = RepliedCall]
    /\ UNCHANGED <<elements, modules, tray, level, signals, pendingQueue,
                   cached, todo, pendingResets, telemetry>>

(* requestResetAsync: arm the completion wait, forget the boot-complete    *)
(* latch, then reset.                                                      *)
requestResetAsync(c, e, kind) ==
    /\ FreeCall(c)
    /\ pendingResets[e] = NoCall /\ resetEligible(e)
    /\ TRUE \in TimerAdd
    /\ pendingResets' = [pendingResets EXCEPT ![e] = c]
    /\ calls' = [calls EXCEPT ![c] = OpenCall(1, {})]
    /\ cached' = [cached EXCEPT ![BcLine[e]] = FALSE]
    /\ todo' = <<Pulse(e, kind)>>
    /\ UNCHANGED <<elements, modules, tray, level, signals, pendingQueue,
                   telemetry>>

(* requestResetAllSync on a class of elements: never-powered ones are left *)
(* out, busy ones are answered Busy, the rest are armed and then asserted  *)
(* back to back.                                                           *)
requestResetAllSync(c, class, kind) ==
    /\ FreeCall(c)
    /\ LET eligible == {e \in class : resetEligible(e)}
           busy == {e \in eligible : pendingResets[e] # NoCall}
       IN  \E armed \in SUBSET (eligible \ busy) :
            LET unarmed == eligible \ (busy \cup armed)
            IN  /\ armed # {} => TRUE \in TimerAdd
                /\ unarmed # {} => FALSE \in TimerAdd
                /\ calls' = [calls EXCEPT ![c] =
                      IF armed = {} THEN RepliedCall
                      ELSE OpenCall(Cardinality(armed), busy \cup unarmed)]
                /\ pendingResets' = [e \in Elements |->
                      IF e \in armed THEN c ELSE pendingResets[e]]
                /\ cached' = [l \in Lines |->
                      cached[l] /\ \A e \in armed : BcLine[e] # l]
                /\ \E steps \in InInitOrder(armed) :
                     todo' = [i \in 1..Len(steps) |-> AssertReset(steps[i], kind)]
    /\ UNCHANGED <<elements, modules, tray, level, signals, pendingQueue,
                   telemetry>>

(* SetVrTelemetryEnabled on an LPU.                                        *)
setVrTelemetryConfigured(e, enable) ==
    /\ Idle
    /\ \E t \in (IF e \in LogDev
                 THEN TelemetryConfigured(telemetry[e], enable,
                                          elements[e].state, IoctlResults)
                 ELSE {[telemetry[e] EXCEPT !.configured = enable]}) :
         telemetry' = [telemetry EXCEPT ![e] = t]
    /\ UNCHANGED <<elements, modules, tray, level, signals, pendingQueue,
                   cached, todo, pendingResets, calls>>

-----------------------------------------------------------------------------
(* Timers.                                                                 *)

(* tryRecoverStickyBc_: a synchronous read of the line at gpio-mon, which  *)
(* sees the line now whatever reports are still queued.                    *)
StickyReads(e) ==
    {level[BcLine[e]]} \cup (IF ReadMayFail THEN {Unbound} ELSE {})
Sticky(e, v) == v # Unbound /\ Logical(BcLine[e], v)

(* The deadline of a pending reset.                                        *)
ResetDeadline(e) ==
    /\ Idle /\ pendingResets[e] # NoCall
    /\ \E v \in StickyReads(e) :
         \/ /\ Sticky(e, v)
            /\ todo' = <<Notify(BcLine[e], v), Complete(e, "Ok")>>
            /\ UNCHANGED <<pendingResets, calls>>
         \/ /\ ~Sticky(e, v)
            /\ completePending(e)
            /\ UNCHANGED todo
    /\ UNCHANGED <<elements, modules, tray, level, signals, pendingQueue,
                   cached, telemetry>>

(* The boot deadline of an element.                                        *)
BugExpiryOnlyDropsTimer(e) ==
    /\ Idle /\ elements[e].bootTimer
    /\ elements' = [elements EXCEPT ![e].bootTimer = FALSE]
    /\ UNCHANGED <<modules, tray, level, signals, pendingQueue, cached, todo,
                   pendingResets, telemetry, calls>>
BootDeadline(e) ==
    /\ Idle /\ elements[e].bootTimer
    /\ \E v \in StickyReads(e) :
         \/ /\ Sticky(e, v)
            /\ todo' = <<Notify(BcLine[e], v), EraseTimer(e)>>
            /\ UNCHANGED <<elements, modules, tray, telemetry>>
         \/ /\ ~Sticky(e, v)
            /\ ExpireBootTimer(e) /\ Follow(e)
            /\ UNCHANGED todo
    /\ UNCHANGED <<level, signals, pendingQueue, cached, pendingResets, calls>>

(* handleTelemetryRetry_                                                   *)
TelemetryRetry(e) ==
    /\ Idle /\ telemetry[e].retry > 0
    /\ \E t \in TelemetryRetryFired(telemetry[e], elements[e].state,
                                    MaxTelemetryRetry, IoctlResults) :
         telemetry' = [telemetry EXCEPT ![e] = t]
    /\ UNCHANGED <<elements, modules, tray, level, signals, pendingQueue,
                   cached, todo, pendingResets, calls>>

-----------------------------------------------------------------------------
(* systemd restarts the daemon: everything in memory starts over, the      *)
(* clients' calls fail, and the subscriber's snapshot reports every bound  *)
(* line once, in some order.  The driver's init turns polling off.         *)
BoundLines == {l \in Lines : level[l] # Unbound}
Restart ==
    /\ MayRestart
    /\ elements' = [e \in Elements |-> InitElement]
    /\ modules' = [m \in Wired |-> InitModule]
    /\ tray' = InitTray(Modules, TrayFpgas)
    /\ \E order \in [1..Cardinality(BoundLines) -> BoundLines] :
         /\ \A l \in BoundLines : \E i \in DOMAIN order : order[i] = l
         /\ signals' = [i \in DOMAIN order |->
                          [line |-> order[i], value |-> level[order[i]]]]
    /\ pendingQueue' = <<>>
    /\ cached' = [l \in Lines |-> FALSE]
    /\ todo' = <<>>
    /\ pendingResets' = [e \in Elements |-> NoCall]
    /\ \E ok \in [LogDev -> IoctlResults] :
         telemetry' = [e \in Lpus |->
            IF e \in LogDev
            THEN applyTelemetryPolling([InitTelemetry EXCEPT
                                           !.mask = telemetry[e].mask],
                                       FALSE, ok[e])
            ELSE InitTelemetry]
    /\ calls' = [c \in Calls |-> IF calls[c].status = "open" THEN IdleCall
                                 ELSE calls[c]]
    /\ UNCHANGED level

GpioMon == \E l \in Lines : Unbind(l) \/ \E v \in Levels : Report(l, v)

Client ==
    \/ \E c \in Calls :
        \/ \E e \in Elements \cup Modules : RejectReset(c, e)
        \/ \E kind \in Kinds :
            \/ \E e \in Elements : requestResetAsync(c, e, kind)
            \/ \E class \in {Lpus, Fpgas} : requestResetAllSync(c, class, kind)
    \/ \E e \in Lpus, enable \in VrCalls : setVrTelemetryConfigured(e, enable)

Timers ==
    \/ \E e \in Elements : ResetDeadline(e) \/ BootDeadline(e)
    \/ \E e \in Lpus : TelemetryRetry(e)

Next == GpioMon \/ injectLineState \/ drainPendingNotifies \/ Step \/ Client
        \/ Timers \/ Restart

Spec == Init /\ [][Next]_vars

-----------------------------------------------------------------------------
LineReport == [line: Lines, value: Levels]
Ops == [op: {"notify"}, line: Lines, value: Levels]
       \cup [op: {"pgEdge"}, el: Elements, asserted: BOOLEAN]
       \cup [op: {"emit"}, el: Elements, event: {"PgHi", "PgLo", "BcHi", "BcLo"}]
       \cup [op: {"pulse", "assert"}, el: Elements, kind: Kinds]
       \cup [op: {"released", "eraseTimer"}, el: Elements]
       \cup [op: {"complete"}, el: Elements, outcome: Outcomes]
Call == [status: {"idle", "open", "replied"}, missing: Nat,
         got: SUBSET Elements]

TypeOK ==
    /\ FsmTypeOK
    /\ level \in [Lines -> Levels \cup {Unbound}]
    /\ signals \in Seq(LineReport)
    /\ pendingQueue \in Seq(LineReport)
    /\ cached \in [Lines -> BOOLEAN]
    /\ todo \in Seq(Ops)
    /\ pendingResets \in [Elements -> Calls \cup {NoCall}]
    /\ telemetry \in [Lpus -> Telemetry(MaxTelemetryRetry)]
    /\ calls \in [Calls -> Call]

(* Between callbacks, an element that is Online has its boot-complete      *)
(* latched: no interleaving of line reports, resets, deadlines and sticky  *)
(* reads brings an element up on a boot-complete that was since withdrawn  *)
(* or invalidated by a reset or a power loss.                              *)
OnlineHasBootComplete ==
    Idle => \A e \in Elements :
               elements[e].state = "Online" => cached[BcLine[e]]

(* A method call waits for exactly the resets it started: an open call is  *)
(* short of as many results as there are pending resets that will deliver  *)
(* them, none of an element that is already in the reply, and an answered  *)
(* one has no reset left that could answer it again.  So every reply goes  *)
(* out once, with every element in it once.                                *)
CallAccounting ==
    \A c \in Calls :
        LET waiting == {e \in Elements : pendingResets[e] = c}
        IN  /\ calls[c].status = "open" =>
                  /\ Cardinality(waiting) = calls[c].missing
                  /\ waiting # {} /\ waiting \cap calls[c].got = {}
            /\ calls[c].status # "open" => waiting = {}

(* Telemetry polling follows the LPU between callbacks: polling is on      *)
(* exactly while the LPU is Online, VR polling needs the configuration,    *)
(* and a retry is armed only for a configured LPU that is Online.  Ioctl   *)
(* failures are only logged, so this is about ioctls that succeed.         *)
PollingFollowsOnline ==
    Idle /\ IoctlResults = {TRUE} =>
        \A e \in LogDev :
            /\ (telemetry[e].mask # "off") <=> (elements[e].state = "Online")
            /\ telemetry[e].mask = "all+vr" => telemetry[e].configured
            /\ telemetry[e].retry > 0 => /\ elements[e].state = "Online"
                                        /\ telemetry[e].configured
                                        /\ ~telemetry[e].selected

-----------------------------------------------------------------------------
(* The sd-event loop returns to its poll after every callback and          *)
(* dispatches each pending source in turn: a callback runs to its end, and *)
(* a source that stays pending (a readable bus, the armed drain, a timer   *)
(* that is not cancelled) is dispatched in the end, however many other     *)
(* callbacks run before it.  gpio-mon and the clients owe nothing.         *)
Fairness ==
    /\ <>[](~Idle) => []<><<Step>>_vars
    /\ <>[](signals # <<>>) => []<><<injectLineState>>_vars
    /\ <>[](pendingQueue # <<>>) => []<><<drainPendingNotifies>>_vars
    /\ \A e \in Elements :
        /\ <>[](pendingResets[e] # NoCall) => []<><<ResetDeadline(e)>>_vars
        /\ <>[](elements[e].bootTimer) => []<><<BootDeadline(e)>>_vars

FairSpec == Spec /\ Fairness

(* Every Reset and ResetAll call is answered: by boot-complete, by an      *)
(* error, or at the latest by the completion deadline.                     *)
CallsAreAnswered ==
    \A c \in Calls : calls[c].status = "open" ~> calls[c].status # "open"

(* The lines of a booted element as gpio-mon sees them.                    *)
Healthy(e) ==
    /\ level[PgLine[e]] # Unbound /\ Logical(PgLine[e], level[PgLine[e]])
    /\ level[BcLine[e]] # Unbound /\ Logical(BcLine[e], level[BcLine[e]])

(* An element whose power-good and boot-complete stay asserted while no    *)
(* reset of it is outstanding ends up Online and stays there once the      *)
(* daemon is not restarted any more, whatever edges were reordered,        *)
(* swallowed by a reset or lost before: the latch, the late-boot recovery  *)
(* and the sticky read between them cover every history but one, a         *)
(* ResetAll whose assert failed, which leaves the element in S_RESETTING   *)
(* for good (see ResettingIsTransient).                                    *)
HealthyComesOnline ==
    <>[][~Restart]_vars =>
        \A e \in Elements :
            <>[](/\ Healthy(e) /\ pendingResets[e] = NoCall
                 /\ elements[e].state # "Resetting")
                => <>[](elements[e].state = "Online")

-----------------------------------------------------------------------------
(* include/core/types.hpp: "Resetting, // S_RESETTING - vHMC drove reset   *)
(* low (transient)".  The daemon's own part of a reset is synchronous, so  *)
(* between callbacks no element is in S_RESETTING.  After a ResetAll whose *)
(* assert failed (an LPU asked for anything but a warm reset, for one) no  *)
(* RstReleased is dispatched, and boot-complete does not leave the state.  *)
ResettingIsTransient ==
    Idle => \A e \in Elements : elements[e].state # "Resetting"

=============================================================================
