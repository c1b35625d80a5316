--------------------------- MODULE GpioSubscriber ---------------------------
(***************************************************************************)
(* GpioPropertySubscriber (src/gpio_monitor_client.cpp,                    *)
(* include/gpio_property_logic.hpp): how the daemon follows the lines of   *)
(* gpio-mon, by D-Bus signals and an asynchronous GetManagedObjects        *)
(* snapshot that is taken at start, whenever gpio-mon appears, and again   *)
(* after a transient failure.  gpio-mon and the message bus are external.  *)
(*                                                                         *)
(* A line's level is a version number, so that an old level can be told    *)
(* from a new one; what the daemon can see is its parity (Value).          *)
(***************************************************************************)
EXTENDS Integers, Sequences

CONSTANTS
    Lines,        \* the input lines the descriptor names
    MaxAttempts,  \* SnapshotMachine::kDefaultMaxAttempts
    MaxVersion,   \* bound on the level changes of a line
    MaxOutages,   \* bound on the times gpio-mon or the chip of a line goes away
    MaxFailures   \* bound on failed snapshot calls

ASSUME BoundsAssumption ==
    /\ MaxAttempts \in Nat \ {0}
    /\ MaxVersion \in Nat /\ MaxOutages \in Nat /\ MaxFailures \in Nat

VARIABLES
    up,         \* gpio-mon owns its bus name
    version,    \* the version of each line's level
    bound,      \* the lines gpio-mon has bound
    requests,   \* GetManagedObjects calls sent and not answered, by serial
    inbox,      \* messages the daemon has still to process, in bus order
    byPath,     \* byPath_: the cached view of each line object
    machine,    \* SnapshotMachine: phase, attempts, everReady
    slot,       \* snapshotSlot_: the serial of the call it holds, or 0
    retryTimer, \* retrySource_ is armed
    injected,   \* the version last given to injectLineState, -1 for none
    sent, outages, failures   \* calls made; uses of the bounds

busVars == <<up, version, bound, outages>>
daemonVars == <<byPath, machine, slot, retryTimer, injected, sent>>
vars == <<busVars, requests, inbox, daemonVars, failures>>

Value(v) == v % 2 = 1

(* CachedLine; an absent entry of byPath_ reads as a default one.          *)
NoLine == [bound |-> FALSE, hasValue |-> FALSE, version |-> 0]
CachedLine == [bound: BOOLEAN, hasValue: BOOLEAN, version: 0..MaxVersion]

Phases == {"Idle", "InFlight", "Ready", "RetryWait"}

(* Messages.  A property an update does not carry is "same", or -1.        *)
Start == [type |-> "start"]
Props(l, b, v) == [type |-> "props", line |-> l, bound |-> b, version |-> v]
Removed(l) == [type |-> "removed", line |-> l]
Owner(appeared) == [type |-> "owner", appeared |-> appeared]
Tree(serial) == [type |-> "tree", serial |-> serial, boundLines |-> bound,
                 versions |-> version]
Error(serial, kind) == [type |-> "error", serial |-> serial, kind |-> kind]

-----------------------------------------------------------------------------
(* SnapshotMachine::onEvent: the machine and the actions it asks for.      *)
Answer(m, actions) == [machine |-> m, actions |-> actions]

(* A call is started unless one is outstanding.                            *)
BugOnlyFirstSnapshot(m) ==
    Answer(m, (IF m.phase = "RetryWait" THEN {"cancel"} ELSE {})
              \cup (IF m.phase # "InFlight" /\ ~m.everReady THEN {"dispatch"}
                    ELSE {}))
Restarted(m) ==
    Answer(m, (IF m.phase = "RetryWait" THEN {"cancel"} ELSE {})
              \cup (IF m.phase # "InFlight" THEN {"dispatch"} ELSE {}))

(* Retry, a bounded number of times.                                       *)
BugNoRetry(m) == Answer([m EXCEPT !.phase = "Idle"], {"cancel"})
CallFailedTransient(m) ==
    IF m.attempts >= MaxAttempts
    THEN Answer([m EXCEPT !.phase = IF m.everReady THEN "Ready" ELSE "Idle"],
                {"cancel"})
    ELSE Answer([m EXCEPT !.phase = "RetryWait"], {"arm"})

ServiceDeparted(m) ==
    Answer([m EXCEPT !.phase = "Idle", !.attempts = 0], {"clear", "cancel"})

onEvent(m, event) ==
    CASE event = "StartRequested" -> Restarted(m)
      [] event = "CallDispatched" ->
            Answer([m EXCEPT !.phase = "InFlight", !.attempts = @ + 1], {})
      [] event = "CallSucceeded" ->
            Answer([phase |-> "Ready", attempts |-> 0, everReady |-> TRUE],
                   {"cancel"})
      [] event = "CallFailedMissing" ->
            Answer([m EXCEPT !.phase = "Idle"], {"cancel"})
      [] event = "CallFailedTransient" -> CallFailedTransient(m)
      [] event = "RetryTimerFired" ->
            Answer(m, IF m.phase = "RetryWait" THEN {"dispatch"} ELSE {})
      [] event = "ServiceAppeared" -> Restarted([m EXCEPT !.attempts = 0])
      [] event = "ServiceDeparted" -> ServiceDeparted(m)

TimerAfterActions(a, armed) ==
    "arm" \in a.actions \/ (armed /\ "cancel" \notin a.actions)

(* dispatchSnapshotCall: the call goes out, or sd-bus refuses it and the   *)
(* failure is handled on the spot.  A call that is replaced is dropped.    *)
dispatchSnapshotCall(m, armed, live) ==
    \/ /\ machine' = onEvent(m, "CallDispatched").machine
       /\ slot' = sent + 1 /\ sent' = sent + 1
       /\ requests' = Append(requests, sent + 1)
       /\ retryTimer' = armed
       /\ UNCHANGED failures
    \/ /\ failures < MaxFailures
       /\ failures' = failures + 1
       /\ \E event \in {"CallFailedTransient"}
                       \cup (IF up THEN {} ELSE {"CallFailedMissing"}) :
             LET a == onEvent(m, event)
             IN  /\ machine' = a.machine
                 /\ retryTimer' = TimerAfterActions(a, armed)
       /\ slot' = live
       /\ UNCHANGED <<requests, sent>>

(* applyMachine, byPath_.clear() apart; live is what snapshotSlot_ holds   *)
(* and armed whether the retry timer is, when it is called.                *)
applyMachine(event, armed, live) ==
    LET a == onEvent(machine, event)
    IN  IF "dispatch" \in a.actions
        THEN dispatchSnapshotCall(a.machine, TimerAfterActions(a, armed), live)
        ELSE /\ machine' = a.machine
             /\ retryTimer' = TimerAfterActions(a, armed)
             /\ slot' = live
             /\ UNCHANGED <<requests, sent, failures>>

(* The daemon starts; the constructor runs before any message.             *)
Init ==
    /\ up \in BOOLEAN
    /\ version = [l \in Lines |-> 0]
    /\ bound \in SUBSET Lines
    /\ requests = <<>>
    /\ inbox = <<Start>>
    /\ byPath = [l \in Lines |-> NoLine]
    /\ machine = [phase |-> "Idle", attempts |-> 0, everReady |-> FALSE]
    /\ slot = 0 /\ retryTimer = FALSE
    /\ injected = [l \in Lines |-> -1]
    /\ sent = 0 /\ outages = 0 /\ failures = 0

-----------------------------------------------------------------------------
(* gpio-mon and the bus (external).                                        *)
Send(msgs) == inbox' = IF up THEN inbox \o msgs ELSE inbox

(* A line changes level; a bound one is reported.                          *)
Toggle(l) ==
    /\ version[l] < MaxVersion
    /\ version' = [version EXCEPT ![l] = @ + 1]
    /\ Send(IF l \in bound THEN <<Props(l, "same", version[l] + 1)>> ELSE <<>>)
    /\ UNCHANGED <<up, bound, outages, requests, daemonVars, failures>>

(* The line's chip goes away: Bound becomes false, or its object goes too. *)
Unbind(l) ==
    /\ l \in bound /\ outages < MaxOutages
    /\ outages' = outages + 1
    /\ bound' = bound \ {l}
    /\ Send(<<Props(l, "no", -1)>>) \/ Send(<<Removed(l)>>)
    /\ UNCHANGED <<up, version, requests, daemonVars, failures>>

(* It comes back: Bound and Value in one signal or one after the other.    *)
Bind(l) ==
    /\ l \notin bound
    /\ bound' = bound \cup {l}
    /\ \/ Send(<<Props(l, "yes", version[l])>>)
       \/ Send(<<Props(l, "yes", -1), Props(l, "same", version[l])>>)
    /\ UNCHANGED <<up, version, outages, requests, daemonVars, failures>>

(* gpio-mon answers a snapshot call with its state of this moment, or with *)
(* an error; nobody owning the name, the bus answers.                      *)
AnswerCall ==
    /\ requests # <<>>
    /\ requests' = Tail(requests)
    /\ \/ /\ up
          /\ inbox' = Append(inbox, Tree(Head(requests)))
          /\ UNCHANGED failures
       \/ /\ up /\ failures < MaxFailures
          /\ failures' = failures + 1
          /\ inbox' = Append(inbox, Error(Head(requests), "transient"))
       \/ /\ ~up
          /\ inbox' = Append(inbox, Error(Head(requests), "missing"))
          /\ UNCHANGED failures
    /\ UNCHANGED <<busVars, daemonVars>>

(* gpio-mon dies: the bus announces it and fails the calls that had        *)
(* reached it, in either order; the others are answered later.             *)
Depart ==
    /\ up /\ outages < MaxOutages
    /\ outages' = outages + 1
    /\ up' = FALSE
    /\ \E k \in 0..Len(requests) :
         LET failed == [i \in 1..k |-> Error(requests[i], "transient")]
         IN  /\ requests' = SubSeq(requests, k + 1, Len(requests))
             /\ \/ inbox' = inbox \o failed \o <<Owner(FALSE)>>
                \/ inbox' = inbox \o <<Owner(FALSE)>> \o failed
    /\ UNCHANGED <<version, bound, daemonVars, failures>>

Appear ==
    /\ ~up
    /\ up' = TRUE
    /\ inbox' = Append(inbox, Owner(TRUE))
    /\ UNCHANGED <<version, bound, outages, requests, daemonVars, failures>>

GpioMon ==
    \/ \E l \in Lines : Toggle(l) \/ Unbind(l) \/ Bind(l)
    \/ AnswerCall \/ Depart \/ Appear

-----------------------------------------------------------------------------
(* The daemon.                                                             *)
Received(type) == inbox # <<>> /\ Head(inbox).type = type

GpioPropertySubscriber ==
    /\ Received("start")
    /\ inbox' = Tail(inbox)
    /\ applyMachine("StartRequested", retryTimer, slot)
    /\ UNCHANGED <<busVars, byPath, injected>>

(* applyPropertyUpdate: merge, then decideInject.                          *)
Merge(c, b, v) ==
    [bound    |-> IF b = "same" THEN c.bound ELSE b = "yes",
     hasValue |-> c.hasValue \/ v # -1,
     version  |-> IF v = -1 THEN c.version ELSE v]
decideInject(c) == c.bound /\ c.hasValue

onPropertiesChanged ==
    /\ Received("props")
    /\ LET msg == Head(inbox)
           c == Merge(byPath[msg.line], msg.bound, msg.version)
       IN  /\ byPath' = [byPath EXCEPT ![msg.line] = c]
           /\ injected' = [injected EXCEPT ![msg.line] =
                             IF decideInject(c) THEN c.version ELSE @]
    /\ inbox' = Tail(inbox)
    /\ UNCHANGED <<busVars, requests, machine, slot, retryTimer, sent,
                   failures>>

onInterfacesRemoved ==
    /\ Received("removed")
    /\ byPath' = [byPath EXCEPT ![Head(inbox).line] = NoLine]
    /\ inbox' = Tail(inbox)
    /\ UNCHANGED <<busVars, requests, machine, slot, retryTimer, injected,
                   sent, failures>>

(* applySnapshotUpdate: as above, but a level the cache already holds is   *)
(* not injected again.                                                     *)
SnapshotRow(msg, l) ==
    Merge(byPath[l], IF l \in msg.boundLines THEN "yes" ELSE "no",
          msg.versions[l])
applySnapshotUpdate(old, c) ==
    decideInject(c) /\ ~(/\ old.hasValue /\ old.bound
                         /\ Value(old.version) = Value(c.version))

(* A synchronous call would take the reply before the signals queued ahead *)
(* of it.                                                                  *)
BugSynchronousReply ==
    \E i \in 1..Len(inbox) :
        /\ inbox[i].type = "tree" /\ inbox[i].serial = slot
        /\ byPath' = [l \in Lines |-> SnapshotRow(inbox[i], l)]
        /\ injected' = [l \in Lines |->
              IF applySnapshotUpdate(byPath[l], SnapshotRow(inbox[i], l))
              THEN inbox[i].versions[l] ELSE injected[l]]
        /\ inbox' = SubSeq(inbox, 1, i - 1) \o SubSeq(inbox, i + 1, Len(inbox))
        /\ applyMachine("CallSucceeded", retryTimer, 0)
        /\ UNCHANGED busVars

(* onSnapshotReply with a tree.                                            *)
onSnapshotReply ==
    /\ Received("tree") /\ Head(inbox).serial = slot
    /\ byPath' = [l \in Lines |-> SnapshotRow(Head(inbox), l)]
    /\ injected' = [l \in Lines |->
          IF applySnapshotUpdate(byPath[l], SnapshotRow(Head(inbox), l))
          THEN Head(inbox).versions[l] ELSE injected[l]]
    /\ inbox' = Tail(inbox)
    /\ applyMachine("CallSucceeded", retryTimer, 0)
    /\ UNCHANGED busVars

(* onSnapshotReply with an error.                                          *)
onSnapshotError ==
    /\ Received("error") /\ Head(inbox).serial = slot
    /\ inbox' = Tail(inbox)
    /\ applyMachine(IF Head(inbox).kind = "missing" THEN "CallFailedMissing"
                    ELSE "CallFailedTransient", retryTimer, 0)
    /\ UNCHANGED <<busVars, byPath, injected>>

(* sd-bus gives up on the call after its method timeout and delivers an    *)
(* error of its own.                                                       *)
CallTimeout ==
    /\ slot # 0 /\ failures < MaxFailures
    /\ failures' = failures + 1
    /\ LET a == onEvent(machine, "CallFailedTransient")
       IN  /\ machine' = a.machine
           /\ retryTimer' = TimerAfterActions(a, retryTimer)
    /\ slot' = 0
    /\ UNCHANGED <<busVars, requests, inbox, byPath, injected, sent>>

(* A reply whose slot was dropped or timed out reaches nobody.             *)
DropReply ==
    /\ Received("tree") \/ Received("error")
    /\ Head(inbox).serial # slot
    /\ inbox' = Tail(inbox)
    /\ UNCHANGED <<busVars, requests, daemonVars, failures>>

onNameOwnerChanged ==
    /\ Received("owner")
    /\ inbox' = Tail(inbox)
    /\ \/ /\ Head(inbox).appeared
          /\ applyMachine("ServiceAppeared", retryTimer, slot)
          /\ UNCHANGED byPath
       \/ /\ ~Head(inbox).appeared
          /\ applyMachine("ServiceDeparted", retryTimer, 0)
          /\ byPath' = [l \in Lines |-> NoLine]
    /\ UNCHANGED <<busVars, injected>>

retryTimerCb ==
    /\ retryTimer
    /\ applyMachine("RetryTimerFired", FALSE, slot)
    /\ UNCHANGED <<busVars, inbox, byPath, injected>>

Process == GpioPropertySubscriber \/ onPropertiesChanged \/ onInterfacesRemoved
           \/ onSnapshotReply \/ onSnapshotError \/ DropReply
           \/ onNameOwnerChanged

Next == GpioMon \/ Process \/ CallTimeout \/ retryTimerCb

Spec == Init /\ [][Next]_vars

(* The sd-event loop processes what arrives and fires the retry timer;     *)
(* gpio-mon answers a call (the bus, when it is gone).  Nothing makes a    *)
(* line change, fail or come back.                                         *)
FairSpec == Spec /\ WF_vars(Process) /\ WF_vars(retryTimerCb)
                 /\ WF_vars(AnswerCall)

-----------------------------------------------------------------------------
TypeOK ==
    /\ up \in BOOLEAN
    /\ version \in [Lines -> 0..MaxVersion]
    /\ bound \subseteq Lines
    /\ requests \in Seq(1..sent)
    /\ byPath \in [Lines -> CachedLine]
    /\ machine \in [phase: Phases, attempts: 0..MaxAttempts,
                    everReady: BOOLEAN]
    /\ slot \in 0..sent
    /\ retryTimer \in BOOLEAN
    /\ injected \in [Lines -> -1..MaxVersion]
    /\ sent \in Nat /\ outages \in 0..MaxOutages /\ failures \in 0..MaxFailures

(* A level the orchestrator has seen is never followed by an older one:    *)
(* snapshot replies and signals are applied in the order gpio-mon produced *)
(* them, across retries and restarts of gpio-mon (the file's comment on    *)
(* why the snapshot is asynchronous).                                      *)
SeenNeverGoesBack == [][\A l \in Lines : injected'[l] >= injected[l]]_vars

(* What the orchestrator last saw of a bound line is the line's level.     *)
Synced == \A l \in bound : /\ injected[l] # -1
                           /\ Value(injected[l]) = Value(version[l])

(* When nothing is on its way and gpio-mon is up, the orchestrator has the *)
(* level of every bound line: no combination of a missed signal, a cleared *)
(* cache and a suppressed snapshot row leaves it with an old one, as long  *)
(* as the retries are not used up.                                         *)
QuietMeansSynced ==
    /\ up /\ inbox = <<>> /\ slot = 0 /\ ~retryTimer
    /\ MaxFailures < MaxAttempts
    => Synced

(* Once gpio-mon stays up the subscriber catches up and stays so.          *)
CatchesUp == <>[]up => <>[]Synced

=============================================================================
