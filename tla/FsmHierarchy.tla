---------------------------- MODULE FsmHierarchy ----------------------------
(***************************************************************************)
(* The three FSM layers of pwrseq-monitor wired together, as               *)
(* Orchestrator::initFromDescriptor and the wire*Fsm_ functions wire them: *)
(* an element that changes state notifies its module (LPU) or the tray     *)
(* (FPGA), a module that changes state notifies the tray, all within one   *)
(* synchronous call.  Events reach the elements in any order; where they   *)
(* come from is the business of module Orchestrator, whose steps this      *)
(* module's steps abstract.                                                *)
(***************************************************************************)
EXTENDS TrayFsm

CONSTANTS
    Lpus,       \* LPU elements whose driver initialised
    Fpgas,      \* FPGA elements whose driver initialised
    Modules,    \* modules the descriptor declares
    TrayFpgas,  \* FPGAs the descriptor declares
    ChildIds,   \* child ids of every module that was not skipped
    TimerAdd    \* what sd_event_add_time may answer: TRUE (armed), FALSE

Elements == Lpus \cup Fpgas
Wired == DOMAIN ChildIds
SlotIds(m) == {ChildIds[m][1], ChildIds[m][2]}

(* initFromDescriptor: indices are handed out once, so an LPU sits in one  *)
(* module; skipped modules stay in the tray's vector.                      *)
ASSUME WiringAssumption ==
    /\ Lpus \cap Fpgas = {}
    /\ Fpgas \subseteq TrayFpgas
    /\ Wired \subseteq Modules
    /\ \A m \in Wired : /\ DOMAIN ChildIds[m] = 1..2
                        /\ SlotIds(m) \cap Fpgas = {}
    /\ \A e \in Lpus : \E m \in Wired : e \in SlotIds(m)
    /\ \A m, n \in Wired : SlotIds(m) \cap SlotIds(n) # {} => m = n
    /\ TimerAdd \subseteq BOOLEAN
    /\ TimerAdd # {}

(* elementToModule_                                                        *)
ModuleOf(e) == CHOOSE m \in Wired : e \in SlotIds(m)

VARIABLES
    elements,   \* elementByInstance_: the element FSMs, with bootTimers_
    modules,    \* moduleByInstance_: the module FSMs
    tray        \* trayFsm_

fsmVars == <<elements, modules, tray>>

FsmInit ==
    /\ elements = [e \in Elements |-> InitElement]
    /\ modules = [m \in Wired |-> InitModule]
    /\ tray = InitTray(Modules, TrayFpgas)

-----------------------------------------------------------------------------
(* wireModuleFsm_: a module that changes state tells the tray.             *)
NotifyModule(m, child, newState) ==
    LET now == ModuleDispatch(modules[m], ChildIds[m], child, newState)
    IN  /\ modules' = [modules EXCEPT ![m] = now]
        /\ tray' = IF now.state = modules[m].state THEN tray
                   ELSE TrayModuleChanged(tray, m, now.state)

(* wireElementFsm_'s onStateChange, its upward half.                       *)
OnElementStateChange(e, newState) ==
    \/ /\ e \in Lpus
       /\ NotifyModule(ModuleOf(e), e, newState)
    \/ /\ e \in Fpgas
       /\ tray' = TrayFpgaChanged(tray, e, newState)
       /\ UNCHANGED modules

(* The element takes its new value; a change of state goes up.             *)
SetElement(e, now) ==
    /\ elements' = [elements EXCEPT ![e] = now]
    /\ \/ now.state = elements[e].state /\ UNCHANGED <<modules, tray>>
       \/ now.state # elements[e].state /\ OnElementStateChange(e, now.state)

(* ElementFsm::dispatch with every event but the boot deadline.            *)
DispatchElement(e, event) ==
    \E now \in {ElementDispatch(elements[e], event, armed) : armed \in TimerAdd} :
        SetElement(e, now)

(* The boot timer's callback when no sticky boot-complete was found:       *)
(* dispatch EV_TBOOT_EXPIRED, then drop the timer from bootTimers_.        *)
ExpireBootTimer(e) ==
    /\ elements[e].bootTimer
    /\ \E armed \in TimerAdd :
        SetElement(e, [ElementDispatch(elements[e], "TBootExpired", armed)
                          EXCEPT !.bootTimer = FALSE])

(* Operator maintenance toggles, delivered to the tray FSM.                *)
OperatorEvent(event) ==
    /\ tray' = TrayOperator(tray, event)
    /\ UNCHANGED <<elements, modules>>

LineAndResetEvents == ElementEvents \ {"TBootExpired"}

FsmNext ==
    \/ \E e \in Elements :
        \/ \E event \in LineAndResetEvents : DispatchElement(e, event)
        \/ ExpireBootTimer(e)
    \/ OperatorEvent("OpMaintenanceEnter")
    \/ OperatorEvent("OpMaintenanceExit")

FsmSpec == FsmInit /\ [][FsmNext]_fsmVars

-----------------------------------------------------------------------------
FsmTypeOK ==
    /\ elements \in [Elements -> Element]
    /\ modules \in [Wired -> Module]
    /\ tray \in Tray(Modules, TrayFpgas)

(* startBootTimer_ overwrites the map entry without dropping the old timer,*)
(* and a timer that outlives S_POWERED would later fault a healthy         *)
(* element.  An armed boot deadline therefore belongs to an element in     *)
(* S_POWERED, whatever sequence of events led there.                       *)
BootTimerOnlyWhenPowered ==
    \A e \in Elements : elements[e].bootTimer => elements[e].state = "Powered"

(* The converse, when sd_event_add_time never fails: no element waits in   *)
(* S_POWERED without a deadline, so a hung boot cannot go unnoticed.       *)
PoweredHasBootTimer ==
    TimerAdd = {TRUE} =>
        \A e \in Elements :
            elements[e].state = "Powered" => elements[e].bootTimer

(* The fault code and the state agree: guardLateBootRecovery and the       *)
(* journal read faultCode only in S_FAULT, and no other state keeps one.   *)
FaultCodeMatchesState ==
    \A e \in Elements :
        (elements[e].faultCode # "None") = (elements[e].state = "Fault")

(* What a slot of a module must hold: the state of its element when the    *)
(* slot is the one dispatch() finds; Stby for a child that never came up   *)
(* and for the second slot of a one-element module.                        *)
SlotView(m, i) ==
    IF ChildIds[m][i] \in Lpus /\ i \in ChildSlot(ChildIds[m], ChildIds[m][i])
    THEN elements[ChildIds[m][i]].state ELSE "Stby"

(* Every aggregate tracks what it aggregates: the callbacks reach the      *)
(* right module, the right slot and the right tray entry, after every      *)
(* single dispatch.                                                        *)
AggregatesTrackChildren ==
    /\ \A m \in Wired : \A i \in 1..2 :
        modules[m].childStates[i] = SlotView(m, i)
    /\ \A m \in Modules :
        tray.moduleStates[m] = IF m \in Wired THEN modules[m].state ELSE "Stby"
    /\ \A f \in TrayFpgas :
        tray.fpgaStates[f] = IF f \in Fpgas THEN elements[f].state ELSE "Stby"

(* A module that reports Online hides no child that is faulted or still    *)
(* booting; one that reports Stby has every child in Stby.                 *)
ModuleHidesNothing ==
    \A m \in Wired : \A i \in 1..2 :
        /\ modules[m].state = "Online" =>
              modules[m].childStates[i] \in {"Online", "Resetting", "Stby"}
        /\ modules[m].state = "Stby" => modules[m].childStates[i] = "Stby"

(* The tray reports Online only while none of its modules and FPGAs is in  *)
(* fault, through maintenance too: leaving T_MAINTENANCE re-evaluates the  *)
(* children it tracked meanwhile.  In T_STBY every child is in standby.    *)
TrayHidesNoFault ==
    /\ tray.state = "Online" => ~anyChildFault(tray)
    /\ tray.state = "Stby" => ChildrenOf(tray) \subseteq {"Stby"}

=============================================================================
