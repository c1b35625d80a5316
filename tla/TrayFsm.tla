------------------------------ MODULE TrayFsm ------------------------------
(***************************************************************************)
(* The tray FSM (src/tray_fsm.cpp): one per chassis, aggregates every      *)
(* module and every FPGA the descriptor declares.  A child is written into *)
(* the tracked vectors before the table is consulted, in Maintenance too.  *)
(***************************************************************************)
EXTENDS TransitionTable, ElementFsm, ModuleFsm

TrayStates == {"Stby", "Booting", "Online", "Fault", "Maintenance"}

Tray(modules, fpgas) ==
    [state: TrayStates, moduleStates: [modules -> ModuleStates],
     fpgaStates: [fpgas -> ElementStates]]

InitTray(modules, fpgas) ==
    [state |-> "Stby", moduleStates |-> [m \in modules |-> "Stby"],
     fpgaStates |-> [f \in fpgas |-> "Stby"]]

ChildChanged == {"ModuleStateChanged", "FpgaStateChanged"}

(* The rows both kinds of child have.                                      *)
ChildRows(ev) == {
    TransitionRow("Stby", ev, "eventChildPowered", "Booting", "none"),
    TransitionRow("Booting", ev, "eventChildFault", "Fault", "none"),
    TransitionRow("Booting", ev, "allOnline", "Online", "none"),
    TransitionRow("Online", ev, "eventChildFault", "Fault", "none"),
    TransitionRow("Fault", ev, "allOnline", "Online", "none"),
    TransitionRow("Fault", ev, "eventChildPowered", "Booting", "none")}

OperatorRows == {
    TransitionRow("Online", "OpMaintenanceEnter", "always", "Maintenance",
                  "none"),
    TransitionRow("Maintenance", "OpMaintenanceExit", "anyChildFault",
                  "Fault", "none"),
    TransitionRow("Maintenance", "OpMaintenanceExit", "allOnlineNoFault",
                  "Online", "none"),
    TransitionRow("Maintenance", "OpMaintenanceExit", "otherwise",
                  "Booting", "none")}

TrayTable == ChildRows("ModuleStateChanged") \cup ChildRows("FpgaStateChanged")
             \cup OperatorRows

ChildrenOf(tray) ==
    {tray.moduleStates[m] : m \in DOMAIN tray.moduleStates}
    \cup {tray.fpgaStates[f] : f \in DOMAIN tray.fpgaStates}

BugForgetsFpgas(tray) ==
    \A m \in DOMAIN tray.moduleStates : tray.moduleStates[m] = "Online"
allChildrenOnline(tray) == ChildrenOf(tray) \subseteq {"Online"}

anyChildFault(tray) == "Fault" \in ChildrenOf(tray)

TrayGuard(guard, tray, newState) ==
    CASE guard = "eventChildPowered" -> newState = "Powered"
      [] guard = "eventChildFault"   -> newState = "Fault"
      [] guard = "allOnline"         -> allChildrenOnline(tray)
      [] guard = "anyChildFault"     -> anyChildFault(tray)
      [] guard = "allOnlineNoFault"  -> /\ ~anyChildFault(tray)
                                        /\ allChildrenOnline(tray)
      [] guard = "otherwise"         -> /\ ~anyChildFault(tray)
                                        /\ ~allChildrenOnline(tray)
      [] OTHER -> TRUE

TrayRows(tray, event, newState) ==
    {r \in Matching(TrayTable, tray.state, event) :
        TrayGuard(r.guard, tray, newState)}

TrayEngine(tray, event, newState) ==
    IF TrayRows(tray, event, newState) = {} THEN tray
    ELSE [tray EXCEPT !.state =
             (CHOOSE r \in TrayRows(tray, event, newState) : TRUE).to]

TrayModuleChanged(tray, m, newState) ==
    IF m \in DOMAIN tray.moduleStates
    THEN TrayEngine([tray EXCEPT !.moduleStates[m] = newState],
                    "ModuleStateChanged", newState)
    ELSE tray

TrayFpgaChanged(tray, f, newState) ==
    IF f \in DOMAIN tray.fpgaStates
    THEN TrayEngine([tray EXCEPT !.fpgaStates[f] = newState],
                    "FpgaStateChanged", newState)
    ELSE tray

(* Operator maintenance: the events carry no child.                        *)
TrayOperator(tray, event) == TrayEngine(tray, event, "none")

=============================================================================
