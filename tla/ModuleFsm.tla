----------------------------- MODULE ModuleFsm -----------------------------
(***************************************************************************)
(* The module FSM (src/module_fsm.cpp): aggregates two LPU elements.  The  *)
(* constructor takes two child ids; a module with one element passes the   *)
(* same id twice, and then only the first slot is ever written.            *)
(***************************************************************************)
EXTENDS TransitionTable, Integers, ElementFsm

ModuleStates == {"Stby", "Powered", "Online", "Resetting", "Fault"}

Module == [state: ModuleStates, childStates: [1..2 -> ElementStates]]

InitModule == [state |-> "Stby", childStates |-> [i \in 1..2 |-> "Stby"]]

ModuleTable ==
    LET Row(from, guard, to) ==
            TransitionRow(from, "LpuStateChanged", guard, to, "none")
    IN  {Row("Stby", "eventChildPowered", "Powered"),

         Row("Powered", "eventChildFault", "Fault"),
         Row("Powered", "allOnline", "Online"),

         Row("Online", "eventChildFault", "Fault"),
         Row("Online", "allResetting", "Resetting"),
         Row("Online", "eventChildPowered", "Powered"),

         Row("Resetting", "eventChildFault", "Fault"),
         Row("Resetting", "eventChildPowered", "Powered"),
         Row("Resetting", "allStby", "Stby"),

         Row("Fault", "allOnline", "Online"),
         Row("Fault", "eventChildPowered", "Powered"),
         Row("Fault", "allStby", "Stby")}

BugFirstChildDecides(childStates, s) == childStates[1] = s
allChildrenAre(childStates, s) == \A i \in 1..2 : childStates[i] = s

ModuleGuard(guard, childStates, newState) ==
    CASE guard = "eventChildPowered" -> newState = "Powered"
      [] guard = "eventChildFault"   -> newState = "Fault"
      [] guard = "allOnline"         -> allChildrenAre(childStates, "Online")
      [] guard = "allResetting"      -> allChildrenAre(childStates, "Resetting")
      [] guard = "allStby"           -> allChildrenAre(childStates, "Stby")

(* The first slot that holds the child, if any.                            *)
BugAlwaysFirstSlot(childIds, child) ==
    IF \E i \in 1..2 : childIds[i] = child THEN {1} ELSE {}
ChildSlot(childIds, child) ==
    IF childIds[1] = child THEN {1}
    ELSE IF childIds[2] = child THEN {2} ELSE {}

ModuleRows(mod, newState) ==
    {r \in Matching(ModuleTable, mod.state, "LpuStateChanged") :
        ModuleGuard(r.guard, mod.childStates, newState)}

ModuleEngine(mod, newState) ==
    IF ModuleRows(mod, newState) = {} THEN mod
    ELSE [mod EXCEPT !.state =
             (CHOOSE r \in ModuleRows(mod, newState) : TRUE).to]

(* The child's slot is written first, so the guards see the new vector.    *)
ModuleDispatch(mod, childIds, child, newState) ==
    IF ChildSlot(childIds, child) = {} THEN mod
    ELSE LET kids == [i \in 1..2 |->
                        IF i \in ChildSlot(childIds, child)
                        THEN newState ELSE mod.childStates[i]]
         IN  ModuleEngine([mod EXCEPT !.childStates = kids], newState)

=============================================================================
