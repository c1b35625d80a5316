------------------------ MODULE Orchestrator_proofs ------------------------
(***************************************************************************)
(* Proofs about the FSM layers (module FsmHierarchy), for every tray that  *)
(* satisfies WiringAssumption: any number of modules, LPUs and FPGAs,      *)
(* fully populated or not, whether or not timers can always be armed;      *)
(* then about the daemon (module Orchestrator): for every tray, every      *)
(* assignment of lines, any number of clients' calls in progress and any   *)
(* outcome of pulses, reads, ioctls and timers, with restarts.             *)
(***************************************************************************)
EXTENDS Orchestrator, FiniteSetTheorems, TLAPS

-----------------------------------------------------------------------------
(* One element.                                                            *)

(* What an element is between two dispatches: an armed boot deadline       *)
(* belongs to S_POWERED, a fault code to S_FAULT.                          *)
GoodElement(el) ==
    /\ el \in Element
    /\ el.bootTimer => el.state = "Powered"
    /\ (el.faultCode # "None") <=> (el.state = "Fault")

(* Rows of the element table: timers are started on the way to S_POWERED   *)
(* and cancelled on the way out, except by the deadline's own event; fault *)
(* codes are set on the way to S_FAULT and cleared on the way out; S_STBY  *)
(* is left for S_POWERED only.                                             *)
LEMMA ElementRowFacts ==
    \A r \in ElementTable :
        /\ r.to \in ElementStates
        /\ r.action \in {"startTBoot", "clearFaultAndStartTBoot"}
              => r.to = "Powered"
        /\ r.from = "Powered" /\ r.event # "TBootExpired"
              => r.action = "cancelTBoot"
        /\ r.to = "Fault" <=> r.action \in {"setFaultBootTimeout",
                                "setFaultBootRegress", "setFaultPgoodDrop"}
        /\ r.from = "Fault"
              => r.action \in {"clearFault", "clearFaultAndStartTBoot"}
        /\ r.from = "Stby" => r.to \in {"Stby", "Powered"}
  BY DEF ElementTable, TransitionRow, ElementStates

(* A row the engine may take is a row of the element table, for the state  *)
(* and the event at hand.                                                  *)
LEMMA ElementRowOfRows ==
    ASSUME NEW el, NEW event, NEW r \in ElementRows(el, event)
    PROVE  r \in ElementTable /\ r.from = el.state /\ r.event = event
  BY DEF ElementRows, Matching

(* What a dispatch makes of an element.  Only the boot deadline's event    *)
(* may leave the timer of a state it leaves armed: the timer's callback    *)
(* drops it.                                                               *)
LEMMA DispatchFacts ==
    ASSUME NEW el, GoodElement(el), NEW event \in ElementEvents,
           NEW armed \in BOOLEAN
    PROVE  LET now == ElementDispatch(el, event, armed)
           IN  /\ now \in Element
               /\ (now.faultCode # "None") <=> (now.state = "Fault")
               /\ event # "TBootExpired" => GoodElement(now)
               /\ el.state = "Stby" => now.state \in {"Stby", "Powered"}
<1> DEFINE now == ElementDispatch(el, event, armed)
<1>1. CASE ElementRows(el, event) = {}
  BY <1>1 DEF ElementDispatch, GoodElement
<1>2. CASE ElementRows(el, event) # {}
  <2> DEFINE row == CHOOSE r \in ElementRows(el, event) : TRUE
  <2>1. row \in ElementRows(el, event)
    BY <1>2
  <2>2. row \in ElementTable /\ row.from = el.state /\ row.event = event
    BY <2>1, ElementRowOfRows
  <2> HIDE DEF row
  <2>3. now = [state     |-> row.to,
               faultCode |-> FaultAfter(row.action, el.faultCode),
               bootTimer |-> TimerAfter(row.action, el.bootTimer, armed),
               seenPgHi  |-> el.seenPgHi \/ event = "PgHi"]
    BY <1>2 DEF ElementDispatch, row
  <2>4. FaultAfter(row.action, el.faultCode) \in FaultCodes
    BY DEF FaultAfter, FaultCodes, GoodElement, Element
  <2>5. TimerAfter(row.action, el.bootTimer, armed) \in BOOLEAN
    BY DEF TimerAfter, GoodElement, Element
  <2>6. (el.seenPgHi \/ event = "PgHi") \in BOOLEAN
    BY DEF GoodElement, Element
  <2>7. now \in Element
    BY <2>2, <2>3, <2>4, <2>5, <2>6, ElementRowFacts DEF Element
  <2>8. (FaultAfter(row.action, el.faultCode) # "None") <=> (row.to = "Fault")
    BY <2>2, ElementRowFacts DEF FaultAfter, GoodElement
  <2>9. ASSUME event # "TBootExpired",
               TimerAfter(row.action, el.bootTimer, armed)
        PROVE  row.to = "Powered"
    BY <2>2, <2>9, ElementRowFacts DEF TimerAfter, GoodElement
  <2> QED
    BY <2>2, <2>3, <2>7, <2>8, <2>9, ElementRowFacts DEF GoodElement
<1> QED
  BY <1>1, <1>2

(* The boot deadline's callback (startBootTimer_) leaves a good element:   *)
(* the entry of bootTimers_ is dropped after the dispatch.                 *)
LEMMA ExpiryFacts ==
    ASSUME NEW el, GoodElement(el), NEW armed \in BOOLEAN
    PROVE  LET now == [ElementDispatch(el, "TBootExpired", armed)
                          EXCEPT !.bootTimer = FALSE]
           IN  /\ GoodElement(now)
               /\ el.state = "Stby" => now.state \in {"Stby", "Powered"}
<1> DEFINE d == ElementDispatch(el, "TBootExpired", armed)
<1>1. /\ d \in Element
      /\ (d.faultCode # "None") <=> (d.state = "Fault")
      /\ el.state = "Stby" => d.state \in {"Stby", "Powered"}
  BY DispatchFacts DEF ElementEvents
<1> HIDE DEF d
<1>2. /\ [d EXCEPT !.bootTimer = FALSE] \in Element
      /\ [d EXCEPT !.bootTimer = FALSE].state = d.state
      /\ [d EXCEPT !.bootTimer = FALSE].faultCode = d.faultCode
      /\ [d EXCEPT !.bootTimer = FALSE].bootTimer = FALSE
  BY <1>1 DEF Element
<1>3. /\ GoodElement([d EXCEPT !.bootTimer = FALSE])
      /\ el.state = "Stby" =>
            [d EXCEPT !.bootTimer = FALSE].state \in {"Stby", "Powered"}
  BY <1>1, <1>2 DEF GoodElement
<1> QED
  BY <1>3 DEF d

-----------------------------------------------------------------------------
(* One module.                                                             *)

(* A module that reports Online hides no faulted or booting child, one     *)
(* that reports Stby has every child in Stby.                              *)
HonestModule(mod) ==
    \A i \in 1..2 :
        /\ mod.state = "Online" =>
              mod.childStates[i] \in {"Online", "Resetting", "Stby"}
        /\ mod.state = "Stby" => mod.childStates[i] = "Stby"

(* Rows of the module table: M_ONLINE and M_STBY are entered on all        *)
(* children only, M_STBY is left for M_POWERED only.                       *)
LEMMA ModuleRowFacts ==
    \A r \in ModuleTable :
        /\ r.to \in ModuleStates
        /\ r.from = "Stby" => r.to = "Powered"
        /\ r.to = "Online" => r.guard = "allOnline"
        /\ r.to = "Stby" => r.guard = "allStby"
  BY DEF ModuleTable, TransitionRow, ModuleStates

(* A row the engine may take is a row of the module table whose guard      *)
(* holds.                                                                  *)
LEMMA ModuleRowOfRows ==
    ASSUME NEW mod, NEW s, NEW r \in ModuleRows(mod, s)
    PROVE  /\ r \in ModuleTable /\ r.from = mod.state
           /\ ModuleGuard(r.guard, mod.childStates, s)
  BY DEF ModuleRows, Matching

(* Rows that must be there: a child's fault or a child that is powered     *)
(* again is answered in M_ONLINE, the first powered child in M_STBY.       *)
LEMMA ModuleRowsExist ==
    ASSUME NEW mod, NEW s,
           \/ mod.state = "Online" /\ s \in {"Fault", "Powered"}
           \/ mod.state = "Stby" /\ s = "Powered"
    PROVE  ModuleRows(mod, s) # {}
<1> DEFINE Row(from, guard, to) ==
             TransitionRow(from, "LpuStateChanged", guard, to, "none")
<1>1. /\ Row("Online", "eventChildFault", "Fault") \in ModuleTable
      /\ Row("Online", "eventChildPowered", "Powered") \in ModuleTable
      /\ Row("Stby", "eventChildPowered", "Powered") \in ModuleTable
  BY DEF ModuleTable
<1>2. CASE mod.state = "Online" /\ s = "Fault"
  <2>1. Row("Online", "eventChildFault", "Fault") \in ModuleRows(mod, s)
    BY <1>1, <1>2 DEF ModuleRows, Matching, ModuleGuard, TransitionRow
  <2> QED
    BY <2>1
<1>3. CASE mod.state = "Online" /\ s = "Powered"
  <2>1. Row("Online", "eventChildPowered", "Powered") \in ModuleRows(mod, s)
    BY <1>1, <1>3 DEF ModuleRows, Matching, ModuleGuard, TransitionRow
  <2> QED
    BY <2>1
<1>4. CASE mod.state = "Stby" /\ s = "Powered"
  <2>1. Row("Stby", "eventChildPowered", "Powered") \in ModuleRows(mod, s)
    BY <1>1, <1>4 DEF ModuleRows, Matching, ModuleGuard, TransitionRow
  <2> QED
    BY <2>1
<1> QED
  BY <1>2, <1>3, <1>4

(* The engine on a vector that already holds the child's new state s, at   *)
(* some slot.                                                              *)
LEMMA ModuleEngineFacts ==
    ASSUME NEW mod \in Module, NEW s \in ElementStates,
           NEW i \in 1..2, mod.childStates[i] = s
    PROVE  LET now == ModuleEngine(mod, s)
           IN  /\ now \in Module
               /\ now.childStates = mod.childStates
               /\ mod.state = "Stby" => now.state \in {"Stby", "Powered"}
               /\ now.state = "Online" /\ mod.state # "Online" =>
                     allChildrenAre(now.childStates, "Online")
               /\ now.state = "Stby" /\ mod.state # "Stby" =>
                     allChildrenAre(now.childStates, "Stby")
               /\ mod.state = "Online" /\ s \in {"Fault", "Powered"} =>
                     now.state # "Online"
               /\ mod.state = "Stby" /\ s = "Powered" => now.state # "Stby"
<1> DEFINE now == ModuleEngine(mod, s)
<1>1. CASE ModuleRows(mod, s) = {}
  <2>1. now = mod
    BY <1>1 DEF ModuleEngine
  <2> QED
    BY <1>1, <2>1, ModuleRowsExist
<1>2. CASE ModuleRows(mod, s) # {}
  <2> DEFINE row == CHOOSE r \in ModuleRows(mod, s) : TRUE
  <2>1. row \in ModuleRows(mod, s)
    BY <1>2
  <2>2. /\ row \in ModuleTable /\ row.from = mod.state
        /\ ModuleGuard(row.guard, mod.childStates, s)
    BY <2>1, ModuleRowOfRows
  <2>3. now = [mod EXCEPT !.state = row.to]
    BY <1>2 DEF ModuleEngine
  <2> HIDE DEF row, now
  <2>4. now \in Module /\ now.state = row.to
        /\ now.childStates = mod.childStates
    BY <2>2, <2>3, ModuleRowFacts DEF Module
  <2>5. row.to = "Online" => allChildrenAre(mod.childStates, "Online")
    BY <2>2, ModuleRowFacts DEF ModuleGuard
  <2>6. row.to = "Stby" => allChildrenAre(mod.childStates, "Stby")
    BY <2>2, ModuleRowFacts DEF ModuleGuard
  <2>7. row.to = "Online" => s = "Online"
    BY <2>5 DEF allChildrenAre
  <2>8. row.to = "Stby" => s = "Stby"
    BY <2>6 DEF allChildrenAre
  <2>9. /\ now \in Module
        /\ now.childStates = mod.childStates
        /\ mod.state = "Stby" => now.state \in {"Stby", "Powered"}
        /\ now.state = "Online" /\ mod.state # "Online" =>
              allChildrenAre(now.childStates, "Online")
        /\ now.state = "Stby" /\ mod.state # "Stby" =>
              allChildrenAre(now.childStates, "Stby")
        /\ mod.state = "Online" /\ s \in {"Fault", "Powered"} =>
              now.state # "Online"
        /\ mod.state = "Stby" /\ s = "Powered" => now.state # "Stby"
    BY <2>2, <2>4, <2>5, <2>6, <2>7, <2>8, ModuleRowFacts
  <2> QED
    BY <2>9 DEF now
<1> QED
  BY <1>1, <1>2

(* A dispatch for a child of the module, whose state was the one the       *)
(* module tracks and, from Stby, can only have become Powered.             *)
LEMMA ModuleDispatchFacts ==
    ASSUME NEW mod \in Module, HonestModule(mod),
           NEW ids, NEW child, NEW s \in ElementStates,
           child \in {ids[1], ids[2]},
           \A i \in ChildSlot(ids, child) :
               mod.childStates[i] = "Stby" => s \in {"Stby", "Powered"}
    PROVE  LET now == ModuleDispatch(mod, ids, child, s)
           IN  /\ now \in Module /\ HonestModule(now)
               /\ \A i \in 1..2 : now.childStates[i] =
                     IF i \in ChildSlot(ids, child) THEN s
                     ELSE mod.childStates[i]
               /\ mod.state = "Stby" => now.state \in {"Stby", "Powered"}
<1> DEFINE kids == [i \in 1..2 |-> IF i \in ChildSlot(ids, child)
                                   THEN s ELSE mod.childStates[i]]
           mid == [mod EXCEPT !.childStates = kids]
           now == ModuleDispatch(mod, ids, child, s)
<1>1. PICK k \in 1..2 : ChildSlot(ids, child) = {k}
  BY DEF ChildSlot
<1>2. now = ModuleEngine(mid, s)
  BY <1>1 DEF ModuleDispatch
<1>3. kids \in [1..2 -> ElementStates] /\ kids[k] = s
  BY <1>1 DEF Module
<1>4. mid \in Module /\ mid.state = mod.state /\ mid.childStates = kids
  BY <1>3 DEF Module
<1> HIDE DEF mid, now
<1>5. /\ now \in Module
      /\ now.childStates = kids
      /\ mod.state = "Stby" => now.state \in {"Stby", "Powered"}
      /\ now.state = "Online" /\ mod.state # "Online" =>
            allChildrenAre(kids, "Online")
      /\ now.state = "Stby" /\ mod.state # "Stby" =>
            allChildrenAre(kids, "Stby")
      /\ mod.state = "Online" /\ s \in {"Fault", "Powered"} =>
            now.state # "Online"
      /\ mod.state = "Stby" /\ s = "Powered" => now.state # "Stby"
  BY <1>2, <1>3, <1>4, ModuleEngineFacts
<1>6. \A i \in 1..2 : kids[i] = IF i \in ChildSlot(ids, child) THEN s
                                ELSE mod.childStates[i]
  OBVIOUS
<1> HIDE DEF kids
<1>7. ASSUME NEW i \in 1..2, now.state = "Online"
      PROVE  kids[i] \in {"Online", "Resetting", "Stby"}
  <2>1. CASE mod.state # "Online"
    BY <1>5, <1>7, <2>1 DEF allChildrenAre
  <2>2. CASE mod.state = "Online"
    <3>1. s \in {"Online", "Resetting", "Stby"}
      BY <1>5, <1>7, <2>2 DEF ElementStates
    <3> QED
      BY <1>6, <2>2, <3>1 DEF HonestModule
  <2> QED
    BY <2>1, <2>2
<1>8. ASSUME NEW i \in 1..2, now.state = "Stby"
      PROVE  kids[i] = "Stby"
  <2>1. CASE mod.state # "Stby"
    BY <1>5, <1>8, <2>1 DEF allChildrenAre
  <2>2. CASE mod.state = "Stby"
    <3>1. mod.childStates[k] = "Stby"
      BY <2>2 DEF HonestModule
    <3>2. s = "Stby"
      BY <1>1, <1>5, <1>8, <2>2, <3>1
    <3> QED
      BY <1>6, <2>2, <3>2 DEF HonestModule
  <2> QED
    BY <2>1, <2>2
<1>9. now \in Module /\ HonestModule(now)
  BY <1>5, <1>7, <1>8 DEF HonestModule
<1> QED
  BY <1>5, <1>6, <1>9 DEF now

-----------------------------------------------------------------------------
(* The tray.                                                               *)

(* A tray whose reported state hides nothing (TrayHidesNoFault, of a value).*)
HonestTray(t) ==
    /\ t.state = "Online" => ~anyChildFault(t)
    /\ t.state = "Stby" => ChildrenOf(t) \subseteq {"Stby"}

(* Rows of the tray table: T_ONLINE is entered on all children only,       *)
(* T_STBY never.                                                           *)
LEMMA TrayRowFacts ==
    \A r \in TrayTable :
        /\ r.to \in TrayStates
        /\ r.to # "Stby"
        /\ r.to = "Online" => r.guard \in {"allOnline", "allOnlineNoFault"}
  BY DEF TrayTable, ChildRows, OperatorRows, TransitionRow, TrayStates

(* A row the engine may take is a row of the tray table whose guard holds. *)
LEMMA TrayRowOfRows ==
    ASSUME NEW t, NEW event, NEW s, NEW r \in TrayRows(t, event, s)
    PROVE  /\ r \in TrayTable /\ r.from = t.state /\ r.event = event
           /\ TrayGuard(r.guard, t, s)
  BY DEF TrayRows, Matching

(* Rows that must be there: T_ONLINE answers a child's fault, T_STBY a     *)
(* child that is powered, for modules and FPGAs alike.                     *)
LEMMA TrayRowsExist ==
    ASSUME NEW t, NEW event \in ChildChanged, NEW s,
           \/ t.state = "Online" /\ s = "Fault"
           \/ t.state = "Stby" /\ s = "Powered"
    PROVE  TrayRows(t, event, s) # {}
<1>1. /\ TransitionRow("Online", event, "eventChildFault", "Fault", "none")
             \in TrayTable
      /\ TransitionRow("Stby", event, "eventChildPowered", "Booting", "none")
             \in TrayTable
  BY DEF TrayTable, ChildRows, ChildChanged
<1>2. CASE t.state = "Online" /\ s = "Fault"
  <2>1. TransitionRow("Online", event, "eventChildFault", "Fault", "none")
           \in TrayRows(t, event, s)
    BY <1>1, <1>2 DEF TrayRows, Matching, TrayGuard, TransitionRow
  <2> QED
    BY <2>1
<1>3. CASE t.state = "Stby" /\ s = "Powered"
  <2>1. TransitionRow("Stby", event, "eventChildPowered", "Booting", "none")
           \in TrayRows(t, event, s)
    BY <1>1, <1>3 DEF TrayRows, Matching, TrayGuard, TransitionRow
  <2> QED
    BY <2>1
<1> QED
  BY <1>2, <1>3

(* The engine changes the state only; it enters T_ONLINE only when every   *)
(* child is online, and it answers the rows above.                         *)
LEMMA TrayEngineFacts ==
    ASSUME NEW t \in Tray(Modules, TrayFpgas), NEW event, NEW s
    PROVE  LET now == TrayEngine(t, event, s)
           IN  /\ now \in Tray(Modules, TrayFpgas)
               /\ now.moduleStates = t.moduleStates
               /\ now.fpgaStates = t.fpgaStates
               /\ now.state = "Stby" => now = t
               /\ now.state = "Online" => now = t \/ allChildrenOnline(t)
               /\ event \in ChildChanged /\ now = t =>
                     /\ ~(t.state = "Online" /\ s = "Fault"
                             /\ ~allChildrenOnline(t))
                     /\ ~(t.state = "Stby" /\ s = "Powered")
<1> DEFINE now == TrayEngine(t, event, s)
<1>1. CASE TrayRows(t, event, s) = {}
  <2>1. now = t
    BY <1>1 DEF TrayEngine
  <2> QED
    BY <1>1, <2>1, TrayRowsExist
<1>2. CASE TrayRows(t, event, s) # {}
  <2> DEFINE row == CHOOSE r \in TrayRows(t, event, s) : TRUE
  <2>1. row \in TrayRows(t, event, s)
    BY <1>2
  <2>2. /\ row \in TrayTable /\ row.from = t.state /\ row.event = event
        /\ TrayGuard(row.guard, t, s)
    BY <2>1, TrayRowOfRows
  <2>3. now = [t EXCEPT !.state = row.to]
    BY <1>2 DEF TrayEngine
  <2> HIDE DEF row, now
  <2>4. /\ now \in Tray(Modules, TrayFpgas) /\ now.state = row.to
        /\ now.moduleStates = t.moduleStates
        /\ now.fpgaStates = t.fpgaStates
    BY <2>2, <2>3, TrayRowFacts DEF Tray
  <2>5. row.to = "Online" => allChildrenOnline(t)
    BY <2>2, TrayRowFacts DEF TrayGuard
  <2>6. row.to # "Stby"
    BY <2>2, TrayRowFacts
  <2>7. /\ now \in Tray(Modules, TrayFpgas)
        /\ now.moduleStates = t.moduleStates
        /\ now.fpgaStates = t.fpgaStates
        /\ now.state = "Stby" => now = t
        /\ now.state = "Online" => now = t \/ allChildrenOnline(t)
        /\ event \in ChildChanged /\ now = t =>
              /\ ~(t.state = "Online" /\ s = "Fault" /\ ~allChildrenOnline(t))
              /\ ~(t.state = "Stby" /\ s = "Powered")
    BY <2>4, <2>5, <2>6
  <2> QED
    BY <2>7 DEF now
<1> QED
  BY <1>1, <1>2

(* A tray whose vectors already hold the child's new state s, and that     *)
(* held a Stby child only with s Stby or Powered.                          *)
LEMMA TrayHonestAfter ==
    ASSUME NEW t \in Tray(Modules, TrayFpgas), NEW event \in ChildChanged,
           NEW s \in ElementStates, NEW others, "Fault" \in others => t.state # "Online",
           t.state = "Stby" => others \subseteq {"Stby"} /\ s \in {"Stby", "Powered"},
           ChildrenOf(t) \subseteq others \cup {s}, s \in ChildrenOf(t)
    PROVE  HonestTray(TrayEngine(t, event, s))
<1> DEFINE now == TrayEngine(t, event, s)
<1>1. /\ now \in Tray(Modules, TrayFpgas)
      /\ now.moduleStates = t.moduleStates
      /\ now.fpgaStates = t.fpgaStates
      /\ now.state = "Stby" => now = t
      /\ now.state = "Online" => now = t \/ allChildrenOnline(t)
      /\ now = t =>
            /\ ~(t.state = "Online" /\ s = "Fault" /\ ~allChildrenOnline(t))
            /\ ~(t.state = "Stby" /\ s = "Powered")
  BY TrayEngineFacts
<1> HIDE DEF now
<1>2. ChildrenOf(now) = ChildrenOf(t)
  BY <1>1 DEF ChildrenOf
<1>3. s = "Fault" => ~allChildrenOnline(t)
  BY DEF allChildrenOnline
<1>4. ASSUME now.state = "Online" PROVE ~anyChildFault(now)
  <2>1. CASE allChildrenOnline(t)
    BY <1>2, <2>1 DEF allChildrenOnline, anyChildFault
  <2>2. CASE now = t
    BY <1>1, <1>2, <1>3, <1>4, <2>2 DEF anyChildFault
  <2> QED
    BY <1>1, <1>4, <2>1, <2>2
<1>5. ASSUME now.state = "Stby" PROVE ChildrenOf(now) \subseteq {"Stby"}
  BY <1>1, <1>2, <1>5
<1> QED
  BY <1>4, <1>5 DEF HonestTray, now

(* The tray stays honest when a module changes state, and tracks the       *)
(* module's new state.                                                     *)
LEMMA TrayModuleChangedFacts ==
    ASSUME NEW t \in Tray(Modules, TrayFpgas), HonestTray(t),
           NEW m \in Modules, NEW s \in ModuleStates,
           t.moduleStates[m] = "Stby" => s \in {"Stby", "Powered"}
    PROVE  LET now == TrayModuleChanged(t, m, s)
           IN  /\ now \in Tray(Modules, TrayFpgas) /\ HonestTray(now)
               /\ now.moduleStates = [t.moduleStates EXCEPT ![m] = s]
               /\ now.fpgaStates = t.fpgaStates
<1> DEFINE mid == [t EXCEPT !.moduleStates[m] = s]
           now == TrayModuleChanged(t, m, s)
<1>1. now = TrayEngine(mid, "ModuleStateChanged", s)
  BY DEF TrayModuleChanged, Tray
<1>2. /\ mid \in Tray(Modules, TrayFpgas)
      /\ mid.state = t.state
      /\ mid.moduleStates = [t.moduleStates EXCEPT ![m] = s]
      /\ mid.fpgaStates = t.fpgaStates
  BY DEF Tray
<1> HIDE DEF mid, now
<1>3. ChildrenOf(mid) \subseteq ChildrenOf(t) \cup {s} /\ s \in ChildrenOf(mid)
  BY <1>2 DEF ChildrenOf, Tray
<1>4. t.moduleStates[m] \in ChildrenOf(t)
  BY DEF ChildrenOf, Tray
<1>5. HonestTray(now)
  BY <1>1, <1>2, <1>3, <1>4, TrayHonestAfter
     DEF HonestTray, anyChildFault, ChildChanged, ModuleStates, ElementStates
<1>6. /\ now \in Tray(Modules, TrayFpgas)
      /\ now.moduleStates = mid.moduleStates
      /\ now.fpgaStates = mid.fpgaStates
  BY <1>1, <1>2, TrayEngineFacts
<1> QED
  BY <1>2, <1>5, <1>6 DEF now

(* The same for an FPGA that changes state.                                *)
LEMMA TrayFpgaChangedFacts ==
    ASSUME NEW t \in Tray(Modules, TrayFpgas), HonestTray(t),
           NEW f \in TrayFpgas, NEW s \in ElementStates,
           t.fpgaStates[f] = "Stby" => s \in {"Stby", "Powered"}
    PROVE  LET now == TrayFpgaChanged(t, f, s)
           IN  /\ now \in Tray(Modules, TrayFpgas) /\ HonestTray(now)
               /\ now.fpgaStates = [t.fpgaStates EXCEPT ![f] = s]
               /\ now.moduleStates = t.moduleStates
<1> DEFINE mid == [t EXCEPT !.fpgaStates[f] = s]
           now == TrayFpgaChanged(t, f, s)
<1>1. now = TrayEngine(mid, "FpgaStateChanged", s)
  BY DEF TrayFpgaChanged, Tray
<1>2. /\ mid \in Tray(Modules, TrayFpgas)
      /\ mid.state = t.state
      /\ mid.fpgaStates = [t.fpgaStates EXCEPT ![f] = s]
      /\ mid.moduleStates = t.moduleStates
  BY DEF Tray
<1> HIDE DEF mid, now
<1>3. ChildrenOf(mid) \subseteq ChildrenOf(t) \cup {s} /\ s \in ChildrenOf(mid)
  BY <1>2 DEF ChildrenOf, Tray
<1>4. t.fpgaStates[f] \in ChildrenOf(t)
  BY DEF ChildrenOf, Tray
<1>5. HonestTray(now)
  BY <1>1, <1>2, <1>3, <1>4, TrayHonestAfter
     DEF HonestTray, anyChildFault, ChildChanged
<1>6. /\ now \in Tray(Modules, TrayFpgas)
      /\ now.moduleStates = mid.moduleStates
      /\ now.fpgaStates = mid.fpgaStates
  BY <1>1, <1>2, TrayEngineFacts
<1> QED
  BY <1>2, <1>5, <1>6 DEF now

(* Maintenance: leaving it goes Online only on children that are all       *)
(* online.                                                                 *)
LEMMA TrayOperatorFacts ==
    ASSUME NEW t \in Tray(Modules, TrayFpgas), HonestTray(t), NEW event
    PROVE  LET now == TrayOperator(t, event)
           IN  /\ now \in Tray(Modules, TrayFpgas) /\ HonestTray(now)
               /\ now.moduleStates = t.moduleStates
               /\ now.fpgaStates = t.fpgaStates
<1> DEFINE now == TrayOperator(t, event)
<1>1. /\ now \in Tray(Modules, TrayFpgas)
      /\ now.moduleStates = t.moduleStates
      /\ now.fpgaStates = t.fpgaStates
      /\ now.state = "Stby" => now = t
      /\ now.state = "Online" => now = t \/ allChildrenOnline(t)
  BY TrayEngineFacts DEF TrayOperator
<1> HIDE DEF now
<1>2. ChildrenOf(now) = ChildrenOf(t)
  BY <1>1 DEF ChildrenOf
<1>3. now.state = "Online" => ~anyChildFault(now)
  BY <1>1, <1>2 DEF HonestTray, anyChildFault, allChildrenOnline
<1>4. now.state = "Stby" => ChildrenOf(now) \subseteq {"Stby"}
  BY <1>1, <1>2 DEF HonestTray
<1> QED
  BY <1>1, <1>3, <1>4 DEF HonestTray, now

-----------------------------------------------------------------------------
(* The layers together.                                                    *)

(* The inductive invariant.  No conjunct of the aggregation half stands    *)
(* alone: that a module in M_STBY has no child in another state rests on   *)
(* the slot holding what the element's state was, from which a child in    *)
(* S_STBY can only become S_POWERED; the tray's T_STBY likewise.           *)
FsmInv ==
    /\ FsmTypeOK
    /\ BootTimerOnlyWhenPowered
    /\ FaultCodeMatchesState
    /\ AggregatesTrackChildren
    /\ ModuleHidesNothing
    /\ TrayHidesNoFault

(* The invariant makes every element a good one.                           *)
LEMMA GoodElements ==
    ASSUME FsmInv, NEW e \in Elements
    PROVE  GoodElement(elements[e])
  BY DEF FsmInv, FsmTypeOK, BootTimerOnlyWhenPowered, FaultCodeMatchesState,
         GoodElement

(* The part of the invariant that is about the elements alone.             *)
LEMMA ElementHalf ==
    ASSUME FsmInv, NEW e \in Elements, NEW now, GoodElement(now),
           elements' = [elements EXCEPT ![e] = now]
    PROVE  /\ elements' \in [Elements -> Element]
           /\ BootTimerOnlyWhenPowered'
           /\ FaultCodeMatchesState'
  BY GoodElements DEF FsmInv, FsmTypeOK, GoodElement,
         BootTimerOnlyWhenPowered, FaultCodeMatchesState

(* The wiring: an LPU's callback reaches the module that has it.           *)
LEMMA ModuleOfFacts ==
    ASSUME NEW e \in Lpus
    PROVE  /\ ModuleOf(e) \in Wired
           /\ ModuleOf(e) \in Modules
           /\ e \in SlotIds(ModuleOf(e))
           /\ \A n \in Wired : e \in SlotIds(n) => n = ModuleOf(e)
<1>1. \E m \in Wired : e \in SlotIds(m)
  BY WiringAssumption
<1>2. ModuleOf(e) \in Wired /\ e \in SlotIds(ModuleOf(e))
  BY <1>1 DEF ModuleOf
<1>3. \A n \in Wired : e \in SlotIds(n) => n = ModuleOf(e)
  BY <1>2, WiringAssumption
<1> QED
  BY <1>2, <1>3, WiringAssumption

(* An LPU that changes state, with everything the callbacks do upwards.    *)
LEMMA LpuChangePreserves ==
    ASSUME FsmInv, NEW e \in Lpus, NEW now, GoodElement(now),
           elements[e].state = "Stby" => now.state \in {"Stby", "Powered"},
           elements' = [elements EXCEPT ![e] = now],
           NotifyModule(ModuleOf(e), e, now.state)
    PROVE  FsmInv'
<1> DEFINE m == ModuleOf(e)
           mod == ModuleDispatch(modules[m], ChildIds[m], e, now.state)
<1>1. /\ m \in Wired /\ m \in Modules /\ e \in SlotIds(m)
      /\ \A n \in Wired : e \in SlotIds(n) => n = m
  BY ModuleOfFacts
<1> HIDE DEF m
<1>2. modules[m] \in Module /\ HonestModule(modules[m])
  BY <1>1 DEF FsmInv, FsmTypeOK, ModuleHidesNothing, HonestModule
<1>3. e \in {ChildIds[m][1], ChildIds[m][2]}
  BY <1>1 DEF SlotIds
<1>4. \A i \in ChildSlot(ChildIds[m], e) :
         i \in 1..2 /\ ChildIds[m][i] = e
           /\ modules[m].childStates[i] = elements[e].state
  BY <1>1, <1>3 DEF FsmInv, AggregatesTrackChildren, SlotView, ChildSlot
<1>5. now.state \in ElementStates
  BY DEF GoodElement, Element
<1>6. /\ mod \in Module /\ HonestModule(mod)
      /\ \A i \in 1..2 : mod.childStates[i] =
            IF i \in ChildSlot(ChildIds[m], e) THEN now.state
            ELSE modules[m].childStates[i]
      /\ modules[m].state = "Stby" => mod.state \in {"Stby", "Powered"}
  <2>1. \A i \in ChildSlot(ChildIds[m], e) :
           modules[m].childStates[i] = "Stby" => now.state \in {"Stby", "Powered"}
    BY <1>4
  <2> QED
    BY <1>2, <1>3, <1>5, <2>1, ModuleDispatchFacts
<1>7. /\ modules' = [modules EXCEPT ![m] = mod]
      /\ tray' = IF mod.state = modules[m].state THEN tray
                 ELSE TrayModuleChanged(tray, m, mod.state)
  BY DEF NotifyModule, m
<1> HIDE DEF mod
<1>8. /\ modules' \in [Wired -> Module]
      /\ modules'[m] = mod
      /\ \A n \in Wired \ {m} : modules'[n] = modules[n]
  BY <1>1, <1>6, <1>7 DEF FsmInv, FsmTypeOK
<1>9. /\ tray \in Tray(Modules, TrayFpgas) /\ HonestTray(tray)
      /\ tray.moduleStates[m] = modules[m].state
  BY <1>1 DEF FsmInv, FsmTypeOK, TrayHidesNoFault, HonestTray,
              AggregatesTrackChildren
<1>10. /\ tray' \in Tray(Modules, TrayFpgas) /\ HonestTray(tray')
       /\ tray'.moduleStates = [tray.moduleStates EXCEPT ![m] = mod.state]
       /\ tray'.fpgaStates = tray.fpgaStates
  <2>1. CASE mod.state = modules[m].state
    <3>1. [tray.moduleStates EXCEPT ![m] = mod.state] = tray.moduleStates
      BY <1>1, <1>9, <2>1 DEF Tray
    <3> QED
      BY <1>7, <1>9, <2>1, <3>1
  <2>2. CASE mod.state # modules[m].state
    <3>1. mod.state \in ModuleStates
      BY <1>6 DEF Module
    <3> QED
      BY <1>1, <1>6, <1>7, <1>9, <2>2, <3>1, TrayModuleChangedFacts
  <2> QED
    BY <2>1, <2>2
<1>11. ModuleHidesNothing'
  BY <1>6, <1>8 DEF FsmInv, ModuleHidesNothing, HonestModule
<1>12. e \in Elements /\ e \notin Fpgas
  BY WiringAssumption DEF Elements
<1>13. /\ elements'[e] = now
       /\ \A x \in Elements \ {e} : elements'[x] = elements[x]
  BY <1>12 DEF FsmInv, FsmTypeOK
<1>14. \A n \in Wired : \A i \in 1..2 :
          modules'[n].childStates[i] = SlotView(n, i)'
  <2> SUFFICES ASSUME NEW n \in Wired, NEW i \in 1..2
               PROVE  modules'[n].childStates[i] = SlotView(n, i)'
    OBVIOUS
  <2>1. modules[n].childStates[i] = SlotView(n, i)
    BY DEF FsmInv, AggregatesTrackChildren
  <2>2. CASE n # m
    <3>1. ChildIds[n][i] # e
      BY <1>1, <2>2 DEF SlotIds
    <3>2. SlotView(n, i)' = SlotView(n, i)
      BY <1>13, <3>1 DEF SlotView, Elements
    <3> QED
      BY <1>8, <2>1, <2>2, <3>2
  <2>3. CASE n = m /\ ChildIds[m][i] # e
    <3>1. i \notin ChildSlot(ChildIds[m], e)
      BY <1>4, <2>3
    <3>2. SlotView(n, i)' = SlotView(n, i)
      BY <1>13, <2>3 DEF SlotView, Elements
    <3> QED
      BY <1>6, <1>8, <2>1, <2>3, <3>1, <3>2
  <2>4. CASE n = m /\ ChildIds[m][i] = e
    <3>1. SlotView(n, i)' = IF i \in ChildSlot(ChildIds[m], e) THEN now.state
                            ELSE "Stby"
      BY <1>13, <2>4 DEF SlotView
    <3>2. i \notin ChildSlot(ChildIds[m], e)
             => modules[m].childStates[i] = "Stby"
      BY <2>1, <2>4 DEF SlotView
    <3> QED
      BY <1>6, <1>8, <2>4, <3>1, <3>2
  <2> QED
    BY <2>2, <2>3, <2>4
<1>15. \A n \in Modules : tray'.moduleStates[n] =
          IF n \in Wired THEN modules'[n].state ELSE "Stby"
  BY <1>1, <1>8, <1>9, <1>10 DEF FsmInv, AggregatesTrackChildren, Tray
<1>16. \A f \in TrayFpgas : tray'.fpgaStates[f] =
          IF f \in Fpgas THEN elements'[f].state ELSE "Stby"
  BY <1>10, <1>12, <1>13 DEF FsmInv, AggregatesTrackChildren, Elements
<1>17. AggregatesTrackChildren'
  BY <1>14, <1>15, <1>16 DEF AggregatesTrackChildren
<1>18. FsmTypeOK' /\ BootTimerOnlyWhenPowered' /\ FaultCodeMatchesState'
  BY <1>8, <1>10, <1>12, ElementHalf DEF FsmTypeOK
<1>19. TrayHidesNoFault'
  BY <1>10 DEF TrayHidesNoFault, HonestTray
<1> QED
  BY <1>11, <1>17, <1>18, <1>19 DEF FsmInv

(* An FPGA that changes state: the tray is told directly.                  *)
LEMMA FpgaChangePreserves ==
    ASSUME FsmInv, NEW e \in Fpgas, NEW now, GoodElement(now),
           elements[e].state = "Stby" => now.state \in {"Stby", "Powered"},
           elements' = [elements EXCEPT ![e] = now],
           tray' = TrayFpgaChanged(tray, e, now.state),
           UNCHANGED modules
    PROVE  FsmInv'
<1>1. e \in Elements /\ e \in TrayFpgas /\ e \notin Lpus
  BY WiringAssumption DEF Elements
<1>2. now.state \in ElementStates
  BY DEF GoodElement, Element
<1>3. /\ tray \in Tray(Modules, TrayFpgas) /\ HonestTray(tray)
      /\ tray.fpgaStates[e] = elements[e].state
  BY <1>1 DEF FsmInv, FsmTypeOK, TrayHidesNoFault, HonestTray,
              AggregatesTrackChildren
<1>4. /\ tray' \in Tray(Modules, TrayFpgas) /\ HonestTray(tray')
      /\ tray'.fpgaStates = [tray.fpgaStates EXCEPT ![e] = now.state]
      /\ tray'.moduleStates = tray.moduleStates
  BY <1>1, <1>2, <1>3, TrayFpgaChangedFacts
<1>5. /\ elements'[e] = now
      /\ \A x \in Elements \ {e} : elements'[x] = elements[x]
  BY <1>1 DEF FsmInv, FsmTypeOK
<1>6. \A n \in Wired : \A i \in 1..2 : SlotView(n, i)' = SlotView(n, i)
  BY <1>1, <1>5 DEF SlotView, Elements
<1>7. \A f \in TrayFpgas : tray'.fpgaStates[f] =
         IF f \in Fpgas THEN elements'[f].state ELSE "Stby"
  BY <1>1, <1>3, <1>4, <1>5
     DEF FsmInv, AggregatesTrackChildren, Tray, Elements
<1>8. AggregatesTrackChildren'
  BY <1>4, <1>6, <1>7 DEF FsmInv, AggregatesTrackChildren
<1>9. FsmTypeOK' /\ BootTimerOnlyWhenPowered' /\ FaultCodeMatchesState'
  BY <1>1, <1>4, ElementHalf DEF FsmInv, FsmTypeOK
<1>10. TrayHidesNoFault' /\ ModuleHidesNothing'
  BY <1>4 DEF FsmInv, TrayHidesNoFault, HonestTray, ModuleHidesNothing
<1> QED
  BY <1>8, <1>9, <1>10 DEF FsmInv

(* SetElement with a good element, and the two actions built on it.        *)
LEMMA SetElementPreserves ==
    ASSUME FsmInv, NEW e \in Elements, NEW now, GoodElement(now),
           elements[e].state = "Stby" => now.state \in {"Stby", "Powered"},
           SetElement(e, now)
    PROVE  FsmInv'
<1>1. elements' = [elements EXCEPT ![e] = now]
  BY DEF SetElement
<1>2. CASE now.state = elements[e].state /\ UNCHANGED <<modules, tray>>
  <2>1. \A x \in Elements : elements'[x].state = elements[x].state
    BY <1>1, <1>2 DEF FsmInv, FsmTypeOK
  <2>2. \A n \in Wired : \A i \in 1..2 : SlotView(n, i)' = SlotView(n, i)
    BY <2>1 DEF SlotView, Elements
  <2>3. \A f \in Fpgas : elements'[f].state = elements[f].state
    BY <2>1 DEF Elements
  <2>4. AggregatesTrackChildren'
    BY <1>2, <2>2, <2>3 DEF FsmInv, AggregatesTrackChildren
  <2>5. FsmTypeOK' /\ BootTimerOnlyWhenPowered' /\ FaultCodeMatchesState'
    BY <1>1, <1>2, ElementHalf DEF FsmInv, FsmTypeOK
  <2>6. TrayHidesNoFault' /\ ModuleHidesNothing'
    BY <1>2 DEF FsmInv, TrayHidesNoFault, ModuleHidesNothing
  <2> QED
    BY <2>4, <2>5, <2>6 DEF FsmInv
<1>3. CASE OnElementStateChange(e, now.state)
  <2>1. CASE e \in Lpus /\ NotifyModule(ModuleOf(e), e, now.state)
    BY <1>1, <2>1, LpuChangePreserves
  <2>2. CASE /\ e \in Fpgas /\ tray' = TrayFpgaChanged(tray, e, now.state)
             /\ UNCHANGED modules
    BY <1>1, <2>2, FpgaChangePreserves
  <2> QED
    BY <1>3, <2>1, <2>2 DEF OnElementStateChange
<1> QED
  BY <1>2, <1>3 DEF SetElement

(* A line or reset event, dispatched to an element.                        *)
LEMMA DispatchPreserves ==
    ASSUME FsmInv, NEW e \in Elements, NEW event \in LineAndResetEvents,
           DispatchElement(e, event)
    PROVE  FsmInv'
<1>1. PICK armed \in TimerAdd :
          SetElement(e, ElementDispatch(elements[e], event, armed))
  BY DEF DispatchElement
<1>2. armed \in BOOLEAN /\ event \in ElementEvents /\ event # "TBootExpired"
  BY WiringAssumption DEF LineAndResetEvents
<1>3. /\ GoodElement(ElementDispatch(elements[e], event, armed))
      /\ elements[e].state = "Stby" =>
            ElementDispatch(elements[e], event, armed).state
               \in {"Stby", "Powered"}
  BY <1>2, GoodElements, DispatchFacts
<1> QED
  BY <1>1, <1>3, SetElementPreserves

(* The boot deadline of an element.                                        *)
LEMMA ExpiryPreserves ==
    ASSUME FsmInv, NEW e \in Elements, ExpireBootTimer(e)
    PROVE  FsmInv'
<1>1. PICK armed \in TimerAdd :
          SetElement(e, [ElementDispatch(elements[e], "TBootExpired", armed)
                            EXCEPT !.bootTimer = FALSE])
  BY DEF ExpireBootTimer
<1> DEFINE now == [ElementDispatch(elements[e], "TBootExpired", armed)
                      EXCEPT !.bootTimer = FALSE]
<1>2. armed \in BOOLEAN
  BY WiringAssumption
<1>3. /\ GoodElement(now)
      /\ elements[e].state = "Stby" => now.state \in {"Stby", "Powered"}
  BY <1>2, GoodElements, ExpiryFacts
<1>4. SetElement(e, now)
  BY <1>1
<1> HIDE DEF now
<1> QED
  BY <1>3, <1>4, SetElementPreserves

(* Operator maintenance: only the tray's state changes.                    *)
LEMMA OperatorPreserves ==
    ASSUME FsmInv, NEW event, OperatorEvent(event)
    PROVE  FsmInv'
<1>1. tray \in Tray(Modules, TrayFpgas) /\ HonestTray(tray)
  BY DEF FsmInv, FsmTypeOK, TrayHidesNoFault, HonestTray
<1>2. /\ tray' \in Tray(Modules, TrayFpgas) /\ HonestTray(tray')
      /\ tray'.moduleStates = tray.moduleStates
      /\ tray'.fpgaStates = tray.fpgaStates
  BY <1>1, TrayOperatorFacts DEF OperatorEvent
<1>3. UNCHANGED <<elements, modules>>
  BY DEF OperatorEvent
<1>4. AggregatesTrackChildren'
  BY <1>2, <1>3 DEF FsmInv, AggregatesTrackChildren, SlotView
<1> QED
  BY <1>2, <1>3, <1>4 DEF FsmInv, FsmTypeOK, BootTimerOnlyWhenPowered,
     FaultCodeMatchesState, ModuleHidesNothing, TrayHidesNoFault, HonestTray

(* initFromDescriptor leaves every FSM in standby.                         *)
LEMMA FsmInitInv == FsmInit => FsmInv
<1> SUFFICES ASSUME FsmInit PROVE FsmInv
  OBVIOUS
<1>1. /\ elements = [e \in Elements |-> InitElement]
      /\ modules = [m \in Wired |-> InitModule]
      /\ tray = InitTray(Modules, TrayFpgas)
  BY DEF FsmInit
<1>2. InitElement \in Element /\ GoodElement(InitElement)
  BY DEF InitElement, Element, ElementStates, FaultCodes, GoodElement
<1>3. InitModule \in Module
  BY DEF InitModule, Module, ModuleStates, ElementStates
<1>4. tray \in Tray(Modules, TrayFpgas)
  BY <1>1 DEF InitTray, Tray, TrayStates, ModuleStates, ElementStates
<1>5. FsmTypeOK
  BY <1>1, <1>2, <1>3, <1>4 DEF FsmTypeOK
<1>6. BootTimerOnlyWhenPowered /\ FaultCodeMatchesState
  BY <1>1, <1>2 DEF BootTimerOnlyWhenPowered, FaultCodeMatchesState,
                    GoodElement
<1>7. AggregatesTrackChildren
  BY <1>1 DEF AggregatesTrackChildren, SlotView, InitElement, InitModule,
              InitTray, Elements
<1>8. ModuleHidesNothing
  BY <1>1 DEF ModuleHidesNothing, InitModule
<1>9. ChildrenOf(tray) \subseteq {"Stby"} /\ tray.state = "Stby"
  BY <1>1 DEF InitTray, ChildrenOf
<1>10. TrayHidesNoFault
  BY <1>9 DEF TrayHidesNoFault
<1> QED
  BY <1>5, <1>6, <1>7, <1>8, <1>10 DEF FsmInv

(* Every step of the hierarchy preserves the invariant: one step of the    *)
(* proof per action.                                                       *)
LEMMA FsmNextInv == FsmInv /\ [FsmNext]_fsmVars => FsmInv'
<1> SUFFICES ASSUME FsmInv, [FsmNext]_fsmVars PROVE FsmInv'
  OBVIOUS
<1>1. ASSUME NEW e \in Elements, NEW event \in LineAndResetEvents,
             DispatchElement(e, event)
      PROVE  FsmInv'
  BY <1>1, DispatchPreserves
<1>2. ASSUME NEW e \in Elements, ExpireBootTimer(e)
      PROVE  FsmInv'
  BY <1>2, ExpiryPreserves
<1>3. CASE OperatorEvent("OpMaintenanceEnter")
  BY <1>3, OperatorPreserves
<1>4. CASE OperatorEvent("OpMaintenanceExit")
  BY <1>4, OperatorPreserves
<1>5. CASE UNCHANGED fsmVars
  BY <1>5 DEF fsmVars, FsmInv, FsmTypeOK, BootTimerOnlyWhenPowered,
     FaultCodeMatchesState, AggregatesTrackChildren, SlotView,
     ModuleHidesNothing, TrayHidesNoFault
<1> QED
  BY <1>1, <1>2, <1>3, <1>4, <1>5 DEF FsmNext

(* The inductive invariant holds in every reachable state.                 *)
THEOREM FsmInvariant == FsmSpec => []FsmInv
  BY FsmInitInv, FsmNextInv, PTL DEF FsmSpec

(* Every value the three FSM layers keep has its type: no dispatch writes  *)
(* outside the child vectors or into a state its table does not name.      *)
THEOREM FsmTyping == FsmSpec => []FsmTypeOK
<1>1. FsmInv => FsmTypeOK
  BY DEF FsmInv
<1> QED
  BY <1>1, FsmInvariant, PTL

(* An armed boot deadline belongs to an element in S_POWERED: no deadline  *)
(* can fault an element that has booted, lost power or is being reset      *)
(* (startBootTimer_, cancelBootTimer_ and the timer's callback).           *)
THEOREM NoStrayBootDeadline == FsmSpec => []BootTimerOnlyWhenPowered
<1>1. FsmInv => BootTimerOnlyWhenPowered
  BY DEF FsmInv
<1> QED
  BY <1>1, FsmInvariant, PTL

(* An element has a fault code exactly in S_FAULT, so that the guard of    *)
(* the late-boot recovery never reads an old one.                          *)
THEOREM FaultCodesAreCurrent == FsmSpec => []FaultCodeMatchesState
<1>1. FsmInv => FaultCodeMatchesState
  BY DEF FsmInv
<1> QED
  BY <1>1, FsmInvariant, PTL

(* The module and tray vectors hold what their children's states are,      *)
(* after every dispatch (wireElementFsm_, wireModuleFsm_).                 *)
THEOREM AggregatesAreCurrent == FsmSpec => []AggregatesTrackChildren
<1>1. FsmInv => AggregatesTrackChildren
  BY DEF FsmInv
<1> QED
  BY <1>1, FsmInvariant, PTL

(* A module that reports Online has no child in fault or still booting,    *)
(* one that reports Stby no child that is not in standby.                  *)
THEOREM ModulesAreHonest == FsmSpec => []ModuleHidesNothing
<1>1. FsmInv => ModuleHidesNothing
  BY DEF FsmInv
<1> QED
  BY <1>1, FsmInvariant, PTL

(* A tray that reports Online has no faulted child, through maintenance    *)
(* too; one that reports Stby has every child in standby.                  *)
THEOREM TrayIsHonest == FsmSpec => []TrayHidesNoFault
<1>1. FsmInv => TrayHidesNoFault
  BY DEF FsmInv
<1> QED
  BY <1>1, FsmInvariant, PTL

-----------------------------------------------------------------------------
(* The deadline of a booting element, when timers can be armed.            *)

(* Every row into S_POWERED starts a deadline, and the deadline's own      *)
(* event leaves S_POWERED.                                                 *)
LEMMA DeadlineRows ==
    \A r \in ElementTable :
        /\ r.to = "Powered" =>
              r.action \in {"startTBoot", "clearFaultAndStartTBoot"}
        /\ r.from = "Powered" /\ r.event = "TBootExpired" => r.to = "Fault"
  BY DEF ElementTable, TransitionRow

(* A dispatch leaves no element in S_POWERED without its deadline.         *)
LEMMA DispatchArms ==
    ASSUME NEW el, GoodElement(el), NEW event \in ElementEvents,
           el.state = "Powered" => el.bootTimer
    PROVE  LET now == ElementDispatch(el, event, TRUE)
           IN  now.state = "Powered" => now.bootTimer
<1>1. CASE ElementRows(el, event) = {}
  BY <1>1 DEF ElementDispatch
<1>2. CASE ElementRows(el, event) # {}
  <2> DEFINE row == CHOOSE r \in ElementRows(el, event) : TRUE
  <2>1. row \in ElementTable
    BY <1>2, ElementRowOfRows
  <2> HIDE DEF row
  <2>2. /\ ElementDispatch(el, event, TRUE).state = row.to
        /\ ElementDispatch(el, event, TRUE).bootTimer
              = TimerAfter(row.action, el.bootTimer, TRUE)
    BY <1>2 DEF ElementDispatch, row
  <2>3. row.to = "Powered" => TimerAfter(row.action, el.bootTimer, TRUE)
    BY <2>1, DeadlineRows DEF TimerAfter
  <2> QED
    BY <2>2, <2>3
<1> QED
  BY <1>1, <1>2

(* The expired deadline moves its element to S_FAULT.                      *)
LEMMA ExpiryFaults ==
    ASSUME NEW el, el.state = "Powered", NEW armed
    PROVE  ElementDispatch(el, "TBootExpired", armed).state = "Fault"
<1>1. TransitionRow("Powered", "TBootExpired", "always", "Fault",
                    "setFaultBootTimeout") \in ElementRows(el, "TBootExpired")
  BY DEF ElementRows, Matching, ElementTable, TransitionRow, ElementGuard
<1> DEFINE row == CHOOSE r \in ElementRows(el, "TBootExpired") : TRUE
<1>2. row \in ElementTable /\ row.from = "Powered" /\ row.event = "TBootExpired"
  BY <1>1, ElementRowOfRows
<1>3. ElementDispatch(el, "TBootExpired", armed).state = row.to
  BY <1>1 DEF ElementDispatch
<1> HIDE DEF row
<1> QED
  BY <1>2, <1>3, DeadlineRows

(* Every step keeps the deadlines.                                         *)
LEMMA DeadlineStep ==
    FsmInv /\ PoweredHasBootTimer /\ [FsmNext]_fsmVars => PoweredHasBootTimer'
<1> SUFFICES ASSUME FsmInv, PoweredHasBootTimer, [FsmNext]_fsmVars,
                    TimerAdd = {TRUE}, NEW x \in Elements,
                    elements'[x].state = "Powered"
             PROVE  elements'[x].bootTimer
  BY DEF PoweredHasBootTimer
<1>0. /\ elements \in [Elements -> Element]
      /\ \A e \in Elements : GoodElement(elements[e])
      /\ \A e \in Elements : elements[e].state = "Powered" => elements[e].bootTimer
  BY GoodElements DEF FsmInv, FsmTypeOK, PoweredHasBootTimer
<1>1. ASSUME NEW e \in Elements, NEW event \in LineAndResetEvents,
             DispatchElement(e, event)
      PROVE  elements'[x].bootTimer
  <2>1. elements' = [elements EXCEPT ![e] = ElementDispatch(elements[e], event, TRUE)]
    BY <1>1 DEF DispatchElement, SetElement
  <2>2. LET now == ElementDispatch(elements[e], event, TRUE)
        IN  now.state = "Powered" => now.bootTimer
    BY <1>0, DispatchArms DEF LineAndResetEvents
  <2> QED
    BY <1>0, <2>1, <2>2
<1>2. ASSUME NEW e \in Elements, ExpireBootTimer(e)
      PROVE  elements'[x].bootTimer
  <2>1. PICK armed \in TimerAdd :
            elements' = [elements EXCEPT ![e] =
                [ElementDispatch(elements[e], "TBootExpired", armed)
                    EXCEPT !.bootTimer = FALSE]]
    BY <1>2 DEF ExpireBootTimer, SetElement
  <2> DEFINE d == ElementDispatch(elements[e], "TBootExpired", armed)
  <2>2. elements[e].bootTimer /\ elements[e].state = "Powered"
    BY <1>2 DEF ExpireBootTimer, FsmInv, BootTimerOnlyWhenPowered
  <2>3. armed \in BOOLEAN
    BY WiringAssumption
  <2>4. d \in Element /\ d.state = "Fault"
    <3>1. d \in Element
      BY <1>0, <2>3, DispatchFacts DEF ElementEvents
    <3>2. d.state = "Fault"
      BY <2>2, ExpiryFaults
    <3> QED
      BY <3>1, <3>2
  <2> HIDE DEF d
  <2>5. [d EXCEPT !.bootTimer = FALSE].state = "Fault"
    BY <2>4 DEF Element
  <2>6. elements' = [elements EXCEPT ![e] = [d EXCEPT !.bootTimer = FALSE]]
    BY <2>1 DEF d
  <2> QED
    BY <1>0, <2>5, <2>6
<1>3. CASE UNCHANGED elements
  BY <1>0, <1>3
<1> QED
  BY <1>1, <1>2, <1>3 DEF FsmNext, OperatorEvent, fsmVars

(* Where timers can be armed no element waits in S_POWERED without its     *)
(* deadline, for any wiring: a hung boot is noticed, the first one and the *)
(* ones after a fault or a reset (startBootTimer_).                        *)
THEOREM EveryBootHasItsDeadline == FsmSpec => []PoweredHasBootTimer
<1>1. FsmInit => PoweredHasBootTimer
  BY DEF FsmInit, PoweredHasBootTimer, InitElement
<1> QED
  BY <1>1, DeadlineStep, FsmInvariant, PTL DEF FsmSpec


-----------------------------------------------------------------------------
(* The operations of a callback.                                           *)

LEMMA OpFacts ==
    ASSUME NEW o \in Ops
    PROVE  /\ o.op \in {"notify", "pgEdge", "emit", "pulse", "assert",
                        "released", "eraseTimer", "complete"}
           /\ o.op = "notify" => o.line \in Lines /\ o.value \in Levels
           /\ o.op # "notify" => o.el \in Elements
           /\ o.op = "pgEdge" => o.asserted \in BOOLEAN
           /\ o.op = "emit" => o.event \in {"PgHi", "PgLo", "BcHi", "BcLo"}
           /\ o.op \in {"pulse", "assert"} => o.kind \in Kinds
  BY DEF Ops

LEMMA NotifyFacts ==
    ASSUME NEW l \in Lines, NEW v \in Levels
    PROVE  /\ Notify(l, v) \in Ops
           /\ Notify(l, v).op = "notify" /\ Notify(l, v).line = l
           /\ Notify(l, v).value = v
  BY DEF Notify, Ops

LEMMA MakerFacts ==
    ASSUME NEW e \in Elements
    PROVE  /\ \A b \in BOOLEAN : PgEdge(e, b) \in Ops /\ PgEdge(e, b).op = "pgEdge"
           /\ \A ev \in {"PgHi", "PgLo", "BcHi", "BcLo"} :
                 /\ Emit(e, ev) \in Ops /\ Emit(e, ev).op = "emit"
                 /\ Emit(e, ev).el = e /\ Emit(e, ev).event = ev
           /\ \A k \in Kinds :
                 /\ Pulse(e, k) \in Ops /\ Pulse(e, k).op = "pulse" /\ Pulse(e, k).el = e
                 /\ AssertReset(e, k) \in Ops /\ AssertReset(e, k).op = "assert"
                 /\ AssertReset(e, k).el = e
           /\ Released(e) \in Ops /\ Released(e).op = "released"
           /\ EraseTimer(e) \in Ops /\ EraseTimer(e).op = "eraseTimer" /\ EraseTimer(e).el = e
           /\ \A out \in Outcomes : Complete(e, out) \in Ops /\ Complete(e, out).op = "complete"
  BY DEF PgEdge, Emit, Pulse, AssertReset, Released, EraseTimer, Complete, Ops

LEMMA OutcomeOfType == \A result : OutcomeOf(result) \in Outcomes
  BY DEF OutcomeOf, Outcomes

(* What a step that replaces the head of a sequence leaves.                *)
LEMMA PushFacts ==
    ASSUME NEW S, NEW x \in Seq(S), NEW t \in Seq(S), t # <<>>
    PROVE  /\ Head(t) = t[1] /\ Head(t) \in S /\ 1 \in 1..Len(t)
           /\ Tail(t) \in Seq(S) /\ Len(Tail(t)) = Len(t) - 1
           /\ \A i \in 1..(Len(t) - 1) : Tail(t)[i] = t[i + 1]
           /\ x \o Tail(t) \in Seq(S)
           /\ Len(x \o Tail(t)) = Len(x) + Len(t) - 1
           /\ \A i \in 1..Len(x) : (x \o Tail(t))[i] = x[i]
           /\ \A i \in 1..(Len(t) - 1) : (x \o Tail(t))[Len(x) + i] = t[i + 1]
<1>1. /\ Tail(t) \in Seq(S) /\ Len(Tail(t)) = Len(t) - 1 /\ Len(t) \in Nat /\ Len(t) >= 1
      /\ \A i \in 1..(Len(t) - 1) : Tail(t)[i] = t[i + 1]
  OBVIOUS
<1>2. Head(t) = t[1] /\ Head(t) \in S /\ 1 \in 1..Len(t)
  BY <1>1
<1> DEFINE u == Tail(t)
<1> HIDE DEF u
<1>3. u \in Seq(S) /\ Len(u) \in Nat /\ Len(x) \in Nat
  BY <1>1 DEF u
<1>4. /\ x \o u \in Seq(S) /\ Len(x \o u) = Len(x) + Len(u)
      /\ \A i \in 1..Len(x) : (x \o u)[i] = x[i]
      /\ \A i \in 1..Len(u) : (x \o u)[Len(x) + i] = u[i]
  BY <1>3
<1> QED
  BY <1>1, <1>2, <1>3, <1>4 DEF u

LEMMA AppendFacts ==
    ASSUME NEW S, NEW u \in Seq(S), NEW n \in Nat, Len(u) = n - 1, NEW z \in S
    PROVE  /\ Append(u, z) \in Seq(S) /\ Len(Append(u, z)) = n
           /\ \A k \in 1..n : Append(u, z)[k] = IF k = n THEN z ELSE u[k]
  OBVIOUS

(* Indices of what is pushed.                                              *)
LEMMA PushIndex ==
    ASSUME NEW S, NEW x \in Seq(S), NEW t \in Seq(S), t # <<>>,
           NEW i \in 1..Len(x \o Tail(t))
    PROVE  \/ i \in 1..Len(x) /\ (x \o Tail(t))[i] = x[i]
           \/ /\ i - Len(x) + 1 \in 2..Len(t) /\ i > Len(x)
              /\ (x \o Tail(t))[i] = t[i - Len(x) + 1]
<1>1. Len(x) \in Nat /\ Len(t) \in Nat /\ i \in Nat
  OBVIOUS
<1>2. CASE i <= Len(x)
  BY <1>1, <1>2, PushFacts
<1>3. CASE i > Len(x)
  <2> DEFINE k == i - Len(x)
  <2>1. k \in 1..(Len(t) - 1) /\ i = Len(x) + k
    BY <1>1, <1>3, PushFacts
  <2>2. (x \o Tail(t))[Len(x) + k] = t[k + 1]
    BY <2>1, PushFacts
  <2> QED
    BY <1>1, <1>3, <2>1, <2>2
<1> QED
  BY <1>1, <1>2, <1>3

LEMMA ElementsFinite == IsFiniteSet(Elements)
<1>1. Len(InitOrder) \in Nat /\ InitOrder \in [1..Len(InitOrder) -> Elements]
  BY LinesAssumption
<1>2. InitOrder \in Surjection(1..Len(InitOrder), Elements)
  BY <1>1, LinesAssumption DEF Surjection
<1>3. IsFiniteSet(1..Len(InitOrder))
  BY <1>1, FS_Interval
<1> QED
  BY <1>2, <1>3, FS_Surjection

(* A set of elements in order of construction.                             *)
LEMMA InOrderFacts ==
    ASSUME NEW S \in SUBSET Elements, NEW s \in InInitOrder(S)
    PROVE  /\ s \in Seq(S) /\ Len(s) = Cardinality(S) /\ Len(s) \in Nat
           /\ \A i \in 1..Len(s) : s[i] \in S
           /\ \A e \in S : \E i \in 1..Len(s) : s[i] = e
<1>1. Cardinality(S) \in Nat
  BY ElementsFinite, FS_Subset, FS_CardinalityType
<1>2. s \in [1..Cardinality(S) -> S] /\ \A e \in S : \E i \in 1..Cardinality(S) : s[i] = e
  BY DEF InInitOrder
<1>3. s \in Seq(S) /\ Len(s) = Cardinality(S)
  BY <1>1, <1>2
<1> QED
  BY <1>1, <1>2, <1>3
-----------------------------------------------------------------------------
(* Telemetry polling.                                                      *)

(* Polling is on exactly in S_ONLINE, VR polling and retries need the      *)
(* configuration.                                                          *)
PollsRight(t, state) ==
    /\ (t.mask # "off") <=> (state = "Online")
    /\ t.mask = "all+vr" => t.configured
    /\ t.retry > 0 => state = "Online" /\ t.configured /\ ~t.selected

(* No polling ioctl fails.                                                 *)
IoctlsWork == IoctlResults = {TRUE}

(* What setTelemetryPolling may do when it is called for a state.          *)
PollingCalls(t, state) == setTelemetryPolling(t, state = "Online", IoctlResults)

LEMMA SetPollingFacts ==
    ASSUME NEW n, NEW t \in Telemetry(n), NEW state,
           NEW r \in PollingCalls(t, state)
    PROVE  /\ r.tel \in Telemetry(n)
           /\ (r.tel.configured <=> t.configured) /\ r.tel.retry = t.retry
           /\ r.result = "NotReady" => state = "Online" /\ t.configured /\ ~r.tel.selected
           /\ IoctlsWork => ((r.tel.mask # "off") <=> (state = "Online"))
           /\ IoctlsWork => (r.tel.mask = "all+vr" => t.configured)
<1> DEFINE enable == state = "Online"
<1>1. PICK d \in (IF enable THEN selectLpuVrPolling(t) ELSE {"Disabled"}), ok \in IoctlResults :
          r = [tel |-> applyTelemetryPolling([t EXCEPT !.selected = enable /\ d = "Enabled"],
                                             enable, ok),
               result |-> IF ~ok THEN "HwError"
                          ELSE IF enable /\ d = "Retry" THEN "NotReady" ELSE "Ok"]
  BY DEF PollingCalls, setTelemetryPolling
<1> DEFINE sel == enable /\ d = "Enabled"
           u == [t EXCEPT !.selected = sel]
           mask == IF ok THEN PollingMask(enable, sel) ELSE t.mask
<1>2. sel \in BOOLEAN /\ (sel => enable /\ t.configured) /\ (d = "Retry" /\ enable => t.configured)
  BY <1>1 DEF selectLpuVrPolling
<1>3. /\ u \in Telemetry(n) /\ u.selected = sel /\ (u.configured <=> t.configured)
      /\ u.retry = t.retry /\ u.mask = t.mask
  BY <1>2 DEF Telemetry
<1>4. mask \in Masks /\ t.mask \in Masks
  BY DEF PollingMask, Masks, Telemetry
<1> HIDE DEF u, sel, mask
<1>5. r.tel = [u EXCEPT !.mask = mask]
  BY <1>1, <1>3 DEF applyTelemetryPolling, mask, u, sel
<1>6. /\ r.tel \in Telemetry(n) /\ r.tel.selected = sel /\ (r.tel.configured <=> t.configured)
      /\ r.tel.retry = t.retry /\ r.tel.mask = mask
  BY <1>3, <1>4, <1>5 DEF Telemetry
<1>7. r.result = "NotReady" => state = "Online" /\ t.configured /\ ~sel
  BY <1>1, <1>2 DEF sel
<1>8. /\ IoctlsWork => ((mask # "off") <=> (state = "Online"))
      /\ IoctlsWork => (mask = "all+vr" => t.configured)
  <2>1. IoctlsWork => ok
    BY <1>1 DEF IoctlsWork
  <2>2. IoctlsWork => mask = PollingMask(enable, sel)
    BY <2>1 DEF mask
  <2>3. /\ (PollingMask(enable, sel) # "off") <=> (state = "Online")
        /\ PollingMask(enable, sel) = "all+vr" => sel
    BY DEF PollingMask
  <2> QED
    BY <1>2, <2>2, <2>3
<1> QED
  BY <1>6, <1>7, <1>8

LEMMA CancelFacts ==
    ASSUME NEW n \in Nat, NEW t \in Telemetry(n)
    PROVE  LET c == cancelTelemetryRetry(t)
           IN  /\ c \in Telemetry(n) /\ c.retry = 0 /\ (c.configured <=> t.configured)
               /\ (c.selected <=> t.selected) /\ c.mask = t.mask
<1>1. 0 \in 0..n
  OBVIOUS
<1> QED
  BY <1>1 DEF Telemetry, cancelTelemetryRetry

(* A polling call made in a state, followed by the retry it may need.      *)
LEMMA RetryFacts ==
    ASSUME NEW n \in Nat, NEW t \in Telemetry(n), t.retry = 0,
           NEW state, NEW k \in 0..n,
           NEW r \in PollingCalls(t, state)
    PROVE  /\ RetryOnNotReady(r, k) \in Telemetry(n)
           /\ IoctlsWork => PollsRight(RetryOnNotReady(r, k), state)
<1>2. /\ r.tel \in Telemetry(n)
      /\ (r.tel.configured <=> t.configured) /\ r.tel.retry = t.retry
      /\ r.result = "NotReady" => state = "Online" /\ t.configured /\ ~r.tel.selected
      /\ IoctlsWork => ((r.tel.mask # "off") <=> (state = "Online"))
      /\ IoctlsWork => (r.tel.mask = "all+vr" => t.configured)
  BY SetPollingFacts
<1>3. CASE r.result = "NotReady"
  <2> DEFINE now == [r.tel EXCEPT !.retry = k]
  <2>1. /\ now \in Telemetry(n) /\ now.mask = r.tel.mask /\ now.selected = r.tel.selected
        /\ now.configured = r.tel.configured
    BY <1>2 DEF Telemetry
  <2>2. RetryOnNotReady(r, k) = now
    BY <1>3 DEF RetryOnNotReady
  <2> HIDE DEF now
  <2>3. ASSUME IoctlsWork PROVE PollsRight(now, state)
    <3>1. (now.mask # "off") <=> (state = "Online")
      BY <1>2, <2>1, <2>3
    <3>2. now.mask = "all+vr" => now.configured
      BY <1>2, <2>1, <2>3
    <3>3. state = "Online" /\ now.configured /\ ~now.selected
      BY <1>2, <1>3, <2>1
    <3> QED
      BY <3>1, <3>2, <3>3 DEF PollsRight
  <2> QED
    BY <2>1, <2>2, <2>3
<1>4. CASE r.result # "NotReady"
  <2>1. RetryOnNotReady(r, k) = r.tel
    BY <1>4 DEF RetryOnNotReady
  <2>2. ~(r.tel.retry > 0)
    BY <1>2
  <2>3. ASSUME IoctlsWork PROVE PollsRight(r.tel, state)
    <3>1. (r.tel.mask # "off") <=> (state = "Online")
      BY <1>2, <2>3
    <3>2. r.tel.mask = "all+vr" => r.tel.configured
      BY <1>2, <2>3
    <3> QED
      BY <2>2, <3>1, <3>2 DEF PollsRight
  <2> QED
    BY <1>2, <2>1, <2>3
<1> QED
  BY <1>3, <1>4

(* wireElementFsm_'s callback on a change of state.                        *)
LEMMA StateChangeFacts ==
    ASSUME NEW n \in Nat, n # 0, NEW t \in Telemetry(n), NEW old, NEW new,
           NEW now \in TelemetryOnStateChange(t, old, new, IoctlResults)
    PROVE  /\ now \in Telemetry(n)
           /\ IoctlsWork /\ PollsRight(t, old) => PollsRight(now, new)
<1>1. CASE old = "Online" \/ new = "Online"
  <2>1. PICK r \in PollingCalls(cancelTelemetryRetry(t), new) :
            now = RetryOnNotReady(r, 1)
    BY <1>1 DEF TelemetryOnStateChange, PollingCalls
  <2>2. 1 \in 0..n
    OBVIOUS
  <2> QED
    BY <2>1, <2>2, CancelFacts, RetryFacts
<1>2. CASE ~(old = "Online" \/ new = "Online")
  <2>1. now = t
    BY <1>2 DEF TelemetryOnStateChange
  <2> QED
    BY <1>2, <2>1 DEF PollsRight
<1> QED
  BY <1>1, <1>2

LEMMA ConfiguredFacts ==
    ASSUME NEW n \in Nat, n # 0, NEW t \in Telemetry(n), NEW enable \in BOOLEAN,
           NEW state,
           NEW now \in TelemetryConfigured(t, enable, state, IoctlResults)
    PROVE  /\ now \in Telemetry(n)
           /\ IoctlsWork /\ PollsRight(t, state) => PollsRight(now, state)
<1> DEFINE u == [t EXCEPT !.configured = enable]
           c == cancelTelemetryRetry(u)
<1>1. u \in Telemetry(n) /\ u.mask = t.mask
  BY DEF Telemetry
<1> HIDE DEF u
<1>2. c \in Telemetry(n) /\ c.retry = 0 /\ c.mask = t.mask
  BY <1>1, CancelFacts
<1>3. now \in (IF state # "Online" THEN {c}
               ELSE {RetryOnNotReady(r, 1) : r \in setTelemetryPolling(c, TRUE, IoctlResults)})
  BY DEF TelemetryConfigured, u
<1> HIDE DEF c
<1>4. CASE state # "Online"
  <2>1. now \in Telemetry(n) /\ now.mask = t.mask /\ ~(now.retry > 0)
    BY <1>2, <1>3, <1>4
  <2> QED
    BY <1>4, <2>1 DEF PollsRight
<1>5. CASE state = "Online"
  <2>1. PICK r \in PollingCalls(c, state) : now = RetryOnNotReady(r, 1)
    BY <1>3, <1>5 DEF PollingCalls
  <2>2. 1 \in 0..n
    OBVIOUS
  <2> QED
    BY <1>2, <2>1, <2>2, RetryFacts
<1> QED
  BY <1>4, <1>5

LEMMA RetryFiredFacts ==
    ASSUME NEW n \in Nat, NEW t \in Telemetry(n), NEW state,
           NEW now \in TelemetryRetryFired(t, state, n, IoctlResults)
    PROVE  /\ now \in Telemetry(n)
           /\ IoctlsWork /\ PollsRight(t, state) => PollsRight(now, state)
<1> DEFINE c == cancelTelemetryRetry(t)
<1>1. c \in Telemetry(n) /\ c.retry = 0 /\ c.mask = t.mask /\ (c.configured <=> t.configured)
  BY CancelFacts
<1>2. now \in (IF state # "Online" THEN {c}
               ELSE {IF t.retry < n THEN RetryOnNotReady(r, t.retry + 1) ELSE r.tel
                     : r \in setTelemetryPolling(c, TRUE, IoctlResults)})
  BY DEF TelemetryRetryFired
<1> HIDE DEF c
<1>3. CASE state # "Online"
  <2>1. now \in Telemetry(n) /\ now.mask = t.mask /\ ~(now.retry > 0)
    BY <1>1, <1>2, <1>3
  <2> QED
    BY <1>3, <2>1 DEF PollsRight
<1>4. CASE state = "Online"
  <2>1. PICK r \in PollingCalls(c, state) :
            now = IF t.retry < n THEN RetryOnNotReady(r, t.retry + 1) ELSE r.tel
    BY <1>2, <1>4 DEF PollingCalls
  <2>2. CASE t.retry < n
    <3> DEFINE k == t.retry + 1
    <3>1. k \in 0..n /\ now = RetryOnNotReady(r, k)
      BY <2>1, <2>2 DEF Telemetry
    <3> HIDE DEF k
    <3> QED
      BY <1>1, <2>1, <3>1, RetryFacts
  <2>3. CASE ~(t.retry < n)
    <3>1. /\ r.tel \in Telemetry(n) /\ r.tel.retry = 0 /\ (r.tel.configured <=> c.configured)
          /\ IoctlsWork => (r.tel.mask # "off")
          /\ IoctlsWork => (r.tel.mask = "all+vr" => c.configured)
      BY <1>1, <1>4, <2>1, SetPollingFacts
    <3>2. now = r.tel /\ ~(r.tel.retry > 0)
      BY <2>1, <2>3, <3>1
    <3>3. ASSUME IoctlsWork PROVE PollsRight(r.tel, state)
      <4>1. (r.tel.mask # "off") <=> (state = "Online")
        BY <1>4, <3>1, <3>3
      <4>2. r.tel.mask = "all+vr" => r.tel.configured
        BY <3>1, <3>3
      <4> QED
        BY <3>2, <4>1, <4>2 DEF PollsRight
    <3> QED
      BY <3>1, <3>2, <3>3
  <2> QED
    BY <2>2, <2>3
<1> QED
  BY <1>3, <1>4
-----------------------------------------------------------------------------
(* Types.  The FSM layers' part of TypeOK is FsmTypeOK.                    *)
OwnTypeOK ==
    /\ level \in [Lines -> Levels \cup {Unbound}]
    /\ signals \in Seq(LineReport)
    /\ pendingQueue \in Seq(LineReport)
    /\ cached \in [Lines -> BOOLEAN]
    /\ todo \in Seq(Ops)
    /\ pendingResets \in [Elements -> Calls \cup {NoCall}]
    /\ telemetry \in [Lpus -> Telemetry(MaxTelemetryRetry)]
    /\ calls \in [Calls -> Call]

LEMMA LineFacts ==
    ASSUME NEW e \in Elements
    PROVE  PgLine[e] \in Lines /\ BcLine[e] \in Lines
  BY LinesAssumption

(* The head of todo is a well-formed operation, and can be dropped.        *)
LEMMA HeadFacts ==
    ASSUME todo \in Seq(Ops), todo # <<>>
    PROVE  Head(todo) \in Ops /\ Tail(todo) \in Seq(Ops)
  BY PushFacts

LEMMA LogicalType == \A l, v : Logical(l, v) \in BOOLEAN
  BY DEF Logical

(* What StepNotify puts in front: one call for each subscriber.            *)
Calling(subs, l, asserted) ==
    [i \in 1..Len(subs) |->
        IF PgLine[subs[i]] = l THEN PgEdge(subs[i], asserted)
        ELSE Emit(subs[i], IF asserted THEN "BcHi" ELSE "BcLo")]

LEMMA CallingFacts ==
    ASSUME NEW l \in Lines, NEW asserted \in BOOLEAN, NEW subs \in InInitOrder(Subscribers(l))
    PROVE  /\ Calling(subs, l, asserted) \in Seq(Ops)
           /\ Len(Calling(subs, l, asserted)) = Len(subs) /\ Len(subs) \in Nat
           /\ \A i \in 1..Len(subs) :
                 /\ subs[i] \in Subscribers(l)
                 /\ Calling(subs, l, asserted)[i] =
                       IF PgLine[subs[i]] = l THEN PgEdge(subs[i], asserted)
                       ELSE Emit(subs[i], IF asserted THEN "BcHi" ELSE "BcLo")
           /\ \A e \in Subscribers(l) : \E i \in 1..Len(subs) : subs[i] = e
<1>1. Subscribers(l) \in SUBSET Elements
  BY DEF Subscribers
<1>2. /\ Len(subs) \in Nat
      /\ \A i \in 1..Len(subs) : subs[i] \in Subscribers(l)
      /\ \A e \in Subscribers(l) : \E i \in 1..Len(subs) : subs[i] = e
  BY <1>1, InOrderFacts
<1>3. ASSUME NEW i \in 1..Len(subs)
      PROVE  (IF PgLine[subs[i]] = l THEN PgEdge(subs[i], asserted)
              ELSE Emit(subs[i], IF asserted THEN "BcHi" ELSE "BcLo")) \in Ops
  <2>1. subs[i] \in Elements
    BY <1>1, <1>2
  <2>2. (IF asserted THEN "BcHi" ELSE "BcLo") \in {"PgHi", "PgLo", "BcHi", "BcLo"}
    OBVIOUS
  <2> QED
    BY <2>1, <2>2, MakerFacts
<1>4. Calling(subs, l, asserted) \in [1..Len(subs) -> Ops]
  BY <1>3 DEF Calling
<1>5. Calling(subs, l, asserted) \in Seq(Ops) /\ Len(Calling(subs, l, asserted)) = Len(subs)
  BY <1>2, <1>4
<1> QED
  BY <1>2, <1>5 DEF Calling

(* completePending_: the element's reset is gone, its call has one result  *)
(* more.                                                                   *)
LEMMA CompleteTypes ==
    ASSUME OwnTypeOK, NEW e \in Elements, completePending(e)
    PROVE  /\ pendingResets' \in [Elements -> Calls \cup {NoCall}]
           /\ calls' \in [Calls -> Call]
<1>1. CASE pendingResets[e] = NoCall
  BY <1>1 DEF completePending, OwnTypeOK
<1>2. CASE pendingResets[e] # NoCall
  <2> DEFINE c == pendingResets[e]
             now == AddResult(calls[c], e)
  <2>1. /\ c \in Calls
        /\ pendingResets' = [pendingResets EXCEPT ![e] = NoCall]
        /\ calls' = [calls EXCEPT ![c] = now]
    BY <1>2 DEF completePending, OwnTypeOK
  <2>2. calls[c] \in Call
    BY <2>1 DEF OwnTypeOK
  <2>3. now \in Call
    <3>1. CASE calls[c].status = "open" /\ calls[c].missing > 1
      <4>1. calls[c].missing - 1 \in Nat /\ calls[c].got \cup {e} \in SUBSET Elements
        BY <2>2, <3>1 DEF Call
      <4> QED
        BY <3>1, <4>1 DEF AddResult, OpenCall, Call
    <3>2. CASE ~(calls[c].status = "open" /\ calls[c].missing > 1)
      BY <3>2 DEF AddResult, RepliedCall, Call
    <3> QED
      BY <3>1, <3>2
  <2> HIDE DEF now, c
  <2>4. calls' \in [Calls -> Call]
    BY <2>1, <2>3 DEF OwnTypeOK
  <2> QED
    BY <2>1, <2>4 DEF OwnTypeOK
<1> QED
  BY <1>1, <1>2

(* The telemetry of an LPU after its element was given a new value.        *)
PollingInv == IoctlsWork => \A e \in LogDev : PollsRight(telemetry[e], elements[e].state)

LEMMA TelemetryUpdate ==
    ASSUME telemetry \in [Lpus -> Telemetry(MaxTelemetryRetry)], PollingInv,
           NEW e \in Lpus, NEW t \in Telemetry(MaxTelemetryRetry),
           telemetry' = [telemetry EXCEPT ![e] = t],
           \A f \in LogDev : f # e => elements'[f].state = elements[f].state,
           e \in LogDev /\ IoctlsWork => PollsRight(t, elements'[e].state)
    PROVE  telemetry' \in [Lpus -> Telemetry(MaxTelemetryRetry)] /\ PollingInv'
<1>1. telemetry' \in [Lpus -> Telemetry(MaxTelemetryRetry)]
  OBVIOUS
<1>2. telemetry'[e] = t /\ \A f \in LogDev : f # e => telemetry'[f] = telemetry[f]
  BY ServiceAssumption
<1>3. ASSUME IoctlsWork, NEW f \in LogDev PROVE PollsRight(telemetry'[f], elements'[f].state)
  <2>1. CASE f = e
    BY <1>2, <1>3, <2>1
  <2>2. CASE f # e
    BY <1>2, <1>3, <2>2 DEF PollingInv
  <2> QED
    BY <2>1, <2>2
<1>4. PollingInv'
  BY <1>3 DEF PollingInv, IoctlsWork
<1> QED
  BY <1>1, <1>4

LEMMA FollowFacts ==
    ASSUME telemetry \in [Lpus -> Telemetry(MaxTelemetryRetry)], PollingInv,
           NEW e \in Elements, Follow(e),
           \A f \in Elements : f # e => elements'[f] = elements[f]
    PROVE  telemetry' \in [Lpus -> Telemetry(MaxTelemetryRetry)] /\ PollingInv'
<1>1. \A f \in LogDev : f \in Elements /\ f \in Lpus
  BY ServiceAssumption DEF Elements
<1>2. CASE e \in LogDev /\ elements'[e].state # elements[e].state
  <2>1. PICK t \in TelemetryOnStateChange(telemetry[e], elements[e].state,
                                          elements'[e].state, IoctlResults) :
            telemetry' = [telemetry EXCEPT ![e] = t]
    BY <1>2 DEF Follow
  <2>2. /\ t \in Telemetry(MaxTelemetryRetry)
        /\ IoctlsWork /\ PollsRight(telemetry[e], elements[e].state)
              => PollsRight(t, elements'[e].state)
    BY <1>1, <1>2, <2>1, StateChangeFacts, ServiceAssumption
  <2> QED
    BY <1>1, <1>2, <2>1, <2>2, TelemetryUpdate DEF PollingInv
<1>3. CASE ~(e \in LogDev /\ elements'[e].state # elements[e].state)
  <2>1. UNCHANGED telemetry
    BY <1>3 DEF Follow
  <2>2. \A f \in LogDev : elements'[f].state = elements[f].state
    BY <1>1, <1>3
  <2> QED
    BY <2>1, <2>2 DEF PollingInv, IoctlsWork
<1> QED
  BY <1>2, <1>3

LEMMA SetElementFacts ==
    ASSUME elements \in [Elements -> Element], NEW e \in Elements, NEW now, SetElement(e, now)
    PROVE  elements'[e] = now /\ \A f \in Elements : f # e => elements'[f] = elements[f]
  BY DEF SetElement

LEMMA DispatchTypes ==
    ASSUME FsmTypeOK, OwnTypeOK, PollingInv, NEW e \in Elements, NEW event, Dispatch(e, event)
    PROVE  telemetry' \in [Lpus -> Telemetry(MaxTelemetryRetry)] /\ PollingInv'
<1>1. PICK armed \in TimerAdd : SetElement(e, ElementDispatch(elements[e], event, armed))
  BY DEF Dispatch, DispatchElement
<1>2. \A f \in Elements : f # e => elements'[f] = elements[f]
  BY <1>1, SetElementFacts DEF FsmTypeOK
<1> QED
  BY <1>2, FollowFacts DEF Dispatch, OwnTypeOK
Typed == FsmTypeOK /\ OwnTypeOK /\ PollingInv

(* A step that leaves the elements and the telemetry alone.                *)
LEMMA QuietPolling ==
    ASSUME PollingInv, UNCHANGED <<elements, telemetry>> PROVE PollingInv'
  BY DEF PollingInv, IoctlsWork

LEMMA SingleSeq ==
    ASSUME NEW S, NEW x \in S PROVE <<x>> \in Seq(S) /\ Len(<<x>>) = 1 /\ <<x>>[1] = x
  OBVIOUS
LEMMA PairSeq ==
    ASSUME NEW S, NEW x \in S, NEW y \in S
    PROVE  /\ <<x>> \o <<y>> \in Seq(S) /\ Len(<<x>> \o <<y>>) = 2
           /\ (<<x>> \o <<y>>)[1] = x /\ (<<x>> \o <<y>>)[2] = y
           /\ <<x, y>> \in Seq(S) /\ Len(<<x, y>>) = 2 /\ <<x, y>>[1] = x /\ <<x, y>>[2] = y
<1>1. /\ <<x, y>> \in Seq(S) /\ Len(<<x, y>>) = 2 /\ <<x, y>>[1] = x /\ <<x, y>>[2] = y
  OBVIOUS
<1> DEFINE p == <<x>>
           q == <<y>>
<1>2. p \in Seq(S) /\ Len(p) = 1 /\ p[1] = x /\ q \in Seq(S) /\ Len(q) = 1 /\ q[1] = y
  OBVIOUS
<1> HIDE DEF p, q
<1>3. p \o q \in Seq(S) /\ Len(p \o q) = 2 /\ (p \o q)[1] = x /\ (p \o q)[2] = y
  <2>1. /\ p \o q \in Seq(S) /\ Len(p \o q) = Len(p) + Len(q)
        /\ \A i \in 1..Len(p) : (p \o q)[i] = p[i]
        /\ \A i \in 1..Len(q) : (p \o q)[Len(p) + i] = q[i]
    <3>1. p \in Seq(S) /\ q \in Seq(S)
      BY <1>2
    <3> QED
      BY <3>1
  <2>2. (p \o q)[1] = p[1] /\ (p \o q)[Len(p) + 1] = q[1]
    BY <1>2, <2>1
  <2> QED
    BY <1>2, <2>1, <2>2
<1> QED
  BY <1>1, <1>3 DEF p, q
LEMMA NoneSeq ==
    ASSUME NEW S, NEW x \in Seq(S)
    PROVE  <<>> \in Seq(S) /\ Len(<<>>) = 0 /\ x \o <<>> = x
  OBVIOUS

LEMMA GpioMonTypes ==
    ASSUME Typed, GpioMon \/ injectLineState \/ drainPendingNotifies
    PROVE  OwnTypeOK' /\ PollingInv'
<1> USE DEF Typed
<1>1. ASSUME NEW l \in Lines, Unbind(l) PROVE OwnTypeOK' /\ PollingInv'
  <2>1. Unbound \in Levels \cup {Unbound}
    OBVIOUS
  <2> QED
    BY <1>1, <2>1, QuietPolling DEF Unbind, OwnTypeOK
<1>2. ASSUME NEW l \in Lines, NEW v \in Levels, Report(l, v) PROVE OwnTypeOK' /\ PollingInv'
  <2>1. [line |-> l, value |-> v] \in LineReport
    BY DEF LineReport
  <2>2. signals' \in Seq(LineReport)
    BY <1>2, <2>1 DEF Report, OwnTypeOK
  <2>3. level' \in [Lines -> Levels \cup {Unbound}]
    BY <1>2 DEF Report, OwnTypeOK
  <2> QED
    BY <1>2, <2>2, <2>3, QuietPolling DEF Report, OwnTypeOK
<1>3. CASE injectLineState
  <2>1. pendingQueue' \in Seq(LineReport) /\ signals' \in Seq(LineReport)
    BY <1>3 DEF injectLineState, OwnTypeOK
  <2> QED
    BY <1>3, <2>1, QuietPolling DEF injectLineState, OwnTypeOK
<1>4. CASE drainPendingNotifies
  <2>1. ASSUME NEW i \in 1..Len(pendingQueue)
        PROVE  Notify(pendingQueue[i].line, pendingQueue[i].value) \in Ops
    <3>1. pendingQueue[i] \in LineReport
      BY DEF OwnTypeOK
    <3> QED
      BY <3>1, NotifyFacts DEF LineReport
  <2>2. todo' \in [1..Len(pendingQueue) -> Ops] /\ Len(pendingQueue) \in Nat
    BY <1>4, <2>1 DEF drainPendingNotifies, OwnTypeOK
  <2>3. todo' \in Seq(Ops) /\ pendingQueue' \in Seq(LineReport)
    BY <1>4, <2>2 DEF drainPendingNotifies
  <2> QED
    BY <1>4, <2>3, QuietPolling DEF drainPendingNotifies, OwnTypeOK
<1> QED
  BY <1>1, <1>2, <1>3, <1>4 DEF GpioMon

LEMMA LineStepTypes ==
    ASSUME Typed, StepNotify \/ StepPgEdge \/ StepEmit PROVE OwnTypeOK' /\ PollingInv'
<1> USE DEF Typed
<1>1. CASE StepNotify
  <2> DEFINE l == Head(todo).line
             asserted == Logical(l, Head(todo).value)
  <2>1. l \in Lines /\ asserted \in BOOLEAN
    BY <1>1, HeadFacts, OpFacts, LogicalType DEF StepNotify, Running, OwnTypeOK
  <2>2. PICK subs \in InInitOrder(Subscribers(l)) :
            /\ cached' = [cached EXCEPT ![l] = asserted]
            /\ todo' = Calling(subs, l, asserted) \o Tail(todo)
    BY <1>1 DEF StepNotify, Calling
  <2> HIDE DEF l, asserted
  <2>3. todo' \in Seq(Ops)
    BY <1>1, <2>1, <2>2, CallingFacts, PushFacts DEF StepNotify, Running, OwnTypeOK
  <2>4. cached' \in [Lines -> BOOLEAN]
    BY <2>1, <2>2 DEF OwnTypeOK
  <2> QED
    BY <1>1, <2>3, <2>4, QuietPolling DEF StepNotify, OwnTypeOK
<1>2. CASE StepPgEdge
  <2> DEFINE e == Head(todo).el
  <2>1. e \in Elements /\ BcLine[e] \in Lines
    BY <1>2, HeadFacts, OpFacts, LineFacts DEF StepPgEdge, Running, OwnTypeOK
  <2>2. cached' \in [Lines -> BOOLEAN]
    BY <1>2, <2>1 DEF StepPgEdge, OwnTypeOK
  <2>3. todo' \in Seq(Ops)
    <3>1. /\ <<Emit(e, "PgHi")>> \o <<>> \in Seq(Ops) /\ <<Emit(e, "PgLo")>> \in Seq(Ops)
          /\ <<Emit(e, "PgHi")>> \o <<Emit(e, "BcHi")>> \in Seq(Ops)
      BY <2>1, MakerFacts, SingleSeq, PairSeq, NoneSeq
    <3>2. \/ todo' = (<<Emit(e, "PgHi")>> \o <<>>) \o Tail(todo)
          \/ todo' = <<Emit(e, "PgLo")>> \o Tail(todo)
          \/ todo' = (<<Emit(e, "PgHi")>> \o <<Emit(e, "BcHi")>>) \o Tail(todo)
      BY <1>2 DEF StepPgEdge
    <3>3. PICK x \in Seq(Ops) : todo' = x \o Tail(todo)
      BY <3>1, <3>2
    <3> QED
      BY <1>2, <3>3, PushFacts DEF StepPgEdge, Running, OwnTypeOK
  <2> QED
    BY <1>2, <2>2, <2>3, QuietPolling DEF StepPgEdge, OwnTypeOK
<1>3. CASE StepEmit
  <2>1. Head(todo).el \in Elements /\ Tail(todo) \in Seq(Ops)
    BY <1>3, HeadFacts, OpFacts DEF StepEmit, Running, OwnTypeOK
  <2>2. telemetry' \in [Lpus -> Telemetry(MaxTelemetryRetry)] /\ PollingInv'
    BY <1>3, <2>1, DispatchTypes DEF StepEmit
  <2>3. /\ pendingResets' \in [Elements -> Calls \cup {NoCall}]
        /\ calls' \in [Calls -> Call]
    BY <1>3, <2>1, CompleteTypes DEF StepEmit, OwnTypeOK
  <2> QED
    BY <1>3, <2>1, <2>2, <2>3 DEF StepEmit, OwnTypeOK
<1> QED
  BY <1>1, <1>2, <1>3

LEMMA ResetStepTypes ==
    ASSUME Typed, StepPulse \/ StepAssert \/ StepReleased \/ StepComplete \/ StepEraseTimer
    PROVE  OwnTypeOK' /\ PollingInv'
<1> USE DEF Typed
<1> DEFINE e == Head(todo).el
<1>1. CASE StepPulse
  <2>1. e \in Elements /\ BcLine[e] \in Lines
    BY <1>1, HeadFacts, OpFacts, LineFacts DEF StepPulse, Running, OwnTypeOK
  <2>2. telemetry' \in [Lpus -> Telemetry(MaxTelemetryRetry)] /\ PollingInv'
    BY <1>1, <2>1, DispatchTypes DEF StepPulse
  <2>3. cached' \in [Lines -> BOOLEAN]
    BY <1>1, <2>1 DEF StepPulse, OwnTypeOK
  <2>4. todo' \in Seq(Ops)
    <3>1. PICK result :
             todo' = (<<Released(e)>> \o (IF result = "Ok" THEN <<>>
                                          ELSE <<Complete(e, OutcomeOf(result))>>))
                     \o Tail(todo)
      BY <1>1 DEF StepPulse
    <3>2. /\ <<Released(e)>> \o <<>> \in Seq(Ops)
          /\ <<Released(e)>> \o <<Complete(e, OutcomeOf(result))>> \in Seq(Ops)
      BY <2>1, MakerFacts, OutcomeOfType, SingleSeq, PairSeq, NoneSeq
    <3> QED
      BY <1>1, <3>1, <3>2, PushFacts DEF StepPulse, Running, OwnTypeOK
  <2> QED
    BY <1>1, <2>2, <2>3, <2>4 DEF StepPulse, OwnTypeOK
<1>2. CASE StepAssert
  <2>1. e \in Elements /\ Tail(todo) \in Seq(Ops)
    BY <1>2, HeadFacts, OpFacts DEF StepAssert, Running, OwnTypeOK
  <2>2. telemetry' \in [Lpus -> Telemetry(MaxTelemetryRetry)] /\ PollingInv'
    BY <1>2, <2>1, DispatchTypes DEF StepAssert
  <2>3. todo' \in Seq(Ops)
    <3>1. PICK result :
             todo' = Append(Tail(todo), IF result = "Ok" THEN Released(e)
                                        ELSE Complete(e, OutcomeOf(result)))
      BY <1>2 DEF StepAssert
    <3>2. Released(e) \in Ops /\ Complete(e, OutcomeOf(result)) \in Ops
      BY <2>1, MakerFacts, OutcomeOfType
    <3> QED
      BY <2>1, <3>1, <3>2
  <2> QED
    BY <1>2, <2>2, <2>3 DEF StepAssert, OwnTypeOK
<1>3. CASE StepReleased
  <2>1. e \in Elements /\ Tail(todo) \in Seq(Ops)
    BY <1>3, HeadFacts, OpFacts DEF StepReleased, Running, OwnTypeOK
  <2>2. telemetry' \in [Lpus -> Telemetry(MaxTelemetryRetry)] /\ PollingInv'
    BY <1>3, <2>1, DispatchTypes DEF StepReleased
  <2> QED
    BY <1>3, <2>1, <2>2 DEF StepReleased, OwnTypeOK
<1>4. CASE StepComplete
  <2>1. e \in Elements /\ Tail(todo) \in Seq(Ops)
    BY <1>4, HeadFacts, OpFacts DEF StepComplete, Running, OwnTypeOK
  <2>2. /\ pendingResets' \in [Elements -> Calls \cup {NoCall}]
        /\ calls' \in [Calls -> Call]
    BY <1>4, <2>1, CompleteTypes DEF StepComplete
  <2> QED
    BY <1>4, <2>1, <2>2, QuietPolling DEF StepComplete, OwnTypeOK
<1>5. CASE StepEraseTimer
  <2>1. e \in Elements /\ Tail(todo) \in Seq(Ops)
    BY <1>5, HeadFacts, OpFacts DEF StepEraseTimer, Running, OwnTypeOK
  <2>2. \A f \in Elements : elements'[f].state = elements[f].state
    BY <1>5, <2>1 DEF StepEraseTimer, FsmTypeOK, Element
  <2>3. PollingInv'
    BY <1>5, <2>2, ServiceAssumption DEF StepEraseTimer, PollingInv, IoctlsWork, Elements
  <2> QED
    BY <1>5, <2>1, <2>3 DEF StepEraseTimer, OwnTypeOK
<1> QED
  BY <1>1, <1>2, <1>3, <1>4, <1>5
LEMMA ClientTypes ==
    ASSUME Typed, Client PROVE OwnTypeOK' /\ PollingInv'
<1> USE DEF Typed
<1>1. RepliedCall \in Call
  BY DEF RepliedCall, Call
<1>2. ASSUME NEW c \in Calls, NEW e \in Elements \cup Modules, RejectReset(c, e)
      PROVE  OwnTypeOK' /\ PollingInv'
  <2>1. calls' \in [Calls -> Call]
    BY <1>1, <1>2 DEF RejectReset, OwnTypeOK
  <2> QED
    BY <1>2, <2>1, QuietPolling DEF RejectReset, OwnTypeOK
<1>3. ASSUME NEW c \in Calls, NEW e \in Elements, NEW kind \in Kinds, requestResetAsync(c, e, kind)
      PROVE  OwnTypeOK' /\ PollingInv'
  <2>1. OpenCall(1, {}) \in Call
    BY DEF OpenCall, Call
  <2>2. calls' \in [Calls -> Call]
    BY <1>3, <2>1 DEF requestResetAsync, OwnTypeOK
  <2>3. todo' \in Seq(Ops)
    BY <1>3, MakerFacts, SingleSeq DEF requestResetAsync
  <2>4. /\ pendingResets' \in [Elements -> Calls \cup {NoCall}]
        /\ cached' \in [Lines -> BOOLEAN]
    BY <1>3 DEF requestResetAsync, OwnTypeOK
  <2> QED
    BY <1>3, <2>2, <2>3, <2>4, QuietPolling DEF requestResetAsync, OwnTypeOK
<1>4. ASSUME NEW c \in Calls, NEW class \in {Lpus, Fpgas}, NEW kind \in Kinds,
             requestResetAllSync(c, class, kind)
      PROVE  OwnTypeOK' /\ PollingInv'
  <2> DEFINE eligible == {e \in class : resetEligible(e)}
             busy == {e \in eligible : pendingResets[e] # NoCall}
  <2>1. PICK armed \in SUBSET (eligible \ busy) :
            LET unarmed == eligible \ (busy \cup armed)
            IN  /\ calls' = [calls EXCEPT ![c] =
                      IF armed = {} THEN RepliedCall
                      ELSE OpenCall(Cardinality(armed), busy \cup unarmed)]
                /\ pendingResets' = [e \in Elements |->
                      IF e \in armed THEN c ELSE pendingResets[e]]
                /\ cached' = [l \in Lines |->
                      cached[l] /\ \A e \in armed : BcLine[e] # l]
                /\ \E steps \in InInitOrder(armed) :
                     todo' = [i \in 1..Len(steps) |-> AssertReset(steps[i], kind)]
    BY <1>4 DEF requestResetAllSync
  <2>2. armed \in SUBSET Elements /\ eligible \in SUBSET Elements
    BY DEF Elements
  <2>3. OpenCall(Cardinality(armed), busy \cup (eligible \ (busy \cup armed))) \in Call
    <3>1. Cardinality(armed) \in Nat
      BY <2>2, ElementsFinite, FS_Subset, FS_CardinalityType
    <3>2. busy \cup (eligible \ (busy \cup armed)) \in SUBSET Elements
      BY <2>2
    <3> HIDE DEF eligible, busy
    <3> QED
      BY <3>1, <3>2 DEF OpenCall, Call
  <2>4. calls' \in [Calls -> Call]
    BY <1>1, <2>1, <2>3 DEF OwnTypeOK
  <2>5. pendingResets' \in [Elements -> Calls \cup {NoCall}] /\ cached' \in [Lines -> BOOLEAN]
    BY <2>1 DEF OwnTypeOK
  <2>6. todo' \in Seq(Ops)
    <3>1. PICK steps \in InInitOrder(armed) :
              todo' = [i \in 1..Len(steps) |-> AssertReset(steps[i], kind)]
      BY <2>1
    <3>2. Len(steps) \in Nat /\ \A i \in 1..Len(steps) : steps[i] \in Elements
      BY <2>2, InOrderFacts
    <3>3. todo' \in [1..Len(steps) -> Ops]
      BY <3>1, <3>2, MakerFacts
    <3> QED
      BY <3>2, <3>3
  <2> QED
    BY <1>4, <2>4, <2>5, <2>6, QuietPolling DEF requestResetAllSync, OwnTypeOK
<1>5. ASSUME NEW e \in Lpus, NEW enable \in VrCalls, setVrTelemetryConfigured(e, enable)
      PROVE  OwnTypeOK' /\ PollingInv'
  <2>1. enable \in BOOLEAN /\ telemetry[e] \in Telemetry(MaxTelemetryRetry)
    BY ServiceAssumption DEF OwnTypeOK
  <2>2. PICK t \in (IF e \in LogDev
                    THEN TelemetryConfigured(telemetry[e], enable, elements[e].state, IoctlResults)
                    ELSE {[telemetry[e] EXCEPT !.configured = enable]}) :
            telemetry' = [telemetry EXCEPT ![e] = t]
    BY <1>5 DEF setVrTelemetryConfigured
  <2>3. /\ t \in Telemetry(MaxTelemetryRetry)
        /\ e \in LogDev /\ IoctlsWork /\ PollsRight(telemetry[e], elements[e].state)
              => PollsRight(t, elements[e].state)
    <3>1. CASE e \in LogDev
      BY <2>1, <2>2, <3>1, ConfiguredFacts, ServiceAssumption
    <3>2. CASE e \notin LogDev
      BY <2>1, <2>2, <3>2 DEF Telemetry
    <3> QED
      BY <3>1, <3>2
  <2>4. UNCHANGED elements
    BY <1>5 DEF setVrTelemetryConfigured
  <2>5. telemetry' \in [Lpus -> Telemetry(MaxTelemetryRetry)] /\ PollingInv'
    BY <2>2, <2>3, <2>4, TelemetryUpdate DEF PollingInv, OwnTypeOK
  <2> QED
    BY <1>5, <2>5 DEF setVrTelemetryConfigured, OwnTypeOK
<1> QED
  BY <1>2, <1>3, <1>4, <1>5 DEF Client

LEMMA ReadFacts ==
    ASSUME OwnTypeOK, NEW e \in Elements, NEW v \in StickyReads(e), Sticky(e, v)
    PROVE  v \in Levels /\ BcLine[e] \in Lines /\ Logical(BcLine[e], v)
<1>1. BcLine[e] \in Lines
  BY LineFacts
<1>2. level[BcLine[e]] \in Levels \cup {Unbound}
  BY <1>1 DEF OwnTypeOK
<1> QED
  BY <1>1, <1>2 DEF StickyReads, Sticky

LEMMA TimerTypes ==
    ASSUME Typed, Timers PROVE OwnTypeOK' /\ PollingInv'
<1> USE DEF Typed
<1>1. ASSUME NEW e \in Elements, ResetDeadline(e) PROVE OwnTypeOK' /\ PollingInv'
  <2>1. PICK v \in StickyReads(e) :
          \/ /\ Sticky(e, v)
             /\ todo' = <<Notify(BcLine[e], v), Complete(e, "Ok")>>
             /\ UNCHANGED <<pendingResets, calls>>
          \/ /\ ~Sticky(e, v)
             /\ completePending(e)
             /\ UNCHANGED todo
    BY <1>1 DEF ResetDeadline
  <2>2. CASE Sticky(e, v)
    <3>1. Notify(BcLine[e], v) \in Ops /\ Complete(e, "Ok") \in Ops
      BY <2>2, ReadFacts, NotifyFacts, MakerFacts DEF Outcomes
    <3>2. todo' \in Seq(Ops)
      BY <2>1, <2>2, <3>1, PairSeq, ZenonT(40)
    <3> QED
      BY <1>1, <2>1, <2>2, <3>2, QuietPolling DEF ResetDeadline, OwnTypeOK
  <2>3. CASE ~Sticky(e, v)
    BY <1>1, <2>1, <2>3, CompleteTypes, QuietPolling DEF ResetDeadline, OwnTypeOK
  <2> QED
    BY <2>2, <2>3
<1>2. ASSUME NEW e \in Elements, BootDeadline(e) PROVE OwnTypeOK' /\ PollingInv'
  <2>1. PICK v \in StickyReads(e) :
          \/ /\ Sticky(e, v)
             /\ todo' = <<Notify(BcLine[e], v), EraseTimer(e)>>
             /\ UNCHANGED <<elements, modules, tray, telemetry>>
          \/ /\ ~Sticky(e, v)
             /\ ExpireBootTimer(e) /\ Follow(e)
             /\ UNCHANGED todo
    BY <1>2 DEF BootDeadline
  <2>2. CASE Sticky(e, v)
    <3>1. Notify(BcLine[e], v) \in Ops /\ EraseTimer(e) \in Ops
      BY <2>2, ReadFacts, NotifyFacts, MakerFacts
    <3>2. todo' \in Seq(Ops)
      BY <2>1, <2>2, <3>1, PairSeq
    <3> QED
      BY <1>2, <2>1, <2>2, <3>2, QuietPolling DEF BootDeadline, OwnTypeOK
  <2>3. CASE ~Sticky(e, v)
    <3>1. PICK armed \in TimerAdd :
              SetElement(e, [ElementDispatch(elements[e], "TBootExpired", armed)
                                EXCEPT !.bootTimer = FALSE])
      BY <2>1, <2>3 DEF ExpireBootTimer
    <3>2. \A f \in Elements : f # e => elements'[f] = elements[f]
      BY <3>1, SetElementFacts DEF FsmTypeOK
    <3>3. telemetry' \in [Lpus -> Telemetry(MaxTelemetryRetry)] /\ PollingInv'
      BY <2>1, <2>3, <3>2, FollowFacts DEF OwnTypeOK
    <3> QED
      BY <1>2, <2>1, <2>3, <3>3 DEF BootDeadline, OwnTypeOK
  <2> QED
    BY <2>2, <2>3
<1>3. ASSUME NEW e \in Lpus, TelemetryRetry(e) PROVE OwnTypeOK' /\ PollingInv'
  <2>1. telemetry[e] \in Telemetry(MaxTelemetryRetry) /\ MaxTelemetryRetry \in Nat
    BY ServiceAssumption DEF OwnTypeOK
  <2>2. PICK t \in TelemetryRetryFired(telemetry[e], elements[e].state,
                                       MaxTelemetryRetry, IoctlResults) :
            telemetry' = [telemetry EXCEPT ![e] = t]
    BY <1>3 DEF TelemetryRetry
  <2>3. /\ t \in Telemetry(MaxTelemetryRetry)
        /\ IoctlsWork /\ PollsRight(telemetry[e], elements[e].state)
              => PollsRight(t, elements[e].state)
    BY <2>1, <2>2, RetryFiredFacts
  <2>4. UNCHANGED elements
    BY <1>3 DEF TelemetryRetry
  <2>5. telemetry' \in [Lpus -> Telemetry(MaxTelemetryRetry)] /\ PollingInv'
    BY <2>2, <2>3, <2>4, TelemetryUpdate DEF PollingInv, OwnTypeOK
  <2> QED
    BY <1>3, <2>5 DEF TelemetryRetry, OwnTypeOK
<1> QED
  BY <1>1, <1>2, <1>3 DEF Timers

LEMMA RestartTypes ==
    ASSUME Typed, Restart PROVE OwnTypeOK' /\ PollingInv'
<1> USE DEF Typed
<1>1. level' \in [Lines -> Levels \cup {Unbound}] /\ cached' \in [Lines -> BOOLEAN]
      /\ pendingResets' \in [Elements -> Calls \cup {NoCall}]
      /\ todo' = <<>> /\ pendingQueue' = <<>>
  BY DEF Restart, OwnTypeOK
<1>2. todo' \in Seq(Ops) /\ pendingQueue' \in Seq(LineReport)
  BY <1>1
<1>3. calls' \in [Calls -> Call]
  <2>1. IdleCall \in Call
    BY DEF IdleCall, Call
  <2> QED
    BY <2>1 DEF Restart, OwnTypeOK
<1>4. signals' \in Seq(LineReport)
  <2>1. PICK order \in [1..Cardinality(BoundLines) -> BoundLines] :
            signals' = [i \in DOMAIN order |-> [line |-> order[i], value |-> level[order[i]]]]
    BY DEF Restart
  <2>2. Cardinality(BoundLines) \in Nat
    <3>1. BoundLines \in SUBSET Lines
      BY DEF BoundLines
    <3> QED
      BY <3>1, LinesAssumption, FS_Subset, FS_CardinalityType
  <2>3. \A l \in BoundLines : [line |-> l, value |-> level[l]] \in LineReport
    BY DEF BoundLines, LineReport, OwnTypeOK
  <2>4. signals' \in [1..Cardinality(BoundLines) -> LineReport]
    BY <2>1, <2>3
  <2> QED
    BY <2>2, <2>4
<1>5. telemetry' \in [Lpus -> Telemetry(MaxTelemetryRetry)] /\ PollingInv'
  <2>1. PICK ok \in [LogDev -> IoctlResults] :
            telemetry' = [e \in Lpus |->
               IF e \in LogDev
               THEN applyTelemetryPolling([InitTelemetry EXCEPT !.mask = telemetry[e].mask],
                                          FALSE, ok[e])
               ELSE InitTelemetry]
    BY DEF Restart
  <2>2. 0 \in 0..MaxTelemetryRetry
    BY ServiceAssumption
  <2>3. InitTelemetry \in Telemetry(MaxTelemetryRetry)
    BY <2>2 DEF InitTelemetry, Telemetry, Masks
  <2>4. ASSUME NEW e \in LogDev
        PROVE  LET t == applyTelemetryPolling([InitTelemetry EXCEPT !.mask = telemetry[e].mask],
                                              FALSE, ok[e])
               IN  /\ t \in Telemetry(MaxTelemetryRetry) /\ t.retry = 0
                   /\ IoctlsWork => t.mask = "off"
    <3> DEFINE u == [InitTelemetry EXCEPT !.mask = telemetry[e].mask]
               m == IF ok[e] THEN "off" ELSE telemetry[e].mask
               t == [u EXCEPT !.mask = m]
    <3>1. telemetry[e] \in Telemetry(MaxTelemetryRetry)
      BY ServiceAssumption DEF OwnTypeOK
    <3>2. telemetry[e].mask \in Masks /\ m \in Masks
      BY <3>1 DEF Telemetry, Masks
    <3>3. IoctlsWork => m = "off"
      <4>1. IoctlsWork => ok[e]
        BY DEF IoctlsWork
      <4> QED
        BY <4>1
    <3>4. applyTelemetryPolling(u, FALSE, ok[e]) = t
      BY <2>3 DEF applyTelemetryPolling, PollingMask, InitTelemetry
    <3> HIDE DEF m
    <3>5. u \in Telemetry(MaxTelemetryRetry) /\ u.retry = 0
      BY <2>2, <3>2 DEF InitTelemetry, Telemetry
    <3> HIDE DEF u
    <3>6. t \in Telemetry(MaxTelemetryRetry) /\ t.retry = 0 /\ t.mask = m
      BY <3>2, <3>5 DEF Telemetry
    <3> HIDE DEF t
    <3> QED
      BY <3>3, <3>4, <3>6 DEF u
  <2>5. telemetry' \in [Lpus -> Telemetry(MaxTelemetryRetry)]
    BY <2>1, <2>3, <2>4
  <2>6. ASSUME IoctlsWork, NEW e \in LogDev PROVE PollsRight(telemetry'[e], elements'[e].state)
    <3>1. e \in Lpus /\ e \in Elements
      BY ServiceAssumption DEF Elements
    <3>2. telemetry'[e].mask = "off" /\ telemetry'[e].retry = 0
      BY <2>1, <2>4, <2>6, <3>1
    <3>3. elements'[e].state = "Stby"
      BY <3>1 DEF Restart, InitElement
    <3>4. ~(telemetry'[e].retry > 0)
      BY <3>2
    <3> QED
      BY <3>2, <3>3, <3>4 DEF PollsRight
  <2>7. PollingInv'
    BY <2>6 DEF PollingInv, IoctlsWork
  <2> QED
    BY <2>5, <2>7
<1> QED
  BY <1>1, <1>2, <1>3, <1>4, <1>5 DEF OwnTypeOK

LEMMA NextTypes ==
    ASSUME Typed, [Next]_vars PROVE OwnTypeOK' /\ PollingInv'
<1>1. CASE UNCHANGED vars
  BY <1>1, QuietPolling DEF Typed, OwnTypeOK, vars
<1> QED
  BY <1>1, GpioMonTypes, LineStepTypes, ResetStepTypes, ClientTypes, TimerTypes, RestartTypes
     DEF Next, Step
-----------------------------------------------------------------------------
(* The clients' calls.                                                     *)
Waiting(c) == {e \in Elements : pendingResets[e] = c}
CallRight(call, W) ==
    /\ call.status = "open" => /\ Cardinality(W) = call.missing
                               /\ W # {} /\ W \cap call.got = {}
    /\ call.status # "open" => W = {}

LEMMA AccountingIsCallRight ==
    CallAccounting <=> \A c \in Calls : CallRight(calls[c], Waiting(c))
  BY DEF CallAccounting, CallRight, Waiting

LEMMA AccountingIsCallRightAfter ==
    CallAccounting' <=> \A c \in Calls : CallRight(calls'[c], Waiting(c)')
  BY DEF CallAccounting, CallRight, Waiting

LEMMA QuietAccounting ==
    ASSUME CallAccounting, UNCHANGED <<pendingResets, calls>> PROVE CallAccounting'
  BY DEF CallAccounting

LEMMA WaitingFinite ==
    ASSUME NEW W \in SUBSET Elements
    PROVE  IsFiniteSet(W) /\ Cardinality(W) \in Nat
  BY ElementsFinite, FS_Subset, FS_CardinalityType

(* A result is taken from one waiting reset and leaves the others.         *)
LEMMA AddResultRight ==
    ASSUME NEW call \in Call, NEW W \in SUBSET Elements, NEW e \in W, CallRight(call, W)
    PROVE  CallRight(AddResult(call, e), W \ {e})
<1>1. IsFiniteSet(W) /\ Cardinality(W) \in Nat
  BY WaitingFinite
<1>2. IsFiniteSet(W \ {e}) /\ Cardinality(W \ {e}) = Cardinality(W) - 1
  BY <1>1, FS_RemoveElement
<1>3. /\ call.status = "open" /\ Cardinality(W) = call.missing /\ W \cap call.got = {}
  BY DEF CallRight
<1>4. CASE call.missing > 1
  <2> DEFINE now == AddResult(call, e)
  <2>1. now = OpenCall(call.missing - 1, call.got \cup {e})
    BY <1>3, <1>4 DEF AddResult
  <2>2. now.status = "open" /\ now.missing = call.missing - 1 /\ now.got = call.got \cup {e}
    BY <2>1 DEF OpenCall
  <2>3. Cardinality(W \ {e}) = now.missing /\ Cardinality(W \ {e}) # 0
    BY <1>1, <1>2, <1>3, <1>4, <2>2
  <2>4. W \ {e} # {}
    BY <2>3, FS_EmptySet
  <2>5. (W \ {e}) \cap now.got = {}
    BY <1>3, <2>2
  <2> HIDE DEF now
  <2>6. CallRight(now, W \ {e})
    BY <2>2, <2>3, <2>4, <2>5 DEF CallRight
  <2> QED
    BY <2>6 DEF now
<1>5. CASE ~(call.missing > 1)
  <2>1. AddResult(call, e) = RepliedCall
    BY <1>5 DEF AddResult
  <2>2. call.missing \in Nat /\ Cardinality(W \ {e}) = 0
    <3>1. Cardinality(W) # 0
      BY <1>1, FS_EmptySet
    <3> QED
      BY <1>1, <1>2, <1>3, <1>5, <3>1
  <2>3. W \ {e} = {}
    BY <1>2, <2>2, FS_EmptySet
  <2> QED
    BY <2>1, <2>3 DEF CallRight, RepliedCall
<1> QED
  BY <1>4, <1>5

LEMMA CompleteAccounts ==
    ASSUME OwnTypeOK, CallAccounting, NEW e \in Elements, completePending(e)
    PROVE  CallAccounting'
<1>1. CASE pendingResets[e] = NoCall
  BY <1>1, QuietAccounting DEF completePending
<1>2. CASE pendingResets[e] # NoCall
  <2> DEFINE c == pendingResets[e]
  <2>1. /\ c \in Calls /\ c # NoCall
        /\ pendingResets' = [pendingResets EXCEPT ![e] = NoCall]
        /\ calls' = [calls EXCEPT ![c] = AddResult(calls[c], e)]
    BY <1>2, ServiceAssumption DEF completePending, OwnTypeOK
  <2>2. e \in Waiting(c) /\ Waiting(c) \in SUBSET Elements
    BY DEF Waiting
  <2>3. calls[c] \in Call /\ CallRight(calls[c], Waiting(c))
    BY <2>1, AccountingIsCallRight DEF OwnTypeOK
  <2> HIDE DEF c
  <2>4. CallRight(AddResult(calls[c], e), Waiting(c) \ {e})
    BY <2>2, <2>3, AddResultRight
  <2>5. ASSUME NEW d \in Calls PROVE CallRight(calls'[d], Waiting(d)')
    <3>1. CASE d = c
      <4>1. Waiting(d)' = Waiting(c) \ {e}
        BY <2>1, <3>1, ServiceAssumption DEF Waiting, OwnTypeOK
      <4>2. calls'[d] = AddResult(calls[c], e)
        BY <2>1, <3>1 DEF OwnTypeOK
      <4> QED
        BY <2>4, <4>1, <4>2
    <3>2. CASE d # c
      <4>1. Waiting(d)' = Waiting(d)
        BY <2>1, <3>2, ServiceAssumption DEF Waiting, OwnTypeOK, c
      <4>2. calls'[d] = calls[d]
        BY <2>1, <3>2 DEF OwnTypeOK
      <4> QED
        BY <4>1, <4>2, AccountingIsCallRight
    <3> QED
      BY <3>1, <3>2
  <2> QED
    BY <2>5, AccountingIsCallRightAfter
<1> QED
  BY <1>1, <1>2

(* A call that is free may start any set of resets that nobody waits for.  *)
LEMMA StartAccounts ==
    ASSUME OwnTypeOK, CallAccounting, NEW c \in Calls, calls[c].status # "open",
           NEW S \in SUBSET Elements, \A e \in S : pendingResets[e] = NoCall,
           pendingResets' = [e \in Elements |-> IF e \in S THEN c ELSE pendingResets[e]],
           NEW call, calls' = [calls EXCEPT ![c] = call], CallRight(call, S)
    PROVE  CallAccounting'
<1>1. ASSUME NEW d \in Calls PROVE CallRight(calls'[d], Waiting(d)')
  <2>1. Waiting(c) = {}
    BY AccountingIsCallRight DEF CallRight
  <2>2. CASE d = c
    <3>1. Waiting(d)' = S
      BY <2>1, <2>2 DEF Waiting
    <3>2. calls'[d] = call
      BY <2>2 DEF OwnTypeOK
    <3> QED
      BY <3>1, <3>2
  <2>3. CASE d # c
    <3>1. Waiting(d)' = Waiting(d)
      BY <2>3, ServiceAssumption DEF Waiting
    <3>2. calls'[d] = calls[d]
      BY <2>3 DEF OwnTypeOK
    <3> QED
      BY <3>1, <3>2, AccountingIsCallRight
  <2> QED
    BY <2>2, <2>3
<1> QED
  BY <1>1, AccountingIsCallRightAfter

LEMMA ClientAccounts ==
    ASSUME OwnTypeOK, CallAccounting, Client PROVE CallAccounting'
<1>0. pendingResets = [e \in Elements |-> pendingResets[e]]
  BY DEF OwnTypeOK
<1>1. CallRight(RepliedCall, {})
  BY DEF CallRight, RepliedCall
<1>2. ASSUME NEW c \in Calls, NEW e \in Elements \cup Modules, RejectReset(c, e)
      PROVE  CallAccounting'
  <2>1. pendingResets' = [f \in Elements |-> IF f \in {} THEN c ELSE pendingResets[f]]
    BY <1>0, <1>2 DEF RejectReset
  <2> QED
    BY <1>1, <1>2, <2>1, StartAccounts DEF RejectReset, FreeCall
<1>3. ASSUME NEW c \in Calls, NEW e \in Elements, NEW kind \in Kinds, requestResetAsync(c, e, kind)
      PROVE  CallAccounting'
  <2> DEFINE S == {e}
  <2>1. pendingResets' = [f \in Elements |-> IF f \in S THEN c ELSE pendingResets[f]]
    BY <1>0, <1>3 DEF requestResetAsync
  <2>2. CallRight(OpenCall(1, {}), S)
    <3>1. Cardinality({e}) = 1
      BY FS_Singleton
    <3> QED
      BY <3>1 DEF CallRight, OpenCall
  <2>3. S \in SUBSET Elements /\ \A f \in S : pendingResets[f] = NoCall
    BY <1>3 DEF requestResetAsync
  <2> HIDE DEF S
  <2> QED
    BY <1>3, <2>1, <2>2, <2>3, StartAccounts DEF requestResetAsync, FreeCall
<1>4. ASSUME NEW c \in Calls, NEW class \in {Lpus, Fpgas}, NEW kind \in Kinds,
             requestResetAllSync(c, class, kind)
      PROVE  CallAccounting'
  <2> DEFINE eligible == {e \in class : resetEligible(e)}
             busy == {e \in eligible : pendingResets[e] # NoCall}
  <2>1. PICK armed \in SUBSET (eligible \ busy) :
            /\ calls' = [calls EXCEPT ![c] =
                  IF armed = {} THEN RepliedCall
                  ELSE OpenCall(Cardinality(armed), busy \cup (eligible \ (busy \cup armed)))]
            /\ pendingResets' = [e \in Elements |-> IF e \in armed THEN c ELSE pendingResets[e]]
    BY <1>4 DEF requestResetAllSync
  <2>2. armed \in SUBSET Elements /\ \A e \in armed : pendingResets[e] = NoCall
    BY DEF Elements
  <2> DEFINE got == busy \cup (eligible \ (busy \cup armed))
             call == IF armed = {} THEN RepliedCall ELSE OpenCall(Cardinality(armed), got)
  <2>3. armed \cap got = {}
    OBVIOUS
  <2> HIDE DEF got
  <2>4. CallRight(call, armed)
    BY <1>1, <2>3 DEF CallRight, OpenCall
  <2>5. calls' = [calls EXCEPT ![c] = call] /\ calls[c].status # "open"
    BY <1>4, <2>1 DEF got, requestResetAllSync, FreeCall
  <2> HIDE DEF call
  <2> QED
    BY <2>1, <2>2, <2>4, <2>5, StartAccounts
<1>5. ASSUME NEW e \in Lpus, NEW enable \in VrCalls, setVrTelemetryConfigured(e, enable)
      PROVE  CallAccounting'
  BY <1>5, QuietAccounting DEF setVrTelemetryConfigured
<1> QED
  BY <1>2, <1>3, <1>4, <1>5 DEF Client

LEMMA NextAccounts ==
    ASSUME OwnTypeOK, CallAccounting, [Next]_vars PROVE CallAccounting'
<1>1. CASE UNCHANGED vars
  BY <1>1, QuietAccounting DEF vars
<1>2. CASE GpioMon \/ injectLineState \/ drainPendingNotifies
  BY <1>2, QuietAccounting DEF GpioMon, Unbind, Report, injectLineState, drainPendingNotifies
<1>3. CASE StepNotify \/ StepPgEdge \/ StepPulse \/ StepAssert \/ StepReleased \/ StepEraseTimer
  BY <1>3, QuietAccounting DEF StepNotify, StepPgEdge, StepPulse, StepAssert, StepReleased,
                               StepEraseTimer
<1>4. CASE StepEmit
  <2>1. Head(todo).el \in Elements
    BY <1>4, HeadFacts, OpFacts DEF StepEmit, Running, OwnTypeOK
  <2> QED
    BY <1>4, <2>1, CompleteAccounts, QuietAccounting DEF StepEmit
<1>5. CASE StepComplete
  <2>1. Head(todo).el \in Elements
    BY <1>5, HeadFacts, OpFacts DEF StepComplete, Running, OwnTypeOK
  <2> QED
    BY <1>5, <2>1, CompleteAccounts DEF StepComplete
<1>6. CASE Client
  BY <1>6, ClientAccounts
<1>7. ASSUME NEW e \in Elements, ResetDeadline(e) PROVE CallAccounting'
  BY <1>7, CompleteAccounts, QuietAccounting DEF ResetDeadline
<1>8. ASSUME NEW e \in Elements, BootDeadline(e) PROVE CallAccounting'
  BY <1>8, QuietAccounting DEF BootDeadline
<1>9. ASSUME NEW e \in Lpus, TelemetryRetry(e) PROVE CallAccounting'
  BY <1>9, QuietAccounting DEF TelemetryRetry
<1>10. CASE Restart
  <2>1. ASSUME NEW c \in Calls PROVE CallRight(calls'[c], Waiting(c)')
    <3>1. Waiting(c)' = {}
      BY <1>10, ServiceAssumption DEF Restart, Waiting
    <3>2. calls'[c].status # "open"
      BY <1>10 DEF Restart, IdleCall
    <3> QED
      BY <3>1, <3>2 DEF CallRight
  <2> QED
    BY <2>1, AccountingIsCallRightAfter
<1> QED
  BY <1>1, <1>2, <1>3, <1>4, <1>5, <1>6, <1>7, <1>8, <1>9, <1>10 DEF Next, Step, Timers
-----------------------------------------------------------------------------
(* What a dispatch does to an element, seen from the callbacks: only       *)
(* boot-complete brings it Online and it always ends the boot deadline;    *)
(* a withdrawn boot-complete, lost power and a reset take it from Online.  *)
LEMMA ElementRowMoves ==
    \A r \in ElementTable :
        /\ r.to = "Online" => r.event = "BcHi"
        /\ r.event = "BcHi" => r.to # "Powered"
        /\ r.from = "Online" => r.to # "Online"
  BY DEF ElementTable, TransitionRow

LEMMA ElementRowsExist ==
    ASSUME NEW el, NEW event,
           \/ el.state = "Online" /\ event \in {"BcLo", "PgLo", "RstAsserted"}
           \/ el.state = "Powered" /\ event = "BcHi"
    PROVE  ElementRows(el, event) # {}
<1> DEFINE Row(from, ev, to, action) == TransitionRow(from, ev, "always", to, action)
<1>1. /\ Row("Online", "BcLo", "Fault", "setFaultBootRegress") \in ElementTable
      /\ Row("Online", "PgLo", "Fault", "setFaultPgoodDrop") \in ElementTable
      /\ Row("Online", "RstAsserted", "Resetting", "none") \in ElementTable
      /\ Row("Powered", "BcHi", "Online", "cancelTBoot") \in ElementTable
  BY DEF ElementTable
<1>2. ASSUME NEW from, NEW ev, NEW to, NEW action, el.state = from, event = ev,
             Row(from, ev, to, action) \in ElementTable
      PROVE  ElementRows(el, event) # {}
  <2>1. Row(from, ev, to, action) \in ElementRows(el, event)
    BY <1>2 DEF ElementRows, Matching, TransitionRow, ElementGuard
  <2> QED
    BY <2>1
<1> HIDE DEF Row
<1>3. CASE el.state = "Online" /\ event = "BcLo"
  BY <1>1, <1>2, <1>3
<1>4. CASE el.state = "Online" /\ event = "PgLo"
  BY <1>1, <1>2, <1>4
<1>5. CASE el.state = "Online" /\ event = "RstAsserted"
  BY <1>1, <1>2, <1>5
<1>6. CASE el.state = "Powered" /\ event = "BcHi"
  BY <1>1, <1>2, <1>6
<1> QED
  BY <1>3, <1>4, <1>5, <1>6

LEMMA DispatchMoves ==
    ASSUME NEW el, GoodElement(el), NEW event \in ElementEvents, NEW armed \in BOOLEAN
    PROVE  LET now == ElementDispatch(el, event, armed)
           IN  /\ now.state = "Online" => el.state = "Online" \/ event = "BcHi"
               /\ event \in {"BcLo", "PgLo", "RstAsserted"} => now.state # "Online"
               /\ event = "BcHi" => ~now.bootTimer
<1> DEFINE now == ElementDispatch(el, event, armed)
<1>1. CASE ElementRows(el, event) = {}
  <2>1. now = el
    BY <1>1 DEF ElementDispatch
  <2>2. /\ event \in {"BcLo", "PgLo", "RstAsserted"} => el.state # "Online"
        /\ event = "BcHi" => el.state # "Powered"
    BY <1>1, ElementRowsExist
  <2> QED
    BY <2>1, <2>2 DEF GoodElement
<1>2. CASE ElementRows(el, event) # {}
  <2>1. PICK r \in ElementRows(el, event) : now.state = r.to
    BY <1>2 DEF ElementDispatch
  <2>2. r \in ElementTable /\ r.from = el.state /\ r.event = event
    BY ElementRowOfRows
  <2>3. /\ now.state = "Online" => el.state = "Online" \/ event = "BcHi"
        /\ event = "BcHi" => now.state # "Powered"
        /\ event \in {"BcLo", "PgLo", "RstAsserted"} => now.state # "Online"
    BY <2>1, <2>2, ElementRowMoves
  <2>4. event = "BcHi" => GoodElement(now)
    BY DispatchFacts
  <2> QED
    BY <2>3, <2>4 DEF GoodElement
<1> QED
  BY <1>1, <1>2

-----------------------------------------------------------------------------
(* The boot timer's sticky path ends with the entry of bootTimers_ being   *)
(* dropped.  By then the boot-complete it replays has cancelled the timer, *)
(* so that nothing is lost; until then nothing else is run.                *)
Cancels(o, e) ==
    \/ o.op = "notify" /\ o.line = BcLine[e] /\ Logical(o.line, o.value)
    \/ o.op = "emit" /\ o.el = e /\ o.event = "BcHi"
Replays(o) ==
    \/ o.op = "notify" /\ Logical(o.line, o.value) /\ \E f \in Elements : o.line = BcLine[f]
    \/ o.op = "emit" /\ o.event = "BcHi"
StickyEnds ==
    \A i \in 1..Len(todo) : todo[i].op = "eraseTimer" =>
        /\ i = Len(todo)
        /\ \A j \in 1..Len(todo) : j # i => Replays(todo[j])
        /\ elements[todo[i].el].bootTimer =>
              \E j \in 1..Len(todo) : Cancels(todo[j], todo[i].el)

LEMMA NoEraseSticks ==
    ASSUME \A i \in 1..Len(todo') : todo'[i].op # "eraseTimer" PROVE StickyEnds'
  BY DEF StickyEnds

(* Every other operation at the head means that no timer is dropped.       *)
LEMMA NothingErased ==
    ASSUME OwnTypeOK, StickyEnds, todo # <<>>,
           Head(todo).op \notin {"eraseTimer", "notify", "emit"}
    PROVE  \A i \in 1..Len(todo) : todo[i].op # "eraseTimer"
<1>1. Head(todo) = todo[1] /\ 1 \in 1..Len(todo)
  BY PushFacts DEF OwnTypeOK
<1> QED
  BY <1>1 DEF StickyEnds, Replays

LEMMA PushErasesNothing ==
    ASSUME OwnTypeOK, \A i \in 1..Len(todo) : todo[i].op # "eraseTimer", todo # <<>>,
           NEW x \in Seq(Ops), \A i \in 1..Len(x) : x[i].op # "eraseTimer",
           todo' = x \o Tail(todo)
    PROVE  StickyEnds'
<1>1. ASSUME NEW i \in 1..Len(todo') PROVE todo'[i].op # "eraseTimer"
  <2>1. \/ i \in 1..Len(x) /\ todo'[i] = x[i]
        \/ i - Len(x) + 1 \in 2..Len(todo) /\ todo'[i] = todo[i - Len(x) + 1]
    BY PushIndex DEF OwnTypeOK
  <2>2. \A k \in 2..Len(todo) : k \in 1..Len(todo)
    BY DEF OwnTypeOK
  <2> QED
    BY <2>1, <2>2
<1> QED
  BY <1>1, NoEraseSticks
LEMMA TailErasesNothing ==
    ASSUME OwnTypeOK, \A i \in 1..Len(todo) : todo[i].op # "eraseTimer", todo # <<>>,
           todo' = Tail(todo)
    PROVE  StickyEnds'
<1>1. /\ Len(todo') = Len(todo) - 1 /\ Len(todo) \in Nat
      /\ \A i \in 1..(Len(todo) - 1) : todo'[i] = todo[i + 1] /\ i + 1 \in 1..Len(todo)
  BY PushFacts DEF OwnTypeOK
<1> QED
  BY <1>1, NoEraseSticks

LEMMA NotifySticks ==
    ASSUME OwnTypeOK, StickyEnds, StepNotify PROVE StickyEnds'
<1> DEFINE l == Head(todo).line
           asserted == Logical(l, Head(todo).value)
<1>1. l \in Lines /\ asserted \in BOOLEAN /\ todo # <<>> /\ todo \in Seq(Ops)
      /\ Head(todo).op = "notify" /\ Head(todo) = todo[1] /\ 1 \in 1..Len(todo) /\ Len(todo) \in Nat
  BY HeadFacts, OpFacts, LogicalType, PushFacts DEF StepNotify, Running, OwnTypeOK
<1>2. PICK subs \in InInitOrder(Subscribers(l)) :
          todo' = Calling(subs, l, asserted) \o Tail(todo)
  BY DEF StepNotify, Calling
<1> DEFINE x == Calling(subs, l, asserted)
<1>3. /\ x \in Seq(Ops) /\ Len(x) = Len(subs) /\ Len(subs) \in Nat
      /\ \A i \in 1..Len(subs) :
            /\ subs[i] \in Subscribers(l)
            /\ x[i] = IF PgLine[subs[i]] = l THEN PgEdge(subs[i], asserted)
                      ELSE Emit(subs[i], IF asserted THEN "BcHi" ELSE "BcLo")
      /\ \A e \in Subscribers(l) : \E i \in 1..Len(subs) : subs[i] = e
  BY <1>1, CallingFacts
<1> HIDE DEF l, asserted, x
<1>4. \A i \in 1..Len(x) : x[i].op \in {"pgEdge", "emit"}
  <2> SUFFICES ASSUME NEW i \in 1..Len(x) PROVE x[i].op \in {"pgEdge", "emit"}
    OBVIOUS
  <2>1. (\A e, b : PgEdge(e, b).op = "pgEdge") /\ (\A e, ev : Emit(e, ev).op = "emit")
    BY DEF PgEdge, Emit
  <2>2. \/ x[i] = PgEdge(subs[i], asserted)
        \/ x[i] = Emit(subs[i], IF asserted THEN "BcHi" ELSE "BcLo")
    BY <1>3
  <2> QED
    BY <2>1, <2>2
<1>5. CASE \A i \in 1..Len(todo) : todo[i].op # "eraseTimer"
  BY <1>1, <1>2, <1>3, <1>4, <1>5, PushErasesNothing DEF x
<1>6. ASSUME NEW i \in 1..Len(todo), todo[i].op = "eraseTimer" PROVE StickyEnds'
  <2>1. /\ i = Len(todo) /\ i # 1
        /\ \A j \in 1..Len(todo) : j # i => Replays(todo[j])
        /\ elements[todo[i].el].bootTimer =>
              \E j \in 1..Len(todo) : Cancels(todo[j], todo[i].el)
    BY <1>1, <1>6 DEF StickyEnds
  <2>2. asserted /\ \E f \in Elements : l = BcLine[f]
    BY <1>1, <2>1 DEF Replays, asserted, l
  <2>3. \A k \in 1..Len(x) :
           x[k] = Emit(subs[k], "BcHi") /\ subs[k] \in Elements /\ Replays(x[k])
    <3> SUFFICES ASSUME NEW k \in 1..Len(x)
                 PROVE  x[k] = Emit(subs[k], "BcHi") /\ subs[k] \in Elements /\ Replays(x[k])
      OBVIOUS
    <3>0. \A e, f \in Elements : PgLine[e] # BcLine[f]
      BY LinesAssumption
    <3>1. subs[k] \in Elements
      BY <1>3 DEF Subscribers
    <3>2. PgLine[subs[k]] # l
      BY <2>2, <3>0, <3>1
    <3>3. x[k] = Emit(subs[k], "BcHi")
      BY <1>3, <2>2, <3>2
    <3> QED
      BY <3>1, <3>3, MakerFacts DEF Replays
  <2> DEFINE n == Len(x) + Len(todo) - 1
  <2>4. /\ Len(todo') = n /\ Len(x) \in Nat
        /\ \A k \in 1..Len(x) : todo'[k] = x[k]
        /\ \A k \in 1..(Len(todo) - 1) : todo'[Len(x) + k] = todo[k + 1]
    BY <1>1, <1>2, <1>3, PushFacts DEF x
  <2>5. ASSUME NEW k \in 1..n
        PROVE  \/ k \in 1..Len(x) /\ todo'[k] = x[k]
               \/ \E j \in 2..Len(todo) : k = Len(x) + j - 1 /\ todo'[k] = todo[j]
    <3>1. CASE k <= Len(x)
      BY <1>1, <2>4, <3>1
    <3>2. CASE k > Len(x)
      <4> DEFINE j == k - Len(x) + 1
      <4>1. j \in 2..Len(todo) /\ j - 1 \in 1..(Len(todo) - 1) /\ k = Len(x) + (j - 1)
            /\ (j - 1) + 1 = j
        BY <1>1, <2>4, <3>2
      <4>2. todo'[k] = todo[j]
        BY <2>4, <4>1
      <4> QED
        BY <1>1, <2>4, <4>1, <4>2
    <3> QED
      BY <1>1, <2>4, <3>1, <3>2
  <2>6. ASSUME NEW k \in 1..n, todo'[k].op = "eraseTimer"
        PROVE  k = n /\ todo'[k] = todo[i]
    <3>1. PICK j \in 2..Len(todo) : k = Len(x) + j - 1 /\ todo'[k] = todo[j]
      BY <1>4, <2>5, <2>6
    <3>2. j \in 1..Len(todo)
      BY <1>1
    <3>3. j = Len(todo)
      BY <2>6, <3>1, <3>2 DEF StickyEnds
    <3> QED
      BY <1>1, <2>1, <2>4, <3>1, <3>3
  <2>7. ASSUME NEW k \in 1..n, k # n PROVE Replays(todo'[k])
    <3>1. CASE k \in 1..Len(x) /\ todo'[k] = x[k]
      BY <2>3, <3>1
    <3>2. ASSUME NEW j \in 2..Len(todo), k = Len(x) + j - 1, todo'[k] = todo[j]
          PROVE  Replays(todo'[k])
      <4>1. j # i /\ j \in 1..Len(todo)
        BY <1>1, <2>1, <2>4, <2>7, <3>2
      <4> QED
        BY <2>1, <3>2, <4>1
    <3> QED
      BY <2>5, <3>1, <3>2
  <2>8. ASSUME elements[todo[i].el].bootTimer
        PROVE  \E k \in 1..n : Cancels(todo'[k], todo[i].el)
    <3>1. PICK j \in 1..Len(todo) : Cancels(todo[j], todo[i].el)
      BY <2>1, <2>8
    <3>2. CASE j = 1
      <4>1. l = BcLine[todo[i].el] /\ todo[i].el \in Elements
        <5>1. todo[i] \in Ops
          BY <1>1, <1>6
        <5> QED
          BY <1>1, <1>6, <3>1, <3>2, <5>1, OpFacts DEF Cancels, l
      <4>2. PICK k \in 1..Len(subs) : subs[k] = todo[i].el
        BY <1>3, <4>1 DEF Subscribers
      <4>3. Cancels(x[k], todo[i].el)
        BY <1>3, <2>3, <4>1, <4>2, MakerFacts DEF Cancels
      <4>4. k \in 1..n /\ k \in 1..Len(x)
        BY <1>1, <1>3, <2>4
      <4> QED
        BY <2>4, <4>3, <4>4
    <3>3. CASE j # 1
      <4> DEFINE k == Len(x) + (j - 1)
      <4>1. j - 1 \in 1..(Len(todo) - 1) /\ (j - 1) + 1 = j /\ k \in 1..n
        BY <1>1, <2>4, <3>3
      <4>2. todo'[k] = todo[j]
        BY <2>4, <4>1
      <4> QED
        BY <3>1, <4>1, <4>2
    <3> QED
      BY <3>2, <3>3
  <2>9. UNCHANGED elements
    BY DEF StepNotify
  <2> HIDE DEF n
  <2> QED
    BY <2>4, <2>6, <2>7, <2>8, <2>9 DEF StickyEnds
<1> QED
  BY <1>5, <1>6
(* A dispatch of the head's element.                                       *)
LEMMA DispatchOne ==
    ASSUME FsmInv, NEW e \in Elements, NEW event \in ElementEvents, Dispatch(e, event)
    PROVE  /\ elements'[e].state = "Online" => elements[e].state = "Online" \/ event = "BcHi"
           /\ event \in {"BcLo", "PgLo", "RstAsserted"} => elements'[e].state # "Online"
           /\ event = "BcHi" => ~elements'[e].bootTimer
           /\ \A f \in Elements : f # e => elements'[f] = elements[f]
<1>1. PICK armed \in TimerAdd : SetElement(e, ElementDispatch(elements[e], event, armed))
  BY DEF Dispatch, DispatchElement
<1>2. armed \in BOOLEAN
  BY WiringAssumption
<1>3. elements'[e] = ElementDispatch(elements[e], event, armed)
      /\ \A f \in Elements : f # e => elements'[f] = elements[f]
  BY <1>1, SetElementFacts DEF FsmInv, FsmTypeOK
<1> QED
  BY <1>2, <1>3, GoodElements, DispatchMoves

LEMMA EmitSticks ==
    ASSUME FsmInv, OwnTypeOK, StickyEnds, StepEmit PROVE StickyEnds'
<1> DEFINE e == Head(todo).el
           event == Head(todo).event
<1>1. e \in Elements /\ event \in {"PgHi", "PgLo", "BcHi", "BcLo"} /\ todo # <<>> /\ todo \in Seq(Ops)
      /\ Head(todo).op = "emit" /\ Head(todo) = todo[1] /\ 1 \in 1..Len(todo) /\ Len(todo) \in Nat
  BY HeadFacts, OpFacts, PushFacts DEF StepEmit, Running, OwnTypeOK
<1>2. event \in ElementEvents /\ Dispatch(e, event) /\ todo' = Tail(todo)
  BY <1>1 DEF StepEmit, ElementEvents
<1> HIDE DEF e, event
<1>3. /\ event = "BcHi" => ~elements'[e].bootTimer
      /\ \A f \in Elements : f # e => elements'[f] = elements[f]
  BY <1>1, <1>2, DispatchOne
<1>4. CASE \A i \in 1..Len(todo) : todo[i].op # "eraseTimer"
  BY <1>1, <1>2, <1>4, TailErasesNothing
<1>5. ASSUME NEW i \in 1..Len(todo), todo[i].op = "eraseTimer" PROVE StickyEnds'
  <2>1. /\ i = Len(todo) /\ i # 1
        /\ \A j \in 1..Len(todo) : j # i => Replays(todo[j])
        /\ elements[todo[i].el].bootTimer =>
              \E j \in 1..Len(todo) : Cancels(todo[j], todo[i].el)
    BY <1>1, <1>5 DEF StickyEnds
  <2>2. event = "BcHi"
    BY <1>1, <2>1 DEF Replays, event
  <2>3. todo[i].el \in Elements
    <3>1. todo[i] \in Ops
      BY <1>1, <1>5
    <3> QED
      BY <1>5, <3>1, OpFacts
  <2>4. /\ Len(todo') = Len(todo) - 1
        /\ \A k \in 1..(Len(todo) - 1) : todo'[k] = todo[k + 1] /\ k + 1 \in 1..Len(todo)
    BY <1>1, <1>2, PushFacts
  <2>5. ASSUME NEW k \in 1..Len(todo'), todo'[k].op = "eraseTimer"
        PROVE  k = Len(todo') /\ todo'[k] = todo[i]
    <3>1. todo[k + 1].op = "eraseTimer" /\ k + 1 \in 1..Len(todo)
      BY <2>4, <2>5
    <3>2. k + 1 = Len(todo)
      BY <3>1 DEF StickyEnds
    <3> QED
      BY <1>1, <2>1, <2>4, <3>2
  <2>6. ASSUME NEW k \in 1..Len(todo'), k # Len(todo') PROVE Replays(todo'[k])
    <3>1. k + 1 \in 1..Len(todo) /\ k + 1 # i
      BY <1>1, <2>1, <2>4, <2>6
    <3> QED
      BY <2>1, <2>4, <2>6, <3>1
  <2>7. ASSUME elements'[todo[i].el].bootTimer
        PROVE  \E k \in 1..Len(todo') : Cancels(todo'[k], todo[i].el)
    <3>1. todo[i].el # e /\ elements[todo[i].el].bootTimer
      BY <1>3, <2>2, <2>3, <2>7
    <3>2. PICK j \in 1..Len(todo) : Cancels(todo[j], todo[i].el)
      BY <2>1, <3>1
    <3>3. j # 1
      BY <1>1, <3>1, <3>2 DEF Cancels, e
    <3>4. j - 1 \in 1..Len(todo') /\ (j - 1) + 1 = j
      BY <1>1, <2>4, <3>3
    <3>5. todo'[j - 1] = todo[j]
      BY <2>4, <3>4
    <3> QED
      BY <3>2, <3>4, <3>5
  <2> QED
    BY <2>5, <2>6, <2>7 DEF StickyEnds
<1> QED
  BY <1>4, <1>5

LEMMA ResetStepSticks ==
    ASSUME OwnTypeOK, StickyEnds, StepPgEdge \/ StepPulse \/ StepAssert \/ StepReleased \/ StepComplete
    PROVE  StickyEnds'
<1> DEFINE e == Head(todo).el
<1>1. todo # <<>> /\ Head(todo).op \notin {"eraseTimer", "notify", "emit"} /\ e \in Elements
      /\ Len(todo) \in Nat
  <2>1. todo # <<>> /\ Head(todo).op \in {"pgEdge", "pulse", "assert", "released", "complete"}
    BY DEF StepPgEdge, StepPulse, StepAssert, StepReleased, StepComplete, Running
  <2>2. Head(todo) \in Ops /\ Len(todo) \in Nat
    BY <2>1, HeadFacts DEF OwnTypeOK
  <2> QED
    BY <2>1, <2>2, OpFacts
<1>2. \A i \in 1..Len(todo) : todo[i].op # "eraseTimer"
  BY <1>1, NothingErased
<1>3. CASE StepReleased \/ StepComplete
  BY <1>1, <1>2, <1>3, TailErasesNothing DEF StepReleased, StepComplete
<1>4. CASE StepPgEdge
  <2>1. \/ todo' = (<<Emit(e, "PgHi")>> \o <<>>) \o Tail(todo)
        \/ todo' = <<Emit(e, "PgLo")>> \o Tail(todo)
        \/ todo' = (<<Emit(e, "PgHi")>> \o <<Emit(e, "BcHi")>>) \o Tail(todo)
    BY <1>4 DEF StepPgEdge
  <2>2. ASSUME NEW a \in {"PgHi", "PgLo"}
        PROVE  /\ <<Emit(e, a)>> \in Seq(Ops) /\ <<Emit(e, a)>> \o <<>> = <<Emit(e, a)>>
               /\ \A i \in 1..Len(<<Emit(e, a)>>) : <<Emit(e, a)>>[i].op # "eraseTimer"
    BY <1>1, MakerFacts, SingleSeq, NoneSeq
  <2> DEFINE y == <<Emit(e, "PgHi")>> \o <<Emit(e, "BcHi")>>
  <2>3. /\ y \in Seq(Ops) /\ Len(y) = 2 /\ y[1].op # "eraseTimer" /\ y[2].op # "eraseTimer"
    BY <1>1, MakerFacts, PairSeq
  <2> HIDE DEF y
  <2>4. \A i \in 1..Len(y) : y[i].op # "eraseTimer"
    BY <2>3
  <2>5. \E x \in Seq(Ops) : /\ todo' = x \o Tail(todo)
                            /\ \A i \in 1..Len(x) : x[i].op # "eraseTimer"
    BY <2>1, <2>2, <2>3, <2>4 DEF y
  <2> QED
    BY <1>1, <1>2, <2>5, PushErasesNothing
<1>5. CASE StepPulse
  <2>1. PICK result :
           todo' = (<<Released(e)>> \o (IF result = "Ok" THEN <<>>
                                        ELSE <<Complete(e, OutcomeOf(result))>>))
                   \o Tail(todo)
    BY <1>5 DEF StepPulse
  <2> DEFINE y == <<Released(e)>> \o <<Complete(e, OutcomeOf(result))>>
             z == <<Released(e)>>
  <2>2. todo' = y \o Tail(todo) \/ todo' = (z \o <<>>) \o Tail(todo)
    BY <2>1
  <2>3. /\ y \in Seq(Ops) /\ Len(y) = 2 /\ y[1].op # "eraseTimer" /\ y[2].op # "eraseTimer"
    BY <1>1, MakerFacts, PairSeq, OutcomeOfType
  <2>4. z \in Seq(Ops) /\ Len(z) = 1 /\ z[1].op # "eraseTimer" /\ z \o <<>> = z
    BY <1>1, MakerFacts, SingleSeq, NoneSeq
  <2> HIDE DEF y, z
  <2>5. /\ \A i \in 1..Len(y) : y[i].op # "eraseTimer"
        /\ \A i \in 1..Len(z) : z[i].op # "eraseTimer"
    BY <2>3, <2>4
  <2>6. \E x \in Seq(Ops) : /\ todo' = x \o Tail(todo)
                            /\ \A i \in 1..Len(x) : x[i].op # "eraseTimer"
    BY <2>2, <2>3, <2>4, <2>5
  <2> QED
    BY <1>1, <1>2, <2>6, PushErasesNothing
<1>6. CASE StepAssert
  <2>1. PICK result :
           todo' = Append(Tail(todo), IF result = "Ok" THEN Released(e)
                                      ELSE Complete(e, OutcomeOf(result)))
    BY <1>6 DEF StepAssert
  <2> DEFINE z == IF result = "Ok" THEN Released(e) ELSE Complete(e, OutcomeOf(result))
  <2>2. z \in Ops /\ z.op # "eraseTimer"
    BY <1>1, MakerFacts, OutcomeOfType
  <2> HIDE DEF z
  <2>3. /\ Tail(todo) \in Seq(Ops) /\ Len(Tail(todo)) = Len(todo) - 1
        /\ \A k \in 1..(Len(todo) - 1) : Tail(todo)[k] = todo[k + 1] /\ k + 1 \in 1..Len(todo)
    BY <1>1, PushFacts DEF OwnTypeOK
  <2>6. todo' = Append(Tail(todo), z)
    BY <2>1 DEF z
  <2> DEFINE u == Tail(todo)  n == Len(todo)
  <2>7. u \in Seq(Ops) /\ Len(u) = n - 1 /\ n \in Nat /\ n >= 1 /\ todo' = Append(u, z)
    BY <1>1, <2>3, <2>6 DEF OwnTypeOK
  <2> HIDE DEF u, n
  <2>8. Len(todo') = n /\ \A k \in 1..n : todo'[k] = IF k = n THEN z ELSE u[k]
    BY <2>2, <2>7, AppendFacts
  <2>4. Len(todo') = Len(todo) /\ \A k \in 1..Len(todo) :
           todo'[k] = IF k = Len(todo) THEN z ELSE Tail(todo)[k]
    BY <2>8 DEF u, n
  <2>5. ASSUME NEW k \in 1..Len(todo') PROVE todo'[k].op # "eraseTimer"
    <3>1. CASE k = Len(todo)
      BY <2>2, <2>4, <3>1
    <3>2. CASE k # Len(todo)
      <4>1. k \in 1..(Len(todo) - 1)
        BY <1>1, <2>4, <3>2
      <4> QED
        BY <1>2, <2>3, <2>4, <3>2, <4>1
    <3> QED
      BY <3>1, <3>2
  <2> QED
    BY <2>5, NoEraseSticks
<1> QED
  BY <1>3, <1>4, <1>5, <1>6

LEMMA EraseIsLast ==
    ASSUME OwnTypeOK, StickyEnds, StepEraseTimer
    PROVE  todo' = <<>> /\ Head(todo).el \in Elements /\ ~elements[Head(todo).el].bootTimer
<1>1. todo # <<>> /\ Head(todo) = todo[1] /\ 1 \in 1..Len(todo) /\ todo[1].op = "eraseTimer"
      /\ Head(todo).el \in Elements /\ Len(todo) \in Nat
  BY HeadFacts, OpFacts, PushFacts DEF StepEraseTimer, Running, OwnTypeOK
<1>2. 1 = Len(todo)
  BY <1>1 DEF StickyEnds
<1>3. todo' = Tail(todo) /\ todo \in Seq(Ops)
  BY DEF StepEraseTimer, OwnTypeOK
<1>4. Len(todo') = 0 /\ todo' \in Seq(Ops)
  BY <1>1, <1>2, <1>3, PushFacts
<1>5. todo' = <<>>
  BY <1>4
<1>6. \A j \in 1..Len(todo) : ~Cancels(todo[j], todo[1].el)
  <2>1. \A j \in 1..Len(todo) : j = 1
    <3>1. \A n \in Nat : n = 1 => \A j \in 1..n : j = 1
      OBVIOUS
    <3> QED
      BY <1>1, <1>2, <3>1
  <2>2. ~Cancels(todo[1], todo[1].el)
    BY <1>1 DEF Cancels
  <2> QED
    BY <2>1, <2>2
<1> QED
  BY <1>1, <1>5, <1>6 DEF StickyEnds

(* Every step of the daemon keeps it.                                      *)
LEMMA NextSticks ==
    ASSUME FsmInv, OwnTypeOK, StickyEnds, [Next]_vars PROVE StickyEnds'
<1>1. ASSUME Len(todo') = 0 PROVE StickyEnds'
  BY <1>1 DEF StickyEnds
<1>2. ASSUME Idle, todo' = todo PROVE StickyEnds'
  BY <1>1, <1>2, Len(<<>>) = 0 DEF Idle
<1>3. CASE UNCHANGED vars
  BY <1>3 DEF vars, StickyEnds
<1>4. CASE GpioMon \/ injectLineState
  BY <1>2, <1>4 DEF GpioMon, Unbind, Report, injectLineState
<1>5. CASE drainPendingNotifies
  <2> DEFINE n == Len(pendingQueue)
  <2>1. /\ n \in Nat
        /\ todo' = [i \in 1..n |-> Notify(pendingQueue[i].line, pendingQueue[i].value)]
    BY <1>5 DEF drainPendingNotifies, OwnTypeOK
  <2> HIDE DEF n
  <2>2. Len(todo') = n /\ \A i \in 1..n :
           todo'[i] = Notify(pendingQueue[i].line, pendingQueue[i].value)
    BY <2>1
  <2>3. \A l, v : Notify(l, v).op # "eraseTimer"
    BY DEF Notify
  <2> QED
    BY <2>2, <2>3, NoEraseSticks
<1>6. CASE Client
  <2>1. ASSUME NEW c \in Calls, NEW e \in Elements \cup Modules, RejectReset(c, e)
        PROVE  StickyEnds'
    BY <1>2, <2>1 DEF RejectReset, FreeCall
  <2>2. ASSUME NEW c \in Calls, NEW e \in Elements, NEW kind \in Kinds,
               requestResetAsync(c, e, kind)
        PROVE  StickyEnds'
    <3> DEFINE o == Pulse(e, kind)
    <3>1. todo' = <<o>> /\ o \in Ops /\ o.op # "eraseTimer"
      BY <2>2, MakerFacts DEF requestResetAsync
    <3> HIDE DEF o
    <3>2. Len(todo') = 1 /\ todo'[1].op # "eraseTimer"
      BY <3>1, SingleSeq
    <3> QED
      BY <3>2, NoEraseSticks
  <2>3. ASSUME NEW c \in Calls, NEW class \in {Lpus, Fpgas}, NEW kind \in Kinds,
               requestResetAllSync(c, class, kind)
        PROVE  StickyEnds'
    <3>1. PICK armed \in SUBSET Elements :
             \E steps \in InInitOrder(armed) :
                 todo' = [i \in 1..Len(steps) |-> AssertReset(steps[i], kind)]
      BY <2>3 DEF requestResetAllSync, Elements
    <3>2. PICK steps \in InInitOrder(armed) :
                 todo' = [i \in 1..Len(steps) |-> AssertReset(steps[i], kind)]
      BY <3>1
    <3> DEFINE n == Len(steps)
    <3>3. n \in Nat /\ todo' = [i \in 1..n |-> AssertReset(steps[i], kind)]
      BY <3>2, InOrderFacts
    <3> HIDE DEF n
    <3>4. Len(todo') = n /\ \A i \in 1..n : todo'[i] = AssertReset(steps[i], kind)
      BY <3>3
    <3>5. \A f : AssertReset(f, kind).op # "eraseTimer"
      BY DEF AssertReset
    <3> QED
      BY <3>4, <3>5, NoEraseSticks
  <2>4. ASSUME NEW e \in Lpus, NEW enable \in VrCalls, setVrTelemetryConfigured(e, enable)
        PROVE  StickyEnds'
    BY <1>2, <2>4 DEF setVrTelemetryConfigured
  <2> QED
    BY <1>6, <2>1, <2>2, <2>3, <2>4 DEF Client
<1>7. CASE Timers
  <2>1. ASSUME NEW e \in Elements, ResetDeadline(e) PROVE StickyEnds'
    <3>1. PICK v \in StickyReads(e) :
             \/ Sticky(e, v) /\ todo' = <<Notify(BcLine[e], v), Complete(e, "Ok")>>
             \/ Idle /\ todo' = todo
      BY <2>1 DEF ResetDeadline
    <3>2. CASE Sticky(e, v) /\ todo' = <<Notify(BcLine[e], v), Complete(e, "Ok")>>
      <4> DEFINE x == Notify(BcLine[e], v)  y == Complete(e, "Ok")
      <4>1. x \in Ops /\ y \in Ops /\ x.op # "eraseTimer" /\ y.op # "eraseTimer" /\ todo' = <<x, y>>
        BY <3>2, ReadFacts, NotifyFacts, MakerFacts DEF Outcomes
      <4> HIDE DEF x, y
      <4>2. Len(todo') = 2 /\ todo'[1].op # "eraseTimer" /\ todo'[2].op # "eraseTimer"
        BY <4>1, PairSeq
      <4> QED
        BY <4>2, NoEraseSticks
    <3> QED
      BY <1>2, <3>1, <3>2
  <2>2. ASSUME NEW e \in Elements, BootDeadline(e) PROVE StickyEnds'
    <3>1. PICK v \in StickyReads(e) :
             \/ /\ Sticky(e, v) /\ todo' = <<Notify(BcLine[e], v), EraseTimer(e)>>
                /\ UNCHANGED elements
             \/ Idle /\ todo' = todo
      BY <2>2 DEF BootDeadline
    <3>2. CASE /\ Sticky(e, v) /\ todo' = <<Notify(BcLine[e], v), EraseTimer(e)>>
               /\ UNCHANGED elements
      <4> DEFINE x == Notify(BcLine[e], v)  y == EraseTimer(e)
      <4>1. /\ x \in Ops /\ y \in Ops /\ x.op = "notify" /\ y.op = "eraseTimer"
            /\ y.el = e /\ todo' = <<x, y>> /\ x.line = BcLine[e] /\ x.value = v
            /\ Logical(x.line, x.value)
        BY <3>2, ReadFacts, NotifyFacts, MakerFacts
      <4> HIDE DEF x, y
      <4>2. Len(todo') = 2 /\ todo'[1] = x /\ todo'[2] = y
        BY <4>1, PairSeq
      <4>3. Replays(x) /\ Cancels(x, y.el)
        BY <4>1 DEF Replays, Cancels
      <4>4. \A i \in 1..Len(todo') : i = 1 \/ i = 2
        BY <4>2
      <4>5. 1 \in 1..Len(todo') /\ 2 \in 1..Len(todo')
        BY <4>2
      <4>6. ASSUME NEW i \in 1..Len(todo'), todo'[i].op = "eraseTimer"
            PROVE  /\ i = Len(todo')
                   /\ \A j \in 1..Len(todo') : j # i => Replays(todo'[j])
                   /\ \E j \in 1..Len(todo') : Cancels(todo'[j], todo'[i].el)
        <5>1. i = 2
          BY <4>1, <4>2, <4>4, <4>6
        <5> QED
          BY <4>2, <4>3, <4>4, <4>5, <5>1
      <4> QED
        BY <4>6 DEF StickyEnds, Replays, Cancels
    <3> QED
      BY <1>2, <3>1, <3>2
  <2>3. ASSUME NEW e \in Lpus, TelemetryRetry(e) PROVE StickyEnds'
    BY <1>2, <2>3 DEF TelemetryRetry
  <2> QED
    BY <1>7, <2>1, <2>2, <2>3 DEF Timers
<1>8. CASE Restart
  BY <1>1, <1>8, Len(<<>>) = 0 DEF Restart
<1>9. CASE StepEraseTimer
  BY <1>1, <1>9, EraseIsLast, Len(<<>>) = 0
<1> QED
  BY <1>3, <1>4, <1>5, <1>6, <1>7, <1>8, <1>9, NotifySticks, EmitSticks, ResetStepSticks
     DEF Next, Step

LEMMA EventsHandled ==
    {"PgHi", "PgLo", "BcHi", "BcLo", "RstAsserted", "RstReleased"} \subseteq LineAndResetEvents
    /\ LineAndResetEvents \subseteq ElementEvents
  BY DEF LineAndResetEvents, ElementEvents

(* Every step of the daemon is a step of the three FSM layers, or leaves   *)
(* them alone, or starts them over.                                        *)
LEMMA FsmStep ==
    ASSUME FsmInv, OwnTypeOK, StickyEnds, [Next]_vars
    PROVE  FsmNext \/ UNCHANGED fsmVars \/ (Restart /\ FsmInit')
<1>1. ASSUME NEW e \in Elements, NEW event \in LineAndResetEvents, Dispatch(e, event)
      PROVE  FsmNext
  BY <1>1 DEF Dispatch, FsmNext
<1>2. CASE StepEmit
  <2>1. Head(todo).el \in Elements /\ Head(todo).event \in LineAndResetEvents
    BY <1>2, HeadFacts, OpFacts, EventsHandled DEF StepEmit, Running, OwnTypeOK
  <2> QED
    BY <1>1, <1>2, <2>1 DEF StepEmit
<1>3. CASE StepPulse \/ StepAssert \/ StepReleased
  <2>1. Head(todo).el \in Elements
    BY <1>3, HeadFacts, OpFacts DEF StepPulse, StepAssert, StepReleased, Running, OwnTypeOK
  <2>2. Dispatch(Head(todo).el, "RstAsserted") \/ Dispatch(Head(todo).el, "RstReleased")
    BY <1>3 DEF StepPulse, StepAssert, StepReleased
  <2> QED
    BY <1>1, <2>1, <2>2, EventsHandled
<1>4. CASE StepEraseTimer
  <2> DEFINE e == Head(todo).el
  <2>1. e \in Elements /\ ~elements[e].bootTimer
    BY <1>4, EraseIsLast
  <2>2. elements \in [Elements -> Element]
    BY DEF FsmInv, FsmTypeOK
  <2>3. elements' = [elements EXCEPT ![e].bootTimer = FALSE] /\ UNCHANGED <<modules, tray>>
    BY <1>4 DEF StepEraseTimer
  <2>4. [elements[e] EXCEPT !.bootTimer = FALSE] = elements[e]
    BY <2>1, <2>2 DEF Element
  <2>5. elements' = elements
    BY <2>1, <2>2, <2>3, <2>4
  <2> QED
    BY <2>3, <2>5 DEF fsmVars
<1>5. CASE Timers
  BY <1>5 DEF Timers, ResetDeadline, BootDeadline, TelemetryRetry, FsmNext, fsmVars
<1>6. CASE Restart
  BY <1>6 DEF Restart, FsmInit
<1>7. CASE GpioMon \/ injectLineState \/ drainPendingNotifies \/ StepNotify \/ StepPgEdge
           \/ StepComplete \/ Client \/ UNCHANGED vars
  BY <1>7 DEF GpioMon, Unbind, Report, injectLineState, drainPendingNotifies, StepNotify,
              StepPgEdge, StepComplete, Client, RejectReset, requestResetAsync,
              requestResetAllSync, setVrTelemetryConfigured, vars, fsmVars
<1> QED
  BY <1>2, <1>3, <1>4, <1>5, <1>6, <1>7 DEF Next, Step
-----------------------------------------------------------------------------
(* The boot-complete latch.                                                *)

(* The calls a callback has still to make, in no order.                    *)
Ahead(t) == {t[i] : i \in 1..Len(t)}

LEMMA AheadFacts ==
    ASSUME NEW S, NEW x \in Seq(S), NEW t \in Seq(S), t # <<>>, NEW z \in S
    PROVE  /\ Ahead(t) = {Head(t)} \cup Ahead(Tail(t))
           /\ Ahead(x \o Tail(t)) = Ahead(x) \cup Ahead(Tail(t))
           /\ Ahead(Append(Tail(t), z)) = {z} \cup Ahead(Tail(t))
<1> DEFINE n == Len(t)  u == Tail(t)
<1>1. n \in Nat /\ n >= 1 /\ u \in Seq(S) /\ Len(u) = n - 1 /\ Head(t) = t[1]
      /\ \A i \in 1..(n - 1) : u[i] = t[i + 1]
  BY PushFacts
<1>2. Ahead(t) = {Head(t)} \cup Ahead(u)
  <2> HIDE DEF u
  <2>0. Len(t) = n
    OBVIOUS
  <2> HIDE DEF n
  <2>1. ASSUME NEW i \in 1..n PROVE t[i] = t[1] \/ \E j \in 1..(n - 1) : t[i] = u[j]
    <3>1. CASE i = 1
      BY <3>1
    <3>2. CASE i # 1
      <4>1. i - 1 \in 1..(n - 1) /\ u[i - 1] = t[i]
        BY <1>1, <3>2
      <4> QED
        BY <4>1
    <3> QED
      BY <3>1, <3>2
  <2>2. \A j \in 1..(n - 1) : j + 1 \in 1..n /\ u[j] = t[j + 1]
    BY <1>1
  <2>3. 1 \in 1..n
    BY <1>1
  <2>4. Ahead(t) = {t[i] : i \in 1..n} /\ Ahead(u) = {u[j] : j \in 1..(n - 1)}
    BY <1>1, <2>0 DEF Ahead
  <2> QED
    BY <1>1, <2>1, <2>2, <2>3, <2>4, ZenonT(40)
<1>3. Ahead(x \o u) = Ahead(x) \cup Ahead(u)
  <2> DEFINE m == Len(x)  y == x \o u
  <2>1. /\ m \in Nat /\ Len(y) = m + (n - 1)
        /\ \A i \in 1..m : y[i] = x[i]
        /\ \A i \in 1..(n - 1) : y[m + i] = u[i]
    BY <1>1
  <2>2. Ahead(y) = {y[i] : i \in 1..(m + (n - 1))} /\ Ahead(x) = {x[i] : i \in 1..m}
        /\ Ahead(u) = {u[i] : i \in 1..(n - 1)}
    BY <1>1, <2>1 DEF Ahead
  <2> HIDE DEF y, u, m, n
  <2>3. ASSUME NEW i \in 1..(m + (n - 1))
        PROVE  (\E j \in 1..m : y[i] = x[j]) \/ (\E j \in 1..(n - 1) : y[i] = u[j])
    <3>1. CASE i <= m
      BY <1>1, <2>1, <3>1
    <3>2. CASE i > m
      <4>1. i - m \in 1..(n - 1) /\ y[m + (i - m)] = u[i - m] /\ m + (i - m) = i
        BY <1>1, <2>1, <3>2
      <4> QED
        BY <4>1
    <3> QED
      BY <1>1, <2>1, <3>1, <3>2
  <2>4. /\ \A j \in 1..m : j \in 1..(m + (n - 1)) /\ y[j] = x[j]
        /\ \A j \in 1..(n - 1) : m + j \in 1..(m + (n - 1)) /\ y[m + j] = u[j]
    BY <1>1, <2>1
  <2>5. Ahead(y) = Ahead(x) \cup Ahead(u)
    BY <2>2, <2>3, <2>4
  <2> QED
    BY <2>5 DEF y
<1>4. Ahead(Append(u, z)) = {z} \cup Ahead(u)
  <2> DEFINE y == Append(u, z)
  <2>1. Len(y) = n /\ \A k \in 1..n : y[k] = IF k = n THEN z ELSE u[k]
    <3> HIDE DEF u
    <3>0. n \in Nat
      BY <1>1
    <3> HIDE DEF n
    <3> QED
      BY <1>1, <3>0, AppendFacts
  <2>2. Ahead(y) = {y[i] : i \in 1..n} /\ Ahead(u) = {u[i] : i \in 1..(n - 1)}
    BY <1>1, <2>1 DEF Ahead
  <2> HIDE DEF y, u, n
  <2>3. \A i \in 1..n : y[i] = z \/ (i \in 1..(n - 1) /\ y[i] = u[i])
    BY <1>1, <2>1
  <2>4. n \in 1..n /\ y[n] = z /\ \A i \in 1..(n - 1) : i \in 1..n /\ y[i] = u[i]
    BY <1>1, <2>1
  <2>5. Ahead(y) = {z} \cup Ahead(u)
    BY <2>2, <2>3, <2>4
  <2> QED
    BY <2>5 DEF y
<1> QED
  BY <1>2, <1>3, <1>4

LEMMA AheadSmall ==
    /\ Ahead(<<>>) = {}
    /\ \A x : Ahead(<<x>>) = {x}
    /\ \A x, y : Ahead(<<x, y>>) = {x, y}
<1>1. Ahead(<<>>) = {}
  BY DEF Ahead
<1>2. ASSUME NEW x PROVE Ahead(<<x>>) = {x}
  <2>1. Len(<<x>>) = 1 /\ <<x>>[1] = x
    OBVIOUS
  <2>2. \A i \in 1..Len(<<x>>) : i = 1
    OBVIOUS
  <2> QED
    BY <2>1, <2>2 DEF Ahead
<1>3. ASSUME NEW x, NEW y PROVE Ahead(<<x, y>>) = {x, y}
  <2>1. Len(<<x, y>>) = 2 /\ <<x, y>>[1] = x /\ <<x, y>>[2] = y
    OBVIOUS
  <2>2. 1..2 = {1, 2}
    OBVIOUS
  <2> QED
    BY <2>1, <2>2 DEF Ahead
<1> QED
  BY <1>1, <1>2, <1>3

(* The calls that bring an element up, and those that take it down.        *)
Raises(o, e) == o.op = "emit" /\ o.el = e /\ o.event = "BcHi"
Lowers(o, e) ==
    \/ o.op = "emit" /\ o.el = e /\ o.event \in {"BcLo", "PgLo"}
    \/ o.op \in {"pulse", "assert"} /\ o.el = e

(* The events of a notification are dispatched before anything else.       *)
Staged ==
    \A i, j \in 1..Len(todo) : j < i /\ todo[i].op = "emit" => todo[j].op = "emit"

(* While the latch is down nothing on its way brings the element up, and   *)
(* if it is still up something takes it down before the callback ends.     *)
LatchRight ==
    \A e \in Elements :
        \/ cached[BcLine[e]]
        \/ /\ \A o \in Ahead(todo) : ~Raises(o, e)
           /\ elements[e].state = "Online" => \E o \in Ahead(todo) : Lowers(o, e)

LEMMA NoEmitStages ==
    ASSUME \A o \in Ahead(todo') : o.op # "emit" PROVE Staged'
  BY DEF Staged, Ahead

LEMMA StagedHead ==
    ASSUME OwnTypeOK, Staged, todo # <<>>, Head(todo).op # "emit"
    PROVE  \A o \in Ahead(todo) : o.op # "emit"
<1>1. Head(todo) = todo[1] /\ 1 \in 1..Len(todo) /\ Len(todo) \in Nat
  BY PushFacts DEF OwnTypeOK
<1>2. ASSUME NEW i \in 1..Len(todo) PROVE todo[i].op # "emit"
  <2>1. CASE i = 1
    BY <1>1, <2>1
  <2>2. CASE i # 1
    BY <1>1, <2>2 DEF Staged
  <2> QED
    BY <2>1, <2>2
<1> QED
  BY <1>2 DEF Ahead

(* Emits in front of calls that are none, and dropping one.                *)
LEMMA PushStages ==
    ASSUME OwnTypeOK, todo # <<>>, \A o \in Ahead(Tail(todo)) : o.op # "emit",
           NEW x \in Seq(Ops), \A o \in Ahead(x) : o.op = "emit", todo' = x \o Tail(todo)
    PROVE  Staged'
<1> DEFINE m == Len(x)  u == Tail(todo)  y == x \o u
<1>1. u \in Seq(Ops)
  BY PushFacts DEF OwnTypeOK
<1> HIDE DEF u
<1>2. /\ m \in Nat /\ Len(u) \in Nat /\ Len(y) = m + Len(u)
      /\ \A i \in 1..m : y[i] = x[i]
      /\ \A i \in 1..Len(u) : y[m + i] = u[i]
  BY <1>1
<1> HIDE DEF m, y
<1>3. \A i \in 1..m : y[i].op = "emit"
  BY <1>2 DEF Ahead, m
<1>4. ASSUME NEW i \in 1..Len(y), ~(i <= m) PROVE y[i].op # "emit"
  <2>1. i - m \in 1..Len(u) /\ y[m + (i - m)] = u[i - m] /\ m + (i - m) = i
    BY <1>2, <1>4
  <2> QED
    BY <2>1 DEF Ahead, u
<1>5. ASSUME NEW i \in 1..Len(y), NEW j \in 1..Len(y), j < i, y[i].op = "emit"
      PROVE  y[j].op = "emit"
  <2>1. i <= m
    BY <1>4, <1>5
  <2>2. j \in 1..m
    BY <1>2, <1>5, <2>1
  <2> QED
    BY <1>3, <2>2
<1>6. todo' = y
  BY DEF y, u
<1> QED
  BY <1>5, <1>6 DEF Staged

LEMMA TailStages ==
    ASSUME OwnTypeOK, Staged, todo # <<>>, todo' = Tail(todo) PROVE Staged'
<1>1. /\ Len(todo) \in Nat /\ Len(todo') = Len(todo) - 1
      /\ \A i \in 1..(Len(todo) - 1) : todo'[i] = todo[i + 1] /\ i + 1 \in 1..Len(todo)
  BY PushFacts DEF OwnTypeOK
<1>2. ASSUME NEW i \in 1..Len(todo'), NEW j \in 1..Len(todo'), j < i, todo'[i].op = "emit"
      PROVE  todo'[j].op = "emit"
  <2>1. /\ i + 1 \in 1..Len(todo) /\ j + 1 \in 1..Len(todo) /\ j + 1 < i + 1
        /\ todo'[i] = todo[i + 1] /\ todo'[j] = todo[j + 1]
    BY <1>1, <1>2
  <2> QED
    BY <1>2, <2>1 DEF Staged
<1> QED
  BY <1>2 DEF Staged

(* No two elements share a boot-complete line.                             *)
OwnBcLine == \A e, f \in Elements : BcLine[e] = BcLine[f] => e = f

LatchOk(e) ==
    \/ cached[BcLine[e]]
    \/ /\ \A o \in Ahead(todo) : ~Raises(o, e)
       /\ elements[e].state = "Online" => \E o \in Ahead(todo) : Lowers(o, e)

LEMMA LatchIsOk == /\ LatchRight <=> \A e \in Elements : LatchOk(e)
                   /\ LatchRight' <=> \A e \in Elements : LatchOk(e)'
  BY DEF LatchRight, LatchOk

(* A step that does not touch the latch of an element.                     *)
LEMMA LatchMoves ==
    ASSUME NEW e, LatchOk(e), cached[BcLine[e]] => cached'[BcLine[e]],
           elements'[e].state = "Online" =>
               \/ cached[BcLine[e]]
               \/ /\ elements[e].state = "Online"
                  /\ \A o \in Ahead(todo) : Lowers(o, e) => o \in Ahead(todo'),
           \A o \in Ahead(todo') : Raises(o, e) => o \in Ahead(todo)
    PROVE  LatchOk(e)'
  BY DEF LatchOk

LEMMA NotifyLatch ==
    ASSUME OwnTypeOK, Staged, LatchRight, StepNotify PROVE Staged' /\ LatchRight'
<1> DEFINE l == Head(todo).line
           asserted == Logical(l, Head(todo).value)
<1>1. todo # <<>> /\ Head(todo).op = "notify" /\ l \in Lines /\ asserted \in BOOLEAN
      /\ UNCHANGED elements /\ cached' = [cached EXCEPT ![l] = asserted]
  BY HeadFacts, OpFacts, LogicalType DEF StepNotify, Running, OwnTypeOK
<1>2. PICK subs \in InInitOrder(Subscribers(l)) :
          todo' = Calling(subs, l, asserted) \o Tail(todo)
  BY DEF StepNotify, Calling
<1> DEFINE x == Calling(subs, l, asserted)
<1>3. /\ x \in Seq(Ops) /\ Len(x) = Len(subs) /\ Len(subs) \in Nat
      /\ \A i \in 1..Len(subs) :
            /\ subs[i] \in Subscribers(l)
            /\ x[i] = IF PgLine[subs[i]] = l THEN PgEdge(subs[i], asserted)
                      ELSE Emit(subs[i], IF asserted THEN "BcHi" ELSE "BcLo")
      /\ \A e \in Subscribers(l) : \E i \in 1..Len(subs) : subs[i] = e
  BY <1>1, <1>2, CallingFacts
<1> HIDE DEF x, l, asserted
<1>4. \A o \in Ahead(todo) : o.op # "emit"
  BY <1>1, StagedHead
<1>5. /\ Ahead(todo) = {Head(todo)} \cup Ahead(Tail(todo))
      /\ Ahead(todo') = Ahead(x) \cup Ahead(Tail(todo))
  <2>1. todo \in Seq(Ops) /\ Head(todo) \in Ops /\ todo' = x \o Tail(todo)
    BY <1>1, <1>2, HeadFacts DEF OwnTypeOK, x
  <2> QED
    BY <1>1, <1>3, <2>1, AheadFacts
<1>6. ASSUME NEW o \in Ahead(x)
      PROVE  \E f \in Subscribers(l) :
                 o = IF PgLine[f] = l THEN PgEdge(f, asserted)
                     ELSE Emit(f, IF asserted THEN "BcHi" ELSE "BcLo")
  BY <1>3, <1>6 DEF Ahead
<1>7. Staged'
  <2>1. CASE \E f \in Elements : PgLine[f] = l
    <3>1. \A f \in Subscribers(l) : PgLine[f] = l
      BY <2>1, LinesAssumption DEF Subscribers
    <3>2. \A o \in Ahead(x) : o.op # "emit"
      BY <1>6, <3>1 DEF PgEdge
    <3> QED
      BY <1>4, <1>5, <3>2, NoEmitStages
  <2>2. CASE ~\E f \in Elements : PgLine[f] = l
    <3>1. \A o \in Ahead(x) : o.op = "emit"
      BY <1>6, <2>2 DEF Emit, Subscribers
    <3> QED
      BY <1>1, <1>2, <1>3, <1>4, <1>5, <3>1, PushStages DEF x
  <2> QED
    BY <2>1, <2>2
<1>8. ASSUME NEW e \in Elements PROVE LatchOk(e)'
  <2>1. LatchOk(e) /\ BcLine[e] \in Lines /\ cached \in [Lines -> BOOLEAN]
    BY LatchIsOk, LineFacts DEF OwnTypeOK
  <2>2. CASE BcLine[e] = l /\ asserted
    BY <1>1, <2>1, <2>2 DEF LatchOk
  <2>3. CASE BcLine[e] = l /\ ~asserted
    <3>1. \A o \in Ahead(x) : ~Raises(o, e)
      BY <1>6, <2>3 DEF Raises, PgEdge, Emit
    <3>2. \A o \in Ahead(Tail(todo)) : ~Raises(o, e)
      BY <1>4, <1>5 DEF Raises
    <3>3. e \in Subscribers(l) /\ PgLine[e] # l
      BY <2>3, LinesAssumption DEF Subscribers
    <3>4. PICK i \in 1..Len(subs) : subs[i] = e
      BY <1>3, <3>3
    <3>5. x[i] = Emit(e, "BcLo")
      BY <1>3, <2>3, <3>3, <3>4
    <3>6. Emit(e, "BcLo") \in Ahead(x)
      BY <1>3, <3>5 DEF Ahead
    <3>7. Lowers(Emit(e, "BcLo"), e)
      BY DEF Lowers, Emit
    <3> QED
      BY <1>5, <3>1, <3>2, <3>6, <3>7 DEF LatchOk
  <2>4. CASE BcLine[e] # l
    <3>1. \A o \in Ahead(x) : ~Raises(o, e)
      BY <1>6, <2>4 DEF Raises, PgEdge, Emit, Subscribers
    <3>2. ~Lowers(Head(todo), e)
      BY <1>1 DEF Lowers
    <3>3. cached'[BcLine[e]] = cached[BcLine[e]]
      BY <1>1, <2>1, <2>4
    <3> QED
      BY <1>1, <1>5, <2>1, <3>1, <3>2, <3>3, LatchMoves
  <2> QED
    BY <1>1, <2>2, <2>3, <2>4
<1> QED
  BY <1>7, <1>8, LatchIsOk

LEMMA PgEdgeLatch ==
    ASSUME OwnTypeOK, Staged, LatchRight, OwnBcLine, StepPgEdge PROVE Staged' /\ LatchRight'
<1> DEFINE e == Head(todo).el
<1>1. todo # <<>> /\ Head(todo).op = "pgEdge" /\ e \in Elements /\ Head(todo).asserted \in BOOLEAN
      /\ UNCHANGED elements /\ BcLine[e] \in Lines /\ cached \in [Lines -> BOOLEAN]
      /\ todo \in Seq(Ops) /\ Head(todo) \in Ops
  BY HeadFacts, OpFacts, LineFacts DEF StepPgEdge, Running, OwnTypeOK
<1>2. \/ todo' = (<<Emit(e, "PgHi")>> \o <<>>) \o Tail(todo) /\ UNCHANGED cached
      \/ /\ todo' = (<<Emit(e, "PgHi")>> \o <<Emit(e, "BcHi")>>) \o Tail(todo)
         /\ cached[BcLine[e]] /\ UNCHANGED cached
      \/ /\ todo' = <<Emit(e, "PgLo")>> \o Tail(todo)
         /\ cached' = [cached EXCEPT ![BcLine[e]] = FALSE]
  BY DEF StepPgEdge
<1>3. \A o \in Ahead(todo) : o.op # "emit"
  BY <1>1, StagedHead
<1>4. PICK x \in Seq(Ops) :
         /\ todo' = x \o Tail(todo)
         /\ \/ UNCHANGED cached /\ Ahead(x) = {Emit(e, "PgHi")}
            \/ UNCHANGED cached /\ cached[BcLine[e]] /\ Ahead(x) = {Emit(e, "PgHi"), Emit(e, "BcHi")}
            \/ /\ cached' = [cached EXCEPT ![BcLine[e]] = FALSE]
               /\ Ahead(x) = {Emit(e, "PgLo")}
  <2>1. \A ev \in {"PgHi", "PgLo"} : /\ <<Emit(e, ev)>> \in Seq(Ops)
                                     /\ <<Emit(e, ev)>> \o <<>> = <<Emit(e, ev)>>
                                     /\ Ahead(<<Emit(e, ev)>>) = {Emit(e, ev)}
    BY <1>1, MakerFacts, SingleSeq, NoneSeq, AheadSmall
  <2> DEFINE a == Emit(e, "PgHi")  b == Emit(e, "BcHi")
  <2>2. a \in Ops /\ b \in Ops
    BY <1>1, MakerFacts
  <2> HIDE DEF a, b
  <2>3. <<a>> \o <<b>> \in Seq(Ops) /\ Ahead(<<a>> \o <<b>>) = {a, b}
    <3> DEFINE y == <<a>> \o <<b>>
    <3>1. y \in Seq(Ops) /\ Len(y) = 2 /\ y[1] = a /\ y[2] = b
      BY <2>2, PairSeq
    <3>2. 1..2 = {1, 2}
      OBVIOUS
    <3> HIDE DEF y
    <3>3. Ahead(y) = {a, b}
      BY <3>1, <3>2 DEF Ahead
    <3> QED
      BY <3>1, <3>3 DEF y
  <2> QED
    BY <1>2, <2>1, <2>3 DEF a, b
<1>5. /\ Ahead(todo) = {Head(todo)} \cup Ahead(Tail(todo))
      /\ Ahead(todo') = Ahead(x) \cup Ahead(Tail(todo))
  BY <1>1, <1>4, AheadFacts
<1>6. \A o \in Ahead(x) : o.op = "emit" /\ o.el = e
  BY <1>4 DEF Emit
<1>7. Staged'
  BY <1>1, <1>3, <1>4, <1>5, <1>6, PushStages
<1>8. ASSUME NEW f \in Elements PROVE LatchOk(f)'
  <2>1. LatchOk(f) /\ BcLine[f] \in Lines
    BY LatchIsOk, LineFacts
  <2>2. ~Lowers(Head(todo), f)
    BY <1>1 DEF Lowers
  <2>3. CASE f # e
    <3>1. cached'[BcLine[f]] = cached[BcLine[f]]
      <4>1. BcLine[f] # BcLine[e]
        BY <1>1, <2>3 DEF OwnBcLine
      <4> QED
        BY <1>1, <1>4, <2>1, <4>1
    <3>2. \A o \in Ahead(x) : ~Raises(o, f)
      BY <1>6, <2>3 DEF Raises
    <3> QED
      BY <1>1, <1>5, <2>1, <2>2, <3>1, <3>2, LatchMoves
  <2>4. CASE f = e /\ UNCHANGED cached
    <3>1. cached[BcLine[e]] \/ \A o \in Ahead(x) : ~Raises(o, f)
      <4>1. ~Raises(Emit(e, "PgHi"), f) /\ ~Raises(Emit(e, "PgLo"), f)
        BY DEF Raises, Emit
      <4> QED
        BY <1>4, <4>1
    <3>2. CASE cached[BcLine[e]]
      BY <2>4, <3>2 DEF LatchOk
    <3>3. CASE \A o \in Ahead(x) : ~Raises(o, f)
      BY <1>1, <1>5, <2>1, <2>2, <2>4, <3>3, LatchMoves
    <3> QED
      BY <3>1, <3>2, <3>3
  <2>5. CASE f = e /\ Ahead(x) = {Emit(e, "PgLo")}
    <3>1. Lowers(Emit(e, "PgLo"), e) /\ ~Raises(Emit(e, "PgLo"), e)
      BY DEF Lowers, Raises, Emit
    <3>2. \A o \in Ahead(Tail(todo)) : ~Raises(o, e)
      BY <1>3, <1>5 DEF Raises
    <3> QED
      BY <1>5, <2>5, <3>1, <3>2 DEF LatchOk
  <2> QED
    BY <1>4, <2>3, <2>4, <2>5
<1> QED
  BY <1>7, <1>8, LatchIsOk
(* An event dispatched to one element, its call dropped and calls that are *)
(* no events put in its place or at the end.                               *)
LEMMA DispatchLatch ==
    ASSUME FsmInv, OwnTypeOK, LatchRight, todo # <<>>, NEW e \in Elements,
           NEW event \in ElementEvents, Dispatch(e, event),
           Head(todo).el = e, Lowers(Head(todo), e) => event \in {"BcLo", "PgLo", "RstAsserted"},
           event = "BcHi" => Raises(Head(todo), e),
           \A f \in Elements : f # e => cached'[BcLine[f]] = cached[BcLine[f]],
           \/ cached'[BcLine[e]] = cached[BcLine[e]]
           \/ event = "RstAsserted" /\ \A o \in Ahead(todo) : o.op # "emit",
           NEW N, Ahead(todo') = N \cup Ahead(Tail(todo)), \A o \in N : o.op # "emit"
    PROVE  LatchRight'
<1>1. /\ elements'[e].state = "Online" => elements[e].state = "Online" \/ event = "BcHi"
      /\ event \in {"BcLo", "PgLo", "RstAsserted"} => elements'[e].state # "Online"
      /\ \A f \in Elements : f # e => elements'[f] = elements[f]
  BY DispatchOne
<1>2. Ahead(todo) = {Head(todo)} \cup Ahead(Tail(todo))
  <2>1. todo \in Seq(Ops) /\ Head(todo) \in Ops
    BY HeadFacts DEF OwnTypeOK
  <2> QED
    BY <2>1, AheadFacts
<1>3. \A f : \A o \in N : ~Raises(o, f)
  BY DEF Raises
<1>4. \A f : f # e => ~Lowers(Head(todo), f)
  BY DEF Lowers
<1>5. ASSUME NEW f \in Elements PROVE LatchOk(f)'
  <2>1. LatchOk(f)
    BY LatchIsOk
  <2>2. CASE f # e
    BY <1>1, <1>2, <1>3, <1>4, <2>1, <2>2, LatchMoves
  <2>3. CASE f = e /\ event = "RstAsserted" /\ \A o \in Ahead(todo) : o.op # "emit"
    BY <1>1, <1>2, <1>3, <2>3 DEF LatchOk, Raises
  <2>4. CASE f = e /\ cached'[BcLine[e]] = cached[BcLine[e]]
    <3>1. elements'[e].state = "Online" =>
               \/ cached[BcLine[e]]
               \/ /\ elements[e].state = "Online"
                  /\ \A o \in Ahead(todo) : Lowers(o, e) => o \in Ahead(todo')
      <4>1. CASE event = "BcHi"
        <5>1. Raises(Head(todo), e)
          BY <4>1
        <5> QED
          BY <1>2, <2>1, <2>4, <5>1 DEF LatchOk
      <4>2. CASE event # "BcHi"
        BY <1>1, <1>2, <4>2
      <4> QED
        BY <4>1, <4>2
    <3>2. \A o \in Ahead(todo') : Raises(o, e) => o \in Ahead(todo)
      BY <1>2, <1>3
    <3> QED
      BY <2>1, <2>4, <3>1, <3>2, LatchMoves
  <2> QED
    BY <2>2, <2>3, <2>4
<1> QED
  BY <1>5, LatchIsOk

LEMMA EmitLatch ==
    ASSUME FsmInv, OwnTypeOK, Staged, LatchRight, StepEmit PROVE Staged' /\ LatchRight'
<1> DEFINE e == Head(todo).el
           event == Head(todo).event
<1>1. /\ todo # <<>> /\ Head(todo).op = "emit" /\ e \in Elements
      /\ event \in {"PgHi", "PgLo", "BcHi", "BcLo"} /\ todo' = Tail(todo)
      /\ Dispatch(e, event) /\ UNCHANGED cached
  BY HeadFacts, OpFacts DEF StepEmit, Running, OwnTypeOK
<1>2. event \in ElementEvents
  BY <1>1, EventsHandled
<1>3. Lowers(Head(todo), e) => event \in {"BcLo", "PgLo", "RstAsserted"}
  BY <1>1 DEF Lowers
<1>4. event = "BcHi" => Raises(Head(todo), e)
  BY <1>1 DEF Raises
<1> DEFINE N == {}
<1>5. Ahead(todo') = N \cup Ahead(Tail(todo)) /\ \A o \in N : o.op # "emit"
  BY <1>1
<1>7. /\ \A f \in Elements : f # e => cached'[BcLine[f]] = cached[BcLine[f]]
      /\ cached'[BcLine[e]] = cached[BcLine[e]]
  BY <1>1
<1>6. LatchRight'
  <2>1. Head(todo).el = e
    OBVIOUS
  <2> HIDE DEF e, event, N
  <2> QED
    BY <1>1, <1>2, <1>3, <1>4, <1>5, <1>7, <2>1, DispatchLatch
<1> QED
  BY <1>1, <1>6, TailStages

LEMMA ResetLatch ==
    ASSUME FsmInv, OwnTypeOK, Staged, LatchRight, OwnBcLine,
           StepPulse \/ StepAssert \/ StepReleased
    PROVE  Staged' /\ LatchRight'
<1> DEFINE e == Head(todo).el
<1>1. /\ todo # <<>> /\ Head(todo).op \in {"pulse", "assert", "released"} /\ e \in Elements
      /\ todo \in Seq(Ops) /\ Head(todo) \in Ops /\ cached \in [Lines -> BOOLEAN]
      /\ BcLine[e] \in Lines
  <2>1. todo # <<>> /\ Head(todo).op \in {"pulse", "assert", "released"}
    BY DEF StepPulse, StepAssert, StepReleased, Running
  <2>2. Head(todo) \in Ops
    BY <2>1, HeadFacts DEF OwnTypeOK
  <2>3. e \in Elements
    BY <2>1, <2>2, OpFacts
  <2> QED
    BY <2>1, <2>2, <2>3, LineFacts DEF OwnTypeOK
<1>2. \A o \in Ahead(todo) : o.op # "emit"
  BY <1>1, StagedHead
<1>3. PICK event \in {"RstAsserted", "RstReleased"} :
         /\ Dispatch(e, event)
         /\ Head(todo).op # "released" => event = "RstAsserted"
         /\ \/ UNCHANGED cached
            \/ cached' = [cached EXCEPT ![BcLine[e]] = FALSE] /\ event = "RstAsserted"
  BY DEF StepPulse, StepAssert, StepReleased, Running
<1>4. PICK N : Ahead(todo') = N \cup Ahead(Tail(todo)) /\ \A o \in N : o.op # "emit"
  <2>1. CASE StepReleased
    <3> DEFINE M == {}
    <3>1. Ahead(todo') = M \cup Ahead(Tail(todo)) /\ \A o \in M : o.op # "emit"
      BY <2>1 DEF StepReleased
    <3> HIDE DEF M
    <3> QED
      BY <3>1
  <2>2. CASE StepPulse
    <3>1. PICK result :
             todo' = (<<Released(e)>> \o (IF result = "Ok" THEN <<>>
                                          ELSE <<Complete(e, OutcomeOf(result))>>))
                     \o Tail(todo)
      BY <2>2 DEF StepPulse
    <3> DEFINE a == Released(e)  b == Complete(e, OutcomeOf(result))
    <3>2. a \in Ops /\ b \in Ops /\ a.op # "emit" /\ b.op # "emit"
      BY <1>1, MakerFacts, OutcomeOfType
    <3>3. todo' = (<<a>> \o <<>>) \o Tail(todo) \/ todo' = (<<a>> \o <<b>>) \o Tail(todo)
      BY <3>1
    <3> HIDE DEF a, b
    <3>4. <<a>> \o <<>> \in Seq(Ops) /\ Ahead(<<a>> \o <<>>) = {a}
      BY <3>2, SingleSeq, NoneSeq, AheadSmall
    <3>5. <<a>> \o <<b>> \in Seq(Ops) /\ Ahead(<<a>> \o <<b>>) = {a, b}
      <4> DEFINE y == <<a>> \o <<b>>
      <4>1. y \in Seq(Ops) /\ Len(y) = 2 /\ y[1] = a /\ y[2] = b
        BY <3>2, PairSeq
      <4>2. 1..2 = {1, 2}
        OBVIOUS
      <4> HIDE DEF y
      <4>3. Ahead(y) = {a, b}
        BY <4>1, <4>2 DEF Ahead
      <4> QED
        BY <4>1, <4>3 DEF y
    <3>6. \E x \in Seq(Ops) : todo' = x \o Tail(todo) /\ (Ahead(x) = {a} \/ Ahead(x) = {a, b})
      BY <3>3, <3>4, <3>5
    <3>7. Ahead(todo') = {a} \cup Ahead(Tail(todo)) \/ Ahead(todo') = {a, b} \cup Ahead(Tail(todo))
      BY <1>1, <3>6, AheadFacts
    <3> DEFINE M == {a}  M2 == {a, b}
    <3>8. /\ Ahead(todo') = M \cup Ahead(Tail(todo)) \/ Ahead(todo') = M2 \cup Ahead(Tail(todo))
          /\ \A o \in M : o.op # "emit"
          /\ \A o \in M2 : o.op # "emit"
      BY <3>2, <3>7
    <3> HIDE DEF M, M2
    <3> QED
      BY <3>8
  <2>3. CASE StepAssert
    <3>1. PICK result :
             todo' = Append(Tail(todo), IF result = "Ok" THEN Released(e)
                                        ELSE Complete(e, OutcomeOf(result)))
      BY <2>3 DEF StepAssert
    <3> DEFINE z == IF result = "Ok" THEN Released(e) ELSE Complete(e, OutcomeOf(result))
    <3>2. z \in Ops /\ z.op # "emit" /\ todo' = Append(Tail(todo), z)
      BY <1>1, <3>1, MakerFacts, OutcomeOfType
    <3> HIDE DEF z
    <3>3. Ahead(todo') = {z} \cup Ahead(Tail(todo))
      BY <1>1, <3>2, AheadFacts, NoneSeq
    <3> DEFINE M == {z}
    <3>4. Ahead(todo') = M \cup Ahead(Tail(todo)) /\ \A o \in M : o.op # "emit"
      BY <3>2, <3>3
    <3> HIDE DEF M
    <3> QED
      BY <3>4
  <2> QED
    BY <2>1, <2>2, <2>3
<1>5. Ahead(todo) = {Head(todo)} \cup Ahead(Tail(todo))
  BY <1>1, AheadFacts, NoneSeq
<1>6. Staged'
  BY <1>2, <1>4, <1>5, NoEmitStages
<1>7. ASSUME NEW f \in Elements, f # e PROVE cached'[BcLine[f]] = cached[BcLine[f]]
  <2>1. BcLine[f] # BcLine[e] /\ BcLine[f] \in Lines
    BY <1>1, <1>7, LineFacts DEF OwnBcLine
  <2> QED
    BY <1>1, <1>3, <2>1
<1>8. Lowers(Head(todo), e) => event \in {"BcLo", "PgLo", "RstAsserted"}
  BY <1>1, <1>3 DEF Lowers
<1>9. \/ cached'[BcLine[e]] = cached[BcLine[e]]
      \/ event = "RstAsserted" /\ \A o \in Ahead(todo) : o.op # "emit"
  BY <1>2, <1>3
<1>10. event \in ElementEvents /\ event # "BcHi"
  BY <1>3, EventsHandled
<1>11. Dispatch(e, event)
  BY <1>3
<1>12. LatchRight'
  <2>1. Head(todo).el = e
    OBVIOUS
  <2> HIDE DEF e
  <2> QED
    BY <1>1, <1>4, <1>7, <1>8, <1>9, <1>10, <1>11, <2>1, DispatchLatch
<1> QED
  BY <1>6, <1>12
(* Every step of the daemon keeps the latch right.                         *)
LEMMA NextLatch ==
    ASSUME FsmInv, OwnTypeOK, StickyEnds, Staged, LatchRight, OwnBcLine, [Next]_vars
    PROVE  Staged' /\ LatchRight'
<1>1. Ahead(<<>>) = {}
  BY AheadSmall
(* Between callbacks nothing is ahead. *)
<1>2. ASSUME Idle, \A o \in Ahead(todo') : o.op # "emit",
             \A e \in Elements : elements'[e].state = "Online" => elements[e].state = "Online",
             \A e \in Elements : /\ ~cached'[BcLine[e]]
                                 /\ cached[BcLine[e]]
                                 => \E o \in Ahead(todo') : Lowers(o, e)
      PROVE  Staged' /\ LatchRight'
  <2>1. Ahead(todo) = {}
    BY <1>1, <1>2 DEF Idle
  <2>2. ASSUME NEW e \in Elements PROVE LatchOk(e)'
    <3>1. LatchOk(e)
      BY LatchIsOk
    <3>2. \A o \in Ahead(todo') : ~Raises(o, e)
      BY <1>2 DEF Raises
    <3> QED
      BY <1>2, <2>1, <3>1, <3>2 DEF LatchOk
  <2> QED
    BY <1>2, <2>2, LatchIsOk, NoEmitStages
<1>3. ASSUME Idle, UNCHANGED <<todo, elements, cached>> PROVE Staged' /\ LatchRight'
  BY <1>3 DEF Staged, LatchRight
<1>4. CASE UNCHANGED vars
  BY <1>4 DEF vars, Staged, LatchRight
<1>5. CASE GpioMon \/ injectLineState
  BY <1>3, <1>5 DEF GpioMon, Unbind, Report, injectLineState
<1>6. CASE drainPendingNotifies
  <2> DEFINE n == Len(pendingQueue)
  <2>1. /\ n \in Nat /\ Idle /\ UNCHANGED <<elements, cached>>
        /\ todo' = [i \in 1..n |-> Notify(pendingQueue[i].line, pendingQueue[i].value)]
    BY <1>6 DEF drainPendingNotifies, OwnTypeOK
  <2> HIDE DEF n
  <2>2. Len(todo') = n /\ \A i \in 1..n :
           todo'[i] = Notify(pendingQueue[i].line, pendingQueue[i].value)
    BY <2>1
  <2>3. \A l, v : Notify(l, v).op # "emit"
    BY DEF Notify
  <2>4. \A o \in Ahead(todo') : o.op # "emit"
    BY <2>2, <2>3 DEF Ahead
  <2> QED
    BY <1>2, <2>1, <2>4
<1>7. CASE Client
  <2>1. ASSUME NEW c \in Calls, NEW e \in Elements \cup Modules, RejectReset(c, e)
        PROVE  Staged' /\ LatchRight'
    BY <1>3, <2>1 DEF RejectReset, FreeCall
  <2>2. ASSUME NEW c \in Calls, NEW e \in Elements, NEW kind \in Kinds,
               requestResetAsync(c, e, kind)
        PROVE  Staged' /\ LatchRight'
    <3> DEFINE o == Pulse(e, kind)
    <3>1. /\ Idle /\ UNCHANGED elements /\ cached' = [cached EXCEPT ![BcLine[e]] = FALSE]
          /\ todo' = <<o>> /\ o.op = "pulse" /\ o.el = e
      BY <2>2, MakerFacts DEF requestResetAsync, FreeCall
    <3> HIDE DEF o
    <3>2. Ahead(todo') = {o} /\ Lowers(o, e)
      BY <3>1, AheadSmall DEF Lowers
    <3>3. ASSUME NEW f \in Elements, f # e PROVE cached'[BcLine[f]] = cached[BcLine[f]]
      <4>1. BcLine[f] # BcLine[e] /\ BcLine[f] \in Lines /\ cached \in [Lines -> BOOLEAN]
        BY <3>3, LineFacts DEF OwnBcLine, OwnTypeOK
      <4> QED
        BY <3>1, <4>1
    <3> QED
      BY <1>2, <3>1, <3>2, <3>3
  <2>3. ASSUME NEW c \in Calls, NEW class \in {Lpus, Fpgas}, NEW kind \in Kinds,
               requestResetAllSync(c, class, kind)
        PROVE  Staged' /\ LatchRight'
    <3>1. PICK armed \in SUBSET Elements :
             /\ cached' = [l \in Lines |-> cached[l] /\ \A e \in armed : BcLine[e] # l]
             /\ \E steps \in InInitOrder(armed) :
                 todo' = [i \in 1..Len(steps) |-> AssertReset(steps[i], kind)]
      BY <2>3 DEF requestResetAllSync, Elements
    <3>2. PICK steps \in InInitOrder(armed) :
                 todo' = [i \in 1..Len(steps) |-> AssertReset(steps[i], kind)]
      BY <3>1
    <3> DEFINE n == Len(steps)
    <3>3. /\ n \in Nat /\ todo' = [i \in 1..n |-> AssertReset(steps[i], kind)]
          /\ \A e \in armed : \E i \in 1..n : steps[i] = e
      BY <3>2, InOrderFacts
    <3> HIDE DEF n
    <3>4. Len(todo') = n /\ \A i \in 1..n : todo'[i] = AssertReset(steps[i], kind)
      BY <3>3
    <3>5. \A f : AssertReset(f, kind).op # "emit" /\ Lowers(AssertReset(f, kind), f)
      BY DEF AssertReset, Lowers
    <3>6. \A o \in Ahead(todo') : o.op # "emit"
      BY <3>4, <3>5 DEF Ahead
    <3>7. \A e \in armed : \E o \in Ahead(todo') : Lowers(o, e)
      BY <3>3, <3>4, <3>5 DEF Ahead
    <3>8. ASSUME NEW e \in Elements, e \notin armed, cached[BcLine[e]]
          PROVE  cached'[BcLine[e]]
      BY <3>1, <3>8, LineFacts DEF OwnBcLine
    <3>9. Idle /\ UNCHANGED elements
      BY <2>3 DEF requestResetAllSync, FreeCall
    <3> QED
      BY <1>2, <3>6, <3>7, <3>8, <3>9
  <2>4. ASSUME NEW e \in Lpus, NEW enable \in VrCalls, setVrTelemetryConfigured(e, enable)
        PROVE  Staged' /\ LatchRight'
    BY <1>3, <2>4 DEF setVrTelemetryConfigured
  <2> QED
    BY <1>7, <2>1, <2>2, <2>3, <2>4 DEF Client
<1>8. CASE Timers
  <2>1. ASSUME NEW e \in Elements, ResetDeadline(e) PROVE Staged' /\ LatchRight'
    <3>1. PICK v \in StickyReads(e) :
             \/ Sticky(e, v) /\ todo' = <<Notify(BcLine[e], v), Complete(e, "Ok")>>
             \/ todo' = todo
      BY <2>1 DEF ResetDeadline
    <3>2. Idle /\ UNCHANGED <<elements, cached>>
      BY <2>1 DEF ResetDeadline
    <3>3. CASE todo' = <<Notify(BcLine[e], v), Complete(e, "Ok")>>
      <4>1. \A o \in Ahead(todo') : o.op # "emit"
        BY <3>3, AheadSmall DEF Notify, Complete
      <4> QED
        BY <1>2, <3>2, <4>1
    <3> QED
      BY <1>3, <3>1, <3>2, <3>3
  <2>2. ASSUME NEW e \in Elements, BootDeadline(e) PROVE Staged' /\ LatchRight'
    <3>1. PICK v \in StickyReads(e) :
             \/ /\ Sticky(e, v) /\ todo' = <<Notify(BcLine[e], v), EraseTimer(e)>>
                /\ UNCHANGED elements
             \/ ExpireBootTimer(e) /\ todo' = todo
      BY <2>2 DEF BootDeadline
    <3>2. Idle /\ UNCHANGED cached
      BY <2>2 DEF BootDeadline
    <3>3. CASE UNCHANGED elements /\ todo' = <<Notify(BcLine[e], v), EraseTimer(e)>>
      <4>1. \A o \in Ahead(todo') : o.op # "emit"
        BY <3>3, AheadSmall DEF Notify, EraseTimer
      <4> QED
        BY <1>2, <3>2, <3>3, <4>1
    <3>4. CASE ExpireBootTimer(e) /\ todo' = todo
      <4>1. PICK armed \in TimerAdd :
               SetElement(e, [ElementDispatch(elements[e], "TBootExpired", armed)
                                 EXCEPT !.bootTimer = FALSE])
        BY <3>4 DEF ExpireBootTimer
      <4> DEFINE d == ElementDispatch(elements[e], "TBootExpired", armed)
      <4>2. armed \in BOOLEAN /\ elements \in [Elements -> Element] /\ GoodElement(elements[e])
        BY GoodElements, WiringAssumption DEF FsmInv, FsmTypeOK
      <4>3. d.state = "Online" => elements[e].state = "Online"
        BY <4>2, DispatchMoves DEF ElementEvents
      <4> HIDE DEF d
      <4> DEFINE now == [d EXCEPT !.bootTimer = FALSE]
      <4>4. now.state = d.state
        OBVIOUS
      <4>5. SetElement(e, now)
        BY <4>1 DEF d
      <4> HIDE DEF now
      <4>6. elements'[e] = now /\ \A f \in Elements : f # e => elements'[f] = elements[f]
        BY <4>2, <4>5, SetElementFacts
      <4>7. \A f \in Elements : elements'[f].state = "Online" => elements[f].state = "Online"
        BY <4>3, <4>4, <4>6
      <4>8. Ahead(todo') = {}
        BY <1>1, <3>2, <3>4 DEF Idle
      <4> QED
        BY <1>2, <3>2, <4>7, <4>8
    <3> QED
      BY <3>1, <3>3, <3>4
  <2>3. ASSUME NEW e \in Lpus, TelemetryRetry(e) PROVE Staged' /\ LatchRight'
    BY <1>3, <2>3 DEF TelemetryRetry
  <2> QED
    BY <1>8, <2>1, <2>2, <2>3 DEF Timers
<1>9. CASE Restart
  <2>1. Ahead(todo') = {} /\ \A e \in Elements : elements'[e].state # "Online"
    BY <1>1, <1>9 DEF Restart, InitElement
  <2> QED
    BY <2>1, NoEmitStages DEF LatchRight
<1>10. CASE StepComplete \/ StepEraseTimer
  <2>1. /\ todo # <<>> /\ Head(todo).op \in {"complete", "eraseTimer"} /\ todo' = Tail(todo)
        /\ UNCHANGED cached
    BY <1>10 DEF StepComplete, StepEraseTimer, Running
  <2>2. UNCHANGED elements
    <3>1. CASE StepComplete
      BY <3>1 DEF StepComplete
    <3>2. CASE StepEraseTimer
      <4> DEFINE e == Head(todo).el
      <4>1. e \in Elements /\ ~elements[e].bootTimer /\ elements \in [Elements -> Element]
        BY <3>2, EraseIsLast DEF FsmInv, FsmTypeOK
      <4>2. elements' = [elements EXCEPT ![e].bootTimer = FALSE]
        BY <3>2 DEF StepEraseTimer
      <4>3. [elements[e] EXCEPT !.bootTimer = FALSE] = elements[e]
        BY <4>1 DEF Element
      <4> QED
        BY <4>1, <4>2, <4>3
    <3> QED
      BY <1>10, <3>1, <3>2
  <2>3. Ahead(todo) = {Head(todo)} \cup Ahead(Tail(todo))
    BY <2>1, HeadFacts, AheadFacts, NoneSeq DEF OwnTypeOK
  <2>4. \A e : ~Lowers(Head(todo), e)
    BY <2>1 DEF Lowers
  <2>5. \A e \in Elements : LatchOk(e)'
    BY <2>1, <2>2, <2>3, <2>4, LatchIsOk, LatchMoves
  <2> QED
    BY <2>1, <2>5, LatchIsOk, TailStages
<1> QED
  BY <1>4, <1>5, <1>6, <1>7, <1>8, <1>9, <1>10, NotifyLatch, PgEdgeLatch, EmitLatch, ResetLatch
     DEF Next, Step
-----------------------------------------------------------------------------
(* The theorems.                                                           *)

(* The inductive invariant of the daemon.                                  *)
DaemonInv == FsmInv /\ OwnTypeOK /\ PollingInv /\ CallAccounting /\ StickyEnds

LEMMA DaemonStarts == Init => DaemonInv /\ Staged /\ LatchRight
<1> SUFFICES ASSUME Init PROVE DaemonInv /\ Staged /\ LatchRight
  OBVIOUS
<1>1. FsmInv
  BY FsmInitInv DEF Init
<1>2. InitTelemetry \in Telemetry(MaxTelemetryRetry) /\ PollsRight(InitTelemetry, "Stby")
  BY ServiceAssumption DEF InitTelemetry, Telemetry, Masks, PollsRight
<1>3. IdleCall \in Call /\ IdleCall.status = "idle"
  BY DEF IdleCall, Call
<1>4. OwnTypeOK
  BY <1>2, <1>3 DEF Init, OwnTypeOK, Levels, Unbound
<1>5. \A e \in Elements : elements[e].state = "Stby"
  BY DEF Init, FsmInit, InitElement
<1>6. PollingInv
  BY <1>2, <1>5, ServiceAssumption DEF Init, PollingInv, Elements
<1>7. CallAccounting
  <2>1. ASSUME NEW c \in Calls PROVE Waiting(c) = {} /\ calls[c].status # "open"
    BY <1>3, ServiceAssumption DEF Init, Waiting
  <2> QED
    BY <2>1, AccountingIsCallRight DEF CallRight
<1>8. Len(todo) = 0 /\ Ahead(todo) = {}
  BY AheadSmall DEF Init
<1> QED
  BY <1>1, <1>4, <1>5, <1>6, <1>7, <1>8 DEF DaemonInv, StickyEnds, Staged, LatchRight

LEMMA DaemonSteps == DaemonInv /\ [Next]_vars => DaemonInv'
<1> SUFFICES ASSUME DaemonInv, [Next]_vars PROVE DaemonInv'
  OBVIOUS
<1>1. Typed
  BY DEF DaemonInv, Typed, FsmInv
<1>2. FsmInit' => FsmInv'
  BY FsmInitInv, PTL
<1>3. FsmInv'
  BY <1>2, FsmStep, FsmNextInv DEF DaemonInv
<1> QED
  BY <1>1, <1>3, NextTypes, NextAccounts, NextSticks DEF DaemonInv

(* In every state of the daemon the FSM layers keep their invariant, all   *)
(* variables have their types, polling fits the LPU's state, calls are     *)
(* accounted for, and a sticky recovery drops no live boot deadline.       *)
THEOREM DaemonInvariant == Spec => []DaemonInv
<1>1. Init => DaemonInv
  BY DaemonStarts
<1> QED
  BY <1>1, DaemonSteps, PTL DEF Spec

(* Every value the daemon keeps has its type, through every callback.      *)
THEOREM DaemonTyped == Spec => []TypeOK
<1>1. DaemonInv => TypeOK
  BY DEF DaemonInv, FsmInv, OwnTypeOK, TypeOK
<1> QED
  BY <1>1, DaemonInvariant, PTL

(* Every method call waits for exactly the resets it started, so that its  *)
(* reply goes out once and has every element once (PendingReply, Tracker,  *)
(* completePending_).                                                      *)
THEOREM CallsAccounted == Spec => []CallAccounting
<1>1. DaemonInv => CallAccounting
  BY DEF DaemonInv
<1> QED
  BY <1>1, DaemonInvariant, PTL

(* Telemetry polling follows the LPU's state (onStateChange,               *)
(* setVrTelemetryConfigured, handleTelemetryRetry_).                       *)
THEOREM PollingIsRight == Spec => []PollingFollowsOnline
<1>1. DaemonInv => PollingFollowsOnline
  BY DEF DaemonInv, PollingInv, PollsRight, IoctlsWork, PollingFollowsOnline
<1> QED
  BY <1>1, DaemonInvariant, PTL

(* The three FSM layers' invariants hold of the daemon, restarts included. *)
THEOREM DaemonKeepsFsmInvariant == Spec => []FsmInv
<1>1. DaemonInv => FsmInv
  BY DEF DaemonInv
<1> QED
  BY <1>1, DaemonInvariant, PTL

(* The daemon implements the FSM layers: until it is restarted, whatever   *)
(* callback runs, each of its steps is one dispatch or leaves the layers   *)
(* alone.                                                                  *)
THEOREM DaemonImplementsFsms == ASSUME ~MayRestart PROVE Spec => FsmSpec
<1>1. DaemonInv /\ [Next]_vars => [FsmNext]_fsmVars
  BY FsmStep DEF DaemonInv, Restart
<1>2. Init => FsmInit
  BY DEF Init
<1> QED
  BY <1>1, <1>2, DaemonInvariant, PTL DEF Spec, FsmSpec

(* Restarts included, a step that is none starts every FSM over.           *)
THEOREM DaemonRestartsFsms == Spec => FsmInit /\ [][FsmNext \/ FsmInit']_fsmVars
<1>1. DaemonInv /\ [Next]_vars => [FsmNext \/ FsmInit']_fsmVars
  BY FsmStep DEF DaemonInv
<1>2. Init => FsmInit
  BY DEF Init
<1> QED
  BY <1>1, <1>2, DaemonInvariant, PTL DEF Spec

(* Between callbacks, an element that is Online has its boot-complete      *)
(* latched, when no two elements share a boot-complete line.               *)
THEOREM OnlineOnBootComplete == ASSUME OwnBcLine PROVE Spec => []OnlineHasBootComplete
<1>1. Init => Staged /\ LatchRight
  BY DaemonStarts
<1>2. DaemonInv /\ Staged /\ LatchRight /\ [Next]_vars => Staged' /\ LatchRight'
  BY NextLatch DEF DaemonInv
<1>3. LatchRight => OnlineHasBootComplete
  BY AheadSmall DEF LatchRight, OnlineHasBootComplete, Idle
<1> QED
  BY <1>1, <1>2, <1>3, DaemonInvariant, PTL DEF Spec


=============================================================================
