----------------------------- MODULE ElementFsm -----------------------------
(***************************************************************************)
(* The element FSM of pwrseq-monitor (src/element_fsm.cpp): one per LPU    *)
(* and per FPGA.  An element is the record of its FSM state, its fault     *)
(* code, whether its boot deadline T_BOOT is armed (the entry of the       *)
(* orchestrator's bootTimers_ map that the FSM's startTBoot / cancelTBoot  *)
(* callbacks write) and whether it ever saw power-good.                    *)
(***************************************************************************)
EXTENDS TransitionTable

ElementStates == {"Stby", "Powered", "Online", "Resetting", "Fault"}

FaultCodes == {"None", "BootTimeout", "BootRegress", "PgoodDrop"}

ElementEvents == {"PgHi", "PgLo", "BcHi", "BcLo", "TBootExpired",
                  "RstAsserted", "RstReleased"}

Element == [state: ElementStates, faultCode: FaultCodes,
            bootTimer: BOOLEAN, seenPgHi: BOOLEAN]

InitElement == [state |-> "Stby", faultCode |-> "None",
                bootTimer |-> FALSE, seenPgHi |-> FALSE]

-----------------------------------------------------------------------------
ElementTable == {
    TransitionRow("Stby", "PgHi", "always", "Powered", "startTBoot"),
    TransitionRow("Stby", "PgLo", "always", "Stby", "none"),
    TransitionRow("Stby", "BcHi", "always", "Stby", "none"),
    TransitionRow("Stby", "BcLo", "always", "Stby", "none"),

    TransitionRow("Powered", "BcHi", "always", "Online", "cancelTBoot"),
    TransitionRow("Powered", "PgLo", "always", "Stby", "cancelTBoot"),
    TransitionRow("Powered", "TBootExpired", "always", "Fault",
                  "setFaultBootTimeout"),
    TransitionRow("Powered", "RstAsserted", "always", "Resetting",
                  "cancelTBoot"),

    TransitionRow("Online", "BcLo", "always", "Fault", "setFaultBootRegress"),
    TransitionRow("Online", "PgLo", "always", "Fault", "setFaultPgoodDrop"),
    TransitionRow("Online", "RstAsserted", "always", "Resetting", "none"),

    TransitionRow("Resetting", "RstReleased", "always", "Powered",
                  "startTBoot"),
    TransitionRow("Resetting", "PgLo", "always", "Stby", "none"),

    TransitionRow("Fault", "PgHi", "always", "Powered",
                  "clearFaultAndStartTBoot"),
    TransitionRow("Fault", "BcHi", "lateBootRecovery", "Online",
                  "clearFault"),
    TransitionRow("Fault", "PgLo", "always", "Stby", "clearFault"),
    TransitionRow("Fault", "RstAsserted", "always", "Resetting",
                  "clearFault")}

(* A boot-complete edge recovers these faults; PgoodDrop is left out.      *)
BugOnlyBootTimeout(faultCode) == faultCode = "BootTimeout"
guardLateBootRecovery(faultCode) == faultCode \in {"BootTimeout", "BootRegress"}

ElementGuard(guard, faultCode) ==
    guard = "lateBootRecovery" => guardLateBootRecovery(faultCode)

FaultAfter(action, faultCode) ==
    CASE action = "setFaultBootTimeout" -> "BootTimeout"
      [] action = "setFaultBootRegress" -> "BootRegress"
      [] action = "setFaultPgoodDrop" -> "PgoodDrop"
      [] action \in {"clearFault", "clearFaultAndStartTBoot"} -> "None"
      [] OTHER -> faultCode

(* armed: whether sd_event_add_time accepted the new timer.                *)
BugCancelForgets(action, bootTimer, armed) ==
    IF action \in {"startTBoot", "clearFaultAndStartTBoot"}
    THEN armed \/ bootTimer ELSE bootTimer
BugRecoveryHasNoDeadline(action, bootTimer, armed) ==
    CASE action = "startTBoot" -> armed \/ bootTimer
      [] action = "cancelTBoot" -> FALSE
      [] OTHER -> bootTimer
TimerAfter(action, bootTimer, armed) ==
    CASE action \in {"startTBoot", "clearFaultAndStartTBoot"} ->
            armed \/ bootTimer
      [] action = "cancelTBoot" -> FALSE
      [] OTHER -> bootTimer

ElementRows(el, event) ==
    {r \in Matching(ElementTable, el.state, event) :
        ElementGuard(r.guard, el.faultCode)}

(* An event no row matches is dropped.                                     *)
ElementDispatch(el, event, armed) ==
    LET rows == ElementRows(el, event) IN
    IF rows = {} THEN el
    ELSE LET row == CHOOSE r \in rows : TRUE
         IN  [state     |-> row.to,
              faultCode |-> FaultAfter(row.action, el.faultCode),
              bootTimer |-> TimerAfter(row.action, el.bootTimer, armed),
              seenPgHi  |-> el.seenPgHi \/ event = "PgHi"]

=============================================================================
