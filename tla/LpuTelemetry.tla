---------------------------- MODULE LpuTelemetry ----------------------------
(***************************************************************************)
(* The LPU driver's telemetry polling (src/hal/lpu_driver.cpp) as          *)
(* operators on a record:                                                  *)
(*   configured   vrTelemetryConfigured_, what SetVrTelemetryEnabled asked *)
(*   selected     vrPollingSelected_, the last firmware-version decision   *)
(*   mask         what the last successful LPU_LOG_SET_POLLING left in the *)
(*                kernel driver: "off", "all" or "all+vr"                  *)
(*   retry        attempt number of the armed retry timer                  *)
(*                (telemetryRetryTimers_), 0 when none is armed            *)
(* The ioctls are external: a version query answers with a decision, a     *)
(* polling ioctl succeeds or fails.                                        *)
(***************************************************************************)
EXTENDS Integers

Masks == {"off", "all", "all+vr"}

Telemetry(maxRetry) ==
    [configured: BOOLEAN, selected: BOOLEAN, mask: Masks, retry: 0..maxRetry]

InitTelemetry ==
    [configured |-> FALSE, selected |-> FALSE, mask |-> "off", retry |-> 0]

(* selectLpuVrPolling: old firmware disables, an unreadable or all-ones    *)
(* version asks for a retry.                                               *)
selectLpuVrPolling(t) ==
    IF t.configured THEN {"Disabled", "Retry", "Enabled"} ELSE {"Disabled"}

PollingMask(enable, selected) ==
    IF ~enable THEN "off" ELSE IF selected THEN "all+vr" ELSE "all"

(* applyTelemetryPolling: a failed ioctl leaves the kernel's mask alone.   *)
applyTelemetryPolling(t, enable, ioctlOk) ==
    [t EXCEPT !.mask = IF ioctlOk THEN PollingMask(enable, t.selected) ELSE @]

(* setTelemetryPolling on a driver whose log device is open: the possible  *)
(* pairs of new record and result.                                         *)
setTelemetryPolling(t, enable, ioctl) ==
    {[tel |-> applyTelemetryPolling([t EXCEPT !.selected = enable /\ d = "Enabled"],
                                    enable, ok),
      result |-> IF ~ok THEN "HwError"
                 ELSE IF enable /\ d = "Retry" THEN "NotReady" ELSE "Ok"]
     : d \in (IF enable THEN selectLpuVrPolling(t) ELSE {"Disabled"}),
       ok \in ioctl}

(* scheduleTelemetryRetry_ / cancelTelemetryRetry_                         *)
cancelTelemetryRetry(t) == [t EXCEPT !.retry = 0]
RetryOnNotReady(r, attempt) ==
    IF r.result = "NotReady" THEN [r.tel EXCEPT !.retry = attempt] ELSE r.tel

(* The telemetry half of wireElementFsm_'s onStateChange.                  *)
BugNeverStopsPolling(t, old, new, ioctl) ==
    IF new = "Online"
    THEN {RetryOnNotReady(r, 1) :
            r \in setTelemetryPolling(cancelTelemetryRetry(t), TRUE, ioctl)}
    ELSE {cancelTelemetryRetry(t)}
TelemetryOnStateChange(t, old, new, ioctl) ==
    IF old = "Online" \/ new = "Online"
    THEN {RetryOnNotReady(r, 1) :
            r \in setTelemetryPolling(cancelTelemetryRetry(t),
                                      new = "Online", ioctl)}
    ELSE {t}

(* Orchestrator::setVrTelemetryConfigured                                  *)
TelemetryConfigured(t, enable, state, ioctl) ==
    LET c == cancelTelemetryRetry([t EXCEPT !.configured = enable])
    IN  IF state # "Online" THEN {c}
        ELSE {RetryOnNotReady(r, 1) : r \in setTelemetryPolling(c, TRUE, ioctl)}

(* handleTelemetryRetry_, the timer having fired with its attempt number.  *)
TelemetryRetryFired(t, state, maxRetry, ioctl) ==
    LET c == cancelTelemetryRetry(t)
    IN  IF state # "Online" THEN {c}
        ELSE {IF t.retry < maxRetry THEN RetryOnNotReady(r, t.retry + 1)
              ELSE r.tel
              : r \in setTelemetryPolling(c, TRUE, ioctl)}

=============================================================================
