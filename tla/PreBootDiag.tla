---------------------------- MODULE PreBootDiag ----------------------------
(***************************************************************************)
(* The pre-boot diagnostics daemon (prebootdiag/src): one coroutine runs a *)
(* diagnostic session, D-Bus handlers steer it.  Everything runs on one    *)
(* io_context, so that handlers run only where the coroutine waits; pc     *)
(* names the co_await the coroutine is at (or, in Synchronous, the code it *)
(* is running between two of them).                                        *)
(*                                                                         *)
(* Settings, nsmd, the CPUs and the GPIO lines are external.  A CPU samples *)
(* its boot-chain strap when its reset is released.  Time is abstracted:   *)
(* a wait with a timeout may end at any moment, so cancelling its timer    *)
(* only makes it end earlier and is not represented.                       *)
(***************************************************************************)
EXTENDS Integers, Sequences, FiniteSets

CONSTANTS
    ChannelSize,    \* capacity of the event channel (32 in the daemon)
    FailingCalls,   \* the calls (named by their pc) that may fail
    GpioFaults,     \* the GPIO phases in which writes may fail
    MaxResults,     \* bound on the results the devices report
    MayRestart      \* whether systemd may restart the daemon

ASSUME ParametersAssumption ==
    /\ ChannelSize \in Nat /\ MaxResults \in Nat
    /\ MayRestart \in BOOLEAN

VARIABLES
    enabled, sequenceRunning, abortRequested,
    abortReason,    \* whether a reason is recorded
    postCodes,      \* pscFmcPostCodeReceived, mb2PostCodeReceived
    eventChannel,   \* exists exactly while sequenceRunning
    pc,
    handling,       \* the event listenForEvents is handling
    draft,          \* resultsArray of handleResultReceived
    active,         \* boards in activeResetGpios and activeBootChainGpios
    held,           \* LibGpioHandler's heldLines: the straps it drives
    cpu,            \* firmware each CPU runs, as its last reset decided
    settings,       \* DiagStatus, DiagMode and DiagResult in Settings
    nsm,            \* nsmd's async operation and our wait for it
    firstResult,    \* number of this session's first result
    nextResult      \* number of the next result

handlerVars == <<enabled, sequenceRunning, abortRequested, abortReason,
                 postCodes>>
boardVars == <<active, held, cpu>>
resultNumbers == <<firstResult, nextResult>>
vars == <<handlerVars, eventChannel, pc, handling, draft, boardVars, settings,
          nsm, resultNumbers>>

Boards == {"brd0", "brd1"}
Pins == {"reset", "strap"}
PostCodes == {"PscFmc", "Mb2"}

DeviceEvents == {"SystemConfigRequested", "TIDConfigRequested",
                 "HeartbeatReceived", "SessionEnded", "EmptyResult",
                 "Malformed"}
(* An event as Notify queued it, or Disable's sentinel, which looks like a *)
(* SessionEnded.                                                           *)
Event(state)   == [state |-> state, number |-> 0, sentinel |-> FALSE]
ResultEvent(n) == [state |-> "ResultReceived", number |-> n, sentinel |-> FALSE]
Sentinel       == [state |-> "SessionEnded", number |-> 0, sentinel |-> TRUE]
NoEvent        == Event("none")

NoOperation == [op |-> "none", match |-> FALSE, promise |-> "empty"]

Synchronous == {"gpios", "failed", "recover", "finish"}
Suspended == pc \notin Synchronous

Init ==
    /\ enabled = FALSE /\ sequenceRunning = FALSE
    /\ abortRequested = FALSE /\ abortReason = FALSE
    /\ postCodes = {}
    /\ eventChannel = <<>> /\ pc = "idle"
    /\ handling = NoEvent /\ draft = <<>>
    /\ active = {}
    /\ held = [b \in Boards |-> "free"]
    /\ cpu = [b \in Boards |-> "normal"]
    /\ settings = [status |-> "NotStarted", mode |-> FALSE, result |-> <<>>]
    /\ nsm = NoOperation
    /\ firstResult = 1 /\ nextResult = 1

-----------------------------------------------------------------------------
(* D-Bus handlers.  A call that is refused changes nothing and is left out.*)

(* setEnabled(true) with no session: a fresh session and a fresh channel.  *)
Enable ==
    /\ Suspended /\ ~enabled /\ ~sequenceRunning
    /\ enabled' = TRUE /\ sequenceRunning' = TRUE
    /\ abortRequested' = FALSE /\ abortReason' = FALSE
    /\ postCodes' = {}
    /\ eventChannel' = <<>>
    /\ pc' = "getStatus" /\ active' = {}
    /\ firstResult' = nextResult
    /\ UNCHANGED <<handling, draft, held, cpu, settings, nsm, nextResult>>

(* try_send: a waiting receiver takes one event beyond the capacity.       *)
HasRoom == Len(eventChannel) < ChannelSize + (IF pc = "listen" THEN 1 ELSE 0)
try_send(e) == eventChannel' = IF HasRoom THEN Append(eventChannel, e)
                               ELSE eventChannel

(* setEnabled(false)                                                       *)
Disable ==
    /\ Suspended /\ enabled
    /\ enabled' = FALSE
    /\ IF sequenceRunning
       THEN abortRequested' = TRUE /\ try_send(Sentinel)
       ELSE UNCHANGED <<abortRequested, eventChannel>>
    /\ UNCHANGED <<sequenceRunning, abortReason, postCodes, pc, handling,
                   draft, boardVars, settings, nsm, resultNumbers>>

(* updateState on a post code: MB2 ahead of PSC-FMC aborts the session.    *)
NotifyPostCode(code) ==
    /\ Suspended /\ sequenceRunning
    /\ IF code = "Mb2" /\ "PscFmc" \notin postCodes
       THEN /\ abortRequested' = TRUE /\ abortReason' = TRUE
            /\ UNCHANGED postCodes
       ELSE /\ postCodes' = postCodes \cup {code}
            /\ UNCHANGED <<abortRequested, abortReason>>
    /\ UNCHANGED <<enabled, sequenceRunning, eventChannel, pc, handling,
                   draft, boardVars, settings, nsm, resultNumbers>>

(* updateState on an NSM event: a full channel aborts the session.         *)
NotifyEvent(e) ==
    /\ Suspended /\ sequenceRunning
    /\ try_send(e)
    /\ abortRequested' = (abortRequested \/ ~HasRoom)
    /\ nextResult' = nextResult
                     + (IF e.state = "ResultReceived" /\ HasRoom THEN 1 ELSE 0)
    /\ UNCHANGED <<enabled, sequenceRunning, abortReason, postCodes, pc,
                   handling, draft, boardVars, settings, nsm, firstResult>>

Handlers ==
    \/ Enable \/ Disable
    \/ \E code \in PostCodes : NotifyPostCode(code)
    \/ \E s \in DeviceEvents : NotifyEvent(Event(s))
    \/ nextResult <= MaxResults /\ NotifyEvent(ResultEvent(nextResult))

-----------------------------------------------------------------------------
(* The coroutine.                                                          *)
Coroutine == UNCHANGED <<handlerVars, resultNumbers>>

(* The event and the draft live as long as their handler.                  *)
KeepLocals ==
    IF pc' \in {"listen", "failed", "idle"}
    THEN handling' = NoEvent /\ draft' = <<>>
    ELSE UNCHANGED <<handling, draft>>

(* A call that fails may have taken effect (its reply came too late).      *)
Answers(call) ==
    {"ok"} \cup (IF call \in FailingCalls THEN {"failed", "late"} ELSE {})

(* A Set on Settings: go on to next, or to the handler of the exception.   *)
Write(at, new, next, handler) ==
    /\ pc = at
    /\ \E answer \in Answers(at) :
         /\ settings' = IF answer = "failed" THEN settings ELSE new
         /\ pc' = IF answer = "ok" THEN next ELSE handler
    /\ Coroutine /\ KeepLocals
    /\ UNCHANGED <<eventChannel, boardVars, nsm>>

(* A step that only moves on.                                              *)
Goto(at, Targets) ==
    /\ pc = at
    /\ pc' \in Targets
    /\ Coroutine /\ KeepLocals
    /\ UNCHANGED <<eventChannel, boardVars, settings, nsm>>

OrFailed(call) == IF call \in FailingCalls THEN {"failed"} ELSE {}

(* A session that finds one running in Settings, or no configuration, ends *)
(* as failed; an unreadable status counts as NotStarted.                   *)
getDiagStatus ==
    Goto("getStatus",
         IF settings.status \notin {"TestRunning", "InProgress"}
         THEN {"getConfig"}
         ELSE {"failed"} \cup (IF "getStatus" \in FailingCalls
                               THEN {"getConfig"} ELSE {}))
hasDiagConfig == Goto("getConfig", {"setInProgress", "failed"})

StartSession ==
    \/ getDiagStatus
    \/ hasDiagConfig
    \/ Write("setInProgress", [settings EXCEPT !.status = "InProgress"],
             "setModeOn", "failed")
    \/ Write("setModeOn", [settings EXCEPT !.mode = TRUE],
             "clearResult", "failed")
    \/ Write("clearResult", [settings EXCEPT !.result = <<>>],
             "gpios", "failed")

(* checkGpios: board 0 needs both lines, board 1 has both or none; the     *)
(* empty set stands for the exception.                                     *)
checkGpios(missing) ==
    IF missing["brd0"] # {} \/ missing["brd1"] \notin {{}, Pins} THEN {}
    ELSE {b \in Boards : missing[b] = {}}

(* setPins and holdPins go on past a line that fails (it cannot be         *)
(* requested and stays as it is).  A reset that is released (requesting    *)
(* the line drives it low first) boots the CPU by its strap.               *)
Faulty(phase, boards) ==
    IF phase \in GpioFaults THEN SUBSET boards ELSE {{}}
AssertReset(c, boards) == [b \in Boards |-> IF b \in boards THEN "reset" ELSE c[b]]
ReleaseReset(c, h, boards) ==
    [b \in Boards |-> IF b \notin boards THEN c[b]
                      ELSE IF h[b] = "high" THEN "diag" ELSE "normal"]
HoldStraps(h, boards, v) == [b \in Boards |-> IF b \in boards THEN v ELSE h[b]]

(* waitForPostCodes: the gate that is still closed, if any.                *)
NextGate == IF "PscFmc" \notin postCodes THEN "waitPscFmc"
            ELSE IF "Mb2" \notin postCodes THEN "waitMb2" ELSE "listen"

(* initGpioSequence: assert reset, hold the straps, release reset; each    *)
(* phase throws if any of its lines failed.                                *)
initGpioSequence(boards) ==
    \E fa \in Faulty("assert", boards), fh \in Faulty("hold", boards),
       fr \in Faulty("release", boards) :
        LET c == AssertReset(cpu, boards \ fa)
            h == HoldStraps(held, boards \ fh, "high")
        IN  /\ held' = IF fa # {} THEN held ELSE h
            /\ cpu' = IF fa \cup fh # {} THEN c
                      ELSE ReleaseReset(c, h, boards \ fr)
            /\ pc' = IF fa \cup fh \cup fr # {} THEN "failed" ELSE NextGate

PrepareGpios ==
    /\ pc = "gpios"
    /\ \E missing \in [Boards -> SUBSET Pins] :
         /\ active' = checkGpios(missing)
         /\ IF active' = {} THEN pc' = "failed" /\ UNCHANGED <<held, cpu>>
            ELSE initGpioSequence(active')
    /\ Coroutine
    /\ UNCHANGED <<eventChannel, handling, draft, settings, nsm>>

(* The wait for a post code ends: woken up, or timed out.                  *)
BugTimeoutIsPass(at, code) ==
    Goto(at, {IF abortRequested THEN "failed"
              ELSE IF code \in postCodes THEN NextGate ELSE "listen"})
waitForPostCode(at, code) ==
    Goto(at, {IF abortRequested \/ code \notin postCodes THEN "failed"
              ELSE NextGate})

-----------------------------------------------------------------------------
(* listenForEvents and its handlers.                                       *)
HandlerOf(state) ==
    CASE state = "SystemConfigRequested" -> "readSystem"
      [] state = "TIDConfigRequested"    -> "readTid"
      [] state = "HeartbeatReceived"     -> "setRunning"
      [] state = "ResultReceived"        -> "readResult"
      [] state = "SessionEnded"          -> "setCompleted"
      [] state = "EmptyResult"           -> "listen"
      [] state = "Malformed"             -> "failed"

BugListensOnAbort ==
    /\ pc = "listen" /\ eventChannel # <<>>
    /\ eventChannel' = Tail(eventChannel)
    /\ handling' = Head(eventChannel)
    /\ pc' = HandlerOf(Head(eventChannel).state)
    /\ Coroutine
    /\ UNCHANGED <<draft, boardVars, settings, nsm>>
Receive ==
    /\ pc = "listen" /\ eventChannel # <<>>
    /\ eventChannel' = Tail(eventChannel)
    /\ pc' = IF abortRequested THEN "failed"
             ELSE HandlerOf(Head(eventChannel).state)
    /\ handling' = IF pc' \in {"listen", "failed"} THEN NoEvent
                   ELSE Head(eventChannel)
    /\ Coroutine
    /\ UNCHANGED <<draft, boardVars, settings, nsm>>

IdleTimeout == eventChannel = <<>> /\ Goto("listen", {"failed"})

(* handleSystemConfigRequested and handleTIDConfigRequested up to the      *)
(* push: DiagConfig may be unreadable, invalid, or without the TID.        *)
readSystemConfig == Goto("readSystem", {"asyncSet"} \cup OrFailed("readSystem"))
readTIDConfig ==
    Goto("readTid", {"asyncSet", "handlerLog"} \cup OrFailed("readTid"))

(* callAsyncSet: nsmd creates the operation and answers with its path; the *)
(* match on its status is registered after that.                           *)
NsmServes ==
    /\ pc = "asyncSet" /\ nsm.op = "none"
    /\ nsm' = [nsm EXCEPT !.op = "InProgress"]
    /\ UNCHANGED <<handlerVars, eventChannel, pc, handling, draft, boardVars,
                   settings, resultNumbers>>
BugNoGet ==
    /\ pc = "asyncSet"
    /\ \/ /\ nsm.op # "none"
          /\ nsm' = [nsm EXCEPT !.match = TRUE]
          /\ pc' = "asyncWait"
       \/ /\ "asyncSet" \in FailingCalls
          /\ nsm' = NoOperation
          /\ pc' = "handlerLog"
    /\ Coroutine
    /\ UNCHANGED <<eventChannel, handling, draft, boardVars, settings>>
callAsyncSet ==
    /\ pc = "asyncSet"
    /\ \/ /\ nsm.op # "none"
          /\ nsm' = [nsm EXCEPT !.match = TRUE]
          /\ pc' = "asyncGet"
       \/ /\ "asyncSet" \in FailingCalls
          /\ nsm' = NoOperation
          /\ pc' = "handlerLog"
    /\ Coroutine
    /\ UNCHANGED <<eventChannel, handling, draft, boardVars, settings>>

(* resolveIfTerminal: the first terminal status seen fills the promise.    *)
Resolve(promise, status) ==
    IF promise = "empty" /\ status \in {"Success", "Failed"} THEN status
    ELSE promise

(* nsmd finishes; its signal reaches us only if the match is registered.   *)
NsmFinishes ==
    /\ Suspended /\ nsm.op = "InProgress"
    /\ \E status \in {"Success", "Failed"} :
         nsm' = [nsm EXCEPT !.op = status,
                            !.promise = IF nsm.match THEN Resolve(@, status)
                                        ELSE @]
    /\ UNCHANGED <<handlerVars, eventChannel, pc, handling, draft, boardVars,
                   settings, resultNumbers>>

(* waitForAsyncCompletion: the explicit Get, then the promise.             *)
GetAsyncStatus ==
    /\ pc = "asyncGet"
    /\ pc' = "asyncWait"
    /\ \E answer \in Answers("asyncGet") :
         nsm' = IF answer = "ok"
                THEN [nsm EXCEPT !.promise = Resolve(@, nsm.op)] ELSE nsm
    /\ Coroutine
    /\ UNCHANGED <<eventChannel, handling, draft, boardVars, settings>>
waitForAsyncCompletion ==
    /\ pc = "asyncWait" /\ nsm.promise # "empty"
    /\ pc' = IF nsm.promise = "Success" THEN "listen" ELSE "handlerLog"
    /\ nsm' = NoOperation
    /\ Coroutine /\ KeepLocals
    /\ UNCHANGED <<eventChannel, boardVars, settings>>

PushConfig ==
    \/ readSystemConfig \/ readTIDConfig
    \/ callAsyncSet \/ GetAsyncStatus \/ waitForAsyncCompletion
    \/ Goto("handlerLog", {"failed"})

(* handleResultReceived: read DiagResult, append, write it back.  If it    *)
(* cannot be read the array starts over.                                   *)
BugStartsOver ==
    /\ pc = "readResult"
    /\ pc' = "writeResult"
    /\ draft' = <<handling.number>>
    /\ Coroutine
    /\ UNCHANGED <<eventChannel, handling, boardVars, settings, nsm>>
readResult ==
    /\ pc = "readResult"
    /\ pc' = "writeResult"
    /\ \E answer \in Answers("readResult") :
         draft' = Append(IF answer = "ok" THEN settings.result ELSE <<>>,
                         handling.number)
    /\ Coroutine
    /\ UNCHANGED <<eventChannel, handling, boardVars, settings, nsm>>

HandleEvent ==
    \/ Receive \/ IdleTimeout
    \/ PushConfig
    \/ readResult
    \/ Write("writeResult", [settings EXCEPT !.result = draft],
             "listen", "failed")
    \/ Write("setRunning", [settings EXCEPT !.status = "TestRunning"],
             "listen", "failed")
    \/ Write("setCompleted", [settings EXCEPT !.status = "Completed"],
             "setModeOff", "failed")
    \/ Write("setModeOff", [settings EXCEPT !.mode = FALSE],
             "recover", "failed")

-----------------------------------------------------------------------------
(* clearBootChainGpios: straps low and released (a strap that cannot be    *)
(* driven is dropped), then a reset pulse; failures are ignored.           *)
BugPulsesBeforeClearing ==
    \E fa \in Faulty("clearAssert", active), fr \in Faulty("clearRelease", active) :
        /\ held' = HoldStraps(held, active, "free")
        /\ cpu' = ReleaseReset(AssertReset(cpu, active \ fa), held, active \ fr)
clearBootChainGpios ==
    \E fa \in Faulty("clearAssert", active), fr \in Faulty("clearRelease", active) :
        /\ held' = HoldStraps(held, active, "free")
        /\ cpu' = ReleaseReset(AssertReset(cpu, active \ fa), held', active \ fr)

(* recoverCpus after a completed session.                                  *)
recoverCpus ==
    /\ pc = "recover"
    /\ clearBootChainGpios
    /\ pc' = "finish"
    /\ Coroutine
    /\ UNCHANGED <<eventChannel, handling, draft, active, settings, nsm>>

(* The failure path of runDiagnosticSession: a user's abort also drops the *)
(* results; the first write that fails skips the others.                   *)
BugFailsWithoutCleanup ==
    /\ pc = "failed"
    /\ pc' = IF abortRequested /\ ~abortReason THEN "abortResult"
             ELSE "abortStatus"
    /\ Coroutine
    /\ UNCHANGED <<eventChannel, handling, draft, boardVars, settings, nsm>>
SessionFailed ==
    /\ pc = "failed"
    /\ clearBootChainGpios
    /\ pc' = IF abortRequested /\ ~abortReason THEN "abortResult"
             ELSE "abortStatus"
    /\ Coroutine
    /\ UNCHANGED <<eventChannel, handling, draft, active, settings, nsm>>

AbortSession ==
    \/ SessionFailed
    \/ Write("abortResult", [settings EXCEPT !.result = <<>>],
             "abortStatus", "log")
    \/ Write("abortStatus", [settings EXCEPT !.status = "Abort"],
             "abortMode", "log")
    \/ Write("abortMode", [settings EXCEPT !.mode = FALSE], "log", "log")
    \/ Goto("log", {"finish"})

(* The end of runDiagnosticSession.                                        *)
Finish ==
    /\ pc = "finish" /\ pc' = "idle"
    /\ sequenceRunning' = FALSE /\ enabled' = FALSE
    /\ eventChannel' = <<>> /\ KeepLocals
    /\ UNCHANGED <<abortRequested, abortReason, postCodes, boardVars,
                   settings, nsm, resultNumbers>>

runDiagnosticSession ==
    \/ StartSession \/ PrepareGpios
    \/ waitForPostCode("waitPscFmc", "PscFmc") \/ waitForPostCode("waitMb2", "Mb2")
    \/ HandleEvent \/ recoverCpus \/ AbortSession \/ Finish

(* The daemon stops or crashes and is started again: its lines go back to  *)
(* the kernel, Settings and the CPUs stay as they are.                     *)
Restart ==
    /\ MayRestart
    /\ enabled' = FALSE /\ sequenceRunning' = FALSE
    /\ abortRequested' = FALSE /\ abortReason' = FALSE
    /\ postCodes' = {} /\ eventChannel' = <<>>
    /\ pc' = "idle" /\ handling' = NoEvent /\ draft' = <<>>
    /\ active' = {} /\ held' = [b \in Boards |-> "free"]
    /\ nsm' = NoOperation
    /\ UNCHANGED <<cpu, settings, resultNumbers>>

Nsmd == NsmServes \/ NsmFinishes
Next == Handlers \/ runDiagnosticSession \/ Nsmd \/ Restart

Spec == Init /\ [][Next]_vars

-----------------------------------------------------------------------------
Waiting   == {"waitPscFmc", "waitMb2"}
Pushing   == {"readSystem", "readTid", "asyncSet", "asyncGet", "asyncWait",
              "handlerLog"}
Listening == {"listen", "setRunning", "readResult", "writeResult",
              "setCompleted", "setModeOff"} \cup Pushing
InDiag    == Waiting \cup Listening \cup {"recover"}
Others    == {"idle", "getStatus", "getConfig", "setInProgress", "setModeOn",
              "clearResult", "gpios", "failed", "abortResult", "abortStatus",
              "abortMode", "log", "finish"}

Events == [state: DeviceEvents \cup {"ResultReceived"}, number: Nat,
           sentinel: BOOLEAN]

DiagSettings ==
    [status: {"NotStarted", "InProgress", "TestRunning", "Completed", "Abort"},
     mode: BOOLEAN, result: Seq(Nat)]
NsmOperations ==
    [op: {"none", "InProgress", "Success", "Failed"}, match: BOOLEAN,
     promise: {"empty", "Success", "Failed"}]

TypeOK ==
    /\ enabled \in BOOLEAN /\ sequenceRunning \in BOOLEAN
    /\ abortRequested \in BOOLEAN /\ abortReason \in BOOLEAN
    /\ postCodes \in SUBSET PostCodes
    /\ eventChannel \in Seq(Events) /\ Len(eventChannel) <= ChannelSize + 1
    /\ pc \in InDiag \cup Others
    /\ handling \in Events \cup {NoEvent} /\ draft \in Seq(Nat)
    /\ active \in SUBSET Boards
    /\ held \in [Boards -> {"free", "high"}]
    /\ cpu \in [Boards -> {"normal", "reset", "diag"}]
    /\ settings \in DiagSettings
    /\ nsm \in NsmOperations
    /\ firstResult \in Nat /\ nextResult \in Nat

(* Enabled is never left set without a session, so that one write of it is *)
(* enough to start the next one, and a session that runs with Enabled      *)
(* cleared is being aborted.                                               *)
EnabledTracksSession ==
    /\ enabled => sequenceRunning
    /\ sequenceRunning /\ ~enabled => abortRequested

(* NSM events are handled only after both post codes came, PSC-FMC first,  *)
(* whatever was signalled, in whichever order, while the session was       *)
(* starting or its waits were expiring.                                    *)
GatesPassed ==
    /\ "Mb2" \in postCodes => "PscFmc" \in postCodes
    /\ pc \in Listening => postCodes = PostCodes

(* From the end of the GPIO sequence until the cleanup every board of the  *)
(* session runs the diagnostic firmware with its strap held, so that any   *)
(* reset boots it again; outside of a session no strap is held, whichever  *)
(* line failed in whichever phase.                                         *)
StrapsHeldInSession ==
    /\ pc \in InDiag => /\ active # {}
                        /\ \A b \in active : held[b] = "high" /\ cpu[b] = "diag"
    /\ \A b \in Boards : held[b] = "high" =>
            b \in active /\ pc \in InDiag \cup {"failed"}

(* However a session ends, Settings says so, diagnostic mode is off, and   *)
(* every board it drove is back on its normal firmware (given that the     *)
(* writes of the failure path and the last reset release go through).      *)
FinishedSessionIsClean ==
    pc = "finish" => /\ settings.status \in {"Completed", "Abort"}
                     /\ ~settings.mode
                     /\ \A b \in active : cpu[b] = "normal"

(* The sentinel Disable queues to wake the session up is never taken for   *)
(* the end of the diagnostics: Completed comes from the device.            *)
SentinelNeverCompletes ==
    pc \in {"setCompleted", "setModeOff", "recover"} =>
        handling.state = "SessionEnded" /\ ~handling.sentinel

(* The results of a session are kept: DiagResult, the one being appended   *)
(* and the queued ones are those Notify accepted in this session, each     *)
(* once and in order (given that DiagResult can be read).                  *)
ResultsAreKept ==
    LET taken == settings.result \o (IF pc \in {"readResult", "writeResult"}
                                     THEN <<handling.number>> ELSE <<>>)
        queued == {i \in 1..Len(eventChannel) :
                     eventChannel[i].state = "ResultReceived"}
    IN  pc \in Waiting \cup Listening =>
            /\ \A i \in 1..Len(taken) : taken[i] = firstResult + i - 1
            /\ firstResult + Len(taken) <= nextResult
            /\ {eventChannel[i].number : i \in queued}
               = (firstResult + Len(taken))..(nextResult - 1)
            /\ \A i, j \in queued :
                 i < j => eventChannel[i].number < eventChannel[j].number

-----------------------------------------------------------------------------
(* The event loop runs the coroutine whenever what it waits for is there;  *)
(* every call is answered or times out, every timed wait expires.  nsmd is *)
(* assumed to serve and finish what it is asked for: that wait has no      *)
(* timeout in the code.                                                    *)
FairSpec == Spec /\ WF_vars(runDiagnosticSession) /\ WF_vars(NsmServes)
                 /\ WF_vars(NsmFinishes)

(* An abort, asked for by the user or by a post code or an event that      *)
(* could not be taken, ends the session wherever it finds it and whatever  *)
(* the device keeps sending, even if no sentinel fitted in the channel.    *)
AbortEnds == abortRequested /\ sequenceRunning ~> ~sequenceRunning

(* A configuration push is over once nsmd is done with it: a status that   *)
(* became final before the match was registered is not missed.             *)
PushesResolve == pc = "asyncWait" ~> pc # "asyncWait"

=============================================================================
