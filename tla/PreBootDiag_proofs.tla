------------------------- MODULE PreBootDiag_proofs -------------------------
(***************************************************************************)
(* Proofs about PreBootDiag for every channel size, every set of calls and *)
(* GPIO phases that may fail, and with restarts.                           *)
(***************************************************************************)
EXTENDS PreBootDiag, TLAPS

(* The coroutine exists exactly while sequenceRunning is set.              *)
OneCoroutine == sequenceRunning <=> pc # "idle"

(* A sentinel in the channel was put there by an abort that still stands.  *)
SentinelsMeanAbort ==
    \A i \in 1..Len(eventChannel) : eventChannel[i].sentinel => abortRequested

SessionInv ==
    /\ TypeOK
    /\ OneCoroutine /\ EnabledTracksSession
    /\ GatesPassed /\ StrapsHeldInSession
    /\ SentinelsMeanAbort /\ SentinelNeverCompletes

-----------------------------------------------------------------------------
(* Events are events, and the empty sequence is a sequence of anything.    *)
LEMMA EventTypes ==
    /\ Sentinel \in Events
    /\ \A s \in DeviceEvents : Event(s) \in Events
    /\ \A n \in Nat : ResultEvent(n) \in Events
    /\ ~NoEvent.sentinel /\ NoEvent.number \in Nat
  BY DEF NoEvent, Sentinel, Event, ResultEvent, Events, DeviceEvents

LEMMA EmptySequences ==
    <<>> \in Seq(Events) /\ <<>> \in Seq(Nat) /\ Len(<<>>) = 0
  OBVIOUS

LEMMA InitEstablishes == ASSUME Init PROVE SessionInv
<1> USE DEF Init
<1>1. TypeOK
  <2>1. pc \in InDiag \cup Others
    BY DEF Others
  <2>2. eventChannel \in Seq(Events) /\ Len(eventChannel) <= ChannelSize + 1
    BY EmptySequences, ParametersAssumption
  <2>3. /\ held \in [Boards -> {"free", "high"}]
        /\ cpu \in [Boards -> {"normal", "reset", "diag"}]
    OBVIOUS
  <2>4. settings \in DiagSettings
    BY EmptySequences DEF DiagSettings
  <2>5. nsm \in NsmOperations
    BY DEF NoOperation, NsmOperations
  <2> QED
    BY <2>1, <2>2, <2>3, <2>4, <2>5, EmptySequences, EventTypes DEF TypeOK
<1>2. OneCoroutine /\ EnabledTracksSession /\ GatesPassed
  BY DEF OneCoroutine, EnabledTracksSession, GatesPassed, Listening, Pushing
<1>3. StrapsHeldInSession
  BY DEF StrapsHeldInSession, InDiag, Waiting, Listening, Pushing, Boards
<1>4. SentinelsMeanAbort /\ SentinelNeverCompletes
  BY DEF SentinelsMeanAbort, SentinelNeverCompletes
<1> QED
  BY <1>1, <1>2, <1>3, <1>4 DEF SessionInv

-----------------------------------------------------------------------------
(* Type correctness.                                                       *)
LEMMA SendTypes ==
    ASSUME NEW e \in Events, TypeOK, try_send(e)
    PROVE  /\ eventChannel' \in Seq(Events)
           /\ Len(eventChannel') <= ChannelSize + 1
  BY ParametersAssumption DEF TypeOK, try_send, HasRoom

LEMMA HandlerTypes == ASSUME TypeOK, Handlers PROVE TypeOK'
<1> USE ParametersAssumption
<1>1. CASE Enable
  <2>1. eventChannel' \in Seq(Events) /\ Len(eventChannel') <= ChannelSize + 1
    BY <1>1, EmptySequences DEF Enable
  <2>2. pc' \in InDiag \cup Others
    BY <1>1 DEF Enable, Others
  <2> QED
    BY <1>1, <2>1, <2>2 DEF Enable, TypeOK
<1>2. CASE Disable
  <2>1. eventChannel' \in Seq(Events) /\ Len(eventChannel') <= ChannelSize + 1
    BY <1>2, EventTypes, SendTypes DEF Disable, TypeOK
  <2>2. abortRequested' \in BOOLEAN
    BY <1>2 DEF Disable, TypeOK
  <2> QED
    BY <1>2, <2>1, <2>2 DEF Disable, TypeOK, boardVars, resultNumbers
<1>3. ASSUME NEW code \in PostCodes, NotifyPostCode(code) PROVE TypeOK'
  <2>1. postCodes' \in SUBSET PostCodes
    BY <1>3 DEF NotifyPostCode, TypeOK
  <2>2. abortRequested' \in BOOLEAN /\ abortReason' \in BOOLEAN
    BY <1>3 DEF NotifyPostCode, TypeOK
  <2> QED
    BY <1>3, <2>1, <2>2 DEF NotifyPostCode, TypeOK, boardVars, resultNumbers
<1>4. ASSUME NEW e \in Events, NotifyEvent(e) PROVE TypeOK'
  <2>1. eventChannel' \in Seq(Events) /\ Len(eventChannel') <= ChannelSize + 1
    BY <1>4, SendTypes DEF NotifyEvent
  <2>2. nextResult' \in Nat /\ abortRequested' \in BOOLEAN
    BY <1>4 DEF NotifyEvent, TypeOK
  <2> QED
    BY <1>4, <2>1, <2>2 DEF NotifyEvent, TypeOK, boardVars
<1>5. nextResult \in Nat
  BY DEF TypeOK
<1> QED
  BY <1>1, <1>2, <1>3, <1>4, <1>5, EventTypes DEF Handlers

LEMMA LocalsTypes ==
    ASSUME TypeOK, KeepLocals
    PROVE  handling' \in Events \cup {NoEvent} /\ draft' \in Seq(Nat)
  BY EventTypes, EmptySequences DEF TypeOK, KeepLocals

LEMMA WriteTypes ==
    ASSUME TypeOK, NEW at, NEW new \in DiagSettings,
           NEW next \in InDiag \cup Others, NEW handler \in InDiag \cup Others,
           Write(at, new, next, handler)
    PROVE  TypeOK'
<1>1. handling' \in Events \cup {NoEvent} /\ draft' \in Seq(Nat)
  BY LocalsTypes DEF Write
<1>2. pc' \in InDiag \cup Others
  BY DEF Write
<1>3. settings' \in DiagSettings
  BY DEF Write, TypeOK
<1> QED
  BY <1>1, <1>2, <1>3
  DEF Write, TypeOK, Coroutine, handlerVars, boardVars, resultNumbers

LEMMA GotoTypes ==
    ASSUME TypeOK, NEW at, NEW Targets, Goto(at, Targets),
           Targets \subseteq InDiag \cup Others
    PROVE  TypeOK'
<1>1. handling' \in Events \cup {NoEvent} /\ draft' \in Seq(Nat)
  BY LocalsTypes DEF Goto
<1>2. pc' \in InDiag \cup Others
  BY DEF Goto
<1> QED
  BY <1>1, <1>2
  DEF Goto, TypeOK, Coroutine, handlerVars, boardVars, resultNumbers

(* What the writes of a session leave in Settings.                         *)
LEMMA SettingsTypes ==
    ASSUME TypeOK
    PROVE  /\ \A s \in {"InProgress", "TestRunning", "Completed", "Abort"} :
                 [settings EXCEPT !.status = s] \in DiagSettings
           /\ \A m \in BOOLEAN : [settings EXCEPT !.mode = m] \in DiagSettings
           /\ \A r \in Seq(Nat) : [settings EXCEPT !.result = r] \in DiagSettings
  BY DEF TypeOK, DiagSettings

LEMMA StartTypes == ASSUME TypeOK, StartSession PROVE TypeOK'
<1> USE DEF Others
<1>1. CASE getDiagStatus
  BY <1>1, GotoTypes DEF getDiagStatus
<1>2. CASE hasDiagConfig
  BY <1>2, GotoTypes DEF hasDiagConfig
<1>3. CASE Write("setInProgress", [settings EXCEPT !.status = "InProgress"],
                 "setModeOn", "failed")
  BY <1>3, SettingsTypes, WriteTypes
<1>4. CASE Write("setModeOn", [settings EXCEPT !.mode = TRUE],
                 "clearResult", "failed")
  BY <1>4, SettingsTypes, WriteTypes
<1>5. CASE Write("clearResult", [settings EXCEPT !.result = <<>>],
                 "gpios", "failed")
  BY <1>5, SettingsTypes, WriteTypes, EmptySequences
<1> QED
  BY <1>1, <1>2, <1>3, <1>4, <1>5 DEF StartSession

(* The GPIO operators keep the types of the straps and of the CPUs.        *)
LEMMA GpioTypes ==
    ASSUME NEW c \in [Boards -> {"normal", "reset", "diag"}],
           NEW h \in [Boards -> {"free", "high"}],
           NEW boards, NEW v \in {"free", "high"}
    PROVE  /\ AssertReset(c, boards) \in [Boards -> {"normal", "reset", "diag"}]
           /\ ReleaseReset(c, h, boards) \in [Boards -> {"normal", "reset", "diag"}]
           /\ HoldStraps(h, boards, v) \in [Boards -> {"free", "high"}]
  BY DEF AssertReset, ReleaseReset, HoldStraps

LEMMA PrepareTypes == ASSUME TypeOK, PrepareGpios PROVE TypeOK'
<1>1. active' \in SUBSET Boards
  BY DEF PrepareGpios, checkGpios
<1>2. /\ held' \in [Boards -> {"free", "high"}]
      /\ cpu' \in [Boards -> {"normal", "reset", "diag"}]
      /\ pc' \in InDiag \cup Others
  <2>1. CASE active' = {}
    BY <2>1 DEF PrepareGpios, TypeOK, Others
  <2>2. CASE active' # {}
    <3>1. initGpioSequence(active')
      BY <2>2 DEF PrepareGpios
    <3>2. NextGate \in InDiag
      BY DEF NextGate, InDiag, Waiting, Listening
    <3>3. "failed" \in Others
      BY DEF Others
    <3>4. PICK fa, fh, fr :
            LET c == AssertReset(cpu, active' \ fa)
                h == HoldStraps(held, active' \ fh, "high")
            IN  /\ held' = IF fa # {} THEN held ELSE h
                /\ cpu' = IF fa \cup fh # {} THEN c
                          ELSE ReleaseReset(c, h, active' \ fr)
                /\ pc' = IF fa \cup fh \cup fr # {} THEN "failed"
                         ELSE NextGate
      BY <3>1 DEF initGpioSequence
    <3> DEFINE c == AssertReset(cpu, active' \ fa)
               h == HoldStraps(held, active' \ fh, "high")
    <3>5. /\ c \in [Boards -> {"normal", "reset", "diag"}]
          /\ h \in [Boards -> {"free", "high"}]
      BY GpioTypes DEF TypeOK
    <3>6. ReleaseReset(c, h, active' \ fr)
            \in [Boards -> {"normal", "reset", "diag"}]
      BY <3>5, GpioTypes
    <3> QED
      BY <3>2, <3>3, <3>4, <3>5, <3>6 DEF TypeOK
  <2> QED
    BY <2>1, <2>2
<1> QED
  BY <1>1, <1>2
  DEF PrepareGpios, TypeOK, Coroutine, handlerVars, resultNumbers

LEMMA WaitTypes ==
    ASSUME TypeOK, NEW at, NEW code, waitForPostCode(at, code) PROVE TypeOK'
<1>1. {NextGate, "failed"} \subseteq InDiag \cup Others
  BY DEF NextGate, InDiag, Waiting, Listening, Others
<1> QED
  BY <1>1, GotoTypes DEF waitForPostCode

LEMMA ReceiveTypes == ASSUME TypeOK, Receive PROVE TypeOK'
<1> DEFINE e == Head(eventChannel)
<1>1. e \in Events
  BY DEF TypeOK, Receive
<1>2. /\ eventChannel' \in Seq(Events)
      /\ Len(eventChannel') <= ChannelSize + 1
  BY ParametersAssumption DEF TypeOK, Receive
<1>3. handling' \in Events \cup {NoEvent}
  BY <1>1, EventTypes DEF Receive
<1>4. pc' \in InDiag \cup Others
  BY <1>1
  DEF Receive, HandlerOf, Events, DeviceEvents, InDiag, Listening, Pushing,
      Others
<1> QED
  BY <1>2, <1>3, <1>4
  DEF Receive, TypeOK, Coroutine, handlerVars, boardVars, resultNumbers

(* The steps of a push: the operation and the promise keep their types.    *)
LEMMA NsmTypes ==
    ASSUME TypeOK
    PROVE  /\ NoOperation \in NsmOperations
           /\ [nsm EXCEPT !.op = "InProgress"] \in NsmOperations
           /\ [nsm EXCEPT !.match = TRUE] \in NsmOperations
           /\ \A s \in {"Success", "Failed"}, p \in {"empty", "Success", "Failed"} :
                 [nsm EXCEPT !.op = s, !.promise = p] \in NsmOperations
           /\ \A p \in {"empty", "Success", "Failed"} :
                 [nsm EXCEPT !.promise = p] \in NsmOperations
  BY DEF TypeOK, NsmOperations, NoOperation

LEMMA PushTypes == ASSUME TypeOK, PushConfig PROVE TypeOK'
<1>0. {"asyncSet", "asyncGet", "asyncWait", "handlerLog", "listen", "failed"}
        \subseteq InDiag \cup Others
  BY DEF InDiag, Listening, Pushing, Others
<1>1. CASE readSystemConfig
  BY <1>0, <1>1, GotoTypes DEF readSystemConfig, OrFailed
<1>2. CASE readTIDConfig
  BY <1>0, <1>2, GotoTypes DEF readTIDConfig, OrFailed
<1>3. CASE callAsyncSet
  <2>1. nsm' \in NsmOperations /\ pc' \in InDiag \cup Others
    BY <1>0, <1>3, NsmTypes DEF callAsyncSet
  <2> QED
    BY <1>3, <2>1
    DEF callAsyncSet, TypeOK, Coroutine, handlerVars, boardVars, resultNumbers
<1>4. CASE GetAsyncStatus
  <2>1. Resolve(nsm.promise, nsm.op) \in {"empty", "Success", "Failed"}
    BY DEF Resolve, TypeOK, NsmOperations
  <2>2. [nsm EXCEPT !.promise = Resolve(@, nsm.op)] \in NsmOperations
    BY <2>1, NsmTypes
  <2>3. nsm' \in NsmOperations
    BY <1>4, <2>2 DEF GetAsyncStatus, TypeOK
  <2>4. pc' \in InDiag \cup Others
    BY <1>0, <1>4 DEF GetAsyncStatus
  <2> QED
    BY <1>4, <2>3, <2>4
    DEF GetAsyncStatus, TypeOK, Coroutine, handlerVars, boardVars,
        resultNumbers
<1>5. CASE waitForAsyncCompletion
  <2>1. nsm' \in NsmOperations /\ pc' \in InDiag \cup Others
    BY <1>0, <1>5, NsmTypes DEF waitForAsyncCompletion
  <2>2. handling' \in Events \cup {NoEvent} /\ draft' \in Seq(Nat)
    BY <1>5, LocalsTypes DEF waitForAsyncCompletion
  <2> QED
    BY <1>5, <2>1, <2>2
    DEF waitForAsyncCompletion, TypeOK, Coroutine, handlerVars, boardVars,
        resultNumbers
<1>6. CASE Goto("handlerLog", {"failed"})
  BY <1>0, <1>6, GotoTypes
<1> QED
  BY <1>1, <1>2, <1>3, <1>4, <1>5, <1>6 DEF PushConfig

LEMMA EventHandlingTypes == ASSUME TypeOK, HandleEvent PROVE TypeOK'
<1>0. {"listen", "setModeOff", "recover", "failed", "writeResult"}
        \subseteq InDiag \cup Others
  BY DEF InDiag, Listening, Others
<1>1. CASE Receive
  BY <1>1, ReceiveTypes
<1>2. CASE IdleTimeout
  BY <1>0, <1>2, GotoTypes DEF IdleTimeout
<1>3. CASE PushConfig
  BY <1>3, PushTypes
<1>4. CASE readResult
  <2>1. handling.number \in Nat /\ settings.result \in Seq(Nat)
    BY EventTypes DEF TypeOK, Events, DiagSettings
  <2>2. draft' \in Seq(Nat)
    BY <1>4, <2>1 DEF readResult
  <2> QED
    BY <1>0, <1>4, <2>2
    DEF readResult, TypeOK, Coroutine, handlerVars, boardVars, resultNumbers
<1>5. CASE Write("writeResult", [settings EXCEPT !.result = draft],
                 "listen", "failed")
  BY <1>0, <1>5, SettingsTypes, WriteTypes DEF TypeOK
<1>6. CASE Write("setRunning", [settings EXCEPT !.status = "TestRunning"],
                 "listen", "failed")
  BY <1>0, <1>6, SettingsTypes, WriteTypes
<1>7. CASE Write("setCompleted", [settings EXCEPT !.status = "Completed"],
                 "setModeOff", "failed")
  BY <1>0, <1>7, SettingsTypes, WriteTypes
<1>8. CASE Write("setModeOff", [settings EXCEPT !.mode = FALSE],
                 "recover", "failed")
  BY <1>0, <1>8, SettingsTypes, WriteTypes
<1> QED
  BY <1>1, <1>2, <1>3, <1>4, <1>5, <1>6, <1>7, <1>8 DEF HandleEvent

LEMMA ClearTypes ==
    ASSUME TypeOK, clearBootChainGpios
    PROVE  /\ held' \in [Boards -> {"free", "high"}]
           /\ cpu' \in [Boards -> {"normal", "reset", "diag"}]
<1>1. PICK fa, fr :
        /\ held' = HoldStraps(held, active, "free")
        /\ cpu' = ReleaseReset(AssertReset(cpu, active \ fa), held', active \ fr)
  BY DEF clearBootChainGpios
<1>2. held' \in [Boards -> {"free", "high"}]
  BY <1>1, GpioTypes DEF TypeOK
<1>3. AssertReset(cpu, active \ fa) \in [Boards -> {"normal", "reset", "diag"}]
  BY GpioTypes DEF TypeOK
<1> QED
  BY <1>1, <1>2, <1>3, GpioTypes

LEMMA EndTypes ==
    ASSUME TypeOK, recoverCpus \/ AbortSession \/ Finish PROVE TypeOK'
<1>0. {"abortResult", "abortStatus", "abortMode", "log", "finish", "idle"}
        \subseteq InDiag \cup Others
  BY DEF Others
<1>1. CASE recoverCpus
  BY <1>0, <1>1, ClearTypes
  DEF recoverCpus, TypeOK, Coroutine, handlerVars, resultNumbers
<1>2. CASE SessionFailed
  BY <1>0, <1>2, ClearTypes
  DEF SessionFailed, TypeOK, Coroutine, handlerVars, resultNumbers
<1>3. CASE Write("abortResult", [settings EXCEPT !.result = <<>>],
                 "abortStatus", "log")
  BY <1>0, <1>3, SettingsTypes, WriteTypes, EmptySequences
<1>4. CASE Write("abortStatus", [settings EXCEPT !.status = "Abort"],
                 "abortMode", "log")
  BY <1>0, <1>4, SettingsTypes, WriteTypes
<1>5. CASE Write("abortMode", [settings EXCEPT !.mode = FALSE], "log", "log")
  BY <1>0, <1>5, SettingsTypes, WriteTypes
<1>6. CASE Goto("log", {"finish"})
  BY <1>0, <1>6, GotoTypes
<1>7. CASE Finish
  <2>1. handling' \in Events \cup {NoEvent} /\ draft' \in Seq(Nat)
    BY <1>7, LocalsTypes DEF Finish
  <2>2. eventChannel' \in Seq(Events) /\ Len(eventChannel') <= ChannelSize + 1
    BY <1>7, EmptySequences, ParametersAssumption DEF Finish
  <2> QED
    BY <1>0, <1>7, <2>1, <2>2 DEF Finish, TypeOK, boardVars, resultNumbers
<1> QED
  BY <1>1, <1>2, <1>3, <1>4, <1>5, <1>6, <1>7 DEF AbortSession

LEMMA NsmdTypes == ASSUME TypeOK, Nsmd PROVE TypeOK'
<1>1. nsm' \in NsmOperations
  <2>1. CASE NsmServes
    BY <2>1, NsmTypes DEF NsmServes
  <2>2. CASE NsmFinishes
    <3>1. PICK s \in {"Success", "Failed"} :
            nsm' = [nsm EXCEPT !.op = s,
                       !.promise = IF nsm.match THEN Resolve(@, s) ELSE @]
      BY <2>2 DEF NsmFinishes
    <3>2. (IF nsm.match THEN Resolve(nsm.promise, s) ELSE nsm.promise)
            \in {"empty", "Success", "Failed"}
      BY DEF Resolve, TypeOK, NsmOperations
    <3> QED
      BY <3>1, <3>2, NsmTypes
  <2> QED
    BY <2>1, <2>2 DEF Nsmd
<1> QED
  BY <1>1 DEF Nsmd, NsmServes, NsmFinishes, TypeOK, handlerVars, boardVars,
              resultNumbers

LEMMA RestartTypes == ASSUME TypeOK, Restart PROVE TypeOK'
<1>1. eventChannel' \in Seq(Events) /\ Len(eventChannel') <= ChannelSize + 1
  BY EmptySequences, ParametersAssumption DEF Restart
<1>2. handling' \in Events \cup {NoEvent} /\ draft' \in Seq(Nat) /\ nsm' \in NsmOperations
  BY EventTypes, EmptySequences, NsmTypes DEF Restart
<1>3. pc' \in InDiag \cup Others
  BY DEF Restart, Others
<1> QED
  BY <1>1, <1>2, <1>3 DEF Restart, TypeOK, resultNumbers

LEMMA TypeStep == ASSUME TypeOK, [Next]_vars PROVE TypeOK'
<1>1. CASE Handlers
  BY <1>1, HandlerTypes
<1>2. CASE runDiagnosticSession
  BY <1>2, StartTypes, PrepareTypes, WaitTypes, EventHandlingTypes, EndTypes
  DEF runDiagnosticSession
<1>3. CASE Nsmd \/ Restart
  BY <1>3, NsmdTypes, RestartTypes
<1>4. CASE UNCHANGED vars
  BY <1>4 DEF vars, TypeOK, handlerVars, boardVars, resultNumbers
<1> QED
  BY <1>1, <1>2, <1>3, <1>4 DEF Next

-----------------------------------------------------------------------------
(* Steps of the coroutine that touch neither the flags nor the boards, and *)
(* how they may move it.                                                   *)
QuietStep ==
    \/ StartSession
    \/ waitForPostCode("waitPscFmc", "PscFmc") \/ waitForPostCode("waitMb2", "Mb2")
    \/ HandleEvent
    \/ Write("abortResult", [settings EXCEPT !.result = <<>>],
             "abortStatus", "log")
    \/ Write("abortStatus", [settings EXCEPT !.status = "Abort"],
             "abortMode", "log")
    \/ Write("abortMode", [settings EXCEPT !.mode = FALSE], "log", "log")
    \/ Goto("log", {"finish"})

QuietMove ==
    /\ UNCHANGED <<handlerVars, boardVars>>
    /\ pc \notin {"idle", "failed", "gpios", "recover", "finish"} /\ pc' # "idle"
    /\ pc' \in Listening => pc \in Listening \/ NextGate = "listen"
    /\ pc' \in InDiag => pc \in InDiag
    /\ pc \in InDiag => pc' \in InDiag \cup {"failed"}

LEMMA QuietMoves == ASSUME TypeOK, QuietStep PROVE QuietMove
<1> USE DEF QuietMove, InDiag, Waiting, Listening, Pushing, Coroutine
<1>1. CASE StartSession
  BY <1>1 DEF StartSession, getDiagStatus, hasDiagConfig, Goto, Write
<1>2. CASE \/ waitForPostCode("waitPscFmc", "PscFmc")
           \/ waitForPostCode("waitMb2", "Mb2")
  BY <1>2 DEF waitForPostCode, Goto, NextGate
<1>3. CASE HandleEvent
  <2>1. CASE Receive
    <3>1. Head(eventChannel) \in Events
      BY <2>1 DEF TypeOK, Receive
    <3> QED
      BY <2>1, <3>1 DEF Receive, HandlerOf, Events, DeviceEvents
  <2>2. CASE IdleTimeout
    BY <2>2 DEF IdleTimeout, Goto
  <2>3. CASE PushConfig
    BY <2>3 DEF PushConfig, readSystemConfig, readTIDConfig, callAsyncSet,
                GetAsyncStatus, waitForAsyncCompletion, Goto, OrFailed
  <2>4. CASE readResult
    BY <2>4 DEF readResult
  <2>5. CASE \/ Write("writeResult", [settings EXCEPT !.result = draft],
                      "listen", "failed")
             \/ Write("setRunning", [settings EXCEPT !.status = "TestRunning"],
                      "listen", "failed")
    BY <2>5 DEF Write
  <2>6. CASE \/ Write("setCompleted", [settings EXCEPT !.status = "Completed"],
                      "setModeOff", "failed")
             \/ Write("setModeOff", [settings EXCEPT !.mode = FALSE],
                      "recover", "failed")
    BY <2>6 DEF Write
  <2> QED
    BY <1>3, <2>1, <2>2, <2>3, <2>4, <2>5, <2>6 DEF HandleEvent
<1>4. CASE \/ Write("abortResult", [settings EXCEPT !.result = <<>>],
                    "abortStatus", "log")
           \/ Write("abortStatus", [settings EXCEPT !.status = "Abort"],
                    "abortMode", "log")
           \/ Write("abortMode", [settings EXCEPT !.mode = FALSE], "log", "log")
           \/ Goto("log", {"finish"})
  BY <1>4 DEF Write, Goto
<1> QED
  BY <1>1, <1>2, <1>3, <1>4 DEF QuietStep

(* The six kinds of steps the invariants are checked against.              *)
LEMMA Steps ==
    ASSUME [Next]_vars
    PROVE  \/ Handlers \/ QuietStep \/ PrepareGpios
           \/ recoverCpus \/ SessionFailed \/ Finish
           \/ Nsmd \/ Restart \/ UNCHANGED vars
  BY DEF Next, runDiagnosticSession, QuietStep, AbortSession

-----------------------------------------------------------------------------
(* Enabled and the coroutine.                                              *)
LEMMA EnabledStep ==
    ASSUME TypeOK, OneCoroutine, EnabledTracksSession, [Next]_vars
    PROVE  OneCoroutine' /\ EnabledTracksSession'
<1> USE DEF OneCoroutine, EnabledTracksSession
<1>1. CASE Handlers
  BY <1>1 DEF Handlers, Enable, Disable, NotifyPostCode, NotifyEvent, TypeOK
<1>2. CASE QuietStep
  BY <1>2, QuietMoves DEF QuietMove, handlerVars
<1>3. CASE PrepareGpios
  <2>1. pc = "gpios" /\ pc' # "idle" /\ UNCHANGED handlerVars
    BY <1>3 DEF PrepareGpios, initGpioSequence, NextGate, Coroutine
  <2> QED
    BY <2>1 DEF handlerVars
<1>4. CASE recoverCpus \/ SessionFailed
  BY <1>4 DEF recoverCpus, SessionFailed, Coroutine, handlerVars
<1>5. CASE Finish \/ Restart
  BY <1>5 DEF Finish, Restart
<1>6. CASE Nsmd \/ UNCHANGED vars
  BY <1>6 DEF Nsmd, NsmServes, NsmFinishes, vars, handlerVars
<1> QED
  BY <1>1, <1>2, <1>3, <1>4, <1>5, <1>6, Steps

(* The post-code gates.                                                    *)
LEMMA GatesStep ==
    ASSUME TypeOK, OneCoroutine, GatesPassed, [Next]_vars PROVE GatesPassed'
<1> USE DEF GatesPassed
<1>0. NextGate = "listen" => postCodes = PostCodes
  BY DEF NextGate, TypeOK, PostCodes
<1>1. CASE Handlers
  <2>1. CASE Enable
    BY <2>1 DEF Enable, Listening, Pushing
  <2>2. ASSUME NEW code \in PostCodes, NotifyPostCode(code) PROVE GatesPassed'
    BY <2>2 DEF NotifyPostCode, TypeOK, PostCodes
  <2>3. CASE UNCHANGED <<pc, postCodes>>
    BY <2>3
  <2> QED
    BY <1>1, <2>1, <2>2, <2>3 DEF Handlers, Disable, NotifyEvent
<1>2. CASE QuietStep
  BY <1>0, <1>2, QuietMoves DEF QuietMove, handlerVars
<1>3. CASE PrepareGpios
  <2>1. pc' \in {"failed", NextGate} /\ UNCHANGED handlerVars
    BY <1>3 DEF PrepareGpios, initGpioSequence, Coroutine
  <2>2. NextGate \in {"waitPscFmc", "waitMb2", "listen"}
    BY DEF NextGate
  <2> QED
    BY <1>0, <2>1, <2>2 DEF handlerVars, Listening, Pushing
<1>4. CASE recoverCpus \/ SessionFailed
  BY <1>4 DEF recoverCpus, SessionFailed, Coroutine, handlerVars, Listening,
              Pushing
<1>5. CASE Finish \/ Restart
  BY <1>5 DEF Finish, Restart, Listening, Pushing
<1>6. CASE Nsmd \/ UNCHANGED vars
  BY <1>6 DEF Nsmd, NsmServes, NsmFinishes, vars, handlerVars
<1> QED
  BY <1>1, <1>2, <1>3, <1>4, <1>5, <1>6, Steps

(* The straps.  The GPIO sequence succeeds on every line or fails; the     *)
(* cleanup frees every strap of the session.                               *)
LEMMA StrapsStep ==
    ASSUME TypeOK, OneCoroutine, StrapsHeldInSession, [Next]_vars
    PROVE  StrapsHeldInSession'
<1> USE DEF StrapsHeldInSession
<1>1. CASE Handlers
  <2>1. CASE Enable
    <3>1. pc = "idle" /\ pc' = "getStatus" /\ UNCHANGED held
      BY <2>1 DEF Enable, OneCoroutine
    <3> QED
      BY <3>1 DEF InDiag, Waiting, Listening, Pushing
  <2>2. CASE UNCHANGED <<pc, boardVars>>
    BY <2>2 DEF boardVars
  <2> QED
    BY <1>1, <2>1, <2>2 DEF Handlers, Disable, NotifyPostCode, NotifyEvent
<1>2. CASE QuietStep
  BY <1>2, QuietMoves DEF QuietMove, boardVars
<1>3. CASE PrepareGpios
  <2>0. pc = "gpios" /\ \A b \in Boards : held[b] # "high"
    BY <1>3 DEF PrepareGpios, InDiag, Waiting, Listening, Pushing
  <2>1. CASE active' = {}
    BY <1>3, <2>0, <2>1 DEF PrepareGpios, InDiag, Waiting, Listening, Pushing
  <2>2. CASE active' # {}
    <3>1. initGpioSequence(active') /\ active' \subseteq Boards
      BY <1>3, <2>2 DEF PrepareGpios, checkGpios
    <3>2. PICK fa, fh, fr :
            LET c == AssertReset(cpu, active' \ fa)
                h == HoldStraps(held, active' \ fh, "high")
            IN  /\ held' = IF fa # {} THEN held ELSE h
                /\ cpu' = IF fa \cup fh # {} THEN c
                          ELSE ReleaseReset(c, h, active' \ fr)
                /\ pc' = IF fa \cup fh \cup fr # {} THEN "failed"
                         ELSE NextGate
      BY <3>1, ZenonT(40) DEF initGpioSequence
    <3>3. NextGate \in InDiag /\ "failed" \notin InDiag
      BY DEF NextGate, InDiag, Waiting, Listening, Pushing
    <3>4. \A b \in Boards : held'[b] = "high" => b \in active'
      BY <2>0, <3>2 DEF HoldStraps, TypeOK
    <3>5. CASE fa \cup fh \cup fr # {}
      BY <3>2, <3>3, <3>4, <3>5
    <3>6. CASE fa \cup fh \cup fr = {}
      <4>1. fa = {} /\ fh = {} /\ fr = {}
        BY <3>6
      <4>2. held' = HoldStraps(held, active', "high")
        BY <3>2, <4>1
      <4>3. cpu' = ReleaseReset(AssertReset(cpu, active'), held', active')
        BY <3>2, <4>1, <4>2
      <4>4. \A b \in active' : held'[b] = "high" /\ cpu'[b] = "diag"
        BY <3>1, <4>2, <4>3 DEF HoldStraps, ReleaseReset
      <4> QED
        BY <2>2, <3>2, <3>3, <3>4, <3>6, <4>4
    <3> QED
      BY <3>5, <3>6
  <2> QED
    BY <2>1, <2>2
<1>4. CASE recoverCpus \/ SessionFailed
  <2>1. /\ held' = HoldStraps(held, active, "free") /\ active' = active
        /\ pc' \notin InDiag
    BY <1>4 DEF recoverCpus, SessionFailed, clearBootChainGpios, InDiag,
                Waiting, Listening, Pushing
  <2>2. \A b \in Boards : held'[b] # "high"
    BY <2>1 DEF HoldStraps, TypeOK
  <2> QED
    BY <2>1, <2>2
<1>5. CASE Finish
  BY <1>5 DEF Finish, boardVars, InDiag, Waiting, Listening, Pushing
<1>6. CASE Restart
  BY <1>6 DEF Restart, InDiag, Waiting, Listening, Pushing
<1>7. CASE Nsmd \/ UNCHANGED vars
  BY <1>7 DEF Nsmd, NsmServes, NsmFinishes, vars, boardVars
<1> QED
  BY <1>1, <1>2, <1>3, <1>4, <1>5, <1>6, <1>7, Steps

-----------------------------------------------------------------------------
(* The sentinel.                                                           *)
LEMMA SentinelQueueStep ==
    ASSUME TypeOK, SentinelsMeanAbort, [Next]_vars
    PROVE  SentinelsMeanAbort'
<1> USE DEF SentinelsMeanAbort
<1>1. ASSUME NEW e \in Events, try_send(e),
             abortRequested => abortRequested', e.sentinel => abortRequested'
      PROVE  SentinelsMeanAbort'
  <2>1. CASE eventChannel' = eventChannel
    BY <1>1, <2>1
  <2>2. CASE eventChannel' = Append(eventChannel, e)
    BY <1>1, <2>2 DEF TypeOK
  <2> QED
    BY <1>1, <2>1, <2>2 DEF try_send
<1>2. CASE Handlers
  <2>1. CASE Enable
    BY <2>1 DEF Enable
  <2>2. CASE Disable
    <3>1. CASE sequenceRunning
      BY <1>1, <2>2, <3>1, EventTypes DEF Disable
    <3>2. CASE ~sequenceRunning
      BY <2>2, <3>2 DEF Disable
    <3> QED
      BY <3>1, <3>2
  <2>3. ASSUME NEW code \in PostCodes, NotifyPostCode(code)
        PROVE  SentinelsMeanAbort'
    BY <2>3 DEF NotifyPostCode
  <2>4. ASSUME NEW e \in Events, ~e.sentinel, NotifyEvent(e)
        PROVE  SentinelsMeanAbort'
    BY <1>1, <2>4 DEF NotifyEvent
  <2>5. /\ \A s \in DeviceEvents : ~Event(s).sentinel
        /\ \A n \in Nat : ~ResultEvent(n).sentinel
        /\ nextResult \in Nat
    BY DEF Event, ResultEvent, TypeOK
  <2> QED
    BY <1>2, <2>1, <2>2, <2>3, <2>4, <2>5, EventTypes DEF Handlers
<1>3. CASE Receive
  BY <1>3 DEF Receive, Coroutine, handlerVars, TypeOK
<1>4. CASE UNCHANGED <<eventChannel, handlerVars>>
  BY <1>4 DEF handlerVars
<1>5. CASE Finish \/ Restart
  BY <1>5 DEF Finish, Restart
<1>6. CASE QuietStep /\ ~Receive
  BY <1>4, <1>6
  DEF QuietStep, StartSession, getDiagStatus, hasDiagConfig, waitForPostCode,
      HandleEvent, IdleTimeout, PushConfig, readSystemConfig, readTIDConfig,
      callAsyncSet, GetAsyncStatus, waitForAsyncCompletion, readResult, Goto,
      Write, Coroutine
<1>7. CASE PrepareGpios \/ recoverCpus \/ SessionFailed
  BY <1>4, <1>7 DEF PrepareGpios, recoverCpus, SessionFailed, Coroutine
<1>8. CASE Nsmd \/ UNCHANGED vars
  BY <1>4, <1>8 DEF Nsmd, NsmServes, NsmFinishes, vars
<1> QED
  BY <1>2, <1>3, <1>5, <1>6, <1>7, <1>8, Steps

LEMMA SentinelStep ==
    ASSUME TypeOK, SentinelsMeanAbort, SentinelNeverCompletes, [Next]_vars
    PROVE  SentinelNeverCompletes'
<1> USE DEF SentinelNeverCompletes
<1>1. CASE Receive
  <2>1. Head(eventChannel) \in Events /\ eventChannel # <<>>
    BY <1>1 DEF TypeOK, Receive
  <2>2. Head(eventChannel).sentinel => abortRequested
    BY <2>1 DEF SentinelsMeanAbort, TypeOK
  <2>3. CASE pc' = "setCompleted"
    <3>1. ~abortRequested /\ HandlerOf(Head(eventChannel).state) = "setCompleted"
      BY <1>1, <2>3 DEF Receive
    <3>2. Head(eventChannel).state = "SessionEnded"
      BY <2>1, <3>1 DEF HandlerOf, Events, DeviceEvents
    <3>3. handling' = Head(eventChannel)
      BY <1>1, <2>3 DEF Receive
    <3> QED
      BY <2>2, <3>1, <3>2, <3>3
  <2>4. CASE pc' # "setCompleted"
    <3>1. pc' \notin {"setModeOff", "recover"}
      BY <1>1, <2>1 DEF Receive, HandlerOf, Events, DeviceEvents
    <3> QED
      BY <2>4, <3>1
  <2> QED
    BY <2>3, <2>4
<1>2. CASE \/ Write("setCompleted", [settings EXCEPT !.status = "Completed"],
                    "setModeOff", "failed")
           \/ Write("setModeOff", [settings EXCEPT !.mode = FALSE],
                    "recover", "failed")
  BY <1>2 DEF Write, KeepLocals
<1>3. CASE UNCHANGED <<pc, handling>>
  BY <1>3
<1>4. CASE pc' \notin {"setCompleted", "setModeOff", "recover"}
  BY <1>4
<1>5. CASE Handlers
  BY <1>3, <1>4, <1>5 DEF Handlers, Enable, Disable, NotifyPostCode, NotifyEvent
<1>6. CASE StartSession
  BY <1>4, <1>6 DEF StartSession, getDiagStatus, hasDiagConfig, Goto, Write
<1>7. CASE \/ waitForPostCode("waitPscFmc", "PscFmc")
           \/ waitForPostCode("waitMb2", "Mb2")
  BY <1>4, <1>7 DEF waitForPostCode, Goto, NextGate
<1>8. CASE HandleEvent
  BY <1>1, <1>2, <1>4, <1>8
  DEF HandleEvent, IdleTimeout, PushConfig, readSystemConfig, readTIDConfig,
      callAsyncSet, GetAsyncStatus, waitForAsyncCompletion, readResult, Goto,
      Write, OrFailed
<1>9. CASE PrepareGpios
  BY <1>4, <1>9 DEF PrepareGpios, initGpioSequence, NextGate
<1>10. CASE recoverCpus \/ AbortSession \/ Finish \/ Restart
  BY <1>4, <1>10
  DEF recoverCpus, AbortSession, SessionFailed, Finish, Restart, Goto, Write
<1>11. CASE Nsmd \/ UNCHANGED vars
  BY <1>3, <1>11 DEF Nsmd, NsmServes, NsmFinishes, vars
<1> QED
  BY <1>5, <1>6, <1>7, <1>8, <1>9, <1>10, <1>11
  DEF Next, runDiagnosticSession

-----------------------------------------------------------------------------
(* The inductive invariant: types, one coroutine per session, the gates,   *)
(* the straps and the sentinel.                                            *)
THEOREM SessionInvariant == Spec => []SessionInv
<1>1. Init => SessionInv
  BY InitEstablishes
<1>2. SessionInv /\ [Next]_vars => SessionInv'
  BY TypeStep, EnabledStep, GatesStep, StrapsStep, SentinelQueueStep,
     SentinelStep
  DEF SessionInv
<1> QED
  BY <1>1, <1>2, PTL DEF Spec

(* setEnabled and runDiagnosticSession keep Enabled and the session in     *)
(* step.                                                                   *)
THEOREM EnabledIsCurrent == Spec => []EnabledTracksSession
<1>1. SessionInv => EnabledTracksSession
  BY DEF SessionInv
<1> QED
  BY <1>1, SessionInvariant, PTL

(* listenForEvents handles nothing before waitForPostCodes let it.         *)
THEOREM GatesHold == Spec => []GatesPassed
<1>1. SessionInv => GatesPassed
  BY DEF SessionInv
<1> QED
  BY <1>1, SessionInvariant, PTL

(* initGpioSequence and clearBootChainGpios bracket the session, whichever *)
(* lines fail.                                                             *)
THEOREM StrapsAreHeld == Spec => []StrapsHeldInSession
<1>1. SessionInv => StrapsHeldInSession
  BY DEF SessionInv
<1> QED
  BY <1>1, SessionInvariant, PTL

(* Disable's sentinel never completes a session.                           *)
THEOREM SentinelIsNoResult == Spec => []SentinelNeverCompletes
<1>1. SessionInv => SentinelNeverCompletes
  BY DEF SessionInv
<1> QED
  BY <1>1, SessionInvariant, PTL

-----------------------------------------------------------------------------
(* The end of a session.  What its last writes leave behind, if they can   *)
(* be made, and the reset that brings the boards back, if it is released.  *)
ReliableCleanup ==
    /\ FailingCalls \cap {"abortResult", "abortStatus", "abortMode"} = {}
    /\ "clearRelease" \notin GpioFaults

EndInv ==
    /\ pc \in {"setModeOff", "recover"} => settings.status = "Completed"
    /\ pc = "recover" => ~settings.mode
    /\ pc \in {"abortMode", "log"} => settings.status = "Abort"
    /\ pc = "log" => ~settings.mode
    /\ pc \in {"abortResult", "abortStatus", "abortMode", "log"} =>
           \A b \in active : cpu[b] = "normal"
    /\ FinishedSessionIsClean

LEMMA CleanedBoards ==
    ASSUME TypeOK, ReliableCleanup, clearBootChainGpios
    PROVE  \A b \in active : cpu'[b] = "normal"
<1>1. PICK fa : /\ held' = HoldStraps(held, active, "free")
                /\ cpu' = ReleaseReset(AssertReset(cpu, active \ fa), held', active \ {})
  BY DEF clearBootChainGpios, Faulty, ReliableCleanup
<1>2. \A b \in active : held'[b] = "free"
  BY <1>1 DEF HoldStraps, TypeOK
<1> QED
  BY <1>1, <1>2 DEF ReleaseReset, TypeOK

LEMMA EndStep ==
    ASSUME TypeOK, OneCoroutine, ReliableCleanup, EndInv, [Next]_vars
    PROVE  EndInv'
<1> DEFINE End == {"setModeOff", "recover", "abortResult", "abortStatus",
                   "abortMode", "log", "finish"}
<1> USE DEF EndInv, FinishedSessionIsClean
<1>1. CASE pc' \notin End
  BY <1>1
<1>2. CASE UNCHANGED <<pc, boardVars, settings>>
  BY <1>2 DEF boardVars
<1>3. CASE recoverCpus
  <2>1. \A b \in active : cpu'[b] = "normal"
    BY <1>3, CleanedBoards DEF recoverCpus
  <2> QED
    BY <1>3, <2>1 DEF recoverCpus
<1>4. CASE SessionFailed
  <2>1. \A b \in active : cpu'[b] = "normal"
    BY <1>4, CleanedBoards DEF SessionFailed
  <2> QED
    BY <1>4, <2>1 DEF SessionFailed
<1>5. CASE \/ Write("setCompleted", [settings EXCEPT !.status = "Completed"],
                    "setModeOff", "failed")
           \/ Write("setModeOff", [settings EXCEPT !.mode = FALSE],
                    "recover", "failed")
  BY <1>5 DEF Write, Answers, TypeOK, DiagSettings
<1>6. CASE \/ Write("abortResult", [settings EXCEPT !.result = <<>>],
                    "abortStatus", "log")
           \/ Write("abortStatus", [settings EXCEPT !.status = "Abort"],
                    "abortMode", "log")
           \/ Write("abortMode", [settings EXCEPT !.mode = FALSE], "log", "log")
  BY <1>6 DEF Write, Answers, ReliableCleanup, TypeOK, DiagSettings, boardVars
<1>7. CASE Goto("log", {"finish"})
  BY <1>7 DEF Goto, boardVars
<1>8. CASE Handlers
  BY <1>1, <1>2, <1>8
  DEF Handlers, Enable, Disable, NotifyPostCode, NotifyEvent
<1>9. CASE StartSession \/ Finish \/ Restart
  BY <1>1, <1>9
  DEF StartSession, getDiagStatus, hasDiagConfig, Finish, Restart, Goto, Write
<1>10. CASE \/ waitForPostCode("waitPscFmc", "PscFmc")
            \/ waitForPostCode("waitMb2", "Mb2")
            \/ PrepareGpios
  BY <1>1, <1>10
  DEF waitForPostCode, PrepareGpios, initGpioSequence, NextGate, Goto
<1>11. CASE Receive
  <2>1. Head(eventChannel) \in Events
    BY <1>11 DEF TypeOK, Receive
  <2> QED
    BY <1>1, <1>11, <2>1 DEF Receive, HandlerOf, Events, DeviceEvents
<1>12. CASE HandleEvent
  BY <1>1, <1>5, <1>11, <1>12
  DEF HandleEvent, IdleTimeout, PushConfig, readSystemConfig, readTIDConfig,
      callAsyncSet, GetAsyncStatus, waitForAsyncCompletion, readResult, Goto,
      Write, OrFailed
<1>13. CASE Nsmd \/ UNCHANGED vars
  BY <1>2, <1>13 DEF Nsmd, NsmServes, NsmFinishes, vars
<1> QED
  BY <1>3, <1>4, <1>6, <1>7, <1>8, <1>9, <1>10, <1>12, <1>13
  DEF Next, runDiagnosticSession, AbortSession

(* However a session ends, it leaves Settings and its boards clean,        *)
(* provided its last writes can be made and the last reset is released:    *)
(* failures anywhere else, aborts and restarts do not matter.              *)
THEOREM SessionsEndClean ==
    ASSUME ReliableCleanup PROVE Spec => []FinishedSessionIsClean
<1>1. Init => EndInv
  BY DEF Init, EndInv, FinishedSessionIsClean
<1>2. SessionInv /\ EndInv /\ [Next]_vars => EndInv'
  BY EndStep DEF SessionInv
<1>3. EndInv => FinishedSessionIsClean
  BY DEF EndInv
<1> QED
  BY <1>1, <1>2, <1>3, SessionInvariant, PTL DEF Spec

-----------------------------------------------------------------------------
(* The results.  A result that was accepted is in DiagResult, in the       *)
(* handler's hands, or in the channel; Due is the number of the first one  *)
(* that is still in the channel (nextResult if there is none).             *)
IsResult(e) == e.state = "ResultReceived"
Appending   == {"readResult", "writeResult"}
Starting    == {"getStatus", "getConfig", "setInProgress", "setModeOn",
                "clearResult", "gpios"}
InSession   == Waiting \cup Listening

Due == IF pc \in Starting THEN firstResult
       ELSE firstResult + Len(settings.result)
            + (IF pc \in Appending THEN 1 ELSE 0)

(* The channel holds the results due..(next - 1), each once and in order.  *)
Holds(channel, due, next) ==
    /\ due <= next
    /\ \A i \in 1..Len(channel) :
          IsResult(channel[i]) => channel[i].number \in due..(next - 1)
    /\ \A n \in due..(next - 1) :
          \E i \in 1..Len(channel) :
              IsResult(channel[i]) /\ channel[i].number = n
    /\ \A i, j \in 1..Len(channel) :
          IsResult(channel[i]) /\ IsResult(channel[j]) /\ i < j =>
              channel[i].number < channel[j].number

QueueInv  == pc \in Starting \cup InSession => Holds(eventChannel, Due, nextResult)
StoredInv ==
    /\ pc \in InSession => \A i \in 1..Len(settings.result) :
                               settings.result[i] = firstResult + i - 1
    /\ pc \in Appending => handling.number = firstResult + Len(settings.result)
    /\ pc = "gpios" => settings.result = <<>>
    /\ pc = "writeResult" => draft = Append(settings.result, handling.number)

ResultInv == QueueInv /\ StoredInv

(* The channel under try_send and Receive.                                 *)
LEMMA HoldsEmpty == ASSUME NEW n \in Nat PROVE Holds(<<>>, n, n)
  BY DEF Holds

LEMMA HoldsAppendOther ==
    ASSUME NEW channel \in Seq(Events), NEW due \in Nat, NEW next \in Nat,
           NEW e \in Events, ~IsResult(e), Holds(channel, due, next)
    PROVE  Holds(Append(channel, e), due, next)
<1> DEFINE new == Append(channel, e)
<1>1. /\ Len(new) = Len(channel) + 1 /\ new[Len(channel) + 1] = e
      /\ \A i \in 1..Len(channel) : new[i] = channel[i]
      /\ Len(channel) \in Nat
  OBVIOUS
<1> HIDE DEF new
<1>2. \A i \in 1..Len(new) : IsResult(new[i]) => i \in 1..Len(channel)
  BY <1>1
<1>3. \A i \in 1..Len(channel) : i \in 1..Len(new)
  BY <1>1
<1> QED
  BY <1>1, <1>2, <1>3 DEF Holds, new

LEMMA HoldsAppendResult ==
    ASSUME NEW channel \in Seq(Events), NEW due \in Nat, NEW next \in Nat,
           NEW e \in Events, IsResult(e), e.number = next,
           Holds(channel, due, next)
    PROVE  Holds(Append(channel, e), due, next + 1)
<1> DEFINE new == Append(channel, e)
<1>1. /\ Len(new) = Len(channel) + 1 /\ new[Len(channel) + 1] = e
      /\ \A i \in 1..Len(channel) : new[i] = channel[i]
      /\ Len(channel) \in Nat
  OBVIOUS
<1> HIDE DEF new
<1>2. \A i \in 1..Len(new) : i \in 1..Len(channel) \/ i = Len(channel) + 1
  BY <1>1
<1>3. \A i \in 1..Len(channel) : i \in 1..Len(new) /\ i < Len(channel) + 1
  BY <1>1
<1>4. Len(channel) + 1 \in 1..Len(new)
  BY <1>1
<1>5. \A i \in 1..Len(new) :
        IsResult(new[i]) => new[i].number \in due..(next + 1 - 1)
  BY <1>1, <1>2 DEF Holds
<1>6. \A n \in due..(next + 1 - 1) :
        \E i \in 1..Len(new) : IsResult(new[i]) /\ new[i].number = n
  <2> TAKE n \in due..(next + 1 - 1)
  <2>1. CASE n = next
    BY <1>1, <1>4, <2>1
  <2>2. CASE n # next
    <3>1. n \in due..(next - 1)
      BY <2>2
    <3>2. PICK i \in 1..Len(channel) :
            IsResult(channel[i]) /\ channel[i].number = n
      BY <3>1 DEF Holds
    <3> QED
      BY <1>1, <1>3, <3>2
  <2> QED
    BY <2>1, <2>2
<1>7. ASSUME NEW i \in 1..Len(new), NEW j \in 1..Len(new),
             IsResult(new[i]), IsResult(new[j]), i < j
      PROVE  new[i].number < new[j].number
  <2>1. i \in 1..Len(channel) /\ channel[i].number \in due..(next - 1)
    BY <1>1, <1>2, <1>7 DEF Holds
  <2>2. CASE j \in 1..Len(channel)
    BY <1>1, <1>7, <2>1, <2>2 DEF Holds
  <2>3. CASE j = Len(channel) + 1
    BY <1>1, <2>1, <2>3
  <2> QED
    BY <1>2, <2>2, <2>3
<1>8. due <= next + 1
  BY DEF Holds
<1>9. Holds(new, due, next + 1)
  BY <1>5, <1>6, <1>7, <1>8 DEF Holds
<1> QED
  BY <1>9 DEF new

LEMMA HoldsTail ==
    ASSUME NEW channel \in Seq(Events), NEW due \in Nat, NEW next \in Nat,
           channel # <<>>, Holds(channel, due, next)
    PROVE  /\ ~IsResult(Head(channel)) => Holds(Tail(channel), due, next)
           /\ IsResult(Head(channel)) =>
                 Head(channel).number = due /\ Holds(Tail(channel), due + 1, next)
<1> DEFINE rest == Tail(channel)
<1>1. /\ Len(rest) = Len(channel) - 1 /\ Head(channel) = channel[1]
      /\ \A i \in 1..Len(rest) : rest[i] = channel[i + 1]
      /\ Len(channel) \in Nat \ {0}
  OBVIOUS
<1> HIDE DEF rest
<1>2. \A i \in 1..Len(rest) : i + 1 \in 1..Len(channel) /\ rest[i] = channel[i + 1]
  BY <1>1
<1>3. \A i \in 1..Len(channel) :
        i = 1 \/ (i - 1 \in 1..Len(rest) /\ rest[i - 1] = channel[i])
  BY <1>1
<1>4. ASSUME NEW i \in 1..Len(rest), NEW j \in 1..Len(rest),
             IsResult(rest[i]), IsResult(rest[j]), i < j
      PROVE  rest[i].number < rest[j].number
  <2>1. i + 1 < j + 1
    BY <1>1, <1>4
  <2> QED
    BY <1>2, <1>4, <2>1 DEF Holds
<1>5. ASSUME ~IsResult(Head(channel)) PROVE Holds(rest, due, next)
  <2>1. \A i \in 1..Len(rest) :
          IsResult(rest[i]) => rest[i].number \in due..(next - 1)
    BY <1>2 DEF Holds
  <2>2. \A n \in due..(next - 1) :
          \E i \in 1..Len(rest) : IsResult(rest[i]) /\ rest[i].number = n
    <3> TAKE n \in due..(next - 1)
    <3>1. PICK i \in 1..Len(channel) :
            IsResult(channel[i]) /\ channel[i].number = n
      BY DEF Holds
    <3>2. i # 1
      BY <1>1, <1>5, <3>1
    <3> QED
      BY <1>3, <3>1, <3>2
  <2> QED
    BY <1>4, <2>1, <2>2 DEF Holds
<1>6. ASSUME IsResult(Head(channel))
      PROVE  Head(channel).number = due /\ Holds(rest, due + 1, next)
  <2>0. 1 \in 1..Len(channel) /\ IsResult(channel[1])
    BY <1>1, <1>6
  <2>1. channel[1].number \in due..(next - 1)
    BY <2>0 DEF Holds
  <2>2. channel[1].number = due
    <3>1. due \in due..(next - 1)
      BY <2>1
    <3>2. PICK i \in 1..Len(channel) :
            IsResult(channel[i]) /\ channel[i].number = due
      BY <3>1 DEF Holds
    <3>3. CASE i = 1
      BY <3>2, <3>3
    <3>4. CASE 1 < i
      <4>1. channel[1].number < channel[i].number
        BY <2>0, <3>2, <3>4 DEF Holds
      <4> QED
        BY <2>1, <3>2, <4>1
    <3> QED
      BY <3>3, <3>4
  <2>3. \A i \in 1..Len(rest) :
          IsResult(rest[i]) => rest[i].number \in (due + 1)..(next - 1)
    <3> SUFFICES ASSUME NEW i \in 1..Len(rest), IsResult(rest[i])
                 PROVE  rest[i].number \in (due + 1)..(next - 1)
      OBVIOUS
    <3>1. i + 1 \in 1..Len(channel) /\ 1 < i + 1 /\ IsResult(channel[i + 1])
      BY <1>2
    <3>2. channel[1].number < channel[i + 1].number
      BY <2>0, <3>1 DEF Holds
    <3>3. channel[i + 1].number \in due..(next - 1)
      BY <3>1 DEF Holds
    <3> QED
      BY <1>2, <2>2, <3>2, <3>3
  <2>4. \A n \in (due + 1)..(next - 1) :
          \E i \in 1..Len(rest) : IsResult(rest[i]) /\ rest[i].number = n
    <3> TAKE n \in (due + 1)..(next - 1)
    <3>1. PICK i \in 1..Len(channel) :
            IsResult(channel[i]) /\ channel[i].number = n
      BY DEF Holds
    <3>2. i # 1
      BY <2>2, <3>1
    <3> QED
      BY <1>3, <3>1, <3>2
  <2>5. due + 1 <= next
    BY <2>1
  <2> QED
    BY <1>1, <1>4, <2>2, <2>3, <2>4, <2>5 DEF Holds
<1> QED
  BY <1>5, <1>6 DEF rest

LEMMA ResultTypes ==
    ASSUME TypeOK
    PROVE  /\ settings.result \in Seq(Nat) /\ Len(settings.result) \in Nat
           /\ firstResult \in Nat /\ nextResult \in Nat /\ Due \in Nat
           /\ eventChannel \in Seq(Events)
<1>1. /\ settings.result \in Seq(Nat) /\ firstResult \in Nat
      /\ nextResult \in Nat /\ eventChannel \in Seq(Events)
  BY DEF TypeOK, DiagSettings
<1>2. Len(settings.result) \in Nat
  BY <1>1
<1>3. /\ firstResult + Len(settings.result) + 1 \in Nat
      /\ firstResult + Len(settings.result) + 0 \in Nat
  BY <1>1, <1>2
<1> QED
  BY <1>1, <1>2, <1>3 DEF Due

(* A step that leaves the results, the channel and the phase as they are.  *)
LEMMA ResultsUntouched ==
    ASSUME ResultInv,
           UNCHANGED <<eventChannel, firstResult, nextResult, settings.result>>,
           \/ UNCHANGED <<pc, handling, draft>>
           \/ pc \in Starting /\ pc' \in Starting \ {"gpios"}
           \/ /\ pc \in InSession \ Appending
              /\ pc' \in InSession \ Appending
    PROVE  ResultInv'
<1> USE DEF ResultInv, QueueInv, StoredInv, Due
<1>1. CASE UNCHANGED <<pc, handling, draft>>
  BY <1>1
<1>2. CASE pc \in Starting /\ pc' \in Starting \ {"gpios"}
  BY <1>2 DEF Starting, InSession, Appending, Waiting, Listening, Pushing
<1>3. CASE /\ pc \in InSession \ Appending
           /\ pc' \in InSession \ Appending
  BY <1>3 DEF Starting, InSession, Appending, Waiting, Listening, Pushing
<1> QED
  BY <1>1, <1>2, <1>3

(* Outside of a session nothing is claimed.                                *)
LEMMA ResultsOver ==
    ASSUME pc' \notin Starting \cup InSession PROVE ResultInv'
  BY DEF ResultInv, QueueInv, StoredInv, Appending, Starting, InSession,
         Listening

LEMMA ResultsHandlers ==
    ASSUME TypeOK, OneCoroutine, ResultInv, Handlers PROVE ResultInv'
<1>0. /\ settings.result \in Seq(Nat) /\ firstResult \in Nat
      /\ nextResult \in Nat /\ Due \in Nat /\ eventChannel \in Seq(Events)
  BY ResultTypes
<1>1. ASSUME NEW e \in Events, try_send(e), UNCHANGED <<pc, settings, firstResult>>,
             UNCHANGED <<handling, draft>>,
             \/ ~IsResult(e) /\ UNCHANGED nextResult
             \/ /\ IsResult(e) /\ e.number = nextResult
                /\ nextResult' = nextResult + (IF HasRoom THEN 1 ELSE 0)
      PROVE  ResultInv'
  <2>1. StoredInv'
    BY <1>1 DEF ResultInv, StoredInv
  <2>2. Due' = Due
    BY <1>1 DEF Due
  <2>3. ASSUME pc \in Starting \cup InSession
        PROVE  Holds(eventChannel', Due, nextResult')
    <3>0. Holds(eventChannel, Due, nextResult)
      BY <2>3 DEF ResultInv, QueueInv
    <3>1. CASE ~HasRoom
      BY <1>0, <1>1, <3>0, <3>1 DEF try_send
    <3>2. CASE HasRoom /\ ~IsResult(e)
      BY <1>0, <1>1, <3>0, <3>2, HoldsAppendOther DEF try_send
    <3>3. CASE HasRoom /\ IsResult(e)
      BY <1>0, <1>1, <3>0, <3>3, HoldsAppendResult DEF try_send
    <3> QED
      BY <3>1, <3>2, <3>3
  <2> QED
    BY <1>1, <2>1, <2>2, <2>3 DEF ResultInv, QueueInv
<1>2. CASE Enable
  <2>1. /\ pc' = "getStatus" /\ eventChannel' = <<>>
        /\ firstResult' = nextResult /\ nextResult' = nextResult
    BY <1>2 DEF Enable
  <2>2. Holds(eventChannel', Due', nextResult')
    BY <1>0, <2>1, HoldsEmpty DEF Due, Starting
  <2> QED
    BY <2>1, <2>2 DEF ResultInv, QueueInv, StoredInv, Appending, InSession,
                      Waiting, Listening, Pushing
<1>3. CASE Disable
  <2>1. Sentinel \in Events /\ ~IsResult(Sentinel)
    BY EventTypes DEF Sentinel, IsResult
  <2>2. CASE sequenceRunning
    BY <1>1, <1>3, <2>1, <2>2 DEF Disable, resultNumbers
  <2>3. CASE ~sequenceRunning
    BY <1>3, <2>3, ResultsUntouched DEF Disable, resultNumbers
  <2> QED
    BY <2>2, <2>3
<1>4. ASSUME NEW code \in PostCodes, NotifyPostCode(code) PROVE ResultInv'
  BY <1>4, ResultsUntouched DEF NotifyPostCode, resultNumbers
<1>5. ASSUME NEW s \in DeviceEvents, NotifyEvent(Event(s)) PROVE ResultInv'
  <2>1. Event(s) \in Events /\ Event(s).state # "ResultReceived"
    BY EventTypes DEF Event, DeviceEvents
  <2>2. nextResult' = nextResult
    BY <1>0, <1>5, <2>1 DEF NotifyEvent
  <2> QED
    BY <1>1, <1>5, <2>1, <2>2 DEF NotifyEvent, IsResult
<1>6. CASE NotifyEvent(ResultEvent(nextResult))
  <2>1. /\ ResultEvent(nextResult) \in Events
        /\ ResultEvent(nextResult).state = "ResultReceived"
        /\ ResultEvent(nextResult).number = nextResult
    BY <1>0, EventTypes DEF ResultEvent
  <2> QED
    BY <1>1, <1>6, <2>1 DEF NotifyEvent, IsResult
<1> QED
  BY <1>2, <1>3, <1>4, <1>5, <1>6 DEF Handlers

(* The session starts: DiagResult is emptied before anything is taken.     *)
LEMMA ResultsStart ==
    ASSUME TypeOK, ResultInv, StartSession \/ PrepareGpios PROVE ResultInv'
<1> USE DEF Coroutine, resultNumbers
<1>0. "failed" \notin Starting \cup InSession
  BY DEF Starting, InSession, Waiting, Listening, Pushing
<1>1. CASE getDiagStatus \/ hasDiagConfig
  BY <1>0, <1>1, ResultsUntouched, ResultsOver
  DEF getDiagStatus, hasDiagConfig, Goto, Starting
<1>2. CASE \/ Write("setInProgress", [settings EXCEPT !.status = "InProgress"],
                    "setModeOn", "failed")
           \/ Write("setModeOn", [settings EXCEPT !.mode = TRUE],
                    "clearResult", "failed")
  <2>1. settings'.result = settings.result
    BY <1>2 DEF Write, TypeOK, DiagSettings
  <2> QED
    BY <1>0, <1>2, <2>1, ResultsUntouched, ResultsOver DEF Write, Starting
<1>3. CASE Write("clearResult", [settings EXCEPT !.result = <<>>],
                 "gpios", "failed")
  <2>1. CASE pc' = "failed"
    BY <1>0, <2>1, ResultsOver
  <2>2. CASE pc' = "gpios"
    <3>1. settings'.result = <<>>
      BY <1>3, <2>2 DEF Write, TypeOK, DiagSettings
    <3>2. pc = "clearResult" /\ UNCHANGED <<eventChannel, firstResult, nextResult>>
      BY <1>3 DEF Write
    <3> QED
      BY <2>2, <3>1, <3>2
      DEF ResultInv, QueueInv, StoredInv, Due, Starting, Appending, InSession,
          Waiting, Listening, Pushing
  <2> QED
    BY <1>3, <2>1, <2>2 DEF Write
<1>4. CASE PrepareGpios
  <2>1. pc' \in {"failed", "waitPscFmc", "waitMb2", "listen"}
    BY <1>4 DEF PrepareGpios, initGpioSequence, NextGate
  <2>2. /\ pc = "gpios"
        /\ UNCHANGED <<eventChannel, firstResult, nextResult, settings>>
    BY <1>4 DEF PrepareGpios
  <2>3. CASE pc' = "failed"
    BY <1>0, <2>3, ResultsOver
  <2>4. CASE pc' # "failed"
    <3>1. settings.result = <<>> /\ Len(settings.result) = 0
      BY <2>2 DEF ResultInv, StoredInv
    <3>2. Due' = Due
      BY <2>1, <2>2, <2>4, <3>1, ResultTypes DEF Due, Starting, Appending
    <3> QED
      BY <2>1, <2>2, <2>4, <3>1, <3>2
      DEF ResultInv, QueueInv, StoredInv, Starting, Appending
  <2> QED
    BY <2>3, <2>4
<1> QED
  BY <1>1, <1>2, <1>3, <1>4 DEF StartSession

(* An event is taken from the channel; a result becomes the one in hand.   *)
LEMMA ResultsReceive ==
    ASSUME TypeOK, ResultInv, Receive PROVE ResultInv'
<1> DEFINE e == Head(eventChannel)
<1>0. /\ settings.result \in Seq(Nat) /\ firstResult \in Nat
      /\ nextResult \in Nat /\ Due \in Nat /\ eventChannel \in Seq(Events)
      /\ Len(settings.result) \in Nat
  BY ResultTypes
<1>1. e \in Events /\ eventChannel # <<>>
  BY DEF TypeOK, Receive
<1>2. /\ pc = "listen" /\ eventChannel' = Tail(eventChannel)
      /\ UNCHANGED <<settings, firstResult, nextResult>>
  BY DEF Receive, Coroutine, resultNumbers
<1>3. Due = firstResult + Len(settings.result)
  BY <1>0, <1>2 DEF Due, Starting, Appending
<1>4. Holds(eventChannel, Due, nextResult)
  BY <1>2 DEF ResultInv, QueueInv, InSession, Listening
<1>5. \A i \in 1..Len(settings.result) : settings.result[i] = firstResult + i - 1
  BY <1>2 DEF ResultInv, StoredInv, InSession, Listening
<1>6. CASE pc' = "failed"
  BY <1>6, ResultsOver DEF Starting, InSession, Waiting, Listening, Pushing
<1>7. CASE pc' # "failed" /\ IsResult(e)
  <2>1. pc' = "readResult" /\ handling' = e
    BY <1>1, <1>7 DEF Receive, HandlerOf, IsResult
  <2>2. e.number = Due /\ Holds(eventChannel', Due + 1, nextResult)
    BY <1>0, <1>1, <1>2, <1>4, <1>7, HoldsTail
  <2>3. Due' = Due + 1
    BY <1>0, <1>2, <1>3, <2>1 DEF Due, Starting, Appending
  <2> QED
    BY <1>2, <1>3, <1>5, <2>1, <2>2, <2>3
    DEF ResultInv, QueueInv, StoredInv
<1>8. CASE pc' # "failed" /\ ~IsResult(e)
  <2>1. pc' \in {"readSystem", "readTid", "setRunning", "setCompleted", "listen"}
    BY <1>1, <1>8 DEF Receive, HandlerOf, IsResult, Events, DeviceEvents
  <2>2. Holds(eventChannel', Due, nextResult)
    BY <1>0, <1>1, <1>2, <1>4, <1>8, HoldsTail
  <2>3. Due' = Due
    BY <1>0, <1>2, <1>3, <2>1 DEF Due, Starting, Appending
  <2> QED
    BY <1>2, <1>5, <2>1, <2>2, <2>3
    DEF ResultInv, QueueInv, StoredInv, Appending
<1> QED
  BY <1>6, <1>7, <1>8

(* handleResultReceived: what was read is what is stored, so that what is  *)
(* written back is one result longer.                                      *)
LEMMA ResultsAppend ==
    ASSUME TypeOK, ResultInv, "readResult" \notin FailingCalls,
           \/ readResult
           \/ Write("writeResult", [settings EXCEPT !.result = draft],
                    "listen", "failed")
    PROVE  ResultInv'
<1> USE DEF Coroutine, resultNumbers
<1>0. /\ settings.result \in Seq(Nat) /\ firstResult \in Nat
      /\ nextResult \in Nat /\ Due \in Nat /\ Len(settings.result) \in Nat
  BY ResultTypes
<1>1. CASE readResult
  <2>1. /\ pc = "readResult" /\ pc' = "writeResult"
        /\ draft' = Append(settings.result, handling.number)
        /\ UNCHANGED <<eventChannel, handling, settings, firstResult, nextResult>>
    BY <1>1 DEF readResult, Answers
  <2> QED
    BY <2>1 DEF ResultInv, QueueInv, StoredInv, Due, Starting, Appending,
                InSession, Waiting, Listening, Pushing
<1>2. CASE Write("writeResult", [settings EXCEPT !.result = draft],
                 "listen", "failed")
  <2>1. CASE pc' = "failed"
    BY <2>1, ResultsOver DEF Starting, InSession, Waiting, Listening, Pushing
  <2>2. CASE pc' = "listen"
    <3>1. /\ pc = "writeResult"
          /\ settings'.result = draft
          /\ UNCHANGED <<eventChannel, firstResult, nextResult>>
      BY <1>2, <2>2 DEF Write, TypeOK, DiagSettings
    <3>2. /\ draft = Append(settings.result, handling.number)
          /\ handling.number = firstResult + Len(settings.result)
          /\ \A i \in 1..Len(settings.result) :
                settings.result[i] = firstResult + i - 1
          /\ Holds(eventChannel, Due, nextResult)
      BY <3>1 DEF ResultInv, QueueInv, StoredInv, Appending, InSession,
                  Listening
    <3>3. /\ Len(draft) = Len(settings.result) + 1
          /\ draft[Len(settings.result) + 1] = firstResult + Len(settings.result)
          /\ \A i \in 1..Len(settings.result) : draft[i] = settings.result[i]
      BY <1>0, <3>2
    <3>4. \A i \in 1..Len(draft) : draft[i] = firstResult + i - 1
      <4> TAKE i \in 1..Len(draft)
      <4>1. CASE i \in 1..Len(settings.result)
        BY <3>2, <3>3, <4>1
      <4>2. CASE i = Len(settings.result) + 1
        BY <1>0, <3>3, <4>2
      <4> QED
        BY <1>0, <3>3, <4>1, <4>2
    <3>5. Due' = Due
      BY <1>0, <2>2, <3>1, <3>3 DEF Due, Starting, Appending
    <3> QED
      BY <2>2, <3>1, <3>2, <3>4, <3>5
      DEF ResultInv, QueueInv, StoredInv, Appending
  <2> QED
    BY <1>2, <2>1, <2>2 DEF Write
<1> QED
  BY <1>1, <1>2

(* The other handlers of listenForEvents and the waits for post codes.     *)
LEMMA ResultsListen ==
    ASSUME TypeOK, ResultInv,
           \/ waitForPostCode("waitPscFmc", "PscFmc")
           \/ waitForPostCode("waitMb2", "Mb2")
           \/ IdleTimeout \/ PushConfig
           \/ Write("setRunning", [settings EXCEPT !.status = "TestRunning"],
                    "listen", "failed")
           \/ Write("setCompleted", [settings EXCEPT !.status = "Completed"],
                    "setModeOff", "failed")
           \/ Write("setModeOff", [settings EXCEPT !.mode = FALSE],
                    "recover", "failed")
    PROVE  ResultInv'
<1> USE DEF Coroutine, resultNumbers
<1>1. {"failed", "recover"} \cap (Starting \cup InSession) = {}
  BY DEF Starting, InSession, Waiting, Listening, Pushing
<1>2. /\ UNCHANGED <<eventChannel, firstResult, nextResult>>
      /\ settings'.result = settings.result
      /\ pc \in InSession \ Appending
      /\ pc' \in {"failed", "recover"} \cup (InSession \ Appending)
  <2> USE DEF InSession, Waiting, Listening, Pushing, Appending
  <2>1. CASE \/ waitForPostCode("waitPscFmc", "PscFmc")
             \/ waitForPostCode("waitMb2", "Mb2")
             \/ IdleTimeout
    BY <2>1 DEF waitForPostCode, IdleTimeout, NextGate, Goto
  <2>2. CASE PushConfig
    BY <2>2 DEF PushConfig, readSystemConfig, readTIDConfig, callAsyncSet,
                GetAsyncStatus, waitForAsyncCompletion, Goto, OrFailed
  <2>3. CASE \/ Write("setRunning", [settings EXCEPT !.status = "TestRunning"],
                      "listen", "failed")
             \/ Write("setCompleted", [settings EXCEPT !.status = "Completed"],
                      "setModeOff", "failed")
             \/ Write("setModeOff", [settings EXCEPT !.mode = FALSE],
                      "recover", "failed")
    BY <2>3 DEF Write, TypeOK, DiagSettings
  <2> QED
    BY <2>1, <2>2, <2>3
<1> QED
  BY <1>1, <1>2, ResultsUntouched, ResultsOver

LEMMA ResultsStep ==
    ASSUME TypeOK, OneCoroutine, ResultInv, [Next]_vars,
           "readResult" \notin FailingCalls
    PROVE  ResultInv'
<1>0. {"abortResult", "abortStatus", "abortMode", "log", "finish", "idle"}
        \cap (Starting \cup InSession) = {}
  BY DEF Starting, InSession, Waiting, Listening, Pushing
<1>1. CASE Handlers
  BY <1>1, ResultsHandlers
<1>2. CASE StartSession \/ PrepareGpios
  BY <1>2, ResultsStart
<1>3. CASE \/ waitForPostCode("waitPscFmc", "PscFmc")
           \/ waitForPostCode("waitMb2", "Mb2") \/ HandleEvent
  BY <1>3, ResultsReceive, ResultsAppend, ResultsListen DEF HandleEvent
<1>4. CASE recoverCpus \/ AbortSession \/ Finish \/ Restart
  <2>1. pc' \in {"abortResult", "abortStatus", "abortMode", "log", "finish",
                 "idle"}
    BY <1>4 DEF recoverCpus, AbortSession, SessionFailed, Finish, Restart,
                Goto, Write
  <2> QED
    BY <1>0, <2>1, ResultsOver
<1>5. CASE Nsmd \/ UNCHANGED vars
  BY <1>5, ResultsUntouched
  DEF Nsmd, NsmServes, NsmFinishes, vars, resultNumbers
<1> QED
  BY <1>1, <1>2, <1>3, <1>4, <1>5 DEF Next, runDiagnosticSession

LEMMA AppendedResult ==
    ASSUME NEW s \in Seq(Nat), NEW n \in Nat
    PROVE  /\ Len(s \o <<n>>) = Len(s) + 1 /\ (s \o <<n>>)[Len(s) + 1] = n
           /\ \A i \in 1..Len(s) : (s \o <<n>>)[i] = s[i]
           /\ s \o <<>> = s
  OBVIOUS

(* What the invariant says of the results, in the words of the property.   *)
LEMMA ResultsFromInv == ASSUME TypeOK, ResultInv PROVE ResultsAreKept
<1> DEFINE appending == IF pc \in {"readResult", "writeResult"}
                        THEN <<handling.number>> ELSE <<>>
           taken == settings.result \o appending
           queued == {i \in 1..Len(eventChannel) :
                        eventChannel[i].state = "ResultReceived"}
<1> SUFFICES ASSUME pc \in Waiting \cup Listening
             PROVE  /\ \A i \in 1..Len(taken) : taken[i] = firstResult + i - 1
                    /\ firstResult + Len(taken) <= nextResult
                    /\ {eventChannel[i].number : i \in queued}
                         = (firstResult + Len(taken))..(nextResult - 1)
                    /\ \A i, j \in queued :
                         i < j => eventChannel[i].number < eventChannel[j].number
  BY DEF ResultsAreKept
<1>0. /\ settings.result \in Seq(Nat) /\ firstResult \in Nat
      /\ nextResult \in Nat /\ Due \in Nat /\ Len(settings.result) \in Nat
  BY ResultTypes
<1>1. /\ Holds(eventChannel, Due, nextResult)
      /\ \A i \in 1..Len(settings.result) :
            settings.result[i] = firstResult + i - 1
      /\ pc \in Appending => handling.number = firstResult + Len(settings.result)
  BY DEF ResultInv, QueueInv, StoredInv, InSession
<1>2. pc \notin Starting
  BY DEF Starting, Waiting, Listening, Pushing
<1>3. handling.number \in Nat
  BY EventTypes DEF TypeOK, Events
<1>4. /\ \A i \in 1..Len(taken) : taken[i] = firstResult + i - 1
      /\ firstResult + Len(taken) = Due
  <2>1. CASE pc \in Appending
    <3>1. appending = <<handling.number>>
      BY <2>1 DEF Appending
    <3>2. /\ Len(taken) = Len(settings.result) + 1
          /\ taken[Len(settings.result) + 1] = handling.number
          /\ \A i \in 1..Len(settings.result) : taken[i] = settings.result[i]
      BY <1>0, <1>3, <3>1, AppendedResult
    <3> HIDE DEF taken, appending
    <3>3. \A i \in 1..Len(taken) :
            i \in 1..Len(settings.result) \/ i = Len(settings.result) + 1
      BY <1>0, <3>2
    <3>4. ASSUME NEW i \in 1..Len(taken) PROVE taken[i] = firstResult + i - 1
      <4>1. CASE i \in 1..Len(settings.result)
        BY <1>1, <3>2, <4>1
      <4>2. CASE i = Len(settings.result) + 1
        BY <1>0, <1>1, <2>1, <3>2, <4>2
      <4> QED
        BY <3>3, <4>1, <4>2
    <3>5. firstResult + Len(taken) = Due
      BY <1>0, <1>2, <2>1, <3>2 DEF Due
    <3> QED
      BY <3>4, <3>5
  <2>2. CASE pc \notin Appending
    <3>1. appending = <<>>
      BY <2>2 DEF Appending
    <3>2. taken = settings.result
      BY <1>0, <3>1, AppendedResult
    <3> HIDE DEF taken, appending
    <3> QED
      BY <1>0, <1>1, <1>2, <2>2, <3>2 DEF Due
  <2> QED
    BY <2>1, <2>2
<1> HIDE DEF taken, appending
<1>5. {eventChannel[i].number : i \in queued} = Due..(nextResult - 1)
  BY <1>1 DEF Holds, IsResult
<1>6. \A i, j \in queued :
        i < j => eventChannel[i].number < eventChannel[j].number
  BY <1>1 DEF Holds, IsResult
<1>7. Due <= nextResult
  BY <1>1 DEF Holds
<1> QED
  BY <1>4, <1>5, <1>6, <1>7

(* handleResultReceived loses, repeats and reorders no result, whatever    *)
(* arrives between its read and its write, in every session and for every  *)
(* channel, provided DiagResult can be read.                               *)
THEOREM NoResultIsLost ==
    ASSUME "readResult" \notin FailingCalls PROVE Spec => []ResultsAreKept
<1>1. Init => ResultInv
  BY DEF Init, ResultInv, QueueInv, StoredInv, Starting, Appending, InSession,
         Waiting, Listening, Pushing
<1>2. SessionInv /\ ResultInv /\ [Next]_vars => ResultInv'
  BY ResultsStep DEF SessionInv
<1>3. SessionInv /\ ResultInv => ResultsAreKept
  BY ResultsFromInv DEF SessionInv
<1> QED
  BY <1>1, <1>2, <1>3, SessionInvariant, PTL DEF Spec

=============================================================================
