------------------------------ MODULE UsbRcm ------------------------------
(* usb-rcm-recovery: a Vera CPU in USB recovery is sent the DOT blob, if   *)
(* its fuses ask for one, and nine images; between the images the worker   *)
(* polls the CPU's progress code queue for an error or for completion.     *)
EXTENDS Integers, FiniteSets, Sequences, FiniteSetsExt

CONSTANTS
  ImageCount,  \* componentMap.size()
  QueueSize,   \* slots of progress code queue 0
  Polls,       \* POST_IMAGE_MONITOR_ITERATIONS
  MaxCodes     \* bound: codes the CPU logs in a behaviour

ASSUME RcmBounds == {ImageCount, QueueSize, Polls, MaxCodes} \subseteq Nat \ {0}

VARIABLES
  log,      \* the codes the CPU has logged; a code's position is its timestamp
  cpu,      \* what the CPU is doing: off the bus, waiting, failed, complete
  fuses,    \* the blob its ECID asks for: None, DOT, S2A
  blob,     \* the DOT blob file of the BMC: none, empty, token
  rcm,      \* the recovery task
  seen,     \* timestamps checkForNewProgressCodes has evaluated
  outcome   \* what the message registry says of the CPU

rcmVars == <<log, cpu, fuses, blob, rcm, seen, outcome>>

NoTask == [at |-> "idle", img |-> 0, withBlob |-> FALSE, last |-> 0, polls |-> 0,
           slot |-> 0, left |-> 0, got |-> {}, accepted |-> FALSE]

(* A CPU that left reset may still have the codes of an earlier boot in    *)
(* the queue; one that is held in reset is not on the bus.                 *)
RcmInit ==
  /\ log \in { <<>>, <<"bootNormal">>, <<"bootRecovery">>, <<"error", "bootRecovery">>,
               <<"complete", "bootRecovery">>, <<"bootRecovery", "complete">> }
  /\ cpu \in {"up", "off"} /\ fuses \in {"None", "DOT", "S2A"}
  /\ blob \in {"none", "empty", "token"}
  /\ rcm = NoTask /\ seen = {} /\ outcome = "none"

(* What a progress code tells the worker: an error of one of the boot      *)
(* stages, the error of a mutable DOT header, the last code of a recovery, *)
(* or neither.                                                             *)
Codes == {"progress", "bootNormal", "bootRecovery", "error", "dotError", "complete"}
isRecoveryError(code) == code \in {"error", "dotError"}
isRecoveryComplete(code) == code = "complete"
isMutableDotSoftIgnorableError(code) == code = "dotError"
Stamps == 1..Len(log)

(* The queue is circular: a slot holds the newest code written to it, its  *)
(* pointers say where the oldest one is and where the next one goes.       *)
SlotStamp(i) == LET ts == {t \in Stamps : (t - 1) % QueueSize = i} IN IF ts = {} THEN 0 ELSE Max(ts)
endIndex == Len(log) % QueueSize
startIndex == IF Len(log) > QueueSize THEN endIndex ELSE 0

(* Equal pointers mean a full queue: an empty one is read in full too, and *)
(* its slots have no valid timestamp.                                      *)
entriesToRead ==
  IF startIndex = endIndex THEN QueueSize ELSE (endIndex + QueueSize - startIndex) % QueueSize

(* Recovery mode from the codes since the last boot mode selection.        *)
BootStamps == {t \in Stamps : log[t] \in {"bootNormal", "bootRecovery"}}
RecoveryStatus ==
  IF cpu = "off" THEN "NotFound"
  ELSE IF BootStamps = {} THEN "Unknown"
  ELSE LET boot == Max(BootStamps)
           progress == {t \in boot..Len(log) : ~isRecoveryError(log[t])} IN
       IF log[boot] = "bootNormal" THEN "NotInRecovery"
       ELSE IF isRecoveryComplete(log[Max(progress)]) THEN "RecoveryComplete" ELSE "InRecovery"

RcmConclude(o) == outcome' = o /\ rcm' = NoTask

(* main: the status of the CPU decides; a read that fails makes it Unknown *)
(* and a package without all components ends the worker.                   *)
RcmStart ==
  /\ rcm.at = "idle" /\ outcome = "none"
  /\ \E status \in {RecoveryStatus, "Unknown"} :
       CASE status = "NotInRecovery" -> RcmConclude("healthy")
         [] status = "RecoveryComplete" -> RcmConclude("recovered")
         [] status = "InRecovery" -> rcm' = [NoTask EXCEPT !.at = "open"] /\ UNCHANGED outcome
         [] OTHER -> RcmConclude("failed")
  /\ UNCHANGED <<log, cpu, fuses, blob, seen>>

(* The blob the fuses ask for, as far as the ECID can be read.             *)
getBlobRequirement == {fuses, "Unreadable"}

(* The interface is claimed and the ECID read; if the ECID cannot be read  *)
(* the worker goes on without a blob.                                      *)
RcmOpen ==
  /\ rcm.at = "open"
  /\ \/ RcmConclude("failed")
     \/ \E req \in getBlobRequirement :
          IF req = "S2A" \/ (req = "DOT" /\ blob = "none") THEN RcmConclude("failed")
          ELSE rcm' = [rcm EXCEPT !.at = "send", !.withBlob = (req = "DOT")] /\ UNCHANGED outcome
  /\ UNCHANGED <<log, cpu, fuses, blob, seen>>

ListLength == ImageCount + IF rcm.withBlob THEN 1 ELSE 0
IsBlob(i) == rcm.withBlob /\ i = 0
isEmptyDotBlob == blob = "empty"

(* The image goes out in chunks, each with its own timeout; a device that  *)
(* stops reading times out.                                                *)
sendBulkData == {"failed", "timeout"} \cup (IF cpu = "up" THEN {"sent"} ELSE {})
EmptyBlobAnswered == rcm.accepted /\ rcm.img = 1

(* The next file is read and sent in chunks.  A timeout on the first image *)
(* after an accepted empty blob counts as success.                         *)
RcmSendImage ==
  /\ rcm.at = "send"
  /\ \E r \in sendBulkData :
       CASE r = "sent" -> /\ rcm' = [rcm EXCEPT !.at = "poll", !.img = @ + 1, !.polls = 0]
                          /\ UNCHANGED outcome
         [] r = "timeout" /\ EmptyBlobAnswered -> RcmConclude("enterDOTRecovery")
         [] OTHER -> RcmConclude("failed")
  /\ UNCHANGED <<log, cpu, fuses, blob, seen>>

(* One poll: the pointers, then the slots one by one; the CPU goes on      *)
(* logging meanwhile.  A failing read ends the poll with nothing read.     *)
RcmReadPointers ==
  /\ rcm.at = "poll"
  /\ rcm' = [rcm EXCEPT !.at = "read", !.slot = startIndex, !.left = entriesToRead, !.got = {}]
  /\ UNCHANGED <<log, cpu, fuses, blob, seen, outcome>>

RcmReadEntry ==
  /\ rcm.at = "read" /\ rcm.left > 0
  /\ rcm' = [rcm EXCEPT !.slot = (@ + 1) % QueueSize, !.left = @ - 1,
                        !.got = @ \cup ({SlotStamp(rcm.slot)} \ {0})]
  /\ UNCHANGED <<log, cpu, fuses, blob, seen, outcome>>

BugPollsForEver(r) == [r EXCEPT !.at = "poll"]
NextPoll(r) == IF r.polls + 1 < Polls THEN [r EXCEPT !.at = "poll", !.polls = @ + 1]
               ELSE [r EXCEPT !.at = "sent"]
RcmReadFails ==
  /\ rcm.at \in {"poll", "read"}
  /\ rcm' = NextPoll([rcm EXCEPT !.got = {}])
  /\ UNCHANGED <<log, cpu, fuses, blob, seen, outcome>>

(* The codes after the last processed one, in timestamp order, up to the   *)
(* first that is an error or the completion; that one is not counted as    *)
(* processed.                                                              *)
FreshCodes == {t \in rcm.got : t > rcm.last}
Stops == {t \in FreshCodes : isRecoveryError(log[t]) \/ isRecoveryComplete(log[t])}
Evaluated == IF Stops = {} THEN FreshCodes ELSE {t \in FreshCodes : t < Min(Stops)}
BugCountsUnread == Max({rcm.last} \cup rcm.got)
LastProcessed == Max({rcm.last} \cup Evaluated)

(* An error of the mutable DOT header is accepted when it answers an empty *)
(* blob, and again after that; every other error ends the recovery.        *)
checkForNewProgressCodes ==
  /\ rcm.at = "read" /\ rcm.left = 0
  /\ seen' = seen \cup Evaluated \cup (IF Stops = {} THEN {} ELSE {Min(Stops)})
  /\ LET code == IF Stops = {} THEN "none" ELSE log[Min(Stops)]
         r == [rcm EXCEPT !.last = LastProcessed]
         initial == IsBlob(rcm.img - 1) /\ isEmptyDotBlob /\ isMutableDotSoftIgnorableError(code) IN
     CASE Stops = {} -> rcm' = NextPoll(r) /\ UNCHANGED outcome
       [] isRecoveryComplete(code) -> RcmConclude("recovered")
       [] initial \/ (isMutableDotSoftIgnorableError(code) /\ rcm.accepted) ->
            rcm' = [r EXCEPT !.at = "sent", !.accepted = TRUE] /\ UNCHANGED outcome
       [] OTHER -> RcmConclude("failed")
  /\ UNCHANGED <<log, cpu, fuses, blob>>

(* The monitor window is over: next image, or the end of the list.         *)
RcmNextImage ==
  /\ rcm.at = "sent"
  /\ IF rcm.img < ListLength THEN rcm' = [rcm EXCEPT !.at = "send"] /\ UNCHANGED outcome
     ELSE RcmConclude(IF rcm.accepted THEN "enterDOTRecovery" ELSE "recovered")
  /\ UNCHANGED <<log, cpu, fuses, blob, seen>>

(* The CPU logs as it goes, rejects an empty blob, may fail on any image,  *)
(* and completes after the last one.                                       *)
CpuLogs(code) ==
  /\ cpu = "up" /\ rcm.at # "idle" /\ Len(log) < MaxCodes
  /\ code = "dotError" => rcm.withBlob /\ rcm.img > 0
  /\ code = "error" => rcm.img > 0
  /\ code = "complete" => rcm.img = ListLength
  /\ log' = Append(log, code)
  /\ cpu' = IF code \in {"error", "complete"} THEN code ELSE cpu
  /\ UNCHANGED <<fuses, blob, rcm, seen, outcome>>

RcmWork == RcmStart \/ RcmOpen \/ RcmSendImage \/ RcmReadPointers \/ RcmReadEntry
           \/ RcmReadFails \/ checkForNewProgressCodes \/ RcmNextImage
RcmNext == RcmWork \/ \E code \in {"progress", "dotError", "error", "complete"} : CpuLogs(code)

(* As long as the queue has not wrapped, no code is passed over: every one *)
(* up to the last processed timestamp was looked at, however the CPU's     *)
(* writes fall between the reads of a poll, also when the queue is full    *)
(* and its pointers are equal.  Once a fatal error code was looked at the  *)
(* CPU is not reported recovered.                                          *)
NoCodePassedOver ==
  /\ Len(log) <= QueueSize => 1..rcm.last \subseteq seen
  /\ (\E t \in seen : log[t] = "error") => outcome \notin {"recovered", "enterDOTRecovery"}

===========================================================================
