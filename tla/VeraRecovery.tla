--------------------------- MODULE VeraRecovery ---------------------------
(* The two requests a Vera chassis serves: the boards are forced into USB  *)
(* recovery, or the recovery worker is started on a CPU.  They meet only   *)
(* in the CPU: the worker's initial states are those a forced recovery, a  *)
(* power cycle or an earlier worker can leave.                             *)
EXTENDS ForceRecovery, UsbRcm

CONSTANT MaxForces   \* bound: forced recoveries in a behaviour

VARIABLES request, forces

veraVars == <<forceVars, rcmVars, request, forces>>

VeraInit ==
  /\ request \in {"force", "recover"} /\ forces = 0
  /\ IF request = "force" THEN ForceInit ELSE ForceInit /\ lines = Board /\ ~shared
  /\ IF request = "force"
     THEN RcmInit /\ log = <<>> /\ cpu = "off" /\ fuses = "None" /\ blob = "none"
     ELSE RcmInit

(* A request after a failed one finds the lines as that one left them.     *)
ForceBoards ==
  /\ request = "force" /\ ForceNext
  /\ force.at = "idle" => forces < MaxForces
  /\ forces' = IF force.at = "idle" THEN forces + 1 ELSE forces
  /\ UNCHANGED <<rcmVars, request>>

Recover == request = "recover" /\ RcmNext /\ UNCHANGED <<forceVars, request, forces>>

Finished ==
  /\ outcome # "none" \/ (force.at = "idle" /\ forces = MaxForces)
  /\ UNCHANGED veraVars

VeraNext == ForceBoards \/ Recover \/ Finished

(* The worker runs and every transfer has a timeout.  Nothing is assumed   *)
(* of the CPU.                                                             *)
VeraSpec ==
  /\ VeraInit /\ [][VeraNext]_veraVars
  /\ WF_veraVars(request = "recover" /\ RcmWork /\ UNCHANGED <<forceVars, request, forces>>)

VeraTypeOK ==
  /\ strap \in [Board -> {"default", "partial", "recovery"}]
  /\ sampled \in [Board -> {"default", "partial", "recovery"}]
  /\ \A t \in Stamps : log[t] \in Codes
  /\ cpu \in {"off", "up", "error", "complete"}
  /\ rcm.at \in {"idle", "open", "send", "poll", "read", "sent"}
  /\ rcm.img \in 0..(ImageCount + 1) /\ rcm.got \subseteq Stamps
  /\ outcome \in {"none", "healthy", "recovered", "enterDOTRecovery", "failed"}

(* A worker that was started ends with a report, although the CPU may stop *)
(* answering at any point.                                                 *)
WorkerReports == rcm.at # "idle" ~> outcome # "none"
===========================================================================
