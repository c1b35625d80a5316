-------------------------- MODULE RecoveryWorker --------------------------
(* The frame every recovery worker shares.  The updater starts one worker  *)
(* as a oneshot service; it takes its devices from Entity Manager, handles *)
(* each of them, tells the message registry what became of it and exits.   *)
EXTENDS Naturals, FiniteSets

CONSTANT Devices   \* the recovery objects Entity Manager exposes

VARIABLES
  svc,      \* the worker that was started
  pc,       \* how far it is with each device
  hw,       \* the devices themselves, and the lines that lead to them
  verdict,  \* the outcome the message registry was given for a device
  task,     \* recoveryTaskState: "ok" or "error", the exit status to be
  exited    \* the process has returned from main

vars == <<svc, pc, hw, verdict, task, exited>>

Busy(d) == pc[d] \notin {"todo", "done"}

(* A worker that handles its devices one after the other, in the order the *)
(* D-Bus reply happens to list them.                                       *)
Turn(d) == ~exited /\ \A e \in Devices \ {d} : ~Busy(e)

Goto(d, step) == pc' = [pc EXCEPT ![d] = step]

Continue(d, step) == Goto(d, step) /\ UNCHANGED <<verdict, task>>

BugReportsOnly(d, v) ==
  verdict' = [verdict EXCEPT ![d] = v] /\ Goto(d, "done") /\ UNCHANGED task
(* The worker is done with a device and reports it.  A failure also fails  *)
(* the task.                                                               *)
Conclude(d, v) ==
  /\ verdict' = [verdict EXCEPT ![d] = v]
  /\ task' = IF v = "failed" THEN "error" ELSE task
  /\ Goto(d, "done")

(* main returns once every device was handled.                             *)
Exit ==
  /\ ~exited /\ \A d \in Devices : pc[d] = "done"
  /\ exited' = TRUE
  /\ UNCHANGED <<pc, hw, verdict, task>>

(* The device is in its boot ROM, in a recovery loader, or writing flash.  *)
InRecovery(d) == hw[d].mode \in {"recovery", "uboot", "programming"}

(* What a device comes up as after a reset with its recovery strap at the  *)
(* given level: the strap, or flash without a valid image, puts it in      *)
(* recovery; it may also stay off the bus.  A worker that looks before the *)
(* device is up sees the bus without it (UsbDfu's "booting").  A reset     *)
(* while flash is being written tears the image.                           *)
ResetModes(strap, flash) ==
  IF strap \/ flash # "good" THEN {"recovery", "gone"} ELSE {"functional", "gone"}
Torn(h) == IF h.mode = "programming" THEN "torn" ELSE h.flash
===========================================================================
