--------------------------- MODULE ForceRecovery ---------------------------
(* SetForceRecovery and com.nvidia.SetRecoveryMode for the Vera boards:    *)
(* all resets are asserted, all straps are programmed, all resets are      *)
(* released; the D-Bus method then waits for the CPUs to show up in USB    *)
(* recovery and puts the straps back.                                      *)
EXTENDS Integers, FiniteSets, Sequences

CONSTANTS
  Boards,       \* getBoardCount(configType): boards are numbered from 0
  StatusTries   \* maxRetries of performForceRecovery

ASSUME ForceBounds == Boards \in 1..2 /\ StatusTries \in Nat \ {0}

Board == 0..(Boards - 1)

VARIABLES
  lines,    \* the boards whose GPIO lines gpiofind knows
  shared,   \* board 0's reset line also holds board 1
  rst,      \* boards whose reset line is asserted
  strap,    \* what the strap lines of a board say
  sampled,  \* what its CPU read from them when it last left reset
  force     \* the request: caller, phase, position, outcome

forceVars == <<lines, shared, rst, strap, sampled, force>>

Idle == [by |-> "none", at |-> "idle", b |-> 0, ok |-> TRUE, tries |-> 0, reply |-> "none"]

ForceInit ==
  /\ lines \in SUBSET Board /\ 0 \in lines
  /\ shared \in BOOLEAN
  /\ rst = {}
  /\ strap = [b \in Board |-> "default"]
  /\ sampled = [b \in Board |-> "default"]
  /\ force = Idle

(* Where both boards hang on board 0's line, board 1's own line is not     *)
(* connected.                                                              *)
HeldBy(resets, b) == IF shared THEN 0 \in resets ELSE b \in resets
Held(b) == HeldBy(rst, b)

(* A pin that gpiofind does not know, or a gpioset that fails or takes     *)
(* longer than five seconds.                                               *)
setGpio(b) == IF b \in lines THEN BOOLEAN ELSE {FALSE}

forceRecoveryMode(by) ==
  /\ force.at = "idle"
  /\ force' = [Idle EXCEPT !.by = by, !.at = "assert"]
  /\ UNCHANGED <<lines, shared, rst, strap, sampled>>

BugFailureForgotten(ok, phase) ==
  force' = IF force.b < Boards - 1 THEN [force EXCEPT !.b = @ + 1]
           ELSE [force EXCEPT !.b = 0, !.at = phase]
(* The next board of a phase, and where the phase leads when it was the    *)
(* last one: a failure anywhere in it ends the sequence there.             *)
NextBoard(ok, phase) ==
  LET all == force.ok /\ ok IN
  force' = IF force.b < Boards - 1 THEN [force EXCEPT !.b = @ + 1, !.ok = all]
           ELSE [force EXCEPT !.b = 0, !.ok = all, !.at = IF all THEN phase ELSE "result"]

AssertReset ==
  /\ force.at = "assert"
  /\ \E ok \in setGpio(force.b) :
       /\ rst' = IF ok THEN rst \cup {force.b} ELSE rst
       /\ NextBoard(ok, "straps")
  /\ UNCHANGED <<lines, shared, strap, sampled>>

(* The six strap lines of a board; a failing one leaves the rest alone.    *)
WriteStraps ==
  /\ force.at = "straps"
  /\ \E ok \in setGpio(force.b), written \in BOOLEAN :
       /\ strap' = [strap EXCEPT ![force.b] =
                      IF ok THEN "recovery" ELSE IF written THEN "partial" ELSE @]
       /\ written => force.b \in lines
       /\ NextBoard(ok, "release")
  /\ UNCHANGED <<lines, shared, rst, sampled>>

(* A CPU that leaves reset samples its straps.                             *)
Sample(resets) ==
  [b \in Board |-> IF Held(b) /\ ~HeldBy(resets, b) THEN strap[b] ELSE sampled[b]]

ReleaseReset ==
  /\ force.at = "release"
  /\ \E ok \in setGpio(force.b) :
       /\ rst' = IF ok THEN rst \ {force.b} ELSE rst
       /\ sampled' = Sample(rst')
       /\ NextBoard(ok, "result")
  /\ UNCHANGED <<lines, shared, strap>>

(* The CLI prints the outcome and exits with it; the D-Bus method goes on  *)
(* in any case.                                                            *)
ForceResult ==
  /\ force.at = "result"
  /\ force' = IF force.by = "cli"
              THEN [Idle EXCEPT !.reply = IF force.ok THEN "ok" ELSE "failed"]
              ELSE [force EXCEPT !.at = "confirm", !.ok = FALSE]
  /\ UNCHANGED <<lines, shared, rst, strap, sampled>>

(* Only CPUs that are out of reset are on the USB bus.                     *)
OnUsb == {b \in Board : ~Held(b) /\ b \in lines}
areDevicesInRecovery == OnUsb # {} /\ \A b \in OnUsb : sampled[b] = "recovery"

ConfirmRecovery ==
  /\ force.at = "confirm"
  /\ \E read \in BOOLEAN :
       force' = IF read /\ areDevicesInRecovery
                THEN [force EXCEPT !.at = "defaults", !.ok = TRUE, !.reply = "ok"]
                ELSE IF force.tries < StatusTries - 1 THEN [force EXCEPT !.tries = @ + 1]
                ELSE [force EXCEPT !.at = "defaults", !.ok = TRUE, !.reply = "failed"]
  /\ UNCHANGED <<lines, shared, rst, strap, sampled>>

(* The straps are put back board by board; failures are only logged.  A    *)
(* chassis whose CPUs were not confirmed makes the call fail.              *)
DefaultStraps ==
  /\ force.at = "defaults"
  /\ \E ok \in setGpio(force.b), written \in BOOLEAN :
       /\ strap' = [strap EXCEPT ![force.b] =
                      IF ok THEN "default" ELSE IF written THEN "partial" ELSE @]
       /\ written => force.b \in lines
  /\ force' = IF force.b < Boards - 1 THEN [force EXCEPT !.b = @ + 1]
              ELSE [Idle EXCEPT !.reply = force.reply, !.by = "api"]
  /\ UNCHANGED <<lines, shared, rst, sampled>>

ForceNext ==
  \/ \E by \in {"cli", "api"} : forceRecoveryMode(by)
  \/ AssertReset \/ WriteStraps \/ ReleaseReset
  \/ ForceResult \/ ConfirmRecovery \/ DefaultStraps

(* No CPU ever leaves reset with its straps half programmed, on boards     *)
(* with a reset line each and on boards that share one, whichever write    *)
(* failed: the three phases exist for this.                                *)
NoPartialBoot == \A b \in Board : sampled[b] # "partial"

===========================================================================
