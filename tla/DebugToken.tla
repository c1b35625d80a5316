---------------------------- MODULE DebugToken ----------------------------
(* updateDebugToken: installs the tokens of a package on the NSM endpoints *)
(* whose device they are for, or erases every token.  nsmd answers a call  *)
(* with the path of an asynchronous operation; the worker reads its Status *)
(* once and then waits for the signal that changes it, until a deadline.   *)
(* An operation that misses the deadline goes on in nsmd.                  *)
EXTENDS RecoveryWorker, Sequences

CONSTANTS
  MaxRecords,   \* bound: records of a token package
  SignalPolls   \* propertyChangeSignalTimeout and eraseSignalTimeout, in polls

ASSUME DebugTokenAssumption == MaxRecords \in Nat /\ SignalPolls \in Nat \ {0}

(* ops: nsmd's operations on the endpoint, `at` the one at hand; held: the *)
(* tokens in the device; status: the worker's local copy of Status; polls: *)
(* iterations left; bad: an operation on the endpoint failed.              *)
TokenHwInit ==
  [mode: {"functional"}, driven: {FALSE}, id: BOOLEAN, want: {0}, at: {0}, ops: {<<>>},
   held: {{}, {0}}, status: {"none"}, polls: {0}, bad: {FALSE}]

(* A package: header 1 lists fixed records, header 2 TLV records, any      *)
(* other header (or no file) is invalid.  A record is for a device, has no *)
(* serial number, or cannot be parsed.                                     *)
Packages == [header: {0, 1, 2},
              records: UNION {[1..n -> Devices \cup {"noserial", "invalid"}] : n \in 0..MaxRecords}]

ParsesV1(pkg) == \A i \in DOMAIN pkg.records : pkg.records[i] # "invalid"
(* TLV: a bad record fails the package although parsing goes on, one       *)
(* without a serial number is skipped, and no token at all is an error.    *)
parseTlvTokens(pkg) ==
  /\ \A i \in DOMAIN pkg.records : pkg.records[i] # "invalid"
  /\ \E i \in DOMAIN pkg.records : pkg.records[i] \in Devices
updateTokenMap(pkg) ==
  CASE pkg.header = 1 -> ParsesV1(pkg) [] pkg.header = 2 -> parseTlvTokens(pkg) [] OTHER -> FALSE
(* equal_range of the endpoint's serial number.                            *)
TokensFor(pkg, d) == Cardinality({i \in DOMAIN pkg.records : pkg.records[i] = d})

AllFailed(t) ==
  /\ verdict' = [d \in Devices |-> "failed"] /\ task' = t
  /\ pc' = [d \in Devices |-> "done"] /\ UNCHANGED hw
Fresh == ~exited /\ \A d \in Devices : pc[d] = "todo"

(* The package is parsed, then the endpoints are listed; with neither, the *)
(* installation fails as a whole.                                          *)
installDebugToken ==
  /\ Fresh
  /\ \/ \E pkg \in Packages :
          IF updateTokenMap(pkg)
          THEN /\ hw' = [d \in Devices |-> [hw[d] EXCEPT !.want = TokensFor(pkg, d)]]
               /\ pc' = [d \in Devices |-> "match"] /\ UNCHANGED <<verdict, task>>
          ELSE AllFailed("error")
     \/ AllFailed("error")

(* getErasePolicy: "Manual", "Automatic", or nothing when it cannot be     *)
(* read, and only "Manual" skips the erasure.                              *)
getErasePolicy == {"Manual", "Automatic", ""}

(* A failed erasure is logged; main returns 0 whatever it was.             *)
eraseDebugToken ==
  /\ Fresh
  /\ \E policy \in getErasePolicy :
       IF policy = "Manual"
       THEN pc' = [d \in Devices |-> "done"] /\ UNCHANGED <<hw, verdict, task>>
       ELSE \/ AllFailed(task)
            \/ /\ hw' = [d \in Devices |-> [hw[d] EXCEPT !.want = 1]]
               /\ pc' = [d \in Devices |-> "call"] /\ UNCHANGED <<verdict, task>>

(* The endpoints are visited one after the other.                          *)
Working(d) == pc[d] \notin {"match", "call", "done"}
Visit(d, step) == ~exited /\ pc[d] = step /\ \A e \in Devices \ {d} : ~Working(e) /\ ~(pc[e] = "call" /\ hw[e].at > 0)

(* TokenDeviceID: an endpoint without one, or with no token for it, is     *)
(* left alone.                                                             *)
TokenMatch(d) ==
  /\ Visit(d, "match") /\ UNCHANGED hw
  /\ \/ Conclude(d, "failed")
     \/ Continue(d, IF hw[d].id /\ hw[d].want > 0 THEN "call" ELSE "done")

(* The operation at hand is over; the next token, or the endpoint's end.   *)
Settle(d, h, ok, t) ==
  LET g == [h EXCEPT !.bad = @ \/ ~ok] IN
  /\ hw' = [hw EXCEPT ![d] = g]
  /\ IF g.at < g.want THEN Continue(d, "call")
     ELSE /\ verdict' = [verdict EXCEPT ![d] = IF g.bad THEN "failed" ELSE "recovered"]
          /\ task' = IF g.bad THEN t ELSE task
          /\ Goto(d, "done")

Started(h) == [h EXCEPT !.at = @ + 1, !.ops = Append(@, "InProgress"), !.driven = TRUE]
NotStarted(h) == [h EXCEPT !.at = @ + 1, !.ops = Append(@, "never")]

(* InstallToken or EraseToken: a call that fails may have been accepted.   *)
CallToken(d, t) ==
  /\ Visit(d, "call")
  /\ \/ Settle(d, NotStarted(hw[d]), FALSE, t)
     \/ Settle(d, Started(hw[d]), FALSE, t)
     \/ hw' = [hw EXCEPT ![d] = Started(hw[d])] /\ Continue(d, "get")

(* The value of a failed operation says why; NotInstalled is no failure of *)
(* an erasure.  The value may not be readable.                             *)
NotInstalledAnyway(h) == IF h.ops[h.at] = "NotInstalled" THEN BOOLEAN ELSE {FALSE}

Ended(d, h, erase, t) ==
  IF h.status = "Success" THEN Settle(d, h, TRUE, t)
  ELSE \E ok \in (IF erase THEN NotInstalledAnyway(h) ELSE {FALSE}) : Settle(d, h, ok, t)

(* The initial Get of Status.                                              *)
GetStatus(d, erase, t) ==
  /\ Visit(d, "get")
  /\ \/ Settle(d, hw[d], FALSE, t)
     \/ LET h == [hw[d] EXCEPT !.status = hw[d].ops[hw[d].at], !.polls = SignalPolls] IN
        IF h.status = "InProgress" THEN hw' = [hw EXCEPT ![d] = h] /\ Continue(d, "wait")
        ELSE Ended(d, h, erase, t)

(* What the match delivers: only signals of the operation's own path.      *)
BugAnyPath(d) == {hw[d].ops[i] : i \in DOMAIN hw[d].ops} \ {"never"}
StatusSignals(d) == {"InProgress", hw[d].ops[hw[d].at]}

(* One iteration of the wait, the signal seen or not.                      *)
AwaitStatus(d, erase, t) ==
  /\ Visit(d, "wait")
  /\ \E s \in StatusSignals(d) :
       LET h == [hw[d] EXCEPT !.status = s, !.polls = @ - 1] IN
       IF s = "InProgress" /\ h.polls > 0 THEN hw' = [hw EXCEPT ![d] = h] /\ Continue(d, "wait")
       ELSE Ended(d, [h EXCEPT !.polls = 0], erase, t)

(* nsmd and the device: an operation ends at any time, or never.  A token  *)
(* is known by its place in the package, one from before as 0.             *)
DeviceInstalls(d) == \E i \in DOMAIN hw[d].ops :
  /\ ~exited /\ hw[d].ops[i] = "InProgress" /\ UNCHANGED <<pc, verdict, task>>
  /\ \/ hw' = [hw EXCEPT ![d].ops[i] = "Success", ![d].held = @ \cup {i}]
     \/ hw' = [hw EXCEPT ![d].ops[i] = "Error"]
DeviceErases(d) == \E i \in DOMAIN hw[d].ops :
  /\ ~exited /\ hw[d].ops[i] = "InProgress" /\ UNCHANGED <<pc, verdict, task>>
  /\ \/ hw' = [hw EXCEPT ![d].ops[i] = IF hw[d].held = {} THEN "NotInstalled" ELSE "Success", ![d].held = {}]
     \/ hw' = [hw EXCEPT ![d].ops[i] = "Error"]

nsmTokenInstallV2(d) == TokenMatch(d) \/ CallToken(d, "error") \/ GetStatus(d, FALSE, "error") \/ AwaitStatus(d, FALSE, "error")
nsmTokenEraseV2(d) == CallToken(d, task) \/ GetStatus(d, TRUE, task) \/ AwaitStatus(d, TRUE, task)

TokenInstallNext == installDebugToken \/ \E d \in Devices : nsmTokenInstallV2(d) \/ DeviceInstalls(d)
TokenEraseNext == eraseDebugToken \/ \E d \in Devices : nsmTokenEraseV2(d) \/ DeviceErases(d)
===========================================================================
