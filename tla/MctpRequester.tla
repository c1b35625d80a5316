--------------------------- MODULE MctpRequester ---------------------------
(* fw-status, mctp_util: the MCTP VDM requests to one endpoint.  Every     *)
(* query is a coroutine suspended in the request entry of its instance id; *)
(* one request is on the wire at a time.  The handlers run to completion   *)
(* on the event loop, so each is a function of the requester's state; the  *)
(* coroutines it resumes are the caller's next step.                       *)
EXTENDS Naturals, FiniteSets

CONSTANTS
  Clients,   \* the coroutines that query this endpoint
  Ids,       \* instance ids, 0 .. maxInstanceIds - 1
  Resends    \* numRetries: times a request is sent again

ASSUME RequesterAssumption ==
  /\ Ids \subseteq Nat /\ IsFiniteSet(Ids) /\ Ids # {}
  /\ Resends \in Nat

(* An entry of handlers: its coroutine, how often it may still be sent,    *)
(* and "queued", "running" (its expiry timer runs), "expired" (stopped,    *)
(* the deferred removal is due), or "hollow": default-constructed.         *)
NoEntry == [client |-> "none", st |-> "none", left |-> 0]
Hollow == [client |-> "none", st |-> "hollow", left |-> 0]

(* handlers, the ids marked used, and removeRequestContainer.              *)
NewRequester == [entry |-> [i \in Ids |-> NoEntry], used |-> {}, doomed |-> {}]

Entries(q) == {i \in Ids : q.entry[i].st # "none"}
Running(q) == {i \in Ids : q.entry[i].st = "running"}
Stopped(q) == {i \in Ids : q.entry[i].st \in {"queued", "expired"}}
HollowIds(q) == {i \in Ids : q.entry[i].st = "hollow"}

(* next(): the lowest free id, if there is one.                            *)
next(q) == {i \in Ids \ q.used : \A j \in Ids \ q.used : i <= j}

markFree(q, S) == [q EXCEPT !.used = @ \ S]
Erase(q, S) == [q EXCEPT !.entry = [i \in Ids |-> IF i \in S THEN NoEntry ELSE @[i]]]
ClientsOf(q, S) == {q.entry[i].client : i \in S}

(* runRegisteredRequest walks handlers in the map's order.  It stops at a  *)
(* running request; it starts the first stopped one whose send succeeds,   *)
(* an expired one too, and fails those it tried before.  sync is the id of *)
(* the caller's own request: when its send fails the walk ends with it.    *)
(* A walk that meets a hollow entry dereferences its null timer.           *)
Walks(q, sync) ==
  IF Running(q) # {} THEN {[failed |-> {}, started |-> {}]}
  ELSE {x \in [failed : SUBSET Stopped(q), started : SUBSET Stopped(q)] :
          /\ Cardinality(x.started) <= 1 /\ x.failed \cap x.started = {}
          /\ x.started = {} => (x.failed = Stopped(q) \/ sync \cap x.failed # {})
          /\ x.started # {} => sync \cap x.failed = {}}
MayCrash(q) == HollowIds(q) # {}
MustCrash(q) == HollowIds(q) # {} /\ Running(q) = {}

Started(q, S) ==
  [q EXCEPT !.entry = [i \in Ids |-> IF i \in S THEN [@[i] EXCEPT !.st = "running"] ELSE @[i]]]
runRegisteredRequest(q, x) == Started(Erase(markFree(q, x.failed), x.failed), x.started)

(* registerRequest for the id that next() gave.                            *)
registerRequest(q, i, c) ==
  [q EXCEPT !.entry[i] = [client |-> c, st |-> "queued", left |-> Resends], !.used = @ \cup {i}]

(* handleResponse: the entry is gone before its coroutine runs; a response *)
(* without an entry frees its id all the same.                             *)
handleResponse(q, i) == markFree(Erase(q, {i}), {i})

(* The instance id's timer: the entry is stopped and its removal deferred. *)
instanceIdExpiry(q, i) == [q EXCEPT !.entry[i].st = "expired", !.doomed = @ \cup {i}]

(* removeRequestEntry.  When a response or a failed send took the entry    *)
(* first, handlers[key] makes a hollow one, whose empty handler throws.    *)
removeRequestEntry(q, i) ==
  IF i \in Entries(q) THEN [markFree(Erase(q, {i}), {i}) EXCEPT !.doomed = @ \ {i}]
  ELSE [q EXCEPT !.entry[i] = Hollow, !.doomed = @ \ {i}]

(* RequestRetryTimer::callback.                                            *)
Resend(q, i) == [q EXCEPT !.entry[i].left = @ - 1]
=============================================================================
