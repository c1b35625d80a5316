-------------------------- MODULE ErotGpio_proofs --------------------------
(***************************************************************************)
(* Proofs about the GPIO resource of fw-status (module ErotGpio) and the   *)
(* MCTP requester under it: for any instance ids, any number of resends,   *)
(* of retries and of disturbances, in both monitor modes.                  *)
(***************************************************************************)
EXTENDS ErotGpio, TLAPS

-----------------------------------------------------------------------------
(* Types.                                                                  *)
ResourceType ==
  [line: BOOLEAN, event: BOOLEAN, retry: BOOLEAN, last: {"none", "asserted", "deasserted"},
   off: BOOLEAN, settle: BOOLEAN, rec: BOOLEAN, mon: BOOLEAN,
   health: {"none", "healthy", "recovery", "off"}, ap: {"none", "Standby", "Degraded"},
   check: BOOLEAN, timer: BOOLEAN, tries: 0..MaxTries, co: SUBSET {"ap", "exit"},
   own: BOOLEAN, kick: BOOLEAN]
EntryType ==
  [client: {"none", "ap", "exit"}, st: {"none", "queued", "running", "expired", "hollow"}, left: Nat]
RequesterType == [entry: [Ids -> EntryType], used: SUBSET Ids, doomed: SUBSET Ids]

(* The ERoT, its AP and the signals about them.                            *)
WorldTypes ==
  /\ mode \in {"Interrupt", "Polling"}
  /\ boot \in {"booting", "complete", "fatal"}
  /\ {erotDown, endpoint, chassis, lineUp, signal, alive, excused} \subseteq BOOLEAN
  /\ edges \in Seq(BOOLEAN) /\ power \in Seq(BOOLEAN)
  /\ wire \subseteq [id: Ids, old: BOOLEAN]
  /\ inbox \subseteq [id: Ids, old: BOOLEAN, ans: {"booting", "complete", "fatal"}]

-----------------------------------------------------------------------------
(* The resource and the requester.                                         *)

(* A Polling resource has no line events, and knows no value of a line it  *)
(* let go; an Interrupt one has events of a line it holds only, and no     *)
(* recovery monitor.                                                       *)
Handles(r) ==
  IF mode = "Polling" THEN ~r.event /\ ~r.retry /\ (r.line \/ r.last = "none")
  ELSE (r.event => r.line) /\ ~r.mon

(* Every suspended query has its request entry, and only one.              *)
Paired(r, e) ==
  \A c \in {"ap", "exit"} :
    /\ c \in r.co <=> \E i \in Ids : e[i].client = c
    /\ \A i, j \in Ids : e[i].client = c /\ e[j].client = c => i = j
(* A hollow entry belongs to no query.                                     *)
Hollowed(e) == \A i \in Ids : e[i].client = "none" <=> e[i].st \in {"none", "hollow"}

(* An open check waits for its timer or for a query.                       *)
Driven(r) == r.check => r.timer \/ "ap" \in r.co

Sane(r, p) == r \in ResourceType /\ p \in RequesterType /\ Handles(r) /\ Driven(r)
              /\ Paired(r, p.entry) /\ Hollowed(p.entry)

-----------------------------------------------------------------------------
(* The report of an asserted line.                                         *)

(* Something is still to happen that opens a check: the line is away or    *)
(* not yet watched, its change not yet seen, the ERoT in recovery.         *)
Pending(r) ==
  \/ ~lineUp
  \/ IF mode = "Polling" THEN r.last # "asserted" \/ r.rec
     ELSE ~r.event \/ edges # <<>> \/ (r.rec /\ erotDown)
Tended(r) == r.ap # "none" \/ r.check \/ Pending(r)

(* An answer that would close the check as needless was given before the   *)
(* line rose, and then the rise is still to be seen.                       *)
Fresh(r, e, box) ==
  r.check /\ r.own =>
    \A m \in box : ~m.old /\ e[m.id].client = "ap" /\ m.ans = "complete" => Pending(r)

(* Line events are kept only while they are registered for; the last of    *)
(* them is the level of the line.                                          *)
EdgesRight ==
  /\ alive /\ ~g.event => edges = <<>>
  /\ g.event /\ lineUp /\ edges # <<>> => edges[Len(edges)] = Level

ErotInv ==
  /\ WorldTypes /\ Sane(g, q) /\ EdgesRight
  /\ ~alive => g = NewResource /\ q = NewRequester
  /\ alive /\ Level /\ ~excused => Tended(g) /\ Fresh(g, q.entry, inbox)

-----------------------------------------------------------------------------
(* What the methods of the resource change.                                *)

(* The fields of the line and of the power.                                *)
SameLine(x, r) ==
  /\ x.line = r.line /\ x.event = r.event /\ x.retry = r.retry /\ x.last = r.last
  /\ x.off = r.off
SameCheck(x, r) ==
  x.check = r.check /\ x.ap = r.ap /\ x.own = r.own /\ x.timer = r.timer /\ x.tries = r.tries

LEMMA StopFacts ==
  ASSUME NEW r \in ResourceType
  PROVE  LET x == stopAPBootStatusCheck(r)
         IN  /\ x \in ResourceType /\ SameLine(x, r) /\ x.co = r.co /\ x.rec = r.rec /\ x.mon = r.mon
             /\ ~x.check /\ x.ap = r.ap /\ x.own = r.own
<1>1. 0 \in 0..MaxTries
  BY ErotAssumption
<1> QED
  BY <1>1 DEF stopAPBootStatusCheck, ResourceType, SameLine

LEMMA ClearFacts ==
  ASSUME NEW r \in ResourceType, NEW a \in {"none", "Standby", "Degraded"}
  PROVE  LET x == [stopAPBootStatusCheck(r) EXCEPT !.ap = a]
         IN  /\ x \in ResourceType /\ SameLine(x, r) /\ x.co = r.co /\ x.rec = r.rec /\ x.mon = r.mon
             /\ ~x.check /\ x.ap = a
<1> DEFINE y == stopAPBootStatusCheck(r)
<1>1. /\ y \in ResourceType /\ SameLine(y, r) /\ y.co = r.co /\ y.rec = r.rec /\ y.mon = r.mon
      /\ ~y.check
  BY StopFacts
<1> HIDE DEF y
<1>2. LET x == [y EXCEPT !.ap = a]
      IN  /\ x \in ResourceType /\ SameLine(x, r) /\ x.co = r.co /\ x.rec = r.rec /\ x.mon = r.mon
          /\ ~x.check /\ x.ap = a
  BY <1>1 DEF ResourceType, SameLine
<1> QED
  BY <1>2 DEF y

LEMMA OpenFacts ==
  ASSUME NEW r \in ResourceType
  PROVE  LET x == startAPBootStatusCheck(r)
         IN  /\ x \in ResourceType /\ SameLine(x, r) /\ x.co = r.co /\ x.rec = r.rec /\ x.mon = r.mon
             /\ x.check /\ x.timer /\ ~x.own
<1>1. 0 \in 0..MaxTries
  BY ErotAssumption
<1> QED
  BY <1>1 DEF startAPBootStatusCheck, ResourceType, SameLine

LEMMA TriggerFacts ==
  ASSUME NEW r \in ResourceType, endpoint \in BOOLEAN
  PROVE  LET x == triggerMctpDiscovery(r)
         IN  /\ x \in ResourceType /\ SameLine(x, r) /\ SameCheck(x, r)
             /\ x.co = r.co /\ x.rec = r.rec /\ x.mon = r.mon
  BY DEF triggerMctpDiscovery, ResourceType, SameLine, SameCheck

LEMMA RecoveryFacts ==
  ASSUME NEW r \in ResourceType, endpoint \in BOOLEAN
  PROVE  LET x == InRecovery(r)
         IN  /\ x \in ResourceType /\ SameLine(x, r) /\ SameCheck(x, r) /\ x.co = r.co /\ x.rec
             /\ mode # "Polling" => x.mon = r.mon
<1> DEFINE y == [r EXCEPT !.rec = TRUE, !.health = "recovery"]
           z == [y EXCEPT !.mon = TRUE]
<1>1. /\ y \in ResourceType /\ SameLine(y, r) /\ SameCheck(y, r) /\ y.co = r.co /\ y.rec /\ y.mon = r.mon
  BY DEF ResourceType, SameLine, SameCheck
<1>2. InRecovery(r) = IF mode = "Polling" THEN triggerMctpDiscovery(z) ELSE y
  BY DEF InRecovery, startERoTRecoveryMonitor
<1> HIDE DEF y
<1>3. /\ z \in ResourceType /\ SameLine(z, r) /\ SameCheck(z, r) /\ z.co = r.co /\ z.rec
  BY <1>1 DEF ResourceType, SameLine, SameCheck
<1> HIDE DEF z
<1>4. LET x == triggerMctpDiscovery(z)
      IN  x \in ResourceType /\ SameLine(x, z) /\ SameCheck(x, z) /\ x.co = z.co /\ x.rec = z.rec
  BY <1>3, TriggerFacts
<1> QED
  BY <1>1, <1>2, <1>3, <1>4 DEF SameLine, SameCheck

LEMMA LeaveFacts ==
  ASSUME NEW r \in ResourceType, endpoint \in BOOLEAN
  PROVE  LET x == [LeaveRecovery(r) EXCEPT !.health = "healthy"]
         IN  /\ x \in ResourceType /\ SameLine(x, r) /\ SameCheck(x, r) /\ x.co = r.co /\ ~x.rec
             /\ x.mon => r.mon
<1> DEFINE y == [r EXCEPT !.mon = FALSE, !.rec = FALSE]
           z == LeaveRecovery(r)
<1>1. /\ y \in ResourceType /\ SameLine(y, r) /\ SameCheck(y, r) /\ y.co = r.co /\ ~y.rec /\ ~y.mon
  BY DEF ResourceType, SameLine, SameCheck
<1>2. z = IF r.rec THEN triggerMctpDiscovery(y) ELSE r
  BY DEF LeaveRecovery
<1> HIDE DEF y, z
<1>3. LET x == triggerMctpDiscovery(y)
      IN  /\ x \in ResourceType /\ SameLine(x, y) /\ SameCheck(x, y) /\ x.co = y.co /\ x.rec = y.rec
          /\ x.mon = y.mon
  BY <1>1, TriggerFacts
<1>4. /\ z \in ResourceType /\ SameLine(z, r) /\ SameCheck(z, r) /\ z.co = r.co /\ ~z.rec
      /\ z.mon => r.mon
  BY <1>1, <1>2, <1>3 DEF SameLine, SameCheck
<1>5. LET x == [z EXCEPT !.health = "healthy"]
      IN  /\ x \in ResourceType /\ SameLine(x, r) /\ SameCheck(x, r) /\ x.co = r.co /\ ~x.rec
          /\ x.mon => r.mon
  BY <1>4 DEF ResourceType, SameLine, SameCheck
<1> QED
  BY <1>5 DEF z

(* updateERoTHealth: nothing with the chassis off; recovery only, when the *)
(* probe says so; otherwise out of recovery, and the check opened by an    *)
(* assertion, closed by a deassertion.                                     *)
Updated(x, r, reason, down) ==
  /\ x \in ResourceType /\ SameLine(x, r) /\ x.co = r.co
  /\ mode # "Polling" /\ ~r.mon => ~x.mon
  /\ r.off => SameCheck(x, r) /\ x.rec = r.rec
  /\ ~r.off /\ down => SameCheck(x, r) /\ x.rec
  /\ ~r.off /\ ~down => ~x.rec
  /\ ~r.off /\ ~down /\ reason = "Assert" => x.check /\ x.timer /\ ~x.own
  /\ ~r.off /\ ~down /\ reason = "Deassert" => ~x.check
  /\ ~r.off /\ ~down /\ reason = "Refresh" => SameCheck(x, r)

LEMMA UpdateFacts ==
  ASSUME NEW r \in ResourceType, NEW reason \in {"Assert", "Deassert", "Refresh"},
         NEW down \in BOOLEAN, endpoint \in BOOLEAN
  PROVE  Updated(updateERoTHealth(r, reason, down), r, reason, down)
<1> DEFINE x == updateERoTHealth(r, reason, down)
<1>0. r.off \in BOOLEAN
  BY DEF ResourceType
<1>1. CASE r.off
  <2>1. x = [r EXCEPT !.health = "off"]
    BY <1>1 DEF updateERoTHealth
  <2> HIDE DEF x
  <2>2. /\ x \in ResourceType /\ SameLine(x, r) /\ SameCheck(x, r) /\ x.co = r.co /\ x.rec = r.rec
        /\ x.mon = r.mon
    BY <2>1 DEF ResourceType, SameLine, SameCheck
  <2> QED
    BY <1>1, <2>2 DEF Updated, x
<1>2. CASE ~r.off /\ down
  <2>1. x = InRecovery(r)
    BY <1>2 DEF updateERoTHealth
  <2> HIDE DEF x
  <2>2. /\ x \in ResourceType /\ SameLine(x, r) /\ SameCheck(x, r) /\ x.co = r.co /\ x.rec
        /\ mode # "Polling" => x.mon = r.mon
    BY <2>1, RecoveryFacts
  <2> QED
    BY <1>2, <2>2 DEF Updated, x
<1>3. CASE ~r.off /\ ~down
  <2> DEFINE y == IF reason = "Deassert" THEN [stopAPBootStatusCheck(r) EXCEPT !.ap = "none"] ELSE r
             z == [LeaveRecovery(y) EXCEPT !.health = "healthy"]
             t == triggerMctpDiscovery(z)
  <2>1. x = IF reason = "Assert" THEN startAPBootStatusCheck(t) ELSE z
    BY <1>3 DEF updateERoTHealth
  <2>2. /\ y \in ResourceType /\ SameLine(y, r) /\ y.co = r.co /\ y.mon = r.mon
        /\ reason = "Deassert" => ~y.check
        /\ reason # "Deassert" => SameCheck(y, r)
    BY ClearFacts DEF SameLine, SameCheck
  <2> HIDE DEF y, x
  <2>3. /\ z \in ResourceType /\ SameLine(z, y) /\ SameCheck(z, y) /\ z.co = y.co /\ ~z.rec
        /\ z.mon => y.mon
    BY <2>2, LeaveFacts
  <2> HIDE DEF z
  <2>4. /\ t \in ResourceType /\ SameLine(t, z) /\ SameCheck(t, z) /\ t.co = z.co /\ t.rec = z.rec
        /\ t.mon = z.mon
    BY <2>3, TriggerFacts
  <2> HIDE DEF t
  <2>5. LET s == startAPBootStatusCheck(t)
        IN  /\ s \in ResourceType /\ SameLine(s, t) /\ s.co = t.co /\ s.rec = t.rec /\ s.mon = t.mon
            /\ s.check /\ s.timer /\ ~s.own
    BY <2>4, OpenFacts
  <2>6. CASE reason = "Assert"
    BY <1>3, <2>1, <2>2, <2>3, <2>4, <2>5, <2>6 DEF Updated, SameLine, x
  <2>7. CASE reason # "Assert"
    BY <1>3, <2>1, <2>2, <2>3, <2>7 DEF Updated, SameLine, SameCheck, x
  <2> QED
    BY <2>6, <2>7
<1> QED
  BY <1>0, <1>1, <1>2, <1>3

-----------------------------------------------------------------------------
(* The handlers of the resource, while the world stands still.             *)

(* x is a resource that a handler left behind, r the one it found: the     *)
(* report is still tended, and a check that stays with its query stays     *)
(* with what is pending.                                                   *)
Keeps(x, r) ==
  /\ Tended(r) => Tended(x)
  /\ x.check /\ x.own => r.check /\ r.own /\ (Pending(r) => Pending(x))

(* What a handler needs of the resource and must leave.                    *)
Fit(r) == r \in ResourceType /\ Handles(r) /\ Driven(r)
Kept(x, r) == Fit(x) /\ x.co = r.co /\ (r.event => x.event)

LEMMA WorldFacts ==
  ASSUME WorldTypes
  PROVE  /\ endpoint \in BOOLEAN /\ erotDown \in BOOLEAN /\ lineUp \in BOOLEAN /\ alive \in BOOLEAN
         /\ chassis \in BOOLEAN /\ excused \in BOOLEAN /\ Level \in BOOLEAN
         /\ Known(Level) \in {"asserted", "deasserted"} /\ ReasonOf(Level) \in {"Assert", "Deassert"}
         /\ Level => Known(Level) = "asserted" /\ ReasonOf(Level) = "Assert"
  BY DEF WorldTypes, Level, Known, ReasonOf

LEMMA KeepsTrans ==
  ASSUME NEW x, NEW y, NEW r, Keeps(x, y), Keeps(y, r)
  PROVE  Keeps(x, r)
  BY DEF Keeps

(* A change of fields that no report depends on.                           *)
LEMMA KeepsSame ==
  ASSUME NEW x, NEW r, SameLine(x, r), SameCheck(x, r), x.rec = r.rec
  PROVE  Keeps(x, r)
  BY DEF Keeps, Tended, Pending, SameLine, SameCheck

LEMMA UpdateKept ==
  ASSUME NEW x, NEW r, Fit(r), NEW reason \in {"Assert", "Deassert", "Refresh"}, NEW down \in BOOLEAN,
         Updated(x, r, reason, down)
  PROVE  Kept(x, r)
<1>1. x \in ResourceType /\ x.co = r.co /\ r.off \in BOOLEAN
  BY DEF Updated, Fit, ResourceType
<1>2. Handles(x)
  BY DEF Updated, Fit, Handles, SameLine
<1>3. Driven(x)
  BY <1>1 DEF Updated, Fit, Driven, SameCheck
<1> QED
  BY <1>1, <1>2, <1>3 DEF Kept, Fit, Updated, SameLine

LEMMA UpdateKeeps ==
  ASSUME NEW x, NEW r \in ResourceType, NEW reason \in {"Assert", "Refresh"}, NEW down \in BOOLEAN,
         Updated(x, r, reason, down), Probe(down),
         reason = "Refresh" => mode # "Polling"
  PROVE  Keeps(x, r)
<1>0. r.off \in BOOLEAN /\ SameLine(x, r)
  BY DEF ResourceType, Updated
<1>1. CASE r.off
  BY <1>0, <1>1, KeepsSame DEF Updated
<1>2. CASE ~r.off /\ down
  <2>1. SameCheck(x, r) /\ x.rec
    BY <1>2 DEF Updated
  <2>2. Pending(r) => Pending(x)
    BY <1>0, <2>1 DEF Pending, SameLine
  <2> QED
    BY <2>1, <2>2 DEF Keeps, Tended, SameCheck
<1>3. CASE ~r.off /\ ~down /\ reason = "Assert"
  <2>1. x.check /\ ~x.own
    BY <1>3 DEF Updated
  <2> QED
    BY <2>1 DEF Keeps, Tended
<1>4. CASE ~r.off /\ ~down /\ reason = "Refresh"
  <2>1. SameCheck(x, r) /\ ~erotDown /\ mode # "Polling"
    BY <1>4 DEF Updated, Probe
  <2>2. Pending(r) => Pending(x)
    BY <1>0, <2>1 DEF Pending, SameLine
  <2> QED
    BY <2>1, <2>2 DEF Keeps, Tended, SameCheck
<1> QED
  BY <1>0, <1>1, <1>2, <1>3, <1>4

(* pollGpio.                                                               *)
LEMMA PollFacts ==
  ASSUME WorldTypes, NEW r, Fit(r), mode = "Polling", NEW down \in BOOLEAN, Probe(down)
  PROVE  LET x == pollGpio(r, down)
         IN  Kept(x, r) /\ (Level /\ ~r.off => Keeps(x, r))
<1> DEFINE x == pollGpio(r, down)
           s == [r EXCEPT !.line = TRUE, !.last = Known(Level)]
<1>0. r \in ResourceType
  BY DEF Fit
<1>1. CASE ~lineUp
  <2>1. x = [r EXCEPT !.line = FALSE, !.last = "none"]
    BY <1>1 DEF pollGpio
  <2> HIDE DEF x
  <2>2. /\ x \in ResourceType /\ x.co = r.co /\ x.event = r.event /\ x.retry = r.retry
        /\ x.last = "none" /\ SameCheck(x, r)
    BY <1>0, <2>1 DEF ResourceType, SameCheck
  <2>3. Kept(x, r)
    BY <2>2 DEF Kept, Fit, Handles, Driven, SameCheck
  <2>4. Keeps(x, r)
    BY <1>1, <2>2 DEF Keeps, Tended, Pending, SameCheck
  <2> QED
    BY <2>3, <2>4 DEF x
<1>2. CASE lineUp
  <2>1. x = IF r.last = Known(Level) THEN s ELSE updateERoTHealth(s, ReasonOf(Level), down)
    BY <1>2 DEF pollGpio
  <2>2. PICK v \in {"asserted", "deasserted"} : v = Known(Level)
    BY WorldFacts
  <2>3. s = [r EXCEPT !.line = TRUE, !.last = v]
    BY <2>2
  <2> HIDE DEF x, s
  <2>4. /\ s \in ResourceType /\ s.line /\ s.last = v /\ s.event = r.event /\ s.retry = r.retry
        /\ s.off = r.off /\ s.co = r.co /\ s.rec = r.rec /\ SameCheck(s, r)
    BY <1>0, <2>3 DEF ResourceType, SameCheck
  <2>5. Fit(s)
    BY <2>4 DEF Fit, Handles, Driven, SameCheck
  <2>6. CASE r.last = Known(Level)
    <3>1. Keeps(s, r)
      BY <2>2, <2>4, <2>6 DEF Keeps, Tended, Pending, SameCheck
    <3> QED
      BY <2>1, <2>4, <2>5, <2>6, <3>1 DEF Kept, x
  <2>7. CASE r.last # Known(Level)
    <3>1. x = updateERoTHealth(s, ReasonOf(Level), down)
      BY <2>1, <2>7
    <3>2. Updated(x, s, ReasonOf(Level), down)
      BY <2>4, <3>1, UpdateFacts, WorldFacts
    <3>3. Kept(x, r)
      BY <2>4, <2>5, <3>2, UpdateKept, WorldFacts DEF Kept
    <3>4. ASSUME Level, ~r.off PROVE Keeps(x, r)
      <4>1. Updated(x, s, "Assert", down) /\ ~s.off
        BY <2>4, <3>2, <3>4, WorldFacts
      <4>2. CASE down
        <5>1. x.rec /\ SameCheck(x, s)
          BY <4>1, <4>2 DEF Updated
        <5>2. Pending(x)
          BY <5>1 DEF Pending
        <5> QED
          BY <2>4, <5>1, <5>2 DEF Keeps, Tended, SameCheck
      <4>3. CASE ~down
        BY <4>1, <4>3 DEF Updated, Keeps, Tended
      <4> QED
        BY <4>2, <4>3
    <3> QED
      BY <3>3, <3>4 DEF x
  <2> QED
    BY <2>6, <2>7
<1> QED
  BY <1>1, <1>2

(* registerGPIOEvent.                                                      *)
LEMMA RegisterFacts ==
  ASSUME WorldTypes, NEW r, Fit(r), mode # "Polling", NEW down \in BOOLEAN, Probe(down), NEW read \in BOOLEAN
  PROVE  LET x == registerGPIOEvent(r, down, read)
         IN  /\ Fit(x) /\ x.co = r.co /\ (lineUp => x.event)
             /\ Level /\ read /\ ~r.off /\ down = erotDown => Keeps(x, r)
             /\ x.off = r.off
<1> DEFINE x == registerGPIOEvent(r, down, read)
           s == [r EXCEPT !.line = TRUE, !.event = TRUE, !.retry = FALSE]
<1>0. r \in ResourceType
  BY DEF Fit
<1>1. CASE ~lineUp
  <2>1. x = [r EXCEPT !.line = FALSE, !.event = FALSE, !.last = "none", !.retry = TRUE]
    BY <1>1 DEF registerGPIOEvent
  <2> HIDE DEF x
  <2>2. /\ x \in ResourceType /\ x.co = r.co /\ x.event = FALSE /\ x.line = FALSE /\ x.mon = r.mon
        /\ x.off = r.off /\ SameCheck(x, r)
    BY <1>0, <2>1 DEF ResourceType, SameCheck
  <2>3. Fit(x) /\ x.co = r.co
    BY <2>2 DEF Fit, Handles, Driven, SameCheck
  <2>4. Keeps(x, r)
    BY <1>1, <2>2 DEF Keeps, Tended, Pending, SameCheck
  <2> QED
    BY <1>1, <2>2, <2>3, <2>4 DEF x
<1>2. CASE lineUp
  <2>1. x = IF read /\ Level THEN updateERoTHealth(s, "Assert", down) ELSE s
    BY <1>2 DEF registerGPIOEvent
  <2>2. /\ s \in ResourceType /\ s.line /\ s.event /\ s.mon = r.mon
        /\ s.off = r.off /\ s.co = r.co /\ SameCheck(s, r)
    BY <1>0 DEF ResourceType, SameCheck
  <2> HIDE DEF x, s
  <2>3. Fit(s)
    BY <2>2 DEF Fit, Handles, Driven, SameCheck
  <2>4. CASE ~(read /\ Level)
    BY <1>2, <2>1, <2>2, <2>3, <2>4 DEF x
  <2>5. CASE read /\ Level
    <3>1. Updated(x, s, "Assert", down)
      BY <2>1, <2>2, <2>5, UpdateFacts, WorldFacts
    <3>2. Fit(x) /\ x.co = r.co
      BY <2>2, <2>3, <3>1, UpdateKept DEF Kept
    <3>3. x.off = r.off /\ x.event
      BY <2>2, <3>1 DEF Updated, SameLine
    <3>4. ASSUME ~r.off, down = erotDown PROVE Keeps(x, r)
      <4>1. CASE down
        <5>1. x.rec /\ SameCheck(x, s) /\ erotDown
          BY <2>2, <3>1, <3>4, <4>1 DEF Updated
        <5>2. Pending(x)
          BY <5>1 DEF Pending
        <5> QED
          BY <2>2, <5>1, <5>2 DEF Keeps, Tended, SameCheck
      <4>2. CASE ~down
        BY <2>2, <3>1, <3>4, <4>2 DEF Updated, Keeps, Tended
      <4> QED
        BY <4>1, <4>2
    <3> QED
      BY <1>2, <3>2, <3>3, <3>4 DEF x
  <2> QED
    BY <2>4, <2>5, WorldFacts
<1> QED
  BY <1>1, <1>2, WorldFacts

(* updateHealth, with its chassis signal.                                  *)
LEMMA HealthFacts ==
  ASSUME WorldTypes, NEW r, Fit(r), NEW down \in BOOLEAN, Probe(down)
  PROVE  LET x == updateHealth(r, down)
         IN  Kept(x, r) /\ (Level /\ ~r.off => Keeps(x, r))
<1>1. CASE mode = "Polling"
  BY <1>1, PollFacts DEF updateHealth
<1>2. CASE mode # "Polling"
  <2> DEFINE x == updateERoTHealth(r, "Refresh", down)
  <2>1. Updated(x, r, "Refresh", down) /\ r \in ResourceType
    BY UpdateFacts, WorldFacts DEF Fit
  <2>2. updateHealth(r, down) = x
    BY <1>2 DEF updateHealth
  <2> HIDE DEF x
  <2>3. Kept(x, r) /\ Keeps(x, r)
    BY <1>2, <2>1, UpdateKept, UpdateKeeps
  <2> QED
    BY <1>2, <2>2, <2>3
<1> QED
  BY <1>1, <1>2

(* reevaluateERoTHealthAfterRecovery: an asserted line is never taken for  *)
(* a deasserted one.                                                       *)
LEMMA RecheckFacts ==
  ASSUME WorldTypes, NEW r, Fit(r), mode = "Polling", NEW down \in BOOLEAN, Probe(down)
  PROVE  LET x == reevaluateERoTHealthAfterRecovery(r, down)
         IN  Kept(x, r) /\ (Level => Keeps(x, r))
<1> DEFINE reason == IF r.line /\ lineUp THEN ReasonOf(Level)
                     ELSE IF ~r.line /\ r.last = "deasserted" THEN "Deassert" ELSE "Assert"
           x == reevaluateERoTHealthAfterRecovery(r, down)
<1>1. reason \in {"Assert", "Deassert"}
  BY WorldFacts
<1>2. Level => reason = "Assert"
  BY WorldFacts DEF Fit, Handles
<1>3. x = updateERoTHealth(r, reason, down)
  BY DEF reevaluateERoTHealthAfterRecovery
<1> HIDE DEF reason, x
<1>4. r \in ResourceType /\ Updated(x, r, reason, down)
  BY <1>1, <1>3, UpdateFacts, WorldFacts DEF Fit
<1>5. Kept(x, r)
  BY <1>1, <1>4, UpdateKept
<1>6. Level => Keeps(x, r)
  BY <1>2, <1>4, UpdateKeeps
<1> QED
  BY <1>5, <1>6 DEF x

-----------------------------------------------------------------------------
(* The queries.                                                            *)

(* x is r after the coroutines in C were resumed.                          *)
Finished(x, r, C) == Fit(x) /\ x.co = r.co \ C /\ (r.event => x.event)

LEMMA UnavailableFacts ==
  ASSUME NEW r, r \in ResourceType, Handles(r)
  PROVE  LET x == handleAPBootStatusUnavailable(r)
         IN  Fit(x) /\ x.co = r.co /\ Keeps(x, r) /\ SameLine(x, r)
<1> DEFINE x == handleAPBootStatusUnavailable(r)
           d == [stopAPBootStatusCheck(r) EXCEPT !.ap = "Degraded"]
<1>0. r.check \in BOOLEAN /\ r.tries \in 0..MaxTries /\ MaxTries \in Nat
  BY ErotAssumption DEF ResourceType
<1>1. CASE ~r.check
  <2>1. x = r
    BY <1>1 DEF handleAPBootStatusUnavailable
  <2> QED
    BY <1>1, <2>1, KeepsSame DEF Fit, Driven, SameLine, SameCheck
<1>2. CASE r.check /\ r.tries >= MaxTries
  <2>1. x = d
    BY <1>2 DEF handleAPBootStatusUnavailable
  <2> HIDE DEF x
  <2>2. /\ x \in ResourceType /\ SameLine(x, r) /\ x.co = r.co /\ x.mon = r.mon
        /\ ~x.check /\ x.ap = "Degraded"
    BY <2>1, ClearFacts
  <2>3. Fit(x)
    BY <2>2 DEF Fit, Handles, Driven, SameLine
  <2>4. Keeps(x, r)
    BY <2>2 DEF Keeps, Tended
  <2> QED
    BY <2>2, <2>3, <2>4 DEF x
<1>3. CASE r.check /\ ~(r.tries >= MaxTries)
  <2>1. x = [r EXCEPT !.tries = r.tries + 1, !.timer = TRUE]
    BY <1>3 DEF handleAPBootStatusUnavailable
  <2>2. PICK n \in 0..MaxTries : n = r.tries + 1
    BY <1>0, <1>3
  <2>3. x = [r EXCEPT !.tries = n, !.timer = TRUE]
    BY <2>1, <2>2
  <2> HIDE DEF x
  <2>4. /\ x \in ResourceType /\ SameLine(x, r) /\ x.co = r.co /\ x.mon = r.mon /\ x.timer
        /\ x.check = r.check /\ x.ap = r.ap /\ x.own = r.own /\ x.rec = r.rec
    BY <2>3 DEF ResourceType, SameLine
  <2>5. Fit(x)
    BY <2>4 DEF Fit, Handles, Driven, SameLine
  <2>6. Keeps(x, r)
    BY <2>4 DEF Keeps, Tended, Pending, SameLine
  <2> QED
    BY <2>4, <2>5, <2>6 DEF x
<1> QED
  BY <1>0, <1>1, <1>2, <1>3

(* A coroutine is taken out of the suspended ones.                         *)
LEMMA DropFacts ==
  ASSUME NEW r \in ResourceType, Handles(r), NEW c \in {"ap", "exit"}
  PROVE  LET h == [r EXCEPT !.co = @ \ {c}]
         IN  /\ h \in ResourceType /\ Handles(h) /\ h.co = r.co \ {c} /\ h.mon = r.mon
             /\ SameLine(h, r) /\ SameCheck(h, r) /\ h.rec = r.rec /\ Keeps(h, r)
<1> DEFINE h == [r EXCEPT !.co = @ \ {c}]
<1>1. /\ h \in ResourceType /\ h.co = r.co \ {c} /\ h.mon = r.mon
      /\ SameLine(h, r) /\ SameCheck(h, r) /\ h.rec = r.rec
  BY DEF ResourceType, SameLine, SameCheck
<1> HIDE DEF h
<1>2. Handles(h)
  BY <1>1 DEF Handles, SameLine
<1> QED
  BY <1>1, <1>2, KeepsSame DEF h

(* queryAPBootStatusAsync; only the answer that the AP booted can drop a   *)
(* report.                                                                 *)
LEMMA ApFacts ==
  ASSUME NEW r \in ResourceType, Handles(r), NEW a
  PROVE  LET x == APQueryAnswered(r, a)
         IN  /\ Fit(x) /\ x.co = r.co \ {"ap"} /\ SameLine(x, r)
             /\ ~r.check \/ a # "complete" \/ Pending(r) => Keeps(x, r)
<1> DEFINE x == APQueryAnswered(r, a)
           h == [r EXCEPT !.co = @ \ {"ap"}]
           u == handleAPBootStatusUnavailable(h)
<1>1. /\ h \in ResourceType /\ Handles(h) /\ h.co = r.co \ {"ap"} /\ h.mon = r.mon
      /\ SameLine(h, r) /\ SameCheck(h, r) /\ h.rec = r.rec /\ Keeps(h, r)
  BY DropFacts
<1>2. x = IF ~h.check THEN h ELSE IF a = "null" THEN u ELSE handleAPBootStatus(h, a)
  BY DEF APQueryAnswered
<1> HIDE DEF x, h
<1>3. CASE ~h.check
  <2>1. Fit(x) /\ x = h
    BY <1>1, <1>2, <1>3 DEF Fit, Driven
  <2> QED
    BY <1>1, <2>1 DEF x
<1>4. CASE h.check /\ a \in {"fatal", "complete"}
  <2>1. PICK p \in {"none", "Standby", "Degraded"} :
           x = [stopAPBootStatusCheck(h) EXCEPT !.ap = p] /\ (p = "none" => a = "complete")
    BY <1>2, <1>4 DEF handleAPBootStatus
  <2>2. /\ x \in ResourceType /\ SameLine(x, h) /\ x.co = h.co /\ x.mon = h.mon /\ x.rec = h.rec
        /\ ~x.check /\ x.ap = p
    BY <1>1, <2>1, ClearFacts
  <2>3. Fit(x) /\ SameLine(x, r)
    BY <1>1, <2>2 DEF Fit, Handles, Driven, SameLine
  <2>4. ~r.check \/ a # "complete" \/ Pending(r) => Tended(x)
    BY <1>1, <1>4, <2>1, <2>2, <2>3 DEF Tended, Pending, SameLine, SameCheck
  <2> QED
    BY <1>1, <2>2, <2>3, <2>4 DEF Keeps, x
<1>5. CASE h.check /\ a \notin {"fatal", "complete"}
  <2>1. x = u
    BY <1>2, <1>5 DEF handleAPBootStatus
  <2>2. Fit(u) /\ u.co = h.co /\ Keeps(u, h) /\ SameLine(u, h)
    BY <1>1, UnavailableFacts
  <2> QED
    BY <1>1, <2>1, <2>2, KeepsTrans DEF SameLine, x
<1> QED
  BY <1>3, <1>4, <1>5

(* queryERoTExitAsync.                                                     *)
LEMMA ExitFacts ==
  ASSUME WorldTypes, NEW r, Fit(r), NEW a, NEW down \in BOOLEAN, Probe(down)
  PROVE  LET x == ExitQueryAnswered(r, a, down)
         IN  Finished(x, r, {"exit"}) /\ (Level => Keeps(x, r))
<1> DEFINE x == ExitQueryAnswered(r, a, down)
           h == [r EXCEPT !.co = @ \ {"exit"}]
<1>1. /\ h \in ResourceType /\ Handles(h) /\ h.co = r.co \ {"exit"} /\ h.mon = r.mon
      /\ SameLine(h, r) /\ SameCheck(h, r) /\ h.rec = r.rec /\ Keeps(h, r)
  BY DropFacts DEF Fit
<1>2. Fit(h) /\ h.event = r.event
  BY <1>1 DEF Fit, Driven, SameCheck, SameLine
<1>3. x = IF ~h.mon THEN h ELSE IF a = "null" THEN triggerMctpDiscovery(h)
          ELSE reevaluateERoTHealthAfterRecovery(h, down)
  BY DEF ExitQueryAnswered
<1> HIDE DEF x, h
<1>4. CASE ~h.mon
  BY <1>1, <1>2, <1>3, <1>4 DEF Finished, x
<1>5. CASE h.mon /\ a = "null"
  <2>1. /\ x \in ResourceType /\ SameLine(x, h) /\ SameCheck(x, h)
        /\ x.co = h.co /\ x.rec = h.rec /\ x.mon = h.mon
    BY <1>1, <1>3, <1>5, TriggerFacts, WorldFacts
  <2>2. Fit(x) /\ x.event = r.event
    BY <1>2, <2>1 DEF Fit, Handles, Driven, SameLine, SameCheck
  <2>3. Keeps(x, r)
    BY <1>1, <2>1, KeepsSame, KeepsTrans
  <2> QED
    BY <1>1, <2>1, <2>2, <2>3 DEF Finished, x
<1>6. CASE h.mon /\ a # "null"
  <2>1. mode = "Polling"
    BY <1>1, <1>6 DEF Handles
  <2>2. Kept(x, h) /\ (Level => Keeps(x, h))
    BY <1>2, <1>3, <1>6, <2>1, RecheckFacts
  <2>3. Level => Keeps(x, r)
    BY <1>1, <2>2, KeepsTrans
  <2> QED
    BY <1>1, <1>2, <2>2, <2>3 DEF Finished, Kept, x
<1> QED
  BY <1>4, <1>5, <1>6

(* The coroutines in C, one after the other.                               *)
LEMMA ResumedFacts ==
  ASSUME WorldTypes, NEW r, Fit(r), NEW C, NEW a, NEW down \in BOOLEAN, Probe(down)
  PROVE  LET x == Resumed(r, C, a, down)
         IN  /\ Finished(x, r, C)
             /\ Level /\ ("ap" \in C => ~r.check \/ a # "complete" \/ Pending(r)) => Keeps(x, r)
<1> DEFINE y == IF "ap" \in C THEN APQueryAnswered(r, a) ELSE r
           x == Resumed(r, C, a, down)
<1>1. x = IF "exit" \in C THEN ExitQueryAnswered(y, a, down) ELSE y
  BY DEF Resumed
<1>2. r \in ResourceType /\ Handles(r) /\ r.co \subseteq {"ap", "exit"}
  BY DEF Fit, ResourceType
<1>3. /\ Finished(y, r, C \cap {"ap"})
      /\ ("ap" \in C => ~r.check \/ a # "complete" \/ Pending(r)) => Keeps(y, r)
  <2>1. CASE "ap" \in C
    <3>1. C \cap {"ap"} = {"ap"}
      BY <2>1
    <3>2. /\ Fit(y) /\ y.co = r.co \ {"ap"} /\ SameLine(y, r)
          /\ ~r.check \/ a # "complete" \/ Pending(r) => Keeps(y, r)
      BY <1>2, <2>1, ApFacts
    <3> QED
      BY <2>1, <3>1, <3>2 DEF Finished, SameLine
  <2>2. CASE "ap" \notin C
    <3>1. y = r /\ C \cap {"ap"} = {}
      BY <2>2
    <3> QED
      BY <3>1, KeepsSame DEF Finished, SameLine, SameCheck
  <2> QED
    BY <2>1, <2>2
<1> HIDE DEF x, y
<1>4. CASE "exit" \in C
  <2>1. Finished(x, y, {"exit"}) /\ (Level => Keeps(x, y))
    BY <1>1, <1>3, <1>4, ExitFacts DEF Finished
  <2>2. Finished(x, r, C)
    <3>1. (r.co \ (C \cap {"ap"})) \ {"exit"} = r.co \ C
      BY <1>2, <1>4
    <3> QED
      BY <1>3, <2>1, <3>1 DEF Finished
  <2> QED
    BY <1>3, <2>1, <2>2, KeepsTrans DEF x
<1>5. CASE "exit" \notin C
  <2>1. r.co \ (C \cap {"ap"}) = r.co \ C
    BY <1>2, <1>5
  <2> QED
    BY <1>1, <1>3, <1>5, <2>1 DEF Finished, x
<1> QED
  BY <1>4, <1>5

(* Queries that end without an answer drop no report.                      *)
LEMMA NullFacts ==
  ASSUME WorldTypes, NEW r, Fit(r), NEW C
  PROVE  LET x == Resumed(r, C, "null", TRUE)
         IN  Finished(x, r, C) /\ (Level => Keeps(x, r))
<1>1. Probe(TRUE) /\ TRUE \in BOOLEAN /\ "null" # "complete"
  BY DEF Probe
<1>2. PICK a : a = "null"
  OBVIOUS
<1>3. /\ Finished(Resumed(r, C, a, TRUE), r, C)
      /\ Level => Keeps(Resumed(r, C, a, TRUE), r)
  BY <1>1, <1>2, ResumedFacts
<1> QED
  BY <1>2, <1>3

-----------------------------------------------------------------------------
(* The requester.                                                          *)
LEMMA NewFacts ==
  /\ NewResource \in ResourceType /\ NewRequester \in RequesterType
  /\ NewResource.co = {} /\ ~NewResource.check /\ ~NewResource.off
  /\ ~NewResource.event /\ ~NewResource.line /\ NewResource.last = "none" /\ ~NewResource.retry
  /\ ~NewResource.own
  /\ Sane(NewResource, NewRequester)
<1>1. 0 \in 0..MaxTries
  BY ErotAssumption
<1>2. /\ NewResource \in ResourceType
      /\ NewResource.co = {} /\ ~NewResource.check /\ ~NewResource.off /\ ~NewResource.mon
      /\ NewResource.event = FALSE /\ NewResource.line = FALSE /\ NewResource.last = "none"
      /\ ~NewResource.retry /\ ~NewResource.own
  BY <1>1 DEF NewResource, ResourceType
<1>3. NoEntry \in EntryType /\ NoEntry.client = "none" /\ NoEntry.st = "none"
  BY DEF NoEntry, EntryType
<1>4. NewRequester \in RequesterType /\ NewRequester.entry = [i \in Ids |-> NoEntry]
  BY <1>3 DEF NewRequester, RequesterType
<1>5. Paired(NewResource, NewRequester.entry) /\ Hollowed(NewRequester.entry)
  BY <1>2, <1>3, <1>4 DEF Paired, Hollowed
<1>6. Handles(NewResource) /\ Driven(NewResource)
  BY <1>2 DEF Handles, Driven
<1> QED
  BY <1>2, <1>4, <1>5, <1>6 DEF Sane

(* The requests of the entries in F ended: their coroutines were resumed   *)
(* and the entries are gone.                                               *)
LEMMA EndedPairs ==
  ASSUME NEW r, NEW y, NEW e, NEW f, NEW F \in SUBSET Ids, Paired(r, e),
         y.co = r.co \ {e[i].client : i \in F},
         \A i \in Ids : f[i].client = IF i \in F THEN "none" ELSE e[i].client
  PROVE  Paired(y, f)
<1> SUFFICES ASSUME NEW c \in {"ap", "exit"}
             PROVE  /\ c \in y.co <=> \E i \in Ids : f[i].client = c
                    /\ \A i, j \in Ids : f[i].client = c /\ f[j].client = c => i = j
  BY DEF Paired
<1>1. /\ c \in r.co <=> \E i \in Ids : e[i].client = c
      /\ \A i, j \in Ids : e[i].client = c /\ e[j].client = c => i = j
  BY DEF Paired
<1>2. \A i \in Ids : f[i].client = c <=> i \notin F /\ e[i].client = c
  OBVIOUS
<1>3. c \in y.co <=> c \in r.co /\ \A i \in F : e[i].client # c
  OBVIOUS
<1> QED
  BY <1>1, <1>2, <1>3

(* A walk over the entries.                                                *)
LEMMA WalksFacts ==
  ASSUME NEW p, NEW sync, NEW x \in Walks(p, sync)
  PROVE  x.failed \subseteq Stopped(p) /\ x.started \subseteq Stopped(p) /\ x.failed \cap x.started = {}
<1>1. CASE Running(p) # {}
  BY <1>1 DEF Walks
<1>2. CASE Running(p) = {}
  <2>1. x \in [failed : SUBSET Stopped(p), started : SUBSET Stopped(p)] /\ x.failed \cap x.started = {}
    BY <1>2 DEF Walks
  <2> QED
    BY <2>1
<1> QED
  BY <1>1, <1>2

LEMMA EraseFacts ==
  ASSUME NEW p \in RequesterType, NEW S \in SUBSET Ids
  PROVE  LET x == Erase(markFree(p, S), S)
         IN  /\ x \in RequesterType /\ x.doomed = p.doomed
             /\ \A i \in Ids : x.entry[i] = IF i \in S THEN NoEntry ELSE p.entry[i]
<1> DEFINE m == markFree(p, S)
           f == [i \in Ids |-> IF i \in S THEN NoEntry ELSE m.entry[i]]
           x == Erase(m, S)
<1>1. NoEntry \in EntryType
  BY DEF NoEntry, EntryType
<1>2. m \in RequesterType /\ m.entry = p.entry /\ m.doomed = p.doomed
  BY DEF markFree, RequesterType
<1> HIDE DEF m
<1>3. f \in [Ids -> EntryType]
  BY <1>1, <1>2 DEF RequesterType
<1>4. x = [m EXCEPT !.entry = f]
  BY DEF Erase
<1> HIDE DEF f
<1>5. x \in RequesterType /\ x.entry = f /\ x.doomed = m.doomed
  BY <1>2, <1>3, <1>4 DEF RequesterType
<1>6. \A i \in Ids : f[i] = IF i \in S THEN NoEntry ELSE p.entry[i]
  BY <1>2 DEF f
<1> QED
  BY <1>2, <1>5, <1>6 DEF m

LEMMA FreedFacts ==
  ASSUME NEW p \in RequesterType, NEW i \in Ids
  PROVE  LET x == markFree(Erase(p, {i}), {i})
         IN  /\ x \in RequesterType /\ x.doomed = p.doomed
             /\ \A j \in Ids : x.entry[j] = IF j = i THEN NoEntry ELSE p.entry[j]
<1> DEFINE f == [j \in Ids |-> IF j \in {i} THEN NoEntry ELSE p.entry[j]]
           y == Erase(p, {i})
<1>1. NoEntry \in EntryType
  BY DEF NoEntry, EntryType
<1>2. f \in [Ids -> EntryType]
  BY <1>1 DEF RequesterType
<1>3. y = [p EXCEPT !.entry = f]
  BY DEF Erase
<1>4. \A j \in Ids : f[j] = IF j = i THEN NoEntry ELSE p.entry[j]
  OBVIOUS
<1> HIDE DEF f, y
<1>5. y \in RequesterType /\ y.entry = f /\ y.doomed = p.doomed
  BY <1>2, <1>3 DEF RequesterType
<1>6. LET x == markFree(y, {i}) IN x \in RequesterType /\ x.entry = y.entry /\ x.doomed = y.doomed
  BY <1>5 DEF markFree, RequesterType
<1> QED
  BY <1>4, <1>5, <1>6 DEF y

(* runRegisteredRequest: the failed entries are gone, the started one is   *)
(* the query's as before.                                                  *)
LEMMA RunFacts ==
  ASSUME NEW p \in RequesterType, NEW sync, NEW x \in Walks(p, sync), Hollowed(p.entry)
  PROVE  LET n == runRegisteredRequest(p, x)
         IN  /\ n \in RequesterType /\ n.doomed = p.doomed /\ Hollowed(n.entry)
             /\ \A i \in Ids : n.entry[i].client = IF i \in x.failed THEN "none" ELSE p.entry[i].client
<1>1. /\ x.failed \subseteq Stopped(p) /\ x.started \subseteq Stopped(p)
      /\ x.failed \cap x.started = {} /\ Stopped(p) \subseteq Ids
  BY WalksFacts DEF Stopped
<1> DEFINE m == Erase(markFree(p, x.failed), x.failed)
           f == [i \in Ids |-> IF i \in x.started THEN [m.entry[i] EXCEPT !.st = "running"] ELSE m.entry[i]]
           n == runRegisteredRequest(p, x)
<1>2. /\ m \in RequesterType /\ m.doomed = p.doomed
      /\ \A i \in Ids : m.entry[i] = IF i \in x.failed THEN NoEntry ELSE p.entry[i]
  BY <1>1, EraseFacts
<1>3. n = [m EXCEPT !.entry = f]
  BY DEF runRegisteredRequest, Started
<1> HIDE DEF m
<1>4. \A i \in Ids : f[i] = IF i \in x.started THEN [m.entry[i] EXCEPT !.st = "running"] ELSE m.entry[i]
  OBVIOUS
<1>5. ASSUME NEW z \in EntryType
      PROVE  LET s == [z EXCEPT !.st = "running"]
             IN  s \in EntryType /\ s.client = z.client /\ s.st = "running"
  BY DEF EntryType
<1>6. \A i \in Ids : m.entry[i] \in EntryType
  BY <1>2 DEF RequesterType
<1>7. f \in [Ids -> EntryType]
  BY <1>5, <1>6
<1> HIDE DEF f, n
<1>8. n \in RequesterType /\ n.entry = f /\ n.doomed = m.doomed
  BY <1>2, <1>3, <1>7 DEF RequesterType
<1>9. NoEntry.client = "none" /\ NoEntry.st = "none"
  BY DEF NoEntry
<1>10. \A i \in Ids : n.entry[i].client = m.entry[i].client
                      /\ n.entry[i].st = IF i \in x.started THEN "running" ELSE m.entry[i].st
  BY <1>4, <1>5, <1>6, <1>8
<1>11. \A i \in Ids : n.entry[i].client = IF i \in x.failed THEN "none" ELSE p.entry[i].client
  BY <1>2, <1>9, <1>10
<1>12. \A i \in x.started : p.entry[i].st \in {"queued", "expired"} /\ i \notin x.failed
  BY <1>1 DEF Stopped
<1>13. Hollowed(n.entry)
  <2> SUFFICES ASSUME NEW i \in Ids
               PROVE  n.entry[i].client = "none" <=> n.entry[i].st \in {"none", "hollow"}
    BY DEF Hollowed
  <2>1. p.entry[i].client = "none" <=> p.entry[i].st \in {"none", "hollow"}
    BY DEF Hollowed
  <2>2. CASE i \in x.started
    BY <1>10, <1>11, <1>12, <2>1, <2>2
  <2>3. CASE i \in x.failed
    BY <1>2, <1>9, <1>10, <1>12, <2>3
  <2>4. CASE i \notin x.started /\ i \notin x.failed
    BY <1>2, <1>10, <2>1, <2>4
  <2> QED
    BY <2>2, <2>3, <2>4
<1> QED
  BY <1>2, <1>8, <1>11, <1>13 DEF n

(* The wire and the inbox after messages were sent, taken or marked old.   *)
LEMMA SentFacts ==
  ASSUME NEW w \in SUBSET [id: Ids, old: BOOLEAN], NEW S \in SUBSET Ids
  PROVE  Sent(w, S) \subseteq [id: Ids, old: BOOLEAN]
<1>1. \A i \in S : [id |-> i, old |-> FALSE] \in [id: Ids, old: BOOLEAN]
  OBVIOUS
<1>2. w \cup {[id |-> i, old |-> FALSE] : i \in S} \subseteq [id: Ids, old: BOOLEAN]
  BY <1>1
<1> QED
  BY <1>2 DEF Sent

LEMMA OldFacts ==
  ASSUME WorldTypes, NEW S \in SUBSET Ids
  PROVE  {[m EXCEPT !.old = @ \/ m.id \in S] : m \in wire} \subseteq [id: Ids, old: BOOLEAN]
<1>1. ASSUME NEW m \in wire PROVE [m EXCEPT !.old = @ \/ m.id \in S] \in [id: Ids, old: BOOLEAN]
  <2>1. m \in [id: Ids, old: BOOLEAN]
    BY DEF WorldTypes
  <2>2. PICK b \in BOOLEAN : b = (m.old \/ m.id \in S)
    OBVIOUS
  <2>3. [m EXCEPT !.old = b] \in [id: Ids, old: BOOLEAN]
    BY <2>1
  <2> QED
    BY <2>2, <2>3
<1> QED
  BY <1>1

(* The end of a requester's handler: it crashes on a hollow entry, or the  *)
(* failed sends end their queries.                                         *)
Crashed ==
  alive' = FALSE /\ g' = NewResource /\ q' = NewRequester /\ UNCHANGED wire
Walked(r, p) ==
  /\ alive' = alive /\ Sane(g', q') /\ (r.event => g'.event)
  /\ Level => Keeps(g', r)
  /\ \A i \in Ids : q'.entry[i].client = "ap" => p.entry[i].client = "ap"
  /\ wire' \subseteq [id: Ids, old: BOOLEAN]

LEMMA WalkFacts ==
  ASSUME WorldTypes, NEW p, NEW sync \in SUBSET Ids, NEW r, NEW cost, Sane(r, p),
         Walk(p, sync, r, cost)
  PROVE  Crashed \/ Walked(r, p)
<1>1. CASE MayCrash(p) /\ alive' = FALSE /\ UNCHANGED <<spent, wire>> /\ q' = NewRequester /\ g' = NewResource
  BY <1>1 DEF Crashed
<1>2. CASE /\ UNCHANGED alive
           /\ \E x \in Walks(p, sync) :
                /\ Spend(cost + Cardinality(x.failed))
                /\ q' = runRegisteredRequest(p, x)
                /\ g' = Resumed(r, ClientsOf(p, x.failed), "null", TRUE)
                /\ wire' = Sent({[m EXCEPT !.old = @ \/ m.id \in sync] : m \in wire}, x.started)
  <2>1. PICK x \in Walks(p, sync) :
                /\ q' = runRegisteredRequest(p, x)
                /\ g' = Resumed(r, ClientsOf(p, x.failed), "null", TRUE)
                /\ wire' = Sent({[m EXCEPT !.old = @ \/ m.id \in sync] : m \in wire}, x.started)
    BY <1>2
  <2>2. x.failed \subseteq Ids /\ x.started \subseteq Ids
    BY WalksFacts DEF Stopped
  <2>3. p \in RequesterType /\ Fit(r) /\ Hollowed(p.entry) /\ Paired(r, p.entry)
    BY DEF Sane, Fit
  <2>4. /\ q' \in RequesterType /\ Hollowed(q'.entry)
        /\ \A i \in Ids : q'.entry[i].client = IF i \in x.failed THEN "none" ELSE p.entry[i].client
    BY <2>1, <2>3, RunFacts
  <2>5. /\ Finished(g', r, ClientsOf(p, x.failed)) /\ (Level => Keeps(g', r))
    BY <2>1, <2>3, NullFacts
  <2>6. Paired(g', q'.entry)
    BY <2>2, <2>3, <2>4, <2>5, EndedPairs DEF Finished, ClientsOf
  <2>7. Sane(g', q') /\ (r.event => g'.event)
    BY <2>4, <2>5, <2>6 DEF Sane, Finished, Fit
  <2>8. wire' \subseteq [id: Ids, old: BOOLEAN]
    BY <2>1, <2>2, OldFacts, SentFacts
  <2> QED
    BY <1>2, <2>4, <2>5, <2>7, <2>8 DEF Walked
<1> QED
  BY <1>1, <1>2 DEF Walk

(* No message is new and no entry becomes the AP query's.                  *)
LEMMA FreshKeeps ==
  ASSUME NEW r, NEW x, NEW e, NEW f, NEW box, NEW box2, Fresh(r, e, box), Keeps(x, r),
         \A i \in Ids : f[i].client = "ap" => e[i].client = "ap",
         \A m \in box2 : m.id \in Ids /\ (~m.old =>
            \E k \in box : ~k.old /\ k.id = m.id /\ k.ans = m.ans)
  PROVE  Fresh(x, f, box2)
  BY DEF Fresh, Keeps

Responses == [id: Ids, old: BOOLEAN, ans: {"booting", "complete", "fatal"}]

(* The responses to older queries of the id i are told apart.              *)
LEMMA AgedFacts ==
  ASSUME WorldTypes, NEW i \in Ids
  PROVE  LET aged == {[m EXCEPT !.old = @ \/ m.id = i] : m \in inbox}
         IN  /\ aged \subseteq Responses
             /\ \A n \in aged : n.id \in Ids /\ (n.id = i => n.old) /\ (~n.old =>
                   \E k \in inbox : ~k.old /\ k.id = n.id /\ k.ans = n.ans)
<1> DEFINE aged == {[m EXCEPT !.old = @ \/ m.id = i] : m \in inbox}
<1>1. ASSUME NEW n \in aged
      PROVE  /\ n \in Responses /\ (n.id = i => n.old)
             /\ ~n.old => \E k \in inbox : ~k.old /\ k.id = n.id /\ k.ans = n.ans
  <2>1. PICK m \in inbox : n = [m EXCEPT !.old = @ \/ m.id = i]
    OBVIOUS
  <2>2. m \in Responses
    BY DEF WorldTypes, Responses
  <2>3. PICK b \in BOOLEAN : b = (m.old \/ m.id = i)
    OBVIOUS
  <2>4. n = [m EXCEPT !.old = b]
    BY <2>1, <2>3
  <2>5. n \in Responses /\ n.id = m.id /\ n.old = b /\ n.ans = m.ans
    BY <2>2, <2>4 DEF Responses
  <2> QED
    BY <2>3, <2>5
<1> HIDE DEF aged
<1>2. \A n \in aged : n.id \in Ids
  BY <1>1 DEF Responses
<1> QED
  BY <1>1, <1>2 DEF aged

LEMMA RegisteredFacts ==
  ASSUME NEW p \in RequesterType, NEW i \in Ids, NEW c \in {"ap", "exit"}, Hollowed(p.entry)
  PROVE  LET x == registerRequest(p, i, c)
         IN  /\ x \in RequesterType /\ Hollowed(x.entry)
             /\ x.entry[i].client = c
<1> DEFINE n == [client |-> c, st |-> "queued", left |-> Resends]
           f == [p.entry EXCEPT ![i] = n]
           x == registerRequest(p, i, c)
<1>1. n \in EntryType /\ n.client = c /\ n.st = "queued"
  BY RequesterAssumption DEF EntryType
<1> HIDE DEF n
<1>2. f \in [Ids -> EntryType] /\ \A j \in Ids : f[j] = IF j = i THEN n ELSE p.entry[j]
  BY <1>1 DEF RequesterType
<1>3. x = [p EXCEPT !.entry = f, !.used = p.used \cup {i}]
  BY DEF registerRequest, RequesterType, n
<1> HIDE DEF f, x
<1>4. x \in RequesterType /\ x.entry = f
  BY <1>2, <1>3 DEF RequesterType
<1>5. Hollowed(x.entry)
  BY <1>1, <1>2, <1>4 DEF Hollowed
<1> QED
  BY <1>1, <1>2, <1>4, <1>5 DEF x

LEMMA OthersFacts ==
  ASSUME NEW p \in RequesterType, NEW i \in Ids, NEW c \in {"ap", "exit"}, Hollowed(p.entry),
         NEW j \in Ids, j # i
  PROVE  registerRequest(p, i, c).entry[j].client = p.entry[j].client
  BY DEF registerRequest, RequesterType

(* A handler that left the resource and the requester right: what was      *)
(* tended to still is.                                                     *)
Answered(r) ==
  /\ alive' = alive /\ Sane(g', q') /\ (r.event => g'.event)
  /\ Level /\ Tended(r) => Tended(g')
  /\ Level /\ Fresh(r, q.entry, inbox) => Fresh(g', q'.entry, inbox')
  /\ wire' \subseteq [id: Ids, old: BOOLEAN] /\ inbox' \subseteq Responses

(* next() gives one id at most.                                            *)
LEMMA OnlyOne == ASSUME NEW p, NEW i \in next(p), NEW j \in next(p) PROVE i = j
<1>1. i <= j /\ j <= i /\ i \in Nat /\ j \in Nat
  BY RequesterAssumption DEF next
<1> QED
  BY <1>1

(* queryBootStatus of a client that has no query under way.                *)
LEMMA QueryFacts ==
  ASSUME WorldTypes, NEW c \in {"ap", "exit"}, NEW r \in ResourceType, Handles(r),
         c = "ap" \/ Driven(r), c \notin r.co, q \in RequesterType, Paired(r, q.entry),
         Hollowed(q.entry), Query(c, r)
  PROVE  /\ Crashed \/ Answered(r)
         /\ inbox' \subseteq Responses
<1> DEFINE asking == [r EXCEPT !.co = @ \cup {c}, !.own = IF c = "ap" THEN TRUE ELSE @]
<1>1. /\ asking \in ResourceType /\ asking.co = r.co \cup {c} /\ SameLine(asking, r)
      /\ asking.check = r.check /\ asking.ap = r.ap /\ asking.timer = r.timer
      /\ asking.rec = r.rec /\ asking.mon = r.mon
      /\ c = "exit" => SameCheck(asking, r)
  BY DEF ResourceType, SameLine, SameCheck
<1>2. Fit(asking)
  BY <1>1 DEF Fit, Handles, Driven, SameLine
<1>3. /\ Tended(r) => Tended(asking)
      /\ c = "exit" => Keeps(asking, r)
  BY <1>1, KeepsSame DEF Tended, Pending, SameLine
<1>4. /\ wire \subseteq [id: Ids, old: BOOLEAN] /\ inbox \subseteq Responses
  BY DEF WorldTypes, Responses
<1>5. \A i \in Ids : q.entry[i].client # c
  BY DEF Paired
<1> DEFINE Refused == g' = Resumed(asking, {c}, "null", TRUE) /\ UNCHANGED <<wire, inbox, alive>>
<1>6. \/ Refused /\ UNCHANGED q
      \/ Refused /\ q' = [q EXCEPT !.used = @ \cup next(q)]
      \/ \E i \in next(q) : /\ i \notin Entries(q)
                            /\ Walk(registerRequest(q, i, c), {i}, asking, 0)
                            /\ inbox' = {[m EXCEPT !.old = @ \/ m.id = i] : m \in inbox}
  <2>1. \A i \in next(q) : ~(next(q) \subseteq Entries(q)) => i \notin Entries(q)
    BY OnlyOne
  <2> QED
    BY <2>1 DEF Query
<1> HIDE DEF asking
<1>7. CASE Refused /\ (UNCHANGED q \/ q' = [q EXCEPT !.used = @ \cup next(q)])
  <2>1. Finished(g', asking, {c}) /\ (Level => Keeps(g', asking))
    BY <1>2, <1>7, NullFacts
  <2>2. q' \in RequesterType /\ q'.entry = q.entry
    BY <1>7 DEF RequesterType, next
  <2>3. g'.co = r.co
    BY <1>1, <2>1 DEF Finished
  <2>4. Sane(g', q') /\ (r.event => g'.event)
    BY <1>1, <2>1, <2>2, <2>3 DEF Sane, Finished, Fit, Paired, SameLine
  <2>5. Level /\ Tended(r) => Tended(g')
    BY <1>3, <2>1 DEF Keeps
  <2>6. Level /\ Fresh(r, q.entry, inbox) => Fresh(g', q'.entry, inbox')
    <3>1. CASE c = "ap"
      BY <1>4, <1>5, <1>7, <2>2, <3>1 DEF Fresh, Responses
    <3>2. CASE c = "exit"
      <4>1. Level => Keeps(g', r)
        BY <1>3, <2>1, <3>2, KeepsTrans
      <4>2. \A m \in inbox : m.id \in Ids
        BY <1>4 DEF Responses
      <4> QED
        BY <1>7, <2>2, <4>1, <4>2, FreshKeeps
    <3> QED
      BY <3>1, <3>2
  <2> QED
    BY <1>4, <1>7, <2>4, <2>5, <2>6 DEF Answered
<1>8. ASSUME NEW i \in next(q), i \notin Entries(q), Walk(registerRequest(q, i, c), {i}, asking, 0),
             inbox' = {[m EXCEPT !.old = @ \/ m.id = i] : m \in inbox}
      PROVE  (Crashed \/ Answered(r)) /\ inbox' \subseteq Responses
  <2> DEFINE reg == registerRequest(q, i, c)
  <2>1. i \in Ids
    BY DEF next
  <2>2. /\ reg \in RequesterType /\ Hollowed(reg.entry)
        /\ reg.entry[i].client = c
        /\ \A j \in Ids : j # i => reg.entry[j].client = q.entry[j].client
    <3>1. reg \in RequesterType /\ Hollowed(reg.entry) /\ reg.entry[i].client = c
      BY <2>1, RegisteredFacts
    <3>2. ASSUME NEW j \in Ids, j # i PROVE reg.entry[j].client = q.entry[j].client
      BY <2>1, <3>2, OthersFacts
    <3> QED
      BY <3>1, <3>2
  <2>3. q.entry[i].client = "none"
    BY <1>8, <2>1 DEF Entries, Hollowed
  <2> HIDE DEF reg
  <2>4. Paired(asking, reg.entry)
    <3> SUFFICES ASSUME NEW d \in {"ap", "exit"}
                 PROVE  /\ d \in asking.co <=> \E j \in Ids : reg.entry[j].client = d
                        /\ \A j, k \in Ids : reg.entry[j].client = d /\ reg.entry[k].client = d => j = k
      BY DEF Paired
    <3>1. /\ d \in r.co <=> \E j \in Ids : q.entry[j].client = d
          /\ \A j, k \in Ids : q.entry[j].client = d /\ q.entry[k].client = d => j = k
      BY DEF Paired
    <3>2. CASE d = c
      BY <1>1, <1>5, <2>1, <2>2, <3>2
    <3>3. CASE d # c
      <4>1. \A j \in Ids : reg.entry[j].client = d <=> q.entry[j].client = d
        BY <2>2, <2>3, <3>3
      <4> QED
        BY <1>1, <3>1, <3>3, <4>1
    <3> QED
      BY <3>2, <3>3
  <2>5. Sane(asking, reg)
    BY <1>2, <2>2, <2>4 DEF Sane, Fit
  <2>6. Walk(reg, {i}, asking, 0) /\ {i} \in SUBSET Ids
    BY <1>8, <2>1 DEF reg
  <2>7. Crashed \/ Walked(asking, reg)
    BY <2>5, <2>6, WalkFacts
  <2>8. /\ inbox' \subseteq Responses
        /\ \A n \in inbox' : n.id \in Ids /\ (n.id = i => n.old) /\ (~n.old =>
              \E k \in inbox : ~k.old /\ k.id = n.id /\ k.ans = n.ans)
    BY <1>8, <2>1, AgedFacts
  <2>9. ASSUME Walked(asking, reg) PROVE Answered(r)
    <3>1. Level /\ Tended(r) => Tended(g')
      BY <1>3, <2>9 DEF Walked, Keeps
    <3>2. Level /\ Fresh(r, q.entry, inbox) => Fresh(g', q'.entry, inbox')
      <4>1. CASE c = "ap"
        <5>1. \A j \in Ids : q'.entry[j].client = "ap" => j = i
          BY <1>5, <2>2, <2>9, <4>1 DEF Walked
        <5> QED
          BY <2>8, <5>1 DEF Fresh
      <4>2. CASE c = "exit"
        <5>1. Level => Keeps(g', r)
          BY <1>3, <2>9, <4>2, KeepsTrans DEF Walked
        <5>2. \A j \in Ids : q'.entry[j].client = "ap" => q.entry[j].client = "ap"
          BY <2>2, <2>9, <4>2 DEF Walked
        <5> QED
          BY <2>8, <5>1, <5>2, FreshKeeps
      <4> QED
        BY <4>1, <4>2
    <3> QED
      BY <1>1, <2>8, <2>9, <3>1, <3>2 DEF Walked, Answered, SameLine
  <2> QED
    BY <2>7, <2>8, <2>9
<1> QED
  BY <1>6, <1>7, <1>8

-----------------------------------------------------------------------------
(* The steps of the daemon.                                                *)

LEMMA InvFacts ==
  ASSUME ErotInv
  PROVE  /\ WorldTypes /\ Sane(g, q) /\ Fit(g) /\ g \in ResourceType /\ q \in RequesterType
         /\ Paired(g, q.entry) /\ Hollowed(q.entry) /\ Handles(g)
         /\ wire \subseteq [id: Ids, old: BOOLEAN] /\ inbox \subseteq Responses
  BY DEF ErotInv, Sane, Fit, WorldTypes, Responses

(* The world and the line events stand still.                              *)
Still == UNCHANGED <<mode, env, edges>>

LEMMA StillFacts ==
  ASSUME ErotInv, Still, alive, alive' = alive, WorldTypes', Sane(g', q'), g.event => g'.event,
         Level /\ ~excused' => Tended(g') /\ Fresh(g', q'.entry, inbox')
  PROVE  ErotInv'
<1>1. Sane(g, q)' /\ (Level' <=> Level) /\ (Tended(g)' <=> Tended(g'))
      /\ (Fresh(g, q.entry, inbox)' <=> Fresh(g', q'.entry, inbox'))
  BY DEF Still, env, Sane, Handles, Driven, Paired, Hollowed, Level, Tended, Pending, Fresh
<1>2. EdgesRight'
  BY DEF ErotInv, EdgesRight, Still, env, Level
<1> QED
  BY <1>1, <1>2 DEF ErotInv

LEMMA CrashStep ==
  ASSUME ErotInv, Still, WorldTypes', Crashed
  PROVE  ErotInv'
<1>1. Sane(g', q') /\ ~g'.event /\ ~alive'
  BY NewFacts DEF Crashed
<1>2. Sane(g, q)' /\ EdgesRight'
  BY <1>1 DEF Still, Sane, Handles, Driven, Paired, Hollowed, EdgesRight
<1>3. g' = NewResource' /\ q' = NewRequester'
  BY DEF Crashed, NewResource, NewRequester, NoEntry
<1> QED
  BY <1>1, <1>2, <1>3 DEF ErotInv

LEMMA AnsweredStep ==
  ASSUME ErotInv, Still, alive, WorldTypes', excused => excused', Answered(g)
  PROVE  ErotInv'
<1>1. Level /\ ~excused' => Tended(g') /\ Fresh(g', q'.entry, inbox')
  BY DEF ErotInv, Answered
<1> QED
  BY <1>1, StillFacts DEF Answered

(* A handler that only touches the resource.                               *)
LEMMA KeptStep ==
  ASSUME ErotInv, Still, alive, WorldTypes', UNCHANGED <<wire, inbox, alive, q>>, excused => excused',
         Kept(g', g), Level /\ ~excused' => Keeps(g', g)
  PROVE  ErotInv'
<1>1. Sane(g', q')
  BY InvFacts DEF Kept, Fit, Sane, Paired
<1>2. \A m \in inbox : m.id \in Ids
  BY InvFacts DEF Responses
<1>3. Level /\ ~excused' => Fresh(g', q'.entry, inbox')
  <2> SUFFICES ASSUME Level, ~excused' PROVE Fresh(g', q'.entry, inbox')
    OBVIOUS
  <2>1. Fresh(g, q.entry, inbox) /\ Keeps(g', g)
    BY DEF ErotInv
  <2> QED
    BY <1>2, <2>1, FreshKeeps
<1>4. Level /\ ~excused' => Tended(g')
  BY DEF ErotInv, Keeps
<1> QED
  BY <1>1, <1>3, <1>4, StillFacts DEF Kept

LEMMA ResourceTypes ==
  ASSUME WorldTypes, NEW down, NEW failed, Resource(down, failed), excused' \in BOOLEAN, power' \in Seq(BOOLEAN),
         edges' \in Seq(BOOLEAN), UNCHANGED signal
  PROVE  WorldTypes' /\ UNCHANGED <<mode, env, wire, inbox, alive, q>> /\ alive /\ Probe(down)
  BY DEF WorldTypes, Resource, env

LEMMA PollStep == ASSUME ErotInv, PollTimer PROVE ErotInv'
<1>1. PICK down \in BOOLEAN :
         /\ mode = "Polling" /\ Resource(down, 0) /\ g' = pollGpio(g, down)
         /\ excused' = (excused \/ Dropped(down)) /\ UNCHANGED <<edges, signal, power>>
  BY DEF PollTimer
<1>2. WorldTypes' /\ Still /\ UNCHANGED <<wire, inbox, alive, q>> /\ alive /\ Probe(down)
  BY <1>1, InvFacts, ResourceTypes DEF WorldTypes, Still
<1>3. Kept(g', g) /\ (Level /\ ~g.off => Keeps(g', g))
  BY <1>1, <1>2, InvFacts, PollFacts
<1>4. Level /\ ~excused' => Keeps(g', g)
  BY <1>1, <1>3 DEF Dropped
<1> QED
  BY <1>1, <1>2, <1>3, <1>4, KeptStep

LEMMA RetryStep == ASSUME ErotInv, retryGPIOEventRegistration PROVE ErotInv'
<1>1. PICK down \in BOOLEAN, read \in BOOLEAN :
         /\ g.retry /\ lineUp /\ Resource(down, Failed(read)) /\ g' = registerGPIOEvent(g, down, read)
         /\ excused' = (excused \/ Dropped(down) \/ Unread(read)) /\ UNCHANGED <<edges, signal, power>>
  BY DEF retryGPIOEventRegistration
<1>2. WorldTypes' /\ Still /\ UNCHANGED <<wire, inbox, alive, q>> /\ alive /\ Probe(down)
  BY <1>1, InvFacts, ResourceTypes DEF WorldTypes, Still
<1>3. mode # "Polling" /\ mode = "Interrupt"
  BY <1>1, InvFacts DEF Handles, WorldTypes
<1>4. Kept(g', g) /\ (Level /\ read /\ ~g.off /\ down = erotDown => Keeps(g', g))
  BY <1>1, <1>2, <1>3, InvFacts, RegisterFacts DEF Kept
<1>5. Level /\ ~excused' => Keeps(g', g)
  BY <1>1, <1>3, <1>4 DEF Dropped, Unread
<1> QED
  BY <1>1, <1>2, <1>4, <1>5, KeptStep

(* The chassis and its settle delay.                                       *)
LEMMA PowerFacts ==
  ASSUME NEW r, Fit(r), NEW b \in BOOLEAN, NEW t \in BOOLEAN
  PROVE  LET x == [r EXCEPT !.off = b, !.settle = t]
         IN  Kept(x, r) /\ x.off = b /\ Keeps(x, r) /\ x.event = r.event
<1> DEFINE x == [r EXCEPT !.off = b, !.settle = t]
<1>1. /\ x \in ResourceType /\ x.off = b /\ x.co = r.co /\ x.event = r.event /\ x.line = r.line
      /\ x.last = r.last /\ x.retry = r.retry /\ x.mon = r.mon /\ x.rec = r.rec /\ SameCheck(x, r)
  BY DEF Fit, ResourceType, SameCheck
<1> HIDE DEF x
<1>2. Fit(x)
  BY <1>1 DEF Fit, Handles, Driven, SameCheck
<1>3. Keeps(x, r)
  BY <1>1 DEF Keeps, Tended, Pending, SameCheck
<1> QED
  BY <1>1, <1>2, <1>3 DEF Kept, x

LEMMA PowerStep == ASSUME ErotInv, OnPower PROVE ErotInv'
<1>1. PICK down \in BOOLEAN :
         /\ power # <<>> /\ power' = Tail(power) /\ Resource(down, 0)
         /\ IF Head(power) THEN g' = [g EXCEPT !.off = FALSE, !.settle = TRUE] /\ down = erotDown
            ELSE g' = updateHealth([g EXCEPT !.off = TRUE, !.settle = FALSE], down)
         /\ excused' = (excused \/ (~Head(power) /\ Level) \/ Dropped(down))
         /\ UNCHANGED <<edges, signal>>
  BY DEF OnPower
<1>2. power' \in Seq(BOOLEAN) /\ excused' \in BOOLEAN
  <2>1. power \in Seq(BOOLEAN)
    BY InvFacts DEF WorldTypes
  <2>2. power # <<>> /\ power' = Tail(power) /\ excused' \in BOOLEAN
    BY <1>1
  <2>3. Tail(power) \in Seq(BOOLEAN)
    BY <2>1, <2>2
  <2> QED
    BY <2>2, <2>3
<1>3. WorldTypes' /\ Still /\ UNCHANGED <<wire, inbox, alive, q>> /\ alive /\ Probe(down)
  BY <1>1, <1>2, InvFacts, ResourceTypes DEF WorldTypes, Still
<1>4. Kept(g', g) /\ (Level /\ ~excused' => Keeps(g', g))
  <2>1. CASE Head(power)
    BY <1>1, <2>1, InvFacts, PowerFacts
  <2>2. CASE ~Head(power)
    <3> DEFINE r == [g EXCEPT !.off = TRUE, !.settle = FALSE]
    <3>1. Kept(r, g)
      BY InvFacts, PowerFacts
    <3>2. g' = updateHealth(r, down)
      BY <1>1, <2>2
    <3> HIDE DEF r
    <3>3. Kept(g', r)
      BY <1>3, <3>1, <3>2, InvFacts, HealthFacts DEF Kept
    <3>4. Kept(g', g)
      BY <3>1, <3>3 DEF Kept
    <3> QED
      BY <1>1, <2>2, <3>4
  <2> QED
    BY <2>1, <2>2
<1> QED
  BY <1>1, <1>3, <1>4, KeptStep

LEMMA SettleStep == ASSUME ErotInv, SettleTimer PROVE ErotInv'
<1>1. PICK down \in BOOLEAN :
         /\ g.settle /\ Resource(down, 0) /\ g' = updateHealth([g EXCEPT !.settle = FALSE], down)
         /\ excused' = (excused \/ Dropped(down)) /\ UNCHANGED <<edges, signal, power>>
  BY DEF SettleTimer
<1>2. WorldTypes' /\ Still /\ UNCHANGED <<wire, inbox, alive, q>> /\ alive /\ Probe(down)
  BY <1>1, InvFacts, ResourceTypes DEF WorldTypes, Still
<1> DEFINE r == [g EXCEPT !.off = g.off, !.settle = FALSE]
<1>3. r = [g EXCEPT !.settle = FALSE]
  BY InvFacts DEF ResourceType
<1>4. Kept(r, g) /\ r.off = g.off /\ Keeps(r, g)
  <2>1. PICK b \in BOOLEAN : b = g.off
    BY InvFacts DEF ResourceType
  <2> QED
    BY <2>1, InvFacts, PowerFacts
<1> HIDE DEF r
<1>5. Kept(g', r) /\ (Level /\ ~r.off => Keeps(g', r))
  BY <1>1, <1>2, <1>3, <1>4, InvFacts, HealthFacts DEF Kept
<1>6. Kept(g', g) /\ (Level /\ ~excused' => Keeps(g', g))
  BY <1>1, <1>4, <1>5, KeepsTrans DEF Kept, Dropped
<1> QED
  BY <1>1, <1>2, <1>6, KeptStep

LEMMA TailFacts ==
  ASSUME NEW s \in Seq(BOOLEAN), s # <<>>
  PROVE  /\ Tail(s) # <<>> => Tail(s)[Len(Tail(s))] = s[Len(s)]
         /\ Tail(s) = <<>> => Head(s) = s[Len(s)]
<1>1. Len(s) \in Nat /\ Len(s) # 0 /\ Head(s) = s[1]
  OBVIOUS
<1>2. Tail(s) \in Seq(BOOLEAN) /\ Len(Tail(s)) = Len(s) - 1
  BY <1>1
<1>3. \A i \in 1..Len(Tail(s)) : Tail(s)[i] = s[i + 1]
  BY <1>1, <1>2
<1>4. CASE Tail(s) = <<>>
  <2>1. Len(<<>>) = 0
    OBVIOUS
  <2>2. Len(Tail(s)) = Len(<<>>)
    BY <1>4, Zenon
  <2>3. Len(s) = 1
    <3>1. 0 = Len(s) - 1
      BY <1>2, <2>1, <2>2, Zenon
    <3> QED
      BY <1>1, <3>1
  <2>4. Head(s) = s[Len(s)]
    BY <1>1, <2>3
  <2> QED
    BY <1>4, <2>4, Zenon
<1>5. CASE Tail(s) # <<>>
  <2>1. Len(Tail(s)) # 0
    BY <1>2, <1>5
  <2>2. Len(Tail(s)) \in 1..Len(Tail(s)) /\ Len(Tail(s)) + 1 = Len(s)
    BY <1>1, <1>2, <2>1
  <2> QED
    BY <1>3, <1>5, <2>2
<1> QED
  BY <1>4, <1>5

(* waitForGPIOEvent: the last event read is the level of the line.         *)
LEMMA EventStep == ASSUME ErotInv, waitForGPIOEvent PROVE ErotInv'
<1>0. /\ WorldTypes /\ Sane(g, q) /\ Fit(g) /\ edges \in Seq(BOOLEAN)
  BY InvFacts DEF WorldTypes
<1>1. PICK down \in BOOLEAN :
         /\ g.event /\ Resource(down, 0) /\ UNCHANGED <<signal, power>>
         /\ \/ /\ lineUp /\ edges # <<>> /\ edges' = Tail(edges)
               /\ g' = updateERoTHealth(g, ReasonOf(Head(edges)), down)
               /\ excused' = (excused \/ (g.off /\ Head(edges)) \/ down # erotDown)
            \/ /\ ~lineUp /\ down = erotDown /\ edges' = <<>> /\ UNCHANGED excused
               /\ g' = [g EXCEPT !.line = FALSE, !.event = FALSE, !.last = "none", !.retry = TRUE]
  BY DEF waitForGPIOEvent
<1>2. edges' \in Seq(BOOLEAN) /\ excused' \in BOOLEAN /\ power' \in Seq(BOOLEAN)
  <2>1. edges # <<>> => Tail(edges) \in Seq(BOOLEAN)
    BY <1>0
  <2>2. <<>> \in Seq(BOOLEAN)
    OBVIOUS
  <2>3. edges' = <<>> \/ (edges # <<>> /\ edges' = Tail(edges))
    BY <1>1
  <2>4. excused' \in BOOLEAN /\ power' \in Seq(BOOLEAN)
    BY <1>0, <1>1 DEF WorldTypes
  <2> QED
    BY <2>1, <2>2, <2>3, <2>4
<1>3. WorldTypes' /\ UNCHANGED <<mode, env, wire, inbox, alive, q>> /\ alive /\ Probe(down)
  BY <1>0, <1>1, <1>2, ResourceTypes
<1>4. mode # "Polling"
  BY <1>0, <1>1 DEF Fit, Handles
<1>5. CASE /\ lineUp /\ edges # <<>> /\ edges' = Tail(edges)
           /\ g' = updateERoTHealth(g, ReasonOf(Head(edges)), down)
           /\ excused' = (excused \/ (g.off /\ Head(edges)) \/ down # erotDown)
  <2>1. PICK reason \in {"Assert", "Deassert"} : reason = ReasonOf(Head(edges))
    BY DEF ReasonOf
  <2>2. Updated(g', g, reason, down) /\ Kept(g', g)
    BY <1>0, <1>5, <2>1, UpdateFacts, UpdateKept, WorldFacts DEF Fit
  <2>3. Sane(g', q') /\ g'.event
    BY <1>0, <1>1, <1>3, <2>2 DEF Kept, Fit, Sane, Paired
  <2>4. Sane(g, q)' /\ (Level' <=> Level)
    BY <1>3, <2>3 DEF env, Sane, Handles, Driven, Paired, Hollowed, Level
  <2>5. edges[Len(edges)] = Level
    BY <1>1, <1>5 DEF ErotInv, EdgesRight
  <2>6. /\ Tail(edges) # <<>> => Tail(edges)[Len(Tail(edges))] = edges[Len(edges)]
        /\ Tail(edges) = <<>> => Head(edges) = edges[Len(edges)]
    BY <1>0, <1>5, TailFacts
  <2>7. EdgesRight'
    <3>1. Level' = Level
      BY <1>3 DEF env, Level
    <3>2. Tail(edges) # <<>> => Tail(edges)[Len(Tail(edges))] = Level'
      BY <2>5, <2>6, <3>1, Zenon
    <3>3. edges' # <<>> => edges'[Len(edges')] = Level'
      BY <1>5, <3>2, Zenon
    <3> QED
      BY <2>3, <3>3 DEF EdgesRight
  <2>8. ASSUME Level, ~excused' PROVE Tended(g)' /\ Fresh(g, q.entry, inbox)'
    <3>1. CASE Tail(edges) # <<>>
      <4>1. Pending(g)'
        BY <1>3, <1>4, <1>5, <3>1 DEF Pending
      <4> QED
        BY <4>1 DEF Tended, Fresh
    <3>2. CASE Tail(edges) = <<>>
      <4>1. Head(edges) /\ reason = "Assert"
        BY <2>1, <2>5, <2>6, <2>8, <3>2 DEF ReasonOf
      <4>2. ~g.off /\ down = erotDown
        BY <1>5, <2>8, <4>1
      <4>3. CASE down
        <5>1. g'.rec /\ erotDown'
          BY <1>3, <2>2, <4>2, <4>3 DEF Updated, env
        <5>2. Pending(g)'
          BY <1>3, <1>4, <5>1 DEF Pending
        <5> QED
          BY <5>2 DEF Tended, Fresh
      <4>4. CASE ~down
        <5>1. g'.check /\ ~g'.own
          BY <2>2, <4>1, <4>2, <4>4 DEF Updated
        <5> QED
          BY <5>1 DEF Tended, Fresh
      <4> QED
        BY <4>3, <4>4
    <3> QED
      BY <3>1, <3>2
  <2> QED
    BY <1>3, <2>4, <2>7, <2>8 DEF ErotInv
<1>6. CASE /\ ~lineUp /\ edges' = <<>>
           /\ g' = [g EXCEPT !.line = FALSE, !.event = FALSE, !.last = "none", !.retry = TRUE]
  <2>1. /\ g' \in ResourceType /\ g'.event = FALSE /\ g'.line = FALSE /\ g'.mon = g.mon
        /\ g'.co = g.co /\ SameCheck(g', g)
    BY <1>0, <1>6 DEF Fit, ResourceType, SameCheck
  <2>2. Fit(g')
    BY <1>0, <1>4, <2>1 DEF Fit, Handles, Driven, SameCheck
  <2>3. Sane(g', q')
    BY <1>0, <1>3, <2>1, <2>2 DEF Sane, Fit, Paired
  <2>4. Sane(g, q)' /\ EdgesRight'
    BY <1>3, <1>6, <2>1, <2>3 DEF env, Sane, Handles, Driven, Paired, Hollowed, EdgesRight
  <2>5. Pending(g)'
    BY <1>3, <1>6 DEF Pending, env
  <2>6. Tended(g)' /\ Fresh(g, q.entry, inbox)'
    BY <2>5 DEF Tended, Fresh
  <2> QED
    BY <1>3, <2>4, <2>6 DEF ErotInv
<1> QED
  BY <1>1, <1>5, <1>6

(* A source that is disabled has no events.                                *)
LEMMA ThrowStep == ASSUME ErotInv, GPIOEventThrows PROVE ErotInv'
<1>0. WorldTypes /\ Sane(g, q) /\ Fit(g) /\ edges \in Seq(BOOLEAN)
  BY InvFacts DEF WorldTypes
<1>1. /\ g.event /\ Resource(erotDown, 1) /\ UNCHANGED <<signal, power, excused>>
      /\ g' = [g EXCEPT !.event = FALSE] /\ edges' = <<>>
  BY DEF GPIOEventThrows
<1>2. edges' \in Seq(BOOLEAN) /\ excused' \in BOOLEAN /\ power' \in Seq(BOOLEAN)
  BY <1>0, <1>1 DEF WorldTypes
<1>3. WorldTypes' /\ UNCHANGED <<mode, env, wire, inbox, alive, q>> /\ alive
  BY <1>0, <1>1, <1>2, ResourceTypes
<1>4. mode # "Polling"
  BY <1>0, <1>1 DEF Fit, Handles
<1>5. /\ g' \in ResourceType /\ g'.event = FALSE /\ g'.mon = g.mon /\ g'.co = g.co /\ SameCheck(g', g)
  BY <1>0, <1>1 DEF Fit, ResourceType, SameCheck
<1>6. Fit(g')
  BY <1>0, <1>4, <1>5 DEF Fit, Handles, Driven, SameCheck
<1>7. Sane(g', q')
  BY <1>0, <1>3, <1>5, <1>6 DEF Sane, Fit, Paired
<1>8. Sane(g, q)' /\ EdgesRight'
  BY <1>1, <1>3, <1>5, <1>7 DEF env, Sane, Handles, Driven, Paired, Hollowed, EdgesRight
<1>9. Pending(g)'
  BY <1>3, <1>4, <1>5 DEF Pending, env
<1>10. Tended(g)' /\ Fresh(g, q.entry, inbox)'
  BY <1>9 DEF Tended, Fresh
<1> QED
  BY <1>3, <1>8, <1>10 DEF ErotInv

(* The AP query; its timer is disarmed first.                              *)
LEMMA ApQueryStep == ASSUME ErotInv, runAPBootStatusQuery PROVE ErotInv'
<1>1. alive /\ g.timer /\ Still /\ UNCHANGED <<mode, env, edges, signal, power, excused>>
  BY DEF runAPBootStatusQuery, Still
<1> DEFINE r == [g EXCEPT !.timer = FALSE]
<1>2. /\ r \in ResourceType /\ SameLine(r, g) /\ r.co = g.co /\ r.rec = g.rec /\ r.mon = g.mon
      /\ r.check = g.check /\ r.ap = g.ap /\ r.own = g.own
  BY InvFacts DEF ResourceType, SameLine
<1>3. Handles(r) /\ Paired(r, q.entry) /\ Keeps(r, g) /\ r.event = g.event
  BY <1>2, InvFacts DEF Handles, Paired, SameLine, Keeps, Tended, Pending
<1>4. Fresh(g, q.entry, inbox) => Fresh(r, q.entry, inbox)
  BY <1>2 DEF Fresh, Pending, SameLine
<1>5. CASE g.check /\ "ap" \notin g.co
  <2>1. Query("ap", r)
    BY <1>5 DEF runAPBootStatusQuery
  <2> HIDE DEF r
  <2>2. (Crashed \/ Answered(r)) /\ inbox' \subseteq Responses
    BY <1>2, <1>3, <1>5, <2>1, InvFacts, QueryFacts
  <2>3. wire' \subseteq [id: Ids, old: BOOLEAN] /\ alive' \in BOOLEAN
    BY <2>2, InvFacts, WorldFacts DEF Crashed, Answered
  <2>4. WorldTypes'
    BY <1>1, <2>2, <2>3, InvFacts DEF WorldTypes, env, Responses
  <2>5. CASE Crashed
    BY <1>1, <2>4, <2>5, CrashStep
  <2>6. CASE Answered(r)
    <3>1. Answered(g)
      BY <1>3, <1>4, <2>6 DEF Answered, Keeps
    <3> QED
      BY <1>1, <2>4, <3>1, AnsweredStep
  <2> QED
    BY <2>2, <2>5, <2>6
<1>6. CASE ~(g.check /\ "ap" \notin g.co)
  <2>1. g' = r /\ UNCHANGED <<q, wire, inbox, alive, spent>>
    BY <1>6 DEF runAPBootStatusQuery
  <2> HIDE DEF r
  <2>2. Driven(r)
    BY <1>2, <1>6 DEF Driven
  <2>3. Kept(g', g)
    BY <1>2, <1>3, <2>1, <2>2 DEF Kept, Fit
  <2>4. WorldTypes'
    BY <1>1, <2>1, InvFacts DEF WorldTypes, env
  <2> QED
    BY <1>1, <1>3, <2>1, <2>3, <2>4, KeptStep
<1> QED
  BY <1>5, <1>6

(* The recovery monitor's own check.                                       *)
LEMMA ExitStep ==
  ASSUME ErotInv, alive, g.mon, ExitCheck, signal' \in BOOLEAN,
         UNCHANGED <<mode, exit, env, edges, power, excused>>
  PROVE  ErotInv'
<1>0. mode = "Polling" /\ Still
  BY InvFacts DEF Handles, Still
<1>1. CASE UNCHANGED <<g, q, wire, inbox, alive>>
  <2>1. WorldTypes'
    BY <1>1, InvFacts DEF WorldTypes, env
  <2>2. Kept(g', g) /\ Keeps(g', g)
    BY <1>1, InvFacts, KeepsSame DEF Kept, SameLine, SameCheck
  <2> QED
    BY <1>0, <1>1, <2>1, <2>2, KeptStep
<1>2. CASE "exit" \notin g.co /\ Query("exit", g)
  <2>1. (Crashed \/ Answered(g)) /\ inbox' \subseteq Responses
    BY <1>2, InvFacts, QueryFacts DEF Fit
  <2>2. wire' \subseteq [id: Ids, old: BOOLEAN] /\ alive' \in BOOLEAN
    BY <2>1, InvFacts, WorldFacts DEF Crashed, Answered
  <2>3. WorldTypes'
    BY <2>1, <2>2, InvFacts DEF WorldTypes, env, Responses
  <2> QED
    BY <1>0, <2>1, <2>3, CrashStep, AnsweredStep
<1>3. ASSUME NEW down \in BOOLEAN, Probe(down), UNCHANGED <<q, wire, inbox, alive>>,
             g' = IF endpoint THEN reevaluateERoTHealthAfterRecovery(g, down) ELSE triggerMctpDiscovery(g)
      PROVE  ErotInv'
  <2>1. WorldTypes'
    BY <1>3, InvFacts DEF WorldTypes, env
  <2>2. CASE endpoint
    <3>1. Kept(g', g) /\ (Level => Keeps(g', g))
      BY <1>0, <1>3, <2>2, InvFacts, RecheckFacts
    <3> QED
      BY <1>0, <1>3, <2>1, <3>1, KeptStep
  <2>3. CASE ~endpoint
    <3>1. /\ g' \in ResourceType /\ SameLine(g', g) /\ SameCheck(g', g)
          /\ g'.co = g.co /\ g'.rec = g.rec /\ g'.mon = g.mon
      BY <1>3, <2>3, InvFacts, TriggerFacts, WorldFacts
    <3>2. Kept(g', g)
      BY <3>1, InvFacts DEF Kept, Fit, Handles, Driven, SameLine, SameCheck
    <3> QED
      BY <1>0, <1>3, <2>1, <3>1, <3>2, KeepsSame, KeptStep
  <2> QED
    BY <2>2, <2>3, WorldFacts, InvFacts
<1> QED
  BY <1>1, <1>2, <1>3 DEF ExitCheck

LEMMA MonitorStep == ASSUME ErotInv, runERoTRecoveryMonitor PROVE ErotInv'
<1>1. signal' \in BOOLEAN
  BY InvFacts DEF runERoTRecoveryMonitor, WorldTypes
<1> QED
  BY <1>1, ExitStep DEF runERoTRecoveryMonitor

LEMMA EndpointStep == ASSUME ErotInv, onERoTEndpointAdded PROVE ErotInv'
<1>1. /\ alive /\ signal' = FALSE /\ UNCHANGED <<mode, exit, env, edges, power, excused>>
      /\ IF g.mon THEN ExitCheck ELSE UNCHANGED <<g, q, wire, inbox, alive, spent>>
  BY DEF onERoTEndpointAdded
<1>2. CASE g.mon
  BY <1>1, <1>2, ExitStep
<1>3. CASE ~g.mon
  <2>1. WorldTypes' /\ Still
    BY <1>1, <1>3, InvFacts DEF WorldTypes, env, Still
  <2>2. Kept(g', g) /\ Keeps(g', g)
    BY <1>1, <1>3, InvFacts, KeepsSame DEF Kept, SameLine, SameCheck
  <2> QED
    BY <1>1, <1>3, <2>1, <2>2, KeptStep
<1> QED
  BY <1>2, <1>3

(* The end of the query with the entry i: its coroutine was resumed, its   *)
(* entry is gone.                                                          *)
LEMMA EndedFacts ==
  ASSUME ErotInv, NEW i \in Ids, NEW C, NEW a, NEW down \in BOOLEAN, Probe(down),
         C = {} \/ C = {q.entry[i].client}, C = {} => q.entry[i].client = "none",
         NEW p \in RequesterType, \A j \in Ids : p.entry[j] = IF j = i THEN NoEntry ELSE q.entry[j]
  PROVE  LET r == Resumed(g, C, a, down)
         IN  /\ Sane(r, p) /\ (g.event => r.event)
             /\ Level /\ ("ap" \in C => ~g.check \/ a # "complete" \/ Pending(g)) => Keeps(r, g)
             /\ \A j \in Ids : p.entry[j].client = "ap" => q.entry[j].client = "ap"
<1> DEFINE r == Resumed(g, C, a, down)
<1>1. /\ Finished(r, g, C)
      /\ Level /\ ("ap" \in C => ~g.check \/ a # "complete" \/ Pending(g)) => Keeps(r, g)
  BY InvFacts, ResumedFacts
<1> HIDE DEF r
<1>2. NoEntry.client = "none" /\ NoEntry.st = "none"
  BY DEF NoEntry
<1>3. g.co \subseteq {"ap", "exit"}
  BY InvFacts DEF ResourceType
<1>4. r.co = g.co \ {q.entry[j].client : j \in {i}}
  <2>1. {q.entry[j].client : j \in {i}} = {q.entry[i].client}
    OBVIOUS
  <2> QED
    BY <1>1, <1>3, <2>1 DEF Finished
<1>5. \A j \in Ids : p.entry[j].client = IF j \in {i} THEN "none" ELSE q.entry[j].client
  BY <1>2
<1>6. Paired(r, p.entry)
  <2>1. PICK F \in SUBSET Ids : F = {i}
    OBVIOUS
  <2>2. /\ r.co = g.co \ {q.entry[j].client : j \in F}
        /\ \A j \in Ids : p.entry[j].client = IF j \in F THEN "none" ELSE q.entry[j].client
    BY <1>4, <1>5, <2>1
  <2> QED
    BY <2>2, EndedPairs, InvFacts
<1>7. Hollowed(p.entry)
  BY <1>2, InvFacts DEF Hollowed
<1>8. Sane(r, p)
  BY <1>1, <1>6, <1>7 DEF Sane, Finished, Fit
<1> QED
  BY <1>1, <1>2, <1>8 DEF Finished, r

(* handleReceivedMsg.                                                      *)
LEMMA ReceiveStep == ASSUME ErotInv, Receive PROVE ErotInv'
<1> PICK m \in inbox, down \in BOOLEAN :
      /\ alive /\ Probe(down)
      /\ LET i == m.id
             C == IF q.entry[i].st \in {"none", "hollow"} THEN {} ELSE {q.entry[i].client}
         IN /\ IF i \in HollowIds(q)
               THEN alive' = FALSE /\ q' = NewRequester /\ g' = NewResource /\ UNCHANGED <<spent, wire>>
               ELSE Walk(handleResponse(q, i), {}, Resumed(g, C, m.ans, down), Cost(down))
            /\ excused' = (excused \/ ("ap" \in C /\ g.check /\ (m.old \/ ~g.own)))
      /\ inbox' = inbox \ {m}
      /\ UNCHANGED <<mode, exit, env, edges, signal, power>>
  BY DEF Receive
<1> DEFINE i == m.id
           C == IF q.entry[i].st \in {"none", "hollow"} THEN {} ELSE {q.entry[i].client}
           p == handleResponse(q, i)
           r == Resumed(g, C, m.ans, down)
<1>1. alive /\ Still /\ i \in Ids /\ inbox' \subseteq Responses /\ excused' \in BOOLEAN
      /\ (excused => excused') /\ Probe(down)
  BY InvFacts DEF Still, Responses, WorldTypes
<1>2. /\ C = {} \/ C = {q.entry[i].client}
      /\ C = {} => q.entry[i].client = "none"
  BY <1>1, InvFacts DEF Hollowed
<1>3. /\ p \in RequesterType
      /\ \A j \in Ids : p.entry[j] = IF j = i THEN NoEntry ELSE q.entry[j]
  BY <1>1, InvFacts, FreedFacts DEF handleResponse
<1> HIDE DEF p
<1>4. /\ Sane(r, p) /\ (g.event => r.event)
      /\ Level /\ ("ap" \in C => ~g.check \/ m.ans # "complete" \/ Pending(g)) => Keeps(r, g)
      /\ \A j \in Ids : p.entry[j].client = "ap" => q.entry[j].client = "ap"
  <2>1. PICK a : a = m.ans
    OBVIOUS
  <2> HIDE DEF C
  <2> QED
    BY <1>1, <1>2, <1>3, <2>1, EndedFacts
<1>5. i \notin HollowIds(q) => Walk(p, {}, r, Cost(down))
  BY DEF p
<1>6. excused' = (excused \/ ("ap" \in C /\ g.check /\ (m.old \/ ~g.own)))
  OBVIOUS
<1>7. Crashed \/ Walked(r, p)
  <2>1. CASE i \in HollowIds(q)
    BY <2>1 DEF Crashed
  <2>2. CASE i \notin HollowIds(q)
    <3> HIDE DEF r
    <3> QED
      BY <1>4, <1>5, <2>2, InvFacts, WalkFacts
  <2> QED
    BY <2>1, <2>2
<1> HIDE DEF r
<1>8. WorldTypes'
  <2>1. wire' \subseteq [id: Ids, old: BOOLEAN] /\ alive' \in BOOLEAN
    BY <1>7, InvFacts, WorldFacts DEF Crashed, Walked
  <2> QED
    BY <1>1, <2>1, InvFacts DEF WorldTypes, env, Responses
<1>9. CASE Walked(r, p)
  <2>1. ASSUME Level, ~excused' PROVE Tended(g') /\ Fresh(g', q'.entry, inbox')
    <3>1. Tended(g) /\ Fresh(g, q.entry, inbox)
      BY <1>1, <2>1 DEF ErotInv
    <3>2. "ap" \in C => q.entry[i].client = "ap"
      BY <1>2
    <3>3. "ap" \in C => ~g.check \/ m.ans # "complete" \/ Pending(g)
      BY <1>6, <2>1, <3>1, <3>2 DEF Fresh
    <3>4. Keeps(g', r) /\ Keeps(r, g)
      BY <1>4, <1>9, <2>1, <3>3 DEF Walked
    <3>5. Keeps(g', g)
      BY <3>4, KeepsTrans
    <3>6. \A j \in Ids : q'.entry[j].client = "ap" => q.entry[j].client = "ap"
      BY <1>4, <1>9 DEF Walked
    <3>7. \A n \in inbox' : n.id \in Ids /\ n \in inbox
      BY <1>1 DEF Responses
    <3>8. Fresh(g', q'.entry, inbox')
      BY <3>1, <3>5, <3>6, <3>7, FreshKeeps
    <3> QED
      BY <3>1, <3>5, <3>8 DEF Keeps
  <2> QED
    BY <1>1, <1>4, <1>8, <1>9, <2>1, StillFacts DEF Walked
<1>10. CASE Crashed
  BY <1>1, <1>8, <1>10, CrashStep
<1> QED
  BY <1>7, <1>9, <1>10

(* The requester's timers.                                                 *)
LEMMA ResendFacts ==
  ASSUME NEW p \in RequesterType, Hollowed(p.entry), NEW i \in Ids, p.entry[i].left > 0
  PROVE  LET x == Resend(p, i)
         IN  /\ x \in RequesterType /\ Hollowed(x.entry)
             /\ \A j \in Ids : x.entry[j].client = p.entry[j].client
<1> DEFINE n == [p.entry[i] EXCEPT !.left = @ - 1]
           f == [p.entry EXCEPT ![i] = n]
           x == Resend(p, i)
<1>1. p.entry \in [Ids -> EntryType] /\ p.entry[i] \in EntryType
  BY DEF RequesterType
<1>2. PICK k \in Nat : k = p.entry[i].left - 1
  BY <1>1 DEF EntryType
<1>3. n \in EntryType /\ n.client = p.entry[i].client /\ n.st = p.entry[i].st
  <2>1. n = [p.entry[i] EXCEPT !.left = k]
    BY <1>2
  <2> QED
    BY <1>1, <2>1 DEF EntryType
<1>4. x = [p EXCEPT !.entry = f]
  BY DEF Resend, RequesterType
<1> HIDE DEF n, x
<1>5. f \in [Ids -> EntryType] /\ \A j \in Ids : f[j] = IF j = i THEN n ELSE p.entry[j]
  BY <1>1, <1>3
<1> HIDE DEF f
<1>6. x \in RequesterType /\ x.entry = f
  BY <1>4, <1>5 DEF RequesterType
<1>7. Hollowed(x.entry)
  BY <1>3, <1>5, <1>6 DEF Hollowed
<1> QED
  BY <1>3, <1>5, <1>6, <1>7 DEF x

LEMMA ExpiryFacts ==
  ASSUME NEW p \in RequesterType, Hollowed(p.entry), NEW i \in Running(p)
  PROVE  LET x == instanceIdExpiry(p, i)
         IN  /\ x \in RequesterType /\ Hollowed(x.entry)
             /\ \A j \in Ids : x.entry[j].client = p.entry[j].client
<1> DEFINE n == [p.entry[i] EXCEPT !.st = "expired"]
           f == [p.entry EXCEPT ![i] = n]
           x == instanceIdExpiry(p, i)
<1>1. i \in Ids /\ p.entry \in [Ids -> EntryType] /\ p.entry[i] \in EntryType /\ p.entry[i].st = "running"
  BY DEF RequesterType, Running
<1>2. n \in EntryType /\ n.client = p.entry[i].client /\ n.st = "expired"
  BY <1>1 DEF EntryType
<1>3. x = [p EXCEPT !.entry = f, !.doomed = p.doomed \cup {i}]
  BY DEF instanceIdExpiry, RequesterType
<1> HIDE DEF n, x
<1>4. f \in [Ids -> EntryType] /\ \A j \in Ids : f[j] = IF j = i THEN n ELSE p.entry[j]
  BY <1>1, <1>2
<1> HIDE DEF f
<1>5. x \in RequesterType /\ x.entry = f
  BY <1>1, <1>3, <1>4 DEF RequesterType
<1>6. Hollowed(x.entry)
  <2> SUFFICES ASSUME NEW j \in Ids
               PROVE  x.entry[j].client = "none" <=> x.entry[j].st \in {"none", "hollow"}
    BY DEF Hollowed
  <2>1. p.entry[j].client = "none" <=> p.entry[j].st \in {"none", "hollow"}
    BY DEF Hollowed
  <2> QED
    BY <1>1, <1>2, <1>4, <1>5, <2>1
<1> QED
  BY <1>2, <1>4, <1>5, <1>6 DEF x

(* A step of the requester that resumes nobody.                            *)
LEMMA RequesterStep ==
  ASSUME ErotInv, Still, alive, WorldTypes', UNCHANGED <<inbox, alive, g, excused>>,
         q' \in RequesterType, Hollowed(q'.entry),
         \A j \in Ids : q'.entry[j].client = q.entry[j].client
  PROVE  ErotInv'
<1>1. Sane(g', q')
  <2>1. Paired(g, q'.entry)
    BY InvFacts DEF Paired
  <2> QED
    BY <2>1, InvFacts DEF Sane, Fit
<1>2. \A m \in inbox : m.id \in Ids
  BY InvFacts DEF Responses
<1>3. ASSUME Level, ~excused PROVE Tended(g) /\ Fresh(g, q'.entry, inbox)
  <2>1. Tended(g) /\ Fresh(g, q.entry, inbox)
    BY <1>3 DEF ErotInv
  <2> QED
    BY <1>2, <2>1 DEF Fresh
<1> QED
  BY <1>1, <1>3, StillFacts

LEMMA ResendStep == ASSUME ErotInv, ResendTimer PROVE ErotInv'
<1>1. PICK i \in Running(q) :
        /\ alive /\ q.entry[i].left > 0 /\ q' = Resend(q, i) /\ wire' = Sent(wire, {i})
        /\ UNCHANGED <<mode, exit, env, edges, signal, power, inbox, alive, g, excused>>
  BY DEF ResendTimer
<1>2. i \in Ids
  BY DEF Running
<1>3. /\ q' \in RequesterType /\ Hollowed(q'.entry)
      /\ \A j \in Ids : q'.entry[j].client = q.entry[j].client
  BY <1>1, <1>2, InvFacts, ResendFacts
<1>4. wire' \subseteq [id: Ids, old: BOOLEAN]
  <2>1. {i} \in SUBSET Ids /\ wire \in SUBSET [id: Ids, old: BOOLEAN]
    BY <1>2, InvFacts
  <2> QED
    BY <1>1, <2>1, SentFacts
<1>5. WorldTypes' /\ Still
  BY <1>1, <1>4, InvFacts DEF WorldTypes, env, Still
<1> QED
  BY <1>1, <1>3, <1>5, RequesterStep

LEMMA ExpiryStep == ASSUME ErotInv, InstanceIdTimer PROVE ErotInv'
<1>1. PICK i \in Running(q) :
        /\ alive /\ q' = instanceIdExpiry(q, i)
        /\ UNCHANGED <<mode, exit, env, edges, signal, power, wire, inbox, alive, g, excused>>
  BY DEF InstanceIdTimer
<1>2. /\ q' \in RequesterType /\ Hollowed(q'.entry)
      /\ \A j \in Ids : q'.entry[j].client = q.entry[j].client
  BY <1>1, InvFacts, ExpiryFacts
<1>3. WorldTypes' /\ Still
  BY <1>1, InvFacts DEF WorldTypes, env, Still
<1> QED
  BY <1>1, <1>2, <1>3, RequesterStep

(* removeRequestEntry.                                                     *)
LEMMA RemovedFacts ==
  ASSUME NEW p \in RequesterType, NEW i \in Ids, p.entry[i].st # "none"
  PROVE  LET x == removeRequestEntry(p, i)
         IN  /\ x \in RequesterType
             /\ \A j \in Ids : x.entry[j] = IF j = i THEN NoEntry ELSE p.entry[j]
<1> DEFINE m == markFree(Erase(p, {i}), {i})
           x == removeRequestEntry(p, i)
<1>1. /\ m \in RequesterType
      /\ \A j \in Ids : m.entry[j] = IF j = i THEN NoEntry ELSE p.entry[j]
  BY FreedFacts
<1>2. x = [m EXCEPT !.doomed = @ \ {i}]
  BY DEF removeRequestEntry, Entries
<1> HIDE DEF m, x
<1>3. x \in RequesterType /\ x.entry = m.entry
  BY <1>1, <1>2 DEF RequesterType
<1> QED
  BY <1>1, <1>3 DEF x

LEMMA HollowFacts ==
  ASSUME NEW p \in RequesterType, Hollowed(p.entry), NEW i \in Ids, p.entry[i].st = "none"
  PROVE  LET x == removeRequestEntry(p, i)
         IN  /\ x \in RequesterType /\ Hollowed(x.entry)
             /\ \A j \in Ids : x.entry[j].client = p.entry[j].client
<1> DEFINE f == [p.entry EXCEPT ![i] = Hollow]
           x == removeRequestEntry(p, i)
<1>1. Hollow \in EntryType /\ Hollow.client = "none" /\ Hollow.st = "hollow"
  BY DEF Hollow, EntryType
<1>2. f \in [Ids -> EntryType] /\ \A j \in Ids : f[j] = IF j = i THEN Hollow ELSE p.entry[j]
  BY <1>1 DEF RequesterType
<1>3. x = [p EXCEPT !.entry = f, !.doomed = p.doomed \ {i}]
  BY DEF removeRequestEntry, Entries, RequesterType
<1> HIDE DEF f, x
<1>4. x \in RequesterType /\ x.entry = f
  BY <1>2, <1>3 DEF RequesterType
<1>5. Hollowed(x.entry)
  BY <1>1, <1>2, <1>4 DEF Hollowed
<1>6. p.entry[i].client = "none"
  BY DEF Hollowed
<1> QED
  BY <1>1, <1>2, <1>4, <1>5, <1>6 DEF x

LEMMA RemoveStep == ASSUME ErotInv, NEW i \in Ids, RemoveEntry(i) PROVE ErotInv'
<1> DEFINE p == removeRequestEntry(q, i)
           C == {q.entry[i].client}
           r == Resumed(g, C, "null", TRUE)
<1>1. /\ alive /\ Still /\ UNCHANGED <<mode, exit, env, edges, signal, power, inbox, excused>>
      /\ IF i \in Entries(q) THEN Walk(p, {}, r, 0) ELSE q' = p /\ UNCHANGED <<g, wire, alive, spent>>
  BY DEF RemoveEntry, Still
<1>2. CASE i \in Entries(q)
  <2>1. /\ p \in RequesterType
        /\ \A j \in Ids : p.entry[j] = IF j = i THEN NoEntry ELSE q.entry[j]
    BY <1>2, InvFacts, RemovedFacts DEF Entries
  <2>2. PICK a : a = "null"
    OBVIOUS
  <2>3. r = Resumed(g, C, a, TRUE) /\ Probe(TRUE) /\ TRUE \in BOOLEAN
    BY <2>2 DEF Probe
  <2>4. C # {} /\ a # "complete"
    BY <2>2
  <2> HIDE DEF p, r
  <2>5. /\ Sane(r, p) /\ (g.event => r.event) /\ (Level => Keeps(r, g))
        /\ \A j \in Ids : p.entry[j].client = "ap" => q.entry[j].client = "ap"
    BY <2>1, <2>3, <2>4, EndedFacts
  <2>6. Crashed \/ Walked(r, p)
    BY <1>1, <1>2, <2>5, InvFacts, WalkFacts
  <2>7. WorldTypes'
    <3>1. wire' \subseteq [id: Ids, old: BOOLEAN] /\ alive' \in BOOLEAN
      BY <2>6, InvFacts, WorldFacts DEF Crashed, Walked
    <3> QED
      BY <1>1, <3>1, InvFacts DEF WorldTypes, env
  <2>8. CASE Walked(r, p)
    <3>1. Level => Keeps(g', g)
      BY <2>5, <2>8, KeepsTrans DEF Walked
    <3>2. \A j \in Ids : q'.entry[j].client = "ap" => q.entry[j].client = "ap"
      BY <2>5, <2>8 DEF Walked
    <3>3. \A n \in inbox : n.id \in Ids
      BY InvFacts DEF Responses
    <3>4. Level /\ Fresh(g, q.entry, inbox) => Fresh(g', q'.entry, inbox')
      BY <1>1, <3>1, <3>2, <3>3, FreshKeeps
    <3>5. Answered(g)
      BY <1>1, <2>5, <2>8, <3>1, <3>4, InvFacts DEF Answered, Walked, Keeps
    <3> QED
      BY <1>1, <2>7, <3>5, AnsweredStep
  <2> QED
    BY <1>1, <2>6, <2>7, <2>8, CrashStep
<1>3. CASE i \notin Entries(q)
  <2>1. /\ q' \in RequesterType /\ Hollowed(q'.entry)
        /\ \A j \in Ids : q'.entry[j].client = q.entry[j].client
    <3>1. q.entry[i].st = "none" /\ q' = removeRequestEntry(q, i)
      BY <1>1, <1>3 DEF Entries
    <3> QED
      BY <3>1, InvFacts, HollowFacts
  <2>2. WorldTypes'
    BY <1>1, <1>3, InvFacts DEF WorldTypes, env
  <2> QED
    BY <1>1, <1>3, <2>1, <2>2, RequesterStep
<1> QED
  BY <1>2, <1>3

(* The construction of the daemon.                                         *)
LEMMA OffFacts ==
  ASSUME NEW r, Fit(r), NEW b \in BOOLEAN
  PROVE  LET x == [r EXCEPT !.off = b]
         IN  Fit(x) /\ x.co = r.co /\ x.off = b /\ x.event = r.event /\ x.last = r.last /\ x.check = r.check
<1> DEFINE x == [r EXCEPT !.off = b]
<1>1. /\ x \in ResourceType /\ x.off = b /\ x.co = r.co /\ x.event = r.event /\ x.line = r.line
      /\ x.last = r.last /\ x.retry = r.retry /\ x.mon = r.mon /\ x.check = r.check /\ x.timer = r.timer
  BY DEF Fit, ResourceType
<1> HIDE DEF x
<1>2. Fit(x)
  BY <1>1 DEF Fit, Handles, Driven
<1> QED
  BY <1>1, <1>2 DEF x

(* A line that is asserted when its events are registered opens the check. *)
LEMMA FirstRead ==
  ASSUME WorldTypes, NEW r \in ResourceType, ~r.off, lineUp, Level
  PROVE  registerGPIOEvent(r, FALSE, TRUE).check
<1> DEFINE s == [r EXCEPT !.line = TRUE, !.event = TRUE, !.retry = FALSE]
<1>1. registerGPIOEvent(r, FALSE, TRUE) = updateERoTHealth(s, "Assert", FALSE)
  BY DEF registerGPIOEvent
<1>2. s \in ResourceType /\ ~s.off
  BY DEF ResourceType
<1> HIDE DEF s
<1>3. Updated(updateERoTHealth(s, "Assert", FALSE), s, "Assert", FALSE)
  BY <1>2, UpdateFacts, WorldFacts
<1> QED
  BY <1>1, <1>2, <1>3 DEF Updated

LEMMA ConstructStep == ASSUME ErotInv, Construct PROVE ErotInv'
<1> DEFINE made(down, read) == IF mode = "Interrupt" THEN registerGPIOEvent(NewResource, down, read)
                               ELSE NewResource
           started(down, read) == [made(down, read) EXCEPT !.off = ~chassis]
<1>1. PICK down \in BOOLEAN, read \in BOOLEAN :
         /\ Probe(down) /\ g' = updateHealth(started(down, read), down)
         /\ excused' = (excused \/ Dropped(down) \/ Unread(read) \/ (~chassis /\ Level))
  BY DEF Construct
<1>2. /\ ~alive /\ alive' = TRUE /\ q' = NewRequester /\ edges' = <<>> /\ signal' = FALSE /\ power' = <<>>
      /\ UNCHANGED <<mode, exit, env, wire, inbox>> /\ g = NewResource
  BY DEF Construct, ErotInv
<1>3. WorldTypes /\ WorldTypes'
  <2>1. <<>> \in Seq(BOOLEAN) /\ excused' \in BOOLEAN /\ excused \in BOOLEAN
    BY <1>1, InvFacts DEF WorldTypes
  <2>2. WorldTypes
    BY InvFacts
  <2> QED
    BY <1>2, <2>1, <2>2 DEF WorldTypes, env
<1>4. Fit(NewResource)
  BY NewFacts DEF Sane, Fit
<1> DEFINE m == made(down, read)
           s == started(down, read)
<1>5. /\ Fit(m) /\ m.co = {}
      /\ mode = "Polling" => m.last = "none"
      /\ mode # "Polling" /\ lineUp => m.event
      /\ mode # "Polling" /\ lineUp /\ Level /\ read /\ ~down => m.check
  <2>1. CASE mode = "Polling"
    <3>1. m = NewResource
      BY <2>1
    <3> QED
      BY <1>4, <2>1, <3>1, NewFacts
  <2>2. CASE mode # "Polling"
    <3>1. m = registerGPIOEvent(NewResource, down, read)
      BY <1>3, <2>2 DEF WorldTypes
    <3> HIDE DEF made
    <3>2. Fit(m) /\ m.co = {} /\ (lineUp => m.event)
      BY <1>1, <1>3, <1>4, <2>2, <3>1, NewFacts, RegisterFacts
    <3>3. lineUp /\ Level /\ read /\ ~down => m.check
      <4> SUFFICES ASSUME lineUp, Level, read, ~down PROVE m.check
        OBVIOUS
      <4>1. down = FALSE /\ read = TRUE
        OBVIOUS
      <4> QED
        BY <1>3, <3>1, <4>1, NewFacts, FirstRead
    <3> QED
      BY <2>2, <3>2, <3>3
  <2> QED
    BY <2>1, <2>2
<1>6. s = [m EXCEPT !.off = ~chassis] /\ (~chassis) \in BOOLEAN
  OBVIOUS
<1> HIDE DEF made, m, s
<1>7. Fit(s) /\ s.co = {} /\ s.off = ~chassis /\ s.event = m.event /\ s.last = m.last /\ s.check = m.check
  BY <1>5, <1>6, OffFacts
<1>8. g' = updateHealth(s, down)
  BY <1>1 DEF s
<1>9. Kept(g', s) /\ (Level /\ ~s.off => Keeps(g', s))
  BY <1>1, <1>3, <1>7, <1>8, HealthFacts
<1>10. Sane(g', q')
  BY <1>2, <1>7, <1>9, NewFacts DEF Kept, Fit, Sane, Paired
<1>11. Sane(g, q)' /\ EdgesRight'
  BY <1>2, <1>10 DEF Sane, Handles, Driven, Paired, Hollowed, EdgesRight
<1>12. Level' = Level
  BY <1>2 DEF Level, env
<1>13. ASSUME Level, ~excused' PROVE Tended(g)'
  <2>1. chassis /\ ~s.off /\ read /\ (mode = "Interrupt" => down = erotDown)
    BY <1>1, <1>3, <1>7, <1>13 DEF Dropped, Unread, WorldTypes
  <2>2. CASE mode = "Polling"
    <3>1. Pending(s)
      BY <1>5, <1>7, <2>2 DEF Pending
    <3>2. Tended(g')
      BY <1>9, <1>13, <2>1, <3>1 DEF Keeps, Tended
    <3> QED
      BY <1>2, <2>2, <3>2 DEF Tended, Pending, env
  <2>3. CASE mode # "Polling" /\ ~lineUp
    BY <1>2, <2>3 DEF Tended, Pending, env
  <2>4. CASE mode # "Polling" /\ lineUp
    <3>1. down = erotDown
      BY <1>3, <2>1, <2>4 DEF WorldTypes
    <3>2. g' = updateERoTHealth(s, "Refresh", down)
      BY <1>8, <2>4 DEF updateHealth
    <3>3. Updated(g', s, "Refresh", down)
      BY <1>3, <1>7, <3>2, UpdateFacts, WorldFacts DEF Fit
    <3>4. CASE down
      <4>1. g'.rec /\ erotDown'
        BY <1>2, <2>1, <3>1, <3>3, <3>4 DEF Updated, env
      <4> QED
        BY <1>2, <2>4, <4>1 DEF Tended, Pending, env
    <3>5. CASE ~down
      <4>1. g'.check = s.check
        BY <2>1, <3>3, <3>5 DEF Updated, SameCheck
      <4>2. g'.check
        BY <1>5, <1>7, <1>13, <2>1, <2>4, <3>5, <4>1
      <4> QED
        BY <4>2 DEF Tended
    <3> QED
      BY <3>4, <3>5
  <2> QED
    BY <1>3, <2>2, <2>3, <2>4, WorldFacts
<1>14. Fresh(g, q.entry, inbox)'
  <2>1. \A i \in Ids : NewRequester.entry[i].client = "none"
    BY DEF NewRequester, NoEntry
  <2>2. \A n \in inbox' : n.id \in Ids
    BY <1>2, InvFacts DEF Responses
  <2>3. \A n \in inbox' : q'.entry[n.id].client # "ap"
    BY <1>2, <2>1, <2>2
  <2> QED
    BY <2>3 DEF Fresh
<1> QED
  BY <1>2, <1>3, <1>11, <1>12, <1>13, <1>14 DEF ErotInv

-----------------------------------------------------------------------------
(* The steps of the world.                                                 *)

(* The resource, the requester and their responses stand still.            *)
Aside == UNCHANGED <<mode, inbox, alive, g, q>>

LEMMA AsideFacts ==
  ASSUME ErotInv, Aside, WorldTypes', EdgesRight',
         alive /\ Level' /\ ~excused' => Tended(g)' /\ Fresh(g, q.entry, inbox)'
  PROVE  ErotInv'
<1>1. Sane(g, q)'
  BY InvFacts DEF Aside, Sane, Handles, Driven, Paired, Hollowed
<1>2. ~alive' => g' = NewResource' /\ q' = NewRequester'
  BY DEF ErotInv, Aside, NewResource, NewRequester, NoEntry
<1> QED
  BY <1>1, <1>2 DEF ErotInv, Aside

(* The level stays; what is pending still is.                              *)
LEMMA SameLevelStep ==
  ASSUME ErotInv, Aside, WorldTypes', EdgesRight', Level' = Level, excused => excused',
         alive /\ Level /\ ~excused' => (Pending(g) => Pending(g)')
  PROVE  ErotInv'
<1>1. ASSUME alive, Level, ~excused' PROVE Tended(g)' /\ Fresh(g, q.entry, inbox)'
  <2>1. Tended(g) /\ Fresh(g, q.entry, inbox) /\ (Pending(g) => Pending(g)')
    BY <1>1 DEF ErotInv
  <2> QED
    BY <2>1 DEF Tended, Fresh, Aside
<1> QED
  BY <1>1, AsideFacts

(* What is pending makes up for everything else.                           *)
LEMMA PendingStep ==
  ASSUME ErotInv, Aside, WorldTypes', EdgesRight', alive /\ Level' /\ ~excused' => Pending(g)'
  PROVE  ErotInv'
<1>1. ASSUME alive, Level', ~excused' PROVE Tended(g)' /\ Fresh(g, q.entry, inbox)'
  BY <1>1 DEF Tended, Fresh
<1> QED
  BY <1>1, AsideFacts

LEMMA ConcatFacts ==
  ASSUME NEW s \in Seq(BOOLEAN), NEW l \in Seq(BOOLEAN), l # <<>>
  PROVE  s \o l # <<>> /\ (s \o l)[Len(s \o l)] = l[Len(l)]
<1>1. Len(s) \in Nat /\ Len(l) \in Nat /\ Len(l) # 0
  OBVIOUS
<1>2. Len(s \o l) = Len(s) + Len(l)
  OBVIOUS
<1>3. \A i \in 1..Len(s \o l) : (s \o l)[i] = IF i <= Len(s) THEN s[i] ELSE l[i - Len(s)]
  OBVIOUS
<1>4. (s \o l)[Len(s \o l)] = l[Len(l)]
  <2>1. Len(s) + Len(l) \in 1..Len(s \o l) /\ ~(Len(s) + Len(l) <= Len(s))
        /\ Len(s) + Len(l) - Len(s) = Len(l)
    BY <1>1, <1>2
  <2> QED
    BY <1>2, <1>3, <2>1
<1>5. s \o l # <<>>
  <2>1. Len(<<>>) = 0 /\ Len(s \o l) # 0
    BY <1>1, <1>2
  <2> QED
    BY <2>1, Zenon
<1> QED
  BY <1>4, <1>5

(* The line changed through the levels of l, the last of them is the one   *)
(* it keeps.                                                               *)
LEMMA LinesFacts ==
  ASSUME ErotInv, Aside, UNCHANGED lineUp, NEW l \in Seq(BOOLEAN), l # <<>>, Lines(l),
         l[Len(l)] = Level', WorldTypes'
  PROVE  ErotInv'
<1>0. /\ edges' = (IF g.event /\ lineUp THEN edges \o l ELSE edges)
      /\ excused' = (excused \/ (mode = "Polling" /\ alive /\ ~g.rec /\ g.last = "asserted"
                                 /\ l # <<>> /\ l[Len(l)]))
  BY DEF Lines
<1>1. edges \in Seq(BOOLEAN)
  BY InvFacts DEF WorldTypes
<1>2. edges \o l # <<>> /\ (edges \o l)[Len(edges \o l)] = l[Len(l)]
  BY <1>1, ConcatFacts
<1>3. EdgesRight'
  <2>1. CASE g.event /\ lineUp
    <3>1. edges' = edges \o l
      BY <1>0, <2>1
    <3>2. edges'[Len(edges')] = Level'
      BY <1>2, <3>1
    <3> QED
      BY <2>1, <3>2 DEF EdgesRight, Aside
  <2>2. CASE ~(g.event /\ lineUp)
    <3>1. edges' = edges
      BY <1>0, <2>2
    <3>2. alive /\ ~g.event => edges = <<>>
      BY DEF ErotInv, EdgesRight
    <3> QED
      BY <2>2, <3>1, <3>2 DEF EdgesRight, Aside
  <2> QED
    BY <2>1, <2>2
<1>4. ASSUME alive, Level', ~excused' PROVE Pending(g)'
  <2>1. CASE mode = "Polling"
    <3>1. g.rec \/ g.last # "asserted"
      BY <1>0, <1>4, <2>1
    <3> QED
      BY <2>1, <3>1 DEF Pending, Aside
  <2>2. CASE mode # "Polling"
    BY <1>0, <1>2, <2>2 DEF Pending, Aside
  <2> QED
    BY <2>1, <2>2
<1> QED
  BY <1>3, <1>4, PendingStep

LEMMA NoLines ==
  ASSUME ErotInv, Aside, UNCHANGED lineUp, Lines(<<>>), Level' = Level, WorldTypes', erotDown => erotDown'
  PROVE  ErotInv'
<1>1. edges \in Seq(BOOLEAN)
  BY InvFacts DEF WorldTypes
<1>2. edges \o <<>> = edges
  BY <1>1
<1>3. edges' = edges /\ excused' = excused
  BY <1>2, InvFacts DEF Lines, WorldTypes
<1>4. EdgesRight'
  BY <1>3 DEF ErotInv, EdgesRight, Aside
<1>5. Pending(g) => Pending(g)'
  BY <1>3 DEF Pending, Aside
<1> QED
  BY <1>3, <1>4, <1>5, SameLevelStep

LEMMA LinesTypes ==
  ASSUME WorldTypes, NEW l \in Seq(BOOLEAN), Lines(l)
  PROVE  edges' \in Seq(BOOLEAN) /\ excused' \in BOOLEAN
<1>1. edges \in Seq(BOOLEAN) /\ edges \o l \in Seq(BOOLEAN)
  BY DEF WorldTypes
<1>2. edges' = edges \o l \/ edges' = edges
  BY DEF Lines
<1>3. excused' \in BOOLEAN
  BY DEF Lines
<1> QED
  BY <1>1, <1>2, <1>3

LEMMA SingleFacts ==
  ASSUME NEW b \in BOOLEAN
  PROVE  <<b>> \in Seq(BOOLEAN) /\ <<b>> # <<>> /\ <<b>>[Len(<<b>>)] = b
  OBVIOUS

(* A change of the level, or none.                                         *)
LEMMA ChangedStep ==
  ASSUME ErotInv, Aside, UNCHANGED lineUp, NEW b \in BOOLEAN, Lines(Changed(b)), b = Level', WorldTypes',
         erotDown => erotDown'
  PROVE  ErotInv'
<1>1. CASE b = Level
  <2>1. Lines(<<>>)
    BY <1>1 DEF Changed
  <2> QED
    BY <1>1, <2>1, NoLines
<1>2. CASE b # Level
  <2>1. PICK l : l = <<b>>
    OBVIOUS
  <2>2. l \in Seq(BOOLEAN) /\ l # <<>> /\ l[Len(l)] = Level'
    BY <2>1, SingleFacts
  <2>3. Lines(l)
    BY <1>2, <2>1 DEF Changed
  <2> QED
    BY <2>2, <2>3, LinesFacts
<1> QED
  BY <1>1, <1>2

LEMMA ChangedTypes ==
  ASSUME WorldTypes, NEW b \in BOOLEAN, Lines(Changed(b))
  PROVE  edges' \in Seq(BOOLEAN) /\ excused' \in BOOLEAN
<1>1. <<>> \in Seq(BOOLEAN) /\ <<b>> \in Seq(BOOLEAN)
  BY SingleFacts
<1>2. Changed(b) = <<>> \/ Changed(b) = <<b>>
  BY DEF Changed
<1>3. Changed(b) \in Seq(BOOLEAN)
  BY <1>1, <1>2
<1> QED
  BY <1>3, LinesTypes

LEMMA ApStep == ASSUME ErotInv, ApChanges PROVE ErotInv'
<1>1. PICK b \in {"booting", "complete", "fatal"} :
        /\ boot' = b /\ Lines(Changed(erotDown \/ b = "fatal"))
        /\ UNCHANGED <<mode, exit, erotDown, endpoint, chassis, lineUp, signal, power, wire, inbox, alive, g, q>>
  BY DEF ApChanges
<1>2. PICK v \in BOOLEAN : v = (erotDown \/ b = "fatal")
  OBVIOUS
<1>3. Lines(Changed(v)) /\ v = Level'
  BY <1>1, <1>2 DEF Level
<1>4. WorldTypes'
  <2>1. edges' \in Seq(BOOLEAN) /\ excused' \in BOOLEAN
    BY <1>3, InvFacts, ChangedTypes
  <2> QED
    BY <1>1, <2>1, InvFacts DEF WorldTypes
<1>5. Aside /\ UNCHANGED lineUp /\ (erotDown => erotDown')
  BY <1>1 DEF Aside
<1> QED
  BY <1>3, <1>4, <1>5, ChangedStep

LEMMA EntersStep == ASSUME ErotInv, ErotEnters PROVE ErotInv'
<1>1. /\ erotDown' = TRUE /\ endpoint' = FALSE /\ Lines(Changed(TRUE))
      /\ UNCHANGED <<mode, exit, boot, chassis, lineUp, signal, power, wire, inbox, alive, g, q>>
  BY DEF ErotEnters
<1>2. PICK v \in BOOLEAN : v = TRUE
  OBVIOUS
<1>3. Lines(Changed(v)) /\ v = Level'
  BY <1>1, <1>2 DEF Level
<1>4. WorldTypes'
  <2>1. edges' \in Seq(BOOLEAN) /\ excused' \in BOOLEAN
    BY <1>3, InvFacts, ChangedTypes
  <2> QED
    BY <1>1, <2>1, InvFacts DEF WorldTypes
<1>5. Aside /\ UNCHANGED lineUp /\ (erotDown => erotDown')
  BY <1>1 DEF Aside
<1> QED
  BY <1>3, <1>4, <1>5, ChangedStep

LEMMA LeavesStep == ASSUME ErotInv, ErotLeaves PROVE ErotInv'
<1>1. /\ erotDown' = FALSE
      /\ Lines(IF boot = "fatal" THEN <<FALSE, TRUE>> ELSE <<FALSE>>)
      /\ UNCHANGED <<mode, exit, boot, endpoint, chassis, lineUp, signal, power, wire, inbox, alive, g, q>>
  BY DEF ErotLeaves
<1>2. PICK l : l = IF boot = "fatal" THEN <<FALSE, TRUE>> ELSE <<FALSE>>
  OBVIOUS
<1>3. Level' = (boot = "fatal")
  BY <1>1 DEF Level
<1>4. l \in Seq(BOOLEAN) /\ l # <<>> /\ l[Len(l)] = (boot = "fatal")
  <2>1. CASE boot = "fatal"
    <3>1. l = <<FALSE, TRUE>> /\ (boot = "fatal") = TRUE
      BY <1>2, <2>1
    <3>2. LET s == <<FALSE, TRUE>> IN s \in Seq(BOOLEAN) /\ s # <<>> /\ s[Len(s)] = TRUE
      OBVIOUS
    <3> QED
      BY <3>1, <3>2, Zenon
  <2>2. CASE boot # "fatal"
    <3>1. l = <<FALSE>> /\ (boot = "fatal") = FALSE
      BY <1>2, <2>2
    <3>2. LET s == <<FALSE>> IN s \in Seq(BOOLEAN) /\ s # <<>> /\ s[Len(s)] = FALSE
      BY SingleFacts
    <3> QED
      BY <3>1, <3>2, Zenon
  <2> QED
    BY <2>1, <2>2
<1>5. Lines(l)
  BY <1>1, <1>2
<1>6. WorldTypes'
  <2>1. edges' \in Seq(BOOLEAN) /\ excused' \in BOOLEAN
    BY <1>4, <1>5, InvFacts, LinesTypes
  <2> QED
    BY <1>1, <2>1, InvFacts DEF WorldTypes
<1>7. Aside /\ UNCHANGED lineUp
  BY <1>1 DEF Aside
<1> QED
  BY <1>3, <1>4, <1>5, <1>6, <1>7, LinesFacts

(* A line that comes back has not been read under its new handle.          *)
LEMMA LineStep == ASSUME ErotInv, LineChanges PROVE ErotInv'
<1>1. /\ lineUp' = ~lineUp /\ (lineUp \/ ~g.line)
      /\ UNCHANGED <<mode, exit, boot, erotDown, endpoint, chassis, edges, signal, power, wire, inbox, alive, g, q, excused>>
  BY DEF LineChanges
<1>2. WorldTypes' /\ Aside
  BY <1>1, InvFacts DEF WorldTypes, Aside
<1>3. Level' = Level
  BY <1>1 DEF Level
<1>4. lineUp' => (mode = "Polling" /\ g.last = "none") \/ (mode # "Polling" /\ ~g.event)
  BY <1>1, InvFacts DEF Handles
<1>5. EdgesRight'
  <2>1. alive /\ ~g.event => edges = <<>>
    BY DEF ErotInv, EdgesRight
  <2>2. lineUp' => ~g.event
    BY <1>4, InvFacts DEF Handles
  <2> QED
    BY <1>1, <2>1, <2>2 DEF EdgesRight
<1>6. Pending(g)'
  BY <1>1, <1>4 DEF Pending
<1> QED
  BY <1>2, <1>5, <1>6, PendingStep

LEMMA EndpointAppearsStep == ASSUME ErotInv, EndpointAppears PROVE ErotInv'
<1>1. /\ g.kick /\ endpoint' = TRUE /\ signal' = (alive /\ g.mon) /\ g' = [g EXCEPT !.kick = FALSE]
      /\ UNCHANGED <<mode, exit, boot, erotDown, chassis, lineUp, edges, power, wire, inbox, alive, q, spent, excused>>
  BY DEF EndpointAppears
<1>2. alive
  <2>1. ~NewResource.kick
    BY DEF NewResource
  <2> QED
    BY <1>1, <2>1 DEF ErotInv
<1>3. /\ g' \in ResourceType /\ SameLine(g', g) /\ SameCheck(g', g) /\ g'.co = g.co /\ g'.rec = g.rec
      /\ g'.mon = g.mon
  BY <1>1, InvFacts DEF ResourceType, SameLine, SameCheck
<1>4. Fit(g')
  BY <1>3, InvFacts DEF Fit, Handles, Driven, SameLine, SameCheck
<1>5. Sane(g', q')
  BY <1>1, <1>3, <1>4, InvFacts DEF Sane, Fit, Paired
<1>6. WorldTypes'
  BY <1>1, InvFacts DEF WorldTypes
<1>7. Sane(g, q)'
  BY <1>1, <1>5 DEF Sane, Handles, Driven, Paired, Hollowed
<1>8. EdgesRight'
  BY <1>1, <1>3 DEF ErotInv, EdgesRight, SameLine, Level
<1>9. ASSUME Level', ~excused' PROVE Tended(g)' /\ Fresh(g, q.entry, inbox)'
  <2>1. Tended(g) /\ Fresh(g, q.entry, inbox)
    BY <1>1, <1>2, <1>9 DEF ErotInv, Level
  <2> QED
    BY <1>1, <1>3, <2>1 DEF Tended, Fresh, Pending, SameLine, SameCheck
<1> QED
  BY <1>1, <1>2, <1>6, <1>7, <1>8, <1>9 DEF ErotInv

LEMMA ChassisStep == ASSUME ErotInv, ChassisPower PROVE ErotInv'
<1>1. /\ chassis' = ~chassis /\ power' = (IF alive THEN Append(power, ~chassis) ELSE power)
      /\ UNCHANGED <<mode, exit, boot, erotDown, endpoint, lineUp, edges, signal, wire, inbox, alive, g, q, excused>>
  BY DEF ChassisPower
<1>2. power' \in Seq(BOOLEAN)
  <2>1. power \in Seq(BOOLEAN) /\ (~chassis) \in BOOLEAN
    BY InvFacts DEF WorldTypes
  <2>2. Append(power, ~chassis) \in Seq(BOOLEAN)
    BY <2>1
  <2> QED
    BY <1>1, <2>1, <2>2
<1>3. WorldTypes' /\ Aside
  BY <1>1, <1>2, InvFacts DEF WorldTypes, Aside
<1>4. Level' = Level /\ EdgesRight'
  BY <1>1 DEF Level, ErotInv, EdgesRight
<1>5. Pending(g) => Pending(g)'
  BY <1>1 DEF Pending
<1> QED
  BY <1>1, <1>3, <1>4, <1>5, SameLevelStep

LEMMA LostStep == ASSUME ErotInv, Lost PROVE ErotInv'
<1>1. /\ wire' \subseteq wire
      /\ UNCHANGED <<mode, exit, env, edges, signal, power, inbox, alive, g, q, excused>>
  BY DEF Lost
<1>2. WorldTypes' /\ Aside
  BY <1>1, InvFacts DEF WorldTypes, Aside, env
<1>3. Level' = Level /\ EdgesRight'
  BY <1>1 DEF Level, ErotInv, EdgesRight, env
<1>4. Pending(g) => Pending(g)'
  BY <1>1 DEF Pending, env
<1> QED
  BY <1>1, <1>2, <1>3, <1>4, SameLevelStep

(* An ERoT out of recovery with an asserted line has an unhealthy AP: it   *)
(* does not answer that its AP booted.                                     *)
LEMMA AnswersStep == ASSUME ErotInv, Answers PROVE ErotInv'
<1>1. PICK m \in wire :
        /\ ~erotDown
        /\ wire' = wire \ {m} /\ inbox' = inbox \cup {[id |-> m.id, old |-> m.old, ans |-> boot]}
        /\ UNCHANGED <<mode, exit, env, edges, signal, power, alive, g, q, spent, excused>>
  BY DEF Answers
<1> DEFINE n == [id |-> m.id, old |-> m.old, ans |-> boot]
<1>2. n \in Responses /\ n.ans = boot
  BY InvFacts DEF WorldTypes, Responses
<1> HIDE DEF n
<1>3. inbox' = inbox \cup {n}
  BY <1>1 DEF n
<1>4. inbox' \subseteq Responses
  BY <1>2, <1>3, InvFacts
<1>5. WorldTypes'
  BY <1>1, <1>4, InvFacts DEF WorldTypes, env, Responses
<1>6. Level' = Level /\ EdgesRight' /\ (Pending(g)' <=> Pending(g))
  BY <1>1 DEF Level, ErotInv, EdgesRight, env, Pending
<1>7. Sane(g, q)'
  BY <1>1, InvFacts DEF Sane, Handles, Driven, Paired, Hollowed
<1>8. ASSUME alive, Level, ~excused PROVE Tended(g)' /\ Fresh(g, q.entry, inbox)'
  <2>1. Tended(g) /\ Fresh(g, q.entry, inbox) /\ n.ans # "complete"
    BY <1>1, <1>2, <1>8 DEF ErotInv, Level
  <2>2. Tended(g)'
    BY <1>1, <1>6, <2>1 DEF Tended
  <2>3. Fresh(g, q.entry, inbox)'
    BY <1>1, <1>3, <1>6, <2>1 DEF Fresh
  <2> QED
    BY <2>2, <2>3
<1>9. ~alive' => g' = NewResource' /\ q' = NewRequester'
  BY <1>1 DEF ErotInv, NewResource, NewRequester, NoEntry
<1> QED
  BY <1>1, <1>5, <1>6, <1>7, <1>8, <1>9 DEF ErotInv

-----------------------------------------------------------------------------
(* The results.                                                            *)

LEMMA InitInv == ASSUME Init PROVE ErotInv
<1>1. WorldTypes
  <2>1. <<>> \in Seq(BOOLEAN)
    OBVIOUS
  <2> QED
    BY <2>1 DEF Init, WorldTypes
<1>2. Sane(g, q) /\ EdgesRight
  BY NewFacts DEF Init, EdgesRight
<1> QED
  BY <1>1, <1>2 DEF Init, ErotInv

LEMMA StutterStep == ASSUME ErotInv, UNCHANGED vars PROVE ErotInv'
<1>1. WorldTypes' /\ Aside
  BY InvFacts DEF vars, env, WorldTypes, Aside
<1>2. Level' = Level /\ EdgesRight' /\ (Pending(g) => Pending(g)')
  BY DEF vars, env, Level, ErotInv, EdgesRight, Pending
<1>3. excused => excused'
  BY DEF vars
<1> QED
  BY <1>1, <1>2, <1>3, SameLevelStep

LEMMA NextInv == ASSUME ErotInv, [Next]_vars PROVE ErotInv'
<1>1. CASE Daemon
  BY <1>1, ConstructStep, PollStep, EventStep, ThrowStep, RetryStep, PowerStep, SettleStep, ApQueryStep, MonitorStep,
     EndpointStep, ReceiveStep, ResendStep, ExpiryStep, RemoveStep DEF Daemon
<1>2. CASE World
  BY <1>2, ApStep, EntersStep, LeavesStep, EndpointAppearsStep, ChassisStep, LineStep, AnswersStep, LostStep
     DEF World
<1> QED
  BY <1>1, <1>2, StutterStep DEF Next

(* The inductive invariant of the resource and its requester: whenever     *)
(* the line is asserted and nothing was dropped on purpose, the AP is      *)
(* reported, or a check of it is open, or what opens one is still to come  *)
(* (updateERoTHealth, pollGpio, waitForGPIOEvent, queryAPBootStatusAsync). *)
THEOREM ErotInvariant == Spec => []ErotInv
<1>1. Init => ErotInv
  BY InitInv
<1>2. ErotInv /\ [Next]_vars => ErotInv'
  BY NextInv
<1> QED
  BY <1>1, <1>2, PTL DEF Spec

(* The resource and the requester keep their types: the suspended queries  *)
(* are the two coroutines, ids are instance ids, and the AP check never    *)
(* retries more than maxAPBootStatusQueryRetries times.                    *)
THEOREM ErotTyped == Spec => []TypeOK
<1>1. ErotInv => TypeOK
  <2> SUFFICES ASSUME ErotInv PROVE TypeOK
    OBVIOUS
  <2>1. g \in ResourceType /\ q \in RequesterType
    BY InvFacts
  <2>2. g.co \subseteq {"ap", "exit"} /\ {"ap", "exit"} \subseteq Clients
    BY <2>1, ErotAssumption DEF ResourceType
  <2>3. g.tries \in 0..MaxTries /\ g.health \in {"none", "healthy", "recovery", "off"}
    BY <2>1 DEF ResourceType
  <2>4. q.used \subseteq Ids /\ q.doomed \subseteq Ids
    BY <2>1 DEF RequesterType
  <2> QED
    BY <2>2, <2>3, <2>4 DEF TypeOK
<1> QED
  BY <1>1, ErotInvariant, PTL

(* An AP that failed for good is reported once everything has settled, in  *)
(* either monitor mode, whatever was lost, late, restarted or off on the   *)
(* way, but for the cases the code drops, which set excused: an assertion  *)
(* while the chassis is off, an answer of an earlier query, a pulse        *)
(* between two polls, in Interrupt mode a failed probe or first read       *)
(* (updateERoTHealth, registerGPIOEvent, the AP boot status check).        *)
THEOREM FatalApReported == Spec => []FatalApIsReported
<1>1. ErotInv => FatalApIsReported
  <2> SUFFICES ASSUME ErotInv, Quiet, ~excused, boot = "fatal" PROVE g.ap # "none"
    BY DEF FatalApIsReported
  <2>1. Level
    BY DEF Level
  <2>2. Tended(g) /\ ~g.check
    BY <2>1 DEF ErotInv, Quiet
  <2>3. ~Pending(g)
    BY <2>1, InvFacts, WorldFacts DEF Quiet, Pending
  <2> QED
    BY <2>2, <2>3 DEF Tended
<1> QED
  BY <1>1, ErotInvariant, PTL

(* Every suspended query of a client has exactly one request entry, and an *)
(* entry, other than a hollow one, belongs to a suspended query: no        *)
(* response, expiry or failed send resumes a coroutine twice or leaves one *)
(* behind (registerRequest, handleResponse, removeRequestEntry,            *)
(* runRegisteredRequest).                                                  *)
QueriesAndEntries ==
  /\ \A c \in g.co : \E i \in Ids : /\ q.entry[i].client = c
                                    /\ \A j \in Ids : q.entry[j].client = c => j = i
  /\ \A i \in Entries(q) : i \in HollowIds(q) \/ q.entry[i].client \in g.co
THEOREM QueriesPaired == Spec => []QueriesAndEntries
<1>1. ErotInv => QueriesAndEntries
  <2> SUFFICES ASSUME ErotInv PROVE QueriesAndEntries
    OBVIOUS
  <2>1. Paired(g, q.entry) /\ Hollowed(q.entry) /\ g.co \subseteq {"ap", "exit"}
        /\ \A i \in Ids : q.entry[i].client \in {"none", "ap", "exit"}
    BY InvFacts DEF ResourceType, RequesterType, EntryType
  <2>2. ASSUME NEW c \in g.co
        PROVE  \E i \in Ids : /\ q.entry[i].client = c
                              /\ \A j \in Ids : q.entry[j].client = c => j = i
    BY <2>1 DEF Paired
  <2>3. ASSUME NEW i \in Entries(q) PROVE i \in HollowIds(q) \/ q.entry[i].client \in g.co
    BY <2>1 DEF Paired, Hollowed, Entries, HollowIds
  <2> QED
    BY <2>2, <2>3 DEF QueriesAndEntries
<1> QED
  BY <1>1, ErotInvariant, PTL

(* An open AP check always has something that drives it on: its timer is   *)
(* armed, or its query is suspended in a request entry, also after         *)
(* runAPBootStatusQuery disarmed the timer because an older query was      *)
(* still out.                                                              *)
CheckDriven ==
  g.check => g.timer \/ ("ap" \in g.co /\ \E i \in Entries(q) : q.entry[i].client = "ap")
THEOREM ChecksDriven == Spec => []CheckDriven
<1>1. ErotInv => CheckDriven
  <2> SUFFICES ASSUME ErotInv, g.check, ~g.timer
               PROVE  "ap" \in g.co /\ \E i \in Entries(q) : q.entry[i].client = "ap"
    BY DEF CheckDriven
  <2>1. "ap" \in g.co /\ Paired(g, q.entry) /\ Hollowed(q.entry)
    BY InvFacts DEF Fit, Driven
  <2>2. PICK i \in Ids : q.entry[i].client = "ap"
    BY <2>1 DEF Paired
  <2>3. i \in Entries(q)
    BY <2>1, <2>2 DEF Hollowed, Entries
  <2> QED
    BY <2>1, <2>2, <2>3
<1> QED
  BY <1>1, ErotInvariant, PTL

(* A handler that ends in a walk dies of a hollow entry only.              *)
LEMMA WalkCrash ==
  ASSUME NEW p, NEW sync, NEW r, NEW cost, Walk(p, sync, r, cost), alive, ~alive'
  PROVE  HollowIds(p) # {}
  BY DEF Walk, MayCrash

LEMMA RegisterHollow ==
  ASSUME NEW p \in RequesterType, NEW i \in Ids, NEW c
  PROVE  HollowIds(registerRequest(p, i, c)) \subseteq HollowIds(p)
<1> DEFINE n == [client |-> c, st |-> "queued", left |-> Resends]
           x == registerRequest(p, i, c)
<1>1. n.st = "queued" /\ p.entry \in [Ids -> EntryType]
  BY DEF RequesterType
<1>2. x.entry = [p.entry EXCEPT ![i] = n]
  BY DEF registerRequest, RequesterType, n
<1> HIDE DEF x, n
<1>3. \A j \in Ids : x.entry[j].st = "hollow" => p.entry[j].st = "hollow"
  BY <1>1, <1>2
<1> QED
  BY <1>3 DEF HollowIds, x

LEMMA ErasedHollow ==
  ASSUME NEW p \in RequesterType, NEW x, NEW i \in Ids,
         \A j \in Ids : x.entry[j] = IF j = i THEN NoEntry ELSE p.entry[j]
  PROVE  HollowIds(x) \subseteq HollowIds(p)
  BY DEF HollowIds, NoEntry

LEMMA QueryCrash ==
  ASSUME NEW c, NEW r, q \in RequesterType, Query(c, r), alive, ~alive'
  PROVE  HollowIds(q) # {}
<1> DEFINE asking == [r EXCEPT !.co = @ \cup {c}, !.own = IF c = "ap" THEN TRUE ELSE @]
<1>1. PICK i \in next(q) : Walk(registerRequest(q, i, c), {i}, asking, 0)
  BY DEF Query
<1> HIDE DEF asking
<1>2. i \in Ids
  BY DEF next
<1>3. HollowIds(registerRequest(q, i, c)) # {}
  BY <1>1, WalkCrash
<1> QED
  BY <1>2, <1>3, RegisterHollow

(* The daemon dies only while a hollow request entry is there: one that a  *)
(* deferred removal made because a response or a failed send had taken its *)
(* entry first (removeRequestEntry's handlers[key]).                       *)
DiesHollow == alive /\ ~alive' => HollowIds(q) # {}
LEMMA DyingStep == ASSUME ErotInv, Next, alive, ~alive' PROVE HollowIds(q) # {}
<1>0. q \in RequesterType
  BY InvFacts
<1>1. CASE runAPBootStatusQuery
  BY <1>0, <1>1, QueryCrash DEF runAPBootStatusQuery
<1>2. CASE runERoTRecoveryMonitor
  BY <1>0, <1>2, QueryCrash DEF runERoTRecoveryMonitor, ExitCheck
<1>3. CASE onERoTEndpointAdded
  BY <1>0, <1>3, QueryCrash DEF onERoTEndpointAdded, ExitCheck
<1>4. CASE Receive
  <2>1. PICK m \in inbox : \/ m.id \in HollowIds(q)
                           \/ \E r, cost : Walk(handleResponse(q, m.id), {}, r, cost)
    BY <1>4 DEF Receive
  <2>2. m.id \in Ids
    BY InvFacts DEF Responses
  <2>3. ASSUME NEW r, NEW cost, Walk(handleResponse(q, m.id), {}, r, cost) PROVE HollowIds(q) # {}
    <3>1. HollowIds(handleResponse(q, m.id)) # {}
      BY <2>3, WalkCrash
    <3>2. \A j \in Ids : handleResponse(q, m.id).entry[j] = IF j = m.id THEN NoEntry ELSE q.entry[j]
      BY <1>0, <2>2, FreedFacts DEF handleResponse
    <3> QED
      BY <1>0, <2>2, <3>1, <3>2, ErasedHollow
  <2> QED
    BY <2>1, <2>3
<1>5. ASSUME NEW i \in Ids, RemoveEntry(i) PROVE HollowIds(q) # {}
  <2>1. PICK r : i \in Entries(q) /\ Walk(removeRequestEntry(q, i), {}, r, 0)
    BY <1>5 DEF RemoveEntry
  <2>2. HollowIds(removeRequestEntry(q, i)) # {}
    BY <2>1, WalkCrash
  <2>3. \A j \in Ids : removeRequestEntry(q, i).entry[j] = IF j = i THEN NoEntry ELSE q.entry[j]
    BY <1>0, <2>1, RemovedFacts DEF Entries
  <2> QED
    BY <1>0, <2>2, <2>3, ErasedHollow
<1>6. CASE World
  BY <1>6 DEF World, ApChanges, ErotEnters, ErotLeaves, EndpointAppears, ChassisPower, LineChanges, Answers, Lost
<1>7. CASE \/ Construct \/ PollTimer \/ waitForGPIOEvent \/ GPIOEventThrows \/ retryGPIOEventRegistration
           \/ OnPower \/ SettleTimer \/ ResendTimer \/ InstanceIdTimer
  BY <1>7 DEF Construct, PollTimer, waitForGPIOEvent, GPIOEventThrows, retryGPIOEventRegistration, OnPower,
              SettleTimer, Resource, ResendTimer, InstanceIdTimer
<1> QED
  BY <1>1, <1>2, <1>3, <1>4, <1>5, <1>6, <1>7 DEF Next, Daemon

(* No event, timer, message or answer kills the daemon without a hollow    *)
(* entry: every other path of the requester's handlers returns.            *)
THEOREM DiesOnHollowEntries == Spec => [][DiesHollow]_vars
<1>1. ErotInv /\ [Next]_vars => [DiesHollow]_vars
  BY DyingStep DEF DiesHollow
<1> QED
  BY <1>1, ErotInvariant, PTL DEF Spec
============================================================================
