----------------------- MODULE GpioSubscriber_proofs -----------------------
(***************************************************************************)
(* Proofs about the gpio-mon subscriber (module GpioSubscriber): for any   *)
(* lines, any number of level changes, outages, failed calls and attempts, *)
(* the orchestrator never sees an older level after a newer one, and has   *)
(* the level of every bound line when nothing is on its way.               *)
(***************************************************************************)
EXTENDS GpioSubscriber, TLAPS

-----------------------------------------------------------------------------
(* Messages.                                                               *)
Messages ==
    [type: {"start"}]
    \cup [type: {"props"}, line: Lines, bound: {"same", "yes", "no"},
          version: Nat \cup {-1}]
    \cup [type: {"removed"}, line: Lines]
    \cup [type: {"owner"}, appeared: BOOLEAN]
    \cup [type: {"tree"}, serial: Nat \ {0}, boundLines: SUBSET Lines,
          versions: [Lines -> Nat]]
    \cup [type: {"error"}, serial: Nat \ {0}, kind: {"transient", "missing"}]

(* A message that says gpio-mon came or went.                              *)
Came(m) == m.type = "owner" /\ m.appeared
Went(m) == m.type = "owner" /\ ~m.appeared

(* What a message says of a line: its level, that it is bound, that it is  *)
(* not, that its object is gone.                                           *)
Tells(m, l) == m.type = "props" /\ m.line = l /\ m.version # -1
Binds(m, l) == m.type = "props" /\ m.line = l /\ m.bound = "yes"
Drops(m, l) == m.type = "removed" /\ m.line = l
Unbinds(m, l) == Drops(m, l) \/ (m.type = "props" /\ m.line = l /\ m.bound = "no")

(* A reply of the call the slot holds.                                     *)
IsReply(m) == m.type \in {"tree", "error"}
Live(m) == IsReply(m) /\ m.serial = slot

Types ==
    /\ up \in BOOLEAN
    /\ version \in [Lines -> Nat]
    /\ bound \subseteq Lines
    /\ inbox \in Seq(Messages)
    /\ requests \in Seq(1..sent)
    /\ byPath \in [Lines -> [bound: BOOLEAN, hasValue: BOOLEAN, version: Nat]]
    /\ machine \in [phase: Phases, attempts: Nat, everReady: BOOLEAN]
    /\ slot \in 0..sent
    /\ retryTimer \in BOOLEAN
    /\ injected \in [Lines -> Nat \cup {-1}]
    /\ sent \in Nat /\ outages \in Nat /\ failures \in 0..MaxFailures
    /\ \A i \in 1..Len(inbox) : IsReply(inbox[i]) => inbox[i].serial \in 1..sent

-----------------------------------------------------------------------------
(* The levels a line passes through arrive in order.  Speaks: the message  *)
(* has a level of the line, LevelIn which.                                 *)
Speaks(m, l) == m.type = "tree" \/ Tells(m, l)
LevelIn(m, l) == IF m.type = "tree" THEN m.versions[l] ELSE m.version

InOrder ==
    /\ \A l \in Lines : /\ injected[l] <= version[l]
                        /\ byPath[l].hasValue => /\ injected[l] <= byPath[l].version
                                                 /\ byPath[l].version <= version[l]
    /\ \A l \in Lines : \A i \in 1..Len(inbox) : Speaks(inbox[i], l) =>
          /\ injected[l] <= LevelIn(inbox[i], l) /\ LevelIn(inbox[i], l) <= version[l]
          /\ byPath[l].hasValue => byPath[l].version <= LevelIn(inbox[i], l)
    /\ \A l \in Lines : \A i, j \in 1..Len(inbox) :
          i < j /\ Speaks(inbox[i], l) /\ Speaks(inbox[j], l) =>
              LevelIn(inbox[i], l) <= LevelIn(inbox[j], l)

(* What the cache lets the orchestrator see, it has been given.            *)
CacheInjected ==
    \A l \in Lines : decideInject(byPath[l]) =>
        injected[l] # -1 /\ Value(injected[l]) = Value(byPath[l].version)

-----------------------------------------------------------------------------
(* The machine, the slot and the timer agree; the start request is handled *)
(* before anything else.                                                   *)
MachineRight ==
    /\ (slot # 0) <=> (machine.phase = "InFlight")
    /\ retryTimer <=> (machine.phase = "RetryWait")
    /\ \A i \in 1..Len(inbox) : inbox[i].type = "start" =>
          i = 1 /\ machine.phase = "Idle" /\ machine.attempts = 0

Departing == \E i \in 1..Len(inbox) : Went(inbox[i])
Coming == \E i \in 1..Len(inbox) : inbox[i].type = "start" \/ Came(inbox[i])

(* While gpio-mon is up, every departure on its way is followed by an      *)
(* appearance.                                                             *)
Returns ==
    up => \A i \in 1..Len(inbox) : Went(inbox[i]) =>
              \E j \in 1..Len(inbox) : j > i /\ Came(inbox[j])

(* Every attempt but the one in flight was used up by a failure.           *)
AttemptsCounted ==
    ~Departing =>
        /\ machine.phase = "InFlight" => machine.attempts <= failures + 1
        /\ machine.phase = "RetryWait" => machine.attempts <= failures
        /\ \A i \in 1..Len(inbox) :
              Live(inbox[i]) /\ inbox[i].type = "error" /\ inbox[i].kind = "transient" =>
                  machine.attempts <= failures

(* While gpio-mon is gone, and the daemon knows, only the bus answers.     *)
GoneAnswers ==
    ~Departing /\ ~up =>
        \A i \in 1..Len(inbox) : Live(inbox[i]) =>
            inbox[i].type = "error" /\ inbox[i].kind = "missing"

(* What the messages after the i-th say of a line: nothing against its     *)
(* being bound, or in the end that it is; no level, or last its level now. *)
StaysBound(i, l) == \A k \in 1..Len(inbox) : k > i => ~Unbinds(inbox[k], l)
GetsBound(i, l) ==
    \E j \in 1..Len(inbox) : j > i /\ Binds(inbox[j], l) /\ StaysBound(j, l)
StaysTold(i, l) ==
    \A k \in 1..Len(inbox) : k > i => ~Tells(inbox[k], l) /\ ~Drops(inbox[k], l)
GetsTold(i, l) ==
    \E j \in 1..Len(inbox) : /\ j > i /\ Tells(inbox[j], l)
                             /\ inbox[j].version = version[l] /\ StaysTold(j, l)

(* A snapshot, or the cache, and what follows lead to the line as it is.   *)
TreeLeadsHome(i, l) ==
    /\ (l \in inbox[i].boundLines /\ StaysBound(i, l)) \/ GetsBound(i, l)
    /\ (inbox[i].versions[l] = version[l] /\ StaysTold(i, l)) \/ GetsTold(i, l)
CacheLeadsHome(l) ==
    /\ (byPath[l].bound /\ StaysBound(0, l)) \/ GetsBound(0, l)
    /\ \/ byPath[l].hasValue /\ byPath[l].version = version[l] /\ StaysTold(0, l)
       \/ GetsTold(0, l)

Retries == MaxFailures < MaxAttempts

(* While gpio-mon is up: an error of the bus is followed by an appearance, *)
(* a snapshot on its way leads to the lines as they are, and so does the   *)
(* cache when no snapshot is to come.                                      *)
OnTheWay ==
    Retries /\ ~Departing /\ up =>
        /\ \A i \in 1..Len(inbox) :
              Live(inbox[i]) /\ inbox[i].type = "error" /\ inbox[i].kind = "missing" =>
                  \E j \in 1..Len(inbox) : j > i /\ Came(inbox[j])
        /\ \A i \in 1..Len(inbox) : Live(inbox[i]) /\ inbox[i].type = "tree" =>
              \A l \in bound : TreeLeadsHome(i, l)
        /\ machine.phase \in {"Idle", "Ready"} /\ ~Coming =>
              \A l \in bound : CacheLeadsHome(l)

SubscriberInv == Types /\ InOrder /\ CacheInjected /\ MachineRight /\ Returns
                 /\ AttemptsCounted /\ GoneAnswers /\ OnTheWay

-----------------------------------------------------------------------------
(* Messages and the inbox.                                                 *)

LEMMA MessageFacts ==
    ASSUME NEW m \in Messages
    PROVE  /\ m.type \in {"start", "props", "removed", "owner", "tree", "error"}
           /\ m.type \in {"props", "removed"} => m.line \in Lines
           /\ m.type = "props" => /\ m.bound \in {"same", "yes", "no"}
                                  /\ m.version \in Nat \cup {-1}
           /\ m.type = "owner" => m.appeared \in BOOLEAN
           /\ IsReply(m) => m.serial \in Nat \ {0}
           /\ m.type = "tree" => /\ m.boundLines \in SUBSET Lines
                                 /\ m.versions \in [Lines -> Nat]
           /\ m.type = "error" => m.kind \in {"transient", "missing"}
  BY DEF Messages, IsReply

LEMMA LineMessages ==
    ASSUME NEW l \in Lines, NEW b \in {"same", "yes", "no"}, NEW v \in Nat \cup {-1}
    PROVE  /\ Props(l, b, v) \in Messages
           /\ Props(l, b, v).type = "props" /\ Props(l, b, v).line = l
           /\ Props(l, b, v).bound = b /\ Props(l, b, v).version = v
           /\ Removed(l) \in Messages /\ Removed(l).type = "removed" /\ Removed(l).line = l
  BY DEF Props, Removed, Messages

LEMMA BusMessages ==
    ASSUME NEW serial \in Nat \ {0}, NEW kind \in {"transient", "missing"},
           NEW b \in BOOLEAN, bound \subseteq Lines, version \in [Lines -> Nat]
    PROVE  /\ Owner(b) \in Messages /\ Owner(b).type = "owner" /\ (Owner(b).appeared <=> b)
           /\ Tree(serial) \in Messages /\ Tree(serial).type = "tree"
           /\ Tree(serial).serial = serial /\ Tree(serial).boundLines = bound
           /\ Tree(serial).versions = version
           /\ Error(serial, kind) \in Messages /\ Error(serial, kind).type = "error"
           /\ Error(serial, kind).serial = serial /\ Error(serial, kind).kind = kind
           /\ Start \in Messages /\ Start.type = "start"
  BY DEF Owner, Tree, Error, Start, Messages

Pop == inbox \in Seq(Messages) /\ inbox # <<>> /\ inbox' = Tail(inbox)

LEMMA PopFacts ==
    ASSUME Pop
    PROVE  /\ Len(inbox) \in Nat /\ Len(inbox) >= 1 /\ Len(inbox') = Len(inbox) - 1
           /\ Head(inbox) = inbox[1] /\ 1 \in 1..Len(inbox) /\ inbox[1] \in Messages
           /\ inbox' \in Seq(Messages)
           /\ \A i \in 1..Len(inbox') : i + 1 \in 1..Len(inbox) /\ inbox'[i] = inbox[i + 1]
           /\ \A k \in 1..Len(inbox) :
                 k = 1 \/ (k - 1 \in 1..Len(inbox') /\ inbox'[k - 1] = inbox[k])
<1>1. /\ Len(inbox) \in Nat /\ Len(inbox) >= 1 /\ Len(inbox') = Len(inbox) - 1
      /\ Head(inbox) = inbox[1] /\ inbox' \in Seq(Messages)
      /\ \A i \in 1..(Len(inbox) - 1) : inbox'[i] = inbox[i + 1]
  BY DEF Pop
<1>2. 1 \in 1..Len(inbox) /\ inbox[1] \in Messages
  BY <1>1 DEF Pop
<1>3. \A i \in 1..Len(inbox') : i + 1 \in 1..Len(inbox) /\ inbox'[i] = inbox[i + 1]
  BY <1>1
<1>4. ASSUME NEW k \in 1..Len(inbox), k # 1
      PROVE  k - 1 \in 1..Len(inbox') /\ inbox'[k - 1] = inbox[k]
  <2>1. k - 1 \in 1..Len(inbox') /\ (k - 1) + 1 = k
    BY <1>1, <1>4
  <2> QED
    BY <1>3, <2>1
<1> QED
  BY <1>1, <1>2, <1>3, <1>4

Push(x) == inbox \in Seq(Messages) /\ x \in Seq(Messages) /\ inbox' = inbox \o x

LEMMA PushFacts ==
    ASSUME NEW x, Push(x)
    PROVE  /\ Len(inbox) \in Nat /\ Len(x) \in Nat /\ Len(inbox') = Len(inbox) + Len(x)
           /\ inbox' \in Seq(Messages)
           /\ \A i \in 1..Len(inbox) : i \in 1..Len(inbox') /\ inbox'[i] = inbox[i]
           /\ \A i \in 1..Len(x) : Len(inbox) + i \in 1..Len(inbox')
                                   /\ inbox'[Len(inbox) + i] = x[i]
           /\ \A k \in 1..Len(inbox') :
                 \/ k \in 1..Len(inbox)
                 \/ k - Len(inbox) \in 1..Len(x) /\ inbox'[k] = x[k - Len(inbox)]
<1>1. /\ Len(inbox) \in Nat /\ Len(x) \in Nat /\ Len(inbox') = Len(inbox) + Len(x)
      /\ inbox' \in Seq(Messages)
      /\ \A i \in 1..Len(inbox) : inbox'[i] = inbox[i]
      /\ \A i \in 1..Len(x) : inbox'[Len(inbox) + i] = x[i]
  BY DEF Push
<1>2. \A i \in 1..Len(inbox) : i \in 1..Len(inbox')
  BY <1>1
<1>3. \A i \in 1..Len(x) : Len(inbox) + i \in 1..Len(inbox')
  BY <1>1
<1>4. ASSUME NEW k \in 1..Len(inbox'), k \notin 1..Len(inbox)
      PROVE  k - Len(inbox) \in 1..Len(x) /\ inbox'[k] = x[k - Len(inbox)]
  <2>1. k - Len(inbox) \in 1..Len(x) /\ Len(inbox) + (k - Len(inbox)) = k
    BY <1>1, <1>4
  <2> QED
    BY <1>1, <2>1
<1> QED
  BY <1>1, <1>2, <1>3, <1>4

(* What is said after a message is still said after it when the head is    *)
(* taken.                                                                  *)
LEMMA PopSaid ==
    ASSUME Pop, NEW l, version'[l] = version[l], NEW i \in Nat
    PROVE  /\ StaysBound(i + 1, l) => StaysBound(i, l)'
           /\ GetsBound(i + 1, l) => GetsBound(i, l)'
           /\ StaysTold(i + 1, l) => StaysTold(i, l)'
           /\ GetsTold(i + 1, l) => GetsTold(i, l)'
<1>1. ASSUME NEW n \in Nat PROVE /\ StaysBound(n + 1, l) => StaysBound(n, l)'
                                 /\ StaysTold(n + 1, l) => StaysTold(n, l)'
  <2>1. \A k \in 1..Len(inbox') :
           k > n => k + 1 \in 1..Len(inbox) /\ inbox'[k] = inbox[k + 1] /\ k + 1 > n + 1
    BY PopFacts
  <2>2. ASSUME StaysBound(n + 1, l) PROVE StaysBound(n, l)'
    BY <2>1, <2>2 DEF StaysBound, Unbinds, Drops
  <2>3. ASSUME StaysTold(n + 1, l) PROVE StaysTold(n, l)'
    BY <2>1, <2>3 DEF StaysTold, Tells, Drops
  <2> QED
    BY <2>2, <2>3
<1>2. ASSUME NEW j \in 1..Len(inbox), j > i + 1
      PROVE  j - 1 \in 1..Len(inbox') /\ inbox'[j - 1] = inbox[j] /\ j - 1 > i
             /\ j - 1 \in Nat /\ (j - 1) + 1 = j
  BY <1>2, PopFacts
<1>3. ASSUME GetsBound(i + 1, l) PROVE GetsBound(i, l)'
  <2>1. PICK j \in 1..Len(inbox) : j > i + 1 /\ Binds(inbox[j], l) /\ StaysBound(j, l)
    BY <1>3 DEF GetsBound
  <2> DEFINE n == j - 1
  <2>2. n \in Nat /\ n + 1 = j /\ n \in 1..Len(inbox') /\ inbox'[n] = inbox[j] /\ n > i
    BY <1>2, <2>1
  <2> HIDE DEF n
  <2>3. StaysBound(n, l)'
    BY <1>1, <2>1, <2>2
  <2>4. Binds(inbox'[n], l)
    BY <2>1, <2>2
  <2> QED
    BY <2>2, <2>3, <2>4 DEF GetsBound
<1>4. ASSUME GetsTold(i + 1, l) PROVE GetsTold(i, l)'
  <2>1. PICK j \in 1..Len(inbox) : /\ j > i + 1 /\ Tells(inbox[j], l)
                                   /\ inbox[j].version = version[l] /\ StaysTold(j, l)
    BY <1>4 DEF GetsTold
  <2> DEFINE n == j - 1
  <2>2. n \in Nat /\ n + 1 = j /\ n \in 1..Len(inbox') /\ inbox'[n] = inbox[j] /\ n > i
    BY <1>2, <2>1
  <2> HIDE DEF n
  <2>3. StaysTold(n, l)'
    BY <1>1, <2>1, <2>2
  <2>4. Tells(inbox'[n], l) /\ inbox'[n].version = version'[l]
    BY <2>1, <2>2
  <2> QED
    BY <2>2, <2>3, <2>4 DEF GetsTold
<1> QED
  BY <1>1, <1>3, <1>4

(* The head is the first message that counts for the cache.                *)
LEMMA HeadSaid ==
    ASSUME Pop, NEW l, version'[l] = version[l]
    PROVE  /\ StaysBound(0, l) => ~Unbinds(inbox[1], l) /\ StaysBound(0, l)'
           /\ GetsBound(0, l) => GetsBound(0, l)' \/ (Binds(inbox[1], l) /\ StaysBound(0, l)')
           /\ StaysTold(0, l) => /\ ~Tells(inbox[1], l) /\ ~Drops(inbox[1], l)
                                 /\ StaysTold(0, l)'
           /\ GetsTold(0, l) => \/ GetsTold(0, l)'
                                \/ /\ Tells(inbox[1], l) /\ inbox[1].version = version[l]
                                   /\ StaysTold(0, l)'
<1>1. 0 \in Nat /\ 0 + 1 = 1 /\ 1 \in 1..Len(inbox) /\ Len(inbox) \in Nat
  BY PopFacts
<1>2. /\ StaysBound(1, l) => StaysBound(0, l)'
      /\ GetsBound(1, l) => GetsBound(0, l)'
      /\ StaysTold(1, l) => StaysTold(0, l)'
      /\ GetsTold(1, l) => GetsTold(0, l)'
  BY <1>1, PopSaid
<1>3. /\ StaysBound(0, l) => ~Unbinds(inbox[1], l) /\ StaysBound(1, l)
      /\ StaysTold(0, l) => ~Tells(inbox[1], l) /\ ~Drops(inbox[1], l) /\ StaysTold(1, l)
  BY <1>1 DEF StaysBound, StaysTold
<1>4. \A j \in 1..Len(inbox) : j = 1 \/ j > 1
  OBVIOUS
<1>5. GetsBound(0, l) => GetsBound(1, l) \/ (Binds(inbox[1], l) /\ StaysBound(1, l))
  BY <1>4 DEF GetsBound
<1>6. GetsTold(0, l) => \/ GetsTold(1, l)
                        \/ /\ Tells(inbox[1], l) /\ inbox[1].version = version[l]
                           /\ StaysTold(1, l)
  BY <1>4 DEF GetsTold
<1> QED
  BY <1>2, <1>3, <1>5, <1>6
(* Messages pushed that say nothing of a line.                             *)
LEMMA PushSaid ==
    ASSUME NEW x, Push(x), NEW l, NEW i \in 0..Len(inbox)
    PROVE  /\ (\A j \in 1..Len(x) : ~Unbinds(x[j], l)) =>
                 /\ StaysBound(i, l) => StaysBound(i, l)'
                 /\ GetsBound(i, l) => GetsBound(i, l)'
           /\ (\A j \in 1..Len(x) : ~Tells(x[j], l) /\ ~Drops(x[j], l)) =>
                 /\ StaysTold(i, l) => StaysTold(i, l)'
                 /\ version'[l] = version[l] /\ GetsTold(i, l) => GetsTold(i, l)'
<1>1. ASSUME \A j \in 1..Len(x) : ~Unbinds(x[j], l), NEW n \in 0..Len(inbox), StaysBound(n, l)
      PROVE  StaysBound(n, l)'
  <2>1. ASSUME NEW k \in 1..Len(inbox'), k > n PROVE ~Unbinds(inbox'[k], l)
    <3>1. CASE k \in 1..Len(inbox)
      BY <1>1, <2>1, <3>1, PushFacts DEF StaysBound
    <3>2. CASE k \notin 1..Len(inbox)
      BY <1>1, <3>2, PushFacts
    <3> QED
      BY <3>1, <3>2
  <2> QED
    BY <2>1 DEF StaysBound
<1>2. ASSUME \A j \in 1..Len(x) : ~Tells(x[j], l) /\ ~Drops(x[j], l),
             NEW n \in 0..Len(inbox), StaysTold(n, l)
      PROVE  StaysTold(n, l)'
  <2>1. ASSUME NEW k \in 1..Len(inbox'), k > n
        PROVE  ~Tells(inbox'[k], l) /\ ~Drops(inbox'[k], l)
    <3>1. CASE k \in 1..Len(inbox)
      BY <1>2, <2>1, <3>1, PushFacts DEF StaysTold
    <3>2. CASE k \notin 1..Len(inbox)
      BY <1>2, <3>2, PushFacts
    <3> QED
      BY <3>1, <3>2
  <2> QED
    BY <2>1 DEF StaysTold
<1>3. ASSUME \A j \in 1..Len(x) : ~Unbinds(x[j], l), GetsBound(i, l) PROVE GetsBound(i, l)'
  <2>1. PICK j \in 1..Len(inbox) : j > i /\ Binds(inbox[j], l) /\ StaysBound(j, l)
    BY <1>3 DEF GetsBound
  <2>2. j \in 0..Len(inbox) /\ j \in 1..Len(inbox') /\ inbox'[j] = inbox[j]
    BY <2>1, PushFacts
  <2>3. StaysBound(j, l)'
    BY <1>1, <1>3, <2>1, <2>2
  <2> QED
    BY <2>1, <2>2, <2>3 DEF GetsBound
<1>4. ASSUME \A j \in 1..Len(x) : ~Tells(x[j], l) /\ ~Drops(x[j], l), GetsTold(i, l),
             version'[l] = version[l]
      PROVE  GetsTold(i, l)'
  <2>1. PICK j \in 1..Len(inbox) : /\ j > i /\ Tells(inbox[j], l)
                                   /\ inbox[j].version = version[l] /\ StaysTold(j, l)
    BY <1>4 DEF GetsTold
  <2>2. j \in 0..Len(inbox) /\ j \in 1..Len(inbox') /\ inbox'[j] = inbox[j]
    BY <2>1, PushFacts
  <2>3. StaysTold(j, l)'
    BY <1>2, <1>4, <2>1, <2>2
  <2> QED
    BY <1>4, <2>1, <2>2, <2>3 DEF GetsTold
<1> QED
  BY <1>1, <1>2, <1>3, <1>4

(* Messages pushed that end by binding the line, or by telling its level.  *)
LEMMA PushTold ==
    ASSUME NEW x, Push(x), NEW l, NEW i \in 0..Len(inbox), NEW j \in 1..Len(x),
           Tells(x[j], l), x[j].version = version'[l],
           \A k \in 1..Len(x) : k > j => ~Tells(x[k], l) /\ ~Drops(x[k], l)
    PROVE  GetsTold(i, l)'
<1>0. PICK n \in Nat : n = Len(inbox) + j
  BY PushFacts
<1>1. n \in 1..Len(inbox') /\ n > i /\ inbox'[n] = x[j] /\ n \in Nat
  BY <1>0, PushFacts
<1>2. ASSUME NEW k \in 1..Len(inbox'), k > n
      PROVE  ~Tells(inbox'[k], l) /\ ~Drops(inbox'[k], l)
  <2>1. k - Len(inbox) \in 1..Len(x) /\ inbox'[k] = x[k - Len(inbox)] /\ k - Len(inbox) > j
    BY <1>0, <1>2, PushFacts
  <2> QED
    BY <2>1
<1>3. StaysTold(n, l)'
  BY <1>2 DEF StaysTold
<1>4. Tells(inbox'[n], l) /\ inbox'[n].version = version'[l]
  BY <1>1
<1> QED
  BY <1>1, <1>3, <1>4 DEF GetsTold

LEMMA PushBound ==
    ASSUME NEW x, Push(x), NEW l, NEW i \in 0..Len(inbox), NEW j \in 1..Len(x),
           Binds(x[j], l), \A k \in 1..Len(x) : k > j => ~Unbinds(x[k], l)
    PROVE  GetsBound(i, l)'
<1>0. PICK n \in Nat : n = Len(inbox) + j
  BY PushFacts
<1>1. n \in 1..Len(inbox') /\ n > i /\ inbox'[n] = x[j] /\ n \in Nat
  BY <1>0, PushFacts
<1>2. ASSUME NEW k \in 1..Len(inbox'), k > n PROVE ~Unbinds(inbox'[k], l)
  <2>1. k - Len(inbox) \in 1..Len(x) /\ inbox'[k] = x[k - Len(inbox)] /\ k - Len(inbox) > j
    BY <1>0, <1>2, PushFacts
  <2> QED
    BY <2>1
<1>3. StaysBound(n, l)'
  BY <1>2 DEF StaysBound
<1>4. Binds(inbox'[n], l)
  BY <1>1
<1> QED
  BY <1>1, <1>3, <1>4 DEF GetsBound
-----------------------------------------------------------------------------
(* The snapshot machine.                                                   *)
Machines == [phase: Phases, attempts: Nat, everReady: BOOLEAN]

MachineAgrees ==
    /\ (slot # 0) <=> (machine.phase = "InFlight")
    /\ retryTimer <=> (machine.phase = "RetryWait")

(* What a call of dispatchSnapshotCall leaves, with attempts made before.  *)
Dispatched(attempts) ==
    /\ sent' \in Nat /\ sent <= sent' /\ requests' \in Seq(1..sent')
    /\ slot' \in 0..sent' /\ (slot' = 0 \/ slot' > sent)
    /\ machine' \in Machines /\ retryTimer' \in BOOLEAN /\ failures' \in 0..MaxFailures
    /\ MachineAgrees'
    /\ \/ machine'.phase = "InFlight" /\ machine'.attempts = attempts + 1 /\ failures' = failures
       \/ machine'.phase = "RetryWait" /\ machine'.attempts = attempts /\ failures' = failures + 1
       \/ /\ machine'.phase \in {"Idle", "Ready"} /\ machine'.attempts = attempts
          /\ attempts >= MaxAttempts \/ ~up

LEMMA FailedFacts ==
    ASSUME NEW m \in Machines, NEW armed \in BOOLEAN
    PROVE  LET a == onEvent(m, "CallFailedTransient")
               b == onEvent(m, "CallFailedMissing")
           IN  /\ a.machine \in Machines /\ a.machine.attempts = m.attempts
               /\ \/ /\ a.machine.phase = "RetryWait" /\ TimerAfterActions(a, armed)
                     /\ ~(m.attempts >= MaxAttempts)
                  \/ /\ a.machine.phase \in {"Idle", "Ready"} /\ ~TimerAfterActions(a, armed)
                     /\ m.attempts >= MaxAttempts
               /\ b.machine \in Machines /\ b.machine.attempts = m.attempts
               /\ b.machine.phase = "Idle" /\ ~TimerAfterActions(b, armed)
<1>1. CASE m.attempts >= MaxAttempts
  BY <1>1 DEF onEvent, CallFailedTransient, Answer, TimerAfterActions, Machines, Phases
<1>2. CASE ~(m.attempts >= MaxAttempts)
  BY <1>2 DEF onEvent, CallFailedTransient, Answer, TimerAfterActions, Machines, Phases
<1> QED
  BY <1>1, <1>2

LEMMA Dispatching ==
    ASSUME Types, NEW m \in Machines, NEW armed, armed = FALSE,
           dispatchSnapshotCall(m, armed, 0)
    PROVE  Dispatched(m.attempts)
<1>1. CASE /\ machine' = onEvent(m, "CallDispatched").machine
           /\ slot' = sent + 1 /\ sent' = sent + 1
           /\ requests' = Append(requests, sent + 1)
           /\ retryTimer' = armed
           /\ UNCHANGED failures
  <2>1. /\ machine' \in Machines /\ machine'.phase = "InFlight"
        /\ machine'.attempts = m.attempts + 1
    <3> DEFINE n == m.attempts + 1
    <3>1. n \in Nat
      BY DEF Machines
    <3>2. machine' = [m EXCEPT !.phase = "InFlight", !.attempts = n]
      BY <1>1 DEF onEvent, Answer
    <3> HIDE DEF n
    <3>3. machine' \in Machines /\ machine'.phase = "InFlight" /\ machine'.attempts = n
      BY <3>1, <3>2 DEF Machines, Phases
    <3> QED
      BY <3>3 DEF n
  <2>2. requests' \in Seq(1..sent')
    <3> DEFINE S == 1..sent  T == 1..(sent + 1)
    <3>1. requests \in Seq(S) /\ sent \in Nat /\ sent + 1 \in T /\ S \subseteq T
      BY DEF Types
    <3> HIDE DEF S, T
    <3>2. requests \in Seq(T)
      BY <3>1
    <3>3. Append(requests, sent + 1) \in Seq(T)
      BY <3>1, <3>2
    <3> QED
      BY <1>1, <3>3 DEF T
  <2>3. sent \in Nat /\ failures \in 0..MaxFailures
    BY DEF Types
  <2>4. /\ sent' \in Nat /\ sent <= sent' /\ slot' \in 0..sent' /\ slot' > sent /\ slot' # 0
        /\ retryTimer' = FALSE /\ failures' \in 0..MaxFailures
    BY <1>1, <2>3
  <2> QED
    BY <1>1, <2>1, <2>2, <2>4 DEF Dispatched, MachineAgrees
<1>2. CASE /\ failures < MaxFailures
           /\ failures' = failures + 1
           /\ \E event \in {"CallFailedTransient"}
                       \cup (IF up THEN {} ELSE {"CallFailedMissing"}) :
                 LET a == onEvent(m, event)
                 IN  /\ machine' = a.machine
                     /\ retryTimer' = TimerAfterActions(a, armed)
           /\ slot' = 0
           /\ UNCHANGED <<requests, sent>>
  <2>1. PICK event \in {"CallFailedTransient", "CallFailedMissing"} :
           /\ machine' = onEvent(m, event).machine
           /\ retryTimer' = TimerAfterActions(onEvent(m, event), armed)
           /\ event = "CallFailedMissing" => ~up
    BY <1>2
  <2>2. failures' \in 0..MaxFailures
    BY <1>2, BoundsAssumption DEF Types
  <2>3. retryTimer' \in BOOLEAN
    BY <2>1 DEF TimerAfterActions
  <2>4. /\ machine' \in Machines /\ machine'.attempts = m.attempts
        /\ \/ machine'.phase = "RetryWait" /\ retryTimer'
           \/ /\ machine'.phase \in {"Idle", "Ready"} /\ ~retryTimer'
              /\ m.attempts >= MaxAttempts \/ ~up
    BY <2>1, FailedFacts
  <2> QED
    BY <1>2, <2>2, <2>3, <2>4 DEF Dispatched, MachineAgrees, Types
<1> QED
  BY <1>1, <1>2 DEF dispatchSnapshotCall

(* The events that start a call, unless one is in flight.                  *)
LEMMA Redispatching ==
    ASSUME Types, MachineAgrees, machine.phase # "InFlight"
    PROVE  /\ applyMachine("ServiceAppeared", retryTimer, slot) => Dispatched(0)
           /\ applyMachine("StartRequested", retryTimer, slot) => Dispatched(machine.attempts)
           /\ machine.phase = "RetryWait" /\ applyMachine("RetryTimerFired", FALSE, slot) =>
                 Dispatched(machine.attempts)
<1>0. slot = 0 /\ machine \in Machines /\ retryTimer \in BOOLEAN
      /\ (machine.phase # "RetryWait" => ~retryTimer)
  BY DEF MachineAgrees, Types, Machines
<1> DEFINE m == [machine EXCEPT !.attempts = 0]
<1>1. m \in Machines /\ m.attempts = 0 /\ m.phase = machine.phase
  BY <1>0 DEF Machines
<1> HIDE DEF m
<1>2. ASSUME NEW q \in Machines, q.phase = machine.phase
      PROVE  /\ "dispatch" \in Restarted(q).actions /\ Restarted(q).machine = q
             /\ TimerAfterActions(Restarted(q), retryTimer) = FALSE
  BY <1>0, <1>2 DEF Restarted, Answer, TimerAfterActions
<1>3. ASSUME applyMachine("ServiceAppeared", retryTimer, slot) PROVE Dispatched(0)
  <2>1. onEvent(machine, "ServiceAppeared") = Restarted(m)
    BY DEF onEvent, m
  <2>2. dispatchSnapshotCall(m, FALSE, 0)
    BY <1>0, <1>1, <1>2, <1>3, <2>1 DEF applyMachine
  <2> QED
    BY <1>1, <2>2, Dispatching
<1>4. ASSUME applyMachine("StartRequested", retryTimer, slot)
      PROVE  Dispatched(machine.attempts)
  <2>1. onEvent(machine, "StartRequested") = Restarted(machine)
    BY DEF onEvent
  <2>2. dispatchSnapshotCall(machine, FALSE, 0)
    BY <1>0, <1>2, <1>4, <2>1 DEF applyMachine
  <2> QED
    BY <1>0, <2>2, Dispatching
<1>5. ASSUME machine.phase = "RetryWait", applyMachine("RetryTimerFired", FALSE, slot)
      PROVE  Dispatched(machine.attempts)
  <2>1. /\ onEvent(machine, "RetryTimerFired") = Answer(machine, {"dispatch"})
        /\ Answer(machine, {"dispatch"}).machine = machine
        /\ "dispatch" \in Answer(machine, {"dispatch"}).actions
        /\ TimerAfterActions(Answer(machine, {"dispatch"}), FALSE) = FALSE
    BY <1>5 DEF onEvent, Answer, TimerAfterActions
  <2>2. dispatchSnapshotCall(machine, FALSE, 0)
    BY <1>0, <1>5, <2>1 DEF applyMachine
  <2> QED
    BY <1>0, <2>2, Dispatching
<1> QED
  BY <1>3, <1>4, <1>5

(* The events that start none.                                             *)
LEMMA Settling ==
    ASSUME Types, NEW event \in {"CallSucceeded", "CallFailedMissing", "CallFailedTransient",
                                 "ServiceDeparted"},
           applyMachine(event, retryTimer, 0)
    PROVE  /\ UNCHANGED <<requests, sent, failures>> /\ slot' = 0
           /\ machine' \in Machines /\ retryTimer' \in BOOLEAN /\ MachineAgrees'
           /\ event = "CallSucceeded" => machine'.phase = "Ready" /\ machine'.attempts = 0
           /\ event = "CallFailedMissing" =>
                 machine'.phase = "Idle" /\ machine'.attempts = machine.attempts
           /\ event = "CallFailedTransient" =>
                 /\ machine'.attempts = machine.attempts
                 /\ \/ machine'.phase = "RetryWait" /\ ~(machine.attempts >= MaxAttempts)
                    \/ machine'.phase \in {"Idle", "Ready"} /\ machine.attempts >= MaxAttempts
           /\ event = "ServiceDeparted" => machine'.phase = "Idle" /\ machine'.attempts = 0
<1>0. machine \in Machines /\ retryTimer \in BOOLEAN
  BY DEF Types, Machines
<1> DEFINE a == onEvent(machine, event)
<1>1. /\ a.machine \in Machines /\ "dispatch" \notin a.actions
      /\ a.machine.phase # "InFlight"
      /\ TimerAfterActions(a, retryTimer) <=> (a.machine.phase = "RetryWait")
      /\ event = "CallSucceeded" => a.machine.phase = "Ready" /\ a.machine.attempts = 0
      /\ event = "CallFailedMissing" =>
            a.machine.phase = "Idle" /\ a.machine.attempts = machine.attempts
      /\ event = "CallFailedTransient" =>
            /\ a.machine.attempts = machine.attempts
            /\ \/ a.machine.phase = "RetryWait" /\ ~(machine.attempts >= MaxAttempts)
               \/ a.machine.phase \in {"Idle", "Ready"} /\ machine.attempts >= MaxAttempts
      /\ event = "ServiceDeparted" => a.machine.phase = "Idle" /\ a.machine.attempts = 0
  <2>1. CASE event = "CallSucceeded"
    BY <1>0, <2>1 DEF onEvent, Answer, TimerAfterActions, Machines, Phases
  <2>2. CASE event = "CallFailedMissing"
    BY <1>0, <2>2 DEF onEvent, Answer, TimerAfterActions, Machines, Phases
  <2>3. CASE event = "CallFailedTransient"
    <3>1. "dispatch" \notin a.actions
      BY <2>3 DEF onEvent, CallFailedTransient, Answer
    <3> QED
      BY <1>0, <2>3, <3>1, FailedFacts
  <2>4. CASE event = "ServiceDeparted"
    BY <1>0, <2>4 DEF onEvent, ServiceDeparted, Answer, TimerAfterActions, Machines, Phases
  <2> QED
    BY <2>1, <2>2, <2>3, <2>4
<1> HIDE DEF a
<1>2. /\ machine' = a.machine /\ retryTimer' = TimerAfterActions(a, retryTimer) /\ slot' = 0
      /\ UNCHANGED <<requests, sent, failures>>
  BY <1>1 DEF applyMachine, a
<1>3. retryTimer' \in BOOLEAN
  BY <1>2 DEF TimerAfterActions
<1> QED
  BY <1>1, <1>2, <1>3 DEF MachineAgrees

(* gpio-mon appears while a call is in flight: the attempts start over.    *)
LEMMA AppearedInFlight ==
    ASSUME Types, machine.phase = "InFlight", applyMachine("ServiceAppeared", retryTimer, slot)
    PROVE  /\ machine' = [machine EXCEPT !.attempts = 0]
           /\ UNCHANGED <<requests, sent, failures, slot, retryTimer>>
<1> DEFINE m == [machine EXCEPT !.attempts = 0]
<1>1. m.phase = "InFlight" /\ retryTimer \in BOOLEAN
  BY DEF Types
<1>2. onEvent(machine, "ServiceAppeared") = Restarted(m)
  BY DEF onEvent
<1> HIDE DEF m
<1>3. /\ "dispatch" \notin Restarted(m).actions /\ Restarted(m).machine = m
      /\ TimerAfterActions(Restarted(m), retryTimer) = retryTimer
  BY <1>1 DEF Restarted, Answer, TimerAfterActions
<1>4. machine' = m /\ UNCHANGED <<requests, sent, failures, slot, retryTimer>>
  BY <1>2, <1>3 DEF applyMachine
<1> QED
  BY <1>4 DEF m
-----------------------------------------------------------------------------
(* The steps of gpio-mon, as what they push.                               *)
Cached == [bound: BOOLEAN, hasValue: BOOLEAN, version: Nat]

(* A step of gpio-mon that pushes x leaves the daemon alone.               *)
External(x) == Push(x) /\ UNCHANGED daemonVars /\ failures' \in 0..MaxFailures
               /\ failures <= failures'

LEMMA OneMessage ==
    ASSUME NEW S, NEW m \in S
    PROVE  /\ <<m>> \in Seq(S) /\ Len(<<m>>) = 1 /\ <<m>>[1] = m
           /\ \A t \in Seq(S) : Append(t, m) = t \o <<m>>
           /\ \A i \in 1..Len(<<m>>) : <<m>>[i] = m
<1>1. <<m>> \in Seq(S) /\ Len(<<m>>) = 1 /\ <<m>>[1] = m
  OBVIOUS
<1>2. ASSUME NEW t \in Seq(S) PROVE Append(t, m) = t \o <<m>>
  BY <1>2
<1>3. \A i \in 1..1 : i = 1
  OBVIOUS
<1> QED
  BY <1>1, <1>2, <1>3

LEMMA NothingPushed == ASSUME inbox \in Seq(Messages), UNCHANGED inbox PROVE Push(<<>>)
  BY DEF Push

LEMMA ToggleFacts ==
    ASSUME Types, NEW l \in Lines, Toggle(l)
    PROVE  /\ version' = [version EXCEPT ![l] = version[l] + 1] /\ UNCHANGED <<up, bound>>
           /\ version' \in [Lines -> Nat]
           /\ \/ External(<<>>) /\ ~(up /\ l \in bound)
              \/ External(<<Props(l, "same", version[l] + 1)>>)
<1>1. /\ version' = [version EXCEPT ![l] = version[l] + 1] /\ UNCHANGED <<up, bound>>
      /\ version[l] + 1 \in Nat /\ UNCHANGED <<daemonVars, failures>> /\ inbox \in Seq(Messages)
      /\ failures \in 0..MaxFailures
  BY DEF Toggle, Types
<1>2. version' \in [Lines -> Nat]
  BY <1>1 DEF Types
<1>3. CASE UNCHANGED inbox /\ ~(up /\ l \in bound)
  BY <1>1, <1>2, <1>3, NothingPushed DEF External
<1>4. CASE inbox' = inbox \o <<Props(l, "same", version[l] + 1)>>
  <2>1. <<Props(l, "same", version[l] + 1)>> \in Seq(Messages)
    BY <1>1, LineMessages
  <2> QED
    BY <1>1, <1>2, <1>4, <2>1 DEF External, Push
<1>5. \/ UNCHANGED inbox /\ ~(up /\ l \in bound)
      \/ inbox' = inbox \o <<Props(l, "same", version[l] + 1)>>
      \/ inbox' = inbox \o <<>> /\ ~(up /\ l \in bound)
  <2>1. Send(IF l \in bound THEN <<Props(l, "same", version[l] + 1)>> ELSE <<>>)
    BY DEF Toggle
  <2>2. CASE l \in bound
    BY <2>1, <2>2 DEF Send
  <2>3. CASE l \notin bound
    BY <2>1, <2>3 DEF Send
  <2> QED
    BY <2>2, <2>3
<1>6. inbox \o <<>> = inbox
  BY <1>1
<1> QED
  BY <1>3, <1>4, <1>5, <1>6

LEMMA UnbindFacts ==
    ASSUME Types, NEW l \in Lines, Unbind(l)
    PROVE  /\ UNCHANGED <<up, version>> /\ bound' = bound \ {l}
           /\ \/ External(<<>>) /\ ~up
              \/ External(<<Props(l, "no", -1)>>)
              \/ External(<<Removed(l)>>)
<1>1. /\ UNCHANGED <<up, version>> /\ bound' = bound \ {l}
      /\ UNCHANGED <<daemonVars, failures>> /\ inbox \in Seq(Messages)
      /\ failures \in 0..MaxFailures
  BY DEF Unbind, Types
<1>2. <<Props(l, "no", -1)>> \in Seq(Messages) /\ <<Removed(l)>> \in Seq(Messages)
  BY LineMessages
<1>3. \/ UNCHANGED inbox /\ ~up
      \/ inbox' = inbox \o <<Props(l, "no", -1)>>
      \/ inbox' = inbox \o <<Removed(l)>>
  BY DEF Unbind, Send
<1> QED
  BY <1>1, <1>2, <1>3, NothingPushed DEF External, Push

LEMMA BindFacts ==
    ASSUME Types, NEW l \in Lines, Bind(l)
    PROVE  /\ UNCHANGED <<up, version>> /\ bound' = bound \cup {l} /\ l \notin bound
           /\ \/ External(<<>>) /\ ~up
              \/ External(<<Props(l, "yes", version[l])>>)
              \/ External(<<Props(l, "yes", -1), Props(l, "same", version[l])>>)
<1>1. /\ UNCHANGED <<up, version>> /\ bound' = bound \cup {l} /\ l \notin bound
      /\ UNCHANGED <<daemonVars, failures>> /\ inbox \in Seq(Messages)
      /\ failures \in 0..MaxFailures /\ version[l] \in Nat
  BY DEF Bind, Types
<1>2. <<Props(l, "yes", version[l])>> \in Seq(Messages)
      /\ <<Props(l, "yes", -1), Props(l, "same", version[l])>> \in Seq(Messages)
  BY <1>1, LineMessages
<1>3. \/ UNCHANGED inbox /\ ~up
      \/ inbox' = inbox \o <<Props(l, "yes", version[l])>>
      \/ inbox' = inbox \o <<Props(l, "yes", -1), Props(l, "same", version[l])>>
  BY DEF Bind, Send
<1> QED
  BY <1>1, <1>2, <1>3, NothingPushed DEF External, Push

LEMMA AnswerFacts ==
    ASSUME Types, AnswerCall
    PROVE  /\ UNCHANGED <<up, version, bound>> /\ requests' \in Seq(1..sent)
           /\ \E serial \in 1..sent :
                 \/ up /\ External(<<Tree(serial)>>)
                 \/ up /\ External(<<Error(serial, "transient")>>) /\ failures' = failures + 1
                 \/ ~up /\ External(<<Error(serial, "missing")>>)
<1>1. /\ UNCHANGED <<up, version, bound, daemonVars>> /\ inbox \in Seq(Messages)
      /\ requests # <<>> /\ requests \in Seq(1..sent) /\ requests' = Tail(requests)
      /\ failures \in 0..MaxFailures
  BY DEF AnswerCall, Types, busVars
<1>2. Head(requests) \in 1..sent /\ requests' \in Seq(1..sent)
  <2> DEFINE S == 1..sent
  <2>1. requests \in Seq(S)
    BY <1>1
  <2> HIDE DEF S
  <2>2. Head(requests) \in S /\ Tail(requests) \in Seq(S)
    BY <1>1, <2>1
  <2> QED
    BY <1>1, <2>2 DEF S
<1> DEFINE serial == Head(requests)
<1>3. serial \in Nat \ {0}
  BY <1>2 DEF Types
<1>4. \/ up /\ inbox' = Append(inbox, Tree(serial)) /\ UNCHANGED failures
      \/ /\ up /\ failures < MaxFailures /\ failures' = failures + 1
         /\ inbox' = Append(inbox, Error(serial, "transient"))
      \/ ~up /\ inbox' = Append(inbox, Error(serial, "missing")) /\ UNCHANGED failures
  BY DEF AnswerCall
<1> HIDE DEF serial
<1>8. /\ Tree(serial) \in Messages
      /\ \A kind \in {"transient", "missing"} : Error(serial, kind) \in Messages
  <2>1. bound \subseteq Lines /\ version \in [Lines -> Nat] /\ TRUE \in BOOLEAN
    BY DEF Types
  <2> QED
    BY <1>3, <2>1, BusMessages
<1>5. /\ <<Tree(serial)>> \in Seq(Messages)
      /\ \A kind \in {"transient", "missing"} : <<Error(serial, kind)>> \in Seq(Messages)
  BY <1>8, OneMessage
<1>6. \A m \in Messages : Append(inbox, m) = inbox \o <<m>>
  BY <1>1, OneMessage
<1>7. failures' \in 0..MaxFailures /\ failures <= failures'
  BY <1>1, <1>4, BoundsAssumption
<1>9. \/ up /\ External(<<Tree(serial)>>)
      \/ up /\ External(<<Error(serial, "transient")>>) /\ failures' = failures + 1
      \/ ~up /\ External(<<Error(serial, "missing")>>)
  BY <1>1, <1>4, <1>5, <1>6, <1>7, <1>8 DEF External, Push
<1>10. serial \in 1..sent
  BY <1>2 DEF serial
<1> QED
  BY <1>1, <1>2, <1>9, <1>10

(* A departure pushes its announcement and errors of calls.                *)
LEMMA DepartFacts ==
    ASSUME Types, Depart
    PROVE  /\ UNCHANGED <<version, bound>> /\ up' = FALSE /\ requests' \in Seq(1..sent)
           /\ outages' = outages + 1
           /\ \E x \in Seq(Messages) :
                 /\ External(x)
                 /\ \A j \in 1..Len(x) :
                       \/ x[j] = Owner(FALSE)
                       \/ \E serial \in 1..sent : x[j] = Error(serial, "transient")
                 /\ \E j \in 1..Len(x) : x[j] = Owner(FALSE)
<1>1. /\ UNCHANGED <<version, bound, daemonVars, failures>> /\ up' = FALSE /\ outages' = outages + 1
      /\ inbox \in Seq(Messages) /\ requests \in Seq(1..sent) /\ failures \in 0..MaxFailures
      /\ sent \in Nat
  BY DEF Depart, Types
<1>2. PICK k \in 0..Len(requests) :
         LET failed == [i \in 1..k |-> Error(requests[i], "transient")]
         IN  /\ requests' = SubSeq(requests, k + 1, Len(requests))
             /\ \/ inbox' = inbox \o failed \o <<Owner(FALSE)>>
                \/ inbox' = inbox \o <<Owner(FALSE)>> \o failed
  BY DEF Depart
<1> DEFINE failed == [i \in 1..k |-> Error(requests[i], "transient")]
           gone == <<Owner(FALSE)>>
<1>3. /\ requests' = SubSeq(requests, k + 1, Len(requests))
      /\ \/ inbox' = (inbox \o failed) \o gone
         \/ inbox' = (inbox \o gone) \o failed
  BY <1>2
<1>4. Len(requests) \in Nat /\ k \in Nat /\ \A i \in 1..k : requests[i] \in 1..sent
  BY <1>1, <1>2, SMTT(20)
<1>5. requests' \in Seq(1..sent)
  <2> DEFINE S == 1..sent
  <2>1. requests \in Seq(S) /\ k + 1 \in 1..(Len(requests) + 1)
    BY <1>1, <1>4, <1>2
  <2> HIDE DEF S
  <2>2. SubSeq(requests, k + 1, Len(requests)) \in Seq(S)
    BY <2>1, <1>4
  <2> QED
    BY <1>3, <2>2 DEF S
<1>6. \A i \in 1..k : requests[i] \in Nat \ {0} /\ Error(requests[i], "transient") \in Messages
  <2>1. bound \subseteq Lines /\ version \in [Lines -> Nat] /\ TRUE \in BOOLEAN
    BY DEF Types
  <2>2. \A i \in 1..k : requests[i] \in Nat \ {0}
    BY <1>1, <1>4
  <2> QED
    BY <2>1, <2>2, BusMessages
<1>7. /\ failed \in Seq(Messages) /\ Len(failed) = k
      /\ \A i \in 1..k : failed[i] = Error(requests[i], "transient")
  BY <1>4, <1>6
<1>8. Owner(FALSE) \in Messages
  BY DEF Owner, Messages
<1>9. gone \in Seq(Messages) /\ Len(gone) = 1 /\ gone[1] = Owner(FALSE)
  BY <1>8, OneMessage
<1> HIDE DEF failed, gone
<1>10. ASSUME NEW y \in Seq(Messages), NEW z \in Seq(Messages)
       PROVE  /\ (inbox \o y) \o z = inbox \o (y \o z) /\ y \o z \in Seq(Messages)
              /\ Len(y \o z) = Len(y) + Len(z) /\ Len(y) \in Nat /\ Len(z) \in Nat
              /\ \A j \in 1..Len(y) : (y \o z)[j] = y[j]
              /\ \A j \in 1..Len(z) : (y \o z)[Len(y) + j] = z[j]
              /\ \A j \in 1..Len(y \o z) : \/ \E i \in 1..Len(y) : (y \o z)[j] = y[i]
                                           \/ \E i \in 1..Len(z) : (y \o z)[j] = z[i]
  <2>1. /\ (inbox \o y) \o z = inbox \o (y \o z) /\ y \o z \in Seq(Messages)
        /\ Len(y \o z) = Len(y) + Len(z) /\ Len(y) \in Nat /\ Len(z) \in Nat
        /\ \A j \in 1..Len(y) : (y \o z)[j] = y[j]
        /\ \A j \in 1..Len(z) : (y \o z)[Len(y) + j] = z[j]
    BY <1>1, <1>10, SMTT(20)
  <2>2. ASSUME NEW j \in 1..Len(y \o z), j \notin 1..Len(y)
        PROVE  \E i \in 1..Len(z) : (y \o z)[j] = z[i]
    <3>1. j - Len(y) \in 1..Len(z) /\ Len(y) + (j - Len(y)) = j
      BY <2>1, <2>2
    <3> QED
      BY <2>1, <3>1
  <2> QED
    BY <2>1, <2>2
<1>11. PICK x \in Seq(Messages) :
          /\ inbox' = inbox \o x
          /\ \A j \in 1..Len(x) : \/ \E i \in 1..Len(failed) : x[j] = failed[i]
                                  \/ \E i \in 1..Len(gone) : x[j] = gone[i]
          /\ \E j \in 1..Len(x) : x[j] = gone[1]
  <2>1. CASE inbox' = (inbox \o failed) \o gone
    <3>0. 1 \in 1..Len(gone)
      BY <1>9
    <3>1. Len(failed) + 1 \in 1..Len(failed \o gone) /\ (failed \o gone)[Len(failed) + 1] = gone[1]
      <4> DEFINE w == failed \o gone
      <4>1. /\ Len(w) = Len(failed) + Len(gone) /\ Len(failed) \in Nat /\ Len(gone) \in Nat
            /\ \A j \in 1..Len(failed) : w[j] = failed[j]
            /\ \A j \in 1..Len(gone) : w[Len(failed) + j] = gone[j]
        BY <1>7, <1>9, <1>10
      <4> HIDE DEF w
      <4>2. Len(failed) + 1 \in 1..Len(w) /\ w[Len(failed) + 1] = gone[1]
        <5>1. Len(gone) = 1
          BY <1>9
        <5> QED
          BY <3>0, <4>1, <5>1
      <4> QED
        BY <4>2 DEF w
    <3> QED
      BY <1>7, <1>9, <1>10, <2>1, <3>1, ZenonT(40)
  <2>2. CASE inbox' = (inbox \o gone) \o failed
    <3>0. 1 \in 1..Len(gone)
      BY <1>9
    <3>1. 1 \in 1..Len(gone \o failed) /\ (gone \o failed)[1] = gone[1]
      <4> DEFINE w == gone \o failed
      <4>1. /\ Len(w) = Len(gone) + Len(failed) /\ Len(gone) \in Nat /\ Len(failed) \in Nat
            /\ \A j \in 1..Len(gone) : w[j] = gone[j]
            /\ \A j \in 1..Len(failed) : w[Len(gone) + j] = failed[j]
        BY <1>7, <1>9, <1>10
      <4> HIDE DEF w
      <4>2. 1 \in 1..Len(w) /\ w[1] = gone[1]
        <5>1. Len(gone) = 1
          BY <1>9
        <5> QED
          BY <3>0, <4>1, <5>1
      <4> QED
        BY <4>2 DEF w
    <3> QED
      BY <1>7, <1>9, <1>10, <2>2, <3>1
  <2> QED
    BY <1>3, <2>1, <2>2
<1>12. ASSUME NEW j \in 1..Len(x)
       PROVE  x[j] = Owner(FALSE) \/ \E serial \in 1..sent : x[j] = Error(serial, "transient")
  <2>1. CASE \E i \in 1..Len(failed) : x[j] = failed[i]
    BY <1>4, <1>7, <2>1
  <2>2. CASE \E i \in 1..Len(gone) : x[j] = gone[i]
    <3>1. \A i \in 1..1 : i = 1
      OBVIOUS
    <3> QED
      BY <1>9, <2>2, <3>1
  <2> QED
    BY <1>11, <2>1, <2>2
<1>13. External(x)
  BY <1>1, <1>11 DEF External, Push
<1> QED
  BY <1>1, <1>5, <1>9, <1>11, <1>12, <1>13

LEMMA AppearFacts ==
    ASSUME Types, Appear
    PROVE  /\ UNCHANGED <<version, bound>> /\ ~up /\ up' = TRUE
           /\ External(<<Owner(TRUE)>>)
<1>1. /\ UNCHANGED <<version, bound, daemonVars, failures>> /\ ~up /\ up' = TRUE
      /\ inbox' = Append(inbox, Owner(TRUE)) /\ inbox \in Seq(Messages)
      /\ failures \in 0..MaxFailures
  BY DEF Appear, Types
<1>2. Owner(TRUE) \in Messages
  BY DEF Owner, Messages
<1>3. <<Owner(TRUE)>> \in Seq(Messages) /\ inbox' = inbox \o <<Owner(TRUE)>>
  BY <1>1, <1>2, OneMessage
<1>4. failures' \in 0..MaxFailures /\ failures <= failures'
  BY <1>1
<1>5. External(<<Owner(TRUE)>>)
  BY <1>1, <1>3, <1>4 DEF External, Push
<1> QED
  BY <1>1, <1>5
-----------------------------------------------------------------------------
(* The steps of the daemon.                                                *)
MachineTyped ==
    /\ sent \in Nat /\ requests \in Seq(1..sent) /\ slot \in 0..sent
    /\ machine \in Machines /\ retryTimer \in BOOLEAN /\ failures \in 0..MaxFailures

(* The daemon takes the head of its inbox, or none.                        *)
Handles == MachineTyped' /\ sent <= sent' /\ MachineAgrees' /\ UNCHANGED busVars

LEMMA DispatchedHandles ==
    ASSUME NEW n, Dispatched(n), UNCHANGED busVars
    PROVE  Handles /\ (slot' = 0 \/ slot' > sent)
  BY DEF Dispatched, Handles, MachineTyped

LEMMA SettledHandles ==
    ASSUME Types, UNCHANGED busVars, UNCHANGED <<requests, sent>>, slot' = 0,
           failures' \in 0..MaxFailures, machine' \in Machines, retryTimer' \in BOOLEAN,
           MachineAgrees'
    PROVE  Handles /\ (slot' = 0 \/ slot' > sent)
  BY DEF Handles, MachineTyped, Types

LEMMA ReceivedPops ==
    ASSUME Types, NEW t, Received(t), inbox' = Tail(inbox)
    PROVE  Pop /\ inbox[1].type = t /\ Head(inbox) = inbox[1]
<1>1. Pop
  BY DEF Pop, Types, Received
<1> QED
  BY <1>1, PopFacts DEF Received

LEMMA AgreesFromRight == MachineRight => MachineAgrees
  BY DEF MachineRight, MachineAgrees

LEMMA StartFacts ==
    ASSUME Types, MachineRight, GpioPropertySubscriber
    PROVE  /\ Pop /\ inbox[1].type = "start" /\ Handles /\ Dispatched(0)
           /\ UNCHANGED <<byPath, injected>>
<1>1. Pop /\ inbox[1].type = "start" /\ UNCHANGED <<byPath, injected>> /\ UNCHANGED busVars
  BY ReceivedPops DEF GpioPropertySubscriber
<1>2. machine.phase = "Idle" /\ machine.attempts = 0
  BY <1>1, PopFacts DEF MachineRight
<1>3. applyMachine("StartRequested", retryTimer, slot)
  BY DEF GpioPropertySubscriber
<1>4. Dispatched(machine.attempts)
  BY <1>2, <1>3, AgreesFromRight, Redispatching
<1> QED
  BY <1>1, <1>2, <1>4, DispatchedHandles

LEMMA OwnerFacts ==
    ASSUME Types, MachineRight, onNameOwnerChanged
    PROVE  /\ Pop /\ Handles /\ UNCHANGED injected
           /\ \/ /\ Came(inbox[1]) /\ UNCHANGED byPath
                 /\ \/ Dispatched(0)
                    \/ /\ UNCHANGED <<slot, failures>> /\ machine.phase = "InFlight"
                       /\ machine'.phase = "InFlight" /\ machine'.attempts = 0
              \/ /\ Went(inbox[1]) /\ byPath' = [l \in Lines |-> NoLine]
                 /\ slot' = 0 /\ machine'.phase = "Idle" /\ machine'.attempts = 0
<1>1. Pop /\ inbox[1].type = "owner" /\ Head(inbox) = inbox[1] /\ UNCHANGED injected
      /\ UNCHANGED busVars
  BY ReceivedPops DEF onNameOwnerChanged
<1>2. CASE Head(inbox).appeared /\ applyMachine("ServiceAppeared", retryTimer, slot)
           /\ UNCHANGED byPath
  <2>1. Came(inbox[1])
    BY <1>1, <1>2 DEF Came
  <2>2. CASE machine.phase = "InFlight"
    <3>1. /\ machine' = [machine EXCEPT !.attempts = 0]
          /\ UNCHANGED <<requests, sent, failures, slot, retryTimer>>
      BY <1>2, <2>2, AppearedInFlight
    <3>2. machine \in Machines /\ MachineTyped
      BY DEF Types, Machines, MachineTyped
    <3>3. machine' \in Machines /\ machine'.phase = "InFlight" /\ machine'.attempts = 0
      BY <2>2, <3>1, <3>2 DEF Machines
    <3>4. MachineTyped' /\ sent <= sent'
      BY <3>1, <3>2, <3>3 DEF MachineTyped
    <3>5. MachineAgrees'
      BY <2>2, <3>1, <3>3, AgreesFromRight DEF MachineAgrees
    <3> QED
      BY <1>1, <1>2, <2>1, <2>2, <3>1, <3>3, <3>4, <3>5 DEF Handles
  <2>3. CASE machine.phase # "InFlight"
    <3>1. Dispatched(0)
      BY <1>2, <2>3, AgreesFromRight, Redispatching
    <3> QED
      BY <1>1, <1>2, <2>1, <3>1, DispatchedHandles
  <2> QED
    BY <2>2, <2>3
<1>3. CASE ~Head(inbox).appeared /\ applyMachine("ServiceDeparted", retryTimer, 0)
           /\ byPath' = [l \in Lines |-> NoLine]
  <2>1. Went(inbox[1])
    BY <1>1, <1>3 DEF Went
  <2>2. /\ UNCHANGED <<requests, sent, failures>> /\ slot' = 0
        /\ machine' \in Machines /\ retryTimer' \in BOOLEAN /\ MachineAgrees'
        /\ machine'.phase = "Idle" /\ machine'.attempts = 0
    BY <1>3, Settling
  <2>3. failures' \in 0..MaxFailures
    BY <2>2 DEF Types
  <2>4. Handles
    BY <1>1, <2>2, <2>3, SettledHandles
  <2> QED
    BY <1>1, <1>3, <2>1, <2>2, <2>4
<1> QED
  BY <1>2, <1>3 DEF onNameOwnerChanged

LEMMA ReplyFacts ==
    ASSUME Types, onSnapshotReply
    PROVE  /\ Pop /\ Handles /\ inbox[1].type = "tree" /\ slot' = 0 /\ machine'.phase = "Ready"
           /\ Live(inbox[1]) /\ machine'.attempts = 0
           /\ byPath' = [l \in Lines |-> SnapshotRow(inbox[1], l)]
           /\ injected' = [l \in Lines |->
                 IF applySnapshotUpdate(byPath[l], SnapshotRow(inbox[1], l))
                 THEN inbox[1].versions[l] ELSE injected[l]]
<1>1. Pop /\ inbox[1].type = "tree" /\ Head(inbox) = inbox[1] /\ UNCHANGED busVars
  BY ReceivedPops DEF onSnapshotReply
<1>2. applyMachine("CallSucceeded", retryTimer, 0)
  BY DEF onSnapshotReply
<1>3. /\ UNCHANGED <<requests, sent, failures>> /\ slot' = 0
      /\ machine' \in Machines /\ retryTimer' \in BOOLEAN /\ MachineAgrees'
      /\ machine'.phase = "Ready" /\ machine'.attempts = 0
  BY <1>2, Settling
<1>4. failures' \in 0..MaxFailures
  BY <1>3 DEF Types
<1>5. Handles
  BY <1>1, <1>3, <1>4, SettledHandles
<1>6. Live(inbox[1])
  BY <1>1 DEF onSnapshotReply, Live, IsReply
<1>7. /\ byPath' = [l \in Lines |-> SnapshotRow(inbox[1], l)]
      /\ injected' = [l \in Lines |->
            IF applySnapshotUpdate(byPath[l], SnapshotRow(inbox[1], l))
            THEN inbox[1].versions[l] ELSE injected[l]]
  BY <1>1 DEF onSnapshotReply
<1> QED
  BY <1>1, <1>3, <1>5, <1>6, <1>7

LEMMA ErrorFacts ==
    ASSUME Types, onSnapshotError
    PROVE  /\ Pop /\ Handles /\ UNCHANGED <<byPath, injected, failures>>
           /\ inbox[1].type = "error" /\ Live(inbox[1]) /\ slot' = 0
           /\ machine'.attempts = machine.attempts
           /\ \/ inbox[1].kind = "missing" /\ machine'.phase = "Idle"
              \/ /\ inbox[1].kind = "transient"
                 /\ \/ machine'.phase = "RetryWait" /\ ~(machine.attempts >= MaxAttempts)
                    \/ machine'.phase \in {"Idle", "Ready"} /\ machine.attempts >= MaxAttempts
<1>1. /\ Pop /\ inbox[1].type = "error" /\ Head(inbox) = inbox[1] /\ UNCHANGED busVars
      /\ UNCHANGED <<byPath, injected>>
  BY ReceivedPops DEF onSnapshotError
<1>2. inbox[1].kind \in {"transient", "missing"}
  BY <1>1, PopFacts, MessageFacts
<1>3. Live(inbox[1])
  BY <1>1 DEF onSnapshotError, Live, IsReply
<1>4. CASE inbox[1].kind = "missing"
  <2>1. applyMachine("CallFailedMissing", retryTimer, 0)
    BY <1>1, <1>4 DEF onSnapshotError
  <2>2. /\ UNCHANGED <<requests, sent, failures>> /\ slot' = 0
        /\ machine' \in Machines /\ retryTimer' \in BOOLEAN /\ MachineAgrees'
        /\ machine'.phase = "Idle" /\ machine'.attempts = machine.attempts
    BY <2>1, Settling
  <2>3. failures' \in 0..MaxFailures
    BY <2>2 DEF Types
  <2> QED
    BY <1>1, <1>3, <1>4, <2>2, <2>3, SettledHandles
<1>5. CASE inbox[1].kind = "transient"
  <2>1. applyMachine("CallFailedTransient", retryTimer, 0)
    BY <1>1, <1>5 DEF onSnapshotError
  <2>2. /\ UNCHANGED <<requests, sent, failures>> /\ slot' = 0
        /\ machine' \in Machines /\ retryTimer' \in BOOLEAN /\ MachineAgrees'
        /\ machine'.attempts = machine.attempts
        /\ \/ machine'.phase = "RetryWait" /\ ~(machine.attempts >= MaxAttempts)
           \/ machine'.phase \in {"Idle", "Ready"} /\ machine.attempts >= MaxAttempts
    BY <2>1, Settling
  <2>3. failures' \in 0..MaxFailures
    BY <2>2 DEF Types
  <2> QED
    BY <1>1, <1>3, <1>5, <2>2, <2>3, SettledHandles
<1> QED
  BY <1>2, <1>4, <1>5

LEMMA TimeoutFacts ==
    ASSUME Types, CallTimeout
    PROVE  /\ Handles /\ UNCHANGED <<inbox, byPath, injected>> /\ slot # 0 /\ slot' = 0
           /\ failures < MaxFailures /\ failures' = failures + 1
           /\ machine'.attempts = machine.attempts
           /\ \/ machine'.phase = "RetryWait" /\ ~(machine.attempts >= MaxAttempts)
              \/ machine'.phase \in {"Idle", "Ready"} /\ machine.attempts >= MaxAttempts
<1> DEFINE a == onEvent(machine, "CallFailedTransient")
<1>1. /\ machine' = a.machine /\ retryTimer' = TimerAfterActions(a, retryTimer) /\ slot' = 0
      /\ slot # 0 /\ failures < MaxFailures /\ failures' = failures + 1
      /\ UNCHANGED busVars /\ UNCHANGED <<requests, inbox, byPath, injected, sent>>
  BY DEF CallTimeout
<1>2. machine \in Machines /\ retryTimer \in BOOLEAN /\ failures \in 0..MaxFailures
  BY DEF Types, Machines
<1>3. /\ a.machine \in Machines /\ a.machine.attempts = machine.attempts
      /\ \/ /\ a.machine.phase = "RetryWait" /\ TimerAfterActions(a, retryTimer)
            /\ ~(machine.attempts >= MaxAttempts)
         \/ /\ a.machine.phase \in {"Idle", "Ready"} /\ ~TimerAfterActions(a, retryTimer)
            /\ machine.attempts >= MaxAttempts
  BY <1>2, FailedFacts
<1>4. TimerAfterActions(a, retryTimer) \in BOOLEAN
  BY DEF TimerAfterActions
<1> HIDE DEF a
<1>5. failures' \in 0..MaxFailures
  BY <1>1, <1>2, BoundsAssumption
<1>6. MachineAgrees'
  BY <1>1, <1>3 DEF MachineAgrees
<1> QED
  BY <1>1, <1>3, <1>4, <1>5, <1>6, SettledHandles

LEMMA RetryFacts ==
    ASSUME Types, MachineRight, retryTimerCb
    PROVE  /\ Handles /\ UNCHANGED <<inbox, byPath, injected>> /\ machine.phase = "RetryWait"
           /\ Dispatched(machine.attempts)
<1>1. /\ retryTimer /\ applyMachine("RetryTimerFired", FALSE, slot)
      /\ UNCHANGED busVars /\ UNCHANGED <<inbox, byPath, injected>>
  BY DEF retryTimerCb
<1>2. machine.phase = "RetryWait"
  BY <1>1 DEF MachineRight
<1>3. Dispatched(machine.attempts)
  BY <1>1, <1>2, AgreesFromRight, Redispatching
<1> QED
  BY <1>1, <1>2, <1>3, DispatchedHandles

(* The messages that leave the machine alone.                              *)
LEMMA SignalFacts ==
    ASSUME Types, MachineRight, onPropertiesChanged \/ onInterfacesRemoved \/ DropReply
    PROVE  /\ Pop /\ Handles /\ UNCHANGED <<machine, slot, failures>>
           /\ \/ inbox[1].type = "props" /\ onPropertiesChanged
              \/ inbox[1].type = "removed" /\ onInterfacesRemoved
              \/ inbox[1].type \in {"tree", "error"} /\ ~Live(inbox[1])
                 /\ UNCHANGED <<byPath, injected>>
<1>1. UNCHANGED <<requests, machine, slot, retryTimer, sent, failures>> /\ UNCHANGED busVars
  BY DEF onPropertiesChanged, onInterfacesRemoved, DropReply, daemonVars
<1>2. MachineTyped /\ sent <= sent /\ MachineAgrees
  BY AgreesFromRight DEF MachineTyped, Types, Machines
<1>3. Handles
  BY <1>1, <1>2 DEF Handles, MachineTyped, MachineAgrees
<1>4. CASE onPropertiesChanged
  BY <1>1, <1>3, <1>4, ReceivedPops DEF onPropertiesChanged
<1>5. CASE onInterfacesRemoved
  BY <1>1, <1>3, <1>5, ReceivedPops DEF onInterfacesRemoved
<1>6. CASE DropReply
  <2>1. Pop /\ inbox[1].type \in {"tree", "error"} /\ Head(inbox) = inbox[1]
    BY <1>6, ReceivedPops DEF DropReply
  <2>2. ~Live(inbox[1])
    BY <1>6, <2>1 DEF DropReply, Live
  <2> QED
    BY <1>1, <1>3, <1>6, <2>1, <2>2 DEF DropReply, daemonVars
<1> QED
  BY <1>4, <1>5, <1>6
-----------------------------------------------------------------------------
(* Types.                                                                  *)
LEMMA ExternalTypes ==
    ASSUME Types, NEW x, External(x),
           \A j \in 1..Len(x) : IsReply(x[j]) => x[j].serial \in 1..sent,
           requests' \in Seq(1..sent), up' \in BOOLEAN, version' \in [Lines -> Nat],
           bound' \subseteq Lines, outages' \in Nat
    PROVE  Types'
<1>1. UNCHANGED <<byPath, machine, slot, retryTimer, injected, sent>> /\ Push(x)
      /\ failures' \in 0..MaxFailures
  BY DEF External, daemonVars
<1>2. inbox' \in Seq(Messages)
  BY <1>1, PushFacts
<1>3. ASSUME NEW i \in 1..Len(inbox'), IsReply(inbox'[i]) PROVE inbox'[i].serial \in 1..sent
  <2>1. CASE i \in 1..Len(inbox)
    BY <1>1, <1>3, <2>1, PushFacts DEF Types
  <2>2. CASE i \notin 1..Len(inbox)
    BY <1>1, <1>3, <2>2, PushFacts
  <2> QED
    BY <2>1, <2>2
<1> QED
  BY <1>1, <1>2, <1>3 DEF Types, IsReply

LEMMA DaemonTypes ==
    ASSUME Types, Handles, Pop \/ UNCHANGED inbox, byPath' \in [Lines -> Cached],
           injected' \in [Lines -> Nat \cup {-1}]
    PROVE  Types'
<1>1. MachineTyped' /\ sent <= sent' /\ UNCHANGED <<up, version, bound, outages>>
      /\ sent \in Nat
  BY DEF Handles, busVars, Types
<1>2. inbox' \in Seq(Messages)
  BY PopFacts DEF Types
<1>3. ASSUME NEW i \in 1..Len(inbox'), IsReply(inbox'[i]) PROVE inbox'[i].serial \in 1..sent'
  <2>1. inbox'[i].serial \in 1..sent
    <3>1. CASE Pop
      BY <1>3, <3>1, PopFacts DEF Types
    <3>2. CASE UNCHANGED inbox
      BY <1>3, <3>2 DEF Types
    <3> QED
      BY <3>1, <3>2
  <2> QED
    BY <1>1, <2>1 DEF MachineTyped
<1> QED
  BY <1>1, <1>2, <1>3 DEF Types, MachineTyped, Machines, Cached, IsReply

(* The rows of the cache.                                                  *)
LEMMA NoLineFacts == NoLine \in Cached /\ ~NoLine.bound /\ ~NoLine.hasValue
  BY DEF NoLine, Cached

(* What a property signal does to its line.                                *)
LEMMA PropsFacts ==
    ASSUME Types, MachineRight, onPropertiesChanged
    PROVE  LET m == inbox[1]
               c == Merge(byPath[m.line], m.bound, m.version)
           IN  /\ m \in Messages /\ m.type = "props" /\ m.line \in Lines /\ c \in Cached
               /\ m.version \in Nat \cup {-1}
               /\ byPath' = [byPath EXCEPT ![m.line] = c]
               /\ injected' = [injected EXCEPT ![m.line] =
                                  IF decideInject(c) THEN c.version ELSE injected[m.line]]
               /\ c.bound <=> (m.bound = "yes" \/ (m.bound = "same" /\ byPath[m.line].bound))
               /\ c.hasValue <=> (byPath[m.line].hasValue \/ m.version # -1)
               /\ c.version = IF m.version = -1 THEN byPath[m.line].version ELSE m.version
<1> DEFINE m == inbox[1]
           c == Merge(byPath[m.line], m.bound, m.version)
<1>1. Pop /\ m.type = "props" /\ Head(inbox) = m
  BY ReceivedPops DEF onPropertiesChanged
<1>2. /\ m \in Messages /\ m.line \in Lines /\ m.bound \in {"same", "yes", "no"}
      /\ m.version \in Nat \cup {-1}
  BY <1>1, PopFacts, MessageFacts
<1>3. byPath[m.line] \in Cached
  BY <1>2 DEF Types, Cached
<1>4. /\ c \in Cached
      /\ c.bound <=> (m.bound = "yes" \/ (m.bound = "same" /\ byPath[m.line].bound))
      /\ c.hasValue <=> (byPath[m.line].hasValue \/ m.version # -1)
      /\ c.version = IF m.version = -1 THEN byPath[m.line].version ELSE m.version
  <2> DEFINE p == byPath[m.line]  b == m.bound  v == m.version
  <2>1. p \in Cached /\ b \in {"same", "yes", "no"} /\ v \in Nat \cup {-1}
    BY <1>2, <1>3
  <2> HIDE DEF p, b, v
  <2>2. /\ Merge(p, b, v) \in Cached
        /\ Merge(p, b, v).bound <=> (b = "yes" \/ (b = "same" /\ p.bound))
        /\ Merge(p, b, v).hasValue <=> (p.hasValue \/ v # -1)
    BY <2>1 DEF Merge, Cached
  <2>3. Merge(p, b, v).version = IF v = -1 THEN p.version ELSE v
    BY DEF Merge
  <2> QED
    BY <2>2, <2>3 DEF p, b, v
<1>5. /\ byPath' = [byPath EXCEPT ![m.line] = c]
      /\ injected' = [injected EXCEPT ![m.line] =
                         IF decideInject(c) THEN c.version ELSE injected[m.line]]
  BY <1>1 DEF onPropertiesChanged
<1> QED
  BY <1>1, <1>2, <1>4, <1>5

(* What a snapshot does to a line.                                         *)
LEMMA TreeFacts ==
    ASSUME Types, onSnapshotReply, NEW l \in Lines
    PROVE  LET m == inbox[1]
               c == SnapshotRow(m, l)
           IN  /\ m.versions \in [Lines -> Nat] /\ c \in Cached
               /\ byPath'[l] = c /\ (c.bound <=> l \in m.boundLines) /\ c.hasValue
               /\ c.version = m.versions[l]
               /\ injected'[l] = IF applySnapshotUpdate(byPath[l], c) THEN m.versions[l]
                                 ELSE injected[l]
<1> DEFINE m == inbox[1]
           c == SnapshotRow(m, l)
           b == IF l \in m.boundLines THEN "yes" ELSE "no"
<1>1. Pop /\ m.type = "tree"
      /\ byPath' = [k \in Lines |-> SnapshotRow(m, k)]
      /\ injected' = [k \in Lines |->
                 IF applySnapshotUpdate(byPath[k], SnapshotRow(m, k))
                 THEN m.versions[k] ELSE injected[k]]
  BY ReplyFacts
<1>2. m.versions \in [Lines -> Nat] /\ m.versions[l] \in Nat
  BY <1>1, PopFacts, MessageFacts
<1>3. b \in {"same", "yes", "no"} /\ (b = "yes" <=> l \in m.boundLines) /\ b # "same"
  OBVIOUS
<1>4. byPath[l] \in Cached /\ m.versions[l] # -1 /\ m.versions[l] \in Nat \cup {-1}
  BY <1>2 DEF Types, Cached
<1>5. c = Merge(byPath[l], b, m.versions[l])
  BY DEF SnapshotRow
<1> HIDE DEF b
<1>6. /\ c \in Cached /\ (c.bound <=> l \in m.boundLines) /\ c.hasValue
      /\ c.version = m.versions[l]
  <2> DEFINE p == byPath[l]  v == m.versions[l]
  <2>1. p \in Cached /\ v \in Nat \cup {-1} /\ v # -1
    BY <1>4
  <2> HIDE DEF p, v
  <2>2. /\ Merge(p, b, v) \in Cached /\ Merge(p, b, v).hasValue
        /\ Merge(p, b, v).bound <=> (b = "yes" \/ (b = "same" /\ p.bound))
    BY <1>3, <2>1 DEF Merge, Cached
  <2>5. Merge(p, b, v).version = v
    BY <2>1 DEF Merge
  <2>3. c = Merge(p, b, v)
    BY <1>5 DEF p, v
  <2> HIDE DEF c
  <2>4. c \in Cached /\ (c.bound <=> b = "yes") /\ c.hasValue /\ c.version = v
    BY <1>3, <2>2, <2>3, <2>5
  <2> QED
    BY <1>3, <2>4 DEF v
<1> QED
  BY <1>1, <1>2, <1>6

LEMMA RowTypes ==
    ASSUME Types, MachineRight, Process \/ CallTimeout \/ retryTimerCb
    PROVE  byPath' \in [Lines -> Cached] /\ injected' \in [Lines -> Nat \cup {-1}]
<1>1. byPath \in [Lines -> Cached] /\ injected \in [Lines -> Nat \cup {-1}]
  BY DEF Types, Cached
<1>2. CASE UNCHANGED <<byPath, injected>>
  BY <1>1, <1>2
<1>3. CASE onPropertiesChanged
  <2> DEFINE m == inbox[1]
             c == Merge(byPath[m.line], m.bound, m.version)
             v == IF decideInject(c) THEN c.version ELSE injected[m.line]
  <2>1. /\ m.line \in Lines /\ c \in Cached /\ byPath' = [byPath EXCEPT ![m.line] = c]
        /\ injected' = [injected EXCEPT ![m.line] = v]
    BY <1>3, PropsFacts
  <2>2. c.version \in Nat
    BY <2>1 DEF Cached
  <2> HIDE DEF c
  <2>3. v \in Nat \cup {-1}
    BY <1>1, <2>1, <2>2
  <2> HIDE DEF v, m
  <2> QED
    BY <1>1, <2>1, <2>3
<1>4. CASE onInterfacesRemoved
  BY <1>1, <1>4, NoLineFacts DEF onInterfacesRemoved
<1>5. CASE onSnapshotReply
  <2>1. /\ byPath' = [l \in Lines |-> SnapshotRow(inbox[1], l)]
        /\ injected' = [l \in Lines |->
                 IF applySnapshotUpdate(byPath[l], SnapshotRow(inbox[1], l))
                 THEN inbox[1].versions[l] ELSE injected[l]]
    BY <1>5, ReplyFacts
  <2>2. \A l \in Lines : SnapshotRow(inbox[1], l) \in Cached /\ inbox[1].versions[l] \in Nat
    BY <1>5, TreeFacts
  <2> QED
    BY <1>1, <2>1, <2>2
<1>6. CASE onNameOwnerChanged
  BY <1>1, <1>6, OwnerFacts, NoLineFacts
<1> QED
  BY <1>2, <1>3, <1>4, <1>5, <1>6
     DEF Process, GpioPropertySubscriber, onSnapshotError, DropReply, daemonVars, CallTimeout,
         retryTimerCb

LEMMA ProcessHandles ==
    ASSUME Types, MachineRight, Process \/ CallTimeout \/ retryTimerCb
    PROVE  Handles /\ (Pop \/ UNCHANGED inbox)
  BY StartFacts, OwnerFacts, ReplyFacts, ErrorFacts, TimeoutFacts, RetryFacts, SignalFacts
     DEF Process

LEMMA NextTypes ==
    ASSUME Types, MachineRight, [Next]_vars PROVE Types'
<1>1. CASE UNCHANGED vars
  <2>1. UNCHANGED <<up, version, bound, outages, requests, inbox, byPath, machine, slot,
                    retryTimer, injected, sent, failures>>
    BY <1>1 DEF vars, busVars, daemonVars
  <2> QED
    BY <2>1 DEF Types, IsReply
<1>2. CASE Process \/ CallTimeout \/ retryTimerCb
  BY <1>2, ProcessHandles, RowTypes, DaemonTypes
<1>3. /\ up \in BOOLEAN /\ version \in [Lines -> Nat] /\ bound \subseteq Lines
      /\ outages \in Nat /\ requests \in Seq(1..sent) /\ sent \in Nat
  BY DEF Types
<1>4. Len(<<>>) = 0 /\ \A j \in 1..0 : FALSE
  OBVIOUS
<1>5. ASSUME NEW l \in Lines, Toggle(l) \/ Unbind(l) \/ Bind(l) PROVE Types'
  <2>1. /\ up' \in BOOLEAN /\ version' \in [Lines -> Nat] /\ bound' \subseteq Lines
        /\ outages' \in Nat /\ requests' \in Seq(1..sent)
    <3>1. UNCHANGED <<up, requests>> /\ outages' \in {outages, outages + 1}
      BY <1>5 DEF Toggle, Unbind, Bind
    <3>2. version' \in [Lines -> Nat] /\ bound' \subseteq Lines
      BY <1>3, <1>5, ToggleFacts, UnbindFacts, BindFacts
    <3> QED
      BY <1>3, <3>1, <3>2
  <2>2. \A b, v : ~IsReply(Props(l, b, v)) /\ ~IsReply(Removed(l))
    BY DEF IsReply, Props, Removed
  <2>3. \E x : External(x) /\ \A j \in 1..Len(x) : ~IsReply(x[j])
    <3>1. ASSUME NEW m, ~IsReply(m) PROVE \A j \in 1..Len(<<m>>) : ~IsReply(<<m>>[j])
      BY <3>1, OneMessage
    <3>2. ASSUME NEW m, NEW n, ~IsReply(m), ~IsReply(n)
          PROVE  \A j \in 1..Len(<<m, n>>) : ~IsReply(<<m, n>>[j])
      <4>1. 1..2 = {1, 2}
        OBVIOUS
      <4> QED
        BY <3>2, <4>1
    <3> QED
      BY <1>4, <1>5, <2>2, <3>1, <3>2, ToggleFacts, UnbindFacts, BindFacts
  <2> QED
    BY <2>1, <2>3, ExternalTypes
<1>6. CASE AnswerCall
  <2>1. /\ UNCHANGED <<up, version, bound>> /\ requests' \in Seq(1..sent)
    BY <1>6, AnswerFacts
  <2>2. PICK serial \in 1..sent : \E m : /\ External(<<m>>)
                                         /\ IsReply(m) => m.serial = serial
    BY <1>6, AnswerFacts DEF Tree, Error
  <2>3. outages' = outages
    BY <1>6 DEF AnswerCall, busVars
  <2> QED
    BY <1>3, <2>1, <2>2, <2>3, OneMessage, ExternalTypes
<1>7. CASE Depart
  <2>1. PICK x : /\ External(x)
                 /\ \A j \in 1..Len(x) :
                       \/ x[j] = Owner(FALSE)
                       \/ \E serial \in 1..sent : x[j] = Error(serial, "transient")
    BY <1>7, DepartFacts
  <2>2. /\ UNCHANGED <<version, bound>> /\ up' = FALSE /\ requests' \in Seq(1..sent)
        /\ outages' = outages + 1
    BY <1>7, DepartFacts
  <2>3. \A j \in 1..Len(x) : IsReply(x[j]) => x[j].serial \in 1..sent
    <3>1. ~IsReply(Owner(FALSE)) /\ \A serial : Error(serial, "transient").serial = serial
      BY DEF IsReply, Owner, Error
    <3> QED
      BY <2>1, <3>1
  <2>4. up' \in BOOLEAN
    BY <2>2
  <2>5. outages' \in Nat
    BY <1>3, <2>2
  <2> QED
    BY <1>3, <2>1, <2>2, <2>3, <2>4, <2>5, ExternalTypes
<1>8. CASE Appear
  <2>1. UNCHANGED <<version, bound>> /\ up' = TRUE /\ External(<<Owner(TRUE)>>)
    BY <1>8, AppearFacts
  <2>2. UNCHANGED <<outages, requests>>
    BY <1>8 DEF Appear
  <2>3. ~IsReply(Owner(TRUE))
    BY DEF IsReply, Owner
  <2>4. up' \in BOOLEAN
    BY <2>1
  <2> QED
    BY <1>3, <2>1, <2>2, <2>3, <2>4, OneMessage, ExternalTypes
<1> QED
  BY <1>1, <1>2, <1>5, <1>6, <1>7, <1>8 DEF Next, GpioMon
-----------------------------------------------------------------------------
(* The levels arrive in order.                                             *)
LEMMA LevelTyped ==
    ASSUME NEW m \in Messages, NEW l \in Lines, Speaks(m, l) PROVE LevelIn(m, l) \in Nat
<1>1. CASE m.type = "tree"
  BY <1>1, MessageFacts DEF LevelIn
<1>2. CASE m.type # "tree"
  BY <1>2, MessageFacts DEF LevelIn, Speaks, Tells
<1> QED
  BY <1>1, <1>2

LEMMA LineTyped ==
    ASSUME Types, NEW l \in Lines
    PROVE  /\ injected[l] \in Int /\ version[l] \in Nat /\ byPath[l] \in Cached
           /\ byPath[l].version \in Nat /\ Len(inbox) \in Nat
           /\ \A i \in 1..Len(inbox) : inbox[i] \in Messages
           /\ \A i \in 1..Len(inbox) : Speaks(inbox[i], l) => LevelIn(inbox[i], l) \in Nat
<1>1. /\ injected[l] \in Int /\ version[l] \in Nat /\ byPath[l] \in Cached
      /\ byPath[l].version \in Nat
  BY DEF Types, Cached
<1>2. Len(inbox) \in Nat /\ \A i \in 1..Len(inbox) : inbox[i] \in Messages
  <2>1. inbox \in Seq(Messages)
    BY DEF Types
  <2> QED
    BY <2>1
<1> QED
  BY <1>1, <1>2, LevelTyped

(* What handling the head does to a line: it takes the level the head has, *)
(* or shows at most a level it already had.                                *)
Takes(l) ==
    \/ /\ Speaks(inbox[1], l) /\ byPath'[l].hasValue
       /\ byPath'[l].version = LevelIn(inbox[1], l)
       /\ injected'[l] = injected[l] \/ injected'[l] = LevelIn(inbox[1], l)
    \/ /\ byPath'[l].hasValue => byPath[l].hasValue /\ byPath'[l].version = byPath[l].version
       /\ \/ injected'[l] = injected[l]
          \/ byPath[l].hasValue /\ injected'[l] = byPath[l].version

LEMMA PopOrder ==
    ASSUME Types, InOrder, Pop, UNCHANGED version, \A l \in Lines : Takes(l)
    PROVE  InOrder' /\ \A l \in Lines : injected'[l] >= injected[l]
<1>1. ASSUME NEW l \in Lines
      PROVE  /\ injected'[l] >= injected[l] /\ injected'[l] <= version[l]
             /\ byPath'[l].hasValue => /\ injected'[l] <= byPath'[l].version
                                       /\ byPath'[l].version <= version[l]
             /\ \A i \in 1..Len(inbox) : i > 1 /\ Speaks(inbox[i], l) =>
                   /\ injected'[l] <= LevelIn(inbox[i], l) /\ LevelIn(inbox[i], l) <= version[l]
                   /\ byPath'[l].hasValue => byPath'[l].version <= LevelIn(inbox[i], l)
  <2> DEFINE lev(i) == LevelIn(inbox[i], l)
             spk(i) == Speaks(inbox[i], l)
  <2>1. /\ injected[l] \in Int /\ version[l] \in Nat /\ byPath[l].version \in Nat
        /\ Len(inbox) \in Nat /\ 1 \in 1..Len(inbox)
        /\ \A i \in 1..Len(inbox) : spk(i) => lev(i) \in Nat
    BY LineTyped, PopFacts
  <2>2. /\ injected[l] <= version[l]
        /\ byPath[l].hasValue => injected[l] <= byPath[l].version /\ byPath[l].version <= version[l]
        /\ \A i \in 1..Len(inbox) : spk(i) =>
             /\ injected[l] <= lev(i) /\ lev(i) <= version[l]
             /\ byPath[l].hasValue => byPath[l].version <= lev(i)
        /\ \A i, j \in 1..Len(inbox) : i < j /\ spk(i) /\ spk(j) => lev(i) <= lev(j)
    BY DEF InOrder
  <2>3. \/ /\ spk(1) /\ byPath'[l].hasValue /\ byPath'[l].version = lev(1)
           /\ injected'[l] = injected[l] \/ injected'[l] = lev(1)
        \/ /\ byPath'[l].hasValue => byPath[l].hasValue /\ byPath'[l].version = byPath[l].version
           /\ \/ injected'[l] = injected[l]
              \/ byPath[l].hasValue /\ injected'[l] = byPath[l].version
    BY DEF Takes
  <2>4. \A i \in 1..Len(inbox) : i > 1 /\ spk(1) /\ spk(i) => lev(1) <= lev(i)
    BY <2>1, <2>2
  <2> HIDE DEF lev, spk
  <2>5. CASE /\ spk(1) /\ byPath'[l].hasValue /\ byPath'[l].version = lev(1)
             /\ injected'[l] = injected[l] \/ injected'[l] = lev(1)
    <3>1. lev(1) \in Nat /\ injected[l] <= lev(1) /\ lev(1) <= version[l]
      BY <2>1, <2>2, <2>5
    <3>2. injected'[l] >= injected[l] /\ injected'[l] <= lev(1) /\ injected'[l] \in Int
      BY <2>1, <2>5, <3>1
    <3>3. ASSUME NEW i \in 1..Len(inbox), i > 1, spk(i)
          PROVE  injected'[l] <= lev(i) /\ lev(i) <= version[l] /\ byPath'[l].version <= lev(i)
      <4>1. lev(i) \in Nat /\ lev(1) <= lev(i) /\ lev(i) <= version[l]
        BY <2>1, <2>2, <2>4, <2>5, <3>3
      <4> QED
        BY <2>5, <3>1, <3>2, <4>1
    <3> QED
      BY <2>1, <2>5, <3>1, <3>2, <3>3 DEF lev, spk
  <2>6. CASE /\ byPath'[l].hasValue => byPath[l].hasValue /\ byPath'[l].version = byPath[l].version
             /\ \/ injected'[l] = injected[l]
                \/ byPath[l].hasValue /\ injected'[l] = byPath[l].version
    <3>1. /\ injected'[l] >= injected[l] /\ injected'[l] <= version[l] /\ injected'[l] \in Int
          /\ byPath[l].hasValue => injected'[l] <= byPath[l].version
      BY <2>1, <2>2, <2>6
    <3>3. ASSUME NEW i \in 1..Len(inbox), i > 1, spk(i)
          PROVE  /\ injected'[l] <= lev(i) /\ lev(i) <= version[l]
                 /\ byPath'[l].hasValue => byPath'[l].version <= lev(i)
      <4>1. lev(i) \in Nat /\ lev(i) <= version[l] /\ injected[l] <= lev(i)
            /\ (byPath[l].hasValue => byPath[l].version <= lev(i))
        BY <2>1, <2>2, <3>3
      <4> QED
        BY <2>1, <2>6, <4>1
    <3> QED
      BY <2>1, <2>2, <2>6, <3>1, <3>3 DEF lev, spk
  <2> QED
    BY <2>3, <2>5, <2>6
<1>2. \A i \in 1..Len(inbox') : /\ i + 1 \in 1..Len(inbox) /\ inbox'[i] = inbox[i + 1]
                                /\ i + 1 > 1
  BY PopFacts
<1>3. ASSUME NEW l \in Lines, NEW i \in 1..Len(inbox'), Speaks(inbox'[i], l)
      PROVE  /\ injected'[l] <= LevelIn(inbox'[i], l) /\ LevelIn(inbox'[i], l) <= version'[l]
             /\ byPath'[l].hasValue => byPath'[l].version <= LevelIn(inbox'[i], l)
  BY <1>1, <1>2, <1>3
<1>4. ASSUME NEW l \in Lines, NEW i \in 1..Len(inbox'), NEW j \in 1..Len(inbox'),
             i < j, Speaks(inbox'[i], l), Speaks(inbox'[j], l)
      PROVE  LevelIn(inbox'[i], l) <= LevelIn(inbox'[j], l)
  <2>1. i + 1 < j + 1
    BY <1>4, PopFacts
  <2>2. \A a, b \in 1..Len(inbox) :
            a < b /\ Speaks(inbox[a], l) /\ Speaks(inbox[b], l) =>
                LevelIn(inbox[a], l) <= LevelIn(inbox[b], l)
    BY DEF InOrder
  <2> QED
    BY <1>2, <1>4, <2>1, <2>2
<1> QED
  BY <1>1, <1>3, <1>4 DEF InOrder, Speaks, Tells, LevelIn

LEMMA PushOrder ==
    ASSUME Types, InOrder, NEW x, External(x), version' \in [Lines -> Nat],
           \A l \in Lines : version'[l] >= version[l],
           \A l \in Lines : \A j \in 1..Len(x) :
               Speaks(x[j], l) => LevelIn(x[j], l) = version'[l]
    PROVE  InOrder' /\ \A l \in Lines : injected'[l] = injected[l]
<1>1. UNCHANGED <<byPath, injected>> /\ Push(x)
  BY DEF External, daemonVars
<1>2. \A l \in Lines : /\ version'[l] \in Nat /\ version'[l] >= version[l]
                       /\ injected[l] <= version[l]
                       /\ byPath[l].hasValue => /\ injected[l] <= byPath[l].version
                                                /\ byPath[l].version <= version[l]
  BY DEF InOrder
<1>3. ASSUME NEW l \in Lines
      PROVE  /\ injected[l] <= version'[l]
             /\ byPath[l].hasValue => byPath[l].version <= version'[l]
  BY <1>2, LineTyped
<1>4. ASSUME NEW l \in Lines, NEW i \in 1..Len(inbox), Speaks(inbox[i], l)
      PROVE  /\ LevelIn(inbox[i], l) <= version'[l] /\ inbox'[i] = inbox[i]
             /\ injected[l] <= LevelIn(inbox[i], l)
             /\ byPath[l].hasValue => byPath[l].version <= LevelIn(inbox[i], l)
  <2>1. /\ LevelIn(inbox[i], l) <= version[l] /\ injected[l] <= LevelIn(inbox[i], l)
        /\ byPath[l].hasValue => byPath[l].version <= LevelIn(inbox[i], l)
    BY <1>4 DEF InOrder
  <2>2. LevelIn(inbox[i], l) \in Nat /\ version[l] \in Nat
    BY <1>4, LineTyped
  <2>3. LevelIn(inbox[i], l) <= version'[l]
    BY <1>2, <2>1, <2>2
  <2> QED
    BY <1>1, <2>1, <2>3, PushFacts
<1>5. ASSUME NEW l \in Lines, NEW i \in 1..Len(inbox'), i \notin 1..Len(inbox),
             Speaks(inbox'[i], l)
      PROVE  LevelIn(inbox'[i], l) = version'[l]
  BY <1>1, <1>5, PushFacts
<1>6. ASSUME NEW l \in Lines, NEW i \in 1..Len(inbox'), Speaks(inbox'[i], l)
      PROVE  /\ injected[l] <= LevelIn(inbox'[i], l) /\ LevelIn(inbox'[i], l) <= version'[l]
             /\ byPath[l].hasValue => byPath[l].version <= LevelIn(inbox'[i], l)
  <2>1. CASE i \in 1..Len(inbox)
    <3>1. inbox'[i] = inbox[i]
      BY <1>1, <2>1, PushFacts
    <3> QED
      BY <1>4, <1>6, <2>1, <3>1
  <2>2. CASE i \notin 1..Len(inbox)
    <3>1. LevelIn(inbox'[i], l) = version'[l]
      BY <1>5, <1>6, <2>2
    <3> QED
      BY <1>2, <1>3, <3>1
  <2> QED
    BY <2>1, <2>2
<1>7. ASSUME NEW l \in Lines, NEW i \in 1..Len(inbox'), NEW j \in 1..Len(inbox'),
             i < j, Speaks(inbox'[i], l), Speaks(inbox'[j], l)
      PROVE  LevelIn(inbox'[i], l) <= LevelIn(inbox'[j], l)
  <2>1. CASE j \in 1..Len(inbox)
    <3>1. i \in 1..Len(inbox)
      BY <1>7, <2>1
    <3>2. inbox'[i] = inbox[i] /\ inbox'[j] = inbox[j]
      BY <1>1, <2>1, <3>1, PushFacts
    <3> QED
      BY <1>7, <2>1, <3>1, <3>2 DEF InOrder
  <2>2. CASE j \notin 1..Len(inbox)
    BY <1>5, <1>6, <1>7, <2>2
  <2> QED
    BY <2>1, <2>2
<1> QED
  BY <1>1, <1>2, <1>3, <1>6, <1>7 DEF InOrder, Speaks, Tells, LevelIn

LEMMA KeptTakes ==
    ASSUME NEW l, byPath'[l] = byPath[l], injected'[l] = injected[l] PROVE Takes(l)
  BY DEF Takes

LEMMA ClearedTakes ==
    ASSUME NEW l, byPath'[l] = NoLine, injected'[l] = injected[l] PROVE Takes(l)
  BY NoLineFacts DEF Takes

(* A property signal, row by row.                                          *)
LEMMA PropsRow ==
    ASSUME Types, MachineRight, onPropertiesChanged, NEW l \in Lines
    PROVE  LET m == inbox[1]
           IN  \/ m.line # l /\ byPath'[l] = byPath[l] /\ injected'[l] = injected[l]
               \/ /\ m.type = "props" /\ m.line = l /\ byPath'[l] \in Cached
                  /\ m.version \in Nat \cup {-1}
                  /\ injected'[l] = IF decideInject(byPath'[l]) THEN byPath'[l].version
                                    ELSE injected[l]
                  /\ byPath'[l].bound <=> (m.bound = "yes" \/ (m.bound = "same" /\ byPath[l].bound))
                  /\ byPath'[l].hasValue <=> (byPath[l].hasValue \/ m.version # -1)
                  /\ byPath'[l].version = IF m.version = -1 THEN byPath[l].version ELSE m.version
<1> DEFINE m == inbox[1]
           c == Merge(byPath[m.line], m.bound, m.version)
           v == IF decideInject(c) THEN c.version ELSE injected[m.line]
<1>1. /\ m.type = "props" /\ m.line \in Lines /\ c \in Cached
      /\ m.version \in Nat \cup {-1}
      /\ byPath' = [byPath EXCEPT ![m.line] = c]
      /\ injected' = [injected EXCEPT ![m.line] = v]
  BY PropsFacts
<1>2. /\ c.bound <=> (m.bound = "yes" \/ (m.bound = "same" /\ byPath[m.line].bound))
      /\ c.hasValue <=> (byPath[m.line].hasValue \/ m.version # -1)
      /\ c.version = IF m.version = -1 THEN byPath[m.line].version ELSE m.version
  BY PropsFacts
<1>3. v = IF decideInject(c) THEN c.version ELSE injected[m.line]
  OBVIOUS
<1>4. l \in DOMAIN byPath /\ l \in DOMAIN injected
  BY DEF Types
<1> HIDE DEF c, v, m
<1>5. CASE m.line # l
  BY <1>1, <1>4, <1>5 DEF m
<1>6. CASE m.line = l
  <2>1. byPath'[l] = c /\ injected'[l] = v
    BY <1>1, <1>4, <1>6
  <2> QED
    BY <1>1, <1>2, <1>3, <1>6, <2>1 DEF m
<1> QED
  BY <1>5, <1>6

LEMMA RemovedRow ==
    ASSUME Types, onInterfacesRemoved, NEW l \in Lines
    PROVE  /\ inbox[1].type = "removed" /\ injected'[l] = injected[l]
           /\ \/ inbox[1].line # l /\ byPath'[l] = byPath[l]
              \/ inbox[1].line = l /\ byPath'[l] = NoLine
<1>1. /\ inbox[1].type = "removed" /\ Head(inbox) = inbox[1]
  BY ReceivedPops DEF onInterfacesRemoved
<1>2. byPath' = [byPath EXCEPT ![inbox[1].line] = NoLine] /\ UNCHANGED injected
  BY <1>1 DEF onInterfacesRemoved
<1>3. l \in DOMAIN byPath
  BY DEF Types
<1> QED
  BY <1>1, <1>2, <1>3

LEMMA ProcessTakes ==
    ASSUME Types, MachineRight, Process PROVE Pop /\ \A l \in Lines : Takes(l)
<1>1. Pop
  BY StartFacts, OwnerFacts, ReplyFacts, ErrorFacts, SignalFacts DEF Process
<1> SUFFICES ASSUME NEW l \in Lines PROVE Takes(l)
  BY <1>1
<1>2. CASE GpioPropertySubscriber \/ onSnapshotError \/ DropReply
  <2>1. UNCHANGED <<byPath, injected>>
    BY <1>2 DEF GpioPropertySubscriber, onSnapshotError, DropReply, daemonVars
  <2> QED
    BY <2>1, KeptTakes
<1>3. CASE onPropertiesChanged
  <2>1. CASE byPath'[l] = byPath[l] /\ injected'[l] = injected[l]
    BY <2>1, KeptTakes
  <2>2. CASE ~(byPath'[l] = byPath[l] /\ injected'[l] = injected[l])
    <3>1. /\ inbox[1].type = "props" /\ inbox[1].line = l
          /\ \/ injected'[l] = injected[l]
             \/ decideInject(byPath'[l]) /\ injected'[l] = byPath'[l].version
          /\ byPath'[l].hasValue <=> (byPath[l].hasValue \/ inbox[1].version # -1)
          /\ byPath'[l].version = IF inbox[1].version = -1 THEN byPath[l].version
                                  ELSE inbox[1].version
      BY <1>3, <2>2, PropsRow
    <3>2. CASE inbox[1].version = -1
      BY <3>1, <3>2 DEF Takes, decideInject
    <3>3. CASE inbox[1].version # -1
      BY <3>1, <3>3 DEF Takes, Speaks, Tells, LevelIn
    <3> QED
      BY <3>2, <3>3
  <2> QED
    BY <2>1, <2>2
<1>4. CASE onInterfacesRemoved
  BY <1>4, RemovedRow, KeptTakes, ClearedTakes
<1>5. CASE onSnapshotReply
  <2>1. /\ inbox[1].type = "tree" /\ byPath'[l].hasValue
        /\ byPath'[l].version = inbox[1].versions[l]
        /\ injected'[l] = injected[l] \/ injected'[l] = inbox[1].versions[l]
    BY <1>5, ReplyFacts, TreeFacts
  <2> QED
    BY <2>1 DEF Takes, Speaks, LevelIn
<1>6. CASE onNameOwnerChanged
  <2>1. injected' = injected /\ (byPath' = byPath \/ byPath' = [k \in Lines |-> NoLine])
    BY <1>6, OwnerFacts
  <2> QED
    BY <2>1, KeptTakes, ClearedTakes
<1> QED
  BY <1>2, <1>3, <1>4, <1>5, <1>6 DEF Process

(* What the cache shows has been given to the orchestrator.                *)
LEMMA ProcessCache ==
    ASSUME Types, MachineRight, CacheInjected, Process PROVE CacheInjected'
<1> SUFFICES ASSUME NEW l \in Lines, decideInject(byPath'[l])
             PROVE  injected'[l] # -1 /\ Value(injected'[l]) = Value(byPath'[l].version)
  BY DEF CacheInjected, decideInject
<1>1. decideInject(byPath[l]) =>
        injected[l] # -1 /\ Value(injected[l]) = Value(byPath[l].version)
  BY DEF CacheInjected
<1>2. ~decideInject(NoLine)
  BY NoLineFacts DEF decideInject
<1>3. CASE byPath'[l] \in {byPath[l], NoLine} /\ injected'[l] = injected[l]
  BY <1>1, <1>2, <1>3
<1>4. CASE onPropertiesChanged
  <2>1. CASE byPath'[l] = byPath[l] /\ injected'[l] = injected[l]
    BY <1>3, <2>1
  <2>2. CASE ~(byPath'[l] = byPath[l] /\ injected'[l] = injected[l])
    <3>1. byPath'[l] \in Cached /\ injected'[l] = byPath'[l].version
      BY <1>4, <2>2, PropsRow
    <3>2. byPath'[l].version \in Nat
      BY <3>1 DEF Cached
    <3> QED
      BY <3>1, <3>2
  <2> QED
    BY <2>1, <2>2
<1>5. CASE onSnapshotReply
  <2>1. /\ byPath'[l].version = inbox[1].versions[l] /\ inbox[1].versions[l] \in Nat
        /\ injected'[l] = IF applySnapshotUpdate(byPath[l], byPath'[l])
                          THEN inbox[1].versions[l] ELSE injected[l]
    BY <1>5, TreeFacts
  <2>2. CASE applySnapshotUpdate(byPath[l], byPath'[l])
    BY <2>1, <2>2
  <2>3. CASE ~applySnapshotUpdate(byPath[l], byPath'[l])
    <3>1. decideInject(byPath[l]) /\ Value(byPath[l].version) = Value(byPath'[l].version)
      BY <2>3 DEF applySnapshotUpdate, decideInject
    <3> QED
      BY <1>1, <2>1, <2>3, <3>1
  <2> QED
    BY <2>2, <2>3
<1>6. CASE onInterfacesRemoved
  BY <1>3, <1>6, RemovedRow
<1>7. CASE onNameOwnerChanged
  BY <1>3, <1>7, OwnerFacts
<1>8. CASE GpioPropertySubscriber \/ onSnapshotError \/ DropReply
  BY <1>3, <1>8 DEF GpioPropertySubscriber, onSnapshotError, DropReply, daemonVars
<1> QED
  BY <1>4, <1>5, <1>6, <1>7, <1>8 DEF Process

LEMMA KeptCache ==
    ASSUME CacheInjected, UNCHANGED <<byPath, injected>> PROVE CacheInjected'
  BY DEF CacheInjected, decideInject

(* What each step of gpio-mon pushes: levels as they are.                  *)
TellsNow(m) == \A l \in Lines : Speaks(m, l) => LevelIn(m, l) = version'[l]

LEMMA Mute ==
    /\ \A k, b : ~IsReply(Removed(k)) /\ TellsNow(Removed(k)) /\ TellsNow(Props(k, b, -1))
    /\ \A b : ~IsReply(Owner(b)) /\ TellsNow(Owner(b))
    /\ \A n, k : TellsNow(Error(n, k))
<1>1. /\ \A l, k : ~Speaks(Removed(k), l)
      /\ \A l, k, b : ~Speaks(Props(k, b, -1), l)
      /\ \A l, b : ~Speaks(Owner(b), l)
      /\ \A l, n, k : ~Speaks(Error(n, k), l)
  BY DEF Speaks, Tells, Props, Removed, Owner, Error
<1>2. \A k, b : ~IsReply(Removed(k)) /\ ~IsReply(Owner(b))
  BY DEF IsReply, Removed, Owner
<1> QED
  BY <1>1, <1>2 DEF TellsNow

LEMMA Speaking ==
    /\ \A k, b : TellsNow(Props(k, b, version'[k]))
    /\ UNCHANGED version => \A n : TellsNow(Tree(n))
<1>1. \A l, k, b, v : Speaks(Props(k, b, v), l) => k = l /\ LevelIn(Props(k, b, v), l) = v
  BY DEF Speaks, Tells, LevelIn, Props
<1>2. \A l, n : LevelIn(Tree(n), l) = version[l]
  BY DEF LevelIn, Tree
<1>3. ASSUME NEW k, NEW b PROVE TellsNow(Props(k, b, version'[k]))
  BY <1>1 DEF TellsNow
<1>4. ASSUME UNCHANGED version, NEW n PROVE TellsNow(Tree(n))
  BY <1>2, <1>4 DEF TellsNow
<1> QED
  BY <1>3, <1>4

LEMMA NoPush == Len(<<>>) = 0 /\ \A j \in 1..Len(<<>>) : FALSE
  OBVIOUS

LEMMA TwoMessages ==
    ASSUME NEW m, NEW n
    PROVE  /\ Len(<<m, n>>) = 2 /\ <<m, n>>[1] = m /\ <<m, n>>[2] = n
           /\ 1 \in 1..Len(<<m, n>>) /\ 2 \in 1..Len(<<m, n>>)
           /\ \A j \in 1..Len(<<m, n>>) : j = 1 \/ j = 2
  OBVIOUS

LEMMA MonitorPushes ==
    ASSUME Types, GpioMon
    PROVE  /\ version' \in [Lines -> Nat] /\ \A l \in Lines : version'[l] >= version[l]
           /\ \E x : External(x) /\ \A j \in 1..Len(x) : TellsNow(x[j])
<1>0. version \in [Lines -> Nat] /\ \A l \in Lines : version[l] >= version[l]
  BY DEF Types
<1>1. External(<<>>) => \E x : External(x) /\ \A j \in 1..Len(x) : TellsNow(x[j])
  BY NoPush
<1>2. ASSUME NEW m, External(<<m>>), TellsNow(m)
      PROVE  \E x : External(x) /\ \A j \in 1..Len(x) : TellsNow(x[j])
  <2>1. \A j \in 1..Len(<<m>>) : <<m>>[j] = m
    BY OneMessage
  <2> QED
    BY <1>2, <2>1
<1>3. CASE UNCHANGED version /\ \E x : External(x) /\ \A j \in 1..Len(x) : TellsNow(x[j])
  BY <1>0, <1>3
<1>4. ASSUME NEW k \in Lines, Toggle(k)
      PROVE  /\ version' \in [Lines -> Nat] /\ \A l \in Lines : version'[l] >= version[l]
             /\ \E x : External(x) /\ \A j \in 1..Len(x) : TellsNow(x[j])
  <2>1. /\ version' = [version EXCEPT ![k] = version[k] + 1] /\ version' \in [Lines -> Nat]
        /\ \/ External(<<>>)
           \/ External(<<Props(k, "same", version[k] + 1)>>)
    BY <1>4, ToggleFacts
  <2>2. version'[k] = version[k] + 1 /\ version[k] \in Nat
    BY <1>0, <2>1
  <2>3. \A l \in Lines : version'[l] >= version[l]
    BY <1>0, <2>1, <2>2
  <2>4. TellsNow(Props(k, "same", version[k] + 1))
    BY <2>2, Speaking
  <2> QED
    BY <1>1, <1>2, <2>1, <2>3, <2>4
<1>5. ASSUME NEW k \in Lines, Unbind(k)
      PROVE  UNCHANGED version /\ \E x : External(x) /\ \A j \in 1..Len(x) : TellsNow(x[j])
  <2>1. UNCHANGED version /\ \/ External(<<>>)
                             \/ External(<<Props(k, "no", -1)>>)
                             \/ External(<<Removed(k)>>)
    BY <1>5, UnbindFacts
  <2> QED
    BY <1>1, <1>2, <2>1, Mute
<1>6. ASSUME NEW k \in Lines, Bind(k)
      PROVE  UNCHANGED version /\ \E x : External(x) /\ \A j \in 1..Len(x) : TellsNow(x[j])
  <2> DEFINE m == Props(k, "yes", version[k])
             n == Props(k, "yes", -1)
             o == Props(k, "same", version[k])
  <2>1. UNCHANGED version /\ (External(<<>>) \/ External(<<m>>) \/ External(<<n, o>>))
    BY <1>6, BindFacts
  <2>2. TellsNow(m) /\ TellsNow(n) /\ TellsNow(o)
    BY <2>1, Mute, Speaking
  <2> HIDE DEF m, n, o
  <2>3. \A j \in 1..Len(<<n, o>>) : TellsNow(<<n, o>>[j])
    BY <2>2, TwoMessages
  <2> QED
    BY <1>1, <1>2, <2>1, <2>2, <2>3
<1>7. ASSUME AnswerCall
      PROVE  UNCHANGED version /\ \E x : External(x) /\ \A j \in 1..Len(x) : TellsNow(x[j])
  <2>1. UNCHANGED version
    BY <1>7, AnswerFacts
  <2>2. PICK n \in 1..sent : \/ External(<<Tree(n)>>)
                             \/ External(<<Error(n, "transient")>>)
                             \/ External(<<Error(n, "missing")>>)
    BY <1>7, AnswerFacts
  <2>3. TellsNow(Tree(n)) /\ TellsNow(Error(n, "transient")) /\ TellsNow(Error(n, "missing"))
    BY <2>1, Mute, Speaking
  <2> QED
    BY <1>2, <2>1, <2>2, <2>3
<1>8. ASSUME Depart
      PROVE  UNCHANGED version /\ \E x : External(x) /\ \A j \in 1..Len(x) : TellsNow(x[j])
  <2>1. PICK x : /\ External(x)
                 /\ \A j \in 1..Len(x) :
                       \/ x[j] = Owner(FALSE)
                       \/ \E serial \in 1..sent : x[j] = Error(serial, "transient")
    BY <1>8, DepartFacts
  <2>2. UNCHANGED version
    BY <1>8, DepartFacts
  <2>3. TellsNow(Owner(FALSE)) /\ \A serial : TellsNow(Error(serial, "transient"))
    BY Mute
  <2>4. \A j \in 1..Len(x) : TellsNow(x[j])
    BY <2>1, <2>3
  <2> QED
    BY <2>1, <2>2, <2>4
<1>9. ASSUME Appear
      PROVE  UNCHANGED version /\ \E x : External(x) /\ \A j \in 1..Len(x) : TellsNow(x[j])
  <2>1. UNCHANGED version /\ External(<<Owner(TRUE)>>) /\ TellsNow(Owner(TRUE))
    BY <1>9, AppearFacts, Mute
  <2> QED
    BY <1>2, <2>1
<1> QED
  BY <1>3, <1>4, <1>5, <1>6, <1>7, <1>8, <1>9 DEF GpioMon

LEMMA NextOrder ==
    ASSUME Types, MachineRight, InOrder, CacheInjected, [Next]_vars
    PROVE  InOrder' /\ CacheInjected' /\ \A l \in Lines : injected'[l] >= injected[l]
<1>0. \A l \in Lines : injected[l] >= injected[l]
  BY LineTyped
<1>1. CASE UNCHANGED <<version, inbox, byPath, injected>>
  BY <1>0, <1>1, KeptCache DEF InOrder, Speaks, Tells, LevelIn
<1>2. CASE UNCHANGED vars
  BY <1>1, <1>2 DEF vars, busVars, daemonVars
<1>3. CASE CallTimeout \/ retryTimerCb
  BY <1>1, <1>3 DEF CallTimeout, retryTimerCb, busVars
<1>4. CASE Process
  <2>1. Pop /\ \A l \in Lines : Takes(l)
    BY <1>4, ProcessTakes
  <2>2. UNCHANGED version
    BY <1>4, ProcessHandles DEF Handles, busVars
  <2> QED
    BY <1>4, <2>1, <2>2, PopOrder, ProcessCache
<1>5. CASE GpioMon
  <2>1. PICK x : External(x) /\ \A j \in 1..Len(x) : TellsNow(x[j])
    BY <1>5, MonitorPushes
  <2>2. version' \in [Lines -> Nat] /\ \A l \in Lines : version'[l] >= version[l]
    BY <1>5, MonitorPushes
  <2>3. \A l \in Lines : \A j \in 1..Len(x) :
               Speaks(x[j], l) => LevelIn(x[j], l) = version'[l]
    BY <2>1 DEF TellsNow
  <2>4. InOrder' /\ \A l \in Lines : injected'[l] = injected[l]
    BY <2>1, <2>2, <2>3, PushOrder
  <2>5. UNCHANGED <<byPath, injected>>
    BY <2>1 DEF External, daemonVars
  <2> QED
    BY <1>0, <2>4, <2>5, KeptCache
<1> QED
  BY <1>2, <1>3, <1>4, <1>5 DEF Next
-----------------------------------------------------------------------------
(* Announcements on their way.                                             *)
LEMMA PopShape ==
    ASSUME Pop
    PROVE  /\ Departing' => Departing
           /\ Departing => Departing' \/ Went(inbox[1])
           /\ Coming => Coming' \/ inbox[1].type = "start" \/ Came(inbox[1])
           /\ (\E j \in 1..Len(inbox) : j > 1 /\ Came(inbox[j])) => Coming'
           /\ \A i \in 1..Len(inbox') :
                 (\E j \in 1..Len(inbox) : j > i + 1 /\ Came(inbox[j])) =>
                     \E j \in 1..Len(inbox') : j > i /\ Came(inbox'[j])
<1>1. /\ \A i \in 1..Len(inbox') : i + 1 \in 1..Len(inbox) /\ inbox'[i] = inbox[i + 1]
      /\ \A k \in 1..Len(inbox) : k = 1 \/ (k - 1 \in 1..Len(inbox') /\ inbox'[k - 1] = inbox[k])
  BY PopFacts
<1>2. Departing' => Departing
  BY <1>1 DEF Departing, Went
<1>3. Departing => Departing' \/ Went(inbox[1])
  BY <1>1 DEF Departing, Went
<1>4. Coming => Coming' \/ inbox[1].type = "start" \/ Came(inbox[1])
  BY <1>1 DEF Coming, Came
<1>5. ASSUME NEW j \in 1..Len(inbox), j > 1, Came(inbox[j]) PROVE Coming'
  <2>1. j # 1
    BY <1>5
  <2>2. j - 1 \in 1..Len(inbox') /\ Came(inbox'[j - 1])
    BY <1>1, <1>5, <2>1
  <2> QED
    BY <2>2 DEF Coming, Came
<1>6. ASSUME NEW i \in 1..Len(inbox'), NEW j \in 1..Len(inbox), j > i + 1, Came(inbox[j])
      PROVE  \E k \in 1..Len(inbox') : k > i /\ Came(inbox'[k])
  <2>1. j - 1 \in 1..Len(inbox') /\ inbox'[j - 1] = inbox[j] /\ j - 1 > i
    BY <1>1, <1>6
  <2> QED
    BY <1>6, <2>1
<1> QED
  BY <1>2, <1>3, <1>4, <1>5, <1>6

LEMMA PushShape ==
    ASSUME NEW x, Push(x)
    PROVE  /\ Departing => Departing'
           /\ (\E j \in 1..Len(x) : Went(x[j])) => Departing'
           /\ Coming => Coming'
           /\ (\E j \in 1..Len(x) : Came(x[j])) => Coming'
           /\ (\A j \in 1..Len(x) : ~Went(x[j])) =>
                 /\ Departing' => Departing
                 /\ \A i \in 1..Len(inbox') : Went(inbox'[i]) =>
                       i \in 1..Len(inbox) /\ Went(inbox[i])
           /\ \A i \in 1..Len(inbox) :
                 /\ (\E j \in 1..Len(inbox) : j > i /\ Came(inbox[j])) =>
                        \E j \in 1..Len(inbox') : j > i /\ Came(inbox'[j])
                 /\ (\E j \in 1..Len(x) : Came(x[j])) =>
                        \E j \in 1..Len(inbox') : j > i /\ Came(inbox'[j])
<1>1. /\ Len(inbox) \in Nat
      /\ \A i \in 1..Len(inbox) : i \in 1..Len(inbox') /\ inbox'[i] = inbox[i]
      /\ \A i \in 1..Len(x) : Len(inbox) + i \in 1..Len(inbox') /\ inbox'[Len(inbox) + i] = x[i]
      /\ \A k \in 1..Len(inbox') :
                 \/ k \in 1..Len(inbox)
                 \/ k - Len(inbox) \in 1..Len(x) /\ inbox'[k] = x[k - Len(inbox)]
  BY PushFacts
<1>2. (Departing => Departing') /\ (Coming => Coming')
  BY <1>1 DEF Departing, Went, Coming, Came
<1>3. ASSUME NEW j \in 1..Len(x), Went(x[j]) PROVE Departing'
  BY <1>1, <1>3 DEF Departing, Went
<1>4. ASSUME NEW j \in 1..Len(x), Came(x[j]) PROVE Coming'
  BY <1>1, <1>4 DEF Coming, Came
<1>5. ASSUME \A j \in 1..Len(x) : ~Went(x[j]), NEW i \in 1..Len(inbox'), Went(inbox'[i])
      PROVE  i \in 1..Len(inbox) /\ Went(inbox[i])
  BY <1>1, <1>5
<1>6. ASSUME \A j \in 1..Len(x) : ~Went(x[j]), Departing' PROVE Departing
  <2>1. PICK i \in 1..Len(inbox') : Went(inbox'[i])
    BY <1>6 DEF Departing, Went
  <2> QED
    BY <1>5, <1>6, <2>1 DEF Departing
<1>7. ASSUME NEW i \in 1..Len(inbox), NEW j \in 1..Len(inbox), j > i, Came(inbox[j])
      PROVE  \E k \in 1..Len(inbox') : k > i /\ Came(inbox'[k])
  BY <1>1, <1>7
<1>8. ASSUME NEW i \in 1..Len(inbox), NEW j \in 1..Len(x), Came(x[j])
      PROVE  \E k \in 1..Len(inbox') : k > i /\ Came(inbox'[k])
  <2>1. Len(inbox) + j > i
    BY <1>1
  <2> QED
    BY <1>1, <1>8, <2>1
<1> QED
  BY <1>2, <1>3, <1>4, <1>5, <1>6, <1>7, <1>8

(* What gpio-mon pushes: no start request, and announcements only when it  *)
(* comes or goes.                                                          *)
Quiet(m) == m.type # "start" /\ ~Came(m) /\ ~Went(m)

LEMMA QuietMessages ==
    /\ \A l, b, v : Quiet(Props(l, b, v))
    /\ \A l : Quiet(Removed(l))
    /\ \A n : Quiet(Tree(n))
    /\ \A n, k : Quiet(Error(n, k))
    /\ Came(Owner(TRUE)) /\ Went(Owner(FALSE))
    /\ \A b : Owner(b).type # "start"
  BY DEF Quiet, Came, Went, Props, Removed, Tree, Error, Owner

LEMMA QuietPushes ==
    ASSUME Types, (\E l \in Lines : Toggle(l) \/ Unbind(l) \/ Bind(l)) \/ AnswerCall
    PROVE  UNCHANGED up /\ \E x : External(x) /\ \A j \in 1..Len(x) : Quiet(x[j])
<1>1. External(<<>>) => \E x : External(x) /\ \A j \in 1..Len(x) : Quiet(x[j])
  BY NoPush
<1>2. ASSUME NEW m, External(<<m>>), Quiet(m)
      PROVE  \E x : External(x) /\ \A j \in 1..Len(x) : Quiet(x[j])
  <2>1. \A j \in 1..Len(<<m>>) : <<m>>[j] = m
    BY OneMessage
  <2> QED
    BY <1>2, <2>1
<1>3. ASSUME NEW l \in Lines, Toggle(l) \/ Unbind(l) \/ Bind(l)
      PROVE  UNCHANGED up /\ \E x : External(x) /\ \A j \in 1..Len(x) : Quiet(x[j])
  <2> DEFINE n == Props(l, "yes", -1)
             o == Props(l, "same", version[l])
  <2>1. UNCHANGED up /\ \/ External(<<>>) \/ External(<<n, o>>) \/ External(<<Removed(l)>>)
                        \/ \E b, v : External(<<Props(l, b, v)>>)
    BY <1>3, ToggleFacts, UnbindFacts, BindFacts
  <2>2. Quiet(n) /\ Quiet(o)
    BY QuietMessages
  <2> HIDE DEF n, o
  <2>3. \A j \in 1..Len(<<n, o>>) : Quiet(<<n, o>>[j])
    BY <2>2, TwoMessages
  <2> QED
    BY <1>1, <1>2, <2>1, <2>3, QuietMessages
<1>4. CASE AnswerCall
  <2>1. UNCHANGED up
    BY <1>4, AnswerFacts
  <2>2. PICK n \in 1..sent : \/ External(<<Tree(n)>>)
                             \/ External(<<Error(n, "transient")>>)
                             \/ External(<<Error(n, "missing")>>)
    BY <1>4, AnswerFacts
  <2> QED
    BY <1>2, <2>1, <2>2, QuietMessages
<1> QED
  BY <1>3, <1>4

LEMMA NextReturns ==
    ASSUME Types, MachineRight, Returns, [Next]_vars PROVE Returns'
<1>1. CASE UNCHANGED <<up, inbox>>
  BY <1>1 DEF Returns, Came, Went
<1>2. CASE UNCHANGED vars
  BY <1>1, <1>2 DEF vars, busVars
<1>3. CASE CallTimeout \/ retryTimerCb
  BY <1>1, <1>3 DEF CallTimeout, retryTimerCb, busVars
<1>4. CASE Process
  <2>1. Pop /\ UNCHANGED up
    BY <1>4, ProcessTakes, ProcessHandles DEF Handles, busVars
  <2>2. ASSUME up, NEW i \in 1..Len(inbox'), Went(inbox'[i])
        PROVE  \E j \in 1..Len(inbox') : j > i /\ Came(inbox'[j])
    <3>1. i + 1 \in 1..Len(inbox) /\ inbox'[i] = inbox[i + 1]
      BY <2>1, PopFacts
    <3>2. \E j \in 1..Len(inbox) : j > i + 1 /\ Came(inbox[j])
      BY <2>2, <3>1 DEF Returns
    <3> QED
      BY <2>1, <3>2, PopShape
  <2> QED
    BY <2>1, <2>2 DEF Returns, Came, Went
<1>5. CASE (\E l \in Lines : Toggle(l) \/ Unbind(l) \/ Bind(l)) \/ AnswerCall
  <2>1. UNCHANGED up
    BY <1>5, QuietPushes
  <2>2. PICK x : External(x) /\ \A j \in 1..Len(x) : Quiet(x[j])
    BY <1>5, QuietPushes
  <2>3. Push(x) /\ \A j \in 1..Len(x) : ~Went(x[j])
    BY <2>2 DEF External, Quiet
  <2>4. ASSUME up, NEW i \in 1..Len(inbox'), Went(inbox'[i])
        PROVE  \E j \in 1..Len(inbox') : j > i /\ Came(inbox'[j])
    <3>1. i \in 1..Len(inbox) /\ Went(inbox[i])
      BY <2>3, <2>4, PushShape
    <3>2. \E j \in 1..Len(inbox) : j > i /\ Came(inbox[j])
      BY <2>4, <3>1 DEF Returns
    <3> QED
      BY <2>3, <3>1, <3>2, PushShape
  <2> QED
    BY <2>1, <2>4 DEF Returns, Came, Went
<1>6. CASE Depart
  <2>1. ~up'
    BY <1>6, DepartFacts
  <2> QED
    BY <2>1 DEF Returns
<1>7. CASE Appear
  <2> DEFINE x == <<Owner(TRUE)>>
  <2>1. Push(x)
    BY <1>7, AppearFacts DEF External
  <2>2. Len(x) = 1 /\ x[1] = Owner(TRUE)
    OBVIOUS
  <2> HIDE DEF x
  <2>0. Came(x[1])
    BY <2>2, QuietMessages
  <2>3. 1 \in 1..Len(x) /\ Came(x[1]) /\ \A j \in 1..Len(x) : x[j] = x[1]
    <3>1. 1 \in 1..1 /\ \A j \in 1..1 : j = 1
      OBVIOUS
    <3> QED
      BY <2>0, <2>2, <3>1
  <2>4. \A j \in 1..Len(x) : ~Went(x[j])
    BY <2>3 DEF Came, Went
  <2>5. \E j \in 1..Len(x) : Came(x[j])
    BY <2>3
  <2>6. ASSUME NEW i \in 1..Len(inbox'), Went(inbox'[i])
        PROVE  \E j \in 1..Len(inbox') : j > i /\ Came(inbox'[j])
    <3>1. i \in 1..Len(inbox)
      BY <2>1, <2>4, <2>6, PushShape
    <3> QED
      BY <2>1, <2>5, <3>1, PushShape
  <2> QED
    BY <2>6 DEF Returns, Came, Went
<1> QED
  BY <1>2, <1>3, <1>4, <1>5, <1>6, <1>7 DEF Next, GpioMon

LEMMA NextMachine ==
    ASSUME Types, MachineRight, [Next]_vars PROVE MachineRight'
<1>1. CASE UNCHANGED vars
  BY <1>1 DEF vars, busVars, daemonVars, MachineRight
<1>2. CASE Process
  <2>1. Pop /\ MachineAgrees'
    BY <1>2, ProcessTakes, ProcessHandles DEF Handles
  <2>2. \A i \in 1..Len(inbox') : inbox'[i].type # "start"
    <3>1. \A i \in 1..Len(inbox') : i + 1 \in 1..Len(inbox) /\ inbox'[i] = inbox[i + 1] /\ i + 1 # 1
      BY <2>1, PopFacts
    <3> QED
      BY <3>1 DEF MachineRight
  <2> QED
    BY <2>1, <2>2 DEF MachineRight, MachineAgrees
<1>3. CASE CallTimeout \/ retryTimerCb
  <2>1. MachineAgrees' /\ UNCHANGED inbox
    BY <1>3, ProcessHandles, TimeoutFacts, RetryFacts DEF Handles
  <2>2. machine.phase # "Idle"
    BY <1>3, TimeoutFacts, RetryFacts DEF MachineRight
  <2> QED
    BY <2>1, <2>2 DEF MachineRight, MachineAgrees
<1>4. CASE GpioMon
  <2>1. PICK x : External(x) /\ \A j \in 1..Len(x) : x[j].type # "start"
    <3>1. CASE (\E l \in Lines : Toggle(l) \/ Unbind(l) \/ Bind(l)) \/ AnswerCall
      BY <3>1, QuietPushes DEF Quiet
    <3>2. CASE Depart
      <4>1. PICK x : /\ External(x)
                     /\ \A j \in 1..Len(x) :
                           \/ x[j] = Owner(FALSE)
                           \/ \E serial \in 1..sent : x[j] = Error(serial, "transient")
        BY <3>2, DepartFacts
      <4>2. Owner(FALSE).type # "start" /\ \A n : Error(n, "transient").type # "start"
        BY QuietMessages DEF Quiet
      <4> QED
        BY <4>1, <4>2
    <3>3. CASE Appear
      <4>1. External(<<Owner(TRUE)>>) /\ \A j \in 1..Len(<<Owner(TRUE)>>) :
                                            <<Owner(TRUE)>>[j] = Owner(TRUE)
        BY <3>3, AppearFacts, OneMessage
      <4> QED
        BY <4>1, QuietMessages
    <3> QED
      BY <1>4, <3>1, <3>2, <3>3 DEF GpioMon
  <2>2. UNCHANGED <<machine, slot, retryTimer>> /\ Push(x)
    BY <2>1 DEF External, daemonVars
  <2>3. ASSUME NEW i \in 1..Len(inbox'), inbox'[i].type = "start"
        PROVE  i \in 1..Len(inbox) /\ inbox'[i] = inbox[i]
    <3>1. i \in 1..Len(inbox)
      <4>1. ASSUME i \notin 1..Len(inbox) PROVE FALSE
        <5>1. PICK j \in 1..Len(x) : inbox'[i] = x[j]
          BY <2>2, <4>1, PushFacts
        <5> QED
          BY <2>1, <2>3, <5>1
      <4> QED
        BY <4>1
    <3> QED
      BY <2>2, <3>1, PushFacts
  <2> QED
    BY <2>2, <2>3 DEF MachineRight
<1> QED
  BY <1>1, <1>2, <1>3, <1>4 DEF Next
-----------------------------------------------------------------------------
(* Replies of the call the slot holds, and the attempts.                   *)
NoneLive == \A i \in 1..Len(inbox) : ~Live(inbox[i])

(* A call that is given up, or a new one, has no reply on its way.         *)
LEMMA Unanswered ==
    ASSUME Types, Pop \/ UNCHANGED inbox, slot' = 0 \/ slot' > sent
    PROVE  NoneLive'
<1>1. ASSUME NEW i \in 1..Len(inbox'), IsReply(inbox'[i]) PROVE inbox'[i].serial \in 1..sent
  <2>1. CASE Pop
    BY <1>1, <2>1, PopFacts DEF Types
  <2>2. CASE UNCHANGED inbox
    BY <1>1, <2>2 DEF Types
  <2> QED
    BY <2>1, <2>2
<1>2. \A n \in 1..sent : n # slot'
  BY DEF Types
<1> QED
  BY <1>1, <1>2 DEF NoneLive, Live, IsReply

LEMMA PopLive ==
    ASSUME Pop, UNCHANGED slot
    PROVE  \A i \in 1..Len(inbox') : Live(inbox[i])' =>
              i + 1 \in 1..Len(inbox) /\ inbox'[i] = inbox[i + 1] /\ Live(inbox[i + 1])
<1>1. \A i \in 1..Len(inbox') : i + 1 \in 1..Len(inbox) /\ inbox'[i] = inbox[i + 1]
  BY PopFacts
<1> QED
  BY <1>1 DEF Live, IsReply

(* Only an answer pushes a reply while gpio-mon stays as it is.            *)
LEMMA PushLive ==
    ASSUME NEW x, Push(x), UNCHANGED slot
    PROVE  \A i \in 1..Len(inbox') : Live(inbox[i])' =>
              \/ i \in 1..Len(inbox) /\ inbox'[i] = inbox[i] /\ Live(inbox[i])
              \/ i \notin 1..Len(inbox) /\ \E j \in 1..Len(x) : inbox'[i] = x[j] /\ Live(x[j])
<1>1. \A i \in 1..Len(inbox) : inbox'[i] = inbox[i]
  BY PushFacts
<1>2. \A i \in 1..Len(inbox') : i \in 1..Len(inbox) \/ \E j \in 1..Len(x) : inbox'[i] = x[j]
  BY PushFacts
<1>3. \A i \in 1..Len(inbox') : Live(inbox[i])' => Live(inbox'[i])
  BY DEF Live, IsReply
<1> QED
  BY <1>1, <1>2, <1>3

AttemptsOK ==
    /\ machine.phase = "InFlight" => machine.attempts <= failures + 1
    /\ machine.phase = "RetryWait" => machine.attempts <= failures

LEMMA FreshCounts ==
    ASSUME NoneLive', ~Departing' => AttemptsOK' PROVE AttemptsCounted' /\ GoneAnswers'
  BY DEF AttemptsCounted, GoneAnswers, NoneLive, AttemptsOK, Live, IsReply, Departing, Went

LEMMA DispatchedCounts ==
    ASSUME Types, NEW n \in Nat, n <= failures, Dispatched(n), Pop \/ UNCHANGED inbox
    PROVE  AttemptsCounted' /\ GoneAnswers'
<1>1. NoneLive'
  BY Unanswered DEF Dispatched
<1>2. failures \in Nat
  BY BoundsAssumption DEF Types
<1>3. AttemptsOK'
  BY <1>2 DEF AttemptsOK, Dispatched
<1> QED
  BY <1>1, <1>3, FreshCounts

LEMMA ProcessCounts ==
    ASSUME Types, MachineRight, AttemptsCounted, GoneAnswers, Process
    PROVE  AttemptsCounted' /\ GoneAnswers'
<1>0. Pop /\ UNCHANGED up /\ failures \in Nat /\ 0 \in Nat /\ 0 <= failures
      /\ machine.attempts \in Nat
  BY ProcessTakes, ProcessHandles, BoundsAssumption DEF Handles, busVars, Types
<1>1. ASSUME ~Went(inbox[1]), ~Departing' PROVE ~Departing
  BY <1>0, <1>1, PopShape
<1>2. 1 \in 1..Len(inbox)
  BY <1>0, PopFacts
<1>3. CASE GpioPropertySubscriber
  BY <1>0, <1>3, StartFacts, DispatchedCounts
<1>4. CASE onSnapshotReply
  <2>1. slot' = 0 /\ machine'.phase = "Ready"
    BY <1>4, ReplyFacts
  <2>2. AttemptsOK' /\ NoneLive'
    BY <1>0, <2>1, Unanswered DEF AttemptsOK
  <2> QED
    BY <2>2, FreshCounts
<1>5. CASE onSnapshotError
  <2>1. /\ inbox[1].type = "error" /\ Live(inbox[1]) /\ slot' = 0 /\ failures' = failures
        /\ \/ machine'.phase \in {"Idle", "Ready"}
           \/ /\ inbox[1].kind = "transient" /\ machine'.attempts = machine.attempts
              /\ machine'.phase = "RetryWait"
    BY <1>5, ErrorFacts
  <2>2. ~Went(inbox[1])
    BY <2>1 DEF Went
  <2>3. ~Departing' => AttemptsOK'
    <3>1. ASSUME ~Departing', inbox[1].kind = "transient" PROVE machine.attempts <= failures
      BY <1>1, <1>2, <2>1, <2>2, <3>1 DEF AttemptsCounted
    <3> QED
      BY <2>1, <3>1 DEF AttemptsOK
  <2>4. NoneLive'
    BY <1>0, <2>1, Unanswered
  <2> QED
    BY <2>3, <2>4, FreshCounts
<1>6. CASE /\ UNCHANGED <<slot, failures>> /\ machine'.phase = machine.phase
           /\ machine'.attempts = machine.attempts \/ machine'.attempts = 0
           /\ ~Went(inbox[1])
  <2>1. \A i \in 1..Len(inbox') : Live(inbox[i])' =>
              i + 1 \in 1..Len(inbox) /\ inbox'[i] = inbox[i + 1] /\ Live(inbox[i + 1])
    BY <1>0, <1>6, PopLive
  <2>2. machine'.attempts <= machine.attempts /\ machine'.attempts \in Nat
    BY <1>0, <1>6
  <2>3. ASSUME ~Departing' PROVE AttemptsOK'
    <3>1. AttemptsOK
      BY <1>1, <1>6, <2>3 DEF AttemptsCounted, AttemptsOK
    <3> QED
      BY <1>0, <1>6, <2>2, <3>1 DEF AttemptsOK
  <2>4. ASSUME ~Departing', NEW i \in 1..Len(inbox'), Live(inbox[i])',
               inbox'[i].type = "error", inbox'[i].kind = "transient"
        PROVE  machine'.attempts <= failures'
    <3>1. machine.attempts <= failures
      BY <1>1, <1>6, <2>1, <2>4 DEF AttemptsCounted
    <3> QED
      BY <1>0, <1>6, <2>2, <3>1
  <2>5. ASSUME ~Departing', ~up', NEW i \in 1..Len(inbox'), Live(inbox[i])'
        PROVE  inbox'[i].type = "error" /\ inbox'[i].kind = "missing"
    BY <1>0, <1>1, <1>6, <2>1, <2>5 DEF GoneAnswers
  <2> QED
    BY <2>3, <2>4, <2>5 DEF AttemptsCounted, GoneAnswers, AttemptsOK, Live, IsReply,
                            Departing, Went
<1>7. CASE onNameOwnerChanged
  <2>1. CASE Dispatched(0)
    BY <1>0, <2>1, DispatchedCounts
  <2>2. CASE slot' = 0 /\ machine'.phase = "Idle"
    <3>1. AttemptsOK' /\ NoneLive'
      BY <1>0, <2>2, Unanswered DEF AttemptsOK
    <3> QED
      BY <3>1, FreshCounts
  <2>3. CASE /\ Came(inbox[1]) /\ UNCHANGED <<slot, failures>> /\ machine.phase = "InFlight"
             /\ machine'.phase = "InFlight" /\ machine'.attempts = 0
    BY <1>6, <2>3 DEF Came, Went
  <2> QED
    BY <1>7, <2>1, <2>2, <2>3, OwnerFacts
<1>8. CASE onPropertiesChanged \/ onInterfacesRemoved \/ DropReply
  <2>1. /\ UNCHANGED <<machine, slot, failures>>
        /\ inbox[1].type \in {"props", "removed", "tree", "error"}
    BY <1>8, SignalFacts
  <2> QED
    BY <1>6, <2>1 DEF Went
<1> QED
  BY <1>3, <1>4, <1>5, <1>7, <1>8 DEF Process

LEMMA TimerCounts ==
    ASSUME Types, MachineRight, AttemptsCounted, GoneAnswers, CallTimeout \/ retryTimerCb
    PROVE  AttemptsCounted' /\ GoneAnswers'
<1>0. failures \in Nat /\ machine.attempts \in Nat /\ UNCHANGED inbox
  BY BoundsAssumption, TimeoutFacts, RetryFacts DEF Types
<1>1. Departing' <=> Departing
  BY <1>0 DEF Departing, Went
<1>2. CASE CallTimeout
  <2>1. /\ slot # 0 /\ slot' = 0 /\ failures' = failures + 1
        /\ machine'.attempts = machine.attempts
        /\ machine'.phase \in {"RetryWait", "Idle", "Ready"}
    BY <1>2, TimeoutFacts
  <2>2. machine.phase = "InFlight"
    BY <2>1 DEF MachineRight
  <2>3. ~Departing' => AttemptsOK'
    BY <1>0, <1>1, <2>1, <2>2 DEF AttemptsCounted, AttemptsOK
  <2>4. NoneLive'
    BY <1>0, <2>1, Unanswered
  <2> QED
    BY <2>3, <2>4, FreshCounts
<1>3. CASE retryTimerCb
  <2>1. machine.phase = "RetryWait" /\ Dispatched(machine.attempts)
    BY <1>3, RetryFacts
  <2>2. CASE Departing
    <3>1. NoneLive'
      BY <1>0, <2>1, Unanswered DEF Dispatched
    <3> QED
      BY <1>1, <2>2, <3>1, FreshCounts
  <2>3. CASE ~Departing
    <3>1. machine.attempts <= failures
      BY <2>1, <2>3 DEF AttemptsCounted
    <3> QED
      BY <1>0, <2>1, <3>1, DispatchedCounts
  <2> QED
    BY <2>2, <2>3
<1> QED
  BY <1>2, <1>3

(* Steps of gpio-mon: what they push that is live.                         *)
LEMMA PushCounts ==
    ASSUME Types, MachineRight, AttemptsCounted, GoneAnswers, NEW x, External(x), ~up' => ~up,
           \A j \in 1..Len(x) : Live(x[j]) =>
               /\ ~up => x[j].type = "error" /\ x[j].kind = "missing"
               /\ x[j].kind = "transient" /\ x[j].type = "error" => failures' = failures + 1
    PROVE  AttemptsCounted' /\ GoneAnswers'
<1>0. /\ UNCHANGED <<machine, slot>> /\ Push(x) /\ failures \in Nat /\ failures' \in Nat
      /\ failures <= failures' /\ machine.attempts \in Nat
  BY BoundsAssumption DEF External, daemonVars, Types
<1>1. Departing => Departing'
  BY <1>0, PushShape
<1>2. ASSUME ~Departing' PROVE AttemptsOK'
  <2>1. AttemptsOK
    BY <1>1, <1>2 DEF AttemptsCounted, AttemptsOK
  <2> QED
    BY <1>0, <2>1 DEF AttemptsOK
<1>3. ASSUME ~Departing', NEW i \in 1..Len(inbox'), Live(inbox[i])',
             inbox'[i].type = "error", inbox'[i].kind = "transient"
      PROVE  machine'.attempts <= failures'
  <2>1. CASE i \in 1..Len(inbox) /\ inbox'[i] = inbox[i] /\ Live(inbox[i])
    <3>1. machine.attempts <= failures
      BY <1>1, <1>3, <2>1 DEF AttemptsCounted
    <3> QED
      BY <1>0, <3>1
  <2>2. CASE \E j \in 1..Len(x) : inbox'[i] = x[j] /\ Live(x[j])
    <3>1. PICK j \in 1..Len(x) : inbox'[i] = x[j] /\ Live(x[j])
      BY <2>2
    <3>2. failures' = failures + 1
      BY <1>3, <3>1
    <3>3. slot \in 1..sent
      BY <1>0, <1>3, <3>1, PushFacts, MessageFacts, SMTT(20) DEF Live, Types
    <3>4. machine.phase = "InFlight"
      BY <3>3 DEF MachineRight
    <3>5. machine.attempts <= failures + 1
      BY <1>1, <1>3, <3>4 DEF AttemptsCounted
    <3> QED
      BY <1>0, <3>2, <3>5
  <2> QED
    BY <1>0, <1>3, <2>1, <2>2, PushLive
<1>4. ASSUME ~Departing', ~up', NEW i \in 1..Len(inbox'), Live(inbox[i])'
      PROVE  inbox'[i].type = "error" /\ inbox'[i].kind = "missing"
  <2>1. CASE i \in 1..Len(inbox) /\ inbox'[i] = inbox[i] /\ Live(inbox[i])
    BY <1>1, <1>4, <2>1 DEF GoneAnswers
  <2>2. CASE \E j \in 1..Len(x) : inbox'[i] = x[j] /\ Live(x[j])
    BY <1>4, <2>2
  <2> QED
    BY <1>0, <1>4, <2>1, <2>2, PushLive
<1> QED
  BY <1>2, <1>3, <1>4 DEF AttemptsCounted, GoneAnswers, AttemptsOK, Live, IsReply,
                          Departing, Went
LEMMA LinePushes ==
    ASSUME Types, NEW l \in Lines, Toggle(l) \/ Unbind(l) \/ Bind(l)
    PROVE  UNCHANGED up /\ \E x : External(x) /\ \A j \in 1..Len(x) : ~IsReply(x[j])
<1>1. \A b, v : ~IsReply(Props(l, b, v)) /\ ~IsReply(Removed(l))
  BY DEF IsReply, Props, Removed
<1>2. ASSUME NEW m, External(<<m>>), ~IsReply(m)
      PROVE  \E x : External(x) /\ \A j \in 1..Len(x) : ~IsReply(x[j])
  <2>1. \A j \in 1..Len(<<m>>) : <<m>>[j] = m
    BY OneMessage
  <2> QED
    BY <1>2, <2>1
<1> DEFINE n == Props(l, "yes", -1)
           o == Props(l, "same", version[l])
<1>3. UNCHANGED up /\ \/ External(<<>>) \/ External(<<n, o>>) \/ External(<<Removed(l)>>)
                      \/ \E b, v : External(<<Props(l, b, v)>>)
  BY ToggleFacts, UnbindFacts, BindFacts
<1>4. ~IsReply(n) /\ ~IsReply(o)
  BY <1>1
<1> HIDE DEF n, o
<1>5. \A j \in 1..Len(<<n, o>>) : ~IsReply(<<n, o>>[j])
  BY <1>4, TwoMessages
<1> QED
  BY <1>1, <1>2, <1>3, <1>5, NoPush


LEMMA MonitorCounts ==
    ASSUME Types, MachineRight, AttemptsCounted, GoneAnswers, GpioMon
    PROVE  AttemptsCounted' /\ GoneAnswers'
<1>1. ASSUME NEW x, External(x), ~up' => ~up, \A j \in 1..Len(x) : ~IsReply(x[j])
      PROVE  AttemptsCounted' /\ GoneAnswers'
  BY <1>1, PushCounts DEF Live
<1>2. ASSUME NEW l \in Lines, Toggle(l) \/ Unbind(l) \/ Bind(l)
      PROVE  AttemptsCounted' /\ GoneAnswers'
  <2>1. PICK x : External(x) /\ \A j \in 1..Len(x) : ~IsReply(x[j])
    BY <1>2, LinePushes
  <2>2. UNCHANGED up
    BY <1>2, LinePushes
  <2> QED
    BY <1>1, <2>1, <2>2
<1>3. CASE AnswerCall
  <2>1. UNCHANGED up
    BY <1>3, AnswerFacts
  <2>2. PICK n \in 1..sent :
           \/ up /\ External(<<Tree(n)>>)
           \/ up /\ External(<<Error(n, "transient")>>) /\ failures' = failures + 1
           \/ ~up /\ External(<<Error(n, "missing")>>)
    BY <1>3, AnswerFacts
  <2>3. PICK m : /\ External(<<m>>) /\ (~up => m.type = "error" /\ m.kind = "missing")
                 /\ m.type = "error" /\ m.kind = "transient" => failures' = failures + 1
    <3>1. /\ Tree(n).type = "tree"
          /\ \A k : Error(n, k).type = "error" /\ Error(n, k).kind = k
      BY DEF Tree, Error
    <3> QED
      BY <2>2, <3>1
  <2>4. \A j \in 1..Len(<<m>>) : <<m>>[j] = m
    BY OneMessage
  <2> QED
    BY <2>1, <2>3, <2>4, PushCounts
<1>4. CASE Depart
  <2>1. PICK x : External(x) /\ \E j \in 1..Len(x) : x[j] = Owner(FALSE)
    BY <1>4, DepartFacts
  <2>2. Departing'
    BY <2>1, PushShape, QuietMessages DEF External
  <2> QED
    BY <2>2 DEF AttemptsCounted, GoneAnswers
<1>5. CASE Appear
  <2>1. External(<<Owner(TRUE)>>) /\ up'
    BY <1>5, AppearFacts
  <2>2. \A j \in 1..Len(<<Owner(TRUE)>>) : <<Owner(TRUE)>>[j] = Owner(TRUE)
    BY OneMessage
  <2>3. ~IsReply(Owner(TRUE))
    BY Mute
  <2> QED
    BY <1>1, <2>1, <2>2, <2>3
<1> QED
  BY <1>2, <1>3, <1>4, <1>5 DEF GpioMon

LEMMA NextCounts ==
    ASSUME Types, MachineRight, AttemptsCounted, GoneAnswers, [Next]_vars
    PROVE  AttemptsCounted' /\ GoneAnswers'
<1>1. CASE UNCHANGED vars
  <2>1. UNCHANGED <<inbox, machine, slot, failures, up>>
    BY <1>1 DEF vars, busVars, daemonVars
  <2> QED
    BY <2>1 DEF AttemptsCounted, GoneAnswers, Live, IsReply, Departing, Went
<1> QED
  BY <1>1, ProcessCounts, TimerCounts, MonitorCounts DEF Next
-----------------------------------------------------------------------------
(* What is on its way leads to the lines as they are.                      *)
LEMMA PopHome ==
    ASSUME Pop, UNCHANGED version, NEW l, NEW i \in 1..Len(inbox'), TreeLeadsHome(i + 1, l)
    PROVE  TreeLeadsHome(i, l)'
<1>1. inbox'[i] = inbox[i + 1] /\ i \in Nat
  BY PopFacts
<1>2. /\ StaysBound(i + 1, l) => StaysBound(i, l)'
      /\ GetsBound(i + 1, l) => GetsBound(i, l)'
      /\ StaysTold(i + 1, l) => StaysTold(i, l)'
      /\ GetsTold(i + 1, l) => GetsTold(i, l)'
  BY <1>1, PopSaid
<1> QED
  BY <1>1, <1>2 DEF TreeLeadsHome

(* The cache takes from the head what it says of the line.                 *)
Follows(l) ==
    /\ byPath[l].bound /\ ~Unbinds(inbox[1], l) => byPath'[l].bound
    /\ Binds(inbox[1], l) => byPath'[l].bound
    /\ byPath[l].hasValue /\ ~Tells(inbox[1], l) /\ ~Drops(inbox[1], l) =>
          byPath'[l].hasValue /\ byPath'[l].version = byPath[l].version
    /\ Tells(inbox[1], l) => byPath'[l].hasValue /\ byPath'[l].version = inbox[1].version

LEMMA PopCache ==
    ASSUME Pop, UNCHANGED version, NEW l, Follows(l), CacheLeadsHome(l)
    PROVE  CacheLeadsHome(l)'
<1>1. /\ StaysBound(0, l) => ~Unbinds(inbox[1], l) /\ StaysBound(0, l)'
      /\ GetsBound(0, l) => GetsBound(0, l)' \/ (Binds(inbox[1], l) /\ StaysBound(0, l)')
      /\ StaysTold(0, l) => /\ ~Tells(inbox[1], l) /\ ~Drops(inbox[1], l)
                            /\ StaysTold(0, l)'
      /\ GetsTold(0, l) => \/ GetsTold(0, l)'
                           \/ /\ Tells(inbox[1], l) /\ inbox[1].version = version[l]
                              /\ StaysTold(0, l)'
  BY HeadSaid
<1>2. (byPath'[l].bound /\ StaysBound(0, l)') \/ GetsBound(0, l)'
  BY <1>1 DEF CacheLeadsHome, Follows
<1>3. \/ byPath'[l].hasValue /\ byPath'[l].version = version'[l] /\ StaysTold(0, l)'
      \/ GetsTold(0, l)'
  BY <1>1 DEF CacheLeadsHome, Follows
<1> QED
  BY <1>2, <1>3 DEF CacheLeadsHome

LEMMA SignalFollows ==
    ASSUME Types, MachineRight, onPropertiesChanged \/ onInterfacesRemoved \/ DropReply,
           NEW l \in Lines
    PROVE  Follows(l)
<1>1. CASE onPropertiesChanged
  <2>0. inbox[1].type = "props"
    BY <1>1, PropsFacts
  <2>1. CASE inbox[1].line # l /\ byPath'[l] = byPath[l]
    BY <2>0, <2>1 DEF Follows, Unbinds, Binds, Tells, Drops
  <2>2. CASE inbox[1].line = l
    <3>1. /\ inbox[1].bound \in {"same", "yes", "no"}
      BY <1>1, <2>0, SignalFacts, PopFacts, MessageFacts
    <3>2. /\ byPath'[l].bound <=> (inbox[1].bound = "yes"
                                   \/ (inbox[1].bound = "same" /\ byPath[l].bound))
          /\ byPath'[l].hasValue <=> (byPath[l].hasValue \/ inbox[1].version # -1)
          /\ byPath'[l].version = IF inbox[1].version = -1 THEN byPath[l].version
                                  ELSE inbox[1].version
      BY <1>1, <2>2, PropsRow
    <3>3. /\ Binds(inbox[1], l) <=> inbox[1].bound = "yes"
          /\ Unbinds(inbox[1], l) <=> inbox[1].bound = "no"
          /\ Tells(inbox[1], l) <=> inbox[1].version # -1
          /\ ~Drops(inbox[1], l)
      BY <2>0, <2>2 DEF Unbinds, Binds, Tells, Drops
    <3>4. /\ byPath[l].bound /\ ~Unbinds(inbox[1], l) => byPath'[l].bound
          /\ Binds(inbox[1], l) => byPath'[l].bound
      BY <3>1, <3>2, <3>3
    <3>5. /\ byPath[l].hasValue /\ ~Tells(inbox[1], l) /\ ~Drops(inbox[1], l) =>
                byPath'[l].hasValue /\ byPath'[l].version = byPath[l].version
          /\ Tells(inbox[1], l) => byPath'[l].hasValue /\ byPath'[l].version = inbox[1].version
      BY <3>2, <3>3
    <3> QED
      BY <3>4, <3>5 DEF Follows
  <2> QED
    BY <1>1, <2>1, <2>2, PropsRow
<1>2. CASE onInterfacesRemoved
  BY <1>2, RemovedRow DEF Follows, Unbinds, Binds, Tells, Drops
<1>3. CASE DropReply
  <2>1. inbox[1].type \in {"tree", "error"} /\ UNCHANGED byPath
    BY <1>3, ReceivedPops DEF DropReply, daemonVars
  <2> QED
    BY <2>1 DEF Follows, Unbinds, Binds, Tells, Drops
<1> QED
  BY <1>1, <1>2, <1>3

(* A snapshot is applied.                                                  *)
LEMMA TreeCache ==
    ASSUME Types, onSnapshotReply, NEW l \in Lines, TreeLeadsHome(1, l)
    PROVE  CacheLeadsHome(l)'
<1>1. /\ inbox[1].versions \in [Lines -> Nat]
      /\ byPath'[l].bound <=> l \in inbox[1].boundLines
      /\ byPath'[l].hasValue /\ byPath'[l].version = inbox[1].versions[l]
  BY TreeFacts
<1>2. Pop /\ UNCHANGED version /\ 0 \in Nat /\ 0 + 1 = 1
  BY ReplyFacts DEF Handles, busVars
<1>3. /\ StaysBound(1, l) => StaysBound(0, l)'
      /\ GetsBound(1, l) => GetsBound(0, l)'
      /\ StaysTold(1, l) => StaysTold(0, l)'
      /\ GetsTold(1, l) => GetsTold(0, l)'
  BY <1>2, PopSaid
<1> QED
  BY <1>1, <1>2, <1>3 DEF TreeLeadsHome, CacheLeadsHome

Settled == machine.phase \in {"Idle", "Ready"} /\ ~Coming

LEMMA FreshHome ==
    ASSUME NoneLive',
           Retries /\ ~Departing' /\ up' /\ Settled' => \A l \in bound' : CacheLeadsHome(l)'
    PROVE  OnTheWay'
  BY DEF OnTheWay, NoneLive, Live, IsReply, Settled

(* A call that is started stays or is retried while gpio-mon is up.        *)
LEMMA DispatchedHome ==
    ASSUME Types, NEW n \in Nat, n <= failures, Dispatched(n), Pop \/ UNCHANGED inbox,
           UNCHANGED up
    PROVE  OnTheWay'
<1>1. NoneLive'
  BY Unanswered DEF Dispatched
<1>2. failures \in Nat /\ failures <= MaxFailures
  BY BoundsAssumption DEF Types
<1>3. Retries => n < MaxAttempts
  BY <1>2, BoundsAssumption DEF Retries
<1>4. Retries /\ up' => ~Settled'
  <2>1. machine'.phase \in {"Idle", "Ready"} => n >= MaxAttempts \/ ~up
    BY DEF Dispatched
  <2> QED
    BY <1>3, <2>1, BoundsAssumption DEF Settled
<1> QED
  BY <1>1, <1>4, FreshHome

LEMMA ProcessHome ==
    ASSUME SubscriberInv, Process PROVE OnTheWay'
<1>0. Types /\ MachineRight /\ Returns /\ AttemptsCounted /\ OnTheWay
  BY DEF SubscriberInv
<1>1. /\ Pop /\ UNCHANGED <<up, version, bound>> /\ 0 \in Nat /\ failures \in Nat
      /\ failures <= MaxFailures /\ 0 <= failures /\ machine.attempts \in Nat
      /\ 1 \in 1..Len(inbox) /\ bound \subseteq Lines
  BY <1>0, ProcessTakes, ProcessHandles, BoundsAssumption, PopFacts DEF Handles, busVars, Types
<1>2. ASSUME ~Went(inbox[1]), ~Departing' PROVE ~Departing
  BY <1>1, <1>2, PopShape
<1>3. ASSUME UNCHANGED slot, ~Went(inbox[1]),
             Retries /\ ~Departing' /\ up' /\ Settled' => \A l \in bound' : CacheLeadsHome(l)'
      PROVE  OnTheWay'
  <2> SUFFICES ASSUME Retries, ~Departing', up'
               PROVE  /\ \A i \in 1..Len(inbox') : Live(inbox[i])' =>
                            /\ inbox'[i].type = "error" /\ inbox'[i].kind = "missing" =>
                                  \E j \in 1..Len(inbox') : j > i /\ Came(inbox'[j])
                            /\ inbox'[i].type = "tree" =>
                                  \A l \in bound' : TreeLeadsHome(i, l)'
                      /\ Settled' => \A l \in bound' : CacheLeadsHome(l)'
    BY DEF OnTheWay, Settled, Live, IsReply, Came
  <2>1. ~Departing /\ up
    BY <1>1, <1>2, <1>3
  <2>2. ASSUME NEW i \in 1..Len(inbox'), Live(inbox[i])'
        PROVE  /\ inbox'[i].type = "error" /\ inbox'[i].kind = "missing" =>
                     \E j \in 1..Len(inbox') : j > i /\ Came(inbox'[j])
               /\ inbox'[i].type = "tree" => \A l \in bound' : TreeLeadsHome(i, l)'
    <3>1. i + 1 \in 1..Len(inbox) /\ inbox'[i] = inbox[i + 1] /\ Live(inbox[i + 1])
      BY <1>1, <1>3, <2>2, PopLive
    <3>2. ASSUME inbox'[i].type = "error", inbox'[i].kind = "missing"
          PROVE  \E j \in 1..Len(inbox') : j > i /\ Came(inbox'[j])
      <4>1. \E j \in 1..Len(inbox) : j > i + 1 /\ Came(inbox[j])
        BY <1>0, <2>1, <3>1, <3>2 DEF OnTheWay
      <4> QED
        BY <1>1, <4>1, PopShape
    <3>3. ASSUME inbox'[i].type = "tree", NEW l \in bound' PROVE TreeLeadsHome(i, l)'
      <4>1. TreeLeadsHome(i + 1, l)
        BY <1>0, <1>1, <2>1, <3>1, <3>3 DEF OnTheWay
      <4> QED
        BY <1>1, <4>1, PopHome
    <3> QED
      BY <3>2, <3>3
  <2> QED
    BY <1>3, <2>2
<1>4. CASE GpioPropertySubscriber
  BY <1>0, <1>1, <1>4, StartFacts, DispatchedHome
<1>5. CASE onSnapshotReply
  <2>1. slot' = 0 /\ inbox[1].type = "tree" /\ Live(inbox[1])
    BY <1>0, <1>5, ReplyFacts
  <2>2. NoneLive'
    BY <1>0, <1>1, <2>1, Unanswered
  <2>3. ASSUME Retries, ~Departing', up', NEW l \in bound' PROVE CacheLeadsHome(l)'
    <3>1. ~Departing
      BY <1>2, <2>1, <2>3 DEF Went
    <3>2. TreeLeadsHome(1, l) /\ l \in Lines
      BY <1>0, <1>1, <2>1, <2>3, <3>1 DEF OnTheWay
    <3> QED
      BY <1>0, <1>5, <3>2, TreeCache
  <2> QED
    BY <2>2, <2>3, FreshHome
<1>6. CASE onSnapshotError
  <2>1. /\ inbox[1].type = "error" /\ Live(inbox[1]) /\ slot' = 0
        /\ \/ inbox[1].kind = "missing"
           \/ /\ inbox[1].kind = "transient"
              /\ \/ machine'.phase = "RetryWait"
                 \/ machine.attempts >= MaxAttempts
    BY <1>0, <1>6, ErrorFacts
  <2>2. NoneLive'
    BY <1>0, <1>1, <2>1, Unanswered
  <2>3. ASSUME Retries, ~Departing', up' PROVE ~Settled'
    <3>1. ~Departing /\ up
      BY <1>1, <1>2, <2>1, <2>3 DEF Went
    <3>2. CASE inbox[1].kind = "missing"
      <4>1. \E j \in 1..Len(inbox) : j > 1 /\ Came(inbox[j])
        BY <1>0, <1>1, <2>1, <2>3, <3>1, <3>2 DEF OnTheWay
      <4> QED
        BY <1>1, <4>1, PopShape DEF Settled
    <3>3. CASE inbox[1].kind = "transient"
      <4>1. machine.attempts <= failures
        BY <1>0, <1>1, <2>1, <3>1, <3>3 DEF AttemptsCounted
      <4>2. machine.attempts < MaxAttempts
        BY <1>1, <2>3, <4>1, BoundsAssumption DEF Retries
      <4>3. machine'.phase = "RetryWait"
        BY <1>1, <2>1, <3>3, <4>2, BoundsAssumption
      <4> QED
        BY <4>3 DEF Settled
    <3> QED
      BY <2>1, <3>2, <3>3
  <2> QED
    BY <2>2, <2>3, FreshHome
<1>7. CASE onNameOwnerChanged
  <2>1. CASE Dispatched(0)
    BY <1>0, <1>1, <2>1, DispatchedHome
  <2>2. CASE Came(inbox[1]) /\ UNCHANGED slot /\ machine'.phase = "InFlight"
    <3>1. ~Went(inbox[1]) /\ ~Settled'
      BY <2>2 DEF Came, Went, Settled
    <3> QED
      BY <1>3, <2>2, <3>1
  <2>3. CASE Went(inbox[1]) /\ slot' = 0
    <3>1. NoneLive'
      BY <1>0, <1>1, <2>3, Unanswered
    <3>2. up' => Coming'
      <4>1. up => \E j \in 1..Len(inbox) : j > 1 /\ Came(inbox[j])
        BY <1>0, <1>1, <2>3 DEF Returns
      <4> QED
        BY <1>1, <4>1, PopShape
    <3>3. up' => ~Settled'
      BY <3>2 DEF Settled
    <3> QED
      BY <3>1, <3>3, FreshHome
  <2> QED
    BY <1>0, <1>7, <2>1, <2>2, <2>3, OwnerFacts
<1>8. CASE onPropertiesChanged \/ onInterfacesRemoved \/ DropReply
  <2>1. /\ UNCHANGED <<machine, slot>>
        /\ inbox[1].type \in {"props", "removed", "tree", "error"}
    BY <1>0, <1>8, SignalFacts
  <2>2. ~Went(inbox[1]) /\ ~Came(inbox[1]) /\ inbox[1].type # "start"
    BY <2>1 DEF Went, Came
  <2>3. ASSUME Retries, ~Departing', up', Settled', NEW l \in bound' PROVE CacheLeadsHome(l)'
    <3>1. ~Departing /\ up /\ ~Coming /\ machine.phase \in {"Idle", "Ready"}
      BY <1>1, <1>2, <2>1, <2>2, <2>3, PopShape DEF Settled
    <3>2. CacheLeadsHome(l) /\ l \in Lines
      BY <1>0, <1>1, <2>3, <3>1 DEF OnTheWay
    <3>3. Follows(l)
      BY <1>0, <1>8, <3>2, SignalFollows
    <3> QED
      BY <1>1, <3>2, <3>3, PopCache
  <2> QED
    BY <1>3, <2>1, <2>2, <2>3
<1> QED
  BY <1>4, <1>5, <1>6, <1>7, <1>8 DEF Process

LEMMA TimerHome ==
    ASSUME SubscriberInv, CallTimeout \/ retryTimerCb PROVE OnTheWay'
<1>0. Types /\ MachineRight /\ AttemptsCounted
  BY DEF SubscriberInv
<1>1. /\ failures \in Nat /\ failures <= MaxFailures /\ machine.attempts \in Nat
      /\ UNCHANGED inbox /\ UNCHANGED up
  BY <1>0, BoundsAssumption, TimeoutFacts, RetryFacts DEF Types, Handles, busVars
<1>2. Departing' <=> Departing
  BY <1>1 DEF Departing, Went
<1>3. CASE CallTimeout
  <2>1. /\ slot # 0 /\ slot' = 0 /\ failures < MaxFailures
        /\ \/ machine'.phase = "RetryWait"
           \/ machine.attempts >= MaxAttempts
    BY <1>0, <1>3, TimeoutFacts
  <2>2. machine.phase = "InFlight"
    BY <1>0, <2>1 DEF MachineRight
  <2>3. NoneLive'
    BY <1>0, <1>1, <2>1, Unanswered
  <2>4. ASSUME Retries, ~Departing' PROVE ~Settled'
    <3>1. machine.attempts <= failures + 1
      BY <1>0, <1>2, <2>2, <2>4 DEF AttemptsCounted
    <3>2. machine.attempts < MaxAttempts
      BY <1>1, <2>1, <2>4, <3>1, BoundsAssumption DEF Retries
    <3>3. machine'.phase = "RetryWait"
      BY <1>1, <2>1, <3>2, BoundsAssumption
    <3> QED
      BY <3>3 DEF Settled
  <2> QED
    BY <2>3, <2>4, FreshHome
<1>4. CASE retryTimerCb
  <2>1. machine.phase = "RetryWait" /\ Dispatched(machine.attempts)
    BY <1>0, <1>4, RetryFacts
  <2>2. CASE Departing
    BY <1>2, <2>2 DEF OnTheWay
  <2>3. CASE ~Departing
    <3>1. machine.attempts <= failures
      BY <1>0, <2>1, <2>3 DEF AttemptsCounted
    <3> QED
      BY <1>0, <1>1, <2>1, <3>1, DispatchedHome
  <2> QED
    BY <2>2, <2>3
<1> QED
  BY <1>3, <1>4

(* What is pushed carries a line: it leaves it bound, or says last that it *)
(* is; it leaves its level, or says it last.                               *)
SaysBound(x, l) == \E j \in 1..Len(x) : Binds(x[j], l) /\ \A k \in 1..Len(x) : k > j => ~Unbinds(x[k], l)
SaysLevel(x, l) ==
    \E j \in 1..Len(x) : /\ Tells(x[j], l) /\ x[j].version = version'[l]
                         /\ \A k \in 1..Len(x) : k > j => ~Tells(x[k], l) /\ ~Drops(x[k], l)
Carries(x, l) ==
    /\ SaysBound(x, l) \/ (l \in bound /\ \A j \in 1..Len(x) : ~Unbinds(x[j], l))
    /\ \/ SaysLevel(x, l)
       \/ /\ l \in bound /\ version'[l] = version[l]
          /\ \A j \in 1..Len(x) : ~Tells(x[j], l) /\ ~Drops(x[j], l)

LEMMA PushCarries ==
    ASSUME NEW x, Push(x), NEW l, Carries(x, l), NEW i \in 0..Len(inbox)
    PROVE  /\ GetsBound(i, l)' \/ (l \in bound /\ (StaysBound(i, l) => StaysBound(i, l)')
                                               /\ (GetsBound(i, l) => GetsBound(i, l)'))
           /\ GetsTold(i, l)' \/ (/\ l \in bound /\ version'[l] = version[l]
                                  /\ StaysTold(i, l) => StaysTold(i, l)'
                                  /\ GetsTold(i, l) => GetsTold(i, l)')
<1>1. ASSUME SaysBound(x, l) PROVE GetsBound(i, l)'
  <2>1. PICK j \in 1..Len(x) :
           Binds(x[j], l) /\ \A k \in 1..Len(x) : k > j => ~Unbinds(x[k], l)
    BY <1>1 DEF SaysBound
  <2> QED
    BY <2>1, PushBound
<1>2. ASSUME SaysLevel(x, l) PROVE GetsTold(i, l)'
  <2>1. PICK j \in 1..Len(x) :
           /\ Tells(x[j], l) /\ x[j].version = version'[l]
           /\ \A k \in 1..Len(x) : k > j => ~Tells(x[k], l) /\ ~Drops(x[k], l)
    BY <1>2 DEF SaysLevel
  <2> QED
    BY <2>1, PushTold
<1>3. ASSUME ~SaysBound(x, l)
      PROVE  l \in bound /\ (StaysBound(i, l) => StaysBound(i, l)')
                         /\ (GetsBound(i, l) => GetsBound(i, l)')
  BY <1>3, PushSaid DEF Carries
<1>4. ASSUME ~SaysLevel(x, l)
      PROVE  /\ l \in bound /\ version'[l] = version[l]
             /\ StaysTold(i, l) => StaysTold(i, l)'
             /\ GetsTold(i, l) => GetsTold(i, l)'
  BY <1>4, PushSaid DEF Carries
<1> QED
  BY <1>1, <1>2, <1>3, <1>4

LEMMA PushHome ==
    ASSUME OnTheWay, NEW x, External(x), UNCHANGED up, up => \A l \in bound' : Carries(x, l),
           \A i \in 1..Len(inbox') : up /\ i \notin 1..Len(inbox) /\ Live(inbox[i])' =>
               /\ ~(inbox'[i].type = "error" /\ inbox'[i].kind = "missing")
               /\ inbox'[i].type = "tree" => \A l \in bound' : TreeLeadsHome(i, l)'
    PROVE  OnTheWay'
<1>0. UNCHANGED <<machine, slot, byPath>> /\ Push(x)
  BY DEF External, daemonVars
<1> SUFFICES ASSUME Retries, ~Departing', up'
             PROVE  /\ \A i \in 1..Len(inbox') : Live(inbox[i])' =>
                          /\ inbox'[i].type = "error" /\ inbox'[i].kind = "missing" =>
                                \E j \in 1..Len(inbox') : j > i /\ Came(inbox'[j])
                          /\ inbox'[i].type = "tree" =>
                                \A l \in bound' : TreeLeadsHome(i, l)'
                    /\ Settled' => \A l \in bound' : CacheLeadsHome(l)'
  BY DEF OnTheWay, Settled, Live, IsReply, Came
<1>1. ~Departing /\ up /\ (Settled' => Settled)
  BY <1>0, PushShape DEF Settled
<1>2. Len(inbox) \in Nat
  BY <1>0, PushFacts
<1>3. ASSUME NEW l \in bound', NEW i \in 1..Len(inbox), l \in bound => TreeLeadsHome(i, l)
      PROVE  TreeLeadsHome(i, l)'
  <2>1. i \in 0..Len(inbox) /\ inbox'[i] = inbox[i] /\ Carries(x, l)
    BY <1>0, <1>1, <1>2, PushFacts
  <2>2. /\ GetsBound(i, l)' \/ (l \in bound /\ (StaysBound(i, l) => StaysBound(i, l)')
                                            /\ (GetsBound(i, l) => GetsBound(i, l)'))
        /\ GetsTold(i, l)' \/ (/\ l \in bound /\ version'[l] = version[l]
                               /\ StaysTold(i, l) => StaysTold(i, l)'
                               /\ GetsTold(i, l) => GetsTold(i, l)')
    BY <1>0, <2>1, PushCarries
  <2> QED
    BY <1>3, <2>1, <2>2 DEF TreeLeadsHome
<1>4. ASSUME NEW l \in bound', l \in bound => CacheLeadsHome(l) PROVE CacheLeadsHome(l)'
  <2>1. 0 \in 0..Len(inbox) /\ Carries(x, l)
    BY <1>1, <1>2
  <2>2. /\ GetsBound(0, l)' \/ (l \in bound /\ (StaysBound(0, l) => StaysBound(0, l)')
                                            /\ (GetsBound(0, l) => GetsBound(0, l)'))
        /\ GetsTold(0, l)' \/ (/\ l \in bound /\ version'[l] = version[l]
                               /\ StaysTold(0, l) => StaysTold(0, l)'
                               /\ GetsTold(0, l) => GetsTold(0, l)')
    BY <1>0, <2>1, PushCarries
  <2> QED
    BY <1>0, <1>4, <2>2 DEF CacheLeadsHome
<1>5. ASSUME NEW i \in 1..Len(inbox'), Live(inbox[i])', i \in 1..Len(inbox)
      PROVE  /\ inbox'[i].type = "error" /\ inbox'[i].kind = "missing" =>
                   \E j \in 1..Len(inbox') : j > i /\ Came(inbox'[j])
             /\ inbox'[i].type = "tree" => \A l \in bound' : TreeLeadsHome(i, l)'
  <2>1. inbox'[i] = inbox[i] /\ Live(inbox[i])
    BY <1>0, <1>5, PushLive
  <2>2. ASSUME inbox'[i].type = "error", inbox'[i].kind = "missing"
        PROVE  \E j \in 1..Len(inbox') : j > i /\ Came(inbox'[j])
    <3>1. \E j \in 1..Len(inbox) : j > i /\ Came(inbox[j])
      BY <1>1, <1>5, <2>1, <2>2 DEF OnTheWay
    <3> QED
      BY <1>0, <1>5, <3>1, PushShape
  <2>3. ASSUME inbox'[i].type = "tree", NEW l \in bound' PROVE TreeLeadsHome(i, l)'
    <3>1. l \in bound => TreeLeadsHome(i, l)
      BY <1>1, <1>5, <2>1, <2>3 DEF OnTheWay
    <3> QED
      BY <1>3, <1>5, <3>1
  <2> QED
    BY <2>2, <2>3
<1>6. ASSUME Settled', NEW l \in bound' PROVE CacheLeadsHome(l)'
  <2>1. l \in bound => CacheLeadsHome(l)
    BY <1>1, <1>6 DEF OnTheWay, Settled
  <2> QED
    BY <1>4, <2>1
<1> QED
  BY <1>1, <1>5, <1>6

(* What the messages say of a line.                                        *)
LEMMA Sayings ==
    /\ \A k, b, v, l : /\ Binds(Props(k, b, v), l) <=> (k = l /\ b = "yes")
                       /\ Unbinds(Props(k, b, v), l) <=> (k = l /\ b = "no")
                       /\ Tells(Props(k, b, v), l) <=> (k = l /\ v # -1)
                       /\ ~Drops(Props(k, b, v), l) /\ Props(k, b, v).version = v
    /\ \A k, l : k # l => /\ ~Unbinds(Removed(k), l) /\ ~Tells(Removed(k), l)
                          /\ ~Drops(Removed(k), l)
    /\ \A n, l : ~Unbinds(Tree(n), l) /\ ~Tells(Tree(n), l) /\ ~Drops(Tree(n), l)
    /\ \A n, k, l : ~Unbinds(Error(n, k), l) /\ ~Tells(Error(n, k), l) /\ ~Drops(Error(n, k), l)
<1>1. \A k, b, v, l : /\ Binds(Props(k, b, v), l) <=> (k = l /\ b = "yes")
                      /\ Unbinds(Props(k, b, v), l) <=> (k = l /\ b = "no")
                      /\ Tells(Props(k, b, v), l) <=> (k = l /\ v # -1)
                      /\ ~Drops(Props(k, b, v), l) /\ Props(k, b, v).version = v
  BY DEF Binds, Unbinds, Tells, Drops, Props
<1>2. \A k, l : k # l => /\ ~Unbinds(Removed(k), l) /\ ~Tells(Removed(k), l)
                         /\ ~Drops(Removed(k), l)
  BY DEF Unbinds, Tells, Drops, Removed
<1>3. /\ \A n, l : ~Unbinds(Tree(n), l) /\ ~Tells(Tree(n), l) /\ ~Drops(Tree(n), l)
      /\ \A n, k, l : /\ ~Unbinds(Error(n, k), l) /\ ~Tells(Error(n, k), l)
                      /\ ~Drops(Error(n, k), l)
  BY DEF Unbinds, Tells, Drops, Tree, Error
<1> QED
  BY <1>1, <1>2, <1>3

LEMMA OneCarries ==
    ASSUME NEW m, NEW l, Binds(m, l) \/ (l \in bound /\ ~Unbinds(m, l)),
           \/ Tells(m, l) /\ m.version = version'[l]
           \/ l \in bound /\ version'[l] = version[l] /\ ~Tells(m, l) /\ ~Drops(m, l)
    PROVE  Carries(<<m>>, l)
<1> DEFINE x == <<m>>
<1>1. /\ Len(x) = 1 /\ x[1] = m /\ 1 \in 1..Len(x) /\ \A j \in 1..Len(x) : ~(j > 1) /\ x[j] = m
  OBVIOUS
<1> HIDE DEF x
<1>2. SaysBound(x, l) \/ (l \in bound /\ \A j \in 1..Len(x) : ~Unbinds(x[j], l))
  BY <1>1 DEF SaysBound
<1>3. \/ SaysLevel(x, l)
      \/ /\ l \in bound /\ version'[l] = version[l]
         /\ \A j \in 1..Len(x) : ~Tells(x[j], l) /\ ~Drops(x[j], l)
  BY <1>1 DEF SaysLevel
<1>4. Carries(x, l)
  BY <1>2, <1>3 DEF Carries
<1> QED
  BY <1>4 DEF x

LEMMA NoneCarries ==
    ASSUME NEW l \in bound, version'[l] = version[l] PROVE Carries(<<>>, l)
  BY NoPush DEF Carries

LEMMA TwoCarry ==
    ASSUME NEW m, NEW n, NEW l,
           \/ Binds(m, l) /\ Tells(n, l) /\ ~Unbinds(n, l) /\ n.version = version'[l]
           \/ /\ l \in bound /\ version'[l] = version[l] /\ ~Unbinds(m, l) /\ ~Unbinds(n, l)
              /\ ~Tells(m, l) /\ ~Drops(m, l) /\ ~Tells(n, l) /\ ~Drops(n, l)
    PROVE  Carries(<<m, n>>, l)
<1> DEFINE x == <<m, n>>
<1>1. /\ x[1] = m /\ x[2] = n /\ 1 \in 1..Len(x) /\ 2 \in 1..Len(x)
      /\ \A j \in 1..Len(x) : j = 1 \/ j = 2
  BY TwoMessages
<1> HIDE DEF x
<1>2. SaysBound(x, l) \/ (l \in bound /\ \A j \in 1..Len(x) : ~Unbinds(x[j], l))
  BY <1>1 DEF SaysBound
<1>3. \/ SaysLevel(x, l)
      \/ /\ l \in bound /\ version'[l] = version[l]
         /\ \A j \in 1..Len(x) : ~Tells(x[j], l) /\ ~Drops(x[j], l)
  BY <1>1 DEF SaysLevel
<1>4. Carries(x, l)
  BY <1>2, <1>3 DEF Carries
<1> QED
  BY <1>4 DEF x

(* A step that pushes no reply.                                            *)
LEMMA SignalHome ==
    ASSUME OnTheWay, NEW x, External(x), UNCHANGED up, up => \A l \in bound' : Carries(x, l),
           \A j \in 1..Len(x) : ~IsReply(x[j])
    PROVE  OnTheWay'
<1>1. UNCHANGED slot /\ Push(x)
  BY DEF External, daemonVars
<1>2. \A i \in 1..Len(inbox') : Live(inbox[i])' => i \in 1..Len(inbox)
  BY <1>1, PushLive DEF Live
<1> QED
  BY <1>2, PushHome

LEMMA MonitorHome ==
    ASSUME SubscriberInv, GpioMon PROVE OnTheWay'
<1>0. Types /\ GoneAnswers /\ OnTheWay /\ bound \subseteq Lines /\ version \in [Lines -> Nat]
  BY DEF SubscriberInv, Types
<1>1. /\ \A m : \A j \in 1..Len(<<m>>) : <<m>>[j] = m
      /\ \A m, n : \A j \in 1..Len(<<m, n>>) : <<m, n>>[j] = m \/ <<m, n>>[j] = n
  BY OneMessage, TwoMessages
<1>2. ASSUME NEW m, External(<<m>>), UNCHANGED up, ~IsReply(m),
             up => \A l \in bound' : Carries(<<m>>, l)
      PROVE  OnTheWay'
  <2>1. \A j \in 1..Len(<<m>>) : ~IsReply(<<m>>[j])
    BY <1>1, <1>2
  <2> QED
    BY <1>0, <1>2, <2>1, SignalHome
<1>3. ASSUME External(<<>>), UNCHANGED up, up => \A l \in bound' : Carries(<<>>, l)
      PROVE  OnTheWay'
  BY <1>0, <1>3, NoPush, SignalHome
<1>4. \A k, b, v : ~IsReply(Props(k, b, v)) /\ ~IsReply(Removed(k))
  BY DEF IsReply, Props, Removed
<1>5. ASSUME NEW k \in Lines, Toggle(k) PROVE OnTheWay'
  <2> DEFINE m == Props(k, "same", version[k] + 1)
  <2>1. /\ version' = [version EXCEPT ![k] = version[k] + 1] /\ UNCHANGED <<up, bound>>
        /\ \/ External(<<>>) /\ ~(up /\ k \in bound)
           \/ External(<<m>>)
    BY <1>0, <1>5, ToggleFacts
  <2>2. /\ version'[k] = version[k] + 1 /\ version[k] + 1 # -1
        /\ \A l \in bound : l # k => version'[l] = version[l]
    BY <1>0, <2>1
  <2>3. /\ ~Unbinds(m, k) /\ Tells(m, k) /\ m.version = version'[k]
        /\ \A l : l # k => ~Unbinds(m, l) /\ ~Tells(m, l) /\ ~Drops(m, l)
    BY <2>2, Sayings
  <2>4. ~IsReply(m)
    BY <1>4
  <2> HIDE DEF m
  <2>5. \A l \in bound : Carries(<<m>>, l)
    BY <2>2, <2>3, OneCarries
  <2>6. CASE External(<<>>) /\ ~(up /\ k \in bound)
    BY <1>3, <2>1, <2>2, <2>6, NoneCarries
  <2>7. CASE External(<<m>>)
    BY <1>2, <2>1, <2>4, <2>5, <2>7
  <2> QED
    BY <2>1, <2>6, <2>7
<1>6. ASSUME NEW k \in Lines, Unbind(k) PROVE OnTheWay'
  <2>1. /\ UNCHANGED <<up, version>> /\ bound' = bound \ {k}
        /\ \/ External(<<>>) /\ ~up
           \/ \E m : External(<<m>>) /\ m \in {Props(k, "no", -1), Removed(k)}
    BY <1>0, <1>6, UnbindFacts
  <2>2. ASSUME NEW m \in {Props(k, "no", -1), Removed(k)}, NEW l \in bound'
        PROVE  Carries(<<m>>, l)
    <3>1. l \in bound /\ l # k /\ version'[l] = version[l]
      BY <2>1
    <3>2. ~Unbinds(m, l) /\ ~Tells(m, l) /\ ~Drops(m, l)
      BY <2>2, <3>1, Sayings
    <3> QED
      BY <3>1, <3>2, OneCarries
  <2> QED
    BY <1>2, <1>3, <1>4, <2>1, <2>2
<1>7. ASSUME NEW k \in Lines, Bind(k) PROVE OnTheWay'
  <2> DEFINE m == Props(k, "yes", version[k])
             n == Props(k, "yes", -1)
             o == Props(k, "same", version[k])
  <2>1. /\ UNCHANGED <<up, version>> /\ bound' = bound \cup {k}
        /\ \/ External(<<>>) /\ ~up
           \/ External(<<m>>)
           \/ External(<<n, o>>)
    BY <1>0, <1>7, BindFacts
  <2>2. version[k] # -1
    BY <1>0
  <2>3. /\ Binds(m, k) /\ Tells(m, k) /\ m.version = version[k]
        /\ Binds(n, k) /\ Tells(o, k) /\ ~Unbinds(o, k) /\ o.version = version[k]
    BY <2>2, Sayings
  <2>4. \A l : l # k => /\ ~Unbinds(m, l) /\ ~Tells(m, l) /\ ~Drops(m, l)
                        /\ ~Unbinds(n, l) /\ ~Tells(n, l) /\ ~Drops(n, l)
                        /\ ~Unbinds(o, l) /\ ~Tells(o, l) /\ ~Drops(o, l)
    BY Sayings
  <2>5. ~IsReply(m) /\ ~IsReply(n) /\ ~IsReply(o)
    BY <1>4
  <2> HIDE DEF m, n, o
  <2>6. ASSUME NEW l \in bound' PROVE Carries(<<m>>, l)
    <3>1. CASE l = k
      BY <2>1, <2>3, <3>1, OneCarries
    <3>2. CASE l # k
      BY <2>1, <2>4, <3>2, OneCarries
    <3> QED
      BY <3>1, <3>2
  <2>7. ASSUME NEW l \in bound' PROVE Carries(<<n, o>>, l)
    <3>1. CASE l = k
      BY <2>1, <2>3, <3>1, TwoCarry
    <3>2. CASE l # k
      BY <2>1, <2>4, <3>2, TwoCarry
    <3> QED
      BY <3>1, <3>2
  <2>8. CASE External(<<n, o>>)
    <3>1. \A j \in 1..Len(<<n, o>>) : ~IsReply(<<n, o>>[j])
      BY <1>1, <2>5
    <3> QED
      BY <1>0, <2>1, <2>7, <2>8, <3>1, SignalHome
  <2>9. CASE External(<<m>>)
    BY <1>2, <2>1, <2>5, <2>6, <2>9
  <2>10. CASE External(<<>>) /\ ~up
    BY <1>3, <2>1, <2>10
  <2> QED
    BY <2>1, <2>8, <2>9, <2>10
<1>8. CASE AnswerCall
  <2>1. UNCHANGED <<up, version, bound>>
    BY <1>0, <1>8, AnswerFacts
  <2>2. CASE ~up
    BY <2>1, <2>2 DEF OnTheWay
  <2>3. CASE up
    <3>1. PICK n \in 1..sent :
             External(<<Tree(n)>>) \/ External(<<Error(n, "transient")>>)
      BY <1>0, <1>8, <2>3, AnswerFacts
    <3>2. PICK m : /\ External(<<m>>) /\ m \in {Tree(n), Error(n, "transient")}
      BY <3>1
    <3>3. \A l \in bound' : Carries(<<m>>, l)
      <4>1. \A l : ~Unbinds(m, l) /\ ~Tells(m, l) /\ ~Drops(m, l)
        BY <3>2, Sayings
      <4> QED
        BY <2>1, <4>1, OneCarries
    <3>4. /\ ~(m.type = "error" /\ m.kind = "missing")
          /\ m.type = "tree" => m.boundLines = bound /\ m.versions = version
      BY <3>2 DEF Tree, Error
    <3>5. ASSUME NEW i \in 1..Len(inbox'), i \notin 1..Len(inbox)
          PROVE  inbox'[i] = m /\ \A k \in 1..Len(inbox') : ~(k > i)
      <4>1. Push(<<m>>) /\ Len(<<m>>) = 1
        BY <3>2 DEF External
      <4>2. Len(inbox) \in Nat /\ Len(inbox') = Len(inbox) + 1
        BY <4>1, PushFacts
      <4>3. \A k \in 1..Len(inbox') : ~(k > i)
        BY <3>5, <4>2
      <4>4. i - Len(inbox) \in 1..1 /\ inbox'[i] = <<m>>[i - Len(inbox)]
        <5>1. i - Len(inbox) \in 1..Len(<<m>>) /\ inbox'[i] = <<m>>[i - Len(inbox)]
          BY <3>5, <4>1, PushFacts
        <5> QED
          BY <4>1, <5>1
      <4>5. i - Len(inbox) = 1
        BY <4>2, <4>4
      <4> QED
        BY <4>3, <4>4, <4>5
    <3>6. ASSUME NEW i \in 1..Len(inbox'), i \notin 1..Len(inbox), inbox'[i].type = "tree",
                 NEW l \in bound'
          PROVE  TreeLeadsHome(i, l)'
      <4>1. StaysBound(i, l)' /\ StaysTold(i, l)'
        BY <3>5, <3>6 DEF StaysBound, StaysTold
      <4>2. l \in inbox'[i].boundLines /\ inbox'[i].versions[l] = version'[l]
        BY <2>1, <3>4, <3>5, <3>6
      <4> QED
        BY <4>1, <4>2 DEF TreeLeadsHome
    <3>7. \A i \in 1..Len(inbox') : up /\ i \notin 1..Len(inbox) /\ Live(inbox[i])' =>
               /\ ~(inbox'[i].type = "error" /\ inbox'[i].kind = "missing")
               /\ inbox'[i].type = "tree" => \A l \in bound' : TreeLeadsHome(i, l)'
      BY <3>4, <3>5, <3>6
    <3> QED
      BY <1>0, <2>1, <3>2, <3>3, <3>7, PushHome
  <2> QED
    BY <1>0, <2>2, <2>3 DEF Types
<1>9. CASE Depart
  <2>1. up' = FALSE
    BY <1>0, <1>9, DepartFacts
  <2> QED
    BY <2>1 DEF OnTheWay
<1>10. CASE Appear
  <2> DEFINE x == <<Owner(TRUE)>>
  <2>1. External(x) /\ ~up
    BY <1>0, <1>10, AppearFacts
  <2>2. Len(x) = 1 /\ x[1] = Owner(TRUE)
    OBVIOUS
  <2>3. Came(Owner(TRUE)) /\ ~Went(Owner(TRUE)) /\ ~IsReply(Owner(TRUE))
    BY QuietMessages, Mute DEF Came, Went
  <2>4. \A j \in 1..Len(x) : x[j] = Owner(TRUE)
    BY <1>1
  <2> HIDE DEF x
  <2>5. 1 \in 1..Len(x)
    BY <2>2
  <2>6. Push(x) /\ UNCHANGED slot
    BY <2>1 DEF External, daemonVars
  <2>7. \E j \in 1..Len(x) : Came(x[j])
    BY <2>2, <2>3, <2>5
  <2>8. Coming' /\ (~Departing' => ~Departing)
    BY <2>6, <2>7, PushShape
  <2>9. ASSUME NEW i \in 1..Len(inbox'), Live(inbox[i])', ~Departing'
        PROVE  /\ \E j \in 1..Len(inbox') : j > i /\ Came(inbox'[j])
               /\ inbox'[i].type # "tree"
    <3>1. i \in 1..Len(inbox) /\ inbox'[i] = inbox[i] /\ Live(inbox[i])
      <4>1. \A j \in 1..Len(x) : ~Live(x[j])
        BY <2>3, <2>4 DEF Live
      <4> QED
        BY <2>6, <2>9, <4>1, PushLive
    <3>2. inbox[i].type = "error"
      BY <1>0, <2>1, <2>8, <2>9, <3>1 DEF GoneAnswers
    <3> QED
      BY <2>6, <2>7, <3>1, <3>2, PushShape
  <2> QED
    BY <2>8, <2>9 DEF OnTheWay, Live, IsReply, Came
<1> QED
  BY <1>5, <1>6, <1>7, <1>8, <1>9, <1>10 DEF GpioMon

LEMMA NextHome ==
    ASSUME SubscriberInv, [Next]_vars PROVE OnTheWay'
<1>1. CASE UNCHANGED vars
  <2>1. UNCHANGED <<inbox, machine, slot, up, version, bound, byPath>>
    BY <1>1 DEF vars, busVars, daemonVars
  <2>2. \A i, l : /\ StaysBound(i, l)' <=> StaysBound(i, l)
                  /\ StaysTold(i, l)' <=> StaysTold(i, l)
    BY <2>1 DEF StaysBound, StaysTold, Unbinds, Tells, Drops
  <2>3. \A i, l : /\ GetsBound(i, l)' <=> GetsBound(i, l)
                  /\ GetsTold(i, l)' <=> GetsTold(i, l)
    BY <2>1, <2>2 DEF GetsBound, GetsTold, Binds, Tells
  <2>4. \A i, l : /\ TreeLeadsHome(i, l)' <=> TreeLeadsHome(i, l)
                  /\ CacheLeadsHome(l)' <=> CacheLeadsHome(l)
    BY <2>1, <2>2, <2>3 DEF TreeLeadsHome, CacheLeadsHome
  <2>5. (Coming' <=> Coming) /\ (Departing' <=> Departing)
    BY <2>1 DEF Coming, Departing, Came, Went
  <2> QED
    BY <2>1, <2>4, <2>5 DEF SubscriberInv, OnTheWay, Live, IsReply, Came
<1> QED
  BY <1>1, ProcessHome, TimerHome, MonitorHome DEF Next
-----------------------------------------------------------------------------
LEMMA SubscriberInit == Init => SubscriberInv
<1> SUFFICES ASSUME Init PROVE SubscriberInv
  OBVIOUS
<1>1. /\ up \in BOOLEAN /\ version = [l \in Lines |-> 0] /\ bound \subseteq Lines
      /\ requests = <<>> /\ inbox = <<Start>> /\ byPath = [l \in Lines |-> NoLine]
      /\ machine = [phase |-> "Idle", attempts |-> 0, everReady |-> FALSE]
      /\ slot = 0 /\ retryTimer = FALSE /\ injected = [l \in Lines |-> -1]
      /\ sent = 0 /\ outages = 0 /\ failures = 0
  BY DEF Init
<1>2. Start \in Messages /\ Start.type = "start"
  BY DEF Start, Messages
<1>3. Len(inbox) = 1 /\ inbox[1] = Start /\ inbox \in Seq(Messages) /\ 1 \in 1..Len(inbox)
      /\ \A i \in 1..Len(inbox) : i = 1
  BY <1>1, <1>2
<1>4. /\ ~IsReply(Start) /\ ~Went(Start) /\ \A l : ~Speaks(Start, l)
  BY <1>2 DEF IsReply, Went, Speaks, Tells
<1>5. /\ machine.phase = "Idle" /\ machine.attempts = 0
      /\ machine \in [phase: Phases, attempts: Nat, everReady: BOOLEAN]
  BY <1>1 DEF Phases
<1>6. /\ byPath \in [Lines -> Cached] /\ injected \in [Lines -> Nat \cup {-1}]
      /\ version \in [Lines -> Nat] /\ requests \in Seq(1..sent) /\ slot \in 0..sent
      /\ failures \in 0..MaxFailures /\ retryTimer \in BOOLEAN
      /\ sent \in Nat /\ outages \in Nat
  <2>1. byPath \in [Lines -> Cached]
    BY <1>1, NoLineFacts
  <2>2. injected \in [Lines -> Nat \cup {-1}] /\ version \in [Lines -> Nat]
    BY <1>1
  <2>3. requests \in Seq(1..sent)
    BY <1>1
  <2>4. slot \in 0..sent /\ failures \in 0..MaxFailures /\ sent \in Nat /\ outages \in Nat
    BY <1>1, BoundsAssumption
  <2>5. retryTimer \in BOOLEAN
    BY <1>1
  <2> QED
    BY <2>1, <2>2, <2>3, <2>4, <2>5
<1>7. Types
  BY <1>1, <1>3, <1>4, <1>5, <1>6 DEF Types, Cached
<1>8. InOrder /\ CacheInjected
  <2>1. \A l \in Lines : injected[l] = -1 /\ version[l] = 0 /\ ~byPath[l].hasValue
    BY <1>1, NoLineFacts
  <2>2. \A i \in 1..Len(inbox) : \A l : ~Speaks(inbox[i], l)
    BY <1>3, <1>4
  <2>0. -1 <= 0
    OBVIOUS
  <2>3. ASSUME NEW l \in Lines PROVE injected[l] <= version[l]
    <3>1. injected[l] = -1 /\ version[l] = 0
      BY <2>1
    <3> QED
      BY <2>0, <3>1
  <2>4. InOrder
    BY <2>1, <2>2, <2>3 DEF InOrder
  <2>5. CacheInjected
    BY <2>1 DEF CacheInjected, decideInject
  <2> QED
    BY <2>4, <2>5
<1>9. ~Departing /\ Coming /\ NoneLive
  BY <1>2, <1>3, <1>4 DEF Departing, Coming, NoneLive, Live
<1>10. MachineRight
  BY <1>1, <1>3, <1>5 DEF MachineRight
<1>11. Returns /\ AttemptsCounted /\ GoneAnswers /\ OnTheWay
  BY <1>5, <1>9 DEF Returns, AttemptsCounted, GoneAnswers, OnTheWay, Departing, NoneLive
<1> QED
  BY <1>7, <1>8, <1>10, <1>11 DEF SubscriberInv

LEMMA SubscriberStep == ASSUME SubscriberInv, [Next]_vars PROVE SubscriberInv'
<1>1. Types /\ InOrder /\ CacheInjected /\ MachineRight /\ Returns /\ AttemptsCounted
      /\ GoneAnswers
  BY DEF SubscriberInv
<1>2. Types' /\ MachineRight' /\ Returns'
  BY <1>1, NextTypes, NextMachine, NextReturns
<1>3. InOrder' /\ CacheInjected'
  BY <1>1, NextOrder
<1>4. AttemptsCounted' /\ GoneAnswers' /\ OnTheWay'
  BY <1>1, NextCounts, NextHome
<1> QED
  BY <1>2, <1>3, <1>4 DEF SubscriberInv

(* The inductive invariant holds in every reachable state.                 *)
THEOREM SubscriberInvariant == Spec => []SubscriberInv
  BY SubscriberInit, SubscriberStep, PTL DEF Spec

(* When gpio-mon is up, nothing is on its way to the daemon and no retry   *)
(* is due, the orchestrator was last given the level of every bound line   *)
(* (the snapshot machine and applySnapshotUpdate together), for any number *)
(* of lines, level changes and outages and any attempt limit above the     *)
(* failures that happen.                                                   *)
THEOREM QuietIsSynced == Spec => []QuietMeansSynced
<1>1. ASSUME SubscriberInv PROVE QuietMeansSynced
  <2> SUFFICES ASSUME up, inbox = <<>>, slot = 0, ~retryTimer, Retries, NEW l \in bound
               PROVE  injected[l] # -1 /\ Value(injected[l]) = Value(version[l])
    BY DEF QuietMeansSynced, Synced, Retries
  <2>1. Types /\ MachineRight /\ CacheInjected /\ OnTheWay
    BY <1>1 DEF SubscriberInv
  <2>2. Len(inbox) = 0 /\ \A i \in 1..Len(inbox) : FALSE
    OBVIOUS
  <2>3. ~Departing /\ ~Coming
    BY <2>2 DEF Departing, Coming
  <2>4. machine.phase \in {"Idle", "Ready"}
    BY <2>1 DEF MachineRight, Types, Phases
  <2>5. CacheLeadsHome(l)
    BY <2>1, <2>3, <2>4 DEF OnTheWay
  <2>6. byPath[l].bound /\ byPath[l].hasValue /\ byPath[l].version = version[l]
    BY <2>2, <2>5 DEF CacheLeadsHome, GetsBound, GetsTold
  <2>7. l \in Lines
    BY <2>1 DEF Types
  <2> QED
    BY <2>1, <2>6, <2>7 DEF CacheInjected, decideInject
<1> QED
  BY <1>1, SubscriberInvariant, PTL

(* The orchestrator never sees an older level of a line after a newer one, *)
(* whatever snapshot replies and signals overlap.                          *)
THEOREM LevelsInOrder == Spec => SeenNeverGoesBack
<1>1. ASSUME SubscriberInv, [Next]_vars PROVE \A l \in Lines : injected'[l] >= injected[l]
  BY <1>1, NextOrder DEF SubscriberInv
<1>2. ASSUME SubscriberInv, [Next]_vars
      PROVE  [\A l \in Lines : injected'[l] >= injected[l]]_vars
  BY <1>1, <1>2
<1> QED
  BY <1>2, SubscriberInvariant, PTL DEF Spec, SeenNeverGoesBack
-----------------------------------------------------------------------------
(* Types.  The bounds follow from the order of levels and from the machine *)
(* counting its attempts; byPath_ keeps a level only of a message it took. *)
AttemptsBounded ==
    /\ machine.attempts <= MaxAttempts
    /\ machine.phase = "RetryWait" => machine.attempts < MaxAttempts
Bounded ==
    /\ AttemptsBounded /\ outages <= MaxOutages
    /\ \A l \in Lines : version[l] <= MaxVersion /\ byPath[l].version <= MaxVersion

LEMMA DispatchedBounded ==
    ASSUME NEW n \in Nat, n < MaxAttempts, Dispatched(n) PROVE AttemptsBounded'
  BY BoundsAssumption DEF Dispatched, AttemptsBounded

LEMMA NextAttempts ==
    ASSUME Types, MachineRight, AttemptsBounded, [Next]_vars PROVE AttemptsBounded'
<1>0. machine.attempts \in Nat /\ MaxAttempts \in Nat /\ 0 \in Nat /\ 0 < MaxAttempts
  BY BoundsAssumption DEF Types
<1>1. CASE UNCHANGED machine
  BY <1>1 DEF AttemptsBounded
<1>2. CASE Dispatched(0)
  BY <1>0, <1>2, DispatchedBounded
<1>3. CASE machine'.attempts = 0
  BY <1>0, <1>3 DEF AttemptsBounded
<1>4. CASE /\ machine'.attempts = machine.attempts
           /\ machine'.phase = "RetryWait" => ~(machine.attempts >= MaxAttempts)
  BY <1>0, <1>4 DEF AttemptsBounded
<1>5. CASE GpioMon
  <2>1. UNCHANGED machine
    BY <1>5, MonitorPushes DEF External, daemonVars
  <2> QED
    BY <1>1, <2>1
<1>6. CASE Process
  BY <1>1, <1>2, <1>3, <1>4, <1>6, StartFacts, OwnerFacts, ReplyFacts, ErrorFacts, SignalFacts
     DEF Process
<1>7. CASE CallTimeout
  BY <1>4, <1>7, TimeoutFacts
<1>8. CASE retryTimerCb
  <2>1. machine.phase = "RetryWait" /\ Dispatched(machine.attempts)
    BY <1>8, RetryFacts
  <2> QED
    BY <1>0, <2>1, DispatchedBounded DEF AttemptsBounded
<1>9. CASE UNCHANGED vars
  BY <1>1, <1>9 DEF vars, daemonVars
<1> QED
  BY <1>5, <1>6, <1>7, <1>8, <1>9 DEF Next

(* A row of the cache has its old level, a level of the head, or none.     *)
LEMMA RowLevels ==
    ASSUME Types, MachineRight, Process, NEW l \in Lines
    PROVE  \/ byPath'[l].version = byPath[l].version
           \/ byPath'[l].version = 0
           \/ Speaks(inbox[1], l) /\ byPath'[l].version = LevelIn(inbox[1], l)
<1>0. NoLine.version = 0
  BY DEF NoLine
<1>1. CASE GpioPropertySubscriber \/ onSnapshotError \/ DropReply
  BY <1>1 DEF GpioPropertySubscriber, onSnapshotError, DropReply, daemonVars
<1>2. CASE onPropertiesChanged
  <2>1. CASE byPath'[l] = byPath[l]
    BY <2>1
  <2>2. CASE byPath'[l] # byPath[l]
    <3>1. /\ inbox[1].type = "props" /\ inbox[1].line = l
          /\ byPath'[l].version = IF inbox[1].version = -1 THEN byPath[l].version
                                  ELSE inbox[1].version
      BY <1>2, <2>2, PropsRow
    <3> QED
      BY <3>1 DEF Speaks, Tells, LevelIn
  <2> QED
    BY <2>1, <2>2
<1>3. CASE onInterfacesRemoved
  BY <1>0, <1>3, RemovedRow
<1>4. CASE onSnapshotReply
  <2>1. inbox[1].type = "tree" /\ byPath'[l].version = inbox[1].versions[l]
    BY <1>4, ReplyFacts, TreeFacts
  <2> QED
    BY <2>1 DEF Speaks, LevelIn
<1>5. CASE onNameOwnerChanged
  <2>1. byPath' = byPath \/ byPath' = [k \in Lines |-> NoLine]
    BY <1>5, OwnerFacts
  <2> QED
    BY <1>0, <2>1
<1> QED
  BY <1>1, <1>2, <1>3, <1>4, <1>5 DEF Process

LEMMA NextBounded ==
    ASSUME SubscriberInv, Bounded, [Next]_vars PROVE Bounded'
<1>0. Types /\ MachineRight /\ InOrder
  BY DEF SubscriberInv
<1>1. AttemptsBounded'
  BY <1>0, NextAttempts DEF Bounded
<1>2. outages \in Nat /\ outages <= MaxOutages /\ MaxOutages \in Nat /\ MaxVersion \in Nat
      /\ version \in [Lines -> Nat]
      /\ \A l \in Lines : version[l] <= MaxVersion /\ byPath[l].version <= MaxVersion
  BY <1>0, BoundsAssumption DEF Bounded, Types
<1>3. CASE UNCHANGED vars
  BY <1>1, <1>2, <1>3 DEF Bounded, vars, busVars, daemonVars
<1>4. CASE CallTimeout \/ retryTimerCb
  BY <1>1, <1>2, <1>4 DEF Bounded, CallTimeout, retryTimerCb, busVars
<1>5. CASE Process
  <2>1. UNCHANGED <<version, outages>> /\ Pop
    BY <1>0, <1>5, ProcessHandles, ProcessTakes DEF Handles, busVars
  <2>2. ASSUME NEW l \in Lines PROVE byPath'[l].version <= MaxVersion
    <3>1. 1 \in 1..Len(inbox)
      BY <2>1, PopFacts
    <3>2. ASSUME Speaks(inbox[1], l) PROVE LevelIn(inbox[1], l) <= MaxVersion
      <4>1. LevelIn(inbox[1], l) <= version[l]
        BY <1>0, <3>1, <3>2 DEF InOrder
      <4>2. LevelIn(inbox[1], l) \in Nat /\ version[l] \in Nat
        BY <1>0, <3>1, <3>2, LineTyped
      <4> QED
        BY <1>2, <4>1, <4>2
    <3>3. 0 <= MaxVersion
      BY <1>2
    <3> QED
      BY <1>0, <1>2, <1>5, <3>2, <3>3, RowLevels
  <2> QED
    BY <1>1, <1>2, <2>1, <2>2 DEF Bounded
<1>6. CASE GpioMon
  <2>1. UNCHANGED byPath
    BY <1>0, <1>6, MonitorPushes DEF External, daemonVars
  <2>2. outages' \in Nat /\ outages' <= MaxOutages
    <3>1. outages' = outages \/ (outages < MaxOutages /\ outages' = outages + 1)
      BY <1>6 DEF GpioMon, Toggle, Unbind, Bind, AnswerCall, Depart, Appear, busVars
    <3> QED
      BY <1>2, <3>1
  <2>3. \A l \in Lines : version'[l] <= MaxVersion
    <3>1. ASSUME NEW k \in Lines, Toggle(k), NEW l \in Lines PROVE version'[l] <= MaxVersion
      <4>1. version[k] < MaxVersion /\ version' = [version EXCEPT ![k] = version[k] + 1]
        BY <3>1 DEF Toggle
      <4>2. version[k] \in Nat
        BY <1>2
      <4>3. version[k] + 1 <= MaxVersion
        BY <1>2, <4>1, <4>2
      <4> QED
        BY <1>2, <4>1, <4>3
    <3>2. UNCHANGED version \/ \E k \in Lines : Toggle(k)
      BY <1>6 DEF GpioMon, Unbind, Bind, AnswerCall, Depart, Appear, busVars
    <3> QED
      BY <1>2, <3>1, <3>2
  <2> QED
    BY <1>1, <1>2, <2>1, <2>2, <2>3 DEF Bounded
<1> QED
  BY <1>3, <1>4, <1>5, <1>6 DEF Next

(* Every variable keeps its type; in particular a call is attempted at     *)
(* most MaxAttempts times in a row (SnapshotMachine's attempt limit), and  *)
(* the cache holds no level a line never had.                              *)
THEOREM SubscriberTyped == Spec => []TypeOK
<1>1. Init => Bounded
  <2> SUFFICES ASSUME Init PROVE Bounded
    OBVIOUS
  <2>1. machine.phase = "Idle" /\ machine.attempts = 0 /\ outages = 0
        /\ \A l \in Lines : version[l] = 0 /\ byPath[l].version = 0
    BY DEF Init, NoLine
  <2>2. 0 <= MaxAttempts /\ 0 <= MaxOutages /\ 0 <= MaxVersion
    BY BoundsAssumption
  <2> QED
    BY <2>1, <2>2 DEF Bounded, AttemptsBounded
<1>2. SubscriberInv /\ Bounded /\ [Next]_vars => Bounded'
  BY NextBounded
<1>3. ASSUME SubscriberInv, Bounded PROVE TypeOK
  <2>0. Types /\ InOrder
    BY <1>3 DEF SubscriberInv
  <2>1. version \in [Lines -> 0..MaxVersion]
    <3>1. version \in [Lines -> Nat] /\ \A l \in Lines : version[l] <= MaxVersion
      BY <1>3, <2>0 DEF Types, Bounded
    <3>2. ASSUME NEW l \in Lines PROVE version[l] \in 0..MaxVersion
      <4>1. version[l] \in Nat /\ version[l] <= MaxVersion
        BY <3>1
      <4> QED
        BY <4>1, BoundsAssumption
    <3> QED
      BY <3>1, <3>2
  <2>2. byPath \in [Lines -> CachedLine]
    <3>1. byPath \in [Lines -> Cached] /\ \A l \in Lines : byPath[l].version <= MaxVersion
      BY <1>3, <2>0 DEF Types, Bounded, Cached
    <3>2. ASSUME NEW l \in Lines PROVE byPath[l] \in CachedLine
      <4>1. byPath[l] \in Cached /\ byPath[l].version <= MaxVersion
        BY <3>1
      <4>2. byPath[l].version \in 0..MaxVersion
        BY <4>1, BoundsAssumption DEF Cached
      <4> QED
        BY <4>1, <4>2 DEF Cached, CachedLine
    <3> QED
      BY <3>1, <3>2
  <2>3. machine \in [phase: Phases, attempts: 0..MaxAttempts, everReady: BOOLEAN]
    <3>1. machine \in Machines /\ machine.attempts <= MaxAttempts
      BY <1>3, <2>0 DEF Types, Machines, Bounded, AttemptsBounded
    <3>2. machine.attempts \in 0..MaxAttempts
      BY <3>1, BoundsAssumption DEF Machines
    <3> QED
      BY <3>1, <3>2 DEF Machines
  <2>4. injected \in [Lines -> -1..MaxVersion]
    <3>1. injected \in [Lines -> Nat \cup {-1}]
      BY <2>0 DEF Types
    <3>2. ASSUME NEW l \in Lines PROVE injected[l] \in -1..MaxVersion
      <4>1. injected[l] \in Nat \cup {-1} /\ injected[l] <= version[l] /\ version[l] \in 0..MaxVersion
        BY <2>0, <2>1, <3>1 DEF InOrder
      <4> QED
        BY <4>1, BoundsAssumption
    <3> QED
      BY <3>1, <3>2
  <2>5. outages \in 0..MaxOutages
    BY <1>3, <2>0, BoundsAssumption DEF Types, Bounded
  <2> QED
    BY <2>0, <2>1, <2>2, <2>3, <2>4, <2>5 DEF Types, TypeOK
<1> QED
  BY <1>1, <1>2, <1>3, SubscriberInvariant, PTL DEF Spec

=============================================================================
