------------------------ MODULE ItemUpdater_proofs ------------------------
(***************************************************************************)
(* Proofs about the item updater (module ItemUpdater): for any devices, in *)
(* any order, any images, any target filters, any message bounds, with and *)
(* without restarts.                                                       *)
(***************************************************************************)
EXTENDS ItemUpdater, TLAPS

-----------------------------------------------------------------------------
(* What is known of the object between two callbacks.                      *)

Percent == NoProgress..100
VersionRecord ==
    [status: Statuses, requested: {"None", "Active"}, path: Paths,
     queue: Seq(Devices), unit: Units \cup {NoUnit}, progress: Int, step: Int,
     timer: BOOLEAN]

(* An activation in progress has a device, runs its service, is watched by *)
(* the timer, and has progress left for every device to come; otherwise    *)
(* there is no progress object.                                            *)
InProgress(v) ==
    /\ v.queue # <<>> /\ v.unit = <<Head(v.queue), v.path>>
    /\ v.timer
    /\ v.progress >= 0 /\ v.step \in 0..90
    /\ v.progress + v.step * Len(v.queue) <= 90
VersionRight(v) ==
    /\ v \in VersionRecord /\ v.step \in 0..90
    /\ IF Activating(v) THEN InProgress(v) ELSE v.progress = NoProgress

Results == {"done", "failed", "timeout", "canceled", "dependency"}
Jobs == [type: {"job"}, unit: Units \cup {OtherUnit}, result: Results]
Messages == Jobs \cup {Echo}

Types ==
    /\ version = NoVersion \/ VersionRight(version)
    /\ files \subseteq Images /\ written \subseteq Images
    /\ matches \in Nat
    /\ daemon \in {"up", "crashed"}
    /\ inventory \subseteq Devices
    /\ units \in [Units -> {"inactive", "running", "imageless", "stopping"}]
    /\ calls \in Seq({"start", "stop"} \X Units)
    /\ inbox \in Seq(Messages)
    /\ served \subseteq Devices /\ clean \in BOOLEAN

(* A job message about one of the update services.                         *)
Ours(m) == m.type = "job" /\ m.unit # OtherUnit

(* During an activation that started clean, the service of the device at   *)
(* the head of the queue is in one place: its StartUnit call is on its     *)
(* way, or it runs, or its result is on its way, or that was ignored.      *)
AtWork ==
    /\ Activating(version)
    /\ calls = <<>> \/ calls = << <<"start", version.unit>> >>
    /\ calls # <<>> => /\ \A u \in Units : units[u] = "inactive"
                       /\ \A i \in 1..Len(inbox) : ~Ours(inbox[i])
    /\ \A u \in Units : units[u] # "inactive" =>
          /\ u = version.unit /\ units[u] \in {"running", "imageless"}
          /\ \A i \in 1..Len(inbox) : ~Ours(inbox[i])
    /\ \A i \in 1..Len(inbox) : Ours(inbox[i]) =>
          /\ inbox[i].unit = version.unit
          /\ inbox[i].result = "done" => version.unit[1] \in served
    /\ \A i, j \in 1..Len(inbox) : Ours(inbox[i]) /\ Ours(inbox[j]) => i = j

UpdaterInv == Types /\ (clean => AtWork)

-----------------------------------------------------------------------------
(* Values.                                                                 *)

LEMMA UnitFacts ==
    /\ \A u \in Units : u[1] \in Devices /\ u[2] \in Paths /\ u # OtherUnit /\ u # NoUnit
    /\ \A d \in Devices, p \in Paths : <<d, p>> \in Units /\ <<d, p>>[1] = d
<1>1. \A u \in Units : u[1] \in Devices /\ u[2] \in Paths /\ Len(u) = 2
  BY DEF Units
<1>2. Len(OtherUnit) = 1 /\ Len(NoUnit) = 0
  BY DEF OtherUnit, NoUnit
<1>3. \A u \in Units : u # OtherUnit /\ u # NoUnit
  BY <1>1, <1>2
<1> QED
  BY <1>1, <1>3 DEF Units

LEMMA JobFacts ==
    ASSUME NEW u \in Units \cup {OtherUnit}, NEW x \in Results
    PROVE  /\ JobRemoved(u, x) \in Messages /\ JobRemoved(u, x).type = "job"
           /\ JobRemoved(u, x).unit = u /\ JobRemoved(u, x).result = x
  BY DEF JobRemoved, Messages, Jobs

LEMMA EchoFacts == Echo \in Messages /\ Echo.type = "echo" /\ ~Ours(Echo)
  BY DEF Echo, Messages, Ours

LEMMA MessageFacts ==
    ASSUME NEW m \in Messages
    PROVE  /\ m.type \in {"job", "echo"}
           /\ m.type = "job" => m.unit \in Units \cup {OtherUnit} /\ m.result \in Results
  BY DEF Messages, Jobs, Echo

(* Without the version, there is no activation.                            *)
LEMMA NoActivation == ~Activating(NoVersion)
  BY DEF Activating, NoVersion

LEMMA NewVersion ==
    ASSUME NEW p \in Paths, NEW x \in {"Ready", "Active"}
    PROVE  VersionRight(Version(p, x)) /\ ~Activating(Version(p, x))
                                       /\ Version(p, x).unit = NoUnit
<1>1. <<>> \in Seq(Devices)
  OBVIOUS
<1> QED
  BY <1>1 DEF Version, VersionRight, VersionRecord, Activating, Statuses, NoProgress

(* The steps of 80 / n leave room for the devices to come.                 *)
LEMMA StepFacts ==
    ASSUME NEW q \in Seq(Devices)
    PROVE  progressStep(q) \in 0..90
           /\ (q # <<>> => 10 + progressStep(q) * Len(q) <= 90)
<1>1. CASE q = <<>>
  BY <1>1 DEF progressStep
<1>2. CASE q # <<>>
  <2>1. Len(q) \in Nat /\ Len(q) > 0
    BY <1>2
  <2>2. ASSUME NEW n \in Nat, n > 0
        PROVE  80 \div n \in 0..80 /\ (80 \div n) * n <= 80
    <3>1. 80 = n * (80 \div n) + (80 % n) /\ 80 % n \in 0..(n - 1) /\ 80 \div n \in Int
      BY <2>2
    <3>2. 80 \div n >= 0
      BY <2>2
    <3> QED
      BY <2>2, <3>1, <3>2
  <2>3. progressStep(q) = 80 \div Len(q)
    BY <1>2 DEF progressStep
  <2>4. progressStep(q) \in 0..80 /\ progressStep(q) * Len(q) <= 80
    BY <2>1, <2>2, <2>3
  <2>5. \A a \in 0..80, b \in Nat : a * b <= 80 => 10 + a * b <= 90
    OBVIOUS
  <2>6. 10 + progressStep(q) * Len(q) <= 90
    BY <2>1, <2>4, <2>5
  <2> QED
    BY <2>4, <2>6
<1> QED
  BY <1>1, <1>2

-----------------------------------------------------------------------------
(* The methods of Version.                                                 *)
World ==
    [v: VersionRecord, files: SUBSET Images, out: Seq({"start", "stop"} \X Units),
     echoes: Nat, crashed: BOOLEAN]

LEMMA DaemonWorld ==
    ASSUME Types, version # NoVersion
    PROVE  /\ Daemon \in World /\ Daemon.v = version /\ Daemon.files = files
           /\ Daemon.out = <<>> /\ Daemon.echoes = 0 /\ ~Daemon.crashed
<1>1. <<>> \in Seq({"start", "stop"} \X Units)
  OBVIOUS
<1> QED
  BY <1>1 DEF Daemon, World, Types, VersionRight

(* A method that only changes some fields of the object and of the files.  *)
LEMMA CleanupFacts ==
    ASSUME NEW w \in World
    PROVE  LET x == cleanupImageUploadDir(w)
           IN  x \in World /\ x.v = w.v /\ x.out = w.out /\ x.crashed = w.crashed
  BY DEF World, cleanupImageUploadDir

LEMMA SetRequestedFacts ==
    ASSUME NEW w \in World, NEW value \in {"None", "Active"}
    PROVE  LET x == SetRequested(w, value)
           IN  /\ x \in World /\ x.v = [w.v EXCEPT !.requested = value]
               /\ x.out = w.out /\ x.crashed = w.crashed
<1> DEFINE x == SetRequested(w, value)
           v == [w.v EXCEPT !.requested = value]
<1>1. v \in VersionRecord
  BY DEF World, VersionRecord
<1>2. x.v = v /\ x.files = w.files /\ x.out = w.out /\ x.crashed = w.crashed
  BY DEF World, SetRequested
<1>3. x.echoes \in Nat
  BY DEF World, SetRequested
<1>4. PICK e \in Nat : e = x.echoes
  BY <1>3
<1>5. x = [w EXCEPT !.v = v, !.echoes = e]
  BY <1>4 DEF World, SetRequested
<1> HIDE DEF x, v
<1>6. x \in World
  BY <1>1, <1>5 DEF World
<1> QED
  BY <1>2, <1>6 DEF x, v

LEMMA SetActivationFacts ==
    ASSUME NEW w \in World, NEW status \in Statuses
    PROVE  LET x == SetActivation(w, status)
           IN  /\ x \in World
               /\ x.v = [w.v EXCEPT !.status = status, !.progress = NoProgress]
               /\ x.out = w.out /\ x.crashed = w.crashed
<1> DEFINE x == SetActivation(w, status)
           v == [w.v EXCEPT !.status = status, !.progress = NoProgress]
<1>0. NoProgress \in Int
  BY DEF NoProgress
<1>1. v \in VersionRecord
  BY <1>0 DEF World, VersionRecord
<1>2. /\ x.v = v /\ x.files = w.files /\ x.out = w.out /\ x.crashed = w.crashed
      /\ x.echoes = w.echoes
  BY DEF World, SetActivation
<1>3. x = [w EXCEPT !.v = v]
  BY DEF World, SetActivation
<1> HIDE DEF x, v
<1>4. x \in World
  BY <1>1, <1>3 DEF World
<1> QED
  BY <1>2, <1>4 DEF x, v

LEMMA FailedFacts ==
    ASSUME NEW w \in World
    PROVE  LET x == onUpdateFailed(w)
           IN  /\ x \in World /\ x.out = w.out /\ x.crashed = w.crashed
               /\ w.v.queue = <<>> => x.v = w.v
               /\ w.v.queue # <<>> =>
                     x.v = [w.v EXCEPT !.queue = <<>>, !.status = "Failed",
                                       !.progress = NoProgress, !.requested = "None"]
<1>1. CASE w.v.queue = <<>>
  BY <1>1 DEF onUpdateFailed
<1>2. CASE w.v.queue # <<>>
  <2> DEFINE a == [w EXCEPT !.v.queue = <<>>]
             b == SetActivation(a, "Failed")
             c == cleanupImageUploadDir(b)
  <2>1. <<>> \in Seq(Devices) /\ "Failed" \in Statuses
    BY DEF Statuses
  <2>2. a \in World /\ a.v = [w.v EXCEPT !.queue = <<>>] /\ a.out = w.out /\ a.crashed = w.crashed
    BY <2>1 DEF World, VersionRecord
  <2> HIDE DEF a
  <2>3. /\ b \in World /\ b.v = [a.v EXCEPT !.status = "Failed", !.progress = NoProgress]
        /\ b.out = w.out /\ b.crashed = w.crashed
    BY <2>1, <2>2, SetActivationFacts
  <2> HIDE DEF b
  <2>4. c \in World /\ c.v = b.v /\ c.out = w.out /\ c.crashed = w.crashed
    BY <2>3, CleanupFacts
  <2> HIDE DEF c
  <2>5. onUpdateFailed(w) = SetRequested(c, "None")
    BY <1>2 DEF onUpdateFailed, a, b, c
  <2>6. /\ SetRequested(c, "None") \in World
        /\ SetRequested(c, "None").v = [c.v EXCEPT !.requested = "None"]
        /\ SetRequested(c, "None").out = w.out /\ SetRequested(c, "None").crashed = w.crashed
    BY <2>4, SetRequestedFacts
  <2> QED
    BY <1>2, <2>2, <2>3, <2>4, <2>5, <2>6, SMTT(20) DEF World, VersionRecord
<1> QED
  BY <1>1, <1>2

LEMMA FinishFacts ==
    ASSUME NEW w \in World
    PROVE  LET x == finishActivation(w)
           IN  /\ x \in World /\ x.out = w.out /\ x.crashed = w.crashed
               /\ x.v = [w.v EXCEPT !.requested = "None", !.status = "Active",
                                    !.progress = NoProgress]
<1> DEFINE a == SetRequested(w, "None")
           b == SetActivation(a, "Active")
<1>1. a \in World /\ a.v = [w.v EXCEPT !.requested = "None"] /\ a.out = w.out /\ a.crashed = w.crashed
  BY SetRequestedFacts
<1> HIDE DEF a
<1>2. /\ b \in World /\ b.v = [a.v EXCEPT !.status = "Active", !.progress = NoProgress]
      /\ b.out = w.out /\ b.crashed = w.crashed
  BY <1>1, SetActivationFacts DEF Statuses
<1> HIDE DEF b
<1>3. finishActivation(w) = cleanupImageUploadDir(b)
  BY DEF finishActivation, a, b
<1>4. finishActivation(w) \in World /\ finishActivation(w).v = b.v
      /\ finishActivation(w).out = w.out /\ finishActivation(w).crashed = w.crashed
  BY <1>2, <1>3, CleanupFacts
<1>5. b.v = [w.v EXCEPT !.requested = "None", !.status = "Active", !.progress = NoProgress]
  BY <1>1, <1>2 DEF World, VersionRecord
<1> QED
  BY <1>4, <1>5

LEMMA DeviceFacts ==
    ASSUME NEW w \in World, w.v.queue # <<>>, NEW sent \in BOOLEAN
    PROVE  LET r == doUpdateDevice(w, sent)
               u == <<Head(w.v.queue), w.v.path>>
           IN  /\ r.w \in World /\ r.w.crashed = w.crashed /\ r.ok = sent
               /\ sent => /\ r.w.v = [w.v EXCEPT !.unit = u, !.timer = TRUE]
                          /\ r.w.out = Append(w.out, <<"start", u>>)
               /\ ~sent => /\ r.w.v = [w.v EXCEPT !.unit = u, !.queue = <<>>, !.status = "Failed",
                                                  !.progress = NoProgress, !.requested = "None"]
                           /\ r.w.out = w.out
<1> DEFINE u == <<Head(w.v.queue), w.v.path>>
           a == [w EXCEPT !.v.unit = u]
           b == [a EXCEPT !.out = Append(@, <<"start", a.v.unit>>), !.v.timer = TRUE]
<1>1. u \in Units
  BY DEF World, VersionRecord, Units
<1>2. a \in World /\ a.v = [w.v EXCEPT !.unit = u] /\ a.out = w.out /\ a.crashed = w.crashed
  <2> HIDE DEF u
  <2>1. a = [w EXCEPT !.v = [w.v EXCEPT !.unit = u]]
    BY DEF World
  <2>2. [w.v EXCEPT !.unit = u] \in VersionRecord
    BY <1>1 DEF World, VersionRecord
  <2> HIDE DEF a
  <2> QED
    BY <2>1, <2>2 DEF World
<1>3. a.v.unit = u /\ a.v.queue = w.v.queue /\ a.v.queue # <<>>
  BY <1>2 DEF World, VersionRecord
<1> HIDE DEF u
<1>4. doUpdateDevice(w, sent) = IF sent THEN [w |-> b, ok |-> TRUE] ELSE [w |-> onUpdateFailed(a), ok |-> FALSE]
  BY DEF doUpdateDevice, u
<1> HIDE DEF a
<1>5. CASE sent
  <2>1. [a.v EXCEPT !.timer = TRUE] \in VersionRecord
    BY <1>2 DEF World, VersionRecord
  <2>2. Append(a.out, <<"start", u>>) \in Seq({"start", "stop"} \X Units)
    BY <1>1, <1>2 DEF World
  <2>3. b = [a EXCEPT !.out = Append(a.out, <<"start", u>>), !.v = [a.v EXCEPT !.timer = TRUE]]
    BY <1>2, <1>3 DEF World
  <2> HIDE DEF b
  <2>4. /\ b \in World /\ b.v = [a.v EXCEPT !.timer = TRUE] /\ b.out = Append(a.out, <<"start", u>>)
        /\ b.crashed = a.crashed
    BY <1>2, <2>1, <2>2, <2>3 DEF World
  <2>5. b.v = [w.v EXCEPT !.unit = u, !.timer = TRUE]
    BY <1>2, <2>4 DEF World, VersionRecord
  <2>6. doUpdateDevice(w, sent).w = b /\ doUpdateDevice(w, sent).ok = TRUE
    BY <1>4, <1>5
  <2> QED
    BY <1>2, <1>5, <2>4, <2>5, <2>6 DEF u
<1>6. CASE ~sent
  <2>1. doUpdateDevice(w, sent).w = onUpdateFailed(a) /\ doUpdateDevice(w, sent).ok = FALSE
    BY <1>4, <1>6
  <2>2. /\ onUpdateFailed(a) \in World /\ onUpdateFailed(a).out = a.out
        /\ onUpdateFailed(a).crashed = a.crashed
        /\ onUpdateFailed(a).v = [a.v EXCEPT !.queue = <<>>, !.status = "Failed",
                                             !.progress = NoProgress, !.requested = "None"]
    BY <1>2, <1>3, FailedFacts
  <2>3. onUpdateFailed(a).v = [w.v EXCEPT !.unit = u, !.queue = <<>>, !.status = "Failed",
                                          !.progress = NoProgress, !.requested = "None"]
    BY <1>2, <2>2 DEF World, VersionRecord
  <2> QED
    BY <1>2, <1>6, <2>1, <2>2, <2>3 DEF u
<1> QED
  BY <1>5, <1>6

(* An object whose activation is over.                                     *)
LEMMA Over ==
    ASSUME NEW v \in VersionRecord, v.step \in 0..90, v.status # "Activating",
           v.progress = NoProgress
    PROVE  VersionRight(v) /\ ~Activating(v)
  BY DEF VersionRight, Activating

(* An activation ends, or goes on to the next device.                      *)
LEMMA DoneFacts ==
    ASSUME NEW w \in World, NEW sent \in BOOLEAN, VersionRight(w.v)
    PROVE  LET x == onUpdateDone(w, sent)
           IN  /\ x \in World /\ x.crashed = w.crashed /\ VersionRight(x.v)
               /\ \/ x.v = w.v /\ x.out = w.out
                  \/ ~Activating(x.v)
                  \/ /\ Activating(w.v) /\ Activating(x.v) /\ x.v.path = w.v.path
                     /\ x.v.queue = Tail(w.v.queue)
                     /\ x.out = Append(w.out, <<"start", x.v.unit>>)
<1> DEFINE x == onUpdateDone(w, sent)
<1>1. CASE w.v.queue = <<>> \/ w.v.progress = NoProgress
  BY <1>1 DEF onUpdateDone
<1>2. CASE w.v.queue # <<>> /\ w.v.progress # NoProgress
  <2> DEFINE v == [w.v EXCEPT !.progress = w.v.progress + w.v.step, !.queue = Tail(w.v.queue)]
             a == [w EXCEPT !.v.progress = @ + w.v.step, !.v.queue = Tail(@)]
  <2>0. /\ w.v.progress \in Int /\ w.v.step \in 0..90 /\ w.v.queue \in Seq(Devices)
        /\ Tail(w.v.queue) \in Seq(Devices) /\ Len(Tail(w.v.queue)) = Len(w.v.queue) - 1
        /\ Len(w.v.queue) \in Nat
    BY <1>2 DEF World, VersionRecord, VersionRight
  <2>1. v \in VersionRecord
    <3>1. ASSUME NEW r \in VersionRecord, NEW p \in Int, NEW q \in Seq(Devices)
          PROVE  [r EXCEPT !.progress = p, !.queue = q] \in VersionRecord
      BY DEF VersionRecord
    <3>2. w.v \in VersionRecord
      BY DEF World
    <3>3. w.v.progress + w.v.step \in Int
      <4>1. \A i \in Int, j \in 0..90 : i + j \in Int
        OBVIOUS
      <4> QED
        BY <2>0, <4>1
    <3> QED
      BY <2>0, <3>1, <3>2, <3>3
  <2>2. a = [w EXCEPT !.v = v]
    BY DEF World, VersionRecord
  <2>3. a \in World /\ a.v = v /\ a.out = w.out /\ a.crashed = w.crashed
    <3> HIDE DEF a, v
    <3> QED
      BY <2>1, <2>2 DEF World
  <2>4. x = doUpdate(a, sent).w
    BY <1>2 DEF onUpdateDone
  <2>5. /\ v.step = w.v.step /\ v.queue = Tail(w.v.queue) /\ v.progress = w.v.progress + w.v.step
        /\ v.status = w.v.status /\ v.path = w.v.path
    BY DEF World, VersionRecord
  <2> HIDE DEF a, v, x
  <2>6. CASE v.queue = <<>>
    <3>1. x = finishActivation(a)
      BY <2>3, <2>4, <2>6 DEF doUpdate
    <3>2. /\ x \in World /\ x.crashed = w.crashed
          /\ x.v = [v EXCEPT !.requested = "None", !.status = "Active", !.progress = NoProgress]
      BY <2>3, <3>1, FinishFacts
    <3>3. x.v \in VersionRecord /\ x.v.step = v.step /\ x.v.status = "Active" /\ x.v.progress = NoProgress
      BY <2>1, <3>2 DEF World, VersionRecord
    <3> QED
      BY <2>0, <2>5, <3>2, <3>3, Over DEF x
  <2>7. CASE v.queue # <<>>
    <3>1. x = doUpdateDevice(a, sent).w
      BY <2>3, <2>4, <2>7 DEF doUpdate
    <3> DEFINE u == <<Head(v.queue), v.path>>
    <3>2. /\ x \in World /\ x.crashed = w.crashed
          /\ sent => /\ x.v = [v EXCEPT !.unit = u, !.timer = TRUE]
                     /\ x.out = Append(w.out, <<"start", u>>)
          /\ ~sent => x.v = [v EXCEPT !.unit = u, !.queue = <<>>, !.status = "Failed",
                                      !.progress = NoProgress, !.requested = "None"]
      BY <2>3, <2>7, <3>1, DeviceFacts
    <3> HIDE DEF u
    <3>3. CASE ~sent
      <4>1. x.v \in VersionRecord /\ x.v.step = v.step /\ x.v.status = "Failed" /\ x.v.progress = NoProgress
        BY <2>1, <3>2, <3>3 DEF World, VersionRecord
      <4> QED
        BY <2>0, <2>5, <3>2, <4>1, Over DEF x
    <3>4. CASE sent
      <4>1. /\ x.v \in VersionRecord /\ x.v.unit = u /\ x.v.timer /\ x.v.status = w.v.status
            /\ x.v.step = w.v.step /\ x.v.progress = w.v.progress + w.v.step
            /\ x.v.queue = Tail(w.v.queue) /\ x.v.path = w.v.path
        <5>1. x.v = [v EXCEPT !.unit = u, !.timer = TRUE]
          BY <3>2, <3>4
        <5>2. x.v \in VersionRecord
          BY <3>2 DEF World
        <5>3. /\ x.v.unit = u /\ x.v.timer /\ x.v.status = v.status /\ x.v.step = v.step
              /\ x.v.progress = v.progress /\ x.v.queue = v.queue /\ x.v.path = v.path
          BY <2>1, <5>1 DEF VersionRecord
        <5> QED
          BY <2>5, <5>2, <5>3
      <4>2. Activating(w.v) /\ InProgress(w.v) /\ Activating(x.v)
        BY <1>2, <4>1 DEF VersionRight, Activating
      <4>3. x.v.progress >= 0 /\ x.v.progress + x.v.step * Len(x.v.queue) <= 90
        <5>1. ASSUME NEW p \in Int, NEW t \in 0..90, NEW n \in Nat, p + t * n <= 90, p >= 0
              PROVE  p + t >= 0 /\ (p + t) + t * (n - 1) <= 90
          BY <5>1
        <5>2. /\ w.v.progress + w.v.step * Len(w.v.queue) <= 90 /\ w.v.progress >= 0
          BY <4>2 DEF InProgress
        <5> QED
          BY <2>0, <4>1, <5>1, <5>2
      <4>4. InProgress(x.v)
        BY <2>0, <2>5, <2>7, <4>1, <4>3 DEF InProgress, u
      <4>5. VersionRight(x.v)
        BY <2>0, <4>1, <4>2, <4>4 DEF VersionRight
      <4>6. x.out = Append(w.out, <<"start", x.v.unit>>)
        BY <3>2, <3>4, <4>1
      <4> QED
        BY <3>2, <4>1, <4>2, <4>5, <4>6 DEF x
    <3> QED
      BY <3>3, <3>4
  <2> QED
    BY <2>6, <2>7
<1> QED
  BY <1>1, <1>2

(* The watchdog fails an activation, or finds none.                        *)
LEMMA CancelFacts ==
    ASSUME NEW w \in World, w.v.step \in 0..90, w.v.queue # <<>>
    PROVE  LET x == cancelInProgressUpdate(w)
           IN  /\ x \in World /\ x.crashed = w.crashed /\ VersionRight(x.v)
               /\ ~Activating(x.v) /\ x.v.status = "Failed"
<1> DEFINE a == IF w.v.unit = NoUnit THEN w
                ELSE [w EXCEPT !.out = Append(@, <<"stop", w.v.unit>>), !.v.unit = NoUnit]
           x == cancelInProgressUpdate(w)
<1>1. a \in World /\ a.crashed = w.crashed /\ a.v.step = w.v.step /\ a.v.queue = w.v.queue
  <2>1. CASE w.v.unit = NoUnit
    BY <2>1
  <2>2. CASE w.v.unit # NoUnit
    <3>1. [w.v EXCEPT !.unit = NoUnit] \in VersionRecord
      BY DEF World, VersionRecord
    <3>2. Append(w.out, <<"stop", w.v.unit>>) \in Seq({"start", "stop"} \X Units)
      BY <2>2 DEF World, VersionRecord
    <3>3. a = [w EXCEPT !.out = Append(w.out, <<"stop", w.v.unit>>), !.v = [w.v EXCEPT !.unit = NoUnit]]
      BY <2>2 DEF World
    <3> HIDE DEF a
    <3>4. a \in World /\ a.v = [w.v EXCEPT !.unit = NoUnit] /\ a.crashed = w.crashed
      BY <3>1, <3>2, <3>3 DEF World
    <3> QED
      BY <3>4 DEF World, VersionRecord
  <2> QED
    BY <2>1, <2>2
<1>2. x = onUpdateFailed(a)
  BY DEF cancelInProgressUpdate
<1> HIDE DEF a
<1>3. /\ x \in World /\ x.crashed = w.crashed
      /\ x.v = [a.v EXCEPT !.queue = <<>>, !.status = "Failed", !.progress = NoProgress,
                           !.requested = "None"]
  BY <1>1, <1>2, FailedFacts
<1> HIDE DEF x
<1>4. x.v \in VersionRecord /\ x.v.step = w.v.step /\ x.v.status = "Failed" /\ x.v.progress = NoProgress
  BY <1>1, <1>3 DEF World, VersionRecord
<1> QED
  BY <1>3, <1>4, Over DEF x

(* startActivation, from an object that is not activating.                 *)
LEMMA SelectedDevices ==
    ASSUME inventory \subseteq Devices, NEW c, c.compatible \in Listings(inventory)
    PROVE  DevicesToUpdate(c) \in Seq(Devices)
<1>1. PICK n \in Nat : c.compatible \in [1..n -> Devices]
  <2>1. PICK n \in 0..Cardinality(inventory) : c.compatible \in [1..n -> inventory]
    BY DEF Listings
  <2>2. n \in Nat
    OBVIOUS
  <2> QED
    BY <2>1, <2>2
<1>2. c.compatible \in Seq(Devices)
  BY <1>1
<1> QED
  BY <1>2 DEF DevicesToUpdate

LEMMA StartFacts ==
    ASSUME NEW w \in World, ~w.crashed, w.out = <<>>, w.v.step \in 0..90, w.v.progress = NoProgress,
           inventory \subseteq Devices,
           NEW c, c.sent \in BOOLEAN, c.compatible \in Listings(inventory)
    PROVE  LET r == startActivation(w, c)
           IN  /\ r.w \in World /\ r.w.v.step \in 0..90
               /\ r.status \in {"Failed", "Active", "Activating"}
               /\ r.status # "Activating" => r.w.v.progress = NoProgress
               /\ r.status = "Activating" =>
                     InProgress(r.w.v) /\ r.w.out = << <<"start", r.w.v.unit>> >>
<1> DEFINE r == startActivation(w, c)
<1>1. CASE ~c.verified \/ inventory = {}
  <2>1. r.w = cleanupImageUploadDir(w) /\ r.status = "Failed"
    BY <1>1 DEF startActivation
  <2> HIDE DEF r
  <2>2. r.w \in World /\ r.w.v = w.v
    BY <2>1, CleanupFacts
  <2> QED
    BY <2>1, <2>2 DEF r
<1>2. CASE ~(~c.verified \/ inventory = {})
  <2> DEFINE q == w.v.queue \o DevicesToUpdate(c)
             v == [w.v EXCEPT !.queue = q, !.step = progressStep(q), !.progress = 0]
             a == [w EXCEPT !.v.queue = q, !.v.step = progressStep(q),
                            !.v.progress = IF @ = NoProgress THEN 0 ELSE @]
             d == doUpdate(a, c.sent)
  <2>1. q \in Seq(Devices)
    BY SelectedDevices DEF World, VersionRecord
  <2>2. r = IF c.filter = "UpdateNone" THEN [w |-> finishActivation(a), status |-> "Active"]
            ELSE IF ~d.ok THEN [w |-> d.w, status |-> "Failed"]
            ELSE IF d.w.v.progress = NoProgress
            THEN [w |-> [d.w EXCEPT !.crashed = TRUE], status |-> "Active"]
            ELSE [w |-> [d.w EXCEPT !.v.progress = 10], status |-> "Activating"]
    BY <1>2 DEF startActivation
  <2> HIDE DEF q
  <2>3. progressStep(q) \in 0..90 /\ (q # <<>> => 10 + progressStep(q) * Len(q) <= 90)
    BY <2>1, StepFacts
  <2>4. PICK n \in 0..90 : n = progressStep(q)
    BY <2>3
  <2>5. v \in VersionRecord /\ v.queue = q /\ v.step = n /\ v.progress = 0 /\ v.path = w.v.path
    <3>1. ASSUME NEW x \in VersionRecord, NEW m \in Int, NEW l \in Int, NEW z \in Seq(Devices)
          PROVE  [x EXCEPT !.queue = z, !.step = m, !.progress = l] \in VersionRecord
      BY DEF VersionRecord
    <3>2. w.v \in VersionRecord /\ n \in Int /\ 0 \in Int
      BY DEF World
    <3>3. v = [w.v EXCEPT !.queue = q, !.step = n, !.progress = 0]
      BY <2>4
    <3> HIDE DEF v
    <3>4. v \in VersionRecord
      BY <2>1, <3>1, <3>2, <3>3
    <3> QED
      BY <3>2, <3>3, <3>4 DEF VersionRecord
  <2>6. a = [w EXCEPT !.v = v]
    BY DEF World, VersionRecord
  <2> HIDE DEF a, v, d, r
  <2>7. a \in World /\ a.v = v /\ a.out = <<>> /\ ~a.crashed
    BY <2>5, <2>6 DEF World
  <2>8. finishActivation(a) \in World /\ finishActivation(a).v.step = n
        /\ finishActivation(a).v.progress = NoProgress
    <3>1. finishActivation(a) \in World
          /\ finishActivation(a).v = [v EXCEPT !.requested = "None", !.status = "Active",
                                               !.progress = NoProgress]
      BY <2>7, FinishFacts
    <3> QED
      BY <2>5, <3>1 DEF VersionRecord
  <2>9. CASE c.filter = "UpdateNone"
    <3>1. r.w = finishActivation(a) /\ r.status = "Active"
      BY <2>2, <2>9
    <3> QED
      BY <2>8, <3>1 DEF r
  <2>10. CASE c.filter # "UpdateNone" /\ q = <<>>
    <3>1. d.w = finishActivation(a) /\ d.ok = TRUE
      BY <2>5, <2>7, <2>10 DEF d, doUpdate
    <3>2. r.w = [d.w EXCEPT !.crashed = TRUE] /\ r.status = "Active"
      BY <2>2, <2>8, <2>10, <3>1
    <3>3. r.w \in World /\ r.w.v = d.w.v
      BY <2>8, <3>1, <3>2 DEF World
    <3> QED
      BY <2>8, <3>1, <3>2, <3>3 DEF r
  <2>11. CASE c.filter # "UpdateNone" /\ q # <<>>
    <3> DEFINE u == <<Head(q), v.path>>
    <3>1. d = doUpdateDevice(a, c.sent)
      BY <2>5, <2>7, <2>11 DEF d, doUpdate
    <3>2. /\ d.w \in World /\ d.ok = c.sent
          /\ c.sent => /\ d.w.v = [v EXCEPT !.unit = u, !.timer = TRUE]
                       /\ d.w.out = Append(<<>>, <<"start", u>>)
          /\ ~c.sent => d.w.v = [v EXCEPT !.unit = u, !.queue = <<>>, !.status = "Failed",
                                          !.progress = NoProgress, !.requested = "None"]
      <4>1. a \in World /\ a.v = v /\ a.v.queue # <<>> /\ a.out = <<>> /\ v.queue = q
        BY <2>5, <2>7, <2>11
      <4>2. /\ d.w \in World /\ d.ok = c.sent
            /\ c.sent => /\ d.w.v = [a.v EXCEPT !.unit = <<Head(a.v.queue), a.v.path>>, !.timer = TRUE]
                         /\ d.w.out = Append(a.out, <<"start", <<Head(a.v.queue), a.v.path>> >>)
            /\ ~c.sent => d.w.v = [a.v EXCEPT !.unit = <<Head(a.v.queue), a.v.path>>, !.queue = <<>>,
                                              !.status = "Failed", !.progress = NoProgress,
                                              !.requested = "None"]
        BY <3>1, <4>1, DeviceFacts
      <4> QED
        BY <4>1, <4>2
    <3> HIDE DEF u
    <3>3. CASE ~c.sent
      <4>1. r.w = d.w /\ r.status = "Failed"
        BY <2>2, <2>11, <3>2, <3>3
      <4>2. d.w.v.step = n /\ d.w.v.progress = NoProgress
        BY <2>5, <3>2, <3>3 DEF VersionRecord
      <4> QED
        BY <3>2, <4>1, <4>2 DEF r
    <3>4. CASE c.sent
      <4>1. /\ d.w.v.step = n /\ d.w.v.progress = 0 /\ d.w.v.unit = u /\ d.w.v.timer = TRUE
            /\ d.w.v.queue = q /\ d.w.v.path = v.path /\ d.w.v \in VersionRecord
        BY <2>5, <3>2, <3>4 DEF World, VersionRecord
      <4>2. NoProgress # 0
        BY DEF NoProgress
      <4>3. r.w = [d.w EXCEPT !.v.progress = 10] /\ r.status = "Activating"
        BY <2>2, <2>11, <3>2, <3>4, <4>1, <4>2
      <4>4. r.w = [d.w EXCEPT !.v = [d.w.v EXCEPT !.progress = 10]]
        BY <3>2, <4>3 DEF World
      <4>5. [d.w.v EXCEPT !.progress = 10] \in VersionRecord
        <5>1. ASSUME NEW x \in VersionRecord, NEW l \in Int
              PROVE  [x EXCEPT !.progress = l] \in VersionRecord
          BY DEF VersionRecord
        <5>2. 10 \in Int
          OBVIOUS
        <5> QED
          BY <4>1, <5>1, <5>2
      <4>6. r.w \in World /\ r.w.v = [d.w.v EXCEPT !.progress = 10] /\ r.w.out = d.w.out
        BY <3>2, <4>4, <4>5 DEF World
      <4>7. /\ r.w.v.step = n /\ r.w.v.progress = 10 /\ r.w.v.unit = u /\ r.w.v.timer = TRUE
            /\ r.w.v.queue = q /\ r.w.v.path = v.path
        BY <4>1, <4>6 DEF VersionRecord
      <4>8. r.w.out = << <<"start", u>> >>
        BY <3>2, <3>4, <4>6
      <4>9. InProgress(r.w.v)
        BY <2>3, <2>4, <2>11, <4>7 DEF InProgress, u
      <4> QED
        BY <4>3, <4>6, <4>7, <4>8, <4>9 DEF r
    <3> QED
      BY <3>3, <3>4
  <2> QED
    BY <2>9, <2>10, <2>11
<1> QED
  BY <1>1, <1>2

(* requestedActivation(Active): nothing but the property changes while an  *)
(* activation is in progress; one that starts calls its first service.     *)
LEMMA SameButRequested ==
    ASSUME NEW v, NEW x, VersionRight(v), x = [v EXCEPT !.requested = "Active"]
    PROVE  /\ VersionRight(x) /\ (Activating(x) <=> Activating(v))
           /\ x.unit = v.unit /\ x.queue = v.queue /\ x.path = v.path
<1>1. v \in VersionRecord
  BY DEF VersionRight
<1>2. /\ x \in VersionRecord /\ x.unit = v.unit /\ x.queue = v.queue /\ x.path = v.path
      /\ x.status = v.status /\ x.timer = v.timer /\ x.progress = v.progress /\ x.step = v.step
  BY <1>1 DEF VersionRecord
<1> QED
  BY <1>2 DEF VersionRight, InProgress, Activating

LEMMA RequestFacts ==
    ASSUME Types, version # NoVersion, NEW c \in Circumstances(Daemon)
    PROVE  LET x == requestedActivation(Daemon, "Active", c)
           IN  /\ x \in World /\ VersionRight(x.v)
               /\ Activating(version) => /\ Activating(x.v) /\ x.out = <<>>
                                         /\ x.v.unit = version.unit /\ x.v.queue = version.queue
               /\ ~Activating(version) /\ Activating(x.v) => x.out = << <<"start", x.v.unit>> >>
<1> DEFINE x == requestedActivation(Daemon, "Active", c)
<1>1. /\ Daemon \in World /\ Daemon.v = version /\ Daemon.out = <<>> /\ ~Daemon.crashed
      /\ VersionRight(version)
  BY DaemonWorld DEF Types
<1>2. c.sent \in BOOLEAN /\ c.compatible \in Listings(inventory)
  BY UpdaterAssumption DEF Circumstances
<1>3. CASE ~Starts(Daemon, "Active")
  <2>1. x = SetRequested(Daemon, "Active")
    BY <1>3 DEF requestedActivation
  <2> HIDE DEF x
  <2>2. x \in World /\ x.v = [version EXCEPT !.requested = "Active"] /\ x.out = <<>>
    BY <1>1, <2>1, SetRequestedFacts
  <2>3. ~Activating(version) => ~Activating(x.v)
    BY <1>1, <2>2, SameButRequested
  <2> QED
    BY <1>1, <2>2, <2>3, SameButRequested DEF x
<1>4. CASE Starts(Daemon, "Active")
  <2> DEFINE r == startActivation(Daemon, c)
             done == [r.w EXCEPT !.v.status = r.status]
             value == IF r.status = "Failed" THEN "None" ELSE "Active"
  <2>1. ~Activating(version) /\ version.progress = NoProgress /\ version.step \in 0..90
    BY <1>1, <1>4 DEF Starts, Activating, VersionRight
  <2>2. /\ r.w \in World /\ r.w.v.step \in 0..90
        /\ r.status \in {"Failed", "Active", "Activating"}
        /\ r.status # "Activating" => r.w.v.progress = NoProgress
        /\ r.status = "Activating" => InProgress(r.w.v) /\ r.w.out = << <<"start", r.w.v.unit>> >>
    <3>1. Daemon.v.step \in 0..90 /\ Daemon.v.progress = NoProgress /\ inventory \subseteq Devices
      BY <1>1, <2>1 DEF Types
    <3>2. PICK w \in World : w = Daemon
      BY <1>1
    <3>3. /\ ~w.crashed /\ w.out = <<>> /\ w.v.step \in 0..90 /\ w.v.progress = NoProgress
      BY <1>1, <3>1, <3>2
    <3>4. LET y == startActivation(w, c)
          IN  /\ y.w \in World /\ y.w.v.step \in 0..90
              /\ y.status \in {"Failed", "Active", "Activating"}
              /\ y.status # "Activating" => y.w.v.progress = NoProgress
              /\ y.status = "Activating" =>
                    InProgress(y.w.v) /\ y.w.out = << <<"start", y.w.v.unit>> >>
      BY <1>2, <3>1, <3>3, StartFacts
    <3> QED
      BY <3>2, <3>4
  <2>3. x = SetRequested(done, value)
    BY <1>4 DEF requestedActivation
  <2> HIDE DEF r, x
  <2>4. PICK t \in Statuses : t = r.status
    BY <2>2 DEF Statuses
  <2>5. done = [r.w EXCEPT !.v = [r.w.v EXCEPT !.status = t]]
    BY <2>2, <2>4 DEF World
  <2>6. [r.w.v EXCEPT !.status = t] \in VersionRecord
    BY <2>2 DEF World, VersionRecord
  <2> HIDE DEF done
  <2>7. done \in World /\ done.v = [r.w.v EXCEPT !.status = t] /\ done.out = r.w.out
    BY <2>2, <2>5, <2>6 DEF World
  <2>8. value \in {"None", "Active"}
    OBVIOUS
  <2> HIDE DEF value
  <2>9. x \in World /\ x.v = [done.v EXCEPT !.requested = value] /\ x.out = r.w.out
    BY <2>3, <2>7, <2>8, SetRequestedFacts
  <2>10. /\ x.v \in VersionRecord /\ x.v.status = t /\ x.v.step = r.w.v.step /\ x.v.queue = r.w.v.queue
         /\ x.v.unit = r.w.v.unit /\ x.v.timer = r.w.v.timer /\ x.v.progress = r.w.v.progress
         /\ x.v.path = r.w.v.path
    BY <2>2, <2>7, <2>8, <2>9 DEF World, VersionRecord
  <2>11. CASE t = "Activating"
    <3>1. InProgress(x.v)
      BY <2>2, <2>4, <2>10, <2>11 DEF InProgress
    <3>2. VersionRight(x.v)
      BY <2>2, <2>10, <2>11, <3>1 DEF VersionRight, Activating
    <3>3. x.out = << <<"start", x.v.unit>> >>
      BY <2>2, <2>4, <2>9, <2>10, <2>11
    <3> QED
      BY <2>1, <2>9, <3>2, <3>3 DEF x
  <2>12. CASE t # "Activating"
    <3>1. VersionRight(x.v) /\ ~Activating(x.v)
      BY <2>2, <2>4, <2>10, <2>12, Over
    <3> QED
      BY <2>1, <2>9, <3>1 DEF x
  <2> QED
    BY <2>11, <2>12
<1> QED
  BY <1>3, <1>4

-----------------------------------------------------------------------------
(* What a callback leaves behind.                                          *)
LEMMA TailFacts ==
    ASSUME NEW S, NEW s \in Seq(S), s # <<>>
    PROVE  /\ Head(s) \in S /\ Head(s) = s[1] /\ Tail(s) \in Seq(S)
           /\ Len(s) \in Nat /\ 1 \in 1..Len(s) /\ Len(Tail(s)) = Len(s) - 1
           /\ \A i \in 1..Len(Tail(s)) : i + 1 \in 1..Len(s) /\ Tail(s)[i] = s[i + 1]
  OBVIOUS

LEMMA BecomesFacts ==
    ASSUME Types, NEW x \in World, VersionRight(x.v), NEW received \in Seq(Messages),
           Becomes(x, received)
    PROVE  /\ version' = x.v /\ version' # NoVersion /\ files' \subseteq Images
           /\ daemon' \in {"up", "crashed"}
           /\ calls' = calls \o x.out /\ calls' \in Seq({"start", "stop"} \X Units)
           /\ inbox' \in Seq(Messages)
           /\ \A i \in 1..Len(inbox') :
                 Ours(inbox'[i]) => i \in 1..Len(received) /\ inbox'[i] = received[i]
<1>1. version' = x.v /\ files' \subseteq Images /\ daemon' \in {"up", "crashed"}
  BY DEF Becomes, World
<1>2. version' # NoVersion
  BY <1>1 DEF VersionRight, VersionRecord, NoVersion, Statuses
<1>3. calls' = calls \o x.out /\ calls' \in Seq({"start", "stop"} \X Units)
  BY DEF Becomes, World, Types
<1>4. PICK n \in Nat : n = x.echoes * matches
  BY DEF World, Types
<1> DEFINE e == [i \in 1..n |-> Echo]
<1>5. e \in Seq(Messages) /\ Len(e) = n /\ \A i \in 1..n : e[i] = Echo
  BY EchoFacts
<1>6. inbox' = received \o e
  BY <1>4 DEF Becomes
<1> HIDE DEF e
<1>7. /\ inbox' \in Seq(Messages) /\ Len(inbox') = Len(received) + n /\ Len(received) \in Nat
      /\ \A i \in 1..Len(received) : inbox'[i] = received[i]
      /\ \A i \in 1..Len(inbox') : i \notin 1..Len(received) => inbox'[i] = e[i - Len(received)]
  BY <1>5, <1>6
<1>8. ASSUME NEW i \in 1..Len(inbox'), Ours(inbox'[i])
      PROVE  i \in 1..Len(received) /\ inbox'[i] = received[i]
  <2>1. CASE i \in 1..Len(received)
    BY <1>7, <2>1
  <2>2. CASE i \notin 1..Len(received)
    <3>1. i - Len(received) \in 1..n
      BY <1>7, <2>2
    <3>2. inbox'[i] = Echo
      BY <1>5, <1>7, <2>2, <3>1
    <3> QED
      BY <1>8, <3>2, EchoFacts
  <2> QED
    BY <2>1, <2>2
<1> QED
  BY <1>1, <1>2, <1>3, <1>7, <1>8

LEMMA TrackFacts ==
    ASSUME Types, NEW b \in BOOLEAN, Track(b)
    PROVE  /\ served' \subseteq Devices /\ clean' \in BOOLEAN
           /\ clean' => Activating(version')
           /\ clean' /\ Activating(version) => clean /\ served' = served
           /\ clean' /\ ~Activating(version) => b
  BY DEF Track, Types, Activating

LEMMA NothingLeftIsBoolean == ASSUME NEW received PROVE NothingLeft(received) \in BOOLEAN
  BY DEF NothingLeft

LEMMA RequestTypes ==
    ASSUME Types, version # NoVersion, NEW received \in Seq(Messages), Request("Active", received),
           UNCHANGED <<matches, written, inventory, units>>
    PROVE  Types'
<1>1. PICK c \in Circumstances(Daemon) : Becomes(requestedActivation(Daemon, "Active", c), received)
  BY DEF Request
<1> DEFINE x == requestedActivation(Daemon, "Active", c)
<1>2. x \in World /\ VersionRight(x.v)
  BY RequestFacts
<1> HIDE DEF x
<1>3. Becomes(x, received)
  BY <1>1 DEF x
<1>4. served' \subseteq Devices /\ clean' \in BOOLEAN
  BY TrackFacts, NothingLeftIsBoolean DEF Request
<1>5. /\ version' = x.v /\ files' \subseteq Images /\ daemon' \in {"up", "crashed"}
      /\ calls' \in Seq({"start", "stop"} \X Units) /\ inbox' \in Seq(Messages)
  BY <1>2, <1>3, BecomesFacts
<1> QED
  BY <1>2, <1>4, <1>5 DEF Types

(* A callback of the daemon that ends in the state x.                      *)
LEMMA CallbackTypes ==
    ASSUME Types, NEW x \in World, VersionRight(x.v), NEW received \in Seq(Messages),
           Becomes(x, received), Track(FALSE), UNCHANGED <<matches, written, inventory, units>>
    PROVE  Types'
<1>1. served' \subseteq Devices /\ clean' \in BOOLEAN
  BY TrackFacts
<1>2. /\ version' = x.v /\ files' \subseteq Images /\ daemon' \in {"up", "crashed"}
      /\ calls' \in Seq({"start", "stop"} \X Units) /\ inbox' \in Seq(Messages)
  BY BecomesFacts
<1> QED
  BY <1>1, <1>2 DEF Types

(* A job's result changes the object by one of three callbacks.            *)
LEMMA JobCases ==
    ASSUME Types, unitStateChange
    PROVE  /\ inbox # <<>> /\ Tail(inbox) \in Seq(Messages) /\ Track(FALSE)
           /\ UNCHANGED <<matches, written, inventory, units, deletes>>
           /\ \/ /\ version # NoVersion /\ Head(inbox).type = "job"
                 /\ Head(inbox).unit = version.unit /\ Head(inbox).result = "done"
                 /\ \E x \in World : \E sent \in BOOLEAN :
                       x = onUpdateDone(Daemon, sent) /\ Becomes(x, Tail(inbox))
              \/ /\ version # NoVersion /\ Becomes(onUpdateFailed(Daemon), Tail(inbox))
              \/ inbox' = Tail(inbox) /\ UNCHANGED <<version, files, calls, daemon>>
<1>1. inbox # <<>> /\ inbox \in Seq(Messages) /\ Head(inbox).type = "job"
  BY DEF unitStateChange, Received, Types
<1>2. ASSUME version # NoVersion, NEW sent \in BOOLEAN PROVE onUpdateDone(Daemon, sent) \in World
  BY <1>2, DaemonWorld, DoneFacts DEF Types
<1>3. BusResults \subseteq BOOLEAN
  BY UpdaterAssumption
<1> QED
  BY <1>1, <1>2, <1>3, TailFacts DEF unitStateChange, ForCurrentUnit

LEMMA FailedCallback ==
    ASSUME Types, version # NoVersion
    PROVE  LET x == onUpdateFailed(Daemon)
           IN  /\ x \in World /\ VersionRight(x.v)
               /\ (x.v = version /\ x.out = <<>>) \/ ~Activating(x.v)
               /\ Activating(version) => ~Activating(x.v) /\ x.v.status = "Failed"
<1> DEFINE x == onUpdateFailed(Daemon)
<1>1. Daemon \in World /\ Daemon.v = version /\ Daemon.out = <<>> /\ VersionRight(version)
  BY DaemonWorld DEF Types
<1>2. CASE version.queue = <<>>
  <2>1. x \in World /\ x.v = version /\ x.out = <<>>
    BY <1>1, <1>2, FailedFacts
  <2>2. ~Activating(version)
    BY <1>1, <1>2 DEF VersionRight, InProgress
  <2> QED
    BY <1>1, <2>1, <2>2
<1>3. CASE version.queue # <<>>
  <2>1. x \in World /\ x.v = [version EXCEPT !.queue = <<>>, !.status = "Failed",
                                             !.progress = NoProgress, !.requested = "None"]
    BY <1>1, <1>3, FailedFacts
  <2> HIDE DEF x
  <2>2. x.v \in VersionRecord /\ x.v.step = version.step /\ x.v.status = "Failed" /\ x.v.progress = NoProgress
    BY <1>1, <2>1 DEF World, VersionRecord, VersionRight
  <2>3. version.step \in 0..90
    BY <1>1 DEF VersionRight
  <2> QED
    BY <2>1, <2>2, <2>3, Over DEF x
<1> QED
  BY <1>2, <1>3

(* The watchdog ends an activation.                                        *)
TimedOut(x) ==
    /\ VersionRight(x.v) /\ ~Activating(x.v) /\ Becomes(x, inbox)
    /\ Activating(version) => x.v.status = "Failed"
LEMMA TimerFacts ==
    ASSUME Types, TimerExpired
    PROVE  /\ version # NoVersion /\ Track(FALSE)
           /\ UNCHANGED <<matches, written, inventory, units, deletes>>
           /\ \E x \in World : TimedOut(x)
<1> DEFINE w == [Daemon EXCEPT !.v.timer = FALSE]
           x == IF version.queue = <<>> THEN w ELSE cancelInProgressUpdate(w)
<1>1. version # NoVersion /\ Becomes(x, inbox)
  BY DEF TimerExpired, Ready
<1>2. Daemon \in World /\ Daemon.v = version /\ VersionRight(version) /\ version \in VersionRecord
  BY <1>1, DaemonWorld DEF Types, VersionRight
<1>3. /\ w = [Daemon EXCEPT !.v = [version EXCEPT !.timer = FALSE]]
      /\ [version EXCEPT !.timer = FALSE] \in VersionRecord
  BY <1>2 DEF World, VersionRecord
<1>4. w \in World /\ w.v = [version EXCEPT !.timer = FALSE]
  <2> HIDE DEF w
  <2> QED
    BY <1>2, <1>3 DEF World
<1>5. /\ w.v \in VersionRecord /\ w.v.queue = version.queue /\ w.v.step = version.step
      /\ w.v.status = version.status /\ w.v.progress = version.progress
  BY <1>2, <1>3, <1>4 DEF VersionRecord
<1>6. version.step \in 0..90
  BY <1>2 DEF VersionRight
<1> HIDE DEF w
<1>7. /\ x \in World /\ VersionRight(x.v) /\ ~Activating(x.v)
      /\ Activating(version) => x.v.status = "Failed"
  <2>1. CASE version.queue = <<>>
    <3>1. ~Activating(version) /\ version.progress = NoProgress
      BY <1>2, <2>1 DEF VersionRight, InProgress
    <3>2. w.v.status # "Activating" /\ w.v.progress = NoProgress /\ w.v.step \in 0..90
      BY <1>5, <1>6, <3>1 DEF Activating
    <3> QED
      BY <1>4, <1>5, <2>1, <3>1, <3>2, Over
  <2>2. CASE version.queue # <<>>
    BY <1>4, <1>5, <1>6, <2>2, CancelFacts
  <2> QED
    BY <2>1, <2>2
<1> HIDE DEF x
<1>8. TimedOut(x)
  BY <1>1, <1>7 DEF TimedOut
<1> QED
  BY <1>1, <1>7, <1>8 DEF TimerExpired

-----------------------------------------------------------------------------
(* Types.                                                                  *)
LEMMA SoftwareObject ==
    ASSUME NEW v, NEW S, v = NoVersion \/ VersionRight(v)
    PROVE  LET x == createSoftwareObject(v, S)
           IN  /\ x = NoVersion \/ VersionRight(x)
               /\ x = v \/ (v = NoVersion /\ ~Activating(x))
  BY NewVersion DEF createSoftwareObject, Paths

LEMMA SignalTypes ==
    ASSUME Types, NEW u \in Units \cup {OtherUnit}, NEW x \in Results, Signal(JobRemoved(u, x))
    PROVE  /\ inbox' \in Seq(Messages) /\ Len(inbox) \in Nat /\ Len(inbox') = Len(inbox) + 1
           /\ \A i \in 1..Len(inbox) : inbox'[i] = inbox[i]
           /\ inbox'[Len(inbox) + 1] = JobRemoved(u, x)
<1>1. PICK m \in Messages : m = JobRemoved(u, x)
  BY JobFacts
<1>2. inbox \in Seq(Messages) /\ inbox' = Append(inbox, m)
  BY <1>1 DEF Signal, Types
<1>3. /\ inbox' \in Seq(Messages) /\ Len(inbox) \in Nat /\ Len(inbox') = Len(inbox) + 1
      /\ \A i \in 1..Len(inbox) : inbox'[i] = inbox[i]
      /\ inbox'[Len(inbox) + 1] = m
  BY <1>2
<1> QED
  BY <1>1, <1>3

(* systemd takes a call.                                                   *)
LEMMA CallFacts ==
    ASSUME Types, SystemdCall
    PROVE  /\ calls # <<>> /\ Head(calls)[1] \in {"start", "stop"} /\ Head(calls)[2] \in Units
           /\ calls' = Tail(calls) /\ Tail(calls) \in Seq({"start", "stop"} \X Units)
           /\ UNCHANGED <<daemonVars, files, written, inventory, deletes, served, clean>>
           /\ Head(calls)[1] = "start" => StartUnit(Head(calls)[2])
           /\ Head(calls)[1] = "stop" => StopUnit(Head(calls)[2])
<1>1. calls # <<>> /\ calls \in Seq({"start", "stop"} \X Units)
  BY DEF SystemdCall, Types
<1>2. Head(calls) \in {"start", "stop"} \X Units /\ Tail(calls) \in Seq({"start", "stop"} \X Units)
  BY <1>1
<1> QED
  BY <1>1, <1>2 DEF SystemdCall

LEMMA UnitTypes ==
    ASSUME Types, NEW u \in Units, StartUnit(u) \/ StopUnit(u)
    PROVE  /\ units' \in [Units -> {"inactive", "running", "imageless", "stopping"}]
           /\ inbox' \in Seq(Messages)
<1>1. inbox \in Seq(Messages)
  BY DEF Types
<1>2. CASE StartUnit(u)
  <2>1. UNCHANGED inbox \/ Signal(JobRemoved(u, "canceled"))
    BY <1>2 DEF StartUnit
  <2>2. inbox' \in Seq(Messages)
    BY <1>1, <2>1, SignalTypes DEF Results
  <2> QED
    BY <1>2, <2>2 DEF StartUnit, Types
<1>3. CASE StopUnit(u)
  <2>1. UNCHANGED inbox \/ Signal(JobRemoved(u, "canceled")) \/ Signal(JobRemoved(u, "done"))
    BY <1>3 DEF StopUnit
  <2>2. inbox' \in Seq(Messages)
    BY <1>1, <2>1, SignalTypes DEF Results
  <2> QED
    BY <1>3, <2>2 DEF StopUnit, Types
<1> QED
  BY <1>2, <1>3

LEMMA TypesStep == ASSUME Types, [Next]_vars PROVE Types'
<1>1. CASE UNCHANGED vars
  BY <1>1 DEF vars, daemonVars, systemdVars, Types
<1>2. CASE SetRequestedActivation
  BY <1>2, RequestTypes DEF SetRequestedActivation, Ready, Types
<1>3. CASE onReqActivationChanged
  <2>1. Tail(inbox) \in Seq(Messages)
    BY <1>3, TailFacts DEF onReqActivationChanged, Received, Types
  <2>2. CASE version # NoVersion
    BY <1>3, <2>1, <2>2, RequestTypes DEF onReqActivationChanged
  <2>3. CASE version = NoVersion
    BY <1>3, <2>1, <2>3 DEF onReqActivationChanged, Types
  <2> QED
    BY <2>2, <2>3
<1>4. CASE unitStateChange
  <2>1. /\ Tail(inbox) \in Seq(Messages) /\ Track(FALSE)
        /\ UNCHANGED <<matches, written, inventory, units>>
    BY <1>4, JobCases
  <2>2. CASE version # NoVersion /\ \E x \in World : \E sent \in BOOLEAN :
                       x = onUpdateDone(Daemon, sent) /\ Becomes(x, Tail(inbox))
    <3>1. PICK x \in World : \E sent \in BOOLEAN :
                       x = onUpdateDone(Daemon, sent) /\ Becomes(x, Tail(inbox))
      BY <2>2
    <3>2. VersionRight(x.v)
      BY <2>2, <3>1, DaemonWorld, DoneFacts DEF Types
    <3> QED
      BY <2>1, <3>1, <3>2, CallbackTypes
  <2>3. CASE version # NoVersion /\ Becomes(onUpdateFailed(Daemon), Tail(inbox))
    BY <2>1, <2>3, FailedCallback, CallbackTypes
  <2>4. CASE inbox' = Tail(inbox) /\ UNCHANGED <<version, files, calls, daemon>>
    <3>1. served' \subseteq Devices /\ clean' \in BOOLEAN
      BY <2>1, TrackFacts
    <3> QED
      BY <2>1, <2>4, <3>1 DEF Types
  <2> QED
    BY <1>4, <2>2, <2>3, <2>4, JobCases
<1>5. CASE TimerExpired
  <2>1. PICK x \in World : TimedOut(x)
    BY <1>5, TimerFacts
  <2> QED
    BY <1>5, <2>1, TimerFacts, CallbackTypes DEF Types, TimedOut
<1>6. ASSUME NEW i \in Images, Upload(i) PROVE Types'
  BY <1>6 DEF Upload, Types, daemonVars, systemdVars
<1>7. ASSUME NEW i \in Images, processImage(i) PROVE Types'
  <2>1. VersionRight(Version(i, "Ready"))
    BY NewVersion DEF Paths
  <2>2. /\ files' \subseteq Images /\ written' \subseteq Images /\ matches' \in Nat
        /\ UNCHANGED <<daemon, inventory, units, calls, inbox, served, clean>>
    BY <1>7 DEF processImage, initiateUpdateImage, Types, systemdVars
  <2>3. version' = NoVersion \/ VersionRight(version')
    BY <1>7, <2>1 DEF processImage, initiateUpdateImage, Types
  <2> QED
    BY <2>2, <2>3 DEF Types
<1>8. CASE delete
  <2>1. served' \subseteq Devices /\ clean' \in BOOLEAN
    BY <1>8, TrackFacts DEF delete
  <2> QED
    BY <1>8, <2>1 DEF delete, Types, systemdVars
<1>9. ASSUME NEW d \in Devices, newDeviceAdded(d) PROVE Types'
  <2>1. version' = NoVersion \/ VersionRight(version')
    BY <1>9, SoftwareObject DEF newDeviceAdded, Types
  <2> QED
    BY <1>9, <2>1 DEF newDeviceAdded, Types, systemdVars
<1>10. CASE Restart
  <2>1. version' = NoVersion \/ VersionRight(version')
    BY <1>10, SoftwareObject DEF Restart
  <2>2. served' \subseteq Devices /\ clean' \in BOOLEAN
    BY <1>10, TrackFacts DEF Restart
  <2> QED
    BY <1>10, <2>1, <2>2 DEF Restart, Types, systemdVars
<1>11. CASE SystemdCall
  <2>1. /\ units' \in [Units -> {"inactive", "running", "imageless", "stopping"}]
        /\ inbox' \in Seq(Messages)
    BY <1>11, CallFacts, UnitTypes
  <2>2. /\ calls' \in Seq({"start", "stop"} \X Units)
        /\ UNCHANGED <<daemonVars, files, written, inventory, deletes, served, clean>>
    BY <1>11, CallFacts
  <2> QED
    BY <2>1, <2>2 DEF Types, daemonVars
<1>12. ASSUME NEW u \in Units, NEW x \in {"done", "failed", "timeout"}, UnitEnds(u, x) PROVE Types'
  <2>1. inbox' \in Seq(Messages)
    BY <1>12, SignalTypes DEF UnitEnds, Results
  <2>2. served' \subseteq Devices
    BY <1>12, UnitFacts DEF UnitEnds, Types
  <2> QED
    BY <1>12, <2>1, <2>2 DEF UnitEnds, Types, daemonVars
<1>13. ASSUME NEW u \in Units, StopEnds(u) PROVE Types'
  <2>1. inbox' \in Seq(Messages)
    BY <1>13, SignalTypes DEF StopEnds, Results
  <2> QED
    BY <1>13, <2>1 DEF StopEnds, Types, daemonVars
<1>14. CASE OtherJob("done")
  <2>1. inbox' \in Seq(Messages)
    BY <1>14, SignalTypes DEF OtherJob, Results
  <2> QED
    BY <1>14, <2>1 DEF OtherJob, Types, daemonVars, systemdVars
<1> QED
  BY <1>1, <1>2, <1>3, <1>4, <1>5, <1>6, <1>7, <1>8, <1>9, <1>10, <1>11, <1>12, <1>13, <1>14
     DEF Next, Client, Systemd

-----------------------------------------------------------------------------
(* The one place of the current service.                                   *)

(* Messages leave the inbox, nothing else happens to the activation.       *)
LEMMA LessMail ==
    ASSUME Types, AtWork, Activating(version'), version'.unit = version.unit,
           UNCHANGED <<calls, units, served>>, Types', NEW k \in {0, 1},
           \A i \in 1..Len(inbox') : Ours(inbox'[i]) =>
              i + k \in 1..Len(inbox) /\ inbox'[i] = inbox[i + k]
    PROVE  AtWork'
<1>1. \A i \in 1..Len(inbox') : Ours(inbox'[i]) =>
         i + k \in 1..Len(inbox) /\ Ours(inbox[i + k]) /\ inbox'[i] = inbox[i + k]
  OBVIOUS
<1>2. \A u \in Units : units[u] # "inactive" =>
          /\ u = version.unit /\ units[u] \in {"running", "imageless"}
          /\ \A i \in 1..Len(inbox') : ~Ours(inbox'[i])
  BY <1>1 DEF AtWork
<1>3. calls # <<>> => /\ \A u \in Units : units[u] = "inactive"
                      /\ \A i \in 1..Len(inbox') : ~Ours(inbox'[i])
  BY <1>1 DEF AtWork
<1>4. \A i \in 1..Len(inbox') : Ours(inbox'[i]) =>
          /\ inbox'[i].unit = version.unit
          /\ inbox'[i].result = "done" => version.unit[1] \in served
  BY <1>1 DEF AtWork
<1>5. \A i, j \in 1..Len(inbox') : Ours(inbox'[i]) /\ Ours(inbox'[j]) => i = j
  <2> SUFFICES ASSUME NEW i \in 1..Len(inbox'), NEW j \in 1..Len(inbox'),
                      Ours(inbox'[i]), Ours(inbox'[j])
               PROVE  i = j
    OBVIOUS
  <2>1. i + k = j + k
    BY <1>1 DEF AtWork
  <2> QED
    BY <2>1
<1>6. calls = <<>> \/ calls = << <<"start", version.unit>> >>
  BY DEF AtWork
<1> QED
  BY <1>2, <1>3, <1>4, <1>5, <1>6 DEF AtWork

(* A service is about to be started and nothing else is there.             *)
LEMMA FreshStart ==
    ASSUME Activating(version'), calls' = << <<"start", version'.unit>> >>,
           \A u \in Units : units'[u] = "inactive",
           \A i \in 1..Len(inbox') : ~Ours(inbox'[i])
    PROVE  AtWork'
  BY DEF AtWork

(* A request: answered by the activation in progress, or it starts one.    *)
LEMMA RequestWork ==
    ASSUME Types, clean => AtWork, version # NoVersion, NEW received \in Seq(Messages),
           Request("Active", received), UNCHANGED <<matches, written, inventory, units>>,
           NEW k \in {0, 1}, clean',
           \A i \in 1..Len(received) : i + k \in 1..Len(inbox) /\ received[i] = inbox[i + k]
    PROVE  AtWork'
<1>1. PICK c \in Circumstances(Daemon) : Becomes(requestedActivation(Daemon, "Active", c), received)
  BY DEF Request
<1> DEFINE x == requestedActivation(Daemon, "Active", c)
<1>2. /\ x \in World /\ VersionRight(x.v)
      /\ Activating(version) => x.out = <<>> /\ x.v.unit = version.unit
      /\ ~Activating(version) /\ Activating(x.v) => x.out = << <<"start", x.v.unit>> >>
  BY RequestFacts
<1> HIDE DEF x
<1>3. Becomes(x, received)
  BY <1>1 DEF x
<1>4. /\ version' = x.v /\ calls' = calls \o x.out
      /\ \A i \in 1..Len(inbox') :
            Ours(inbox'[i]) => i \in 1..Len(received) /\ inbox'[i] = received[i]
  BY <1>2, <1>3, BecomesFacts
<1>5. /\ Activating(version')
      /\ Activating(version) => clean /\ served' = served
      /\ ~Activating(version) => NothingLeft(received)
  BY TrackFacts, NothingLeftIsBoolean DEF Request
<1>6. calls \in Seq({"start", "stop"} \X Units)
  BY DEF Types
<1>7. CASE Activating(version)
  <2>1. calls' = calls
    BY <1>2, <1>4, <1>6, <1>7
  <2>2. \A i \in 1..Len(inbox') : Ours(inbox'[i]) =>
           i + k \in 1..Len(inbox) /\ inbox'[i] = inbox[i + k]
    BY <1>4
  <2>3. version'.unit = version.unit /\ served' = served /\ AtWork
    BY <1>2, <1>4, <1>5, <1>7
  <2>4. Types'
    BY RequestTypes
  <2> QED
    BY <1>5, <2>1, <2>2, <2>3, <2>4, LessMail
<1>8. CASE ~Activating(version)
  <2>1. NothingLeft(received)
    BY <1>5, <1>8
  <2>2. calls' = << <<"start", version'.unit>> >>
    BY <1>2, <1>4, <1>5, <1>8, <2>1 DEF NothingLeft
  <2>3. \A i \in 1..Len(inbox') : ~Ours(inbox'[i])
    BY <1>4, <2>1 DEF NothingLeft, Ours
  <2>4. \A u \in Units : units'[u] = "inactive"
    BY <2>1 DEF NothingLeft
  <2> QED
    BY <1>5, <2>2, <2>3, <2>4, FreshStart
<1> QED
  BY <1>7, <1>8

(* The job at the head of the inbox is the current service's own: it was   *)
(* all there was, so nothing is under way once it has been read.           *)
LEMMA OwnJob ==
    ASSUME Types, AtWork, inbox # <<>>, Head(inbox).type = "job", Head(inbox).unit = version.unit
    PROVE  /\ calls = <<>> /\ \A u \in Units : units[u] = "inactive"
           /\ \A i \in 1..Len(Tail(inbox)) : ~Ours(Tail(inbox)[i])
           /\ Head(inbox).result = "done" => version.unit[1] \in served
           /\ version.unit = <<Head(version.queue), version.path>>
           /\ version.queue # <<>> /\ version.unit[1] = Head(version.queue)
<1>1. inbox \in Seq(Messages)
  BY DEF Types
<1>2. /\ Head(inbox) = inbox[1] /\ 1 \in 1..Len(inbox) /\ Len(inbox) \in Nat
      /\ \A i \in 1..Len(Tail(inbox)) : i + 1 \in 1..Len(inbox) /\ Tail(inbox)[i] = inbox[i + 1]
      /\ Len(Tail(inbox)) = Len(inbox) - 1
  BY <1>1, TailFacts
<1>3. VersionRight(version) /\ InProgress(version)
  BY NoActivation DEF AtWork, Types, VersionRight
<1>4. /\ version.unit = <<Head(version.queue), version.path>> /\ version.queue # <<>>
      /\ version.queue \in Seq(Devices) /\ version.path \in Paths
  BY <1>3 DEF InProgress, VersionRight, VersionRecord
<1>5. Head(version.queue) \in Devices
  BY <1>4
<1>6. version.unit \in Units /\ version.unit[1] = Head(version.queue)
  BY <1>4, <1>5, UnitFacts
<1>7. Ours(inbox[1])
  BY <1>2, <1>6, UnitFacts DEF Ours
<1>8. calls = <<>> /\ \A u \in Units : units[u] = "inactive"
  BY <1>2, <1>7 DEF AtWork
<1>9. ASSUME NEW i \in 1..Len(Tail(inbox)) PROVE ~Ours(Tail(inbox)[i])
  <2>1. i + 1 # 1 /\ i + 1 \in 1..Len(inbox) /\ Tail(inbox)[i] = inbox[i + 1]
    BY <1>2
  <2> QED
    BY <1>2, <1>7, <2>1 DEF AtWork
<1>10. inbox[1].result = "done" => version.unit[1] \in served
  BY <1>2, <1>7 DEF AtWork
<1> QED
  BY <1>2, <1>4, <1>6, <1>8, <1>9, <1>10

LEMMA JobWork ==
    ASSUME Types, clean => AtWork, unitStateChange, clean'
    PROVE  AtWork'
<1>1. /\ inbox # <<>> /\ Tail(inbox) \in Seq(Messages) /\ Track(FALSE) /\ UNCHANGED units
      /\ inbox \in Seq(Messages)
  BY JobCases DEF Types
<1>2. Activating(version) /\ Activating(version') /\ clean /\ served' = served /\ AtWork
  BY <1>1, TrackFacts
<1>3. Types'
  BY TypesStep DEF Next
<1>4. CASE /\ version # NoVersion /\ Head(inbox).type = "job"
           /\ Head(inbox).unit = version.unit /\ Head(inbox).result = "done"
           /\ \E x \in World : \E sent \in BOOLEAN :
                 x = onUpdateDone(Daemon, sent) /\ Becomes(x, Tail(inbox))
  <2>1. PICK x \in World : \E sent \in BOOLEAN :
               x = onUpdateDone(Daemon, sent) /\ Becomes(x, Tail(inbox))
    BY <1>4
  <2>2. /\ VersionRight(x.v) /\ Becomes(x, Tail(inbox))
        /\ \/ x.v = version /\ x.out = <<>>
           \/ ~Activating(x.v)
           \/ x.out = Append(<<>>, <<"start", x.v.unit>>)
    <3>1. PICK w \in World : w = Daemon /\ w.v = version /\ w.out = <<>> /\ VersionRight(w.v)
      BY <1>4, DaemonWorld DEF Types
    <3>2. PICK sent \in BOOLEAN : x = onUpdateDone(w, sent) /\ Becomes(x, Tail(inbox))
      BY <2>1, <3>1
    <3>3. /\ VersionRight(x.v)
          /\ \/ x.v = w.v /\ x.out = w.out
             \/ ~Activating(x.v)
             \/ x.out = Append(w.out, <<"start", x.v.unit>>)
      BY <3>1, <3>2, DoneFacts
    <3> QED
      BY <3>1, <3>2, <3>3
  <2>3. /\ version' = x.v /\ calls' = calls \o x.out
        /\ \A i \in 1..Len(inbox') : Ours(inbox'[i]) =>
              i \in 1..Len(Tail(inbox)) /\ inbox'[i] = Tail(inbox)[i]
    BY <1>1, <2>2, BecomesFacts
  <2>4. /\ calls = <<>> /\ \A u \in Units : units'[u] = "inactive"
        /\ \A i \in 1..Len(inbox') : ~Ours(inbox'[i])
    BY <1>1, <1>2, <1>4, <2>3, OwnJob
  <2>5. CASE x.v = version /\ x.out = <<>>
    <3>1. calls' = <<>>
      BY <2>3, <2>4, <2>5
    <3> QED
      BY <1>2, <2>4, <3>1 DEF AtWork
  <2>6. CASE x.out = Append(<<>>, <<"start", x.v.unit>>)
    <3>1. calls' = << <<"start", version'.unit>> >>
      BY <2>3, <2>4, <2>6
    <3> QED
      BY <1>2, <2>4, <3>1, FreshStart
  <2> QED
    BY <1>2, <2>2, <2>3, <2>5, <2>6
<1>5. CASE version # NoVersion /\ Becomes(onUpdateFailed(Daemon), Tail(inbox))
  <2> DEFINE x == onUpdateFailed(Daemon)
  <2>1. x \in World /\ VersionRight(x.v) /\ (Activating(version) => ~Activating(x.v))
    BY <1>5, FailedCallback
  <2>2. version' = x.v
    BY <1>1, <1>5, <2>1, BecomesFacts
  <2> QED
    BY <1>2, <2>1, <2>2
<1>6. CASE inbox' = Tail(inbox) /\ UNCHANGED <<version, files, calls, daemon>>
  <2>1. \A i \in 1..Len(inbox') : i + 1 \in 1..Len(inbox) /\ inbox'[i] = inbox[i + 1]
    BY <1>1, <1>6, TailFacts
  <2>2. 1 \in {0, 1} /\ version'.unit = version.unit
    BY <1>6
  <2> QED
    BY <1>1, <1>2, <1>3, <1>6, <2>1, <2>2, LessMail
<1> QED
  BY <1>4, <1>5, <1>6, JobCases

(* systemd's steps.                                                        *)
LEMMA CallWork ==
    ASSUME Types, AtWork, SystemdCall, Types'
    PROVE  AtWork'
<1>1. calls = << <<"start", version.unit>> >>
  BY CallFacts DEF AtWork
<1>2. calls' = <<>> /\ version.unit \in Units /\ StartUnit(version.unit)
  BY <1>1, CallFacts
<1>3. UNCHANGED <<version, served>>
  BY CallFacts DEF daemonVars
<1>4. /\ \A u \in Units : units[u] = "inactive"
      /\ \A i \in 1..Len(inbox) : ~Ours(inbox[i])
  BY <1>1 DEF AtWork
<1>5. UNCHANGED inbox
  BY <1>2, <1>4 DEF StartUnit
<1>6. \A u \in Units : units'[u] # "inactive" => u = version.unit /\ units'[u] \in {"running", "imageless"}
  BY <1>2, <1>4 DEF StartUnit, Types
<1> QED
  BY <1>2, <1>3, <1>4, <1>5, <1>6 DEF AtWork

LEMMA EndsWork ==
    ASSUME Types, clean, AtWork, NEW u \in Units, NEW x \in {"done", "failed", "timeout"},
           UnitEnds(u, x), Types'
    PROVE  AtWork'
<1>1. UNCHANGED <<version, calls>> /\ (x = "done" => u[1] \in served')
  BY DEF UnitEnds, daemonVars
<1>2. /\ u = version.unit /\ calls = <<>> /\ \A i \in 1..Len(inbox) : ~Ours(inbox[i])
      /\ \A v \in Units \ {u} : units[v] = "inactive"
  BY DEF UnitEnds, AtWork
<1>3. \A v \in Units : units'[v] = "inactive"
  BY <1>2 DEF UnitEnds, Types
<1>4. /\ Len(inbox) \in Nat /\ Len(inbox') = Len(inbox) + 1
      /\ \A i \in 1..Len(inbox) : inbox'[i] = inbox[i]
      /\ inbox'[Len(inbox) + 1] = JobRemoved(u, x)
  BY SignalTypes DEF UnitEnds, Results
<1>5. \A i \in 1..Len(inbox') : Ours(inbox'[i]) => i = Len(inbox) + 1
  BY <1>2, <1>4
<1>6. inbox'[Len(inbox) + 1].unit = version'.unit
      /\ (inbox'[Len(inbox) + 1].result = "done" => version'.unit[1] \in served')
  BY <1>1, <1>2, <1>4, JobFacts DEF Results
<1>7. \A i \in 1..Len(inbox') : Ours(inbox'[i]) =>
          /\ inbox'[i].unit = version'.unit
          /\ inbox'[i].result = "done" => version'.unit[1] \in served'
  BY <1>5, <1>6
<1> QED
  BY <1>1, <1>2, <1>3, <1>5, <1>7 DEF AtWork

LEMMA OtherWork ==
    ASSUME Types, AtWork, OtherJob("done"), Types'
    PROVE  AtWork'
<1>1. /\ Len(inbox) \in Nat /\ Len(inbox') = Len(inbox) + 1
      /\ \A i \in 1..Len(inbox) : inbox'[i] = inbox[i]
      /\ inbox'[Len(inbox) + 1] = JobRemoved(OtherUnit, "done")
  BY SignalTypes DEF OtherJob, Results
<1>2. ~Ours(inbox'[Len(inbox) + 1])
  BY <1>1, JobFacts DEF Ours, Results
<1>3. \A i \in 1..Len(inbox') : Ours(inbox'[i]) => i + 0 \in 1..Len(inbox) /\ inbox'[i] = inbox[i + 0]
  BY <1>1, <1>2
<1>4. UNCHANGED <<version, calls, units, served>> /\ 0 \in {0, 1}
  BY DEF OtherJob, daemonVars, systemdVars
<1>5. Activating(version') /\ version'.unit = version.unit
  BY <1>4 DEF AtWork
<1> QED
  BY <1>3, <1>4, <1>5, LessMail

LEMMA WorkStep ==
    ASSUME Types, clean => AtWork, [Next]_vars, clean'
    PROVE  AtWork'
<1>0. Types'
  BY TypesStep
<1> DEFINE Same == UNCHANGED <<version, calls, inbox, units, served>>
<1>a. Same /\ clean => AtWork'
  BY DEF AtWork
<1>1. CASE UNCHANGED vars
  BY <1>1, <1>a DEF vars, daemonVars, systemdVars
<1>2. CASE SetRequestedActivation
  <2>1. /\ version # NoVersion /\ Request("Active", inbox) /\ inbox \in Seq(Messages)
        /\ UNCHANGED <<matches, written, inventory, units>>
    BY <1>2 DEF SetRequestedActivation, Ready, Types
  <2>2. 0 \in {0, 1} /\ \A i \in 1..Len(inbox) : i + 0 \in 1..Len(inbox) /\ inbox[i] = inbox[i + 0]
    OBVIOUS
  <2> QED
    BY <2>1, <2>2, RequestWork
<1>3. CASE onReqActivationChanged
  <2>1. /\ inbox # <<>> /\ inbox \in Seq(Messages) /\ Tail(inbox) \in Seq(Messages)
        /\ UNCHANGED <<matches, written, inventory, units>>
    BY <1>3, TailFacts DEF onReqActivationChanged, Received, Types
  <2>2. 1 \in {0, 1} /\ \A i \in 1..Len(Tail(inbox)) :
           i + 1 \in 1..Len(inbox) /\ Tail(inbox)[i] = inbox[i + 1]
    BY <2>1, TailFacts
  <2>3. CASE version # NoVersion
    <3>1. Request("Active", Tail(inbox))
      BY <1>3, <2>3 DEF onReqActivationChanged
    <3> QED
      BY <2>1, <2>2, <2>3, <3>1, RequestWork
  <2>4. CASE version = NoVersion
    BY <1>3, <2>4, NoActivation DEF onReqActivationChanged, AtWork
  <2> QED
    BY <2>3, <2>4
<1>4. CASE unitStateChange
  BY <1>4, JobWork
<1>5. CASE TimerExpired
  <2>1. PICK x \in World : TimedOut(x)
    BY <1>5, TimerFacts
  <2>2. version' = x.v /\ Activating(version')
    BY <1>5, <2>1, TimerFacts, TrackFacts DEF Becomes, TimedOut
  <2> QED
    BY <2>1, <2>2 DEF TimedOut
<1>6. ASSUME NEW i \in Images, Upload(i) PROVE AtWork'
  BY <1>6, <1>a DEF Upload, daemonVars, systemdVars
<1>7. ASSUME NEW i \in Images, processImage(i) PROVE AtWork'
  <2>1. clean /\ UNCHANGED <<calls, inbox, units, served>>
    BY <1>7 DEF processImage, systemdVars
  <2>2. UNCHANGED version
    BY <1>7, <2>1 DEF processImage, initiateUpdateImage, AtWork, Activating
  <2> QED
    BY <1>a, <2>1, <2>2
<1>8. CASE delete
  BY <1>8, TrackFacts, NoActivation DEF delete
<1>9. ASSUME NEW d \in Devices, newDeviceAdded(d) PROVE AtWork'
  <2>1. clean /\ UNCHANGED <<calls, inbox, units, served>>
    BY <1>9 DEF newDeviceAdded, systemdVars
  <2>2. version # NoVersion
    BY <2>1, NoActivation DEF AtWork
  <2>3. UNCHANGED version
    BY <1>9, <2>2 DEF newDeviceAdded, createSoftwareObject
  <2> QED
    BY <1>a, <2>1, <2>3
<1>10. CASE Restart
  <2>1. ~Activating(version')
    BY <1>10, SoftwareObject, NoActivation DEF Restart
  <2> QED
    BY <1>10, <2>1, TrackFacts DEF Restart
<1>11. CASE SystemdCall
  <2>1. clean
    BY <1>11, CallFacts
  <2> QED
    BY <1>0, <1>11, <2>1, CallWork
<1>12. ASSUME NEW u \in Units, NEW x \in {"done", "failed", "timeout"}, UnitEnds(u, x) PROVE AtWork'
  <2>1. clean
    BY <1>12 DEF UnitEnds
  <2> QED
    BY <1>0, <1>12, <2>1, EndsWork
<1>13. ASSUME NEW u \in Units, StopEnds(u) PROVE AtWork'
  BY <1>13 DEF StopEnds, AtWork
<1>14. CASE OtherJob("done")
  <2>1. clean
    BY <1>14 DEF OtherJob
  <2> QED
    BY <1>0, <1>14, <2>1, OtherWork
<1> QED
  BY <1>1, <1>2, <1>3, <1>4, <1>5, <1>6, <1>7, <1>8, <1>9, <1>10, <1>11, <1>12, <1>13, <1>14
     DEF Next, Client, Systemd

-----------------------------------------------------------------------------
LEMMA InitInv == ASSUME Init PROVE UpdaterInv
<1>1. version = NoVersion \/ VersionRight(version)
  BY SoftwareObject DEF Init
<1>2. calls \in Seq({"start", "stop"} \X Units) /\ inbox \in Seq(Messages) /\ 0 \in Nat
  BY DEF Init
<1> QED
  BY <1>1, <1>2 DEF Init, UpdaterInv, Types

LEMMA InvStep == ASSUME UpdaterInv, [Next]_vars PROVE UpdaterInv'
  BY TypesStep, WorkStep DEF UpdaterInv

(* The inductive invariant of the daemon, systemd and the bus between      *)
(* them.                                                                   *)
THEOREM UpdaterInvariant == Spec => []UpdaterInv
  BY InitInv, InvStep, PTL DEF Spec

(* Every state of the daemon is well formed; the progress an activation    *)
(* shows is a percentage, however many devices there are (onUpdateDone     *)
(* adds 80 / n for each).                                                  *)
THEOREM UpdaterTyped == Spec => []TypeOK
<1>1. ASSUME UpdaterInv PROVE TypeOK
  <2>1. Types
    BY <1>1 DEF UpdaterInv
  <2>2. ASSUME VersionRight(version) PROVE version \in VersionType
    <3>1. version \in VersionRecord /\ version.step \in 0..90
      BY <2>2 DEF VersionRight
    <3>2. version.progress \in NoProgress..100
      <4>1. CASE Activating(version)
        <5>1. /\ version.progress \in Int /\ version.progress >= 0 /\ Len(version.queue) \in Nat
              /\ version.progress + version.step * Len(version.queue) <= 90
          BY <2>2, <3>1, <4>1 DEF VersionRight, InProgress, VersionRecord
        <5>2. \A p \in Int, t \in 0..90, n \in Nat : p >= 0 /\ p + t * n <= 90 => p \in -1..100
          OBVIOUS
        <5> QED
          BY <3>1, <5>1, <5>2 DEF NoProgress
      <4>2. CASE ~Activating(version)
        BY <2>2, <4>2 DEF VersionRight, NoProgress
      <4> QED
        BY <4>1, <4>2
    <3> QED
      BY <3>1, <3>2 DEF VersionRecord, VersionType
  <2> QED
    BY <2>1, <2>2 DEF Types, TypeOK
<1> QED
  BY <1>1, UpdaterInvariant, PTL

(* No device is counted as updated before its own service ended well: not  *)
(* on another unit's JobRemoved, not on a result of an earlier device, not *)
(* on one that came twice (unitStateChange, onUpdateDone).                 *)
THEOREM CountedDevicesUpdated == Spec => CountedDevicesAreUpdated
<1> DEFINE Counted == /\ clean /\ version'.status \in {"Activating", "Active"}
                      /\ version'.unit # NoUnit /\ version'.queue # version.queue
<1>1. ASSUME UpdaterInv, [Next]_vars, Counted PROVE Head(version.queue) \in served
  <2>0. Types /\ AtWork /\ Activating(version) /\ version # NoVersion
    BY <1>1, NoActivation DEF UpdaterInv, AtWork
  <2>1. ASSUME NEW received \in Seq(Messages), Request("Active", received) PROVE FALSE
    <3>1. PICK c \in Circumstances(Daemon) :
             Becomes(requestedActivation(Daemon, "Active", c), received)
      BY <2>1 DEF Request
    <3>2. requestedActivation(Daemon, "Active", c).v.queue = version.queue
      BY <2>0, RequestFacts
    <3> QED
      BY <1>1, <3>1, <3>2 DEF Becomes
  <2>2. UNCHANGED version => FALSE
    BY <1>1
  <2>3. CASE UNCHANGED vars
    BY <2>2, <2>3 DEF vars, daemonVars
  <2>4. CASE SetRequestedActivation
    BY <2>0, <2>1, <2>4 DEF SetRequestedActivation, Types
  <2>5. CASE onReqActivationChanged
    <3>1. Tail(inbox) \in Seq(Messages)
      BY <2>0, <2>5, TailFacts DEF onReqActivationChanged, Received, Types
    <3> QED
      BY <2>0, <2>1, <2>5, <3>1 DEF onReqActivationChanged
  <2>6. CASE unitStateChange
    <3>1. inbox # <<>> /\ Tail(inbox) \in Seq(Messages)
      BY <2>0, <2>6, JobCases
    <3>2. CASE Head(inbox).type = "job" /\ Head(inbox).unit = version.unit
               /\ Head(inbox).result = "done"
      BY <2>0, <3>1, <3>2, OwnJob
    <3>3. CASE Becomes(onUpdateFailed(Daemon), Tail(inbox))
      <4>1. onUpdateFailed(Daemon).v.status = "Failed"
        BY <2>0, FailedCallback
      <4> QED
        BY <1>1, <3>3, <4>1 DEF Becomes
    <3> QED
      BY <2>0, <2>2, <2>6, <3>2, <3>3, JobCases
  <2>7. CASE TimerExpired
    <3>1. PICK x \in World : TimedOut(x)
      BY <2>0, <2>7, TimerFacts
    <3> QED
      BY <1>1, <2>0, <3>1 DEF TimedOut, Becomes
  <2>8. ASSUME NEW i \in Images, Upload(i) \/ processImage(i) PROVE FALSE
    <3>1. UNCHANGED version
      BY <2>0, <2>8 DEF Upload, processImage, initiateUpdateImage, daemonVars, Activating
    <3> QED
      BY <2>2, <3>1
  <2>9. CASE delete
    BY <1>1, <2>9 DEF delete, NoVersion
  <2>10. ASSUME NEW d \in Devices, newDeviceAdded(d) PROVE FALSE
    BY <2>0, <2>2, <2>10 DEF newDeviceAdded, createSoftwareObject
  <2>11. CASE Restart
    <3>1. version' = NoVersion \/ version' = Version("na.img", "Active")
      BY <2>11 DEF Restart, createSoftwareObject
    <3>2. version' = NoVersion \/ version'.unit = NoUnit
      BY <3>1 DEF Version
    <3> QED
      BY <1>1, <3>2 DEF NoVersion
  <2>12. CASE Systemd
    <3>1. UNCHANGED version
      BY <2>12 DEF Systemd, SystemdCall, UnitEnds, StopEnds, OtherJob, daemonVars
    <3> QED
      BY <2>2, <3>1
  <2> QED
    BY <1>1, <2>3, <2>4, <2>5, <2>6, <2>7, <2>8, <2>9, <2>10, <2>11, <2>12 DEF Next, Client
<1>2. ASSUME UpdaterInv, [Next]_vars PROVE [Counted => Head(version.queue) \in served]_vars
  BY <1>1, <1>2
<1> QED
  BY <1>2, UpdaterInvariant, PTL DEF Spec, CountedDevicesAreUpdated

(* An activation in progress is watched: the timer of doUpdate is armed    *)
(* and there is a device for its callback to cancel, which ignores an      *)
(* empty queue.                                                            *)
Watched == Activating(version) => version.timer /\ version.queue # <<>>

(* The watchdog's callback ends the activation it finds, whichever it is.  *)
WatchdogEnds == [][TimerExpired => ~Activating(version')]_vars

(* No activation is left without the watchdog that ends it when systemd    *)
(* never answers (startTimer, cancelInProgressUpdate): the safety half of  *)
(* ActivationEnds.                                                         *)
THEOREM ActivationWatched == Spec => []Watched /\ WatchdogEnds
<1>1. ASSUME UpdaterInv PROVE Watched
  BY <1>1, NoActivation DEF UpdaterInv, Types, VersionRight, InProgress, Watched
<1>2. ASSUME UpdaterInv, TimerExpired PROVE ~Activating(version')
  <2>1. PICK x \in World : TimedOut(x)
    BY <1>2, TimerFacts DEF UpdaterInv
  <2> QED
    BY <2>1 DEF TimedOut, Becomes
<1>3. UpdaterInv => [TimerExpired => ~Activating(version')]_vars
  BY <1>2
<1> QED
  BY <1>1, <1>3, UpdaterInvariant, PTL DEF Spec, WatchdogEnds
===========================================================================
