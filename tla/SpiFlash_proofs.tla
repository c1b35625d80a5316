------------------------- MODULE SpiFlash_proofs -------------------------
(* That chips behind one programmer never get in each other's way, that no *)
(* port stays locked and no dump is given up before its turn, for any      *)
(* number of chips, ports, operations and missing or failing mux lines,    *)
(* and any quota.                                                          *)
EXTENDS SpiFlash, FiniteSetTheorems, TLAPS

Operation == [spi : Spis, kind : Kinds, cb : BOOLEAN, proc : {"running", "none", "ok", "bad", "done"}]
HistoryEntry == [id : Nat, kind : Kinds, status : {"InProgress", "Failed", "Completed"}, fd : Nat]

Typed ==
  /\ ops \in Seq(Operation) /\ expired \subseteq Ops /\ match \subseteq Spis
  /\ cur \in [Spis -> Nat] /\ timer \in [Spis -> Nat] /\ image \in [Spis -> Nat]
  /\ busy \in [spi : Spis, kind : Kinds] \cup {NotBusy} /\ crossed \in BOOLEAN
  /\ mux \subseteq Spis /\ faults \in Nat
  /\ hist \in [Spis -> Seq(HistoryEntry)] /\ dumpFile \in [Spis -> Nat]

(* An armed timer is that of an operation on its own chip.                 *)
TimersFit == \A s \in Spis : timer[s] # 0 => timer[s] \in Ops /\ ops[timer[s]].spi = s

(* A chip that was worked on has a history.                                *)
Recorded == \A i \in Ops : hist[ops[i].spi] # <<>>

(* A chip with an operation in progress is selected, as far as its lines   *)
(* were found, and holds its port alone, also against a detection; without *)
(* a fault of a line no other chip is selected; a flashrom that runs is    *)
(* the process of its chip and of the operation in progress.               *)
Held ==
  /\ \A s \in Spis : Pending(s) => s \in mux \cup bare /\ PortOf[s] \in inUse
  /\ \A s, t \in Spis : Pending(s) /\ Pending(t) /\ PortOf[s] = PortOf[t] => s = t
  /\ busy # NotBusy => PortOf[busy.spi] \in inUse /\ busy.spi \in mux \cup bare
                       /\ \A s \in Spis : Pending(s) => PortOf[s] # PortOf[busy.spi]
  /\ faults = 0 => \A s \in mux : Pending(s) \/ (busy # NotBusy /\ busy.spi = s)
  /\ \A i \in Ops : Live(i) =>
       /\ cur[ops[i].spi] = i /\ Pending(ops[i].spi) /\ Back(ops[i].spi).id = i
       /\ ops[i].kind = "Write" => image[ops[i].spi] = i

(* PortHasOwner is inductive with TimersFit, and needs nothing of Held.    *)
SpiInv == Typed /\ TimersFit /\ Recorded /\ PortHasOwner /\ (~crossed => Held)

(* The initial states, and those of a daemon that is started again.        *)
LEMMA FreshInv ==
  ASSUME ops = <<>>, expired = {}, match = {}, inUse = {}, busy = NotBusy, crossed \in BOOLEAN,
         mux \subseteq Spis, faults \in Nat, faults = 0 => mux = {}, hist = [s \in Spis |-> <<>>],
         cur = [s \in Spis |-> 0], timer = [s \in Spis |-> 0], image = [s \in Spis |-> 0],
         dumpFile = [s \in Spis |-> 0]
  PROVE  SpiInv
<1>1. Ops = {} /\ \A s \in Spis : ~Pending(s)
  BY DEF Ops, Pending
<1>2. Typed
  <2>1. ops \in Seq(Operation) /\ <<>> \in Seq(HistoryEntry)
    OBVIOUS
  <2> QED
    BY <2>1 DEF Typed
<1>3. TimersFit /\ Recorded /\ PortHasOwner /\ Held
  BY <1>1 DEF TimersFit, Recorded, PortHasOwner, Held
<1> QED
  BY <1>2, <1>3 DEF SpiInv

LEMMA SpiInit == Init => SpiInv
<1> SUFFICES ASSUME Init PROVE SpiInv
  OBVIOUS
<1>1. /\ mux \subseteq Spis /\ faults \in Nat /\ crossed \in BOOLEAN /\ (faults = 0 => mux = {})
      /\ ops = <<>> /\ expired = {} /\ match = {} /\ inUse = {} /\ busy = NotBusy
      /\ hist = [s \in Spis |-> <<>>] /\ cur = [s \in Spis |-> 0] /\ timer = [s \in Spis |-> 0]
      /\ image = [s \in Spis |-> 0] /\ dumpFile = [s \in Spis |-> 0]
  BY DEF Init
<1> QED
  BY <1>1, FreshInv

(* The history of a chip.                                                  *)
LEMMA HistFacts ==
  ASSUME Typed, NEW s \in Spis
  PROVE  /\ hist[s] \in Seq(HistoryEntry) /\ Len(hist[s]) \in Nat
         /\ hist[s] # <<>> => Len(hist[s]) \in 1..Len(hist[s]) /\ Back(s) \in HistoryEntry
<1>1. hist[s] \in Seq(HistoryEntry)
  BY DEF Typed
<1> QED
  BY <1>1 DEF Back

(* An entry of the newest operation that replaces the one there was.       *)
LEMMA EntrySet ==
  ASSUME NEW h \in Seq(HistoryEntry), h # <<>>, NEW e \in HistoryEntry
  PROVE  LET new == [h EXCEPT ![Len(h)] = e] IN
         /\ new \in Seq(HistoryEntry) /\ Len(new) = Len(h) /\ new # <<>> /\ new[Len(new)] = e
  OBVIOUS

(* What the steps of the processes have in common: no operation changes    *)
(* its chip or its kind, and none starts to run or to wait.                *)
OpsKept ==
  /\ ops' \in Seq(Operation) /\ Len(ops') = Len(ops)
  /\ \A i \in Ops : /\ ops'[i].spi = ops[i].spi /\ ops'[i].kind = ops[i].kind
                    /\ (Live(i)' => Live(i)) /\ (ops'[i].cb => ops[i].cb)

(* terminate() stops the processes of the chips in S.                      *)
LEMMA TerminatedFacts ==
  ASSUME Typed, NEW S, ops' = Terminated(S)
  PROVE  OpsKept /\ \A i \in Ops : Live(i)' => \A s \in S : cur[s] # i
<1>1. ops \in Seq(Operation) /\ Len(ops) \in Nat /\ Ops = 1..Len(ops) /\ \A i \in Ops : ops[i] \in Operation
  BY DEF Typed, Ops
<1>2. ASSUME NEW i \in Ops
      PROVE  LET y == [ops[i] EXCEPT !.proc = "bad"]
             IN y \in Operation /\ y.spi = ops[i].spi /\ y.kind = ops[i].kind /\ y.cb = ops[i].cb /\ y.proc = "bad"
  BY <1>1 DEF Operation
<1>3. ASSUME NEW i \in Ops
      PROVE  /\ Terminated(S)[i] \in Operation
             /\ Terminated(S)[i].spi = ops[i].spi /\ Terminated(S)[i].kind = ops[i].kind
             /\ Terminated(S)[i].cb = ops[i].cb
             /\ Terminated(S)[i].proc = "running" => ops[i].proc = "running" /\ \A s \in S : cur[s] # i
  BY <1>1, <1>2 DEF Terminated
<1>4. ops' = [i \in 1..Len(ops) |-> Terminated(S)[i]]
  BY <1>1 DEF Terminated
<1>5. ops' \in Seq(Operation) /\ Len(ops') = Len(ops) /\ \A i \in Ops : ops'[i] = Terminated(S)[i]
  BY <1>1, <1>3, <1>4
<1> QED
  BY <1>3, <1>5 DEF OpsKept, Live

(* What the end of the operations on the chips in S does: it touches no    *)
(* other chip, releases their ports and takes no other chip's mux away; a  *)
(* chip whose mux threw keeps its timer, its match and its process.        *)
Releases(S) ==
  /\ inUse' = releaseUsb(S) /\ match' \subseteq match /\ bare' = bare \ S
  /\ mux \ S \subseteq mux' /\ mux' \subseteq mux
  /\ faults' \in Nat /\ (faults' = 0 => faults = 0 /\ mux' = mux \ S)
  /\ timer' \in [Spis -> Nat] /\ cur' \in [Spis -> Nat] /\ image' \in [Spis -> Nat]
  /\ \A s \in Spis : timer'[s] # 0 => timer'[s] = timer[s]
  /\ \A s \in Spis \ S : timer'[s] = timer[s] /\ cur'[s] = cur[s] /\ image'[s] = image[s]
Closes(S) ==
  /\ hist' \in [Spis -> Seq(HistoryEntry)]
  /\ \A s \in Spis : hist[s] # <<>> => hist'[s] # <<>>
  /\ \A s \in S : ~Pending(s)'
  /\ \A s \in Spis \ S : hist'[s] = hist[s]

LEMMA ResetFacts ==
  ASSUME Typed, NEW S \in SUBSET Spis, resetSpiMux(S)
  PROVE  /\ bare' = bare \ S /\ mux \ S \subseteq mux' /\ mux' \subseteq mux
         /\ faults' \in Nat /\ (faults' = 0 => faults = 0 /\ mux' = mux \ S)
<1>1. CASE LeftMuxed(S)
  BY <1>1 DEF LeftMuxed, Fault, Typed
<1>2. CASE mux' = mux \ S /\ bare' = bare \ S /\ UNCHANGED faults
  BY <1>2 DEF Typed
<1> QED
  BY <1>1, <1>2 DEF resetSpiMux

LEMMA ReleaseFacts ==
  ASSUME Typed, NEW S \in SUBSET Spis, NEW T \in SUBSET S, inUse' = releaseUsb(S), resetSpiMux(S), LetsGo(T),
         image' = [s \in Spis |-> IF s \in S THEN 0 ELSE image[s]]
  PROVE  Releases(S)
<1>1. /\ timer' \in [Spis -> Nat] /\ cur' \in [Spis -> Nat] /\ image' \in [Spis -> Nat] /\ match' \subseteq match
      /\ \A s \in Spis : timer'[s] # 0 => timer'[s] = timer[s]
      /\ \A s \in Spis \ S : timer'[s] = timer[s] /\ cur'[s] = cur[s] /\ image'[s] = image[s]
  BY DEF Typed, LetsGo
<1> QED
  BY <1>1, ResetFacts DEF Releases

LEMMA ConcludeFacts ==
  ASSUME Typed, NEW S \in SUBSET Spis, Concludes(S, "Failed")
  PROVE  Closes(S)
<1> DEFINE e(s) == [Back(s) EXCEPT !.status = "Failed"]
           Set(s) == [hist[s] EXCEPT ![Len(hist[s])] = e(s)]
<1>1. hist' = [s \in Spis |-> IF s \in S /\ hist[s] # <<>> THEN Set(s) ELSE hist[s]]
  BY DEF Concludes, Back
<1>2. ASSUME NEW s \in Spis, hist[s] # <<>>
      PROVE  /\ Set(s) \in Seq(HistoryEntry) /\ Set(s) # <<>>
             /\ Set(s)[Len(Set(s))].status = "Failed"
  <2>1. e(s) \in HistoryEntry /\ e(s).status = "Failed"
    BY <1>2, HistFacts DEF HistoryEntry
  <2> HIDE DEF e
  <2> QED
    BY <1>2, <2>1, HistFacts, EntrySet
<1> HIDE DEF Set
<1>3. hist' \in [Spis -> Seq(HistoryEntry)] /\ \A s \in Spis \ S : hist'[s] = hist[s]
  BY <1>1, <1>2 DEF Typed
<1>4. \A s \in Spis : hist[s] # <<>> => hist'[s] # <<>>
  BY <1>1, <1>2
<1>5. ASSUME NEW s \in S PROVE ~Pending(s)'
  <2>1. hist'[s] = IF hist[s] # <<>> THEN Set(s) ELSE hist[s]
    BY <1>1
  <2> QED
    BY <1>2, <2>1 DEF Pending, Back
<1> QED
  BY <1>3, <1>4, <1>5 DEF Closes

(* Doing so hurts nobody if no other chip in progress shares a port with a *)
(* chip of S, and no process of a chip in S runs on.                       *)
LEMMA ReleaseKeeps ==
  ASSUME SpiInv, ~crossed, NEW S \in SUBSET Spis, Releases(S), Closes(S), OpsKept, busy = NotBusy, busy' = busy,
         crossed' \in BOOLEAN, expired' \subseteq expired, dumpFile' = dumpFile,
         \A i \in expired \ expired' : ops[i].spi \in S,
         ~crossed' => /\ \A s \in S : \A t \in Spis : Pending(t) /\ PortOf[t] = PortOf[s] => t = s
                      /\ \A i \in Ops : Live(i)' => ops[i].spi \notin S
  PROVE  SpiInv'
<1> USE DEF SpiInv
<1>1. Ops' = Ops /\ \A i \in Ops : ops[i].spi \in Spis
  <2>1. Ops' = Ops /\ \A i \in Ops : ops[i] \in Operation
    BY DEF Typed, Ops, OpsKept
  <2> QED
    BY <2>1 DEF Operation
<1>2. \A s \in Spis \ S : (Pending(s)' <=> Pending(s)) /\ Back(s)' = Back(s)
  BY DEF Closes, Pending, Back
<1>3. Typed'
  BY <1>1 DEF Typed, OpsKept, Releases, Closes
<1>4. TimersFit'
  <2> SUFFICES ASSUME NEW s \in Spis, timer'[s] # 0
               PROVE  timer'[s] \in Ops /\ ops'[timer'[s]].spi = s
    BY <1>1 DEF TimersFit
  <2>1. timer'[s] = timer[s]
    BY DEF Releases
  <2>2. timer[s] \in Ops /\ ops[timer[s]].spi = s
    BY <2>1 DEF TimersFit
  <2> QED
    BY <2>1, <2>2 DEF OpsKept
<1>5. Recorded'
  BY <1>1 DEF Recorded, Closes, OpsKept
<1>6. PortHasOwner'
  <2> SUFFICES ASSUME NEW q \in inUse'
               PROVE  \E s \in Spis : PortOf[s] = q /\ (timer'[s] # 0 \/ \E i \in expired' : ops'[i].spi = s)
    BY DEF PortHasOwner
  <2>1. q \in inUse /\ \A s \in S : PortOf[s] # q
    BY DEF Releases, releaseUsb
  <2>2. PICK s \in Spis : PortOf[s] = q /\ (timer[s] # 0 \/ \E i \in expired : ops[i].spi = s)
    BY <2>1 DEF PortHasOwner
  <2>3. s \notin S
    BY <2>1, <2>2
  <2>4. CASE timer[s] # 0
    BY <2>2, <2>3, <2>4 DEF Releases
  <2>5. CASE \E i \in expired : ops[i].spi = s
    <3>1. PICK i \in expired : ops[i].spi = s
      BY <2>5
    <3>2. i \in expired' /\ i \in Ops
      BY <2>3, <3>1 DEF Typed
    <3> QED
      BY <2>2, <3>1, <3>2 DEF OpsKept
  <2> QED
    BY <2>2, <2>4, <2>5
<1>7. ASSUME ~crossed' PROVE Held'
  <2>1. Held
    OBVIOUS
  <2>2. \A s \in Spis : Pending(s)' => s \notin S /\ Pending(s)
    BY <1>2 DEF Closes
  <2>3. ASSUME NEW t \in Spis, Pending(t)' PROVE t \in mux' \cup bare' /\ PortOf[t] \in inUse'
    <3>1. t \notin S /\ Pending(t) /\ t \in mux \cup bare /\ PortOf[t] \in inUse
      BY <2>1, <2>2, <2>3 DEF Held
    <3>2. \A s \in S : PortOf[t] # PortOf[s]
      BY <1>7, <3>1
    <3> QED
      BY <3>1, <3>2 DEF Releases, releaseUsb
  <2>4. \A s, t \in Spis : Pending(s)' /\ Pending(t)' /\ PortOf[s] = PortOf[t] => s = t
    BY <2>1, <2>2 DEF Held
  <2>5. ASSUME faults' = 0, NEW s \in mux' PROVE Pending(s)'
    <3>1. faults = 0 /\ s \in mux /\ s \notin S /\ s \in Spis
      BY <2>5 DEF Releases, Typed
    <3>2. Pending(s)
      BY <2>1, <3>1 DEF Held
    <3> QED
      BY <1>2, <3>1, <3>2
  <2>6. ASSUME NEW i \in Ops, Live(i)'
        PROVE  /\ cur'[ops'[i].spi] = i /\ Pending(ops[i].spi)' /\ Back(ops[i].spi)'.id = i
               /\ ops'[i].spi = ops[i].spi /\ (ops'[i].kind = "Write" => image'[ops'[i].spi] = i)
    <3>1. /\ Live(i) /\ ops'[i].spi = ops[i].spi /\ ops'[i].kind = ops[i].kind
          /\ ops[i].spi \notin S /\ ops[i].spi \in Spis
      BY <1>1, <1>7, <2>6 DEF OpsKept
    <3>2. /\ cur[ops[i].spi] = i /\ Pending(ops[i].spi) /\ Back(ops[i].spi).id = i
          /\ ops[i].kind = "Write" => image[ops[i].spi] = i
      BY <2>1, <3>1 DEF Held
    <3> QED
      BY <1>2, <3>1, <3>2 DEF Releases
  <2> QED
    BY <1>1, <2>3, <2>4, <2>5, <2>6 DEF Held, Pending, Back
<1> QED
  BY <1>3, <1>4, <1>5, <1>6, <1>7

(* A timeout that hits its own operation, or finds the port free.          *)
LEMMA TimeoutStep ==
  ASSUME SpiInv, ~crossed, NEW i \in Ops, Timeout(i)
  PROVE  SpiInv'
<1> USE DEF SpiInv
<1> DEFINE s == ops[i].spi
<1>1. /\ busy = NotBusy /\ busy' = busy /\ ops' = Terminated({s}) /\ finishSpiOperation({s}, "Failed")
      /\ expired' = expired \ {i} /\ crossed' = (crossed \/ Crosses(i)) /\ dumpFile' = dumpFile
  BY DEF Timeout
<1>2. s \in Spis
  <2>1. ops[i] \in Operation
    BY DEF Typed, Ops
  <2> QED
    BY <2>1 DEF Operation
<1>3. Releases({s}) /\ Closes({s})
  BY <1>1, <1>2, ReleaseFacts, ConcludeFacts DEF finishSpiOperation, Concludes
<1>4. OpsKept /\ \A j \in Ops : Live(j)' => cur[s] # j
  BY <1>1, TerminatedFacts
<1>5. ASSUME ~crossed', NEW t \in Spis, Pending(t), PortOf[t] = PortOf[s] PROVE t = s
  <2>1. Held /\ PortOf[t] \in inUse
    BY <1>5 DEF Held
  <2>2. Pending(s)
    BY <1>1, <1>5, <2>1 DEF Crosses
  <2> QED
    BY <1>2, <1>5, <2>1, <2>2 DEF Held
<1>6. ASSUME ~crossed', NEW j \in Ops, Live(j)' PROVE ops[j].spi # s
  <2>1. Live(j)
    BY <1>4, <1>6 DEF OpsKept
  <2>2. cur[ops[j].spi] = j
    BY <2>1 DEF Held
  <2> QED
    BY <1>4, <1>6, <2>2
<1>7. crossed' \in BOOLEAN /\ {s} \in SUBSET Spis /\ expired' \subseteq expired
      /\ \A j \in expired \ expired' : ops[j].spi \in {s}
  BY <1>1, <1>2
<1> HIDE DEF s
<1> QED
  BY <1>1, <1>3, <1>4, <1>5, <1>6, <1>7, ReleaseKeeps

(* The wait callback of a process, likewise.                               *)
LEMMA WaitedOps ==
  ASSUME Typed, NEW i \in Ops, WaitCallback(i)
  PROVE  OpsKept /\ ~Live(i)' /\ ~ops'[i].cb
<1>1. ops \in Seq(Operation) /\ ops[i] \in Operation
  BY DEF Typed, Ops
<1> DEFINE y == [ops[i] EXCEPT !.cb = FALSE, !.proc = "done"]
<1>2. y \in Operation /\ y.spi = ops[i].spi /\ y.kind = ops[i].kind /\ y.proc = "done" /\ ~y.cb
  BY <1>1 DEF Operation
<1>3. ops' = [ops EXCEPT ![i] = y]
  BY <1>1 DEF WaitCallback
<1> HIDE DEF y
<1>4. ops' \in Seq(Operation) /\ Len(ops') = Len(ops) /\ ops'[i] = y /\ \A j \in Ops \ {i} : ops'[j] = ops[j]
  BY <1>1, <1>2, <1>3 DEF Ops
<1> QED
  BY <1>2, <1>4 DEF OpsKept, Live

(* The entry of a process that succeeded.                                  *)
LEMMA DoneFacts ==
  ASSUME Typed, NEW s \in Spis, hist[s] # <<>>, NEW fd \in Nat,
         hist' = [hist EXCEPT ![s][Len(hist[s])] = [Back(s) EXCEPT !.status = "Completed", !.fd = fd]]
  PROVE  Closes({s})
<1> DEFINE e == [Back(s) EXCEPT !.status = "Completed", !.fd = fd]
           new == [hist[s] EXCEPT ![Len(hist[s])] = e]
<1>1. e \in HistoryEntry /\ e.status = "Completed"
  BY HistFacts DEF HistoryEntry
<1>2. hist' = [hist EXCEPT ![s] = new]
  BY DEF Typed
<1> HIDE DEF e
<1>3. new \in Seq(HistoryEntry) /\ new # <<>> /\ new[Len(new)] = e
  BY <1>1, HistFacts, EntrySet
<1> HIDE DEF new
<1>4. /\ hist' \in [Spis -> Seq(HistoryEntry)] /\ hist'[s] = new
      /\ \A t \in Spis \ {s} : hist'[t] = hist[t]
  BY <1>2, <1>3 DEF Typed
<1> QED
  BY <1>1, <1>3, <1>4 DEF Closes, Pending, Back

LEMMA WaitStep ==
  ASSUME SpiInv, ~crossed, NEW i \in Ops, WaitCallback(i)
  PROVE  SpiInv'
<1> USE DEF SpiInv
<1> DEFINE s == ops[i].spi
<1>1. ops \in Seq(Operation) /\ ops[i] \in Operation /\ s \in Spis
  <2>1. ops \in Seq(Operation) /\ ops[i] \in Operation
    BY DEF Typed, Ops
  <2> QED
    BY <2>1 DEF Operation
<1>2. /\ busy = NotBusy /\ busy' = busy /\ expired' = expired /\ ~Live(i) /\ dumpFile' = dumpFile
      /\ crossed' = (crossed \/ Crosses(i))
  BY DEF WaitCallback, Live
<1>3. hist[s] # <<>> /\ Back(s).fd \in Nat /\ dumpFile[s] \in Nat
  BY <1>1, HistFacts DEF Recorded, HistoryEntry, Typed
<1>4. Releases({s}) /\ Closes({s})
  <2>1. CASE finishSpiOperation({s}, "Failed")
    BY <1>1, <2>1, ReleaseFacts, ConcludeFacts DEF finishSpiOperation, Concludes
  <2>2. CASE /\ inUse' = releaseUsb({s}) /\ resetSpiMux({s}) /\ LetsGo({s}) /\ image' = [image EXCEPT ![s] = 0]
             /\ \E fd \in Nat :
                  hist' = [hist EXCEPT ![s][Len(hist[s])] = [Back(s) EXCEPT !.status = "Completed", !.fd = fd]]
    <3>1. image' = [t \in Spis |-> IF t \in {s} THEN 0 ELSE image[t]]
      BY <1>1, <2>2 DEF Typed
    <3> QED
      BY <1>1, <1>3, <2>2, <3>1, ReleaseFacts, DoneFacts
  <2>3. ASSUME NEW fd, fd = IF ops[i].kind = "Read" THEN dumpFile[s] ELSE Back(s).fd,
               hist' = [hist EXCEPT ![s][Len(hist[s])] = [Back(s) EXCEPT !.status = "Completed", !.fd = fd]]
        PROVE  \E f \in Nat :
                 hist' = [hist EXCEPT ![s][Len(hist[s])] = [Back(s) EXCEPT !.status = "Completed", !.fd = f]]
    BY <1>3, <2>3
  <2> QED
    BY <2>1, <2>2, <2>3 DEF WaitCallback
<1>5. OpsKept /\ ~Live(i)'
  BY WaitedOps
<1>6. ASSUME ~crossed', NEW t \in Spis, Pending(t), PortOf[t] = PortOf[s] PROVE t = s
  <2>1. Held /\ PortOf[t] \in inUse
    BY <1>6 DEF Held
  <2>2. Pending(s)
    BY <1>2, <1>6, <2>1 DEF Crosses
  <2> QED
    BY <1>1, <1>6, <2>1, <2>2 DEF Held
<1>7. ASSUME ~crossed', NEW j \in Ops, Live(j)', ops[j].spi = s PROVE FALSE
  <2>1. Live(j) /\ j # i
    BY <1>5, <1>7 DEF OpsKept
  <2>2. Back(s).id = j
    BY <1>7, <2>1 DEF Held
  <2> QED
    BY <1>2, <1>7, <2>1, <2>2 DEF Crosses
<1>8. crossed' \in BOOLEAN /\ {s} \in SUBSET Spis /\ expired' \subseteq expired /\ expired \ expired' = {}
  BY <1>1, <1>2
<1> HIDE DEF s
<1> QED
  BY <1>2, <1>4, <1>5, <1>6, <1>7, <1>8, ReleaseKeeps

(* The host is powered on: every chip that holds a port gives it up.       *)
LEMMA HostStep ==
  ASSUME SpiInv, ~crossed, onHostPowerStateChanged
  PROVE  SpiInv'
<1> USE DEF SpiInv
<1>1. PICK S \in SUBSET match :
        /\ ops' = Terminated(S) /\ Concludes(S, "Failed")
        /\ \/ resetSpiMux(S) /\ LetsGo(S)
           \/ LeftMuxed(S) /\ \E threw \in SUBSET S : LetsGo(S \ threw)
        /\ crossed' = (crossed \/ \E s \in S : ~Pending(s))
  BY DEF onHostPowerStateChanged
<1>2. busy = NotBusy /\ UNCHANGED <<busy, expired, dumpFile>> /\ S \in SUBSET Spis
  BY DEF onHostPowerStateChanged, Typed
<1>3. resetSpiMux(S) /\ \E T \in SUBSET S : LetsGo(T)
  <2>1. CASE resetSpiMux(S) /\ LetsGo(S)
    BY <2>1
  <2>2. ASSUME LeftMuxed(S), NEW threw \in SUBSET S, LetsGo(S \ threw)
        PROVE  resetSpiMux(S) /\ \E T \in SUBSET S : LetsGo(T)
    <3>1. S \ threw \in SUBSET S
      OBVIOUS
    <3> QED
      BY <2>2, <3>1 DEF resetSpiMux
  <2> QED
    BY <1>1, <2>1, <2>2
<1>4. Releases(S) /\ Closes(S)
  BY <1>1, <1>2, <1>3, ReleaseFacts, ConcludeFacts DEF Concludes
<1>5. OpsKept /\ \A i \in Ops : Live(i)' => \A s \in S : cur[s] # i
  BY <1>1, TerminatedFacts
<1>6. ASSUME ~crossed', NEW s \in S, NEW t \in Spis, Pending(t), PortOf[t] = PortOf[s] PROVE t = s
  <2>1. Pending(s) /\ s \in Spis
    BY <1>1, <1>2, <1>6
  <2> QED
    BY <1>6, <2>1 DEF Held
<1>7. ASSUME NEW i \in Ops, Live(i)' PROVE ops[i].spi \notin S
  <2>1. Live(i)
    BY <1>5, <1>7 DEF OpsKept
  <2>2. cur[ops[i].spi] = i
    BY <2>1 DEF Held
  <2> QED
    BY <1>5, <1>7, <2>2
<1>8. crossed' \in BOOLEAN /\ expired \ expired' = {}
  BY <1>1, <1>2
<1> QED
  BY <1>2, <1>4, <1>5, <1>6, <1>7, <1>8, ReleaseKeeps

(* A daemon that is started again has nothing left to tend.                *)
LEMMA ThrowStep ==
  ASSUME SpiInv, ~crossed, NEW i \in Ops, ResetThrows(i)
  PROVE  SpiInv'
<1>1. faults' \in Nat /\ faults' # 0 /\ mux' \subseteq mux /\ mux \subseteq Spis
  BY DEF ResetThrows, LeftMuxed, Fault, SpiInv, Typed
<1>2. /\ ops' = <<>> /\ expired' = {} /\ match' = {} /\ inUse' = {} /\ busy' = NotBusy /\ crossed' \in BOOLEAN
      /\ hist' = [s \in Spis |-> <<>>] /\ cur' = [s \in Spis |-> 0] /\ timer' = [s \in Spis |-> 0]
      /\ image' = [s \in Spis |-> 0] /\ dumpFile' = [s \in Spis |-> 0]
  BY DEF ResetThrows, SpiInv, Typed
<1>3. Ops' = {} /\ \A s \in Spis : ~Pending(s)'
  BY <1>2 DEF Ops, Pending
<1>4. Typed'
  <2>1. <<>> \in Seq(Operation) /\ <<>> \in Seq(HistoryEntry)
    OBVIOUS
  <2> QED
    BY <1>1, <1>2, <2>1 DEF Typed
<1>5. TimersFit' /\ Recorded' /\ PortHasOwner' /\ Held'
  BY <1>1, <1>2, <1>3 DEF TimersFit, Recorded, PortHasOwner, Held
<1> QED
  BY <1>4, <1>5 DEF SpiInv

(* A request marks a port that nobody holds.                               *)
LEMMA RequestStep ==
  ASSUME SpiInv, ~crossed, NEW s \in Spis, NEW k \in KindsOf[s], Request(s, k)
  PROVE  SpiInv'
<1> USE DEF SpiInv
<1>1. /\ busy = NotBusy /\ PortOf[s] \notin inUse
      /\ UNCHANGED <<ops, hist, cur, timer, expired, match, dumpFile, image, crossed>>
      /\ \/ setSpiMux(s) /\ busy' = [spi |-> s, kind |-> k] /\ inUse' = inUse \cup {PortOf[s]}
         \/ setSpiMuxThrows(s) /\ UNCHANGED <<busy, inUse>>
  BY DEF Request, isUsbInUse, markUsbInUse
<1>2. /\ mux \cup bare \subseteq mux' \cup bare' /\ mux' \subseteq mux \cup {s} /\ faults' \in Nat
      /\ faults' = 0 => faults = 0 /\ s \in mux' /\ setSpiMux(s)
      /\ setSpiMux(s) => s \in mux' \cup bare'
  <2>1. faults \in Nat
    BY DEF Typed
  <2>2. CASE setSpiMux(s)
    BY <2>1, <2>2 DEF setSpiMux, Fault
  <2>3. CASE setSpiMuxThrows(s)
    BY <2>1, <2>3 DEF setSpiMuxThrows, setSpiMux, Fault
  <2> QED
    BY <1>1, <2>2, <2>3
<1>3. k \in Kinds
  BY SpiBounds
<1>4. Typed'
  <2>1. busy' \in [spi : Spis, kind : Kinds] \cup {NotBusy}
    BY <1>1, <1>3
  <2> QED
    BY <1>1, <1>2, <2>1 DEF Typed, Ops
<1>5. TimersFit' /\ Recorded' /\ Ops' = Ops
  BY <1>1 DEF Ops, TimersFit, Recorded
<1>6. \A t \in Spis : (Pending(t)' <=> Pending(t)) /\ Back(t)' = Back(t)
  BY <1>1 DEF Pending, Back
<1>7. \A i \in Ops : /\ (Live(i)' <=> Live(i)) /\ ops[i].spi \in Spis
  <2>1. \A i \in Ops : ops[i] \in Operation
    BY DEF Typed, Ops
  <2> QED
    BY <1>1, <2>1 DEF Live, Operation
<1>8. CASE setSpiMuxThrows(s) /\ UNCHANGED <<busy, inUse>>
  <2>1. PortHasOwner'
    BY <1>1, <1>8 DEF PortHasOwner
  <2>2. faults' # 0
    BY <1>8 DEF setSpiMuxThrows, Fault, Typed
  <2>3. Held'
    BY <1>1, <1>2, <1>5, <1>6, <1>7, <1>8, <2>2 DEF Held
  <2> QED
    BY <1>4, <1>5, <2>1, <2>3
<1>9. CASE setSpiMux(s) /\ busy' = [spi |-> s, kind |-> k] /\ inUse' = inUse \cup {PortOf[s]}
  <2>1. busy'.spi = s
    BY <1>9
  <2>2. ASSUME busy' = NotBusy PROVE FALSE
    <3>1. k = "none"
      BY <1>9, <2>2 DEF NotBusy
    <3> QED
      BY <1>3, <3>1 DEF Kinds
  <2>3. PortHasOwner'
    <3> SUFFICES ASSUME NEW q \in inUse', q # PortOf[s]
                 PROVE  \E t \in Spis : PortOf[t] = q /\ (timer[t] # 0 \/ \E i \in expired : ops[i].spi = t)
      BY <1>1, <2>1, <2>2 DEF PortHasOwner
    <3> QED
      BY <1>1, <1>9 DEF PortHasOwner
  <2>4. \A t \in Spis : Pending(t) => PortOf[t] # PortOf[s]
    BY <1>1 DEF Held
  <2>5. ASSUME faults' = 0, NEW t \in mux' PROVE Pending(t)' \/ t = s
    <3>1. faults = 0 /\ t \in mux \cup {s} /\ mux \subseteq Spis
      BY <1>2, <2>5 DEF Typed
    <3> QED
      BY <1>1, <1>6, <3>1 DEF Held
  <2>6. \A i \in Ops : Live(i)' => /\ cur'[ops'[i].spi] = i /\ Pending(ops[i].spi)' /\ Back(ops[i].spi)'.id = i
                                   /\ ops'[i].kind = "Write" => image'[ops'[i].spi] = i
    BY <1>1, <1>6, <1>7 DEF Held
  <2>7. /\ \A t \in Spis : Pending(t)' => t \in mux' \cup bare' /\ PortOf[t] \in inUse' /\ PortOf[t] # PortOf[s]
        /\ \A t, u \in Spis : Pending(t)' /\ Pending(u)' /\ PortOf[t] = PortOf[u] => t = u
    BY <1>2, <1>6, <1>9, <2>4 DEF Held
  <2>8. Held'
    BY <1>1, <1>2, <1>5, <1>9, <2>1, <2>2, <2>5, <2>6, <2>7 DEF Held, Pending, Back
  <2> QED
    BY <1>4, <1>5, <2>3, <2>8
<1> QED
  BY <1>1, <1>8, <1>9

(* A failed detection gives the port back, which no chip holds.            *)
LEMMA DetectionFailsStep ==
  ASSUME SpiInv, ~crossed, DetectionFails
  PROVE  SpiInv'
<1> USE DEF SpiInv
<1>1. /\ busy # NotBusy /\ busy' = NotBusy
      /\ inUse' = inUse \ {PortOf[busy.spi]} /\ resetSpiMux({busy.spi})
      /\ UNCHANGED <<ops, hist, cur, timer, expired, match, dumpFile, image, crossed>>
  BY DEF DetectionFails, releaseUsb
<1>2. busy.spi \in Spis
  BY <1>1 DEF Typed
<1>3. /\ bare' = bare \ {busy.spi} /\ mux \ {busy.spi} \subseteq mux' /\ mux' \subseteq mux
      /\ faults' \in Nat /\ (faults' = 0 => faults = 0 /\ mux' = mux \ {busy.spi})
  BY <1>1, <1>2, ResetFacts
<1>4. Typed'
  BY <1>1, <1>3 DEF Typed, Ops
<1>5. TimersFit' /\ Recorded' /\ Ops' = Ops
  BY <1>1 DEF Ops, TimersFit, Recorded
<1>6. PortHasOwner'
  BY <1>1 DEF PortHasOwner
<1>7. \A t \in Spis : Pending(t) => PortOf[t] # PortOf[busy.spi] /\ t # busy.spi
  BY <1>1 DEF Held
<1>8. \A t \in Spis : (Pending(t)' <=> Pending(t)) /\ Back(t)' = Back(t)
  BY <1>1 DEF Pending, Back
<1>9. \A i \in Ops : /\ (Live(i)' <=> Live(i)) /\ ops[i].spi \in Spis
  <2>1. \A i \in Ops : ops[i] \in Operation
    BY DEF Typed, Ops
  <2> QED
    BY <1>1, <2>1 DEF Live, Operation
<1>10. Held'
  <2>1. /\ \A t \in Spis : Pending(t)' => t \in mux' \cup bare' /\ PortOf[t] \in inUse'
        /\ \A t, u \in Spis : Pending(t)' /\ Pending(u)' /\ PortOf[t] = PortOf[u] => t = u
    BY <1>1, <1>3, <1>7, <1>8 DEF Held
  <2>2. ASSUME faults' = 0, NEW t \in mux' PROVE Pending(t)'
    <3>1. faults = 0 /\ t \in mux /\ t # busy.spi /\ t \in Spis
      BY <1>3, <2>2 DEF Typed
    <3> QED
      BY <1>8, <3>1 DEF Held
  <2>3. \A i \in Ops : Live(i)' => /\ cur'[ops'[i].spi] = i /\ Pending(ops[i].spi)' /\ Back(ops[i].spi)'.id = i
                                   /\ ops'[i].kind = "Write" => image'[ops'[i].spi] = i
    BY <1>1, <1>8, <1>9 DEF Held
  <2> QED
    BY <1>1, <1>5, <2>1, <2>2, <2>3 DEF Held, Pending, Back
<1> QED
  BY <1>4, <1>5, <1>6, <1>10

(* The detected chip's operation takes over the port.                      *)
LEMMA ChipDetectedStep ==
  ASSUME SpiInv, ~crossed, ChipDetected
  PROVE  SpiInv'
<1> USE DEF SpiInv
<1>0. PICK s \in Spis : s = busy.spi /\ busy # NotBusy /\ busy.kind \in Kinds
  BY DEF ChipDetected, Typed
<1> DEFINE n == Len(ops) + 1
           kept == IF Len(hist[s]) >= MaxHistory THEN Tail(hist[s]) ELSE hist[s]
           e == Entry(n, busy.kind)
<1>1. PICK started \in BOOLEAN : executeFlashrom(n, started)
  BY DEF ChipDetected
<1> DEFINE o == [spi |-> s, kind |-> busy.kind, cb |-> started, proc |-> IF started THEN "running" ELSE "none"]
<1>2. /\ busy # NotBusy /\ busy' = NotBusy /\ timer' = [timer EXCEPT ![s] = n] /\ match' = match \cup {s}
      /\ image' = (IF busy.kind = "Write" THEN [image EXCEPT ![s] = n] ELSE image)
      /\ dumpFile' = (IF busy.kind = "Read" THEN [dumpFile EXCEPT ![s] = n] ELSE dumpFile)
      /\ hist' = [hist EXCEPT ![s] = Append(kept, e)]
      /\ UNCHANGED <<inUse, mux, bare, faults, expired, crossed>>
  BY <1>0 DEF ChipDetected, lines
<1>3. ops' = Append(ops, o) /\ cur' = IF started THEN [cur EXCEPT ![s] = n] ELSE cur
  BY <1>0, <1>1 DEF executeFlashrom
<1>4. s \in Spis /\ busy.kind \in Kinds
  BY <1>0
<1>5. o \in Operation /\ o.spi = s /\ o.kind = busy.kind /\ (o.proc = "running" <=> started)
  BY <1>4 DEF Operation
<1>6. ops \in Seq(Operation) /\ Len(ops) \in Nat /\ Ops = 1..Len(ops) /\ \A i \in Ops : ops[i] \in Operation
  BY DEF Typed, Ops
<1>7. e \in HistoryEntry /\ e.id = n /\ e.status = "InProgress"
  BY <1>4, <1>6 DEF Entry, HistoryEntry
<1>8. kept \in Seq(HistoryEntry)
  <2>1. hist[s] \in Seq(HistoryEntry) /\ Len(hist[s]) \in Nat /\ MaxHistory \in Nat \ {0}
    BY <1>4, HistFacts, SpiBounds
  <2>2. Len(hist[s]) >= MaxHistory => hist[s] # <<>>
    BY <2>1
  <2> QED
    BY <2>1, <2>2
<1> HIDE DEF o, e, kept
<1>9. LET new == Append(kept, e) IN new \in Seq(HistoryEntry) /\ new # <<>> /\ new[Len(new)] = e
  BY <1>7, <1>8
<1>10. /\ hist' \in [Spis -> Seq(HistoryEntry)] /\ hist'[s] # <<>> /\ hist'[s][Len(hist'[s])] = e
       /\ \A t \in Spis \ {s} : hist'[t] = hist[t]
  BY <1>2, <1>4, <1>9 DEF Typed
<1>11. Pending(s)' /\ Back(s)'.id = n /\ \A t \in Spis \ {s} : (Pending(t)' <=> Pending(t)) /\ Back(t)' = Back(t)
  BY <1>7, <1>10 DEF Pending, Back
<1>12. /\ ops' \in Seq(Operation) /\ Len(ops') = n /\ ops'[n] = o
       /\ \A i \in Ops : ops'[i] = ops[i]
  BY <1>3, <1>5, <1>6
<1>13. n \in Nat /\ n # 0 /\ n \notin Ops /\ Ops' = Ops \cup {n}
  BY <1>6, <1>12 DEF Ops
<1> HIDE DEF n
<1>14. /\ timer' \in [Spis -> Nat] /\ cur' \in [Spis -> Nat] /\ image' \in [Spis -> Nat] /\ dumpFile' \in [Spis -> Nat]
       /\ timer'[s] = n /\ (started => cur'[s] = n)
       /\ busy.kind = "Write" => image'[s] = n
       /\ \A t \in Spis \ {s} : timer'[t] = timer[t] /\ cur'[t] = cur[t] /\ image'[t] = image[t]
  BY <1>2, <1>3, <1>4, <1>13 DEF Typed
<1>15. Typed'
  BY <1>2, <1>4, <1>10, <1>12, <1>13, <1>14 DEF Typed
<1>16. TimersFit'
  <2> SUFFICES ASSUME NEW t \in Spis, timer'[t] # 0
               PROVE  timer'[t] \in Ops' /\ ops'[timer'[t]].spi = t
    BY DEF TimersFit
  <2>1. CASE t = s
    BY <1>5, <1>12, <1>13, <1>14, <2>1
  <2>2. CASE t # s
    <3>1. timer'[t] = timer[t]
      BY <1>14, <2>2
    <3>2. timer[t] \in Ops /\ ops[timer[t]].spi = t
      BY <3>1 DEF TimersFit
    <3> QED
      BY <1>12, <1>13, <3>1, <3>2
  <2> QED
    BY <2>1, <2>2
<1>17. Recorded'
  <2> SUFFICES ASSUME NEW i \in Ops' PROVE hist'[ops'[i].spi] # <<>>
    BY DEF Recorded
  <2>1. CASE i = n
    BY <1>5, <1>10, <1>12, <2>1
  <2>2. CASE i # n
    <3>1. i \in Ops /\ ops'[i] = ops[i] /\ hist[ops[i].spi] # <<>>
      BY <1>12, <1>13, <2>2 DEF Recorded
    <3>2. ops[i].spi \in Spis
      BY <1>6, <3>1 DEF Operation
    <3> QED
      BY <1>10, <3>1, <3>2
  <2> QED
    BY <2>1, <2>2
<1>18. PortHasOwner'
  <2> SUFFICES ASSUME NEW q \in inUse
               PROVE  \E t \in Spis : PortOf[t] = q /\ (timer'[t] # 0 \/ \E i \in expired : ops'[i].spi = t)
    BY <1>2 DEF PortHasOwner
  <2>1. CASE PortOf[s] = q
    BY <1>4, <1>13, <1>14, <2>1
  <2>2. CASE PortOf[s] # q
    <3>1. PICK t \in Spis : PortOf[t] = q /\ (timer[t] # 0 \/ \E i \in expired : ops[i].spi = t)
      BY <1>0, <2>2 DEF PortHasOwner
    <3>2. t # s /\ timer'[t] = timer[t]
      BY <1>14, <2>2, <3>1
    <3>3. \A i \in expired : ops'[i] = ops[i]
      BY <1>12 DEF Typed
    <3> QED
      BY <3>1, <3>2, <3>3
  <2> QED
    BY <2>1, <2>2
<1>19. Held'
  <2>1. /\ Held /\ PortOf[s] \in inUse /\ s \in mux \cup bare
        /\ \A t \in Spis : Pending(t) => PortOf[t] # PortOf[s]
    BY <1>0, <1>2 DEF Held
  <2>2. ~Pending(s)
    BY <1>4, <2>1
  <2>3. \A t \in Spis : Pending(t)' => t = s \/ Pending(t)
    BY <1>11
  <2>4. /\ \A t \in Spis : Pending(t)' => t \in mux' \cup bare' /\ PortOf[t] \in inUse'
        /\ \A t, u \in Spis : Pending(t)' /\ Pending(u)' /\ PortOf[t] = PortOf[u] => t = u
    BY <1>2, <2>1, <2>3 DEF Held
  <2>5. ASSUME faults' = 0, NEW t \in mux' PROVE Pending(t)'
    <3>1. faults = 0 /\ t \in mux /\ t \in Spis
      BY <1>2, <2>5 DEF Typed
    <3>2. Pending(t) \/ t = s
      BY <1>0, <2>1, <3>1 DEF Held
    <3> QED
      BY <1>11, <3>1, <3>2
  <2>6. ASSUME NEW i \in Ops', Live(i)'
        PROVE  /\ cur'[ops'[i].spi] = i /\ (ops'[i].kind = "Write" => image'[ops'[i].spi] = i)
               /\ \E t \in Spis : t = ops'[i].spi /\ Pending(t)' /\ Back(t)'.id = i
    <3>1. CASE i = n
      BY <1>4, <1>5, <1>11, <1>12, <1>14, <2>6, <3>1 DEF Live
    <3>2. CASE i # n
      <4>1. i \in Ops /\ ops'[i] = ops[i] /\ Live(i)
        BY <1>12, <1>13, <2>6, <3>2 DEF Live
      <4>2. ops[i].spi \in Spis
        BY <1>6, <4>1 DEF Operation
      <4>3. /\ cur[ops[i].spi] = i /\ (ops[i].kind = "Write" => image[ops[i].spi] = i)
            /\ Pending(ops[i].spi) /\ Back(ops[i].spi).id = i
        BY <2>1, <4>1 DEF Held
      <4>4. ops[i].spi # s
        BY <2>2, <4>3
      <4> QED
        BY <1>11, <1>14, <4>1, <4>2, <4>3, <4>4
    <3> QED
      BY <3>1, <3>2
  <2>7. ASSUME NEW i \in Ops', Live(i)' PROVE Pending(ops[i].spi)' /\ Back(ops[i].spi)'.id = i
    BY <2>6, <2>7 DEF Pending, Back
  <2> QED
    BY <1>2, <2>4, <2>5, <2>6, <2>7 DEF Held, Pending, Back
<1> QED
  BY <1>15, <1>16, <1>17, <1>18, <1>19

(* A timer expires: its operation keeps the port until the handler runs.   *)
LEMMA ExpiryStep ==
  ASSUME SpiInv, ~crossed, NEW s \in Spis, TimerExpires(s)
  PROVE  SpiInv'
<1> USE DEF SpiInv
<1>1. /\ timer[s] # 0 /\ timer' = [timer EXCEPT ![s] = 0] /\ expired' = expired \cup {timer[s]}
      /\ UNCHANGED <<inUse, mux, bare, faults, ops, hist, cur, match, dumpFile, image, busy, crossed>>
  BY DEF TimerExpires, lines
<1>2. timer[s] \in Ops /\ ops[timer[s]].spi = s /\ Ops' = Ops
  BY <1>1 DEF TimersFit, Ops
<1>3. timer' \in [Spis -> Nat] /\ timer'[s] = 0 /\ \A t \in Spis \ {s} : timer'[t] = timer[t]
  BY <1>1 DEF Typed
<1>4. Typed'
  BY <1>1, <1>2, <1>3 DEF Typed
<1>5. TimersFit' /\ Recorded'
  BY <1>1, <1>2, <1>3 DEF TimersFit, Recorded
<1>6. PortHasOwner'
  <2> SUFFICES ASSUME NEW q \in inUse, ~(busy # NotBusy /\ PortOf[busy.spi] = q)
               PROVE  \E t \in Spis : PortOf[t] = q /\ (timer'[t] # 0 \/ \E i \in expired' : ops[i].spi = t)
    BY <1>1 DEF PortHasOwner
  <2>1. PICK t \in Spis : PortOf[t] = q /\ (timer[t] # 0 \/ \E i \in expired : ops[i].spi = t)
    BY DEF PortHasOwner
  <2>2. CASE t = s
    <3>1. timer[s] \in expired' /\ ops[timer[s]].spi = t
      BY <1>1, <1>2, <2>2
    <3> QED
      BY <2>1, <3>1
  <2>3. CASE t # s
    BY <1>1, <1>3, <2>1, <2>3
  <2> QED
    BY <2>2, <2>3
<1>7. Held'
  BY <1>1, <1>2 DEF Held, Live, Pending, Back
<1> QED
  BY <1>4, <1>5, <1>6, <1>7

(* A flashrom exits: nothing is released before its callback.              *)
LEMMA ExitedOps ==
  ASSUME Typed, NEW i \in Ops, FlashromExits(i)
  PROVE  OpsKept
<1>1. PICK x \in {"ok", "bad"} : ops' = [ops EXCEPT ![i].proc = x]
  BY DEF FlashromExits
<1>2. ops \in Seq(Operation) /\ ops[i] \in Operation
  BY DEF Typed, Ops
<1> DEFINE y == [ops[i] EXCEPT !.proc = x]
<1>3. /\ y \in Operation /\ y.spi = ops[i].spi /\ y.kind = ops[i].kind
      /\ y.proc # "running" /\ y.cb = ops[i].cb
  BY <1>2 DEF Operation
<1>4. ops' = [ops EXCEPT ![i] = y]
  BY <1>1
<1> HIDE DEF y
<1>5. ops' \in Seq(Operation) /\ Len(ops') = Len(ops) /\ ops'[i] = y /\ \A j \in Ops \ {i} : ops'[j] = ops[j]
  BY <1>2, <1>3, <1>4 DEF Ops
<1> QED
  BY <1>3, <1>5 DEF OpsKept, Live

LEMMA ExitStep ==
  ASSUME SpiInv, ~crossed, NEW i \in Ops, FlashromExits(i)
  PROVE  SpiInv'
<1> USE DEF SpiInv
<1>1. UNCHANGED <<inUse, mux, bare, faults, hist, cur, timer, expired, match, dumpFile, image, busy, crossed>>
  BY DEF FlashromExits, lines
<1>2. OpsKept /\ Ops' = Ops
  BY ExitedOps DEF OpsKept, Ops
<1>3. Typed'
  BY <1>1, <1>2 DEF Typed, OpsKept
<1>4. TimersFit' /\ Recorded'
  BY <1>1, <1>2 DEF TimersFit, Recorded, OpsKept
<1>5. PortHasOwner'
  <2>1. \A j \in expired : ops'[j].spi = ops[j].spi
    BY <1>2 DEF OpsKept, Typed
  <2> QED
    BY <1>1, <2>1 DEF PortHasOwner
<1>6. Held'
  BY <1>1, <1>2 DEF Held, OpsKept, Pending, Back
<1> QED
  BY <1>3, <1>4, <1>5, <1>6

(* Every step keeps the invariant.                                         *)
LEMMA SpiStep == SpiInv /\ [Next]_vars => SpiInv'
<1> SUFFICES ASSUME SpiInv, [Next]_vars PROVE SpiInv'
  OBVIOUS
<1>1. ASSUME UNCHANGED <<inUse, mux, bare, faults, ops, hist, cur, timer, expired, match, dumpFile, image, busy, crossed>>
      PROVE  SpiInv'
  <2>1. Typed' /\ TimersFit' /\ Recorded' /\ PortHasOwner'
    BY <1>1 DEF SpiInv, Typed, TimersFit, Recorded, PortHasOwner, Ops
  <2>2. Held => Held'
    BY <1>1 DEF Held, Live, Pending, Back, Ops
  <2> QED
    BY <1>1, <2>1, <2>2 DEF SpiInv
<1>2. CASE Next
  <2>1. ~crossed
    BY <1>2 DEF Next
  <2>2. CASE HostOn \/ HostOff
    BY <1>1, <2>2 DEF HostOn, HostOff, lines
  <2> QED
    BY <1>2, <2>1, <2>2, TimeoutStep, WaitStep, ThrowStep, HostStep, RequestStep, DetectionFailsStep,
       ChipDetectedStep, ExpiryStep, ExitStep DEF Next, Daemon
<1>3. CASE UNCHANGED vars
  BY <1>1, <1>3 DEF vars, lines
<1> QED
  BY <1>2, <1>3

(* SpiInv holds in every reachable state, with mux lines that are missing  *)
(* or cannot be set at any time, and a daemon that dies of one.            *)
THEOREM SpiInvariant == Spec => []SpiInv
  BY SpiInit, SpiStep, PTL DEF Spec

(* However many chips share programmers, a running flashrom has its chip   *)
(* selected, unless setSpiMux did not find its line and went on; its image *)
(* is in place, it has its programmer to itself, and while no mux line has *)
(* failed no other chip behind it is selected, until a late handler ends   *)
(* an operation that is not its own (startSpiOperation, setSpiMux,         *)
(* finishSpiOperation).                                                    *)
THEOREM FlashromIsAlone == Spec => []FlashesSelectedChip
<1>1. SpiInv => FlashesSelectedChip
  <2> SUFFICES ASSUME SpiInv, ~crossed, NEW i \in Ops, Live(i)
               PROVE  /\ ops[i].spi \in mux \cup bare /\ PortOf[ops[i].spi] \in inUse
                      /\ faults = 0 => \A t \in mux : PortOf[t] = PortOf[ops[i].spi] => t = ops[i].spi
                      /\ ops[i].kind = "Write" => image[ops[i].spi] = i
                      /\ \A j \in Ops : Live(j) /\ PortOf[ops[j].spi] = PortOf[ops[i].spi] => i = j
                      /\ busy # NotBusy => PortOf[ops[i].spi] # PortOf[busy.spi]
    BY DEF FlashesSelectedChip
  <2>1. \A j \in Ops : ops[j].spi \in Spis
    <3>1. \A j \in Ops : ops[j] \in Operation
      BY DEF SpiInv, Typed, Ops
    <3> QED
      BY <3>1 DEF Operation
  <2>2. Held /\ mux \subseteq Spis
    BY DEF SpiInv, Typed
  <2>3. \A j \in Ops : Live(j) => cur[ops[j].spi] = j /\ Pending(ops[j].spi)
    BY <2>2 DEF Held
  <2>4. ASSUME faults = 0, NEW t \in mux, PortOf[t] = PortOf[ops[i].spi] PROVE t = ops[i].spi
    <3>1. t \in Spis /\ (Pending(t) \/ (busy # NotBusy /\ busy.spi = t))
      BY <2>2, <2>4 DEF Held
    <3> QED
      BY <2>1, <2>2, <2>3, <2>4, <3>1 DEF Held
  <2> QED
    BY <2>1, <2>2, <2>3, <2>4 DEF Held
<1> QED
  BY <1>1, SpiInvariant, PTL

(* No port stays locked: whoever holds one is in detection or has a timer  *)
(* that will release it (releaseUsb on every way out).                     *)
THEOREM NoPortIsLost == Spec => []PortHasOwner
<1>1. SpiInv => PortHasOwner
  BY DEF SpiInv
<1> QED
  BY <1>1, SpiInvariant, PTL

(* The dumps.                                                              *)
DumpsTyped ==
  hist \in [Spis -> Seq(HistoryEntry)] /\ dumps \in [Spis -> Seq(Nat)] /\ dumpFile \in [Spis -> Nat]

(* A chip that was worked on has a history; its entries are of operations  *)
(* on this chip, in the order they were started, and an entry has its own  *)
(* dump, or none, and no callback to come once it has one.                 *)
HistoryOf(s) ==
  /\ \A i \in Ops : ops[i].spi = s => hist[s] # <<>>
  /\ \A k \in 1..Len(hist[s]) :
       /\ hist[s][k].id \in Ops
       /\ hist[s][k].fd \in {0, hist[s][k].id}
       /\ hist[s][k].fd # 0 => ~ops[hist[s][k].id].cb
  /\ \A j, k \in 1..Len(hist[s]) : j < k => hist[s][j].id < hist[s][k].id
  /\ hist[s] # <<>> /\ ops[Back(s).id].kind = "Read" => dumpFile[s] = Back(s).id

(* The dumps of a chip are in the order of their reads, none newer than    *)
(* the history.  A read whose dump is gone is older than all that are left, *)
(* and so many are left as the quota keeps; a dump newer than a read of    *)
(* the history is of a read of the history.                                *)
DumpsOf(s) ==
  /\ \A n \in 1..Len(dumps[s]) :
       /\ dumps[s][n] \in Ops /\ ~ops[dumps[s][n]].cb
       /\ hist[s] # <<>> /\ dumps[s][n] <= Back(s).id
  /\ \A m, n \in 1..Len(dumps[s]) : m < n => dumps[s][m] < dumps[s][n]
  /\ \A k \in 1..Len(hist[s]) : hist[s][k].fd # 0 =>
       /\ \/ \E n \in 1..Len(dumps[s]) : dumps[s][n] = hist[s][k].fd
          \/ /\ Len(dumps[s]) >= MaxDumps - 1
             /\ \A n \in 1..Len(dumps[s]) : dumps[s][n] > hist[s][k].fd
       /\ \A n \in 1..Len(dumps[s]) : dumps[s][n] > hist[s][k].id =>
            \E j \in 1..Len(hist[s]) : hist[s][j].fd = dumps[s][n]

DumpInv == ~crossed => DumpsTyped /\ \A s \in Spis : HistoryOf(s) /\ DumpsOf(s)

(* A chip whose books a step leaves alone but for the status of an entry.  *)
SameBooks(s) ==
  /\ Len(hist'[s]) = Len(hist[s]) /\ (hist'[s] = <<>> <=> hist[s] = <<>>)
  /\ \A k \in 1..Len(hist[s]) : hist'[s][k].id = hist[s][k].id /\ hist'[s][k].fd = hist[s][k].fd
  /\ dumps'[s] = dumps[s] /\ dumpFile'[s] = dumpFile[s]
OpsGrow(s) ==
  /\ Ops \subseteq Ops' /\ \A i \in Ops' \ Ops : ops'[i].spi # s
  /\ \A i \in Ops : /\ ops'[i].spi = ops[i].spi /\ ops'[i].kind = ops[i].kind
                    /\ ops'[i].cb => ops[i].cb

LEMMA KeptOpsGrow == ASSUME OpsKept PROVE Ops' = Ops /\ \A s \in Spis : OpsGrow(s)
  BY DEF OpsKept, OpsGrow, Ops

LEMMA HistoryFacts ==
  ASSUME DumpsTyped, NEW s \in Spis
  PROVE  /\ hist[s] \in Seq(HistoryEntry) /\ Len(hist[s]) \in Nat
         /\ hist[s] = <<>> <=> Len(hist[s]) = 0
         /\ hist[s] # <<>> => Len(hist[s]) \in 1..Len(hist[s])
         /\ \A k \in 1..Len(hist[s]) :
              hist[s][k] \in HistoryEntry /\ hist[s][k].id \in Nat /\ hist[s][k].fd \in Nat
         /\ dumps[s] \in Seq(Nat) /\ Len(dumps[s]) \in Nat
         /\ \A n \in 1..Len(dumps[s]) : dumps[s][n] \in Nat
<1>1. hist[s] \in Seq(HistoryEntry) /\ dumps[s] \in Seq(Nat)
  BY DEF DumpsTyped
<1>2. \A k \in 1..Len(hist[s]) : hist[s][k] \in HistoryEntry
  BY <1>1
<1>3. /\ Len(hist[s]) \in Nat /\ (hist[s] = <<>> <=> Len(hist[s]) = 0)
      /\ Len(dumps[s]) \in Nat /\ \A n \in 1..Len(dumps[s]) : dumps[s][n] \in Nat
  BY <1>1
<1> QED
  BY <1>1, <1>2, <1>3 DEF HistoryEntry

LEMMA BooksKept ==
  ASSUME DumpsTyped, NEW s \in Spis, HistoryOf(s), DumpsOf(s), OpsGrow(s), SameBooks(s)
  PROVE  HistoryOf(s)' /\ DumpsOf(s)'
<1>1. hist[s] # <<>> => Len(hist[s]) \in 1..Len(hist[s])
  BY HistoryFacts
<1>2. hist[s] # <<>> => Back(s)'.id = Back(s).id /\ Back(s).id \in Ops
  BY <1>1 DEF Back, SameBooks, HistoryOf
<1>3. HistoryOf(s)'
  BY <1>2 DEF HistoryOf, SameBooks, OpsGrow
<1>4. DumpsOf(s)'
  BY <1>2 DEF DumpsOf, SameBooks, OpsGrow
<1> QED
  BY <1>3, <1>4

(* finishSpiOperation changes the status of the newest entries.            *)
LEMMA StatusSet ==
  ASSUME NEW h \in Seq(HistoryEntry), h # <<>>, NEW status \in {"Failed", "Completed"}
  PROVE  LET new == [h EXCEPT ![Len(h)].status = status] IN
         /\ new \in Seq(HistoryEntry) /\ Len(new) = Len(h) /\ new # <<>>
         /\ \A k \in 1..Len(h) : new[k].id = h[k].id /\ new[k].fd = h[k].fd
<1> DEFINE y == [h[Len(h)] EXCEPT !.status = status]
           new == [h EXCEPT ![Len(h)] = y]
<1>1. Len(h) \in 1..Len(h) /\ h[Len(h)] \in HistoryEntry
  OBVIOUS
<1>2. y \in HistoryEntry /\ y.id = h[Len(h)].id /\ y.fd = h[Len(h)].fd
  BY <1>1 DEF HistoryEntry
<1> HIDE DEF y
<1>3. /\ new \in Seq(HistoryEntry) /\ Len(new) = Len(h) /\ new # <<>>
      /\ new[Len(h)] = y /\ \A k \in 1..Len(h) : k # Len(h) => new[k] = h[k]
  BY <1>1, <1>2
<1>4. \A k \in 1..Len(h) : new[k].id = h[k].id /\ new[k].fd = h[k].fd
  BY <1>2, <1>3
<1> QED
  BY <1>3, <1>4 DEF y

LEMMA FinishedBooks ==
  ASSUME DumpsTyped, NEW S, Concludes(S, "Failed"), UNCHANGED <<dumps, dumpFile>>
  PROVE  DumpsTyped' /\ \A s \in Spis : SameBooks(s)
<1> DEFINE Set(s) == [hist[s] EXCEPT ![Len(hist[s])].status = "Failed"]
<1>1. hist' = [s \in Spis |-> IF s \in S /\ hist[s] # <<>> THEN Set(s) ELSE hist[s]]
  BY DEF Concludes
<1>2. ASSUME NEW s \in Spis, hist[s] # <<>>
      PROVE  /\ Set(s) \in Seq(HistoryEntry) /\ Len(Set(s)) = Len(hist[s]) /\ Set(s) # <<>>
             /\ \A k \in 1..Len(hist[s]) : Set(s)[k].id = hist[s][k].id /\ Set(s)[k].fd = hist[s][k].fd
  BY <1>2, StatusSet, HistoryFacts
<1> HIDE DEF Set
<1>3. hist' \in [Spis -> Seq(HistoryEntry)]
  BY <1>1, <1>2 DEF DumpsTyped
<1>4. ASSUME NEW s \in Spis PROVE SameBooks(s)
  <2>1. hist'[s] = IF s \in S /\ hist[s] # <<>> THEN Set(s) ELSE hist[s]
    BY <1>1
  <2> QED
    BY <1>2, <2>1 DEF SameBooks
<1> QED
  BY <1>3, <1>4 DEF DumpsTyped

(* A step that keeps the books of all chips and starts no operation.       *)
LEMMA AllBooksKept ==
  ASSUME DumpInv, ~crossed, OpsKept, DumpsTyped', \A s \in Spis : SameBooks(s)
  PROVE  DumpInv'
<1>1. \A s \in Spis : HistoryOf(s)' /\ DumpsOf(s)'
  BY KeptOpsGrow, BooksKept DEF DumpInv
<1> QED
  BY <1>1 DEF DumpInv

LEMMA UntouchedBooks ==
  ASSUME DumpInv, ~crossed, OpsKept, UNCHANGED <<hist, dumps, dumpFile>>
  PROVE  DumpInv'
<1>1. DumpsTyped' /\ \A s \in Spis : SameBooks(s)
  BY DEF DumpInv, DumpsTyped, SameBooks
<1> QED
  BY <1>1, AllBooksKept

(* checkDumpFiles gives up the oldest dump, and only over the quota.       *)
LEMMA RequestDumps ==
  ASSUME Typed, DumpInv, ~crossed, NEW s \in Spis, NEW kind, Request(s, kind)
  PROVE  DumpInv'
<1>0. DumpsTyped /\ \A t \in Spis : HistoryOf(t) /\ DumpsOf(t)
  BY DEF DumpInv
<1>1. /\ dumps' = [dumps EXCEPT ![s] = checkDumpFiles(s, kind)]
      /\ UNCHANGED <<ops, hist, dumpFile>>
  BY DEF Request
<1>2. checkDumpFiles(s, kind) = dumps[s] \/ (Len(dumps[s]) >= MaxDumps /\ checkDumpFiles(s, kind) = Tail(dumps[s]))
  BY DEF checkDumpFiles
<1>3. dumps[s] \in Seq(Nat) /\ Len(dumps[s]) \in Nat /\ MaxDumps \in Nat \ {0}
  BY <1>0, HistoryFacts, SpiBounds
<1>4. \A t \in Spis : OpsGrow(t)
  BY <1>1 DEF OpsGrow, Ops
<1>5. checkDumpFiles(s, kind) \in Seq(Nat)
  <2>1. Len(dumps[s]) >= MaxDumps => dumps[s] # <<>>
    BY <1>3
  <2>2. dumps[s] # <<>> => Tail(dumps[s]) \in Seq(Nat)
    BY <1>3
  <2> QED
    BY <1>2, <1>3, <2>1, <2>2
<1>6. /\ dumps' \in [Spis -> Seq(Nat)] /\ dumps'[s] = checkDumpFiles(s, kind)
      /\ \A t \in Spis \ {s} : dumps'[t] = dumps[t]
  BY <1>0, <1>1, <1>5 DEF DumpsTyped
<1>7. DumpsTyped'
  BY <1>0, <1>1, <1>6 DEF DumpsTyped
<1>8. ASSUME NEW t \in Spis, t # s \/ checkDumpFiles(s, kind) = dumps[s]
      PROVE  HistoryOf(t)' /\ DumpsOf(t)'
  <2>1. SameBooks(t)
    BY <1>1, <1>6, <1>8 DEF SameBooks
  <2> QED
    BY <1>0, <1>4, <2>1, BooksKept
<1>9. ASSUME Len(dumps[s]) >= MaxDumps, checkDumpFiles(s, kind) = Tail(dumps[s])
      PROVE  HistoryOf(s)' /\ DumpsOf(s)'
  <2> DEFINE d == dumps[s]
             r == Tail(dumps[s])
  <2>1. /\ Len(r) = Len(d) - 1 /\ Len(r) \in Nat /\ Len(d) \in Nat /\ Len(d) > 0
        /\ \A n \in 1..Len(r) : r[n] = d[n + 1]
    BY <1>3, <1>9
  <2>2. dumps'[s] = r
    BY <1>6, <1>9
  <2> HIDE DEF r
  <2>3. \A n \in 1..Len(r) : n + 1 \in 1..Len(d) /\ r[n] = d[n + 1] /\ 1 < n + 1
    BY <2>1
  <2>4. HistoryOf(s)'
    BY <1>0, <1>1 DEF HistoryOf, Ops, Back
  <2>5. \A n \in 1..Len(r) : r[n] \in Ops /\ ~ops[r[n]].cb /\ hist[s] # <<>> /\ r[n] <= Back(s).id
    BY <1>0, <2>3 DEF DumpsOf
  <2>6. ASSUME NEW m \in 1..Len(r), NEW n \in 1..Len(r), m < n PROVE r[m] < r[n]
    <3>1. m + 1 < n + 1
      BY <2>1, <2>6
    <3> QED
      BY <1>0, <2>3, <3>1 DEF DumpsOf
  <2>7. ASSUME NEW k \in 1..Len(hist[s]), hist[s][k].fd # 0
        PROVE  /\ \/ \E n \in 1..Len(r) : r[n] = hist[s][k].fd
                  \/ Len(r) >= MaxDumps - 1 /\ \A n \in 1..Len(r) : r[n] > hist[s][k].fd
               /\ \A n \in 1..Len(r) : r[n] > hist[s][k].id =>
                    \E j \in 1..Len(hist[s]) : hist[s][j].fd = r[n]
    <3>1. Len(r) >= MaxDumps - 1
      BY <1>3, <1>9, <2>1
    <3>2. CASE \E n \in 1..Len(d) : d[n] = hist[s][k].fd
      <4>1. PICK n \in 1..Len(d) : d[n] = hist[s][k].fd
        BY <3>2
      <4>2. CASE n = 1
        <5>1. \A m \in 1..Len(r) : d[1] < d[m + 1]
          BY <1>0, <2>1, <2>3 DEF DumpsOf
        <5>2. \A m \in 1..Len(r) : r[m] > hist[s][k].fd
          BY <2>3, <4>1, <4>2, <5>1
        <5> QED
          BY <1>0, <2>3, <2>7, <3>1, <5>2 DEF DumpsOf
      <4>3. CASE n # 1
        <5>1. n - 1 \in 1..Len(r) /\ (n - 1) + 1 = n
          BY <2>1, <4>3
        <5>2. r[n - 1] = hist[s][k].fd
          BY <2>3, <4>1, <5>1
        <5> QED
          BY <1>0, <2>3, <2>7, <5>1, <5>2, SMTT(20) DEF DumpsOf
      <4> QED
        BY <4>2, <4>3
    <3>3. CASE \A n \in 1..Len(d) : d[n] > hist[s][k].fd
      BY <1>0, <2>3, <2>7, <3>1, <3>3 DEF DumpsOf
    <3> QED
      BY <1>0, <2>7, <3>2, <3>3 DEF DumpsOf
  <2>8. DumpsOf(s)'
    BY <1>1, <2>2, <2>5, <2>6, <2>7, SMTT(20) DEF DumpsOf, Back, Ops
  <2> QED
    BY <2>4, <2>8
<1>10. \A t \in Spis : HistoryOf(t)' /\ DumpsOf(t)'
  BY <1>2, <1>8, <1>9
<1> QED
  BY <1>7, <1>10 DEF DumpInv

(* The new entry is newer than all there are; the one it pushes out of a   *)
(* full history is the oldest.                                             *)
LEMMA DetectedDumps ==
  ASSUME Typed, DumpInv, ~crossed, ChipDetected
  PROVE  DumpInv'
<1>1. PICK s \in Spis : s = busy.spi /\ busy # NotBusy /\ busy.kind \in Kinds
  BY DEF ChipDetected, Typed
<1> DEFINE n == Len(ops) + 1
           h == hist[s]
           kept == IF Len(h) >= MaxHistory THEN Tail(h) ELSE h
           e == Entry(n, busy.kind)
<1>0. DumpsTyped /\ \A t \in Spis : HistoryOf(t) /\ DumpsOf(t)
  BY DEF DumpInv
<1>2. PICK started \in BOOLEAN : executeFlashrom(n, started)
  BY DEF ChipDetected
<1>3. ops \in Seq(Operation) /\ Len(ops) \in Nat /\ Ops = 1..Len(ops)
  BY DEF Typed, Ops
<1> DEFINE o == [spi |-> s, kind |-> busy.kind, cb |-> started, proc |-> IF started THEN "running" ELSE "none"]
<1>4. ops' = Append(ops, o) /\ o.spi = s /\ o.kind = busy.kind
  BY <1>1, <1>2 DEF executeFlashrom
<1>5. /\ hist' = [hist EXCEPT ![s] = Append(kept, e)] /\ UNCHANGED <<dumps, crossed>>
      /\ dumpFile' = IF busy.kind = "Read" THEN [dumpFile EXCEPT ![s] = n] ELSE dumpFile
  BY <1>1 DEF ChipDetected
<1> HIDE DEF o
<1>6. /\ Len(ops') = n /\ ops'[n] = o /\ \A i \in Ops : ops'[i] = ops[i]
      /\ n \in Nat /\ n # 0 /\ n \notin Ops /\ Ops' = Ops \cup {n} /\ \A i \in Ops : i < n
  <2>1. Len(ops') = n /\ ops'[n] = o /\ \A i \in Ops : ops'[i] = ops[i]
    BY <1>3, <1>4
  <2> QED
    BY <1>3, <2>1 DEF Ops
<1>7. e \in HistoryEntry /\ e.id = n /\ e.fd = 0
  BY <1>1, <1>6 DEF Entry, HistoryEntry
<1>8. /\ h \in Seq(HistoryEntry) /\ Len(h) \in Nat /\ MaxHistory \in Nat \ {0}
  BY <1>0, <1>1, HistoryFacts, SpiBounds
<1> HIDE DEF n, e, h
<1>9. PICK c \in {0, 1} :
        /\ kept \in Seq(HistoryEntry) /\ Len(kept) \in Nat /\ Len(h) = Len(kept) + c
        /\ \A k \in 1..Len(kept) : kept[k] = h[k + c] /\ k + c \in 1..Len(h)
        /\ \A k \in 1..Len(h) : k > c => k - c \in 1..Len(kept) /\ kept[k - c] = h[k]
  <2>1. CASE Len(h) >= MaxHistory
    <3>1. h # <<>>
      BY <1>8, <2>1
    <3>2. /\ Tail(h) \in Seq(HistoryEntry) /\ Len(Tail(h)) = Len(h) - 1 /\ Len(h) > 0
          /\ \A k \in 1..(Len(h) - 1) : Tail(h)[k] = h[k + 1]
      BY <1>8, <3>1
    <3>3. kept = Tail(h)
      BY <2>1
    <3> HIDE DEF kept
    <3>4. /\ Len(kept) \in Nat /\ Len(h) = Len(kept) + 1
          /\ \A k \in 1..Len(kept) : kept[k] = h[k + 1] /\ k + 1 \in 1..Len(h)
      BY <1>8, <3>2, <3>3
    <3>5. ASSUME NEW k \in 1..Len(h), k > 1 PROVE k - 1 \in 1..Len(kept) /\ kept[k - 1] = h[k]
      <4>1. k - 1 \in 1..Len(kept) /\ (k - 1) + 1 = k
        BY <3>4, <3>5
      <4> QED
        BY <3>4, <4>1
    <3> QED
      BY <3>2, <3>3, <3>4, <3>5
  <2>2. CASE ~(Len(h) >= MaxHistory)
    <3>1. kept = h
      BY <2>2
    <3> HIDE DEF kept
    <3>2. /\ \A k \in 1..Len(kept) : kept[k] = h[k + 0] /\ k + 0 \in 1..Len(h)
          /\ \A k \in 1..Len(h) : k - 0 \in 1..Len(kept) /\ kept[k - 0] = h[k]
      BY <1>8, <3>1
    <3> QED
      BY <1>8, <3>1, <3>2
  <2> QED
    BY <2>1, <2>2
<1> DEFINE new == Append(kept, e)
           last == Len(kept) + 1
<1> HIDE DEF kept
<1>10. /\ new \in Seq(HistoryEntry) /\ Len(new) = last /\ new[last] = e /\ new # <<>>
       /\ \A k \in 1..Len(kept) : new[k] = kept[k]
       /\ \A k \in 1..last : k \in 1..Len(kept) \/ k = last
       /\ \A k \in 1..Len(kept) : k \in 1..last /\ k < last
       /\ last \in 1..last
  BY <1>7, <1>9
<1>11. hist' = [hist EXCEPT ![s] = new] /\ hist'[s] = new /\ \A t \in Spis \ {s} : hist'[t] = hist[t]
  BY <1>0, <1>5 DEF DumpsTyped, new
<1>12. /\ dumpFile' \in [Spis -> Nat] /\ (busy.kind = "Read" => dumpFile'[s] = n)
       /\ \A t \in Spis \ {s} : dumpFile'[t] = dumpFile[t]
  BY <1>0, <1>5, <1>6 DEF DumpsTyped
<1>13. DumpsTyped'
  BY <1>0, <1>5, <1>10, <1>11, <1>12 DEF DumpsTyped
<1>14. ASSUME NEW t \in Spis, t # s PROVE HistoryOf(t)' /\ DumpsOf(t)'
  <2>1. SameBooks(t)
    BY <1>5, <1>11, <1>12, <1>14 DEF SameBooks
  <2>2. OpsGrow(t)
    BY <1>4, <1>6, <1>14 DEF OpsGrow
  <2> QED
    BY <1>0, <2>1, <2>2, BooksKept
<1> HIDE DEF new, last
<1>15. Back(s)' = e
  BY <1>10, <1>11 DEF Back
<1>16. /\ \A k \in 1..Len(h) : /\ h[k].id \in Ops /\ h[k].fd \in {0, h[k].id}
                               /\ h[k].fd # 0 => ~ops[h[k].id].cb
       /\ \A j, k \in 1..Len(h) : j < k => h[j].id < h[k].id
  BY <1>0, <1>1 DEF HistoryOf, h
<1>17. \A k \in 1..Len(kept) : \E m \in 1..Len(h) : m = k + c /\ new[k] = h[m]
  BY <1>9, <1>10
<1>18. HistoryOf(s)'
  <2>1. \A k \in 1..last : /\ new[k].id \in Ops' /\ new[k].fd \in {0, new[k].id}
                           /\ new[k].fd # 0 => ~ops'[new[k].id].cb
    <3> TAKE k \in 1..last
    <3>1. CASE k = last
      BY <1>6, <1>7, <1>10, <3>1
    <3>2. CASE k \in 1..Len(kept)
      <4>1. PICK m \in 1..Len(h) : new[k] = h[m]
        BY <1>17, <3>2
      <4> QED
        BY <1>6, <1>16, <4>1
    <3> QED
      BY <1>10, <3>1, <3>2
  <2>2. ASSUME NEW j \in 1..last, NEW k \in 1..last, j < k PROVE new[j].id < new[k].id
    <3>1. j \in 1..Len(kept)
      BY <1>9, <2>2 DEF last
    <3>2. j + c \in 1..Len(h) /\ new[j] = h[j + c] /\ h[j + c].id \in Ops
      BY <1>16, <1>17, <3>1
    <3>3. CASE k = last
      BY <1>6, <1>7, <1>10, <3>2, <3>3
    <3>4. CASE k \in 1..Len(kept)
      <4>1. k + c \in 1..Len(h) /\ new[k] = h[k + c] /\ j + c < k + c
        BY <1>17, <2>2, <3>4
      <4> QED
        BY <1>16, <3>2, <4>1
    <3> QED
      BY <1>10, <3>3, <3>4
  <2>3. ops'[Back(s)'.id].kind = "Read" => dumpFile'[s] = Back(s)'.id
    BY <1>4, <1>6, <1>7, <1>12, <1>15
  <2> QED
    BY <1>10, <1>11, <2>1, <2>2, <2>3 DEF HistoryOf
<1>19. DumpsOf(s)'
  <2> DEFINE d == dumps[s]
  <2>1. /\ \A m \in 1..Len(d) : d[m] \in Ops /\ ~ops[d[m]].cb
        /\ \A l, m \in 1..Len(d) : l < m => d[l] < d[m]
        /\ \A k \in 1..Len(h) : h[k].fd # 0 =>
             /\ \/ \E m \in 1..Len(d) : d[m] = h[k].fd
                \/ Len(d) >= MaxDumps - 1 /\ \A m \in 1..Len(d) : d[m] > h[k].fd
             /\ \A m \in 1..Len(d) : d[m] > h[k].id => \E j \in 1..Len(h) : h[j].fd = d[m]
    BY <1>0, <1>1 DEF DumpsOf, h
  <2>2. \A m \in 1..Len(d) : /\ d[m] \in Ops' /\ ~ops'[d[m]].cb
                             /\ new # <<>> /\ d[m] <= Back(s)'.id
    BY <1>3, <1>6, <1>7, <1>10, <1>15, <2>1
  <2>3. ASSUME NEW k \in 1..last, new[k].fd # 0
        PROVE  /\ \/ \E m \in 1..Len(d) : d[m] = new[k].fd
                  \/ Len(d) >= MaxDumps - 1 /\ \A m \in 1..Len(d) : d[m] > new[k].fd
               /\ \A m \in 1..Len(d) : d[m] > new[k].id => \E j \in 1..last : new[j].fd = d[m]
    <3>1. k \in 1..Len(kept)
      BY <1>7, <1>10, <2>3
    <3>2. k + c \in 1..Len(h) /\ new[k] = h[k + c]
      BY <1>17, <3>1
    <3>3. ASSUME NEW m \in 1..Len(d), d[m] > new[k].id
          PROVE  \E j \in 1..last : new[j].fd = d[m]
      <4>1. PICK j \in 1..Len(h) : h[j].fd = d[m]
        BY <2>1, <2>3, <3>2, <3>3
      <4>2. d[m] # 0 /\ h[j].id = d[m]
        BY <1>3, <1>16, <2>1, <4>1
      <4>3. j > c
        <5>1. CASE j < k + c
          <6>1. h[j].id < h[k + c].id /\ h[k + c].id \in Ops /\ h[j].id \in Ops
            BY <1>16, <3>2, <5>1
          <6> QED
            BY <1>3, <3>2, <3>3, <4>2, <6>1
        <5>2. CASE j >= k + c
          BY <1>9, <3>1, <5>2
        <5> QED
          BY <1>9, <3>1, <5>1, <5>2
      <4>4. j - c \in 1..Len(kept) /\ kept[j - c] = h[j]
        BY <1>9, <4>3
      <4> QED
        BY <1>10, <4>1, <4>4
    <3> QED
      BY <2>1, <2>3, <3>2, <3>3
  <2>4. dumps'[s] = d /\ hist'[s] = new /\ Len(new) = last
    BY <1>5, <1>10, <1>11
  <2>5. \A l, m \in 1..Len(d) : l < m => d[l] < d[m]
    BY <2>1
  <2> HIDE DEF d
  <2> QED
    BY <2>2, <2>3, <2>4, <2>5 DEF DumpsOf
<1>20. \A t \in Spis : HistoryOf(t)' /\ DumpsOf(t)'
  BY <1>14, <1>18, <1>19
<1> QED
  BY <1>13, <1>20 DEF DumpInv

(* A completed read that is the newest of its chip: its dump is newer than *)
(* all that are open.                                                      *)
LEMMA WaitDumps ==
  ASSUME Typed, DumpInv, ~crossed, NEW i \in Ops, WaitCallback(i)
  PROVE  DumpInv'
<1>0. DumpsTyped /\ \A t \in Spis : HistoryOf(t) /\ DumpsOf(t)
  BY DEF DumpInv
<1>1. OpsKept /\ ~ops'[i].cb /\ ops[i].cb /\ dumpFile' = dumpFile /\ Ops' = Ops
  BY WaitedOps, KeptOpsGrow DEF WaitCallback
<1>2. CASE Concludes({ops[i].spi}, "Failed") /\ UNCHANGED dumps
  BY <1>0, <1>1, <1>2, FinishedBooks, AllBooksKept
<1>3. CASE crossed'
  BY <1>3 DEF DumpInv
<1>4. PICK s \in Spis : s = ops[i].spi
  <2>1. ops[i] \in Operation
    BY DEF Typed, Ops
  <2> QED
    BY <2>1 DEF Operation
<1> DEFINE read == ops[i].kind = "Read"
           last == Len(hist[s])
           done == [Back(s) EXCEPT !.status = "Completed", !.fd = IF read THEN dumpFile[s] ELSE @]
<1>5. ASSUME ~crossed', hist' = [hist EXCEPT ![s][last] = done],
             dumps' = IF read THEN [dumps EXCEPT ![s] = Append(@, dumpFile[s])] ELSE dumps
      PROVE  DumpInv'
  <2>1. hist[s] # <<>> /\ last \in 1..last /\ Back(s).id = i
    <3>1. ~Crosses(i)
      BY <1>5 DEF WaitCallback
    <3>2. hist[s] # <<>>
      BY <1>0, <1>4 DEF HistoryOf
    <3> QED
      BY <1>0, <1>4, <3>1, <3>2, HistoryFacts DEF Crosses
  <2>2. read => dumpFile[s] = i
    BY <1>0, <2>1 DEF HistoryOf
  <2>3. Back(s) \in HistoryEntry /\ Back(s) = hist[s][last]
    BY <1>0, <2>1, HistoryFacts DEF Back
  <2>4. i \in Nat /\ i # 0 /\ \A j \in Ops : j \in Nat
    BY DEF Ops, Typed
  <2>5. /\ done \in HistoryEntry /\ done.id = i /\ (read => done.fd = i)
        /\ ~read => done.fd = Back(s).fd
    BY <2>1, <2>2, <2>3, <2>4 DEF HistoryEntry
  <2> DEFINE new == [hist[s] EXCEPT ![last] = done]
  <2>6. hist[s] \in Seq(HistoryEntry) /\ Len(hist[s]) \in Nat
    BY <1>0, HistoryFacts
  <2> HIDE DEF done
  <2>7. /\ new \in Seq(HistoryEntry) /\ Len(new) = last /\ new[last] = done /\ new # <<>>
        /\ \A k \in 1..last : k # last => new[k] = hist[s][k]
    BY <2>1, <2>5, <2>6
  <2>8. hist'[s] = new /\ hist' = [hist EXCEPT ![s] = new] /\ \A t \in Spis \ {s} : hist'[t] = hist[t]
    BY <1>0, <1>5 DEF DumpsTyped
  <2> HIDE DEF new
  <2>9. hist' \in [Spis -> Seq(HistoryEntry)]
    BY <1>0, <2>7, <2>8 DEF DumpsTyped
  <2>10. ASSUME NEW t \in Spis, t # s PROVE HistoryOf(t)' /\ DumpsOf(t)'
    <3>1. dumps'[t] = dumps[t]
      BY <1>0, <1>5, <2>10 DEF DumpsTyped
    <3>2. SameBooks(t)
      BY <1>1, <2>8, <2>10, <3>1 DEF SameBooks
    <3> QED
      BY <1>0, <1>1, <3>2, KeptOpsGrow, BooksKept
  <2>11. CASE ~read
    <3>1. SameBooks(s)
      BY <1>1, <1>5, <2>1, <2>3, <2>5, <2>7, <2>8, <2>11 DEF SameBooks
    <3>2. HistoryOf(s)' /\ DumpsOf(s)'
      BY <1>0, <1>1, <3>1, KeptOpsGrow, BooksKept
    <3>3. DumpsTyped'
      BY <1>0, <1>1, <1>5, <2>9, <2>11 DEF DumpsTyped
    <3> QED
      BY <2>10, <3>2, <3>3 DEF DumpInv
  <2>12. CASE read
    <3> DEFINE d == dumps[s]
               r == Append(d, i)
               h == hist[s]
    <3>1. d \in Seq(Nat) /\ Len(d) \in Nat /\ \A n \in 1..Len(d) : d[n] \in Nat
      BY <1>0, HistoryFacts
    <3>2. /\ r \in Seq(Nat) /\ Len(r) = Len(d) + 1 /\ r[Len(d) + 1] = i
          /\ \A n \in 1..Len(d) : r[n] = d[n] /\ n \in 1..Len(r)
          /\ \A n \in 1..Len(r) : n \in 1..Len(d) \/ n = Len(d) + 1
          /\ Len(d) + 1 \in 1..Len(r)
      BY <2>4, <3>1
    <3>3. dumps' = [dumps EXCEPT ![s] = r]
      BY <1>5, <2>2, <2>12
    <3> HIDE DEF r
    <3>4. dumps' \in [Spis -> Seq(Nat)] /\ dumps'[s] = r
      BY <1>0, <3>2, <3>3 DEF DumpsTyped
    <3>5. DumpsTyped'
      BY <1>0, <1>1, <2>9, <3>4 DEF DumpsTyped
    <3>6. /\ \A k \in 1..last : /\ h[k].id \in Ops /\ h[k].fd \in {0, h[k].id}
                                /\ h[k].fd # 0 => ~ops[h[k].id].cb
          /\ \A j, k \in 1..last : j < k => h[j].id < h[k].id
          /\ h[last].id = i
      BY <1>0, <2>1, <2>3 DEF HistoryOf
    <3>7. \A k \in 1..last : new[k].id = h[k].id /\ (k = last => new[k].fd = i)
      BY <2>5, <2>7, <2>12, <3>6
    <3>8. \A j \in Ops : ops'[j].kind = ops[j].kind /\ ops'[j].spi = ops[j].spi /\ (ops'[j].cb => ops[j].cb)
      BY <1>1 DEF OpsKept
    <3>9. Back(s)'.id = i
      BY <2>5, <2>7, <2>8 DEF Back
    <3>10. HistoryOf(s)'
      <4>1. \A k \in 1..last : /\ new[k].id \in Ops' /\ new[k].fd \in {0, new[k].id}
                               /\ new[k].fd # 0 => ~ops'[new[k].id].cb
        <5> TAKE k \in 1..last
        <5>1. CASE k = last
          BY <1>1, <3>6, <3>7, <5>1
        <5>2. CASE k # last
          BY <1>1, <2>7, <3>6, <3>8, <5>2
        <5> QED
          BY <5>1, <5>2
      <4>2. \A j, k \in 1..last : j < k => new[j].id < new[k].id
        BY <3>6, <3>7
      <4>3. dumpFile'[s] = Back(s)'.id
        BY <1>1, <2>2, <2>12, <3>9
      <4> QED
        BY <2>7, <2>8, <4>1, <4>2, <4>3 DEF HistoryOf
    <3>11. /\ \A n \in 1..Len(d) : d[n] \in Ops /\ ~ops[d[n]].cb /\ d[n] < i
           /\ \A m, n \in 1..Len(d) : m < n => d[m] < d[n]
      <4>1. \A n \in 1..Len(d) : d[n] \in Ops /\ ~ops[d[n]].cb /\ d[n] <= i
        BY <1>0, <2>1 DEF DumpsOf
      <4>2. \A n \in 1..Len(d) : d[n] # i
        BY <1>1, <4>1
      <4> QED
        BY <1>0, <2>4, <3>1, <4>1, <4>2 DEF DumpsOf
    <3>12. DumpsOf(s)'
      <4>1. \A n \in 1..Len(r) : r[n] \in Ops' /\ ~ops'[r[n]].cb /\ new # <<>> /\ r[n] <= Back(s)'.id
        <5> TAKE n \in 1..Len(r)
        <5>1. CASE n = Len(d) + 1
          BY <1>1, <2>4, <2>7, <3>2, <3>9, <5>1
        <5>2. CASE n \in 1..Len(d)
          <6>1. r[n] = d[n] /\ d[n] \in Ops /\ ~ops[d[n]].cb /\ d[n] < i /\ d[n] \in Nat
            BY <3>1, <3>2, <3>11, <5>2
          <6>2. d[n] <= i /\ ~ops'[d[n]].cb
            BY <2>4, <3>8, <6>1
          <6> QED
            BY <1>1, <2>7, <3>9, <6>1, <6>2
        <5> QED
          BY <3>2, <5>1, <5>2
      <4>2. ASSUME NEW m \in 1..Len(r), NEW n \in 1..Len(r), m < n PROVE r[m] < r[n]
        <5>1. m \in 1..Len(d)
          BY <3>1, <3>2, <4>2
        <5> QED
          BY <3>2, <3>11, <4>2, <5>1
      <4>3. ASSUME NEW k \in 1..last, new[k].fd # 0
            PROVE  /\ \/ \E n \in 1..Len(r) : r[n] = new[k].fd
                      \/ Len(r) >= MaxDumps - 1 /\ \A n \in 1..Len(r) : r[n] > new[k].fd
                   /\ \A n \in 1..Len(r) : r[n] > new[k].id => \E j \in 1..last : new[j].fd = r[n]
        <5>1. CASE k = last
          <6>1. \A n \in 1..Len(r) : ~(r[n] > i)
            <7> TAKE n \in 1..Len(r)
            <7>1. CASE n = Len(d) + 1
              BY <2>4, <3>2, <7>1
            <7>2. CASE n \in 1..Len(d)
              <8>1. r[n] = d[n] /\ d[n] < i /\ d[n] \in Nat
                BY <3>1, <3>2, <3>11, <7>2
              <8> QED
                BY <2>4, <8>1
            <7> QED
              BY <3>2, <7>1, <7>2
          <6>2. new[k].fd = i /\ new[k].id = i
            BY <3>6, <3>7, <5>1
          <6>3. Len(d) + 1 \in 1..Len(r) /\ r[Len(d) + 1] = i
            BY <3>2
          <6> QED
            BY <6>1, <6>2, <6>3
        <5>2. CASE k # last
          <6>1. /\ new[k] = h[k] /\ h[k].id = h[k].fd /\ h[k].id < i /\ h[k].id \in Ops
            <7>1. k < last
              BY <2>6, <5>2
            <7> QED
              BY <2>1, <2>7, <3>6, <4>3, <5>2, <7>1
          <6>2. /\ \/ \E n \in 1..Len(d) : d[n] = h[k].fd
                   \/ Len(d) >= MaxDumps - 1 /\ \A n \in 1..Len(d) : d[n] > h[k].fd
                /\ \A n \in 1..Len(d) : d[n] > h[k].id => \E j \in 1..last : h[j].fd = d[n]
            BY <1>0, <4>3, <6>1 DEF DumpsOf
          <6>3. \/ \E n \in 1..Len(r) : r[n] = h[k].fd
                \/ Len(r) >= MaxDumps - 1 /\ \A n \in 1..Len(r) : r[n] > h[k].fd
            <7>1. CASE \E n \in 1..Len(d) : d[n] = h[k].fd
              BY <3>2, <7>1
            <7>2. CASE Len(d) >= MaxDumps - 1 /\ \A n \in 1..Len(d) : d[n] > h[k].fd
              <8>1. Len(r) >= MaxDumps - 1
                BY <3>1, <3>2, <7>2, SpiBounds
              <8>2. \A n \in 1..Len(r) : r[n] > h[k].fd
                BY <2>4, <3>2, <6>1, <7>2
              <8> QED
                BY <8>1, <8>2
            <7> QED
              BY <6>2, <7>1, <7>2
          <6>4. ASSUME NEW n \in 1..Len(r), r[n] > h[k].id PROVE \E j \in 1..last : new[j].fd = r[n]
            <7>1. CASE n = Len(d) + 1
              BY <2>1, <3>2, <3>7, <7>1
            <7>2. CASE n \in 1..Len(d)
              <8>1. PICK j \in 1..last : h[j].fd = d[n]
                BY <3>2, <6>2, <6>4, <7>2
              <8>2. d[n] # 0 /\ d[n] < i
                BY <3>11, <7>2 DEF Ops
              <8>3. h[j].id = d[n]
                BY <3>6, <8>1, <8>2
              <8>4. j # last
                BY <2>4, <3>6, <8>2, <8>3
              <8> QED
                BY <2>7, <3>2, <7>2, <8>1, <8>4
            <7> QED
              BY <3>2, <7>1, <7>2
          <6> QED
            BY <6>1, <6>3, <6>4
        <5> QED
          BY <5>1, <5>2
      <4> HIDE DEF d
      <4> QED
        BY <2>7, <2>8, <3>4, <4>1, <4>2, <4>3 DEF DumpsOf
    <3> QED
      BY <2>10, <3>5, <3>10, <3>12 DEF DumpInv
  <2> QED
    BY <2>11, <2>12
<1>6. \/ Concludes({ops[i].spi}, "Failed") /\ UNCHANGED dumps
      \/ /\ dumps' = IF read THEN [dumps EXCEPT ![s] = Append(@, dumpFile[s])] ELSE dumps
         /\ hist' = [hist EXCEPT ![s][last] = done]
  BY <1>4 DEF WaitCallback, finishSpiOperation
<1> QED
  BY <1>2, <1>3, <1>5, <1>6

(* Empty books, at the start and when the daemon is started again.         *)
LEMMA FreshBooks ==
  ASSUME ops' = <<>>, hist' = [s \in Spis |-> <<>>], dumps' = [s \in Spis |-> <<>>],
         dumpFile' = [s \in Spis |-> 0]
  PROVE  DumpInv'
<1>1. DumpsTyped'
  <2>1. <<>> \in Seq(HistoryEntry) /\ <<>> \in Seq(Nat)
    OBVIOUS
  <2> QED
    BY <2>1 DEF DumpsTyped
<1>2. Ops' = {} /\ \A s \in Spis : hist'[s] = <<>> /\ dumps'[s] = <<>>
  BY DEF Ops
<1> QED
  BY <1>1, <1>2 DEF DumpInv, HistoryOf, DumpsOf

(* Every step keeps the books.                                             *)
LEMMA DumpStep == SpiInv /\ DumpInv /\ [Next]_vars => DumpInv'
<1> SUFFICES ASSUME SpiInv, DumpInv, [Next]_vars PROVE DumpInv'
  OBVIOUS
<1>1. Typed
  BY DEF SpiInv
<1>2. UNCHANGED ops => OpsKept
  BY <1>1 DEF OpsKept, Typed, Live
<1>3. CASE Next
  <2>1. ~crossed /\ (DumpInv => DumpsTyped)
    BY <1>3 DEF Next, DumpInv
  <2>2. CASE DetectionFails \/ HostOn \/ HostOff \/ \E s \in Spis : TimerExpires(s)
    BY <1>2, <2>1, <2>2, UntouchedBooks DEF DetectionFails, HostOn, HostOff, TimerExpires
  <2>3. ASSUME NEW i \in Ops, FlashromExits(i) PROVE DumpInv'
    BY <1>1, <2>1, <2>3, ExitedOps, UntouchedBooks DEF FlashromExits
  <2>4. ASSUME NEW i \in Ops, Timeout(i) PROVE DumpInv'
    <3>1. OpsKept
      BY <1>1, <2>4, TerminatedFacts DEF Timeout
    <3> QED
      BY <2>1, <2>4, <3>1, FinishedBooks, AllBooksKept DEF Timeout, finishSpiOperation
  <2>5. CASE onHostPowerStateChanged
    <3>1. PICK S : ops' = Terminated(S) /\ Concludes(S, "Failed")
      BY <2>5 DEF onHostPowerStateChanged
    <3>2. OpsKept
      BY <1>1, <3>1, TerminatedFacts
    <3> QED
      BY <2>1, <2>5, <3>1, <3>2, FinishedBooks, AllBooksKept DEF onHostPowerStateChanged
  <2>6. ASSUME NEW i \in Ops, ResetThrows(i) PROVE DumpInv'
    BY <2>6, FreshBooks DEF ResetThrows
  <2> QED
    BY <1>1, <1>3, <2>1, <2>2, <2>3, <2>4, <2>5, <2>6, RequestDumps, DetectedDumps, WaitDumps
    DEF Next, Daemon
<1>4. CASE UNCHANGED vars
  BY <1>4 DEF vars, DumpInv, DumpsTyped, HistoryOf, DumpsOf, Ops, Back
<1> QED
  BY <1>3, <1>4

LEMMA DumpInit == Init => DumpInv
<1> SUFFICES ASSUME Init PROVE DumpInv
  OBVIOUS
<1>1. DumpsTyped
  BY DEF Init, DumpsTyped
<1>2. Ops = {} /\ \A s \in Spis : hist[s] = <<>> /\ dumps[s] = <<>>
  BY DEF Init, Ops
<1> QED
  BY <1>1, <1>2 DEF DumpInv, HistoryOf, DumpsOf

(* A read whose dump is gone has as many newer reads as the quota keeps.   *)
LEMMA DumpsReadable == ASSUME DumpInv PROVE NewestDumpsReadable
<1> SUFFICES ASSUME ~crossed, NEW s \in Spis,
                    NEW k \in {k \in 1..Len(hist[s]) : hist[s][k].fd # 0},
                    Cardinality({j \in {j \in 1..Len(hist[s]) : hist[s][j].fd # 0} : j > k}) < MaxDumps - 1,
                    \A n \in 1..Len(dumps[s]) : dumps[s][n] # hist[s][k].fd
             PROVE  FALSE
  BY DEF NewestDumpsReadable
<1> DEFINE h == hist[s]
           d == dumps[s]
           newer == {j \in {j \in 1..Len(h) : h[j].fd # 0} : j > k}
<1>1. DumpsTyped /\ HistoryOf(s) /\ DumpsOf(s)
  BY DEF DumpInv
<1>2. Len(h) \in Nat /\ Len(d) \in Nat /\ MaxDumps \in Nat
  BY <1>1, HistoryFacts, SpiBounds
<1>3. Len(d) >= MaxDumps - 1 /\ \A n \in 1..Len(d) : d[n] > h[k].fd
  BY <1>1 DEF DumpsOf
<1>4. h[k].fd = h[k].id
  BY <1>1 DEF HistoryOf
<1>5. \A n \in 1..Len(d) : \E j \in newer : h[j].fd = d[n]
  <2> TAKE n \in 1..Len(d)
  <2>1. PICK j \in 1..Len(h) : h[j].fd = d[n]
    BY <1>1, <1>3, <1>4 DEF DumpsOf
  <2>2. d[n] > h[k].id /\ d[n] # 0 /\ d[n] \in Nat /\ h[k].id \in Nat
    BY <1>1, <1>3, <1>4, HistoryFacts
  <2>3. h[j].id = d[n]
    BY <1>1, <2>1, <2>2 DEF HistoryOf
  <2>4. j > k
    <3>1. j < k => h[j].id < h[k].id
      BY <1>1 DEF HistoryOf
    <3> QED
      BY <1>2, <2>2, <2>3, <3>1
  <2> QED
    BY <2>1, <2>2, <2>4
<1> DEFINE at == [n \in 1..Len(d) |-> CHOOSE j \in newer : h[j].fd = d[n]]
<1>6. at \in [1..Len(d) -> newer] /\ \A n \in 1..Len(d) : h[at[n]].fd = d[n]
  BY <1>5
<1>7. IsFiniteSet(newer)
  <2>1. 1 \in Int /\ Len(h) \in Int /\ newer \in SUBSET (1..Len(h))
    BY <1>2
  <2>2. IsFiniteSet(1..Len(h))
    BY <2>1, FS_Interval
  <2> QED
    BY <2>1, <2>2, FS_Subset
<1>8. IsFiniteSet(1..Len(d)) /\ Cardinality(1..Len(d)) = Len(d)
  <2>1. 1 \in Int /\ Len(d) \in Int
    BY <1>2
  <2>2. /\ IsFiniteSet(1..Len(d))
        /\ Cardinality(1..Len(d)) = IF 1 > Len(d) THEN 0 ELSE Len(d) - 1 + 1
    BY <2>1, FS_Interval
  <2> QED
    BY <1>2, <2>2
<1> HIDE DEF at
<1>9. Cardinality(newer) < Cardinality(1..Len(d))
  <2>1. Cardinality(newer) < MaxDumps - 1
    OBVIOUS
  <2>2. Cardinality(newer) \in Nat
    BY <1>7, FS_CardinalityType
  <2> QED
    BY <1>2, <1>3, <1>8, <2>1, <2>2
<1> HIDE DEF newer
<1>10. PICK m, n \in 1..Len(d) : m # n /\ at[m] = at[n]
  BY <1>6, <1>7, <1>8, <1>9, FS_PigeonHole
<1>11. d[m] = d[n]
  BY <1>6, <1>10
<1>12. m < n \/ n < m
  BY <1>2, <1>10
<1>13. d[m] \in Nat /\ d[n] \in Nat /\ (m < n => d[m] < d[n]) /\ (n < m => d[n] < d[m])
  BY <1>1, HistoryFacts DEF DumpsOf
<1> QED
  BY <1>11, <1>12, <1>13

(* checkDumpFiles never takes the dump of one of the newest reads that the *)
(* quota keeps, for any quota, history length and number of chips.         *)
THEOREM NewestDumpsKept == Spec => []NewestDumpsReadable
  BY DumpInit, DumpStep, DumpsReadable, SpiInvariant, PTL DEF Spec

=============================================================================
