----------------------------- MODULE SpiFlash -----------------------------
(* flashrom-wrapper: the daemon that reads, writes and erases the CPU's    *)
(* SPI chips with flashrom while the host is off.  One thread runs the     *)
(* D-Bus methods, the timers, the host state signals and the wait          *)
(* callbacks of the flashrom processes; chip detection blocks it.          *)
EXTENDS Naturals, FiniteSets, Sequences

CONSTANTS
  Spis,         \* the SPI objects of Entity Manager
  PortOf,       \* the USB port of the programmer that reaches a chip
  KindsOf,      \* the operations asked of a chip: Read, Write, Erase
  MaxHistory,   \* maxProgressHistory
  MaxDumps,     \* maxSpiDumps
  MaxOps,       \* bound: operations started in a behaviour
  MaxPowerOns,  \* bound: times the host is powered on
  MaxFaults     \* bound: passes over the mux lines that miss or fail on one

Kinds == {"Read", "Write", "Erase"}
ASSUME SpiBounds ==
  /\ MaxHistory \in Nat \ {0} /\ MaxDumps \in Nat \ {0}
  /\ KindsOf \in [Spis -> SUBSET Kinds] /\ MaxFaults \in Nat

VARIABLES
  host,      \* CurrentHostState is Off or not
  powerOns,  \* how often it left Off
  signals,   \* a host state signal that is not Off waits in the connection
  inUse,     \* usbPortInUse
  mux,       \* the chips the SPI muxes are switched to
  bare,      \* chips whose mux line was not found when they were selected
  faults,    \* mux lines missing or failing so far
  ops,       \* every operation started: chip, kind, its flashrom, its wait
  hist,      \* progressHistory of a chip, oldest first
  cur,       \* currentProcess of a chip: an operation, or 0
  timer,     \* timeoutTimer of a chip: the operation it was armed for, or 0
  expired,   \* operations whose expired timer's handler waits to run
  match,     \* chips with a hostPowerStateMatch
  dumpFile,  \* the dump a chip's read writes to
  image,     \* filePath: the write whose image file is in /tmp, or 0
  dumps,     \* dumpFiles of a chip: dumps whose descriptor is open
  busy,      \* the request whose chip detection blocks the thread
  crossed    \* a late handler has ended an operation that was not its own

lines == <<mux, bare, faults>>
vars == <<host, powerOns, signals, inUse, lines, ops, hist, cur, timer, expired, match,
          dumpFile, image, dumps, busy, crossed>>

NotBusy == [spi |-> "none", kind |-> "none"]
Ops == 1..Len(ops)
Back(s) == hist[s][Len(hist[s])]
(* An operation on the chip is in progress: its newest entry says so.      *)
Pending(s) == hist[s] # <<>> /\ Back(s).status = "InProgress"

Init ==
  /\ host \in {"off", "on"} /\ powerOns = 0 /\ signals = FALSE
  /\ inUse = {} /\ mux = {} /\ bare = {} /\ faults = 0 /\ ops = <<>>
  /\ hist = [s \in Spis |-> <<>>]
  /\ cur = [s \in Spis |-> 0] /\ timer = [s \in Spis |-> 0]
  /\ expired = {} /\ match = {}
  /\ dumpFile = [s \in Spis |-> 0] /\ image = [s \in Spis |-> 0] /\ dumps = [s \in Spis |-> <<>>]
  /\ busy = NotBusy /\ crossed = FALSE

(* Two SPI objects can share the programmer behind a port; the maps are    *)
(* the daemon's, not the hardware's.                                       *)
isUsbInUse(s) == PortOf[s] \in inUse
markUsbInUse(s) == inUse \cup {PortOf[s]}
releaseUsb(S) == inUse \ {PortOf[s] : s \in S}
isHostPowerOff == host = "off"

(* The mux lines.  A line that is not found is logged and skipped, and the *)
(* operation goes on; one that cannot be requested or set throws.          *)
Fault == faults < MaxFaults /\ faults' = faults + 1
setSpiMux(s) ==
  \/ mux' = mux \cup {s} /\ bare' = bare \ {s} /\ UNCHANGED faults
  \/ Fault /\ UNCHANGED mux /\ bare' = bare \cup {s}
setSpiMuxThrows(s) == Fault /\ mux' \in {mux, mux \cup {s}} /\ UNCHANGED bare
LeftMuxed(S) == Fault /\ (\E T \in SUBSET S : T # S /\ mux' = mux \ T) /\ bare' = bare \ S
resetSpiMux(S) ==
  \/ mux' = mux \ S /\ bare' = bare \ S /\ UNCHANGED faults
  \/ LeftMuxed(S)

BugDropsNewestDump(s, kind) ==
  IF kind = "Read" /\ Len(dumps[s]) >= MaxDumps THEN SubSeq(dumps[s], 1, Len(dumps[s]) - 1) ELSE dumps[s]
(* checkDumpFiles: a read over the quota gives up the oldest dump first.   *)
checkDumpFiles(s, kind) ==
  IF kind = "Read" /\ Len(dumps[s]) >= MaxDumps THEN Tail(dumps[s]) ELSE dumps[s]

BugSharesPort(s, kind) ==
  /\ busy = NotBusy /\ Len(ops) < MaxOps /\ isHostPowerOff
  /\ dumps' = [dumps EXCEPT ![s] = checkDumpFiles(s, kind)]
  /\ setSpiMux(s) /\ inUse' = markUsbInUse(s)
  /\ busy' = [spi |-> s, kind |-> kind]
  /\ UNCHANGED <<host, powerOns, signals, ops, hist, cur, timer, expired, match, dumpFile, image, crossed>>
(* startSpiOperation up to chip detection.  A request for a port in use or *)
(* with the host not off is refused and changes nothing; a mux line that   *)
(* throws ends it before the port is marked.                               *)
Request(s, kind) ==
  /\ busy = NotBusy /\ Len(ops) < MaxOps
  /\ ~isUsbInUse(s) /\ isHostPowerOff
  /\ dumps' = [dumps EXCEPT ![s] = checkDumpFiles(s, kind)]
  /\ \/ setSpiMux(s) /\ busy' = [spi |-> s, kind |-> kind] /\ inUse' = markUsbInUse(s)
     \/ setSpiMuxThrows(s) /\ UNCHANGED <<busy, inUse>>
  /\ UNCHANGED <<host, powerOns, signals, ops, hist, cur, timer, expired, match, dumpFile, image, crossed>>

BugKeepsPort ==
  /\ busy # NotBusy
  /\ resetSpiMux({busy.spi}) /\ busy' = NotBusy
  /\ UNCHANGED <<host, powerOns, signals, inUse, ops, hist, cur, timer, expired, match, dumpFile, image, dumps, crossed>>
(* The port is free again, also when the mux throws into the reply.        *)
DetectionFails ==
  /\ busy # NotBusy
  /\ inUse' = releaseUsb({busy.spi}) /\ resetSpiMux({busy.spi})
  /\ busy' = NotBusy
  /\ UNCHANGED <<host, powerOns, signals, ops, hist, cur, timer, expired, match, dumpFile, image, dumps, crossed>>

(* The chip was found: the progress entry, the timeout, the match on the   *)
(* host state, and flashrom; that flashrom cannot be run is only logged.   *)
Entry(i, kind) == [id |-> i, kind |-> kind, status |-> "InProgress", fd |-> 0]
executeFlashrom(i, started) ==
  /\ ops' = Append(ops, [spi |-> busy.spi, kind |-> busy.kind, cb |-> started,
                         proc |-> IF started THEN "running" ELSE "none"])
  /\ cur' = IF started THEN [cur EXCEPT ![busy.spi] = i] ELSE cur
ChipDetected ==
  /\ busy # NotBusy
  /\ LET s == busy.spi
         i == Len(ops) + 1
         kept == IF Len(hist[s]) >= MaxHistory THEN Tail(hist[s]) ELSE hist[s] IN
     /\ hist' = [hist EXCEPT ![s] = Append(kept, Entry(i, busy.kind))]
     /\ timer' = [timer EXCEPT ![s] = i]
     /\ match' = match \cup {s}
     /\ dumpFile' = IF busy.kind = "Read" THEN [dumpFile EXCEPT ![s] = i] ELSE dumpFile
     /\ image' = IF busy.kind = "Write" THEN [image EXCEPT ![s] = i] ELSE image
     /\ \E started \in BOOLEAN : executeFlashrom(i, started)
  /\ busy' = NotBusy
  /\ UNCHANGED <<host, powerOns, signals, inUse, lines, expired, dumps, crossed>>

(* finishSpiOperation for the chips in S, before its resetSpiMux: the      *)
(* newest entry of each gets the status, whichever operation the caller    *)
(* was about, its image is removed and its port released; and after it:    *)
(* timer, match and process are let go.                                    *)
Concludes(S, status) ==
  /\ hist' = [s \in Spis |-> IF s \in S /\ hist[s] # <<>>
                             THEN [hist[s] EXCEPT ![Len(hist[s])].status = status]
                             ELSE hist[s]]
  /\ image' = [s \in Spis |-> IF s \in S THEN 0 ELSE image[s]]
  /\ inUse' = releaseUsb(S)
LetsGo(S) ==
  /\ timer' = [s \in Spis |-> IF s \in S THEN 0 ELSE timer[s]]
  /\ match' = match \ S
  /\ cur' = [s \in Spis |-> IF s \in S THEN 0 ELSE cur[s]]
finishSpiOperation(S, status) == Concludes(S, status) /\ resetSpiMux(S) /\ LetsGo(S)

(* currentProcess->terminate(): its wait callback still comes.             *)
Terminated(S) ==
  [i \in Ops |-> IF i \in {cur[s] : s \in S} /\ ops[i].proc = "running"
                 THEN [ops[i] EXCEPT !.proc = "bad"] ELSE ops[i]]

(* A handler of operation i runs although i is over and the chip's port    *)
(* has been taken again, or the chip has a newer entry.                    *)
Crosses(i) ==
  LET s == ops[i].spi IN Back(s).id # i \/ (~Pending(s) /\ PortOf[s] \in inUse)

(* A cancelled timer that had expired before still runs its handler.       *)
TimerExpires(s) ==
  /\ timer[s] # 0 /\ timer' = [timer EXCEPT ![s] = 0]
  /\ expired' = expired \cup {timer[s]}
  /\ UNCHANGED <<host, powerOns, signals, inUse, lines, ops, hist, cur, match, dumpFile, image, dumps, busy, crossed>>

BugTimeoutOnlyKills(i) ==
  /\ busy = NotBusy /\ i \in expired /\ ops' = Terminated({ops[i].spi})
  /\ expired' = expired \ {i}
  /\ UNCHANGED <<host, powerOns, signals, inUse, lines, hist, cur, timer, match, dumpFile, image, dumps, busy, crossed>>
Timeout(i) ==
  /\ busy = NotBusy /\ i \in expired
  /\ ops' = Terminated({ops[i].spi})
  /\ finishSpiOperation({ops[i].spi}, "Failed")
  /\ crossed' = (crossed \/ Crosses(i))
  /\ expired' = expired \ {i}
  /\ UNCHANGED <<host, powerOns, signals, dumpFile, dumps, busy>>

(* A signal is sent only to a connection with a match for it.              *)
HostOn ==
  /\ host = "off" /\ powerOns < MaxPowerOns
  /\ host' = "on" /\ powerOns' = powerOns + 1
  /\ signals' = (signals \/ match # {})
  /\ UNCHANGED <<inUse, lines, ops, hist, cur, timer, expired, match, dumpFile, image, dumps, busy, crossed>>

HostOff ==
  /\ host = "on" /\ host' = "off"
  /\ UNCHANGED <<powerOns, signals, inUse, lines, ops, hist, cur, timer, expired, match, dumpFile, image, dumps, busy, crossed>>

(* onHostPowerStateChanged for every match there is now: of two chips on   *)
(* one port the second one finds the port released and returns.  It        *)
(* catches what resetSpiMux throws: the timer, the match and the process   *)
(* of such a chip stay, and a chip that was left so may be one of them.    *)
onHostPowerStateChanged ==
  /\ busy = NotBusy /\ signals /\ signals' = FALSE
  /\ \E S \in SUBSET match :
       /\ {PortOf[s] : s \in S} = {PortOf[s] : s \in match} \cap inUse
       /\ \A s, t \in S : PortOf[s] = PortOf[t] => s = t
       /\ ops' = Terminated(S) /\ Concludes(S, "Failed")
       /\ \/ resetSpiMux(S) /\ LetsGo(S)
          \/ LeftMuxed(S) /\ \E threw \in SUBSET S : LetsGo(S \ threw)
       /\ crossed' = (crossed \/ \E s \in S : ~Pending(s))
  /\ UNCHANGED <<host, powerOns, expired, dumpFile, dumps, busy>>

FlashromExits(i) ==
  /\ i \in Ops /\ ops[i].proc = "running"
  /\ \E r \in {"ok", "bad"} : ops' = [ops EXCEPT ![i].proc = r]
  /\ UNCHANGED <<host, powerOns, signals, inUse, lines, hist, cur, timer, expired, match, dumpFile, image, dumps, busy, crossed>>

(* The wait callback: after a successful read the dump is opened and put   *)
(* into the newest entry.                                                  *)
WaitCallback(i) ==
  /\ busy = NotBusy /\ i \in Ops /\ ops[i].cb /\ ops[i].proc # "running"
  /\ ops' = [ops EXCEPT ![i].cb = FALSE, ![i].proc = "done"]
  /\ crossed' = (crossed \/ Crosses(i))
  /\ LET s == ops[i].spi
         read == ops[i].kind = "Read" IN
     \/ finishSpiOperation({s}, "Failed") /\ UNCHANGED dumps
     \/ /\ ops[i].proc = "ok"
        /\ dumps' = IF read THEN [dumps EXCEPT ![s] = Append(@, dumpFile[s])] ELSE dumps
        /\ LET done == [Back(s) EXCEPT !.status = "Completed", !.fd = IF read THEN dumpFile[s] ELSE @] IN
           /\ hist' = [hist EXCEPT ![s][Len(hist[s])] = done]
           /\ inUse' = releaseUsb({s}) /\ resetSpiMux({s}) /\ LetsGo({s})
           /\ image' = [image EXCEPT ![s] = 0]
  /\ UNCHANGED <<host, powerOns, signals, expired, dumpFile, busy>>

(* What resetSpiMux throws in a timer's or a process's handler ends the    *)
(* daemon, and the flashrom processes with it; it is started again.        *)
ResetThrows(i) ==
  /\ busy = NotBusy /\ (i \in expired \/ (ops[i].cb /\ ops[i].proc # "running"))
  /\ LeftMuxed({ops[i].spi})
  /\ signals' = FALSE /\ inUse' = {} /\ ops' = <<>> /\ expired' = {} /\ match' = {}
  /\ hist' = [s \in Spis |-> <<>>] /\ dumps' = [s \in Spis |-> <<>>]
  /\ cur' = [s \in Spis |-> 0] /\ timer' = [s \in Spis |-> 0]
  /\ dumpFile' = [s \in Spis |-> 0] /\ image' = [s \in Spis |-> 0]
  /\ UNCHANGED <<host, powerOns, busy, crossed>>

Daemon ==
  \/ DetectionFails \/ ChipDetected \/ onHostPowerStateChanged
  \/ \E i \in Ops : Timeout(i) \/ WaitCallback(i) \/ ResetThrows(i)

(* A behaviour is followed up to the first late handler that hits another  *)
(* operation: after it the daemon's books and the bus are out of step.     *)
Next ==
  /\ ~crossed
  /\ \/ Daemon
     \/ \E s \in Spis : TimerExpires(s) \/ \E kind \in KindsOf[s] : Request(s, kind)
     \/ \E i \in Ops : FlashromExits(i)
     \/ HostOn \/ HostOff

(* The event loop runs its handlers, timers expire, and chip detection     *)
(* ends (its own timeout cannot fire while the thread is blocked in it).   *)
(* A flashrom process need not end.                                        *)
Spec ==
  /\ Init /\ [][Next]_vars
  /\ WF_vars(~crossed /\ (DetectionFails \/ ChipDetected))
  /\ \A i \in 1..MaxOps : WF_vars(~crossed /\ i \in Ops /\ (Timeout(i) \/ WaitCallback(i)))
  /\ \A s \in Spis : WF_vars(~crossed /\ TimerExpires(s))

TypeOK ==
  /\ host \in {"off", "on"} /\ inUse \subseteq {PortOf[s] : s \in Spis}
  /\ mux \subseteq Spis /\ bare \subseteq Spis /\ faults \in 0..MaxFaults /\ match \subseteq Spis /\ expired \subseteq Ops
  /\ \A s \in Spis : /\ Len(hist[s]) <= MaxHistory /\ (crossed \/ Len(dumps[s]) <= MaxDumps)
                     /\ cur[s] \in 0..Len(ops) /\ timer[s] \in 0..Len(ops)

Live(i) == ops[i].proc = "running"

(* A running flashrom has its chip muxed in, unless setSpiMux did not find *)
(* its mux line and went on without, and as long as no mux line was        *)
(* missing or failing it is the only chip behind its programmer that is.   *)
(* Its port is marked, and a write has its image file.  Never do two of    *)
(* them drive the programmer on one USB port, nor detection next to one:   *)
(* two chips that share the port take turns, as long as no late handler    *)
(* has ended an operation of another.                                      *)
FlashesSelectedChip == ~crossed => \A i \in Ops : Live(i) =>
  /\ ops[i].spi \in mux \cup bare /\ PortOf[ops[i].spi] \in inUse
  /\ faults = 0 => \A t \in mux : PortOf[t] = PortOf[ops[i].spi] => t = ops[i].spi
  /\ ops[i].kind = "Write" => image[ops[i].spi] = i
  /\ \A j \in Ops : Live(j) /\ PortOf[ops[j].spi] = PortOf[ops[i].spi] => i = j
  /\ busy # NotBusy => PortOf[ops[i].spi] # PortOf[busy.spi]

(* A port in use is in use by someone who will release it: detection, or   *)
(* an operation with a timer armed or expired.                             *)
PortHasOwner == \A p \in inUse :
  \/ busy # NotBusy /\ PortOf[busy.spi] = p
  \/ \E s \in Spis : PortOf[s] = p /\ (timer[s] # 0 \/ \E i \in expired : ops[i].spi = s)

(* The dumps of the newest completed reads stay readable: giving up the    *)
(* oldest one over the quota never takes away another.                     *)
NewestDumpsReadable == ~crossed => \A s \in Spis :
  LET reads == {k \in 1..Len(hist[s]) : hist[s][k].fd # 0} IN
  \A k \in reads : Cardinality({j \in reads : j > k}) < MaxDumps - 1 =>
    \E n \in 1..Len(dumps[s]) : dumps[s][n] = hist[s][k].fd

(* Every operation that was started ends, also when flashrom cannot be run *)
(* or hangs, and its client sees a final status.                           *)
OperationsEnd == \A s \in Spis :
  Pending(s) ~> (crossed \/ ~Pending(s))
===========================================================================
