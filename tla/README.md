# A TLA+ development of nvidia-code-mgmt

nvidia-code-mgmt is the firmware-management package of an NVIDIA BMC: daemons
that update, recover and watch devices, and the tools those daemons start. This
directory models the parts whose correctness depends on the order in which
things happen, checks the models with TLC on small instances, and proves most
of the safety properties with TLAPS for instances of any size.

## 1. Inventory

| component (source) | state it keeps | operations | talks to | what is hard |
|---|---|---|---|---|
| power-sequence monitor: FSM layers (`pwrseq-monitor/src/*_fsm.cpp`) | an FSM per LPU/FPGA, per module, per tray; copies of the children's states | dispatch of line, timer, reset and operator events | upward callbacks | aggregates decide on copies; faults during maintenance; missing children |
| power-sequence monitor: orchestrator, D-Bus methods (`orchestrator.cpp`, `dbus_manager.cpp`) | queue of line reports, boot deadlines, pending resets, open calls | inject and drain reports, Reset, ResetAll, deadlines, telemetry retries | gpio-mon, clients, drivers, the FSMs | reports, resets and deadlines race; deferred replies; restarts |
| power-sequence monitor: drivers (`src/hal`) | shared-line cache, boot-complete latch, polling mask | edges, reset pulses, polling ioctls | kernel | stale latches; failures in the middle of a ResetAll |
| power-sequence monitor: gpio-mon subscriber (`gpio_monitor_client.cpp`, `gpio_property_logic.hpp`) | cached lines, snapshot machine, retry timer | signals, snapshot calls, owner changes | gpio-mon over D-Bus | replies and signals in order; retries; a service that leaves |
| power-sequence monitor: descriptor, reporting, state dump | - | parsing, publishing | - | nothing that is stateful |
| item updater daemon (`src/version.cpp`, `base_item_updater.cpp`, `base_controller.cpp`, `watch.cpp`) | the Version object: status, request, device queue, unit, progress, watchdog; staged images | upload, activate, results of services, watchdog, delete, restart | systemd, clients, inventory | late and foreign job results; timeouts; reentrant property setters |
| device, recovery and debug-token updaters (`src/*_updater.cpp`, `src/*_recovery.cpp`, `src/debug_token_*.cpp`) | what the item updater keeps | discovery, arguments of the service | item updater | target filters |
| recovery tools (`recovery_tool/`) | per device: straps, reset, progress of a protocol; the task's exit status | probe, strap, stream images, wait, verify, clean up, report | I2C, USB, GPIO, message registry | one device of several failing; retries of what arrived; verdicts that do not fit the device; a queue read while it is written |
| forced recovery (`usbrcm_recovery_tool/force_recovery.cpp`, `fw-status/force_recovery`) | reset and strap lines of all boards | three phases over the boards, confirmation, straps back | GPIO, USB | a phase failing on one board; boards that share a line |
| fw-status: resources (`fw-status/fw-status.cpp`, `*_resource.*`) | a health object per configuration; cached power, endpoint, settle window | publish, power, endpoint and configuration signals, refresh timer | Entity Manager, chassis state, mctpd, devices | signals during blocking calls; matches that come after the read |
| fw-status: ERoT GPIO resource, MCTP requester (`gpio_resource.cpp`, `mctp_util`) | line event, retry and settle timers; AP check; suspended coroutines; request entries and instance ids | edges, polls, queries, resends, deferred removal | GPIO, I2C, MCTP | answers of older queries; expiry racing a response; lost edges |
| debug token tool (`debug_token/`) | nsmd's operations per endpoint, local copy of Status | query, install, erase | nsmd | late signals; partial failure over devices |
| flashrom-wrapper | ports, muxes, one operation per chip, its timer, history, open dumps | read, write, erase; timeout, exit, host power-on | flashrom, GPIO, host state | chips that share a programmer; handlers that come late; quotas |
| prebootdiag (`prebootdiag/src`) | a session coroutine; event channel; post-code gates; held straps | Enabled, Notify; session start, GPIO sequence, gates, event loop, cleanup | Settings, nsmd, GPIO, clients | handlers between awaits; full channel; lost signals; lines that fail one by one; restarts |
| dot-keyd, nvswitch-config | a session each | key installation; configuration | D-Bus, MCTP | retries, restarts |
| bios-erot-spi, set-spi-wp, nvidia_igx | - | one sequence of register or line writes | SPI, I2C | - |
| signature verifier | - | verify | OpenSSL | pure, cryptographic |
| systemd units, build files | configuration | | | |

`PROJECT.json` lists the components with their sources and status, the hazards
with the line where each one bites, and the lines each definition models.

## 2. Modules

```
TransitionTable                     the generic FSM engine
  ElementFsm  ModuleFsm  TrayFsm    the three transition tables
    FsmHierarchy                    the layers wired together   (proved)
      Orchestrator  <- LpuTelemetry the daemon                  (proved; implements FsmHierarchy)
        Orchestrator_proofs         the proofs about both
GpioSubscriber                      where the orchestrator's reports come from   (proved)
  GpioSubscriber_proofs
ItemUpdater                         firmware activation         (proved)
  ItemUpdater_proofs
PreBootDiag                         diagnostic sessions         (proved)
  PreBootDiag_proofs
RecoveryContract                    what every recovery worker promises
RecoveryWorker                      the frame the workers share
  UsbDfu McuRecovery OcpRecovery GlacierRecovery DebugToken NicForce
    RecoveryWorkers                 whichever worker is started (proved; implements RecoveryContract)
ForceRecovery  UsbRcm               Vera boards: straps and resets; images and progress codes
  VeraRecovery                      both requests               (proved)
RecoveryTools_proofs                the proofs about RecoveryWorkers and VeraRecovery
SpiFlash                            flashrom-wrapper            (proved)
  SpiFlash_proofs
MctpRequester                       the MCTP request entries
  ErotGpio                          the ERoT resource that uses them (proved)
    ErotGpio_proofs
FwStatus                            publishing and health       (proved)
  FwStatus_proofs
MCFsmHierarchy, MCFpgas, MCOneLpu, MCPreBootDiag,
MCSpiFlash, MCFwStatus              instances for TLC
```

**TransitionTable, ElementFsm, ModuleFsm, TrayFsm** are the tables of
`element_fsm.cpp`, `module_fsm.cpp` and `tray_fsm.cpp`, row by row, with their
guards and actions. The C++ engine takes the first matching row; no two rows
match at once, so a set of rows is enough. An element's boot deadline, an entry
of the orchestrator's `bootTimers_` that only the FSM's callbacks write, is a
field of the element.

**FsmHierarchy** wires them as `initFromDescriptor` and `wire*Fsm_` do: one
dispatch to an element includes everything its callbacks do to its module and
the tray. The constants are the wiring; its assumption says what the descriptor
loader guarantees (every LPU in exactly one module, absent children allowed, one
id in both slots for a one-element module). Where events come from is left
open, so the module is the abstract specification of the daemon.

**Orchestrator** adds the event loop. A callback runs to completion; the calls
it has still to make are the sequence `todo`, whose head the `Step*` actions
take, and nothing else starts before it is empty. Line reports pass three
places (`level` at gpio-mon, `signals` on the bus, `pendingQueue`), and the
synchronous sticky read of `tryRecoverStickyBc_` goes past the last two.
`pendingResets` and `calls` are the deferred replies. `LpuTelemetry` holds the
driver's polling decisions as operators on a record.

**GpioSubscriber** models the subscriber against an unreliable gpio-mon. A
line's level is a version number of which the daemon sees the parity, so "an
older level after a newer one" can be stated. Signals, replies and owner
changes share one inbox, in bus order.

**ItemUpdater** models one updater daemon with its Version object. The methods
of Version call each other, also through the overridden property setters, so
they are operators from one state of the daemon to the next, and each callback
is one action. systemd's part is its job rules: a start job lasts as long as a
oneshot service, a start replaces a stop and is merged with a running start, a
stop job ends with "done", and JobRemoved is sent for every unit.

**PreBootDiag** models the session coroutine of `prebootdiag.cpp` by the
`co_await` it is suspended at (`pc`); the D-Bus handlers (Enabled, Notify) run
only there, since everything shares one `io_context`. The code between two
awaits is one step, except the GPIO sequences and the end of a session, which
are steps of their own during which no handler runs (`Synchronous`). A wait with
a timeout may end at any moment, so the timers that cut waits short need no
representation. A D-Bus call that fails may have taken effect. Handler calls
that are refused change nothing and are left out. nsmd, Settings and the CPUs
(which sample their boot-chain strap when reset is released) are external.
`FailingCalls` and `GpioFaults` name what may fail.

**RecoveryWorker** is what the recovery services share: devices from Entity
Manager, one position per device, a verdict for the message registry, the task
state that becomes the exit status. **UsbDfu, McuRecovery, OcpRecovery,
GlacierRecovery, DebugToken** and **NicForce** are the services; a device is a
record (`hw`) of its mode, its lines and what was written into it, and every
call that reaches it may fail before or after it took effect. OCP runs a thread
per GPU, the others take their devices in any order, one after the other. In
UsbDfu time is counted in units (`SettleUnits`, `ProgramUnits`), which is what
the settle wait is about; a reset leaves the HMC off the bus (`booting`) until it
comes up in whatever mode the strap and its flash give it, and the worker may look
before that. The service `usbdfu-tool` is the command line with `--force`,
`--no-detach` and `--no-verify` (an outcome "unverified"). In GlacierRecovery a
reply may be garbled: the command byte is compared before the checksum
(`glacier_recovery_commands.cpp:215`), so a garbled answer of the loader passes
for one of firmware. In McuRecovery, SetForceRecovery gives up with exit status 0
where its lines cannot be opened or driven. In OcpRecovery the memory window counts the copies of
a chunk. In DebugToken nsmd's operations live on after the worker's deadline.
**RecoveryContract** says in a few actions what the updater and the user rely on
(a device reported healthy was not touched; one reported recovered was worked
on, is out of recovery mode when it is looked at and is left alone from then on),
and what they cannot rely on: a device reported while it is still booting may come
up in recovery mode, a garbled answer is believed, an unverified outcome says only
that the work was done. **RecoveryWorkers** is shown to implement it, with its
variables read off the devices.

**ForceRecovery** keeps the reset and strap lines of all boards and what each
CPU sampled when it left reset; **UsbRcm** keeps the CPU's log of progress codes
(a code's position is its timestamp) of which the circular queue shows the last
`QueueSize`, and reads it slot by slot while the CPU goes on logging.
**VeraRecovery** puts the two requests side by side: they meet only in the CPU.

**SpiFlash** models the daemon's one thread: D-Bus methods, timers, host state
signals and wait callbacks are actions, chip detection blocks all of them
(`busy`). A mux line that is not found is logged and skipped and flashrom runs all
the same (`bare` holds the chips that are not selected for that reason); a line
that throws ends the method in the middle of the switching, and one that throws
while the mux is switched back leaves its chip selected. `faults` counts both,
up to `MaxFaults`. Operations are numbered; a timer and a wait callback carry the number
of the operation they were made for while the code looks at what is current.
`crossed` remembers that a late handler ended an operation that was not its own;
from there on the code makes no promise but `PortHasOwner`.

**MctpRequester** has the request entries, instance ids and deferred removals as
functions of a record, and **ErotGpio** the resource whose handlers use them: a
coroutine is a client suspended in an entry, and an entry that operator[] made up
is hollow and kills the daemon, which restarts. An error of the line's event that
is not ENODEV is rethrown and sd-event disables the source: the line is not
watched any more. Which of the code's own gaps a behaviour has met is recorded in
`excused`: an assertion while the chassis is off, the answer of an older query, a
pulse between two polls, and in Interrupt mode a failed crisis probe or a failed
first read of an asserted line (`gpio_resource.cpp:411` warns, registers the event
and does not read again).

**FwStatus** models the daemon at the granularity of its blocking D-Bus calls:
`p.at` is the call publish is in, and signals sent meanwhile are queued only if
their match exists. The resources are one record with the fields their classes
share; `updateHealth` has a case per kind. `has` is the properties each
configuration has (`Lacks` the ones a run leaves out): a resource that needs one
of them is not made, `hasChassisPowerSource` decides whether it follows chassis
power, and a GPU without I2CBus is looked up by its USBPort, which may find no bus
(`p.noBus`; `fw-status.cpp:656` skips the object). Values that are there are
well-formed. `blind` remembers that a call failed which nothing repeats, and
nothing else. `missed` is the code's own race: a CPLD asks for its endpoint before
it has the matches; the set holds those whose endpoint changed in between.

## 3. Runs

| run | instance | what it shows |
|---|---|---|
| FsmHierarchy | two modules of two LPUs, one FPGA | boots have their deadlines and nothing else has; modules and tray track every child and hide no fault |
| Orchestrator | two FPGAs on one power-good line, two calls, a skipped module; timers, pulses and reads fail | every call waits for exactly the resets it started and is answered once; an Online element has a boot-complete that nothing has withdrawn; **the daemon implements FsmHierarchy** (property `FsmSpec`) |
| OneLpu | one LPU with active-low boot-complete, telemetry, restarts, fair loop | calls are answered, a healthy element comes Online whatever edges were lost (unless a failed ResetAll left it in S_RESETTING, finding below); polling follows the state |
| GpioSubscriber | one line, two level changes, one outage, one failed call, fair loop | no old level after a new one, the view catches up |
| ItemUpdater | two devices, one file name, one Delete, restarts, fair loop | a device is counted only after its own service; activations end |
| PreBootDiag | two boards, a channel of one event, two results, restarts, fair loop; all calls and lines may fail but those a property needs | events are handled only behind both gates; straps are held exactly during a session; a session ends with Settings and boards clean; an aborted session is never Completed; results are kept in order; aborts end; a push never misses nsmd's answer |
| RecoveryWorkers | eleven services, two devices in any mode, every step may fail, reboots take time, replies may be garbled | **every worker implements RecoveryContract**; what is reported recovered is done (flash not torn, chunks once, tokens installed or erased); failures reach the exit status where the code says so; workers end |
| VeraRecovery | two boards with shared or own reset lines, any of them missing; two images, a queue of three, five codes | no CPU leaves reset with half its straps; no code is passed over before the queue wraps; the worker reports |
| SpiFlash | two chips behind one port, three operations, one host power-on, one mux line fault, quotas of two | one flashrom per programmer, its chip selected unless the mux line was missing; no port stays locked; the newest dumps stay open; operations end |
| ErotGpio | both monitor modes and exit checks, two coroutines, two ids, one resend, one retry, two disturbances | a failed AP is reported once all has settled; checks end; the end of recovery is noticed |
| FwStatus | each of nine kinds in five configurations beside a USB RCM device, two events | settle windows have their timer; every complete configuration is published (but a GPU whose USB port had no bus); health fits power and endpoint once nothing is pending (but a CPLD's that missed a change) |
| ResettingStuck | one LPU | violated, see findings |

### Bounds

Two elements on a shared line are what the races between elements need; two
modules and an FPGA what the tray needs; two calls what overlap needs. One
report in flight is enough to be overtaken by the sticky read or by a reset; a
second in OneLpu gives the two lines in either order. The reports themselves,
and the histories they form, are unbounded (the state is finite).
In GpioSubscriber two level changes
give an old value equal to the newest one, the case in which suppressing a
snapshot row could be wrong; one outage and one failed call come at any point
of it. `QuietMeansSynced` and `CatchesUp` are about `MaxFailures < MaxAttempts`:
after `kDefaultMaxAttempts` failures the code stops asking until gpio-mon
reappears. In ItemUpdater `MaxMessages` holds back clients and services, never
the daemon, while two messages are on their way: enough for a stale result and
an echo to meet; `MaxDeletes = 1` gives an activation without an object once.
In PreBootDiag a channel of one event (32 in the daemon) makes overflow and the
lost sentinel frequent; with the receiver waiting it holds two, so a result can
be queued behind another one. Every sequence of events is explored; only the
results are counted (`MaxResults`), since they are numbered. The calls that do
not fail there are the ones its properties are conditional on: the read of
DiagResult (`ResultsAreKept`; the code starts over if it fails), the explicit
Get of nsmd's status (`PushesResolve`; the signal may already be lost) and the
abort path's writes and last reset release (`FinishedSessionIsClean`; the code
does not retry them).
In RecoveryWorkers two devices are one that fails and one that does not; two
images, attempts, rounds, records and polls give a first, a repeated and a last
one of each loop, and two chip selects with `ProgramUnits = SettleUnits` the
tightest timing for which the settle wait is long enough. That it is
(`DfuTiming`) is an assumption about U-Boot and the configured wait: an operator
who shortens it with `--post-flash-settle` gives it up. In VeraRecovery a queue of three with
five codes is empty, full, wrapped by one and wrapped by more; a second forced
recovery meets the lines the first one left. In SpiFlash three operations are a
running one, one that is refused or waits for the port, and one that a late
handler of the first can hit; quotas of two are exceeded by the third. One chip
is read and the other written, which keeps the run small; both on one chip, any
number of line faults and erasures are in the proofs. In
ErotGpio a second disturbance falls on the handling of the first, and two ids
are what id reuse needs. In FwStatus the two events strike at every one of the
daemon's blocking calls; the second device shows that one is not refreshed for
the other.
GpioSubscriber, SpiFlash, ErotGpio and FwStatus turn the deadlock check off
because their environment's bounds get used up; all other runs check deadlock.

### Fairness

The sd-event loop dispatches each source that stays pending: callbacks run to
their end, queued messages are processed, armed timers fire, and the message
bus answers calls. gpio-mon need not report, clients need not call, update
services need not end, and nothing needs to recover. In Orchestrator the
conditions are written `<>[]pending => []<><<A>>_vars`, which is weak fairness
because each action is enabled exactly when its source is pending.
In ItemUpdater the watchdog expires only once systemd has taken the daemon's
calls and the daemon its own property echo: it runs for minutes.
In PreBootDiag the coroutine runs on whenever what it waits for is there: each
call is answered or times out on the bus, each timed wait expires. nsmd is
assumed to serve and to finish what it is asked for, which the code relies on:
`waitForAsyncCompletion` has no timeout. Devices need not send anything.
The recovery workers are assumed to run: each of their waits has a deadline,
and nothing is assumed of the devices, nsmd or the CPU. In SpiFlash the loop
runs what is pending and detection returns; flashrom may hang. In ErotGpio the
timers fire and the socket is read; the ERoT answers requests that reach it
(each may be lost, within the bound on disturbances). FwStatus states fairness
of the daemon, and its run checks safety only.

### Findings

*ResettingStuck* is a run that TLC refutes, with the comment it contradicts
quoted in `PROJECT.json`: in a ResetAll an element whose assert fails has already
seen `RstAsserted` and is never released: it stays in S_RESETTING, which neither
power-good nor boot-complete leaves.

Seen while modelling, without a run of their own:

- A reset is answered Ok by any boot-complete report (`orchestrator.cpp:589`),
  also when the element lost power meanwhile and is in standby, and also by a
  report that was queued before the reset.
- With nothing to update, `finishActivation` (`version.cpp:345`) resets the
  request inside the call that then stores it; with no compatible device,
  `startActivation` (`version.cpp:325`) uses the progress object that
  `finishActivation` has dropped.
- `element_fsm.cpp:162` says a late boot recovers "ONLY on BootTimeout"; the
  guard above it also admits BootRegress (and HealthyComesOnline needs it to).
- A module leaves Fault for Powered when one child powers up while its sibling
  is still in fault.
- A module in Powered and a tray in Booting have no row to standby; a tray that
  is Online ignores children that go back to Powered or Stby.
- A reset after PgoodDrop can bring an element Online with no new power-good.
- The maintenance events of the tray FSM have no sender in the daemon.
- In the item updater, without the premise `clean` CountedDevicesAreUpdated
  fails: the result of a service left over from a deleted or timed-out
  activation of the same image names the same unit. A property echo can reach
  an object that was created after it, and activate it. An upload with the name
  of the image under activation removes that image. An activation with target
  filter UpdateNone leaves its devices in the queue. `onUpdateFailed` subscribes
  to every device's property changes once more.
- In prebootdiag a full channel aborts the session without an `abortReason`, so
  the results so far are dropped as for a user's Disable, and `listenForEvents`
  reports "aborted by user" whatever the reason, although `prebootdiag.hpp:104`
  says it uses the reason. A session after a restart finds DiagStatus
  InProgress, fails, and leaves the CPUs of the interrupted session on their
  diagnostic firmware (it has not looked for their boards yet). A failing write
  of the abort path skips the writes after it.
- In the recovery tools: `perform_rcm_recovery.cpp:766` says "All images sent but
  no completion code: recovery failed", the code below it reports "Successful".
  A poll of the progress codes starts from timestamp 0, so codes of an earlier
  boot are judged too, and codes that a wrapped queue has overwritten are not
  seen (the premise of NoCodePassedOver). The README of `mcu_recovery_tool`
  (218-219) promises a non-zero exit for errors that end with 0; erasing tokens
  always exits 0 (`debug_token/main.cpp:57`): these services are not in
  ExitTellsFailure. SetForceRecovery of mcu-recovery-tool also returns with 0 when
  its lines cannot be opened (`mcu_recovery_interfaces.cpp:238`) or driven (252),
  the MCUs left wherever its loops had come to. `waitForRecoveryExit`
  (`perform_dfu_recovery.cpp:599`) succeeds at the first poll that does not find the
  boot ROM, while the boot ROM takes seconds to come back
  (`perform_dfu_recovery.hpp:82`): an HMC that returns to recovery is reported
  recovered. Mcu-recovery waits three seconds and asks for positive evidence. A
  chunk that OCP recovery sends twice is caught by the GPU's authentication of the
  image, not by the tool; so ReportedWorkIsDone says of it what tool and GPU
  achieve together. SetRecoveryMode of a NIC that throws between its steps
  leaves flash-not-present or reset asserted (`connectx_resource.hpp:455`).
- In flashrom-wrapper a mux line that is not found does not stop flashrom, which
  then reads or writes whatever chip is selected (`flashrom_wrapper.cpp:747`). A
  timer that has expired while its handler is queued cannot
  be cancelled any more, and the handler ends whatever operation is current
  (`flashrom_wrapper.cpp:651`; the wait callback at 146 likewise): the premise
  `crossed`. Host power-on during detection is not noticed, since the match is
  installed after it (670), and the timer meant to end detection cannot fire
  while detection blocks the loop (852).
- In fw-status `removeRequestEntry` uses `handlers[key]` for a key that a late
  response has already erased (`handler.hpp:380`): the default-made entry has no
  handler, and the call through it ends the daemon. The answer of an older AP
  query is applied to a newer check (`gpio_resource.cpp:928`), and an assertion
  while the chassis is off is dropped (658). A failed read of MCU configuration
  leaves a resource without a manager (`fw-status.cpp:577`). A CPLD reads its
  endpoint (`cpld_resource.cpp:98`) before it installs the matches (104): a change
  in between leaves its published health wrong until the next one, which is why
  HealthIsCurrent excepts `missed`; without the exception TLC refutes it with one
  endpoint change. A GPU whose USB port has no I2C bus yet is skipped for good unless
  something else starts a publish (`fw-status.cpp:656`), a failed first read of an
  asserted ERoT line is never repeated (`gpio_resource.cpp:411`), and a failed
  GetManagedObjects (`dbusutils.cpp:224`) hides configurations until the next
  signal.

## 4. Proofs

`Orchestrator_proofs` proves about the FSM layers, for every wiring allowed by `WiringAssumption`
(any number of modules, LPUs and FPGAs, absent children, boot timers that fail
to arm):

| theorem | states |
|---|---|
| FsmInvariant | `FsmInv` is an invariant |
| FsmTyping | `FsmTypeOK` |
| NoStrayBootDeadline | `BootTimerOnlyWhenPowered` |
| EveryBootHasItsDeadline | `PoweredHasBootTimer` |
| FaultCodesAreCurrent | `FaultCodeMatchesState` |
| AggregatesAreCurrent | `AggregatesTrackChildren` |
| ModulesAreHonest | `ModuleHidesNothing` |
| TrayIsHonest | `TrayHidesNoFault` |

`FsmInv` is the conjunction of all but `PoweredHasBootTimer`, which has its own
step lemma on top of it and is about timers that can be armed. The others need each other: that a module
hides nothing follows from the guards only if the copies it decides on are
current; that the copies are current needs the types (which slot a child sits
in); the tray's honesty through maintenance rests on its copies and on the
modules' own honesty. The argument goes up the layers: facts about the rows of
each table, then about one dispatch of each FSM, then about one notification
(an LPU's change through its module to the tray, an FPGA's change to the tray),
then about each action, and PTL combines them.

About the daemon it proves, for every tray, every assignment of lines to
elements (finitely many lines, none both power-good and boot-complete), any
clients and any outcome of pulses, reads, ioctls and timers:

| theorem | states |
|---|---|
| DaemonInvariant | `DaemonInv` is an invariant |
| DaemonTyped | `TypeOK` |
| CallsAccounted | `CallAccounting` |
| PollingIsRight | `PollingFollowsOnline` (a property of ioctls that succeed) |
| DaemonKeepsFsmInvariant | `FsmInv`, so all the state properties above but `PoweredHasBootTimer`, in the daemon, restarts included |
| DaemonImplementsFsms | `FsmSpec`, for a daemon that is not restarted |
| DaemonRestartsFsms | every step is a step of `FsmHierarchy`, a stutter, or a restart that puts the layers back into `FsmInit` |
| OnlineOnBootComplete | `OnlineHasBootComplete`, where no two elements share a boot-complete line (`OwnBcLine`) |

`DaemonInv` is `FsmInv`, the types, polling, `CallAccounting` and `StickyEnds`.
Most actions map to one action of `FsmHierarchy` or to a stutter at sight. The
exception is the end of a sticky recovery, which erases an entry of `bootTimers_`
without asking the FSM (`orchestrator.cpp`): it is a stutter only because the
replayed boot-complete event before it has already taken the element out of
S_POWERED and with it the entry. `StickyEnds` says that: the erasure is the last
thing staged, only replays come before it, and if the deadline is still armed one
of them cancels it. `OnlineOnBootComplete` needs two more parts: `Staged`, that
the events of a notification are dispatched before anything else, and
`LatchRight`, that while the latch of an element is down nothing staged brings the
element up, and an element that is still Online is about to be taken down. Its
hypothesis is needed: on a shared line one element's reset clears the other's
latch. The checked instances satisfy it.

`GpioSubscriber_proofs` proves, for any lines and any number of changes, outages,
failures and attempts:

| theorem | states |
|---|---|
| SubscriberInvariant | `SubscriberInv` is an invariant |
| QuietIsSynced | `QuietMeansSynced` (a property of fewer failing calls than attempts) |
| LevelsInOrder | `SeenNeverGoesBack` |
| SubscriberTyped | `TypeOK` |

That levels are seen in order rests on `InOrder` (the messages in the inbox tell
of a line in the order of its levels, a snapshot counting for every line, and
none is older than what was injected) and on `CacheInjected`. That a quiet
subscriber is synced is an induction over what is on its way, `OnTheWay`: while
gpio-mon is up, an error of the bus is followed by an appearance, a snapshot in
the inbox leads, with the signals behind it, to the lines as they are, and so does
the cache when no snapshot is to come. It needs that the snapshot machine, the
call slot and the timer agree (`MachineRight`), that a departure in the inbox is
followed by an appearance while gpio-mon is up (`Returns`), that attempts are used
up by failures only (`AttemptsCounted`), and who answers while gpio-mon is gone
(`GoneAnswers`).

`PreBootDiag_proofs` proves, for every channel size and every choice of failing
calls and GPIO lines, with and without restarts:

| theorem | states |
|---|---|
| SessionInvariant | `SessionInv` is an invariant |
| EnabledIsCurrent | `EnabledTracksSession` |
| GatesHold | `GatesPassed` |
| StrapsAreHeld | `StrapsHeldInSession` |
| SentinelIsNoResult | `SentinelNeverCompletes` |
| SessionsEndClean | `FinishedSessionIsClean`, assuming `ReliableCleanup`: the abort path's writes and its last reset release do not fail |
| NoResultIsLost | `ResultsAreKept`, assuming that DiagResult can be read (where it cannot, the handler starts over from an empty list) |

`SessionInv` adds two parts that no run states: there is a session exactly
while the coroutine is not idle (so that Enable never starts a second one), and
a sentinel in the channel means that an abort was requested (so that the loop,
which looks at `abortRequested` after each receive, never handles a sentinel).
The proof has type correctness per action, then one lemma per group of actions;
most steps touch neither straps nor gates, which one lemma (`QuietMoves`) says
for all of them. `SessionsEndClean` is a second induction that follows the two
ways out of a session, through the writes of Completed and of Abort.
`NoResultIsLost` is a third: `ResultInv` says that DiagResult holds the session's
results from the first one on, the one in hand is the next, and the channel holds
only later ones, each once and in order.

`FwStatus_proofs` proves, for any set of devices of any kinds, any probe answers
and any number of events:

| theorem | states |
|---|---|
| StatusInvariant | `StatusInv` is an invariant |
| SettleWindowsEnd | `SettlingHasTimer` |
| EveryConfigIsPublished | `ConfigsPublished` |
| HealthInvariant | `HealthInv` is an invariant |
| PublishedHealthIsCurrent | `HealthIsCurrent` |

`StatusInv` adds to the types that a configuration is constructed once, that only
a resource whose cached power state is On is settling, and `Announced`: a complete
configuration without a resource is still in publish's list, about to be read by
it, announced by a signal in the queue, or a GPU that found no bus. That last part is what carries
`ConfigsPublished` through the steps in which nothing is idle. `HealthInv`, on
top of it, follows the values: the newest queued signal about a device's endpoint
or about power tells what is now (`NewestTells`, which needs that the match was
there in time, `Matched`), so a resource either knows its endpoint and its power
or has the signal coming (`EndpointKnown`, `PowerKnown`; a CPLD in `missed` knows
nothing of its endpoint until the next signal), and outside the settle
window its state fits what it knows (`StatesFit`).

`SpiFlash_proofs` proves, for any chips, ports, operations per chip, quotas and
number of operations:

| theorem | states |
|---|---|
| SpiInvariant | `SpiInv` is an invariant |
| FlashromIsAlone | `FlashesSelectedChip` |
| NoPortIsLost | `PortHasOwner` |
| NewestDumpsKept | `NewestDumpsReadable` |

`SpiInv` adds `TimersFit` (an armed timer belongs to an operation of its chip)
and, as long as no late handler crossed, `Held`: a chip with a process or a timer
watches the host state, a chip that does is selected (or `bare`) and holds its
port alone, and a running flashrom is its chip's current operation. As long as no
line was missing or threw, no other chip is selected.
`PortHasOwner` needs nothing of `Held`, so it survives the late handlers.

`NewestDumpsKept` has an invariant of its own, `DumpInv`: the history and the
open dumps of a chip are in the order of its operations, and a read of the history
whose dump is gone is older than every open dump, of which there are at least
`MaxDumps - 1`. Each of those belongs to a newer entry of the history, so by the
pigeonhole principle the read is not among the newest that the quota keeps.

`RecoveryTools_proofs` proves of RecoveryWorkers, for any number of devices, images, chunks,
retries, rounds and tokens:

| theorem | states |
|---|---|
| WorkersKeepContract | `KeepsContract`: RecoveryWorkers implements RecoveryContract |
| ReportsAreTrue | `ReportedWorkIsDone` |
| ExitStatusTells | `ExitTellsFailure` |

The refinement mapping is the one of the run: a device is disturbed when its
worker has driven it. `WorkerInv` has one part per service, which says at each
step of the handling what is known of the device (for a GPU, for example, that
one that runs after the last activation was sent intact images), and the parts
of the frame: a device with a verdict is done, and a failed one has set the task's
error where the service lets verdicts reach its exit status. The proof that a
USB-DFU worker reports no torn image needs that the wait is as long as the
programming (`DfuTiming`). The contract's `booting` and `misread` are where the
workers' own looks at a device are weaker than its mode; the MCU, OCP and NIC
parts do not use them.

It also proves, of VeraRecovery, for any number of images, polls, queue slots and codes:

| theorem | states |
|---|---|
| StrapsComplete | `NoPartialBoot` |
| CodesNotPassedOver | `NoCodePassedOver` |
| VeraTyped | `VeraTypeOK` |

The first rests on `StrapsFirst`: the phase that releases resets is entered only
when the straps of every board are set. The second on `ReadsPrefix`: as long as the
queue has not wrapped, a poll reads it from the first code on, so that what it has
is a prefix of the log even if codes are written between its reads.

`ItemUpdater_proofs` proves, for any devices, images and target filters, any
order in which the inventory lists the devices, any number of messages and
Deletes, with and without restarts:

| theorem | states |
|---|---|
| UpdaterInvariant | `UpdaterInv` is an invariant |
| UpdaterTyped | `TypeOK`; the progress stays a percentage however many steps of 80 / n are added |
| CountedDevicesUpdated | `CountedDevicesAreUpdated` |
| ActivationWatched | an activation always has its watchdog and a device for it to cancel, and a watchdog that fires ends it: the safety half of `ActivationEnds` |

`UpdaterInv` is `Types` and, in an activation that started with nothing of an
earlier one under way (`clean`), `AtWork`. `CountedDevicesAreUpdated` is not
inductive: that a result which names the current unit is the current device's
own needs that the service of the device at the head of the queue is in exactly
one place, its StartUnit call on its way, running, its one result on its way, or
that result ignored, and that no other update service is anywhere. `Types` holds
`InProgress`, which ties unit, queue, timer and progress together: the unit is
that of the queue's head, and the progress left is enough for every device still
queued, which is the integer division's part of the argument. Each callback is
a function of the record `World`; one lemma says what it makes of the object,
and one per action what that does to `AtWork`.

`ErotGpio_proofs` proves, for any instance ids, any number of resends, retries,
disturbances and messages in flight, in both monitor modes and with both ways
of finding out that recovery ended:

| theorem | states |
|---|---|
| ErotInvariant | `ErotInv` is an invariant |
| ErotTyped | `TypeOK` |
| FatalApReported | `FatalApIsReported` |
| QueriesPaired | every suspended query has exactly one request entry, every entry that is not hollow a suspended query: no coroutine is resumed twice or left behind |
| ChecksDriven | an open AP check has its timer armed or its query suspended in an entry: the safety half of `ChecksEnd` |
| DiesOnHollowEntries | (an action property) the daemon dies only while a hollow entry is there, one that a deferred removal made up because its entry had been taken |

`FatalApIsReported` speaks of a quiet resource; `ErotInv` of every state: while
the line is asserted, and nothing was dropped on purpose, the AP is reported, or
a check is open, or something that will open one is `Pending` (the line is away
or not yet watched, an edge or a poll still to come, the ERoT in recovery). Three
things support it. `EdgesRight`: the last event in the kernel's FIFO is the level
of the line, so the last one read is an assertion if the line is asserted.
`Fresh`: an answer "boot complete" that is still on its way to the current
check's own query was given before the line rose, and then the rise is itself
pending; so an answer that closes a check closes none that is needed. And
`Paired` with `Hollowed`, which say whose query an answer, an expiry or a failed
send ends. Each handler is a function of the resource's record, and `Keeps` is
what a handler owes the report; it is transitive, so the facts about the small
methods compose along the walk of the requester, which may end several queries
in one step.

Only model-checked is what needs fairness or is stated with it, which is out of
the prover's reach as ENABLED is: `CallsAreAnswered`, `HealthyComesOnline`,
`CatchesUp`, `ActivationEnds`, `AbortEnds`, `PushesResolve`, `WorkerEnds`,
`WorkerReports`, `OperationsEnd`, `ChecksEnd` and `RecoveryExitSeen`. Every
invariant and every action property of a passing run is proved.

`EnabledTracksSession`, `FaultCodeMatchesState`, `FsmTypeOK` and the types of
Orchestrator, GpioSubscriber, VeraRecovery, ItemUpdater and ErotGpio are proved
and no run repeats them.

## 5. Not modelled

Parsing (descriptor, TLV, command lines), publishing of D-Bus objects,
messages for the log, cryptography, and register access carry no state that an
order of events could break. In the daemons that are modelled: the state dump
and log-drain requests; the synchronous fallback of `scheduleDrain_` when no
deferred source can be armed; the release of the expired boot timer's event
source; in the item updater, the properties an inventory device announces one
by one (one event here), images under `IMG_DIR_PERSIST` (nothing writes regular
files there) and an empty image path (no caller creates one); in the recovery
tools, the protocols of blhost, dfu-util and USB bulk transfers below their
result, the interactive single-command modes and a `uBootDfuTimeoutSecs` of zero
(only `test_usbdfu_recovery.cpp:283` sets it, no configuration or option can); in the debug token tool, the
legacy MCTP VDM path, which main never calls; in fw-status, the layout of the
published objects, the AP resource's own object and MCTP message encoding.

The device updaters, dot-keyd, nvswitch-config and nvidia_igx have no module yet.

## 6. Plan

1. An instance of GpioSubscriber's order under Orchestrator, so that the reports
   it assumes are the ones the subscriber gives, proved as a refinement.
2. dot-keyd and nvswitch-config: key installation and configuration with their
   retries and restarts.
3. Item updater, continued: target selection of the retimer, NVMe, CPLD and
   vHMC updaters as the functions they are, and the composition of an updater
   with the worker it starts (an exit status that reaches Activation).
4. nvidia_igx, last.
