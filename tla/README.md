# OpenRacing: TLA+ models, model checking and proofs

OpenRacing drives force-feedback steering wheels: a real-time loop computes a
torque a thousand times a second and writes it to a motor that can injure the
person holding the wheel. This directory holds TLA+ models of the parts of the
repository that decide how much torque reaches the motor and what happens when
something fails, the TLC configurations that check them, and TLAPS proofs.

## 1. The system and its parts

Paths are relative to `src/crates/`.

| Part | State it keeps | Operations | What is hard about it |
|---|---|---|---|
| Safety service, `engine/src/safety.rs` | torque state machine, active challenge, device tokens, fault counters, hands-on time | request, consent, combo start, confirmation, Moza inputs, faults, clear, cancel, disable, expiry | every transition may be interrupted by a fault or an expiry; the challenge is kept twice; several clock reads per call |
| Safety interlock and software watchdog, `engine/src/safety/hardware_watchdog.rs` | watchdog (armed, last feed, sticky timeout), timeout handler, interlock state, communication time, ring of log entries | `process_tick`, `report_communication`, `emergency_stop`, `report_fault`, `clear_fault`, `reset`, arm, disarm | the loop that is watched feeds the watchdog itself; three pieces of state can disagree about one timeout |
| Real-time engine, `engine/src/engine.rs` | `running` flag, command and input channels, RT thread context, threads | start, stop, six commands, the tick loop, the diagnostic thread | caller, RT thread and diagnostic thread interleave; bounded channels; a tick may be missed or fail halfway |
| Fault manager and FMEA, `engine/src/safety/integration.rs`, `openracing-fmea/src/` | detector state, FMEA clock, soft-stop ramp, safety service | one `update` per tick, recovery procedures | detectors have memory; a fault found during a ramp; time only advances on some paths |
| Firmware update, `openracing-firmware-update/src/manager.rs` | map of active updates under an async mutex, two channels per update, A/B partitions | `update_device_firmware`, `cancel_update` | awaits between lock sections; device calls that fail with or without effect; crash at any step |
| Plugin and component watchdog, `openracing-watchdog/` | per-plugin statistics, quarantine entries, component health, time of the last check, six locks | record execution, quarantine, release, register, reset, heartbeat, failure, health check | decision and effect in different lock sections; the same quarantine kept twice; expiry only in the last section of a check |
| Plugin host, `plugins/src/host.rs`, `plugins/src/quarantine.rs` | registry, quarantine states, tables of instances | scan, load, unload, execute, enable, quarantine, release, bulk load and unload | calls that call one another on locks that are not re-entrant; a check long before the violation it is meant to prevent |
| Native plugin channel, `openracing-native-plugin/src/spsc.rs` | header with two counters, ring of frames in shared memory | write, read, open, shutdown | two processes, word-wise copies, either may die in a call; counters wrap |
| Device safety service, `service/src/safety_service.rs` | one interlock context per device | register, request, respond, emergency stop, fault, clear, hands-on, monitor task | late and wrong answers against faults and the monitor; limit and state changed by different operations |
| Two-phase apply, `engine/src/two_phase_apply.rs` | pending applies, active pipeline, statistics, a lock each | apply (compile, queue, count), tick boundary (take, swap, count, answer), clear statistics | the tick boundary may be ahead of the caller; calls dropped where they wait |
| Scheduler, `engine/src/scheduler.rs`, `openracing-scheduler/` | next tick, PLL, jitter statistics | wait for tick | real-time arithmetic, missed deadlines |
| Hardware watchdog crate, daemon and IPC, profile repository | see `PROJECT.json` | | atomics, transport, files |
| Filters, device protocols, telemetry adapters, CLI and UI | | | numeric code, encodings, parsers, front ends: not state machines |

How they interact. The service holds an `Engine` handle and talks to the RT
thread only through two bounded channels and the `running` flag. The RT thread
owns a `SafetyService` and an `IntegratedFaultManager` (which has a
`SafetyService` and a soft-stop controller of its own). Each tick it drains the
commands, takes one input, runs the pipeline, limits the result (emergency stop,
fault state, soft-stop multiplier, `max_torque_nm`), writes it to the device and
then runs the fault manager, whose result acts in the *next* tick. The safety
interlock is a second, independent path of the same kind, fed by process_tick.
Firmware updates run in async tasks beside all of this, one device at a time.
The daemon keeps an interlock of its own per device (`ApplicationSafetyService`),
in front of the engine's. The fault manager calls the watchdog's health checks on
every update and takes the faults they find. The plugin host executes WASM plugins
itself and talks to native ones through the shared-memory ring. A profile reaches
the real-time loop through the two-phase apply.

What makes each part correct: torque is above the safe limit only after the complete
interlock and never after a fault; a stalled loop, a lost device or a pending timeout
commands zero; once tripped the engine writes zero for the rest of the session and
always within its limits; stop ends and leaves no thread; a soft stop ends in bounded
time and is not undone; a device always boots a complete image, and an update ends; a
plugin that misbehaves is kept out and let in again in time, and no call of the host
hangs; frames cross the ring whole and in order; an answer unlocks torque only in time
and to a challenge since the last fault, and taking the hands off always ends high
torque; the profile asked for last is the one that stays. The hazards behind these, each
at its line, are in `PROJECT.json` under `hazards`.

## 2. Plan

Order of work, most important behaviour first. The first ten are done.

1. `SafetyService`, with proofs.
2. `SafetyInterlock`, with proofs.
3. `SoftStop` (operators), `TorqueGate` (abstract specification) and `Engine`,
   which uses the first and is shown to implement the second, with proofs.
4. `FaultManager`, which uses `SoftStop`, with proofs.
5. `FirmwareUpdate`, with proofs.
6. `Fifo` (abstract specification) and `SpscChannel`, which implements it, with proofs.
7. `PluginHost`, with its quarantine manager, with proofs.
8. `PluginWatchdog`, with proofs. The proofs of 6 and 7 share the module `PluginProofs`,
   those of 8 are in `EngineProofs`.
9. `DeviceSafety`, with proofs.
10. `TwoPhaseApply`, with proofs.
11. `Scheduler`: integer time, missed ticks, jitter of early and late ticks;
    then `Engine` with the scheduler in place of "a tick comes or is missed".
12. `HardwareWatchdog` (lock-free state); profile repository and IPC if they turn
    out to have protocol state worth a model.

Every safety property the passing runs check is proved; liveness stays with TLC
throughout. Proofs worth having next: that the fault manager's multiplier is what the
engine's gate assumes of it, and whatever the modules of 11 and 12 state.

## 3. Modules and the code

`map` in `PROJECT.json` gives the source lines of every definition.

**SafetyService.** One action per public method that changes state, whole
handlers with their error paths. `state` and `active_challenge` are the two
copies of a challenge. Time is a counter that an action `Advance` moves; a call
that reads the clock twice (`report_combo_start`) chooses the second reading at
or after the first. Fault counters saturate at `MaxCount` (for `u32::MAX`).

**SafetyInterlock.** `SafetyInterlockSystem` with the software watchdog inside
it: `process_tick` is the disjunction of its early returns in their order
(watchdog timeout, communication loss, feed error, feed and limit). The log is
modelled with its capacity and overwrite index; `recent` is a history variable,
the entries in the order they were logged.

**Engine.** `caller` is the owner of the handle; `start` and `stop` take `&mut self`, so
nothing else of the handle overlaps them, while the RT thread runs through them. The RT
thread takes one step per phase: loop head, tick (or missed tick), commands, output (or
pipeline error), post-processing. `stop` is three steps (flag, Shutdown by `try_send`,
joins). Either spawn of `start` may fail. If it is the second, the diagnostic thread
runs already and its handle is dropped with the error: `orphans` counts these threads,
up to `MaxOrphans` at a time, and `OrphanExit` is their end, when they find their
channel disconnected. With constant `RtHardening` a tick that allocated ends the thread,
as that feature's build does. The pipeline is any function that may fail or return NaN.
The safety service is reduced to "SafeTorque or Faulted", which theorem
`EngineUseOnlyLatches` of `SafetyServiceProofs` justifies: the calls this thread makes
reach no other state.

**TorqueGate.** What the engine promises about the motor: while live the torque
is in `-MaxSafeTorque..MaxSafeTorque`, and from a trip on every write is zero until
the session ends. `Engine!Gate` is the refinement mapping (the latch is the
history variable of a reported fault or acknowledged emergency stop).

**SoftStop.** The controller as a record with `new`, `start_soft_stop`, `update`,
`current_multiplier` and `force_stop` as operators. Torque is in units of
1/`Ramp`, so the linear ramp stays in integers.

**FaultManager.** `update` is one action with the whole of a tick's work: faults
found by the watchdog (a set of possibilities), then USB, encoder, thermal and
timing detection, injected faults, each handled in order, then the recovery
check and the ramp step. Recovery procedures are actions, and may run when the service
is not faulted: the ramp is cut short all the same and the clearing fails. FMEA time
(`current_time`) is set where the code sets it, in `handle_fault`.

**FirmwareUpdate.** Calls of `update_device_firmware` and `cancel_update` on one device.
A step ends at an await another task can hold up: the mutex, a full channel, a device
call. The device (`trait FirmwareDevice`) is external: any call may fail, with or
without effect, a chunk may be stored wrong, images in `BadImages` fail their health
checks. Images have lengths of their own (`Length`). What a call had in its locals and
channels goes when it ends (`Drop`). `get_active_partition` is taken as the partition
that boots next, as the test devices have it; `partition.rs:41` says "currently active
(booted)", which differs between activation and reboot. `Crash` ends the host process
between any two steps. With `Racing = FALSE` a request does not arrive while another is
between its two lock sections, which is what the properties of an update by itself are
about; `Racing = TRUE` drops this.

**SpscChannel, Fifo.** `write` and `read` are split at every access to the shared
memory: load own counter, load the other's, copy word by word, store the own counter.
The acquire and release orderings of the code make the steps of one process visible
in order, which is the interleaving semantics of the model. `WriterRestarts` and
`ReaderRestarts` end a process inside a call; its successor opens the region as it
is. `Fifo` is what a user of the channel expects; the refinement mapping rebuilds
the queue from the counters and the slots.

**PluginHost.** Each task is in one call, split where the call releases a lock. `lock`
is the registry's write lock while a plugin loads; the tasks at `run` hold it for
reading. The states of the quarantine manager keep their violations as instants and, as
history, whether a quarantine has been lifted since; they lie in the order of their
times, so cleaning up (`retain` in the code) drops the first of them. The escalation
level is kept at its maximum, beyond which it makes no difference. Statistics are
written (their section needs the write lock) and not kept.

**PluginWatchdog.** Calls of several threads, split where they release one of the six
locks; `perform_health_checks` is four sections (interval, stamp, components, cleanup).
`quarantine_plugin` reads the clock twice, for the entry of the manager
(`quarantine.rs:97`) and, later, for the statistics (`stats.rs:135`); any time may pass
between the two. The module's clock is relative: ages and remaining times, each capped
where the code can no longer tell the difference, so that time passes without end and
the liveness properties are about unbounded behaviours of a finite state space.

**DeviceSafety.** Every call holds the one lock to its end, so it is one step; what
interleaves is calls, the monitor, and clients that answer late, with an old token or
with a wrong one. Torque limits are a share of the maximum, halved so many times.
Two histories say which challenge was answered, apart from what the contexts keep:
`issued` is the token and the age of the challenge issued since the last cut-off or
registration, `answered` the last answer, its token with the challenge it was an answer
to. The clock is relative, as in `PluginWatchdog`.

**TwoPhaseApply.** Callers and the tick boundary, one step per lock section. The
counter of pending applies is a `usize` that wraps, as in the build profiles without
overflow checks (`rt`, and `release` by default). A call may be dropped wherever it waits;
the tick boundary is not (nor is `set_plugin_enabled` of the plugin host between its
sections). One
task at a time runs the tick boundary, as the method's comment demands; at this
commit only tests drive the coordinator.

## 4. Runs

Passing runs:

| Run | Properties | Bounds |
|---|---|---|
| `safety_service` | `TypeOK`, `ChallengeMirrorsState`, `NoHighTorqueAfterFault`, `ActiveTokenRegistered`, `RaiseNeedsInterlock`, `FaultHoldsMinimumTime` | two tokens, devices, keys and fault types; challenge 3, hold 2, horizon 6 ticks of time |
| `safety_interlock` | `TrippedCommandsZero`, `FaultLogNewest`, `StalledLoopCommandsZero`, `SafeModeMinimumTime` | watchdog 2, communication 1, safe mode 2, horizon 5; log of two entries |
| `engine` | `TypeOK`, `StopJoinsThreads`, `ImplementsTorqueGate`, `StopTerminates`, `OrphansEnd`, `EmergencyStopTakesEffect` | outputs over-range, negative, NaN; ramp of two ticks; channels of two commands, one input; two orphaned threads |
| `fault_manager` | `RampEndsAfterLastFault`, `MultiplierFalls` | ramp 3, thresholds 2, horizon 3 |
| `firmware_update` | `TypeOK`, `BootTargetComplete`, `PreviousFirmwareKept`, `SuccessMeansInstalled`, `UpdateTerminates` | three updates of two or three chunks, one of a bad image; two cancellations; progress channels of ten, which the longer images overfill; two health checks |
| `spsc_channel` | `IsFifo`, `WaitingFrameIsRead` | a ring of three frames of two words, counters modulo 9, twelve frames sent: full, empty, half-copied and wrapped all occur |
| `plugin_host` | `DisabledDoesNotRun`, `ViolationsAreBounded`, `EveryCallReturns` | two tasks, one WASM plugin, limits of two crashes or one overrun, two instants |
| `plugin_watchdog` | `QuarantineHasEntry`, `FaultTakesTime`, `TimeoutsQuarantine`, `QuarantineEnds`, `SilenceIsFaulted` | two threads, one of them the monitor, one plugin, one component, two timeouts, a quarantine of two, unbounded time |
| `device_safety` | `LimitFitsState`, `UnlockedByChallenge`, `HandsOffEndsHighTorque` | one device, two clients, three tokens, two fault types, unbounded time |
| `two_phase_apply` | `AnsweredInOrder`, `LaterRequestWins`, `CountersMeet`, `EveryQueuedIsAnswered` | three applies, a counter modulo 8 |

Why these bounds are enough for what they check: a horizon longer than the sum of
two timeouts lets one expire or be restarted while the other runs, and a later call
see the result; two tokens
let a stale one meet a current one; a channel of two is full, half full and
empty; a log of two is written past its end; a ramp of three restarts in the
middle; two chunks can be cut between; after a success the next update starts from
partition B; two cancellations are the least that block each other, and a channel one
short of the messages of an image blocks it. Acknowledgements carry a timestamp of the
caller's; the model lets it lie anywhere up to now.
Counters that would grow without end are capped (`MaxCount`, `MaxTime`), named in
the modules. In the newer modules: three tokens let two clients hold different old
ones while a new one is issued; devices, plugins and components do not interact
within their modules (each operation touches one, but for loops over all), so one of
each shows what can go wrong, and what interacts is tasks, of which there are two;
three applies are the least with an old, a new and a concurrent one. Native plugins
and bulk calls over several plugins are in `PluginHost`, but two plugins and two tasks
are out of reach of a run of minutes. Deadlock is checked except in the firmware runs,
where every call may be done, and in `plugin_host`, where `EveryCallReturns` says more:
that no call waits for ever, whatever the others go on doing.

Fairness. `Engine`: threads are scheduled (weak fairness of the RT thread, the
diagnostic threads and the steps of stop), and nothing else: neither that some tick is
met nor that some pipeline run succeeds, which the code does not ensure.
`EmergencyStopTakesEffect` names these cases in the formula (`AllTicksMissed`,
`NoTickWrites`). No fairness of callers. `FirmwareUpdate`: tasks are scheduled and the
device answers each call, successfully or not; requests, cancellations and crashes are
not fair. `SpscChannel`: the reader is polled for ever and does not die in every call;
nothing is assumed of the writer. `PluginHost`: strong fairness of each task's next step
in a call it has begun, because tokio's locks are fair and plugins run on fuel and
against a timeout; beginning a call is not fair. `PluginWatchdog`: time passes, calls go
on, and the thread that updates the fault manager calls `perform_health_checks` whenever
it comes round. `DeviceSafety`: the monitor's loop and time go on; no client is fair.
`TwoPhaseApply`: only the tick boundary.

Each property has a mutant in `PROJECT.json`: a definition with a plausible bug,
under which TLC finds the property violated.

Runs that end in a violation state what a comment, document or test says and the
code does not do; `findings` quotes both sides:

| Run | Property | What the counterexample shows |
|---|---|---|
| `interlock_emergency_stop` | `EmergencyStopNeedsReset` | a fault or a communication loss replaces an emergency stop by safe mode, which hands out torque and can be cleared |
| `firmware_racing` | `OneUpdatePerDevice` | two requests for one device both pass the test |

Disagreements of the same kind that the models show, with no run of their own:

- an emergency stop: `docs/specs/ffb-safety.md:130` says "`estop` MUST force 0 on the
  next tick (no ramp)" and `engine.rs:1025` "Zero torque is enforced in the same RT tick
  after command processing". No number of ticks is enough: a missed tick takes no commands,
  `process_commands` has no bound of its own (`engine.rs:982`), and a pipeline error
  (`pipeline.rs:178`, every non-finite output) skips the write (`engine.rs:767`), so a
  pipeline that fails in every tick leaves the device at its last torque.
  `EmergencyStopTakesEffect` is what holds, with these cases as its exceptions;
- every tick overwrites the fault multiplier with that of the soft stop, which is 0.0
  as long as none was started (`engine.rs:909`, `soft_stop.rs:181`), although
  `docs/specs/ffb-safety.md:103` has it in [0, 1] for a ramp-down only;
- for the same reason the multiplier, once zero, stays zero through every recovery and
  clear, where `openracing-fmea/docs/state_machine.md` has "successful fault recovery"
  lead to Normal (line 47), as do "Recovery success" and "Manual fault clear" (lines 103
  and 105). Theorem `ZeroIsFinal` states what the code does;
- when the RT thread cannot be spawned, `start` drops the handle of the diagnostic thread
  it has just spawned (`engine.rs:457`): `stop` cannot join it. It ends by itself
  (`OrphansEnd`), possibly after a later `start`;
- a persisting fault restarts the ramp in every update (`fmea.rs:563`), against "MUST
  reach 0 within a bounded number of ticks" (`docs/specs/ffb-safety.md:129`);
  `RampEndsAfterLastFault` is what holds;
- FMEA time only advances when a fault is handled (`integration.rs:378`), so a dead USB
  connection is not reported; `fmea.rs:263` says "updated each tick";
- a second `cancel_update` waits for a full channel with the map of updates locked, and
  the update waits for the map (`manager.rs:1002`). The run has this deadlock;
  `UpdateTerminates` names it (`WaitsForCancel`);
- the progress channel holds 100 messages that nobody reads, so an image of about 6 MiB
  blocks its update (`manager.rs:991`). The run has this too (`WaitsForRoom`), and no
  third way for an update not to end;
- `SpscReader::read` and `has_data` compare the wrapped counters by order
  (`spsc.rs:238`, `spsc.rs:274`), where `write` uses `wrapping_sub`: when the producer's
  counter has wrapped, the reader takes the ring for empty until the consumer's would
  wrap, which it never does. `WaitingFrameIsRead` excepts this. A capacity that does not
  divide 2^32 would in addition change the slot mapping at the wrap;
- the first quarantine of a plugin lasts twice `quarantine_duration_minutes`
  (`plugins/src/quarantine.rs:246`), where the comment at line 31 and
  `docs/PLUGIN_DEVELOPMENT.md` have it start with one hour;
- the plugin host counts neither timeouts nor capability violations towards a
  quarantine (`plugins/src/quarantine.rs:218`), and every execution of a native plugin
  counts as a crash (`host.rs:293`); a manual quarantine may shorten an automatic one; a
  failed shutdown leaves `is_loaded` set without an instance (`host.rs:232`); a scan
  enters loaded and disabled plugins anew (`host.rs:139`);
- in the watchdog, a component that never sent a heartbeat never times out
  (`health.rs:151`), although the comment at `integration.rs:255` means to detect it;
  with two threads in `perform_health_checks` one silence is counted several times, so
  `FaultTakesTime` holds for one monitor, which `&mut self` of `FaultManager::update`
  ensures today; resetting or unregistering a plugin leaves its quarantine entry, and a
  quarantine under way brings an unregistered plugin's statistics back
  (`plugins.rs:54`); a callback that calls the watchdog while a writer waits for the
  callbacks would block, which is not modelled;
- in the device safety service, hands-off and expiry put the limit at 30 %, which
  *raises* one that critical faults had halved below that, and an unlock forgets the
  halving; registering a faulted device again clears its fault; a fatal fault after an
  emergency stop replaces its type, and `clear_fault` then asks for the later one;
  the answer to a challenge does not look at the preconditions again;
- `pending_applies` of the statistics wraps below zero when the tick boundary is ahead of
  the caller (`two_phase_apply.rs:282`); `CountersMeet` says it comes right again. With
  overflow checks the subtraction panics instead.

Smaller disagreements met while reading the code, modelled as the code has them
and with no run of their own: a tick with an unarmed watchdog is not limited
further (`hardware_watchdog.rs:787`); safe mode lets 20 % of the torque through
where `docs/hardware_prep_report.md:177` has zero; a tick takes
the oldest queued input (`engine.rs:732`); a failed spawn leaves `running` set
(`engine.rs:444`); the encoder window is never restarted and the timing counter
never reset (`fmea.rs:417`, `fmea.rs:516`); a thermal fault is cleared by time
alone (`integration.rs:404`); `rollback_performed` is always false
(`manager.rs:485`).

## 5. Proofs

Checked by TLAPS for every value of the constants that satisfies the named
assumptions (`DurationAssumption`, `FaultAssumption`, `NoneAssumption`,
`LimitAssumption` of `SafetyService`; `LimitAssumption`, `CapAssumption` of
`Engine`; `CountAssumption`, `ImageAssumption` of `FirmwareUpdate`;
`DurationAssumption`, `LimitAssumption`, `LogAssumption` of `SafetyInterlock`;
`FaultManagerAssumption`, `PluginWatchdogAssumption`, `DeviceSafetyAssumption`,
`TwoPhaseApplyAssumption`, `PluginHostAssumption`; `MaxFramesAssumption`,
`SeqModAssumption`, `WordsAssumption`, `MaxSentAssumption` of `SpscChannel`: naturals,
non-empty capacities, finitely many callers, NONE and NAN apart from the values). Two
proof modules cover two components each and extend both, so `SpscChannel` and
`PluginWatchdog` have names of their own for what others call `Init`, `Next` and `Spec`
(`ChannelInit`, `WatchdogInit`).

**SafetyServiceProofs.** `IInv` is the type invariant, the agreement of the two
challenge copies, the bar after a fault, the token registration, and that no
instant kept in the state lies in the future (`InstantsConsistent`). No one of
them is inductive alone: that a confirmation registers the right token needs the
agreement of the copies, and that no challenge follows a fault needs counters
that saturate instead of wrapping. One lemma per kind of step (clock, expiry,
fault, combo, confirmation, request, consent, Moza input) feeds `StepPreserves`,
and from `InductiveInvariant` follow `TypeCorrect`, `ChallengeCopiesAgree`,
`FaultBarsHighTorque`, `ActiveDeviceRegistered`; the action properties
`InterlockRequired` and `FaultMinimumHold` are read off each action with `IInv`.
`EngineUseOnlyLatches` restricts the specification to the engine's calls.

**EngineProofs, engine.** `StopJoins` is about the threads whose handles `start` has
stored, for any number of failed starts; what those left is in `orphans`, bounded by
`TypeOK` only. `Inv` adds to `TypeOK` and `StopJoinsThreads` that `Shutdown` is
queued only while stopping, so that draining it is consistent with the caller's
phase, and that a trip has put the safety service into Faulted (`TripIsFault`), which
is what keeps the refinement: a step that writes torque after a trip computes zero.
`OutputBounded` is the lemma about the limit chain. `EngineImplementsTorqueGate`
shows that initial states map to initial states and every step to a step of
`TorqueGate` or a stutter.

**EngineProofs, watchdog.** `WatchdogInv` is `QuarantineHasEntry` with the types, and
that a thread that has decided to quarantine knows its plugin. `SidesAgree`: a quarantine
of the statistics has an entry that ends no later, since its clock is read first; that
the two ends are equal would be wrong of the code. `OneStat` covers the calls that change
statistics only; quarantine, release, cleanup and time move both sides.
`FaultsAreLate` is about the clock: a fault is the fifth failure in a row, and
`SilenceInv` says how old the last heartbeat is after each of them (`Overdue`: the
timeout and an interval for every failure after the second, counted from the last
check). A check reads the interval, stamps it and counts in three sections, so `Overdue`
has a clause for each section a monitor may be in. The theorem has the hypothesis
`OneMonitor`; the only caller of `perform_health_checks` in the engine takes `&mut self`
(section 4 says what two monitors do).

**FirmwareUpdateProofs.** From `CountAssumption` and `ImageAssumption`, for any
number of requests and cancellations and any image length, under `~Racing`.
`BootTargetComplete` is not inductive: that erasing and writing the target is
harmless needs that the device does not boot it, and that activating it is
harmless needs that it was validated and made bootable. `PartitionsAt(u)` says,
for each step of a call, what has been established by then; `Exclusive` says that
one call at a time is past the test, so a step of one call cannot disturb what
another has established (lemma `StepFrame`: a step has to be examined for its own
call only). `CountersAt(u)` bounds the chunks written by the length of the call's own
image. There is one lemma per step. `SuccessIsReal` needs that different
images differ (`WholeInjective`), so that a healthy device that booted the new
partition has a good image. `OneUpdateIfAtomic` shows that the documented
exclusion holds once test and insertion are one step.

**SafetyInterlockProofs.** `CoreSound` adds to the types that the last feed is not
after the last tick (`InstantsOrdered`), without which a late tick could look fed, and
that safe mode carries the instant of the *last* trip (`TripRemembered`). The log has
an invariant of its own, `LogSound`: `Slot` is the remainder written without division,
and `SmallRemainder` connects it with the code's `%`. Logging is then a shift by one
slot, in a log that fills (index 0) and in a full one. `TripMeansZero`,
`LogKeepsNewest`, and the action properties `StallMeansZero` and `SafeModeLasts` follow.
All calls that log do it through `LogStep`.

**FaultManagerProofs.** `RampEndsAfterLastFault` needs that the level of an active ramp
*is* the number of updates since the last fault (`RampFollowsFault`); that the
multiplier only falls needs that the one handed out is never below the controller's
(`MultiplierAhead`: a recovery may end the ramp between two updates). What was detected
does not matter, only whether it restarts the ramp, so the proof holds for every
threshold. `ZeroIsFinal` is proved of `ZeroMultiplierFinal`, defined there: a fact about
the code that its document contradicts (section 4), and no requirement.

**PluginProofs, channel.** `ChannelIsFifo` is the refinement of `Fifo`, with the
unread part of the ring as the queue. `CountersInv` says that the counters are the
numbers of frames written and read modulo their range and never further apart than the
capacity, and that what a process has loaded is stale on the safe side only.
`ContentInv` says that the slots of the frames not yet read hold them whole, and how far
a copy under way has come. The heart is `SlotsApart`: frames less than a capacity apart
never share a slot. Past the wrap this needs a capacity that divides the range
(hypothesis `Divides`; the default of 1024 does, as does every power of two), since the
slot is the wrapped counter modulo the capacity. For other capacities `FifoBeforeWrap`
has the same up to the first wrap of the producer's counter.

**PluginProofs, host.** `RegistryInv` ties the write lock to the task that loads, and
says that what it loads is enabled, what runs is loaded, and what is loaded and disabled
has a task about to unload it, which is the part that makes `DisabledDoesNotRun`
inductive: the flag is cleared in one section and the instance in another.
`ViolationsAreBounded` is not inductive either: a plugin just quarantined may still gain
a violation from every task that was admitted before. `ViolationInv` counts these tasks
in (`Executing`): not quarantined, a plugin is below both limits; quarantined, its
records and its executors together are below the bound. `RecordsRecorded` is the step
of `record_violation`: a task less, a record more. That cleaning up drops the front of
the list (`OutdatedFirst`) rests on the order of the records and on the least element
of a set of naturals, which stands in for an induction.

**DeviceSafetyProofs.** `SoundContext` is the set of contexts that can occur: types, a
limit that fits the state, and hands seen before a challenge. Each operation on one
context is shown to stay in it, whatever else happens. `Backed` ties the state to the
histories: a challenge under way has the token of the one issued since the last cut-off,
and its remaining time and its age add up to `challenge_timeout` (`AgedBacked`: time
keeps it so); high torque came by a right answer. Without the first,
`UnlockedByChallenge` is not inductive: an answer that the context accepts might be one
to a challenge before a cut-off, or too late. `OneDevice` and `AllDevices` lift this to
the service, for any number of devices and clients.

**TwoPhaseApplyProofs.** `AnsweredInOrder` needs that a batch is answered in full before
the queue is taken again (part of `TypeOK`). `LaterRequestWins` is about answers; the
induction is over the queue (`QueuedInOrder`): what counts as earlier has returned
(`EarlierReturned`), so it cannot be queued again. `CountersMeet` needs to know what the
counters are while calls are under way: in `CountInv` the total and the calls that have
yet to count (`Uncounted`) balance the successes and the applies in flight (`InFlight`),
and the pending counter is the difference of the other two only up to a wrap, since the
tick boundary may count an apply before its caller does.

Only model-checked: all liveness (`StopTerminates`, `OrphansEnd`, `EmergencyStopTakesEffect`,
`UpdateTerminates`, and those of the plugin, channel, device and apply modules),
since fairness and ENABLED are out of the prover's reach. The two properties that
expect a violation fail by design. Of the type invariants that no run lists, those of
`SafetyInterlock`, `DeviceSafety` and `TwoPhaseApply` are proved; those of
`FaultManager`, `SpscChannel`, `PluginHost` and `PluginWatchdog` describe the state to
the reader, and the types the proofs need are part of the inductive invariants.

## 6. Not modelled

Blackbox, statistics and tracing are outputs that nothing reads back. Filters are
floating-point signal processing; device protocols and telemetry adapters encode and
parse third-party formats; the CLI and UI have no state of their own. Of the soft-stop
controller, `start_ramp_to`, `cancel` and `reset` have no caller in the engine; the
plugin-overrun detector of the FMEA system is not called by the fault manager. Of the
firmware crate, the cache, bundles, staged rollout and rollback manager are file I/O and
bookkeeping, and `FfbBlocker` is not called outside its tests. The WASM runtime,
manifests and signatures are behind the plugin host's calls, which the model lets
succeed or fail. `service/src/update/firmware.rs` is an older copy of the update
manager. The remaining parts are in the plan above.
