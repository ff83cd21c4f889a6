------------------------------- MODULE Engine -------------------------------
(***************************************************************************)
(* The real-time force-feedback engine (crates/engine/src/engine.rs): the  *)
(* handle the service holds (start, stop and the commands), the bounded    *)
(* command and game-input channels, the real-time (RT) thread with its     *)
(* tick loop, and the diagnostic thread.                                   *)
(*                                                                         *)
(* start and stop take &mut self, so no other call of the handle overlaps  *)
(* them; the other calls take &self and only ever try_send.  The RT thread *)
(* runs concurrently with all of it, one step per phase of its tick.       *)
(*                                                                         *)
(* Abstractions.  The filter pipeline is any function: a tick gets any of  *)
(* PipelineOutputs, or an error.  Of the SafetyService the RT thread owns, *)
(* only "SafeTorque or Faulted" is kept: no command opens a high-torque    *)
(* challenge, and theorem EngineUseOnlyLatches (SafetyServiceProofs) shows *)
(* that the calls the RT thread makes then reach no other state and never  *)
(* leave Faulted.  The fault manager is the set of faults a tick may       *)
(* detect, and its soft-stop controller; module FaultManager has the rest. *)
(* Torque is in units of 1/Ramp Nm.                                        *)
(***************************************************************************)
EXTENDS Integers, Sequences

CONSTANTS
  PipelineOutputs,   \* normalized torques the pipeline may produce; NAN may be one
  NAN,               \* a non-finite f32
  MaxSafeTorque,     \* max_safe_torque_nm
  MaxHighTorque,     \* max_high_torque_nm
  Ramp,              \* soft-stop ramp, in ticks
  CommandCap,        \* capacity of the command channel (64)
  InputCap,          \* capacity of the game-input channel (4096)
  RtHardening,       \* built with feature rt-hardening
  MaxOrphans         \* bound on detached diagnostic threads alive at a time

ASSUME LimitAssumption ==
  /\ MaxSafeTorque \in Nat
  /\ MaxHighTorque \in Nat
  /\ PipelineOutputs \subseteq Int \cup {NAN}
  /\ NAN \notin Int

ASSUME CapAssumption ==
  /\ Ramp \in Nat \ {0}
  /\ CommandCap \in Nat \ {0}
  /\ InputCap \in Nat \ {0}
  /\ RtHardening \in BOOLEAN
  /\ MaxOrphans \in Nat

VARIABLES
  caller,      \* what the owner of the handle does: "idle", or where stop is
  running,     \* Arc<AtomicBool>, shared with both threads
  handles,     \* command_tx, game_input_tx and the join handles are Some
  rt,          \* phase of the RT thread; "none" when there is nothing to join
  diag,        \* the diagnostic thread whose handle is kept: "none", "running" or "exited"
  orphans,     \* how many diagnostic threads run with their handle dropped
  commands,    \* the command channel
  inputs,      \* how many game inputs the input channel holds
  safety,      \* RTContext::safety
  emergency_stop_active,
  fault_torque_multiplier,   \* in units of 1/Ramp
  soft_stop,   \* the fault manager's soft-stop controller
  command,     \* torque of the last write_ffb_report
  \* History variables, of the current session.
  tripped,     \* a fault was reported or an emergency stop acknowledged
  estop        \* "none", "sent" (accepted) or "acked" (response sent)

rtVars == <<safety, emergency_stop_active, fault_torque_multiplier, soft_stop, command,
            tripped>>
vars == <<caller, running, handles, rt, diag, orphans, commands, inputs, rtVars, estop>>

SS == INSTANCE SoftStop

Commands == {"ApplyPipeline", "GetStats", "UpdateSafety", "UpdateSafetyHot",
             "EmergencyStop", "Shutdown"}

RtPhases == {"none", "head", "wait", "commands", "output", "post", "exited"}

Alive == rt \notin {"none", "exited"}

TypeOK ==
  /\ caller \in {"idle", "stop_send", "stop_join"}
  /\ running \in BOOLEAN
  /\ handles \in BOOLEAN
  /\ rt \in RtPhases
  /\ diag \in {"none", "running", "exited"}
  /\ orphans \in 0..MaxOrphans
  /\ commands \in Seq(Commands) /\ Len(commands) <= CommandCap
  /\ inputs \in 0..InputCap
  /\ safety \in {"SafeTorque", "Faulted"}
  /\ emergency_stop_active \in BOOLEAN
  /\ fault_torque_multiplier \in 0..Ramp
  /\ soft_stop \in SS!SoftStopController
  /\ command \in Int
  /\ tripped \in BOOLEAN
  /\ estop \in {"none", "sent", "acked"}

-----------------------------------------------------------------------------
(* The torque of a tick.                                                   *)

\* Non-finite values become zero, the rest is clamped to -1..1.
sanitize_signed_unit(v) ==
  IF v = NAN THEN 0 ELSE IF v > 1 THEN 1 ELSE IF v < -1 THEN -1 ELSE v

\* SafetyService::max_torque_nm, for the two states the engine reaches.
max_torque_nm == IF safety = "Faulted" THEN 0 ELSE MaxSafeTorque * Ramp

force_zero_output == emergency_stop_active \/ safety = "Faulted"

Requested(v) == sanitize_signed_unit(v) * MaxHighTorque * fault_torque_multiplier

apply_torque_safety_controls(v) ==
  LET r == Requested(v)
  IN  IF force_zero_output THEN 0
      ELSE IF r > max_torque_nm THEN max_torque_nm
      ELSE IF r < -max_torque_nm THEN -max_torque_nm
      ELSE r

\* Mutant: a stalled HID connection is left to the soft-stop ramp.
LatchesNotUsb(f) ==
  f \in {"EncoderNaN", "Overcurrent", "SafetyInterlockViolation", "HandsOffTimeout",
         "PipelineFault"}

should_latch_safety_fault(f) ==
  f \in {"UsbStall", "EncoderNaN", "Overcurrent", "SafetyInterlockViolation",
         "HandsOffTimeout", "PipelineFault"}

\* What the fault manager can detect in the engine, which passes it no
\* temperature, encoder, USB or plugin data: a late RT thread or too much
\* jitter, and an HID heartbeat that a stall held back.
ManagerFaults == {"TimingViolation", "UsbStall"}

\* Those of them for which FmeaSystem::handle_fault starts the soft stop.
SoftStopFaults == {"UsbStall"}

-----------------------------------------------------------------------------

Init ==
  /\ caller = "idle" /\ running = FALSE /\ handles = FALSE
  /\ rt = "none" /\ diag = "none" /\ orphans = 0
  /\ commands = <<>> /\ inputs = 0
  /\ safety = "SafeTorque" /\ emergency_stop_active = FALSE
  /\ fault_torque_multiplier = Ramp /\ soft_stop = SS!new
  /\ command = 0 /\ tripped = FALSE /\ estop = "none"

(* The handle. *)

\* Fresh channels, a fresh SafetyService and fault manager, two threads.
start ==
  /\ caller = "idle" /\ ~running
  /\ running' = TRUE /\ handles' = TRUE
  /\ rt' = "head" /\ diag' = "running"
  /\ commands' = <<>> /\ inputs' = 0
  /\ safety' = "SafeTorque" /\ emergency_stop_active' = FALSE
  /\ fault_torque_multiplier' = Ramp /\ soft_stop' = SS!new
  /\ tripped' = FALSE /\ estop' = "none"
  /\ UNCHANGED <<caller, orphans, command>>

\* The diagnostic thread could not be spawned: start returns an error, and
\* running stays set.
start_diag_spawn_fails ==
  /\ caller = "idle" /\ ~running
  /\ running' = TRUE
  /\ UNCHANGED <<caller, handles, rt, diag, orphans, commands, inputs, rtVars, estop>>

\* The RT thread could not be spawned: the diagnostic thread runs already, and
\* the error path drops its handle, and the RT context with the only sender of
\* its channel.
start_rt_spawn_fails ==
  /\ caller = "idle" /\ ~running
  /\ orphans < MaxOrphans
  /\ running' = TRUE
  /\ orphans' = orphans + 1
  /\ UNCHANGED <<caller, handles, rt, diag, commands, inputs, rtVars, estop>>

\* Mutant: shutdown is left to the command alone.
StopWithoutFlag ==
  /\ caller = "idle" /\ running
  /\ caller' = "stop_send"
  /\ UNCHANGED <<running, handles, rt, diag, orphans, commands, inputs, rtVars, estop>>

stop_signal ==
  /\ caller = "idle" /\ running
  /\ running' = FALSE
  /\ caller' = "stop_send"
  /\ UNCHANGED <<handles, rt, diag, orphans, commands, inputs, rtVars, estop>>

\* Mutant: an unbounded channel.
CanSendUnbounded == handles /\ Alive

\* try_send succeeds when there is a channel, its receiver is alive and it
\* has room.
CanSend == handles /\ Alive /\ Len(commands) < CommandCap

\* A Shutdown that cannot be sent is dropped.
stop_send ==
  /\ caller = "stop_send"
  /\ commands' = IF CanSend THEN Append(commands, "Shutdown") ELSE commands
  /\ caller' = "stop_join"
  /\ UNCHANGED <<running, handles, rt, diag, orphans, inputs, rtVars, estop>>

\* Mutant: the RT thread is joined, the diagnostic thread is not.
JoinRtOnly ==
  /\ caller = "stop_join"
  /\ ~Alive
  /\ rt' = "none" /\ handles' = FALSE /\ caller' = "idle"
  /\ UNCHANGED <<running, diag, orphans, commands, inputs, rtVars, estop>>

\* Both threads are joined and the handles cleared.
stop_join ==
  /\ caller = "stop_join"
  /\ ~Alive
  /\ diag # "running"
  /\ rt' = "none" /\ diag' = "none" /\ handles' = FALSE
  /\ caller' = "idle"
  /\ UNCHANGED <<running, orphans, commands, inputs, rtVars, estop>>

\* A command that cannot be sent is an error to the caller and no step here.
Send(c) ==
  /\ caller = "idle" /\ CanSend
  /\ commands' = Append(commands, c)
  /\ UNCHANGED <<caller, running, handles, rt, diag, orphans, inputs, rtVars>>

apply_pipeline == Send("ApplyPipeline") /\ UNCHANGED estop
get_stats == Send("GetStats") /\ UNCHANGED estop
update_safety ==
  (Send("UpdateSafety") \/ Send("UpdateSafetyHot")) /\ UNCHANGED estop

\* emergency_stop and emergency_stop_sync differ in waiting for the response.
emergency_stop ==
  /\ Send("EmergencyStop")
  /\ estop' = IF estop = "none" THEN "sent" ELSE estop

send_game_input ==
  /\ caller = "idle" /\ handles /\ Alive
  /\ inputs < InputCap
  /\ inputs' = inputs + 1
  /\ UNCHANGED <<caller, running, handles, rt, diag, orphans, commands, rtVars, estop>>

-----------------------------------------------------------------------------
(* The RT thread.                                                          *)

RtFrame == UNCHANGED <<caller, handles, diag, orphans>>

\* safety.report_fault of this session's SafetyService.
report_fault ==
  /\ safety' = "Faulted"
  /\ tripped' = TRUE

\* The thread ends; what is left in the channels is discarded with them.
RtExit ==
  /\ rt' = "exited"
  /\ commands' = <<>> /\ inputs' = 0

\* while running.
RtHead ==
  /\ rt = "head"
  /\ \/ running /\ rt' = "wait" /\ UNCHANGED <<commands, inputs>>
     \/ ~running /\ RtExit
  /\ UNCHANGED <<running, rtVars, estop>> /\ RtFrame

\* scheduler.wait_for_tick.
RtTick ==
  /\ rt = "wait"
  /\ rt' = "commands"
  /\ UNCHANGED <<running, commands, inputs, rtVars, estop>> /\ RtFrame

\* TimingViolation, the only error AbsoluteScheduler returns: nothing is
\* written in this tick.
RtMissedTick ==
  /\ rt = "wait"
  /\ report_fault
  /\ rt' = "head"
  /\ UNCHANGED <<running, commands, inputs, emergency_stop_active,
                 fault_torque_multiplier, soft_stop, command, estop>> /\ RtFrame

\* Effect of one command.  update_hands_on_status has none here: high torque
\* is never active.
Execute(c) ==
  \/ /\ c \in {"ApplyPipeline", "GetStats", "UpdateSafety"}
     /\ rt' = rt
     /\ UNCHANGED <<running, rtVars, estop>>
  \/ /\ c = "UpdateSafetyHot"
     /\ report_fault
     /\ rt' = rt
     /\ UNCHANGED <<running, emergency_stop_active, fault_torque_multiplier, soft_stop,
                    command, estop>>
  \/ /\ c = "Shutdown"
     /\ running' = FALSE
     /\ rt' = "output"
     /\ UNCHANGED <<rtVars, estop>>
  \/ /\ c = "EmergencyStop"
     /\ emergency_stop_active' = TRUE
     /\ report_fault
     /\ estop' = "acked"
     /\ rt' = rt
     /\ UNCHANGED <<running, fault_torque_multiplier, soft_stop, command>>

\* Mutant: the queue is drained and only its newest command executed.
ExecuteNewest ==
  /\ Execute(commands[Len(commands)])
  /\ commands' = <<>>

\* try_recv and match.
ExecuteOldest ==
  /\ Execute(Head(commands))
  /\ commands' = Tail(commands)

\* process_commands takes whatever arrives while it runs, and stops at an
\* empty channel or at a Shutdown, leaving the rest.
RtCommands ==
  /\ rt = "commands"
  /\ \/ /\ commands = <<>>
        /\ rt' = "output"
        /\ UNCHANGED <<running, commands, rtVars, estop>>
     \/ /\ commands # <<>>
        /\ ExecuteOldest
  /\ UNCHANGED inputs /\ RtFrame

\* One queued input is taken.
TakeInput == inputs' = IF inputs > 0 THEN inputs - 1 ELSE 0

\* Filter, limit and write.  A write error only counts: the write has been
\* attempted with this torque.
RtOutput ==
  /\ rt = "output"
  /\ TakeInput
  /\ \E v \in PipelineOutputs : command' = apply_torque_safety_controls(v)
  /\ rt' = "post"
  /\ UNCHANGED <<running, commands, safety, emergency_stop_active,
                 fault_torque_multiplier, soft_stop, tripped, estop>> /\ RtFrame

\* pipeline.process failed: the rest of the tick, the write included, is
\* skipped.
RtPipelineError ==
  /\ rt = "output"
  /\ TakeInput
  /\ report_fault
  /\ rt' = "head"
  /\ UNCHANGED <<running, commands, emergency_stop_active, fault_torque_multiplier,
                 soft_stop, command, estop>> /\ RtFrame

\* IntegratedFaultManager::update as the engine sees it: every fault that
\* calls for it (re)starts the ramp from the torque just written, then the
\* ramp moves by one tick, and its level is the multiplier.
fault_manager_update(faults) ==
  LET s == IF faults \cap SoftStopFaults # {} THEN SS!start_soft_stop(command)
           ELSE soft_stop
  IN  /\ soft_stop' = SS!update(s)
      /\ fault_torque_multiplier' = SS!current_multiplier(SS!update(s))

\* overrun: the tick took longer than MAX_PROCESSING_TIME_US.
RtPost ==
  /\ rt = "post"
  /\ \E overrun \in BOOLEAN, faults \in SUBSET ManagerFaults :
       /\ fault_manager_update(faults)
       /\ safety' = IF overrun \/ \E f \in faults : should_latch_safety_fault(f)
                    THEN "Faulted" ELSE safety
       /\ tripped' = (tripped \/ overrun \/ "UsbStall" \in faults)
  /\ \/ rt' = "head" /\ UNCHANGED <<commands, inputs>>
     \/ RtHardening /\ RtExit    \* the tick allocated
  /\ UNCHANGED <<running, emergency_stop_active, command, estop>> /\ RtFrame

RtThread ==
  RtHead \/ RtTick \/ RtMissedTick \/ RtCommands \/ RtOutput \/ RtPipelineError \/ RtPost

\* recv_timeout returns: the loop ends when running is clear or the RT
\* thread, which owns the sender, is gone.
DiagExit ==
  /\ diag = "running"
  /\ ~running \/ ~Alive
  /\ diag' = "exited"
  /\ UNCHANGED <<caller, running, handles, rt, orphans, commands, inputs, rtVars, estop>>

\* Mutant: a thread that does not end when its channel is disconnected.
OrphanStays ==
  /\ orphans > 0
  /\ ~running
  /\ orphans' = orphans - 1
  /\ UNCHANGED <<caller, running, handles, rt, diag, commands, inputs, rtVars, estop>>

\* A detached diagnostic thread finds its channel disconnected, whatever running
\* says by now.
OrphanExit ==
  /\ orphans > 0
  /\ orphans' = orphans - 1
  /\ UNCHANGED <<caller, running, handles, rt, diag, commands, inputs, rtVars, estop>>

Next ==
  \/ start \/ start_diag_spawn_fails \/ start_rt_spawn_fails
  \/ stop_signal \/ stop_send \/ stop_join
  \/ apply_pipeline \/ get_stats \/ update_safety \/ emergency_stop \/ send_game_input
  \/ RtHead \/ RtTick \/ RtMissedTick \/ RtCommands \/ RtOutput \/ RtPipelineError
  \/ RtPost \/ DiagExit \/ OrphanExit

Spec == Init /\ [][Next]_vars

\* The threads are scheduled, and stop runs to its end once called.  Every tick
\* may be missed, and the pipeline may fail in every tick.
Fairness ==
  /\ WF_vars(RtThread) /\ WF_vars(DiagExit) /\ WF_vars(OrphanExit)
  /\ WF_vars(stop_send) /\ WF_vars(stop_join)

FairSpec == Spec /\ Fairness

-----------------------------------------------------------------------------
(* What the engine guarantees.                                             *)

Gate == INSTANCE TorqueGate
          WITH Limit <- MaxSafeTorque * Ramp, live <- Alive, latched <- tripped,
               command <- command

\* The engine implements TorqueGate: the torque written stays within the SAFE
\* limit (nothing a caller can send unlocks more), and after an acknowledged
\* emergency stop, a missed tick, a pipeline error, an overrun, an overheated
\* device or a latching fault, every later write of the session is zero, soft
\* stop or not; only stop followed by start lifts that.
ImplementsTorqueGate == Gate!Spec

\* When stop has returned, the threads of the session and its channels are gone:
\* start never runs a second RT thread beside an old one.  What stop cannot join is
\* a diagnostic thread whose handle a failed start dropped (orphans).
StopJoinsThreads ==
  (caller = "idle" /\ ~running) => rt = "none" /\ diag = "none" /\ ~handles

\* stop terminates, also when the Shutdown command was lost to a full queue
\* or a dead RT thread.
StopTerminates == caller # "idle" ~> caller = "idle"

\* A diagnostic thread detached by a failed start ends by itself, also when the
\* engine is stopped and started again before it looks at running - unless starts
\* keep failing, each of which leaves one more (diagnostic_thread_main).
OrphansEnd == []<>(orphans = 0) \/ []<><<start_rt_spawn_fails>>_vars

\* From now on every tick is missed.
AllTicksMissed == [](rt # "commands")

\* No tick from now on gets as far as a write: it is missed, its pipeline fails, or
\* commands arrive as fast as process_commands, which has no bound of its own,
\* takes them.
NoTickWrites == [](rt # "post")

\* An emergency stop that was accepted is acknowledged, whatever is queued around
\* it, and zero is what the device is then told, unless the session ends first -
\* or no tick ever takes commands again, or none writes again.  No bounded number
\* of ticks is certain to do either (process_commands, rt_thread_main).
EmergencyStopTakesEffect ==
  /\ estop = "sent" ~> estop = "acked" \/ ~Alive \/ AllTicksMissed
  /\ estop = "acked" ~> command = 0 \/ ~Alive \/ NoTickWrites

\* Only stop sends a Shutdown, and what it sent is gone when it returns: no
\* session sees the Shutdown of an earlier one.  (With StopJoinsThreads this
\* is the inductive invariant of the proofs.)
ShutdownOnlyWhileStopping ==
  /\ caller = "idle" => \A i \in 1..Len(commands) : commands[i] # "Shutdown"
  /\ caller # "idle" => ~running
  /\ ~Alive => commands = <<>>

\* Every trip is in the state the output is computed from.
TripIsFault == tripped => safety = "Faulted"
=============================================================================
