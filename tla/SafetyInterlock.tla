--------------------------- MODULE SafetyInterlock ---------------------------
(***************************************************************************)
(* The watchdog-driven safety interlock of the engine                      *)
(* (crates/engine/src/safety/hardware_watchdog.rs): SafetyInterlockSystem  *)
(* with the SoftwareWatchdog it owns, the timeout handler, the communi-    *)
(* cation timer and the bounded fault log.                                 *)
(*                                                                         *)
(* process_tick is called once per tick of the real-time loop and returns  *)
(* the torque to send.  Everything is reached through &mut self, so calls  *)
(* do not overlap; what varies is their order and the time between them.   *)
(* The watchdog is only ever fed and tested by process_tick itself.        *)
(***************************************************************************)
EXTENDS Integers, Sequences

CONSTANTS
  Requests,          \* torques process_tick may be asked for; NAN may be one
  FaultTypes,        \* faults report_fault may be given
  FeedErrors,        \* errors of feed() other than NotArmed and TimedOut
                     \*   ({} for SoftwareWatchdog)
  NONE,              \* Option::None
  NAN,               \* f32::NAN
  WatchdogTimeout,   \* SoftwareWatchdog::timeout
  CommTimeout,       \* communication_timeout
  MinSafeTime,       \* 100 ms, hard-coded in clear_fault
  MaxTorque,         \* TorqueLimit::max_torque_nm
  SafeTorque,        \* TorqueLimit::safe_mode_torque_nm
  LogSize,           \* max_fault_log_entries
  MaxTime            \* bound of the model on the clock

ASSUME DurationAssumption ==
  /\ WatchdogTimeout \in Nat
  /\ CommTimeout \in Nat
  /\ MinSafeTime \in Nat
  /\ MaxTime \in Nat

ASSUME LimitAssumption ==
  /\ MaxTorque \in Nat
  /\ SafeTorque \in Nat
  /\ SafeTorque <= MaxTorque
  /\ Requests \subseteq Int \cup {NAN}
  /\ NAN \notin Int
  /\ NONE \notin Int

ASSUME LogAssumption == LogSize \in Nat \ {0}

VARIABLES
  now,                  \* the monotonic clock
  armed,                \* SoftwareWatchdog::armed
  timed_out,            \* SoftwareWatchdog::timed_out
  last_feed,            \* SoftwareWatchdog::last_feed
  timeout_triggered,    \* WatchdogTimeoutHandler::timeout_triggered
  safety_state,         \* SafetyInterlockState
  last_communication,   \* Option<Instant>
  fault_log,            \* Vec<FaultLogEntry>: the trigger of each entry
  fault_log_next_index, \* the slot the next entry overwrites, from 0
  torque_command,       \* torque_command of the last SafetyTickResult returned
  \* History variables.
  recent,               \* the last LogSize triggers logged, oldest first
  estopped,             \* emergency_stop was called and reset has not been since
  lastTick,             \* when process_tick or arm last ran
  lastTrip              \* when SafeMode was last entered or re-entered

watchdogVars == <<armed, timed_out, last_feed>>
logVars == <<fault_log, fault_log_next_index, recent>>
vars == <<now, watchdogVars, timeout_triggered, safety_state, last_communication,
          logVars, torque_command, estopped, lastTick, lastTrip>>

Time == 0..MaxTime

Triggers ==
  [kind : {"WatchdogTimeout", "CommunicationLoss", "EmergencyStopCommand",
           "TorqueLimitExceeded"}]
    \cup [kind : {"FaultDetected"}, fault : FaultTypes \cup {"SafetyInterlockViolation"}]

Trigger(k) == [kind |-> k]
FaultDetected(f) == [kind |-> "FaultDetected", fault |-> f]

\* The Warning variant is never constructed.
Normal == [tag |-> "Normal"]
SafetyInterlockState ==
  {Normal}
    \cup [tag : {"SafeMode"}, triggered_by : Triggers, since : Time]
    \cup [tag : {"EmergencyStop"}, since : Time]

Torques == (-MaxTorque)..MaxTorque

TypeOK ==
  /\ now \in Time
  /\ armed \in BOOLEAN
  /\ timed_out \in BOOLEAN
  /\ last_feed \in Time
  /\ timeout_triggered \in BOOLEAN
  /\ safety_state \in SafetyInterlockState
  /\ last_communication \in Time \cup {NONE}
  /\ fault_log \in Seq(Triggers) /\ Len(fault_log) <= LogSize
  /\ fault_log_next_index \in 0..(LogSize - 1)
  /\ torque_command \in Torques \cup {NAN}
  /\ recent \in Seq(Triggers) /\ Len(recent) <= LogSize
  /\ estopped \in BOOLEAN
  /\ lastTick \in Time
  /\ lastTrip \in Time

-----------------------------------------------------------------------------
(* Torque limits.                                                          *)

\* f32::clamp: NaN passes through.
Clamp(torque, limit) ==
  IF torque = NAN THEN NAN
  ELSE IF torque > limit THEN limit
  ELSE IF torque < -limit THEN -limit
  ELSE torque

\* The torque a state lets through for a request.
apply_torque_limits(s, requested) ==
  CASE s.tag = "Normal"        -> Clamp(requested, MaxTorque)
    [] s.tag = "EmergencyStop" -> 0
    [] OTHER                   -> Clamp(requested, SafeTorque)

\* was_clamped: the comparison with NaN is false, except under an emergency
\* stop, where |NaN| > EPSILON is false as well.
WasClamped(s, requested) ==
  requested # NAN /\ apply_torque_limits(s, requested) # requested

-----------------------------------------------------------------------------
(* The fault log, a Vec that is overwritten cyclically once it is full.    *)

Remember(t) ==
  recent' = IF Len(recent) < LogSize THEN Append(recent, t)
            ELSE Append(Tail(recent), t)

\* Mutant: the index advances before the slot is written.
LogAdvanceFirst(t) ==
  /\ Remember(t)
  /\ LET next == (fault_log_next_index + 1) % LogSize
     IN  IF Len(fault_log) < LogSize
         THEN /\ fault_log' = Append(fault_log, t)
              /\ UNCHANGED fault_log_next_index
         ELSE /\ fault_log' = [fault_log EXCEPT ![next + 1] = t]
              /\ fault_log_next_index' = next

log_fault(t) ==
  /\ Remember(t)
  /\ \/ /\ Len(fault_log) < LogSize
        /\ fault_log' = Append(fault_log, t)
        /\ fault_log_next_index' =
             IF Len(fault_log) + 1 = LogSize THEN 0 ELSE fault_log_next_index
     \/ /\ Len(fault_log) = LogSize
        /\ fault_log' = [fault_log EXCEPT ![fault_log_next_index + 1] = t]
        /\ fault_log_next_index' = (fault_log_next_index + 1) % LogSize

-----------------------------------------------------------------------------
(* The software watchdog.                                                  *)

\* Mutant: a timeout is only seen on the tick that detects it.
TimeoutNotSticky == armed /\ now - last_feed > WatchdogTimeout

\* Mutant: one time unit late.
TimeoutLate == timed_out \/ (armed /\ now - last_feed > WatchdogTimeout + 1)

\* has_timed_out: check_timeout sets the flag when an armed watchdog was not
\* fed in time; the flag stays until arm or reset.
has_timed_out == timed_out \/ (armed /\ now - last_feed > WatchdogTimeout)

check_communication_loss ==
  /\ last_communication # NONE
  /\ now - last_communication > CommTimeout

\* Mutant: a repeated trigger keeps the time of the first one.
SafeModeKeepSince(trigger) ==
  /\ safety_state' = [tag |-> "SafeMode", triggered_by |-> trigger,
                      since |-> IF safety_state.tag = "SafeMode"
                                THEN safety_state.since ELSE now]
  /\ lastTrip' = now

EnterSafeMode(trigger) ==
  /\ safety_state' = [tag |-> "SafeMode", triggered_by |-> trigger, since |-> now]
  /\ lastTrip' = now

-----------------------------------------------------------------------------

Init ==
  /\ now = 0
  /\ armed = FALSE /\ timed_out = FALSE /\ last_feed = 0
  /\ timeout_triggered = FALSE
  /\ safety_state = Normal
  /\ last_communication = NONE
  /\ fault_log = <<>> /\ fault_log_next_index = 0 /\ recent = <<>>
  /\ torque_command = 0
  /\ estopped = FALSE /\ lastTick = 0 /\ lastTrip = 0

Advance ==
  /\ now < MaxTime
  /\ now' = now + 1
  /\ UNCHANGED <<watchdogVars, timeout_triggered, safety_state, last_communication,
                 logVars, torque_command, estopped, lastTick, lastTrip>>

handle_watchdog_timeout ==
  /\ timed_out' = TRUE
  /\ timeout_triggered' = TRUE
  /\ EnterSafeMode(Trigger("WatchdogTimeout"))
  /\ log_fault(Trigger("WatchdogTimeout"))
  /\ torque_command' = 0
  /\ UNCHANGED <<armed, last_feed>>

\* The watchdog is not fed on this path.
handle_communication_loss ==
  /\ EnterSafeMode(Trigger("CommunicationLoss"))
  /\ log_fault(Trigger("CommunicationLoss"))
  /\ torque_command' = 0
  /\ UNCHANGED <<watchdogVars, timeout_triggered>>

\* feed() failed: an unarmed watchdog limits the torque without logging, any
\* other error enters safe mode without logging.
handle_watchdog_error(error, requested) ==
  /\ \/ /\ error = "NotArmed"
        /\ torque_command' = apply_torque_limits(safety_state, requested)
        /\ UNCHANGED <<safety_state, lastTrip>>
     \/ /\ error # "NotArmed"
        /\ EnterSafeMode(FaultDetected("SafetyInterlockViolation"))
        /\ torque_command' = 0
  /\ UNCHANGED <<watchdogVars, timeout_triggered, logVars>>

\* The watchdog is fed and the request limited; a clamped request is logged.
FeedAndLimit(requested) ==
  /\ last_feed' = now
  /\ torque_command' = apply_torque_limits(safety_state, requested)
  /\ IF WasClamped(safety_state, requested)
     THEN log_fault(Trigger("TorqueLimitExceeded"))
     ELSE UNCHANGED logVars
  /\ UNCHANGED <<armed, timed_out, timeout_triggered, safety_state, lastTrip>>

process_tick(requested) ==
  /\ \/ /\ has_timed_out
        /\ handle_watchdog_timeout
     \/ /\ ~has_timed_out
        /\ check_communication_loss
        /\ handle_communication_loss
     \/ /\ ~has_timed_out
        /\ ~check_communication_loss
        /\ \/ ~armed /\ handle_watchdog_error("NotArmed", requested)
           \/ armed /\ \E e \in FeedErrors : handle_watchdog_error(e, requested)
           \/ armed /\ FeedAndLimit(requested)
  /\ lastTick' = now
  /\ UNCHANGED <<now, last_communication, estopped>>

report_communication ==
  /\ last_communication' = now
  /\ UNCHANGED <<now, watchdogVars, timeout_triggered, safety_state, logVars,
                 torque_command, estopped, lastTick, lastTrip>>

emergency_stop ==
  /\ safety_state' = [tag |-> "EmergencyStop", since |-> now]
  /\ log_fault(Trigger("EmergencyStopCommand"))
  /\ torque_command' = 0
  /\ estopped' = TRUE
  /\ UNCHANGED <<now, watchdogVars, timeout_triggered, last_communication,
                 lastTick, lastTrip>>

report_fault(f) ==
  /\ EnterSafeMode(FaultDetected(f))
  /\ log_fault(FaultDetected(f))
  /\ UNCHANGED <<now, watchdogVars, timeout_triggered, last_communication,
                 torque_command, estopped, lastTick>>

\* The watchdog's own timed_out flag is left as it is.
clear_fault ==
  /\ safety_state.tag = "SafeMode"
  /\ now - safety_state.since >= MinSafeTime
  /\ safety_state' = Normal
  /\ timeout_triggered' = FALSE
  /\ UNCHANGED <<now, watchdogVars, last_communication, logVars, torque_command,
                 estopped, lastTick, lastTrip>>

\* Leaves the watchdog disarmed.
reset ==
  /\ armed' = FALSE /\ timed_out' = FALSE /\ last_feed' = 0
  /\ timeout_triggered' = FALSE
  /\ safety_state' = Normal
  /\ last_communication' = NONE
  /\ estopped' = FALSE
  /\ UNCHANGED <<now, logVars, torque_command, lastTick, lastTrip>>

\* A second arm is refused, so an armed watchdog that timed out has to be
\* disarmed (or reset) first.
arm ==
  /\ ~armed
  /\ armed' = TRUE /\ timed_out' = FALSE /\ last_feed' = now
  /\ lastTick' = now
  /\ UNCHANGED <<now, timeout_triggered, safety_state, last_communication, logVars,
                 torque_command, estopped, lastTrip>>

disarm ==
  /\ armed
  /\ armed' = FALSE
  /\ UNCHANGED <<now, timed_out, last_feed, timeout_triggered, safety_state,
                 last_communication, logVars, torque_command, estopped, lastTick,
                 lastTrip>>

Next ==
  \/ Advance
  \/ \E requested \in Requests : process_tick(requested)
  \/ report_communication
  \/ emergency_stop
  \/ \E f \in FaultTypes : report_fault(f)
  \/ clear_fault
  \/ reset
  \/ arm
  \/ disarm

Spec == Init /\ [][Next]_vars

-----------------------------------------------------------------------------
(* What the interlock guarantees.                                          *)

\* Once the watchdog has timed out, and in the EmergencyStop state, the last
\* torque handed out is zero - also after clear_fault has put the state back
\* to Normal and after a disarm, until arm or reset drops the flag.
TrippedCommandsZero ==
  (timed_out \/ safety_state.tag = "EmergencyStop") => torque_command = 0

\* A tick that hands out torque under an armed watchdog comes at most
\* WatchdogTimeout after the tick (or the arming) before it: a real-time loop
\* that stalled longer finds zero, although the stalled loop is itself what
\* feeds the watchdog.
StalledLoopCommandsZero ==
  [][ (lastTick' # lastTick /\ armed /\ armed' /\ torque_command' # 0)
        => now - lastTick <= WatchdogTimeout ]_vars

\* Short of reset, SafeMode is left for Normal only MinSafeTime after the
\* LAST trip: while ticks keep tripping, clear_fault cannot succeed.
SafeModeMinimumTime ==
  [][ (safety_state.tag = "SafeMode" /\ safety_state'.tag = "Normal")
        => reset \/ now - lastTrip >= MinSafeTime ]_vars

\* The fault log read from the slot that is overwritten next.
Chronological ==
  [i \in 1..Len(fault_log) |->
     fault_log[((fault_log_next_index + i - 1) % Len(fault_log)) + 1]]

\* The cyclically overwritten log holds exactly the most recent entries, and
\* from the write position on it holds them in order.
FaultLogNewest == Chronological = recent

-----------------------------------------------------------------------------
(* What comments, tests and docs say of it, and the code does not keep.    *)

\* After an emergency stop no torque is handed out before reset: "Cannot
\* clear emergency stop - manual reset required" (clear_fault).
EmergencyStopNeedsReset == estopped => torque_command = 0
=============================================================================
