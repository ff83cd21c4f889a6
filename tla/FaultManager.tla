---------------------------- MODULE FaultManager ----------------------------
(***************************************************************************)
(* The fault manager of the engine (crates/engine/src/safety/              *)
(* integration.rs, IntegratedFaultManager) with the FMEA system it drives  *)
(* (crates/openracing-fmea/src/fmea.rs): detection, the soft-stop ramp,    *)
(* its own SafetyService, and recovery.                                    *)
(*                                                                         *)
(* update is called once per tick with what the tick measured and the      *)
(* torque it wrote, and returns the multiplier the next ticks apply.  One  *)
(* unit of time is one tick.  The manager is single-threaded; the cases    *)
(* are the orders in which measurements arrive.                            *)
(*                                                                         *)
(* Left out: the FMEA fields no decision reads (active_fault,              *)
(* last_occurrence), blackbox markers, history and audio alerts.           *)
(***************************************************************************)
EXTENDS Integers, Sequences

CONSTANTS
  NONE,            \* Option::None
  Torque,          \* what a tick writes while the multiplier lets it
  OtherFaults,     \* faults of health checks or plugins, and injected ones
  Ramp,            \* soft-stop ramp, in ticks
  UsbTimeout,      \* usb_timeout_ms
  MaxUsbFailures,  \* usb_max_consecutive_failures
  NanWindow,       \* encoder_nan_window_ms
  MaxNans,         \* encoder_max_nan_count
  MaxViolations,   \* timing_max_violations
  MinFaultTime,    \* 100 ms, hard-coded in SafetyService::clear_fault
  MaxCount,        \* u32::MAX of the saturating counters
  MaxTime          \* bound of the model on the clock

FaultTypes ==
  {"UsbStall", "EncoderNaN", "ThermalLimit", "Overcurrent", "PluginOverrun",
   "TimingViolation", "SafetyInterlockViolation", "HandsOffTimeout", "PipelineFault"}

ASSUME FaultManagerAssumption ==
  /\ OtherFaults \subseteq FaultTypes
  /\ {Torque, UsbTimeout, MaxUsbFailures, NanWindow, MaxNans, MaxViolations,
      MinFaultTime, MaxCount, MaxTime} \subseteq Nat
  /\ Ramp \in Nat \ {0}
  /\ NONE \notin Int /\ NONE \notin FaultTypes

VARIABLES
  now,                 \* system_start_time.elapsed()
  current_time,        \* FmeaSystem::current_time
  window_start,        \* of the EncoderNaN detection state
  window_count,        \* of the EncoderNaN detection state
  violation_count,     \* consecutive_count of the TimingViolation state
  soft_stop,           \* SoftStopController
  safety,              \* state of the manager's SafetyService
  multiplier,          \* current_torque_multiplier of the last result
  sinceLast            \* history: updates since the last soft-stop fault, up to Ramp

detection == <<current_time, window_start, window_count, violation_count>>
vars == <<now, detection, soft_stop, safety, multiplier, sinceLast>>

SS == INSTANCE SoftStop

Time == 0..MaxTime

SafeTorque == [tag |-> "SafeTorque"]
Faulted(f) == [tag |-> "Faulted", fault |-> f, since |-> now]

TypeOK ==
  /\ now \in Time
  /\ current_time \in Time
  /\ window_start \in Time \cup {NONE}
  /\ window_count \in 0..MaxCount
  /\ violation_count \in 0..MaxCount
  /\ soft_stop \in SS!SoftStopController
  /\ safety \in {SafeTorque} \cup [tag : {"Faulted"}, fault : FaultTypes, since : Time]
  /\ multiplier \in 0..Ramp
  /\ sinceLast \in 0..Ramp \cup {NONE}

-----------------------------------------------------------------------------
(* Detection.                                                              *)

SaturatingSub(a, b) == IF a > b THEN a - b ELSE 0

\* u32::saturating_add(1).
SaturatingInc(n) == IF n < MaxCount THEN n + 1 ELSE MaxCount

\* usb: NONE, or the failure count and the time of the last success.
detect_usb_fault(usb) ==
  /\ usb # NONE
  /\ \/ /\ usb.last_success # NONE
        /\ SaturatingSub(current_time, usb.last_success) > UsbTimeout
     \/ usb.consecutive_failures >= MaxUsbFailures

\* The window restarts when it is older than NanWindow; window_start is only
\* ever set there.
NanWindowOver ==
  SaturatingSub(current_time, IF window_start = NONE THEN current_time
                              ELSE window_start) > NanWindow

NanCount == IF NanWindowOver THEN 1 ELSE SaturatingInc(window_count)

detect_encoder_fault(nan) == nan /\ NanCount >= MaxNans

CountNan(nan) ==
  /\ window_count' = IF nan THEN NanCount ELSE window_count
  /\ window_start' = IF nan /\ NanWindowOver THEN current_time ELSE window_start

\* Once the fault is active nothing is reported, above the limit or not.
detect_thermal_fault(temp) ==
  /\ temp = "hot"
  /\ ~(safety.tag = "Faulted" /\ safety.fault = "ThermalLimit")

\* late: the jitter is above timing_violation_threshold_us.
detect_timing_violation(late) ==
  late /\ SaturatingInc(violation_count) >= MaxViolations

\* FaultAction SoftStop or SafeMode of the default FMEA matrix.
RampsDown(f) ==
  f \in {"UsbStall", "EncoderNaN", "ThermalLimit", "Overcurrent", "HandsOffTimeout",
         "SafetyInterlockViolation"}

Ramping(faults) == \E i \in 1..Len(faults) : RampsDown(faults[i])

\* The one-element or empty sequence.
Detected(found, f) == IF found THEN <<f>> ELSE <<>>

-----------------------------------------------------------------------------

Init ==
  /\ now = 0 /\ current_time = 0
  /\ window_start = NONE /\ window_count = 0 /\ violation_count = 0
  /\ soft_stop = SS!new /\ safety = SafeTorque /\ multiplier = Ramp
  /\ sinceLast = NONE

Advance ==
  /\ now < MaxTime
  /\ now' = now + 1
  /\ UNCHANGED <<detection, soft_stop, safety, multiplier, sinceLast>>

\* handle_fault for each of the faults in turn: FMEA time is brought up to
\* date, a ramping fault starts the ramp anew from the torque of this tick,
\* and the safety service ends up with the last of them.
handle_faults(faults, torque) ==
  /\ current_time' = IF faults = <<>> THEN current_time ELSE now
  /\ soft_stop' = SS!update(IF Ramping(faults) THEN SS!start_soft_stop(torque)
                            ELSE soft_stop)
  /\ multiplier' = SS!current_multiplier(soft_stop')

\* check_recovery_opportunities: a fault is cleared once it is old enough.
check_recovery_opportunities(s) ==
  IF s.tag = "Faulted" /\ now - s.since >= MinFaultTime THEN SafeTorque ELSE s

Count(n) == IF n < Ramp THEN n + 1 ELSE Ramp

\* new_faults, in the order they are pushed.
NewFaults(other, usb, nan, temp, late, injected) ==
  Detected(other # NONE, other)
    \o Detected(detect_usb_fault(usb), "UsbStall")
    \o Detected(detect_encoder_fault(nan), "EncoderNaN")
    \o Detected(detect_thermal_fault(temp), "ThermalLimit")
    \o Detected(detect_timing_violation(late), "TimingViolation")
    \o Detected(injected # NONE, injected)

update(torque, other, usb, nan, temp, late, injected) ==
  LET faults == NewFaults(other, usb, nan, temp, late, injected)
  IN  /\ CountNan(nan)
      /\ violation_count' = IF late THEN SaturatingInc(violation_count)
                            ELSE violation_count
      /\ handle_faults(faults, torque)
      /\ safety' = check_recovery_opportunities(
                     IF faults = <<>> THEN safety ELSE Faulted(faults[Len(faults)]))
      /\ sinceLast' = IF Ramping(faults) THEN 1
                      ELSE IF sinceLast = NONE THEN NONE ELSE Count(sinceLast)
      /\ UNCHANGED now

\* execute_recovery_procedure of a UsbStall or a ThermalLimit, whichever
\* fault is active, if any: the waiting steps outlast MinFaultTime, the last
\* step is SafetyService::clear_fault, which only fails when there is no fault.
\* ReduceTorque of the thermal procedure forces the soft stop to its end.
RecoverAfterWait(thermal) ==
  /\ now + MinFaultTime <= MaxTime
  /\ now' = now + MinFaultTime
  /\ safety' = SafeTorque
  /\ soft_stop' = IF thermal THEN SS!force_stop(soft_stop) ELSE soft_stop
  /\ UNCHANGED <<detection, multiplier, sinceLast>>

\* The EncoderNaN procedure tries at once, and again after its backoff.
RecoverEncoder ==
  /\ safety.tag = "Faulted"
  /\ now' = IF now - safety.since >= MinFaultTime THEN now ELSE now + MinFaultTime
  /\ now' <= MaxTime
  /\ safety' = SafeTorque
  /\ UNCHANGED <<detection, soft_stop, multiplier, sinceLast>>

\* What the tick before can have written: it applied the multiplier.
Written == IF multiplier = 0 THEN {0} ELSE {0, Torque}

UsbInfo ==
  [consecutive_failures : {0, MaxUsbFailures}, last_success : 0..now \cup {NONE}]

Next ==
  \/ Advance
  \/ \E torque \in Written, other, injected \in OtherFaults \cup {NONE},
        usb \in UsbInfo \cup {NONE}, nan, late \in BOOLEAN,
        temp \in {"cool", "hot"} :
       update(torque, other, usb, nan, temp, late, injected)
  \/ \E thermal \in BOOLEAN : RecoverAfterWait(thermal)
  \/ RecoverEncoder

Spec == Init /\ [][Next]_vars

-----------------------------------------------------------------------------
(* What the manager guarantees.                                            *)

\* Ramp updates after the last soft-stop fault the multiplier is zero,
\* whatever other faults, recoveries and measurements came in between.
RampEndsAfterLastFault == sinceLast = Ramp => multiplier = 0

\* Short of a new soft-stop fault the multiplier never rises: no recovery, no
\* cleared fault and no other detection lets torque back in.
MultiplierFalls ==
  [][ multiplier' > multiplier => sinceLast' = 1 ]_vars
=============================================================================
