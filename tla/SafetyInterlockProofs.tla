----------------------- MODULE SafetyInterlockProofs -----------------------
(***************************************************************************)
(* Proofs about SafetyInterlock for any timeouts, torque limits and sizes  *)
(* of the fault log, and for a clock that runs to any bound.               *)
(***************************************************************************)
EXTENDS SafetyInterlock, SequenceTheorems, TLAPS

-----------------------------------------------------------------------------
(* The cyclic log                                                          *)

\* The slot of the i-th oldest entry of a log of n entries, from the slot that is
\* overwritten next: the remainder, without division.
Slot(next, i, n) == IF next + i <= n THEN next + i ELSE next + i - n

\* Remainders of numbers below twice the divisor (the arithmetic of
\* fault_log_next_index).
LEMMA SmallRemainder ==
  ASSUME NEW n \in Nat \ {0}, NEW k \in 0..(2 * n - 1)
  PROVE  k % n = IF k < n THEN k ELSE k - n
<1>1. CASE k < n
  BY <1>1
<1>2. CASE k >= n
  BY <1>2
<1> QED
  BY <1>1, <1>2

\* The log and its history have their types, hold equally many entries, the log is
\* written from its first slot until it is full, and read from the slot overwritten
\* next it is the history.
LogSound ==
  /\ fault_log \in Seq(Triggers) /\ Len(fault_log) <= LogSize
  /\ fault_log_next_index \in 0..(LogSize - 1)
  /\ recent \in Seq(Triggers) /\ Len(recent) = Len(fault_log)
  /\ Len(fault_log) < LogSize => fault_log_next_index = 0
  /\ \A i \in 1..Len(fault_log) :
       recent[i] = fault_log[Slot(fault_log_next_index, i, Len(fault_log))]

\* Logging keeps the newest entries in order, before and after the log is full
\* (log_fault).
LEMMA LogStep ==
  ASSUME LogSound, NEW t \in Triggers, log_fault(t)
  PROVE  LogSound'
<1>1. /\ fault_log \in Seq(Triggers) /\ recent \in Seq(Triggers)
      /\ Len(fault_log) \in Nat /\ Len(recent) = Len(fault_log)
      /\ Len(fault_log) <= LogSize /\ LogSize \in Nat \ {0}
      /\ fault_log_next_index \in 0..(LogSize - 1)
  BY LogAssumption DEF LogSound
<1>2. CASE Len(fault_log) < LogSize
  <2>1. /\ fault_log' = Append(fault_log, t) /\ recent' = Append(recent, t)
        /\ fault_log_next_index = 0 /\ fault_log_next_index' = 0
    BY <1>1, <1>2 DEF log_fault, Remember, LogSound
  <2>2. /\ fault_log' \in Seq(Triggers) /\ Len(fault_log') = Len(fault_log) + 1
        /\ \A i \in 1..Len(fault_log) : fault_log'[i] = fault_log[i]
        /\ fault_log'[Len(fault_log) + 1] = t
    BY <1>1, <2>1, AppendProperties
  <2>3. /\ recent' \in Seq(Triggers) /\ Len(recent') = Len(fault_log) + 1
        /\ \A i \in 1..Len(fault_log) : recent'[i] = recent[i]
        /\ recent'[Len(fault_log) + 1] = t
    BY <1>1, <2>1, AppendProperties
  <2>4. \A i \in 1..Len(fault_log) : recent[i] = fault_log[i]
    BY <1>1, <2>1 DEF LogSound, Slot
  <2>5. \A i \in 1..(Len(fault_log) + 1) : recent'[i] = fault_log'[i]
    BY <1>1, <2>2, <2>3, <2>4
  <2> QED
    BY <1>1, <1>2, <2>1, <2>2, <2>3, <2>5 DEF LogSound, Slot
<1>3. CASE Len(fault_log) = LogSize
  <2> DEFINE k == fault_log_next_index
             n == LogSize
  <2>1. /\ fault_log' = [fault_log EXCEPT ![k + 1] = t]
        /\ fault_log_next_index' = (k + 1) % n
        /\ recent' = Append(Tail(recent), t)
    BY <1>1, <1>3 DEF log_fault, Remember
  <2>2. fault_log_next_index' = IF k + 1 < n THEN k + 1 ELSE 0
    BY <1>1, <2>1, SmallRemainder
  <2>3. /\ fault_log' \in Seq(Triggers) /\ Len(fault_log') = n
        /\ fault_log'[k + 1] = t
        /\ \A j \in 1..n : j # k + 1 => fault_log'[j] = fault_log[j]
    BY <1>1, <1>3, <2>1, ExceptSeq
  <2>4. /\ Tail(recent) \in Seq(Triggers) /\ Len(Tail(recent)) = n - 1
        /\ \A i \in 1..(n - 1) : Tail(recent)[i] = recent[i + 1]
    <3>1. recent # <<>>
      BY <1>1, <1>3
    <3> QED
      BY <1>1, <1>3, <3>1, HeadTailProperties
  <2>5. /\ recent' \in Seq(Triggers) /\ Len(recent') = n
        /\ \A i \in 1..(n - 1) : recent'[i] = recent[i + 1]
        /\ recent'[n] = t
    BY <1>1, <2>1, <2>4, AppendProperties
  <2>6. \A i \in 1..n : recent[i] = fault_log[Slot(k, i, n)]
    BY <1>3 DEF LogSound
  <2>7. ASSUME NEW i \in 1..n
        PROVE  recent'[i] = fault_log'[Slot(fault_log_next_index', i, n)]
    <3>1. CASE i = n
      <4>1. Slot(fault_log_next_index', i, n) = k + 1
        BY <1>1, <2>2, <3>1 DEF Slot
      <4> QED
        BY <2>3, <2>5, <3>1, <4>1
    <3>2. CASE i # n
      <4>1. /\ i \in 1..(n - 1) /\ i + 1 \in 1..n
            /\ Slot(fault_log_next_index', i, n) = Slot(k, i + 1, n)
            /\ Slot(k, i + 1, n) \in 1..n /\ Slot(k, i + 1, n) # k + 1
        BY <1>1, <2>2, <3>2 DEF Slot
      <4> QED
        BY <2>3, <2>5, <2>6, <4>1
    <3> QED
      BY <3>1, <3>2
  <2>8. fault_log_next_index' \in 0..(n - 1)
    BY <1>1, <2>2
  <2> QED
    BY <1>1, <2>3, <2>5, <2>7, <2>8 DEF LogSound
<1> QED
  BY <1>1, <1>2, <1>3

\* A sound log read from the slot overwritten next is the history of the log.
LEMMA SoundIsNewest == LogSound => FaultLogNewest
<1> SUFFICES ASSUME LogSound PROVE Chronological = recent
  BY DEF FaultLogNewest
<1> DEFINE n == Len(fault_log)
<1>1. /\ n \in Nat /\ n <= LogSize /\ Len(recent) = n /\ recent \in Seq(Triggers)
      /\ LogSize \in Nat \ {0} /\ fault_log_next_index \in 0..(LogSize - 1)
      /\ n < LogSize => fault_log_next_index = 0
  BY LogAssumption DEF LogSound
<1>2. ASSUME NEW i \in 1..n
      PROVE  fault_log[((fault_log_next_index + i - 1) % n) + 1] = recent[i]
  <2> DEFINE k == fault_log_next_index + i - 1
  <2>1. n \in Nat \ {0} /\ k \in 0..(2 * n - 1)
    BY <1>1
  <2>2. k % n = IF k < n THEN k ELSE k - n
    <3> HIDE DEF k, n
    <3> QED
      BY <2>1, SmallRemainder
  <2>3. (k % n) + 1 = Slot(fault_log_next_index, i, n)
    BY <1>1, <2>2 DEF Slot
  <2> QED
    BY <2>3 DEF LogSound
<1>3. recent = [i \in 1..n |-> recent[i]]
  BY <1>1
<1>4. Chronological = [i \in 1..n |-> recent[i]]
  BY <1>2 DEF Chronological
<1> QED
  BY <1>3, <1>4

-----------------------------------------------------------------------------
(* The interlock                                                           *)

\* The last feed is not after the last tick or arming, and that is not in the future.
InstantsOrdered == last_feed <= lastTick /\ lastTick <= now

\* Safe mode remembers the last trip, not the first.
TripRemembered == safety_state.tag = "SafeMode" => safety_state.since = lastTrip

\* Types but for the log, with what the safety properties rest on.
CoreSound ==
  /\ now \in Time /\ last_feed \in Time /\ lastTick \in Time /\ lastTrip \in Time
  /\ armed \in BOOLEAN /\ timed_out \in BOOLEAN
  /\ timeout_triggered \in BOOLEAN /\ estopped \in BOOLEAN
  /\ safety_state \in SafetyInterlockState
  /\ last_communication \in Time \cup {NONE}
  /\ torque_command \in Torques \cup {NAN}
  /\ InstantsOrdered /\ TripRemembered /\ TrippedCommandsZero

\* The inductive invariant.
Inv == CoreSound /\ LogSound

\* Every trigger the code makes is one, and so are the states it makes of them
\* (SafetyTrigger, SafetyInterlockState).
LEMMA States ==
  /\ \A k \in {"WatchdogTimeout", "CommunicationLoss", "EmergencyStopCommand",
               "TorqueLimitExceeded"} : Trigger(k) \in Triggers
  /\ \A f \in FaultTypes \cup {"SafetyInterlockViolation"} : FaultDetected(f) \in Triggers
  /\ Normal \in SafetyInterlockState
  /\ \A t \in Triggers, i \in Time :
       [tag |-> "SafeMode", triggered_by |-> t, since |-> i] \in SafetyInterlockState
  /\ \A i \in Time : [tag |-> "EmergencyStop", since |-> i] \in SafetyInterlockState
<1>1. /\ \A k \in {"WatchdogTimeout", "CommunicationLoss", "EmergencyStopCommand",
                   "TorqueLimitExceeded"} : Trigger(k) \in Triggers
      /\ \A f \in FaultTypes \cup {"SafetyInterlockViolation"} : FaultDetected(f) \in Triggers
  BY DEF Trigger, FaultDetected, Triggers
<1> QED
  BY <1>1 DEF SafetyInterlockState

\* What a tick hands out is within the limits or NaN, and zero under an emergency stop
\* (apply_torque_limits).
LEMMA LimitedTorque ==
  ASSUME NEW s \in SafetyInterlockState, NEW requested \in Requests
  PROVE  /\ apply_torque_limits(s, requested) \in Torques \cup {NAN}
         /\ s.tag = "EmergencyStop" => apply_torque_limits(s, requested) = 0
<1>1. ASSUME NEW limit \in 0..MaxTorque
      PROVE  Clamp(requested, limit) \in Torques \cup {NAN}
  BY LimitAssumption DEF Clamp, Torques
<1>2. MaxTorque \in 0..MaxTorque /\ SafeTorque \in 0..MaxTorque /\ 0 \in Torques
  BY LimitAssumption DEF Torques
<1>3. Clamp(requested, MaxTorque) \in Torques \cup {NAN}
      /\ Clamp(requested, SafeTorque) \in Torques \cup {NAN}
  BY <1>1, <1>2
<1> QED
  BY <1>2, <1>3 DEF apply_torque_limits

\* At the start the interlock is normal, the log empty and the torque zero.
LEMMA InitSound == Init => Inv
<1> SUFFICES ASSUME Init PROVE Inv
  OBVIOUS
<1>1. CoreSound
  <2>1. 0 \in Time /\ 0 \in Torques
    BY DurationAssumption, LimitAssumption DEF Time, Torques
  <2>2. safety_state \in SafetyInterlockState /\ safety_state.tag = "Normal"
    BY States DEF Init, Normal
  <2>3. InstantsOrdered /\ TripRemembered /\ TrippedCommandsZero
    BY <2>2 DEF Init, InstantsOrdered, TripRemembered, TrippedCommandsZero
  <2> QED
    BY <2>1, <2>2, <2>3 DEF Init, CoreSound
<1>2. LogSound
  BY LogAssumption DEF Init, LogSound
<1> QED
  BY <1>1, <1>2 DEF Inv

\* A tick keeps the core sound on each of its paths (process_tick).
LEMMA TickCore ==
  ASSUME CoreSound, NEW requested \in Requests, process_tick(requested)
  PROVE  CoreSound'
<1> USE DEF CoreSound, InstantsOrdered, TripRemembered, TrippedCommandsZero
<1>1. now \in Int /\ last_feed \in Int /\ lastTick \in Int /\ 0 \in Torques
  BY DurationAssumption, LimitAssumption DEF Time, Torques
<1>2. lastTick' = now /\ UNCHANGED <<now, last_communication, estopped>>
  BY DEF process_tick
<1>3. CASE handle_watchdog_timeout
  BY <1>1, <1>2, <1>3, States DEF handle_watchdog_timeout, EnterSafeMode
<1>4. CASE handle_communication_loss
  BY <1>1, <1>2, <1>4, States DEF handle_communication_loss, EnterSafeMode, watchdogVars
<1>5. CASE ~has_timed_out /\ \E e \in FeedErrors \cup {"NotArmed"} :
             handle_watchdog_error(e, requested)
  <2>1. ~timed_out
    BY <1>5 DEF has_timed_out
  <2>2. UNCHANGED watchdogVars /\ UNCHANGED timeout_triggered
    BY <1>5 DEF handle_watchdog_error
  <2>3. CASE torque_command' = apply_torque_limits(safety_state, requested)
             /\ UNCHANGED <<safety_state, lastTrip>>
    BY <1>1, <1>2, <2>1, <2>2, <2>3, LimitedTorque DEF watchdogVars
  <2>4. CASE EnterSafeMode(FaultDetected("SafetyInterlockViolation")) /\ torque_command' = 0
    BY <1>1, <1>2, <2>1, <2>2, <2>4, States DEF watchdogVars, EnterSafeMode
  <2> QED
    BY <1>5, <2>3, <2>4 DEF handle_watchdog_error
<1>6. CASE ~has_timed_out /\ FeedAndLimit(requested)
  <2>1. ~timed_out
    BY <1>6 DEF has_timed_out
  <2> QED
    BY <1>1, <1>2, <1>6, <2>1, LimitedTorque DEF FeedAndLimit
<1> QED
  BY <1>3, <1>4, <1>5, <1>6 DEF process_tick

\* A tick logs a timeout, a communication loss or a clamped request, or nothing
\* (process_tick).
LEMMA TickLog ==
  ASSUME LogSound, NEW requested \in Requests, process_tick(requested)
  PROVE  LogSound'
<1>1. \/ \E t \in Triggers : log_fault(t)
      \/ UNCHANGED logVars
  BY States DEF process_tick, handle_watchdog_timeout, handle_communication_loss,
                handle_watchdog_error, FeedAndLimit
<1>2. CASE UNCHANGED logVars
  BY <1>2 DEF LogSound, logVars
<1> QED
  BY <1>1, <1>2, LogStep

\* The operations between ticks keep the core sound.
LEMMA OtherCore ==
  ASSUME CoreSound,
         \/ Advance \/ report_communication \/ emergency_stop \/ clear_fault \/ reset
         \/ arm \/ disarm \/ \E f \in FaultTypes : report_fault(f)
  PROVE  CoreSound'
<1> USE DEF CoreSound, InstantsOrdered, TripRemembered, TrippedCommandsZero, watchdogVars
<1>1. now \in Int /\ last_feed \in Int /\ lastTick \in Int /\ 0 \in Torques /\ 0 \in Time
      /\ lastTick >= 0
  BY DurationAssumption, LimitAssumption DEF Time, Torques
<1>2. CASE Advance
  <2>1. now + 1 \in Time
    BY <1>2, DurationAssumption DEF Advance, Time
  <2> QED
    BY <1>1, <1>2, <2>1 DEF Advance
<1>3. CASE report_communication
  BY <1>1, <1>3 DEF report_communication
<1>4. CASE emergency_stop
  BY <1>1, <1>4, States DEF emergency_stop
<1>5. CASE clear_fault
  BY <1>1, <1>5, States DEF clear_fault, Normal
<1>6. CASE reset
  BY <1>1, <1>6, States DEF reset, Normal
<1>7. CASE arm
  <2>1. /\ armed' = TRUE /\ timed_out' = FALSE /\ last_feed' = now /\ lastTick' = now
        /\ now' = now /\ timeout_triggered' = timeout_triggered /\ estopped' = estopped
        /\ safety_state' = safety_state /\ lastTrip' = lastTrip
        /\ last_communication' = last_communication /\ torque_command' = torque_command
    BY <1>7 DEF arm
  <2>2. InstantsOrdered'
    BY <1>1, <2>1
  <2>3. TripRemembered' /\ TrippedCommandsZero'
    BY <2>1
  <2> QED
    BY <2>1, <2>2, <2>3
<1>8. CASE disarm
  BY <1>1, <1>8 DEF disarm
<1>9. CASE \E f \in FaultTypes : report_fault(f)
  BY <1>1, <1>9, States DEF report_fault, EnterSafeMode
<1> QED
  BY <1>2, <1>3, <1>4, <1>5, <1>6, <1>7, <1>8, <1>9

\* The operations between ticks log one entry or none.
LEMMA OtherLog ==
  ASSUME LogSound,
         \/ Advance \/ report_communication \/ emergency_stop \/ clear_fault \/ reset
         \/ arm \/ disarm \/ \E f \in FaultTypes : report_fault(f)
  PROVE  LogSound'
<1>1. \/ \E t \in Triggers : log_fault(t)
      \/ UNCHANGED logVars
  BY States DEF Advance, report_communication, emergency_stop, clear_fault, reset, arm,
                disarm, report_fault
<1>2. CASE UNCHANGED logVars
  BY <1>2 DEF LogSound, logVars
<1> QED
  BY <1>1, <1>2, LogStep

\* Every tick, call and passing of time keeps the invariant.
LEMMA StepPreserves == Inv /\ [Next]_vars => Inv'
<1> SUFFICES ASSUME Inv, [Next]_vars PROVE Inv'
  OBVIOUS
<1>1. CASE \E requested \in Requests : process_tick(requested)
  BY <1>1, TickCore, TickLog DEF Inv
<1>2. CASE \/ Advance \/ report_communication \/ emergency_stop \/ clear_fault \/ reset
           \/ arm \/ disarm \/ \E f \in FaultTypes : report_fault(f)
  BY <1>2, OtherCore, OtherLog DEF Inv
<1>3. CASE UNCHANGED vars
  <2>1. LogSound'
    BY <1>3 DEF Inv, LogSound, vars, logVars
  <2>2. CoreSound'
    BY <1>3 DEF Inv, CoreSound, InstantsOrdered, TripRemembered, TrippedCommandsZero,
                vars, watchdogVars
  <2> QED
    BY <2>1, <2>2 DEF Inv
<1> QED
  BY <1>1, <1>2, <1>3 DEF Next

\* Inv holds in every reachable state of the interlock, for any timeouts, limits and
\* size of the log.
THEOREM InductiveInvariant == Spec => []Inv
<1>1. Init => Inv
  BY InitSound
<1>2. Inv /\ [Next]_vars => Inv'
  BY StepPreserves
<1> QED
  BY <1>1, <1>2, PTL DEF Spec

\* The interlock's state keeps its types: the torque handed out is within the limits or
\* NaN, the log within its size (SafetyInterlockSystem).
THEOREM TypeCorrect == Spec => []TypeOK
<1>1. Inv => TypeOK
  BY DEF Inv, CoreSound, LogSound, TypeOK
<1> QED
  BY <1>1, InductiveInvariant, PTL

\* After a watchdog timeout, until arm or reset, and in an emergency stop the last
\* torque handed out is zero (process_tick, emergency_stop, clear_fault).
THEOREM TripMeansZero == Spec => []TrippedCommandsZero
<1>1. Inv => TrippedCommandsZero
  BY DEF Inv, CoreSound
<1> QED
  BY <1>1, InductiveInvariant, PTL

\* The cyclic log of any size holds the most recent entries in order (log_fault).
THEOREM LogKeepsNewest == Spec => []FaultLogNewest
<1>1. Inv => FaultLogNewest
  BY SoundIsNewest DEF Inv
<1> QED
  BY <1>1, InductiveInvariant, PTL

\* A tick that hands out torque under an armed watchdog is never later than the
\* watchdog's timeout after the tick before it (process_tick).
THEOREM StallMeansZero == Spec => StalledLoopCommandsZero
<1>1. ASSUME Inv, [Next]_vars,
             lastTick' # lastTick, armed, armed', torque_command' # 0
      PROVE  now - lastTick <= WatchdogTimeout
  <2>1. PICK requested \in Requests : process_tick(requested)
    BY <1>1 DEF Next, vars, watchdogVars, Advance, report_communication, emergency_stop,
                clear_fault, reset, arm, disarm, report_fault
  <2>2. ~has_timed_out
    BY <1>1, <2>1 DEF process_tick, handle_watchdog_timeout
  <2>3. /\ now \in Int /\ last_feed \in Int /\ lastTick \in Int
        /\ WatchdogTimeout \in Int /\ last_feed <= lastTick
    BY <1>1, DurationAssumption DEF Inv, CoreSound, InstantsOrdered, Time
  <2>4. ~(now - last_feed > WatchdogTimeout)
    BY <1>1, <2>2 DEF has_timed_out
  <2> QED
    BY <2>3, <2>4
<1>2. Inv /\ [Next]_vars =>
        [(lastTick' # lastTick /\ armed /\ armed' /\ torque_command' # 0)
           => now - lastTick <= WatchdogTimeout]_vars
  BY <1>1
<1> QED
  BY <1>2, InductiveInvariant, PTL DEF Spec, StalledLoopCommandsZero

\* Short of a reset, safe mode is left only MinSafeTime after the last trip
\* (clear_fault, EnterSafeMode).
THEOREM SafeModeLasts == Spec => SafeModeMinimumTime
<1>1. ASSUME Inv, [Next]_vars,
             safety_state.tag = "SafeMode", safety_state'.tag = "Normal", ~reset
      PROVE  now - lastTrip >= MinSafeTime
  <2>1. safety_state' # safety_state
    BY <1>1
  <2>2. clear_fault
    <3>1. ASSUME NEW requested \in Requests, process_tick(requested) PROVE FALSE
      BY <1>1, <2>1, <3>1 DEF process_tick, handle_watchdog_timeout,
           handle_communication_loss, handle_watchdog_error, FeedAndLimit, EnterSafeMode
    <3>2. ASSUME NEW f \in FaultTypes, report_fault(f) PROVE FALSE
      BY <1>1, <3>2 DEF report_fault, EnterSafeMode
    <3>3. ASSUME emergency_stop PROVE FALSE
      BY <1>1, <3>3 DEF emergency_stop
    <3>4. ASSUME Advance \/ report_communication \/ arm \/ disarm \/ UNCHANGED vars
          PROVE  FALSE
      BY <2>1, <3>4 DEF Advance, report_communication, arm, disarm, vars
    <3> QED
      BY <1>1, <3>1, <3>2, <3>3, <3>4 DEF Next
  <2> QED
    BY <1>1, <2>2 DEF clear_fault, Inv, CoreSound, TripRemembered
<1>2. Inv /\ [Next]_vars =>
        [(safety_state.tag = "SafeMode" /\ safety_state'.tag = "Normal")
           => reset \/ now - lastTrip >= MinSafeTime]_vars
  BY <1>1
<1> QED
  BY <1>2, InductiveInvariant, PTL DEF Spec, SafeModeMinimumTime
=============================================================================
