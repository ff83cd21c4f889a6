------------------------- MODULE FaultManagerProofs -------------------------
(***************************************************************************)
(* Proofs about FaultManager for any ramp length, thresholds and torque:   *)
(* what the soft stop does to the multiplier in the long run.              *)
(***************************************************************************)
EXTENDS FaultManager, TLAPS

\* The level of a ramp is fixed by the updates since the last soft-stop fault; a
\* controller that is not ramping is at zero.
RampFollowsFault ==
  IF soft_stop.active
  THEN sinceLast # NONE /\ sinceLast < Ramp /\ soft_stop.level = Ramp - sinceLast
  ELSE soft_stop.level = 0

\* The multiplier handed out is never below that of the controller: a recovery
\* procedure may force the ramp to its end between two updates.
MultiplierAhead == SS!current_multiplier(soft_stop) <= multiplier

\* Zero is final: the ramp cannot be restarted from a tick that wrote nothing.  This is
\* what the code does, with or without a recovery; the FMEA state machine of the
\* documents returns to Normal after one (openracing-fmea/docs/state_machine.md).
ZeroMultiplierFinal == [][ multiplier = 0 => multiplier' = 0 ]_vars

\* The inductive invariant.
Inv ==
  /\ soft_stop \in SS!SoftStopController
  /\ multiplier \in 0..Ramp
  /\ sinceLast \in 0..Ramp \cup {NONE}
  /\ RampFollowsFault
  /\ MultiplierAhead
  /\ RampEndsAfterLastFault

-----------------------------------------------------------------------------
(* The controller                                                          *)

\* A ramp that is ended leaves a controller at zero (update, force_stop).
LEMMA EndedSound ==
  ASSUME NEW s \in SS!SoftStopController
  PROVE  LET e == [s EXCEPT !.active = FALSE, !.level = 0] IN
         /\ e \in SS!SoftStopController /\ e.active = FALSE /\ e.level = 0
         /\ e.start_torque = s.start_torque /\ SS!current_multiplier(e) = 0
<1> DEFINE e == [s EXCEPT !.active = FALSE, !.level = 0]
<1>1. 0 \in SS!Levels
  BY FaultManagerAssumption DEF SS!Levels
<1>2. e \in SS!SoftStopController
  BY <1>1 DEF SS!SoftStopController
<1>3. e.active = FALSE /\ e.level = 0 /\ e.start_torque = s.start_torque
  BY DEF SS!SoftStopController
<1>4. SS!current_multiplier(e) = 0
  BY <1>3 DEF SS!current_multiplier
<1> QED
  BY <1>2, <1>3, <1>4

\* One tick of the ramp lowers the level by one and ends at zero; the multiplier does
\* not rise (SoftStopController::update).
LEMMA UpdateLowers ==
  ASSUME NEW s \in SS!SoftStopController, s.active => s.level \in 1..Ramp,
         ~s.active => s.level = 0
  PROVE  /\ SS!update(s) \in SS!SoftStopController
         /\ SS!update(s).start_torque = s.start_torque
         /\ s.active => SS!update(s).level = s.level - 1
         /\ ~s.active => SS!update(s) = s
         /\ SS!update(s).active <=> SS!update(s).level > 0
         /\ SS!current_multiplier(SS!update(s)) \in 0..Ramp
         /\ SS!current_multiplier(SS!update(s)) <= SS!current_multiplier(s)
<1> USE DEF SS!SoftStopController, SS!Levels
<1>0. Ramp \in Nat \ {0} /\ s.level \in 0..Ramp /\ s.start_torque \in Int /\ s.active \in BOOLEAN
  BY FaultManagerAssumption
<1>1. CASE ~s.active
  <2>1. SS!update(s) = s
    BY <1>1 DEF SS!update
  <2> QED
    BY <1>0, <1>1, <2>1 DEF SS!current_multiplier
<1>2. CASE s.active /\ s.level <= 1
  <2>1. SS!update(s) = [s EXCEPT !.active = FALSE, !.level = 0]
    BY <1>2 DEF SS!update
  <2>2. /\ SS!update(s) \in SS!SoftStopController /\ SS!update(s).active = FALSE
        /\ SS!update(s).level = 0 /\ SS!update(s).start_torque = s.start_torque
        /\ SS!current_multiplier(SS!update(s)) = 0
    BY <2>1, EndedSound
  <2>3. s.level = 1 /\ SS!current_multiplier(s) >= 0
    BY <1>0, <1>2 DEF SS!current_multiplier
  <2> QED
    BY <1>0, <1>2, <2>2, <2>3
<1>3. CASE s.active /\ s.level > 1
  <2>1. SS!update(s) = [s EXCEPT !.level = s.level - 1]
    BY <1>0, <1>3 DEF SS!update
  <2> QED
    BY <1>0, <1>3, <2>1 DEF SS!current_multiplier
<1> QED
  BY <1>0, <1>1, <1>2, <1>3

\* A ramp starts at its full length; from zero torque its multiplier is zero
\* (start_soft_stop).
LEMMA StartFull ==
  ASSUME NEW torque \in Int
  PROVE  LET s == SS!start_soft_stop(torque) IN
         /\ s \in SS!SoftStopController /\ s.active /\ s.level = Ramp
         /\ s.start_torque = torque
  BY FaultManagerAssumption DEF SS!start_soft_stop, SS!SoftStopController, SS!Levels

-----------------------------------------------------------------------------
(* Steps                                                                   *)

\* At the start the multiplier is full and no ramp has begun.
LEMMA InitSound == Init => Inv
<1> SUFFICES ASSUME Init PROVE Inv
  OBVIOUS
<1>1. Ramp \in Nat \ {0} /\ NONE # Ramp
  BY FaultManagerAssumption
<1>2. soft_stop \in SS!SoftStopController /\ ~soft_stop.active /\ soft_stop.level = 0
      /\ SS!current_multiplier(soft_stop) = 0
  BY <1>1 DEF Init, SS!new, SS!SoftStopController, SS!Levels, SS!current_multiplier
<1> QED
  BY <1>1, <1>2 DEF Init, Inv, RampFollowsFault, MultiplierAhead, RampEndsAfterLastFault

\* An update restarts the ramp from the torque of the tick, or goes on with it
\* (update, handle_fault).
LEMMA UpdateStep ==
  ASSUME Inv, NEW torque \in Written, NEW other, NEW usb, NEW nan, NEW temp, NEW late,
         NEW injected, update(torque, other, usb, nan, temp, late, injected)
  PROVE  /\ Inv'
         /\ multiplier' > multiplier => sinceLast' = 1
         /\ multiplier = 0 => multiplier' = 0
<1> DEFINE restart == Ramping(NewFaults(other, usb, nan, temp, late, injected))
           from == IF restart THEN SS!start_soft_stop(torque) ELSE soft_stop
<1>1. /\ soft_stop' = SS!update(from)
      /\ multiplier' = SS!current_multiplier(soft_stop')
      /\ sinceLast' = IF restart THEN 1
                      ELSE IF sinceLast = NONE THEN NONE ELSE Count(sinceLast)
  BY DEF update, handle_faults
<1> HIDE DEF restart
<1>2. /\ Ramp \in Nat \ {0} /\ NONE \notin Int /\ torque \in Int
      /\ multiplier \in 0..Ramp /\ sinceLast \in 0..Ramp \cup {NONE}
      /\ multiplier = 0 => torque = 0
  BY FaultManagerAssumption DEF Inv, Written
<1>3. CASE restart
  <2> DEFINE s == SS!start_soft_stop(torque)
  <2>1. /\ s \in SS!SoftStopController /\ s.active /\ s.level = Ramp
        /\ s.start_torque = torque /\ soft_stop' = SS!update(s) /\ sinceLast' = 1
    BY <1>1, <1>2, <1>3, StartFull
  <2> HIDE DEF s
  <2>2. s.level \in 1..Ramp
    BY <1>2, <2>1
  <2>3. /\ soft_stop' \in SS!SoftStopController /\ soft_stop'.level = Ramp - 1
        /\ soft_stop'.active <=> soft_stop'.level > 0
        /\ multiplier' \in 0..Ramp /\ soft_stop'.start_torque = torque
    BY <1>1, <2>1, <2>2, UpdateLowers
  <2>4. multiplier' = IF torque = 0 THEN 0 ELSE Ramp - 1
    BY <1>1, <2>3 DEF SS!current_multiplier
  <2>5. RampFollowsFault' /\ RampEndsAfterLastFault'
    BY <1>2, <2>1, <2>3, <2>4 DEF RampFollowsFault, RampEndsAfterLastFault
  <2>6. MultiplierAhead'
    BY <1>1, <1>2, <2>3 DEF MultiplierAhead
  <2> QED
    BY <1>2, <2>1, <2>3, <2>4, <2>5, <2>6 DEF Inv
<1>4. CASE ~restart
  <2>1. /\ soft_stop \in SS!SoftStopController /\ soft_stop' = SS!update(soft_stop)
        /\ sinceLast' = IF sinceLast = NONE THEN NONE ELSE Count(sinceLast)
    BY <1>1, <1>4 DEF Inv
  <2>2. /\ soft_stop.active => soft_stop.level \in 1..Ramp
        /\ ~soft_stop.active => soft_stop.level = 0
    BY <1>2 DEF Inv, RampFollowsFault
  <2>3. /\ soft_stop' \in SS!SoftStopController
        /\ soft_stop.active => soft_stop'.level = soft_stop.level - 1
        /\ ~soft_stop.active => soft_stop' = soft_stop
        /\ soft_stop'.active <=> soft_stop'.level > 0
        /\ multiplier' \in 0..Ramp
        /\ multiplier' <= SS!current_multiplier(soft_stop)
    BY <1>1, <2>1, <2>2, UpdateLowers
  <2>4. SS!current_multiplier(soft_stop) \in 0..Ramp
    BY <1>2 DEF Inv, SS!current_multiplier, SS!SoftStopController, SS!Levels
  <2>5. multiplier' <= multiplier
    BY <1>2, <2>3, <2>4 DEF Inv, MultiplierAhead
  <2>6. sinceLast' \in 0..Ramp \cup {NONE}
    BY <1>2, <2>1 DEF Count
  <2>7. RampFollowsFault'
    BY <1>2, <2>1, <2>2, <2>3 DEF Inv, RampFollowsFault, Count
  <2>8. RampEndsAfterLastFault'
    <3>1. soft_stop'.level = 0 => multiplier' = 0
      BY <1>1 DEF SS!current_multiplier
    <3>2. sinceLast' = Ramp => soft_stop'.level = 0
      BY <1>2, <2>1, <2>2, <2>3, <2>7 DEF RampFollowsFault
    <3> QED
      BY <3>1, <3>2 DEF RampEndsAfterLastFault
  <2>9. MultiplierAhead'
    BY <1>1, <1>2, <2>3 DEF MultiplierAhead
  <2> QED
    BY <1>2, <2>3, <2>5, <2>6, <2>7, <2>8, <2>9 DEF Inv
<1> QED
  BY <1>3, <1>4

\* Recovery leaves the multiplier and may only end the ramp
\* (execute_recovery_procedure).
LEMMA OtherStep ==
  ASSUME Inv,
         \/ Advance \/ RecoverEncoder \/ UNCHANGED vars
         \/ \E thermal \in BOOLEAN : RecoverAfterWait(thermal)
  PROVE  Inv' /\ multiplier' = multiplier
<1>1. /\ multiplier' = multiplier /\ sinceLast' = sinceLast
      /\ soft_stop' \in {soft_stop, SS!force_stop(soft_stop)}
  BY DEF Advance, RecoverEncoder, RecoverAfterWait, vars
<1>2. CASE soft_stop' = soft_stop
  BY <1>1, <1>2 DEF Inv, RampFollowsFault, MultiplierAhead, RampEndsAfterLastFault
<1>3. CASE soft_stop' = SS!force_stop(soft_stop)
  <2>1. /\ soft_stop' \in SS!SoftStopController /\ ~soft_stop'.active
        /\ soft_stop'.level = 0 /\ SS!current_multiplier(soft_stop)' = 0
    <3> DEFINE e == [soft_stop EXCEPT !.active = FALSE, !.level = 0]
    <3>1. soft_stop' = e
      BY <1>3 DEF SS!force_stop
    <3>2. /\ e \in SS!SoftStopController /\ e.active = FALSE /\ e.level = 0
          /\ SS!current_multiplier(e) = 0
      BY EndedSound DEF Inv
    <3> HIDE DEF e
    <3> QED
      BY <3>1, <3>2 DEF SS!current_multiplier
  <2>2. MultiplierAhead'
    BY <1>1, <2>1, FaultManagerAssumption DEF Inv, MultiplierAhead
  <2> QED
    BY <1>1, <2>1, <2>2 DEF Inv, RampFollowsFault, RampEndsAfterLastFault
<1> QED
  BY <1>1, <1>2, <1>3

\* Every update, recovery and passing of time keeps the invariant and what the action
\* properties say.
LEMMA StepPreserves ==
  ASSUME Inv, [Next]_vars
  PROVE  /\ Inv'
         /\ multiplier' > multiplier => sinceLast' = 1
         /\ multiplier = 0 => multiplier' = 0
<1>0. multiplier \in Int
  BY FaultManagerAssumption DEF Inv
<1>1. CASE \/ Advance \/ RecoverEncoder \/ UNCHANGED vars
           \/ \E thermal \in BOOLEAN : RecoverAfterWait(thermal)
  BY <1>0, <1>1, OtherStep
<1>2. ASSUME NEW torque \in Written, NEW other, NEW usb, NEW nan, NEW temp, NEW late,
             NEW injected, update(torque, other, usb, nan, temp, late, injected)
      PROVE  /\ Inv'
             /\ multiplier' > multiplier => sinceLast' = 1
             /\ multiplier = 0 => multiplier' = 0
  BY <1>2, UpdateStep
<1> QED
  BY <1>1, <1>2 DEF Next

\* Inv holds in every reachable state, for any ramp and thresholds.
THEOREM InductiveInvariant == Spec => []Inv
<1>1. Init => Inv
  BY InitSound
<1>2. Inv /\ [Next]_vars => Inv'
  BY StepPreserves
<1> QED
  BY <1>1, <1>2, PTL DEF Spec

\* Ramp updates after the last soft-stop fault the multiplier is zero, whatever came in
\* between (update, handle_fault, execute_recovery_procedure).
THEOREM RampEnds == Spec => []RampEndsAfterLastFault
<1>1. Inv => RampEndsAfterLastFault
  BY DEF Inv
<1> QED
  BY <1>1, InductiveInvariant, PTL

\* The multiplier rises only in the update that finds a new soft-stop fault (update).
THEOREM MultiplierOnlyFalls == Spec => MultiplierFalls
<1>1. Inv /\ [Next]_vars => [multiplier' > multiplier => sinceLast' = 1]_vars
  BY StepPreserves
<1> QED
  BY <1>1, InductiveInvariant, PTL DEF Spec, MultiplierFalls

\* Once the multiplier is zero no fault and no recovery brings torque back, not even
\* one that succeeded and cleared the fault (update, start_soft_stop with the torque of
\* the tick, execute_recovery_procedure).
THEOREM ZeroIsFinal == Spec => ZeroMultiplierFinal
<1>1. Inv /\ [Next]_vars => [multiplier = 0 => multiplier' = 0]_vars
  BY StepPreserves
<1> QED
  BY <1>1, InductiveInvariant, PTL DEF Spec, ZeroMultiplierFinal
=============================================================================
