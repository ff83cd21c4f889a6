------------------------- MODULE SafetyServiceProofs -------------------------
(***************************************************************************)
(* The safety properties of SafetyService for every set of tokens, devices *)
(* and faults and every choice of the timeouts.                            *)
(***************************************************************************)
EXTENDS SafetyService, TLAPS

IInv ==
  /\ TypeOK
  /\ ChallengeMirrorsState
  /\ NoHighTorqueAfterFault
  /\ ActiveTokenRegistered
  /\ InstantsConsistent

\* NONE is told apart from every challenge, instant and device token.
LEMMA NoneIsNoValue ==
  /\ NONE \notin Time
  /\ NONE \notin InterlockChallenge
  /\ NONE \notin DeviceTokens
  /\ Time \subseteq Nat
BY NoneAssumption, DurationAssumption DEF Time, InterlockChallenge

\* The tag of a state decides which variant it is.
LEMMA TagDecidesVariant ==
  ASSUME NEW s \in SafetyState
  PROVE  /\ s.tag = "SafeTorque" => s = SafeTorque
         /\ s.tag = "HighTorqueChallenge" => s \in HighTorqueChallengeStates
         /\ s.tag = "AwaitingPhysicalAck" => s \in AwaitingPhysicalAckStates
         /\ s.tag = "HighTorqueActive" => s \in HighTorqueActiveStates
         /\ s.tag = "Faulted" => s \in FaultedStates
BY DEF SafetyState, SafeTorque, HighTorqueChallengeStates,
   AwaitingPhysicalAckStates, HighTorqueActiveStates, FaultedStates

LEMMA InitEstablishes == Init => IInv
<1> SUFFICES ASSUME Init PROVE IInv
    OBVIOUS
<1>1. TypeOK
  BY DurationAssumption, FaultAssumption
  DEF Init, TypeOK, Time, SafetyState
<1>2. state.tag = "SafeTorque"
  BY DEF Init, SafeTorque
<1>3. QED
  BY <1>1, <1>2 DEF Init, IInv, ChallengeMirrorsState, InChallenge,
     NoHighTorqueAfterFault, ActiveTokenRegistered, InstantsConsistent

\* A step that leaves everything but the clock alone, and lets it advance.
LEMMA ClockAdvance ==
  ASSUME IInv, now' \in Time, now <= now',
         UNCHANGED <<state, active_challenge, fault_count, device_tokens, lastFault>>
  PROVE  IInv'
<1>1. TypeOK'
  BY DEF IInv, TypeOK
<1>2. ChallengeMirrorsState' /\ NoHighTorqueAfterFault' /\ ActiveTokenRegistered'
  BY DEF IInv, ChallengeMirrorsState, InChallenge, HasFaulted,
     NoHighTorqueAfterFault, ActiveTokenRegistered
<1>3. InstantsConsistent'
  <2>1. now \in Nat /\ now' \in Nat
    BY NoneIsNoValue DEF IInv, TypeOK
  <2>2. (state.tag = "AwaitingPhysicalAck" /\ state.combo_start # NONE)
          => state.combo_start \in Nat
    BY TagDecidesVariant, NoneIsNoValue DEF IInv, TypeOK, AwaitingPhysicalAckStates
  <2>3. state.tag = "Faulted" => state.since \in Nat
    BY TagDecidesVariant, NoneIsNoValue DEF IInv, TypeOK, FaultedStates
  <2>4. QED
    BY <2>1, <2>2, <2>3 DEF IInv, InstantsConsistent
<1>4. QED
  BY <1>1, <1>2, <1>3 DEF IInv

\* Falling back to SafeTorque without a challenge is always allowed.
LEMMA ExpireStep ==
  ASSUME IInv, now' \in Time, state' = SafeTorque, active_challenge' = NONE,
         UNCHANGED <<fault_count, device_tokens, lastFault>>
  PROVE  IInv'
<1>1. state'.tag = "SafeTorque" /\ state' \in SafetyState
  BY DEF SafeTorque, SafetyState
<1>2. QED
  BY <1>1 DEF IInv, TypeOK, ChallengeMirrorsState, InChallenge,
     NoHighTorqueAfterFault, ActiveTokenRegistered, InstantsConsistent

\* A fault report: whatever the state, only Faulted is left, and the counter
\* that bars high torque is positive.
LEMMA FaultStep ==
  ASSUME IInv, NEW f \in FaultTypes, report_fault(f)
  PROVE  IInv'
<1>1. state' \in FaultedStates /\ state'.tag = "Faulted" /\ state'.since = now
  BY DEF report_fault, FaultedNow, FaultedStates, IInv, TypeOK
<1>2. fault_count' \in [FaultTypes -> 0..MaxCount] /\ fault_count'[f] > 0
  <2>1. SaturatingAdd(fault_count[f]) \in 0..MaxCount /\ SaturatingAdd(fault_count[f]) > 0
    BY FaultAssumption DEF IInv, TypeOK, SaturatingAdd
  <2>2. QED
    BY <2>1 DEF IInv, TypeOK, report_fault
<1>3. HasFaulted'
  BY <1>2 DEF HasFaulted
<1>4. TypeOK'
  BY <1>1, <1>2 DEF IInv, TypeOK, report_fault, SafetyState
<1>5. InstantsConsistent'
  <2>1. now \in Nat
    BY NoneIsNoValue DEF IInv, TypeOK
  <2>2. QED
    BY <1>1, <2>1 DEF InstantsConsistent, report_fault
<1>6. QED
  BY <1>1, <1>3, <1>4, <1>5 DEF IInv, ChallengeMirrorsState, InChallenge,
     NoHighTorqueAfterFault, ActiveTokenRegistered

\* A combo timer is started or cleared in both copies of the challenge.
LEMMA ComboStep ==
  ASSUME IInv, state.tag = "AwaitingPhysicalAck",
         NEW a \in Time \cup {NONE}, NEW b \in Time \cup {NONE},
         a = NONE <=> b = NONE, a # NONE => a <= b /\ a <= now',
         now' \in Time, SetComboStart(a, b)
  PROVE  IInv'
<1>1. state \in AwaitingPhysicalAckStates
  BY TagDecidesVariant DEF IInv, TypeOK
<1>2. /\ state' \in AwaitingPhysicalAckStates
      /\ state'.tag = "AwaitingPhysicalAck"
      /\ state'.combo_start = a
      /\ state'.challenge_token = state.challenge_token
      /\ state'.expires = state.expires
  BY <1>1 DEF SetComboStart, AwaitingPhysicalAckStates
<1>3. active_challenge \in InterlockChallenge
  BY DEF IInv, TypeOK, ChallengeMirrorsState, InChallenge
<1>4. /\ active_challenge' \in InterlockChallenge
      /\ active_challenge'.combo_start = b
      /\ active_challenge'.challenge_token = active_challenge.challenge_token
      /\ active_challenge'.expires = active_challenge.expires
      /\ active_challenge'.ui_consent_given = active_challenge.ui_consent_given
  <2>1. active_challenge # NONE
    BY <1>3, NoneIsNoValue
  <2>2. active_challenge' = [active_challenge EXCEPT !.combo_start = b]
    BY <2>1 DEF SetComboStart
  <2>3. QED
    BY <1>3, <2>2 DEF InterlockChallenge
<1>5. TypeOK'
  BY <1>2, <1>4 DEF IInv, TypeOK, SetComboStart, SafetyState
<1>6. ChallengeMirrorsState'
  BY <1>2, <1>4, NoneIsNoValue DEF IInv, ChallengeMirrorsState, InChallenge
<1>7. NoHighTorqueAfterFault' /\ ActiveTokenRegistered'
  BY <1>2 DEF IInv, NoHighTorqueAfterFault, ActiveTokenRegistered, HasFaulted,
     SetComboStart
<1>8. InstantsConsistent'
  BY <1>2 DEF InstantsConsistent
<1>9. QED
  BY <1>5, <1>6, <1>7, <1>8 DEF IInv

\* The acknowledgement either expires the challenge or activates high torque
\* for a device whose token is stored in the same step.
LEMMA ConfirmStep ==
  ASSUME IInv, NEW d \in DeviceIds, NEW t \in Tokens, NEW k \in DeviceTokens,
         NEW held \in Time, NEW at \in Time, confirm_high_torque(d, t, k, held, at)
  PROVE  IInv'
<1>1. CASE at > state.expires /\ state' = SafeTorque
  <2>1. active_challenge' = NONE /\ now' = at /\ UNCHANGED <<fault_count, device_tokens, lastFault>>
    BY <1>1 DEF confirm_high_torque, SafeTorque
  <2>2. QED
    BY <1>1, <2>1, ExpireStep
<1>2. CASE state' = [tag |-> "HighTorqueActive", since |-> at,
                     device_token |-> k, last_hands_on |-> at]
  <2>1. /\ state.tag = "AwaitingPhysicalAck"
        /\ device_tokens' = [device_tokens EXCEPT ![d] = k]
        /\ active_challenge' = NONE
        /\ now' = at
        /\ UNCHANGED <<fault_count, lastFault>>
    BY <1>2 DEF confirm_high_torque, InsertToken, SafeTorque
  <2>2. /\ state' \in HighTorqueActiveStates
        /\ state'.tag = "HighTorqueActive"
        /\ state'.device_token = k
    BY <1>2 DEF HighTorqueActiveStates
  <2>3. TypeOK'
    BY <2>1, <2>2 DEF IInv, TypeOK, SafetyState
  <2>4. ~HasFaulted'
    BY <2>1 DEF IInv, NoHighTorqueAfterFault, HasFaulted
  <2>5. device_tokens'[d] = k
    BY <2>1 DEF IInv, TypeOK
  <2>6. QED
    BY <2>1, <2>2, <2>3, <2>4, <2>5 DEF IInv, ChallengeMirrorsState, InChallenge,
       NoHighTorqueAfterFault, ActiveTokenRegistered, InstantsConsistent
<1>3. QED
  BY <1>1, <1>2 DEF confirm_high_torque

LEMMA RequestStep ==
  ASSUME IInv, request_high_torque
  PROVE  IInv'
<1>1. PICK t \in Tokens :
        /\ state' = [tag |-> "HighTorqueChallenge", challenge_token |-> t,
                     expires |-> now + ChallengeTimeout, ui_consent_given |-> FALSE]
        /\ active_challenge' = [challenge_token |-> t, expires |-> now + ChallengeTimeout,
                                ui_consent_given |-> FALSE, combo_start |-> NONE]
  BY DEF request_high_torque
<1>2. now + ChallengeTimeout \in Nat
  BY NoneIsNoValue, DurationAssumption DEF IInv, TypeOK
<1>3. state' \in HighTorqueChallengeStates /\ active_challenge' \in InterlockChallenge
  BY <1>1, <1>2 DEF HighTorqueChallengeStates, InterlockChallenge
<1>4. TypeOK'
  BY <1>3 DEF IInv, TypeOK, SafetyState, request_high_torque
<1>5. ChallengeMirrorsState'
  BY <1>1, <1>3, NoneIsNoValue DEF ChallengeMirrorsState, InChallenge
<1>6. ~HasFaulted'
  BY DEF request_high_torque, check_high_torque_preconditions, HasFaulted, IInv, TypeOK
<1>7. QED
  BY <1>1, <1>4, <1>5, <1>6 DEF IInv, NoHighTorqueAfterFault, ActiveTokenRegistered,
     InstantsConsistent

LEMMA ConsentStep ==
  ASSUME IInv, NEW t \in Tokens, provide_ui_consent(t)
  PROVE  IInv'
<1>1. CASE ExpireChallenge
  BY <1>1, ExpireStep DEF ExpireChallenge, IInv, TypeOK
<1>2. CASE state' = [tag |-> "AwaitingPhysicalAck",
                     challenge_token |-> state.challenge_token,
                     expires |-> state.expires, combo_start |-> NONE]
  <2>1. /\ state.tag = "HighTorqueChallenge"
        /\ active_challenge' = IF active_challenge = NONE THEN NONE
                               ELSE [active_challenge EXCEPT !.ui_consent_given = TRUE]
        /\ UNCHANGED <<now, fault_count, device_tokens, lastFault>>
    BY <1>2 DEF provide_ui_consent, ExpireChallenge, SafeTorque
  <2>2. state \in HighTorqueChallengeStates
    BY <2>1, TagDecidesVariant DEF IInv, TypeOK
  <2>3. active_challenge \in InterlockChallenge /\ active_challenge # NONE
    BY <2>1 DEF IInv, TypeOK, ChallengeMirrorsState, InChallenge
  <2>4. /\ active_challenge' \in InterlockChallenge
        /\ active_challenge'.ui_consent_given
        /\ active_challenge'.challenge_token = active_challenge.challenge_token
        /\ active_challenge'.expires = active_challenge.expires
        /\ active_challenge'.combo_start = active_challenge.combo_start
    BY <2>1, <2>3 DEF InterlockChallenge
  <2>5. state' \in AwaitingPhysicalAckStates /\ state'.tag = "AwaitingPhysicalAck"
    BY <1>2, <2>2 DEF HighTorqueChallengeStates, AwaitingPhysicalAckStates
  <2>6. TypeOK'
    BY <2>1, <2>4, <2>5 DEF IInv, TypeOK, SafetyState
  <2>7. active_challenge.combo_start = NONE
    BY <2>1, <2>3 DEF IInv, ChallengeMirrorsState
  <2>8. ChallengeMirrorsState'
    BY <1>2, <2>1, <2>4, <2>5, <2>7, NoneIsNoValue
    DEF IInv, ChallengeMirrorsState, InChallenge
  <2>9. QED
    BY <1>2, <2>1, <2>5, <2>6, <2>8 DEF IInv, NoHighTorqueAfterFault,
       ActiveTokenRegistered, InstantsConsistent, HasFaulted
<1>3. QED
  BY <1>1, <1>2 DEF provide_ui_consent

\* One report of the Moza input stream.
LEMMA MozaStep ==
  ASSUME IInv, NEW d \in DeviceIds, NEW p \in BOOLEAN, NEW k \in DeviceTokens,
         process_moza_interlock_inputs(d, p, k)
  PROVE  IInv'
<1> USE DEF process_moza_interlock_inputs
<1>0. now \in Time /\ now \in Nat
  BY NoneIsNoValue DEF IInv, TypeOK
<1>1. CASE clear_moza_interlock_combo
  BY <1>0, <1>1, ComboStep DEF clear_moza_interlock_combo
<1>2. CASE ExpireChallenge
  BY <1>0, <1>2, ExpireStep DEF ExpireChallenge
<1>3. CASE state.tag = "AwaitingPhysicalAck" /\ SetComboStart(now, now) /\ UNCHANGED now
  BY <1>0, <1>3, ComboStep, NoneIsNoValue
<1>4. CASE /\ state.tag = "AwaitingPhysicalAck"
           /\ \E later \in LaterReads :
                confirm_high_torque(d, state.challenge_token, k, now, later)
  <2>1. state.challenge_token \in Tokens
    BY <1>4, TagDecidesVariant DEF IInv, TypeOK, AwaitingPhysicalAckStates
  <2>2. QED
    BY <1>0, <1>4, <2>1, ConfirmStep DEF LaterReads
<1>5. QED
  BY <1>1, <1>2, <1>3, <1>4

\* Every step of the service keeps the inductive invariant.
LEMMA StepPreserves == IInv /\ [Next]_vars => IInv'
<1> SUFFICES ASSUME IInv, [Next]_vars PROVE IInv'
    OBVIOUS
<1>0. now \in Time /\ now \in Nat
  BY NoneIsNoValue DEF IInv, TypeOK
<1>1. CASE Tick
  <2>1. now' \in Time /\ now <= now'
    BY <1>0, <1>1, DurationAssumption DEF Tick, Time
  <2>2. QED
    BY <1>1, <2>1, ClockAdvance DEF Tick
<1>2. CASE request_high_torque
  BY <1>2, RequestStep
<1>3. ASSUME NEW t \in Tokens, provide_ui_consent(t) PROVE IInv'
  BY <1>3, ConsentStep
<1>4. ASSUME NEW t \in Tokens, report_combo_start(t) PROVE IInv'
  <2>1. CASE ExpireChallenge
    BY <1>0, <2>1, ExpireStep DEF ExpireChallenge
  <2>2. CASE \E later \in LaterReads : SetComboStart(now, later) /\ now' = later
    <3>1. PICK later \in LaterReads : SetComboStart(now, later) /\ now' = later
      BY <2>2
    <3>2. later \in Time /\ now <= later
      BY <1>0, <3>1 DEF LaterReads
    <3>3. state.tag = "AwaitingPhysicalAck"
      BY <1>4 DEF report_combo_start
    <3>4. QED
      BY <1>0, <3>1, <3>2, <3>3, ComboStep, NoneIsNoValue
  <2>3. QED
    BY <1>4, <2>1, <2>2 DEF report_combo_start
<1>5. ASSUME NEW d \in DeviceIds, NEW t \in Tokens, NEW k \in DeviceTokens,
             NEW held \in 0..now, confirm_high_torque(d, t, k, held, now)
      PROVE  IInv'
  <2>1. held \in Time
    BY <1>0, DurationAssumption DEF Time
  <2>2. QED
    BY <1>0, <1>5, <2>1, ConfirmStep
<1>6. ASSUME NEW d \in DeviceIds, NEW p \in BOOLEAN, NEW k \in DeviceTokens,
             process_moza_interlock_inputs(d, p, k)
      PROVE  IInv'
  BY <1>6, MozaStep
<1>7. CASE process_moza_interlock_inputs_stale
  BY <1>0, <1>7, ComboStep
  DEF process_moza_interlock_inputs_stale, clear_moza_interlock_combo
<1>8. ASSUME NEW f \in FaultTypes, report_fault(f) PROVE IInv'
  BY <1>8, FaultStep
<1>9. CASE clear_fault
  <2>1. state'.tag = "SafeTorque" /\ state' \in SafetyState
    BY <1>9 DEF clear_fault, SafeTorque, SafetyState
  <2>2. QED
    BY <1>9, <2>1 DEF clear_fault, IInv, TypeOK, ChallengeMirrorsState, InChallenge,
       HasFaulted, NoHighTorqueAfterFault, ActiveTokenRegistered, InstantsConsistent
<1>10. ASSUME NEW h \in BOOLEAN, update_hands_on_status(h) PROVE IInv'
  <2>1. CASE report_fault(HandsOffFault)
    BY <2>1, FaultStep, FaultAssumption
  <2>2. CASE /\ state' = [state EXCEPT !.last_hands_on = now]
             /\ UNCHANGED <<now, active_challenge, fault_count, device_tokens, lastFault>>
    <3>1. state.tag = "HighTorqueActive" /\ state \in HighTorqueActiveStates
      BY <1>10, TagDecidesVariant DEF update_hands_on_status, IInv, TypeOK
    <3>2. /\ state' \in HighTorqueActiveStates
          /\ state'.tag = "HighTorqueActive"
          /\ state'.device_token = state.device_token
      BY <1>0, <2>2, <3>1 DEF HighTorqueActiveStates
    <3>3. QED
      BY <2>2, <3>1, <3>2 DEF IInv, TypeOK, SafetyState, ChallengeMirrorsState,
         InChallenge, HasFaulted, NoHighTorqueAfterFault, ActiveTokenRegistered,
         InstantsConsistent
  <2>3. QED
    BY <1>10, <2>1, <2>2 DEF update_hands_on_status
<1>11. ASSUME NEW dur \in Time, check_hands_off_timeout(dur) PROVE IInv'
  BY <1>11, FaultStep, FaultAssumption DEF check_hands_off_timeout
<1>12. CASE cancel_challenge
  BY <1>0, <1>12, ExpireStep DEF cancel_challenge, ExpireChallenge
<1>13. ASSUME NEW d \in DeviceIds, disable_high_torque(d) PROVE IInv'
  <2>1. state'.tag = "SafeTorque" /\ state' \in SafetyState
    BY <1>13 DEF disable_high_torque, SafeTorque, SafetyState
  <2>2. state.tag = "HighTorqueActive"
    BY <1>13 DEF disable_high_torque
  <2>3. QED
    BY <1>13, <2>1, <2>2 DEF disable_high_torque, IInv, TypeOK, ChallengeMirrorsState,
       InChallenge, HasFaulted, NoHighTorqueAfterFault, ActiveTokenRegistered,
       InstantsConsistent
<1>14. CASE check_challenge_expiry
  BY <1>0, <1>14, ExpireStep DEF check_challenge_expiry, ExpireChallenge
<1>15. CASE UNCHANGED vars
  BY <1>0, <1>15, ClockAdvance DEF vars
<1>16. QED
  BY <1>1, <1>2, <1>3, <1>4, <1>5, <1>6, <1>7, <1>8, <1>9, <1>10, <1>11, <1>12,
     <1>13, <1>14, <1>15 DEF Next

\* The inductive invariant holds in every reachable state of the service.
THEOREM InductiveInvariant == Spec => []IInv
BY InitEstablishes, StepPreserves, PTL DEF Spec

\* Every reachable state is well typed: in particular the fault counters
\* saturate instead of wrapping round to zero, which would lift the bar on
\* high torque.
THEOREM TypeCorrect == Spec => []TypeOK
<1>1. IInv => TypeOK
  BY DEF IInv
<1>2. QED
  BY InductiveInvariant, <1>1, PTL

\* The UI's copy of the challenge agrees with the state machine's.
THEOREM ChallengeCopiesAgree == Spec => []ChallengeMirrorsState
<1>1. IInv => ChallengeMirrorsState
  BY DEF IInv
<1>2. QED
  BY InductiveInvariant, <1>1, PTL

\* One fault rules out high torque for the life of the service, whatever
\* sequence of calls follows.
THEOREM FaultBarsHighTorque == Spec => []NoHighTorqueAfterFault
<1>1. IInv => NoHighTorqueAfterFault
  BY DEF IInv
<1>2. QED
  BY InductiveInvariant, <1>1, PTL

\* High torque is only ever active with its device's token in the map.
THEOREM ActiveDeviceRegistered == Spec => []ActiveTokenRegistered
<1>1. IInv => ActiveTokenRegistered
  BY DEF IInv
<1>2. QED
  BY InductiveInvariant, <1>1, PTL

\* No call other than a completed acknowledgement enters HighTorqueActive.
LEMMA RaiseStep ==
  ASSUME IInv, Next, state'.tag = "HighTorqueActive", state.tag # "HighTorqueActive"
  PROVE  /\ state.tag = "AwaitingPhysicalAck"
         /\ active_challenge.ui_consent_given
         /\ active_challenge.challenge_token = state.challenge_token
         /\ now' <= active_challenge.expires
         /\ state.combo_start + ComboHold <= now'
<1>0. now \in Nat /\ state \in SafetyState
  BY NoneIsNoValue DEF IInv, TypeOK
<1>1. state'.tag # "SafeTorque" /\ state'.tag # "Faulted"
  OBVIOUS
<1>2. ASSUME NEW a, NEW b, SetComboStart(a, b), state.tag = "AwaitingPhysicalAck"
      PROVE  FALSE
  BY <1>2, TagDecidesVariant, <1>0 DEF SetComboStart, AwaitingPhysicalAckStates
<1>3. PICK d \in DeviceIds, t \in Tokens, k \in DeviceTokens,
             held \in 0..now, at \in LaterReads \cup {now} :
        confirm_high_torque(d, t, k, held, at)
  <2>1. CASE Tick
    BY <2>1 DEF Tick
  <2>2. CASE request_high_torque
    BY <2>2 DEF request_high_torque
  <2>3. ASSUME NEW t \in Tokens, provide_ui_consent(t) PROVE FALSE
    BY <2>3 DEF provide_ui_consent, ExpireChallenge, SafeTorque
  <2>4. ASSUME NEW t \in Tokens, report_combo_start(t) PROVE FALSE
    BY <2>4, <1>2 DEF report_combo_start, ExpireChallenge, SafeTorque
  <2>5. CASE \E d \in DeviceIds, t \in Tokens, k \in DeviceTokens, held \in 0..now :
               confirm_high_torque(d, t, k, held, now)
    BY <2>5
  <2>6. ASSUME NEW d \in DeviceIds, NEW p \in BOOLEAN, NEW k \in DeviceTokens,
               process_moza_interlock_inputs(d, p, k)
        PROVE  /\ state.challenge_token \in Tokens
               /\ \E later \in LaterReads :
                    confirm_high_torque(d, state.challenge_token, k, now, later)
    <3>1. \E later \in LaterReads :
            confirm_high_torque(d, state.challenge_token, k, now, later)
      BY <2>6, <1>2 DEF process_moza_interlock_inputs, clear_moza_interlock_combo,
         ExpireChallenge, SafeTorque
    <3>2. state.challenge_token \in Tokens
      BY <3>1, <1>0, TagDecidesVariant DEF confirm_high_torque, AwaitingPhysicalAckStates
    <3>3. QED
      BY <3>1, <3>2
  <2>7. CASE process_moza_interlock_inputs_stale
    BY <2>7, <1>2 DEF process_moza_interlock_inputs_stale, clear_moza_interlock_combo
  <2>8. ASSUME NEW f \in FaultTypes, report_fault(f) PROVE FALSE
    BY <2>8 DEF report_fault, FaultedNow
  <2>9. CASE clear_fault
    BY <2>9 DEF clear_fault, SafeTorque
  <2>10. ASSUME NEW h \in BOOLEAN, update_hands_on_status(h) PROVE FALSE
    BY <2>10 DEF update_hands_on_status
  <2>11. ASSUME NEW dur \in Time, check_hands_off_timeout(dur) PROVE FALSE
    BY <2>11 DEF check_hands_off_timeout
  <2>12. CASE cancel_challenge
    BY <2>12 DEF cancel_challenge, ExpireChallenge, SafeTorque
  <2>13. ASSUME NEW d \in DeviceIds, disable_high_torque(d) PROVE FALSE
    BY <2>13 DEF disable_high_torque
  <2>14. CASE check_challenge_expiry
    BY <2>14 DEF check_challenge_expiry, ExpireChallenge, SafeTorque
  <2>15. now \in 0..now
    BY <1>0
  <2>16. QED
    BY <2>1, <2>2, <2>3, <2>4, <2>5, <2>6, <2>7, <2>8, <2>9, <2>10, <2>11, <2>12,
       <2>13, <2>14, <2>15 DEF Next
<1>4. /\ state.tag = "AwaitingPhysicalAck"
      /\ at <= state.expires
      /\ state.combo_start # NONE
      /\ DurationSince(held, state.combo_start) >= ComboHold
      /\ now' = at
  BY <1>3 DEF confirm_high_torque, SafeTorque
<1>5. state.combo_start \in Nat /\ state.combo_start <= now
  BY <1>4, <1>0, TagDecidesVariant, NoneIsNoValue
  DEF AwaitingPhysicalAckStates, IInv, InstantsConsistent
<1>6. at \in Nat /\ now <= at
  BY <1>0 DEF LaterReads
<1>7. state.combo_start + ComboHold <= now'
  BY <1>0, <1>4, <1>5, <1>6, DurationAssumption DEF DurationSince
<1>8. QED
  BY <1>4, <1>7 DEF IInv, ChallengeMirrorsState, InChallenge

\* The torque limit is raised only by the complete interlock: consent to this
\* challenge, a combo held for ComboHold, before the deadline.
THEOREM InterlockRequired == Spec => RaiseNeedsInterlock
<1>1. IInv /\ [Next]_vars =>
        [(state'.tag = "HighTorqueActive" /\ state.tag # "HighTorqueActive")
           => /\ state.tag = "AwaitingPhysicalAck"
              /\ active_challenge.ui_consent_given
              /\ active_challenge.challenge_token = state.challenge_token
              /\ now' <= active_challenge.expires
              /\ state.combo_start + ComboHold <= now']_vars
  BY RaiseStep
<1>2. QED
  BY InductiveInvariant, <1>1, PTL DEF Spec, RaiseNeedsInterlock

\* A fault lasts at least MinFaultTime after its last report.
THEOREM FaultMinimumHold == Spec => FaultHoldsMinimumTime
<1>1. ASSUME IInv, Next, state.tag = "Faulted", state'.tag # "Faulted"
      PROVE  now >= lastFault + MinFaultTime
  <2>0. now \in Nat /\ state.since \in Nat /\ state.since = lastFault /\ lastFault <= now
    BY <1>1, TagDecidesVariant, NoneIsNoValue
    DEF IInv, TypeOK, FaultedStates, InstantsConsistent
  <2>1. clear_fault
    BY <1>1 DEF Next, Tick, request_high_torque, provide_ui_consent,
       report_combo_start, confirm_high_torque, process_moza_interlock_inputs,
       clear_moza_interlock_combo, process_moza_interlock_inputs_stale,
       report_fault, FaultedNow, update_hands_on_status, check_hands_off_timeout,
       cancel_challenge, InChallenge, disable_high_torque, check_challenge_expiry
  <2>2. QED
    BY <2>0, <2>1, DurationAssumption DEF clear_fault, DurationSince
<1>2. IInv /\ [Next]_vars =>
        [(state.tag = "Faulted" /\ state'.tag # "Faulted")
           => now >= lastFault + MinFaultTime]_vars
  BY <1>1
<1>3. QED
  BY InductiveInvariant, <1>2, PTL DEF Spec, FaultHoldsMinimumTime


-----------------------------------------------------------------------------
(* How the RT thread of the engine uses the service.  It never calls       *)
(* request_high_torque, provide_ui_consent, confirm_high_torque or         *)
(* clear_fault (engine.rs: rt_thread_main, process_commands and            *)
(* process_moza_interlock_inputs make the calls below).                    *)

EngineCalls ==
  \/ Tick
  \/ \E f \in FaultTypes : report_fault(f)
  \/ \E hands_on \in BOOLEAN : update_hands_on_status(hands_on)
  \/ \E d \in DeviceIds, pressed \in BOOLEAN, dt \in DeviceTokens :
       process_moza_interlock_inputs(d, pressed, dt)
  \/ process_moza_interlock_inputs_stale
  \/ check_challenge_expiry

EngineUse == Init /\ [][EngineCalls]_vars

\* Used this way the service stays in SafeTorque until the first fault and in
\* Faulted from then on: the two-state safety service of module Engine.
THEOREM EngineUseOnlyLatches ==
  EngineUse => /\ [](state.tag \in {"SafeTorque", "Faulted"})
               /\ [][state.tag = "Faulted" => state'.tag = "Faulted"]_vars
<1> DEFINE Two == state.tag \in {"SafeTorque", "Faulted"}
<1>1. Init => Two
  BY DEF Init, SafeTorque
<1>2. Two /\ [EngineCalls]_vars =>
        Two' /\ [state.tag = "Faulted" => state'.tag = "Faulted"]_vars
  BY DEF EngineCalls, Tick, report_fault, FaultedNow, update_hands_on_status,
         process_moza_interlock_inputs, process_moza_interlock_inputs_stale,
         clear_moza_interlock_combo, check_challenge_expiry, InChallenge, vars
<1> QED
  BY <1>1, <1>2, PTL DEF EngineUse
=============================================================================
