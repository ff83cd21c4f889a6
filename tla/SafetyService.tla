---------------------------- MODULE SafetyService ----------------------------
(***************************************************************************)
(* The torque-management state machine of the engine                       *)
(* (crates/engine/src/safety.rs, struct SafetyService).                    *)
(*                                                                         *)
(* A wheel starts in SafeTorque.  High torque is unlocked by a challenge:  *)
(* a request creates a random token, the user consents in the UI, then the *)
(* physical button combination has to be held long enough before the       *)
(* challenge expires.  Any fault forces the Faulted state (zero torque).   *)
(*                                                                         *)
(* Every public method that changes state is one action here.  `now' is    *)
(* the monotonic clock behind Instant::now(); a method that reads the      *)
(* clock twice may see two different values (LaterReads).                  *)
(***************************************************************************)
EXTENDS Integers

CONSTANTS
  Tokens,            \* values rand::random::<u32>() may return
  DeviceIds,         \* keys of the device_tokens map
  DeviceTokens,      \* identity tokens a device may present
  FaultTypes,        \* the variants of FaultType
  HandsOffFault,     \* FaultType::HandsOffTimeout
  NONE,              \* Option::None
  ChallengeTimeout,  \* 30 s, hard-coded in request_high_torque
  ComboHold,         \* combo_hold_duration
  HandsOffTimeout,   \* hands_off_timeout
  MinFaultTime,      \* 100 ms, hard-coded in clear_fault
  MaxSafeTorque,     \* max_safe_torque_nm
  MaxHighTorque,     \* max_high_torque_nm
  MaxCount,          \* u32::MAX of the saturating fault counters
  MaxTime            \* bound of the model on the clock

ASSUME DurationAssumption ==
  /\ ChallengeTimeout \in Nat
  /\ ComboHold \in Nat
  /\ HandsOffTimeout \in Nat
  /\ MinFaultTime \in Nat
  /\ MaxTime \in Nat

ASSUME FaultAssumption ==
  /\ HandsOffFault \in FaultTypes
  /\ MaxCount \in Nat \ {0}

ASSUME NoneAssumption ==
  /\ NONE \notin Nat
  /\ NONE \notin DeviceTokens
  /\ NONE \notin [challenge_token : Tokens, expires : Nat,
                  ui_consent_given : BOOLEAN, combo_start : Nat \cup {NONE}]

ASSUME LimitAssumption ==
  /\ MaxSafeTorque \in Nat
  /\ MaxHighTorque \in Nat
  /\ MaxSafeTorque <= MaxHighTorque

VARIABLES
  now,               \* what Instant::now() returns
  state,             \* SafetyState
  active_challenge,  \* Option<InterlockChallenge>
  fault_count,       \* HashMap<FaultType, u32>, every key present
  device_tokens,     \* HashMap<String, u32>: NONE where the key is absent
  lastFault          \* history: when report_fault last ran

vars == <<now, state, active_challenge, fault_count, device_tokens, lastFault>>

Time == 0..MaxTime

-----------------------------------------------------------------------------
(* SafetyState: one set of records per variant, told apart by `tag'.       *)

SafeTorque == [tag |-> "SafeTorque"]

HighTorqueChallengeStates ==
  [tag : {"HighTorqueChallenge"}, challenge_token : Tokens, expires : Nat,
   ui_consent_given : BOOLEAN]

AwaitingPhysicalAckStates ==
  [tag : {"AwaitingPhysicalAck"}, challenge_token : Tokens, expires : Nat,
   combo_start : Time \cup {NONE}]

HighTorqueActiveStates ==
  [tag : {"HighTorqueActive"}, since : Time, device_token : DeviceTokens,
   last_hands_on : Time]

FaultedStates == [tag : {"Faulted"}, fault : FaultTypes, since : Time]

SafetyState ==
  {SafeTorque} \cup HighTorqueChallengeStates \cup AwaitingPhysicalAckStates
    \cup HighTorqueActiveStates \cup FaultedStates

InterlockChallenge ==
  [challenge_token : Tokens, expires : Nat, ui_consent_given : BOOLEAN,
   combo_start : Time \cup {NONE}]

TypeOK ==
  /\ now \in Time
  /\ state \in SafetyState
  /\ active_challenge \in InterlockChallenge \cup {NONE}
  /\ fault_count \in [FaultTypes -> 0..MaxCount]
  /\ device_tokens \in [DeviceIds -> DeviceTokens \cup {NONE}]
  /\ lastFault \in Time \cup {NONE}

-----------------------------------------------------------------------------
(* Queries.                                                                *)

InChallenge == state.tag \in {"HighTorqueChallenge", "AwaitingPhysicalAck"}

\* The torque limit of a safety state.
max_torque_nm(s) ==
  CASE s.tag = "Faulted"          -> 0
    [] s.tag = "HighTorqueActive" -> MaxHighTorque
    [] OTHER                      -> MaxSafeTorque

\* Non-finite requests (NONE) count as zero; the rest is clamped to the
\* limit on both sides.
clamp_torque_nm(s, requested) ==
  LET r == IF requested = NONE THEN 0 ELSE requested
      m == max_torque_nm(s)
  IN  IF r > m THEN m ELSE IF r < -m THEN -m ELSE r

\* Mutant: the absolute difference, which an out-of-order timestamp defeats.
AbsDifference(later, earlier) ==
  IF later > earlier THEN later - earlier ELSE earlier - later

\* Instant::duration_since saturates at zero.
DurationSince(later, earlier) == IF later > earlier THEN later - earlier ELSE 0

\* A second Instant::now() in the same method returns the first value or a
\* later one.
LaterReads == {now, now + 1} \cap Time

\* Mutant: looks at the current state, not at the fault history.
NotFaultedNow == state.tag # "Faulted"

check_high_torque_preconditions == \A f \in FaultTypes : fault_count[f] = 0

-----------------------------------------------------------------------------

Init ==
  /\ now = 0
  /\ state = SafeTorque
  /\ active_challenge = NONE
  /\ fault_count = [f \in FaultTypes |-> 0]
  /\ device_tokens = [d \in DeviceIds |-> NONE]
  /\ lastFault = NONE

Tick ==
  /\ now < MaxTime
  /\ now' = now + 1
  /\ UNCHANGED <<state, active_challenge, fault_count, device_tokens, lastFault>>

request_high_torque ==
  /\ check_high_torque_preconditions
  /\ state.tag = "SafeTorque"
  /\ \E token \in Tokens :
       /\ state' = [tag |-> "HighTorqueChallenge", challenge_token |-> token,
                    expires |-> now + ChallengeTimeout,
                    ui_consent_given |-> FALSE]
       /\ active_challenge' = [challenge_token |-> token,
                               expires |-> now + ChallengeTimeout,
                               ui_consent_given |-> FALSE,
                               combo_start |-> NONE]
  /\ UNCHANGED <<now, fault_count, device_tokens, lastFault>>

\* Mutant: forgets the copy of the challenge that the UI reads.
ExpireOnlyState ==
  /\ state' = SafeTorque
  /\ UNCHANGED <<now, active_challenge, fault_count, device_tokens, lastFault>>

\* What every handler does when it meets an expired challenge.
ExpireChallenge ==
  /\ state' = SafeTorque
  /\ active_challenge' = NONE
  /\ UNCHANGED <<now, fault_count, device_tokens, lastFault>>

provide_ui_consent(token) ==
  /\ state.tag = "HighTorqueChallenge"
  /\ state.challenge_token = token
  /\ \/ /\ now > state.expires
        /\ ExpireChallenge
     \/ /\ now <= state.expires
        /\ active_challenge' =
             IF active_challenge = NONE THEN NONE
             ELSE [active_challenge EXCEPT !.ui_consent_given = TRUE]
        /\ state' = [tag |-> "AwaitingPhysicalAck",
                     challenge_token |-> state.challenge_token,
                     expires |-> state.expires, combo_start |-> NONE]
        /\ UNCHANGED <<now, fault_count, device_tokens, lastFault>>

\* Stores a new combo_start in the state, and in the active challenge if
\* there is one.
SetComboStart(start, challengeStart) ==
  /\ state' = [state EXCEPT !.combo_start = start]
  /\ active_challenge' =
       IF active_challenge = NONE THEN NONE
       ELSE [active_challenge EXCEPT !.combo_start = challengeStart]
  /\ UNCHANGED <<fault_count, device_tokens, lastFault>>

\* The clock is read once for the state and once more for the challenge.
report_combo_start(token) ==
  /\ state.tag = "AwaitingPhysicalAck"
  /\ state.challenge_token = token
  /\ \/ /\ now > state.expires
        /\ ExpireChallenge
     \/ /\ now <= state.expires
        /\ \E later \in LaterReads :
             /\ SetComboStart(now, later)
             /\ now' = later

\* Mutant: entry().or_insert(), which keeps the token of an earlier session.
InsertIfAbsent(d, devToken) ==
  IF device_tokens[d] = NONE THEN [device_tokens EXCEPT ![d] = devToken]
  ELSE device_tokens

\* device_tokens.insert(device_id, device_token).
InsertToken(d, devToken) == [device_tokens EXCEPT ![d] = devToken]

\* at: the Instant::now() of the expiry test; held: ack.timestamp.
\* HighTorqueActive records a clock read made after the expiry test.
confirm_high_torque(d, ackToken, devToken, held, at) ==
  /\ state.tag = "AwaitingPhysicalAck"
  /\ state.challenge_token = ackToken
  /\ \/ /\ at > state.expires
        /\ state' = SafeTorque
        /\ active_challenge' = NONE
        /\ now' = at
        /\ UNCHANGED <<fault_count, device_tokens, lastFault>>
     \/ /\ at <= state.expires
        /\ state.combo_start # NONE
        /\ DurationSince(held, state.combo_start) >= ComboHold
        /\ device_tokens' = InsertToken(d, devToken)
        /\ state' = [tag |-> "HighTorqueActive", since |-> at,
                     device_token |-> devToken, last_hands_on |-> at]
        /\ active_challenge' = NONE
        /\ now' = at
        /\ UNCHANGED <<fault_count, lastFault>>

clear_moza_interlock_combo ==
  /\ state.tag = "AwaitingPhysicalAck"
  /\ state.combo_start # NONE
  /\ SetComboStart(NONE, NONE)
  /\ UNCHANGED now

\* One decoded input report of device d.  The expiry and the hold test use
\* one clock read, confirm_high_torque makes another.
process_moza_interlock_inputs(d, bothClutchesPressed, devToken) ==
  \/ /\ ~bothClutchesPressed
     /\ clear_moza_interlock_combo
  \/ /\ bothClutchesPressed
     /\ state.tag = "AwaitingPhysicalAck"
     /\ \/ /\ now > state.expires
           /\ ExpireChallenge
        \/ /\ now <= state.expires
           /\ state.combo_start = NONE
           /\ SetComboStart(now, now)
           /\ UNCHANGED now
        \/ /\ now <= state.expires
           /\ state.combo_start # NONE
           /\ DurationSince(now, state.combo_start) >= ComboHold
           /\ \E later \in LaterReads :
                confirm_high_torque(d, state.challenge_token, devToken, now, later)

\* Reports stopped arriving: the hold timer is cleared.
process_moza_interlock_inputs_stale == clear_moza_interlock_combo

\* Mutant: plain addition.
PlainAdd(count) == count + 1

\* u32::saturating_add(1).
SaturatingAdd(count) == IF count < MaxCount THEN count + 1 ELSE MaxCount

\* Mutant: a second fault keeps the time of the first one.
FaultedKeepSince(f) ==
  [tag |-> "Faulted", fault |-> f,
   since |-> IF state.tag = "Faulted" THEN state.since ELSE now]

FaultedNow(f) == [tag |-> "Faulted", fault |-> f, since |-> now]

\* Saturating count; the active challenge, if any, stays where it is.
report_fault(f) ==
  /\ fault_count' = [fault_count EXCEPT ![f] = SaturatingAdd(@)]
  /\ state' = FaultedNow(f)
  /\ lastFault' = now
  /\ UNCHANGED <<now, active_challenge, device_tokens>>

clear_fault ==
  /\ state.tag = "Faulted"
  /\ DurationSince(now, state.since) >= MinFaultTime
  /\ state' = SafeTorque
  /\ UNCHANGED <<now, active_challenge, fault_count, device_tokens, lastFault>>

update_hands_on_status(hands_on) ==
  /\ state.tag = "HighTorqueActive"
  /\ \/ /\ hands_on
        /\ state' = [state EXCEPT !.last_hands_on = now]
        /\ UNCHANGED <<now, active_challenge, fault_count, device_tokens, lastFault>>
     \/ /\ ~hands_on
        /\ DurationSince(now, state.last_hands_on) > HandsOffTimeout
        /\ report_fault(HandsOffFault)

\* The caller passes the duration it measured.
check_hands_off_timeout(hands_off_duration) ==
  /\ hands_off_duration > HandsOffTimeout
  /\ state.tag = "HighTorqueActive"
  /\ report_fault(HandsOffFault)

cancel_challenge ==
  /\ InChallenge
  /\ ExpireChallenge

disable_high_torque(d) ==
  /\ state.tag = "HighTorqueActive"
  /\ state' = SafeTorque
  /\ device_tokens' = [device_tokens EXCEPT ![d] = NONE]
  /\ UNCHANGED <<now, active_challenge, fault_count, lastFault>>

check_challenge_expiry ==
  /\ InChallenge
  /\ now > state.expires
  /\ ExpireChallenge

Next ==
  \/ Tick
  \/ request_high_torque
  \/ \E token \in Tokens : provide_ui_consent(token)
  \/ \E token \in Tokens : report_combo_start(token)
  \/ \E d \in DeviceIds, t \in Tokens, dt \in DeviceTokens, held \in 0..now :
       confirm_high_torque(d, t, dt, held, now)
  \/ \E d \in DeviceIds, pressed \in BOOLEAN, dt \in DeviceTokens :
       process_moza_interlock_inputs(d, pressed, dt)
  \/ process_moza_interlock_inputs_stale
  \/ \E f \in FaultTypes : report_fault(f)
  \/ clear_fault
  \/ \E hands_on \in BOOLEAN : update_hands_on_status(hands_on)
  \/ \E dur \in Time : check_hands_off_timeout(dur)
  \/ cancel_challenge
  \/ \E d \in DeviceIds : disable_high_torque(d)
  \/ check_challenge_expiry

Spec == Init /\ [][Next]_vars

-----------------------------------------------------------------------------
(* Safety.                                                                 *)

HasFaulted == \E f \in FaultTypes : fault_count[f] > 0

\* The two copies of the challenge agree.  While a challenge is in progress
\* active_challenge (what the UI is shown) is the challenge of the state
\* machine: same token, same deadline, same consent, and a combo timer that
\* runs exactly when the other does.  Only a challenge that a fault
\* interrupted can be left behind, and none is ever left in HighTorqueActive.
ChallengeMirrorsState ==
  /\ InChallenge =>
       /\ active_challenge # NONE
       /\ active_challenge.challenge_token = state.challenge_token
       /\ active_challenge.expires = state.expires
       /\ active_challenge.ui_consent_given <=> state.tag = "AwaitingPhysicalAck"
  /\ state.tag = "AwaitingPhysicalAck" =>
       /\ active_challenge.combo_start = NONE <=> state.combo_start = NONE
       /\ state.combo_start # NONE =>
            state.combo_start <= active_challenge.combo_start
  /\ state.tag = "HighTorqueChallenge" =>
       /\ ~state.ui_consent_given
       /\ active_challenge.combo_start = NONE
  /\ (~InChallenge /\ active_challenge # NONE) => HasFaulted

\* The counters that check_high_torque_preconditions reads are never reset,
\* so one fault rules out every later challenge: after it the service only
\* alternates between SafeTorque and Faulted, whatever is called.
NoHighTorqueAfterFault == HasFaulted => state.tag \in {"SafeTorque", "Faulted"}

\* High torque is active only on behalf of a registered device: its token is
\* in the device_tokens map, and every later call leaves it there until high
\* torque ends.
ActiveTokenRegistered ==
  state.tag = "HighTorqueActive" =>
    \E d \in DeviceIds : device_tokens[d] = state.device_token

\* The recorded instants never lie ahead of the clock, and a Faulted state
\* carries the time of the last report.  (With the invariants above this is
\* the inductive invariant the proofs use.)
InstantsConsistent ==
  /\ (state.tag = "AwaitingPhysicalAck" /\ state.combo_start # NONE)
       => state.combo_start <= now
  /\ state.tag = "Faulted" => state.since = lastFault /\ lastFault <= now

\* The limit is raised above the safe torque only by completing the
\* interlock: the UI consented to this very challenge, it has not expired,
\* and the combination has been held for ComboHold - by any route, the
\* explicit acknowledgement or the Moza input reports.
RaiseNeedsInterlock ==
  [][ (state'.tag = "HighTorqueActive" /\ state.tag # "HighTorqueActive")
        => /\ state.tag = "AwaitingPhysicalAck"
           /\ active_challenge.ui_consent_given
           /\ active_challenge.challenge_token = state.challenge_token
           /\ now' <= active_challenge.expires
           /\ state.combo_start + ComboHold <= now' ]_vars

\* A fault holds the output at zero for MinFaultTime after the LAST report,
\* however many reports came in and whichever methods are called meanwhile.
FaultHoldsMinimumTime ==
  [][ (state.tag = "Faulted" /\ state'.tag # "Faulted")
        => now >= lastFault + MinFaultTime ]_vars

=============================================================================
