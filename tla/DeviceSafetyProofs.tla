------------------------ MODULE DeviceSafetyProofs ------------------------
(***************************************************************************)
(* Proofs about DeviceSafety for any devices, clients, tokens and timeouts.*)
(***************************************************************************)
EXTENDS DeviceSafety, TLAPS

\* A context that can occur: besides its types, its limit fits its state, and the
\* hands have been seen before a challenge can be under way.
SoundContext ==
  {x \in Context :
     /\ x.interlock_state.name # "HighTorqueActive" => AtMostSafe(x.current_torque_limit)
     /\ x.interlock_state.name = "Faulted" => x.current_torque_limit = Zero
     /\ x.interlock_state.name \in {"Challenge", "HighTorqueActive"}
          => x.last_hands_on_time # NONE}

\* An answer with the token of the challenge it is an answer to, in time.
RightAnswer(a) ==
  \E token \in Tokens, age \in 0..(challenge_timeout - 1) :
    a = [token |-> token, to |-> [token |-> token, age |-> age]]

\* What the histories i and a of a device say of its state: a challenge under way is
\* the one issued since the last cut-off, and the time it has left agrees with its age;
\* high torque came by a right answer.
Backed(state, i, a) ==
  /\ state.name = "Challenge" =>
       /\ i \in Challenges /\ i.token = state.token
       /\ state.expires > 0 => i.age + state.expires = challenge_timeout
  /\ state.name = "HighTorqueActive" => RightAnswer(a)

AllBacked ==
  \A d \in Devices :
    Known(d) => Backed(contexts[d].interlock_state, issued[d], answered[d])

\* The inductive invariant: whatever a device goes through, its context is sound, and
\* its unlock, begun or complete, goes back to a challenge after its last cut-off.
Inv ==
  /\ contexts \in [Devices -> SoundContext \cup {NONE}]
  /\ held \in [Clients -> [Devices -> Tokens \cup {NONE}]]
  /\ issued \in [Devices -> Challenges \cup {NONE}]
  /\ answered \in [Devices -> Answers \cup {NONE}]
  /\ AllBacked

-----------------------------------------------------------------------------
(* What the operations do to one context                                   *)

\* 30 %, zero and the full torque are limits; half of a limit is one, no more than
\* 30 % if the limit was, and zero if it was (TorqueNm, report_fault).
LEMMA Limits ==
  /\ Zero \in Limit /\ SafeShare \in Limit /\ Full \in Limit
  /\ AtMostSafe(Zero) /\ AtMostSafe(SafeShare)
  /\ \A l \in Limit :
       /\ Halved(l) \in Limit
       /\ AtMostSafe(l) => AtMostSafe(Halved(l))
       /\ l = Zero => Halved(l) = Zero
<1>1. /\ Zero \in Limit /\ SafeShare \in Limit /\ Full \in Limit
      /\ AtMostSafe(Zero) /\ AtMostSafe(SafeShare)
  BY DeviceSafetyAssumption DEF Zero, SafeShare, Full, Limit, AtMostSafe
<1>2. ASSUME NEW l \in Limit, l # Zero
      PROVE  /\ Halved(l) \in Limit
             /\ AtMostSafe(l) => AtMostSafe(Halved(l))
  <2>1. Halved(l) = [l EXCEPT !.halvings = Least(l.halvings + 1, MaxHalvings)]
    BY <1>2 DEF Halved
  <2>2. l.halvings \in 0..MaxHalvings /\ l.share \in {0, 30, 100}
    BY DEF Limit
  <2>3. Least(l.halvings + 1, MaxHalvings) \in 0..MaxHalvings
    BY <2>2, DeviceSafetyAssumption DEF Least
  <2>4. l.halvings >= 2 => Least(l.halvings + 1, MaxHalvings) >= 2
    BY <2>2, DeviceSafetyAssumption DEF Least
  <2> QED
    BY <2>1, <2>2, <2>3, <2>4 DEF Limit, AtMostSafe
<1> QED
  BY <1>1, <1>2 DEF Halved

\* A fresh registration is sound (register_device).
LEMMA RegisteredSound == Registered \in SoundContext /\ Registered.interlock_state = Safe
  BY Limits, DeviceSafetyAssumption
     DEF Registered, SoundContext, Context, InterlockState, Safe

\* Going back to safe torque is sound (clear_fault, start_safety_monitoring and a
\* failed answer).
LEMMA BackToSafeSound ==
  ASSUME NEW x \in SoundContext
  PROVE  BackToSafe(x) \in SoundContext /\ BackToSafe(x).interlock_state = Safe
  BY Limits DEF BackToSafe, SoundContext, Context, InterlockState, Safe

\* Counting a fault keeps a context sound and its state (report_fault).
LEMMA CountedSound ==
  ASSUME NEW x \in SoundContext
  PROVE  /\ Counted(x) \in SoundContext
         /\ Counted(x).interlock_state = x.interlock_state
         /\ Counted(x).current_torque_limit = x.current_torque_limit
<1>1. Least(x.fault_count + 1, ManyFaults + 1) \in 0..ManyFaults + 1
  BY DeviceSafetyAssumption DEF SoundContext, Context, Least
<1> DEFINE n == Least(x.fault_count + 1, ManyFaults + 1)
<1>2. Counted(x) = [x EXCEPT !.fault_count = n, !.last_fault_time = 0]
  BY DEF Counted
<1>3. 0 \in (0..fault_window) \cup {NONE}
  BY DeviceSafetyAssumption
<1> HIDE DEF n
<1>4. Counted(x) \in Context
  BY <1>1, <1>2, <1>3 DEF n, SoundContext, Context
<1> QED
  BY <1>2, <1>4 DEF SoundContext, Context

\* A cut-off is sound from every state (emergency_stop, Fatal faults).
LEMMA CutSound ==
  ASSUME NEW x \in SoundContext, NEW f \in FaultTypes
  PROVE  [x EXCEPT !.current_torque_limit = Zero,
                   !.interlock_state = [name |-> "Faulted", fault_type |-> f]]
           \in SoundContext
  BY Limits DEF SoundContext, Context, InterlockState

\* Halving the limit is sound in every state (Critical faults).
LEMMA HalvedSound ==
  ASSUME NEW x \in SoundContext
  PROVE  [x EXCEPT !.current_torque_limit = Halved(x.current_torque_limit)] \in SoundContext
<1>1. x.current_torque_limit \in Limit
  BY DEF SoundContext, Context
<1> QED
  BY <1>1, Limits DEF SoundContext, Context

\* A report of the hands keeps a context sound (update_hands_on_detection).
LEMMA HandsSound ==
  ASSUME NEW x \in SoundContext, NEW b \in BOOLEAN
  PROVE  LET y == [x EXCEPT !.hands_on_detected = b,
                            !.last_hands_on_time = IF b THEN 0 ELSE x.last_hands_on_time]
         IN y \in SoundContext /\ y.interlock_state = x.interlock_state
<1> DEFINE t == IF b THEN 0 ELSE x.last_hands_on_time
<1>1. /\ t \in (0..hands_off_timeout + 1) \cup {NONE}
      /\ x.last_hands_on_time # NONE => t # NONE
  BY DeviceSafetyAssumption DEF SoundContext, Context
<1> HIDE DEF t
<1>2. [x EXCEPT !.hands_on_detected = b, !.last_hands_on_time = t] \in SoundContext
  BY <1>1 DEF SoundContext, Context
<1> QED
  BY <1>2 DEF t, SoundContext, Context

\* A challenge starts from safe torque with the hands seen (request_high_torque).
LEMMA ChallengeSound ==
  ASSUME NEW x \in SoundContext, NEW token \in Tokens,
         x.interlock_state.name = "SafeTorque", check_high_torque_preconditions(x)
  PROVE  [x EXCEPT !.interlock_state =
            [name |-> "Challenge", token |-> token, expires |-> challenge_timeout]]
           \in SoundContext
  BY DeviceSafetyAssumption
     DEF SoundContext, Context, InterlockState, check_high_torque_preconditions

\* A right answer gives the full torque (respond_to_challenge).
LEMMA UnlockSound ==
  ASSUME NEW x \in SoundContext, x.interlock_state.name = "Challenge"
  PROVE  [x EXCEPT !.interlock_state = [name |-> "HighTorqueActive"],
                   !.current_torque_limit = Full] \in SoundContext
  BY Limits DEF SoundContext, Context, InterlockState

\* Time passing keeps a context sound and the name of its state; a challenge keeps its
\* token and loses time.
LEMMA AgedSound ==
  ASSUME NEW x \in SoundContext
  PROVE  /\ Aged(x) \in SoundContext
         /\ Aged(x).interlock_state.name = x.interlock_state.name
         /\ x.interlock_state.name = "Challenge" =>
              /\ Aged(x).interlock_state.token = x.interlock_state.token
              /\ Aged(x).interlock_state.expires =
                   IF x.interlock_state.expires >= 0 THEN x.interlock_state.expires - 1
                   ELSE x.interlock_state.expires
              /\ x.interlock_state.expires \in Int
<1> DEFINE s == IF x.interlock_state.name = "Challenge" /\ x.interlock_state.expires >= 0
                THEN [x.interlock_state EXCEPT !.expires = x.interlock_state.expires - 1] ELSE x.interlock_state
           h == Older(x.last_hands_on_time, hands_off_timeout + 1)
           f == Older(x.last_fault_time, fault_window)
<1>1. Aged(x) = [x EXCEPT !.interlock_state = s, !.last_hands_on_time = h,
                          !.last_fault_time = f]
  BY DEF Aged
<1>2. x.interlock_state \in InterlockState
  BY DEF SoundContext, Context
<1>3. /\ s \in InterlockState /\ s.name = x.interlock_state.name
      /\ x.interlock_state.name = "Challenge" =>
           /\ s.token = x.interlock_state.token
           /\ s.expires = IF x.interlock_state.expires >= 0
                          THEN x.interlock_state.expires - 1 ELSE x.interlock_state.expires
           /\ x.interlock_state.expires \in Int
  <2>1. CASE x.interlock_state.name = "Challenge" /\ x.interlock_state.expires >= 0
    <3> DEFINE C == [name : {"Challenge"}, token : Tokens, expires : -1..challenge_timeout]
    <3>1. x.interlock_state \in C
      BY <1>2, <2>1 DEF InterlockState, Safe
    <3>2. s = [x.interlock_state EXCEPT !.expires = x.interlock_state.expires - 1]
      BY <2>1, <3>1
    <3>3. x.interlock_state.expires - 1 \in -1..challenge_timeout
      BY <2>1, <3>1, DeviceSafetyAssumption
    <3>4. /\ s \in C /\ s.name = "Challenge" /\ s.token = x.interlock_state.token
          /\ s.expires = x.interlock_state.expires - 1 /\ x.interlock_state.expires \in Int
      BY <3>1, <3>2, <3>3
    <3> QED
      BY <2>1, <3>4 DEF InterlockState
  <2>2. CASE ~(x.interlock_state.name = "Challenge" /\ x.interlock_state.expires >= 0)
    <3>1. s = x.interlock_state
      BY <2>2
    <3>2. x.interlock_state.name = "Challenge" => x.interlock_state.expires \in Int
      BY <1>2 DEF InterlockState, Safe
    <3> QED
      BY <1>2, <2>2, <3>1, <3>2
  <2> QED
    BY <2>1, <2>2
<1>4. /\ h \in (0..hands_off_timeout + 1) \cup {NONE}
      /\ x.last_hands_on_time # NONE => h # NONE
  BY DeviceSafetyAssumption DEF SoundContext, Context, Older, Least
<1>5. f \in (0..fault_window) \cup {NONE}
  BY DeviceSafetyAssumption DEF SoundContext, Context, Older, Least
<1> HIDE DEF s, h, f
<1>6. Aged(x) \in Context
  BY <1>1, <1>3, <1>4, <1>5 DEF SoundContext, Context
<1> QED
  BY <1>1, <1>3, <1>4, <1>6 DEF SoundContext, Context

\* A challenge grows older up to its timeout and keeps its token.
LEMMA ChallengeAges ==
  ASSUME NEW i \in Challenges \cup {NONE}
  PROVE  /\ AgedChallenge(i) \in Challenges \cup {NONE}
         /\ i \in Challenges =>
              /\ AgedChallenge(i) \in Challenges
              /\ AgedChallenge(i).token = i.token
              /\ AgedChallenge(i).age = Least(i.age + 1, challenge_timeout)
              /\ i.age \in 0..challenge_timeout
<1>1. CASE i \in Challenges
  <2>1. i # NONE
    BY <1>1, DeviceSafetyAssumption DEF Challenges
  <2>2. i.age \in 0..challenge_timeout
    BY <1>1 DEF Challenges
  <2>3. Least(i.age + 1, challenge_timeout) \in 0..challenge_timeout
    BY <2>2, DeviceSafetyAssumption DEF Least
  <2>4. AgedChallenge(i) = [i EXCEPT !.age = Least(i.age + 1, challenge_timeout)]
    BY <2>1 DEF AgedChallenge
  <2> QED
    BY <1>1, <2>2, <2>3, <2>4 DEF Challenges
<1>2. CASE i \notin Challenges
  BY <1>2 DEF AgedChallenge
<1> QED
  BY <1>1, <1>2

\* As a challenge grows older its age and the time it has left still agree, and an
\* answer stays right.
LEMMA AgedBacked ==
  ASSUME NEW x \in SoundContext, NEW i \in Challenges \cup {NONE}, NEW a,
         Backed(x.interlock_state, i, a)
  PROVE  Backed(Aged(x).interlock_state, AgedChallenge(i), a)
<1>1. ASSUME x.interlock_state.name = "Challenge"
      PROVE  /\ AgedChallenge(i) \in Challenges
             /\ AgedChallenge(i).token = Aged(x).interlock_state.token
             /\ Aged(x).interlock_state.expires > 0 =>
                  AgedChallenge(i).age + Aged(x).interlock_state.expires = challenge_timeout
  <2>1. /\ i \in Challenges /\ i.token = x.interlock_state.token
        /\ x.interlock_state.expires > 0 => i.age + x.interlock_state.expires = challenge_timeout
    BY <1>1 DEF Backed
  <2>2. /\ Aged(x).interlock_state.token = x.interlock_state.token
        /\ Aged(x).interlock_state.expires =
             IF x.interlock_state.expires >= 0 THEN x.interlock_state.expires - 1
             ELSE x.interlock_state.expires
        /\ x.interlock_state.expires \in Int
    BY <1>1, AgedSound
  <2> QED
    BY ChallengeAges, <2>1, <2>2, DeviceSafetyAssumption DEF Least
<1> QED
  BY <1>1, AgedSound DEF Backed

-----------------------------------------------------------------------------
(* The invariant                                                           *)

\* At the start no device is registered and nothing is held.
LEMMA InitSound == Init => Inv
  BY DEF Init, Inv, AllBacked, Known

\* A device whose context changes to a sound one keeps the invariant, if its histories
\* still back its state.
LEMMA OneDevice ==
  ASSUME Inv, NEW d \in Devices, NEW y \in SoundContext \cup {NONE},
         NEW i \in Challenges \cup {NONE}, NEW a \in Answers \cup {NONE},
         contexts' = [contexts EXCEPT ![d] = y],
         held' \in [Clients -> [Devices -> Tokens \cup {NONE}]],
         issued' = [issued EXCEPT ![d] = i], answered' = [answered EXCEPT ![d] = a],
         y # NONE => Backed(y.interlock_state, i, a)
  PROVE  Inv'
<1>1. /\ contexts' \in [Devices -> SoundContext \cup {NONE}]
      /\ issued' \in [Devices -> Challenges \cup {NONE}]
      /\ answered' \in [Devices -> Answers \cup {NONE}]
  BY DEF Inv
<1>2. ASSUME NEW e \in Devices, contexts'[e] # NONE
      PROVE  Backed(contexts'[e].interlock_state, issued'[e], answered'[e])
  <2>1. CASE e = d
    <3>1. contexts'[e] = y /\ issued'[e] = i /\ answered'[e] = a
      BY <2>1 DEF Inv
    <3> QED
      BY <1>2, <3>1
  <2>2. CASE e # d
    <3>1. contexts'[e] = contexts[e] /\ issued'[e] = issued[e] /\ answered'[e] = answered[e]
      BY <2>2 DEF Inv
    <3> QED
      BY <1>2, <3>1 DEF Inv, AllBacked, Known
  <2> QED
    BY <2>1, <2>2
<1> QED
  BY <1>1, <1>2 DEF Inv, AllBacked, Known

\* The same for a step that leaves the histories alone.
LEMMA OneContext ==
  ASSUME Inv, NEW d \in Devices, NEW y \in SoundContext,
         contexts' = [contexts EXCEPT ![d] = y],
         UNCHANGED <<held, histories>>,
         Backed(y.interlock_state, issued[d], answered[d])
  PROVE  Inv'
<1>1. /\ issued[d] \in Challenges \cup {NONE} /\ answered[d] \in Answers \cup {NONE}
      /\ issued' = [issued EXCEPT ![d] = issued[d]]
      /\ answered' = [answered EXCEPT ![d] = answered[d]]
      /\ held' \in [Clients -> [Devices -> Tokens \cup {NONE}]]
  BY DEF Inv, histories
<1> QED
  BY <1>1, OneDevice

\* Safe torque and a fault need nothing of the histories.
LEMMA NothingToBack ==
  ASSUME NEW state, state.name \in {"SafeTorque", "Faulted"}, NEW i, NEW a
  PROVE  Backed(state, i, a)
  BY DEF Backed

\* A registered device has a sound context, and the histories back its state (Inv, for
\* one device).
LEMMA KnownSound ==
  ASSUME Inv, NEW d \in Devices, Known(d)
  PROVE  /\ contexts[d] \in SoundContext
         /\ Backed(contexts[d].interlock_state, issued[d], answered[d])
         /\ issued[d] \in Challenges \cup {NONE}
  BY DEF Inv, Known, AllBacked

\* Registering starts a device in safe torque, unregistering forgets it
\* (register_device, unregister_device).
LEMMA RegistrationStep ==
  ASSUME Inv, NEW d \in Devices, register_device(d) \/ unregister_device(d)
  PROVE  Inv'
<1>1. /\ held' \in [Clients -> [Devices -> Tokens \cup {NONE}]]
      /\ issued' = [issued EXCEPT ![d] = NONE] /\ answered' = [answered EXCEPT ![d] = NONE]
  BY DEF Inv, register_device, unregister_device, Forget
<1>2. Registered \in SoundContext /\ Backed(Registered.interlock_state, NONE, NONE)
  BY RegisteredSound, NothingToBack DEF Safe
<1>3. CASE contexts' = [contexts EXCEPT ![d] = Registered]
  BY <1>1, <1>2, <1>3, OneDevice
<1>4. CASE contexts' = [contexts EXCEPT ![d] = NONE]
  BY <1>1, <1>4, OneDevice
<1> QED
  BY <1>3, <1>4 DEF register_device, unregister_device

\* A request starts a challenge from safe torque and enters it in the histories, or
\* repeats the token of the challenge under way (request_high_torque).
LEMMA RequestStep ==
  ASSUME Inv, NEW c \in Clients, NEW d \in Devices, NEW token \in Tokens,
         request_high_torque(c, d, token)
  PROVE  Inv'
<1>1. held' \in [Clients -> [Devices -> Tokens \cup {NONE}]]
  BY DEF Inv, request_high_torque
<1>2. Known(d)
  BY DEF request_high_torque
<1>3. contexts[d] \in SoundContext
  BY <1>2, KnownSound
<1> DEFINE state == [name |-> "Challenge", token |-> token, expires |-> challenge_timeout]
           i == [token |-> token, age |-> 0]
<1>4. CASE /\ Is(contexts[d], "SafeTorque") /\ check_high_torque_preconditions(contexts[d])
           /\ contexts' = [contexts EXCEPT ![d] = [contexts[d] EXCEPT !.interlock_state = state]]
           /\ issued' = [issued EXCEPT ![d] = i]
           /\ answered' = [answered EXCEPT ![d] = NONE]
  <2> DEFINE y == [contexts[d] EXCEPT !.interlock_state = state]
  <2>1. y \in SoundContext
    BY <1>3, <1>4, ChallengeSound DEF Is
  <2>2. y.interlock_state = state
    BY <1>3 DEF SoundContext, Context
  <2>3. i \in Challenges /\ Backed(state, i, NONE)
    BY DeviceSafetyAssumption DEF Challenges, Backed
  <2> HIDE DEF i, state
  <2> QED
    BY <1>1, <1>4, <2>1, <2>2, <2>3, OneDevice
<1>5. CASE UNCHANGED <<contexts, histories>>
  BY <1>1, <1>5 DEF Inv, AllBacked, Known, histories
<1> QED
  BY <1>4, <1>5 DEF request_high_torque

\* An answer unlocks the device only if it has the token of the challenge under way,
\* which the histories back, and time is left, so that the challenge is younger than
\* challenge_timeout; any other puts it back to safe torque (respond_to_challenge).
LEMMA ResponseStep ==
  ASSUME Inv, NEW c \in Clients, NEW d \in Devices, respond_to_challenge(c, d)
  PROVE  Inv'
<1> DEFINE x == contexts[d]
           i == issued[d]
           a == [token |-> held[c][d], to |-> i]
           full == [x EXCEPT !.interlock_state = [name |-> "HighTorqueActive"],
                             !.current_torque_limit = Full]
<1>1. /\ held' \in [Clients -> [Devices -> Tokens \cup {NONE}]]
      /\ issued' = [issued EXCEPT ![d] = NONE] /\ answered' = [answered EXCEPT ![d] = a]
  BY DEF Inv, respond_to_challenge, Record
<1>2. Known(d) /\ x.interlock_state.name = "Challenge"
  BY DEF respond_to_challenge, Is
<1>3. /\ x \in SoundContext /\ i \in Challenges /\ i.token = x.interlock_state.token
      /\ x.interlock_state.expires > 0 => i.age + x.interlock_state.expires = challenge_timeout
  BY <1>2, KnownSound DEF Backed
<1>4. a \in Answers
  BY <1>3 DEF Inv, Answers
<1>5. CASE held[c][d] = x.interlock_state.token /\ x.interlock_state.expires > 0
  <2>1. full \in SoundContext
    BY <1>2, <1>3, UnlockSound
  <2>2. full.interlock_state = [name |-> "HighTorqueActive"]
    BY <1>3 DEF SoundContext, Context
  <2>3. x.interlock_state.expires \in Int
    BY <1>2, <1>3 DEF SoundContext, Context, InterlockState, Safe
  <2>4. i.age \in 0..challenge_timeout /\ i.token \in Tokens
        /\ i = [token |-> i.token, age |-> i.age]
    BY <1>3 DEF Challenges
  <2>5. i.age \in 0..(challenge_timeout - 1)
    BY <1>3, <1>5, <2>3, <2>4, DeviceSafetyAssumption
  <2>6. a = [token |-> i.token, to |-> [token |-> i.token, age |-> i.age]]
    BY <1>3, <1>5, <2>4
  <2>7. RightAnswer(a)
    BY <2>4, <2>5, <2>6 DEF RightAnswer
  <2>8. Backed(full.interlock_state, NONE, a)
    BY <2>2, <2>7 DEF Backed
  <2>9. contexts' = [contexts EXCEPT ![d] = full]
    BY <1>5 DEF respond_to_challenge
  <2> HIDE DEF a, full
  <2> QED
    BY <1>1, <1>4, <2>1, <2>8, <2>9, OneDevice
<1>6. CASE ~(held[c][d] = x.interlock_state.token /\ x.interlock_state.expires > 0)
  <2>1. contexts' = [contexts EXCEPT ![d] = BackToSafe(x)]
    BY <1>6 DEF respond_to_challenge
  <2> HIDE DEF a
  <2>2. BackToSafe(x) \in SoundContext /\ Backed(BackToSafe(x).interlock_state, NONE, a)
    BY <1>3, BackToSafeSound, NothingToBack DEF Safe
  <2> QED
    BY <1>1, <1>4, <2>1, <2>2, OneDevice
<1> QED
  BY <1>5, <1>6

\* A cut-off ends a challenge and high torque alike, so nothing that was begun before
\* it goes on after it (emergency_stop, Fatal faults).
LEMMA CutOffStep ==
  ASSUME Inv, NEW d \in Devices, NEW f \in FaultTypes, CutOff(d, f)
  PROVE  Inv'
<1> DEFINE y == [Counted(contexts[d]) EXCEPT
                   !.current_torque_limit = Zero,
                   !.interlock_state = [name |-> "Faulted", fault_type |-> f]]
<1>1. held' \in [Clients -> [Devices -> Tokens \cup {NONE}]]
  BY DEF Inv, CutOff
<1>2. contexts[d] \in SoundContext
  BY KnownSound DEF CutOff
<1>3. Counted(contexts[d]) \in SoundContext
  BY <1>2, CountedSound
<1>4. y \in SoundContext
  BY <1>3, CutSound
<1>5. y.interlock_state.name = "Faulted"
  BY <1>3 DEF SoundContext, Context
<1>6. /\ contexts' = [contexts EXCEPT ![d] = y]
      /\ issued' = [issued EXCEPT ![d] = NONE] /\ answered' = [answered EXCEPT ![d] = NONE]
  BY DEF CutOff, Forget
<1> HIDE DEF y
<1>7. Backed(y.interlock_state, NONE, NONE)
  BY <1>5, NothingToBack
<1> QED
  BY <1>1, <1>4, <1>6, <1>7, OneDevice

\* A fault that is not fatal is counted, a critical one halves the limit; the state of
\* the device stays (report_fault).
LEMMA FaultStep ==
  ASSUME Inv, NEW d \in Devices, NEW f \in FaultTypes, NEW s \in Severities,
         report_fault(d, f, s)
  PROVE  Inv'
<1>1. CASE CutOff(d, f)
  BY <1>1, CutOffStep
<1>2. CASE ~CutOff(d, f)
  <2> DEFINE x == Counted(contexts[d])
             y == [x EXCEPT !.current_torque_limit = Halved(x.current_torque_limit)]
  <2>1. Known(d) /\ UNCHANGED <<held, histories>>
    BY <1>2 DEF report_fault
  <2>2. /\ contexts[d] \in SoundContext
        /\ Backed(contexts[d].interlock_state, issued[d], answered[d])
    BY <2>1, KnownSound
  <2>3. /\ x \in SoundContext /\ x.interlock_state = contexts[d].interlock_state
        /\ x.current_torque_limit = contexts[d].current_torque_limit
    BY <2>2, CountedSound
  <2>4. y \in SoundContext /\ y.interlock_state = x.interlock_state
    <3> HIDE DEF x
    <3>1. y \in SoundContext
      BY <2>3, HalvedSound
    <3> QED
      BY <2>3, <3>1 DEF SoundContext, Context
  <2>5. PICK z \in {x, y} : contexts' = [contexts EXCEPT ![d] = z]
    BY <1>2, <2>3 DEF report_fault
  <2> HIDE DEF x, y
  <2>6. z \in SoundContext /\ Backed(z.interlock_state, issued[d], answered[d])
    BY <2>2, <2>3, <2>4
  <2> QED
    BY <2>1, <2>5, <2>6, OneContext
<1> QED
  BY <1>1, <1>2

\* Clearing a fault goes back to safe torque (clear_fault).
LEMMA ClearStep ==
  ASSUME Inv, NEW d \in Devices, NEW f \in FaultTypes, clear_fault(d, f)
  PROVE  Inv'
<1>1. contexts[d] \in SoundContext
  BY KnownSound DEF clear_fault
<1>2. /\ BackToSafe(contexts[d]) \in SoundContext
      /\ Backed(BackToSafe(contexts[d]).interlock_state, issued[d], answered[d])
  BY <1>1, BackToSafeSound, NothingToBack DEF Safe
<1>3. contexts' = [contexts EXCEPT ![d] = BackToSafe(contexts[d])] /\ UNCHANGED <<held, histories>>
  BY DEF clear_fault
<1> QED
  BY <1>2, <1>3, OneContext

\* A report of the hands leaves the state of the device alone
\* (update_hands_on_detection).
LEMMA HandsStep ==
  ASSUME Inv, NEW d \in Devices, NEW b \in BOOLEAN, update_hands_on_detection(d, b)
  PROVE  Inv'
<1> DEFINE x == contexts[d]
           y == [x EXCEPT !.hands_on_detected = b,
                          !.last_hands_on_time = IF b THEN 0 ELSE x.last_hands_on_time]
<1>1. Known(d)
  BY DEF update_hands_on_detection
<1>2. x \in SoundContext /\ Backed(x.interlock_state, issued[d], answered[d])
  BY <1>1, KnownSound
<1>3. y \in SoundContext /\ y.interlock_state = x.interlock_state
  BY <1>2, HandsSound
<1>4. contexts' = [contexts EXCEPT ![d] = y] /\ UNCHANGED <<held, histories>>
  BY DEF update_hands_on_detection
<1> HIDE DEF y
<1> QED
  BY <1>2, <1>3, <1>4, OneContext

\* A step over all devices keeps the invariant if it keeps each context sound and its
\* state backed.
LEMMA AllDevices ==
  ASSUME Inv, NEW New, NEW Challenged,
         contexts' = New, issued' = Challenged, UNCHANGED <<held, answered>>,
         New \in [Devices -> SoundContext \cup {NONE}],
         Challenged \in [Devices -> Challenges \cup {NONE}],
         \A d \in Devices :
           New[d] # NONE => Backed(New[d].interlock_state, Challenged[d], answered[d])
  PROVE  Inv'
  BY DEF Inv, AllBacked, Known

\* The monitor's pass puts devices back to safe torque (start_safety_monitoring).
LEMMA MonitorStep ==
  ASSUME Inv, Monitor
  PROVE  Inv'
<1> DEFINE New == [d \in Devices |->
             IF Known(d) /\ (ChallengeExpired(contexts[d]) \/ HandsOff(contexts[d]))
             THEN BackToSafe(contexts[d]) ELSE contexts[d]]
<1>1. ASSUME NEW d \in Devices
      PROVE  /\ New[d] \in SoundContext \cup {NONE}
             /\ New[d] # NONE => Backed(New[d].interlock_state, issued[d], answered[d])
  <2>1. CASE New[d] = contexts[d]
    BY <2>1, KnownSound DEF Inv, Known
  <2>2. CASE Known(d) /\ New[d] = BackToSafe(contexts[d])
    <3>1. contexts[d] \in SoundContext
      BY <2>2, KnownSound
    <3> QED
      BY <2>2, <3>1, BackToSafeSound, NothingToBack DEF Safe
  <2> QED
    BY <2>1, <2>2
<1>2. contexts' = New /\ issued' = issued /\ UNCHANGED <<held, answered>>
  BY DEF Monitor, histories
<1>3. /\ New \in [Devices -> SoundContext \cup {NONE}]
      /\ issued \in [Devices -> Challenges \cup {NONE}]
  BY <1>1 DEF Inv
<1> HIDE DEF New
<1> QED
  BY <1>1, <1>2, <1>3, AllDevices

\* Time passing changes no state of a device, and a challenge grows older by what it
\* loses of its time (the code's instants).
LEMMA TickStep ==
  ASSUME Inv, Tick
  PROVE  Inv'
<1> DEFINE New == [d \in Devices |-> IF Known(d) THEN Aged(contexts[d]) ELSE NONE]
           Challenged == [d \in Devices |-> AgedChallenge(issued[d])]
<1>1. ASSUME NEW d \in Devices
      PROVE  /\ New[d] \in SoundContext \cup {NONE}
             /\ New[d] # NONE => Backed(New[d].interlock_state, Challenged[d], answered[d])
  <2>1. CASE Known(d)
    <3>1. /\ contexts[d] \in SoundContext /\ issued[d] \in Challenges \cup {NONE}
          /\ Backed(contexts[d].interlock_state, issued[d], answered[d])
      BY <2>1, KnownSound
    <3> QED
      BY <2>1, <3>1, AgedSound, AgedBacked
  <2>2. CASE ~Known(d)
    BY <2>2
  <2> QED
    BY <2>1, <2>2
<1>2. ASSUME NEW d \in Devices
      PROVE  Challenged[d] \in Challenges \cup {NONE}
  BY ChallengeAges DEF Inv
<1>3. contexts' = New /\ issued' = Challenged /\ UNCHANGED <<held, answered>>
  BY DEF Tick
<1>4. /\ New \in [Devices -> SoundContext \cup {NONE}]
      /\ Challenged \in [Devices -> Challenges \cup {NONE}]
  BY <1>1, <1>2
<1> HIDE DEF New, Challenged
<1> QED
  BY <1>1, <1>3, <1>4, AllDevices

\* Every operation, pass of the monitor and passing of time keeps the invariant.
LEMMA StepPreserves == Inv /\ [Next]_vars => Inv'
<1> SUFFICES ASSUME Inv, [Next]_vars PROVE Inv'
  OBVIOUS
<1>1. CASE Monitor \/ Tick
  BY <1>1, MonitorStep, TickStep
<1>2. ASSUME NEW d \in Devices,
             \/ register_device(d) \/ unregister_device(d) \/ emergency_stop(d)
             \/ \E f \in FaultTypes, s \in Severities : report_fault(d, f, s)
             \/ \E f \in FaultTypes : clear_fault(d, f)
             \/ \E b \in BOOLEAN : update_hands_on_detection(d, b)
             \/ \E c \in Clients :
                  \/ \E token \in Tokens : request_high_torque(c, d, token)
                  \/ respond_to_challenge(c, d)
      PROVE  Inv'
  <2>1. CASE register_device(d) \/ unregister_device(d)
    BY <2>1, RegistrationStep
  <2>2. CASE emergency_stop(d)
    BY <2>2, CutOffStep, DeviceSafetyAssumption DEF emergency_stop
  <2>3. CASE \E f \in FaultTypes, s \in Severities : report_fault(d, f, s)
    BY <2>3, FaultStep
  <2>4. CASE \E f \in FaultTypes : clear_fault(d, f)
    BY <2>4, ClearStep
  <2>5. CASE \E b \in BOOLEAN : update_hands_on_detection(d, b)
    BY <2>5, HandsStep
  <2>6. CASE \E c \in Clients, token \in Tokens : request_high_torque(c, d, token)
    BY <2>6, RequestStep
  <2>7. CASE \E c \in Clients : respond_to_challenge(c, d)
    BY <2>7, ResponseStep
  <2> QED
    BY <1>2, <2>1, <2>2, <2>3, <2>4, <2>5, <2>6, <2>7
<1>3. CASE UNCHANGED vars
  BY <1>3 DEF vars, Inv, AllBacked, Known
<1> QED
  BY <1>1, <1>2, <1>3 DEF Next

\* Inv holds in every reachable state of the service, for any number of devices and
\* clients and any timeouts.
THEOREM InductiveInvariant == Spec => []Inv
<1>1. Init => Inv
  BY InitSound
<1>2. Inv /\ [Next]_vars => Inv'
  BY StepPreserves
<1> QED
  BY <1>1, <1>2, PTL DEF Spec

\* The contexts, the tokens held and the history keep their types through every
\* operation (DeviceSafetyContext).
THEOREM TypeCorrect == Spec => []TypeOK
<1>1. Inv => TypeOK
  BY DEF Inv, TypeOK, SoundContext
<1> QED
  BY <1>1, InductiveInvariant, PTL

\* Outside high torque no device has more than 30 % of its torque, and a faulted one
\* none, whatever led there (report_fault, respond_to_challenge, clear_fault, the
\* monitor).
THEOREM LimitAlwaysFits == Spec => []LimitFitsState
<1>1. Inv => LimitFitsState
  BY DEF Inv, LimitFitsState, SoundContext, Known, Is
<1> QED
  BY <1>1, InductiveInvariant, PTL

\* For any devices, clients, tokens and timeouts: high torque came by an answer with the
\* token of a challenge issued since the last cut-off or registration, given less than
\* challenge_timeout after its issue (respond_to_challenge's comparison and expiry
\* check, and every operation that ends a challenge).
THEOREM UnlockNeedsChallenge == Spec => []UnlockedByChallenge
<1>1. Inv => UnlockedByChallenge
  BY DEF Inv, UnlockedByChallenge, AllBacked, Backed, RightAnswer, Is
<1> QED
  BY <1>1, InductiveInvariant, PTL

\* Every device in high torque has an instant at which the hands were last seen, so
\* the monitor's hands-off check, which skips devices without one, applies to it
\* (start_safety_monitoring).
THEOREM MonitorSeesHighTorque == Spec => []HighTorqueIsMonitored
<1>1. Inv => HighTorqueIsMonitored
  BY DEF Inv, HighTorqueIsMonitored, SoundContext, Known, Is
<1> QED
  BY <1>1, InductiveInvariant, PTL
=============================================================================
