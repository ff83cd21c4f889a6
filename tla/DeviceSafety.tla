---------------------------- MODULE DeviceSafety ----------------------------
(***************************************************************************)
(* ApplicationSafetyService (crates/service/src/safety_service.rs): the    *)
(* daemon's interlock for high torque, one context per device, and the     *)
(* task that monitors it.                                                  *)
(*                                                                         *)
(* Every call holds the lock of the contexts to its end, so it is one      *)
(* step; what interleaves is calls, and answers that come late.  A client  *)
(* is told the token of a challenge and may answer with it whenever it     *)
(* likes.  The clock is relative, as in PluginWatchdog: an instant is its  *)
(* age or the time left, as far as the code can tell.                      *)
(*                                                                         *)
(* Left out: the temperature, which nothing ever sets; events and traces,  *)
(* which nothing reads; the device token, which nothing compares.          *)
(***************************************************************************)
EXTENDS Integers

CONSTANTS
  Devices,
  Clients,             \* callers that hold a challenge token
  Tokens,
  FaultTypes,
  InterlockViolation,  \* FaultType::SafetyInterlockViolation
  NONE,
  challenge_timeout,
  hands_off_timeout,
  ManyFaults,          \* 5: more are held against a request ...
  fault_window,        \* ... as long as the last one is younger than 300 s
  MaxHalvings          \* bound of the model on critical faults in a row

ASSUME DeviceSafetyAssumption ==
  /\ InterlockViolation \in FaultTypes
  /\ NONE \notin Tokens \cup Int
  /\ challenge_timeout \in Nat \ {0} /\ hands_off_timeout \in Nat
  /\ NONE \notin [token : Tokens, age : 0..challenge_timeout]
  /\ ManyFaults \in Nat /\ fault_window \in Nat
  /\ MaxHalvings \in Nat \ {0, 1}

VARIABLES
  contexts,     \* DeviceSafetyContext of the registered devices, or NONE
  held,         \* the token each client was told last, of each device
  issued,       \* history: the challenge of each device that was issued since its last
                \*   cut-off or registration and has had no answer, or NONE
  answered      \* history: the last answer for each device since then, with its
                \*   challenge, or NONE

histories == <<issued, answered>>
vars == <<contexts, held, issued, answered>>

Least(a, b) == IF a < b THEN a ELSE b

\* Torque limits: a share of max_safe_torque, halved so many times.
Zero == [share |-> 0, halvings |-> 0]
SafeShare == [share |-> 30, halvings |-> 0]
Full == [share |-> 100, halvings |-> 0]

\* TorqueNm * 0.5
Halved(limit) ==
  IF limit = Zero THEN Zero ELSE [limit EXCEPT !.halvings = Least(limit.halvings + 1, MaxHalvings)]

\* At most 30 % of the maximum; a quarter of it is less than that.
AtMostSafe(limit) == limit.share <= 30 \/ limit.halvings >= 2

Safe == [name |-> "SafeTorque"]

Registered ==
  [interlock_state |-> Safe, current_torque_limit |-> SafeShare,
   hands_on_detected |-> FALSE, last_hands_on_time |-> NONE,
   fault_count |-> 0, last_fault_time |-> NONE]

Init ==
  /\ contexts = [d \in Devices |-> NONE]
  /\ held = [c \in Clients |-> [d \in Devices |-> NONE]]
  /\ issued = [d \in Devices |-> NONE]
  /\ answered = [d \in Devices |-> NONE]

\* The histories know of no challenge any more.
Forget(d) ==
  /\ issued' = [issued EXCEPT ![d] = NONE]
  /\ answered' = [answered EXCEPT ![d] = NONE]

Known(d) == contexts[d] # NONE

Is(x, name) == x.interlock_state.name = name

\* SafeTorque at 30 % of the maximum.
BackToSafe(x) == [x EXCEPT !.interlock_state = Safe, !.current_torque_limit = SafeShare]

-----------------------------------------------------------------------------
(* Registration                                                            *)

\* A device that is registered already starts anew, faulted or not.
register_device(d) ==
  /\ contexts' = [contexts EXCEPT ![d] = Registered]
  /\ Forget(d)
  /\ UNCHANGED held

unregister_device(d) ==
  /\ contexts' = [contexts EXCEPT ![d] = NONE]
  /\ Forget(d)
  /\ UNCHANGED held

-----------------------------------------------------------------------------
(* The challenge                                                           *)

check_high_torque_preconditions(x) ==
  /\ x.hands_on_detected
  /\ x.last_hands_on_time # NONE /\ x.last_hands_on_time <= hands_off_timeout
  /\ ~(x.fault_count > ManyFaults /\ x.last_fault_time < fault_window)

\* Tokens are hashes of the clock; that two are alike by chance is left out.
Fresh(d) == Tokens \ {held[c][d] : c \in Clients}

\* The client is told the token of a new challenge, or of the one under way.
request_high_torque(c, d, token) ==
  LET x == contexts[d] IN
  /\ Known(d)
  /\ \/ /\ Is(x, "SafeTorque") /\ check_high_torque_preconditions(x)
        /\ token \in Fresh(d)
        /\ contexts' = [contexts EXCEPT ![d] = [x EXCEPT !.interlock_state =
             [name |-> "Challenge", token |-> token, expires |-> challenge_timeout]]]
        /\ issued' = [issued EXCEPT ![d] = [token |-> token, age |-> 0]]
        /\ answered' = [answered EXCEPT ![d] = NONE]
     \/ /\ Is(x, "Challenge") /\ token = x.interlock_state.token
        /\ UNCHANGED <<contexts, histories>>
  /\ held' = [held EXCEPT ![c][d] = token]

\* The answer is kept with the challenge it is an answer to.
Record(c, d) ==
  /\ answered' = [answered EXCEPT ![d] = [token |-> held[c][d], to |-> issued[d]]]
  /\ issued' = [issued EXCEPT ![d] = NONE]

\* Mutant: the end of the challenge is left to the monitor.
RespondLate(c, d) ==
  LET x == contexts[d] IN
  /\ Known(d) /\ Is(x, "Challenge")
  /\ contexts' = [contexts EXCEPT ![d] =
       IF held[c][d] = x.interlock_state.token
       THEN [x EXCEPT !.interlock_state = [name |-> "HighTorqueActive"],
                      !.current_torque_limit = Full]
       ELSE BackToSafe(x)]
  /\ held' = [held EXCEPT ![c][d] = NONE]
  /\ Record(c, d)

\* A client that was told none answers with a wrong token.  The preconditions are
\* not looked at again.
respond_to_challenge(c, d) ==
  LET x == contexts[d] IN
  /\ Known(d) /\ Is(x, "Challenge")
  /\ contexts' = [contexts EXCEPT ![d] =
       IF held[c][d] = x.interlock_state.token /\ x.interlock_state.expires > 0
       THEN [x EXCEPT !.interlock_state = [name |-> "HighTorqueActive"],
                      !.current_torque_limit = Full]
       ELSE BackToSafe(x)]
  /\ held' = [held EXCEPT ![c][d] = NONE]
  /\ Record(c, d)

-----------------------------------------------------------------------------
(* Faults and hands                                                        *)

Counted(x) ==
  [x EXCEPT !.fault_count = Least(x.fault_count + 1, ManyFaults + 1), !.last_fault_time = 0]

\* emergency_stop, and report_fault with a Fatal fault.
CutOff(d, fault_type) ==
  /\ Known(d)
  /\ contexts' = [contexts EXCEPT ![d] =
       [Counted(contexts[d]) EXCEPT
          !.current_torque_limit = Zero,
          !.interlock_state = [name |-> "Faulted", fault_type |-> fault_type]]]
  /\ Forget(d)
  /\ UNCHANGED held

emergency_stop(d) == CutOff(d, InterlockViolation)

report_fault(d, fault_type, severity) ==
  \/ severity = "Fatal" /\ CutOff(d, fault_type)
  \/ /\ severity = "Critical" /\ Known(d)
     /\ contexts' = [contexts EXCEPT ![d] =
          [Counted(contexts[d]) EXCEPT
             !.current_torque_limit = Halved(contexts[d].current_torque_limit)]]
     /\ UNCHANGED <<held, histories>>
  \/ /\ severity = "Warning" /\ Known(d)
     /\ contexts' = [contexts EXCEPT ![d] = Counted(contexts[d])]
     /\ UNCHANGED <<held, histories>>

clear_fault(d, fault_type) ==
  /\ Known(d) /\ Is(contexts[d], "Faulted")
  /\ contexts[d].interlock_state.fault_type = fault_type
  /\ contexts' = [contexts EXCEPT ![d] = BackToSafe(contexts[d])]
  /\ UNCHANGED <<held, histories>>

update_hands_on_detection(d, hands_on) ==
  LET x == contexts[d] IN
  /\ Known(d)
  /\ contexts' = [contexts EXCEPT ![d] =
       [x EXCEPT !.hands_on_detected = hands_on,
                 !.last_hands_on_time = IF hands_on THEN 0 ELSE x.last_hands_on_time]]
  /\ UNCHANGED <<held, histories>>

-----------------------------------------------------------------------------
(* start_safety_monitoring: the loop's body, over all devices              *)

ChallengeExpired(x) == Is(x, "Challenge") /\ x.interlock_state.expires < 0

\* Mutant: both signs are needed.
HandsOffBoth(x) ==
  /\ Is(x, "HighTorqueActive") /\ x.last_hands_on_time # NONE
  /\ ~x.hands_on_detected /\ x.last_hands_on_time > hands_off_timeout

HandsOff(x) ==
  /\ Is(x, "HighTorqueActive") /\ x.last_hands_on_time # NONE
  /\ ~x.hands_on_detected \/ x.last_hands_on_time > hands_off_timeout

\* Mutant: the limit stays when the state changes.
MonitorKeepsLimit ==
  /\ contexts' = [d \in Devices |->
       IF Known(d) /\ (ChallengeExpired(contexts[d]) \/ HandsOff(contexts[d]))
       THEN [contexts[d] EXCEPT !.interlock_state = Safe] ELSE contexts[d]]
  /\ UNCHANGED <<held, histories>>

Monitor ==
  /\ contexts' = [d \in Devices |->
       IF Known(d) /\ (ChallengeExpired(contexts[d]) \/ HandsOff(contexts[d]))
       THEN BackToSafe(contexts[d]) ELSE contexts[d]]
  /\ UNCHANGED <<held, histories>>

Older(age, oldest) == IF age = NONE THEN NONE ELSE Least(age + 1, oldest)

Aged(x) ==
  LET s == x.interlock_state IN
  [x EXCEPT
     !.interlock_state = IF s.name = "Challenge" /\ s.expires >= 0
                         THEN [s EXCEPT !.expires = s.expires - 1] ELSE s,
     !.last_hands_on_time = Older(x.last_hands_on_time, hands_off_timeout + 1),
     !.last_fault_time = Older(x.last_fault_time, fault_window)]

AgedChallenge(i) ==
  IF i = NONE THEN NONE ELSE [i EXCEPT !.age = Least(i.age + 1, challenge_timeout)]

Tick ==
  /\ contexts' = [d \in Devices |-> IF Known(d) THEN Aged(contexts[d]) ELSE NONE]
  /\ issued' = [d \in Devices |-> AgedChallenge(issued[d])]
  /\ UNCHANGED <<held, answered>>

-----------------------------------------------------------------------------
Severities == {"Warning", "Critical", "Fatal"}

Next ==
  \/ Monitor \/ Tick
  \/ \E d \in Devices :
       \/ register_device(d) \/ unregister_device(d) \/ emergency_stop(d)
       \/ \E f \in FaultTypes, s \in Severities : report_fault(d, f, s)
       \/ \E f \in FaultTypes : clear_fault(d, f)
       \/ \E b \in BOOLEAN : update_hands_on_detection(d, b)
       \/ \E c \in Clients :
            \/ \E token \in Tokens : request_high_torque(c, d, token)
            \/ respond_to_challenge(c, d)

Spec == Init /\ [][Next]_vars

\* The monitor's task is spawned once and loops on a timer for good; the lock of the
\* contexts is fair.
FairSpec == Spec /\ WF_vars(Monitor) /\ WF_vars(Tick)

-----------------------------------------------------------------------------
(* Properties                                                              *)

Limit == [share : {0, 30, 100}, halvings : 0..MaxHalvings]

InterlockState ==
  {Safe, [name |-> "HighTorqueActive"]}
    \cup [name : {"Challenge"}, token : Tokens, expires : -1..challenge_timeout]
    \cup [name : {"Faulted"}, fault_type : FaultTypes]

Context ==
  [interlock_state : InterlockState, current_torque_limit : Limit,
   hands_on_detected : BOOLEAN,
   last_hands_on_time : (0..hands_off_timeout + 1) \cup {NONE},
   fault_count : 0..ManyFaults + 1,
   last_fault_time : (0..fault_window) \cup {NONE}]

\* A challenge, by its token and its age; an answer, by its token and its challenge.
Challenges == [token : Tokens, age : 0..challenge_timeout]
Answers == [token : Tokens \cup {NONE}, to : Challenges \cup {NONE}]

TypeOK ==
  /\ contexts \in [Devices -> Context \cup {NONE}]
  /\ held \in [Clients -> [Devices -> Tokens \cup {NONE}]]
  /\ issued \in [Devices -> Challenges \cup {NONE}]
  /\ answered \in [Devices -> Answers \cup {NONE}]

\* Outside high torque a device never has more than 30 % of its torque, and a
\* faulted one has none, whatever mix of challenges, critical faults and expiries
\* led there (every operation that changes the state, and every one that changes
\* the limit).
LimitFitsState ==
  \A d \in Devices : Known(d) =>
    LET x == contexts[d] IN
    /\ ~Is(x, "HighTorqueActive") => AtMostSafe(x.current_torque_limit)
    /\ Is(x, "Faulted") => x.current_torque_limit = Zero

\* High torque is active only by an answer to a challenge of its own: one issued after
\* the last fatal fault, emergency stop or registration and not answered before, with
\* the token of that very challenge, and less than challenge_timeout after its issue.
\* An answer that waited for the lock, came from a client that was told an old token,
\* or came before the monitor noticed that the challenge was over unlocks nothing
\* (request_high_torque, respond_to_challenge, emergency_stop, report_fault).  The
\* histories keep the age and the token of the challenge apart from the context.
UnlockedByChallenge ==
  \A d \in Devices : Known(d) /\ Is(contexts[d], "HighTorqueActive") =>
    \E token \in Tokens, age \in 0..(challenge_timeout - 1) :
      answered[d] = [token |-> token, to |-> [token |-> token, age |-> age]]

\* The monitor skips a device without a last_hands_on_time, and the preconditions
\* are checked only at the request: still every device in high torque has one, so
\* the hands-off check applies to it (check_high_torque_preconditions,
\* start_safety_monitoring).
HighTorqueIsMonitored ==
  \A d \in Devices :
    Known(d) /\ Is(contexts[d], "HighTorqueActive") => contexts[d].last_hands_on_time # NONE

\* When the hands are not seen on the wheel any more, or no report comes at all,
\* high torque ends for good.
HandsOffEndsHighTorque ==
  \A d \in Devices :
    <>[][~update_hands_on_detection(d, TRUE)]_vars
    => <>[]~(Known(d) /\ Is(contexts[d], "HighTorqueActive"))
=============================================================================
