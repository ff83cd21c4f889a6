---------------------------- MODULE EngineProofs ----------------------------
(***************************************************************************)
(* Proofs about Engine for any channel capacities, limits, ramp length and *)
(* pipeline, and, in the second half, about PluginWatchdog, which watches  *)
(* its threads and the plugins they run, for any threads, plugins, limits  *)
(* and durations.                                                          *)
(***************************************************************************)
EXTENDS Engine, PluginWatchdog, TLAPS

\* The inductive invariant: types, the join discipline of stop, where a
\* Shutdown can be, and that a tripped session is in Faulted.
Inv == TypeOK /\ StopJoinsThreads /\ ShutdownOnlyWhileStopping /\ TripIsFault

\* The output of a tick is within the safe limit on both sides, and zero when
\* the state is Faulted (apply_torque_safety_controls).
LEMMA OutputBounded ==
  ASSUME TypeOK, NEW v \in PipelineOutputs
  PROVE  /\ apply_torque_safety_controls(v) \in Int
         /\ MaxSafeTorque * Ramp \in Nat
         /\ apply_torque_safety_controls(v)
              \in (-(MaxSafeTorque * Ramp))..(MaxSafeTorque * Ramp)
         /\ safety = "Faulted" => apply_torque_safety_controls(v) = 0
<1> DEFINE L == MaxSafeTorque * Ramp
           r == Requested(v)
<1>1. L \in Nat
  BY LimitAssumption, CapAssumption
<1>2. sanitize_signed_unit(v) \in Int
  BY LimitAssumption DEF sanitize_signed_unit
<1>3. r \in Int
  BY <1>2, LimitAssumption DEF TypeOK, Requested
<1>4. max_torque_nm \in {0, L}
  BY DEF max_torque_nm
<1> HIDE DEF r, L
<1>5. apply_torque_safety_controls(v) =
        IF force_zero_output THEN 0
        ELSE IF r > max_torque_nm THEN max_torque_nm
        ELSE IF r < -max_torque_nm THEN -max_torque_nm
        ELSE r
  BY DEF apply_torque_safety_controls, r
<1>6. apply_torque_safety_controls(v) \in (-L)..L
  BY <1>1, <1>3, <1>4, <1>5
<1>7. safety = "Faulted" => apply_torque_safety_controls(v) = 0
  BY <1>5 DEF force_zero_output
<1> QED
  BY <1>1, <1>6, <1>7 DEF L

\* The soft-stop operators keep the controller well-formed and the multiplier
\* in 0..Ramp (SoftStopController::update, current_multiplier).
LEMMA SoftStopTypes ==
  /\ SS!new \in SS!SoftStopController
  /\ \A t \in Int : SS!start_soft_stop(t) \in SS!SoftStopController
  /\ \A s \in SS!SoftStopController :
       /\ SS!update(s) \in SS!SoftStopController
       /\ SS!current_multiplier(s) \in 0..Ramp
<1> USE CapAssumption DEF SS!SoftStopController, SS!Levels
<1>1. SS!new \in SS!SoftStopController
  BY DEF SS!new
<1>2. \A t \in Int : SS!start_soft_stop(t) \in SS!SoftStopController
  BY DEF SS!start_soft_stop
<1>3. ASSUME NEW s \in SS!SoftStopController
      PROVE  SS!update(s) \in SS!SoftStopController
  <2>1. CASE ~s.active
    BY <2>1 DEF SS!update
  <2>2. CASE s.active /\ s.level <= 1
    <3>1. 0 \in 0..Ramp
      OBVIOUS
    <3>2. SS!update(s) = [s EXCEPT !.active = FALSE, !.level = 0]
      BY <2>2 DEF SS!update
    <3> QED
      BY <3>1, <3>2
  <2>3. CASE s.active /\ ~(s.level <= 1)
    <3>1. s.level \in 0..Ramp /\ s.level - 1 \in 0..Ramp
      BY <2>3
    <3> QED
      BY <2>3, <3>1 DEF SS!update
  <2> QED
    BY <2>1, <2>2, <2>3
<1>4. \A s \in SS!SoftStopController : SS!current_multiplier(s) \in 0..Ramp
  BY DEF SS!current_multiplier
<1> QED
  BY <1>1, <1>2, <1>3, <1>4

\* A fresh channel is empty and within its capacity.
LEMMA EmptyChannel ==
  /\ <<>> \in Seq(Commands) /\ Len(<<>>) <= CommandCap /\ 1..Len(<<>>) = {}
  /\ 0 \in 0..InputCap
  /\ Ramp \in 0..Ramp
BY CapAssumption

\* Engine::new establishes the invariant.
LEMMA InvInit == Init => Inv
<1> SUFFICES ASSUME Init PROVE Inv
  OBVIOUS
<1>1. commands \in Seq(Commands) /\ Len(commands) <= CommandCap
  BY EmptyChannel DEF Init
<1>2. /\ inputs \in 0..InputCap /\ fault_torque_multiplier \in 0..Ramp /\ command \in Int
      /\ orphans \in 0..MaxOrphans
  BY EmptyChannel, CapAssumption DEF Init
<1>3. soft_stop \in SS!SoftStopController
  BY SoftStopTypes DEF Init
<1>4. TypeOK
  BY <1>1, <1>2, <1>3, Zenon DEF Init, TypeOK, RtPhases
<1>5. StopJoinsThreads /\ ShutdownOnlyWhileStopping /\ TripIsFault
  BY EmptyChannel DEF Init, StopJoinsThreads, ShutdownOnlyWhileStopping, TripIsFault, Alive
<1> QED
  BY <1>4, <1>5 DEF Inv

\* Appending a command keeps the channel a bounded sequence.
LEMMA AppendCommand ==
  ASSUME TypeOK, Len(commands) < CommandCap, NEW c \in Commands
  PROVE  /\ Append(commands, c) \in Seq(Commands)
         /\ Len(Append(commands, c)) <= CommandCap
         /\ \A i \in 1..Len(Append(commands, c)) :
              Append(commands, c)[i] = IF i <= Len(commands) THEN commands[i] ELSE c
BY CapAssumption DEF TypeOK

\* So does taking one off.
LEMMA TailCommands ==
  ASSUME TypeOK, commands # <<>>
  PROVE  /\ Tail(commands) \in Seq(Commands)
         /\ Len(Tail(commands)) <= CommandCap
         /\ Head(commands) = commands[1] /\ 1 \in 1..Len(commands)
         /\ \A i \in 1..Len(Tail(commands)) :
              /\ i + 1 \in 1..Len(commands)
              /\ Tail(commands)[i] = commands[i + 1]
BY CapAssumption DEF TypeOK

\* Every call of the handle and every phase of both threads preserves it.
LEMMA InvNext == Inv /\ [Next]_vars => Inv'
<1> SUFFICES ASSUME Inv, [Next]_vars PROVE Inv'
  OBVIOUS
<1> USE DEF Inv, Alive, RtPhases
<1>1. CASE start
  BY <1>1, SoftStopTypes, EmptyChannel
     DEF start, TypeOK, StopJoinsThreads, ShutdownOnlyWhileStopping, TripIsFault
<1>2. CASE start_diag_spawn_fails \/ start_rt_spawn_fails
  <2>1. orphans' \in 0..MaxOrphans
    BY <1>2, CapAssumption DEF start_diag_spawn_fails, start_rt_spawn_fails, TypeOK
  <2>2. /\ running' = TRUE /\ caller = "idle"
        /\ UNCHANGED <<caller, handles, rt, diag, commands, inputs, rtVars, estop>>
    BY <1>2 DEF start_diag_spawn_fails, start_rt_spawn_fails
  <2> QED
    BY <2>1, <2>2 DEF rtVars, TypeOK, StopJoinsThreads, ShutdownOnlyWhileStopping,
              TripIsFault
<1>3. CASE stop_signal
  BY <1>3 DEF stop_signal, rtVars, TypeOK, StopJoinsThreads,
              ShutdownOnlyWhileStopping, TripIsFault
<1>4. CASE stop_send
  <2>1. commands' \in Seq(Commands) /\ Len(commands') <= CommandCap
    BY <1>4, AppendCommand DEF stop_send, CanSend, TypeOK, Commands
  <2>2. ~Alive => commands' = commands
    BY <1>4 DEF stop_send, CanSend
  <2> QED
    BY <1>4, <2>1, <2>2 DEF stop_send, rtVars, TypeOK, StopJoinsThreads,
                            ShutdownOnlyWhileStopping, TripIsFault
<1>5. CASE stop_join
  BY <1>5, EmptyChannel DEF stop_join, rtVars, TypeOK, StopJoinsThreads,
              ShutdownOnlyWhileStopping, TripIsFault
<1>6. ASSUME NEW c \in Commands \ {"Shutdown"}, Send(c),
             estop' \in {"none", "sent", "acked"}
      PROVE  Inv'
  <2>1. /\ commands' \in Seq(Commands) /\ Len(commands') <= CommandCap
        /\ \A i \in 1..Len(commands') :
             commands'[i] = IF i <= Len(commands) THEN commands[i] ELSE c
    BY <1>6, AppendCommand DEF Send, CanSend
  <2>2. \A i \in 1..Len(commands') : commands'[i] # "Shutdown"
    BY <1>6, <2>1 DEF Send, ShutdownOnlyWhileStopping, TypeOK
  <2> QED
    BY <1>6, <2>1, <2>2 DEF Send, CanSend, rtVars, TypeOK, StopJoinsThreads,
                            ShutdownOnlyWhileStopping, TripIsFault
<1>7. CASE apply_pipeline \/ get_stats \/ update_safety \/ emergency_stop
  BY <1>6, <1>7 DEF apply_pipeline, get_stats, update_safety, emergency_stop, Commands,
                    TypeOK
<1>8. CASE send_game_input
  BY <1>8, CapAssumption DEF send_game_input, rtVars, TypeOK, StopJoinsThreads,
              ShutdownOnlyWhileStopping, TripIsFault
<1>9. CASE RtHead
  BY <1>9, EmptyChannel DEF RtHead, RtExit, RtFrame, rtVars, TypeOK, StopJoinsThreads,
              ShutdownOnlyWhileStopping, TripIsFault
<1>10. CASE RtTick
  BY <1>10 DEF RtTick, RtFrame, rtVars, TypeOK, StopJoinsThreads,
              ShutdownOnlyWhileStopping, TripIsFault
<1>11. CASE RtMissedTick
  BY <1>11 DEF RtMissedTick, report_fault, RtFrame, TypeOK, StopJoinsThreads,
              ShutdownOnlyWhileStopping, TripIsFault
<1>12. CASE RtCommands
  <2>1. CASE commands = <<>>
    BY <1>12, <2>1 DEF RtCommands, ExecuteOldest, RtFrame, rtVars, TypeOK, StopJoinsThreads,
              ShutdownOnlyWhileStopping, TripIsFault
  <2>2. CASE commands # <<>>
    <3>1. /\ Execute(Head(commands)) /\ commands' = Tail(commands)
          /\ rt = "commands" /\ UNCHANGED <<inputs, caller, handles, diag, orphans>>
      BY <1>12, <2>2 DEF RtCommands, ExecuteOldest, RtFrame
    <3>2. caller = "idle" => Head(commands) # "Shutdown"
      BY <2>2, TailCommands DEF ShutdownOnlyWhileStopping
    <3>3. caller = "idle" => \A i \in 1..Len(commands') : commands'[i] # "Shutdown"
      BY <2>2, <3>1, TailCommands DEF ShutdownOnlyWhileStopping
    <3>4. commands' \in Seq(Commands) /\ Len(commands') <= CommandCap
      BY <2>2, <3>1, TailCommands
    <3>5. rt' \in {"commands", "output"}
      BY <3>1 DEF Execute
    <3>6. TypeOK'
      BY <3>1, <3>4, <3>5 DEF Execute, report_fault, rtVars, TypeOK
    <3>7. running' = running \/ (caller # "idle" /\ ~running')
      BY <3>1, <3>2 DEF Execute
    <3>8. StopJoinsThreads' /\ ShutdownOnlyWhileStopping'
      BY <3>1, <3>3, <3>5, <3>7 DEF StopJoinsThreads, ShutdownOnlyWhileStopping
    <3>9. TripIsFault'
      BY <3>1 DEF Execute, report_fault, rtVars, TripIsFault
    <3> QED
      BY <3>6, <3>8, <3>9
  <2> QED
    BY <2>1, <2>2
<1>13. CASE RtOutput
  BY <1>13, OutputBounded, CapAssumption DEF RtOutput, TakeInput, RtFrame, TypeOK,
              StopJoinsThreads, ShutdownOnlyWhileStopping, TripIsFault
<1>14. CASE RtPipelineError
  BY <1>14, CapAssumption DEF RtPipelineError, TakeInput, report_fault, RtFrame, TypeOK,
              StopJoinsThreads, ShutdownOnlyWhileStopping, TripIsFault
<1>15. CASE RtPost
  <2>1. soft_stop' \in SS!SoftStopController /\ fault_torque_multiplier' \in 0..Ramp
    BY <1>15, SoftStopTypes DEF RtPost, fault_manager_update, TypeOK
  <2>2. /\ safety' \in {"SafeTorque", "Faulted"} /\ tripped' \in BOOLEAN
        /\ TripIsFault'
    BY <1>15 DEF RtPost, should_latch_safety_fault, ManagerFaults, TypeOK, TripIsFault
  <2> QED
    BY <1>15, <2>1, <2>2, EmptyChannel DEF RtPost, RtExit, RtFrame, TypeOK, StopJoinsThreads,
              ShutdownOnlyWhileStopping
<1>16. CASE DiagExit
  BY <1>16 DEF DiagExit, rtVars, TypeOK, StopJoinsThreads,
              ShutdownOnlyWhileStopping, TripIsFault
<1>17. CASE OrphanExit
  BY <1>17, CapAssumption DEF OrphanExit, rtVars, TypeOK, StopJoinsThreads,
              ShutdownOnlyWhileStopping, TripIsFault
<1>18. CASE UNCHANGED vars
  BY <1>18 DEF vars, rtVars, TypeOK, StopJoinsThreads, ShutdownOnlyWhileStopping,
              TripIsFault
<1> QED
  BY <1>1, <1>2, <1>3, <1>4, <1>5, <1>7, <1>8, <1>9, <1>10, <1>11, <1>12, <1>13, <1>14,
     <1>15, <1>16, <1>17, <1>18 DEF Next

\* Every reachable state satisfies the inductive invariant.
THEOREM InductiveInvariant == Spec => []Inv
BY InvInit, InvNext, PTL DEF Spec

\* Types, queue capacities and the range of the multiplier included.
THEOREM TypeCorrect == Spec => []TypeOK
<1>1. Inv => TypeOK
  BY DEF Inv
<1> QED
  BY InductiveInvariant, <1>1, PTL

\* When stop has returned both threads whose handles start stored are gone, with
\* their channels, so start never runs beside an old RT thread.  A diagnostic thread
\* that a failed RT spawn detached may outlive stop (start, stop_blocking).
THEOREM StopJoins == Spec => []StopJoinsThreads
<1>1. Inv => StopJoinsThreads
  BY DEF Inv
<1> QED
  BY InductiveInvariant, <1>1, PTL

\* Every engine step is a step of the torque gate, or leaves its variables
\* alone.
LEMMA GateStep == Inv /\ [Next]_vars => [Gate!Next]_(Gate!vars)
<1> SUFFICES ASSUME Inv, [Next]_vars PROVE [Gate!Next]_(Gate!vars)
  OBVIOUS
<1> USE DEF Inv, Alive, Gate!vars
<1>1. CASE start
  BY <1>1 DEF start, StopJoinsThreads, Gate!Next, Gate!Start
<1>2. CASE \/ start_diag_spawn_fails \/ start_rt_spawn_fails \/ stop_signal \/ stop_send
           \/ send_game_input \/ DiagExit \/ OrphanExit \/ UNCHANGED vars
  BY <1>2 DEF start_diag_spawn_fails, start_rt_spawn_fails, stop_signal, stop_send,
              send_game_input, DiagExit, OrphanExit, vars, rtVars
<1>3. CASE stop_join
  BY <1>3 DEF stop_join, rtVars
<1>4. CASE apply_pipeline \/ get_stats \/ update_safety \/ emergency_stop
  BY <1>4 DEF apply_pipeline, get_stats, update_safety, emergency_stop, Send, rtVars
<1>5. CASE RtHead
  BY <1>5 DEF RtHead, RtExit, rtVars, Gate!Next, Gate!End
<1>6. CASE RtTick
  BY <1>6 DEF RtTick, rtVars
<1>7. CASE RtMissedTick
  BY <1>7 DEF RtMissedTick, report_fault, Gate!Next, Gate!Latch
<1>8. CASE RtCommands
  <2>1. CASE commands = <<>>
    BY <1>8, <2>1 DEF RtCommands, rtVars
  <2>2. CASE commands # <<>>
    BY <1>8, <2>2 DEF RtCommands, ExecuteOldest, Execute, report_fault, rtVars, Gate!Next,
                      Gate!Latch
  <2> QED
    BY <2>1, <2>2
<1>9. CASE RtOutput
  <2>1. PICK v \in PipelineOutputs : command' = apply_torque_safety_controls(v)
    BY <1>9 DEF RtOutput
  <2>2. command' \in (-(MaxSafeTorque * Ramp))..(MaxSafeTorque * Ramp)
    BY <2>1, OutputBounded
  <2>3. tripped => command' = 0
    BY <2>1, OutputBounded DEF TripIsFault
  <2> QED
    BY <1>9, <2>2, <2>3 DEF RtOutput, Gate!Next, Gate!Command
<1>10. CASE RtPipelineError
  BY <1>10 DEF RtPipelineError, report_fault, Gate!Next, Gate!Latch
<1>11. CASE RtPost
  <2>1. tripped' = TRUE \/ tripped' = tripped
    BY <1>11 DEF RtPost, TypeOK
  <2>2. rt = "post" /\ rt' \in {"head", "exited"} /\ command' = command
    BY <1>11 DEF RtPost, RtExit
  <2> QED
    BY <2>1, <2>2 DEF Gate!Next, Gate!Latch, Gate!End
<1> QED
  BY <1>1, <1>2, <1>3, <1>4, <1>5, <1>6, <1>7, <1>8, <1>9, <1>10, <1>11 DEF Next

\* The engine implements the torque gate: within the safe limit, zero after a
\* trip, and only a new session lifts the latch (rt_thread_main,
\* process_commands, apply_torque_safety_controls).
THEOREM EngineImplementsTorqueGate == Spec => ImplementsTorqueGate
<1>1. Init => Gate!Init
  BY DEF Init, Gate!Init, Alive
<1> QED
  BY <1>1, GateStep, InductiveInvariant, PTL DEF Spec, ImplementsTorqueGate, Gate!Spec

-----------------------------------------------------------------------------
(* The watchdog                                                            *)
(*                                                                         *)
(* WatchdogInv says that who is quarantined in the statistics has an entry *)
(* in the quarantine manager, which has a lock of its own; SilenceInv, how *)
(* long a component with failed checks has been silent.                    *)

\* The times a quarantine has left, in the statistics or in the manager.
Left == (0..plugin_quarantine_duration) \cup {NONE}

\* The call of a thread; one that is to quarantine knows which plugin.
Call ==
  {x \in [at : {"idle", "quarantine", "return", "stamp", "check", "cleanup"},
          plugin : Plugins \cup {NONE}, age : 0..health_check_interval] :
     x.at = "quarantine" => x.plugin \in Plugins}

\* The inductive invariant.
WatchdogInv ==
  /\ plugin_stats \in [Plugins -> PluginStats \cup {NONE}]
  /\ quarantined \in [Plugins -> Left]
  /\ thread \in [Threads -> Call]
  /\ QuarantineHasEntry

-----------------------------------------------------------------------------
(* Statistics and calls                                                    *)

\* The statistics of a plugin keep their type and the end of its quarantine when a
\* timeout or a success is counted; fresh ones have no quarantine
\* (record_plugin_execution, or_default).
LEMMA StatsStay ==
  ASSUME plugin_stats \in [Plugins -> PluginStats \cup {NONE}], NEW p \in Plugins
  PROVE  /\ Default \in PluginStats /\ Default.quarantined_until = NONE
         /\ Entry(p) \in PluginStats
         /\ Entry(p).quarantined_until # NONE => Entry(p) = plugin_stats[p]
         /\ \A n \in 0..MostTimeouts :
              LET s == [Entry(p) EXCEPT !.consecutive_timeouts = n] IN
              s \in PluginStats /\ s.quarantined_until = Entry(p).quarantined_until
         /\ Least(Entry(p).consecutive_timeouts + 1, MostTimeouts) \in 0..MostTimeouts
         /\ 0 \in 0..MostTimeouts
<1>1. MostTimeouts \in Nat
  BY PluginWatchdogAssumption DEF MostTimeouts
<1>2. Default \in PluginStats /\ Default.quarantined_until = NONE
  BY <1>1 DEF Default, PluginStats
<1>3. /\ Entry(p) \in PluginStats
      /\ Entry(p).quarantined_until # NONE => Entry(p) = plugin_stats[p]
  BY <1>2 DEF Entry
<1>4. Entry(p).consecutive_timeouts \in 0..MostTimeouts
  BY <1>3 DEF PluginStats
<1>5. Least(Entry(p).consecutive_timeouts + 1, MostTimeouts) \in 0..MostTimeouts
  BY <1>1, <1>4 DEF Least
<1>6. ASSUME NEW n \in 0..MostTimeouts, NEW s \in PluginStats
      PROVE  /\ [s EXCEPT !.consecutive_timeouts = n] \in PluginStats
             /\ [s EXCEPT !.consecutive_timeouts = n].quarantined_until = s.quarantined_until
  BY DEF PluginStats
<1> QED
  BY <1>1, <1>2, <1>3, <1>5, <1>6

\* The calls the code makes are calls.
LEMMA Calls ==
  /\ NoCall \in Call
  /\ \A a \in {"return", "stamp", "check", "cleanup"} : [NoCall EXCEPT !.at = a] \in Call
  /\ \A p \in Plugins : [NoCall EXCEPT !.at = "quarantine", !.plugin = p] \in Call
<1>1. /\ NoCall = [at |-> "idle", plugin |-> NONE, age |-> 0]
      /\ 0 \in 0..health_check_interval
  BY PluginWatchdogAssumption DEF NoCall
<1>2. NoCall \in Call
  BY <1>1 DEF Call
<1>3. ASSUME NEW a \in {"return", "stamp", "check", "cleanup"}
      PROVE  [NoCall EXCEPT !.at = a] \in Call
  BY <1>1 DEF Call
<1>4. ASSUME NEW p \in Plugins
      PROVE  [NoCall EXCEPT !.at = "quarantine", !.plugin = p] \in Call
  BY <1>1 DEF Call
<1> QED
  BY <1>2, <1>3, <1>4

\* The invariant depends on no other variable.
LEMMA WatchdogFrame ==
  ASSUME WatchdogInv, UNCHANGED <<plugin_stats, quarantined>>, thread' \in [Threads -> Call]
  PROVE  WatchdogInv'
  BY DEF WatchdogInv, QuarantineHasEntry

\* New statistics of one plugin that keep its quarantine, or have none, keep the
\* invariant.
LEMMA OneStat ==
  ASSUME WatchdogInv, NEW p \in Plugins, NEW s \in PluginStats \cup {NONE},
         plugin_stats' = [plugin_stats EXCEPT ![p] = s], UNCHANGED quarantined,
         thread' \in [Threads -> Call],
         s # NONE /\ s.quarantined_until # NONE =>
           plugin_stats[p] # NONE /\ s.quarantined_until = plugin_stats[p].quarantined_until
  PROVE  WatchdogInv'
<1>1. plugin_stats' \in [Plugins -> PluginStats \cup {NONE}]
      /\ quarantined' \in [Plugins -> Left]
  BY DEF WatchdogInv
<1>2. ASSUME NEW q \in Plugins, plugin_stats'[q] # NONE,
             plugin_stats'[q].quarantined_until # NONE
      PROVE  quarantined'[q] # NONE /\ quarantined'[q] <= plugin_stats'[q].quarantined_until
  <2>1. CASE q = p
    BY <1>2, <2>1 DEF WatchdogInv, QuarantineHasEntry
  <2>2. CASE q # p
    BY <1>2, <2>2 DEF WatchdogInv, QuarantineHasEntry
  <2> QED
    BY <2>1, <2>2
<1> QED
  BY <1>1, <1>2 DEF WatchdogInv, QuarantineHasEntry

-----------------------------------------------------------------------------
(* Steps                                                                   *)

\* At the start no plugin is known.
LEMMA WatchdogInitSound == WatchdogInit => WatchdogInv
<1> SUFFICES ASSUME WatchdogInit PROVE WatchdogInv
  OBVIOUS
<1>1. thread \in [Threads -> Call]
  BY Calls DEF WatchdogInit
<1> QED
  BY <1>1 DEF WatchdogInit, WatchdogInv, QuarantineHasEntry, Left

\* Counting an execution leaves a quarantine as it is (record_plugin_execution).
LEMMA RecordStep ==
  ASSUME WatchdogInv, NEW t \in Threads, NEW p \in Plugins, record_timeout(t, p)
         \/ record_success(t, p)
  PROVE  WatchdogInv'
<1> DEFINE n == Least(Entry(p).consecutive_timeouts + 1, MostTimeouts)
<1>0. plugin_stats \in [Plugins -> PluginStats \cup {NONE}] /\ thread \in [Threads -> Call]
  BY DEF WatchdogInv
<1>1. thread' \in [Threads -> Call]
  BY <1>0, Calls DEF record_timeout, record_success
<1>2. UNCHANGED quarantined
  BY DEF record_timeout, record_success
<1>3. \E m \in {n, 0} :
        plugin_stats' = [plugin_stats EXCEPT ![p] = [Entry(p) EXCEPT !.consecutive_timeouts = m]]
  BY DEF record_timeout, record_success
<1>4. n \in 0..MostTimeouts /\ 0 \in 0..MostTimeouts
  BY <1>0, StatsStay
<1> HIDE DEF n
<1>5. PICK m \in 0..MostTimeouts :
        plugin_stats' = [plugin_stats EXCEPT ![p] = [Entry(p) EXCEPT !.consecutive_timeouts = m]]
  BY <1>3, <1>4
<1> DEFINE s == [Entry(p) EXCEPT !.consecutive_timeouts = m]
<1>6. /\ s \in PluginStats /\ s.quarantined_until = Entry(p).quarantined_until
      /\ Entry(p).quarantined_until # NONE => Entry(p) = plugin_stats[p]
  BY <1>0, StatsStay
<1>7. plugin_stats' = [plugin_stats EXCEPT ![p] = s]
  BY <1>5
<1>8. s.quarantined_until # NONE =>
        plugin_stats[p] # NONE /\ s.quarantined_until = plugin_stats[p].quarantined_until
  BY <1>0, <1>6, StatsStay DEF Entry
<1> HIDE DEF s
<1> QED
  BY <1>1, <1>2, <1>6, <1>7, <1>8, OneStat

\* Quarantining and releasing set both sides in one step (quarantine_plugin,
\* release_plugin_quarantine).
LEMMA BothSidesStep ==
  ASSUME WatchdogInv, NEW t \in Threads,
         quarantine_plugin(t) \/ \E p \in Plugins : release_plugin_quarantine(t, p)
  PROVE  WatchdogInv'
<1>1. PICK p \in Plugins, s \in PluginStats, left \in Left :
        /\ plugin_stats' = [plugin_stats EXCEPT ![p] = s]
        /\ quarantined' = [quarantined EXCEPT ![p] = left]
        /\ s.quarantined_until # NONE => left # NONE /\ left <= s.quarantined_until
        /\ thread' \in [Threads -> Call]
  <2>1. CASE quarantine_plugin(t)
    <3> DEFINE p == thread[t].plugin
               s == [consecutive_timeouts |-> 0,
                 quarantined_until |-> plugin_quarantine_duration]
    <3>1. p \in Plugins
      BY <2>1 DEF quarantine_plugin, WatchdogInv, Call
    <3>2. s \in PluginStats /\ s.quarantined_until = plugin_quarantine_duration
      BY PluginWatchdogAssumption DEF PluginStats, MostTimeouts
    <3>3. thread' \in [Threads -> Call]
      BY <2>1, Calls DEF quarantine_plugin, WatchdogInv
    <3>4. PICK age \in 0..plugin_quarantine_duration :
            /\ plugin_stats' = [plugin_stats EXCEPT ![p] = s]
            /\ quarantined' = [quarantined EXCEPT ![p] = plugin_quarantine_duration - age]
      BY <2>1 DEF quarantine_plugin
    <3> DEFINE left == plugin_quarantine_duration - age
    <3>5. left \in Left /\ left # NONE /\ left <= plugin_quarantine_duration
      BY PluginWatchdogAssumption DEF Left
    <3>6. quarantined' = [quarantined EXCEPT ![p] = left]
      BY <3>4
    <3> HIDE DEF p, s, left
    <3> QED
      BY <3>1, <3>2, <3>3, <3>4, <3>5, <3>6
  <2>2. CASE \E p \in Plugins : release_plugin_quarantine(t, p)
    <3>1. PICK p \in Plugins : release_plugin_quarantine(t, p)
      BY <2>2
    <3>2. Default \in PluginStats /\ Default.quarantined_until = NONE /\ NONE \in Left
      BY StatsStay, <3>1 DEF WatchdogInv, Left
    <3> QED
      BY <3>1, <3>2 DEF release_plugin_quarantine, WatchdogInv
  <2> QED
    BY <2>1, <2>2
<1>2. plugin_stats' \in [Plugins -> PluginStats \cup {NONE}]
      /\ quarantined' \in [Plugins -> Left]
  BY <1>1 DEF WatchdogInv
<1>3. ASSUME NEW q \in Plugins, plugin_stats'[q] # NONE,
             plugin_stats'[q].quarantined_until # NONE
      PROVE  quarantined'[q] # NONE /\ quarantined'[q] <= plugin_stats'[q].quarantined_until
  <2>1. CASE q = p
    <3>1. plugin_stats'[p] = s /\ quarantined'[p] = left
      BY <1>1 DEF WatchdogInv
    <3> QED
      BY <1>1, <1>3, <2>1, <3>1
  <2>2. CASE q # p
    BY <1>1, <1>3, <2>2 DEF WatchdogInv, QuarantineHasEntry
  <2> QED
    BY <2>1, <2>2
<1> QED
  BY <1>1, <1>2, <1>3 DEF WatchdogInv, QuarantineHasEntry

\* Resetting, registering and removing statistics may forget a quarantine, never make
\* one (reset_plugin_stats, reset_all_plugin_stats, register_plugin, unregister_plugin).
LEMMA RestatStep ==
  ASSUME WatchdogInv, NEW t \in Threads,
         \/ reset_all_plugin_stats(t)
         \/ \E p \in Plugins :
              reset_plugin_stats(t, p) \/ register_plugin(t, p) \/ unregister_plugin(t, p)
  PROVE  WatchdogInv'
<1>0. plugin_stats \in [Plugins -> PluginStats \cup {NONE}] /\ thread \in [Threads -> Call]
  BY DEF WatchdogInv
<1>1. thread' \in [Threads -> Call] /\ UNCHANGED quarantined
  BY <1>0 DEF reset_all_plugin_stats, reset_plugin_stats, register_plugin,
     unregister_plugin, Restat
<1>2. CASE reset_all_plugin_stats(t)
  BY <1>1, <1>2 DEF reset_all_plugin_stats, Restat, WatchdogInv, QuarantineHasEntry
<1>3. ASSUME NEW p \in Plugins,
             reset_plugin_stats(t, p) \/ register_plugin(t, p) \/ unregister_plugin(t, p)
      PROVE  WatchdogInv'
  <2>1. \E s \in {Default, Entry(p), NONE} : plugin_stats' = [plugin_stats EXCEPT ![p] = s]
    BY <1>3 DEF reset_plugin_stats, register_plugin, unregister_plugin, Restat
  <2>2. /\ Default \in PluginStats /\ Default.quarantined_until = NONE
        /\ Entry(p) \in PluginStats
        /\ Entry(p).quarantined_until # NONE => Entry(p) = plugin_stats[p]
    BY <1>0, StatsStay
  <2>3. CASE plugin_stats' = [plugin_stats EXCEPT ![p] = Default]
    BY <1>1, <2>2, <2>3, OneStat
  <2>4. CASE plugin_stats' = [plugin_stats EXCEPT ![p] = NONE]
    BY <1>1, <2>4, OneStat
  <2>5. CASE plugin_stats' = [plugin_stats EXCEPT ![p] = Entry(p)]
    <3>1. Entry(p).quarantined_until # NONE => plugin_stats[p] # NONE
      BY <2>2 DEF Entry
    <3> QED
      BY <1>1, <2>2, <2>5, <3>1, OneStat
  <2> QED
    BY <2>1, <2>3, <2>4, <2>5
<1> QED
  BY <1>2, <1>3

\* The end of a quarantine reaches both sides (cleanup_expired_with_stats).
LEMMA CleanupStep ==
  ASSUME WatchdogInv, NEW t \in Threads, Cleanup(t)
  PROVE  WatchdogInv'
<1>1. thread' \in [Threads -> Call]
  BY Calls DEF Cleanup, Return, WatchdogInv
<1>2. ASSUME NEW s \in PluginStats
      PROVE  /\ [s EXCEPT !.quarantined_until = NONE] \in PluginStats
             /\ [s EXCEPT !.quarantined_until = NONE].quarantined_until = NONE
  BY DEF PluginStats
<1>3. ASSUME NEW p \in Plugins
      PROVE  /\ plugin_stats'[p] \in PluginStats \cup {NONE}
             /\ quarantined'[p] \in Left
             /\ plugin_stats'[p] # NONE /\ plugin_stats'[p].quarantined_until # NONE
                  => /\ quarantined'[p] # NONE
                     /\ quarantined'[p] <= plugin_stats'[p].quarantined_until
  <2>1. CASE quarantined[p] = 0
    <3>1. quarantined'[p] = NONE
      BY <2>1 DEF Cleanup
    <3>2. plugin_stats'[p] = IF plugin_stats[p] # NONE
                             THEN [plugin_stats[p] EXCEPT !.quarantined_until = NONE] ELSE NONE
      BY <2>1 DEF Cleanup
    <3> QED
      BY <1>2, <3>1, <3>2 DEF WatchdogInv, Left
  <2>2. CASE quarantined[p] # 0
    <3>1. quarantined'[p] = quarantined[p] /\ plugin_stats'[p] = plugin_stats[p]
      BY <2>2 DEF Cleanup
    <3> QED
      BY <3>1 DEF WatchdogInv, QuarantineHasEntry
  <2> QED
    BY <2>1, <2>2
<1>4. /\ plugin_stats' \in [Plugins -> PluginStats \cup {NONE}]
      /\ quarantined' \in [Plugins -> Left]
  <2>1. /\ plugin_stats' = [p \in Plugins |-> plugin_stats'[p]]
        /\ quarantined' = [p \in Plugins |-> quarantined'[p]]
    BY DEF Cleanup
  <2> QED
    BY <1>3, <2>1
<1> QED
  BY <1>1, <1>3, <1>4 DEF WatchdogInv, QuarantineHasEntry

\* Time passes for both sides alike.
LEMMA TickStep ==
  ASSUME WatchdogInv, Tick
  PROVE  WatchdogInv'
<1>1. thread' \in [Threads -> Call]
  <2>1. ASSUME NEW t \in Threads PROVE thread'[t] \in Call
    <3>1. thread[t] \in Call
      BY DEF WatchdogInv
    <3>2. Older(thread[t].age, health_check_interval) \in 0..health_check_interval
      BY <3>1, PluginWatchdogAssumption DEF Call, Older, Least
    <3>3. thread'[t] \in
            {thread[t], [thread[t] EXCEPT !.age = Older(thread[t].age, health_check_interval)]}
      BY DEF Tick
    <3> QED
      BY <3>1, <3>2, <3>3 DEF Call
  <2>2. thread' = [t \in Threads |-> thread'[t]]
    BY DEF Tick
  <2> QED
    BY <2>1, <2>2
<1>2. ASSUME NEW l \in Left PROVE Shorter(l) \in Left
  BY PluginWatchdogAssumption DEF Left, Shorter
<1>3. ASSUME NEW s \in PluginStats, NEW l \in Left
      PROVE  /\ [s EXCEPT !.quarantined_until = l] \in PluginStats
             /\ [s EXCEPT !.quarantined_until = l].quarantined_until = l
  BY DEF PluginStats, Left
<1>4. ASSUME NEW p \in Plugins
      PROVE  /\ plugin_stats'[p] \in PluginStats \cup {NONE}
             /\ quarantined'[p] \in Left
             /\ plugin_stats'[p] # NONE /\ plugin_stats'[p].quarantined_until # NONE
                  => /\ quarantined'[p] # NONE
                     /\ quarantined'[p] <= plugin_stats'[p].quarantined_until
  <2>1. quarantined'[p] = Shorter(quarantined[p]) /\ quarantined[p] \in Left
    BY DEF Tick, WatchdogInv
  <2>2. CASE plugin_stats[p] = NONE
    BY <1>2, <2>1, <2>2 DEF Tick
  <2>3. CASE plugin_stats[p] # NONE
    <3> DEFINE u == plugin_stats[p].quarantined_until
    <3>1. plugin_stats[p] \in PluginStats /\ u \in Left /\ Shorter(u) \in Left
      BY <1>2, <2>3 DEF WatchdogInv, PluginStats, Left
    <3>2. plugin_stats'[p] = [plugin_stats[p] EXCEPT !.quarantined_until = Shorter(u)]
      BY <2>3 DEF Tick
    <3>3. plugin_stats'[p] \in PluginStats /\ plugin_stats'[p].quarantined_until = Shorter(u)
      BY <1>3, <3>1, <3>2
    <3>4. Shorter(u) # NONE => u # NONE
      BY DEF Shorter
    <3>5. u # NONE => quarantined[p] # NONE /\ quarantined[p] <= u
      BY <2>3 DEF WatchdogInv, QuarantineHasEntry
    <3> HIDE DEF u
    <3>6. u # NONE => Shorter(quarantined[p]) # NONE /\ Shorter(quarantined[p]) <= Shorter(u)
      BY <2>1, <3>1, <3>5, PluginWatchdogAssumption DEF Left, Shorter
    <3> QED
      BY <1>2, <2>1, <3>3, <3>4, <3>6
  <2> QED
    BY <2>2, <2>3
<1>5. /\ plugin_stats' \in [Plugins -> PluginStats \cup {NONE}]
      /\ quarantined' \in [Plugins -> Left]
  <2>1. /\ plugin_stats' = [p \in Plugins |-> plugin_stats'[p]]
        /\ quarantined' = [p \in Plugins |-> quarantined'[p]]
    BY DEF Tick
  <2> QED
    BY <1>4, <2>1
<1> QED
  BY <1>1, <1>4, <1>5 DEF WatchdogInv, QuarantineHasEntry

\* The calls about components and the sections of a health check before the cleanup
\* touch neither side.
LEMMA OtherStep ==
  ASSUME WatchdogInv, NEW t \in Threads,
         \/ Finish(t) \/ StampHealthCheck(t) \/ CheckComponents(t)
         \/ perform_health_checks(t)
         \/ \E b \in BOOLEAN : set_quarantine_policy_enabled(t, b)
         \/ \E c \in Components : heartbeat(t, c) \/ report_component_failure(t, c)
  PROVE  WatchdogInv'
<1>1. thread \in [Threads -> Call] /\ UNCHANGED <<plugin_stats, quarantined>>
  BY DEF WatchdogInv, Finish, StampHealthCheck, CheckComponents, perform_health_checks,
         set_quarantine_policy_enabled, heartbeat, report_component_failure
<1>2. \/ thread' = thread \/ thread' = [thread EXCEPT ![t] = NoCall]
      \/ \E a \in {"return", "stamp", "check", "cleanup"} :
           thread' = [thread EXCEPT ![t] = [NoCall EXCEPT !.at = a]]
  BY DEF Finish, Return, StampHealthCheck, CheckComponents, perform_health_checks,
         set_quarantine_policy_enabled, heartbeat, report_component_failure
<1>3. thread' \in [Threads -> Call]
  BY <1>1, <1>2, Calls
<1> QED
  BY <1>1, <1>3, WatchdogFrame

\* Every step of a call and of time keeps the invariant.
LEMMA WatchdogStep == WatchdogInv /\ [WatchdogNext]_watchdog_vars => WatchdogInv'
<1> SUFFICES ASSUME WatchdogInv, [WatchdogNext]_watchdog_vars PROVE WatchdogInv'
  OBVIOUS
<1>1. CASE Tick
  BY <1>1, TickStep
<1>2. ASSUME NEW t \in Threads, Begin(t) PROVE WatchdogInv'
  BY <1>2, RecordStep, BothSidesStep, RestatStep, OtherStep DEF Begin
<1>3. ASSUME NEW t \in Threads, Continue(t) PROVE WatchdogInv'
  BY <1>3, BothSidesStep, CleanupStep, OtherStep DEF Continue
<1>4. CASE UNCHANGED watchdog_vars
  BY <1>4 DEF watchdog_vars, WatchdogInv, QuarantineHasEntry
<1> QED
  BY <1>1, <1>2, <1>3, <1>4 DEF WatchdogNext

\* WatchdogInv holds in every reachable state, for any threads, plugins and durations.
THEOREM WatchdogInvariant == WatchdogSpec => []WatchdogInv
<1>1. WatchdogInit => WatchdogInv
  BY WatchdogInitSound
<1>2. WatchdogInv /\ [WatchdogNext]_watchdog_vars => WatchdogInv'
  BY WatchdogStep
<1> QED
  BY <1>1, <1>2, PTL DEF WatchdogSpec

\* A plugin that its statistics call quarantined has an entry in the manager that ends
\* no later, however many threads record, release, reset and clean up, and however far
\* the two readings of the clock are apart
\* (quarantine_plugin, release_plugin_quarantine, cleanup_expired_with_stats).
THEOREM SidesAgree == WatchdogSpec => []QuarantineHasEntry
<1>1. WatchdogInv => QuarantineHasEntry
  BY DEF WatchdogInv
<1> QED
  BY <1>1, WatchdogInvariant, PTL

-----------------------------------------------------------------------------
(* Components: how long a silence lasts before it is a fault               *)

\* One thread at most performs the health checks: the engine's only caller of
\* perform_health_checks is the update of the fault manager, which takes &mut self.
OneMonitor == \A m1, m2 \in Monitors : m1 = m2

\* The silence after k whole intervals beyond the timeout.
Silence(k) == timeout + 1 + k * health_check_interval

\* HealthCheck of a component.
Health ==
  [status : {"Unknown", "Healthy", "Degraded", "Faulted"},
   last_heartbeat : (0..Oldest) \cup {NONE}, consecutive_failures : 0..FaultedAt]

\* What n failures that nobody reported say about the age of the last heartbeat.
Overdue(age, n, last, calls) ==
  /\ age \in 0..Oldest /\ age >= timeout + 1
  /\ n >= 2 => age >= Least(Silence(n - 2) + last, Oldest)
  /\ \A m \in Monitors :
       /\ calls[m].at = "stamp" => age >= Least(Silence(n - 1) + calls[m].age, Oldest)
       /\ calls[m].at = "check" => age >= Least(Silence(n - 1) + last, Oldest)

\* The inductive invariant: a fault nobody reported is five failures in a row, and
\* each of them after the first was found a whole interval after the one before.
SilenceInv ==
  /\ health_checks \in [Components -> Health]
  /\ last_health_check \in 0..health_check_interval
  /\ reported \subseteq Components
  /\ \A t \in Threads : thread[t].at \in {"stamp", "check"} => t \in Monitors
  /\ \A c \in Components :
       /\ health_checks[c].status = "Faulted"
            => health_checks[c].consecutive_failures = FaultedAt
       /\ c \notin reported /\ health_checks[c].consecutive_failures >= 1 =>
            Overdue(health_checks[c].last_heartbeat, health_checks[c].consecutive_failures,
                    last_health_check, thread)

\* One interval more is one interval more of silence; three are past the oldest age.
LEMMA SilenceArithmetic ==
  /\ \A k \in -2..5 : Silence(k) \in Int /\ Silence(k + 1) = Silence(k) + health_check_interval
  /\ Silence(0) = timeout + 1 /\ Silence(3) = Oldest
  /\ \A k \in 3..5 : Silence(k) >= Oldest
  /\ Oldest \in Nat /\ health_check_interval \in Nat \ {0} /\ timeout \in Nat
  /\ FaultedAt = 5
  BY PluginWatchdogAssumption DEF Silence, Oldest, FaultedAt

\* A failure keeps the type, and counts one more unless the component is faulted.
LEMMA ReportFailure ==
  ASSUME NEW h \in Health, h.status = "Faulted" => h.consecutive_failures = FaultedAt
  PROVE  /\ report_failure(h) \in Health
         /\ report_failure(h).last_heartbeat = h.last_heartbeat
         /\ report_failure(h).consecutive_failures
              = IF h.consecutive_failures = FaultedAt THEN FaultedAt
                ELSE h.consecutive_failures + 1
         /\ report_failure(h).status = "Faulted" =>
              report_failure(h).consecutive_failures = FaultedAt
<1> DEFINE n == Least(h.consecutive_failures + 1, FaultedAt)
           s == IF n >= FaultedAt THEN "Faulted" ELSE IF n >= 2 THEN "Degraded" ELSE "Healthy"
<1>1. h.consecutive_failures \in 0..5 /\ FaultedAt = 5
  BY DEF Health, FaultedAt
<1>2. /\ n \in 0..FaultedAt
      /\ n = IF h.consecutive_failures = FaultedAt THEN FaultedAt ELSE h.consecutive_failures + 1
      /\ s \in {"Unknown", "Healthy", "Degraded", "Faulted"}
      /\ s = "Faulted" => n = FaultedAt
  BY <1>1 DEF Least
<1>3. report_failure(h) = [h EXCEPT !.consecutive_failures = n, !.status = s]
  BY DEF report_failure
<1> HIDE DEF n, s
<1>4. /\ report_failure(h) \in Health
      /\ report_failure(h).last_heartbeat = h.last_heartbeat
      /\ report_failure(h).consecutive_failures = n
      /\ report_failure(h).status = s
  BY <1>2, <1>3 DEF Health
<1> QED
  BY <1>2, <1>4

\* At the start no component has failed.
LEMMA SilenceInit == WatchdogInit => SilenceInv
<1> SUFFICES ASSUME WatchdogInit PROVE SilenceInv
  OBVIOUS
<1>1. ASSUME NEW c \in Components
      PROVE  /\ health_checks[c] \in Health
             /\ health_checks[c].status # "Faulted"
                  /\ health_checks[c].consecutive_failures = 0
  BY SilenceArithmetic DEF WatchdogInit, Health
<1>2. health_checks \in [Components -> Health]
  <2>1. health_checks = [c \in Components |-> health_checks[c]]
    BY DEF WatchdogInit
  <2> QED
    BY <1>1, <2>1
<1>3. last_health_check \in 0..health_check_interval /\ reported \subseteq Components
  BY SilenceArithmetic DEF WatchdogInit
<1>4. \A t \in Threads : thread[t].at \notin {"stamp", "check"}
  BY DEF WatchdogInit, NoCall
<1> QED
  BY <1>1, <1>2, <1>3, <1>4 DEF SilenceInv

\* Steps that leave the health checks alone.
LEMMA SilenceFrame ==
  ASSUME WatchdogInv, SilenceInv, NEW t \in Threads,
         UNCHANGED <<health_checks, last_health_check, reported>>,
         \/ thread' = thread
         \/ \E x \in Call : x.at \notin {"stamp", "check"}
              /\ thread' = [thread EXCEPT ![t] = x]
  PROVE  SilenceInv'
<1>1. ASSUME NEW u \in Threads, thread'[u].at \in {"stamp", "check"}
      PROVE  thread'[u] = thread[u]
  BY <1>1 DEF WatchdogInv
<1>2. Monitors \subseteq Threads
  BY PluginWatchdogAssumption
<1>3. ASSUME NEW a, NEW n, Overdue(a, n, last_health_check, thread)
      PROVE  Overdue(a, n, last_health_check', thread')
  BY <1>1, <1>2, <1>3 DEF Overdue
<1> QED
  BY <1>1, <1>3 DEF SilenceInv

\* The calls about plugins, and the last sections of any call.
LEMMA SilencePlugins ==
  ASSUME WatchdogInv, SilenceInv, NEW t \in Threads,
         \/ \E p \in Plugins :
              \/ record_timeout(t, p) \/ record_success(t, p)
              \/ release_plugin_quarantine(t, p) \/ reset_plugin_stats(t, p)
              \/ register_plugin(t, p) \/ unregister_plugin(t, p)
         \/ reset_all_plugin_stats(t)
         \/ \E b \in BOOLEAN : set_quarantine_policy_enabled(t, b)
         \/ quarantine_plugin(t) \/ Finish(t) \/ Cleanup(t)
  PROVE  SilenceInv'
<1>1. UNCHANGED <<health_checks, last_health_check, reported>>
  BY DEF record_timeout, record_success, release_plugin_quarantine, reset_plugin_stats,
         register_plugin, unregister_plugin, reset_all_plugin_stats, Restat,
         set_quarantine_policy_enabled, quarantine_plugin, Finish, Cleanup
<1>2. \/ thread' = thread \/ thread' = [thread EXCEPT ![t] = NoCall]
      \/ thread' = [thread EXCEPT ![t] = [NoCall EXCEPT !.at = "return"]]
      \/ \E p \in Plugins :
           thread' = [thread EXCEPT ![t] = [NoCall EXCEPT !.at = "quarantine", !.plugin = p]]
  BY DEF record_timeout, record_success, release_plugin_quarantine, reset_plugin_stats,
         register_plugin, unregister_plugin, reset_all_plugin_stats, Restat,
         set_quarantine_policy_enabled, quarantine_plugin, Finish, Cleanup, Return
<1>3. /\ NoCall.at = "idle" /\ [NoCall EXCEPT !.at = "return"].at = "return"
      /\ \A p \in Plugins :
           [NoCall EXCEPT !.at = "quarantine", !.plugin = p].at = "quarantine"
  BY DEF NoCall
<1>4. \/ thread' = thread
      \/ \E x \in Call : x.at \notin {"stamp", "check"} /\ thread' = [thread EXCEPT ![t] = x]
  <2>1. ASSUME NEW p \in Plugins,
               thread' = [thread EXCEPT ![t] = [NoCall EXCEPT !.at = "quarantine",
                 !.plugin = p]]
        PROVE  \E x \in Call :
                 x.at \notin {"stamp", "check"} /\ thread' = [thread EXCEPT ![t] = x]
    BY <1>3, <2>1, Calls
  <2>2. CASE thread' = [thread EXCEPT ![t] = NoCall]
    BY <1>3, <2>2, Calls
  <2>3. CASE thread' = [thread EXCEPT ![t] = [NoCall EXCEPT !.at = "return"]]
    BY <1>3, <2>3, Calls
  <2> QED
    BY <1>2, <2>1, <2>2, <2>3
<1> QED
  BY <1>1, <1>4, SilenceFrame

\* A heartbeat begins anew; a reported component makes no claim.
LEMMA SilenceCalls ==
  ASSUME WatchdogInv, SilenceInv, NEW t \in Threads, NEW c \in Components,
         heartbeat(t, c) \/ report_component_failure(t, c)
  PROVE  SilenceInv'
<1> DEFINE h == health_checks'[c]
<1>1. PICK g \in Health :
        /\ health_checks' = [health_checks EXCEPT ![c] = g]
        /\ g.status = "Faulted" => g.consecutive_failures = FaultedAt
        /\ c \in reported' \/ g.consecutive_failures = 0
        /\ reported' \subseteq Components /\ reported' \cup {c} = reported \cup {c}
  <2>1. CASE heartbeat(t, c)
    <3> DEFINE g == [status |-> "Healthy", last_heartbeat |-> 0, consecutive_failures |-> 0]
    <3>1. g \in Health /\ g.status # "Faulted" /\ g.consecutive_failures = 0
      BY SilenceArithmetic DEF Health
    <3> QED
      BY <2>1, <3>1 DEF heartbeat, SilenceInv
  <2>2. CASE report_component_failure(t, c)
    <3>1. health_checks[c] \in Health
          /\ (health_checks[c].status = "Faulted"
                => health_checks[c].consecutive_failures = FaultedAt)
      BY DEF SilenceInv
    <3>2. report_failure(health_checks[c]) \in Health
          /\ (report_failure(health_checks[c]).status = "Faulted"
                => report_failure(health_checks[c]).consecutive_failures = FaultedAt)
      BY <3>1, ReportFailure
    <3> QED
      BY <2>2, <3>2 DEF report_component_failure, SilenceInv
  <2> QED
    BY <2>1, <2>2
<1>2. UNCHANGED last_health_check
  BY DEF heartbeat, report_component_failure
<1>3. /\ thread \in [Threads -> Call] /\ Monitors \subseteq Threads
      /\ thread' \in {thread, [thread EXCEPT ![t] = [NoCall EXCEPT !.at = "return"]]}
  BY PluginWatchdogAssumption DEF WatchdogInv, heartbeat, report_component_failure
<1>4. [NoCall EXCEPT !.at = "return"].at = "return"
  BY DEF NoCall
<1>5. ASSUME NEW u \in Threads, thread'[u].at \in {"stamp", "check"}
      PROVE  thread'[u] = thread[u]
  BY <1>3, <1>4, <1>5
<1>6. ASSUME NEW a, NEW n, Overdue(a, n, last_health_check, thread)
      PROVE  Overdue(a, n, last_health_check', thread')
  BY <1>2, <1>3, <1>5, <1>6 DEF Overdue
<1>7. ASSUME NEW d \in Components
      PROVE  /\ health_checks'[d].status = "Faulted"
                  => health_checks'[d].consecutive_failures = FaultedAt
             /\ d \notin reported' /\ health_checks'[d].consecutive_failures >= 1 =>
                  Overdue(health_checks'[d].last_heartbeat,
                          health_checks'[d].consecutive_failures, last_health_check', thread')
  <2>1. CASE d = c
    BY <1>1, <2>1 DEF SilenceInv
  <2>2. CASE d # c
    <3>1. health_checks'[d] = health_checks[d] /\ (d \in reported' <=> d \in reported)
      BY <1>1, <2>2 DEF SilenceInv
    <3> QED
      BY <1>6, <3>1 DEF SilenceInv
  <2> QED
    BY <2>1, <2>2
<1>8. health_checks' \in [Components -> Health]
  BY <1>1 DEF SilenceInv
<1>9. \A u \in Threads : thread'[u].at \in {"stamp", "check"} => u \in Monitors
  BY <1>5 DEF SilenceInv
<1> QED
  BY <1>1, <1>2, <1>7, <1>8, <1>9 DEF SilenceInv

\* What is left to show of a section of a health check.
LEMMA SilenceSection ==
  ASSUME SilenceInv, UNCHANGED reported,
         health_checks' \in [Components -> Health],
         last_health_check' \in 0..health_check_interval,
         \A u \in Threads : thread'[u].at \in {"stamp", "check"} => u \in Monitors,
         \A c \in Components :
           /\ health_checks'[c].status = "Faulted" =>
                health_checks'[c].consecutive_failures = FaultedAt
           /\ c \notin reported /\ health_checks'[c].consecutive_failures >= 1 =>
                Overdue(health_checks'[c].last_heartbeat,
                  health_checks'[c].consecutive_failures,
                        last_health_check', thread')
  PROVE  SilenceInv'
  BY DEF SilenceInv

\* The interval has passed when a check begins.
LEMMA SilencePerform ==
  ASSUME OneMonitor, WatchdogInv, SilenceInv, NEW t \in Threads, perform_health_checks(t)
  PROVE  SilenceInv'
<1> DEFINE x == [NoCall EXCEPT !.at = "stamp"]
<1>1. x.at = "stamp" /\ x.age = 0
  BY DEF NoCall
<1>2. /\ t \in Monitors /\ thread \in [Threads -> Call] /\ Monitors \subseteq Threads
      /\ thread' = [thread EXCEPT ![t] = x]
      /\ UNCHANGED <<health_checks, last_health_check, reported>>
      /\ last_health_check = health_check_interval
  BY SilenceArithmetic, PluginWatchdogAssumption
     DEF perform_health_checks, HealthCheckDue, WatchdogInv, SilenceInv
<1> HIDE DEF x
<1>3. ASSUME NEW a, NEW n \in 1..5, Overdue(a, n, last_health_check, thread)
      PROVE  Overdue(a, n, last_health_check', thread')
  <2>1. n >= 2 => Silence(n - 1) = Silence(n - 2) + health_check_interval
    BY SilenceArithmetic
  <2>2. a >= Least(Silence(n - 1) + x.age, Oldest)
    <3>1. CASE n = 1
      BY <1>1, <1>3, <3>1, SilenceArithmetic DEF Overdue, Least
    <3>2. CASE n >= 2
      BY <1>1, <1>2, <1>3, <2>1, <3>2, SilenceArithmetic DEF Overdue, Least
    <3> QED
      BY <3>1, <3>2
  <2>3. ASSUME NEW m \in Monitors PROVE thread'[m] = x
    BY <1>2 DEF OneMonitor
  <2> QED
    BY <1>1, <1>2, <1>3, <2>2, <2>3 DEF Overdue
<1>4. \A u \in Threads : thread'[u].at \in {"stamp", "check"} => u \in Monitors
  BY <1>1, <1>2 DEF SilenceInv
<1>5. \A c \in Components : health_checks[c].consecutive_failures \in 0..5
  BY DEF SilenceInv, Health, FaultedAt
<1>6. \A c \in Components :
        /\ health_checks'[c].status = "Faulted" =>
             health_checks'[c].consecutive_failures = FaultedAt
        /\ c \notin reported /\ health_checks'[c].consecutive_failures >= 1 =>
             Overdue(health_checks'[c].last_heartbeat, health_checks'[c].consecutive_failures,
                     last_health_check', thread')
  <2> SUFFICES ASSUME NEW c \in Components
               PROVE  /\ health_checks'[c].status = "Faulted" =>
                           health_checks'[c].consecutive_failures = FaultedAt
                      /\ c \notin reported /\ health_checks'[c].consecutive_failures >= 1 =>
                           Overdue(health_checks'[c].last_heartbeat,
                                   health_checks'[c].consecutive_failures,
                                   last_health_check', thread')
    OBVIOUS
  <2>1. health_checks'[c] = health_checks[c]
    BY <1>2
  <2>2. /\ health_checks[c].status = "Faulted" =>
             health_checks[c].consecutive_failures = FaultedAt
        /\ c \notin reported /\ health_checks[c].consecutive_failures >= 1 =>
             Overdue(health_checks[c].last_heartbeat, health_checks[c].consecutive_failures,
                     last_health_check, thread)
    BY DEF SilenceInv
  <2>3. health_checks[c].consecutive_failures >= 1 => health_checks[c].consecutive_failures \in 1..5
    BY <1>5
  <2> QED
    BY <1>3, <2>1, <2>2, <2>3
<1>7. /\ health_checks' \in [Components -> Health]
      /\ last_health_check' \in 0..health_check_interval
  BY <1>2 DEF SilenceInv
<1> QED
  BY <1>2, <1>4, <1>6, <1>7, SilenceSection

\* The reading becomes the last check.
LEMMA SilenceStamp ==
  ASSUME OneMonitor, WatchdogInv, SilenceInv, NEW t \in Threads, StampHealthCheck(t)
  PROVE  SilenceInv'
<1> DEFINE x == [NoCall EXCEPT !.at = "check"]
<1>1. x.at = "check"
  BY DEF NoCall
<1>2. /\ t \in Monitors /\ thread \in [Threads -> Call] /\ Monitors \subseteq Threads
      /\ thread' = [thread EXCEPT ![t] = x]
      /\ UNCHANGED <<health_checks, reported>>
      /\ thread[t].at = "stamp"
      /\ last_health_check' = thread[t].age /\ thread[t].age \in 0..health_check_interval
  BY PluginWatchdogAssumption DEF StampHealthCheck, WatchdogInv, SilenceInv, Call
<1> HIDE DEF x
<1>3. ASSUME NEW a, NEW n \in 1..5, Overdue(a, n, last_health_check, thread)
      PROVE  Overdue(a, n, last_health_check', thread')
  <2>1. n >= 2 => Silence(n - 1) = Silence(n - 2) + health_check_interval
    BY SilenceArithmetic
  <2>2. a \in Nat /\ a >= Least(Silence(n - 1) + last_health_check', Oldest)
    BY <1>2, <1>3, SilenceArithmetic DEF Overdue
  <2>3. n >= 2 => a >= Least(Silence(n - 2) + last_health_check', Oldest)
    BY <1>2, <2>1, <2>2, SilenceArithmetic DEF Least
  <2>4. ASSUME NEW m \in Monitors PROVE thread'[m] = x
    BY <1>2 DEF OneMonitor
  <2> QED
    BY <1>1, <1>3, <2>2, <2>3, <2>4 DEF Overdue
<1>4. \A u \in Threads : thread'[u].at \in {"stamp", "check"} => u \in Monitors
  BY <1>1, <1>2 DEF SilenceInv
<1>5. \A c \in Components : health_checks[c].consecutive_failures \in 0..5
  BY DEF SilenceInv, Health, FaultedAt
<1>6. \A c \in Components :
        /\ health_checks'[c].status = "Faulted" =>
             health_checks'[c].consecutive_failures = FaultedAt
        /\ c \notin reported /\ health_checks'[c].consecutive_failures >= 1 =>
             Overdue(health_checks'[c].last_heartbeat, health_checks'[c].consecutive_failures,
                     last_health_check', thread')
  <2> SUFFICES ASSUME NEW c \in Components
               PROVE  /\ health_checks'[c].status = "Faulted" =>
                           health_checks'[c].consecutive_failures = FaultedAt
                      /\ c \notin reported /\ health_checks'[c].consecutive_failures >= 1 =>
                           Overdue(health_checks'[c].last_heartbeat,
                                   health_checks'[c].consecutive_failures,
                                   last_health_check', thread')
    OBVIOUS
  <2>1. health_checks'[c] = health_checks[c]
    BY <1>2
  <2>2. /\ health_checks[c].status = "Faulted" =>
             health_checks[c].consecutive_failures = FaultedAt
        /\ c \notin reported /\ health_checks[c].consecutive_failures >= 1 =>
             Overdue(health_checks[c].last_heartbeat, health_checks[c].consecutive_failures,
                     last_health_check, thread)
    BY DEF SilenceInv
  <2>3. health_checks[c].consecutive_failures >= 1 => health_checks[c].consecutive_failures \in 1..5
    BY <1>5
  <2> QED
    BY <1>3, <2>1, <2>2, <2>3
<1>7. /\ health_checks' \in [Components -> Health]
      /\ last_health_check' \in 0..health_check_interval
  BY <1>2 DEF SilenceInv
<1> QED
  BY <1>2, <1>4, <1>6, <1>7, SilenceSection

\* A check counts one failure more.
LEMMA SilenceCheck ==
  ASSUME OneMonitor, WatchdogInv, SilenceInv, NEW t \in Threads, CheckComponents(t)
  PROVE  SilenceInv'
<1> DEFINE x == [NoCall EXCEPT !.at = "cleanup"]
<1>1. x.at = "cleanup"
  BY DEF NoCall
<1>2. /\ t \in Monitors /\ thread \in [Threads -> Call] /\ Monitors \subseteq Threads
      /\ thread' = [thread EXCEPT ![t] = x]
      /\ UNCHANGED <<last_health_check, reported>>
      /\ thread[t].at = "check"
      /\ last_health_check \in 0..health_check_interval
  BY PluginWatchdogAssumption DEF CheckComponents, WatchdogInv, SilenceInv
<1>3. health_checks' = [c \in Components |-> IF TimedOut(health_checks[c])
                         THEN report_failure(health_checks[c]) ELSE health_checks[c]]
  BY DEF CheckComponents
<1> HIDE DEF x
<1>4. \A u \in Threads : thread'[u].at \in {"stamp", "check"} => u \in Monitors
  BY <1>1, <1>2 DEF SilenceInv
<1>5. ASSUME NEW m \in Monitors PROVE thread'[m] = x
  BY <1>2 DEF OneMonitor
<1>6. ASSUME NEW c \in Components
      PROVE  /\ health_checks'[c] \in Health
             /\ health_checks'[c].status = "Faulted" =>
                  health_checks'[c].consecutive_failures = FaultedAt
             /\ c \notin reported /\ health_checks'[c].consecutive_failures >= 1 =>
                  Overdue(health_checks'[c].last_heartbeat,
                    health_checks'[c].consecutive_failures,
                          last_health_check', thread')
  <2> DEFINE h == health_checks[c]
             n == h.consecutive_failures
             a == h.last_heartbeat
  <2>1. /\ h \in Health /\ n \in 0..5 /\ a \in (0..Oldest) \cup {NONE}
        /\ h.status = "Faulted" => n = FaultedAt
        /\ c \notin reported /\ n >= 1 => Overdue(a, n, last_health_check, thread)
    BY DEF SilenceInv, Health, FaultedAt
  <2>2. CASE ~TimedOut(h)
    <3>1. health_checks'[c] = h
      BY <1>3, <2>2
    <3>2. c \notin reported /\ n >= 1 => Overdue(a, n, last_health_check', thread')
      BY <1>1, <1>2, <1>5, <2>1 DEF Overdue
    <3> QED
      BY <2>1, <3>1, <3>2
  <2>3. CASE TimedOut(h)
    <3> DEFINE g == report_failure(h)
               k == g.consecutive_failures
    <3>1. health_checks'[c] = g
      BY <1>3, <2>3
    <3>2. /\ g \in Health /\ g.last_heartbeat = a
          /\ k = IF n = FaultedAt THEN FaultedAt ELSE n + 1
          /\ g.status = "Faulted" => k = FaultedAt
      BY <2>1, ReportFailure
    <3>3. a \in 0..Oldest /\ a >= timeout + 1
      BY <2>1, <2>3, SilenceArithmetic DEF TimedOut
    <3>4. k \in 1..5 /\ k >= 2 => n >= 1 /\ k <= n + 1
      BY <2>1, <3>2, SilenceArithmetic
    <3> HIDE DEF g, k, n, a, h
    <3>5. ASSUME c \notin reported PROVE Overdue(a, k, last_health_check', thread')
      <4>1. ASSUME k >= 2 PROVE a >= Least(Silence(k - 2) + last_health_check, Oldest)
        <5>1. n >= 1 /\ k \in 2..5 /\ (k = n + 1 \/ (n = 5 /\ k = 5))
          BY <2>1, <3>2, <4>1, SilenceArithmetic
        <5>2. a >= Least(Silence(n - 1) + last_health_check, Oldest)
          BY <1>2, <2>1, <3>5, <5>1 DEF Overdue
        <5>3. CASE k = n + 1
          BY <5>2, <5>3, <2>1
        <5>4. CASE n = 5 /\ k = 5
          BY <1>2, <3>3, <5>2, <5>4, SilenceArithmetic DEF Least
        <5> QED
          BY <5>1, <5>3, <5>4
      <4> QED
        BY <1>1, <1>2, <1>5, <3>3, <4>1 DEF Overdue
    <3> QED
      BY <3>1, <3>2, <3>5 DEF g, k
  <2> QED
    BY <2>2, <2>3
<1>7. health_checks' \in [Components -> Health]
  <2>1. health_checks' = [c \in Components |-> health_checks'[c]]
    BY <1>3
  <2> QED
    BY <1>6, <2>1
<1> QED
  BY <1>2, <1>4, <1>6, <1>7, SilenceSection

\* Time adds to the silence as much as to the ages of the checks.
LEMMA SilenceTick ==
  ASSUME WatchdogInv, SilenceInv, Tick
  PROVE  SilenceInv'
<1>1. UNCHANGED reported
  BY DEF Tick
<1>2. /\ last_health_check \in 0..health_check_interval
      /\ last_health_check' = Least(last_health_check + 1, health_check_interval)
  BY PluginWatchdogAssumption DEF Tick, Older, SilenceInv
<1>3. last_health_check' \in 0..health_check_interval /\ last_health_check' <= last_health_check + 1
  BY <1>2, SilenceArithmetic DEF Least
<1>4. ASSUME NEW u \in Threads
      PROVE  /\ thread'[u].at = thread[u].at
             /\ thread[u].at = "stamp" =>
                  /\ thread[u].age \in 0..health_check_interval
                  /\ thread'[u].age \in Int /\ thread'[u].age <= thread[u].age + 1
  <2>1. thread[u] \in Call
    BY DEF WatchdogInv
  <2>2. CASE thread[u].at # "stamp"
    BY <2>2 DEF Tick
  <2>3. CASE thread[u].at = "stamp"
    <3>1. thread'[u] = [thread[u] EXCEPT !.age = Older(thread[u].age, health_check_interval)]
      BY <2>3 DEF Tick
    <3>2. /\ thread[u].age \in 0..health_check_interval
          /\ thread'[u].at = thread[u].at
          /\ thread'[u].age = Older(thread[u].age, health_check_interval)
      BY <2>1, <3>1 DEF Call
    <3>3. Older(thread[u].age, health_check_interval)
            = Least(thread[u].age + 1, health_check_interval)
      BY <3>2, PluginWatchdogAssumption DEF Older
    <3> QED
      BY <3>2, <3>3, SilenceArithmetic DEF Least
  <2> QED
    BY <2>2, <2>3
<1>5. ASSUME NEW a \in 0..Oldest, NEW n \in 1..5, Overdue(a, n, last_health_check, thread)
      PROVE  Overdue(Least(a + 1, Oldest), n, last_health_check', thread')
  <2> DEFINE b == Least(a + 1, Oldest)
  <2>1. /\ b \in 0..Oldest /\ b >= a /\ (b = Oldest \/ b >= a + 1)
        /\ timeout + 1 <= a
    BY <1>5, SilenceArithmetic DEF Least, Overdue
  <2>2. Silence(n - 1) \in Int /\ Silence(n - 2) \in Int
    BY SilenceArithmetic
  <2> HIDE DEF b
  <2>3. ASSUME NEW s \in Int, NEW old \in Int, NEW new \in Int, new <= old + 1,
               a >= Least(s + old, Oldest)
        PROVE  b >= Least(s + new, Oldest)
    BY <2>1, <2>3, SilenceArithmetic DEF Least
  <2>4. b >= timeout + 1
    BY <2>1, SilenceArithmetic
  <2>5. n >= 2 => b >= Least(Silence(n - 2) + last_health_check', Oldest)
    BY <1>2, <1>3, <1>5, <2>2, <2>3 DEF Overdue
  <2>6. ASSUME NEW m \in Monitors
        PROVE  /\ thread'[m].at = "stamp"
                  => b >= Least(Silence(n - 1) + thread'[m].age, Oldest)
               /\ thread'[m].at = "check"
                    => b >= Least(Silence(n - 1) + last_health_check', Oldest)
    <3>1. m \in Threads
      BY PluginWatchdogAssumption
    <3>2. CASE thread[m].at = "stamp"
      <4>1. /\ thread'[m].at = "stamp" /\ thread[m].age \in Int
            /\ thread'[m].age \in Int /\ thread'[m].age <= thread[m].age + 1
        BY <1>4, <3>1, <3>2
      <4>2. a >= Least(Silence(n - 1) + thread[m].age, Oldest)
        BY <1>5, <3>2 DEF Overdue
      <4> QED
        BY <2>2, <2>3, <4>1, <4>2
    <3>3. CASE thread[m].at = "check"
      BY <1>2, <1>3, <1>4, <1>5, <2>2, <2>3, <3>1, <3>3 DEF Overdue
    <3> QED
      BY <1>4, <3>1, <3>2, <3>3
  <2> QED
    BY <2>1, <2>4, <2>5, <2>6 DEF Overdue, b
<1>6. ASSUME NEW c \in Components
      PROVE  /\ health_checks'[c] \in Health
             /\ health_checks'[c].status = "Faulted" =>
                  health_checks'[c].consecutive_failures = FaultedAt
             /\ c \notin reported /\ health_checks'[c].consecutive_failures >= 1 =>
                  Overdue(health_checks'[c].last_heartbeat,
                    health_checks'[c].consecutive_failures,
                          last_health_check', thread')
  <2> DEFINE h == health_checks[c]
             a == h.last_heartbeat
  <2>1. /\ h \in Health /\ h.consecutive_failures \in 0..5 /\ a \in (0..Oldest) \cup {NONE}
        /\ h.status = "Faulted" => h.consecutive_failures = FaultedAt
        /\ c \notin reported /\ h.consecutive_failures >= 1 =>
             Overdue(a, h.consecutive_failures, last_health_check, thread)
    BY DEF SilenceInv, Health, FaultedAt
  <2>2. health_checks'[c] = [h EXCEPT !.last_heartbeat = Older(h.last_heartbeat, Oldest)]
    BY DEF Tick
  <2>3. /\ Older(a, Oldest) \in (0..Oldest) \cup {NONE}
        /\ a \in 0..Oldest => Older(a, Oldest) = Least(a + 1, Oldest)
    BY <2>1, SilenceArithmetic, PluginWatchdogAssumption DEF Older, Least
  <2>4. /\ health_checks'[c] \in Health
        /\ health_checks'[c].status = h.status
        /\ health_checks'[c].consecutive_failures = h.consecutive_failures
        /\ health_checks'[c].last_heartbeat = Older(a, Oldest)
    BY <2>1, <2>2, <2>3 DEF Health
  <2>5. ASSUME c \notin reported, h.consecutive_failures >= 1
        PROVE  Overdue(Older(a, Oldest), h.consecutive_failures, last_health_check', thread')
    <3>1. Overdue(a, h.consecutive_failures, last_health_check, thread) /\ a \in 0..Oldest
      BY <2>1, <2>5 DEF Overdue
    <3>2. h.consecutive_failures \in 1..5
      BY <2>1, <2>5
    <3> HIDE DEF h, a
    <3> QED
      BY <1>5, <2>3, <3>1, <3>2
  <2> QED
    BY <2>1, <2>4, <2>5
<1>7. health_checks' \in [Components -> Health]
  <2>1. health_checks' = [c \in Components |-> health_checks'[c]]
    BY DEF Tick
  <2> QED
    BY <1>6, <2>1
<1>8. \A u \in Threads : thread'[u].at \in {"stamp", "check"} => u \in Monitors
  BY <1>4 DEF SilenceInv
<1> QED
  BY <1>1, <1>3, <1>6, <1>7, <1>8, SilenceSection

\* Every step keeps the invariant, as long as there is one monitor.
LEMMA SilenceStep ==
  ASSUME OneMonitor, WatchdogInv, SilenceInv, [WatchdogNext]_watchdog_vars
  PROVE  SilenceInv'
<1>1. CASE Tick
  BY <1>1, SilenceTick
<1>2. ASSUME NEW t \in Threads, Begin(t) PROVE SilenceInv'
  BY <1>2, SilencePlugins, SilenceCalls, SilencePerform DEF Begin
<1>3. ASSUME NEW t \in Threads, Continue(t) PROVE SilenceInv'
  BY <1>3, SilencePlugins, SilenceStamp, SilenceCheck DEF Continue
<1>4. CASE UNCHANGED watchdog_vars
  BY <1>4 DEF watchdog_vars, SilenceInv
<1> QED
  BY <1>1, <1>2, <1>3, <1>4 DEF WatchdogNext

\* A component nobody reported is faulted only when its last heartbeat is older than
\* the timeout and three intervals of the health check: one failed check is not
\* counted twice (perform_health_checks, report_failure, heartbeat).  The interval is
\* read in one section and stamped in a later one, so with two monitors it fails.
THEOREM FaultsAreLate ==
  ASSUME OneMonitor
  PROVE  WatchdogSpec => []FaultTakesTime
<1>1. WatchdogInit => SilenceInv
  BY SilenceInit
<1>2. WatchdogInv /\ SilenceInv /\ [WatchdogNext]_watchdog_vars => SilenceInv'
  BY SilenceStep
<1>3. SilenceInv => FaultTakesTime
  <2> SUFFICES ASSUME SilenceInv, NEW c \in Components,
                      health_checks[c].status = "Faulted", c \notin reported
               PROVE  health_checks[c].last_heartbeat > timeout + 3 * health_check_interval
    BY DEF FaultTakesTime
  <2>1. /\ health_checks[c].consecutive_failures = 5 /\ last_health_check \in Nat
        /\ Overdue(health_checks[c].last_heartbeat, 5, last_health_check, thread)
    BY SilenceArithmetic DEF SilenceInv
  <2>2. /\ health_checks[c].last_heartbeat \in 0..Oldest
        /\ health_checks[c].last_heartbeat >= Least(Silence(3) + last_health_check, Oldest)
    BY <2>1 DEF Overdue
  <2>3. health_checks[c].last_heartbeat >= Oldest
    BY <2>1, <2>2, SilenceArithmetic DEF Least
  <2> QED
    BY <2>2, <2>3, PluginWatchdogAssumption DEF Oldest
<1> QED
  BY <1>1, <1>2, <1>3, WatchdogInvariant, PTL DEF WatchdogSpec
=============================================================================
