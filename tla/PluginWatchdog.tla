--------------------------- MODULE PluginWatchdog ---------------------------
(***************************************************************************)
(* WatchdogSystem (crates/openracing-watchdog/src/watchdog.rs and          *)
(* watchdog/): the timeouts and quarantines of plugins, and the heartbeats *)
(* of the system's components.                                             *)
(*                                                                         *)
(* Several threads share it.  Its state lies behind six locks that are     *)
(* taken one after the other, so a call is split wherever it lets go of    *)
(* one.  The clock is relative: an instant of the past is its age, one of  *)
(* the future the time that is left, and an age counts no further than the *)
(* code can tell, which lets time pass without end.                        *)
(*                                                                         *)
(* Left out: totals, averages and metrics, which no decision reads, and    *)
(* the reason of a quarantine, which is always ConsecutiveTimeouts here.   *)
(***************************************************************************)
EXTENDS Integers

CONSTANTS
  Threads,
  Monitors,                     \* the threads that perform health checks
  Plugins,
  Components,                   \* the ones perform_health_checks looks at
  NONE,
  plugin_max_timeouts,          \* WatchdogConfig
  plugin_quarantine_duration,
  health_check_interval,
  timeout                       \* rt_thread_timeout_ms, hid_timeout_ms, ...

ASSUME PluginWatchdogAssumption ==
  /\ Monitors \subseteq Threads
  /\ NONE \notin Int \cup Plugins
  /\ plugin_max_timeouts \in Nat \ {0}
  /\ plugin_quarantine_duration \in Nat \ {0}
  /\ health_check_interval \in Nat \ {0}
  /\ timeout \in Nat

VARIABLES
  plugin_stats,              \* PluginStats of the registered plugins, or NONE
  quarantined,               \* QuarantineManager: time left of an entry, or NONE
  quarantine_policy_enabled,
  health_checks,
  last_health_check,         \* its age
  thread,                    \* the call each thread is in
  reported                   \* history: components reported since their last heartbeat

watchdog_vars == <<plugin_stats, quarantined, quarantine_policy_enabled, health_checks,
          last_health_check, thread, reported>>

\* report_failure counts on, but from here on the status stays Faulted.
FaultedAt == 5

\* Ages beyond these look alike to the code.
Oldest == timeout + 3 * health_check_interval + 1

\* Timeouts in a row beyond this look alike to the code.
MostTimeouts == plugin_max_timeouts + 1

Least(a, b) == IF a < b THEN a ELSE b

Default == [consecutive_timeouts |-> 0, quarantined_until |-> NONE]

NoCall == [at |-> "idle", plugin |-> NONE, age |-> 0]

WatchdogInit ==
  /\ plugin_stats = [p \in Plugins |-> NONE]
  /\ quarantined = [p \in Plugins |-> NONE]
  /\ quarantine_policy_enabled = TRUE
  /\ health_checks = [c \in Components |->
       [status |-> "Unknown", last_heartbeat |-> NONE, consecutive_failures |-> 0]]
  /\ last_health_check = 0
  /\ thread = [t \in Threads |-> NoCall]
  /\ reported = {}

idle(t) == thread[t].at = "idle"

Return(t) == thread' = [thread EXCEPT ![t] = NoCall]

-----------------------------------------------------------------------------
(* Plugins                                                                 *)

\* entry(plugin_id).or_default()
Entry(p) == IF plugin_stats[p] = NONE THEN Default ELSE plugin_stats[p]

\* Mutant: only the timeout that reaches the limit counts.
LimitReachedOnce(s) == quarantine_policy_enabled /\ s.consecutive_timeouts = plugin_max_timeouts

\* The limit has been reached, or passed while the policy was off.
LimitReached(s) == quarantine_policy_enabled /\ s.consecutive_timeouts >= plugin_max_timeouts

\* record_plugin_execution: counted and decided in one section ...
record_timeout(t, p) ==
  LET s == [Entry(p) EXCEPT !.consecutive_timeouts =
              Least(Entry(p).consecutive_timeouts + 1, MostTimeouts)] IN
  /\ idle(t)
  /\ plugin_stats' = [plugin_stats EXCEPT ![p] = s]
  /\ thread' = [thread EXCEPT ![t] = IF LimitReached(s)
                  THEN [NoCall EXCEPT !.at = "quarantine", !.plugin = p]
                  ELSE [NoCall EXCEPT !.at = "return"]]
  /\ UNCHANGED <<quarantined, quarantine_policy_enabled, health_checks, last_health_check,
                 reported>>

record_success(t, p) ==
  /\ idle(t)
  /\ plugin_stats' = [plugin_stats EXCEPT ![p] = [Entry(p) EXCEPT !.consecutive_timeouts = 0]]
  /\ UNCHANGED <<quarantined, quarantine_policy_enabled, health_checks, last_health_check,
                 thread, reported>>

\* ... and carried out in another, whatever has happened in between.  The clock is
\* read for the entry and again for the statistics; age is what lies between.
quarantine_plugin(t) ==
  LET p == thread[t].plugin IN
  /\ thread[t].at = "quarantine"
  /\ plugin_stats' = [plugin_stats EXCEPT ![p] =
       [consecutive_timeouts |-> 0, quarantined_until |-> plugin_quarantine_duration]]
  /\ \E age \in 0..plugin_quarantine_duration :
       quarantined' = [quarantined EXCEPT ![p] = plugin_quarantine_duration - age]
  /\ thread' = [thread EXCEPT ![t] = [NoCall EXCEPT !.at = "return"]]
  /\ UNCHANGED <<quarantine_policy_enabled, health_checks, last_health_check, reported>>

\* A call ends; the fault callbacks run in it, after the other locks have been
\* released.
Finish(t) ==
  /\ thread[t].at = "return"
  /\ Return(t)
  /\ UNCHANGED <<plugin_stats, quarantined, quarantine_policy_enabled, health_checks,
                 last_health_check, reported>>

\* PluginStats::is_quarantined
is_quarantined(p) ==
  plugin_stats[p] # NONE /\ plugin_stats[p].quarantined_until \notin {NONE, 0}

release_plugin_quarantine(t, p) ==
  /\ idle(t)
  /\ is_quarantined(p) /\ quarantined[p] # NONE
  /\ quarantined' = [quarantined EXCEPT ![p] = NONE]
  /\ plugin_stats' = [plugin_stats EXCEPT ![p] = Default]
  /\ UNCHANGED <<quarantine_policy_enabled, health_checks, last_health_check, thread, reported>>

\* reset_plugin_stats, unregister_plugin, reset_all_plugin_stats and register_plugin
\* leave the quarantine manager as it is.
Restat(t, stats) ==
  /\ idle(t)
  /\ plugin_stats' = stats
  /\ UNCHANGED <<quarantined, quarantine_policy_enabled, health_checks, last_health_check,
                 thread, reported>>

reset_plugin_stats(t, p) ==
  plugin_stats[p] # NONE /\ Restat(t, [plugin_stats EXCEPT ![p] = Default])

reset_all_plugin_stats(t) == Restat(t, [p \in Plugins |-> NONE])

register_plugin(t, p) == Restat(t, [plugin_stats EXCEPT ![p] = Entry(p)])

unregister_plugin(t, p) ==
  plugin_stats[p] # NONE /\ Restat(t, [plugin_stats EXCEPT ![p] = NONE])

set_quarantine_policy_enabled(t, enabled) ==
  /\ idle(t)
  /\ quarantine_policy_enabled' = enabled
  /\ UNCHANGED <<plugin_stats, quarantined, health_checks, last_health_check, thread, reported>>

-----------------------------------------------------------------------------
(* Components                                                              *)

report_failure(h) ==
  LET n == Least(h.consecutive_failures + 1, FaultedAt) IN
  [h EXCEPT !.consecutive_failures = n,
            !.status = IF n >= FaultedAt THEN "Faulted"
                       ELSE IF n >= 2 THEN "Degraded" ELSE "Healthy"]

\* Mutant: a component is checked only while it is healthy.
TimedOutHealthy(h) ==
  h.last_heartbeat # NONE /\ h.last_heartbeat > timeout /\ h.status = "Healthy"

\* Whether check_timeout reports a failure; a component that never sent a
\* heartbeat does not time out.
TimedOut(h) == h.last_heartbeat # NONE /\ h.last_heartbeat > timeout

heartbeat(t, c) ==
  /\ idle(t)
  /\ health_checks' = [health_checks EXCEPT ![c] =
       [status |-> "Healthy", last_heartbeat |-> 0, consecutive_failures |-> 0]]
  /\ reported' = reported \ {c}
  /\ UNCHANGED <<plugin_stats, quarantined, quarantine_policy_enabled, last_health_check, thread>>

\* A component that is now faulted is announced once its lock has been released.
report_component_failure(t, c) ==
  LET h == report_failure(health_checks[c]) IN
  /\ idle(t)
  /\ health_checks' = [health_checks EXCEPT ![c] = h]
  /\ reported' = reported \cup {c}
  /\ thread' = IF h.status = "Faulted"
               THEN [thread EXCEPT ![t] = [NoCall EXCEPT !.at = "return"]] ELSE thread
  /\ UNCHANGED <<plugin_stats, quarantined, quarantine_policy_enabled, last_health_check>>

\* Mutant: the interval is not looked at.
HealthCheckDueAlways == TRUE

HealthCheckDue == last_health_check >= health_check_interval

\* perform_health_checks: the clock is read and compared with the last check ...
perform_health_checks(t) ==
  /\ t \in Monitors /\ idle(t)
  /\ HealthCheckDue
  /\ thread' = [thread EXCEPT ![t] = [NoCall EXCEPT !.at = "stamp"]]
  /\ UNCHANGED <<plugin_stats, quarantined, quarantine_policy_enabled, health_checks,
                 last_health_check, reported>>

\* ... the reading, which may be old by now, becomes the last check ...
StampHealthCheck(t) ==
  /\ thread[t].at = "stamp"
  /\ last_health_check' = thread[t].age
  /\ thread' = [thread EXCEPT ![t] = [NoCall EXCEPT !.at = "check"]]
  /\ UNCHANGED <<plugin_stats, quarantined, quarantine_policy_enabled, health_checks, reported>>

\* Mutant: a check that finds a fault is over.
CheckComponentsReturns(t) ==
  /\ thread[t].at = "check"
  /\ health_checks' = [c \in Components |-> IF TimedOut(health_checks[c])
                         THEN report_failure(health_checks[c]) ELSE health_checks[c]]
  /\ thread' = [thread EXCEPT ![t] =
       IF \E c \in Components : TimedOut(health_checks[c])
       THEN NoCall ELSE [NoCall EXCEPT !.at = "cleanup"]]
  /\ UNCHANGED <<plugin_stats, quarantined, quarantine_policy_enabled, last_health_check,
                 reported>>

\* ... the heartbeats are checked ...
CheckComponents(t) ==
  /\ thread[t].at = "check"
  /\ health_checks' = [c \in Components |-> IF TimedOut(health_checks[c])
                         THEN report_failure(health_checks[c]) ELSE health_checks[c]]
  /\ thread' = [thread EXCEPT ![t] = [NoCall EXCEPT !.at = "cleanup"]]
  /\ UNCHANGED <<plugin_stats, quarantined, quarantine_policy_enabled, last_health_check,
                 reported>>

\* Mutant: cleanup_expired, which leaves the statistics alone.
CleanupOnlyManager(t) ==
  LET expired == {p \in Plugins : quarantined[p] = 0} IN
  /\ thread[t].at = "cleanup"
  /\ quarantined' = [p \in Plugins |-> IF p \in expired THEN NONE ELSE quarantined[p]]
  /\ Return(t)
  /\ UNCHANGED <<plugin_stats, quarantine_policy_enabled, health_checks, last_health_check,
                 reported>>

\* ... and expired quarantines end (cleanup_expired_with_stats).
Cleanup(t) ==
  LET expired == {p \in Plugins : quarantined[p] = 0} IN
  /\ thread[t].at = "cleanup"
  /\ quarantined' = [p \in Plugins |-> IF p \in expired THEN NONE ELSE quarantined[p]]
  /\ plugin_stats' = [p \in Plugins |->
       IF p \in expired /\ plugin_stats[p] # NONE
       THEN [plugin_stats[p] EXCEPT !.quarantined_until = NONE] ELSE plugin_stats[p]]
  /\ Return(t)
  /\ UNCHANGED <<quarantine_policy_enabled, health_checks, last_health_check, reported>>

-----------------------------------------------------------------------------
Older(age, oldest) == IF age = NONE THEN NONE ELSE Least(age + 1, oldest)
Shorter(left) == IF left \in {NONE, 0} THEN left ELSE left - 1

Tick ==
  /\ plugin_stats' = [p \in Plugins |-> IF plugin_stats[p] = NONE THEN NONE
       ELSE [plugin_stats[p] EXCEPT !.quarantined_until =
                Shorter(plugin_stats[p].quarantined_until)]]
  /\ quarantined' = [p \in Plugins |-> Shorter(quarantined[p])]
  /\ health_checks' = [c \in Components |->
       [health_checks[c] EXCEPT !.last_heartbeat = Older(@, Oldest)]]
  /\ last_health_check' = Older(last_health_check, health_check_interval)
  /\ thread' = [t \in Threads |-> IF thread[t].at = "stamp"
       THEN [thread[t] EXCEPT !.age = Older(thread[t].age, health_check_interval)] ELSE thread[t]]
  /\ UNCHANGED <<quarantine_policy_enabled, reported>>

\* The rest of a call that has begun.
Continue(t) ==
  \/ quarantine_plugin(t) \/ Finish(t)
  \/ StampHealthCheck(t) \/ CheckComponents(t) \/ Cleanup(t)

Begin(t) ==
  \/ \E p \in Plugins :
       \/ record_timeout(t, p) \/ record_success(t, p)
       \/ release_plugin_quarantine(t, p) \/ reset_plugin_stats(t, p)
       \/ register_plugin(t, p) \/ unregister_plugin(t, p)
  \/ reset_all_plugin_stats(t)
  \/ \E b \in BOOLEAN : set_quarantine_policy_enabled(t, b)
  \/ \E c \in Components : heartbeat(t, c) \/ report_component_failure(t, c)
  \/ perform_health_checks(t)

WatchdogNext == Tick \/ \E t \in Threads : Begin(t) \/ Continue(t)

WatchdogSpec == WatchdogInit /\ [][WatchdogNext]_watchdog_vars

\* Time passes, calls go on, and the thread that updates the fault manager calls
\* perform_health_checks on every update, whatever else it does.
WatchdogFairness ==
  /\ WF_watchdog_vars(Tick)
  /\ \A t \in Threads : WF_watchdog_vars(Continue(t))
  /\ \A t \in Monitors : SF_watchdog_vars(perform_health_checks(t))

WatchdogFairSpec == WatchdogSpec /\ WatchdogFairness

-----------------------------------------------------------------------------
(* Properties                                                              *)

PluginStats ==
  [consecutive_timeouts : 0..MostTimeouts,
   quarantined_until : (0..plugin_quarantine_duration) \cup {NONE}]

WatchdogTypeOK ==
  /\ plugin_stats \in [Plugins -> PluginStats \cup {NONE}]
  /\ quarantined \in [Plugins -> (0..plugin_quarantine_duration) \cup {NONE}]
  /\ quarantine_policy_enabled \in BOOLEAN
  /\ health_checks \in [Components ->
       [status : {"Unknown", "Healthy", "Degraded", "Faulted"},
        last_heartbeat : (0..Oldest) \cup {NONE}, consecutive_failures : 0..FaultedAt]]
  /\ last_health_check \in 0..health_check_interval
  /\ thread \in [Threads ->
       [at : {"idle", "quarantine", "return", "stamp", "check", "cleanup"},
        plugin : Plugins \cup {NONE}, age : 0..health_check_interval]]
  /\ reported \subseteq Components

\* A plugin whose statistics say it is quarantined has an entry in the quarantine
\* manager that ends no later, so that release_plugin_quarantine finds it, and the
\* cleanup after its end finds it expired, however calls interleave
\* (quarantine_plugin, cleanup_expired_with_stats).
QuarantineHasEntry ==
  \A p \in Plugins :
    plugin_stats[p] # NONE /\ plugin_stats[p].quarantined_until # NONE =>
      quarantined[p] # NONE /\ quarantined[p] <= plugin_stats[p].quarantined_until

\* As long as one thread performs the health checks, a component that nobody
\* reports is faulted only after more than three whole intervals of silence beyond
\* its timeout, however late the sections of a check run.  Only the interval
\* check, taken before the stamp, keeps the five failures apart
\* (perform_health_checks, check_timeout, report_failure).
FaultTakesTime ==
  \A c \in Components :
    health_checks[c].status = "Faulted" /\ c \notin reported =>
      health_checks[c].last_heartbeat > timeout + 3 * health_check_interval

\* With the policy on, a plugin that times out again and again, and neither
\* succeeds nor is reset or released, is quarantined: two threads that count its
\* timeouts lose none (record_plugin_execution, quarantine_plugin).
TimeoutsQuarantine ==
  \A p \in Plugins :
    /\ <>[][/\ quarantine_policy_enabled'
            /\ \A t \in Threads :
                 /\ ~record_success(t, p) /\ ~reset_plugin_stats(t, p)
                 /\ ~release_plugin_quarantine(t, p)
                 /\ ~unregister_plugin(t, p) /\ ~reset_all_plugin_stats(t)]_watchdog_vars
    /\ []<><<\E t \in Threads : record_timeout(t, p)>>_watchdog_vars
    => []<>is_quarantined(p)

\* A plugin that is not quarantined again is free in the end, in the statistics and
\* in the manager, whatever faults the health checks find on the way.
QuarantineEnds ==
  \A p \in Plugins :
    <>[][\A t \in Threads : ~(thread[t].plugin = p /\ quarantine_plugin(t))]_watchdog_vars
    => <>[](quarantined[p] = NONE /\ ~is_quarantined(p))

\* A component that has sent a heartbeat and stops is faulted in the end.
SilenceIsFaulted ==
  \A c \in Components :
    <>[][\A t \in Threads : ~heartbeat(t, c)]_watchdog_vars
    => <>[](health_checks[c].last_heartbeat # NONE => health_checks[c].status = "Faulted")
=============================================================================
