----------------------------- MODULE PluginHost -----------------------------
(***************************************************************************)
(* The plugin host (crates/plugins/src/host.rs, PluginHost) with its       *)
(* quarantine manager (crates/plugins/src/quarantine.rs) and the tables of *)
(* plugin instances it drives (WasmPluginHost in crates/plugins/src/       *)
(* wasm.rs, NativePluginHost in crates/openracing-native-plugin/src/       *)
(* loader.rs).                                                             *)
(*                                                                         *)
(* Several tasks call one host.  A call is split where it releases a lock: *)
(* the quarantine manager and the registry are locked one after the other, *)
(* never together.  The registry is read-locked while a plugin executes    *)
(* and write-locked while one is loaded.  One unit of time is a minute.    *)
(*                                                                         *)
(* Left out: PluginStats and the total counters, which nothing reads back; *)
(* manifests; records of timeout and capability violations, which are kept *)
(* and counted nowhere.                                                    *)
(***************************************************************************)
EXTENDS Integers, Sequences, FiniteSets

CONSTANTS
  Tasks,                        \* callers of the host
  Safe,                         \* plugins of PluginClass::Safe (WASM)
  Fast,                         \* plugins of PluginClass::Fast (native)
  NONE,
  max_crashes,                  \* QuarantinePolicy
  max_budget_violations,
  violation_window_minutes,
  quarantine_duration_minutes,
  max_escalation_levels,
  ManualMinutes,                \* durations an operator quarantines for
  MaxViolations,                \* bound of the model on violations of a plugin
  MaxTime                       \* bound of the model on the clock

Plugins == Safe \cup Fast

ASSUME PluginHostAssumption ==
  /\ IsFiniteSet(Tasks) /\ NONE \notin Tasks
  /\ Safe \cap Fast = {}
  /\ max_crashes \in Nat \ {0} /\ max_budget_violations \in Nat \ {0}
  /\ violation_window_minutes \in Nat /\ quarantine_duration_minutes \in Nat
  /\ max_escalation_levels \in Nat
  /\ ManualMinutes \subseteq Nat
  /\ MaxViolations \in Nat /\ MaxTime \in Nat

VARIABLES
  now,          \* Utc::now(), in minutes
  registry,     \* is_loaded and is_enabled of every plugin found by a scan
  instances,    \* plugins in the tables of the WASM and the native host
  lock,         \* the task that holds the registry's write lock
  quarantine,   \* QuarantineState of every plugin
  task          \* the call each task is in

vars == <<now, registry, instances, lock, quarantine, task>>

Idle == [at |-> "idle", plugin |-> NONE, todo |-> {}, kind |-> NONE]

NoState == [is_quarantined |-> FALSE, quarantine_start |-> NONE, quarantine_end |-> NONE,
            escalation_level |-> 0, Crash |-> <<>>, Budget |-> <<>>]

Found == [is_loaded |-> FALSE, is_enabled |-> TRUE]

Init ==
  /\ now = 0
  /\ registry = [p \in Plugins |-> Found]
  /\ instances = {}
  /\ lock = NONE
  /\ quarantine = [p \in Plugins |-> NoState]
  /\ task = [t \in Tasks |-> Idle]

Running == {t \in Tasks : task[t].at = "run"}

CanRead == lock = NONE
CanWrite == lock = NONE /\ Running = {}

\* A call, or one plugin of a bulk call, is over.
Return(t) ==
  task' = [task EXCEPT ![t] = IF @.todo = {} THEN Idle
                              ELSE [task[t] EXCEPT !.at = task[t].kind, !.plugin = NONE]]

Go(t, at) == task' = [task EXCEPT ![t].at = at]

-----------------------------------------------------------------------------
(* QuarantineManager                                                       *)

\* A quarantine whose end has passed.
Expired(q) == q.quarantine_end # NONE /\ now > q.quarantine_end

\* A quarantine ends; as history, the records kept are marked as older than that.
Lift(q) ==
  LET Old(records) == [i \in DOMAIN records |-> [records[i] EXCEPT !.since = FALSE]] IN
  [q EXCEPT !.is_quarantined = FALSE, !.quarantine_start = NONE, !.quarantine_end = NONE,
            !.Crash = Old(@), !.Budget = Old(@)]

\* is_quarantined, which lifts a quarantine that has expired.
is_quarantined(p) == quarantine[p].is_quarantined /\ ~Expired(quarantine[p])

CheckQuarantine(p) ==
  quarantine' = [quarantine EXCEPT ![p] = IF Expired(@) THEN Lift(@) ELSE @]

\* A record is the time of the violation and, as history, whether no quarantine
\* has been lifted since.
\*
\* cleanup_old_violations_for_plugin keeps what is younger than the window.  The
\* records lie in the order of their times, so what goes is the first of them.
Outdated(records) ==
  CHOOSE k \in 0..Len(records) : \A i \in DOMAIN records :
    records[i].time > now - violation_window_minutes <=> i > k

Recent(records) == SubSeq(records, Outdated(records) + 1, Len(records))

should_quarantine(q) ==
  ~q.is_quarantined /\ (Len(q.Crash) >= max_crashes \/ Len(q.Budget) >= max_budget_violations)

\* Escalating duration: base * 2^level, level counted from 1.  A level above
\* max_escalation_levels behaves as that one, and is kept as that one.
quarantine_plugin_by_id(q) ==
  LET level == IF q.escalation_level < max_escalation_levels
               THEN q.escalation_level + 1 ELSE max_escalation_levels
  IN [q EXCEPT !.is_quarantined = TRUE, !.escalation_level = level,
               !.quarantine_start = now,
               !.quarantine_end = now + quarantine_duration_minutes * 2^level]

record_violation(p, kind) ==
  LET q == quarantine[p]
      added == IF kind \in {"Crash", "Budget"}
               THEN [q EXCEPT ![kind] = Append(@, [time |-> now, since |-> TRUE])]
               ELSE q
      kept == [added EXCEPT !.Crash = Recent(@), !.Budget = Recent(@)]
  IN quarantine' = [quarantine EXCEPT
       ![p] = IF should_quarantine(kept) THEN quarantine_plugin_by_id(kept) ELSE kept]

-----------------------------------------------------------------------------
(* load_plugin: the quarantine is checked, then the registry is locked     *)

LoadCheck(t, p, todo) ==
  /\ CheckQuarantine(p)
  /\ task' = [task EXCEPT ![t] =
       IF ~is_quarantined(p)
       THEN [at |-> "load", plugin |-> p, todo |-> todo, kind |-> "load_next"]
       ELSE IF todo = {} THEN Idle
       ELSE [at |-> "load_next", plugin |-> NONE, todo |-> todo, kind |-> "load_next"]]
  /\ UNCHANGED <<now, registry, instances, lock>>

load_plugin(t, p) == task[t].at = "idle" /\ LoadCheck(t, p, {})

\* Mutant: a disabled plugin is loaded.
LoadLockAny(t) ==
  /\ task[t].at = "load"
  /\ CanWrite
  /\ LET entry == registry[task[t].plugin] IN
       IF entry.is_loaded
       THEN Return(t) /\ UNCHANGED lock
       ELSE Go(t, "loading") /\ lock' = t
  /\ UNCHANGED <<now, registry, instances, quarantine>>

LoadLock(t) ==
  /\ task[t].at = "load"
  /\ CanWrite
  /\ LET entry == registry[task[t].plugin] IN
       IF entry.is_loaded \/ ~entry.is_enabled
       THEN Return(t) /\ UNCHANGED lock
       ELSE Go(t, "loading") /\ lock' = t
  /\ UNCHANGED <<now, registry, instances, quarantine>>

\* The host of the plugin's class has loaded it, or has failed to.
LoadEnd(t, ok) ==
  /\ task[t].at = "loading"
  /\ IF ok
     THEN /\ registry' = [registry EXCEPT ![task[t].plugin].is_loaded = TRUE]
          /\ instances' = instances \cup {task[t].plugin}
     ELSE UNCHANGED <<registry, instances>>
  /\ lock' = NONE
  /\ Return(t)
  /\ UNCHANGED <<now, quarantine>>

-----------------------------------------------------------------------------
(* unload_plugin: the instance leaves its table, then its shutdown runs;   *)
(* when that fails the registry goes on to say it is loaded.  A native     *)
(* plugin's shutdown does not fail.                                        *)

UnloadSection(t, shutdown_ok) ==
  LET p == task[t].plugin IN
  /\ task[t].at = "unload"
  /\ CanWrite
  /\ shutdown_ok \/ (p \in Safe /\ p \in instances /\ registry[p].is_loaded)
  /\ IF registry[p].is_loaded
     THEN /\ instances' = instances \ {p}
          /\ registry' = [registry EXCEPT ![p].is_loaded = ~shutdown_ok]
     ELSE UNCHANGED <<registry, instances>>
  /\ Return(t)
  /\ UNCHANGED <<now, lock, quarantine>>

unload_plugin(t, p) ==
  /\ task[t].at = "idle"
  /\ task' = [task EXCEPT ![t] = [Idle EXCEPT !.at = "unload", !.plugin = p]]
  /\ UNCHANGED <<now, registry, instances, lock, quarantine>>

-----------------------------------------------------------------------------
(* Bulk loading and unloading work on a snapshot of the registry           *)

load_all_plugins(t) ==
  LET ids == {p \in Plugins : registry[p].is_enabled /\ ~registry[p].is_loaded} IN
  /\ task[t].at = "idle" /\ CanRead
  /\ ids # {}
  /\ task' = [task EXCEPT ![t] =
       [at |-> "load_next", plugin |-> NONE, todo |-> ids, kind |-> "load_next"]]
  /\ UNCHANGED <<now, registry, instances, lock, quarantine>>

LoadNext(t, p) ==
  /\ task[t].at = "load_next" /\ p \in task[t].todo
  /\ LoadCheck(t, p, task[t].todo \ {p})

unload_all_plugins(t) ==
  LET ids == {p \in Plugins : registry[p].is_loaded} IN
  /\ task[t].at = "idle" /\ CanRead
  /\ ids # {}
  /\ task' = [task EXCEPT ![t] =
       [at |-> "unload_next", plugin |-> NONE, todo |-> ids, kind |-> "unload_next"]]
  /\ UNCHANGED <<now, registry, instances, lock, quarantine>>

UnloadNext(t, p) ==
  /\ task[t].at = "unload_next" /\ p \in task[t].todo
  /\ task' = [task EXCEPT ![t] =
       [at |-> "unload", plugin |-> p, todo |-> @.todo \ {p}, kind |-> "unload_next"]]
  /\ UNCHANGED <<now, registry, instances, lock, quarantine>>

-----------------------------------------------------------------------------
(* execute_plugin                                                          *)

\* Bound of the model: executions are begun while their violations can be kept.
RoomFor(p) ==
  Len(quarantine[p].Crash) + Len(quarantine[p].Budget)
    + Cardinality({t \in Tasks : task[t].at \in {"exec", "run", "record"}}) < MaxViolations

\* Mutant: an execution is admitted whatever the quarantine says.
execute_pluginUnchecked(t, p) ==
  /\ task[t].at = "idle" /\ RoomFor(p)
  /\ CheckQuarantine(p)
  /\ task' = [task EXCEPT ![t] = [Idle EXCEPT !.at = "exec", !.plugin = p]]
  /\ UNCHANGED <<now, registry, instances, lock>>

execute_plugin(t, p) ==
  /\ task[t].at = "idle" /\ RoomFor(p)
  /\ CheckQuarantine(p)
  /\ task' = IF is_quarantined(p) THEN task
             ELSE [task EXCEPT ![t] = [Idle EXCEPT !.at = "exec", !.plugin = p]]
  /\ UNCHANGED <<now, registry, instances, lock>>

\* The registry is read-locked and stays so while the plugin runs; executing a
\* native plugin is an error of its own, which counts as a crash.
ExecuteLock(t) ==
  LET p == task[t].plugin IN
  /\ task[t].at = "exec"
  /\ CanRead
  /\ IF ~registry[p].is_loaded
     THEN Return(t)
     ELSE task' = [task EXCEPT ![t] = IF p \in Safe THEN [@ EXCEPT !.at = "run"]
                                      ELSE [@ EXCEPT !.at = "record", !.kind = "Crash"]]
  /\ UNCHANGED <<now, registry, instances, lock, quarantine>>

\* The plugin has returned: in time (NONE), over its budget (Budget), or with an
\* error.  A plugin that is not in the table is an error too.
ExecuteEnd(t, kind) ==
  /\ task[t].at = "run"
  /\ task[t].plugin \notin instances => kind = "Crash"
  /\ IF kind = NONE THEN Go(t, "stats")
     ELSE task' = [task EXCEPT ![t].at = "record", ![t].kind = kind]
  /\ UNCHANGED <<now, registry, instances, lock, quarantine>>

ExecuteRecord(t) ==
  LET p == task[t].plugin IN
  /\ task[t].at = "record"
  /\ record_violation(p, task[t].kind)
  /\ task' = [task EXCEPT ![t].at = "stats", ![t].kind = NONE]
  /\ UNCHANGED <<now, registry, instances, lock>>

\* The statistics lie in the registry, which is write-locked for them.
ExecuteStats(t) ==
  /\ task[t].at = "stats"
  /\ CanWrite
  /\ Return(t)
  /\ UNCHANGED <<now, registry, instances, lock, quarantine>>

-----------------------------------------------------------------------------
(* Enabling, manual quarantine, release, rescan                            *)

\* Mutant: the registry stays locked while unload_plugin is called.
set_plugin_enabledLocked(t, p, enabled) ==
  /\ task[t].at = "idle"
  /\ CanWrite
  /\ registry' = [registry EXCEPT ![p].is_enabled = enabled]
  /\ IF ~enabled /\ registry[p].is_loaded
     THEN /\ task' = [task EXCEPT ![t] = [Idle EXCEPT !.at = "unload", !.plugin = p]]
          /\ lock' = t
     ELSE UNCHANGED <<task, lock>>
  /\ UNCHANGED <<now, instances, quarantine>>

\* The registry is unlocked before unload_plugin is called.
set_plugin_enabled(t, p, enabled) ==
  /\ task[t].at = "idle"
  /\ CanWrite
  /\ registry' = [registry EXCEPT ![p].is_enabled = enabled]
  /\ task' = IF ~enabled /\ registry[p].is_loaded
             THEN [task EXCEPT ![t] = [Idle EXCEPT !.at = "unload", !.plugin = p]]
             ELSE task
  /\ UNCHANGED <<now, instances, lock, quarantine>>

\* manual_quarantine, then unload_plugin.
quarantine_plugin(t, p, minutes) ==
  /\ task[t].at = "idle"
  /\ quarantine' = [quarantine EXCEPT ![p].is_quarantined = TRUE,
                                      ![p].quarantine_start = now,
                                      ![p].quarantine_end = now + minutes]
  /\ task' = [task EXCEPT ![t] = [Idle EXCEPT !.at = "unload", !.plugin = p]]
  /\ UNCHANGED <<now, registry, instances, lock>>

release_from_quarantine(t, p) ==
  /\ task[t].at = "idle"
  /\ quarantine[p].is_quarantined
  /\ quarantine' = [quarantine EXCEPT ![p] = Lift(@)]
  /\ UNCHANGED <<now, registry, instances, lock, task>>

\* scan_plugins takes the host by &mut, so no call is under way; it enters the
\* plugins it finds anew, whether or not they are loaded.
scan_plugins(found) ==
  /\ \A t \in Tasks : task[t].at = "idle"
  /\ registry' = [p \in Plugins |-> IF p \in found THEN Found ELSE registry[p]]
  /\ UNCHANGED <<now, instances, lock, quarantine, task>>

Tick ==
  /\ now < MaxTime
  /\ now' = now + 1
  /\ UNCHANGED <<registry, instances, lock, quarantine, task>>

-----------------------------------------------------------------------------
\* The rest of a call that has begun.
Continue(t) ==
  \/ LoadLock(t) \/ \E ok \in BOOLEAN : LoadEnd(t, ok) \/ UnloadSection(t, ok)
  \/ \E p \in Plugins : LoadNext(t, p) \/ UnloadNext(t, p)
  \/ ExecuteLock(t) \/ ExecuteRecord(t) \/ ExecuteStats(t)
  \/ \E kind \in {NONE, "Crash", "Budget", "Other"} : ExecuteEnd(t, kind)

Begin(t) ==
  \/ load_all_plugins(t) \/ unload_all_plugins(t)
  \/ \E p \in Plugins :
       \/ load_plugin(t, p) \/ unload_plugin(t, p) \/ execute_plugin(t, p)
       \/ \E b \in BOOLEAN : set_plugin_enabled(t, p, b)
       \/ \E m \in ManualMinutes : quarantine_plugin(t, p, m)
       \/ release_from_quarantine(t, p)

Next ==
  \/ \E t \in Tasks : Continue(t) \/ Begin(t)
  \/ \E found \in SUBSET Plugins : scan_plugins(found)
  \/ Tick

Spec == Init /\ [][Next]_vars

\* A task that has begun a call goes on with it: plugins return (they run on
\* fuel and against a timeout), and the tokio locks are fair, so a task that
\* waits for the registry gets it although others take it again and again.
Fairness == \A t \in Tasks : SF_vars(Continue(t))

FairSpec == Spec /\ Fairness

-----------------------------------------------------------------------------
(* Properties                                                              *)

TypeOK ==
  /\ now \in 0..MaxTime
  /\ registry \in [Plugins -> [is_loaded : BOOLEAN, is_enabled : BOOLEAN]]
  /\ instances \subseteq Plugins
  /\ lock \in Tasks \cup {NONE}
  /\ \A p \in Plugins :
       LET q == quarantine[p] IN
       /\ q.is_quarantined \in BOOLEAN /\ q.escalation_level \in 0..max_escalation_levels
       /\ q.is_quarantined <=> q.quarantine_end # NONE
       /\ Len(q.Crash) + Len(q.Budget) <= MaxViolations
  /\ \A t \in Tasks :
       /\ task[t].at \in {"idle", "load", "loading", "load_next", "unload", "unload_next",
                          "exec", "run", "record", "stats"}
       /\ task[t].plugin \in Plugins \cup {NONE} /\ task[t].todo \subseteq Plugins

\* An execution and an unload or a load of the same table never overlap, and a
\* plugin that is disabled runs only while the call that disabled it, or another,
\* is still waiting to unload it: the check of is_enabled and the load are one
\* section, the flag and the unload are two (set_plugin_enabled, load_plugin,
\* execute_plugin).
DisabledDoesNotRun ==
  \A t \in Running :
    LET p == task[t].plugin IN
    /\ registry[p].is_loaded /\ lock = NONE
    /\ p \in instances /\ ~registry[p].is_enabled =>
         \E u \in Tasks : task[u].at = "unload" /\ task[u].plugin = p

\* The records younger than the last quarantine that was lifted.
Since(records) == Cardinality({i \in DOMAIN records : records[i].since})

\* Since its last quarantine was lifted a plugin crashes, or overruns its budget, within
\* the window at most as often as the policy allows, plus once for each further
\* task that was already executing it (execute_plugin checks the quarantine long
\* before record_violation counts).
ViolationsAreBounded ==
  \A p \in Plugins :
    /\ Since(quarantine[p].Crash) <= max_crashes + Cardinality(Tasks) - 1
    /\ Since(quarantine[p].Budget) <= max_budget_violations + Cardinality(Tasks) - 1

\* Every call returns: no lock is taken twice or kept (load_plugin, unload_plugin,
\* execute_plugin, set_plugin_enabled, quarantine_plugin and the bulk calls).
EveryCallReturns ==
  \A t \in Tasks : task[t].at # "idle" ~> task[t].at = "idle"
=============================================================================
