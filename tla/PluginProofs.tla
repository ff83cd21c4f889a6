---------------------------- MODULE PluginProofs ----------------------------
(***************************************************************************)
(* Proofs about the host of the plugins and the channel to a native one,   *)
(* for any values of their constants:                                      *)
(*   - PluginHost: a disabled plugin does not run, and the violations of a *)
(*     plugin are bounded;                                                 *)
(*   - SpscChannel: the ring implements the queue of Fifo.                 *)
(***************************************************************************)
EXTENDS PluginHost, SpscChannel, SequenceTheorems, FiniteSetTheorems, TLAPS

-----------------------------------------------------------------------------
(* The plugin host                                                         *)
(*                                                                         *)
(* RegistryInv relates the registry, its lock and the calls; ViolationInv  *)
(* adds to the violations a plugin has on record those its executions      *)
(* under way may still add.                                                *)

\* The calls a task can be in, and those that have a plugin in hand.
Stages == {"idle", "load", "loading", "load_next", "unload", "unload_next",
           "exec", "run", "record", "stats"}
InHand == {"load", "loading", "unload", "exec", "run", "record", "stats"}
HostCall == [at : Stages, plugin : Plugins \cup {NONE}, todo : SUBSET Plugins,
             kind : {NONE, "load_next", "unload_next", "Crash", "Budget", "Other"}]

\* Only a bulk call has plugins left to do.
CallOK(c) ==
  /\ c \in HostCall
  /\ c.at \in InHand => c.plugin \in Plugins
  /\ c.at \in {"idle", "exec", "run", "record", "stats"} => c.todo = {}
  /\ c.todo # {} => c.kind \in {"load_next", "unload_next"}

\* A plugin in the registry.
RegistryEntry == [is_loaded : BOOLEAN, is_enabled : BOOLEAN]

\* A task that is about to unload p.
Unloading(p, calls) == \E u \in Tasks : calls[u].at = "unload" /\ calls[u].plugin = p

\* The write lock belongs to the task that loads; what it loads is enabled, what
\* runs is loaded, and what is loaded although disabled is about to be unloaded.
RegistryInv ==
  /\ registry \in [Plugins -> RegistryEntry]
  /\ instances \subseteq Plugins
  /\ DOMAIN task = Tasks /\ \A t \in Tasks : CallOK(task[t])
  /\ lock # NONE => lock \in Tasks /\ task[lock].at = "loading"
  /\ \A t \in Tasks : task[t].at = "loading" =>
       lock = t /\ registry[task[t].plugin].is_enabled = TRUE
  /\ \A t \in Tasks : task[t].at = "run" =>
       lock = NONE /\ registry[task[t].plugin].is_loaded = TRUE
  /\ \A p \in instances :
       registry[p].is_loaded = TRUE /\ registry[p].is_enabled = FALSE => Unloading(p, task)

\* A task's call as Return leaves it.
Returned(c) == IF c.todo = {} THEN Idle ELSE [c EXCEPT !.at = c.kind, !.plugin = NONE]

\* No call.
LEMMA IdleCall == CallOK(Idle) /\ Idle.at = "idle"
  BY DEF CallOK, HostCall, Idle, Stages, InHand

\* A bulk call goes on with its next plugin, any other call is over.
LEMMA ReturnedCall ==
  ASSUME NEW c, CallOK(c)
  PROVE  CallOK(Returned(c)) /\ Returned(c).at \in {"idle", "load_next", "unload_next"}
<1>1. CASE c.todo = {}
  BY <1>1, IdleCall DEF Returned
<1>2. CASE c.todo # {}
  BY <1>2 DEF Returned, CallOK, HostCall, Stages, InHand
<1> QED
  BY <1>1, <1>2

\* Return in terms of it.
LEMMA ReturnStep ==
  ASSUME NEW t \in Tasks, DOMAIN task = Tasks, Return(t)
  PROVE  task' = [task EXCEPT ![t] = Returned(task[t])]
  BY DEF Return, Returned

\* Nothing is loaded at the start.
LEMMA HostInit ==
  ASSUME Init
  PROVE  RegistryInv
<1>1. registry \in [Plugins -> RegistryEntry] /\ instances = {} /\ lock = NONE
  BY DEF Init, Found, RegistryEntry
<1>2. task = [t \in Tasks |-> Idle]
  BY DEF Init
<1> QED
  BY <1>1, <1>2, IdleCall DEF RegistryInv

\* A step of one task that leaves the registry, its lock and the tables alone.
LEMMA HostQuiet ==
  ASSUME RegistryInv, NEW t \in Tasks, NEW c, CallOK(c), task' = [task EXCEPT ![t] = c],
         UNCHANGED <<registry, instances, lock>>,
         task[t].at \notin {"loading", "unload"}, c.at # "loading",
         c.at = "run" => lock = NONE /\ registry[c.plugin].is_loaded = TRUE
  PROVE  RegistryInv'
<1>1. DOMAIN task' = Tasks /\ \A u \in Tasks : task'[u] = IF u = t THEN c ELSE task[u]
  BY DEF RegistryInv
<1>2. \A u \in Tasks : CallOK(task'[u])
  BY <1>1 DEF RegistryInv
<1>3. lock' # NONE => lock' \in Tasks /\ task'[lock'].at = "loading"
  BY <1>1 DEF RegistryInv
<1>4. \A u \in Tasks : task'[u].at = "loading" =>
        lock' = u /\ registry'[task'[u].plugin].is_enabled = TRUE
  BY <1>1 DEF RegistryInv
<1>5. \A u \in Tasks : task'[u].at = "run" =>
        lock' = NONE /\ registry'[task'[u].plugin].is_loaded = TRUE
  BY <1>1 DEF RegistryInv
<1>6. \A p \in instances : Unloading(p, task) => Unloading(p, task')
  BY <1>1 DEF Unloading
<1>7. \A p \in instances' : registry'[p].is_loaded = TRUE /\ registry'[p].is_enabled = FALSE
        => Unloading(p, task')
  BY <1>6 DEF RegistryInv
<1> QED
  BY <1>1, <1>2, <1>3, <1>4, <1>5, <1>7 DEF RegistryInv

\* The invariant depends on no other variable.
LEMMA HostFrame ==
  ASSUME RegistryInv, UNCHANGED <<registry, instances, lock, task>>
  PROVE  RegistryInv'
  BY DEF RegistryInv, Unloading

\* A call of one plugin that is not a bulk call.
LEMMA SingleCall ==
  ASSUME NEW p \in Plugins, NEW at \in {"unload", "exec"}
  PROVE  /\ CallOK([Idle EXCEPT !.at = at, !.plugin = p])
         /\ [Idle EXCEPT !.at = at, !.plugin = p].at = at
         /\ [Idle EXCEPT !.at = at, !.plugin = p].plugin = p
  BY DEF CallOK, HostCall, Idle, Stages, InHand

\* load_plugin and the plugins of a bulk load.
LEMMA HostLoadCheck ==
  ASSUME RegistryInv, NEW t \in Tasks, NEW p \in Plugins,
         NEW todo \in SUBSET Plugins,
         task[t].at \notin {"loading", "unload"}, LoadCheck(t, p, todo)
  PROVE  RegistryInv'
<1> DEFINE c == IF ~is_quarantined(p)
                THEN [at |-> "load", plugin |-> p, todo |-> todo, kind |-> "load_next"]
                ELSE IF todo = {} THEN Idle
                ELSE [at |-> "load_next", plugin |-> NONE, todo |-> todo, kind |-> "load_next"]
<1>1. task' = [task EXCEPT ![t] = c] /\ UNCHANGED <<registry, instances, lock>>
  BY DEF LoadCheck
<1>2. CallOK(c) /\ c.at \in {"load", "idle", "load_next"}
  BY IdleCall DEF CallOK, HostCall, Stages, InHand
<1> HIDE DEF c
<1> QED
  BY <1>1, <1>2, HostQuiet

\* load_plugin and load_all_plugins check the quarantine.
LEMMA HostLoads ==
  ASSUME RegistryInv, NEW t \in Tasks, NEW p \in Plugins,
         load_plugin(t, p) \/ LoadNext(t, p)
  PROVE  RegistryInv'
<1>1. CASE load_plugin(t, p)
  BY <1>1, HostLoadCheck DEF load_plugin
<1>2. CASE LoadNext(t, p)
  <2>1. task[t].todo \ {p} \in SUBSET Plugins
    BY DEF RegistryInv, CallOK, HostCall
  <2> QED
    BY <1>2, <2>1, HostLoadCheck DEF LoadNext
<1> QED
  BY <1>1, <1>2

\* A call, or one plugin of a bulk call, ends without having touched the registry.
LEMMA HostReturns ==
  ASSUME RegistryInv, NEW t \in Tasks, task[t].at \notin {"loading", "unload"}, Return(t),
         UNCHANGED <<registry, instances, lock>>
  PROVE  RegistryInv'
<1>1. task' = [task EXCEPT ![t] = Returned(task[t])]
  BY ReturnStep DEF RegistryInv
<1>2. CallOK(Returned(task[t])) /\ Returned(task[t]).at \in {"idle", "load_next",
      "unload_next"}
  BY ReturnedCall DEF RegistryInv
<1> QED
  BY <1>1, <1>2, HostQuiet

\* load_plugin takes the write lock for a plugin that is enabled.
LEMMA HostLoadLock ==
  ASSUME RegistryInv, NEW t \in Tasks, LoadLock(t)
  PROVE  RegistryInv'
<1> DEFINE p == task[t].plugin
<1>0. task[t].at = "load" /\ p \in Plugins /\ lock = NONE
      /\ \A u \in Tasks : task[u].at # "run"
  BY DEF RegistryInv, CallOK, InHand, LoadLock, CanWrite, Running
<1>1. CASE registry[p].is_loaded \/ ~registry[p].is_enabled
  BY <1>0, <1>1, HostReturns DEF LoadLock
<1>2. CASE ~(registry[p].is_loaded \/ ~registry[p].is_enabled)
  <2> DEFINE c == [task[t] EXCEPT !.at = "loading"]
  <2>1. task' = [task EXCEPT ![t] = c] /\ lock' = t /\ UNCHANGED <<registry, instances>>
    BY <1>2 DEF LoadLock, Go, RegistryInv, CallOK, HostCall
  <2>2. CallOK(c) /\ c.at = "loading" /\ c.plugin = p
    BY <1>0 DEF RegistryInv, CallOK, HostCall, Stages, InHand
  <2>3. registry[p].is_enabled = TRUE
    BY <1>0, <1>2 DEF RegistryInv, RegistryEntry
  <2> HIDE DEF c
  <2>4. DOMAIN task' = Tasks /\ \A u \in Tasks : task'[u] = IF u = t THEN c ELSE task[u]
    BY <2>1 DEF RegistryInv
  <2>5. \A u \in Tasks : CallOK(task'[u])
    BY <2>2, <2>4 DEF RegistryInv
  <2>6. \A u \in Tasks : task'[u].at = "loading" =>
          lock' = u /\ registry'[task'[u].plugin].is_enabled = TRUE
    BY PluginHostAssumption, <1>0, <2>1, <2>2, <2>3, <2>4 DEF RegistryInv
  <2>7. \A u \in Tasks : task'[u].at # "run"
    BY <1>0, <2>2, <2>4
  <2>8. \A x \in instances : Unloading(x, task) => Unloading(x, task')
    BY <1>0, <2>2, <2>4 DEF Unloading
  <2>9. lock' \in Tasks /\ task'[lock'].at = "loading"
    BY <2>1, <2>2, <2>4
  <2> QED
    BY <2>1, <2>4, <2>5, <2>6, <2>7, <2>8, <2>9 DEF RegistryInv
<1> QED
  BY <1>1, <1>2

\* The plugin has been loaded, or not: it is enabled, so nobody need unload it.
LEMMA HostLoadEnd ==
  ASSUME RegistryInv, NEW t \in Tasks, NEW ok \in BOOLEAN, LoadEnd(t, ok)
  PROVE  RegistryInv'
<1> DEFINE p == task[t].plugin
           c == Returned(task[t])
<1>0. task[t].at = "loading" /\ p \in Plugins /\ lock = t /\ lock # NONE
      /\ registry[p].is_enabled = TRUE
  BY PluginHostAssumption DEF RegistryInv, CallOK, InHand, LoadEnd
<1>1. task' = [task EXCEPT ![t] = c] /\ lock' = NONE
  BY ReturnStep DEF LoadEnd, RegistryInv
<1>2. CallOK(c) /\ c.at \in {"idle", "load_next", "unload_next"}
  BY ReturnedCall DEF RegistryInv
<1>3. /\ registry' \in [Plugins -> RegistryEntry]
      /\ \A x \in Plugins : registry'[x].is_enabled = registry[x].is_enabled
      /\ \A x \in Plugins : x # p => registry'[x] = registry[x]
  <2>1. CASE ok = TRUE
    BY <1>0, <2>1 DEF LoadEnd, RegistryInv, RegistryEntry
  <2>2. CASE ok = FALSE
    BY <1>0, <2>2 DEF LoadEnd, RegistryInv, RegistryEntry
  <2> QED
    BY <2>1, <2>2
<1>4. instances' \subseteq instances \cup {p}
  BY DEF LoadEnd
<1> HIDE DEF c
<1>5. DOMAIN task' = Tasks /\ \A u \in Tasks : task'[u] = IF u = t THEN c ELSE task[u]
  BY <1>1 DEF RegistryInv
<1>6. \A u \in Tasks : CallOK(task'[u]) /\ task'[u].at \notin {"loading", "run"}
  BY <1>0, <1>2, <1>5 DEF RegistryInv
<1>7. \A x \in instances : Unloading(x, task) => Unloading(x, task')
  BY <1>0, <1>2, <1>5 DEF Unloading
<1>8. \A x \in instances' : registry'[x].is_loaded = TRUE /\ registry'[x].is_enabled = FALSE
        => Unloading(x, task')
  BY <1>0, <1>3, <1>4, <1>7 DEF RegistryInv
<1> QED
  BY <1>0, <1>1, <1>3, <1>4, <1>5, <1>6, <1>8 DEF RegistryInv

\* unload_plugin: the instance is gone, whether or not its shutdown failed.
LEMMA HostUnload ==
  ASSUME RegistryInv, NEW t \in Tasks, NEW ok \in BOOLEAN,
         UnloadSection(t, ok)
  PROVE  RegistryInv'
<1> DEFINE p == task[t].plugin
           c == Returned(task[t])
<1>0. task[t].at = "unload" /\ p \in Plugins /\ lock = NONE /\ lock' = NONE
      /\ \A u \in Tasks : task[u].at # "run"
  BY DEF RegistryInv, CallOK, InHand, UnloadSection, CanWrite, Running
<1>1. task' = [task EXCEPT ![t] = c]
  BY ReturnStep DEF UnloadSection, RegistryInv
<1>2. CallOK(c) /\ c.at \in {"idle", "load_next", "unload_next"}
  BY ReturnedCall DEF RegistryInv
<1>3. /\ registry' \in [Plugins -> RegistryEntry]
      /\ \A x \in Plugins : x # p => registry'[x] = registry[x]
      /\ instances' \subseteq instances
      /\ p \notin instances' \/ (registry' = registry /\ registry[p].is_loaded = FALSE)
  <2>0. registry[p].is_loaded \in BOOLEAN
    BY <1>0 DEF RegistryInv, RegistryEntry
  <2>1. CASE registry[p].is_loaded = TRUE
    <3>1. registry' = [registry EXCEPT ![p].is_loaded = ~ok] /\ instances' = instances \ {p}
      BY <2>1 DEF UnloadSection
    <3>2. registry' = [registry EXCEPT ![p].is_loaded = FALSE]
          \/ registry' = [registry EXCEPT ![p].is_loaded = TRUE]
      BY <3>1
    <3>3. registry' \in [Plugins -> RegistryEntry]
      BY <1>0, <3>2 DEF RegistryInv, RegistryEntry
    <3> QED
      BY <1>0, <3>1, <3>3 DEF RegistryInv
  <2>2. CASE registry[p].is_loaded = FALSE
    BY <2>2 DEF UnloadSection, RegistryInv
  <2> QED
    BY <2>0, <2>1, <2>2
<1> HIDE DEF c
<1>4. DOMAIN task' = Tasks /\ \A u \in Tasks : task'[u] = IF u = t THEN c ELSE task[u]
  BY <1>1 DEF RegistryInv
<1>5. \A u \in Tasks : CallOK(task'[u]) /\ task'[u].at \notin {"loading", "run"}
  BY PluginHostAssumption, <1>0, <1>2, <1>4 DEF RegistryInv
<1>6. \A x \in instances : x # p /\ Unloading(x, task) => Unloading(x, task')
  BY <1>0, <1>2, <1>4 DEF Unloading
<1>7. \A x \in instances' : registry'[x].is_loaded = TRUE /\ registry'[x].is_enabled = FALSE
        => Unloading(x, task')
  BY <1>0, <1>3, <1>6 DEF RegistryInv
<1> QED
  BY <1>0, <1>3, <1>4, <1>5, <1>7 DEF RegistryInv

\* The bulk calls take their snapshot, or the next plugin of it; unload_plugin and
\* quarantine_plugin begin.
LEMMA HostBulk ==
  ASSUME RegistryInv, NEW t \in Tasks,
         \/ load_all_plugins(t) \/ unload_all_plugins(t)
         \/ \E p \in Plugins : UnloadNext(t, p)
  PROVE  RegistryInv'
<1>1. CASE load_all_plugins(t)
  <2> DEFINE ids == {p \in Plugins : registry[p].is_enabled /\ ~registry[p].is_loaded}
             c == [at |-> "load_next", plugin |-> NONE, todo |-> ids, kind |-> "load_next"]
  <2>1. task' = [task EXCEPT ![t] = c] /\ UNCHANGED <<registry, instances, lock>>
        /\ task[t].at = "idle"
    BY <1>1 DEF load_all_plugins
  <2>2. ids \subseteq Plugins
    OBVIOUS
  <2> HIDE DEF ids
  <2>3. CallOK(c) /\ c.at = "load_next"
    BY <2>2 DEF CallOK, HostCall, Stages, InHand
  <2> HIDE DEF c
  <2> QED
    BY <2>1, <2>3, HostQuiet
<1>2. CASE unload_all_plugins(t)
  <2> DEFINE ids == {p \in Plugins : registry[p].is_loaded}
             c == [at |-> "unload_next", plugin |-> NONE, todo |-> ids, kind |-> "unload_next"]
  <2>1. task' = [task EXCEPT ![t] = c] /\ UNCHANGED <<registry, instances, lock>>
        /\ task[t].at = "idle"
    BY <1>2 DEF unload_all_plugins
  <2>2. ids \subseteq Plugins
    OBVIOUS
  <2> HIDE DEF ids
  <2>3. CallOK(c) /\ c.at = "unload_next"
    BY <2>2 DEF CallOK, HostCall, Stages, InHand
  <2> HIDE DEF c
  <2> QED
    BY <2>1, <2>3, HostQuiet
<1>3. ASSUME NEW p \in Plugins, UnloadNext(t, p) PROVE RegistryInv'
  <2> DEFINE c == [at |-> "unload", plugin |-> p, todo |-> task[t].todo \ {p},
                   kind |-> "unload_next"]
  <2>1. task' = [task EXCEPT ![t] = c] /\ UNCHANGED <<registry, instances, lock>>
        /\ task[t].at = "unload_next"
    BY <1>3 DEF UnloadNext, RegistryInv
  <2>2. task[t].todo \ {p} \subseteq Plugins
    BY DEF RegistryInv, CallOK, HostCall
  <2>3. CallOK(c) /\ c.at = "unload"
    BY <2>2 DEF CallOK, HostCall, Stages, InHand
  <2> HIDE DEF c
  <2> QED
    BY <2>1, <2>3, HostQuiet
<1> QED
  BY <1>1, <1>2, <1>3

\* A call begins that will unload or execute a plugin, or a plugin is released.
LEMMA HostUnloads ==
  ASSUME RegistryInv, NEW t \in Tasks, NEW p \in Plugins,
         \/ unload_plugin(t, p)
         \/ \E m \in ManualMinutes : quarantine_plugin(t, p, m)
         \/ execute_plugin(t, p)
         \/ release_from_quarantine(t, p)
  PROVE  RegistryInv'
<1>1. CASE \/ unload_plugin(t, p)
           \/ \E m \in ManualMinutes : quarantine_plugin(t, p, m)
           \/ execute_plugin(t, p)
  <2>1. /\ task[t].at = "idle" /\ UNCHANGED <<registry, instances, lock>>
        /\ \/ task' = task
           \/ task' = [task EXCEPT ![t] = [Idle EXCEPT !.at = "unload", !.plugin = p]]
           \/ task' = [task EXCEPT ![t] = [Idle EXCEPT !.at = "exec", !.plugin = p]]
    BY <1>1 DEF unload_plugin, quarantine_plugin, execute_plugin
  <2> QED
    BY <2>1, SingleCall, HostQuiet, HostFrame
<1>2. CASE release_from_quarantine(t, p)
  BY <1>2, HostFrame DEF release_from_quarantine
<1> QED
  BY <1>1, <1>2

\* The sections of execute_plugin.
LEMMA HostExecutes ==
  ASSUME RegistryInv, NEW t \in Tasks,
         \/ ExecuteLock(t) \/ ExecuteRecord(t) \/ ExecuteStats(t)
         \/ \E kind \in {NONE, "Crash", "Budget", "Other"} : ExecuteEnd(t, kind)
  PROVE  RegistryInv'
<1>0. CallOK(task[t]) /\ DOMAIN task = Tasks
  BY DEF RegistryInv
<1>1. CASE ExecuteLock(t)
  <2> DEFINE p == task[t].plugin
  <2>1. task[t].at = "exec" /\ lock = NONE /\ UNCHANGED <<registry, instances, lock>>
        /\ p \in Plugins
    BY <1>0, <1>1 DEF ExecuteLock, CanRead, CallOK, InHand
  <2>2. CASE registry[p].is_loaded = FALSE
    BY <1>1, <2>1, <2>2, HostReturns DEF ExecuteLock
  <2>3. CASE registry[p].is_loaded = TRUE
    <3>1. \/ task' = [task EXCEPT ![t] = [task[t] EXCEPT !.at = "run"]]
          \/ task' = [task EXCEPT ![t] = [task[t] EXCEPT !.at = "record", !.kind = "Crash"]]
      BY <1>0, <1>1, <2>3 DEF ExecuteLock
    <3>2. CASE task' = [task EXCEPT ![t] = [task[t] EXCEPT !.at = "run"]]
      <4> DEFINE c == [task[t] EXCEPT !.at = "run"]
      <4>1. CallOK(c) /\ c.at = "run" /\ c.plugin = p
        BY <1>0, <2>1 DEF CallOK, HostCall, Stages, InHand
      <4> HIDE DEF c
      <4> QED
        BY <2>1, <2>3, <3>2, <4>1, HostQuiet DEF c
    <3>3. CASE task' = [task EXCEPT ![t] = [task[t] EXCEPT !.at = "record", !.kind = "Crash"]]
      <4> DEFINE c == [task[t] EXCEPT !.at = "record", !.kind = "Crash"]
      <4>1. CallOK(c) /\ c.at = "record"
        BY <1>0, <2>1 DEF CallOK, HostCall, Stages, InHand
      <4> HIDE DEF c
      <4> QED
        BY <2>1, <3>3, <4>1, HostQuiet DEF c
    <3> QED
      BY <3>1, <3>2, <3>3
  <2>4. registry[p].is_loaded \in BOOLEAN
    BY <2>1 DEF RegistryInv, RegistryEntry
  <2> QED
    BY <2>2, <2>3, <2>4
<1>2. CASE ExecuteRecord(t)
  <2> DEFINE c == [task[t] EXCEPT !.at = "stats", !.kind = NONE]
  <2>1. task[t].at = "record" /\ UNCHANGED <<registry, instances, lock>>
        /\ task' = [task EXCEPT ![t] = c]
    BY <1>0, <1>2 DEF ExecuteRecord
  <2>2. CallOK(c) /\ c.at = "stats"
    BY <1>0, <2>1 DEF CallOK, HostCall, Stages, InHand
  <2> HIDE DEF c
  <2> QED
    BY <2>1, <2>2, HostQuiet
<1>3. CASE ExecuteStats(t)
  BY <1>3, HostReturns DEF ExecuteStats
<1>4. ASSUME NEW kind \in {NONE, "Crash", "Budget", "Other"}, ExecuteEnd(t, kind)
      PROVE  RegistryInv'
  <2> DEFINE c == IF kind = NONE THEN [task[t] EXCEPT !.at = "stats"]
                  ELSE [task[t] EXCEPT !.at = "record", !.kind = kind]
  <2>1. task[t].at = "run" /\ UNCHANGED <<registry, instances, lock>>
    BY <1>4 DEF ExecuteEnd
  <2>2. task' = [task EXCEPT ![t] = c]
    BY <1>0, <1>4 DEF ExecuteEnd, Go
  <2>3. CallOK(c) /\ c.at \in {"stats", "record"}
    BY <1>0, <2>1 DEF CallOK, HostCall, Stages, InHand
  <2> HIDE DEF c
  <2> QED
    BY <2>1, <2>2, <2>3, HostQuiet
<1> QED
  BY <1>1, <1>2, <1>3, <1>4

\* Whoever disables a plugin that is loaded goes on to unload it.
LEMMA HostEnables ==
  ASSUME RegistryInv, NEW t \in Tasks, NEW p \in Plugins, NEW b \in BOOLEAN,
         set_plugin_enabled(t, p, b)
  PROVE  RegistryInv'
<1>0. /\ task[t].at = "idle" /\ lock = NONE /\ UNCHANGED <<instances, lock>>
      /\ \A u \in Tasks : task[u].at \notin {"run", "loading"}
  BY PluginHostAssumption DEF RegistryInv, set_plugin_enabled, CanWrite, Running
<1> DEFINE c == [Idle EXCEPT !.at = "unload", !.plugin = p]
<1>1. registry[p].is_loaded \in BOOLEAN /\ registry' = [registry EXCEPT ![p].is_enabled = b]
  BY DEF RegistryInv, RegistryEntry, set_plugin_enabled
<1>2. CallOK(c) /\ c.at = "unload" /\ c.plugin = p
  BY SingleCall
<1> HIDE DEF c
<1>3. /\ registry' \in [Plugins -> RegistryEntry]
      /\ registry'[p].is_loaded = registry[p].is_loaded /\ registry'[p].is_enabled = b
      /\ \A x \in Plugins : x # p => registry'[x] = registry[x]
  BY <1>1 DEF RegistryInv, RegistryEntry
<1>4. \/ task' = task /\ (b = TRUE \/ registry[p].is_loaded = FALSE)
      \/ task' = [task EXCEPT ![t] = c]
  BY <1>1 DEF set_plugin_enabled, c
<1>5. DOMAIN task' = Tasks /\ \A u \in Tasks : task'[u] = task[u] \/ (u = t /\ task'[u] = c)
  BY <1>4 DEF RegistryInv
<1>6. \A u \in Tasks : CallOK(task'[u]) /\ task'[u].at \notin {"loading", "run"}
  BY <1>0, <1>2, <1>5 DEF RegistryInv
<1>7. \A x \in instances : Unloading(x, task) => Unloading(x, task')
  BY <1>0, <1>5 DEF Unloading
<1>8. b = TRUE \/ registry[p].is_loaded = FALSE \/ Unloading(p, task')
  BY <1>2, <1>4 DEF Unloading, RegistryInv
<1>9. \A x \in instances' : registry'[x].is_loaded = TRUE /\ registry'[x].is_enabled = FALSE
        => Unloading(x, task')
  BY <1>0, <1>3, <1>7, <1>8 DEF RegistryInv
<1> QED
  BY <1>0, <1>3, <1>5, <1>6, <1>9 DEF RegistryInv

\* A plugin found anew is not loaded as far as the registry knows.
LEMMA HostScans ==
  ASSUME RegistryInv, NEW found \in SUBSET Plugins, scan_plugins(found)
  PROVE  RegistryInv'
<1>1. UNCHANGED <<instances, lock, task>> /\ \A t \in Tasks : task[t].at = "idle"
  BY DEF scan_plugins
<1>2. Found \in RegistryEntry /\ Found.is_loaded = FALSE
  BY DEF Found, RegistryEntry
<1>3. /\ registry' \in [Plugins -> RegistryEntry]
      /\ \A x \in Plugins : registry'[x] = registry[x] \/ registry'[x].is_loaded = FALSE
  BY <1>2 DEF scan_plugins, RegistryInv
<1>4. \A x \in instances' : registry'[x].is_loaded = TRUE /\ registry'[x].is_enabled = FALSE
        => Unloading(x, task')
  BY <1>1, <1>3 DEF RegistryInv
<1> QED
  BY <1>1, <1>3, <1>4 DEF RegistryInv

\* Every step keeps the invariant.
LEMMA HostStep ==
  ASSUME RegistryInv, [Next]_vars
  PROVE  RegistryInv'
<1>1. ASSUME NEW t \in Tasks, Continue(t) PROVE RegistryInv'
  BY <1>1, HostLoadLock, HostLoadEnd, HostUnload, HostLoads, HostBulk, HostExecutes
  DEF Continue
<1>2. ASSUME NEW t \in Tasks, Begin(t) PROVE RegistryInv'
  BY <1>2, HostBulk, HostLoads, HostUnloads, HostEnables DEF Begin
<1>3. ASSUME NEW found \in SUBSET Plugins, scan_plugins(found) PROVE RegistryInv'
  BY <1>3, HostScans
<1>4. CASE Tick \/ UNCHANGED vars
  BY <1>4, HostFrame DEF Tick, vars
<1> QED
  BY <1>1, <1>2, <1>3, <1>4 DEF Next

\* RegistryInv holds in every reachable state, for any tasks, plugins and policy.
THEOREM RegistryInvariant ==
  Spec => []RegistryInv
<1>1. Init => RegistryInv
  BY HostInit
<1>2. RegistryInv /\ [Next]_vars => RegistryInv'
  BY HostStep
<1> QED
  BY <1>1, <1>2, PTL DEF Spec

\* What runs is loaded, so a disabled plugin that runs is about to be unloaded.
LEMMA RegistryImplies ==
  ASSUME RegistryInv
  PROVE  DisabledDoesNotRun
<1> SUFFICES ASSUME NEW t \in Tasks, task[t].at = "run"
             PROVE  /\ registry[task[t].plugin].is_loaded /\ lock = NONE
                    /\ task[t].plugin \in instances /\ ~registry[task[t].plugin].is_enabled =>
                         \E u \in Tasks : task[u].at = "unload"
                           /\ task[u].plugin = task[t].plugin
  BY DEF DisabledDoesNotRun, Running
<1> DEFINE p == task[t].plugin
<1>1. registry[p].is_loaded = TRUE /\ lock = NONE /\ p \in Plugins
      /\ registry[p].is_enabled \in BOOLEAN
  BY DEF RegistryInv, CallOK, InHand, RegistryEntry
<1>2. p \in instances /\ registry[p].is_enabled = FALSE => Unloading(p, task)
  BY <1>1 DEF RegistryInv
<1> QED
  BY <1>1, <1>2 DEF Unloading

\* For any tasks and plugins: no load or unload overlaps an execution, and a plugin
\* that is disabled runs only while a call is about to unload it (set_plugin_enabled,
\* load_plugin, unload_plugin, execute_plugin).
THEOREM HostDisabledDoesNotRun ==
  Spec => []DisabledDoesNotRun
  BY RegistryInvariant, RegistryImplies, PTL

\* The least element of a set of naturals.
LEMMA LeastNat ==
  ASSUME NEW T, T \subseteq Nat, T # {}
  PROVE  \E x \in T : \A y \in T : x <= y
<1> DEFINE R == OpToRel(<, Nat)
<1>1. IsWellFoundedOn(R, Nat)
  BY NatLessThanWellFounded
<1>2. \A x, y \in Nat : y < x => <<y, x>> \in R
  BY DEF OpToRel
<1> HIDE DEF R
<1>3. PICK x \in T : \A y \in T : ~(<<y, x>> \in R)
  BY <1>1, WFMin
<1>4. x \in Nat /\ \A y \in T : y \in Nat /\ ~(y < x)
  BY <1>2, <1>3
<1> QED
  BY <1>4

\* ViolationRecord.
Violation == [time : Nat, since : BOOLEAN]

\* The records of a plugin: in the order of their times, none from the future.
Kept(r, clock) ==
  /\ r \in Seq(Violation)
  /\ \A i \in 1..Len(r) : r[i].time <= clock
  /\ \A i, j \in 1..Len(r) : i <= j => r[i].time <= r[j].time

\* The records that Since counts.
Young(r) == {i \in 1..Len(r) : r[i].since = TRUE}

\* What a list of records holds.
LEMMA RecordsOf ==
  ASSUME NEW r \in Seq(Violation)
  PROVE  /\ Len(r) \in Nat /\ DOMAIN r = 1..Len(r)
         /\ \A i \in 1..Len(r) : r[i] \in Violation /\ r[i].time \in Nat
              /\ r[i].since \in BOOLEAN
<1>1. Len(r) \in Nat /\ DOMAIN r = 1..Len(r) /\ \A i \in 1..Len(r) : r[i] \in Violation
  OBVIOUS
<1>2. \A v \in Violation : v.time \in Nat /\ v.since \in BOOLEAN
  BY DEF Violation
<1> QED
  BY <1>1, <1>2

\* Since counts some of the records.
LEMMA SinceCounts ==
  ASSUME NEW r \in Seq(Violation)
  PROVE  /\ Since(r) = Cardinality(Young(r)) /\ IsFiniteSet(Young(r))
         /\ Since(r) \in Nat /\ Since(r) <= Len(r) /\ Len(r) \in Nat
<1>1. Len(r) \in Nat /\ DOMAIN r = 1..Len(r) /\ \A i \in 1..Len(r) : r[i].since \in BOOLEAN
  BY RecordsOf
<1>2. {i \in DOMAIN r : r[i].since} = Young(r)
  BY <1>1 DEF Young
<1>3. IsFiniteSet(1..Len(r)) /\ Cardinality(1..Len(r)) = Len(r)
  BY <1>1, FS_Interval
<1>4. Young(r) \subseteq 1..Len(r)
  BY DEF Young
<1>5. IsFiniteSet(Young(r)) /\ Cardinality(Young(r)) <= Len(r)
  BY <1>3, <1>4, FS_Subset
<1>6. Cardinality(Young(r)) \in Nat
  BY <1>5, FS_CardinalityType
<1>7. Since(r) = Cardinality({i \in DOMAIN r : r[i].since})
  BY Zenon DEF Since
<1>8. Since(r) = Cardinality(Young(r))
  BY <1>2, <1>7, Zenon
<1> QED
  BY <1>1, <1>5, <1>6, <1>8

\* No records.
LEMMA SinceEmpty == Since(<<>>) = 0 /\ \A clock : Kept(<<>>, clock)
<1>1. Young(<<>>) = {}
  BY DEF Young
<1>2. <<>> \in Seq(Violation) /\ Len(<<>>) = 0
  OBVIOUS
<1>3. Since(<<>>) = 0
  BY <1>1, <1>2, SinceCounts, FS_EmptySet
<1> QED
  BY <1>2, <1>3 DEF Kept

\* A violation is recorded.
LEMMA SinceAppend ==
  ASSUME NEW clock \in Nat, NEW r, Kept(r, clock)
  PROVE  LET a == Append(r, [time |-> clock, since |-> TRUE]) IN
         Kept(a, clock) /\ Since(a) = Since(r) + 1
<1> DEFINE v == [time |-> clock, since |-> TRUE]
           a == Append(r, v)
<1>0. v \in Violation /\ v.time = clock /\ v.since = TRUE /\ r \in Seq(Violation)
  BY DEF Violation, Kept
<1> HIDE DEF v
<1>1. /\ a \in Seq(Violation) /\ Len(r) \in Nat /\ Len(a) = Len(r) + 1 /\ a[Len(r) + 1] = v
      /\ \A i \in 1..Len(r) : a[i] = r[i]
  BY <1>0
<1> HIDE DEF a
<1>2. Kept(a, clock)
  <2>1. \A i \in 1..Len(a) : (i \in 1..Len(r) /\ a[i] = r[i]) \/ (i = Len(r) + 1 /\ a[i] = v)
    BY <1>1
  <2>2. \A i \in 1..Len(a) : a[i].time <= clock
    BY <1>0, <2>1 DEF Kept
  <2>3. \A i, j \in 1..Len(a) : i <= j => a[i].time <= a[j].time
    BY <1>0, <1>1, <2>1, <2>2 DEF Kept
  <2> QED
    BY <1>1, <2>2, <2>3 DEF Kept
<1>3. Young(a) = Young(r) \cup {Len(r) + 1} /\ Len(r) + 1 \notin Young(r)
  BY <1>0, <1>1 DEF Young
<1>4. Cardinality(Young(a)) = Cardinality(Young(r)) + 1
  BY <1>0, <1>3, SinceCounts, FS_AddElement
<1>5. Since(a) = Since(r) + 1
  BY <1>0, <1>1, <1>4, SinceCounts
<1> QED
  BY <1>2, <1>5 DEF a, v

\* The records that are too old come first.
LEMMA OutdatedFirst ==
  ASSUME now \in Nat, NEW r, Kept(r, now)
  PROVE  /\ Outdated(r) \in 0..Len(r) /\ Len(r) \in Nat
         /\ \A i \in 1..Len(r) : r[i].time > now - violation_window_minutes
                                 <=> i > Outdated(r)
<1>1. r \in Seq(Violation) /\ Len(r) \in Nat /\ DOMAIN r = 1..Len(r)
      /\ \A i \in 1..Len(r) : r[i].time \in Nat
  BY RecordsOf DEF Kept
<1> DEFINE cutoff == now - violation_window_minutes
           T == {i \in 1..(Len(r) + 1) : i = Len(r) + 1 \/ r[i].time > cutoff}
<1>2. cutoff \in Int
  BY PluginHostAssumption
<1>3. T \subseteq Nat /\ Len(r) + 1 \in T
  BY <1>1
<1>4. PICK m \in T : \A y \in T : m <= y
  BY <1>3, LeastNat
<1>5. m - 1 \in 0..Len(r)
  BY <1>1, <1>4
<1>6. \A i \in 1..Len(r) : r[i].time > cutoff <=> i > m - 1
  <2> SUFFICES ASSUME NEW i \in 1..Len(r) PROVE r[i].time > cutoff <=> i > m - 1
    OBVIOUS
  <2>1. ASSUME r[i].time > cutoff PROVE i > m - 1
    BY <1>1, <1>4, <2>1
  <2>2. ASSUME i > m - 1 PROVE r[i].time > cutoff
    <3>1. m \in 1..Len(r) /\ m <= i /\ r[m].time > cutoff
      BY <1>1, <1>4, <2>2
    <3>2. r[m].time <= r[i].time
      BY <3>1 DEF Kept
    <3> QED
      BY <1>1, <1>2, <3>1, <3>2
  <2> QED
    BY <2>1, <2>2
<1>7. \E k \in 0..Len(r) : \A i \in DOMAIN r : r[i].time > cutoff <=> i > k
  BY <1>1, <1>5, <1>6
<1> HIDE DEF T
<1>8. Outdated(r) \in 0..Len(r)
      /\ \A i \in DOMAIN r : r[i].time > cutoff <=> i > Outdated(r)
  BY <1>7 DEF Outdated
<1> QED
  BY <1>1, <1>8

\* Cleaning up keeps the order and adds nothing.
LEMMA RecentKeeps ==
  ASSUME now \in Nat, NEW r, Kept(r, now)
  PROVE  /\ Kept(Recent(r), now)
         /\ Since(Recent(r)) <= Since(r)
<1> DEFINE k == Outdated(r)
           s == Recent(r)
<1>1. k \in 0..Len(r) /\ Len(r) \in Nat
  BY OutdatedFirst
<1>2. r \in Seq(Violation) /\ \A i \in (k + 1)..Len(r) : r[i] \in Violation
  BY <1>1 DEF Kept
<1>3. s = SubSeq(r, k + 1, Len(r))
  BY DEF Recent
<1> HIDE DEF k, s
<1>4. s \in Seq(Violation) /\ Len(s) = Len(r) - k /\ \A i \in 1..Len(s) : s[i] = r[k + i]
  <2>1. /\ s \in Seq(Violation) /\ Len(s) = IF k + 1 <= Len(r) THEN Len(r) - (k + 1) + 1 ELSE 0
        /\ \A i \in 1..(Len(r) - (k + 1) + 1) : s[i] = r[(k + 1) + i - 1]
    BY <1>1, <1>2, <1>3, SubSeqProperties
  <2> QED
    BY <1>1, <2>1
<1>5. \A i \in 1..Len(s) : k + i \in 1..Len(r)
  BY <1>1, <1>4
<1>6. Kept(s, now)
  <2>1. \A i, j \in 1..Len(s) : i <= j => k + i <= k + j
    BY <1>1, <1>4
  <2> QED
    BY <1>4, <1>5, <2>1 DEF Kept
<1>7. Cardinality(Young(s)) <= Cardinality(Young(r))
  <2> DEFINE f == [i \in Young(s) |-> k + i]
  <2>1. \A i \in Young(s) : i \in Nat /\ k + i \in Young(r)
    BY <1>4, <1>5 DEF Young
  <2>2. f \in Injection(Young(s), Young(r))
    BY <1>1, <2>1 DEF Injection, IsInjective
  <2>3. IsFiniteSet(Young(r))
    BY <1>2, SinceCounts
  <2> QED
    BY <2>2, <2>3, FS_Injection
<1> QED
  BY <1>2, <1>4, <1>6, <1>7, SinceCounts DEF s


\* The bound on the n records of a kind since the last quarantine that was lifted,
\* while m tasks execute the plugin: what they are about to record is counted in.
Bounded(flag, n, m, max) ==
  IF flag = TRUE THEN n + m <= max + Cardinality(Tasks) - 1 ELSE n <= max - 1

\* The fields of QuarantineState.
StateFields == {"is_quarantined", "quarantine_start", "quarantine_end", "escalation_level",
                "Crash", "Budget"}

\* The state of a plugin that m tasks execute.
Records(q, m, clock) ==
  /\ DOMAIN q = StateFields /\ q.is_quarantined \in BOOLEAN
  /\ Kept(q.Crash, clock) /\ Kept(q.Budget, clock)
  /\ Bounded(q.is_quarantined, Since(q.Crash), m, max_crashes)
  /\ Bounded(q.is_quarantined, Since(q.Budget), m, max_budget_violations)

\* Types that follow.
LEMMA RecordsNat ==
  ASSUME NEW q, NEW m, NEW clock, Records(q, m, clock)
  PROVE  /\ Since(q.Crash) \in Nat /\ Since(q.Budget) \in Nat
         /\ q.Crash \in Seq(Violation) /\ q.Budget \in Seq(Violation)
         /\ max_crashes \in Nat \ {0} /\ max_budget_violations \in Nat \ {0}
         /\ Cardinality(Tasks) \in Nat
<1>1. q.Crash \in Seq(Violation) /\ q.Budget \in Seq(Violation)
  BY DEF Records, Kept
<1>2. Cardinality(Tasks) \in Nat
  BY PluginHostAssumption, FS_CardinalityType
<1> QED
  BY PluginHostAssumption, <1>1, <1>2, SinceCounts

\* Fewer tasks execute the plugin, or it is not quarantined.
LEMMA RecordsFewer ==
  ASSUME NEW q, NEW m \in Nat, NEW n \in Nat, NEW clock, Records(q, m, clock),
         n <= m \/ q.is_quarantined = FALSE
  PROVE  Records(q, n, clock)
<1>1. /\ Since(q.Crash) \in Nat /\ Since(q.Budget) \in Nat
      /\ max_crashes \in Nat /\ max_budget_violations \in Nat /\ Cardinality(Tasks) \in Nat
  BY RecordsNat
<1>2. Bounded(q.is_quarantined, Since(q.Crash), n, max_crashes)
  BY <1>1 DEF Records, Bounded
<1>3. Bounded(q.is_quarantined, Since(q.Budget), n, max_budget_violations)
  BY <1>1 DEF Records, Bounded
<1> QED
  BY <1>2, <1>3 DEF Records

\* Time passes.
LEMMA RecordsLater ==
  ASSUME NEW clock \in Nat, NEW q, NEW m, Records(q, m, clock)
  PROVE  Records(q, m, clock + 1)
<1>1. ASSUME NEW r, Kept(r, clock) PROVE Kept(r, clock + 1)
  <2>1. r \in Seq(Violation) /\ \A i \in 1..Len(r) : r[i].time \in Nat
    BY <1>1, RecordsOf DEF Kept
  <2> QED
    BY <1>1, <2>1 DEF Kept
<1> QED
  BY <1>1 DEF Records

\* The records of a plugin whose quarantine has been lifted count no more.
LEMMA OldRecords ==
  ASSUME NEW clock, NEW r, Kept(r, clock)
  PROVE  LET old == [i \in DOMAIN r |-> [r[i] EXCEPT !.since = FALSE]] IN
         Kept(old, clock) /\ Since(old) = 0
<1> DEFINE old == [i \in DOMAIN r |-> [r[i] EXCEPT !.since = FALSE]]
<1>1. r \in Seq(Violation) /\ Len(r) \in Nat /\ DOMAIN r = 1..Len(r)
      /\ \A i \in 1..Len(r) : r[i] \in Violation
  BY RecordsOf DEF Kept
<1>2. \A v \in Violation : /\ [v EXCEPT !.since = FALSE] \in Violation
                           /\ [v EXCEPT !.since = FALSE].time = v.time
                           /\ [v EXCEPT !.since = FALSE].since = FALSE
  BY DEF Violation
<1>3. old \in Seq(Violation) /\ Len(old) = Len(r)
  BY <1>1, <1>2
<1>4. \A i \in 1..Len(r) : old[i].time = r[i].time /\ old[i].since = FALSE
  BY <1>1, <1>2
<1> HIDE DEF old
<1>5. Young(old) = {}
  BY <1>3, <1>4 DEF Young
<1>6. Kept(old, clock)
  BY <1>3, <1>4 DEF Kept
<1>7. Since(old) = 0
  BY <1>3, <1>5, SinceCounts, FS_EmptySet
<1> QED
  BY <1>6, <1>7 DEF old

\* A quarantine is lifted (is_quarantined, release_from_quarantine).
LEMMA RecordsLifted ==
  ASSUME NEW q, NEW m, NEW n \in Nat, NEW clock, Records(q, m, clock)
  PROVE  Records(Lift(q), n, clock) /\ Lift(q).is_quarantined = FALSE
<1> DEFINE Old(r) == [i \in DOMAIN r |-> [r[i] EXCEPT !.since = FALSE]]
           x == Lift(q)
<1>1. Kept(Old(q.Crash), clock) /\ Since(Old(q.Crash)) = 0
  BY OldRecords DEF Records
<1>2. Kept(Old(q.Budget), clock) /\ Since(Old(q.Budget)) = 0
  BY OldRecords DEF Records
<1>3. x = [q EXCEPT !.is_quarantined = FALSE, !.quarantine_start = NONE,
                    !.quarantine_end = NONE, !.Crash = Old(q.Crash), !.Budget = Old(q.Budget)]
  BY DEF Lift
<1> HIDE DEF Old, x
<1>4. DOMAIN x = StateFields /\ x.is_quarantined = FALSE /\ x.Crash = Old(q.Crash)
      /\ x.Budget = Old(q.Budget)
  BY <1>3 DEF Records, StateFields
<1>5. max_crashes \in Nat \ {0} /\ max_budget_violations \in Nat \ {0}
  BY PluginHostAssumption
<1>6. /\ Bounded(FALSE, 0, n, max_crashes)
      /\ Bounded(FALSE, 0, n, max_budget_violations)
  BY <1>5 DEF Bounded
<1>7. Records(x, n, clock)
  BY <1>1, <1>2, <1>4, <1>6 DEF Records
<1> QED
  BY <1>4, <1>7 DEF x

\* An operator quarantines the plugin; the task that does so does not execute it.
LEMMA RecordsQuarantined ==
  ASSUME NEW q, NEW m \in Nat, NEW clock, Records(q, m, clock),
         m <= Cardinality(Tasks) - 1, NEW x,
         DOMAIN x = StateFields, x.is_quarantined = TRUE, x.Crash = q.Crash,
           x.Budget = q.Budget
  PROVE  Records(x, m, clock)
<1>1. /\ Since(q.Crash) \in Nat /\ Since(q.Budget) \in Nat
      /\ max_crashes \in Nat /\ max_budget_violations \in Nat /\ Cardinality(Tasks) \in Nat
  BY RecordsNat
<1>2. Bounded(TRUE, Since(q.Crash), m, max_crashes)
  BY <1>1 DEF Records, Bounded
<1>3. Bounded(TRUE, Since(q.Budget), m, max_budget_violations)
  BY <1>1 DEF Records, Bounded
<1> QED
  BY <1>2, <1>3 DEF Records

\* A bound on n + m is one on the sum after one record more and one task less.
LEMMA BoundAfter ==
  ASSUME NEW n \in Nat, NEW k \in Nat, NEW m \in Nat, NEW max \in Nat, NEW c \in Nat,
         n + m <= max + c - 1, k <= n + 1
  PROVE  k + (m - 1) <= max + c - 1
  OBVIOUS

\* record_violation: one task less executes the plugin, at most one record more is
\* kept, and a plugin that has reached a limit of the policy is quarantined.
LEMMA RecordsRecorded ==
  ASSUME now \in Nat, NEW p \in Plugins, DOMAIN quarantine = Plugins,
         NEW m \in Nat, m >= 1, m <= Cardinality(Tasks), Records(quarantine[p], m, now),
         NEW kind, record_violation(p, kind)
  PROVE  /\ Records(quarantine'[p], m - 1, now)
         /\ DOMAIN quarantine' = Plugins
         /\ \A y \in Plugins : y # p => quarantine'[y] = quarantine[y]
<1> DEFINE q == quarantine[p]
           v == [time |-> now, since |-> TRUE]
           added == IF kind \in {"Crash", "Budget"}
                    THEN [q EXCEPT ![kind] = Append(@, v)] ELSE q
           kept == [added EXCEPT !.Crash = Recent(@), !.Budget = Recent(@)]
           x == IF should_quarantine(kept) THEN quarantine_plugin_by_id(kept) ELSE kept
<1>1. quarantine' = [quarantine EXCEPT ![p] = x]
  BY DEF record_violation
<1>2. /\ Since(q.Crash) \in Nat /\ Since(q.Budget) \in Nat
      /\ max_crashes \in Nat \ {0} /\ max_budget_violations \in Nat \ {0}
      /\ Cardinality(Tasks) \in Nat
  BY RecordsNat
<1>3. /\ DOMAIN added = StateFields /\ added.is_quarantined = q.is_quarantined
      /\ Kept(added.Crash, now) /\ Kept(added.Budget, now)
      /\ \/ /\ Since(added.Crash) = Since(q.Crash) + 1
            /\ Since(added.Budget) = Since(q.Budget)
         \/ /\ Since(added.Crash) = Since(q.Crash)
            /\ Since(added.Budget) = Since(q.Budget) + 1
         \/ /\ Since(added.Crash) = Since(q.Crash)
            /\ Since(added.Budget) = Since(q.Budget)
  <2>1. Kept(Append(q.Crash, v), now)
        /\ Since(Append(q.Crash, v)) = Since(q.Crash) + 1
    BY SinceAppend DEF Records
  <2>2. Kept(Append(q.Budget, v), now)
        /\ Since(Append(q.Budget, v)) = Since(q.Budget) + 1
    BY SinceAppend DEF Records
  <2> HIDE DEF v
  <2>3. CASE kind = "Crash"
    <3>1. added = [q EXCEPT !.Crash = Append(q.Crash, v)]
      BY <2>3 DEF Records, StateFields
    <3>2. DOMAIN added = StateFields /\ added.is_quarantined = q.is_quarantined
          /\ added.Crash = Append(q.Crash, v) /\ added.Budget = q.Budget
      BY <3>1 DEF Records, StateFields
    <3> QED
      BY <2>1, <3>2 DEF Records
  <2>4. CASE kind = "Budget"
    <3>1. added = [q EXCEPT !.Budget = Append(q.Budget, v)]
      BY <2>4 DEF Records, StateFields
    <3>2. DOMAIN added = StateFields /\ added.is_quarantined = q.is_quarantined
          /\ added.Budget = Append(q.Budget, v) /\ added.Crash = q.Crash
      BY <3>1 DEF Records, StateFields
    <3> QED
      BY <2>2, <3>2 DEF Records
  <2>5. CASE kind \notin {"Crash", "Budget"}
    BY <2>5 DEF Records
  <2> QED
    BY <2>3, <2>4, <2>5
<1> HIDE DEF added
<1>4. /\ DOMAIN kept = StateFields /\ kept.is_quarantined = q.is_quarantined
      /\ kept.Crash = Recent(added.Crash) /\ kept.Budget = Recent(added.Budget)
  BY <1>3 DEF StateFields
<1> HIDE DEF kept
<1>5. /\ Kept(kept.Crash, now) /\ Since(kept.Crash) <= Since(added.Crash)
      /\ Kept(kept.Budget, now) /\ Since(kept.Budget) <= Since(added.Budget)
  BY <1>3, <1>4, RecentKeeps
<1>6. /\ Since(kept.Crash) \in Nat /\ Since(kept.Crash) <= Len(kept.Crash)
      /\ Since(kept.Budget) \in Nat /\ Since(kept.Budget) <= Len(kept.Budget)
      /\ Len(kept.Crash) \in Nat /\ Len(kept.Budget) \in Nat
  BY <1>5, SinceCounts DEF Kept
<1>7. q.is_quarantined \in BOOLEAN
  BY DEF Records
<1>8. CASE q.is_quarantined = TRUE
  <2>1. x = kept
    BY <1>4, <1>8 DEF should_quarantine
  <2>2. /\ Since(q.Crash) + m <= max_crashes + Cardinality(Tasks) - 1
        /\ Since(q.Budget) + m <= max_budget_violations + Cardinality(Tasks) - 1
    BY <1>8 DEF Records, Bounded
  <2>3. Since(kept.Crash) <= Since(q.Crash) + 1 /\ Since(kept.Budget) <= Since(q.Budget) + 1
    <3>1. Since(added.Crash) \in {Since(q.Crash), Since(q.Crash) + 1}
          /\ Since(added.Budget) \in {Since(q.Budget), Since(q.Budget) + 1}
      BY <1>3
    <3> HIDE DEF q
    <3> QED
      BY <1>2, <1>5, <1>6, <3>1
  <2>4. /\ Bounded(TRUE, Since(kept.Crash), m - 1, max_crashes)
        /\ Bounded(TRUE, Since(kept.Budget), m - 1, max_budget_violations)
    BY <1>2, <1>6, <2>2, <2>3, BoundAfter DEF Bounded
  <2> QED
    BY <1>1, <1>4, <1>5, <1>8, <2>1, <2>4 DEF Records
<1>9. CASE q.is_quarantined = FALSE
  <2>1. Since(q.Crash) <= max_crashes - 1
        /\ Since(q.Budget) <= max_budget_violations - 1
    BY <1>9 DEF Records, Bounded
  <2>2. CASE should_quarantine(kept)
    <3>1. /\ DOMAIN x = StateFields /\ x.is_quarantined = TRUE
          /\ x.Crash = kept.Crash /\ x.Budget = kept.Budget
      BY <1>4, <2>2 DEF quarantine_plugin_by_id, StateFields
    <3>2. Bounded(TRUE, Since(kept.Crash), m - 1, max_crashes)
      BY <1>2, <1>3, <1>5, <1>6, <2>1 DEF Bounded
    <3>3. Bounded(TRUE, Since(kept.Budget), m - 1, max_budget_violations)
      BY <1>2, <1>3, <1>5, <1>6, <2>1 DEF Bounded
    <3> HIDE DEF x
    <3> QED
      BY <1>1, <1>5, <3>1, <3>2, <3>3 DEF Records
  <2>3. CASE ~should_quarantine(kept)
    <3>1. x = kept
      BY <2>3
    <3>2. Len(kept.Crash) < max_crashes /\ Len(kept.Budget) < max_budget_violations
      BY <1>2, <1>4, <1>6, <1>9, <2>3 DEF should_quarantine
    <3>3. Bounded(FALSE, Since(kept.Crash), m - 1, max_crashes)
      BY <1>2, <1>6, <3>2 DEF Bounded
    <3>4. Bounded(FALSE, Since(kept.Budget), m - 1, max_budget_violations)
      BY <1>2, <1>6, <3>2 DEF Bounded
    <3> QED
      BY <1>1, <1>4, <1>5, <1>9, <3>1, <3>3, <3>4 DEF Records
  <2> QED
    BY <2>2, <2>3
<1> QED
  BY <1>7, <1>8, <1>9


\* The tasks that have been admitted to execute p and have not recorded how it ended.
Executors(p, calls) ==
  {t \in Tasks : calls[t].at \in {"exec", "run", "record"} /\ calls[t].plugin = p}

Executing(p, calls) == Cardinality(Executors(p, calls))

\* The inductive invariant: a plugin that is not quarantined is below both limits; one
\* that is has at most as many violations more as tasks executed it at that time.
ViolationInv ==
  /\ now \in Nat
  /\ DOMAIN quarantine = Plugins
  /\ \A p \in Plugins : Records(quarantine[p], Executing(p, task), now)

\* They are some of the tasks.
LEMMA ExecutingType ==
  ASSUME NEW p, NEW calls
  PROVE  /\ IsFiniteSet(Executors(p, calls)) /\ Executing(p, calls) \in Nat
         /\ Executing(p, calls) <= Cardinality(Tasks) /\ Cardinality(Tasks) \in Nat
<1>1. Executors(p, calls) \subseteq Tasks /\ IsFiniteSet(Tasks)
  BY PluginHostAssumption DEF Executors
<1>2. IsFiniteSet(Executors(p, calls))
      /\ Cardinality(Executors(p, calls)) <= Cardinality(Tasks)
  BY <1>1, FS_Subset
<1> QED
  BY <1>1, <1>2, FS_CardinalityType DEF Executing

\* A task that does something else is not among them.
LEMMA ExecutingOthers ==
  ASSUME NEW p, NEW calls, NEW t \in Tasks, calls[t].at = "idle"
  PROVE  Executing(p, calls) <= Cardinality(Tasks) - 1
<1>1. Executors(p, calls) \subseteq Tasks \ {t} /\ IsFiniteSet(Tasks)
  BY PluginHostAssumption DEF Executors
<1>2. IsFiniteSet(Tasks \ {t}) /\ Cardinality(Tasks \ {t}) = Cardinality(Tasks) - 1
  BY <1>1, FS_RemoveElement
<1> QED
  BY <1>1, <1>2, FS_Subset DEF Executing

\* Fewer executors are no more.
LEMMA ExecutingFewer ==
  ASSUME NEW p, NEW calls, NEW others,
         Executors(p, others) \subseteq Executors(p, calls)
  PROVE  Executing(p, others) <= Executing(p, calls)
  BY ExecutingType, FS_Subset DEF Executing

\* The calls after a step of task t.
LEMMA ExecutorsStep ==
  ASSUME NEW t \in Tasks, NEW c, DOMAIN task = Tasks, task' = [task EXCEPT ![t] = c], NEW p,
         c.at \in {"exec", "run", "record"} =>
           (task[t].at \in {"exec", "run", "record"}
             /\ c.plugin = task[t].plugin) \/ c.plugin # p
  PROVE  Executors(p, task') \subseteq Executors(p, task)
<1>1. \A u \in Tasks : task'[u] = IF u = t THEN c ELSE task[u]
  OBVIOUS
<1> QED
  BY <1>1 DEF Executors

\* A step after which no further task executes a plugin, and the records are as before.
LEMMA ViolationFrame ==
  ASSUME ViolationInv, UNCHANGED <<now, quarantine>>,
         \A p \in Plugins : Executors(p, task') \subseteq Executors(p, task)
  PROVE  ViolationInv'
<1> SUFFICES ASSUME NEW p \in Plugins
             PROVE  Records(quarantine[p], Executing(p, task'), now)
  BY DEF ViolationInv
<1>1. Executing(p, task') <= Executing(p, task)
  BY ExecutingFewer
<1>2. Executing(p, task') \in Nat /\ Executing(p, task) \in Nat
  BY ExecutingType
<1> QED
  BY <1>1, <1>2, RecordsFewer DEF ViolationInv

\* The same where task t goes on to call c.
LEMMA ViolationQuiet ==
  ASSUME ViolationInv, DOMAIN task = Tasks, UNCHANGED <<now, quarantine>>,
         NEW t \in Tasks, NEW c, task' = [task EXCEPT ![t] = c],
         c.at \in {"exec", "run", "record"} =>
           task[t].at \in {"exec", "run", "record"} /\ c.plugin = task[t].plugin
  PROVE  ViolationInv'
<1>1. \A p \in Plugins : Executors(p, task') \subseteq Executors(p, task)
  BY ExecutorsStep
<1> QED
  BY <1>1, ViolationFrame

\* A call returns.
LEMMA ViolationReturn ==
  ASSUME RegistryInv, ViolationInv, UNCHANGED <<now, quarantine>>,
         NEW t \in Tasks, Return(t)
  PROVE  ViolationInv'
<1>1. task' = [task EXCEPT ![t] = Returned(task[t])] /\ DOMAIN task = Tasks
  BY ReturnStep DEF RegistryInv
<1>2. Returned(task[t]).at \in {"idle", "load_next", "unload_next"}
  BY ReturnedCall DEF RegistryInv
<1> QED
  BY <1>1, <1>2, ViolationQuiet

\* At the start there are no records.
LEMMA ViolationInit ==
  ASSUME Init
  PROVE  ViolationInv
<1>1. now = 0 /\ quarantine = [p \in Plugins |-> NoState]
  BY DEF Init
<1>2. /\ DOMAIN NoState = StateFields /\ NoState.is_quarantined = FALSE
      /\ NoState.Crash = <<>> /\ NoState.Budget = <<>>
  BY DEF NoState, StateFields
<1>3. \A m : Bounded(FALSE, 0, m, max_crashes) /\ Bounded(FALSE, 0, m, max_budget_violations)
  BY PluginHostAssumption DEF Bounded
<1>4. \A m : Records(NoState, m, 0)
  BY <1>2, <1>3, SinceEmpty DEF Records
<1> QED
  BY <1>1, <1>4 DEF ViolationInv

\* The check of a quarantine lifts one that has run out.
LEMMA CheckedRecords ==
  ASSUME ViolationInv, NEW p \in Plugins, CheckQuarantine(p)
  PROVE  /\ DOMAIN quarantine' = Plugins
         /\ \A x \in Plugins : x # p => quarantine'[x] = quarantine[x]
         /\ \/ quarantine'[p] = quarantine[p] /\ ~Expired(quarantine[p])
            \/ quarantine'[p] = Lift(quarantine[p])
  BY DEF ViolationInv, CheckQuarantine

\* load_plugin checks the quarantine.
LEMMA ViolationLoadCheck ==
  ASSUME RegistryInv, ViolationInv, NEW t \in Tasks, NEW p \in Plugins,
         NEW todo, LoadCheck(t, p, todo)
  PROVE  ViolationInv'
<1> DEFINE c == IF ~is_quarantined(p)
                THEN [at |-> "load", plugin |-> p, todo |-> todo, kind |-> "load_next"]
                ELSE IF todo = {} THEN Idle
                ELSE [at |-> "load_next", plugin |-> NONE, todo |-> todo, kind |-> "load_next"]
<1>1. task' = [task EXCEPT ![t] = c] /\ now' = now /\ CheckQuarantine(p)
      /\ DOMAIN task = Tasks
  BY DEF LoadCheck, RegistryInv
<1>2. c.at \in {"load", "idle", "load_next"}
  BY IdleCall
<1> HIDE DEF c
<1>3. \A x \in Plugins : Executors(x, task') \subseteq Executors(x, task)
  BY <1>1, <1>2, ExecutorsStep
<1>4. \A x \in Plugins : /\ Executing(x, task') <= Executing(x, task)
                              /\ Executing(x, task') \in Nat /\ Executing(x, task) \in Nat
  BY <1>3, ExecutingFewer, ExecutingType
<1>5. ASSUME NEW x \in Plugins
      PROVE  quarantine'[x] = quarantine[x] \/ quarantine'[x] = Lift(quarantine[x])
  <2>1. CASE x = p
    BY <1>1, <2>1, CheckedRecords
  <2>2. CASE x # p
    BY <1>1, <2>2, CheckedRecords
  <2> QED
    BY <2>1, <2>2
<1>6. ASSUME NEW x \in Plugins PROVE Records(quarantine'[x], Executing(x, task'), now)
  <2>1. Records(quarantine[x], Executing(x, task), now)
    BY DEF ViolationInv
  <2>2. CASE quarantine'[x] = quarantine[x]
    BY <1>4, <2>1, <2>2, RecordsFewer
  <2>3. CASE quarantine'[x] = Lift(quarantine[x])
    BY <1>4, <2>1, <2>3, RecordsLifted
  <2> QED
    BY <1>5, <2>2, <2>3
<1> QED
  BY <1>1, <1>6, CheckedRecords DEF ViolationInv

\* An execution is admitted when the plugin is not, or no longer, quarantined.
LEMMA ViolationExecute ==
  ASSUME RegistryInv, ViolationInv, NEW t \in Tasks, NEW p \in Plugins,
         execute_plugin(t, p)
  PROVE  ViolationInv'
<1> DEFINE c == [Idle EXCEPT !.at = "exec", !.plugin = p]
<1>1. /\ now' = now /\ CheckQuarantine(p) /\ DOMAIN task = Tasks
      /\ task' = IF is_quarantined(p) THEN task ELSE [task EXCEPT ![t] = c]
  BY DEF execute_plugin, RegistryInv
<1>2. c.plugin = p
  BY SingleCall
<1> HIDE DEF c
<1>3. \A x \in Plugins : Executing(x, task') \in Nat /\ Executing(x, task) \in Nat
  BY ExecutingType
<1>4. \A x \in Plugins : x # p => Executors(x, task') \subseteq Executors(x, task)
  BY <1>1, <1>2, ExecutorsStep
<1>5. \A x \in Plugins : x # p => Executing(x, task') <= Executing(x, task)
  BY <1>4, ExecutingFewer
<1>6. ASSUME NEW x \in Plugins, x # p
      PROVE  Records(quarantine'[x], Executing(x, task'), now)
  BY <1>1, <1>3, <1>5, <1>6, CheckedRecords, RecordsFewer DEF ViolationInv
<1>7. Records(quarantine'[p], Executing(p, task'), now)
  <2>0. Records(quarantine[p], Executing(p, task), now)
        /\ quarantine[p].is_quarantined \in BOOLEAN
    BY DEF ViolationInv, Records
  <2>1. CASE quarantine'[p] = Lift(quarantine[p])
    BY <1>3, <2>0, <2>1, RecordsLifted
  <2>2. CASE quarantine'[p] = quarantine[p] /\ ~Expired(quarantine[p])
    <3>1. CASE quarantine[p].is_quarantined = TRUE
      <4>1. task' = task
        BY <1>1, <2>2, <3>1 DEF is_quarantined
      <4> QED
        BY <2>0, <2>2, <4>1
    <3>2. CASE quarantine[p].is_quarantined = FALSE
      BY <1>3, <2>0, <2>2, <3>2, RecordsFewer
    <3> QED
      BY <2>0, <3>1, <3>2
  <2> QED
    BY <1>1, <2>1, <2>2, CheckedRecords
<1> QED
  BY <1>1, <1>6, <1>7, CheckedRecords DEF ViolationInv

\* An execution records how it ended.
LEMMA ViolationRecord ==
  ASSUME RegistryInv, ViolationInv, NEW t \in Tasks, ExecuteRecord(t)
  PROVE  ViolationInv'
<1> DEFINE p == task[t].plugin
           c == [task[t] EXCEPT !.at = "stats", !.kind = NONE]
<1>1. /\ task[t].at = "record" /\ now' = now /\ record_violation(p, task[t].kind)
      /\ task' = [task EXCEPT ![t] = c] /\ DOMAIN task = Tasks
  BY DEF ExecuteRecord, RegistryInv
<1>2. p \in Plugins /\ c.at = "stats"
  BY <1>1 DEF RegistryInv, CallOK, InHand, HostCall
<1> HIDE DEF c
<1>3. \A u \in Tasks : task'[u] = IF u = t THEN c ELSE task[u]
  BY <1>1
<1>4. Executors(p, task') = Executors(p, task) \ {t} /\ t \in Executors(p, task)
  BY <1>1, <1>2, <1>3 DEF Executors
<1>5. Executing(p, task') = Executing(p, task) - 1
  BY <1>4, ExecutingType, FS_RemoveElement DEF Executing
<1>6. /\ Executing(p, task) \in Nat /\ Executing(p, task') \in Nat
      /\ Executing(p, task) <= Cardinality(Tasks)
  BY ExecutingType
<1>7. Executing(p, task) >= 1
  BY <1>5, <1>6
<1> HIDE DEF p
<1>8. /\ Records(quarantine'[p], Executing(p, task) - 1, now)
      /\ DOMAIN quarantine' = Plugins
      /\ \A y \in Plugins : y # p => quarantine'[y] = quarantine[y]
  BY <1>1, <1>2, <1>6, <1>7, RecordsRecorded DEF ViolationInv
<1>9. ASSUME NEW x \in Plugins, x # p
      PROVE  Records(quarantine'[x], Executing(x, task'), now)
  <2>1. Executors(x, task') \subseteq Executors(x, task)
    BY <1>1, <1>2, ExecutorsStep
  <2>2. Executing(x, task') <= Executing(x, task)
    BY <2>1, ExecutingFewer
  <2>3. Executing(x, task') \in Nat /\ Executing(x, task) \in Nat
    BY ExecutingType
  <2>4. Records(quarantine[x], Executing(x, task), now)
    BY DEF ViolationInv
  <2> QED
    BY <1>8, <1>9, <2>2, <2>3, <2>4, RecordsFewer
<1> QED
  BY <1>1, <1>5, <1>8, <1>9 DEF ViolationInv

\* The other sections of an execution.
LEMMA ViolationExecution ==
  ASSUME RegistryInv, ViolationInv, NEW t \in Tasks,
         \/ ExecuteLock(t) \/ ExecuteStats(t)
         \/ \E kind \in {NONE, "Crash", "Budget", "Other"} : ExecuteEnd(t, kind)
  PROVE  ViolationInv'
<1>0. CallOK(task[t]) /\ DOMAIN task = Tasks
  BY DEF RegistryInv
<1>1. CASE ExecuteLock(t)
  <2>1. task[t].at = "exec" /\ UNCHANGED <<now, quarantine>>
    BY <1>1 DEF ExecuteLock
  <2>2. \/ Return(t)
        \/ task' = [task EXCEPT ![t] = [task[t] EXCEPT !.at = "run"]]
        \/ task' = [task EXCEPT ![t] = [task[t] EXCEPT !.at = "record", !.kind = "Crash"]]
    BY <1>0, <1>1 DEF ExecuteLock
  <2>3. /\ [task[t] EXCEPT !.at = "run"].plugin = task[t].plugin
        /\ [task[t] EXCEPT !.at = "record", !.kind = "Crash"].plugin = task[t].plugin
    BY <1>0 DEF CallOK, HostCall
  <2> QED
    BY <1>0, <2>1, <2>2, <2>3, ViolationReturn, ViolationQuiet
<1>2. CASE ExecuteStats(t)
  BY <1>2, ViolationReturn DEF ExecuteStats
<1>3. ASSUME NEW kind \in {NONE, "Crash", "Budget", "Other"}, ExecuteEnd(t, kind)
      PROVE  ViolationInv'
  <2> DEFINE c == IF kind = NONE THEN [task[t] EXCEPT !.at = "stats"]
                  ELSE [task[t] EXCEPT !.at = "record", !.kind = kind]
  <2>1. task[t].at = "run" /\ UNCHANGED <<now, quarantine>>
    BY <1>3 DEF ExecuteEnd
  <2>2. task' = [task EXCEPT ![t] = c]
    BY <1>0, <1>3 DEF ExecuteEnd, Go
  <2>3. c.plugin = task[t].plugin
    BY <1>0 DEF CallOK, HostCall
  <2> HIDE DEF c
  <2> QED
    BY <1>0, <2>1, <2>2, <2>3, ViolationQuiet
<1> QED
  BY <1>1, <1>2, <1>3

\* Loading and unloading, enabling and scanning keep no records.
LEMMA ViolationRegistry ==
  ASSUME RegistryInv, ViolationInv, NEW t \in Tasks,
         \/ LoadLock(t) \/ \E ok \in BOOLEAN : LoadEnd(t, ok)
              \/ UnloadSection(t, ok)
         \/ load_all_plugins(t) \/ unload_all_plugins(t)
         \/ \E p \in Plugins : \/ UnloadNext(t, p) \/ unload_plugin(t, p)
                                    \/ \E b \in BOOLEAN : set_plugin_enabled(t, p, b)
  PROVE  ViolationInv'
<1>0. CallOK(task[t]) /\ DOMAIN task = Tasks
  BY DEF RegistryInv
<1>1. CASE LoadLock(t)
  <2>1. UNCHANGED <<now, quarantine>>
        /\ (Return(t) \/ task' = [task EXCEPT ![t] = [task[t] EXCEPT !.at = "loading"]])
    BY <1>0, <1>1 DEF LoadLock, Go
  <2>2. [task[t] EXCEPT !.at = "loading"].at = "loading"
    BY <1>0 DEF CallOK, HostCall
  <2> QED
    BY <1>0, <2>1, <2>2, ViolationReturn, ViolationQuiet
<1>2. ASSUME NEW ok \in BOOLEAN, LoadEnd(t, ok) \/ UnloadSection(t, ok)
      PROVE  ViolationInv'
  BY <1>2, ViolationReturn DEF LoadEnd, UnloadSection
<1>3. CASE load_all_plugins(t) \/ unload_all_plugins(t)
  <2>1. PICK ids : \/ task' = [task EXCEPT ![t] = [at |-> "load_next", plugin |-> NONE,
                                                   todo |-> ids, kind |-> "load_next"]]
                   \/ task' = [task EXCEPT ![t] = [at |-> "unload_next", plugin |-> NONE,
                                                   todo |-> ids, kind |-> "unload_next"]]
    BY <1>3 DEF load_all_plugins, unload_all_plugins
  <2>2. UNCHANGED <<now, quarantine>>
    BY <1>3 DEF load_all_plugins, unload_all_plugins
  <2> QED
    BY <1>0, <2>1, <2>2, ViolationQuiet
<1>4. ASSUME NEW p \in Plugins, UnloadNext(t, p) PROVE ViolationInv'
  <2>1. /\ UNCHANGED <<now, quarantine>>
        /\ task' = [task EXCEPT ![t] = [at |-> "unload", plugin |-> p,
                                        todo |-> task[t].todo \ {p}, kind |-> "unload_next"]]
    BY <1>0, <1>4 DEF UnloadNext
  <2> QED
    BY <1>0, <2>1, ViolationQuiet
<1>5. ASSUME NEW p \in Plugins,
             unload_plugin(t, p) \/ \E b \in BOOLEAN : set_plugin_enabled(t, p, b)
      PROVE  ViolationInv'
  <2>1. /\ UNCHANGED <<now, quarantine>>
        /\ \/ task' = task
           \/ task' = [task EXCEPT ![t] = [Idle EXCEPT !.at = "unload", !.plugin = p]]
    BY <1>5 DEF unload_plugin, set_plugin_enabled
  <2>2. [Idle EXCEPT !.at = "unload", !.plugin = p].at = "unload"
    BY SingleCall
  <2> QED
    BY <1>0, <2>1, <2>2, ViolationQuiet, ViolationFrame
<1> QED
  BY <1>1, <1>2, <1>3, <1>4, <1>5

\* An operator quarantines or releases a plugin.
LEMMA ViolationOperator ==
  ASSUME RegistryInv, ViolationInv, NEW t \in Tasks, NEW p \in Plugins,
         \/ \E m \in ManualMinutes : quarantine_plugin(t, p, m)
         \/ release_from_quarantine(t, p)
  PROVE  ViolationInv'
<1>0. /\ DOMAIN task = Tasks /\ DOMAIN quarantine = Plugins /\ now \in Nat
      /\ \A x \in Plugins : Records(quarantine[x], Executing(x, task), now)
  BY DEF RegistryInv, ViolationInv
<1>1. ASSUME NEW m \in ManualMinutes, quarantine_plugin(t, p, m) PROVE ViolationInv'
  <2> DEFINE x == quarantine'[p]
             c == [Idle EXCEPT !.at = "unload", !.plugin = p]
  <2>1. /\ task[t].at = "idle" /\ now' = now /\ task' = [task EXCEPT ![t] = c]
        /\ quarantine' = [quarantine EXCEPT ![p].is_quarantined = TRUE,
                                            ![p].quarantine_start = now,
                                            ![p].quarantine_end = now + m]
    BY <1>1 DEF quarantine_plugin
  <2>2. c.at = "unload"
    BY SingleCall
  <2> HIDE DEF c
  <2>3. DOMAIN quarantine[p] = StateFields
    BY <1>0 DEF Records
  <2>4. /\ DOMAIN x = StateFields /\ x.is_quarantined = TRUE
        /\ x.Crash = quarantine[p].Crash /\ x.Budget = quarantine[p].Budget
    BY <1>0, <2>1, <2>3 DEF StateFields
  <2>5. DOMAIN quarantine' = Plugins
        /\ \A y \in Plugins : y # p => quarantine'[y] = quarantine[y]
    BY <1>0, <2>1
  <2>6. \A y \in Plugins : Executors(y, task') \subseteq Executors(y, task)
    BY <1>0, <2>1, <2>2, ExecutorsStep
  <2>7. \A y \in Plugins : /\ Executing(y, task') <= Executing(y, task)
                                /\ Executing(y, task') \in Nat /\ Executing(y, task) \in Nat
    BY <2>6, ExecutingFewer, ExecutingType
  <2>8. Executing(p, task) <= Cardinality(Tasks) - 1
    BY <2>1, ExecutingOthers
  <2> HIDE DEF x
  <2>9. Records(x, Executing(p, task), now)
    BY <1>0, <2>4, <2>7, <2>8, RecordsQuarantined
  <2>10. \A y \in Plugins : Records(quarantine'[y], Executing(y, task'), now)
    BY <1>0, <2>5, <2>7, <2>9, RecordsFewer DEF x
  <2> QED
    BY <1>0, <2>1, <2>5, <2>10 DEF ViolationInv
<1>2. CASE release_from_quarantine(t, p)
  <2>1. quarantine' = [quarantine EXCEPT ![p] = Lift(quarantine[p])]
        /\ UNCHANGED <<now, task>>
    BY <1>0, <1>2 DEF release_from_quarantine
  <2>2. Executing(p, task) \in Nat
    BY ExecutingType
  <2>3. Records(Lift(quarantine[p]), Executing(p, task), now)
    BY <1>0, <2>2, RecordsLifted
  <2> QED
    BY <1>0, <2>1, <2>3 DEF ViolationInv
<1> QED
  BY <1>1, <1>2

\* Every step keeps the invariant.
LEMMA ViolationStep ==
  ASSUME RegistryInv, ViolationInv, [Next]_vars
  PROVE  ViolationInv'
<1>1. ASSUME NEW t \in Tasks, Continue(t) PROVE ViolationInv'
  <2>1. ASSUME NEW p \in Plugins, LoadNext(t, p) PROVE ViolationInv'
    BY <2>1, ViolationLoadCheck DEF LoadNext
  <2> QED
    BY <1>1, <2>1, ViolationRegistry, ViolationExecution, ViolationRecord DEF Continue
<1>2. ASSUME NEW t \in Tasks, Begin(t) PROVE ViolationInv'
  <2>1. ASSUME NEW p \in Plugins, load_plugin(t, p) PROVE ViolationInv'
    BY <2>1, ViolationLoadCheck DEF load_plugin
  <2> QED
    BY <1>2, <2>1, ViolationRegistry, ViolationExecute, ViolationOperator DEF Begin
<1>3. ASSUME NEW found \in SUBSET Plugins, scan_plugins(found) PROVE ViolationInv'
  <2>1. UNCHANGED <<now, quarantine, task>>
    BY <1>3 DEF scan_plugins
  <2> QED
    BY <2>1, ViolationFrame
<1>4. CASE Tick
  <2>1. now' = now + 1 /\ UNCHANGED <<quarantine, task>>
    BY <1>4 DEF Tick
  <2> QED
    BY <2>1, RecordsLater DEF ViolationInv
<1>5. CASE UNCHANGED vars
  BY <1>5, ViolationFrame DEF vars
<1> QED
  BY <1>1, <1>2, <1>3, <1>4, <1>5 DEF Next

\* The bound follows from it.
LEMMA ViolationImplies ==
  ASSUME ViolationInv
  PROVE  ViolationsAreBounded
<1> SUFFICES ASSUME NEW p \in Plugins
             PROVE  /\ Since(quarantine[p].Crash) <= max_crashes + Cardinality(Tasks) - 1
                    /\ Since(quarantine[p].Budget)
                         <= max_budget_violations + Cardinality(Tasks) - 1
  BY DEF ViolationsAreBounded
<1>1. Records(quarantine[p], Executing(p, task), now) /\ Executing(p, task) \in Nat
  BY ExecutingType DEF ViolationInv
<1>2. /\ Since(quarantine[p].Crash) \in Nat /\ Since(quarantine[p].Budget) \in Nat
      /\ max_crashes \in Nat /\ max_budget_violations \in Nat /\ Cardinality(Tasks) \in Nat
  BY <1>1, RecordsNat
<1> QED
  BY <1>1, <1>2 DEF Records, Bounded

\* For any tasks, plugins and policy: since its last quarantine was lifted a plugin
\* has at most as many crashes, and as many overruns, on record as the policy allows,
\* plus one for each further task (execute_plugin, record_violation, is_quarantined).
THEOREM HostViolationsAreBounded ==
  Spec => []ViolationsAreBounded
<1>1. Init => ViolationInv
  BY ViolationInit
<1>2. RegistryInv /\ ViolationInv /\ [Next]_vars => ViolationInv'
  BY ViolationStep
<1>3. ViolationInv => ViolationsAreBounded
  BY ViolationImplies
<1> QED
  BY <1>1, <1>2, <1>3, RegistryInvariant, PTL DEF Spec

-----------------------------------------------------------------------------
(* The native plugin channel                                               *)
(*                                                                         *)
(* The ring of SpscChannel implements the queue of Fifo, although either   *)
(* process copies a frame word by word and may end at any of its steps.    *)
(* CountersInv says what the two counters and the loaded copies of them    *)
(* mean; ContentInv, what the slots hold.                                  *)

\* The value of a counter after n frames, and the slot of frame n + 1.
SeqOf(n) == IF n < SeqMod THEN n ELSE n - SeqMod
SlotOf(n) == Index(SeqOf(n))

\* The capacity divides the range of the counters.
Divides == \E q \in Nat : SeqMod = max_frames * q

\* A frame in memory, whole or torn.
Frames == [1..Words -> Word]

\* A call of write or read in progress.
Caller == [at : {"idle", "loaded", "copy", "store"}, p : Seqs, c : Seqs,
  k : 1..Words, buf : Frames]

\* The frames read so far.
taken == Len(received)

\* The counters count the frames, modulo their range, and the ring is never more than
\* full; what a process has loaded is stale in one direction only: the writer sees
\* at most the room there is, the reader at most the frames there are.
CountersInv ==
  /\ slots \in [Slots -> Frames]
  /\ writer \in Caller /\ reader \in Caller
  /\ written \in 0..MaxSent /\ received \in Seq(Frames)
  /\ taken <= written /\ written <= taken + max_frames /\ taken < SeqMod
  /\ producer_seq = SeqOf(written) /\ consumer_seq = taken
  /\ writer.at # "idle" => writer.p = producer_seq /\ written < MaxSent
  /\ writer.at \in {"copy", "store"} => written < taken + max_frames
  /\ reader.at # "idle" => reader.p <= written
  /\ reader.at \in {"copy", "store"} => reader.c = taken /\ reader.c < reader.p

\* What the slots and the two buffers hold.
ContentInv ==
  /\ \A n \in taken..(written - 1) : slots[SlotOf(n)] = Image(n + 1)
  /\ writer.at = "loaded" => writer.k = 1
  /\ writer.at = "copy" => \A j \in 1..(writer.k - 1) : slots[SlotOf(written)][j] = written + 1
  /\ writer.at = "store" => slots[SlotOf(written)] = Image(written + 1)
  /\ reader.at = "loaded" => reader.k = 1
  /\ reader.at = "copy" => \A j \in 1..(reader.k - 1) : reader.buf[j] = taken + 1
  /\ reader.at = "store" => reader.buf = Image(taken + 1)

\* The sizes, in the form the proofs use.
LEMMA Sizes ==
  /\ max_frames \in Nat \ {0} /\ SeqMod \in Nat \ {0} /\ max_frames < SeqMod
  /\ Words \in Nat \ {0} /\ MaxSent \in Nat
  BY MaxFramesAssumption, SeqModAssumption, WordsAssumption, MaxSentAssumption

\* The remainder of a number less than the modulus away.
LEMMA Wrapped ==
  ASSUME NEW x \in Int, -SeqMod <= x, x < 2 * SeqMod
  PROVE  x % SeqMod = IF x < 0 THEN x + SeqMod ELSE IF x < SeqMod THEN x ELSE x - SeqMod
  BY Sizes

\* How far the producer's counter is ahead of the consumer's, wrapped or not.
LEMMA Distance ==
  ASSUME NEW r \in Nat, NEW w \in Nat, r <= w, w <= r + max_frames, r < SeqMod
  PROVE  (SeqOf(w) - r) % SeqMod = w - r
<1>1. SeqMod \in Nat \ {0} /\ max_frames < SeqMod /\ max_frames \in Nat
  BY Sizes
<1>2. SeqOf(w) = IF w < SeqMod THEN w ELSE w - SeqMod
  BY DEF SeqOf
<1>3. SeqOf(w) - r \in Int /\ -SeqMod <= SeqOf(w) - r /\ SeqOf(w) - r < 2 * SeqMod
  BY <1>1, <1>2
<1>4. (SeqOf(w) - r) % SeqMod
        = IF SeqOf(w) - r < 0 THEN SeqOf(w) - r + SeqMod
          ELSE IF SeqOf(w) - r < SeqMod THEN SeqOf(w) - r ELSE SeqOf(w) - r - SeqMod
  BY <1>3, Wrapped
<1> QED
  BY <1>1, <1>2, <1>3, <1>4

\* Every counter has a slot.
LEMMA IndexType ==
  \A n \in Int : Index(n) \in Slots
  BY Sizes DEF Index, Slots

\* Division with remainder by the capacity.
LEMMA Division ==
  ASSUME NEW a \in Int
  PROVE  /\ a \div max_frames \in Int
         /\ a = max_frames * (a \div max_frames) + Index(a)
         /\ Index(a) \in 0..(max_frames - 1)
<1>1. max_frames \in Nat \ {0}
  BY Sizes
<1> HIDE Sizes
<1> QED
  BY <1>1 DEF Index

\* Multiples: distributivity, and a gap of one is a gap of a capacity.
LEMMA Product ==
  ASSUME NEW m \in Nat \ {0}, NEW x \in Int, NEW y \in Int
  PROVE  /\ m * x \in Int /\ m * y \in Int /\ m * (x + y) = m * x + m * y
         /\ m * (x - y) = m * x - m * y
         /\ x < y => m * x + m <= m * y
  <1>1. m * x \in Int /\ m * y \in Int /\ m * (x + y) = m * x + m * y
        /\ m * (x - y) = m * x - m * y
    OBVIOUS
  <1>2. ASSUME x < y PROVE m * x + m <= m * y
    <2>1. m * (y - x) >= m
      BY <1>2
    <2>2. m * (y - x) = m * y - m * x
      OBVIOUS
    <2> QED
      BY <1>1, <2>1, <2>2
  <1> QED BY <1>1, <1>2

\* The remainder is the only one.
LEMMA Unique ==
  ASSUME NEW a \in Int, NEW q \in Int, NEW r \in 0..(max_frames - 1),
         a = max_frames * q + r
  PROVE  Index(a) = r
<1> DEFINE p == a \div max_frames
           s == Index(a)
<1>1. p \in Int /\ a = max_frames * p + s /\ s \in 0..(max_frames - 1)
  BY Division
<1>2. max_frames * p \in Int /\ max_frames * q \in Int /\ max_frames \in Nat \ {0}
  BY <1>1, Sizes, Product
<1>3. p < q => max_frames * p + max_frames <= max_frames * q
  BY <1>1, Sizes, Product
<1>4. q < p => max_frames * q + max_frames <= max_frames * p
  BY <1>1, Sizes, Product
<1> HIDE DEF p, s
<1>5. p = q
  BY <1>1, <1>2, <1>3, <1>4
<1> QED
  BY <1>1, <1>2, <1>5 DEF s

\* Numbers less than the capacity apart have different slots.
LEMMA Apart ==
  ASSUME NEW a \in Int, NEW b \in Int, a < b, b < a + max_frames
  PROVE  Index(a) # Index(b)
<1> SUFFICES ASSUME Index(a) = Index(b) PROVE FALSE
  OBVIOUS
<1> DEFINE p == a \div max_frames
           q == b \div max_frames
<1>1. /\ p \in Int /\ q \in Int /\ Index(a) \in Int
      /\ a = max_frames * p + Index(a) /\ b = max_frames * q + Index(a)
  BY Division
<1>2. max_frames * p \in Int /\ max_frames * q \in Int /\ max_frames \in Nat \ {0}
  BY <1>1, Sizes, Product
<1>3. p < q => max_frames * p + max_frames <= max_frames * q
  BY <1>1, Sizes, Product
<1>4. q < p => max_frames * q + max_frames <= max_frames * p
  BY <1>1, Sizes, Product
<1> HIDE DEF p, q
<1> QED
  BY <1>1, <1>2, <1>3, <1>4

\* A wrap keeps the slot when the capacity divides the range.
LEMMA SlotIsIndex ==
  ASSUME NEW n \in Nat, n < SeqMod \/ Divides
  PROVE  SlotOf(n) = Index(n)
<1>1. CASE n < SeqMod
  BY <1>1 DEF SlotOf, SeqOf
<1>2. CASE Divides /\ ~(n < SeqMod)
  <2>1. PICK q \in Nat : SeqMod = max_frames * q
    BY <1>2 DEF Divides
  <2> DEFINE d == n \div max_frames
  <2>2. d \in Int /\ n = max_frames * d + Index(n) /\ Index(n) \in 0..(max_frames - 1)
    BY Division
  <2>3. /\ max_frames * (d - q) = max_frames * d - max_frames * q
        /\ max_frames * d \in Int /\ max_frames * q \in Int
    BY <2>2, Sizes, Product
  <2>4. n - SeqMod = max_frames * (d - q) + Index(n) /\ n - SeqMod \in Int
        /\ d - q \in Int
    BY <2>1, <2>2, <2>3, Sizes
  <2> HIDE DEF d
  <2>5. Index(n - SeqMod) = Index(n)
    BY <2>2, <2>4, Unique
  <2> QED
    BY <1>2, <2>5 DEF SlotOf, SeqOf
<1> QED
  BY <1>1, <1>2

\* Two frames less than the capacity apart do not share a slot.
LEMMA SlotsApart ==
  ASSUME NEW n \in Nat, NEW m \in Nat, n < m, m < n + max_frames,
         m < SeqMod \/ Divides
  PROVE  SlotOf(n) # SlotOf(m)
<1>1. n < SeqMod \/ Divides
  BY Sizes
<1> QED
  BY <1>1, SlotIsIndex, Apart

\* Calls as they begin.
LEMMA IdleCaller ==
  /\ NoCall \in Caller /\ NoCall.at = "idle"
  /\ [k \in 1..Words |-> EMPTY] \in Frames
  /\ \A s \in Seqs :
       /\ [NoCall EXCEPT !.at = "loaded", !.p = s] \in Caller
       /\ [NoCall EXCEPT !.at = "loaded", !.p = s].at = "loaded"
       /\ [NoCall EXCEPT !.at = "loaded", !.p = s].p = s
<1>1. [k \in 1..Words |-> EMPTY] \in Frames
  BY DEF Frames, Word
<1>2. 0 \in Seqs /\ 1 \in 1..Words
  BY Sizes DEF Seqs
<1>3. NoCall = [at |-> "idle", p |-> 0, c |-> 0, k |-> 1,
      buf |-> [k \in 1..Words |-> EMPTY]]
  BY DEF NoCall
<1>4. NoCall \in Caller /\ NoCall.at = "idle"
  BY <1>1, <1>2, <1>3 DEF Caller
<1>5. ASSUME NEW s \in Seqs
      PROVE  /\ [NoCall EXCEPT !.at = "loaded", !.p = s] \in Caller
             /\ [NoCall EXCEPT !.at = "loaded", !.p = s].at = "loaded"
             /\ [NoCall EXCEPT !.at = "loaded", !.p = s].p = s
  BY <1>1, <1>2, <1>3 DEF Caller
<1> QED
  BY <1>1, <1>4, <1>5

\* Types that follow from the invariant.
LEMMA CounterTypes ==
  ASSUME CountersInv
  PROVE  /\ written \in Nat /\ taken \in Nat /\ producer_seq \in Seqs
            /\ consumer_seq \in Seqs
         /\ producer_seq <= written /\ SeqOf(written) \in Nat
<1>1. written \in Nat /\ taken \in Nat
  <2>1. written \in 0..MaxSent /\ received \in Seq(Frames)
    BY DEF CountersInv
  <2> QED
    BY <2>1, Sizes, LenProperties DEF taken
<1>2. /\ taken <= written /\ written <= taken + max_frames /\ taken < SeqMod
      /\ producer_seq = SeqOf(written) /\ consumer_seq = taken
  BY DEF CountersInv
<1>3. SeqOf(written) \in Seqs /\ SeqOf(written) <= written
  BY <1>1, <1>2, Sizes DEF SeqOf, Seqs
<1>4. consumer_seq \in Seqs
  BY <1>1, <1>2, Sizes DEF Seqs
<1>5. SeqOf(written) \in Nat
  BY <1>3, Sizes DEF Seqs
<1> QED
  BY <1>1, <1>2, <1>3, <1>4, <1>5

\* An empty ring.
LEMMA CountersInit ==
  ASSUME ChannelInit
  PROVE  CountersInv
<1>1. slots \in [Slots -> Frames] /\ writer \in Caller /\ reader \in Caller
  BY IdleCaller DEF ChannelInit
<1>2. received \in Seq(Frames) /\ taken = 0
  BY EmptySeq DEF ChannelInit, taken
<1>3. written \in 0..MaxSent /\ written = 0
  BY Sizes DEF ChannelInit
<1>4. SeqOf(0) = 0
  BY Sizes DEF SeqOf
<1>5. /\ producer_seq = 0 /\ consumer_seq = 0 /\ writer.at = "idle" /\ reader.at = "idle"
  BY IdleCaller DEF ChannelInit
<1> QED
  BY <1>1, <1>2, <1>3, <1>4, <1>5, Sizes DEF CountersInv

\* The writer's loads.
LEMMA CountersWriteLoad ==
  ASSUME CountersInv, WriteLoadProducer \/ WriteLoadConsumer
  PROVE  CountersInv'
<1> USE DEF header
<1>1. UNCHANGED <<header, slots, reader, written, received>>
  BY DEF WriteLoadProducer, WriteLoadConsumer
<1>2. CASE WriteLoadProducer
  <2>1. producer_seq \in Seqs /\ written < MaxSent
    BY <1>2, CounterTypes DEF WriteLoadProducer
  <2>2. writer' \in Caller /\ writer'.at = "loaded" /\ writer'.p = producer_seq
    BY <1>2, <2>1, IdleCaller DEF WriteLoadProducer
  <2> QED
    BY <1>1, <2>1, <2>2 DEF CountersInv, taken
<1>3. CASE WriteLoadConsumer
  <2>1. CASE RingBufferFull(writer.p, consumer_seq)
    <3>1. writer' = NoCall
      BY <1>3, <2>1 DEF WriteLoadConsumer
    <3> QED
      BY <1>1, <3>1, IdleCaller DEF CountersInv, taken
  <2>2. CASE ~RingBufferFull(writer.p, consumer_seq)
    <3>1. writer.at = "loaded" /\ writer' = [writer EXCEPT !.at = "copy", !.c = consumer_seq]
      BY <1>3, <2>2 DEF WriteLoadConsumer
    <3>2. consumer_seq \in Seqs /\ written \in Nat /\ taken \in Nat
      BY CounterTypes
    <3>3. writer' \in Caller /\ writer'.at = "copy" /\ writer'.p = writer.p
      BY <3>1, <3>2 DEF CountersInv, Caller
    <3>4. writer.p = SeqOf(written) /\ written < MaxSent /\ consumer_seq = taken
          /\ taken <= written /\ written <= taken + max_frames /\ taken < SeqMod
      BY <3>1 DEF CountersInv
    <3>5. (SeqOf(written) - taken) % SeqMod = written - taken
      BY <3>2, <3>4, Distance
    <3>6. written < taken + max_frames
      BY <2>2, <3>2, <3>4, <3>5, Sizes DEF RingBufferFull, wrapping_sub
    <3> QED
      BY <1>1, <3>1, <3>3, <3>4, <3>6 DEF CountersInv, taken
  <2> QED
    BY <2>1, <2>2
<1> QED
  BY <1>2, <1>3

\* Where the writer copies to.
LEMMA WriterSlot ==
  ASSUME CountersInv, writer.at \in {"copy", "store"}
  PROVE  /\ Index(writer.p) = SlotOf(written) /\ SlotOf(written) \in Slots
         /\ written + 1 \in Frame /\ writer.k \in 1..Words
         /\ Image(written + 1) \in Frames
<1>1. writer.p = SeqOf(written) /\ written < MaxSent /\ writer.k \in 1..Words
  BY DEF CountersInv, Caller
<1>2. written \in Nat /\ SeqOf(written) \in Nat
  BY CounterTypes
<1>3. written + 1 \in Frame
  BY <1>1, <1>2, Sizes DEF Frame
<1>4. Index(SeqOf(written)) \in Slots
  BY <1>2, IndexType
<1>5. Image(written + 1) \in Frames
  BY <1>3 DEF Image, Frames, Word
<1> QED
  BY <1>1, <1>3, <1>4, <1>5 DEF SlotOf

\* A word is copied; only the slot of the next frame changes.
LEMMA WriteCopyEffect ==
  ASSUME CountersInv, WriteCopy
  PROVE  /\ slots' = [slots EXCEPT ![SlotOf(written)] =
                        [slots[SlotOf(written)] EXCEPT ![writer.k] = written + 1]]
         /\ slots' \in [Slots -> Frames]
         /\ writer' \in Caller /\ writer'.p = writer.p
         /\ writer.at = "copy" /\ writer.k \in 1..Words
         /\ IF writer.k < Words THEN writer'.at = "copy" /\ writer'.k = writer.k + 1
            ELSE writer'.at = "store"
         /\ UNCHANGED <<producer_seq, consumer_seq, reader, written, received>>
<1>1. /\ writer.at = "copy"
         /\ UNCHANGED <<producer_seq, consumer_seq, reader, written, received>>
      /\ slots' = [slots EXCEPT ![Index(writer.p)][writer.k] = written + 1]
      /\ writer' = IF writer.k < Words THEN [writer EXCEPT !.k = writer.k + 1]
                   ELSE [writer EXCEPT !.at = "store"]
  BY DEF WriteCopy, header
<1>2. writer \in Caller /\ slots \in [Slots -> Frames]
  BY DEF CountersInv
<1>3. /\ Index(writer.p) = SlotOf(written) /\ SlotOf(written) \in Slots
      /\ written + 1 \in Frame /\ writer.k \in 1..Words
  BY <1>1, WriterSlot
<1>4. slots' = [slots EXCEPT ![SlotOf(written)] =
                  [slots[SlotOf(written)] EXCEPT ![writer.k] = written + 1]]
  BY <1>1, <1>3
<1>5. slots[SlotOf(written)] \in Frames
  BY <1>2, <1>3
<1>6. [slots[SlotOf(written)] EXCEPT ![writer.k] = written + 1] \in Frames
  BY <1>3, <1>5 DEF Frames, Word
<1>7. slots' \in [Slots -> Frames]
  BY <1>2, <1>3, <1>4, <1>6
<1>8. CASE writer.k < Words
  <2>1. writer.k + 1 \in 1..Words
    BY <1>3, <1>8, Sizes
  <2>2. writer' \in Caller /\ writer'.p = writer.p /\ writer'.at = writer.at
        /\ writer'.k = writer.k + 1
    BY <1>1, <1>2, <1>8, <2>1 DEF Caller
  <2> QED
    BY <1>1, <1>3, <1>4, <1>7, <1>8, <2>2
<1>9. CASE ~(writer.k < Words)
  <2>1. writer' \in Caller /\ writer'.p = writer.p /\ writer'.at = "store"
    BY <1>1, <1>2, <1>9 DEF Caller
  <2> QED
    BY <1>1, <1>3, <1>4, <1>7, <1>9, <2>1
<1> QED
  BY <1>8, <1>9

\* The writer copies a word (SpscWriter::write).
LEMMA CountersWriteCopy ==
  ASSUME CountersInv, WriteCopy
  PROVE  CountersInv'
<1>1. /\ slots' \in [Slots -> Frames]
      /\ writer' \in Caller /\ writer'.p = writer.p
      /\ writer.at = "copy" /\ writer'.at \in {"copy", "store"}
      /\ UNCHANGED <<producer_seq, consumer_seq, reader, written, received>>
  BY WriteCopyEffect
<1> QED
  BY <1>1 DEF CountersInv, taken

\* The counter announces the frame.
LEMMA CountersWriteStore ==
  ASSUME CountersInv, WriteStore
  PROVE  CountersInv'
<1>1. /\ writer.at = "store" /\ producer_seq' = (writer.p + 1) % SeqMod
      /\ written' = written + 1 /\ writer' = NoCall
      /\ UNCHANGED <<consumer_seq, slots, reader, received>>
  BY DEF WriteStore, wrapping_add
<1>2. written \in Nat /\ taken \in Nat /\ SeqOf(written) \in Nat
  BY CounterTypes
<1>3. /\ writer.p = SeqOf(written) /\ written < MaxSent /\ written < taken + max_frames
      /\ taken <= written /\ taken < SeqMod /\ taken' = taken
  BY <1>1 DEF CountersInv, taken
<1>4. (SeqOf(written) + 1) % SeqMod = SeqOf(written + 1)
  BY <1>2, <1>3, Sizes, Wrapped DEF SeqOf
<1>5. written' \in 0..MaxSent /\ taken' <= written' /\ written' <= taken' + max_frames
  BY <1>1, <1>2, <1>3, Sizes
<1>6. reader.at # "idle" => reader.p <= written'
  <2>1. reader.p \in Int
    BY Sizes DEF CountersInv, Caller, Seqs
  <2> QED
    BY <1>1, <1>2, <2>1 DEF CountersInv
<1>7. writer' \in Caller /\ writer'.at = "idle"
  BY <1>1, IdleCaller
<1> QED
  BY <1>1, <1>3, <1>4, <1>5, <1>6, <1>7 DEF CountersInv

\* The reader's loads.
LEMMA CountersReadLoad ==
  ASSUME CountersInv, ReadLoadProducer \/ ReadLoadConsumer
  PROVE  CountersInv'
<1> USE DEF header
<1>1. UNCHANGED <<header, slots, writer, written, received>>
  BY DEF ReadLoadProducer, ReadLoadConsumer
<1>2. CASE ReadLoadProducer
  <2>1. producer_seq \in Seqs /\ producer_seq <= written
    BY CounterTypes
  <2>2. reader' \in Caller /\ reader'.at = "loaded" /\ reader'.p = producer_seq
    BY <1>2, <2>1, IdleCaller DEF ReadLoadProducer
  <2> QED
    BY <1>1, <2>1, <2>2 DEF CountersInv, taken
<1>3. CASE ReadLoadConsumer
  <2>1. CASE NoDataAvailable(reader.p, consumer_seq)
    <3>1. reader' = NoCall
      BY <1>3, <2>1 DEF ReadLoadConsumer
    <3> QED
      BY <1>1, <3>1, IdleCaller DEF CountersInv, taken
  <2>2. CASE ~NoDataAvailable(reader.p, consumer_seq)
    <3>1. reader.at = "loaded" /\ reader' = [reader EXCEPT !.at = "copy", !.c = consumer_seq]
      BY <1>3, <2>2 DEF ReadLoadConsumer
    <3>2. consumer_seq \in Seqs
      BY CounterTypes
    <3>3. reader' \in Caller /\ reader'.at = "copy" /\ reader'.p = reader.p
          /\ reader'.c = consumer_seq
      BY <3>1, <3>2 DEF CountersInv, Caller
    <3>4. consumer_seq < reader.p
      <4>1. reader.p \in Int /\ consumer_seq \in Int
        BY <3>2, Sizes DEF CountersInv, Caller, Seqs
      <4> QED
        BY <2>2, <4>1 DEF NoDataAvailable
    <3> QED
      BY <1>1, <3>1, <3>3, <3>4 DEF CountersInv, taken
  <2> QED
    BY <2>1, <2>2
<1> QED
  BY <1>2, <1>3

\* A word is read.
LEMMA ReadCopyEffect ==
  ASSUME CountersInv, ReadCopy
  PROVE  /\ reader.at = "copy" /\ reader.k \in 1..Words
         /\ reader'.buf = [reader.buf EXCEPT ![reader.k] = slots[SlotOf(taken)][reader.k]]
         /\ reader' \in Caller /\ reader'.p = reader.p /\ reader'.c = reader.c
         /\ IF reader.k < Words THEN reader'.at = "copy" /\ reader'.k = reader.k + 1
            ELSE reader'.at = "store"
         /\ SlotOf(taken) \in Slots
         /\ UNCHANGED <<producer_seq, consumer_seq, slots, writer, written, received>>
<1> DEFINE w == slots[Index(reader.c)][reader.k]
           b == [reader.buf EXCEPT ![reader.k] = w]
           s == IF reader.k < Words THEN "copy" ELSE "store"
           m == IF reader.k < Words THEN reader.k + 1 ELSE reader.k
<1>1. /\ reader.at = "copy"
      /\ reader' = [reader EXCEPT !.buf = b, !.at = s, !.k = m]
      /\ UNCHANGED <<producer_seq, consumer_seq, slots, writer, written, received>>
  BY DEF ReadCopy, header
<1>2. /\ reader \in Caller /\ slots \in [Slots -> Frames] /\ reader.c = taken /\ taken < SeqMod
  BY <1>1 DEF CountersInv
<1>3. reader.k \in 1..Words /\ reader.buf \in Frames
  BY <1>2 DEF Caller
<1>4. taken \in Nat /\ SlotOf(taken) = Index(taken)
  BY <1>2, CounterTypes DEF SlotOf, SeqOf
<1>5. SlotOf(taken) \in Slots
  BY <1>4, IndexType
<1>6. w \in Word
  <2>1. slots[SlotOf(taken)] \in Frames
    BY <1>2, <1>5
  <2> QED
    BY <1>2, <1>3, <1>4, <2>1 DEF Frames
<1>7. b \in Frames
  BY <1>3, <1>6 DEF Frames
<1>8. s \in {"copy", "store"} /\ m \in 1..Words
  BY <1>3, Sizes
<1>9. b = [reader.buf EXCEPT ![reader.k] = slots[SlotOf(taken)][reader.k]]
  BY <1>2, <1>4
<1> HIDE DEF b, s, m
<1>10. reader' \in Caller /\ reader'.buf = b /\ reader'.at = s /\ reader'.k = m
       /\ reader'.p = reader.p /\ reader'.c = reader.c
  BY <1>1, <1>2, <1>7, <1>8 DEF Caller
<1> QED
  BY <1>1, <1>3, <1>5, <1>9, <1>10 DEF s, m

\* The reader copies a word (SpscReader::read).
LEMMA CountersReadCopy ==
  ASSUME CountersInv, ReadCopy
  PROVE  CountersInv'
<1>1. /\ reader.at = "copy" /\ reader' \in Caller /\ reader'.p = reader.p
         /\ reader'.c = reader.c
      /\ reader'.at \in {"copy", "store"}
      /\ UNCHANGED <<producer_seq, consumer_seq, slots, writer, written, received>>
  BY ReadCopyEffect
<1> QED
  BY <1>1 DEF CountersInv, taken

\* The slot is handed back.
LEMMA CountersReadStore ==
  ASSUME CountersInv, ReadStore
  PROVE  CountersInv'
<1>1. /\ reader.at = "store" /\ consumer_seq' = (reader.c + 1) % SeqMod
      /\ received' = Append(received, reader.buf) /\ reader' = NoCall
      /\ UNCHANGED <<producer_seq, slots, writer, written>>
  BY DEF ReadStore, wrapping_add
<1>2. written \in Nat /\ taken \in Nat
  BY CounterTypes
<1>3. /\ reader.c = taken /\ reader.c < reader.p /\ reader.p <= written
      /\ written <= taken + max_frames /\ received \in Seq(Frames)
      /\ reader.p \in 0..(SeqMod - 1) /\ reader.buf \in Frames
  BY <1>1 DEF CountersInv, Caller, Seqs
<1>4. received' \in Seq(Frames) /\ taken' = taken + 1
  BY <1>1, <1>3, AppendProperties DEF taken
<1>5. /\ taken' <= written /\ written <= taken' + max_frames /\ taken' < SeqMod
      /\ consumer_seq' = taken'
  <2>1. /\ taken + 1 <= written /\ written <= taken + 1 + max_frames /\ taken + 1 < SeqMod
        /\ taken + 1 \in Int /\ -SeqMod <= taken + 1 /\ taken + 1 < 2 * SeqMod
    BY <1>2, <1>3, Sizes
  <2>2. (taken + 1) % SeqMod = taken + 1
    BY <1>2, <2>1, Wrapped
  <2> QED
    BY <1>1, <1>3, <1>4, <2>1, <2>2
<1>6. writer.at \in {"copy", "store"} => written < taken' + max_frames
  <2>1. writer.at \in {"copy", "store"} => written < taken + max_frames
    BY DEF CountersInv
  <2> QED
    BY <1>2, <1>4, <2>1, Sizes
<1>7. reader' \in Caller /\ reader'.at = "idle"
  BY <1>1, IdleCaller
<1> QED
  BY <1>1, <1>4, <1>5, <1>6, <1>7 DEF CountersInv

\* Shutdown, and the end of a process.
LEMMA CountersOther ==
  ASSUME CountersInv, shutdown \/ WriterRestarts
         \/ ReaderRestarts \/ UNCHANGED channel_vars
  PROVE  CountersInv'
<1>1. /\ UNCHANGED <<producer_seq, consumer_seq, slots, written, received>>
      /\ writer' \in {writer, NoCall} /\ reader' \in {reader, NoCall}
  BY DEF shutdown, WriterRestarts, ReaderRestarts, channel_vars, header
<1> QED
  BY <1>1, IdleCaller DEF CountersInv, taken

\* The slots keep their frames until the counters wrap, and after that when the
\* capacity divides their range.
Sound == written < SeqMod \/ Divides

\* At the start no slot makes a claim.
LEMMA ContentInit ==
  ASSUME ChannelInit
  PROVE  ContentInv
<1>1. taken = 0 /\ written = 0 /\ writer.at = "idle" /\ reader.at = "idle"
  BY IdleCaller DEF ChannelInit, taken
<1> QED
  BY <1>1 DEF ContentInv

\* A process that has loaded a counter has copied nothing yet.
LEMMA FirstWord ==
  ASSUME NEW s
  PROVE  /\ [NoCall EXCEPT !.at = "loaded", !.p = s].k = 1
         /\ [NoCall EXCEPT !.at = "loaded", !.p = s].at = "loaded"
  BY DEF NoCall

\* A load, a restart and a shutdown change no content.
LEMMA ContentLoad ==
  ASSUME CountersInv, ContentInv,
         \/ WriteLoadProducer \/ WriteLoadConsumer
              \/ ReadLoadProducer \/ ReadLoadConsumer
         \/ shutdown \/ WriterRestarts \/ ReaderRestarts
              \/ UNCHANGED channel_vars
  PROVE  ContentInv'
<1>1. UNCHANGED <<slots, written, received>> /\ taken' = taken
  BY DEF WriteLoadProducer, WriteLoadConsumer, ReadLoadProducer, ReadLoadConsumer, shutdown,
         WriterRestarts, ReaderRestarts, channel_vars, header, taken
<1>2. writer \in Caller /\ reader \in Caller
  BY DEF CountersInv
<1>3. \/ writer' = writer \/ writer'.at = "idle"
      \/ writer'.at \in {"loaded", "copy"} /\ writer'.k = 1
  <2>1. CASE WriteLoadProducer
    BY <2>1, FirstWord DEF WriteLoadProducer
  <2>2. CASE WriteLoadConsumer
    <3>1. writer.at = "loaded" /\ writer.k = 1
      BY <2>2 DEF WriteLoadConsumer, ContentInv
    <3>2. writer' \in {NoCall, [writer EXCEPT !.at = "copy", !.c = consumer_seq]}
      BY <2>2 DEF WriteLoadConsumer
    <3>3. /\ [writer EXCEPT !.at = "copy", !.c = consumer_seq].at = "copy"
          /\ [writer EXCEPT !.at = "copy", !.c = consumer_seq].k = writer.k
      BY <1>2 DEF Caller
    <3> QED
      BY <3>1, <3>2, <3>3, IdleCaller
  <2>3. CASE ~(WriteLoadProducer \/ WriteLoadConsumer)
    <3>1. writer' \in {writer, NoCall}
      BY <2>3 DEF ReadLoadProducer, ReadLoadConsumer, shutdown, WriterRestarts,
                  ReaderRestarts, channel_vars
    <3> QED
      BY <3>1, IdleCaller
  <2> QED
    BY <2>1, <2>2, <2>3
<1>4. \/ reader' = reader \/ reader'.at = "idle"
      \/ reader'.at \in {"loaded", "copy"} /\ reader'.k = 1
  <2>1. CASE ReadLoadProducer
    BY <2>1, FirstWord DEF ReadLoadProducer
  <2>2. CASE ReadLoadConsumer
    <3>1. reader.at = "loaded" /\ reader.k = 1
      BY <2>2 DEF ReadLoadConsumer, ContentInv
    <3>2. reader' \in {NoCall, [reader EXCEPT !.at = "copy", !.c = consumer_seq]}
      BY <2>2 DEF ReadLoadConsumer
    <3>3. /\ [reader EXCEPT !.at = "copy", !.c = consumer_seq].at = "copy"
          /\ [reader EXCEPT !.at = "copy", !.c = consumer_seq].k = reader.k
      BY <1>2 DEF Caller
    <3> QED
      BY <3>1, <3>2, <3>3, IdleCaller
  <2>3. CASE ~(ReadLoadProducer \/ ReadLoadConsumer)
    <3>1. reader' \in {reader, NoCall}
      BY <2>3 DEF WriteLoadProducer, WriteLoadConsumer, shutdown, WriterRestarts,
                  ReaderRestarts, channel_vars
    <3> QED
      BY <3>1, IdleCaller
  <2> QED
    BY <2>1, <2>2, <2>3
<1>5. 1..(1 - 1) = {}
  OBVIOUS
<1> QED
  BY <1>1, <1>3, <1>4, <1>5 DEF ContentInv

\* A copy into the next slot leaves the frames that wait as they are.
LEMMA ContentWriteCopy ==
  ASSUME CountersInv, Sound, ContentInv, WriteCopy
  PROVE  ContentInv'
<1>1. /\ slots' = [slots EXCEPT ![SlotOf(written)] =
                     [slots[SlotOf(written)] EXCEPT ![writer.k] = written + 1]]
      /\ writer.at = "copy" /\ writer.k \in 1..Words
      /\ IF writer.k < Words THEN writer'.at = "copy" /\ writer'.k = writer.k + 1
         ELSE writer'.at = "store"
      /\ UNCHANGED <<consumer_seq, reader, written, received>>
  BY WriteCopyEffect
<1>2. taken' = taken /\ taken \in Nat /\ written \in Nat /\ written < taken + max_frames
  BY <1>1, CounterTypes DEF taken, CountersInv
<1>3. slots \in [Slots -> Frames] /\ SlotOf(written) \in Slots
  BY <1>1, WriterSlot DEF CountersInv
<1> DEFINE f == slots[SlotOf(written)]
           g == [f EXCEPT ![writer.k] = written + 1]
<1>4. f \in Frames /\ slots'[SlotOf(written)] = g
  BY <1>1, <1>3
<1>5. ASSUME NEW n \in taken..(written - 1)
      PROVE  slots'[SlotOf(n)] = Image(n + 1)
  <2>1. n \in Nat /\ n < written /\ written < n + max_frames
    BY <1>2, Sizes
  <2>2. SlotOf(n) # SlotOf(written)
    BY <1>2, <2>1, SlotsApart DEF Sound
  <2>3. slots'[SlotOf(n)] = slots[SlotOf(n)]
    <3>1. SlotOf(n) \in Slots
      <4>1. SeqOf(n) \in Int
        BY <2>1, Sizes DEF SeqOf
      <4> QED
        BY <4>1, IndexType DEF SlotOf
    <3> QED
      BY <1>1, <1>3, <2>2, <3>1
  <2> QED
    BY <2>3 DEF ContentInv
<1>6. \A j \in 1..(writer.k - 1) : f[j] = written + 1
  BY <1>1 DEF ContentInv
<1> HIDE DEF f
<1>7. \A j \in 1..writer.k : g[j] = written + 1
  <2> TAKE j \in 1..writer.k
  <2>1. j \in 1..Words /\ (j = writer.k \/ j \in 1..(writer.k - 1))
    BY <1>1, Sizes
  <2> QED
    BY <1>4, <1>6, <2>1 DEF Frames
<1>8. writer'.at = "copy" =>
        \A j \in 1..(writer'.k - 1) : slots'[SlotOf(written)][j] = written + 1
  <2>1. CASE writer.k < Words
    <3>1. writer'.k - 1 = writer.k
      BY <1>1, <2>1, Sizes
    <3> QED
      BY <1>4, <1>7, <3>1
  <2> QED
    BY <1>1, <2>1
<1>9. writer'.at = "store" => slots'[SlotOf(written)] = Image(written + 1)
  <2>1. CASE ~(writer.k < Words)
    <3>1. writer.k = Words
      BY <1>1, <2>1, Sizes
    <3>2. g \in [1..Words -> {written + 1}]
      <4>1. g = [j \in 1..Words |-> g[j]]
        BY <1>4 DEF Frames
      <4> QED
        BY <1>7, <3>1, <4>1
    <3> QED
      BY <1>4, <3>2 DEF Image
  <2> QED
    BY <1>1, <2>1
<1> QED
  BY <1>1, <1>2, <1>5, <1>8, <1>9 DEF ContentInv

\* The announced frame is whole.
LEMMA ContentWriteStore ==
  ASSUME CountersInv, ContentInv, WriteStore
  PROVE  ContentInv'
<1>1. /\ writer.at = "store" /\ written' = written + 1 /\ writer' = NoCall
      /\ UNCHANGED <<slots, reader, received>>
  BY DEF WriteStore
<1>2. taken' = taken /\ taken \in Nat /\ written \in Nat
  BY <1>1, CounterTypes DEF taken
<1>3. ASSUME NEW n \in taken..written PROVE slots[SlotOf(n)] = Image(n + 1)
  <2>1. n = written \/ n \in taken..(written - 1)
    BY <1>2
  <2> QED
    BY <1>1, <2>1 DEF ContentInv
<1>4. written' - 1 = written
  BY <1>1, <1>2
<1> QED
  BY <1>1, <1>2, <1>3, <1>4, IdleCaller DEF ContentInv

\* The reader copies the oldest frame.
LEMMA ContentReadCopy ==
  ASSUME CountersInv, ContentInv, ReadCopy
  PROVE  ContentInv'
<1>1. /\ reader.at = "copy" /\ reader.k \in 1..Words
      /\ reader'.buf = [reader.buf EXCEPT ![reader.k] = slots[SlotOf(taken)][reader.k]]
      /\ IF reader.k < Words THEN reader'.at = "copy" /\ reader'.k = reader.k + 1
         ELSE reader'.at = "store"
      /\ UNCHANGED <<slots, writer, written, received>>
  BY ReadCopyEffect
<1>2. taken' = taken /\ taken \in Nat /\ written \in Nat
  BY <1>1, CounterTypes DEF taken
<1>3. taken \in taken..(written - 1)
  <2>1. reader.c = taken /\ reader.c < reader.p /\ reader.p <= written /\ reader.p \in Int
    BY <1>1, Sizes DEF CountersInv, Caller, Seqs
  <2> QED
    BY <1>2, <2>1
<1>4. slots[SlotOf(taken)] = Image(taken + 1)
  BY <1>3 DEF ContentInv
<1>5. slots[SlotOf(taken)][reader.k] = taken + 1
  BY <1>1, <1>4 DEF Image
<1>6. reader.buf \in Frames /\ \A j \in 1..(reader.k - 1) : reader.buf[j] = taken + 1
  BY <1>1 DEF ContentInv, CountersInv, Caller
<1>7. \A j \in 1..reader.k : reader'.buf[j] = taken + 1
  <2> TAKE j \in 1..reader.k
  <2>1. j \in 1..Words /\ (j = reader.k \/ j \in 1..(reader.k - 1))
    BY <1>1, Sizes
  <2> QED
    BY <1>1, <1>5, <1>6, <2>1 DEF Frames
<1>8. reader'.at = "copy" => \A j \in 1..(reader'.k - 1) : reader'.buf[j] = taken + 1
  <2>1. CASE reader.k < Words
    <3>1. reader'.k - 1 = reader.k
      BY <1>1, <2>1, Sizes
    <3> QED
      BY <1>7, <3>1
  <2> QED
    BY <1>1, <2>1
<1>9. reader'.at = "store" => reader'.buf = Image(taken + 1)
  <2>1. CASE ~(reader.k < Words)
    <3>1. reader.k = Words
      BY <1>1, <2>1, Sizes
    <3>2. reader'.buf \in [1..Words -> {taken + 1}]
      <4>1. reader'.buf = [j \in 1..Words |-> reader'.buf[j]]
        BY <1>1, <1>6 DEF Frames
      <4> QED
        BY <1>7, <3>1, <4>1
    <3> QED
      BY <3>2 DEF Image
  <2> QED
    BY <1>1, <2>1
<1> QED
  BY <1>1, <1>2, <1>8, <1>9 DEF ContentInv

\* The oldest frame leaves.
LEMMA ContentReadStore ==
  ASSUME CountersInv, ContentInv, ReadStore
  PROVE  ContentInv'
<1>1. /\ reader.at = "store" /\ received' = Append(received, reader.buf)
         /\ reader' = NoCall
      /\ UNCHANGED <<slots, writer, written>>
  BY DEF ReadStore
<1>2. received \in Seq(Frames) /\ reader.buf \in Frames /\ taken \in Nat /\ written \in Nat
  BY CounterTypes DEF CountersInv, Caller
<1>3. taken' = taken + 1
  BY <1>1, <1>2, AppendProperties DEF taken
<1>4. taken'..(written - 1) \subseteq taken..(written - 1)
  BY <1>2, <1>3
<1> QED
  BY <1>1, <1>4, IdleCaller DEF ContentInv

\* Frames r + 1 to w, oldest first.
Window(r, w) == [i \in 1..(w - r) |-> Image(r + i)]

\* What a reader of the header and the slots sees is what was written and not taken.
LEMMA QueueOf ==
  ASSUME NEW r \in Nat, NEW w \in Nat, r <= w, w <= r + max_frames, r < SeqMod,
         NEW s, \A n \in r..(w - 1) : s[SlotOf(n)] = Image(n + 1)
  PROVE  [i \in 1..wrapping_sub(SeqOf(w), r) |->
           s[Index(wrapping_add(r, i - 1))]]
           = Window(r, w)
<1>1. wrapping_sub(SeqOf(w), r) = w - r
  BY Distance DEF wrapping_sub
<1>2. ASSUME NEW i \in 1..(w - r)
      PROVE  s[Index(wrapping_add(r, i - 1))] = Image(r + i)
  <2>1. r + i - 1 \in r..(w - 1) /\ r + (i - 1) = r + i - 1 /\ (r + i - 1) + 1 = r + i
    OBVIOUS
  <2>2. r + i - 1 \in Int /\ -SeqMod <= r + i - 1 /\ r + i - 1 < 2 * SeqMod
    BY Sizes
  <2>3. (r + i - 1) % SeqMod = SeqOf(r + i - 1)
    <3> DEFINE x == r + i - 1
    <3>1. x \in Int /\ -SeqMod <= x /\ x < 2 * SeqMod /\ 0 <= x
      BY <2>2
    <3> HIDE DEF x
    <3>2. x % SeqMod = SeqOf(x)
      BY <3>1, Wrapped, Sizes DEF SeqOf
    <3> QED
      BY <3>2 DEF x
  <2>4. Index(wrapping_add(r, i - 1)) = SlotOf(r + i - 1)
    BY <2>1, <2>3 DEF wrapping_add, SlotOf
  <2> QED
    BY <2>1, <2>4
<1> QED
  BY <1>1, <1>2 DEF Window

\* Frames that are whole.
Images == [1..Words -> Nat]

\* The window is a sequence of whole frames.
LEMMA WindowSeq ==
  ASSUME NEW r \in Nat, NEW w \in Nat, r <= w
  PROVE  Window(r, w) \in Seq(Images) /\ Len(Window(r, w)) = w - r
<1>1. \A i \in 1..(w - r) : Image(r + i) \in Images
  BY DEF Image, Images
<1>2. w - r \in Nat
  OBVIOUS
<1>3. Window(r, w) \in [1..(w - r) -> Images]
  BY <1>1 DEF Window
<1> HIDE DEF Window
<1> QED
  BY <1>2, <1>3

\* One frame more is one more at the end.
LEMMA WindowGrows ==
  ASSUME NEW r \in Nat, NEW w \in Nat, r <= w
  PROVE  Window(r, w + 1) = Append(Window(r, w), Image(w + 1))
<1> DEFINE a == Window(r, w)
           b == Window(r, w + 1)
<1>1. a \in Seq(Images) /\ Len(a) = w - r /\ b \in Seq(Images) /\ Len(b) = w + 1 - r
  <2>1. w + 1 \in Nat /\ r <= w + 1
    OBVIOUS
  <2>2. a \in Seq(Images) /\ Len(a) = w - r
    BY WindowSeq
  <2>3. b \in Seq(Images) /\ Len(b) = w + 1 - r
    BY <2>1, WindowSeq
  <2> QED
    BY <2>2, <2>3
<1>2. Image(w + 1) \in Images
  BY DEF Image, Images
<1>3. /\ Append(a, Image(w + 1)) \in Seq(Images)
      /\ Len(Append(a, Image(w + 1))) = w - r + 1
      /\ \A i \in 1..(w - r) : Append(a, Image(w + 1))[i] = a[i]
      /\ Append(a, Image(w + 1))[w - r + 1] = Image(w + 1)
  BY <1>1, <1>2, AppendProperties
<1>4. ASSUME NEW i \in 1..(w + 1 - r) PROVE b[i] = Append(a, Image(w + 1))[i]
  <2>1. b[i] = Image(r + i)
    BY DEF Window
  <2>2. CASE i \in 1..(w - r)
    BY <1>3, <2>1, <2>2 DEF Window
  <2>3. CASE i = w - r + 1
    <3>1. r + i = w + 1
      BY <2>3
    <3> QED
      BY <1>3, <2>1, <2>3, <3>1
  <2>4. i \in 1..(w - r) \/ i = w - r + 1
    OBVIOUS
  <2> QED
    BY <2>2, <2>3, <2>4
<1> DEFINE c == Append(a, Image(w + 1))
<1>5. /\ b \in Seq(Images) /\ c \in Seq(Images) /\ Len(b) = Len(c)
      /\ \A i \in 1..Len(b) : b[i] = c[i]
  BY <1>1, <1>3, <1>4
<1> HIDE DEF b, c
<1>6. b = c
  BY <1>5, SeqEqual
<1> QED
  BY <1>6 DEF b, c

\* One frame less is the tail.
LEMMA WindowShrinks ==
  ASSUME NEW r \in Nat, NEW w \in Nat, r < w
  PROVE  /\ Window(r, w) # <<>> /\ Head(Window(r, w)) = Image(r + 1)
         /\ Tail(Window(r, w)) = Window(r + 1, w)
<1> DEFINE a == Window(r, w)
           b == Window(r + 1, w)
<1>1. a \in Seq(Images) /\ Len(a) = w - r /\ b \in Seq(Images) /\ Len(b) = w - (r + 1)
  <2>1. r + 1 \in Nat /\ r + 1 <= w
    OBVIOUS
  <2>2. a \in Seq(Images) /\ Len(a) = w - r
    <3>1. r <= w
      OBVIOUS
    <3> QED
      BY <3>1, WindowSeq
  <2>3. b \in Seq(Images) /\ Len(b) = w - (r + 1)
    BY <2>1, WindowSeq
  <2> QED
    BY <2>2, <2>3
<1>2. a # <<>>
  BY <1>1
<1>3. a[1] = Image(r + 1)
  BY DEF Window
<1>4. /\ Head(a) = a[1] /\ Tail(a) \in Seq(Images) /\ Len(Tail(a)) = w - r - 1
      /\ \A i \in 1..Len(Tail(a)) : Tail(a)[i] = a[i + 1]
  BY <1>1, <1>2, HeadTailProperties
<1>5. ASSUME NEW i \in 1..(w - r - 1) PROVE Tail(a)[i] = b[i]
  <2>1. b[i] = Image(r + 1 + i) /\ a[i + 1] = Image(r + (i + 1))
        /\ r + 1 + i = r + (i + 1)
    BY DEF Window
  <2> QED
    BY <1>4, <2>1
<1> QED
  BY <1>1, <1>2, <1>3, <1>4, <1>5, SeqEqual

\* The inductive invariant.
ChannelInv == CountersInv /\ (Sound => ContentInv)

\* It holds at the start.
LEMMA ChannelInitSound ==
  ASSUME ChannelInit
  PROVE  ChannelInv
  BY CountersInit, ContentInit DEF ChannelInv

\* Frames are only ever added.
LEMMA SoundBefore ==
  ASSUME CountersInv, [ChannelNext]_channel_vars, Sound'
  PROVE  Sound
<1>1. written \in Nat /\ SeqMod \in Nat
  BY CounterTypes, Sizes
<1>2. written' \in {written, written + 1}
  BY DEF ChannelNext, Write, Read, WriteLoadProducer,
         WriteLoadConsumer, WriteCopy, WriteStore,
         ReadLoadProducer, ReadLoadConsumer, ReadCopy,
           ReadStore, shutdown,
         WriterRestarts, ReaderRestarts, channel_vars
<1> QED
  BY <1>1, <1>2 DEF Sound, Divides

\* Every step of either process keeps it.
LEMMA ChannelStep ==
  ASSUME ChannelInv, [ChannelNext]_channel_vars
  PROVE  ChannelInv'
<1>1. CountersInv'
  BY CountersWriteLoad, CountersWriteCopy, CountersWriteStore, CountersReadLoad,
     CountersReadCopy, CountersReadStore, CountersOther DEF ChannelInv, ChannelNext,
       Write, Read
<1>2. ASSUME Sound' PROVE ContentInv'
  <2>1. CountersInv /\ Sound /\ ContentInv
    BY <1>2, SoundBefore DEF ChannelInv
  <2> QED
    BY <2>1, ContentLoad, ContentWriteCopy, ContentWriteStore, ContentReadCopy,
       ContentReadStore
       DEF ChannelNext, Write, Read
<1> QED
  BY <1>1, <1>2 DEF ChannelInv

\* The queue in a state where the contents are sound.
LEMMA QueueNow ==
  ASSUME CountersInv, ContentInv
  PROVE  Queue = Window(taken, written)
<1>1. taken \in Nat /\ written \in Nat
  BY CounterTypes
<1>2. /\ taken <= written /\ written <= taken + max_frames /\ taken < SeqMod
      /\ producer_seq = SeqOf(written) /\ consumer_seq = taken
  BY DEF CountersInv
<1>3. \A n \in taken..(written - 1) : slots[SlotOf(n)] = Image(n + 1)
  BY DEF ContentInv
<1>4. [i \in 1..wrapping_sub(SeqOf(written), taken)
         |-> slots[Index(wrapping_add(taken, i - 1))]] = Window(taken, written)
  BY <1>1, <1>2, <1>3, QueueOf
<1> QED
  BY <1>2, <1>4 DEF Queue, Unread

\* The same in the state after a step.
LEMMA QueueNext ==
  ASSUME CountersInv', ContentInv', taken' \in Nat, written' \in Nat
  PROVE  Queue' = Window(taken', written')
<1>2. /\ taken' <= written' /\ written' <= taken' + max_frames /\ taken' < SeqMod
      /\ producer_seq' = SeqOf(written') /\ consumer_seq' = taken'
  BY DEF CountersInv
<1>3. \A n \in taken'..(written' - 1) : slots'[SlotOf(n)] = Image(n + 1)
  BY DEF ContentInv
<1>4. [i \in 1..wrapping_sub(SeqOf(written'), taken')
         |-> slots'[Index(wrapping_add(taken', i - 1))]]
        = Window(taken', written')
  BY <1>2, <1>3, QueueOf
<1> QED
  BY <1>2, <1>4 DEF Queue, Unread

\* A write that returns puts the next frame, a read that returns gets the oldest.
LEMMA FifoStep ==
  ASSUME ChannelInv, ChannelInv', [ChannelNext]_channel_vars, Sound'
  PROVE  [Ring!Next]_(Ring!vars)
<1>1. /\ CountersInv /\ ContentInv /\ CountersInv' /\ ContentInv'
      /\ taken \in Nat /\ written \in Nat
  BY SoundBefore, CounterTypes DEF ChannelInv
<1>2. Queue = Window(taken, written) /\ taken <= written
  BY <1>1, QueueNow DEF CountersInv
<1>3. CASE WriteStore
  <2>1. /\ writer.at = "store" /\ written' = written + 1 /\ received' = received
        /\ taken' = taken
    BY <1>3 DEF WriteStore, taken
  <2>2. Queue' = Append(Queue, Image(written + 1))
    <3>1. taken' \in Nat /\ written' \in Nat
      BY <1>1, <2>1
    <3>2. Queue' = Window(taken, written + 1)
      BY <1>1, <2>1, <3>1, QueueNext
    <3> QED
      BY <1>1, <1>2, <3>2, WindowGrows
  <2>3. Len(Queue) < max_frames
    <3>1. written < taken + max_frames
      BY <1>1, <2>1 DEF CountersInv
    <3>2. Len(Queue) = written - taken
      BY <1>1, <1>2, WindowSeq
    <3> QED
      BY <1>1, <3>1, <3>2, Sizes
  <2> QED
    BY <2>1, <2>2, <2>3 DEF Ring!Next, Ring!Put
<1>4. CASE ReadStore
  <2>1. /\ reader.at = "store" /\ received' = Append(received, reader.buf)
           /\ written' = written
    BY <1>4 DEF ReadStore
  <2>2. reader.buf = Image(taken + 1) /\ taken < written
    <3>1. reader.c = taken /\ reader.c < reader.p /\ reader.p <= written /\ reader.p \in Int
      BY <1>1, <2>1, Sizes DEF CountersInv, Caller, Seqs
    <3> QED
      BY <1>1, <2>1, <3>1 DEF ContentInv
  <2>3. taken' = taken + 1
    <3>1. received \in Seq(Frames) /\ reader.buf \in Frames
      BY <1>1 DEF CountersInv, Caller
    <3> QED
      BY <2>1, <3>1, AppendProperties DEF taken
  <2>4. Queue' = Window(taken + 1, written)
    <3>1. taken' \in Nat /\ written' \in Nat
      BY <1>1, <2>1, <2>3
    <3> QED
      BY <1>1, <2>1, <2>3, <3>1, QueueNext
  <2>5. Queue # <<>> /\ Head(Queue) = reader.buf
        /\ Queue' = Tail(Queue)
    BY <1>1, <1>2, <2>2, <2>4, WindowShrinks
  <2> QED
    BY <2>1, <2>5 DEF Ring!Next, Ring!Get
<1>5. CASE ~WriteStore /\ ~ReadStore
  <2>1. UNCHANGED <<written, received>>
    BY <1>5 DEF ChannelNext, Write, Read, WriteLoadProducer, WriteLoadConsumer, WriteCopy,
         ReadLoadProducer, ReadLoadConsumer, ReadCopy,
           shutdown,
         WriterRestarts, ReaderRestarts, channel_vars
  <2>2. taken' = taken
    BY <2>1 DEF taken
  <2>3. Queue' = Queue
    BY <1>1, <1>2, <2>1, <2>2, QueueNext
  <2> QED
    BY <2>1, <2>3 DEF Ring!vars
<1> QED
  BY <1>3, <1>4, <1>5

\* An empty ring is an empty queue.
LEMMA FifoInit ==
  ASSUME ChannelInit
  PROVE  Ring!Init
<1>1. producer_seq = 0 /\ consumer_seq = 0 /\ written = 0 /\ received = <<>>
  BY DEF ChannelInit
<1>2. Unread = 0
  BY <1>1, Sizes DEF Unread, wrapping_sub
<1>3. Queue = <<>>
  BY <1>2 DEF Queue
<1> QED
  BY <1>1, <1>3 DEF Ring!Init

\* ChannelInv holds in every reachable state, for any capacity, range of the counters
\* and length of a frame: the writer never copies into a slot that waits to be read
\* (SpscWriter::write, SpscReader::read).
THEOREM ChannelInvariant ==
  ChannelSpec => []ChannelInv
<1>1. ChannelInit => ChannelInv
  BY ChannelInitSound
<1>2. ChannelInv /\ [ChannelNext]_channel_vars => ChannelInv'
  BY ChannelStep
<1> QED
  BY <1>1, <1>2, PTL DEF ChannelSpec

\* The ring implements the queue when the capacity divides the range of the counters,
\* as every power of two does: frames are read whole, in order, none twice and none
\* skipped, through wraps, shutdowns and restarts of either process
\* (SpscWriter::write, SpscReader::read).
THEOREM ChannelIsFifo ==
  ASSUME Divides
  PROVE  ChannelSpec => IsFifo
<1>1. ChannelInit => Ring!Init
  BY FifoInit
<1>2. ChannelInv /\ ChannelInv'
      /\ [ChannelNext]_channel_vars => [Ring!Next]_(Ring!vars)
  <2>1. Sound'
    BY DEF Sound, Divides
  <2> QED
    BY <2>1, FifoStep
<1> QED
  BY <1>1, <1>2, ChannelInvariant, PTL DEF ChannelSpec, IsFifo, Ring!Spec

\* The ring is a queue up to the wrap of the producer's counter.
FifoUntilWrap == Ring!Init
  /\ [][written' < SeqMod => [Ring!Next]_(Ring!vars)]_channel_vars

\* Whatever the capacity, the ring implements the queue until the producer's counter
\* wraps for the first time (SpscWriter::write, SpscReader::read).
THEOREM FifoBeforeWrap ==
  ChannelSpec => FifoUntilWrap
<1>1. ChannelInit => Ring!Init
  BY FifoInit
<1>2. ChannelInv /\ ChannelInv' /\ [ChannelNext]_channel_vars
        => [written' < SeqMod => [Ring!Next]_(Ring!vars)]_channel_vars
  BY FifoStep DEF Sound
<1> QED
  BY <1>1, <1>2, ChannelInvariant, PTL DEF ChannelSpec, FifoUntilWrap
=============================================================================
