--------------------------- MODULE TwoPhaseApply ---------------------------
(***************************************************************************)
(* TwoPhaseApplyCoordinator (crates/engine/src/two_phase_apply.rs): a      *)
(* profile is compiled by the task that applies it, queued, and swapped in *)
(* at a tick boundary by the real-time task, which then answers.           *)
(*                                                                         *)
(* The queue, the active pipeline and the statistics have a lock each, and *)
(* a call takes them one after the other: one step per section.  A caller  *)
(* may drop its call at any point where it waits.  A profile is named by   *)
(* the call that applies it.                                               *)
(*                                                                         *)
(* Left out: merging and compiling, but for their failure; durations and   *)
(* averages, which no decision reads.                                      *)
(***************************************************************************)
EXTENDS Integers, Sequences, SequencesExt

CONSTANTS
  Applies,      \* calls of apply_profile_async
  Initial,      \* the pipeline at the start
  CountMod      \* 2^64 of the usize counter

ASSUME TwoPhaseApplyAssumption ==
  /\ Initial \notin Applies
  /\ CountMod \in Nat \ {0}

VARIABLES
  call,         \* where each call is
  pending_applies,
  batch,        \* what the tick boundary has taken and not yet answered
  tick,         \* the next section of the tick boundary
  active_pipeline,
  stats,
  queued,       \* history: the applies in the order they were queued
  answered,     \* history: the applies in the order they were answered
  earlier,      \* history: the calls that had returned when a call began
  disturbed     \* history: the statistics were cleared, or a call dropped, midway

coordinator == <<pending_applies, active_pipeline, stats>>
history == <<queued, answered, earlier, disturbed>>
vars == <<call, coordinator, batch, tick, history>>

Cleared == [total_applies |-> 0, successful_applies |-> 0, pending_applies |-> 0]

Init ==
  /\ call = [a \in Applies |-> "none"]
  /\ pending_applies = <<>> /\ batch = <<>> /\ tick = "take"
  /\ active_pipeline = Initial
  /\ stats = Cleared
  /\ queued = <<>> /\ answered = <<>>
  /\ earlier = [a \in Applies |-> {}]
  /\ disturbed = FALSE

\* Nothing is queued, taken, or between its two sections.
Quiet == pending_applies = <<>> /\ batch = <<>> /\ \A a \in Applies : call[a] # "queued"

-----------------------------------------------------------------------------
(* apply_profile_async                                                     *)

apply_profile_async(a) ==
  /\ call[a] = "none"
  /\ call' = [call EXCEPT ![a] = "compiling"]
  /\ earlier' = [earlier EXCEPT ![a] = {b \in Applies : call[b] = "returned"}]
  /\ UNCHANGED <<coordinator, batch, tick, queued, answered, disturbed>>

CompileFails(a) ==
  /\ call[a] = "compiling"
  /\ call' = [call EXCEPT ![a] = "failed"]
  /\ UNCHANGED <<coordinator, batch, tick, history>>

\* The compiled pipeline is queued ...
Enqueue(a) ==
  /\ call[a] = "compiling"
  /\ call' = [call EXCEPT ![a] = "queued"]
  /\ pending_applies' = Append(pending_applies, a)
  /\ queued' = Append(queued, a)
  /\ UNCHANGED <<active_pipeline, stats, batch, tick, answered, earlier, disturbed>>

\* ... and counted under another lock, when it may be answered already.
CountQueued(a) ==
  /\ call[a] = "queued"
  /\ call' = [call EXCEPT ![a] = "returned"]
  /\ stats' = [stats EXCEPT !.total_applies = stats.total_applies + 1,
                            !.pending_applies = (stats.pending_applies + 1) % CountMod]
  /\ UNCHANGED <<pending_applies, active_pipeline, batch, tick, history>>

\* The caller drops the call where it waits: for a lock, before or after queueing.
Drop(a) ==
  /\ call[a] \in {"compiling", "queued"}
  /\ call' = [call EXCEPT ![a] = "dropped"]
  /\ disturbed' = (disturbed \/ call[a] = "queued")
  /\ UNCHANGED <<coordinator, batch, tick, queued, answered, earlier>>

-----------------------------------------------------------------------------
(* process_pending_applies_at_tick_boundary                                *)

\* Mutant: the queue is copied, not taken.
TakeCopies ==
  /\ tick = "take" /\ pending_applies # <<>>
  /\ batch' = pending_applies
  /\ tick' = "swap"
  /\ UNCHANGED <<call, coordinator, history>>

\* Mutant: the queue is taken from its end.
TakeReversed ==
  /\ tick = "take" /\ pending_applies # <<>>
  /\ batch' = Reverse(pending_applies)
  /\ pending_applies' = <<>>
  /\ tick' = "swap"
  /\ UNCHANGED <<call, active_pipeline, stats, history>>

Take ==
  /\ tick = "take" /\ pending_applies # <<>>
  /\ batch' = pending_applies
  /\ pending_applies' = <<>>
  /\ tick' = "swap"
  /\ UNCHANGED <<call, active_pipeline, stats, history>>

swap_pipeline_atomic ==
  /\ tick = "swap"
  /\ active_pipeline' = Head(batch)
  /\ tick' = "count"
  /\ UNCHANGED <<call, pending_applies, stats, batch, history>>

\* Mutant: the counter stops at zero.
CountSwappedSaturating ==
  /\ tick = "count"
  /\ stats' = [stats EXCEPT !.successful_applies = stats.successful_applies + 1,
                            !.pending_applies = IF @ = 0 THEN 0 ELSE @ - 1]
  /\ tick' = "answer"
  /\ UNCHANGED <<call, pending_applies, active_pipeline, batch, history>>

\* The counter wraps when the tick boundary is ahead of the caller.
CountSwapped ==
  /\ tick = "count"
  /\ stats' = [stats EXCEPT !.successful_applies = stats.successful_applies + 1,
                            !.pending_applies = (stats.pending_applies - 1) % CountMod]
  /\ tick' = "answer"
  /\ UNCHANGED <<call, pending_applies, active_pipeline, batch, history>>

\* Mutant: the boundary ends with the first answer.
AnswerFirst ==
  /\ tick = "answer"
  /\ answered' = Append(answered, Head(batch))
  /\ batch' = <<>>
  /\ tick' = "take"
  /\ UNCHANGED <<call, coordinator, queued, earlier, disturbed>>

\* response_tx.send, whether or not anyone waits for it; then the next of the batch.
Answer ==
  /\ tick = "answer"
  /\ answered' = Append(answered, Head(batch))
  /\ batch' = Tail(batch)
  /\ tick' = IF Tail(batch) = <<>> THEN "take" ELSE "swap"
  /\ UNCHANGED <<call, coordinator, queued, earlier, disturbed>>

-----------------------------------------------------------------------------
clear_stats ==
  /\ stats' = Cleared
  /\ disturbed' = (disturbed \/ ~Quiet)
  /\ UNCHANGED <<call, pending_applies, active_pipeline, batch, tick, queued, answered, earlier>>

TickBoundary == Take \/ swap_pipeline_atomic \/ CountSwapped \/ Answer

Next ==
  \/ TickBoundary \/ clear_stats
  \/ \E a \in Applies :
       apply_profile_async(a) \/ CompileFails(a) \/ Enqueue(a) \/ CountQueued(a) \/ Drop(a)

Spec == Init /\ [][Next]_vars

\* The real-time task comes to a tick boundary again and again.
FairSpec == Spec /\ WF_vars(TickBoundary)

-----------------------------------------------------------------------------
(* Properties                                                              *)

Stats ==
  [total_applies : Nat, successful_applies : Nat, pending_applies : 0..(CountMod - 1)]

TypeOK ==
  /\ call \in [Applies -> {"none", "compiling", "failed", "queued", "returned", "dropped"}]
  /\ pending_applies \in Seq(Applies) /\ batch \in Seq(Applies)
  /\ tick \in {"take", "swap", "count", "answer"}
  /\ active_pipeline \in Applies \cup {Initial}
  /\ stats \in Stats
  /\ queued \in Seq(Applies) /\ answered \in Seq(Applies)
  /\ earlier \in [Applies -> SUBSET Applies]
  /\ disturbed \in BOOLEAN
  /\ tick # "take" <=> batch # <<>>

\* Every apply that is queued is answered exactly once and in the order of the
\* queue, or waits, whatever calls queue, drop or return meanwhile
\* (apply_profile_async, process_pending_applies_at_tick_boundary).
AnsweredInOrder == queued = answered \o batch \o pending_applies

\* Profiles compiled at the same time are swapped in as they finish, but an apply
\* that began after another had returned is never overtaken by it: an old profile
\* does not come back over a newer one.
LaterRequestWins ==
  \A i, j \in 1..Len(answered) :
    i < j => answered[j] \notin earlier[answered[i]]

\* The counters meet again: with nothing under way, and unless a call was dropped
\* between its two sections or the statistics were cleared midway, no apply counts
\* as pending and every apply counts as successful, although the tick boundary may
\* count an apply before its caller does.
CountersMeet ==
  Quiet /\ ~disturbed =>
    stats.pending_applies = 0 /\ stats.total_applies = stats.successful_applies

\* An apply that is queued is answered, even if its caller is gone.
EveryQueuedIsAnswered ==
  \A a \in Applies : (a \in ToSet(queued)) ~> (a \in ToSet(answered))
=============================================================================
