------------------------ MODULE TwoPhaseApplyProofs ------------------------
(***************************************************************************)
(* Proofs about TwoPhaseApply for any set of applies: each is answered     *)
(* once, in the order of the queue, no old profile comes back over a newer *)
(* one, and the counters of the two sides meet again.                      *)
(***************************************************************************)
EXTENDS TwoPhaseApply, SequenceTheorems, FiniteSetTheorems, TLAPS

\* Only calls that have been queued are in the queue's history.
QueuedCalls ==
  \A i \in 1..Len(queued) : call[queued[i]] \in {"queued", "returned", "dropped"}

\* What counts as earlier than a call has returned.
EarlierReturned == \A a \in Applies : \A b \in earlier[a] : call[b] = "returned"

\* No apply is queued behind one that began after it had returned.
QueuedInOrder ==
  \A i, j \in 1..Len(queued) : i < j => queued[j] \notin earlier[queued[i]]

\* The inductive invariant.  That the order of the queue respects the order of calls
\* needs that a call queues before it returns, and that what was taken is answered in
\* full before the queue is taken again.
Inv == TypeOK /\ AnsweredInOrder /\ QueuedCalls /\ EarlierReturned /\ QueuedInOrder

-----------------------------------------------------------------------------
(* Sequences                                                               *)

\* An element appended to the second of two sequences is appended to the whole.
LEMMA AppendToLast ==
  ASSUME NEW s \in Seq(Applies), NEW t \in Seq(Applies), NEW e \in Applies
  PROVE  Append(s \o t, e) = s \o Append(t, e)
<1>1. s \o t \in Seq(Applies) /\ <<e>> \in Seq(Applies)
  BY ConcatProperties
<1>2. Append(s \o t, e) = (s \o t) \o <<e>>
  BY <1>1, AppendIsConcat
<1>3. (s \o t) \o <<e>> = s \o (t \o <<e>>)
  BY <1>1, ConcatAssociative
<1>4. t \o <<e>> = Append(t, e)
  BY AppendIsConcat
<1> QED
  BY <1>2, <1>3, <1>4

\* Moving the head of one sequence to the end of the one before leaves the whole.
LEMMA MoveHead ==
  ASSUME NEW S, NEW s \in Seq(S), NEW t \in Seq(S), t # <<>>
  PROVE  Append(s, Head(t)) \o Tail(t) = s \o t
<1>1. Head(t) \in S /\ Tail(t) \in Seq(S) /\ <<Head(t)>> \in Seq(S)
  BY HeadTailProperties
<1>2. Append(s, Head(t)) = s \o <<Head(t)>>
  BY <1>1, AppendIsConcat
<1>3. (s \o <<Head(t)>>) \o Tail(t) = s \o (<<Head(t)>> \o Tail(t))
  BY <1>1, ConcatAssociative
<1>4. <<Head(t)>> \o Tail(t) = t
  BY <1>1, SMT
<1> QED
  BY <1>2, <1>3, <1>4

\* The statistics keep their type however the counter of pending applies wraps
\* (clear_stats, CountQueued, CountSwapped).
LEMMA StatsStay ==
  /\ Cleared \in Stats
  /\ \A s \in Stats :
       /\ [s EXCEPT !.total_applies = s.total_applies + 1,
                    !.pending_applies = (s.pending_applies + 1) % CountMod] \in Stats
       /\ [s EXCEPT !.successful_applies = s.successful_applies + 1,
                    !.pending_applies = (s.pending_applies - 1) % CountMod] \in Stats
<1>1. \A n \in Int : n % CountMod \in 0..(CountMod - 1)
  BY TwoPhaseApplyAssumption
<1>2. Cleared \in Stats
  BY TwoPhaseApplyAssumption DEF Cleared, Stats
<1>3. ASSUME NEW s \in Stats
      PROVE  /\ (s.pending_applies + 1) % CountMod \in 0..(CountMod - 1)
             /\ (s.pending_applies - 1) % CountMod \in 0..(CountMod - 1)
  <2>1. s.pending_applies + 1 \in Int /\ s.pending_applies - 1 \in Int
    BY TwoPhaseApplyAssumption DEF Stats
  <2> QED
    BY <1>1, <2>1
<1>4. ASSUME NEW s \in Stats, NEW n \in 0..(CountMod - 1)
      PROVE  /\ [s EXCEPT !.total_applies = s.total_applies + 1,
                          !.pending_applies = n] \in Stats
             /\ [s EXCEPT !.successful_applies = s.successful_applies + 1,
                          !.pending_applies = n] \in Stats
  <2> DEFINE C == 0..(CountMod - 1)
  <2>1. s.total_applies + 1 \in Nat /\ s.successful_applies + 1 \in Nat
    BY DEF Stats
  <2>2. n \in C /\ s \in [total_applies : Nat, successful_applies : Nat, pending_applies : C]
    BY DEF Stats
  <2> HIDE DEF C
  <2>3. ASSUME NEW m \in Nat
        PROVE  /\ [s EXCEPT !.total_applies = m, !.pending_applies = n]
                    \in [total_applies : Nat, successful_applies : Nat, pending_applies : C]
               /\ [s EXCEPT !.successful_applies = m, !.pending_applies = n]
                    \in [total_applies : Nat, successful_applies : Nat, pending_applies : C]
    BY <2>2
  <2> QED
    BY <2>1, <2>3 DEF C, Stats
<1> QED
  BY <1>2, <1>3, <1>4

-----------------------------------------------------------------------------
(* The invariant                                                           *)

\* At the start nothing is queued, taken or answered.
LEMMA InitSound == Init => Inv
<1> SUFFICES ASSUME Init PROVE Inv
  OBVIOUS
<1>1. TypeOK
  <2>1. <<>> \in Seq(Applies)
    OBVIOUS
  <2>2. call \in [Applies -> {"none", "compiling", "failed", "queued", "returned", "dropped"}]
        /\ earlier \in [Applies -> SUBSET Applies]
    BY DEF Init
  <2>3. stats \in Stats /\ active_pipeline \in Applies \cup {Initial} /\ disturbed \in BOOLEAN
    BY StatsStay DEF Init
  <2> QED
    BY <2>1, <2>2, <2>3 DEF Init, TypeOK
<1>2. AnsweredInOrder
  BY DEF Init, AnsweredInOrder
<1> QED
  BY <1>1, <1>2 DEF Init, Inv, QueuedCalls, EarlierReturned, QueuedInOrder

\* A call that begins has not been queued, and what it counts as earlier has returned
\* (apply_profile_async).
LEMMA BeginStep ==
  ASSUME Inv, NEW a \in Applies, apply_profile_async(a)
  PROVE  Inv'
<1> USE DEF apply_profile_async, coordinator
<1>1. TypeOK'
  BY DEF Inv, TypeOK
<1>2. AnsweredInOrder'
  BY DEF Inv, AnsweredInOrder
<1>3. \A i \in 1..Len(queued) : queued[i] \in Applies /\ queued[i] # a
  BY DEF Inv, TypeOK, QueuedCalls
<1>4. QueuedCalls'
  BY <1>3 DEF Inv, TypeOK, QueuedCalls
<1>5. EarlierReturned'
  BY DEF Inv, TypeOK, EarlierReturned
<1>6. QueuedInOrder'
  BY <1>3 DEF Inv, TypeOK, QueuedInOrder
<1> QED
  BY <1>1, <1>2, <1>4, <1>5, <1>6 DEF Inv

\* A call that moves on without queueing, and was not yet returned, disturbs nothing;
\* a call that has been queued stays one (CompileFails, CountQueued, Drop).
LEMMA CallStep ==
  ASSUME Inv, NEW a \in Applies, CompileFails(a) \/ CountQueued(a) \/ Drop(a)
  PROVE  Inv'
<1> USE DEF CompileFails, CountQueued, Drop, coordinator, history
<1>1. stats' \in Stats
  BY StatsStay DEF Inv, TypeOK
<1>2. TypeOK'
  BY <1>1 DEF Inv, TypeOK
<1>3. AnsweredInOrder' /\ QueuedInOrder'
  BY DEF Inv, AnsweredInOrder, QueuedInOrder
<1>4. \A i \in 1..Len(queued) : queued[i] \in Applies
  BY DEF Inv, TypeOK
<1>5. QueuedCalls'
  BY <1>4 DEF Inv, TypeOK, QueuedCalls
<1>6. EarlierReturned'
  BY DEF Inv, TypeOK, EarlierReturned
<1> QED
  BY <1>2, <1>3, <1>5, <1>6 DEF Inv

\* An apply goes to the end of the queue; it has not returned, so no call counts it
\* as earlier (Enqueue).
LEMMA EnqueueStep ==
  ASSUME Inv, NEW a \in Applies, Enqueue(a)
  PROVE  Inv'
<1> USE DEF Enqueue
<1>1. /\ queued \in Seq(Applies) /\ answered \in Seq(Applies)
      /\ batch \in Seq(Applies) /\ pending_applies \in Seq(Applies)
  BY DEF Inv, TypeOK
<1>2. TypeOK'
  BY AppendProperties DEF Inv, TypeOK
<1>3. AnsweredInOrder'
  <2>1. queued = answered \o batch \o pending_applies
    BY DEF Inv, AnsweredInOrder
  <2>2. Append(answered \o batch \o pending_applies, a)
          = answered \o batch \o Append(pending_applies, a)
    <3> DEFINE done == answered \o batch
    <3>1. done \in Seq(Applies)
      BY <1>1, ConcatProperties
    <3> HIDE DEF done
    <3>2. Append(done \o pending_applies, a) = done \o Append(pending_applies, a)
      BY <1>1, <3>1, AppendToLast, Zenon
    <3> QED
      BY <3>2, Zenon DEF done
  <2>3. Append(queued, a) = answered \o batch \o Append(pending_applies, a)
    BY <2>1, <2>2, Zenon
  <2>4. /\ queued' = Append(queued, a) /\ pending_applies' = Append(pending_applies, a)
        /\ answered' = answered /\ batch' = batch
    OBVIOUS
  <2>5. queued' = answered' \o batch' \o pending_applies'
    BY <2>3, <2>4, Zenon
  <2> QED
    BY <2>5, Zenon DEF AnsweredInOrder
<1>4. /\ Len(queued') = Len(queued) + 1
      /\ \A i \in 1..Len(queued) : queued'[i] = queued[i] /\ queued[i] \in Applies
      /\ queued'[Len(queued) + 1] = a
  BY <1>1, AppendProperties
<1>5. QueuedCalls'
  BY <1>1, <1>4 DEF Inv, TypeOK, QueuedCalls
<1>6. EarlierReturned'
  BY DEF Inv, TypeOK, EarlierReturned
<1>7. QueuedInOrder'
  <2> SUFFICES ASSUME NEW i \in 1..Len(queued'), NEW j \in 1..Len(queued'), i < j
               PROVE  queued'[j] \notin earlier[queued'[i]]
    BY DEF QueuedInOrder
  <2>1. i \in 1..Len(queued) /\ queued'[i] = queued[i] /\ queued[i] \in Applies
    BY <1>1, <1>4
  <2>2. CASE j \in 1..Len(queued)
    BY <1>4, <2>1, <2>2 DEF Inv, QueuedInOrder
  <2>3. CASE j = Len(queued) + 1
    BY <1>4, <2>1, <2>3 DEF Inv, EarlierReturned
  <2>4. j \in 1..Len(queued) \/ j = Len(queued) + 1
    <3>1. Len(queued) \in Nat /\ j \in 1..(Len(queued) + 1)
      BY <1>1, <1>4
    <3> QED
      BY <3>1
  <2> QED
    BY <2>2, <2>3, <2>4
<1> QED
  BY <1>2, <1>3, <1>5, <1>6, <1>7 DEF Inv

\* The whole queue is taken when all of the last batch is answered (Take).
LEMMA TakeStep ==
  ASSUME Inv, Take
  PROVE  Inv'
<1> USE DEF Take, history
<1>1. TypeOK' /\ batch = <<>>
  BY DEF Inv, TypeOK
<1>2. /\ answered \in Seq(Applies) /\ pending_applies \in Seq(Applies)
      /\ answered \o pending_applies \in Seq(Applies)
  BY ConcatProperties DEF Inv, TypeOK
<1>3. AnsweredInOrder'
  BY <1>1, <1>2, ConcatEmptySeq DEF Inv, AnsweredInOrder
<1> QED
  BY <1>1, <1>3 DEF Inv, QueuedCalls, EarlierReturned, QueuedInOrder

\* The first of the batch is answered (Answer).
LEMMA AnswerStep ==
  ASSUME Inv, Answer
  PROVE  Inv'
<1> USE DEF Answer, coordinator
<1>1. batch \in Seq(Applies) /\ batch # <<>> /\ answered \in Seq(Applies)
  BY DEF Inv, TypeOK
<1>2. Head(batch) \in Applies /\ Tail(batch) \in Seq(Applies)
  BY <1>1, HeadTailProperties
<1>3. Append(answered, Head(batch)) \in Seq(Applies)
  BY <1>1, <1>2, AppendProperties
<1>4. TypeOK'
  BY <1>1, <1>2, <1>3 DEF Inv, TypeOK
<1>5. AnsweredInOrder'
  BY <1>1, MoveHead DEF Inv, AnsweredInOrder
<1> QED
  BY <1>4, <1>5 DEF Inv, QueuedCalls, EarlierReturned, QueuedInOrder

\* Swapping, counting and clearing the statistics leave queue and calls alone
\* (swap_pipeline_atomic, CountSwapped, clear_stats).
LEMMA OtherStep ==
  ASSUME Inv, swap_pipeline_atomic \/ CountSwapped \/ clear_stats
  PROVE  Inv'
<1> USE DEF history
<1>1. TypeOK'
  <2>1. CASE swap_pipeline_atomic
    <3>1. Head(batch) \in Applies
      BY <2>1, HeadTailProperties DEF swap_pipeline_atomic, Inv, TypeOK
    <3> QED
      BY <2>1, <3>1 DEF swap_pipeline_atomic, Inv, TypeOK
  <2>2. CASE CountSwapped
    <3>1. stats' \in Stats
      BY <2>2, StatsStay DEF CountSwapped, Inv, TypeOK
    <3> QED
      BY <2>2, <3>1 DEF CountSwapped, Inv, TypeOK
  <2>3. CASE clear_stats
    <3>1. disturbed' \in BOOLEAN
      BY <2>3 DEF clear_stats, Inv, TypeOK
    <3> QED
      BY <2>3, <3>1, StatsStay DEF clear_stats, Inv, TypeOK
  <2> QED
    BY <2>1, <2>2, <2>3
<1>2. UNCHANGED <<call, queued, answered, batch, pending_applies, earlier>>
  BY DEF swap_pipeline_atomic, CountSwapped, clear_stats
<1> QED
  BY <1>1, <1>2 DEF Inv, AnsweredInOrder, QueuedCalls, EarlierReturned, QueuedInOrder

\* Every step of a caller and of the tick boundary keeps the invariant.
LEMMA StepPreserves == Inv /\ [Next]_vars => Inv'
<1> SUFFICES ASSUME Inv, [Next]_vars PROVE Inv'
  OBVIOUS
<1>1. CASE TickBoundary \/ clear_stats
  BY <1>1, TakeStep, AnswerStep, OtherStep DEF TickBoundary
<1>2. ASSUME NEW a \in Applies,
             apply_profile_async(a) \/ CompileFails(a) \/ Enqueue(a) \/ CountQueued(a) \/ Drop(a)
      PROVE  Inv'
  BY <1>2, BeginStep, CallStep, EnqueueStep
<1>3. CASE UNCHANGED vars
  BY <1>3 DEF vars, coordinator, history, Inv, TypeOK, AnsweredInOrder, QueuedCalls,
              EarlierReturned, QueuedInOrder
<1> QED
  BY <1>1, <1>2, <1>3 DEF Next

\* Inv holds in every reachable state, for any set of applies.
THEOREM InductiveInvariant == Spec => []Inv
<1>1. Init => Inv
  BY InitSound
<1>2. Inv /\ [Next]_vars => Inv'
  BY StepPreserves
<1> QED
  BY <1>1, <1>2, PTL DEF Spec

\* The queue, the batch and the counters keep their types; in particular the tick
\* boundary works on a batch exactly when it has one
\* (process_pending_applies_at_tick_boundary).
THEOREM TypeCorrect == Spec => []TypeOK
<1>1. Inv => TypeOK
  BY DEF Inv
<1> QED
  BY <1>1, InductiveInvariant, PTL

\* Every queued apply is answered once and in order, or waits, for any number of
\* concurrent callers (apply_profile_async, process_pending_applies_at_tick_boundary).
THEOREM EachAnsweredInOrder == Spec => []AnsweredInOrder
<1>1. Inv => AnsweredInOrder
  BY DEF Inv
<1> QED
  BY <1>1, InductiveInvariant, PTL

\* An apply that began after another had returned is never overtaken by it, for any
\* number of concurrent callers (apply_profile_async).
THEOREM NoOldProfileReturns == Spec => []LaterRequestWins
<1>1. Inv => LaterRequestWins
  <2> SUFFICES ASSUME Inv PROVE LaterRequestWins
    OBVIOUS
  <2>1. /\ answered \in Seq(Applies) /\ batch \in Seq(Applies)
        /\ pending_applies \in Seq(Applies)
    BY DEF Inv, TypeOK
  <2>2. answered \o batch \in Seq(Applies)
        /\ Len(answered \o batch) = Len(answered) + Len(batch)
        /\ \A i \in 1..Len(answered) : (answered \o batch)[i] = answered[i]
    BY <2>1, ConcatProperties
  <2>3. /\ Len(queued) >= Len(answered)
        /\ \A i \in 1..Len(answered) : i \in 1..Len(queued) /\ queued[i] = answered[i]
    BY <2>1, <2>2, ConcatProperties DEF Inv, AnsweredInOrder
  <2> QED
    BY <2>3 DEF Inv, QueuedInOrder, LaterRequestWins
<1> QED
  BY <1>1, InductiveInvariant, PTL

-----------------------------------------------------------------------------
(* The counters                                                            *)

\* The calls that have queued and not yet counted.
Uncounted == {a \in Applies : call[a] = "queued"}

\* The applies that are queued and not yet counted as swapped in.
InFlight == Len(pending_applies) + Len(batch) - (IF tick = "answer" THEN 1 ELSE 0)

\* The inductive invariant of the counters.  A caller and the tick boundary count the
\* same apply in either order, so pending_applies alone says nothing midway: what it
\* lacks is what the calls that have queued have yet to count, up to a wrap.
CountInv ==
  /\ IsFiniteSet(Uncounted)
  /\ ~disturbed =>
       /\ stats.total_applies + Cardinality(Uncounted) = stats.successful_applies + InFlight
       /\ \E k \in Int : stats.pending_applies
            = stats.total_applies - stats.successful_applies + k * CountMod

\* One more or one less, modulo CountMod, differs from the plain sum by a multiple.
LEMMA WrapByOne ==
  ASSUME NEW p \in 0..(CountMod - 1)
  PROVE  /\ (p + 1) % CountMod = IF p + 1 < CountMod THEN p + 1 ELSE p + 1 - CountMod
         /\ (p - 1) % CountMod = IF p = 0 THEN p - 1 + CountMod ELSE p - 1
<1>1. CountMod \in Nat \ {0}
  BY TwoPhaseApplyAssumption
<1>2. (p + 1) % CountMod = IF p + 1 < CountMod THEN p + 1 ELSE p + 1 - CountMod
  BY <1>1
<1>3. (p - 1) % CountMod = IF p = 0 THEN p - 1 + CountMod ELSE p - 1
  BY <1>1
<1> QED
  BY <1>2, <1>3

\* The multiples of CountMod; none but zero is a value of the counter.
LEMMA Multiples ==
  /\ CountMod \in Nat \ {0}
  /\ \A k \in Int :
       /\ k * CountMod \in Int
       /\ (k + 1) * CountMod = k * CountMod + CountMod
       /\ (k - 1) * CountMod = k * CountMod - CountMod
       /\ 0 <= k * CountMod /\ k * CountMod < CountMod => k = 0
  /\ 0 * CountMod = 0
<1>1. CountMod \in Nat \ {0}
  BY TwoPhaseApplyAssumption
<1>2. ASSUME NEW k \in Int
      PROVE  /\ k * CountMod \in Int
             /\ (k + 1) * CountMod = k * CountMod + CountMod
             /\ (k - 1) * CountMod = k * CountMod - CountMod
  BY <1>1
<1>3. ASSUME NEW k \in Int, 0 <= k * CountMod, k * CountMod < CountMod PROVE k = 0
  <2>1. CASE k >= 1
    BY <1>1, <1>3, <2>1
  <2>2. CASE k <= -1
    BY <1>1, <1>3, <2>2
  <2> QED
    BY <2>1, <2>2
<1> QED
  BY <1>1, <1>2, <1>3

\* At the start nothing has been counted.
LEMMA CountInit == Init => CountInv
<1> SUFFICES ASSUME Init PROVE CountInv
  OBVIOUS
<1>1. Uncounted = {}
  BY DEF Init, Uncounted
<1>2. IsFiniteSet({}) /\ Cardinality({}) = 0
  BY FS_EmptySet
<1>3. InFlight = 0
  BY DEF Init, InFlight
<1>4. stats.total_applies = 0 /\ stats.successful_applies = 0 /\ stats.pending_applies = 0
  BY DEF Init, Cleared
<1>5. 0 = 0 - 0 + 0 * CountMod
  BY Multiples
<1> QED
  BY <1>1, <1>2, <1>3, <1>4, <1>5 DEF CountInv

\* The types the counting needs.
LEMMA CountTypes ==
  ASSUME TypeOK
  PROVE  /\ stats.total_applies \in Nat /\ stats.successful_applies \in Nat
         /\ stats.pending_applies \in 0..(CountMod - 1)
         /\ Len(pending_applies) \in Nat /\ Len(batch) \in Nat /\ InFlight \in Int
<1>1. stats \in Stats /\ pending_applies \in Seq(Applies) /\ batch \in Seq(Applies)
  BY DEF TypeOK
<1>2. Len(pending_applies) \in Nat /\ Len(batch) \in Nat
  BY <1>1
<1> QED
  BY <1>1, <1>2 DEF Stats, InFlight

\* A step that counts nothing, disturbs nothing and queues nothing.
LEMMA CountFrame ==
  ASSUME CountInv, UNCHANGED stats, disturbed' = disturbed, InFlight' = InFlight,
         Uncounted' = Uncounted
  PROVE  CountInv'
  BY DEF CountInv

\* Once the history is disturbed only finiteness is left to show.
LEMMA CountDisturbed ==
  ASSUME CountInv, disturbed', Uncounted' \subseteq Uncounted
  PROVE  CountInv'
<1>1. IsFiniteSet(Uncounted')
  BY FS_Subset DEF CountInv
<1> QED
  BY <1>1 DEF CountInv

\* A call that queues is one more that has to count; its apply is one more in flight.
LEMMA CountEnqueue ==
  ASSUME Inv, CountInv, NEW a \in Applies, Enqueue(a)
  PROVE  CountInv'
<1>1. Uncounted' = Uncounted \cup {a} /\ a \notin Uncounted
  BY DEF Enqueue, Uncounted, Inv, TypeOK
<1>2. IsFiniteSet(Uncounted')
  BY <1>1, FS_AddElement DEF CountInv
<1>3. Cardinality(Uncounted') = Cardinality(Uncounted) + 1 /\ Cardinality(Uncounted) \in Nat
  BY <1>1, FS_AddElement, FS_CardinalityType DEF CountInv
<1>4. InFlight' = InFlight + 1 /\ InFlight \in Int
  <2>1. pending_applies \in Seq(Applies)
    BY DEF Inv, TypeOK
  <2>2. Len(pending_applies') = Len(pending_applies) + 1 /\ UNCHANGED <<batch, tick>>
    BY <2>1, AppendProperties DEF Enqueue
  <2> QED
    BY <2>2, CountTypes DEF Inv, InFlight
<1>5. UNCHANGED <<stats, disturbed>>
  BY DEF Enqueue
<1>6. stats.total_applies \in Nat /\ stats.successful_applies \in Nat
  BY CountTypes DEF Inv
<1> QED
  BY <1>2, <1>3, <1>4, <1>5, <1>6 DEF CountInv

\* A call counts what it has queued (apply_profile_async).
LEMMA CountCountQueued ==
  ASSUME Inv, CountInv, NEW a \in Applies, CountQueued(a)
  PROVE  CountInv'
<1>1. Uncounted' = Uncounted \ {a} /\ a \in Uncounted
  BY DEF CountQueued, Uncounted, Inv, TypeOK
<1>2. IsFiniteSet(Uncounted')
  BY <1>1, FS_RemoveElement DEF CountInv
<1>3. Cardinality(Uncounted') = Cardinality(Uncounted) - 1 /\ Cardinality(Uncounted) \in Nat
  BY <1>1, FS_RemoveElement, FS_CardinalityType DEF CountInv
<1>4. InFlight' = InFlight /\ disturbed' = disturbed
  BY DEF CountQueued, history, InFlight
<1>5. /\ stats.total_applies \in Nat /\ stats.successful_applies \in Nat
      /\ stats.pending_applies \in 0..(CountMod - 1) /\ InFlight \in Int
  BY CountTypes DEF Inv
<1>6. /\ stats'.total_applies = stats.total_applies + 1
      /\ stats'.successful_applies = stats.successful_applies
      /\ stats'.pending_applies = (stats.pending_applies + 1) % CountMod
  BY DEF CountQueued, Inv, TypeOK, Stats
<1>7. ASSUME NEW k \in Int,
             stats.pending_applies
               = stats.total_applies - stats.successful_applies + k * CountMod
      PROVE  \E j \in Int : stats'.pending_applies
               = stats'.total_applies - stats'.successful_applies + j * CountMod
  <2>1. CASE stats.pending_applies + 1 < CountMod
    BY <1>5, <1>6, <1>7, <2>1, WrapByOne, Multiples
  <2>2. CASE ~(stats.pending_applies + 1 < CountMod)
    <3>1. stats'.pending_applies
            = stats'.total_applies - stats'.successful_applies + (k - 1) * CountMod
      <4>1. stats'.pending_applies = stats.pending_applies + 1 - CountMod
        BY <1>5, <1>6, <2>2, WrapByOne
      <4>2. (k - 1) * CountMod = k * CountMod - CountMod /\ k * CountMod \in Int /\ CountMod \in Nat
        BY Multiples
      <4> QED
        BY <1>5, <1>6, <1>7, <4>1, <4>2
    <3> QED
      BY <3>1
  <2> QED
    BY <2>1, <2>2
<1> QED
  BY <1>2, <1>3, <1>4, <1>5, <1>6, <1>7 DEF CountInv

\* The tick boundary counts an apply as swapped in, before or after its caller counts
\* it as pending (process_pending_applies_at_tick_boundary).
LEMMA CountCountSwapped ==
  ASSUME Inv, CountInv, CountSwapped
  PROVE  CountInv'
<1>1. Uncounted' = Uncounted
  BY DEF CountSwapped, Uncounted
<1>2. Cardinality(Uncounted) \in Nat
  BY FS_CardinalityType DEF CountInv
<1>3. InFlight' = InFlight - 1 /\ disturbed' = disturbed
  BY CountTypes DEF Inv, CountSwapped, history, InFlight
<1>4. /\ stats.total_applies \in Nat /\ stats.successful_applies \in Nat
      /\ stats.pending_applies \in 0..(CountMod - 1) /\ InFlight \in Int
  BY CountTypes DEF Inv
<1>5. /\ stats'.total_applies = stats.total_applies
      /\ stats'.successful_applies = stats.successful_applies + 1
      /\ stats'.pending_applies = (stats.pending_applies - 1) % CountMod
  BY DEF CountSwapped, Inv, TypeOK, Stats
<1>6. ASSUME NEW k \in Int,
             stats.pending_applies
               = stats.total_applies - stats.successful_applies + k * CountMod
      PROVE  \E j \in Int : stats'.pending_applies
               = stats'.total_applies - stats'.successful_applies + j * CountMod
  <2>1. CASE stats.pending_applies # 0
    BY <1>4, <1>5, <1>6, <2>1, WrapByOne, Multiples
  <2>2. CASE stats.pending_applies = 0
    <3>1. stats'.pending_applies
            = stats'.total_applies - stats'.successful_applies + (k + 1) * CountMod
      <4>1. stats'.pending_applies = stats.pending_applies - 1 + CountMod
        BY <1>4, <1>5, <2>2, WrapByOne
      <4>2. (k + 1) * CountMod = k * CountMod + CountMod /\ k * CountMod \in Int /\ CountMod \in Nat
        BY Multiples
      <4> QED
        BY <1>4, <1>5, <1>6, <4>1, <4>2
    <3> QED
      BY <3>1
  <2> QED
    BY <2>1, <2>2
<1> QED
  BY <1>1, <1>2, <1>3, <1>4, <1>5, <1>6 DEF CountInv

\* The statistics begin anew with nothing under way, or the history is disturbed.
LEMMA CountClear ==
  ASSUME Inv, CountInv, clear_stats
  PROVE  CountInv'
<1>1. Uncounted' = Uncounted /\ InFlight' = InFlight
  BY DEF clear_stats, Uncounted, InFlight
<1>2. CASE disturbed'
  BY <1>1, <1>2, CountDisturbed
<1>3. CASE ~disturbed'
  <2>1. Quiet
    BY <1>3 DEF clear_stats
  <2>2. Uncounted = {} /\ InFlight = 0
    BY <2>1 DEF Quiet, Uncounted, InFlight, Inv, TypeOK
  <2>3. Cardinality({}) = 0
    BY FS_EmptySet
  <2>4. /\ stats'.total_applies = 0 /\ stats'.successful_applies = 0
        /\ stats'.pending_applies = 0
    BY DEF clear_stats, Cleared
  <2>5. 0 = 0 - 0 + 0 * CountMod
    BY Multiples
  <2> QED
    BY <1>1, <2>2, <2>3, <2>4, <2>5 DEF CountInv
<1> QED
  BY <1>2, <1>3

\* A step of a call that neither queues nor counts.
LEMMA CountCalls ==
  ASSUME Inv, CountInv, NEW a \in Applies,
         apply_profile_async(a) \/ CompileFails(a) \/ Drop(a)
  PROVE  CountInv'
<1>1. InFlight' = InFlight /\ UNCHANGED stats
  BY DEF apply_profile_async, CompileFails, Drop, InFlight, coordinator
<1>2. CASE apply_profile_async(a) \/ CompileFails(a) \/ call[a] = "compiling"
  <2>1. Uncounted' = Uncounted
    BY <1>2 DEF apply_profile_async, CompileFails, Drop, Uncounted, Inv, TypeOK
  <2>2. disturbed' = disturbed
    BY <1>2 DEF apply_profile_async, CompileFails, Drop, history, Inv, TypeOK
  <2> QED
    BY <1>1, <2>1, <2>2, CountFrame
<1>3. CASE Drop(a) /\ call[a] = "queued"
  <2>1. Uncounted' \subseteq Uncounted /\ disturbed'
    BY <1>3 DEF Drop, Uncounted, Inv, TypeOK
  <2> QED
    BY <2>1, CountDisturbed
<1> QED
  BY <1>2, <1>3 DEF Drop

\* The sections of the tick boundary that count nothing.
LEMMA CountBoundary ==
  ASSUME Inv, CountInv, Take \/ swap_pipeline_atomic \/ Answer
  PROVE  CountInv'
<1>1. Uncounted' = Uncounted /\ UNCHANGED stats /\ disturbed' = disturbed
  BY DEF Take, swap_pipeline_atomic, Answer, Uncounted, coordinator, history
<1>2. InFlight' = InFlight
  <2>1. CASE Take
    <3>1. batch = <<>> /\ pending_applies \in Seq(Applies)
      BY <2>1 DEF Take, Inv, TypeOK
    <3> QED
      BY <2>1, <3>1 DEF Take, InFlight
  <2>2. CASE swap_pipeline_atomic
    BY <2>2 DEF swap_pipeline_atomic, InFlight
  <2>3. CASE Answer
    <3>1. batch \in Seq(Applies) /\ batch # <<>> /\ Len(pending_applies) \in Nat
      BY <2>3, CountTypes DEF Answer, Inv, TypeOK
    <3>2. Len(Tail(batch)) = Len(batch) - 1 /\ Len(batch) \in Nat
      BY <3>1, HeadTailProperties
    <3> QED
      BY <2>3, <3>1, <3>2 DEF Answer, InFlight, coordinator
  <2> QED
    BY <2>1, <2>2, <2>3
<1> QED
  BY <1>1, <1>2, CountFrame

\* Every step keeps the balance.
LEMMA CountStep == Inv /\ CountInv /\ [Next]_vars => CountInv'
<1> SUFFICES ASSUME Inv, CountInv, [Next]_vars PROVE CountInv'
  OBVIOUS
<1>1. CASE TickBoundary \/ clear_stats
  BY <1>1, CountBoundary, CountCountSwapped, CountClear DEF TickBoundary
<1>2. ASSUME NEW a \in Applies,
             apply_profile_async(a) \/ CompileFails(a) \/ Enqueue(a) \/ CountQueued(a) \/ Drop(a)
      PROVE  CountInv'
  BY <1>2, CountCalls, CountEnqueue, CountCountQueued
<1>3. CASE UNCHANGED vars
  BY <1>3, CountFrame DEF vars, coordinator, history, Uncounted, InFlight
<1> QED
  BY <1>1, <1>2, <1>3 DEF Next

\* With nothing under way, and unless the history was disturbed, no apply counts as
\* pending and every apply counts as successful, for any number of callers and any
\* width of the counter (apply_profile_async, process_pending_applies_at_tick_boundary,
\* clear_stats).
THEOREM CountersMeetAgain == Spec => []CountersMeet
<1>1. Init => CountInv
  BY CountInit
<1>2. Inv /\ CountInv /\ [Next]_vars => CountInv'
  BY CountStep
<1>3. Inv /\ CountInv => CountersMeet
  <2> SUFFICES ASSUME Inv, CountInv, Quiet, ~disturbed
               PROVE  stats.pending_applies = 0
                      /\ stats.total_applies = stats.successful_applies
    BY DEF CountersMeet
  <2>1. Uncounted = {} /\ InFlight = 0 /\ Cardinality({}) = 0
    BY FS_EmptySet DEF Quiet, Uncounted, InFlight, Inv, TypeOK
  <2>2. /\ stats.total_applies \in Nat /\ stats.successful_applies \in Nat
        /\ stats.pending_applies \in 0..(CountMod - 1)
    BY CountTypes DEF Inv
  <2>3. stats.total_applies = stats.successful_applies
    BY <2>1, <2>2 DEF CountInv
  <2>4. PICK k \in Int : stats.pending_applies
          = stats.total_applies - stats.successful_applies + k * CountMod
    BY DEF CountInv
  <2>5. stats.pending_applies = k * CountMod /\ k * CountMod \in Int
    BY <2>2, <2>3, <2>4, Multiples
  <2>6. k = 0
    BY <2>2, <2>5, Multiples
  <2> QED
    BY <2>3, <2>5, <2>6, Multiples
<1> QED
  BY <1>1, <1>2, <1>3, InductiveInvariant, PTL DEF Spec
=============================================================================
