------------------------ MODULE FirmwareUpdateProofs ------------------------
(***************************************************************************)
(* Proofs about FirmwareUpdate for any number of requests and              *)
(* cancellations and any length of image, as long as no request arrives    *)
(* between the two lock sections of another (~Racing).                     *)
(***************************************************************************)
EXTENDS FirmwareUpdate, TLAPS

\* One call at a time is past the test of active_updates, and once it has
\* inserted its handle the handle stays.
Exclusive ==
  /\ \A u \in Updaters : InProgress(u) => handle = u
  /\ \A u, v \in Updaters : pc[u] = "insert" /\ pc[v] \notin {"idle", "done"} => u = v

\* A cancellation that waits for room in the channel has the mutex, and the
\* handle it found is still in the map.
LockHeld ==
  \A c \in Cancellers : cancel[c] = "sending" => lock = c /\ handle # NONE

\* The loop counters of a call.
CountersAt(u) ==
  /\ pc[u] \in {"idle", "insert", "init", "verify", "prepare", "transfer"} => written[u] = 0
  /\ pc[u] = "write" => written[u] < Length[u]
  /\ pc[u] = "report" => written[u] <= Length[u]
  /\ pc[u] \in {"idle", "insert", "init", "verify", "prepare", "transfer", "write", "report",
                "validate", "bootable", "activate", "reboot", "checking"}
       => attempts[u] = 0
  /\ pc[u] = "health" => attempts[u] < MaxAttempts

Planned == {"verify", "prepare", "transfer", "write", "report", "validate", "bootable",
            "activate", "reboot", "checking", "health", "rb_bootable", "rb_activate",
            "rb_reboot", "rb_health", "finalize"}
BeforeSwap == {"verify", "prepare", "transfer", "write", "report", "validate", "bootable",
               "activate"}
Validated == {"bootable", "activate", "reboot", "checking", "health", "rb_bootable",
              "rb_activate", "rb_reboot", "rb_health", "finalize"}

\* What a call has established about the two partitions by the time it is at
\* each of its steps.
PartitionsAt(u) ==
  /\ pc[u] \in Planned =>
       rollback[u] \in Partitions /\ bootable[rollback[u]] /\ Complete(rollback[u])
  /\ pc[u] \in BeforeSwap => active = rollback[u]
  /\ pc[u] \in Validated => content[target(u)] = Whole(u)
  /\ pc[u] \in Validated \ {"bootable"} => bootable[target(u)]
  /\ pc[u] \in {"reboot", "checking", "health", "finalize"} => active = target(u)
  /\ pc[u] \in {"checking", "health", "finalize"} => running = active
  /\ pc[u] = "finalize" => u \notin BadImages

IInv ==
  /\ TypeOK /\ Exclusive /\ LockHeld /\ BootTargetComplete
  /\ \A u \in Updaters : CountersAt(u) /\ PartitionsAt(u)

-----------------------------------------------------------------------------
(* The building blocks.                                                    *)

\* An image has at least one chunk, and no more than the bound.
LEMMA ImageLength ==
  ASSUME NEW u \in Updaters
  PROVE  Length[u] \in 1..Chunks /\ Length[u] \in Nat /\ Length[u] > 0
<1>1. Length[u] \in 1..Chunks
  BY ImageAssumption
<1> QED
  BY <1>1, CountAssumption

\* Partition::other is the other of the two.
LEMMA OtherPartition ==
  ASSUME NEW p \in Partitions
  PROVE  other(p) \in Partitions /\ other(p) # p
BY DEF Partitions, other

\* Different images differ in their chunks.
LEMMA WholeInjective ==
  ASSUME NEW a \in Updaters \cup {FACTORY}, NEW b \in Updaters \cup {FACTORY},
         Whole(a) = Whole(b)
  PROVE  a = b
<1>1. 1 \in 1..Chunks /\ 1 <= Length[a] /\ 1 <= Length[b]
  BY CountAssumption, ImageAssumption
<1>2. Whole(a)[1] = a /\ Whole(b)[1] = b
  BY <1>1 DEF Whole
<1> QED
  BY <1>2

DeviceTypeOK ==
  /\ content \in [Partitions -> [1..Chunks -> Updaters \cup {FACTORY, NONE}]]
  /\ bootable \in [Partitions -> BOOLEAN]
  /\ active \in Partitions
  /\ running \in Partitions

\* The effects keep the device well-typed.
LEMMA EffectTypes ==
  ASSUME TypeOK, NEW p \in Partitions
  PROVE  /\ Erase(p) => DeviceTypeOK'
         /\ \A n \in 1..Chunks, u \in Updaters : Store(p, n, u) => DeviceTypeOK'
         /\ SetBootable(p) => DeviceTypeOK'
         /\ SetActive(p) => DeviceTypeOK'
         /\ Reboot => DeviceTypeOK'
         /\ UNCHANGED deviceVars => DeviceTypeOK'
<1>1. Erase(p) => DeviceTypeOK'
  BY DEF TypeOK, DeviceTypeOK, Erase, Erased
<1>2. \A n \in 1..Chunks, u \in Updaters : Store(p, n, u) => DeviceTypeOK'
  BY DEF TypeOK, DeviceTypeOK, Store
<1>3. SetBootable(p) => DeviceTypeOK'
  BY DEF TypeOK, DeviceTypeOK, SetBootable
<1>4. /\ SetActive(p) => DeviceTypeOK'
      /\ Reboot => DeviceTypeOK'
      /\ UNCHANGED deviceVars => DeviceTypeOK'
  BY DEF TypeOK, DeviceTypeOK, SetActive, Reboot, deviceVars
<1> QED
  BY <1>1, <1>2, <1>3, <1>4

\* A progress message keeps to the capacity of its channel.
LEMMA SendTypes ==
  ASSUME TypeOK, NEW u \in Updaters, send_progress(u)
  PROVE  progress' \in [Updaters -> 0..ProgressCap]
<1>1. progress \in [Updaters -> 0..ProgressCap] /\ ProgressCap \in Nat
  BY CountAssumption DEF TypeOK
<1>2. CASE progress[u] < ProgressCap /\ progress' = [progress EXCEPT ![u] = @ + 1]
  <2>1. progress[u] + 1 \in 0..ProgressCap
    BY <1>1, <1>2
  <2> QED
    BY <1>1, <1>2, <2>1
<1> QED
  BY <1>1, <1>2 DEF send_progress

\* How a device call, or a step without one, leaves a call: at its next step,
\* or with a result and on its way out.
Outcome(u, next) ==
  \/ Go(u, next) /\ UNCHANGED result
  \/ Finish(u, "failure")

\* Both ways are well-typed, and the call is then at one of the two steps.
LEMMA OutcomeTypes ==
  ASSUME TypeOK, NEW u \in Updaters, NEW next \in Phases, Outcome(u, next)
  PROVE  /\ pc' \in [Updaters -> Phases] /\ result' \in [Updaters -> Results]
         /\ \E x \in {next, "remove"} : Go(u, x)
<1>1. "remove" \in Phases /\ "failure" \in Results
  BY DEF Phases, Results
<1> QED
  BY <1>1 DEF TypeOK, Outcome, Finish, Go

\* The types of what a call that is over leaves behind.
DroppedTypeOK ==
  /\ rollback' \in [Updaters -> Partitions \cup {NONE}]
  /\ written' \in [Updaters -> 0..Chunks]
  /\ attempts' \in [Updaters -> 0..MaxAttempts]
  /\ progress' \in [Updaters -> 0..ProgressCap]
  /\ cancels' \in [Updaters -> 0..1]

\* Dropping the locals and channels of calls that are over keeps the types.
LEMMA DropTypes ==
  ASSUME TypeOK, NEW over \in SUBSET Updaters, Drop(over)
  PROVE  DroppedTypeOK
<1>1. 0 \in 0..Chunks /\ 0 \in 0..MaxAttempts /\ 0 \in 0..ProgressCap /\ 0 \in 0..1
  BY CountAssumption
<1> QED
  BY <1>1 DEF TypeOK, Drop, DroppedTypeOK

-----------------------------------------------------------------------------
(* Steps of one call.                                                      *)

\* While a call is in progress every other one waits to start or is done.
LEMMA Alone ==
  ASSUME IInv, NEW u \in Updaters, InProgress(u), NEW v \in Updaters, v # u
  PROVE  pc[v] \in {"idle", "done"}
BY DEF IInv, Exclusive, InProgress, TypeOK, Phases

\* So a step of a call in progress has to be examined for that call only.
LEMMA StepFrame ==
  ASSUME IInv, NEW u \in Updaters, InProgress(u),
         NEW x \in Phases \ {"idle", "insert", "done"}, Go(u, x),
         UNCHANGED <<handle, lock, cancel>>,
         \A v \in Updaters : v # u => written'[v] = written[v] /\ attempts'[v] = attempts[v],
         TypeOK', BootTargetComplete', CountersAt(u)', PartitionsAt(u)'
  PROVE  IInv'
<1>1. pc'[u] = x /\ \A v \in Updaters : v # u => pc'[v] = pc[v]
  BY DEF IInv, TypeOK, Go
<1>2. Exclusive'
  BY <1>1, Alone DEF IInv, Exclusive, InProgress
<1>3. LockHeld'
  BY DEF IInv, LockHeld
<1>4. ASSUME NEW v \in Updaters, v # u PROVE CountersAt(v)' /\ PartitionsAt(v)'
  <2>1. pc'[v] = pc[v] /\ pc[v] \in {"idle", "done"}
    BY <1>1, <1>4, Alone
  <2>2. CountersAt(v)'
    BY <2>1, <1>4 DEF IInv, CountersAt
  <2>3. PartitionsAt(v)'
    BY <2>1 DEF PartitionsAt, Planned, BeforeSwap, Validated
  <2> QED
    BY <2>2, <2>3
<1> QED
  BY <1>2, <1>3, <1>4 DEF IInv

\* A step that leaves the device and the partition to roll back to alone.
LEMMA QuietFrame ==
  ASSUME IInv, NEW u \in Updaters, InProgress(u),
         NEW x \in Phases \ {"idle", "insert", "done"}, Go(u, x),
         UNCHANGED <<handle, lock, cancel, rollback, deviceVars>>,
         \A v \in Updaters : v # u => written'[v] = written[v] /\ attempts'[v] = attempts[v],
         written' \in [Updaters -> 0..Chunks], attempts' \in [Updaters -> 0..MaxAttempts],
         progress' \in [Updaters -> 0..ProgressCap], cancels' \in [Updaters -> 0..1],
         result' \in [Updaters -> Results],
         CountersAt(u)', PartitionsAt(u)'
  PROVE  IInv'
<1>1. TypeOK'
  BY DEF IInv, TypeOK, Go, deviceVars
<1>2. BootTargetComplete'
  BY DEF IInv, BootTargetComplete, Complete, deviceVars
<1> QED
  BY <1>1, <1>2, StepFrame

\* The partition to keep is the one the device boots, which is complete.
LEMMA PlanStep ==
  ASSUME IInv, NEW u \in Updaters, plan_partition_swap(u)
  PROVE  IInv'
<1>1. /\ pc[u] = "init" /\ send_progress(u)
      /\ rollback' = [rollback EXCEPT ![u] = active]
      /\ Outcome(u, "verify") /\ UNCHANGED deviceVars
      /\ UNCHANGED <<handle, lock, written, attempts, cancels, cancel>>
  BY DEF plan_partition_swap, DeviceCall, Outcome, managerVars
<1>2. PICK x \in {"verify", "remove"} : Go(u, x)
  BY <1>1, OutcomeTypes DEF IInv, Phases
<1>3. TypeOK'
  BY <1>1, SendTypes, OutcomeTypes DEF IInv, TypeOK, Phases, deviceVars
<1>4. pc'[u] = x
  BY <1>2 DEF IInv, TypeOK, Go
<1>5. BootTargetComplete'
  BY <1>1 DEF IInv, BootTargetComplete, Complete, deviceVars
<1>6. CountersAt(u)'
  BY <1>1, <1>4 DEF IInv, CountersAt
<1>7. PartitionsAt(u)'
  BY <1>1, <1>4 DEF IInv, TypeOK, PartitionsAt, BootTargetComplete, Complete, deviceVars,
                    Planned, BeforeSwap, Validated
<1> QED
  BY <1>1, <1>2, <1>3, <1>5, <1>6, <1>7, StepFrame DEF InProgress, Phases

\* Checking the hash touches nothing.
LEMMA VerifyStep ==
  ASSUME IInv, NEW u \in Updaters, verify_firmware_hash(u)
  PROVE  IInv'
<1>1. /\ pc[u] = "verify" /\ send_progress(u)
      /\ Outcome(u, "prepare")
      /\ UNCHANGED <<handle, lock, rollback, written, attempts, cancels, cancel,
                     deviceVars>>
  BY DEF verify_firmware_hash, DeviceCall, Outcome, managerVars, callVars
<1>2. PICK x \in {"prepare", "remove"} : Go(u, x)
  BY <1>1, OutcomeTypes DEF IInv, Phases
<1>3. pc'[u] = x /\ result' \in [Updaters -> Results]
  BY <1>1, <1>2, OutcomeTypes DEF IInv, TypeOK, Go, Phases
<1>4. progress' \in [Updaters -> 0..ProgressCap] /\ cancels' \in [Updaters -> 0..1]
  BY <1>1, SendTypes DEF IInv, TypeOK
<1>5. CountersAt(u)'
  BY <1>1, <1>3, CountAssumption DEF IInv, TypeOK, CountersAt
<1>6. PartitionsAt(u)'
  BY <1>1, <1>3 DEF IInv, PartitionsAt, target, Complete, deviceVars, Planned, BeforeSwap,
                    Validated
<1> QED
  BY <1>1, <1>2, <1>3, <1>4, <1>5, <1>6, QuietFrame
  DEF IInv, TypeOK, InProgress, Phases

\* Only the target is erased, and the device does not boot the target.
LEMMA PrepareStep ==
  ASSUME IInv, NEW u \in Updaters, prepare_target_partition(u)
  PROVE  IInv'
<1>1. /\ pc[u] = "prepare" /\ send_progress(u)
      /\ Outcome(u, "transfer")
      /\ Erase(target(u)) \/ UNCHANGED deviceVars
      /\ UNCHANGED <<handle, lock, rollback, written, attempts, cancels, cancel>>
  BY DEF prepare_target_partition, DeviceCall, Outcome, managerVars
<1>2. PICK x \in {"transfer", "remove"} : Go(u, x)
  BY <1>1, OutcomeTypes DEF IInv, Phases
<1>3. pc'[u] = x
  BY <1>2 DEF IInv, TypeOK, Go
<1>4. /\ rollback[u] \in Partitions /\ active = rollback[u]
      /\ target(u) \in Partitions /\ target(u) # rollback[u]
  BY <1>1, OtherPartition DEF IInv, PartitionsAt, Planned, BeforeSwap, target
<1>5. TypeOK'
  <2>1. DeviceTypeOK'
    BY <1>1, <1>4, EffectTypes DEF IInv
  <2> QED
    BY <1>1, <2>1, SendTypes, OutcomeTypes DEF IInv, TypeOK, DeviceTypeOK, Phases
<1>6. UNCHANGED active /\ UNCHANGED content[active] /\ UNCHANGED bootable[active]
  BY <1>1, <1>4 DEF IInv, TypeOK, Erase, deviceVars
<1>7. BootTargetComplete'
  BY <1>6 DEF IInv, BootTargetComplete, Complete
<1>8. CountersAt(u)'
  BY <1>1, <1>3 DEF IInv, CountersAt
<1>9. PartitionsAt(u)'
  BY <1>1, <1>3, <1>4, <1>7 DEF PartitionsAt, BootTargetComplete, Planned, BeforeSwap,
                                Validated, Erase, deviceVars
<1> QED
  BY <1>1, <1>2, <1>5, <1>7, <1>8, <1>9, StepFrame DEF InProgress, Phases

\* The first message of the transfer touches nothing.
LEMMA BeginTransferStep ==
  ASSUME IInv, NEW u \in Updaters, begin_transfer(u)
  PROVE  IInv'
<1>1. /\ pc[u] = "transfer" /\ send_progress(u)
      /\ Go(u, "write")
      /\ UNCHANGED <<handle, lock, rollback, written, attempts, cancels, result, cancel,
                     deviceVars>>
  BY DEF begin_transfer, managerVars, callVars
<1>2. Go(u, "write") /\ result' \in [Updaters -> Results]
  BY <1>1 DEF IInv, TypeOK, Finish, Results
<1>3. pc'[u] = "write"
  BY <1>2 DEF IInv, TypeOK, Go
<1>4. progress' \in [Updaters -> 0..ProgressCap] /\ cancels' \in [Updaters -> 0..1]
  BY <1>1, SendTypes DEF IInv, TypeOK
<1>5. CountersAt(u)'
  BY <1>1, <1>3, ImageLength DEF IInv, TypeOK, CountersAt
<1>6. PartitionsAt(u)'
  BY <1>1, <1>3 DEF IInv, PartitionsAt, target, Complete, deviceVars, Planned, BeforeSwap,
                    Validated
<1> QED
  BY <1>1, <1>2, <1>3, <1>4, <1>5, <1>6, QuietFrame
  DEF IInv, TypeOK, InProgress, Phases

\* A cancelled transfer leaves the partitions as they are.
LEMMA TakeCancelStep ==
  ASSUME IInv, NEW u \in Updaters, take_cancel(u)
  PROVE  IInv'
<1>1. /\ pc[u] = "write"
      /\ Finish(u, "failure")
      /\ cancels[u] > 0 /\ cancels' = [cancels EXCEPT ![u] = @ - 1]
      /\ UNCHANGED <<handle, lock, rollback, written, attempts, progress, cancel,
                     deviceVars>>
  BY DEF take_cancel, managerVars, callVars
<1>2. Go(u, "remove") /\ result' \in [Updaters -> Results]
  BY <1>1 DEF IInv, TypeOK, Finish, Results
<1>3. pc'[u] = "remove"
  BY <1>2 DEF IInv, TypeOK, Go
<1>4. progress' \in [Updaters -> 0..ProgressCap] /\ cancels' \in [Updaters -> 0..1]
  BY <1>1 DEF IInv, TypeOK
<1>5. CountersAt(u)'
  BY <1>1, <1>3, CountAssumption DEF IInv, TypeOK, CountersAt
<1>6. PartitionsAt(u)'
  BY <1>1, <1>3 DEF IInv, PartitionsAt, target, Complete, deviceVars, Planned, BeforeSwap,
                    Validated
<1> QED
  BY <1>1, <1>2, <1>3, <1>4, <1>5, <1>6, QuietFrame
  DEF IInv, TypeOK, InProgress, Phases

\* Chunks go to the target only, and no more of them than the image has.
LEMMA WriteStep ==
  ASSUME IInv, NEW u \in Updaters, write_chunk(u)
  PROVE  IInv'
<1> DEFINE n == written[u] + 1
<1>1. /\ pc[u] = "write" /\ written' = [written EXCEPT ![u] = n]
      /\ Outcome(u, IF ReportDue(u, n) THEN "report" ELSE "write")
      /\ Store(target(u), n, u) \/ UNCHANGED deviceVars
      /\ UNCHANGED <<handle, lock, rollback, attempts, progress, cancels, cancel>>
  BY DEF write_chunk, DeviceCall, Outcome, managerVars
<1>2. /\ n \in 1..Chunks /\ n <= Length[u] /\ Length[u] \in 1..Chunks
      /\ n = Length[u] => ReportDue(u, n)
  <2>1. written[u] \in 0..Chunks /\ written[u] < Length[u]
    BY <1>1 DEF IInv, TypeOK, CountersAt
  <2>2. Length[u] \in 1..Chunks /\ Length[u] \in Nat /\ Chunks \in Nat
    BY ImageLength, CountAssumption
  <2>3. n \in 1..Chunks /\ n <= Length[u]
    BY <2>1, <2>2
  <2> QED
    BY <2>2, <2>3 DEF ReportDue
<1>3. PICK x \in {"write", "report", "remove"} : Go(u, x) /\ (x = "write" => n # Length[u])
  BY <1>1, <1>2, OutcomeTypes DEF IInv, Phases
<1>4. pc'[u] = x /\ written'[u] = n
  BY <1>1, <1>3 DEF IInv, TypeOK, Go
<1>5. /\ rollback[u] \in Partitions /\ active = rollback[u]
      /\ target(u) \in Partitions /\ target(u) # rollback[u]
  BY <1>1, OtherPartition DEF IInv, PartitionsAt, Planned, BeforeSwap, target
<1>6. TypeOK'
  <2>1. DeviceTypeOK'
    BY <1>1, <1>2, <1>5, EffectTypes DEF IInv
  <2>2. written' \in [Updaters -> 0..Chunks]
    BY <1>1, <1>2 DEF IInv, TypeOK
  <2>3. pc' \in [Updaters -> Phases] /\ result' \in [Updaters -> Results]
    BY <1>1, OutcomeTypes DEF IInv, Phases
  <2> QED
    BY <1>1, <2>1, <2>2, <2>3 DEF IInv, TypeOK, DeviceTypeOK
<1>7. UNCHANGED active /\ UNCHANGED content[active] /\ UNCHANGED bootable[active]
  BY <1>1, <1>5 DEF IInv, TypeOK, Store, deviceVars
<1>8. BootTargetComplete'
  BY <1>7 DEF IInv, BootTargetComplete, Complete
<1>9. CountersAt(u)'
  BY <1>1, <1>2, <1>3, <1>4, CountAssumption DEF IInv, CountersAt
<1>10. PartitionsAt(u)'
  BY <1>1, <1>4, <1>3, <1>5, <1>8 DEF PartitionsAt, BootTargetComplete, Planned, BeforeSwap,
                                 Validated, Store, deviceVars
<1>11. \A v \in Updaters : v # u => written'[v] = written[v]
  BY <1>1 DEF IInv, TypeOK
<1> QED
  BY <1>1, <1>3, <1>6, <1>8, <1>9, <1>10, <1>11, StepFrame DEF InProgress, Phases

\* The loop over the chunks ends with the last one.
LEMMA ReportStep ==
  ASSUME IInv, NEW u \in Updaters, report_transfer(u)
  PROVE  IInv'
<1>1. /\ pc[u] = "report" /\ send_progress(u)
      /\ Go(u, IF written[u] = Length[u] THEN "validate" ELSE "write")
      /\ UNCHANGED <<handle, lock, rollback, written, attempts, cancels, result, cancel,
                     deviceVars>>
  BY DEF report_transfer, managerVars, callVars
<1>2. PICK x \in {"validate", "write"} : Go(u, x) /\ (x = "write" => written[u] # Length[u])
  BY <1>1
<1>3. pc'[u] = x /\ result' \in [Updaters -> Results]
  BY <1>1, <1>2 DEF IInv, TypeOK, Go
<1>4. progress' \in [Updaters -> 0..ProgressCap] /\ cancels' \in [Updaters -> 0..1]
  BY <1>1, SendTypes DEF IInv, TypeOK
<1>5. CountersAt(u)'
  BY <1>1, <1>3, CountAssumption, ImageAssumption, <1>2 DEF IInv, TypeOK, CountersAt
<1>6. PartitionsAt(u)'
  BY <1>1, <1>3 DEF IInv, PartitionsAt, target, Complete, deviceVars, Planned, BeforeSwap,
                    Validated
<1> QED
  BY <1>1, <1>2, <1>3, <1>4, <1>5, <1>6, QuietFrame
  DEF IInv, TypeOK, InProgress, Phases

\* The call passes validation only with every chunk as sent.
LEMMA ValidateStep ==
  ASSUME IInv, NEW u \in Updaters, validate_transferred_firmware(u)
  PROVE  IInv'
<1>1. /\ pc[u] = "validate" /\ send_progress(u)
      /\ Outcome(u, "bootable")
      /\ pc' = [pc EXCEPT ![u] = "bootable"] => HashMatches(u)
      /\ UNCHANGED <<handle, lock, rollback, written, attempts, cancels, cancel, deviceVars>>
  <2>1. pc \in [Updaters -> Phases]
    BY DEF IInv, TypeOK
  <2>2. [pc EXCEPT ![u] = "bootable"] # [pc EXCEPT ![u] = "remove"]
    BY <2>1
  <2> QED
    BY <2>2 DEF validate_transferred_firmware, DeviceCall, Outcome, Finish, Go, managerVars
<1>2. PICK x \in {"bootable", "remove"} : Go(u, x)
  BY <1>1, OutcomeTypes DEF IInv, Phases
<1>3. pc'[u] = x /\ result' \in [Updaters -> Results]
  BY <1>1, <1>2, OutcomeTypes DEF IInv, TypeOK, Go, Phases
<1>4. progress' \in [Updaters -> 0..ProgressCap] /\ cancels' \in [Updaters -> 0..1]
  BY <1>1, SendTypes DEF IInv, TypeOK
<1>5. CountersAt(u)'
  BY <1>1, <1>3 DEF IInv, CountersAt
<1>6. x = "bootable" => content[target(u)] = Whole(u)
  BY <1>1, <1>2 DEF Go, HashMatches
<1>7. PartitionsAt(u)'
  BY <1>1, <1>3, <1>6 DEF IInv, PartitionsAt, target, Complete, deviceVars, Planned,
                          BeforeSwap, Validated
<1> QED
  BY <1>1, <1>2, <1>3, <1>4, <1>5, <1>7, QuietFrame DEF IInv, TypeOK, InProgress, Phases

\* Making a partition bootable, on the way forward or back.
LEMMA SetBootableStep ==
  ASSUME IInv, NEW u \in Updaters, set_target_bootable(u) \/ rollback_set_bootable(u)
  PROVE  IInv'
<1>1. PICK from \in {"bootable", "rb_bootable"}, to \in {"activate", "rb_activate"} :
        /\ pc[u] = from /\ (from = "bootable" <=> to = "activate")
        /\ Outcome(u, to)
        /\ \/ SetBootable(IF from = "bootable" THEN target(u) ELSE rollback[u])
           \/ UNCHANGED deviceVars /\ Finish(u, "failure")
        /\ send_progress(u) \/ UNCHANGED progress
        /\ UNCHANGED <<handle, lock, rollback, written, attempts, cancels, cancel>>
  BY DEF set_target_bootable, rollback_set_bootable, DeviceCall, Outcome, managerVars
<1>2. PICK x \in {to, "remove"} : Go(u, x)
  BY <1>1, OutcomeTypes DEF IInv, Phases
<1>3. pc'[u] = x
  BY <1>2 DEF IInv, TypeOK, Go
<1>4. rollback[u] \in Partitions /\ target(u) \in Partitions /\ target(u) # rollback[u]
  BY <1>1, OtherPartition DEF IInv, PartitionsAt, Planned, target
<1>5. TypeOK'
  <2>1. DeviceTypeOK'
    BY <1>1, <1>4, EffectTypes DEF IInv
  <2>2. progress' \in [Updaters -> 0..ProgressCap]
    BY <1>1, SendTypes DEF IInv, TypeOK
  <2> QED
    BY <1>1, <2>1, <2>2, OutcomeTypes DEF IInv, TypeOK, DeviceTypeOK, Phases
<1>6. /\ UNCHANGED <<content, active, running>>
      /\ \A p \in Partitions : bootable[p] => bootable'[p]
      /\ x = "activate" => bootable'[target(u)]
  BY <1>1, <1>2, <1>3, <1>4 DEF IInv, TypeOK, SetBootable, deviceVars, Finish, Go
<1>7. BootTargetComplete'
  BY <1>6 DEF IInv, TypeOK, BootTargetComplete, Complete
<1>8. CountersAt(u)'
  BY <1>1, <1>3 DEF IInv, CountersAt
<1>9. PartitionsAt(u)'
  BY <1>1, <1>3, <1>4, <1>6 DEF IInv, PartitionsAt, target, Complete, Planned, BeforeSwap,
                                Validated
<1> QED
  BY <1>1, <1>2, <1>5, <1>7, <1>8, <1>9, StepFrame DEF InProgress, Phases

\* Both partitions the boot target may move to are bootable and complete.
LEMMA SetActiveStep ==
  ASSUME IInv, NEW u \in Updaters, activate_target(u) \/ rollback_activate(u)
  PROVE  IInv'
<1>1. PICK from \in {"activate", "rb_activate"}, to \in {"reboot", "rb_reboot"} :
        /\ pc[u] = from /\ (from = "activate" <=> to = "reboot")
        /\ Outcome(u, to)
        /\ \/ SetActive(IF from = "activate" THEN target(u) ELSE rollback[u])
           \/ UNCHANGED deviceVars /\ Finish(u, "failure")
        /\ UNCHANGED <<handle, lock, rollback, written, attempts, progress, cancels, cancel>>
  BY DEF activate_target, rollback_activate, DeviceCall, Outcome, managerVars
<1>2. PICK x \in {to, "remove"} : Go(u, x)
  BY <1>1, OutcomeTypes DEF IInv, Phases
<1>3. pc'[u] = x
  BY <1>2 DEF IInv, TypeOK, Go
<1>4. /\ rollback[u] \in Partitions /\ target(u) \in Partitions
      /\ bootable[rollback[u]] /\ Complete(rollback[u])
      /\ bootable[target(u)] /\ Complete(target(u))
  BY <1>1, OtherPartition DEF IInv, PartitionsAt, Planned, Validated, target, Complete
<1>5. TypeOK'
  <2>1. DeviceTypeOK'
    BY <1>1, <1>4, EffectTypes DEF IInv
  <2> QED
    BY <1>1, <2>1, OutcomeTypes DEF IInv, TypeOK, DeviceTypeOK, Phases
<1>6. /\ UNCHANGED <<content, bootable, running>>
      /\ active' \in {active, target(u), rollback[u]}
      /\ x = "reboot" => active' = target(u)
  BY <1>1, <1>2, <1>3 DEF IInv, TypeOK, SetActive, deviceVars, Finish, Go
<1>7. BootTargetComplete'
  BY <1>4, <1>6 DEF IInv, BootTargetComplete, Complete
<1>8. CountersAt(u)'
  BY <1>1, <1>3 DEF IInv, CountersAt
<1>9. PartitionsAt(u)'
  BY <1>1, <1>3, <1>4, <1>6 DEF IInv, PartitionsAt, target, Complete, Planned, BeforeSwap,
                                Validated
<1> QED
  BY <1>1, <1>2, <1>5, <1>7, <1>8, <1>9, StepFrame DEF InProgress, Phases

\* A reboot starts the partition that is active.
LEMMA RebootStep ==
  ASSUME IInv, NEW u \in Updaters, reboot_device(u) \/ rollback_reboot(u)
  PROVE  IInv'
<1>1. PICK from \in {"reboot", "rb_reboot"}, to \in {"checking", "rb_health"} :
        /\ pc[u] = from /\ (from = "reboot" <=> to = "checking")
        /\ Outcome(u, to)
        /\ Reboot \/ (UNCHANGED deviceVars /\ Finish(u, "failure"))
        /\ UNCHANGED <<handle, lock, rollback, written, attempts, progress, cancels, cancel>>
  BY DEF reboot_device, rollback_reboot, DeviceCall, Outcome, managerVars
<1>2. PICK x \in {to, "remove"} : Go(u, x)
  BY <1>1, OutcomeTypes DEF IInv, Phases
<1>3. pc'[u] = x
  BY <1>2 DEF IInv, TypeOK, Go
<1>4. /\ UNCHANGED <<content, bootable, active>>
      /\ running' \in Partitions
      /\ x = "checking" => running' = active
  BY <1>1, <1>2, <1>3 DEF IInv, TypeOK, Reboot, deviceVars, Finish, Go
<1>5. TypeOK'
  BY <1>1, <1>4, OutcomeTypes DEF IInv, TypeOK, Phases
<1>6. BootTargetComplete'
  BY <1>4 DEF IInv, BootTargetComplete, Complete
<1>7. CountersAt(u)'
  BY <1>1, <1>3 DEF IInv, CountersAt
<1>8. PartitionsAt(u)'
  BY <1>1, <1>3, <1>4 DEF IInv, PartitionsAt, target, Complete, Planned, BeforeSwap, Validated
<1> QED
  BY <1>1, <1>2, <1>5, <1>6, <1>7, <1>8, StepFrame DEF InProgress, Phases

\* The first health check finds the counter of attempts at zero.
LEMMA BeginHealthStep ==
  ASSUME IInv, NEW u \in Updaters, begin_health_check(u)
  PROVE  IInv'
<1>1. /\ pc[u] = "checking" /\ send_progress(u)
      /\ Go(u, "health")
      /\ UNCHANGED <<handle, lock, rollback, written, attempts, cancels, result, cancel,
                     deviceVars>>
  BY DEF begin_health_check, managerVars, callVars
<1>2. Go(u, "health") /\ result' \in [Updaters -> Results]
  BY <1>1 DEF IInv, TypeOK, Finish, Results
<1>3. pc'[u] = "health"
  BY <1>2 DEF IInv, TypeOK, Go
<1>4. progress' \in [Updaters -> 0..ProgressCap] /\ cancels' \in [Updaters -> 0..1]
  BY <1>1, SendTypes DEF IInv, TypeOK
<1>5. CountersAt(u)'
  BY <1>1, <1>3, CountAssumption DEF IInv, TypeOK, CountersAt
<1>6. PartitionsAt(u)'
  BY <1>1, <1>3 DEF IInv, PartitionsAt, target, Complete, deviceVars, Planned, BeforeSwap,
                    Validated
<1> QED
  BY <1>1, <1>2, <1>3, <1>4, <1>5, <1>6, QuietFrame
  DEF IInv, TypeOK, InProgress, Phases

\* A device that passes the check has booted the new image, so that is a good
\* one.
LEMMA HealthPassesStep ==
  ASSUME IInv, NEW u \in Updaters, health_check_passes(u)
  PROVE  IInv'
<1>1. /\ pc[u] = "health" /\ Healthy(running) /\ Go(u, "finalize")
      /\ UNCHANGED <<handle, lock, rollback, written, attempts, progress, cancels, result,
                     cancel, deviceVars>>
  BY DEF health_check_passes, managerVars, callVars
<1>2. pc'[u] = "finalize"
  BY <1>1 DEF IInv, TypeOK, Go
<1>3. u \notin BadImages
  <2>1. content[running] = Whole(u)
    BY <1>1 DEF IInv, PartitionsAt, Validated
  <2>2. PICK image \in (Updaters \ BadImages) \cup {FACTORY} : content[running] = Whole(image)
    BY <1>1 DEF Healthy
  <2>3. image = u
    BY <2>1, <2>2, WholeInjective
  <2> QED
    BY <2>3, ImageAssumption
<1>4. CountersAt(u)'
  BY <1>2 DEF CountersAt
<1>5. PartitionsAt(u)'
  BY <1>1, <1>2, <1>3 DEF IInv, PartitionsAt, target, Complete, deviceVars, Planned,
                          BeforeSwap, Validated
<1> QED
  BY <1>1, <1>4, <1>5, QuietFrame DEF IInv, TypeOK, InProgress, Phases

\* Failed checks are counted up to the maximum.
LEMMA HealthFailsStep ==
  ASSUME IInv, NEW u \in Updaters, health_check_fails(u)
  PROVE  IInv'
<1>1. /\ pc[u] = "health" /\ attempts' = [attempts EXCEPT ![u] = @ + 1]
      /\ Go(u, IF attempts'[u] >= MaxAttempts THEN "rb_bootable" ELSE "health")
      /\ UNCHANGED <<handle, lock, rollback, written, progress, cancels, result, cancel,
                     deviceVars>>
  BY DEF health_check_fails, managerVars
<1>2. /\ attempts'[u] \in 0..MaxAttempts /\ attempts' \in [Updaters -> 0..MaxAttempts]
      /\ \A v \in Updaters : v # u => attempts'[v] = attempts[v]
  <2>1. attempts[u] + 1 \in 0..MaxAttempts
    BY <1>1, CountAssumption DEF IInv, TypeOK, CountersAt
  <2> QED
    BY <1>1, <2>1 DEF IInv, TypeOK
<1>3. PICK x \in {"rb_bootable", "health"} :
        Go(u, x) /\ (x = "health" => attempts'[u] < MaxAttempts)
  BY <1>1, <1>2, CountAssumption
<1>4. pc'[u] = x
  BY <1>3 DEF IInv, TypeOK, Go
<1>5. CountersAt(u)'
  BY <1>3, <1>4 DEF CountersAt
<1>6. PartitionsAt(u)'
  BY <1>1, <1>4 DEF IInv, PartitionsAt, target, Complete, deviceVars, Planned, BeforeSwap,
                    Validated
<1> QED
  BY <1>1, <1>2, <1>3, <1>5, <1>6, QuietFrame DEF IInv, TypeOK, InProgress, Phases

\* The end of a rollback touches nothing.
LEMMA RollbackHealthStep ==
  ASSUME IInv, NEW u \in Updaters, rollback_health_check(u)
  PROVE  IInv'
<1>1. /\ pc[u] = "rb_health"
      /\ Finish(u, "failure")
      /\ UNCHANGED <<handle, lock, rollback, written, attempts, progress, cancels,
                     cancel, deviceVars>>
  BY DEF rollback_health_check, managerVars, callVars
<1>2. Go(u, "remove") /\ result' \in [Updaters -> Results]
  BY <1>1 DEF IInv, TypeOK, Finish, Results
<1>3. pc'[u] = "remove"
  BY <1>2 DEF IInv, TypeOK, Go
<1>4. progress' \in [Updaters -> 0..ProgressCap] /\ cancels' \in [Updaters -> 0..1]
  BY <1>1 DEF IInv, TypeOK
<1>5. CountersAt(u)'
  BY <1>1, <1>3, CountAssumption DEF IInv, TypeOK, CountersAt
<1>6. PartitionsAt(u)'
  BY <1>1, <1>3 DEF IInv, PartitionsAt, target, Complete, deviceVars, Planned, BeforeSwap,
                    Validated
<1> QED
  BY <1>1, <1>2, <1>3, <1>4, <1>5, <1>6, QuietFrame
  DEF IInv, TypeOK, InProgress, Phases

\* The last message and query touch nothing.
LEMMA FinalizeStep ==
  ASSUME IInv, NEW u \in Updaters, finalize_update(u)
  PROVE  IInv'
<1>1. /\ pc[u] = "finalize" /\ send_progress(u) /\ Go(u, "remove")
      /\ result' \in [Updaters -> Results]
      /\ UNCHANGED <<handle, lock, rollback, written, attempts, cancels, cancel, deviceVars>>
  BY DEF finalize_update, Finish, managerVars, IInv, TypeOK, Results
<1>2. pc'[u] = "remove"
  BY <1>1 DEF IInv, TypeOK, Go
<1>3. progress' \in [Updaters -> 0..ProgressCap]
  BY <1>1, SendTypes DEF IInv
<1>4. CountersAt(u)' /\ PartitionsAt(u)'
  BY <1>2 DEF CountersAt, PartitionsAt, Planned, BeforeSwap, Validated
<1> QED
  BY <1>1, <1>3, <1>4, QuietFrame DEF IInv, TypeOK, InProgress, Phases

-----------------------------------------------------------------------------
(* The lock sections, cancellations and a crash.                           *)

\* A request that passes the test finds nobody else past it.
LEMMA CheckStep ==
  ASSUME IInv, ~Racing, NEW u \in Updaters, check_active_updates(u)
  PROVE  IInv'
<1>1. /\ pc[u] = "idle" /\ \A v \in Updaters : pc[v] # "insert"
      /\ \/ handle # NONE /\ Go(u, "done")
         \/ handle = NONE /\ Go(u, "insert")
      /\ UNCHANGED <<handle, lock, rollback, written, attempts, progress, cancels, result,
                     cancel, deviceVars>>
  BY DEF check_active_updates, managerVars, callVars
<1>2. PICK x \in {"done", "insert"} : Go(u, x) /\ (x = "insert" => handle = NONE)
  BY <1>1
<1>3. pc'[u] = x /\ \A v \in Updaters : v # u => pc'[v] = pc[v]
  BY <1>2 DEF IInv, TypeOK, Go
<1>4. TypeOK' /\ BootTargetComplete' /\ LockHeld'
  BY <1>1, <1>2 DEF IInv, TypeOK, Go, Phases, deviceVars, BootTargetComplete, Complete,
                    LockHeld
<1>5. Exclusive'
  <2>1. \A v \in Updaters : x = "insert" /\ v # u => pc[v] \in {"idle", "done"}
    BY <1>1, <1>2, ImageAssumption DEF IInv, Exclusive, InProgress
  <2> QED
    BY <1>1, <1>3, <2>1 DEF IInv, Exclusive, InProgress
<1>6. ASSUME NEW v \in Updaters PROVE CountersAt(v)' /\ PartitionsAt(v)'
  BY <1>1, <1>3 DEF IInv, CountersAt, PartitionsAt, target, Complete, deviceVars, Planned,
                    BeforeSwap, Validated
<1> QED
  BY <1>4, <1>5, <1>6 DEF IInv

\* The handle inserted is the only one.
LEMMA InsertStep ==
  ASSUME IInv, NEW u \in Updaters, insert_handle(u)
  PROVE  IInv'
<1>1. /\ pc[u] = "insert" /\ lock = NONE /\ handle' = u /\ Go(u, "init")
      /\ UNCHANGED <<lock, rollback, written, attempts, progress, cancels, result, cancel,
                     deviceVars>>
  BY DEF insert_handle, callVars
<1>2. pc'[u] = "init" /\ \A v \in Updaters : v # u => pc'[v] = pc[v]
  BY <1>1 DEF IInv, TypeOK, Go
<1>3. TypeOK' /\ BootTargetComplete'
  BY <1>1 DEF IInv, TypeOK, Go, Phases, deviceVars, BootTargetComplete, Complete
<1>4. Exclusive' /\ LockHeld'
  BY <1>1, <1>2, ImageAssumption DEF IInv, Exclusive, InProgress, LockHeld
<1>5. ASSUME NEW v \in Updaters PROVE CountersAt(v)' /\ PartitionsAt(v)'
  BY <1>1, <1>2 DEF IInv, CountersAt, PartitionsAt, target, Complete, deviceVars, Planned,
                    BeforeSwap, Validated
<1> QED
  BY <1>3, <1>4, <1>5 DEF IInv

\* The handle removed is that of the call.
LEMMA RemoveStep ==
  ASSUME IInv, NEW u \in Updaters, remove_handle(u)
  PROVE  IInv'
<1>1. /\ pc[u] = "remove" /\ lock = NONE /\ handle' = NONE /\ Go(u, "done")
      /\ UNCHANGED <<lock, result, cancel, deviceVars>>
  BY DEF remove_handle
<1>0. /\ DroppedTypeOK
      /\ \A v \in Updaters : v # u => /\ rollback'[v] = rollback[v] /\ written'[v] = written[v]
                                     /\ attempts'[v] = attempts[v]
  BY DropTypes DEF IInv, remove_handle, Drop
<1>2. pc'[u] = "done" /\ \A v \in Updaters : v # u => pc'[v] = pc[v]
  BY <1>1 DEF IInv, TypeOK, Go
<1>3. \A v \in Updaters : v # u => pc[v] \in {"idle", "done"}
  BY <1>1, Alone DEF InProgress
<1>4. TypeOK' /\ BootTargetComplete'
  BY <1>0, <1>1 DEF IInv, TypeOK, DroppedTypeOK, Go, Phases, deviceVars, BootTargetComplete,
                    Complete
<1>5. Exclusive'
  BY <1>2, <1>3 DEF Exclusive, InProgress
<1>6. LockHeld'
  <2>1. \A c \in Cancellers : cancel[c] # "sending"
    BY <1>1, ImageAssumption DEF IInv, LockHeld
  <2> QED
    BY <1>1, <2>1 DEF LockHeld
<1>7. ASSUME NEW v \in Updaters PROVE CountersAt(v)' /\ PartitionsAt(v)'
  <2>1. pc'[v] \in {"idle", "done"} /\ (pc'[v] = "idle" => v # u /\ pc[v] = "idle")
    BY <1>2, <1>3
  <2> QED
    BY <1>0, <2>1 DEF IInv, CountersAt, PartitionsAt, Planned, BeforeSwap, Validated
<1> QED
  BY <1>4, <1>5, <1>6, <1>7 DEF IInv

\* Cancellations touch the mutex and the cancel channel only.
LEMMA CancelStep ==
  ASSUME IInv, NEW c \in Cancellers, cancel_lookup(c) \/ cancel_send(c)
  PROVE  IInv'
<1>1. UNCHANGED <<handle, pc, rollback, written, attempts, progress, result, deviceVars>>
  BY DEF cancel_lookup, cancel_send, callVars
<1>2. /\ cancels' \in [Updaters -> 0..1] /\ lock' \in Cancellers \cup {NONE}
      /\ cancel' \in [Cancellers -> {"idle", "sending", "returned"}]
      /\ LockHeld'
  <2>1. CASE cancel_lookup(c)
    BY <2>1, ImageAssumption DEF IInv, TypeOK, LockHeld, cancel_lookup, callVars
  <2>2. CASE cancel_send(c)
    <3>1. lock = c /\ handle \in Updaters
      BY <2>2 DEF IInv, TypeOK, LockHeld, cancel_send
    <3>2. cancels' \in [Updaters -> 0..1]
      <4>1. /\ cancels \in [Updaters -> 0..1] /\ cancels[handle] < 1
            /\ cancels' = [cancels EXCEPT ![handle] = @ + 1]
        BY <2>2 DEF IInv, TypeOK, cancel_send
      <4>2. cancels[handle] \in 0..1
        BY <3>1, <4>1
      <4>3. cancels[handle] + 1 \in 0..1
        BY <4>1, <4>2
      <4> QED
        BY <4>1, <4>3
    <3>3. LockHeld'
      BY <2>2, <3>1 DEF IInv, TypeOK, LockHeld, cancel_send
    <3> QED
      BY <2>2, <3>2, <3>3 DEF IInv, TypeOK, cancel_send
  <2> QED
    BY <2>1, <2>2
<1>3. TypeOK' /\ Exclusive' /\ BootTargetComplete'
  BY <1>1, <1>2 DEF IInv, TypeOK, Exclusive, InProgress, BootTargetComplete, Complete,
                    deviceVars
<1>4. ASSUME NEW u \in Updaters PROVE CountersAt(u)' /\ PartitionsAt(u)'
  BY <1>1 DEF IInv, CountersAt, PartitionsAt, target, Complete, deviceVars
<1> QED
  BY <1>2, <1>3, <1>4 DEF IInv

\* The end of the host process leaves the device as it is.
LEMMA CrashStep ==
  ASSUME IInv, Crash
  PROVE  IInv'
<1>1. /\ handle' = NONE /\ lock' = NONE
      /\ pc' = [u \in Updaters |-> IF pc[u] = "idle" THEN "idle" ELSE "done"]
      /\ cancel' = [c \in Cancellers |-> IF cancel[c] = "idle" THEN "idle" ELSE "returned"]
      /\ UNCHANGED <<result, deviceVars>>
  BY DEF Crash
<1>0. /\ DroppedTypeOK
      /\ \A u \in Updaters : written'[u] = 0 /\ attempts'[u] = 0
  BY DropTypes DEF IInv, Crash, Drop
<1>2. TypeOK' /\ BootTargetComplete'
  BY <1>0, <1>1 DEF IInv, TypeOK, DroppedTypeOK, Phases, deviceVars, BootTargetComplete,
                    Complete
<1>3. Exclusive' /\ LockHeld'
  BY <1>1 DEF Exclusive, InProgress, LockHeld
<1>4. ASSUME NEW u \in Updaters PROVE CountersAt(u)' /\ PartitionsAt(u)'
  <2>1. pc'[u] \in {"idle", "done"} /\ (pc'[u] = "idle" => pc[u] = "idle")
    BY <1>1
  <2> QED
    BY <1>0, <2>1 DEF CountersAt, PartitionsAt, Planned, BeforeSwap, Validated
<1> QED
  BY <1>2, <1>3, <1>4 DEF IInv

-----------------------------------------------------------------------------
(* The theorems.                                                           *)

\* The initial device has one complete image, which it boots.
LEMMA InitEstablishes == Init => IInv
<1> SUFFICES ASSUME Init PROVE IInv
    OBVIOUS
<1>1. TypeOK
  BY CountAssumption DEF Init, TypeOK, Phases, Results, Partitions, Whole, Erased
<1>2. Exclusive /\ LockHeld
  BY DEF Init, Exclusive, LockHeld, InProgress
<1>3. ASSUME NEW u \in Updaters PROVE CountersAt(u) /\ PartitionsAt(u)
  BY DEF Init, CountersAt, PartitionsAt, Planned, BeforeSwap, Validated
<1>4. BootTargetComplete
  BY DEF Init, BootTargetComplete, Complete, Partitions
<1> QED
  BY <1>1, <1>2, <1>3, <1>4 DEF IInv

\* Every step preserves the inductive invariant.
LEMMA StepPreserves == ~Racing /\ IInv /\ [Next]_vars => IInv'
<1> SUFFICES ASSUME ~Racing, IInv, [Next]_vars PROVE IInv'
    OBVIOUS
<1>1. CASE UNCHANGED vars
  BY <1>1 DEF vars, managerVars, callVars, deviceVars, IInv, TypeOK, Exclusive, InProgress,
              LockHeld, BootTargetComplete, Complete, CountersAt, PartitionsAt, target
<1>2. ASSUME NEW u \in Updaters, update_step(u) PROVE IInv'
  BY <1>2, CheckStep, InsertStep, PlanStep, VerifyStep, PrepareStep, BeginTransferStep,
     TakeCancelStep, WriteStep, ReportStep, ValidateStep, SetBootableStep, SetActiveStep,
     RebootStep, BeginHealthStep, HealthPassesStep, HealthFailsStep, RollbackHealthStep,
     FinalizeStep, RemoveStep
  DEF update_step
<1>3. ASSUME NEW c \in Cancellers, cancel_lookup(c) \/ cancel_send(c) PROVE IInv'
  BY <1>3, CancelStep
<1>4. CASE Crash
  BY <1>4, CrashStep
<1> QED
  BY <1>1, <1>2, <1>3, <1>4 DEF Next

\* The inductive invariant holds throughout.
THEOREM InductiveInvariant == ~Racing => (Spec => []IInv)
<1> SUFFICES ASSUME ~Racing PROVE Spec => []IInv
    OBVIOUS
<1>1. IInv /\ [Next]_vars => IInv'
  BY StepPreserves
<1> QED
  BY <1>1, InitEstablishes, PTL DEF Spec

\* TypeOK: every channel and counter of update_device_firmware keeps to its
\* bound.
THEOREM TypeCorrect == ~Racing => (Spec => []TypeOK)
<1>1. IInv => TypeOK
  BY DEF IInv
<1> QED
  BY <1>1, InductiveInvariant, PTL

\* Whatever device call fails, whenever the host ends, the device boots a
\* bootable partition that holds one image in full.
THEOREM BootsCompleteImage == ~Racing => (Spec => []BootTargetComplete)
<1>1. IInv => BootTargetComplete
  BY DEF IInv
<1> QED
  BY <1>1, InductiveInvariant, PTL

\* From plan_partition_swap to its end an update can be rolled back.
THEOREM RollbackPossible == ~Racing => (Spec => []PreviousFirmwareKept)
<1>1. IInv => PreviousFirmwareKept
  BY DEF IInv, TypeOK, Phases, PreviousFirmwareKept, PartitionsAt, Planned
<1> QED
  BY <1>1, InductiveInvariant, PTL

\* Were the test of active_updates and the insertion one lock section, one
\* update per device would run at a time, as documented.
THEOREM OneUpdateIfAtomic == ~Racing => (Spec => []OneUpdatePerDevice)
<1>1. IInv => OneUpdatePerDevice
  BY DEF IInv, Exclusive, OneUpdatePerDevice
<1> QED
  BY <1>1, InductiveInvariant, PTL

\* Only finalize_update reports success.
LEMMA SuccessStep ==
  ASSUME IInv, Next, NEW u \in Updaters, result[u] # "success", result'[u] = "success"
  PROVE  finalize_update(u)
<1>1. ASSUME NEW v \in Updaters, update_step(v) PROVE finalize_update(u)
  <2>1. CASE finalize_update(v)
    BY <2>1 DEF finalize_update, Finish, IInv, TypeOK
  <2>2. ASSUME ~finalize_update(v) PROVE FALSE
    <3>1. UNCHANGED result \/ Finish(v, "failure")
      BY <1>1, <2>2
      DEF update_step, check_active_updates, insert_handle, plan_partition_swap,
          verify_firmware_hash, prepare_target_partition, begin_transfer, take_cancel,
          write_chunk, report_transfer, validate_transferred_firmware, set_target_bootable,
          activate_target, reboot_device, begin_health_check, health_check_passes,
          health_check_fails, rollback_set_bootable, rollback_activate, rollback_reboot,
          rollback_health_check, remove_handle, DeviceCall, callVars
    <3> QED
      BY <3>1 DEF Finish, IInv, TypeOK
  <2> QED
    BY <2>1, <2>2
<1>2. ASSUME NEW c \in Cancellers, cancel_lookup(c) \/ cancel_send(c) PROVE FALSE
  BY <1>2 DEF cancel_lookup, cancel_send, callVars
<1>3. CASE Crash
  BY <1>3 DEF Crash, callVars
<1> QED
  BY <1>1, <1>2, <1>3 DEF Next

\* An update reports success only when the device runs the new image, stored
\* as sent, and that image has passed a health check.
THEOREM SuccessIsReal == ~Racing => (Spec => SuccessMeansInstalled)
<1> DEFINE Real == \A u \in Updaters :
                     (result[u] # "success" /\ result'[u] = "success")
                       => /\ running = active /\ content[active] = Whole(u)
                          /\ u \notin BadImages
<1>1. IInv /\ [Next]_vars => [Real]_vars
  <2> SUFFICES ASSUME IInv, Next, NEW u \in Updaters, result[u] # "success",
                      result'[u] = "success"
               PROVE  running = active /\ content[active] = Whole(u) /\ u \notin BadImages
    OBVIOUS
  <2>1. pc[u] = "finalize"
    BY SuccessStep DEF finalize_update
  <2> QED
    BY <2>1 DEF IInv, PartitionsAt, Validated
<1> QED
  BY <1>1, InductiveInvariant, PTL DEF Spec, SuccessMeansInstalled
=============================================================================
