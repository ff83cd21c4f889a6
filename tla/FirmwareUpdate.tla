--------------------------- MODULE FirmwareUpdate ---------------------------
(***************************************************************************)
(* Firmware updates with A/B partitions                                    *)
(* (crates/openracing-firmware-update/src/manager.rs): the tasks that call *)
(* FirmwareUpdateManager::update_device_firmware for one device, the tasks *)
(* that call cancel_update, and the device they work on.                   *)
(*                                                                         *)
(* A step of a task ends where it awaits something that another task can   *)
(* hold up: the mutex around active_updates, a full channel, a device      *)
(* call.  The mutex is only ever held across an await by cancel_update.    *)
(*                                                                         *)
(* The device is external (trait FirmwareDevice).  Any call may fail, and  *)
(* a call that failed may still have had its effect; a chunk may be stored *)
(* wrong, which only validate_partition sees.                              *)
(***************************************************************************)
EXTENDS Integers

CONSTANTS
  Updaters,      \* calls of update_device_firmware, each with its own image
  Cancellers,    \* calls of cancel_update
  BadImages,     \* images that never pass a health check
  FACTORY,       \* the image on the device at first
  NONE,          \* Option::None, and what an erased or garbled chunk holds
  Chunks,        \* chunks a partition has room for
  Length,        \* chunks of each image
  ReportEvery,   \* chunks between two progress messages (16)
  ProgressCap,   \* capacity of a task's progress channel (100)
  MaxAttempts,   \* MAX_HEALTH_CHECK_ATTEMPTS (5)
  Racing         \* whether a request may arrive while another is between
                 \*   its test of active_updates and its insertion

ASSUME CountAssumption ==
  /\ Chunks \in Nat \ {0} /\ ReportEvery \in Nat \ {0}
  /\ ProgressCap \in Nat \ {0} /\ MaxAttempts \in Nat \ {0}
  /\ Racing \in BOOLEAN

ASSUME ImageAssumption ==
  /\ BadImages \subseteq Updaters
  /\ FACTORY \notin Updaters /\ FACTORY # NONE
  /\ Length \in [Updaters \cup {FACTORY} -> 1..Chunks]
  /\ NONE \notin Updaters /\ NONE \notin Cancellers /\ NONE \notin {"A", "B"}

VARIABLES
  \* The manager.
  handle,        \* the task whose UpdateHandle is in active_updates, or NONE
  lock,          \* the canceller that holds the mutex across an await, or NONE
  \* The calls of update_device_firmware.
  pc,            \* where the call is
  rollback,      \* active_partition, the one to roll back to
  written,       \* chunks written
  attempts,      \* health_check_attempts
  progress,      \* messages in its progress channel, which nothing receives
  cancels,       \* messages in its cancel channel
  result,        \* UpdateResult
  \* The calls of cancel_update: "idle", "sending" or "returned".
  cancel,
  \* The device.
  content,       \* the image each chunk of each partition belongs to
  bootable,
  active,        \* the partition the device boots
  running        \* the partition it booted last

managerVars == <<handle, lock>>
deviceVars == <<content, bootable, active, running>>
callVars == <<rollback, written, attempts, progress, cancels, result>>
vars == <<managerVars, pc, callVars, cancel, deviceVars>>

Partitions == {"A", "B"}

Phases ==
  {"idle", "insert", "init", "verify", "prepare", "transfer", "write", "report",
   "validate", "bootable", "activate", "reboot", "checking", "health",
   "rb_bootable", "rb_activate", "rb_reboot", "rb_health", "finalize", "remove",
   "done"}

Results == {"none", "success", "failure"}

TypeOK ==
  /\ handle \in Updaters \cup {NONE}
  /\ lock \in Cancellers \cup {NONE}
  /\ pc \in [Updaters -> Phases]
  /\ rollback \in [Updaters -> Partitions \cup {NONE}]
  /\ written \in [Updaters -> 0..Chunks]
  /\ attempts \in [Updaters -> 0..MaxAttempts]
  /\ progress \in [Updaters -> 0..ProgressCap]
  /\ cancels \in [Updaters -> 0..1]
  /\ result \in [Updaters -> Results]
  /\ cancel \in [Cancellers -> {"idle", "sending", "returned"}]
  /\ content \in [Partitions -> [1..Chunks -> Updaters \cup {FACTORY, NONE}]]
  /\ bootable \in [Partitions -> BOOLEAN]
  /\ active \in Partitions
  /\ running \in Partitions

-----------------------------------------------------------------------------

\* Partition::other.
other(p) == IF p = "A" THEN "B" ELSE "A"

target(u) == other(rollback[u])

\* A partition that was erased, and one that holds an image in full.
Erased == [c \in 1..Chunks |-> NONE]
Whole(image) == [c \in 1..Chunks |-> IF c <= Length[image] THEN image ELSE NONE]
Complete(p) == \E image \in Updaters \cup {FACTORY} : content[p] = Whole(image)

Healthy(p) == \E image \in (Updaters \ BadImages) \cup {FACTORY} : content[p] = Whole(image)

Init ==
  /\ handle = NONE /\ lock = NONE
  /\ pc = [u \in Updaters |-> "idle"]
  /\ rollback = [u \in Updaters |-> NONE]
  /\ written = [u \in Updaters |-> 0]
  /\ attempts = [u \in Updaters |-> 0]
  /\ progress = [u \in Updaters |-> 0]
  /\ cancels = [u \in Updaters |-> 0]
  /\ result = [u \in Updaters |-> "none"]
  /\ cancel = [c \in Cancellers |-> "idle"]
  /\ content = [p \in Partitions |-> IF p = "A" THEN Whole(FACTORY) ELSE Erased]
  /\ bootable = [p \in Partitions |-> p = "A"]
  /\ active = "A" /\ running = "A"

-----------------------------------------------------------------------------
(* Building blocks.                                                        *)

Go(u, phase) == pc' = [pc EXCEPT ![u] = phase]

\* send_progress waits for room in the call's channel; when its handle is
\* gone so is the receiver, and the message is dropped.
send_progress(u) ==
  \/ /\ handle = u
     /\ progress[u] < ProgressCap
     /\ progress' = [progress EXCEPT ![u] = @ + 1]
  \/ /\ handle # u
     /\ UNCHANGED progress

\* What calls that are over had in their locals and channels goes with them.
Drop(over) ==
  /\ rollback' = [u \in Updaters |-> IF u \in over THEN NONE ELSE rollback[u]]
  /\ written' = [u \in Updaters |-> IF u \in over THEN 0 ELSE written[u]]
  /\ attempts' = [u \in Updaters |-> IF u \in over THEN 0 ELSE attempts[u]]
  /\ progress' = [u \in Updaters |-> IF u \in over THEN 0 ELSE progress[u]]
  /\ cancels' = [u \in Updaters |-> IF u \in over THEN 0 ELSE cancels[u]]

\* The UpdateResult of the call; its rollback_performed is false on every path.
Finish(u, outcome) ==
  /\ result' = [result EXCEPT ![u] = outcome]
  /\ Go(u, "remove")

\* A device call that has the given effect: it succeeds and the call goes on,
\* or it fails, with or without effect, and ends the update.
DeviceCall(u, effect, next) ==
  \/ effect /\ Go(u, next) /\ UNCHANGED result
  \/ (effect \/ UNCHANGED deviceVars) /\ Finish(u, "failure")

\* Effects on the device.
Erase(p) ==
  /\ content' = [content EXCEPT ![p] = Erased]
  /\ bootable' = [bootable EXCEPT ![p] = FALSE]
  /\ UNCHANGED <<active, running>>

Store(p, chunk, image) ==
  /\ \E stored \in {image, NONE} : content' = [content EXCEPT ![p][chunk] = stored]
  /\ UNCHANGED <<bootable, active, running>>

SetBootable(p) ==
  /\ bootable' = [bootable EXCEPT ![p] = TRUE]
  /\ UNCHANGED <<content, active, running>>

SetActive(p) ==
  /\ active' = p
  /\ UNCHANGED <<content, bootable, running>>

Reboot ==
  /\ running' = active
  /\ UNCHANGED <<content, bootable, active>>

-----------------------------------------------------------------------------
(* update_device_firmware.                                                 *)

\* The first lock section: is an update in progress?
check_active_updates(u) ==
  /\ pc[u] = "idle" /\ lock = NONE
  /\ Racing \/ \A v \in Updaters : pc[v] # "insert"
  /\ Go(u, IF handle # NONE THEN "done" ELSE "insert")
  /\ UNCHANGED <<managerVars, callVars, cancel, deviceVars>>

\* The second one.  A handle that is already there is replaced, and dropped
\* with the channel ends it holds.
insert_handle(u) ==
  /\ pc[u] = "insert" /\ lock = NONE
  /\ handle' = u
  /\ Go(u, "init")
  /\ UNCHANGED <<lock, callVars, cancel, deviceVars>>

\* Mutant: the partition to keep is taken for the target.
PlanKeepsOther(u) ==
  /\ pc[u] = "init"
  /\ send_progress(u)
  /\ rollback' = [rollback EXCEPT ![u] = other(active)]
  /\ DeviceCall(u, UNCHANGED deviceVars, "verify")
  /\ UNCHANGED <<managerVars, written, attempts, cancels, cancel>>

\* notify_initialization and plan_partition_swap.
plan_partition_swap(u) ==
  /\ pc[u] = "init"
  /\ send_progress(u)
  /\ rollback' = [rollback EXCEPT ![u] = active]
  /\ DeviceCall(u, UNCHANGED deviceVars, "verify")
  /\ UNCHANGED <<managerVars, written, attempts, cancels, cancel>>

\* The host hashes the image; it may not match the hash it came with.
verify_firmware_hash(u) ==
  /\ pc[u] = "verify"
  /\ send_progress(u)
  /\ DeviceCall(u, UNCHANGED deviceVars, "prepare")
  /\ UNCHANGED <<managerVars, rollback, written, attempts, cancels, cancel>>

prepare_target_partition(u) ==
  /\ pc[u] = "prepare"
  /\ send_progress(u)
  /\ DeviceCall(u, Erase(target(u)), "transfer")
  /\ UNCHANGED <<managerVars, rollback, written, attempts, cancels, cancel>>

\* transfer_firmware_data: the first message,
begin_transfer(u) ==
  /\ pc[u] = "transfer"
  /\ send_progress(u)
  /\ Go(u, "write")
  /\ UNCHANGED <<managerVars, rollback, written, attempts, cancels, result, cancel,
                 deviceVars>>

\* the test for a cancellation before each chunk,
take_cancel(u) ==
  /\ pc[u] = "write" /\ cancels[u] > 0
  /\ cancels' = [cancels EXCEPT ![u] = @ - 1]
  /\ Finish(u, "failure")
  /\ UNCHANGED <<managerVars, rollback, written, attempts, progress, cancel,
                 deviceVars>>

ReportDue(u, n) == n % ReportEvery = 0 \/ n = Length[u]

\* the chunk,
write_chunk(u) ==
  LET n == written[u] + 1
  IN  /\ pc[u] = "write" /\ cancels[u] = 0
      /\ written' = [written EXCEPT ![u] = n]
      /\ DeviceCall(u, Store(target(u), n, u), IF ReportDue(u, n) THEN "report" ELSE "write")
      /\ UNCHANGED <<managerVars, rollback, attempts, progress, cancels, cancel>>

\* and the message that is due.
report_transfer(u) ==
  /\ pc[u] = "report"
  /\ send_progress(u)
  /\ Go(u, IF written[u] = Length[u] THEN "validate" ELSE "write")
  /\ UNCHANGED <<managerVars, rollback, written, attempts, cancels, result, cancel,
                 deviceVars>>

\* The device compares the hash of what it holds with that of the image.
HashMatches(u) == content[target(u)] = Whole(u)

\* Mutant: the device is not asked to validate what it stored.
ValidateSkipped(u) ==
  /\ pc[u] = "validate"
  /\ send_progress(u)
  /\ Go(u, "bootable")
  /\ UNCHANGED <<managerVars, rollback, written, attempts, cancels, result, cancel,
                 deviceVars>>

validate_transferred_firmware(u) ==
  /\ pc[u] = "validate"
  /\ send_progress(u)
  /\ DeviceCall(u, HashMatches(u) /\ UNCHANGED deviceVars, "bootable")
  /\ UNCHANGED <<managerVars, rollback, written, attempts, cancels, cancel>>

\* activate_new_firmware, call by call.
set_target_bootable(u) ==
  /\ pc[u] = "bootable"
  /\ send_progress(u)
  /\ DeviceCall(u, SetBootable(target(u)), "activate")
  /\ UNCHANGED <<managerVars, rollback, written, attempts, cancels, cancel>>

activate_target(u) ==
  /\ pc[u] = "activate"
  /\ DeviceCall(u, SetActive(target(u)), "reboot")
  /\ UNCHANGED <<managerVars, rollback, written, attempts, progress, cancels, cancel>>

\* Mutant: the health check runs without a reboot.
RebootSkipped(u) ==
  /\ pc[u] = "reboot"
  /\ Go(u, "checking")
  /\ UNCHANGED <<managerVars, callVars, cancel, deviceVars>>

reboot_device(u) ==
  /\ pc[u] = "reboot"
  /\ DeviceCall(u, Reboot, "checking")
  /\ UNCHANGED <<managerVars, rollback, written, attempts, progress, cancels, cancel>>

\* run_post_update_health_check: the message, then up to MaxAttempts checks.
begin_health_check(u) ==
  /\ pc[u] = "checking"
  /\ send_progress(u)
  /\ Go(u, "health")
  /\ UNCHANGED <<managerVars, rollback, written, attempts, cancels, result, cancel,
                 deviceVars>>

health_check_passes(u) ==
  /\ pc[u] = "health"
  /\ Healthy(running)
  /\ Go(u, "finalize")
  /\ UNCHANGED <<managerVars, callVars, cancel, deviceVars>>

\* Mutant: failed attempts are not counted.
HealthUncounted(u) ==
  /\ pc[u] = "health"
  /\ Go(u, IF attempts[u] >= MaxAttempts THEN "rb_bootable" ELSE "health")
  /\ UNCHANGED <<managerVars, callVars, cancel, deviceVars>>

\* Mutant: one attempt too many.
HealthOneMore(u) ==
  /\ pc[u] = "health"
  /\ attempts' = [attempts EXCEPT ![u] = @ + 1]
  /\ Go(u, IF attempts'[u] > MaxAttempts THEN "rb_bootable" ELSE "health")
  /\ UNCHANGED <<managerVars, rollback, written, progress, cancels, result, cancel,
                 deviceVars>>

health_check_fails(u) ==
  /\ pc[u] = "health"
  /\ attempts' = [attempts EXCEPT ![u] = @ + 1]
  /\ Go(u, IF attempts'[u] >= MaxAttempts THEN "rb_bootable" ELSE "health")
  /\ UNCHANGED <<managerVars, rollback, written, progress, cancels, result, cancel,
                 deviceVars>>

\* perform_rollback, call by call.
rollback_set_bootable(u) ==
  /\ pc[u] = "rb_bootable"
  /\ DeviceCall(u, SetBootable(rollback[u]), "rb_activate")
  /\ UNCHANGED <<managerVars, rollback, written, attempts, progress, cancels, cancel>>

rollback_activate(u) ==
  /\ pc[u] = "rb_activate"
  /\ DeviceCall(u, SetActive(rollback[u]), "rb_reboot")
  /\ UNCHANGED <<managerVars, rollback, written, attempts, progress, cancels, cancel>>

rollback_reboot(u) ==
  /\ pc[u] = "rb_reboot"
  /\ DeviceCall(u, Reboot, "rb_health")
  /\ UNCHANGED <<managerVars, rollback, written, attempts, progress, cancels, cancel>>

\* The update has failed whether or not the device is healthy again.
rollback_health_check(u) ==
  /\ pc[u] = "rb_health"
  /\ Finish(u, "failure")
  /\ UNCHANGED <<managerVars, rollback, written, attempts, progress, cancels, cancel,
                 deviceVars>>

\* The partition table is read once more; failing that the update has failed.
finalize_update(u) ==
  /\ pc[u] = "finalize"
  /\ send_progress(u)
  /\ \E outcome \in {"success", "failure"} : Finish(u, outcome)
  /\ UNCHANGED <<managerVars, rollback, written, attempts, cancels, cancel, deviceVars>>

\* The third lock section: whatever handle is there is removed.
remove_handle(u) ==
  /\ pc[u] = "remove" /\ lock = NONE
  /\ handle' = NONE
  /\ Go(u, "done")
  /\ Drop({u})
  /\ UNCHANGED <<lock, result, cancel, deviceVars>>

update_step(u) ==
  \/ check_active_updates(u) \/ insert_handle(u) \/ plan_partition_swap(u)
  \/ verify_firmware_hash(u) \/ prepare_target_partition(u) \/ begin_transfer(u)
  \/ take_cancel(u) \/ write_chunk(u) \/ report_transfer(u)
  \/ validate_transferred_firmware(u) \/ set_target_bootable(u) \/ activate_target(u)
  \/ reboot_device(u) \/ begin_health_check(u) \/ health_check_passes(u)
  \/ health_check_fails(u) \/ rollback_set_bootable(u) \/ rollback_activate(u)
  \/ rollback_reboot(u) \/ rollback_health_check(u) \/ finalize_update(u)
  \/ remove_handle(u)

-----------------------------------------------------------------------------
(* cancel_update.                                                          *)

\* The mutex is taken and the handle looked up.
cancel_lookup(c) ==
  /\ cancel[c] = "idle" /\ lock = NONE
  /\ \/ handle = NONE /\ cancel' = [cancel EXCEPT ![c] = "returned"] /\ UNCHANGED lock
     \/ handle # NONE /\ cancel' = [cancel EXCEPT ![c] = "sending"] /\ lock' = c
  /\ UNCHANGED <<handle, pc, callVars, deviceVars>>

\* The channel of capacity one has room: the message is sent, and the mutex
\* released.
cancel_send(c) ==
  /\ cancel[c] = "sending"
  /\ cancels[handle] < 1
  /\ cancels' = [cancels EXCEPT ![handle] = @ + 1]
  /\ cancel' = [cancel EXCEPT ![c] = "returned"]
  /\ lock' = NONE
  /\ UNCHANGED <<handle, pc, rollback, written, attempts, progress, result, deviceVars>>

\* The process ends, and with it every call and the manager; the device stays
\* as it is.
Crash ==
  /\ handle' = NONE /\ lock' = NONE
  /\ pc' = [u \in Updaters |-> IF pc[u] = "idle" THEN "idle" ELSE "done"]
  /\ cancel' = [c \in Cancellers |-> IF cancel[c] = "idle" THEN "idle" ELSE "returned"]
  /\ Drop(Updaters)
  /\ UNCHANGED <<result, deviceVars>>

Next ==
  \/ \E u \in Updaters : update_step(u)
  \/ \E c \in Cancellers : cancel_lookup(c) \/ cancel_send(c)
  \/ Crash

Spec == Init /\ [][Next]_vars

\* Tasks are scheduled and the device answers each call, one way or the other.
Fairness ==
  /\ \A u \in Updaters : WF_vars(update_step(u))
  /\ \A c \in Cancellers : WF_vars(cancel_send(c))

FairSpec == Spec /\ Fairness

-----------------------------------------------------------------------------

\* Whatever fails, is cancelled or crashes in whichever step, the partition
\* the device boots is bootable and holds one image in full: an interrupted
\* update never leaves a device that does not start.
BootTargetComplete == bootable[active] /\ Complete(active)

\* From the plan to its end, an update can be rolled back: the partition it
\* started from is untouched.
PreviousFirmwareKept ==
  \A u \in Updaters :
    pc[u] \notin {"idle", "insert", "init", "remove", "done"}
      => bootable[rollback[u]] /\ Complete(rollback[u])

\* An update reports success only when the device has booted the new image,
\* every chunk of it as sent, and that image passed a health check.
SuccessMeansInstalled ==
  [][ \A u \in Updaters :
        (result[u] # "success" /\ result'[u] = "success")
          => /\ running = active /\ content[active] = Whole(u)
             /\ u \notin BadImages ]_vars

\* A message waits for room in a progress channel that nobody receives from.
WaitsForRoom(u) ==
  /\ pc[u] \in {"init", "verify", "prepare", "transfer", "report", "validate", "bootable",
                "checking", "finalize"}
  /\ handle = u /\ progress[u] = ProgressCap

\* The last lock section waits for a cancellation that holds the mutex and itself
\* waits for room in the cancel channel, which this update no longer empties.
WaitsForCancel(u) ==
  /\ pc[u] = "remove" /\ cancels[u] = 1
  /\ \E c \in Cancellers : lock = c /\ cancel[c] = "sending"

\* An update ends, with its handle removed, whenever it is cancelled and also when
\* no health check ever passes - or it is stuck for good in one of two places: its
\* progress channel is full (send_progress), or a second cancellation sits on the
\* mutex (cancel_update).
UpdateTerminates ==
  \A u \in Updaters :
    pc[u] = "init" ~> pc[u] = "done" \/ []WaitsForRoom(u) \/ []WaitsForCancel(u)

-----------------------------------------------------------------------------
(* Not kept by the code.                                                   *)

InProgress(u) == pc[u] \notin {"idle", "insert", "done"}

\* "Only one update per device is allowed at a time; concurrent requests for
\* the same device are rejected" (FirmwareUpdateManager).
OneUpdatePerDevice == \A u, v \in Updaters : InProgress(u) /\ InProgress(v) => u = v
=============================================================================
