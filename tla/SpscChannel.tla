---------------------------- MODULE SpscChannel ----------------------------
(***************************************************************************)
(* The shared-memory ring between the host and a native plugin             *)
(* (crates/openracing-native-plugin/src/spsc.rs): one process writes       *)
(* frames, another reads them, and both work on one header and one array   *)
(* of slots.                                                               *)
(*                                                                         *)
(* write and read are split at every access to the shared memory: the two  *)
(* loads of the header, the copy of the frame word by word, the store of   *)
(* the own counter.  Either process may end between two of these steps; a  *)
(* new one opens the region (open) and goes on with the header it finds.   *)
(*                                                                         *)
(* The counters are u32 and wrap at SeqMod.  The loads acquire what the    *)
(* stores release, so a counter is seen after the copy it announces: steps *)
(* of one process are seen in order.  Left out: the size checks of a frame *)
(* or a buffer, which return before anything is touched, and the version   *)
(* field, which nothing reads.                                             *)
(***************************************************************************)
EXTENDS Integers, Sequences

CONSTANTS
  max_frames,   \* capacity of the ring
  SeqMod,       \* 2^32 of the u32 counters
  Words,        \* words a frame is copied in
  EMPTY,        \* content of a word before the first copy
  MaxSent       \* bound of the model on the frames written

ASSUME MaxFramesAssumption == max_frames \in Nat \ {0}
ASSUME SeqModAssumption == SeqMod \in Nat \ {0} /\ max_frames < SeqMod
ASSUME WordsAssumption == Words \in Nat \ {0}
ASSUME MaxSentAssumption == MaxSent \in Nat
ASSUME EmptyAssumption == EMPTY \notin Nat

VARIABLES
  producer_seq,   \* SharedMemoryHeader::producer_seq
  consumer_seq,   \* SharedMemoryHeader::consumer_seq
  shutdown_flag,  \* SharedMemoryHeader::shutdown_flag
  slots,          \* the frames behind the header
  writer,         \* a call of write in progress
  reader,         \* a call of read in progress
  written,        \* history: frames whose write returned Ok
  received        \* history: what the reads that returned Ok copied

header == <<producer_seq, consumer_seq, shutdown_flag>>
channel_vars == <<header, slots, writer, reader, written, received>>

Seqs == 0..(SeqMod - 1)
Slots == 0..(max_frames - 1)
Frame == 1..MaxSent
Word == Frame \cup {EMPTY}

\* A frame as it lies in memory, one word after the other.
Image(frame) == [k \in 1..Words |-> frame]

wrapping_sub(a, b) == (a - b) % SeqMod

wrapping_add(a, b) == (a + b) % SeqMod

Index(seq) == seq % max_frames

NoCall == [at |-> "idle", p |-> 0, c |-> 0, k |-> 1, buf |-> [k \in 1..Words |-> EMPTY]]

ChannelInit ==
  /\ producer_seq = 0 /\ consumer_seq = 0 /\ shutdown_flag = FALSE
  /\ slots = [i \in Slots |-> [k \in 1..Words |-> EMPTY]]
  /\ writer = NoCall /\ reader = NoCall
  /\ written = 0 /\ received = <<>>

-----------------------------------------------------------------------------
(* write                                                                   *)

\* write begins: the own counter is loaded.
WriteLoadProducer ==
  /\ writer.at = "idle"
  /\ written < MaxSent
  /\ writer' = [NoCall EXCEPT !.at = "loaded", !.p = producer_seq]
  /\ UNCHANGED <<header, slots, reader, written, received>>

\* Mutant: the ring is taken for full one frame too late.
RingBufferFullLate(p, c) == wrapping_sub(p, c) > max_frames

\* The other counter is loaded; a full ring ends the call.
RingBufferFull(p, c) == wrapping_sub(p, c) >= max_frames

WriteLoadConsumer ==
  /\ writer.at = "loaded"
  /\ writer' = IF RingBufferFull(writer.p, consumer_seq) THEN NoCall
               ELSE [writer EXCEPT !.at = "copy", !.c = consumer_seq]
  /\ UNCHANGED <<header, slots, reader, written, received>>

\* One word of frame number written + 1 goes into the slot.
WriteCopy ==
  /\ writer.at = "copy"
  /\ slots' = [slots EXCEPT ![Index(writer.p)][writer.k] = written + 1]
  /\ writer' = IF writer.k < Words THEN [writer EXCEPT !.k = @ + 1]
               ELSE [writer EXCEPT !.at = "store"]
  /\ UNCHANGED <<header, reader, written, received>>

\* The counter announces the frame; write returns Ok.
WriteStore ==
  /\ writer.at = "store"
  /\ producer_seq' = wrapping_add(writer.p, 1)
  /\ written' = written + 1
  /\ writer' = NoCall
  /\ UNCHANGED <<consumer_seq, shutdown_flag, slots, reader, received>>

-----------------------------------------------------------------------------
(* read                                                                    *)

ReadLoadProducer ==
  /\ reader.at = "idle"
  /\ reader' = [NoCall EXCEPT !.at = "loaded", !.p = producer_seq]
  /\ UNCHANGED <<header, slots, writer, written, received>>

\* Mutant: the last frame of the ring counts as no data.
NoDataAvailableEarly(p, c) == c + 1 >= p

\* NoDataAvailable ends the call, and has_data answers FALSE.
NoDataAvailable(p, c) == c >= p

ReadLoadConsumer ==
  /\ reader.at = "loaded"
  /\ reader' = IF NoDataAvailable(reader.p, consumer_seq) THEN NoCall
               ELSE [reader EXCEPT !.at = "copy", !.c = consumer_seq]
  /\ UNCHANGED <<header, slots, writer, written, received>>

ReadCopy ==
  /\ reader.at = "copy"
  /\ reader' = [reader EXCEPT !.buf[reader.k] = slots[Index(reader.c)][reader.k],
                              !.at = IF reader.k < Words THEN "copy" ELSE "store",
                              !.k = IF reader.k < Words THEN @ + 1 ELSE @]
  /\ UNCHANGED <<header, slots, writer, written, received>>

\* The slot is handed back; read returns Ok.
ReadStore ==
  /\ reader.at = "store"
  /\ consumer_seq' = wrapping_add(reader.c, 1)
  /\ received' = Append(received, reader.buf)
  /\ reader' = NoCall
  /\ UNCHANGED <<producer_seq, shutdown_flag, slots, writer, written>>

-----------------------------------------------------------------------------
(* Shutdown, and the end of a process                                      *)

shutdown ==
  /\ ~shutdown_flag
  /\ shutdown_flag' = TRUE
  /\ UNCHANGED <<producer_seq, consumer_seq, slots, writer, reader, written, received>>

\* A process ends inside a call, and a new one opens the region.
WriterRestarts ==
  /\ writer.at # "idle"
  /\ writer' = NoCall
  /\ UNCHANGED <<header, slots, reader, written, received>>

ReaderRestarts ==
  /\ reader.at # "idle"
  /\ reader' = NoCall
  /\ UNCHANGED <<header, slots, writer, written, received>>

Write == WriteLoadProducer \/ WriteLoadConsumer \/ WriteCopy \/ WriteStore
Read == ReadLoadProducer \/ ReadLoadConsumer \/ ReadCopy \/ ReadStore

ChannelNext == Write \/ Read \/ shutdown \/ WriterRestarts \/ ReaderRestarts

ChannelSpec == ChannelInit /\ [][ChannelNext]_channel_vars

\* The reader is polled for ever, and a reader process does not end in every
\* call: each of its steps that can be taken again and again is taken.  Nothing
\* is assumed of the writer.
ChannelFairness ==
  /\ WF_channel_vars(ReadLoadProducer)
  /\ SF_channel_vars(ReadLoadConsumer)
  /\ \A k \in 1..Words : SF_channel_vars(ReadCopy /\ reader.k = k)
  /\ SF_channel_vars(ReadStore)

ChannelFairSpec == ChannelSpec /\ ChannelFairness

-----------------------------------------------------------------------------
(* Properties                                                              *)

ChannelTypeOK ==
  /\ producer_seq \in Seqs /\ consumer_seq \in Seqs /\ shutdown_flag \in BOOLEAN
  /\ slots \in [Slots -> [1..Words -> Word]]
  /\ writer \in [at : {"idle", "loaded", "copy", "store"}, p : Seqs, c : Seqs,
                 k : 1..Words, buf : [1..Words -> Word]]
  /\ reader \in [at : {"idle", "loaded", "copy", "store"}, p : Seqs, c : Seqs,
                 k : 1..Words, buf : [1..Words -> Word]]
  /\ written \in 0..MaxSent
  /\ received \in Seq([1..Words -> Word])

\* Frames announced and not yet taken back, by the counters of the header.
Unread == wrapping_sub(producer_seq, consumer_seq)

\* The queue a reader of the header and the slots would see.
Queue == [i \in 1..Unread |-> slots[Index(wrapping_add(consumer_seq, i - 1))]]

Ring == INSTANCE Fifo WITH Capacity <- max_frames, queue <- Queue

\* The ring implements a bounded first-in first-out queue of whole frames,
\* whatever the two processes interleave and wherever one of them ends: no frame
\* is torn, lost, read twice or reordered, and a slot is not reused before it is
\* read (SpscWriter::write, SpscReader::read).
IsFifo == Ring!Spec

\* A frame that waits is read, unless the producer counter has wrapped past the
\* consumer's: SpscReader::read then takes the ring for empty.
WaitingFrameIsRead ==
  \A n \in 1..MaxSent :
    (written >= n) ~> (Len(received) >= n \/ producer_seq < consumer_seq)
=============================================================================
