------------------------------- MODULE SpscRing -------------------------------
(***************************************************************************)
(* The lock-free rings between one producing and one consuming thread:     *)
(* PcmRingBuffer.h (rendered frames, engine to audio device) and           *)
(* MidiSpscRing in MidiByteQueue.h (MIDI bytes and packets).  Each side    *)
(* owns one position and only reads the other's.  A call loads both        *)
(* positions, then touches its slots one by one, then stores its position; *)
(* the two threads, and a monitor that estimates the fill, interleave      *)
(* between any two of those accesses.                                      *)
(*                                                                         *)
(* A frame is identified by the number of frames accepted before it.       *)
(* Positions count up from zero and are 64 bits wide: they do not wrap in  *)
(* the life of a process, so they are natural numbers here.  Last bounds   *)
(* them for TLC.  Overrun and underrun totals are telemetry and left out.  *)
(***************************************************************************)
EXTENDS Integers, Sequences

CONSTANTS
  Capacity,   \* the number of slots; a power of two, so the mask is a modulus
  Spans,      \* the lengths of the spans the callers pass
  Last,       \* bound: no frame from this number on is offered
  Blank       \* what a slot holds before it is first written

ASSUME RingAssumption ==
  /\ Capacity \in Nat \ {0}
  /\ Spans \subseteq Nat \ {0}
  /\ Last \in Nat
  /\ Blank \notin Nat

VARIABLES
  slots, writePosition, readPosition,
  putAt, putEnd,     \* producer: next position to store, end of what it accepted
  takeAt, takeEnd,   \* consumer: next position to copy, end of what it takes
  got, out,          \* frames copied by the call in progress; by the last one done
  sampled, fill      \* monitor: the write position it loaded; what it reported

positions == <<writePosition, readPosition>>
producer  == <<putAt, putEnd>>
consumer  == <<takeAt, takeEnd, got, out>>
monitor   == <<sampled, fill>>
vars == <<slots, positions, producer, consumer, monitor>>

NotSampled == -1
Slot(p) == p % Capacity
Least(m, n) == IF m <= n THEN m ELSE n
Used == writePosition - readPosition

\* Seeded fault: a full ring is taken to have one slot left.
RoomOneTooMany == Capacity - Used + 1

Room == Capacity - Used

Init ==
  /\ slots = [i \in 0..Capacity - 1 |-> Blank]
  /\ writePosition = 0 /\ readPosition = 0
  /\ putAt = 0 /\ putEnd = 0
  /\ takeAt = 0 /\ takeEnd = 0 /\ got = <<>> /\ out = <<>>
  /\ sampled = NotSampled /\ fill = 0

-----------------------------------------------------------------------------
(* The producer. *)

ProducerIdle == putEnd = writePosition

Accept(n) ==
  /\ n > 0
  /\ writePosition + n <= Last
  /\ putAt' = writePosition
  /\ putEnd' = writePosition + n
  /\ UNCHANGED <<slots, positions, consumer, monitor>>

\* Write and WriteInterleaved keep what fits and reject the rest of the span.
Write(n) == ProducerIdle /\ Accept(Least(n, Room))

\* PushBatch and PushGenerated take the whole span or nothing.
PushBatch(n) == ProducerIdle /\ n <= Room /\ Accept(n)

WriteSlot ==
  /\ putAt < putEnd
  /\ slots' = [slots EXCEPT ![Slot(putAt)] = putAt]
  /\ putAt' = putAt + 1
  /\ UNCHANGED <<positions, putEnd, consumer, monitor>>

\* Seeded fault: the write position is stored before the last frame is.
PublishEarly ==
  /\ ~ProducerIdle
  /\ putAt >= putEnd - 1
  /\ writePosition' = putEnd
  /\ UNCHANGED <<slots, readPosition, producer, consumer, monitor>>

Publish ==
  /\ ~ProducerIdle
  /\ putAt = putEnd
  /\ writePosition' = putEnd
  /\ UNCHANGED <<slots, readPosition, producer, consumer, monitor>>

-----------------------------------------------------------------------------
(* The consumer. *)

ConsumerIdle == takeEnd = readPosition

\* Read copies what there is, up to the span; TryPop is Read of one.
Read(n) ==
  /\ ConsumerIdle
  /\ Used > 0
  /\ takeAt' = readPosition
  /\ takeEnd' = readPosition + Least(n, Used)
  /\ got' = <<>>
  /\ UNCHANGED <<slots, positions, producer, out, monitor>>

CopySlot ==
  /\ takeAt < takeEnd
  /\ got' = Append(got, slots[Slot(takeAt)])
  /\ takeAt' = takeAt + 1
  /\ UNCHANGED <<slots, positions, producer, takeEnd, out, monitor>>

\* DiscardConsumer: everything published when it looked is skipped unread.
DiscardConsumer ==
  /\ ConsumerIdle
  /\ Used > 0
  /\ takeAt' = writePosition
  /\ takeEnd' = writePosition
  /\ got' = <<>>
  /\ UNCHANGED <<slots, positions, producer, out, monitor>>

Release ==
  /\ ~ConsumerIdle
  /\ takeAt = takeEnd
  /\ readPosition' = takeEnd
  /\ out' = got
  /\ UNCHANGED <<slots, writePosition, producer, takeAt, takeEnd, got, monitor>>

-----------------------------------------------------------------------------
(* FillFrames and Size, on any thread: two loads, with anything between.   *)

SampleWrite ==
  /\ sampled = NotSampled
  /\ sampled' = writePosition
  /\ UNCHANGED <<slots, positions, producer, consumer, fill>>

\* Seeded fault: the difference of a crossed snapshot wraps into the range.
SampleReadWrapped ==
  /\ sampled # NotSampled
  /\ fill' = (sampled - readPosition) % (Capacity + 1)
  /\ sampled' = NotSampled
  /\ UNCHANGED <<slots, positions, producer, consumer>>

\* A read position beyond the sampled write position is a crossed snapshot.
SampleRead ==
  /\ sampled # NotSampled
  /\ fill' = IF sampled - readPosition \in 0..Capacity
             THEN sampled - readPosition ELSE 0
  /\ sampled' = NotSampled
  /\ UNCHANGED <<slots, positions, producer, consumer>>

-----------------------------------------------------------------------------
Next ==
  \/ \E n \in Spans : Write(n) \/ PushBatch(n) \/ Read(n)
  \/ WriteSlot \/ Publish
  \/ CopySlot \/ Release \/ DiscardConsumer
  \/ SampleWrite \/ SampleRead

Spec == Init /\ [][Next]_vars

-----------------------------------------------------------------------------
(* Properties. *)

\* The threads share no slot: one that the producer may be storing into is
\* never one that the consumer may be copying from, whichever spans the two
\* calls (Write or PushBatch, Read or TryPop) are in the middle of.
NoSlotIsShared ==
  \A p \in putAt..putEnd - 1, c \in takeAt..takeEnd - 1 : Slot(p) # Slot(c)

\* The frames in the ring, and those a Read hands out, are exactly the accepted
\* ones in their order: the ring is the bounded queue of FrameFifo, a Write
\* taking effect when its position is stored and a Read likewise.
Fifo == INSTANCE FrameFifo WITH
  queue     <- [i \in 1..Used |-> slots[Slot(readPosition + i - 1)]],
  accepted  <- writePosition,
  delivered <- out

ImplementsFifo == Fifo!Spec

\* FillFrames never reports more frames than the ring holds when it returns,
\* even when a Write and a Read complete between its two loads.
FillNeverOverstated == [][fill' # fill => fill' <= Used]_vars
=============================================================================
