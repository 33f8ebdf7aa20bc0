--------------------------- MODULE MidiPacketQueue ---------------------------
(***************************************************************************)
(* The MIDI output queue of the browser build (MidiPacketQueue in          *)
(* MidiByteQueue.h): the application thread pushes encoded messages, the   *)
(* browser's main thread drains them (QueuedMidiService::DrainOutput).     *)
(* Notes and controllers go through one ring, real-time bytes (clock,      *)
(* start, stop) through another, so that a flood of notes cannot crowd out *)
(* the clock; a sequence number given at the push restores the order.      *)
(*                                                                         *)
(* Each lane is the queue that SpscRing is shown to implement, so a push   *)
(* to a lane, a peek and a pop are single steps.  TryPop is not: it peeks  *)
(* at one lane and then at the other.  A packet is its sequence number.    *)
(***************************************************************************)
EXTENDS Naturals, Sequences

CONSTANTS
  NormalCapacity, RealtimeCapacity,
  MaxPackets      \* bound: how many packets are pushed

VARIABLES
  normal, realtime,   \* the lanes, oldest first
  nextSequence,       \* the producer's next sequence number
  seen,               \* "idle", or what the TryPop under way saw of normal_
  drained             \* the packets handed to the browser, in order

vars == <<normal, realtime, nextSequence, seen, drained>>

Init ==
  /\ normal = <<>> /\ realtime = <<>>
  /\ nextSequence = 0
  /\ seen = "idle"
  /\ drained = <<>>

Offered(lane, capacity) ==
  IF Len(lane) < capacity THEN Append(lane, nextSequence) ELSE lane

\* A number is spent even on a packet that its lane has no room for.
PushNormal ==
  /\ nextSequence < MaxPackets
  /\ normal' = Offered(normal, NormalCapacity)
  /\ nextSequence' = nextSequence + 1
  /\ UNCHANGED <<realtime, seen, drained>>

PushRealtime ==
  /\ nextSequence < MaxPackets
  /\ realtime' = Offered(realtime, RealtimeCapacity)
  /\ nextSequence' = nextSequence + 1
  /\ UNCHANGED <<normal, seen, drained>>

PeekNormal ==
  /\ seen = "idle"
  /\ seen' = IF normal = <<>> THEN "empty" ELSE "packet"
  /\ UNCHANGED <<normal, realtime, nextSequence, drained>>

\* The second peek, the choice between the lanes and the pop of the chosen one.
PeekRealtimeAndPop ==
  /\ seen # "idle"
  /\ seen' = "idle"
  /\ UNCHANGED nextSequence
  /\ \/ /\ seen = "packet"
        /\ realtime # <<>> => Head(normal) < Head(realtime)
        /\ drained' = Append(drained, Head(normal))
        /\ normal' = Tail(normal)
        /\ UNCHANGED realtime
     \/ /\ realtime # <<>>
        /\ seen = "packet" => Head(realtime) < Head(normal)
        /\ drained' = Append(drained, Head(realtime))
        /\ realtime' = Tail(realtime)
        /\ UNCHANGED normal
     \/ /\ seen = "empty" /\ realtime = <<>>
        /\ UNCHANGED <<normal, realtime, drained>>

\* Disconnect(DisconnectOutput), on the draining thread: normal_ then realtime_.
DiscardConsumer ==
  /\ seen = "idle"
  /\ normal' = <<>> /\ realtime' = <<>>
  /\ UNCHANGED <<nextSequence, seen, drained>>

Next ==
  \/ PushNormal \/ PushRealtime
  \/ PeekNormal \/ PeekRealtimeAndPop
  \/ DiscardConsumer

Spec == Init /\ [][Next]_vars

-----------------------------------------------------------------------------
\* Packets reach the browser in the order in which they were pushed: tests/
\* wasm_midi_tests.cpp:138-139 says that the packet queue "reserves realtime
\* capacity and drains by sequence".  A note and a clock pushed between the two
\* peeks come out clock first.
DrainsBySequence ==
  \A i, j \in 1..Len(drained) : i < j => drained[i] < drained[j]
=============================================================================
