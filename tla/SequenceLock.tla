----------------------------- MODULE SequenceLock -----------------------------
(***************************************************************************)
(* TransportSnapshotPublication.h and AtomicTelemetrySnapshot.h: one       *)
(* writer publishes a snapshot of several words, any number of readers     *)
(* capture it without a lock.  The sequence is odd while words are being   *)
(* stored; a reader that meets an odd or a changed sequence starts again.  *)
(*                                                                         *)
(* Publication k stores k into every word.  The word accesses are relaxed, *)
(* so they take place in any order between the fences; the fences keep     *)
(* them between the accesses to the sequence.  The sequence is a counter   *)
(* of finite width: it takes 2 * Wrap values (Wrap is 2^31 in the code),   *)
(* and, as the header says, one Capture must not span Wrap publications.   *)
(***************************************************************************)
EXTENDS Naturals

CONSTANTS
  Words, Readers,
  Idle,           \* not a sequence: no Capture is under way
  Wrap,           \* how many publications it takes the sequence to come round
  MaxPublished    \* bound: how many publications are made

ASSUME SequenceAssumption ==
  /\ Idle \notin Nat
  /\ Wrap \in Nat \ {0}
  /\ MaxPublished \in Nat

VARIABLES
  sequence, payload,
  published,      \* how many publications are complete
  toStore,        \* the words the Publish under way has still to store
  before,         \* by reader: the sequence it started from, or Idle
  copy, toLoad,   \* by reader: the words it copied, the words still to copy
  captured,       \* by reader: what its last Capture returned, word by word
  spanned         \* by reader: publications made since it started

writer == <<sequence, payload, published, toStore>>
reader == <<before, copy, toLoad, captured>>
lockVars == <<writer, reader, spanned>>

Unwritten == [w \in Words |-> 0]
IsOdd(s) == s % 2 = 1

Advance(s) == (s + 1) % (2 * Wrap)
Writing == IsOdd(sequence)

LockInit ==
  /\ sequence = 0 /\ payload = Unwritten /\ published = 0 /\ toStore = {}
  /\ before = [r \in Readers |-> Idle]
  /\ copy = [r \in Readers |-> Unwritten]
  /\ toLoad = [r \in Readers |-> {}]
  /\ captured = [r \in Readers |-> Unwritten]
  /\ spanned = [r \in Readers |-> 0]

-----------------------------------------------------------------------------
(* Publish; the callers serialize it with the mixer's mutex. *)

BeginPublish ==
  /\ ~Writing
  /\ published < MaxPublished
  /\ \A r \in Readers : before[r] # Idle => spanned[r] + 1 < Wrap
  /\ sequence' = Advance(sequence)
  /\ toStore' = Words
  /\ UNCHANGED <<payload, published, reader, spanned>>

StoreWord(w) ==
  /\ w \in toStore
  /\ payload' = [payload EXCEPT ![w] = published + 1]
  /\ toStore' = toStore \ {w}
  /\ UNCHANGED <<sequence, published, reader, spanned>>

EndPublish ==
  /\ Writing
  /\ toStore = {}
  /\ sequence' = Advance(sequence)
  /\ published' = published + 1
  /\ spanned' = [r \in Readers |-> IF before[r] = Idle THEN 0 ELSE spanned[r] + 1]
  /\ UNCHANGED <<payload, toStore, reader>>

-----------------------------------------------------------------------------
(* Capture. *)

\* A reader that finds the sequence odd just looks again.
BeginCapture(r) ==
  /\ before[r] = Idle
  /\ ~Writing
  /\ before' = [before EXCEPT ![r] = sequence]
  /\ toLoad' = [toLoad EXCEPT ![r] = Words]
  /\ spanned' = [spanned EXCEPT ![r] = 0]
  /\ UNCHANGED <<writer, copy, captured>>

LoadWord(r, w) ==
  /\ w \in toLoad[r]
  /\ copy' = [copy EXCEPT ![r][w] = payload[w]]
  /\ toLoad' = [toLoad EXCEPT ![r] = @ \ {w}]
  /\ UNCHANGED <<writer, before, captured, spanned>>

\* Seeded fault: a changed sequence is accepted if it is even.
EndCaptureUnchecked(r) ==
  /\ before[r] # Idle
  /\ toLoad[r] = {}
  /\ captured' = IF ~Writing THEN [captured EXCEPT ![r] = copy[r]] ELSE captured
  /\ before' = [before EXCEPT ![r] = Idle]
  /\ UNCHANGED <<writer, copy, toLoad, spanned>>

\* Seeded fault: a copy that failed is compared with its first sequence for ever.
EndCaptureStuck(r) ==
  /\ before[r] # Idle
  /\ toLoad[r] = {}
  /\ before[r] = sequence
  /\ captured' = [captured EXCEPT ![r] = copy[r]]
  /\ before' = [before EXCEPT ![r] = Idle]
  /\ UNCHANGED <<writer, copy, toLoad, spanned>>

\* The second look at the sequence: return the copy, or start again.
EndCapture(r) ==
  /\ before[r] # Idle
  /\ toLoad[r] = {}
  /\ captured' = IF before[r] = sequence
                 THEN [captured EXCEPT ![r] = copy[r]] ELSE captured
  /\ before' = [before EXCEPT ![r] = Idle]
  /\ UNCHANGED <<writer, copy, toLoad, spanned>>

-----------------------------------------------------------------------------
Publishing == BeginPublish \/ (\E w \in Words : StoreWord(w)) \/ EndPublish
Capturing(r) ==
  BeginCapture(r) \/ (\E w \in Words : LoadWord(r, w)) \/ EndCapture(r)

LockNext == Publishing \/ \E r \in Readers : Capturing(r)

\* A Publish is a fixed amount of work under the mutex, and the pages capture
\* again on every tick.
Fairness ==
  /\ WF_lockVars((\E w \in Words : StoreWord(w)) \/ EndPublish)
  /\ \A r \in Readers : WF_lockVars(Capturing(r))

LockSpec == LockInit /\ [][LockNext]_lockVars /\ Fairness

-----------------------------------------------------------------------------
(* Properties. *)

TypeOK ==
  /\ sequence \in 0..2 * Wrap - 1
  /\ payload \in [Words -> Nat]
  /\ published \in Nat
  /\ toStore \subseteq Words
  /\ before \in [Readers -> Nat \cup {Idle}]
  /\ copy \in [Readers -> [Words -> Nat]]
  /\ toLoad \in [Readers -> SUBSET Words]
  /\ captured \in [Readers -> [Words -> Nat]]
  /\ spanned \in [Readers -> Nat]

\* No capture is torn or out of date: whatever the interleaving of the word
\* accesses of Publish with those of every Capture, an accepted copy is one whole
\* publication, the latest that is complete when the sequence is looked at again.
Register == INSTANCE AtomicRegister WITH value <- published

IsAtomicRegister == Register!Init /\ [][Register!Next]_<<published, captured>>

\* The final publication reaches every reader: once the writer stops, a capture
\* that keeps starting again in the meantime returns what was published last
\* (tests/player_transport_snapshot_tests.cpp: "never tears or drops its final
\* frame").
FinalFrameArrives ==
  \A r \in Readers : []<>(captured[r] = [w \in Words |-> published])
=============================================================================
