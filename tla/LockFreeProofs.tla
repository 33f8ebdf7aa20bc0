---------------------------- MODULE LockFreeProofs ----------------------------
(***************************************************************************)
(* Theorems about the two structures through which threads exchange data   *)
(* without a lock, for every value of their constants.                     *)
(*                                                                         *)
(* SequenceLock (LockSpec): the sequence is twice the number of            *)
(* publications, plus one while a publication is under way, modulo its     *)
(* width; a capture started spanned publications ago, and as long as that  *)
(* is less than the width, meeting the same sequence again means that no   *)
(* word was stored in between.                                             *)
(*                                                                         *)
(* SpscRing (Spec): the positions are always in the order                  *)
(*                                                                         *)
(*   readPosition <= takeAt <= takeEnd <= writePosition                    *)
(*                <= putAt <= putEnd <= readPosition + Capacity            *)
(*                                                                         *)
(* although each thread works with an old copy of the other's position:    *)
(* while it does, the other can only move away from it.                    *)
(*                                                                         *)
(* Both compare numbers modulo a width, and rest on the same lemmas about  *)
(* remainders.                                                             *)
(***************************************************************************)
EXTENDS SpscRing, SequenceLock, TLAPS

-----------------------------------------------------------------------------
(* Remainders. *)

\* Division with remainder, which the prover knows of div and mod.
LEMMA Division ==
  ASSUME NEW m \in Nat \ {0}, NEW a \in Nat
  PROVE  /\ a % m \in 0..m - 1
         /\ a \div m \in Nat
         /\ a = m * (a \div m) + (a % m)
  OBVIOUS

\* Numbers less than m apart have different remainders.
LEMMA CloseRemaindersDiffer ==
  ASSUME NEW m \in Nat \ {0}, NEW a \in Nat, NEW b \in Nat,
         a < b, b - a < m
  PROVE  a % m # b % m
  <1> SUFFICES ASSUME a % m = b % m PROVE FALSE
    OBVIOUS
  <1>1. PICK x \in Nat, y \in Nat : a = m * x + (a % m) /\ b = m * y + (b % m)
    BY Division
  <1>2. a % m \in Nat /\ b % m \in Nat
    BY Division
  <1>3. m * (y - x) = b - a
    BY <1>1, <1>2
  <1>4. CASE y > x
    <2>1. m * (y - x) >= m
      BY <1>4
    <2> QED BY <1>3, <2>1
  <1>5. CASE y <= x
    <2>1. m * (y - x) <= 0
      BY <1>5
    <2> QED BY <1>3, <2>1
  <1> QED BY <1>4, <1>5

\* Quotient and remainder are unique.
LEMMA RemainderUnique ==
  ASSUME NEW m \in Nat \ {0}, NEW q \in Nat, NEW r \in 0..m - 1
  PROVE  (m * q + r) % m = r
  OBVIOUS

\* A counter that is kept modulo m counts modulo m.
LEMMA NextRemainder ==
  ASSUME NEW m \in Nat \ {0}, NEW n \in Nat
  PROVE  ((n % m) + 1) % m = (n + 1) % m
  <1> DEFINE q == n \div m
             r == n % m
  <1>1. q \in Nat /\ r \in 0..m - 1 /\ n = m * q + r
    BY Division
  <1> HIDE DEF q, r
  <1>2. CASE r + 1 < m
    <2>1. (m * q + (r + 1)) % m = r + 1
      BY <1>1, <1>2, RemainderUnique
    <2>2. (m * 0 + (r + 1)) % m = r + 1
      BY <1>1, <1>2, RemainderUnique
    <2>3. n + 1 = m * q + (r + 1) /\ m * 0 + (r + 1) = r + 1
      BY <1>1
    <2> QED BY <2>1, <2>2, <2>3 DEF r
  <1>3. CASE r + 1 = m
    <2>1. (m * (q + 1) + 0) % m = 0
      BY <1>1, RemainderUnique
    <2>2. (m * 1 + 0) % m = 0
      BY RemainderUnique
    <2>3. n + 1 = m * (q + 1) + 0 /\ m * 1 + 0 = r + 1
      BY <1>1, <1>3
    <2> QED BY <2>1, <2>2, <2>3 DEF r
  <1> QED BY <1>1, <1>2, <1>3

\* Taking the remainder by an even number keeps the parity.
LEMMA ParityKept ==
  ASSUME NEW w \in Nat \ {0}, NEW k \in Nat, NEW b \in {0, 1}
  PROVE  ((2 * k + b) % (2 * w)) % 2 = b
  <1> DEFINE q == (2 * k + b) \div (2 * w)
             r == (2 * k + b) % (2 * w)
  <1>1. q \in Nat /\ r \in 0..(2 * w) - 1 /\ 2 * k + b = (2 * w) * q + r
    <2>1. 2 * w \in Nat \ {0} /\ 2 * k + b \in Nat
      OBVIOUS
    <2> QED BY <2>1, Division
  <1> HIDE DEF q, r
  <1> DEFINE h == k - w * q
  <1>2. w * q \in Int /\ (2 * w) * q = 2 * (w * q)
    BY <1>1
  <1>3. h \in Int /\ r = 2 * h + b
    BY <1>1, <1>2
  <1>4. h \in Nat
    BY <1>1, <1>3
  <1> HIDE DEF h
  <1>5. (2 * h + b) % 2 = b
    BY <1>4, RemainderUnique
  <1> QED BY <1>3, <1>5 DEF r

-----------------------------------------------------------------------------
(***************************************************************************)
(* The sequence lock.                                                      *)
(***************************************************************************)
USE SequenceAssumption

InProgress == IF Writing THEN 1 ELSE 0

\* The sequence counts the publications.
SequenceCounts == sequence = (2 * published + InProgress) % (2 * Wrap)

\* The words are those of the last publication, or some are of the next.
PayloadCurrent ==
  /\ ~Writing => toStore = {} /\ \A w \in Words : payload[w] = published
  /\ Writing => \A w \in Words \ toStore : payload[w] = published + 1

\* What a capture under way started from, and what its copy is worth.
CaptureSound(r) ==
  /\ spanned[r] <= published
  /\ spanned[r] + InProgress < Wrap
  /\ before[r] = (2 * (published - spanned[r])) % (2 * Wrap)
  /\ spanned[r] = 0 /\ ~Writing =>
       \A w \in Words \ toLoad[r] : copy[r][w] = published

CapturesSound == \A r \in Readers : before[r] # Idle => CaptureSound(r)

LockInv == TypeOK /\ SequenceCounts /\ PayloadCurrent /\ CapturesSound

-----------------------------------------------------------------------------
(* The sequence. *)

\* Stepping the sequence, in terms of the number it stands for.
LEMMA AdvanceCounts ==
  ASSUME NEW n \in Nat
  PROVE  Advance(n % (2 * Wrap)) = (n + 1) % (2 * Wrap)
  <1>1. 2 * Wrap \in Nat \ {0}
    OBVIOUS
  <1> QED BY <1>1, NextRemainder DEF Advance

\* A sequence is a number of its width, odd exactly when what it counts is.
LEMMA SequenceOfCount ==
  ASSUME NEW k \in Nat, NEW b \in {0, 1}
  PROVE  /\ (2 * k + b) % (2 * Wrap) \in 0..2 * Wrap - 1
         /\ IsOdd((2 * k + b) % (2 * Wrap)) <=> b = 1
  <1>1. 2 * Wrap \in Nat \ {0} /\ 2 * k + b \in Nat
    OBVIOUS
  <1>2. (2 * k + b) % (2 * Wrap) \in 0..2 * Wrap - 1
    BY <1>1, Division
  <1>3. ((2 * k + b) % (2 * Wrap)) % 2 = b
    BY ParityKept
  <1> QED BY <1>2, <1>3 DEF IsOdd

\* Meeting the same sequence again means that nothing was published.
LEMMA SameSequence ==
  ASSUME NEW p \in Nat, NEW s \in Nat, NEW b \in {0, 1},
         s <= p, s + b < Wrap,
         (2 * (p - s)) % (2 * Wrap) = (2 * p + b) % (2 * Wrap)
  PROVE  s = 0 /\ b = 0
  <1>1. p - s \in Nat /\ 2 * (p - s) + 0 = 2 * (p - s)
    OBVIOUS
  <1>2. ~IsOdd((2 * (p - s)) % (2 * Wrap))
    <2>1. IsOdd((2 * (p - s) + 0) % (2 * Wrap)) <=> FALSE
      BY <1>1, SequenceOfCount
    <2> QED BY <1>1, <2>1
  <1>3. b = 0
    BY <1>2, SequenceOfCount
  <1>4. CASE s > 0
    <2>1. /\ 2 * Wrap \in Nat \ {0} /\ 2 * (p - s) \in Nat /\ 2 * p \in Nat
          /\ 2 * (p - s) < 2 * p /\ 2 * p - 2 * (p - s) < 2 * Wrap
      BY <1>1, <1>4
    <2>2. (2 * (p - s)) % (2 * Wrap) # (2 * p) % (2 * Wrap)
      BY <2>1, CloseRemaindersDiffer
    <2> QED BY <1>3, <2>2
  <1> QED BY <1>3, <1>4

-----------------------------------------------------------------------------
(* The invariant. *)

\* Nothing is published and nothing under way.
LEMMA InitLock == LockInit => LockInv
  <1> SUFFICES ASSUME LockInit
               PROVE  LockInv
    OBVIOUS
  <1>1. sequence = (2 * 0 + 0) % (2 * Wrap)
    <2>1. ((2 * Wrap) * 0 + 0) % (2 * Wrap) = 0
      BY RemainderUnique
    <2> QED BY <2>1 DEF LockInit
  <1>2. sequence \in 0..2 * Wrap - 1 /\ ~Writing
    BY <1>1, SequenceOfCount DEF Writing
  <1>3. SequenceCounts
    BY <1>1, <1>2 DEF SequenceCounts, InProgress, LockInit
  <1>4. TypeOK
    BY <1>2 DEF TypeOK, LockInit, Unwritten
  <1>5. PayloadCurrent /\ CapturesSound
    BY <1>2 DEF PayloadCurrent, CapturesSound, LockInit, Unwritten
  <1> QED BY <1>3, <1>4, <1>5 DEF LockInv

\* A publication may only begin while every capture can still tell.
LEMMA BeginPublishLock ==
  ASSUME LockInv, BeginPublish
  PROVE  LockInv'
  <1> USE DEF BeginPublish, reader
  <1>1. published \in Nat /\ sequence = (2 * published + 0) % (2 * Wrap)
    BY DEF LockInv, TypeOK, SequenceCounts, InProgress
  <1>2. sequence' = (2 * published + 1) % (2 * Wrap)
    <2>1. Advance((2 * published + 0) % (2 * Wrap)) = (2 * published + 0 + 1) % (2 * Wrap)
      <3>1. 2 * published + 0 \in Nat
        BY <1>1
      <3> QED BY <3>1, AdvanceCounts
    <2> QED BY <1>1, <2>1
  <1>3. sequence' \in 0..2 * Wrap - 1 /\ IsOdd(sequence')
    BY <1>1, <1>2, SequenceOfCount
  <1>4. Writing' /\ InProgress' = 1
    BY <1>3 DEF Writing, InProgress, IsOdd
  <1>5. SequenceCounts'
    BY <1>1, <1>2, <1>4 DEF SequenceCounts
  <1>6. TypeOK' /\ PayloadCurrent'
    BY <1>3, <1>4 DEF LockInv, TypeOK, PayloadCurrent
  <1>7. CapturesSound'
    BY <1>4 DEF LockInv, TypeOK, CapturesSound, CaptureSound
  <1> QED BY <1>5, <1>6, <1>7 DEF LockInv

\* A word stored while the sequence is odd.
LEMMA StoreWordLock ==
  ASSUME LockInv, NEW w \in Words, StoreWord(w)
  PROVE  LockInv'
  <1> USE DEF StoreWord, reader
  <1>1. Writing /\ Writing' /\ InProgress = 1 /\ InProgress' = 1
    BY DEF LockInv, PayloadCurrent, Writing, InProgress, IsOdd
  <1>2. SequenceCounts'
    BY <1>1 DEF LockInv, SequenceCounts
  <1>3. TypeOK' /\ PayloadCurrent'
    BY <1>1 DEF LockInv, TypeOK, PayloadCurrent
  <1>4. CapturesSound'
    BY <1>1 DEF LockInv, TypeOK, CapturesSound, CaptureSound
  <1> QED BY <1>2, <1>3, <1>4 DEF LockInv

\* Once complete, the publication is in every word, and every capture under way
\* is one publication further behind.
LEMMA EndPublishLock ==
  ASSUME LockInv, EndPublish
  PROVE  LockInv'
  <1> USE DEF EndPublish, reader
  <1>1. published \in Nat /\ sequence = (2 * published + 1) % (2 * Wrap)
    BY DEF LockInv, TypeOK, SequenceCounts, InProgress
  <1>2. sequence' = (2 * (published + 1) + 0) % (2 * Wrap)
    <2>1. Advance((2 * published + 1) % (2 * Wrap)) = (2 * published + 1 + 1) % (2 * Wrap)
      <3>1. 2 * published + 1 \in Nat
        BY <1>1
      <3> QED BY <3>1, AdvanceCounts
    <2>2. 2 * published + 1 + 1 = 2 * (published + 1) + 0
      BY <1>1
    <2> QED BY <1>1, <2>1, <2>2
  <1>3. sequence' \in 0..2 * Wrap - 1 /\ ~IsOdd(sequence')
    <2>1. published + 1 \in Nat
      BY <1>1
    <2> QED BY <1>2, <2>1, SequenceOfCount
  <1>4. ~Writing' /\ InProgress' = 0 /\ InProgress = 1
    BY <1>3 DEF Writing, InProgress, IsOdd
  <1>5. SequenceCounts'
    BY <1>1, <1>2, <1>4 DEF SequenceCounts
  <1>6. TypeOK' /\ PayloadCurrent'
    BY <1>3, <1>4 DEF LockInv, TypeOK, PayloadCurrent
  <1>7. CapturesSound'
    <2> SUFFICES ASSUME NEW r \in Readers, before[r] # Idle
                 PROVE  CaptureSound(r)'
      BY DEF CapturesSound
    <2>1. CaptureSound(r) /\ spanned'[r] = spanned[r] + 1 /\ spanned[r] \in Nat
      BY DEF LockInv, TypeOK, CapturesSound
    <2>2. published' - spanned'[r] = published - spanned[r]
      BY <1>1, <2>1
    <2> QED BY <1>1, <1>4, <2>1, <2>2 DEF CaptureSound
  <1> QED BY <1>5, <1>6, <1>7 DEF LockInv

\* A capture starts from an even sequence.
LEMMA BeginCaptureLock ==
  ASSUME LockInv, NEW r \in Readers, BeginCapture(r)
  PROVE  LockInv'
  <1> USE DEF BeginCapture, writer
  <1>1. Writing' = Writing /\ ~Writing /\ InProgress = 0 /\ InProgress' = 0
    BY DEF Writing, InProgress, IsOdd
  <1>2. SequenceCounts' /\ PayloadCurrent'
    BY <1>1 DEF LockInv, SequenceCounts, PayloadCurrent
  <1>3. TypeOK'
    BY DEF LockInv, TypeOK
  <1>4. sequence = (2 * published) % (2 * Wrap)
    BY <1>1 DEF LockInv, TypeOK, SequenceCounts
  <1>5. CapturesSound'
    <2> SUFFICES ASSUME NEW s \in Readers, before'[s] # Idle
                 PROVE  CaptureSound(s)'
      BY DEF CapturesSound
    <2>1. CASE s = r
      BY <1>1, <1>4, <2>1 DEF LockInv, TypeOK, CaptureSound
    <2>2. CASE s # r
      BY <1>1, <2>2 DEF LockInv, TypeOK, CapturesSound, CaptureSound
    <2> QED BY <2>1, <2>2
  <1> QED BY <1>2, <1>3, <1>5 DEF LockInv

\* A word copied while nothing has been published since the capture started is a
\* word of the current publication.
LEMMA LoadWordLock ==
  ASSUME LockInv, NEW r \in Readers, NEW w \in Words, LoadWord(r, w)
  PROVE  LockInv'
  <1> USE DEF LoadWord, writer
  <1>1. Writing' = Writing /\ InProgress' = InProgress
    BY DEF Writing, InProgress, IsOdd
  <1>2. SequenceCounts' /\ PayloadCurrent'
    BY <1>1 DEF LockInv, SequenceCounts, PayloadCurrent
  <1>3. TypeOK'
    BY DEF LockInv, TypeOK
  <1>4. CapturesSound'
    <2> SUFFICES ASSUME NEW s \in Readers, before'[s] # Idle
                 PROVE  CaptureSound(s)'
      BY DEF CapturesSound
    <2>1. CaptureSound(s)
      BY DEF LockInv, CapturesSound
    <2>2. CASE s = r
      <3>1. ASSUME spanned[s] = 0, ~Writing, NEW v \in Words \ toLoad'[s]
            PROVE  copy'[s][v] = published
        BY <2>1, <2>2, <3>1 DEF LockInv, TypeOK, PayloadCurrent, CaptureSound
      <3> QED BY <1>1, <2>1, <3>1 DEF CaptureSound
    <2>3. CASE s # r
      BY <1>1, <2>1, <2>3 DEF LockInv, TypeOK, CaptureSound
    <2> QED BY <2>2, <2>3
  <1> QED BY <1>2, <1>3, <1>4 DEF LockInv

\* An accepted copy is the current publication, whole.
LEMMA AcceptedIsCurrent ==
  ASSUME LockInv, NEW r \in Readers, EndCapture(r), before[r] = sequence
  PROVE  copy[r] = [w \in Words |-> published]
  <1>1. CaptureSound(r) /\ toLoad[r] = {}
    BY DEF LockInv, CapturesSound, EndCapture
  <1>2. /\ published \in Nat /\ spanned[r] \in Nat /\ InProgress \in {0, 1}
        /\ copy[r] \in [Words -> Nat]
    BY DEF LockInv, TypeOK, InProgress
  <1>3. spanned[r] = 0 /\ InProgress = 0
    <2>1. /\ spanned[r] <= published /\ spanned[r] + InProgress < Wrap
          /\ (2 * (published - spanned[r])) % (2 * Wrap) =
                (2 * published + InProgress) % (2 * Wrap)
      BY <1>1 DEF CaptureSound, LockInv, SequenceCounts
    <2> QED BY <1>2, <2>1, SameSequence
  <1>4. \A w \in Words : copy[r][w] = published
    <2>1. ~Writing
      BY <1>3 DEF InProgress
    <2> QED BY <1>1, <1>3, <2>1 DEF CaptureSound
  <1> QED BY <1>2, <1>4

\* The second look ends the capture either way.
LEMMA EndCaptureLock ==
  ASSUME LockInv, NEW r \in Readers, EndCapture(r)
  PROVE  LockInv'
  <1> USE DEF EndCapture, writer
  <1>1. Writing' = Writing /\ InProgress' = InProgress
    BY DEF Writing, InProgress, IsOdd
  <1>2. SequenceCounts' /\ PayloadCurrent'
    BY <1>1 DEF LockInv, SequenceCounts, PayloadCurrent
  <1>3. TypeOK'
    BY DEF LockInv, TypeOK
  <1>4. CapturesSound'
    BY <1>1 DEF LockInv, TypeOK, CapturesSound, CaptureSound
  <1> QED BY <1>2, <1>3, <1>4 DEF LockInv

\* Every step of the writer and of every reader keeps the invariant.
LEMMA NextLock == LockInv /\ [LockNext]_lockVars => LockInv'
  <1> SUFFICES ASSUME LockInv, [LockNext]_lockVars
               PROVE  LockInv'
    OBVIOUS
  <1>1. CASE Publishing
    BY <1>1, BeginPublishLock, StoreWordLock, EndPublishLock DEF Publishing
  <1>2. ASSUME NEW r \in Readers, Capturing(r)
        PROVE  LockInv'
    BY <1>2, BeginCaptureLock, LoadWordLock, EndCaptureLock DEF Capturing
  <1>3. CASE UNCHANGED lockVars
    BY <1>3 DEF lockVars, writer, reader, LockInv, TypeOK, SequenceCounts,
                PayloadCurrent, CapturesSound, CaptureSound, Writing,
                InProgress, IsOdd
  <1> QED BY <1>1, <1>2, <1>3 DEF LockNext

\* The invariant holds throughout.
LEMMA LockInvariant == LockSpec => []LockInv
  BY InitLock, NextLock, PTL DEF LockSpec

\* The sequence keeps its width and every variable its type.
THEOREM TypeCorrect == LockSpec => []TypeOK
  <1>1. LockInv => TypeOK
    BY DEF LockInv
  <1> QED BY <1>1, LockInvariant, PTL

\* Publish and Capture act as a write and a read of one atomic register: no
\* capture is torn or stale, for every number of words and of readers and every
\* width of the sequence, as long as no capture spans that many publications.
THEOREM SnapshotIsAtomic == LockSpec => IsAtomicRegister
  <1>1. LockInit => Register!Init
    BY DEF LockInit, Unwritten, Register!Init, Register!Snapshot
  <1>2. LockInv /\ [LockNext]_lockVars => [Register!Next]_<<published, captured>>
    <2> SUFFICES ASSUME LockInv, [LockNext]_lockVars, ~UNCHANGED <<published, captured>>
                 PROVE  Register!Next
      OBVIOUS
    <2>1. CASE EndPublish
      BY <2>1 DEF EndPublish, reader, Register!Next, Register!Publish
    <2>2. ASSUME NEW r \in Readers, EndCapture(r)
          PROVE  Register!Next
      <3>1. before[r] = sequence /\ captured' = [captured EXCEPT ![r] = copy[r]]
        BY <2>2 DEF EndCapture, writer
      <3>2. copy[r] = [w \in Words |-> published]
        BY <2>2, <3>1, AcceptedIsCurrent
      <3>3. Register!Capture(r)
        BY <2>2, <3>1, <3>2
        DEF EndCapture, writer, Register!Capture, Register!Snapshot
      <3> QED BY <3>3 DEF Register!Next
    <2> QED
      BY <2>1, <2>2
      DEF LockNext, Publishing, Capturing, BeginPublish, StoreWord, BeginCapture,
          LoadWord, lockVars, writer, reader
  <1> QED BY <1>1, <1>2, LockInvariant, PTL DEF LockSpec, IsAtomicRegister

-----------------------------------------------------------------------------
(***************************************************************************)
(* The ring.                                                               *)
(***************************************************************************)
\* The frames from number a up to and without number b.
Run(a, b) == [i \in 1..(b - a) |-> a + i - 1]

PositionsOrdered ==
  /\ readPosition \in Nat /\ takeAt \in Nat /\ takeEnd \in Nat
  /\ writePosition \in Nat /\ putAt \in Nat /\ putEnd \in Nat
  /\ readPosition <= takeAt /\ takeAt <= takeEnd /\ takeEnd <= writePosition
  /\ writePosition <= putAt /\ putAt <= putEnd
  /\ putEnd <= readPosition + Capacity

\* Every frame stored and not yet released is where its position says.
FramesIntact ==
  /\ slots \in [0..Capacity - 1 -> Nat \cup {Blank}]
  /\ \A p \in readPosition..putAt - 1 : slots[Slot(p)] = p

\* What a call has copied so far; a flush copies nothing and skips to the end.
CopiedRun ==
  ConsumerIdle \/ got = Run(readPosition, takeAt)
               \/ (got = <<>> /\ takeAt = takeEnd)

SampleIsPast ==
  sampled = NotSampled \/ (sampled \in Nat /\ sampled <= writePosition)

RingInv == PositionsOrdered /\ FramesIntact /\ CopiedRun /\ SampleIsPast

HIDE SequenceAssumption
USE RingAssumption

-----------------------------------------------------------------------------
(* Slots. *)

\* A slot index is within the ring, and so many rounds from its position.
LEMMA SlotInRange ==
  ASSUME NEW p \in Nat
  PROVE  /\ Slot(p) \in 0..Capacity - 1
         /\ \E round \in Nat : p = Capacity * round + Slot(p)
  <1>1. p \div Capacity \in Nat /\ p = Capacity * (p \div Capacity) + (p % Capacity)
    OBVIOUS
  <1>2. p % Capacity \in 0..Capacity - 1
    OBVIOUS
  <1> QED BY <1>1, <1>2 DEF Slot

\* Different positions within one capacity have different slots.
LEMMA SlotsDiffer ==
  ASSUME NEW p \in Nat, NEW q \in Nat, p < q, q < p + Capacity
  PROVE  Slot(p) # Slot(q)
  <1>1. q - p < Capacity
    OBVIOUS
  <1>2. p % Capacity # q % Capacity
    BY ONLY <1>1, CloseRemaindersDiffer, RingAssumption, p \in Nat, q \in Nat, p < q
  <1> QED BY <1>2 DEF Slot

\* The order of the positions keeps the two threads apart.
LEMMA OrderedSharesNothing ==
  ASSUME PositionsOrdered
  PROVE  NoSlotIsShared
  <1> SUFFICES ASSUME NEW p \in putAt..putEnd - 1, NEW c \in takeAt..takeEnd - 1
               PROVE  Slot(p) # Slot(c)
    BY DEF NoSlotIsShared
  <1>1. p \in Nat /\ c \in Nat /\ c < p /\ p < c + Capacity
    BY DEF PositionsOrdered
  <1> QED BY <1>1, SlotsDiffer

-----------------------------------------------------------------------------
(* The invariant. *)

\* An empty ring is in order.
LEMMA InitRing == Init => RingInv
  BY DEF Init, RingInv, PositionsOrdered, FramesIntact, CopiedRun, SampleIsPast,
         ConsumerIdle, NotSampled

\* Accepting a span: what is accepted fits between the two positions.
LEMMA AcceptRing ==
  ASSUME RingInv, NEW n \in Nat \ {0}, ProducerIdle, n <= Room, Accept(n)
  PROVE  RingInv'
  <1> USE DEF Accept, positions, consumer, monitor
  <1>1. PositionsOrdered'
    BY DEF RingInv, PositionsOrdered, ProducerIdle, Room, Used
  <1>2. putAt' = putAt
    BY DEF RingInv, PositionsOrdered, ProducerIdle
  <1>3. FramesIntact'
    BY <1>2 DEF RingInv, FramesIntact
  <1>4. CopiedRun' /\ SampleIsPast'
    BY DEF RingInv, CopiedRun, SampleIsPast, ConsumerIdle, Run, NotSampled
  <1> QED BY <1>1, <1>3, <1>4 DEF RingInv

\* Storing a frame overwrites none that is still in the ring.
LEMMA WriteSlotRing ==
  ASSUME RingInv, WriteSlot
  PROVE  RingInv'
  <1> USE DEF WriteSlot, positions, consumer, monitor
  <1>1. PositionsOrdered'
    BY DEF RingInv, PositionsOrdered
  <1>2. Slot(putAt) \in 0..Capacity - 1
    BY SlotInRange DEF RingInv, PositionsOrdered
  <1>3. FramesIntact'
    <2>1. slots' \in [0..Capacity - 1 -> Nat \cup {Blank}]
      BY <1>2 DEF RingInv, FramesIntact, PositionsOrdered
    <2>2. ASSUME NEW p \in readPosition..putAt
          PROVE  slots'[Slot(p)] = p
      <3>1. p \in Nat /\ Slot(p) \in 0..Capacity - 1
        BY SlotInRange DEF RingInv, PositionsOrdered
      <3>2. CASE p = putAt
        BY <1>2, <3>1, <3>2 DEF RingInv, FramesIntact
      <3>3. CASE p # putAt
        <4>1. p < putAt /\ putAt < p + Capacity /\ p \in readPosition..putAt - 1
          BY <3>1, <3>3 DEF RingInv, PositionsOrdered
        <4>2. Slot(p) # Slot(putAt)
          BY <3>1, <4>1, SlotsDiffer DEF RingInv, PositionsOrdered
        <4> QED BY <3>1, <4>1, <4>2 DEF RingInv, FramesIntact
      <3> QED BY <3>2, <3>3
    <2>3. readPosition'..putAt' - 1 = readPosition..putAt
      BY DEF RingInv, PositionsOrdered
    <2> QED BY <2>1, <2>2, <2>3 DEF FramesIntact, Slot
  <1>4. CopiedRun' /\ SampleIsPast'
    BY DEF RingInv, CopiedRun, SampleIsPast, ConsumerIdle, Run, NotSampled
  <1> QED BY <1>1, <1>3, <1>4 DEF RingInv

\* Publishing moves the write position up to what has been stored.
LEMMA PublishRing ==
  ASSUME RingInv, Publish
  PROVE  RingInv'
  BY DEF Publish, producer, consumer, monitor, RingInv, PositionsOrdered,
         FramesIntact, CopiedRun, SampleIsPast, ConsumerIdle, Run, NotSampled

\* A Read starts within what is published.
LEMMA ReadRing ==
  ASSUME RingInv, NEW n \in Spans, Read(n)
  PROVE  RingInv'
  <1> USE DEF Read, positions, producer, monitor
  <1>1. Least(n, Used) \in Nat /\ Least(n, Used) <= Used
    BY DEF Least, RingInv, PositionsOrdered, Used
  <1>2. PositionsOrdered'
    BY <1>1 DEF RingInv, PositionsOrdered, Used
  <1>3. got' = Run(readPosition, takeAt)'
    BY DEF Run, RingInv, PositionsOrdered
  <1>4. FramesIntact' /\ CopiedRun' /\ SampleIsPast'
    BY <1>3 DEF RingInv, FramesIntact, CopiedRun, SampleIsPast, NotSampled
  <1> QED BY <1>2, <1>4 DEF RingInv

\* Copying a frame extends the run; the frame is still in its slot.
LEMMA CopySlotRing ==
  ASSUME RingInv, CopySlot
  PROVE  RingInv'
  <1> USE DEF CopySlot, positions, producer, monitor
  <1>1. PositionsOrdered'
    BY DEF RingInv, PositionsOrdered
  <1>2. FramesIntact' /\ SampleIsPast'
    BY DEF RingInv, FramesIntact, SampleIsPast, NotSampled
  <1>3. CopiedRun'
    <2>1. CASE ConsumerIdle
      BY <2>1 DEF CopiedRun, ConsumerIdle
    <2>2. CASE got = Run(readPosition, takeAt)
      <3>1. takeAt \in readPosition..putAt - 1
        BY DEF RingInv, PositionsOrdered
      <3>2. slots[Slot(takeAt)] = takeAt
        BY <3>1 DEF RingInv, FramesIntact
      <3>3. Append(Run(readPosition, takeAt), takeAt) = Run(readPosition, takeAt + 1)
        BY DEF Run, RingInv, PositionsOrdered
      <3> QED BY <2>2, <3>2, <3>3 DEF CopiedRun, Run
    <2> QED BY <2>1, <2>2 DEF RingInv, CopiedRun, PositionsOrdered
  <1> QED BY <1>1, <1>2, <1>3 DEF RingInv

\* A flush skips what is published.
LEMMA DiscardRing ==
  ASSUME RingInv, DiscardConsumer
  PROVE  RingInv'
  BY DEF DiscardConsumer, positions, producer, monitor, RingInv,
         PositionsOrdered, FramesIntact, CopiedRun, SampleIsPast, NotSampled

\* Releasing gives the slots back once they have been copied.
LEMMA ReleaseRing ==
  ASSUME RingInv, Release
  PROVE  RingInv'
  BY DEF Release, producer, monitor, RingInv, PositionsOrdered, FramesIntact,
         CopiedRun, ConsumerIdle, SampleIsPast, NotSampled

\* The monitor changes nothing but its own variables.
LEMMA MonitorRing ==
  ASSUME RingInv, SampleWrite \/ SampleRead
  PROVE  RingInv'
  <1>1. UNCHANGED <<slots, positions, producer, consumer>>
    BY DEF SampleWrite, SampleRead
  <1>2. PositionsOrdered' /\ FramesIntact' /\ CopiedRun'
    BY <1>1 DEF positions, producer, consumer, RingInv, PositionsOrdered,
                FramesIntact, CopiedRun, Run, ConsumerIdle
  <1>3. SampleIsPast'
    BY <1>1 DEF SampleWrite, SampleRead, SampleIsPast, positions, RingInv,
                PositionsOrdered, NotSampled
  <1> QED BY <1>2, <1>3 DEF RingInv

\* Every step of either thread keeps the ring in order.
LEMMA NextRing == RingInv /\ [Next]_vars => RingInv'
  <1> SUFFICES ASSUME RingInv, [Next]_vars
               PROVE  RingInv'
    OBVIOUS
  <1>1. ASSUME NEW n \in Spans, Write(n)
        PROVE  RingInv'
    <2>1. Least(n, Room) <= Room
      BY DEF Least, RingInv, PositionsOrdered, Room, Used
    <2>2. Least(n, Room) \in Nat \ {0}
      BY <1>1 DEF Least, RingInv, PositionsOrdered, Room, Used, Write, Accept
    <2> QED BY <1>1, <2>1, <2>2, AcceptRing DEF Write
  <1>2. ASSUME NEW n \in Spans, PushBatch(n)
        PROVE  RingInv'
    BY <1>2, AcceptRing DEF PushBatch
  <1>3. CASE UNCHANGED vars
    BY <1>3 DEF vars, positions, producer, consumer, monitor, RingInv,
                PositionsOrdered, FramesIntact, CopiedRun, Run, ConsumerIdle,
                SampleIsPast
  <1> QED BY <1>1, <1>2, <1>3, WriteSlotRing, PublishRing, ReadRing,
             CopySlotRing, DiscardRing, ReleaseRing, MonitorRing DEF Next

\* The ring is always in order.
LEMMA RingInvariant == Spec => []RingInv
  BY InitRing, NextRing, PTL DEF Spec

\* No slot is ever in the hands of both threads (Write, PushBatch; Read, TryPop,
\* DiscardConsumer), for every capacity and every length of span.
THEOREM SlotsAreNeverShared == Spec => []NoSlotIsShared
  <1>1. RingInv => NoSlotIsShared
    BY OrderedSharesNothing DEF RingInv
  <1> QED BY <1>1, RingInvariant, PTL

\* FillFrames and Size never report more than the ring holds.
THEOREM FillIsNeverOverstated == Spec => FillNeverOverstated
  <1>1. RingInv /\ [Next]_vars => [fill' # fill => fill' <= Used]_vars
    <2> SUFFICES ASSUME RingInv, Next, fill' # fill
                 PROVE  fill' <= Used
      BY DEF vars
    <2>1. SampleRead
      BY DEF Next, Write, PushBatch, Accept, WriteSlot, Publish, Read, CopySlot,
             DiscardConsumer, Release, SampleWrite, monitor
    <2> QED BY <2>1 DEF SampleRead, RingInv, SampleIsPast, PositionsOrdered, Used
  <1> QED BY <1>1, RingInvariant, PTL DEF Spec, FillNeverOverstated

-----------------------------------------------------------------------------
(* The refinement.  In both states of a step the abstract queue is the run *)
(* of frame numbers from the read to the write position, so it is enough   *)
(* to compare runs.                                                        *)

Queue == [i \in 1..Used |-> slots[Slot(readPosition + i - 1)]]

\* What is between the positions is a run of frames.
LEMMA QueueIsRun == RingInv => Queue = Run(readPosition, writePosition)
  <1> SUFFICES ASSUME RingInv, NEW i \in 1..Used
               PROVE  slots[Slot(readPosition + i - 1)] = readPosition + i - 1
    BY DEF Queue, Run, Used
  <1>1. readPosition + i - 1 \in readPosition..putAt - 1
    BY DEF RingInv, PositionsOrdered, Used
  <1> QED BY <1>1 DEF RingInv, FramesIntact

\* Two adjoining runs are one.
LEMMA RunsJoin ==
  ASSUME NEW a \in Nat, NEW b \in Nat, NEW c \in Nat, a <= b, b <= c
  PROVE  Run(a, c) = Run(a, b) \o Run(b, c)
  BY DEF Run

\* As many frames as the positions are apart.
LEMMA RunLength ==
  ASSUME NEW a \in Nat, NEW b \in Nat, a <= b
  PROVE  Len(Run(a, b)) = b - a
  BY DEF Run

\* A run splits into its beginning ...
LEMMA RunPrefix ==
  ASSUME NEW a \in Nat, NEW b \in Nat, NEW c \in Nat, a <= b, b <= c
  PROVE  SubSeq(Run(a, c), 1, b - a) = Run(a, b)
  BY DEF Run

\* ... and its rest.
LEMMA RunSuffix ==
  ASSUME NEW a \in Nat, NEW b \in Nat, NEW c \in Nat, a <= b, b <= c
  PROVE  SubSeq(Run(a, c), b - a + 1, c - a) = Run(b, c)
  BY DEF Run

\* Publish is the abstract Put, Release a Take or, for a flush, a Drop; every
\* other step leaves the queue as it is.
LEMMA RingSteps == RingInv /\ RingInv' /\ [Next]_vars => [Fifo!Next]_(Fifo!vars)
  <1> SUFFICES ASSUME RingInv, RingInv', [Next]_vars
               PROVE  [Fifo!Next]_(Fifo!vars)
    OBVIOUS
  <1>1. Queue = Run(readPosition, writePosition)
    BY QueueIsRun
  <1>2. Queue' = Run(readPosition', writePosition')
    <2>1. (RingInv => Queue = Run(readPosition, writePosition))'
      BY QueueIsRun, PTL
    <2> QED BY <2>1 DEF Run
  <1>3. Fifo!vars = <<Queue, writePosition, out>>
    BY DEF Fifo!vars, Queue
  <1>4. Fifo!vars' = <<Queue', writePosition', out'>>
    BY DEF Fifo!vars, Queue
  <1>5. CASE UNCHANGED <<readPosition, writePosition, out>>
    BY <1>1, <1>2, <1>3, <1>4, <1>5
  <1>6. CASE Publish
    <2> DEFINE n == putEnd - writePosition
    <2>1. n \in 0..Capacity
      BY DEF RingInv, PositionsOrdered
    <2>2. Len(Queue) + n <= Capacity
      <3>1. /\ readPosition \in Nat /\ writePosition \in Nat
            /\ readPosition <= writePosition
        BY DEF RingInv, PositionsOrdered
      <3>2. Len(Queue) = writePosition - readPosition
        BY <1>1, <3>1, RunLength
      <3> QED BY <3>2 DEF RingInv, PositionsOrdered, n
    <2>3. Queue' = Queue \o [i \in 1..n |-> writePosition + i - 1]
      <3>1. /\ readPosition \in Nat /\ writePosition \in Nat /\ putEnd \in Nat
            /\ readPosition <= writePosition /\ writePosition <= putEnd
        BY DEF RingInv, PositionsOrdered
      <3>2. Run(readPosition, putEnd) =
              Run(readPosition, writePosition) \o Run(writePosition, putEnd)
        BY <3>1, RunsJoin
      <3>3. Run(writePosition, putEnd) = [i \in 1..n |-> writePosition + i - 1]
        BY DEF Run
      <3> QED BY <1>1, <1>2, <1>6, <3>2, <3>3 DEF Publish
    <2>4. writePosition' = writePosition + n /\ out' = out
      BY <1>6 DEF Publish, consumer, RingInv, PositionsOrdered, n
    <2>5. Fifo!Put(n)
      BY <2>2, <2>3, <2>4 DEF Fifo!Put, Queue
    <2> QED BY <2>1, <2>5 DEF Fifo!Next
  <1>7. CASE Release
    <2> DEFINE n == takeEnd - readPosition
    <2>0. /\ readPosition \in Nat /\ takeEnd \in Nat /\ writePosition \in Nat
          /\ readPosition <= takeEnd /\ takeEnd <= writePosition
          /\ n \in 0..Capacity /\ n <= writePosition - readPosition
      BY DEF RingInv, PositionsOrdered, n
    <2>1. n <= Len(Queue)
      BY <1>1, <2>0, RunLength
    <2>2. Queue' = SubSeq(Queue, n + 1, Len(Queue))
      <3>1. SubSeq(Run(readPosition, writePosition), takeEnd - readPosition + 1,
                   writePosition - readPosition) = Run(takeEnd, writePosition)
        BY <2>0, RunSuffix
      <3>2. Len(Run(readPosition, writePosition)) = writePosition - readPosition
        BY <2>0, RunLength
      <3> QED BY <1>1, <1>2, <1>7, <3>1, <3>2 DEF Release
    <2>3. out' = SubSeq(Queue, 1, n) \/ out' = <<>>
      <3>1. got = Run(readPosition, takeEnd) \/ got = <<>>
        BY <1>7 DEF Release, RingInv, CopiedRun
      <3>2. SubSeq(Queue, 1, n) = Run(readPosition, takeEnd)
        BY <1>1, <2>0, RunPrefix DEF n
      <3> QED BY <1>7, <3>1, <3>2 DEF Release
    <2>4. writePosition' = writePosition
      BY <1>7 DEF Release
    <2>5. Fifo!Take(n) \/ Fifo!Drop(n)
      BY <2>1, <2>2, <2>3, <2>4 DEF Fifo!Take, Fifo!Drop, Queue
    <2> QED BY <2>0, <2>5 DEF Fifo!Next
  <1> QED
    BY <1>5, <1>6, <1>7
    DEF Next, Write, PushBatch, Accept, WriteSlot, Read, CopySlot,
        DiscardConsumer, SampleWrite, SampleRead, vars, positions, consumer

\* The ring is a bounded first-in first-out queue (PcmRingBuffer and MidiSpscRing):
\* nothing accepted is lost, repeated, reordered or read half-written, for every
\* capacity and whatever the interleaving of the two threads.
THEOREM RingIsFifo == Spec => ImplementsFifo
  <1>1. Init => Fifo!Init
    BY DEF Init, Fifo!Init, Used
  <1> QED BY <1>1, RingSteps, RingInvariant, PTL DEF Spec, ImplementsFifo, Fifo!Spec
=============================================================================
