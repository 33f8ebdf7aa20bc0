----------------------------- MODULE WorkerGate -----------------------------
(***************************************************************************)
(* The stop/enter handshake of Foundation/Concurrency/WorkerGate.h: each   *)
(* worker raises its own busy slot and then looks at the running flag; the *)
(* one control owner lowers the flag and then looks at every slot.  All    *)
(* the fields are sequentially consistent atomics, so a load or a store is *)
(* one step.  `seen' is the control's position in the loop of IsIdle():    *)
(* seen = WorkerCount says that the last pass found every slot idle, which *)
(* the control takes as its licence to reset buffers or delete tasks.      *)
(***************************************************************************)
EXTENDS Naturals

CONSTANT WorkerCount

ASSUME WorkerCountAssumption == WorkerCount \in Nat \ {0}

Workers == 0 .. WorkerCount - 1

VARIABLES
  running,  \* running_
  busy,     \* busy_
  at,       \* where each worker task is
  seen      \* how many slots the control's current pass found idle

vars == <<running, busy, at, seen>>

Places == {"out", "raised", "refused", "in", "gone"}

Init ==
  /\ running = FALSE
  /\ busy = [w \in Workers |-> FALSE]
  /\ at = [w \in Workers |-> "gone"]
  /\ seen = 0

Idle == seen = WorkerCount

(* TryEnter, first half: busy_[worker].store(true). *)
Raise(w) ==
  /\ at[w] = "out"
  /\ busy' = [busy EXCEPT ![w] = TRUE]
  /\ at' = [at EXCEPT ![w] = "raised"]
  /\ UNCHANGED <<running, seen>>

(* TryEnter, second half: running_.load(). *)
Look(w) ==
  /\ at[w] = "raised"
  /\ at' = [at EXCEPT ![w] = IF running THEN "in" ELSE "refused"]
  /\ UNCHANGED <<running, busy, seen>>

(* Leave(), and the store that ends a refused TryEnter. *)
Leave(w) ==
  /\ at[w] \in {"in", "refused"}
  /\ busy' = [busy EXCEPT ![w] = FALSE]
  /\ at' = [at EXCEPT ![w] = "out"]
  /\ UNCHANGED <<running, seen>>

(* Start(): "Control calls Stop() ... and waits for IsIdle()" before it. *)
Start ==
  /\ Idle
  /\ running' = TRUE
  /\ seen' = 0
  /\ UNCHANGED <<busy, at>>

Stop ==
  /\ running' = FALSE
  /\ seen' = 0
  /\ UNCHANGED <<busy, at>>

(* IsIdle() that answers at the first slot it finds idle. *)
InspectFirst ==
  /\ ~running /\ ~Idle
  /\ seen' = IF busy[seen] THEN 0 ELSE WorkerCount
  /\ UNCHANGED <<running, busy, at>>

(* One turn of the loop of IsIdle(); a busy slot ends the pass, and the    *)
(* control, after a delay, begins another.                                 *)
Inspect ==
  /\ ~running /\ ~Idle
  /\ seen' = IF busy[seen] THEN 0 ELSE seen + 1
  /\ UNCHANGED <<running, busy, at>>

(* The owner creates its tasks, and deletes them once the gate is idle.    *)
(* A deleted task never runs again: what its slot held stays there.        *)
Create(w) ==
  /\ at[w] = "gone"
  /\ at' = [at EXCEPT ![w] = "out"]
  /\ UNCHANGED <<running, busy, seen>>

Delete(w) ==
  /\ Idle
  /\ at[w] # "gone"
  /\ at' = [at EXCEPT ![w] = "gone"]
  /\ UNCHANGED <<running, busy, seen>>

Worker(w) == Raise(w) \/ Look(w) \/ Leave(w)

Control == Start \/ Stop \/ Inspect \/ \E w \in Workers : Create(w) \/ Delete(w)

Next == Control \/ \E w \in Workers : Worker(w)

Spec == Init /\ [][Next]_vars

-----------------------------------------------------------------------------
(* Every field holds a value of its type. *)
TypeOK ==
  /\ running \in BOOLEAN
  /\ busy \in [Workers -> BOOLEAN]
  /\ at \in [Workers -> Places]
  /\ seen \in 0 .. WorkerCount

(* What the header promises: once a pass of IsIdle() has found every slot  *)
(* idle no worker is past TryEnter, and none gets past it before Start(),  *)
(* so the control may reset what the workers share or delete the tasks.    *)
IdleMeansNoneInside ==
  Idle => \A w \in Workers : at[w] # "in"

(* A worker that is inside keeps its slot raised, so no pass can miss it   *)
(* and a stop cannot finish before it leaves.                              *)
InsideIsVisible ==
  \A w \in Workers : at[w] = "in" => busy[w]
=============================================================================
