-------------------------- MODULE WorkerGateProofs --------------------------
(***************************************************************************)
(* The gate keeps control and workers apart, for every number of workers.  *)
(* IdleMeansNoneInside is not inductive: that a pass found the first slots *)
(* idle says something of their workers only while running_ stays FALSE,   *)
(* because a worker raises its slot before it looks.  The invariant says   *)
(* that a pass under way excludes running_, that a worker inside is seen   *)
(* by the pass, and that the slots the pass has left behind hold nobody.   *)
(***************************************************************************)
EXTENDS WorkerGate, TLAPS

(* The slots the current pass has left behind hold nobody. *)
PassedAreOut ==
  \A w \in Workers : w < seen => at[w] # "in"

(* A worker raises its slot before it looks at running_. *)
RaisedIsVisible ==
  \A w \in Workers : at[w] = "raised" => busy[w]

IInv ==
  /\ TypeOK
  /\ running => seen = 0
  /\ RaisedIsVisible
  /\ InsideIsVisible
  /\ PassedAreOut

(* Before the first Start() no slot was inspected and no task exists. *)
LEMMA InitIInv == Init => IInv
<1> SUFFICES ASSUME Init PROVE IInv
  OBVIOUS
<1> USE WorkerCountAssumption DEF RaisedIsVisible
<1>1. TypeOK
  <2>1. 0 \in 0 .. WorkerCount
    OBVIOUS
  <2> QED
    BY <2>1 DEF Init, TypeOK, Places
<1>2. InsideIsVisible /\ PassedAreOut
  BY DEF Init, InsideIsVisible, PassedAreOut, Workers
<1> QED
  BY <1>1, <1>2 DEF Init, IInv

(* Every step of a worker and of the control keeps the invariant. *)
LEMMA NextIInv == IInv /\ [Next]_vars => IInv'
<1> SUFFICES ASSUME IInv, [Next]_vars PROVE IInv'
  OBVIOUS
<1> USE WorkerCountAssumption DEF RaisedIsVisible
<1>1. ASSUME NEW w \in Workers, Raise(w) PROVE IInv'
  BY <1>1 DEF Raise, IInv, TypeOK, Places, InsideIsVisible, PassedAreOut
<1>2. ASSUME NEW w \in Workers, Look(w) PROVE IInv'
  <2>1. TypeOK' /\ InsideIsVisible'
    <3>1. busy[w]
      BY <1>2 DEF Look, IInv
    <3> QED
      BY <1>2, <3>1 DEF Look, IInv, TypeOK, Places, InsideIsVisible
  <2> QED
    BY <1>2, <2>1 DEF Look, IInv, TypeOK, PassedAreOut, Workers
<1>3. ASSUME NEW w \in Workers, Leave(w) PROVE IInv'
  BY <1>3 DEF Leave, IInv, TypeOK, Places, InsideIsVisible, PassedAreOut
<1>4. CASE Start
  <2>1. TypeOK' /\ (running => seen = 0)'
    BY <1>4 DEF Start, IInv, TypeOK
  <2>2. PassedAreOut'
    BY <1>4 DEF Start, PassedAreOut, Workers
  <2> QED
    BY <1>4, <2>1, <2>2 DEF Start, IInv, InsideIsVisible
<1>5. CASE Stop
  <2>1. TypeOK'
    <3>1. running' \in BOOLEAN
      BY <1>5, Zenon DEF Stop
    <3>2. seen' \in 0 .. WorkerCount
      BY <1>5 DEF Stop
    <3> QED
      BY <1>5, <3>1, <3>2, Zenon DEF Stop, IInv, TypeOK
  <2>2. ~running'
    BY <1>5, Zenon DEF Stop
  <2>3. PassedAreOut'
    BY <1>5 DEF Stop, PassedAreOut, Workers
  <2> QED
    BY <1>5, <2>1, <2>2, <2>3 DEF Stop, IInv, InsideIsVisible
<1>6. CASE Inspect
  <2>1. seen \in Workers
    BY <1>6 DEF Inspect, Idle, IInv, TypeOK, Workers
  <2>2. CASE busy[seen]
    BY <1>6, <2>2 DEF Inspect, IInv, TypeOK, InsideIsVisible, PassedAreOut, Workers
  <2>3. CASE ~busy[seen]
    <3>1. at[seen] # "in"
      BY <2>1, <2>3 DEF IInv, InsideIsVisible
    <3> QED
      BY <1>6, <2>1, <2>3, <3>1
      DEF Inspect, IInv, TypeOK, InsideIsVisible, PassedAreOut, Workers
  <2> QED
    BY <2>2, <2>3
<1>7. ASSUME NEW w \in Workers, Create(w) PROVE IInv'
  BY <1>7 DEF Create, IInv, TypeOK, Places, InsideIsVisible, PassedAreOut
<1>8. ASSUME NEW w \in Workers, Delete(w) PROVE IInv'
  BY <1>8 DEF Delete, IInv, TypeOK, Places, InsideIsVisible, PassedAreOut
<1>9. CASE UNCHANGED vars
  BY <1>9 DEF vars, IInv, TypeOK, InsideIsVisible, PassedAreOut
<1> QED
  BY <1>1, <1>2, <1>3, <1>4, <1>5, <1>6, <1>7, <1>8, <1>9 DEF Next, Control, Worker

(* The strengthened invariant holds of every behaviour. *)
THEOREM Invariance == Spec => []IInv
BY InitIInv, NextIInv, PTL DEF Spec

(* The fields of the gate keep their types. *)
THEOREM TypeCorrect == Spec => []TypeOK
<1>1. IInv => TypeOK
  BY DEF IInv
<1> QED
  BY Invariance, <1>1, PTL

(* A worker past TryEnter is visible to every pass of IsIdle(). *)
THEOREM Visibility == Spec => []InsideIsVisible
<1>1. IInv => InsideIsVisible
  BY DEF IInv
<1> QED
  BY Invariance, <1>1, PTL

(* What Stop() and IsIdle() promise their caller: after a pass that found  *)
(* every slot idle, whatever the interleaving, no worker is past TryEnter. *)
THEOREM Exclusion == Spec => []IdleMeansNoneInside
<1>1. IInv => IdleMeansNoneInside
  BY WorkerCountAssumption
  DEF IInv, TypeOK, PassedAreOut, IdleMeansNoneInside, Idle, Workers
<1> QED
  BY Invariance, <1>1, PTL
=============================================================================
