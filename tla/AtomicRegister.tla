---------------------------- MODULE AtomicRegister ----------------------------
(***************************************************************************)
(* What a snapshot publication promises: every capture returns, whole, the *)
(* latest publication that is complete.  Publications are numbered.        *)
(***************************************************************************)
EXTENDS Naturals

CONSTANTS Readers, Words

VARIABLES
  value,      \* the number of the latest publication
  captured    \* what each reader's last capture returned

Snapshot(v) == [w \in Words |-> v]

Init == value = 0 /\ captured = [r \in Readers |-> Snapshot(0)]

Publish == value' = value + 1 /\ UNCHANGED captured

Capture(r) ==
  /\ captured' = [captured EXCEPT ![r] = Snapshot(value)]
  /\ UNCHANGED value

Next == Publish \/ \E r \in Readers : Capture(r)

Spec == Init /\ [][Next]_<<value, captured>>
=============================================================================
