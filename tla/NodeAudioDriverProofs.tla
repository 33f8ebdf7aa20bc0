------------------------ MODULE NodeAudioDriverProofs ------------------------
(***************************************************************************)
(* The driver uses the gate as WorkerGate describes it, for every number   *)
(* of buffers: each step of a task or of the owner is a step of the gate   *)
(* or leaves the gate alone.  Only the owner's own discipline is needed    *)
(* for that (OwnerDiscipline): it passes over the slots with the gate      *)
(* closed, and resets or deletes only after a pass found every slot idle.  *)
(* What is proved of the gate in WorkerGateProofs then holds of the driver,*)
(* and with it that the owner is alone when it resets or deletes.  From    *)
(* that follows where the buffers are (BuffersKept): each in one place at  *)
(* most, and while the gate is open in exactly one.                        *)
(***************************************************************************)
EXTENDS NodeAudioDriver, SequenceTheorems, FiniteSetTheorems, TLAPS

at == [t \in Tasks |-> IF pc[t] \in Outside THEN pc[t] ELSE "in"]

Places == Outside \cup RenderPlaces \cup WriterPlaces

Stopping == {"wakeFree", "wakeFilled", "drain"}
Alone == {"reset", "deleteRender", "deleteWriter", "deleteQueues"}

(* The gate as the driver's variables show it, and where the owner is.     *)
OwnerDiscipline ==
  /\ pc \in [Tasks -> Places]
  /\ busy \in [Tasks -> BOOLEAN]
  /\ step \in Stopping => ~running /\ seen \in {0, 1}
  /\ step \in Alone => seen = TaskCount

(* Before the first operation the owner is inside none. *)
LEMMA InitDiscipline == Init => OwnerDiscipline
BY DEF Init, OwnerDiscipline, Alone, Stopping, Places, Outside, Tasks

(* The tasks leave the owner's place, running_ and the pass alone. *)
LEMMA TaskDiscipline ==
  OwnerDiscipline /\ (AudioThread \/ I2SThread) => OwnerDiscipline'
<1> SUFFICES ASSUME OwnerDiscipline, AudioThread \/ I2SThread
             PROVE  OwnerDiscipline'
  OBVIOUS
<1> USE DEF OwnerDiscipline, Places, Outside, RenderPlaces, WriterPlaces, Goto, gateVars, controlVars, Render, Writer, Tasks
<1>1. ASSUME NEW t \in Tasks, AtGate(t) PROVE OwnerDiscipline'
  <2>1. CASE Raise(t)
    BY <1>1, <2>1 DEF Raise
  <2>2. CASE Look(t)
    BY <1>1, <2>2 DEF Look
  <2>3. CASE Leave(t)
    BY <1>1, <2>3 DEF Leave
  <2> QED
    BY <1>1, <2>1, <2>2, <2>3 DEF AtGate
<1>2. CASE ReceiveFree \/ Reserve
  BY <1>2 DEF ReceiveFree, Reserve
<1>3. CASE LockForRender \/ GetOutputBuffer
  BY <1>3 DEF LockForRender, GetOutputBuffer
<1>4. CASE AddBuffer
  BY <1>4 DEF AddBuffer
<1>5. CASE UnlockAfterRender \/ FinishRender
  BY <1>5 DEF UnlockAfterRender, FinishRender
<1>6. CASE ReceiveFilled \/ Starve
  BY <1>6 DEF ReceiveFilled, Starve
<1>7. CASE CheckRunning \/ Write
  BY <1>7 DEF CheckRunning, Write, ReleasePlayed
<1> QED
  BY <1>1, <1>2, <1>3, <1>4, <1>5, <1>6, <1>7 DEF AudioThread, I2SThread

(* Every step of the owner keeps its discipline. *)
LEMMA OwnerKeepsDiscipline == OwnerDiscipline /\ Owner => OwnerDiscipline'
<1> SUFFICES ASSUME OwnerDiscipline, Owner PROVE OwnerDiscipline'
  OBVIOUS
<1> USE DEF OwnerDiscipline, Places, Outside, Alone, Stopping, Goto, Continue, Return, gateVars, controlVars,
        Render, Writer, Tasks, TaskCount
<1>1. CASE LockForCommand \/ UnlockAfterCommand \/ InitDriver
  BY <1>1 DEF LockForCommand, UnlockAfterCommand, InitDriver
<1>2. CASE CreateRender \/ CreateWriter
  BY <1>2 DEF CreateRender, CreateWriter
<1>3. CASE CallStart \/ CallStop \/ CallClose
  BY <1>3 DEF CallStart, CallStop, CallClose
<1>4. CASE CloseGate
  BY <1>4 DEF CloseGate
<1>5. CASE WakeFree \/ WakeFilled
  <2>1. /\ UNCHANGED <<running, busy, seen, pc>>
        /\ {step, step'} \subseteq Stopping
    BY <1>5 DEF WakeFree, WakeFilled
  <2> QED
    BY <1>5, <2>1
<1>6. CASE InspectSlot
  <2>1. CASE seen' = TaskCount
    <3>1. step' \in Alone \cup {"idle"}
      BY <1>6, <2>1 DEF InspectSlot, AfterDrain
    <3> QED
      BY <1>6, <2>1, <3>1 DEF InspectSlot
  <2>2. CASE seen' # TaskCount
    <3>1. seen \in {0, 1} /\ seen' \in {0, 1}
      BY <1>6, <2>2 DEF InspectSlot
    <3>2. step' = "drain" /\ ~running'
      BY <1>6, <2>2 DEF InspectSlot
    <3> QED
      BY <1>6, <3>1, <3>2 DEF InspectSlot
  <2> QED
    BY <2>1, <2>2
<1>7. CASE ResetAndStart
  BY <1>7 DEF ResetAndStart, ResetQueues
<1>8. CASE DeleteRender \/ DeleteWriter \/ DeleteQueues
  BY <1>8 DEF DeleteRender, DeleteWriter, DeleteQueues, Delete
<1> QED
  BY <1>1, <1>2, <1>3, <1>4, <1>5, <1>6, <1>7, <1>8 DEF Owner, InsideOperation

(* The owner's discipline is kept by every behaviour. *)
THEOREM Discipline == Spec => []OwnerDiscipline
<1>1. OwnerDiscipline /\ [Next]_vars => OwnerDiscipline'
  <2>1. OwnerDiscipline /\ UNCHANGED vars => OwnerDiscipline'
    BY DEF OwnerDiscipline, vars, gateVars, controlVars
  <2> QED
    BY <2>1, TaskDiscipline, OwnerKeepsDiscipline DEF Next
<1> QED
  BY InitDiscipline, <1>1, PTL DEF Spec

(* Which tasks the owner knows not to exist: it creates a task only when   *)
(* the one before was deleted.                                             *)
Lifecycle ==
  /\ pc \in [Tasks -> Places]
  /\ step \in {"idle", "command"} => op = "none"
  /\ step \in {"createTasks", "createWriter"} => op = "Init"
  /\ driver = "closed" /\ op # "Init" => pc[Render] = "gone" /\ pc[Writer] = "gone"
  /\ step \in {"createTasks", "deleteQueues"} => pc[Render] = "gone" /\ pc[Writer] = "gone"
  /\ step = "createWriter" => pc[Writer] = "gone"
  /\ step = "deleteWriter" => pc[Render] = "gone"

(* No task exists at first. *)
LEMMA InitLifecycle == Init => Lifecycle
BY DEF Init, Lifecycle, Places, Outside, Tasks, Render, Writer

(* A task that does not exist takes no step, and no task ends by itself.   *)
LEMMA TaskLifecycle ==
  Lifecycle /\ (AudioThread \/ I2SThread) => Lifecycle'
<1> SUFFICES ASSUME Lifecycle, AudioThread \/ I2SThread
             PROVE  Lifecycle'
  OBVIOUS
<1> USE DEF Places, Outside, RenderPlaces, WriterPlaces, Tasks, Render, Writer
<1> DEFINE Moves(t) == /\ pc[t] # "gone"
                       /\ \E place \in Places : Goto(t, place)
                       /\ UNCHANGED controlVars
<1>1. ASSUME NEW t \in Tasks, Moves(t) PROVE Lifecycle'
  BY <1>1 DEF Lifecycle, Goto, controlVars
<1>2. ASSUME NEW t \in Tasks, AtGate(t) PROVE Moves(t)
  <2>1. CASE Raise(t)
    BY <2>1 DEF Raise
  <2>2. CASE Look(t)
    BY <2>2 DEF Look
  <2>3. CASE Leave(t)
    BY <2>3 DEF Leave
  <2> QED
    BY <1>2, <2>1, <2>2, <2>3 DEF AtGate
<1>3. ReceiveFree \/ Reserve \/ LockForRender => Moves(Render)
  BY DEF ReceiveFree, Reserve, LockForRender
<1>4. GetOutputBuffer \/ AddBuffer => Moves(Render)
  BY DEF GetOutputBuffer, AddBuffer
<1>5. UnlockAfterRender \/ FinishRender => Moves(Render)
  BY DEF UnlockAfterRender, FinishRender
<1>6. ReceiveFilled \/ Starve \/ CheckRunning \/ Write => Moves(Writer)
  BY DEF ReceiveFilled, Starve, CheckRunning, Write, ReleasePlayed
<1> QED
  <2> HIDE DEF Moves
  <2> QED
    BY <1>1, <1>2, <1>3, <1>4, <1>5, <1>6 DEF AudioThread, I2SThread

(* The owner creates the tasks it deleted and marks the driver closed once *)
(* both are gone.                                                          *)
LEMMA OwnerLifecycle == Lifecycle /\ Owner => Lifecycle'
<1> SUFFICES ASSUME Lifecycle, Owner PROVE Lifecycle'
  OBVIOUS
<1> USE DEF Lifecycle, Places, Outside, Goto, Continue, Return, controlVars,
        Render, Writer, Tasks
<1>1. CASE LockForCommand \/ UnlockAfterCommand \/ InitDriver
  BY <1>1 DEF LockForCommand, UnlockAfterCommand, InitDriver
<1>2. CASE CreateRender
  BY <1>2 DEF CreateRender
<1>3. CASE CreateWriter
  BY <1>3 DEF CreateWriter
<1>4. CASE CallStart \/ CallStop \/ CallClose
  BY <1>4 DEF CallStart, CallStop, CallClose
<1>5. CASE CloseGate \/ WakeFree \/ WakeFilled
  BY <1>5 DEF CloseGate, WakeFree, WakeFilled
<1>6. CASE InspectSlot
  <2>1. UNCHANGED pc
    BY <1>6 DEF InspectSlot
  <2>2. CASE seen' # TaskCount
    BY <1>6, <2>1, <2>2 DEF InspectSlot
  <2>3. CASE op = "Start" /\ seen' = TaskCount
    BY <1>6, <2>1, <2>3 DEF InspectSlot, AfterDrain
  <2>4. CASE op = "Stop" /\ seen' = TaskCount
    BY <1>6, <2>1, <2>4 DEF InspectSlot, AfterDrain
  <2>5. CASE op \notin {"Start", "Stop"} /\ seen' = TaskCount
    BY <1>6, <2>1, <2>5 DEF InspectSlot, AfterDrain
  <2> QED
    BY <2>2, <2>3, <2>4, <2>5
<1>7. CASE ResetAndStart
  <2>1. UNCHANGED pc /\ driver' = "playing" /\ op' = "none" /\ step' = "idle"
    BY <1>7 DEF ResetAndStart
  <2> QED
    BY <2>1
<1>8. CASE DeleteRender \/ DeleteWriter \/ DeleteQueues
  BY <1>8 DEF DeleteRender, DeleteWriter, DeleteQueues, Delete
<1> QED
  BY <1>1, <1>2, <1>3, <1>4, <1>5, <1>6, <1>7, <1>8 DEF Owner, InsideOperation

-----------------------------------------------------------------------------
(* How the gate sees a task that goes to a place. *)
LEMMA AtAfterGoto ==
  ASSUME pc \in [Tasks -> Places], NEW t \in Tasks, NEW place \in Places,
         Goto(t, place)
  PROVE  at' = [at EXCEPT ![t] = IF place \in Outside THEN place ELSE "in"]
BY DEF Goto, at

(* A task that goes from one place inside to another is not seen to move. *)
LEMMA InsideMove ==
  ASSUME pc \in [Tasks -> Places], NEW t \in Tasks, NEW place \in Places \ Outside,
         pc[t] \notin Outside, Goto(t, place)
  PROVE  at' = at
BY DEF Goto, at

(* The gate's name for a task is the task's slot. *)
LEMMA SlotsAreTasks == Gate!Workers = Tasks
BY DEF Gate!Workers, Tasks, Render, Writer, TaskCount

(* At the gate a task takes the gate's own steps. *)
LEMMA TaskAtGate ==
  ASSUME OwnerDiscipline, NEW t \in Tasks, AtGate(t)
  PROVE  Gate!Next
<1> USE DEF OwnerDiscipline, gateVars
<1>1. Places = Outside \cup RenderPlaces \cup WriterPlaces
  BY DEF Places
<1>2. CASE Raise(t)
  <2>1. at' = [at EXCEPT ![t] = "raised"]
    BY <1>2, AtAfterGoto DEF Raise, Places, Outside
  <2>2. Gate!Raise(t)
    BY <1>2, <2>1 DEF Raise, Gate!Raise, at, Outside
  <2> QED
    BY <2>2, SlotsAreTasks DEF Gate!Next, Gate!Worker
<1>3. CASE Look(t)
  <2>1. at' = [at EXCEPT ![t] = IF running THEN "in" ELSE "refused"]
    BY <1>3, AtAfterGoto DEF Look, Places, Outside, RenderPlaces
  <2>2. Gate!Look(t)
    BY <1>3, <2>1 DEF Look, Gate!Look, at, Outside
  <2> QED
    BY <2>2, SlotsAreTasks DEF Gate!Next, Gate!Worker
<1>4. CASE Leave(t)
  <2>1. at' = [at EXCEPT ![t] = "out"]
    BY <1>4, AtAfterGoto DEF Leave, Places, Outside
  <2>2. at[t] \in {"in", "refused"}
    BY <1>4 DEF Leave, at, Outside
  <2>3. Gate!Leave(t)
    BY <1>4, <2>1, <2>2 DEF Leave, Gate!Leave, at
  <2> QED
    BY <2>3, SlotsAreTasks DEF Gate!Next, Gate!Worker
<1> QED
  BY <1>2, <1>3, <1>4 DEF AtGate

(* Between taking the gate and leaving it a task does nothing the gate     *)
(* sees: waiting, mixing, playing and giving back are one stay inside.     *)
LEMMA TaskInside ==
  ASSUME OwnerDiscipline,
         \/ ReceiveFree \/ Reserve \/ LockForRender \/ GetOutputBuffer
         \/ AddBuffer \/ UnlockAfterRender \/ FinishRender
         \/ ReceiveFilled \/ Starve \/ CheckRunning \/ Write
  PROVE  UNCHANGED Gate!vars
<1> USE DEF OwnerDiscipline, Places, Outside, RenderPlaces, WriterPlaces, Tasks
<1> DEFINE Move(t) == \E place \in Places \ Outside : Goto(t, place)
<1>1. UNCHANGED gateVars
  BY DEF ReceiveFree, Reserve, LockForRender, GetOutputBuffer, AddBuffer,
         UnlockAfterRender, FinishRender, ReceiveFilled, Starve, CheckRunning, Write
<1>2. CASE ReceiveFree \/ Reserve \/ LockForRender
  <2>1. pc[Render] \notin Outside /\ Move(Render)
    BY <1>2 DEF ReceiveFree, Reserve, LockForRender
  <2> QED
    BY <1>1, <2>1, InsideMove DEF Gate!vars, gateVars, at
<1>3. CASE GetOutputBuffer \/ AddBuffer
  <2>1. pc[Render] \notin Outside /\ Move(Render)
    BY <1>3 DEF GetOutputBuffer, AddBuffer
  <2> QED
    BY <1>1, <2>1, InsideMove DEF Gate!vars, gateVars, at
<1>4. CASE UnlockAfterRender \/ FinishRender
  <2>1. pc[Render] \notin Outside /\ Move(Render)
    BY <1>4 DEF UnlockAfterRender, FinishRender
  <2> QED
    BY <1>1, <2>1, InsideMove DEF Gate!vars, gateVars, at
<1>5. CASE ReceiveFilled \/ Starve \/ CheckRunning \/ Write
  <2>1. pc[Writer] \notin Outside /\ Move(Writer)
    BY <1>5 DEF ReceiveFilled, Starve, CheckRunning, Write, ReleasePlayed
  <2> QED
    BY <1>1, <2>1, InsideMove DEF Gate!vars, gateVars, at
<1> QED
  BY <1>2, <1>3, <1>4, <1>5

(* The owner uses the gate as its control. *)
LEMMA OwnerAtGate ==
  ASSUME OwnerDiscipline, Lifecycle, Owner
  PROVE  Gate!Next \/ UNCHANGED Gate!vars
<1> USE DEF OwnerDiscipline, Stopping, Alone, gateVars
<1>1. CASE LockForCommand \/ UnlockAfterCommand \/ InitDriver
  BY <1>1 DEF LockForCommand, UnlockAfterCommand, InitDriver, Gate!vars
<1>2. CASE CallStart \/ CallStop \/ CallClose
  BY <1>2 DEF CallStart, CallStop, CallClose, Gate!vars
<1>3. CASE WakeFree \/ WakeFilled \/ DeleteQueues
  BY <1>3 DEF WakeFree, WakeFilled, DeleteQueues, Gate!vars
<1>4. ASSUME NEW t \in Tasks, Goto(t, "out"), pc[t] = "gone", UNCHANGED gateVars
      PROVE  Gate!Next
  <2>1. at' = [at EXCEPT ![t] = "out"]
    BY <1>4, AtAfterGoto DEF Places, Outside
  <2>2. Gate!Create(t)
    BY <1>4, <2>1 DEF Gate!Create, at, Outside
  <2> QED
    BY <2>2, SlotsAreTasks DEF Gate!Next, Gate!Control
<1>5. CASE CloseGate
  <2>1. Gate!Stop
    BY <1>5 DEF CloseGate, Gate!Stop
  <2> QED
    BY <2>1 DEF Gate!Next, Gate!Control
<1>6. CASE InspectSlot
  <2>1. Gate!Inspect
    BY <1>6 DEF InspectSlot, Gate!Inspect, Gate!Idle, TaskCount
  <2> QED
    BY <2>1 DEF Gate!Next, Gate!Control
<1>7. CASE ResetAndStart
  <2>1. Gate!Start
    BY <1>7 DEF ResetAndStart, Gate!Start, Gate!Idle
  <2> QED
    BY <2>1 DEF Gate!Next, Gate!Control
<1>8. ASSUME NEW t \in Tasks, Goto(t, "gone"), step \in Alone, UNCHANGED gateVars
      PROVE  Gate!Next \/ UNCHANGED Gate!vars
  <2>1. at' = [at EXCEPT ![t] = "gone"]
    BY <1>8, AtAfterGoto DEF Places, Outside
  <2>2. CASE at[t] = "gone"
    <3>1. at' = at
      BY <2>1, <2>2 DEF at
    <3> QED
      BY <1>8, <3>1 DEF Gate!vars, at
  <2>3. CASE at[t] # "gone"
    <3>1. Gate!Delete(t)
      BY <1>8, <2>1, <2>3 DEF Gate!Delete, Gate!Idle, at
    <3> QED
      BY <3>1, SlotsAreTasks DEF Gate!Next, Gate!Control
  <2> QED
    BY <2>2, <2>3
<1>9. CASE DeleteRender \/ DeleteWriter
  BY <1>8, <1>9 DEF DeleteRender, DeleteWriter, Delete, Tasks
<1>10. CASE CreateRender
  <2>1. CASE Goto(Render, "out")
    BY <1>4, <1>10, <2>1 DEF CreateRender, Lifecycle, Tasks
  <2>2. CASE UNCHANGED pc
    BY <1>10, <2>2 DEF CreateRender, Gate!vars
  <2> QED
    BY <1>10, <2>1, <2>2 DEF CreateRender
<1>11. CASE CreateWriter
  <2>1. CASE Goto(Writer, "out")
    BY <1>4, <1>11, <2>1 DEF CreateWriter, Lifecycle, Tasks
  <2>2. CASE UNCHANGED pc
    BY <1>11, <2>2 DEF CreateWriter, Gate!vars
  <2> QED
    BY <1>11, <2>1, <2>2 DEF CreateWriter
<1> QED
  BY <1>1, <1>2, <1>3, <1>5, <1>6, <1>7, <1>9, <1>10, <1>11
  DEF Owner, InsideOperation

(* What the owner knows of its tasks holds of every behaviour. *)
THEOREM TasksAreTracked == Spec => []Lifecycle
<1>1. Lifecycle /\ [Next]_vars => Lifecycle'
  <2>1. Lifecycle /\ UNCHANGED vars => Lifecycle'
    BY DEF Lifecycle, vars, controlVars
  <2> QED
    BY <2>1, TaskLifecycle, OwnerLifecycle DEF Next
<1> QED
  BY InitLifecycle, <1>1, PTL DEF Spec

(* The driver implements WorkerGate: its first state is a first state of   *)
(* the gate, and each of its steps is one of the gate's or changes nothing *)
(* the gate has.                                                           *)
THEOREM Refinement == Spec => GateIsKept
<1>1. Init => Gate!Init
  BY SlotsAreTasks DEF Init, Gate!Init, Outside
<1>2. OwnerDiscipline /\ Lifecycle /\ [Next]_vars => [Gate!Next]_(Gate!vars)
  <2> SUFFICES ASSUME OwnerDiscipline, Lifecycle, [Next]_vars
               PROVE  Gate!Next \/ UNCHANGED Gate!vars
    OBVIOUS
  <2>1. CASE AudioThread \/ I2SThread
    BY <2>1, TaskAtGate, TaskInside DEF AudioThread, I2SThread, Tasks
  <2>2. CASE Owner
    BY <2>2, OwnerAtGate
  <2>3. CASE UNCHANGED vars
    BY <2>3 DEF vars, gateVars, Gate!vars
  <2> QED
    BY <2>1, <2>2, <2>3 DEF Next
<1> QED
  BY <1>1, <1>2, Discipline, TasksAreTracked, PTL DEF Spec, GateIsKept, Gate!Spec

-----------------------------------------------------------------------------
(* The theorems of WorkerGateProofs, for the driver's gate. *)
GateProofs == INSTANCE WorkerGateProofs WITH WorkerCount <- TaskCount

(* Both instances of the gate are the same gate. *)
LEMMA SameInit == Gate!Init <=> GateProofs!Init
BY DEF Gate!Init, GateProofs!Init, Gate!Workers, GateProofs!Workers, at

(* A step of one is a step of the other. *)
LEMMA SameNext == [Gate!Next]_(Gate!vars) <=> [GateProofs!Next]_(GateProofs!vars)
BY Zenon DEF Gate!Next, Gate!Control, Gate!Worker, Gate!Start, Gate!Stop, Gate!Inspect, Gate!Create,
       Gate!Delete, Gate!Raise, Gate!Look, Gate!Leave, Gate!Idle, Gate!Workers,
       Gate!vars,
       GateProofs!Next, GateProofs!Control, GateProofs!Worker, GateProofs!Start,
       GateProofs!Stop, GateProofs!Inspect, GateProofs!Create, GateProofs!Delete,
       GateProofs!Raise, GateProofs!Look, GateProofs!Leave, GateProofs!Idle,
       GateProofs!Workers, GateProofs!vars, at

(* What is proved of every user of the gate, said of the driver: once a    *)
(* pass found every slot idle, no task is inside.                          *)
THEOREM GateHolds == Spec => []GateProofs!IdleMeansNoneInside
<1>1. Spec => GateProofs!Spec
  BY Refinement, SameInit, SameNext, PTL DEF GateIsKept, Gate!Spec, GateProofs!Spec
<1>2. TaskCount \in Nat \ {0}
  BY DEF TaskCount
<1>3. GateProofs!Spec => []GateProofs!IdleMeansNoneInside
  BY <1>2, GateProofs!Exclusion
<1> QED
  BY <1>1, <1>3, PTL

-----------------------------------------------------------------------------
(* A task that is outside, or has not yet taken a buffer, owns none; nor   *)
(* does the render task once it has queued what it mixed.                  *)
HandsEmpty ==
  /\ pc \in [Tasks -> Places]
  /\ hand = [t \in Tasks |-> hand[t]]
  /\ \A t \in Tasks :
       pc[t] \in Outside \cup {"receive", "leaving"} => hand[t] = NoBuffer
  /\ pc[Render] \in {"callback", "mixing", "mixed", "unlock", "rendered"} /\ renderQueued
       => hand[Render] = NoBuffer

(* The render task's steps hand a buffer on exactly when it leaves it. *)
LEMMA RenderHand == HandsEmpty /\ AudioThread => HandsEmpty'
<1> SUFFICES ASSUME HandsEmpty, AudioThread PROVE HandsEmpty'
  OBVIOUS
<1> USE DEF HandsEmpty, Places, Outside, RenderPlaces, WriterPlaces, NoBuffer,
        Tasks, Render, Writer, Goto, bufferVars
<1>1. CASE Raise(Render)
  BY <1>1 DEF Raise
<1>2. CASE Look(Render)
  BY <1>2 DEF Look
<1>3. CASE Leave(Render)
  BY <1>3 DEF Leave
<1>4. CASE ReceiveFree
  BY <1>4 DEF ReceiveFree
<1>5. CASE Reserve
  BY <1>5 DEF Reserve, ReturnBuffer
<1>6. CASE LockForRender
  BY <1>6 DEF LockForRender
<1>7. CASE GetOutputBuffer
  BY <1>7 DEF GetOutputBuffer
<1>8. CASE AddBuffer
  BY <1>8 DEF AddBuffer
<1>9. CASE UnlockAfterRender
  BY <1>9 DEF UnlockAfterRender
<1>10. CASE FinishRender
  BY <1>10 DEF FinishRender, ReturnBuffer
<1> QED
  BY <1>1, <1>2, <1>3, <1>4, <1>5, <1>6, <1>7, <1>8, <1>9, <1>10
  DEF AudioThread, AtGate

(* The writer's steps give back the buffer they took. *)
LEMMA WriterHand == HandsEmpty /\ I2SThread => HandsEmpty'
<1> SUFFICES ASSUME HandsEmpty, I2SThread PROVE HandsEmpty'
  OBVIOUS
<1> USE DEF HandsEmpty, Places, Outside, RenderPlaces, WriterPlaces, NoBuffer,
        Tasks, Render, Writer, Goto, bufferVars
<1>1. CASE Raise(Writer)
  BY <1>1 DEF Raise
<1>2. CASE Look(Writer)
  BY <1>2 DEF Look
<1>3. CASE Leave(Writer)
  BY <1>3 DEF Leave
<1>4. CASE ReceiveFilled
  BY <1>4 DEF ReceiveFilled
<1>5. CASE Starve
  BY <1>5 DEF Starve
<1>6. CASE CheckRunning
  BY <1>6 DEF CheckRunning, ReleasePlayed, ReturnBuffer
<1>7. CASE Write
  BY <1>7 DEF Write, ReleasePlayed, ReturnBuffer
<1> QED
  BY <1>1, <1>2, <1>3, <1>4, <1>5, <1>6, <1>7 DEF I2SThread, AtGate

(* The owner gives no task a buffer, and a task it creates or deletes is   *)
(* one that holds none.                                                    *)
LEMMA OwnerHand ==
  ASSUME HandsEmpty, Lifecycle, Owner,
         step \in Alone => \A t \in Tasks : pc[t] \in Outside
  PROVE  HandsEmpty'
<1> USE DEF HandsEmpty, Places, Outside, NoBuffer, Tasks, Render, Writer, Goto,
        bufferVars, Alone
<1>1. CASE LockForCommand \/ UnlockAfterCommand \/ InitDriver
  BY <1>1 DEF LockForCommand, UnlockAfterCommand, InitDriver
<1>2. CASE CreateRender
  BY <1>2 DEF CreateRender, Lifecycle
<1>3. CASE CreateWriter
  BY <1>3 DEF CreateWriter, Lifecycle
<1>4. CASE CallStart \/ CallStop \/ CallClose
  BY <1>4 DEF CallStart, CallStop, CallClose
<1>5. CASE CloseGate \/ WakeFree \/ WakeFilled
  BY <1>5 DEF CloseGate, WakeFree, WakeFilled
<1>6. CASE InspectSlot
  BY <1>6 DEF InspectSlot
<1>7. CASE ResetAndStart
  BY <1>7 DEF ResetAndStart
<1>8. CASE DeleteRender
  BY <1>8 DEF DeleteRender, Delete
<1>9. CASE DeleteWriter
  BY <1>9 DEF DeleteWriter, Delete
<1>10. CASE DeleteQueues
  BY <1>10 DEF DeleteQueues
<1> QED
  BY <1>1, <1>2, <1>3, <1>4, <1>5, <1>6, <1>7, <1>8, <1>9, <1>10
  DEF Owner, InsideOperation

(* While the owner resets or deletes, no task is inside. *)
Emptied == step \in Alone => \A t \in Tasks : pc[t] \in Outside

(* The gate's exclusion, said of the owner's steps and of the tasks' hands.*)
THEOREM OwnerWaits == Spec => [](Emptied /\ HandsEmpty)
<1>1. GateProofs!IdleMeansNoneInside /\ OwnerDiscipline => Emptied
  <2> SUFFICES ASSUME GateProofs!IdleMeansNoneInside, OwnerDiscipline,
                      step \in Alone, NEW t \in Tasks
               PROVE  pc[t] \in Outside
    BY DEF Emptied
  <2>1. seen = TaskCount
    BY DEF OwnerDiscipline
  <2>2. t \in GateProofs!Workers
    BY DEF GateProofs!Workers, Tasks, Render, Writer, TaskCount
  <2>3. at[t] # "in"
    BY <2>1, <2>2 DEF GateProofs!IdleMeansNoneInside, GateProofs!Idle, at
  <2> QED
    BY <2>3 DEF at
<1>2. Init => HandsEmpty
  BY DEF Init, HandsEmpty, Places, Outside, Tasks, Render, Writer
<1>3. HandsEmpty /\ Lifecycle /\ Emptied /\ [Next]_vars => HandsEmpty'
  <2>1. HandsEmpty /\ UNCHANGED vars => HandsEmpty'
    BY DEF HandsEmpty, vars, bufferVars
  <2> QED
    BY <2>1, RenderHand, WriterHand, OwnerHand DEF Next, Emptied
<1> QED
  BY <1>1, <1>2, <1>3, GateHolds, Discipline, TasksAreTracked, PTL DEF Spec

(* "Control calls Stop(), wakes blocked queues, and waits for IsIdle()     *)
(* before resetting buffers or deleting tasks": while the owner does, no   *)
(* task is inside and none holds a buffer, however many buffers there are. *)
THEOREM Exclusion == Spec => []OwnerIsAlone
<1>1. HandsEmpty /\ Emptied => OwnerIsAlone
  BY DEF HandsEmpty, Emptied, OwnerIsAlone, Alone
<1> QED
  BY <1>1, OwnerWaits, PTL

-----------------------------------------------------------------------------
(* Where the buffers are.  A queue is looked at through what is in it and  *)
(* whether a buffer is in it twice, never through positions.               *)
Indices == 0 .. BufferCount  \* what the queues carry: buffers and wake tokens

In(q, x) == \E i \in 1 .. Len(q) : q[i] = x

Distinct(q) ==
  \A i, j \in 1 .. Len(q) : q[i] = q[j] /\ q[i] # WakeToken => i = j

Rendering == {"callback", "mixing", "mixed", "unlock", "rendered"}

BufferType ==
  /\ free \in Seq(Indices) /\ filled \in Seq(Indices)
  /\ hand \in [Tasks -> Buffers \cup {NoBuffer}]
  /\ sized \subseteq Buffers
  /\ renderIndex \in Buffers \cup {NoBuffer}
  /\ renderQueued \in BOOLEAN

(* A task that has taken a buffer owns it until it gives it back; what the *)
(* render task reserved is what it owns.                                   *)
TaskHolds ==
  /\ pc[Render] = "got" => hand[Render] # NoBuffer
  /\ pc[Render] \in Rendering /\ ~renderQueued
       => hand[Render] = renderIndex /\ renderIndex # NoBuffer
  /\ pc[Writer] \in {"got", "write"} => hand[Writer] # NoBuffer

(* No buffer is in two places, open gate or not. *)
NoneTwice ==
  /\ Distinct(free) /\ Distinct(filled)
  /\ \A b \in Buffers : ~(In(free, b) /\ In(filled, b))
  /\ \A t \in Tasks : ~In(free, hand[t]) /\ ~In(filled, hand[t])
  /\ hand[Render] = hand[Writer] => hand[Render] = NoBuffer

(* What waits to be played, or is being played, has a size. *)
QueuedIsSized ==
  \A b \in Buffers : In(filled, b) \/ hand[Writer] = b => b \in sized

(* The gate is open only from the end of a start to the next stop. *)
OpenWhilePlaying ==
  running => driver = "playing" /\ step \in {"idle", "command", "stop"}

(* While the gate is open every buffer is somewhere, and no wake token is. *)
AllThere ==
  running => /\ \A b \in Buffers :
                  In(free, b) \/ In(filled, b) \/ \E t \in Tasks : hand[t] = b
             /\ ~In(free, WakeToken) /\ ~In(filled, WakeToken)

BuffersKept ==
  /\ BufferType
  /\ TaskHolds
  /\ NoneTwice
  /\ QueuedIsSized
  /\ OpenWhilePlaying
  /\ AllThere

(* Taking the first of a queue takes nothing else out of it. *)
LEMMA TakeEffect ==
  ASSUME NEW q \in Seq(Indices), q # <<>>, Distinct(q)
  PROVE  /\ Tail(q) \in Seq(Indices)
         /\ Head(q) \in Indices
         /\ Distinct(Tail(q))
         /\ In(q, Head(q))
         /\ \A x : In(q, x) <=> In(Tail(q), x) \/ x = Head(q)
         /\ Head(q) # WakeToken => ~In(Tail(q), Head(q))
<1>1. /\ Tail(q) \in Seq(Indices) /\ Head(q) \in Indices
      /\ Len(Tail(q)) = Len(q) - 1
      /\ \A i \in 1 .. Len(Tail(q)) : Tail(q)[i] = q[i + 1]
  BY HeadTailProperties
<1>2. Len(q) \in Nat /\ Len(q) # 0
  BY EmptySeq, LenProperties
<1>3. Head(q) = q[1]
  BY SMT
<1>4. Distinct(Tail(q))
  <2> SUFFICES ASSUME NEW i \in 1 .. Len(Tail(q)), NEW j \in 1 .. Len(Tail(q)),
                      Tail(q)[i] = Tail(q)[j], Tail(q)[i] # WakeToken
               PROVE  i = j
    BY DEF Distinct
  <2>1. i + 1 \in 1 .. Len(q) /\ j + 1 \in 1 .. Len(q)
    BY <1>1, <1>2
  <2>2. i + 1 = j + 1
    BY <1>1, <2>1 DEF Distinct
  <2> QED
    BY <2>2
<1>5. In(q, Head(q))
  BY <1>2, <1>3 DEF In
<1>6. ASSUME NEW x PROVE In(q, x) <=> In(Tail(q), x) \/ x = Head(q)
  <2>1. ASSUME NEW i \in 1 .. Len(q), q[i] = x, i # 1 PROVE In(Tail(q), x)
    <3>1. i - 1 \in 1 .. Len(Tail(q)) /\ Tail(q)[i - 1] = q[i]
      BY <1>1, <1>2, <2>1
    <3> QED
      BY <2>1, <3>1 DEF In
  <2>2. ASSUME NEW i \in 1 .. Len(Tail(q)), Tail(q)[i] = x PROVE In(q, x)
    <3>1. i + 1 \in 1 .. Len(q) /\ q[i + 1] = x
      BY <1>1, <1>2, <2>2
    <3> QED
      BY <3>1 DEF In
  <2>3. In(q, x) => In(Tail(q), x) \/ x = Head(q)
    BY <1>3, <2>1 DEF In
  <2>4. In(Tail(q), x) => In(q, x)
    BY <2>2 DEF In
  <2> QED
    BY <1>5, <2>3, <2>4
<1>7. ASSUME Head(q) # WakeToken PROVE ~In(Tail(q), Head(q))
  <2> SUFFICES ASSUME NEW i \in 1 .. Len(Tail(q)), Tail(q)[i] = Head(q)
               PROVE  FALSE
    BY DEF In
  <2>1. i + 1 \in 1 .. Len(q) /\ 1 \in 1 .. Len(q) /\ q[i + 1] = q[1]
    BY <1>1, <1>2, <1>3
  <2>2. i + 1 = 1
    BY <1>3, <1>7, <2>1 DEF Distinct
  <2> QED
    BY <2>2
<1> QED
  BY <1>1, <1>4, <1>5, <1>6, <1>7

(* Appending adds what is appended and nothing else. *)
LEMMA AppendEffect ==
  ASSUME NEW q \in Seq(Indices), NEW x \in Indices, Distinct(q),
         x # WakeToken => ~In(q, x)
  PROVE  /\ Append(q, x) \in Seq(Indices)
         /\ Distinct(Append(q, x))
         /\ \A y : In(Append(q, x), y) <=> In(q, y) \/ y = x
<1> DEFINE r == Append(q, x)
<1>1. /\ r \in Seq(Indices) /\ Len(r) = Len(q) + 1 /\ r[Len(q) + 1] = x
      /\ \A i \in 1 .. Len(q) : r[i] = q[i]
  BY AppendProperties
<1>2. Len(q) \in Nat
  BY LenProperties
<1> HIDE DEF r
<1>3. \A i \in 1 .. Len(r) : i \in 1 .. Len(q) \/ i = Len(q) + 1
  BY <1>1, <1>2
<1>4. 1 .. Len(q) \subseteq 1 .. Len(r) /\ Len(q) + 1 \in 1 .. Len(r)
  BY <1>1, <1>2
<1>5. Distinct(r)
  <2> SUFFICES ASSUME NEW i \in 1 .. Len(r), NEW j \in 1 .. Len(r),
                      r[i] = r[j], r[i] # WakeToken
               PROVE  i = j
    BY DEF Distinct
  <2>1. CASE i \in 1 .. Len(q) /\ j \in 1 .. Len(q)
    BY <1>1, <2>1 DEF Distinct
  <2>2. CASE i = Len(q) + 1 /\ j = Len(q) + 1
    BY <2>2
  <2>3. CASE i \in 1 .. Len(q) /\ j = Len(q) + 1
    BY <1>1, <2>3 DEF In
  <2>4. CASE i = Len(q) + 1 /\ j \in 1 .. Len(q)
    BY <1>1, <2>4 DEF In
  <2> QED
    BY <1>3, <2>1, <2>2, <2>3, <2>4
<1>6. \A y : In(r, y) <=> In(q, y) \/ y = x
  BY <1>1, <1>3, <1>4 DEF In
<1> QED
  BY <1>1, <1>5, <1>6 DEF r

(* A send adds what it is given, or nothing when the queue is full. *)
LEMMA SendEffect ==
  ASSUME NEW q \in Seq(Indices), NEW x \in Indices, Distinct(q),
         x # WakeToken => ~In(q, x)
  PROVE  /\ Sent(q, x) \in Seq(Indices)
         /\ Distinct(Sent(q, x))
         /\ \A y : In(Sent(q, x), y) => In(q, y) \/ y = x
         /\ \A y : In(q, y) => In(Sent(q, x), y)
BY AppendEffect DEF Sent

(* A queue that holds no wake token, and not this buffer, has room for it: *)
(* there are as many slots as buffers.                                     *)
LEMMA RoomEffect ==
  ASSUME NEW q \in Seq(Indices), Distinct(q), ~In(q, WakeToken),
         NEW b \in Buffers, ~In(q, b)
  PROVE  Len(q) < BufferCount
<1> SUFFICES ASSUME ~(Len(q) < BufferCount) PROVE FALSE
  OBVIOUS
<1>1. Len(q) \in Nat /\ BufferCount \in Nat
  BY LenProperties, BufferCountAssumption
<1>2. IsFiniteSet(1 .. Len(q)) /\ Cardinality(1 .. Len(q)) = Len(q)
  <2>1. 1 \in Int /\ Len(q) \in Int
    BY <1>1
  <2>2. /\ IsFiniteSet(1 .. Len(q))
        /\ Cardinality(1 .. Len(q)) = IF 1 > Len(q) THEN 0 ELSE Len(q) - 1 + 1
    BY <2>1, FS_Interval
  <2> QED
    BY <1>1, <2>2
<1>3. IsFiniteSet(Buffers) /\ Cardinality(Buffers) = BufferCount
  <2>1. BufferCount - 1 \in Int /\ ~(0 > BufferCount - 1)
    BY <1>1, BufferCountAssumption
  <2>2. BufferCount - 1 - 0 + 1 = BufferCount
    BY <1>1
  <2> QED
    BY <2>1, <2>2, FS_Interval DEF Buffers
<1>4. IsFiniteSet(Buffers \ {b}) /\ Cardinality(Buffers \ {b}) = BufferCount - 1
  BY <1>3, FS_RemoveElement
<1>5. \A i \in 1 .. Len(q) : q[i] \in Buffers \ {b}
  <2> SUFFICES ASSUME NEW i \in 1 .. Len(q) PROVE q[i] \in Buffers \ {b}
    OBVIOUS
  <2>1. q[i] \in Indices /\ q[i] # WakeToken /\ q[i] # b
    BY ElementOfSeq DEF In
  <2> QED
    BY <1>1, <2>1 DEF Indices, Buffers, WakeToken
<1>6. q \in [1 .. Len(q) -> Buffers \ {b}]
  BY <1>5, LenProperties
<1>7. Cardinality(1 .. Len(q)) > Cardinality(Buffers \ {b})
  BY <1>1, <1>2, <1>4
<1>8. \E i, j \in 1 .. Len(q) : i # j /\ q[i] = q[j]
  BY <1>2, <1>4, <1>6, <1>7, FS_PigeonHole
<1> QED
  BY <1>5, <1>8 DEF Distinct, In

(* The free queue of a start holds every buffer once and nothing else.     *)
LEMMA AllFree ==
  ASSUME NEW q, q = [i \in 1 .. BufferCount |-> i - 1]
  PROVE  /\ q \in Seq(Indices) /\ Distinct(q)
         /\ \A b \in Buffers : In(q, b)
         /\ ~In(q, WakeToken) /\ ~In(q, NoBuffer)
<1> USE BufferCountAssumption
<1>1. q \in Seq(Indices)
  BY IsASeq DEF Indices
<1>2. Len(q) = BufferCount
  OBVIOUS
<1>3. Distinct(q)
  BY <1>2 DEF Distinct
<1>4. ASSUME NEW b \in Buffers PROVE In(q, b)
  <2>1. b + 1 \in 1 .. Len(q) /\ q[b + 1] = b
    BY <1>2 DEF Buffers
  <2> QED
    BY <2>1 DEF In
<1>5. ~In(q, WakeToken) /\ ~In(q, NoBuffer)
  BY <1>2 DEF In, WakeToken, NoBuffer
<1> QED
  BY <1>1, <1>3, <1>4, <1>5

(* An empty queue holds nothing. *)
LEMMA NoneIn == <<>> \in Seq(Indices) /\ Distinct(<<>>) /\ \A x : ~In(<<>>, x)
BY EmptySeq DEF Distinct, In

(* What the numbers mean: NoBuffer and the wake token are no buffers, and  *)
(* the queues never carry NoBuffer.                                        *)
LEMMA TokensAreNoBuffers ==
  /\ Buffers \subseteq Indices
  /\ WakeToken \in Indices /\ WakeToken \notin Buffers
  /\ NoBuffer \notin Indices /\ NoBuffer \notin Buffers
  /\ \A x \in Indices : x # WakeToken => x \in Buffers
  /\ \A q \in Seq(Indices) : ~In(q, NoBuffer)
<1> USE BufferCountAssumption DEF Indices, Buffers, WakeToken, NoBuffer
<1>1. \A q \in Seq(Indices) : ~In(q, NoBuffer)
  BY ElementOfSeq DEF In
<1> QED
  BY <1>1

-----------------------------------------------------------------------------
(* How a task lets go of its buffer: back on the free queue, where there   *)
(* is room for it as long as the gate is open.                             *)
LEMMA ReturnEffect ==
  ASSUME BufferType, NoneTwice, NEW t \in Tasks, hand[t] # NoBuffer,
         ReturnBuffer(t)
  PROVE  /\ hand[t] \in Buffers
         /\ free' \in Seq(Indices) /\ Distinct(free')
         /\ \A x : In(free', x) => In(free, x) \/ x = hand[t]
         /\ \A x : In(free, x) => In(free', x)
         /\ ~In(free, WakeToken) => In(free', hand[t])
         /\ hand' = [hand EXCEPT ![t] = NoBuffer]
<1>1. hand[t] \in Buffers
  BY DEF BufferType
<1>2. hand[t] \in Indices /\ ~In(free, hand[t]) /\ Distinct(free) /\ free \in Seq(Indices)
  BY <1>1, TokensAreNoBuffers DEF BufferType, NoneTwice
<1>3. free' = Sent(free, hand[t]) /\ hand' = [hand EXCEPT ![t] = NoBuffer]
  BY DEF ReturnBuffer
<1>4. ~In(free, WakeToken) => In(free', hand[t])
  BY <1>1, <1>2, <1>3, RoomEffect, AppendEffect DEF Sent
<1> QED
  BY <1>1, <1>2, <1>3, <1>4, SendEffect

(* The steps that move no buffer keep what is known of them. *)
BuffersUnmoved ==
  /\ UNCHANGED <<hand, free, filled, sized, renderIndex, renderQueued>>
  /\ running' => running /\ driver' = driver /\ step' \in {"idle", "command", "stop"}

(* Then it is enough that the tasks are still where they hold what they do.*)
LEMMA UnmovedKeeps ==
  ASSUME BuffersKept, BuffersUnmoved, TaskHolds'
  PROVE  BuffersKept'
BY DEF BuffersKept, BufferType, NoneTwice, QueuedIsSized, OpenWhilePlaying, AllThere,
       BuffersUnmoved

(* At the gate neither task moves a buffer. *)
LEMMA GateBuffers ==
  ASSUME BuffersKept, OwnerDiscipline, NEW t \in Tasks, AtGate(t)
  PROVE  BuffersKept'
<1>1. BuffersUnmoved
  BY DEF AtGate, Raise, Look, Leave, BuffersUnmoved, bufferVars, gateVars, controlVars,
         BuffersKept, OpenWhilePlaying
<1>2. \E place \in {"raised", "receive", "refused", "out"} : Goto(t, place)
  BY DEF AtGate, Raise, Look, Leave
<1>3. UNCHANGED <<hand, renderIndex, renderQueued>>
  BY <1>1 DEF BuffersUnmoved
<1>4. TaskHolds'
  BY <1>2, <1>3 DEF BuffersKept, TaskHolds, OwnerDiscipline, Goto, Rendering
<1> QED
  BY <1>1, <1>4, UnmovedKeeps

(* Nor does the render task while it takes and gives the mixer lock.       *)
LEMMA MixerBuffers ==
  ASSUME BuffersKept, OwnerDiscipline,
         LockForRender \/ GetOutputBuffer \/ UnlockAfterRender
  PROVE  BuffersKept'
<1>1. BuffersUnmoved
  BY DEF LockForRender, GetOutputBuffer, UnlockAfterRender, BuffersUnmoved, bufferVars,
         gateVars, controlVars, BuffersKept, OpenWhilePlaying
<1>2. pc[Render] \in Rendering /\ \E place \in Rendering : Goto(Render, place)
  BY DEF LockForRender, GetOutputBuffer, UnlockAfterRender, Rendering
<1>3. UNCHANGED <<hand, renderIndex, renderQueued>>
  BY <1>1 DEF BuffersUnmoved
<1>4. TaskHolds'
  BY <1>2, <1>3
  DEF BuffersKept, TaskHolds, OwnerDiscipline, Goto, Rendering, Tasks, Render, Writer
<1> QED
  BY <1>1, <1>4, UnmovedKeeps

(* The writer that finds nothing to play moves nothing. *)
LEMMA StarveBuffers ==
  ASSUME BuffersKept, OwnerDiscipline, Starve
  PROVE  BuffersKept'
<1>1. BuffersUnmoved /\ Goto(Writer, "leaving")
  BY DEF Starve, BuffersUnmoved, bufferVars, gateVars, controlVars, BuffersKept,
         OpenWhilePlaying
<1>2. UNCHANGED <<hand, renderIndex, renderQueued>>
  BY <1>1 DEF BuffersUnmoved
<1>3. TaskHolds'
  BY <1>1, <1>2
  DEF BuffersKept, TaskHolds, OwnerDiscipline, Goto, Rendering, Tasks, Render, Writer
<1> QED
  BY <1>1, <1>3, UnmovedKeeps

(* Taking a buffer moves it from the free queue to the render task.        *)
LEMMA ReceiveFreeBuffers ==
  ASSUME BuffersKept, OwnerDiscipline, HandsEmpty, ReceiveFree
  PROVE  BuffersKept'
<1> DEFINE first == Head(free)
<1>1. /\ free \in Seq(Indices) /\ free # <<>> /\ Distinct(free)
      /\ free' = Tail(free)
      /\ UNCHANGED <<running, driver, step, filled, sized, renderIndex, renderQueued>>
  BY DEF ReceiveFree, BuffersKept, BufferType, NoneTwice, gateVars, controlVars
<1>2. /\ free' \in Seq(Indices) /\ first \in Indices /\ Distinct(free')
      /\ In(free, first)
      /\ \A x : In(free, x) <=> In(free', x) \/ x = first
      /\ first # WakeToken => ~In(free', first)
  BY <1>1, TakeEffect
<1>3. hand[Render] = NoBuffer /\ pc[Render] = "receive"
  BY DEF HandsEmpty, ReceiveFree, Tasks
<1>4. pc \in [Tasks -> Places] /\ hand \in [Tasks -> Buffers \cup {NoBuffer}]
  BY DEF OwnerDiscipline, BuffersKept, BufferType
<1>5. CASE first = WakeToken
  <2>1. hand' = hand /\ Goto(Render, "leaving")
    BY <1>5 DEF ReceiveFree
  <2>2. ~running
    BY <1>2, <1>5 DEF BuffersKept, AllThere
  <2>3. TaskHolds'
    BY <1>1, <1>4, <2>1
    DEF BuffersKept, TaskHolds, Goto, Rendering, Tasks, Render, Writer
  <2>4. NoneTwice' /\ QueuedIsSized'
    BY <1>1, <1>2, <2>1 DEF BuffersKept, NoneTwice, QueuedIsSized
  <2> QED
    BY <1>1, <1>2, <2>1, <2>2, <2>3, <2>4
    DEF BuffersKept, BufferType, OpenWhilePlaying, AllThere
<1>6. CASE first # WakeToken
  <2>1. first \in Buffers
    BY <1>2, <1>6, TokensAreNoBuffers
  <2>2. hand' = [hand EXCEPT ![Render] = first] /\ Goto(Render, "got")
    BY <1>6 DEF ReceiveFree
  <2>3. /\ hand'[Render] = first /\ hand'[Writer] = hand[Writer]
        /\ hand' \in [Tasks -> Buffers \cup {NoBuffer}]
        /\ pc'[Render] = "got" /\ pc'[Writer] = pc[Writer]
    BY <1>4, <2>1, <2>2 DEF Goto, Tasks, Render, Writer
  <2>4. TaskHolds'
    BY <1>1, <2>1, <2>3, TokensAreNoBuffers DEF BuffersKept, TaskHolds, Rendering
  <2>5. NoneTwice'
    <3>1. hand[Writer] # first /\ ~In(filled, first)
      BY <1>2, <2>1 DEF BuffersKept, NoneTwice, Tasks
    <3>2. ~In(free', first) /\ ~In(free', hand[Writer]) /\ ~In(filled, hand[Writer])
      BY <1>2, <1>6 DEF BuffersKept, NoneTwice, Tasks
    <3>3. \A t \in Tasks : ~In(free', hand'[t]) /\ ~In(filled', hand'[t])
      BY <1>1, <2>3, <3>1, <3>2 DEF Tasks
    <3>4. \A b \in Buffers : ~(In(free', b) /\ In(filled', b))
      BY <1>1, <1>2 DEF BuffersKept, NoneTwice
    <3> QED
      BY <1>1, <1>2, <2>3, <3>1, <3>3, <3>4 DEF BuffersKept, NoneTwice
  <2>6. QueuedIsSized'
    BY <1>1, <2>3 DEF BuffersKept, QueuedIsSized
  <2>7. AllThere'
    <3> SUFFICES ASSUME running
                 PROVE  /\ \A b \in Buffers : \/ In(free', b) \/ In(filled, b)
                                              \/ \E t \in Tasks : hand'[t] = b
                        /\ ~In(free', WakeToken) /\ ~In(filled, WakeToken)
      BY <1>1 DEF AllThere
    <3>1. ASSUME NEW b \in Buffers
          PROVE  \/ In(free', b) \/ In(filled, b) \/ \E t \in Tasks : hand'[t] = b
      <4>1. In(free, b) \/ In(filled, b) \/ hand[Render] = b \/ hand[Writer] = b
        BY DEF BuffersKept, AllThere, Tasks
      <4> QED
        BY <1>2, <1>3, <2>3, <4>1, TokensAreNoBuffers DEF Tasks
    <3> QED
      BY <1>2, <3>1 DEF BuffersKept, AllThere
  <2> QED
    BY <1>1, <1>2, <2>3, <2>4, <2>5, <2>6, <2>7
    DEF BuffersKept, BufferType, OpenWhilePlaying
<1> QED
  BY <1>5, <1>6

(* Taking a buffer to play moves it from the filled queue to the writer.   *)
LEMMA ReceiveFilledBuffers ==
  ASSUME BuffersKept, OwnerDiscipline, HandsEmpty, ReceiveFilled
  PROVE  BuffersKept'
<1> DEFINE first == Head(filled)
<1>1. /\ filled \in Seq(Indices) /\ filled # <<>> /\ Distinct(filled)
      /\ filled' = Tail(filled)
      /\ UNCHANGED <<running, driver, step, free, sized, renderIndex, renderQueued>>
  BY DEF ReceiveFilled, BuffersKept, BufferType, NoneTwice, gateVars, controlVars
<1>2. /\ filled' \in Seq(Indices) /\ first \in Indices /\ Distinct(filled')
      /\ In(filled, first)
      /\ \A x : In(filled, x) <=> In(filled', x) \/ x = first
      /\ first # WakeToken => ~In(filled', first)
  BY <1>1, TakeEffect
<1>3. hand[Writer] = NoBuffer /\ pc[Writer] = "receive"
  BY DEF HandsEmpty, ReceiveFilled, Tasks
<1>4. pc \in [Tasks -> Places] /\ hand \in [Tasks -> Buffers \cup {NoBuffer}]
  BY DEF OwnerDiscipline, BuffersKept, BufferType
<1>5. CASE first = WakeToken
  <2>1. hand' = hand /\ Goto(Writer, "leaving")
    BY <1>5 DEF ReceiveFilled
  <2>2. ~running
    BY <1>2, <1>5 DEF BuffersKept, AllThere
  <2>3. TaskHolds'
    BY <1>1, <1>4, <2>1
    DEF BuffersKept, TaskHolds, Goto, Rendering, Tasks, Render, Writer
  <2>4. NoneTwice' /\ QueuedIsSized'
    BY <1>1, <1>2, <2>1 DEF BuffersKept, NoneTwice, QueuedIsSized
  <2> QED
    BY <1>1, <1>2, <2>1, <2>2, <2>3, <2>4
    DEF BuffersKept, BufferType, OpenWhilePlaying, AllThere
<1>6. CASE first # WakeToken
  <2>1. first \in Buffers
    BY <1>2, <1>6, TokensAreNoBuffers
  <2>2. hand' = [hand EXCEPT ![Writer] = first] /\ Goto(Writer, "got")
    BY <1>6 DEF ReceiveFilled
  <2>3. /\ hand'[Writer] = first /\ hand'[Render] = hand[Render]
        /\ hand' \in [Tasks -> Buffers \cup {NoBuffer}]
        /\ pc'[Writer] = "got" /\ pc'[Render] = pc[Render]
    BY <1>4, <2>1, <2>2 DEF Goto, Tasks, Render, Writer
  <2>4. TaskHolds'
    BY <1>1, <2>1, <2>3, TokensAreNoBuffers DEF BuffersKept, TaskHolds, Rendering
  <2>5. NoneTwice'
    <3>1. hand[Render] # first /\ ~In(free, first)
      BY <1>2, <2>1 DEF BuffersKept, NoneTwice, Tasks
    <3>2. ~In(filled', first) /\ ~In(filled', hand[Render]) /\ ~In(free, hand[Render])
      BY <1>2, <1>6 DEF BuffersKept, NoneTwice, Tasks
    <3>3. \A t \in Tasks : ~In(free', hand'[t]) /\ ~In(filled', hand'[t])
      BY <1>1, <2>3, <3>1, <3>2 DEF Tasks
    <3>4. \A b \in Buffers : ~(In(free', b) /\ In(filled', b))
      BY <1>1, <1>2 DEF BuffersKept, NoneTwice
    <3> QED
      BY <1>1, <1>2, <2>3, <3>1, <3>3, <3>4 DEF BuffersKept, NoneTwice
  <2>6. QueuedIsSized'
    BY <1>1, <1>2, <2>3 DEF BuffersKept, QueuedIsSized
  <2>7. AllThere'
    <3> SUFFICES ASSUME running
                 PROVE  /\ \A b \in Buffers : \/ In(free, b) \/ In(filled', b)
                                              \/ \E t \in Tasks : hand'[t] = b
                        /\ ~In(free, WakeToken) /\ ~In(filled', WakeToken)
      BY <1>1 DEF AllThere
    <3>1. ASSUME NEW b \in Buffers
          PROVE  \/ In(free, b) \/ In(filled', b) \/ \E t \in Tasks : hand'[t] = b
      <4>1. In(free, b) \/ In(filled, b) \/ hand[Render] = b \/ hand[Writer] = b
        BY DEF BuffersKept, AllThere, Tasks
      <4> QED
        BY <1>2, <1>3, <2>3, <4>1, TokensAreNoBuffers DEF Tasks
    <3> QED
      BY <1>2, <3>1 DEF BuffersKept, AllThere
  <2> QED
    BY <1>1, <1>2, <2>3, <2>4, <2>5, <2>6, <2>7
    DEF BuffersKept, BufferType, OpenWhilePlaying
<1> QED
  BY <1>5, <1>6

(* A task that gives its buffer back, with its size if it had one, leaves  *)
(* it on the free queue alone.                                             *)
LEMMA GiveBackKeeps ==
  ASSUME BuffersKept, NEW t \in Tasks, hand[t] # NoBuffer, ReturnBuffer(t),
         sized' \in {sized, sized \ {hand[t]}},
         renderIndex' \in Buffers \cup {NoBuffer}, renderQueued' \in BOOLEAN,
         UNCHANGED <<running, driver, step, filled>>,
         TaskHolds'
  PROVE  BuffersKept'
<1>1. /\ hand[t] \in Buffers
      /\ free' \in Seq(Indices) /\ Distinct(free')
      /\ \A x : In(free', x) => In(free, x) \/ x = hand[t]
      /\ \A x : In(free, x) => In(free', x)
      /\ ~In(free, WakeToken) => In(free', hand[t])
      /\ hand' = [hand EXCEPT ![t] = NoBuffer]
  BY ReturnEffect DEF BuffersKept
<1>2. hand \in [Tasks -> Buffers \cup {NoBuffer}]
  BY DEF BuffersKept, BufferType
<1>3. /\ hand'[t] = NoBuffer /\ hand' \in [Tasks -> Buffers \cup {NoBuffer}]
      /\ \A u \in Tasks \ {t} : hand'[u] = hand[u]
  BY <1>1, <1>2
<1>4. BufferType'
  BY <1>1, <1>3 DEF BuffersKept, BufferType
<1>5. \A u \in Tasks \ {t} : hand[u] # hand[t]
  BY <1>1, TokensAreNoBuffers DEF BuffersKept, NoneTwice, Tasks
<1>6. NoneTwice'
  <2>1. ~In(free', NoBuffer) /\ ~In(filled, NoBuffer)
    BY <1>1, TokensAreNoBuffers DEF BuffersKept, BufferType
  <2>2. \A u \in Tasks : ~In(free', hand'[u]) /\ ~In(filled', hand'[u])
    BY <1>1, <1>3, <1>5, <2>1 DEF BuffersKept, NoneTwice
  <2>3. \A b \in Buffers : ~(In(free', b) /\ In(filled', b))
    BY <1>1 DEF BuffersKept, NoneTwice
  <2>4. hand'[Render] = hand'[Writer] => hand'[Render] = NoBuffer
    BY <1>3 DEF Tasks, BuffersKept, NoneTwice
  <2> QED
    BY <1>1, <2>2, <2>3, <2>4 DEF BuffersKept, NoneTwice
<1>7. QueuedIsSized'
  <2> SUFFICES ASSUME NEW b \in Buffers, In(filled, b) \/ hand'[Writer] = b
               PROVE  b \in sized'
    BY DEF QueuedIsSized
  <2>1. b # hand[t]
    BY <1>3, <1>5, TokensAreNoBuffers DEF BuffersKept, NoneTwice, Tasks
  <2>2. b \in sized
    BY <1>3, TokensAreNoBuffers DEF BuffersKept, QueuedIsSized, Tasks
  <2> QED
    BY <2>1, <2>2
<1>8. AllThere'
  <2> SUFFICES ASSUME running
               PROVE  /\ \A b \in Buffers : \/ In(free', b) \/ In(filled, b)
                                            \/ \E u \in Tasks : hand'[u] = b
                      /\ ~In(free', WakeToken) /\ ~In(filled, WakeToken)
    BY DEF AllThere
  <2>1. ~In(free, WakeToken) /\ ~In(filled, WakeToken)
    BY DEF BuffersKept, AllThere
  <2>2. ~In(free', WakeToken)
    BY <1>1, <2>1, TokensAreNoBuffers
  <2>3. ASSUME NEW b \in Buffers
        PROVE  In(free', b) \/ In(filled, b) \/ \E u \in Tasks : hand'[u] = b
    <3>1. In(free, b) \/ In(filled, b) \/ \E u \in Tasks : hand[u] = b
      BY DEF BuffersKept, AllThere
    <3> QED
      BY <1>1, <1>3, <2>1, <3>1
  <2> QED
    BY <2>1, <2>2, <2>3
<1>9. OpenWhilePlaying'
  BY DEF BuffersKept, OpenWhilePlaying
<1> QED
  BY <1>4, <1>6, <1>7, <1>8, <1>9 DEF BuffersKept

(* What the render task reserves it owns; when the gate has closed while   *)
(* it waited it gives the buffer back.                                     *)
LEMMA ReserveBuffers ==
  ASSUME BuffersKept, OwnerDiscipline, Reserve
  PROVE  BuffersKept'
<1>1. /\ pc[Render] = "got" /\ hand[Render] # NoBuffer
      /\ hand \in [Tasks -> Buffers \cup {NoBuffer}] /\ pc \in [Tasks -> Places]
      /\ UNCHANGED <<running, driver, step, filled, sized>>
  BY DEF Reserve, BuffersKept, TaskHolds, BufferType, OwnerDiscipline, gateVars,
         controlVars
<1>2. CASE running
  <2>1. /\ renderIndex' = hand[Render] /\ renderQueued' = FALSE
        /\ Goto(Render, "callback") /\ hand' = hand /\ free' = free
    BY <1>2 DEF Reserve
  <2>2. TaskHolds'
    BY <1>1, <2>1 DEF BuffersKept, TaskHolds, Goto, Rendering, Tasks, Render, Writer
  <2>3. renderIndex' \in Buffers
    BY <1>1, <2>1 DEF Tasks
  <2> QED
    BY <1>1, <2>1, <2>2, <2>3
    DEF BuffersKept, BufferType, NoneTwice, QueuedIsSized, OpenWhilePlaying, AllThere
<1>3. CASE ~running
  <2>1. /\ ReturnBuffer(Render) /\ Goto(Render, "leaving")
        /\ UNCHANGED <<renderIndex, renderQueued>>
    BY <1>3 DEF Reserve
  <2>2. TaskHolds'
    BY <1>1, <2>1
    DEF BuffersKept, TaskHolds, ReturnBuffer, Goto, Rendering, Tasks, Render, Writer
  <2>3. renderIndex' \in Buffers \cup {NoBuffer} /\ renderQueued' \in BOOLEAN
    BY <2>1 DEF BuffersKept, BufferType
  <2> QED
    BY <1>1, <2>1, <2>2, <2>3, GiveBackKeeps DEF Tasks
<1> QED
  BY <1>2, <1>3

(* The end of a round: a reservation that was not queued is given back.    *)
LEMMA FinishRenderBuffers ==
  ASSUME BuffersKept, OwnerDiscipline, FinishRender
  PROVE  BuffersKept'
<1>1. /\ pc[Render] = "rendered" /\ Goto(Render, "leaving") /\ renderIndex' = NoBuffer
      /\ hand \in [Tasks -> Buffers \cup {NoBuffer}] /\ pc \in [Tasks -> Places]
      /\ renderQueued \in BOOLEAN
      /\ UNCHANGED <<running, driver, step, filled, renderQueued>>
  BY DEF FinishRender, BuffersKept, BufferType, OwnerDiscipline, gateVars, controlVars
<1>2. CASE renderQueued
  <2>1. hand' = hand /\ free' = free /\ sized' = sized
    BY <1>2 DEF FinishRender
  <2>2. TaskHolds'
    BY <1>1, <2>1 DEF BuffersKept, TaskHolds, Goto, Rendering, Tasks, Render, Writer
  <2> QED
    BY <1>1, <2>1, <2>2
    DEF BuffersKept, BufferType, NoneTwice, QueuedIsSized, OpenWhilePlaying, AllThere
<1>3. CASE ~renderQueued
  <2>1. ReturnBuffer(Render) /\ sized' = sized \ {renderIndex}
    BY <1>3 DEF FinishRender
  <2>2. hand[Render] = renderIndex /\ renderIndex # NoBuffer
    BY <1>1, <1>3 DEF BuffersKept, TaskHolds, Rendering
  <2>3. TaskHolds'
    BY <1>1, <2>1
    DEF BuffersKept, TaskHolds, ReturnBuffer, Goto, Rendering, Tasks, Render, Writer
  <2> QED
    BY <1>1, <2>1, <2>2, <2>3, GiveBackKeeps DEF Tasks
<1> QED
  BY <1>2, <1>3

(* The writer's buffer: played, or given back because the gate closed.     *)
LEMMA ReleaseBuffers ==
  ASSUME BuffersKept, OwnerDiscipline, CheckRunning \/ Write
  PROVE  BuffersKept'
<1>1. /\ pc[Writer] \in {"got", "write"} /\ hand[Writer] # NoBuffer
      /\ hand \in [Tasks -> Buffers \cup {NoBuffer}] /\ pc \in [Tasks -> Places]
      /\ renderIndex \in Buffers \cup {NoBuffer} /\ renderQueued \in BOOLEAN
      /\ UNCHANGED <<running, driver, step, filled, renderIndex, renderQueued>>
  BY DEF CheckRunning, Write, BuffersKept, TaskHolds, BufferType, OwnerDiscipline,
         gateVars, controlVars
<1>2. CASE ReleasePlayed
  <2>1. /\ sized' = sized \ {hand[Writer]} /\ ReturnBuffer(Writer)
        /\ Goto(Writer, "leaving")
    BY <1>2 DEF ReleasePlayed
  <2>2. TaskHolds'
    BY <1>1, <2>1
    DEF BuffersKept, TaskHolds, ReturnBuffer, Goto, Rendering, Tasks, Render, Writer
  <2> QED
    BY <1>1, <2>1, <2>2, GiveBackKeeps DEF Tasks
<1>3. CASE CheckRunning /\ running
  <2>1. Goto(Writer, "write") /\ UNCHANGED <<sized, hand, free>>
    BY <1>3 DEF CheckRunning
  <2>2. TaskHolds'
    BY <1>1, <2>1 DEF BuffersKept, TaskHolds, Goto, Rendering, Tasks, Render, Writer
  <2> QED
    BY <1>1, <2>1, <2>2
    DEF BuffersKept, BufferType, NoneTwice, QueuedIsSized, OpenWhilePlaying, AllThere
<1> QED
  BY <1>2, <1>3 DEF CheckRunning, Write

(* What was mixed goes to the filled queue with its size, or stays with    *)
(* the render task.                                                        *)
LEMMA AddBuffers ==
  ASSUME BuffersKept, OwnerDiscipline, AddBuffer
  PROVE  BuffersKept'
<1>1. /\ pc[Render] = "mixed" /\ Goto(Render, "unlock")
      /\ hand \in [Tasks -> Buffers \cup {NoBuffer}] /\ pc \in [Tasks -> Places]
      /\ UNCHANGED <<running, driver, step, free, renderIndex>>
  BY DEF AddBuffer, BuffersKept, BufferType, OwnerDiscipline, gateVars, controlVars
<1>2. CASE UNCHANGED <<filled, sized, renderQueued, hand>>
  <2>1. TaskHolds'
    BY <1>1, <1>2 DEF BuffersKept, TaskHolds, Goto, Rendering, Tasks, Render, Writer
  <2> QED
    BY <1>1, <1>2, <2>1
    DEF BuffersKept, BufferType, NoneTwice, QueuedIsSized, OpenWhilePlaying, AllThere
<1>3. CASE ~renderQueued /\ renderIndex \in Buffers
  <2>1. hand[Render] = renderIndex
    BY <1>1, <1>3 DEF BuffersKept, TaskHolds, Rendering
  <2>2. /\ ~In(free, renderIndex) /\ ~In(filled, renderIndex)
        /\ hand[Writer] # renderIndex /\ renderIndex # NoBuffer
    BY <1>3, <2>1, TokensAreNoBuffers DEF BuffersKept, NoneTwice, Tasks
  <2>3. CASE /\ filled' = Append(filled, renderIndex)
             /\ sized' = sized \cup {renderIndex}
             /\ renderQueued' = TRUE
             /\ hand' = [hand EXCEPT ![Render] = NoBuffer]
    <3>1. filled \in Seq(Indices) /\ Distinct(filled) /\ renderIndex \in Indices
      BY <1>3, TokensAreNoBuffers DEF BuffersKept, BufferType, NoneTwice
    <3>2. /\ filled' \in Seq(Indices) /\ Distinct(filled')
          /\ \A y : In(filled', y) <=> In(filled, y) \/ y = renderIndex
      BY <2>2, <2>3, <3>1, AppendEffect
    <3>3. /\ hand'[Render] = NoBuffer /\ hand'[Writer] = hand[Writer]
          /\ hand' \in [Tasks -> Buffers \cup {NoBuffer}]
      BY <1>1, <2>3 DEF Tasks, Render, Writer
    <3>4. BufferType'
      BY <1>1, <1>3, <2>3, <3>2, <3>3 DEF BuffersKept, BufferType
    <3>5. TaskHolds'
      BY <1>1, <2>3 DEF BuffersKept, TaskHolds, Goto, Rendering, Tasks, Render, Writer
    <3>6. NoneTwice'
      <4>1. ~In(free, NoBuffer) /\ ~In(filled', NoBuffer)
        BY <3>2, TokensAreNoBuffers DEF BuffersKept, BufferType
      <4>2. ~In(free, hand[Writer]) /\ ~In(filled', hand[Writer])
        BY <2>2, <3>2 DEF BuffersKept, NoneTwice, Tasks
      <4>3. \A t \in Tasks : ~In(free', hand'[t]) /\ ~In(filled', hand'[t])
        BY <1>1, <3>3, <4>1, <4>2 DEF Tasks
      <4>4. \A b \in Buffers : ~(In(free', b) /\ In(filled', b))
        BY <1>1, <2>2, <3>2 DEF BuffersKept, NoneTwice
      <4> QED
        BY <1>1, <3>2, <3>3, <4>3, <4>4 DEF BuffersKept, NoneTwice
    <3>7. QueuedIsSized'
      BY <2>3, <3>2, <3>3 DEF BuffersKept, QueuedIsSized
    <3>8. AllThere'
      <4> SUFFICES ASSUME running
                   PROVE  /\ \A b \in Buffers : \/ In(free, b) \/ In(filled', b)
                                                \/ \E t \in Tasks : hand'[t] = b
                          /\ ~In(free, WakeToken) /\ ~In(filled', WakeToken)
        BY <1>1 DEF AllThere
      <4>1. ~In(free, WakeToken) /\ ~In(filled', WakeToken)
        BY <1>3, <3>2, TokensAreNoBuffers DEF BuffersKept, AllThere
      <4>2. ASSUME NEW b \in Buffers
            PROVE  In(free, b) \/ In(filled', b) \/ \E t \in Tasks : hand'[t] = b
        <5>1. In(free, b) \/ In(filled, b) \/ hand[Render] = b \/ hand[Writer] = b
          BY DEF BuffersKept, AllThere, Tasks
        <5> QED
          BY <2>1, <3>2, <3>3, <5>1 DEF Tasks
      <4> QED
        BY <4>1, <4>2
    <3> QED
      BY <1>1, <3>4, <3>5, <3>6, <3>7, <3>8 DEF BuffersKept, OpenWhilePlaying
  <2>4. CASE /\ sized' = sized \ {renderIndex}
             /\ UNCHANGED <<filled, renderQueued, hand>>
    <3>1. TaskHolds'
      BY <1>1, <2>4 DEF BuffersKept, TaskHolds, Goto, Rendering, Tasks, Render, Writer
    <3>2. QueuedIsSized'
      BY <2>2, <2>4 DEF BuffersKept, QueuedIsSized
    <3> QED
      BY <1>1, <2>4, <3>1, <3>2
      DEF BuffersKept, BufferType, NoneTwice, OpenWhilePlaying, AllThere
  <2> QED
    BY <1>2, <2>3, <2>4 DEF AddBuffer
<1> QED
  BY <1>2, <1>3 DEF AddBuffer

(* The owner's steps outside the queues move no buffer.                    *)
LEMMA OwnerElsewhere ==
  ASSUME BuffersKept, OwnerDiscipline, Lifecycle, HandsEmpty,
         \/ LockForCommand \/ UnlockAfterCommand \/ CreateRender \/ CreateWriter
         \/ CallStart \/ CallStop \/ CallClose \/ CloseGate \/ InspectSlot
         \/ Emptied /\ (DeleteRender \/ DeleteWriter)
  PROVE  BuffersKept'
<1>1. UNCHANGED bufferVars
  BY DEF LockForCommand, UnlockAfterCommand, CreateRender, CreateWriter, CallStart,
         CallStop, CallClose, CloseGate, InspectSlot, DeleteRender, DeleteWriter, Delete
<1>2. ~running' \/ UNCHANGED running
  BY DEF LockForCommand, UnlockAfterCommand, CreateRender, CreateWriter, CallStart,
         CallStop, CallClose, CloseGate, InspectSlot, DeleteRender, DeleteWriter, Delete,
         gateVars
<1>3. running' => driver' = driver /\ step' \in {"idle", "command", "stop"}
  BY <1>2
  DEF LockForCommand, UnlockAfterCommand, CreateRender, CreateWriter, CallStart,
      CallStop, CallClose, CloseGate, InspectSlot, DeleteRender, DeleteWriter, Delete,
      Continue, Return, BuffersKept, OpenWhilePlaying, gateVars, controlVars
<1>4. \A t \in Tasks : pc'[t] = pc[t] \/ pc'[t] \in {"out", "gone"}
  <2>1. pc \in [Tasks -> Places]
    BY DEF OwnerDiscipline
  <2>2. pc' = pc \/ \E t \in Tasks : Goto(t, "out") \/ Goto(t, "gone")
    BY DEF LockForCommand, UnlockAfterCommand, CreateRender, CreateWriter, CallStart,
           CallStop, CallClose, CloseGate, InspectSlot, DeleteRender, DeleteWriter,
           Delete, Tasks
  <2> QED
    BY <2>1, <2>2 DEF Goto
<1>5. TaskHolds'
  BY <1>1, <1>4 DEF BuffersKept, TaskHolds, bufferVars, Rendering, Tasks
<1>6. BuffersUnmoved
  BY <1>1, <1>2, <1>3 DEF BuffersUnmoved, bufferVars
<1> QED
  BY <1>5, <1>6, UnmovedKeeps

(* The owner wakes the tasks with a token only after it closed the gate.   *)
LEMMA WakeBuffers ==
  ASSUME BuffersKept, OwnerDiscipline, WakeFree \/ WakeFilled
  PROVE  BuffersKept'
<1>1. /\ ~running /\ ~running'
      /\ UNCHANGED <<pc, hand, sized, renderIndex, renderQueued>>
  BY DEF WakeFree, WakeFilled, OwnerDiscipline, Stopping, gateVars
<1>2. TaskHolds' /\ OpenWhilePlaying' /\ AllThere'
  BY <1>1 DEF BuffersKept, TaskHolds, OpenWhilePlaying, AllThere
<1>3. free \in Seq(Indices) /\ filled \in Seq(Indices) /\ Distinct(free) /\ Distinct(filled)
  BY DEF BuffersKept, BufferType, NoneTwice
<1>4. WakeToken \in Indices /\ \A t \in Tasks : hand[t] # WakeToken
  BY TokensAreNoBuffers DEF BuffersKept, BufferType
<1>5. CASE WakeFree
  <2>1. free' = Sent(free, WakeToken) /\ filled' = filled
    BY <1>5 DEF WakeFree
  <2>2. /\ free' \in Seq(Indices) /\ Distinct(free')
        /\ \A y : In(free', y) => In(free, y) \/ y = WakeToken
    BY <1>3, <1>4, <2>1, SendEffect
  <2> QED
    BY <1>1, <1>2, <1>4, <2>1, <2>2, TokensAreNoBuffers
    DEF BuffersKept, BufferType, NoneTwice, QueuedIsSized
<1>6. CASE WakeFilled
  <2>1. filled' = Sent(filled, WakeToken) /\ free' = free
    BY <1>6 DEF WakeFilled
  <2>2. /\ filled' \in Seq(Indices) /\ Distinct(filled')
        /\ \A y : In(filled', y) => In(filled, y) \/ y = WakeToken
    BY <1>3, <1>4, <2>1, SendEffect
  <2> QED
    BY <1>1, <1>2, <1>4, <2>1, <2>2, TokensAreNoBuffers
    DEF BuffersKept, BufferType, NoneTwice, QueuedIsSized
<1> QED
  BY <1>5, <1>6

(* New queues, and queues about to be deleted, are empty, gate closed.     *)
LEMMA EmptyQueues ==
  ASSUME BuffersKept, OwnerDiscipline, InitDriver \/ DeleteQueues
  PROVE  BuffersKept'
<1>1. ~running
  BY DEF InitDriver, DeleteQueues, BuffersKept, OpenWhilePlaying
<1>2. /\ free' = <<>> /\ filled' = <<>>
      /\ UNCHANGED <<running, pc, hand, sized, renderIndex, renderQueued>>
  BY DEF InitDriver, DeleteQueues, gateVars
<1> QED
  BY <1>1, <1>2, NoneIn
  DEF BuffersKept, BufferType, TaskHolds, NoneTwice, QueuedIsSized, OpenWhilePlaying,
      AllThere

(* A start finds both hands empty and puts every buffer on the free queue. *)
LEMMA StartBuffers ==
  ASSUME BuffersKept, OwnerDiscipline, HandsEmpty, Emptied, ResetAndStart
  PROVE  BuffersKept'
<1>1. \A t \in Tasks : pc[t] \in Outside /\ hand[t] = NoBuffer
  BY DEF ResetAndStart, Emptied, HandsEmpty, Alone
<1>2. /\ free' = [i \in 1 .. BufferCount |-> i - 1] /\ filled' = <<>>
      /\ sized' = {} /\ renderIndex' = NoBuffer /\ renderQueued' = FALSE
      /\ UNCHANGED <<pc, hand>>
      /\ driver' = "playing" /\ step' = "idle"
  BY DEF ResetAndStart, ResetQueues, Return
<1>3. /\ free' \in Seq(Indices) /\ Distinct(free')
      /\ \A b \in Buffers : In(free', b)
      /\ ~In(free', WakeToken) /\ ~In(free', NoBuffer)
  BY <1>2, AllFree
<1>4. filled' \in Seq(Indices) /\ Distinct(filled') /\ \A x : ~In(filled', x)
  BY <1>2, NoneIn
<1>5. BufferType'
  BY <1>2, <1>3, <1>4 DEF BuffersKept, BufferType
<1>6. TaskHolds'
  BY <1>1, <1>2 DEF TaskHolds, Outside, Rendering, Tasks
<1>7. NoneTwice'
  BY <1>1, <1>2, <1>3, <1>4 DEF NoneTwice, Tasks
<1>8. QueuedIsSized'
  BY <1>1, <1>2, <1>4, TokensAreNoBuffers DEF QueuedIsSized, Tasks
<1>9. OpenWhilePlaying' /\ AllThere'
  BY <1>2, <1>3, <1>4 DEF OpenWhilePlaying, AllThere
<1> QED
  BY <1>5, <1>6, <1>7, <1>8, <1>9 DEF BuffersKept

(* The buffers are accounted for along every behaviour, for every number   *)
(* of them: what is proved below follows.                                  *)
THEOREM BufferInvariant == Spec => []BuffersKept
<1>1. Init => BuffersKept
  <2> SUFFICES ASSUME Init PROVE BuffersKept
    OBVIOUS
  <2>1. free = <<>> /\ filled = <<>> /\ \A t \in Tasks : hand[t] = NoBuffer
    BY DEF Init
  <2>2. BufferType
    BY NoneIn DEF Init, BufferType
  <2>3. TaskHolds
    BY DEF Init, TaskHolds, Rendering, Tasks
  <2>4. NoneTwice /\ QueuedIsSized
    BY <2>1, NoneIn, TokensAreNoBuffers DEF NoneTwice, QueuedIsSized, Tasks
  <2>5. OpenWhilePlaying /\ AllThere
    BY DEF Init, OpenWhilePlaying, AllThere
  <2> QED
    BY <2>2, <2>3, <2>4, <2>5 DEF BuffersKept
<1>2. BuffersKept /\ OwnerDiscipline /\ Lifecycle /\ Emptied /\ HandsEmpty /\ [Next]_vars
        => BuffersKept'
  <2> SUFFICES ASSUME BuffersKept, OwnerDiscipline, Lifecycle, Emptied, HandsEmpty,
                      [Next]_vars
               PROVE  BuffersKept'
    OBVIOUS
  <2>1. CASE AudioThread
    BY <2>1, GateBuffers, ReceiveFreeBuffers, ReserveBuffers, MixerBuffers, AddBuffers,
       FinishRenderBuffers
    DEF AudioThread, Tasks
  <2>2. CASE I2SThread
    BY <2>2, GateBuffers, ReceiveFilledBuffers, StarveBuffers, ReleaseBuffers
    DEF I2SThread, Tasks
  <2>3. CASE Owner
    BY <2>3, OwnerElsewhere, WakeBuffers, EmptyQueues, StartBuffers
    DEF Owner, InsideOperation
  <2>4. CASE UNCHANGED vars
    BY <2>4
    DEF vars, bufferVars, gateVars, controlVars, BuffersKept, BufferType, TaskHolds,
        NoneTwice, QueuedIsSized, OpenWhilePlaying, AllThere
  <2> QED
    BY <2>1, <2>2, <2>3, <2>4 DEF Next
<1> QED
  BY <1>1, <1>2, Discipline, TasksAreTracked, OwnerWaits, PTL DEF Spec

(* A buffer that is somewhere, and nowhere twice, has exactly one place.   *)
LEMMA OnceMeansOne ==
  ASSUME BuffersKept, NEW b \in Buffers,
         In(free, b) \/ In(filled, b) \/ \E t \in Tasks : hand[t] = b
  PROVE  Cardinality(PlacesOf(b)) = 1
<1> DEFINE InFree == {<<"free", i>> : i \in {j \in DOMAIN free : free[j] = b}}
           InFilled == {<<"filled", i>> : i \in {j \in DOMAIN filled : filled[j] = b}}
           InHand == {<<"hand", t>> : t \in {u \in Tasks : hand[u] = b}}
<1>1. DOMAIN free = 1 .. Len(free) /\ DOMAIN filled = 1 .. Len(filled)
  BY LenProperties DEF BuffersKept, BufferType
<1>2. b # WakeToken /\ b # NoBuffer
  BY TokensAreNoBuffers
<1>3. ~In(free, b) => InFree = {}
  BY <1>1 DEF In
<1>4. ~In(filled, b) => InFilled = {}
  BY <1>1 DEF In
<1>5. In(free, b) => \E p : InFree = {p}
  <2> SUFFICES ASSUME NEW i \in 1 .. Len(free), free[i] = b PROVE \E p : InFree = {p}
    BY DEF In
  <2>1. {j \in DOMAIN free : free[j] = b} = {i}
    BY <1>1, <1>2 DEF BuffersKept, NoneTwice, Distinct
  <2>2. InFree = {<<"free", i>>}
    BY <2>1
  <2> QED
    BY <2>2
<1>6. In(filled, b) => \E p : InFilled = {p}
  <2> SUFFICES ASSUME NEW i \in 1 .. Len(filled), filled[i] = b
               PROVE  \E p : InFilled = {p}
    BY DEF In
  <2>1. {j \in DOMAIN filled : filled[j] = b} = {i}
    BY <1>1, <1>2 DEF BuffersKept, NoneTwice, Distinct
  <2>2. InFilled = {<<"filled", i>>}
    BY <2>1
  <2> QED
    BY <2>2
<1>7. ASSUME NEW t \in Tasks, hand[t] = b PROVE \E p : InHand = {p}
  <2>1. {u \in Tasks : hand[u] = b} = {t}
    BY <1>2, <1>7 DEF BuffersKept, NoneTwice, Tasks
  <2>2. InHand = {<<"hand", t>>}
    BY <2>1
  <2> QED
    BY <2>2
<1>8. PlacesOf(b) = InFree \cup InFilled \cup InHand
  BY DEF PlacesOf
<1>9. \E p : PlacesOf(b) = {p}
  <2> HIDE DEF InFree, InFilled
  <2>1. CASE \E t \in Tasks : hand[t] = b
    <3>1. ~In(free, b) /\ ~In(filled, b)
      BY <2>1 DEF BuffersKept, NoneTwice
    <3>2. \E p : InHand = {p}
      BY <1>7, <2>1
    <3> QED
      <4> HIDE DEF InHand
      <4> QED
        BY <1>3, <1>4, <1>8, <3>1, <3>2
  <2>2. CASE ~\E t \in Tasks : hand[t] = b
    <3>1. InHand = {}
      BY <2>2
    <3>2. ~(In(free, b) /\ In(filled, b)) /\ (In(free, b) \/ In(filled, b))
      BY <2>2 DEF BuffersKept, NoneTwice
    <3> QED
      <4> HIDE DEF InHand
      <4> QED
        BY <1>3, <1>4, <1>5, <1>6, <1>8, <3>1, <3>2
  <2> QED
    BY <2>1, <2>2
<1> QED
  BY <1>9, FS_Singleton

(* While the gate is open no buffer is lost and none is in two places, and *)
(* no wake token of an earlier stop is left in a queue: the render task    *)
(* and the writer never work on one buffer, and neither runs out of them.  *)
THEOREM BuffersStay == Spec => []BuffersAccountedFor
<1>1. BuffersKept => BuffersAccountedFor
  <2> SUFFICES ASSUME BuffersKept, running
               PROVE  /\ \A b \in Buffers : Cardinality(PlacesOf(b)) = 1
                      /\ \A queue \in {free, filled} :
                           \A i \in DOMAIN queue : queue[i] # WakeToken
    BY DEF BuffersAccountedFor
  <2>1. \A b \in Buffers : Cardinality(PlacesOf(b)) = 1
    BY OnceMeansOne DEF BuffersKept, AllThere
  <2>2. DOMAIN free = 1 .. Len(free) /\ DOMAIN filled = 1 .. Len(filled)
    BY LenProperties DEF BuffersKept, BufferType
  <2>3. \A queue \in {free, filled} : \A i \in DOMAIN queue : queue[i] # WakeToken
    BY <2>2 DEF BuffersKept, AllThere, In
  <2> QED
    BY <2>1, <2>3
<1> QED
  BY <1>1, BufferInvariant, PTL

(* The writer hands the codec only what a callback mixed, across any       *)
(* number of stops and starts.                                             *)
THEOREM PlaysRendered == Spec => []PlaysWhatWasRendered
<1>1. BuffersKept => PlaysWhatWasRendered
  <2> SUFFICES ASSUME BuffersKept, pc[Writer] = "write" PROVE hand[Writer] \in sized
    BY DEF PlaysWhatWasRendered
  <2>1. hand[Writer] \in Buffers
    BY DEF BuffersKept, TaskHolds, BufferType, Tasks
  <2> QED
    BY <2>1 DEF BuffersKept, QueuedIsSized
<1> QED
  BY <1>1, BufferInvariant, PTL
=============================================================================
