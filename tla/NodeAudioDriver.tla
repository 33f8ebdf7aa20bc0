--------------------------- MODULE NodeAudioDriver ---------------------------
(***************************************************************************)
(* The audio driver of the Node firmware (Adapters/node/audio): the render *)
(* task and the I2S writer task, each pinned to a core, pass the indices   *)
(* of a few buffers round through two FreeRTOS queues, while the task that *)
(* owns the application initialises, starts, stops and closes the driver   *)
(* through the gate of WorkerGate.  The render callback takes the mixer    *)
(* lock, which the application takes too for every transport command.      *)
(*                                                                         *)
(* A step of a task is what lies between two operations other tasks can    *)
(* see.  The PCM is abstracted to whether a buffer's size is not zero; the *)
(* codec's settings and the telemetry are left out.                        *)
(***************************************************************************)
EXTENDS Integers, Sequences, FiniteSets

CONSTANT BufferCount  \* kSoundBufferCount: buffers, and slots of each queue

ASSUME BufferCountAssumption == BufferCount \in Nat \ {0}

Buffers == 0 .. BufferCount - 1
WakeToken == BufferCount  \* 0xFF in the code: no buffer has this index
NoBuffer == -1

Render == 0   \* AudioThread's slot of the gate
Writer == 1   \* I2SThread's
TaskCount == 2  \* WorkerGate<2>
Tasks == {Render, Writer}

VARIABLES
  running, busy, seen,  \* the gate, and the control's pass over it
  pc,             \* where each task is
  hand,           \* bufferIndex of each task, while the task owns it
  free, filled,   \* freeAudioBuffers and filledAudioBuffers
  sized,          \* the buffers whose size is not zero
  renderIndex, renderQueued,
  queues,         \* the two queues exist
  mixer,          \* who holds the mixer lock
  driver,         \* what the owner has made of the driver
  op, step        \* the operation the owner has called, and where it is

gateVars == <<running, busy, seen>>
bufferVars == <<hand, free, filled, sized, renderIndex, renderQueued>>
controlVars == <<driver, op, step>>
vars == <<gateVars, pc, bufferVars, queues, mixer, controlVars>>

Outside == {"gone", "out", "raised", "refused"}
RenderPlaces ==
  {"receive", "got", "callback", "mixing", "mixed", "unlock", "rendered", "leaving"}
WriterPlaces == {"receive", "got", "write", "leaving"}

Gate == INSTANCE WorkerGate
  WITH WorkerCount <- TaskCount,
       at <- [t \in Tasks |-> IF pc[t] \in Outside THEN pc[t] ELSE "in"]

Init ==
  /\ running = FALSE
  /\ busy = [t \in Tasks |-> FALSE]
  /\ seen = 0
  /\ pc = [t \in Tasks |-> "gone"]
  /\ hand = [t \in Tasks |-> NoBuffer]
  /\ free = <<>> /\ filled = <<>>
  /\ sized = {}
  /\ renderIndex = NoBuffer /\ renderQueued = FALSE
  /\ queues = FALSE
  /\ mixer = "none"
  /\ driver = "closed"
  /\ op = "none" /\ step = "idle"

-----------------------------------------------------------------------------
(* The queues.  xQueueSend with no time to wait drops what does not fit.   *)
Sent(queue, index) ==
  IF Len(queue) < BufferCount THEN Append(queue, index) ELSE queue

Goto(t, place) == pc' = [pc EXCEPT ![t] = place]

(* return_free_buffer *)
ReturnBuffer(t) ==
  /\ free' = Sent(free, hand[t])
  /\ hand' = [hand EXCEPT ![t] = NoBuffer]

-----------------------------------------------------------------------------
(* What both tasks do at the gate. *)
(* A TryEnter that looks first and raises its slot only then. *)
RaiseTooLate(t) ==
  /\ pc[t] = "out"
  /\ Goto(t, "raised")
  /\ UNCHANGED <<gateVars, bufferVars, queues, mixer, controlVars>>

Raise(t) ==
  /\ pc[t] = "out"
  /\ busy' = [busy EXCEPT ![t] = TRUE]
  /\ Goto(t, "raised")
  /\ UNCHANGED <<running, seen, bufferVars, queues, mixer, controlVars>>

Look(t) ==
  /\ pc[t] = "raised"
  /\ Goto(t, IF running THEN "receive" ELSE "refused")
  /\ UNCHANGED <<gateVars, bufferVars, queues, mixer, controlVars>>

Leave(t) ==
  /\ pc[t] \in {"refused", "leaving"}
  /\ busy' = [busy EXCEPT ![t] = FALSE]
  /\ Goto(t, "out")
  /\ UNCHANGED <<running, seen, bufferVars, queues, mixer, controlVars>>

-----------------------------------------------------------------------------
(* AudioThread.  It waits for a free buffer without a timeout. *)
ReceiveFree ==
  /\ pc[Render] = "receive"
  /\ free # <<>>
  /\ free' = Tail(free)
  /\ IF Head(free) = WakeToken
     THEN Goto(Render, "leaving") /\ UNCHANGED hand
     ELSE Goto(Render, "got") /\ hand' = [hand EXCEPT ![Render] = Head(free)]
  /\ UNCHANGED <<gateVars, filled, sized, renderIndex, renderQueued, queues,
                 mixer, controlVars>>

(* The gate is looked at again, since the wait may have lasted. *)
Reserve ==
  /\ pc[Render] = "got"
  /\ IF running
     THEN /\ renderIndex' = hand[Render]
          /\ renderQueued' = FALSE
          /\ Goto(Render, "callback")
          /\ UNCHANGED <<hand, free>>
     ELSE /\ ReturnBuffer(Render)
          /\ Goto(Render, "leaving")
          /\ UNCHANGED <<renderIndex, renderQueued>>
  /\ UNCHANGED <<gateVars, filled, sized, queues, mixer, controlVars>>

(* MixerService::Update: Lock(). *)
LockForRender ==
  /\ pc[Render] = "callback"
  /\ mixer = "none"
  /\ mixer' = "render"
  /\ Goto(Render, "mixing")
  /\ UNCHANGED <<gateVars, bufferVars, queues, controlVars>>

(* AudioOutDriver::Trigger: GetOutputBuffer() gives nothing to mix into    *)
(* once the gate has closed.                                               *)
GetOutputBuffer ==
  /\ pc[Render] = "mixing"
  /\ Goto(Render, IF running /\ ~renderQueued /\ renderIndex \in Buffers
                  THEN "mixed" ELSE "unlock")
  /\ UNCHANGED <<gateVars, bufferVars, queues, mixer, controlVars>>

(* AddBuffer: nothing when the sample count is zero or the gate closed;    *)
(* a queue that has no room, which a wake token can take, leaves the       *)
(* buffer with the render task.                                            *)
AddBuffer ==
  /\ pc[Render] = "mixed"
  /\ Goto(Render, "unlock")
  /\ \E frames \in BOOLEAN :
       IF frames /\ running /\ ~renderQueued /\ renderIndex \in Buffers
       THEN IF Len(filled) < BufferCount
            THEN /\ filled' = Append(filled, renderIndex)
                 /\ sized' = sized \cup {renderIndex}
                 /\ renderQueued' = TRUE
                 /\ hand' = [hand EXCEPT ![Render] = NoBuffer]
            ELSE /\ sized' = sized \ {renderIndex}
                 /\ UNCHANGED <<filled, renderQueued, hand>>
       ELSE UNCHANGED <<filled, sized, renderQueued, hand>>
  /\ UNCHANGED <<gateVars, free, renderIndex, queues, mixer, controlVars>>

UnlockAfterRender ==
  /\ pc[Render] = "unlock"
  /\ mixer' = "none"
  /\ Goto(Render, "rendered")
  /\ UNCHANGED <<gateVars, bufferVars, queues, controlVars>>

(* The reservation's size is cleared whether or not it was queued.         *)
FinishClearingSize ==
  /\ pc[Render] = "rendered"
  /\ IF renderQueued THEN UNCHANGED <<hand, free>> ELSE ReturnBuffer(Render)
  /\ sized' = sized \ {renderIndex}
  /\ renderIndex' = NoBuffer
  /\ Goto(Render, "leaving")
  /\ UNCHANGED <<gateVars, filled, renderQueued, queues, mixer, controlVars>>

(* A buffer that was not queued is still the render task's to return.      *)
FinishRender ==
  /\ pc[Render] = "rendered"
  /\ IF renderQueued
     THEN UNCHANGED <<hand, free, sized>>
     ELSE ReturnBuffer(Render) /\ sized' = sized \ {renderIndex}
  /\ renderIndex' = NoBuffer
  /\ Goto(Render, "leaving")
  /\ UNCHANGED <<gateVars, filled, renderQueued, queues, mixer, controlVars>>

-----------------------------------------------------------------------------
(* I2SThread. *)
ReceiveFilled ==
  /\ pc[Writer] = "receive"
  /\ filled # <<>>
  /\ filled' = Tail(filled)
  /\ IF Head(filled) = WakeToken
     THEN Goto(Writer, "leaving") /\ UNCHANGED hand
     ELSE Goto(Writer, "got") /\ hand' = [hand EXCEPT ![Writer] = Head(filled)]
  /\ UNCHANGED <<gateVars, free, sized, renderIndex, renderQueued, queues,
                 mixer, controlVars>>

(* The wait ended with nothing to play: silence is written, in no buffer.  *)
Starve ==
  /\ pc[Writer] = "receive"
  /\ filled = <<>>
  /\ Goto(Writer, "leaving")
  /\ UNCHANGED <<gateVars, bufferVars, queues, mixer, controlVars>>

(* The buffer has been played, or the gate has closed since it was queued. *)
ReleasePlayed ==
  /\ sized' = sized \ {hand[Writer]}
  /\ ReturnBuffer(Writer)
  /\ Goto(Writer, "leaving")

CheckRunning ==
  /\ pc[Writer] = "got"
  /\ IF running
     THEN Goto(Writer, "write") /\ UNCHANGED <<sized, hand, free>>
     ELSE ReleasePlayed
  /\ UNCHANGED <<gateVars, filled, renderIndex, renderQueued, queues, mixer,
                 controlVars>>

(* audio_codec_write returns within its timeout, written or not. *)
Write ==
  /\ pc[Writer] = "write"
  /\ ReleasePlayed
  /\ UNCHANGED <<gateVars, filled, renderIndex, renderQueued, queues, mixer,
                 controlVars>>

-----------------------------------------------------------------------------
(* The owner.  Call begins an operation and Continue moves inside it. *)
Continue(next) == step' = next /\ UNCHANGED <<driver, op>>

Return(result) == driver' = result /\ op' = "none" /\ step' = "idle"

(* A transport command: the mixer lock is held for its length. *)
LockForCommand ==
  /\ step = "idle"
  /\ mixer = "none"
  /\ mixer' = "owner"
  /\ Continue("command")
  /\ UNCHANGED <<gateVars, pc, bufferVars, queues>>

UnlockAfterCommand ==
  /\ step = "command"
  /\ mixer' = "none"
  /\ Continue("idle")
  /\ UNCHANGED <<gateVars, pc, bufferVars, queues>>

(* InitDriver: the queues are created, empty, and then each task, either   *)
(* of which may fail.                                                      *)
InitDriver ==
  /\ step = "idle" /\ driver = "closed"
  /\ queues' = TRUE
  /\ free' = <<>> /\ filled' = <<>>
  /\ op' = "Init" /\ step' = "createTasks"
  /\ UNCHANGED <<gateVars, pc, hand, sized, renderIndex, renderQueued, mixer,
                 driver>>

CreateRender ==
  /\ step = "createTasks"
  /\ \/ Goto(Render, "out")
     \/ UNCHANGED pc
  /\ Continue("createWriter")
  /\ UNCHANGED <<gateVars, bufferVars, queues, mixer>>

CreateWriter ==
  /\ step = "createWriter"
  /\ \/ /\ Goto(Writer, "out")
        /\ IF pc[Render] # "gone"
           THEN Return("ready")
           ELSE Continue("stop")
     \/ /\ UNCHANGED pc
        /\ Continue("stop")
  /\ UNCHANGED <<gateVars, bufferVars, queues, mixer>>

(* StartDriver, StopDriver and CloseDriver all begin with StopDriver. *)
CallStart ==
  /\ step = "idle" /\ driver # "closed"
  /\ op' = "Start" /\ step' = "stop"
  /\ UNCHANGED <<gateVars, pc, bufferVars, queues, mixer, driver>>

CallStop ==
  /\ step = "idle"
  /\ op' = "Stop" /\ step' = "stop"
  /\ UNCHANGED <<gateVars, pc, bufferVars, queues, mixer, driver>>

CallClose ==
  /\ step = "idle"
  /\ op' = "Close" /\ step' = "stop"
  /\ UNCHANGED <<gateVars, pc, bufferVars, queues, mixer, driver>>

(* StopDriver: close the gate, then wake whoever waits on a queue, then    *)
(* pass over the slots until one pass finds them all idle.                 *)
CloseGate ==
  /\ step = "stop"
  /\ running' = FALSE
  /\ seen' = 0
  /\ Continue(IF queues THEN "wakeFree" ELSE "drain")
  /\ UNCHANGED <<busy, pc, bufferVars, queues, mixer>>

(* No wake-up of the render task, which waits without a timeout. *)
WakeFreeForgotten ==
  /\ step = "wakeFree"
  /\ Continue("wakeFilled")
  /\ UNCHANGED <<gateVars, pc, bufferVars, queues, mixer>>

WakeFree ==
  /\ step = "wakeFree"
  /\ free' = Sent(free, WakeToken)
  /\ Continue("wakeFilled")
  /\ UNCHANGED <<gateVars, pc, hand, filled, sized, renderIndex, renderQueued,
                 queues, mixer>>

WakeFilled ==
  /\ step = "wakeFilled"
  /\ filled' = Sent(filled, WakeToken)
  /\ Continue("drain")
  /\ UNCHANGED <<gateVars, pc, hand, free, sized, renderIndex, renderQueued,
                 queues, mixer>>

(* IsIdle(), one slot at a time; what follows depends on the operation.    *)
AfterDrain ==
  IF op = "Start" THEN Continue("reset")
  ELSE IF op = "Stop" THEN Return(IF driver = "closed" THEN "closed" ELSE "ready")
  ELSE Continue("deleteRender")

(* A stop that does not wait for the tasks to leave. *)
InspectOnlyWriter ==
  /\ step = "drain"
  /\ seen' = IF busy[Writer] THEN 0 ELSE seen + 1
  /\ IF seen' = TaskCount THEN AfterDrain ELSE UNCHANGED controlVars
  /\ UNCHANGED <<running, busy, pc, bufferVars, queues, mixer>>

InspectSlot ==
  /\ step = "drain"
  /\ seen' = IF busy[seen] THEN 0 ELSE seen + 1
  /\ IF seen' = TaskCount THEN AfterDrain ELSE UNCHANGED controlVars
  /\ UNCHANGED <<running, busy, pc, bufferVars, queues, mixer>>

(* xQueueReset of the free queue alone. *)
ResetFreeOnly ==
  /\ free' = [i \in 1 .. BufferCount |-> i - 1]
  /\ UNCHANGED filled

(* The rest of StartDriver: every buffer is free again, and Start().       *)
ResetQueues ==
  /\ free' = [i \in 1 .. BufferCount |-> i - 1]
  /\ filled' = <<>>

ResetAndStart ==
  /\ step = "reset"
  /\ sized' = {}
  /\ renderIndex' = NoBuffer /\ renderQueued' = FALSE
  /\ ResetQueues
  /\ running' = TRUE /\ seen' = 0
  /\ Return("playing")
  /\ UNCHANGED <<busy, pc, hand, queues, mixer>>

(* The rest of CloseDriver: the tasks, where they exist, and the queues.   *)
Delete(t, next) ==
  /\ Goto(t, "gone")
  /\ Continue(next)
  /\ UNCHANGED <<gateVars, bufferVars, queues, mixer>>

DeleteRender == step = "deleteRender" /\ Delete(Render, "deleteWriter")
DeleteWriter == step = "deleteWriter" /\ Delete(Writer, "deleteQueues")

DeleteQueues ==
  /\ step = "deleteQueues"
  /\ queues' = FALSE
  /\ free' = <<>> /\ filled' = <<>>
  /\ Return("closed")
  /\ UNCHANGED <<gateVars, pc, hand, sized, renderIndex, renderQueued, mixer>>

-----------------------------------------------------------------------------
AtGate(t) == Raise(t) \/ Look(t) \/ Leave(t)

AudioThread ==
  \/ AtGate(Render)
  \/ ReceiveFree \/ Reserve
  \/ LockForRender \/ GetOutputBuffer \/ AddBuffer \/ UnlockAfterRender
  \/ FinishRender

I2SThread ==
  \/ AtGate(Writer)
  \/ ReceiveFilled \/ Starve \/ CheckRunning \/ Write

InsideOperation ==
  \/ UnlockAfterCommand
  \/ CreateRender \/ CreateWriter
  \/ CloseGate \/ WakeFree \/ WakeFilled \/ InspectSlot
  \/ ResetAndStart
  \/ DeleteRender \/ DeleteWriter \/ DeleteQueues

Owner ==
  \/ InsideOperation
  \/ LockForCommand
  \/ InitDriver \/ CallStart \/ CallStop \/ CallClose

Next == AudioThread \/ I2SThread \/ Owner

Spec == Init /\ [][Next]_vars

(* The scheduler runs every task that can run, and an operation the owner  *)
(* has begun goes on; nothing makes the owner begin one.                   *)
FairSpec ==
  Spec /\ WF_vars(AudioThread) /\ WF_vars(I2SThread) /\ WF_vars(InsideOperation)

-----------------------------------------------------------------------------
(* The places buffer b is in: positions of the two queues and tasks. *)
PlacesOf(b) ==
  {<<"free", i>> : i \in {j \in DOMAIN free : free[j] = b}}
    \cup {<<"filled", i>> : i \in {j \in DOMAIN filled : filled[j] = b}}
    \cup {<<"hand", t>> : t \in {u \in Tasks : hand[u] = b}}

(* While the gate is open no buffer is lost and none is in two places, so  *)
(* no task mixes into what the other plays; and no wake token of an        *)
(* earlier stop is left to be taken for a buffer or to take its slot.      *)
BuffersAccountedFor ==
  running => /\ \A b \in Buffers : Cardinality(PlacesOf(b)) = 1
             /\ \A queue \in {free, filled} :
                  \A i \in DOMAIN queue : queue[i] # WakeToken

(* The writer hands the codec only what a callback mixed: a queued buffer  *)
(* keeps its size until it is played, across a stop and a start.           *)
PlaysWhatWasRendered ==
  pc[Writer] = "write" => hand[Writer] \in sized

(* "Control calls Stop(), wakes blocked queues, and waits for IsIdle()     *)
(* before resetting buffers or deleting tasks": while the owner resets the *)
(* queues, deletes the tasks or deletes the queues no task is inside, and  *)
(* none is between taking a buffer and giving it back.                     *)
OwnerIsAlone ==
  step \in {"reset", "deleteRender", "deleteWriter", "deleteQueues"}
    => \A t \in Tasks : pc[t] \in Outside /\ hand[t] = NoBuffer

(* The driver's tasks and its owner use the gate as WorkerGate describes,  *)
(* so what is proved of the gate holds of the driver.                      *)
GateIsKept == Gate!Spec

(* A stop gets every task out, wherever it is: waiting for a buffer, for   *)
(* the mixer lock or for the codec.                                        *)
StopEmptiesTheGate ==
  step = "drain" ~> \A t \in Tasks : pc[t] \in Outside

(* "an in-flight callback is allowed to finish and release that lock       *)
(* before teardown": no stop or close leaves the mixer lock with the       *)
(* render task for ever.                                                   *)
MixerLockComesBack == mixer = "render" ~> mixer # "render"

(* A stop that finds no task left ends: NodeUi2System says of Shutdown(),  *)
(* which closes the audio whether or not it was closed before, that it "is *)
(* safe and must run on every later failure".                              *)
ShutdownIsSafe ==
  (step = "drain" /\ \A t \in Tasks : pc[t] = "gone") ~> step # "drain"
=============================================================================
