---------------------------- MODULE SampleRecorder ----------------------------
(***************************************************************************)
(* Recording a sample on the handheld (Adapters/node/audio/record.cpp and  *)
(* the record page of Ui2TrackerApplication).  The user-interface task     *)
(* starts and stops a session and reports how it ended; the capture task   *)
(* fills a buffer from the I2S receiver, writes it to a file and frees it. *)
(* They share four atomics (requestedMode, activeMode, saving,             *)
(* lastSavedAudio), the buffer with its length, a notification and a       *)
(* binary semaphore, and no lock.                                          *)
(*                                                                         *)
(* Between two of its flags the capture task looks idle while it is not:   *)
(* after activeMode is cleared and before saving is set, after saving is   *)
(* cleared and before the buffer is freed, and in the failure path after   *)
(* requestedMode is cleared.  The ghost hasty records that the user        *)
(* interface has acted on such a look.  Monitoring is never started by     *)
(* anything in the program, so its mode does not occur.                    *)
(***************************************************************************)
EXTENDS Naturals

CONSTANTS
  Capacity,       \* how many reads of the receiver the buffer holds
  MaxSessions,    \* bound: how many sessions the user starts
  None

\* StartRecording refuses to record into less than kMinimumFrames.
ASSUME RecorderAssumption ==
  Capacity \in Nat \ {0} /\ MaxSessions \in Nat /\ None \notin Nat

VARIABLES
  requestedMode, activeMode, saving, lastSavedAudio,
  buffer,           \* the session whose StartRecording allocated it, or None
  recordingBytes, recordingCapacity,
  notified, stopped,     \* the task's notification; stoppedSemaphore
  task, ui,              \* where the two tasks stand
  pending,               \* recordSessionPending_
  file,                  \* the session whose samples the file holds
  session,               \* ghost: how many sessions have been started
  report,                \* ghost: what the user was last told
  leaked, hasty          \* ghosts

flags  == <<requestedMode, activeMode, saving, lastSavedAudio>>
memory == <<buffer, recordingBytes, recordingCapacity>>
ghosts == <<session, report, leaked, hasty>>
vars == <<flags, memory, notified, stopped, task, ui, pending, file, ghosts>>

Init ==
  /\ requestedMode = "Idle" /\ activeMode = "Idle"
  /\ saving = FALSE /\ lastSavedAudio = FALSE
  /\ buffer = None /\ recordingBytes = 0 /\ recordingCapacity = 0
  /\ notified = FALSE /\ stopped = FALSE
  /\ task = "wait" /\ ui = "idle" /\ pending = FALSE
  /\ file = None /\ session = 0
  /\ report = [session |-> 0, saved |-> FALSE]
  /\ leaked = {} /\ hasty = FALSE

IsRecordingActive == "Record" \in {requestedMode, activeMode}
AtRest == task = "wait" /\ ~notified

ReleaseRecordingBuffer ==
  buffer' = None /\ recordingBytes' = 0 /\ recordingCapacity' = 0

-----------------------------------------------------------------------------
(* The capture task. *)

TaskGoes(from, to) == task = from /\ task' = to

\* A stop that comes before the task has run leaves it nothing to do: the buffer
\* stays allocated, and the semaphore is not given.
Wake ==
  /\ TaskGoes("wait", IF requestedMode = "Record" THEN "enable" ELSE "wait")
  /\ notified /\ notified' = FALSE
  /\ UNCHANGED <<flags, memory, stopped, file>>

Enable ==
  /\ \/ TaskGoes("enable", "capture") /\ activeMode' = "Record"
        /\ UNCHANGED requestedMode
     \/ TaskGoes("enable", "refused") /\ requestedMode' = "Idle"
        /\ UNCHANGED activeMode
  /\ UNCHANGED <<saving, lastSavedAudio, memory, notified, stopped, file>>

Capture ==
  /\ \/ requestedMode = "Record" /\ TaskGoes("capture", "read")
     \/ requestedMode # "Record" /\ TaskGoes("capture", "finish")
  /\ UNCHANGED <<flags, memory, notified, stopped, file>>

ReadSamples ==
  /\ recordingBytes < recordingCapacity /\ TaskGoes("read", "capture")
  /\ recordingBytes' = recordingBytes + 1
  /\ UNCHANGED <<flags, buffer, recordingCapacity, notified, stopped, file>>

\* More samples than the buffer has room for.
ReadOverflows ==
  /\ recordingBytes = recordingCapacity /\ TaskGoes("read", "finish")
  /\ requestedMode' = "Idle"
  /\ UNCHANGED <<activeMode, saving, lastSavedAudio, memory, notified, stopped, file>>

ReadFails ==
  /\ TaskGoes("read", "finish") \/ TaskGoes("read", "capture")
  /\ UNCHANGED <<flags, memory, notified, stopped, file>>

\* Seeded fault: the request stays after a session that ended by itself.
FinishWithoutExchange ==
  /\ TaskGoes("finish", "quiet")
  /\ UNCHANGED <<flags, memory, notified, stopped, file>>

\* compare_exchange(Record, Idle), then the receiver is disabled.
Finish ==
  /\ TaskGoes("finish", "quiet")
  /\ requestedMode' = "Idle"
  /\ UNCHANGED <<activeMode, saving, lastSavedAudio, memory, notified, stopped, file>>

Quiet ==
  /\ TaskGoes("quiet", "announce") /\ activeMode' = "Idle"
  /\ UNCHANGED <<requestedMode, saving, lastSavedAudio, memory, notified, stopped, file>>

Announce ==
  /\ TaskGoes("announce", "persist") /\ saving' = TRUE
  /\ UNCHANGED <<requestedMode, activeMode, lastSavedAudio, memory, notified, stopped, file>>

\* PersistRecording up to where the file is open for writing, or has failed.
Persist ==
  /\ \/ buffer # None /\ recordingBytes # 0 /\ TaskGoes("persist", "write")
     \/ TaskGoes("persist", "unsaved")
  /\ UNCHANGED <<flags, memory, notified, stopped, file>>

\* The rest of it: the file is complete and synced, or deleted.
WriteFile ==
  /\ \/ TaskGoes("write", "saved") /\ file' = buffer
     \/ TaskGoes("write", "unsaved") /\ file' = None
  /\ UNCHANGED <<flags, memory, notified, stopped>>

Result ==
  /\ \/ TaskGoes("saved", "unflag") /\ lastSavedAudio' = TRUE
     \/ TaskGoes("unsaved", "unflag") /\ lastSavedAudio' = FALSE
  /\ UNCHANGED <<requestedMode, activeMode, saving, memory, notified, stopped, file>>

Unflag ==
  /\ TaskGoes("unflag", "release") /\ saving' = FALSE
  /\ UNCHANGED <<requestedMode, activeMode, lastSavedAudio, memory, notified, stopped, file>>

\* Seeded fault: the buffer outlives a session whose receiver did not start.
ReleaseSavedOnly ==
  /\ \/ TaskGoes("release", "give") /\ ReleaseRecordingBuffer
     \/ TaskGoes("refused", "give") /\ UNCHANGED memory
  /\ UNCHANGED <<flags, notified, stopped, file>>

Release ==
  /\ TaskGoes("release", "give") \/ TaskGoes("refused", "give")
  /\ ReleaseRecordingBuffer
  /\ UNCHANGED <<flags, notified, stopped, file>>

Give ==
  /\ TaskGoes("give", "wait") /\ stopped' = TRUE
  /\ UNCHANGED <<flags, memory, notified, file>>

TaskStep ==
  /\ \/ Wake \/ Enable \/ Capture \/ ReadSamples \/ ReadOverflows \/ ReadFails
     \/ Finish \/ Quiet \/ Announce \/ Persist \/ WriteFile \/ Result
     \/ Unflag \/ Release \/ Give
  /\ UNCHANGED <<ui, pending, ghosts>>

-----------------------------------------------------------------------------
(* The user interface. *)

UiGoes(from, to) == ui = from /\ ui' = to
UiLooks == UNCHANGED <<flags, memory, notified, stopped, task, pending, file>>
NoGhosts == UNCHANGED ghosts

\* Acting on an idle look while the given condition shows that it is not.
Trusts(notIdle) ==
  hasty' = (hasty \/ notIdle) /\ UNCHANGED <<session, report, leaked>>

\* A stop that comes before the task has shown activeMode finds nothing to wait for.
RequestStop ==
  /\ requestedMode' = "Idle"
  /\ Trusts(requestedMode = "Record" /\ activeMode = "Idle")
  /\ UNCHANGED <<activeMode, saving, lastSavedAudio, memory, notified, stopped,
                 task, pending, file>>

\* The record button: refused while a recording is being saved.
Toggle == UiGoes("idle", IF saving THEN "idle" ELSE "toggle") /\ UiLooks /\ NoGhosts

ToggleStops == IsRecordingActive /\ UiGoes("toggle", "idle") /\ RequestStop

\* No task, too little memory, or no buffer: nothing is restored, and 0 stands
\* for every capacity that is too small.
StartFails ==
  /\ ~IsRecordingActive /\ UiGoes("toggle", "idle")
  /\ \/ UNCHANGED <<buffer, recordingCapacity, leaked, hasty>>
     \/ /\ recordingCapacity' = 0 /\ buffer' \in {buffer, None}
        /\ leaked' = leaked \cup ({buffer} \ {buffer', None})
        /\ hasty' = (hasty \/ ~AtRest)
  /\ UNCHANGED <<flags, recordingBytes, notified, stopped, task, pending, file,
                 session, report>>

\* StartRecording allocates the buffer over whatever was there ...
StartRecording ==
  /\ ~IsRecordingActive /\ session < MaxSessions /\ UiGoes("toggle", "arm")
  /\ session' = session + 1
  /\ buffer' = session' /\ recordingBytes' = 0 /\ recordingCapacity' = Capacity
  /\ leaked' = leaked \cup ({buffer} \ {None})
  /\ lastSavedAudio' = FALSE /\ stopped' = FALSE
  /\ hasty' = (hasty \/ ~AtRest)
  /\ UNCHANGED <<requestedMode, activeMode, saving, notified, task, pending, file, report>>

\* ... and hands it to the task.
Arm ==
  /\ UiGoes("arm", "idle")
  /\ requestedMode' = "Record" /\ notified' = TRUE /\ pending' = TRUE
  /\ UNCHANGED <<activeMode, saving, lastSavedAudio, memory, stopped, task, file, ghosts>>

\* TickRecordLifecycle: loads the modes, then saving, then the result.
Tick ==
  /\ pending /\ ~IsRecordingActive /\ UiGoes("idle", "tick")
  /\ UiLooks /\ NoGhosts

\* Seeded fault: the end of a session is taken from the modes alone.
TickIgnoresSaving ==
  /\ UiGoes("tick", "report")
  /\ UiLooks /\ Trusts(task = "announce")

TickSaving ==
  /\ UiGoes("tick", IF saving THEN "idle" ELSE "report")
  /\ UiLooks /\ Trusts(task = "announce")

Report ==
  /\ UiGoes("report", "idle")
  /\ pending' = FALSE
  /\ report' = [session |-> session, saved |-> lastSavedAudio]
  /\ UNCHANGED <<flags, memory, notified, stopped, task, file, session, leaked, hasty>>

\* SuspendHost and Shutdown: StopRecording unless everything looks idle.
Suspend ==
  /\ UiGoes("idle", IF IsRecordingActive THEN "stop" ELSE "suspend")
  /\ UiLooks /\ NoGhosts

SuspendSaving ==
  /\ UiGoes("suspend", IF saving THEN "stop" ELSE "stopped")
  /\ UiLooks /\ Trusts(task = "announce")

Stop ==
  /\ UiGoes("stop", "waitModes")
  /\ RequestStop

\* WaitUntilStopped: loads the modes, then saving, then takes the semaphore.
WaitModes ==
  /\ UiGoes("waitModes", IF IsRecordingActive THEN "take" ELSE "waitSaving")
  /\ UiLooks /\ NoGhosts

\* Seeded fault: the wait ends with the modes, before the file is written.
WaitIgnoresSaving ==
  /\ UiGoes("waitSaving", "stopped")
  /\ UiLooks /\ Trusts(task = "announce")

WaitSaving ==
  /\ UiGoes("waitSaving", IF saving THEN "take" ELSE "stopped")
  /\ UiLooks /\ Trusts(task = "announce")

Take ==
  /\ stopped /\ UiGoes("take", "stopped") /\ stopped' = FALSE
  /\ UNCHANGED <<flags, memory, notified, task, pending, file, ghosts>>

\* After 35 seconds it goes on without the task; it promises nothing then.
TimesOut == UiGoes("take", "idle") /\ UiLooks /\ NoGhosts

Resume == UiGoes("stopped", "idle") /\ UiLooks /\ NoGhosts

UiContinues ==
  \/ ToggleStops \/ StartRecording \/ StartFails \/ Arm
  \/ TickSaving \/ Report
  \/ SuspendSaving \/ Stop \/ WaitModes \/ WaitSaving \/ Take \/ TimesOut \/ Resume

Next == TaskStep \/ Toggle \/ Tick \/ Suspend \/ UiContinues

\* Both tasks run, every frame of the user interface ticks, and the receiver
\* delivers samples as long as it is enabled.
Fairness ==
  /\ WF_vars(TaskStep) /\ WF_vars(UiContinues) /\ SF_vars(Tick)
  /\ SF_vars((ReadSamples \/ ReadOverflows) /\ UNCHANGED <<ui, pending, ghosts>>)

Spec == Init /\ [][Next]_vars /\ Fairness

-----------------------------------------------------------------------------
(* Properties. *)

InSession ==
  {"enable", "capture", "read", "finish", "quiet", "announce", "persist",
   "write", "saved", "unsaved", "unflag", "release", "refused"}

\* The capture task always works on the buffer of the session that was started
\* last, and no buffer is lost, however stops, overflows and failures of the
\* receiver meet the starts.
BufferIsOwned ==
  ~hasty => /\ leaked = {}
            /\ task \in InSession => buffer = session /\ recordingCapacity = Capacity

\* What the user is told about a session is how it ended: "saved" (the editor
\* opens) exactly when the file holds that session.
ReportMatchesFile ==
  ~hasty /\ report.session = session /\ session # 0 =>
    (report.saved <=> file = session)

\* When SuspendHost or Shutdown goes on, nothing is being captured or written.
StopIsFinal ==
  ~hasty /\ ui = "stopped" => task \in {"wait", "refused", "release", "give"}

\* The session started last is reported, whichever way it ends: by the button, by a
\* full buffer, by a failure of the receiver.  An earlier one goes unreported only
\* where the next was started before the tick; one flag stands for all of them.
SessionsAreReported ==
  \A n \in 1..MaxSessions : pending /\ session = n ~> report.session = n \/ session > n
=============================================================================
