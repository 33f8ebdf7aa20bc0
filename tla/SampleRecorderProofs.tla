------------------------- MODULE SampleRecorderProofs -------------------------
(***************************************************************************)
(* The safety properties of the recorder, for every capacity and any       *)
(* number of sessions.  Nothing but the flags keeps the two tasks apart,   *)
(* so the invariant says, for each place of either task, what the flags    *)
(* allow the other one to be doing.                                        *)
(***************************************************************************)
EXTENDS SampleRecorder, TLAPS

\* Where the capture task stands while it shows activeMode; while it shows saving;
\* while the session has not yet a result; and when it will not touch the file
\* or the microphone any more.
Recording == {"capture", "read", "finish", "quiet"}
Saving    == {"persist", "write", "saved", "unsaved", "unflag"}
Undecided == {"enable", "refused", "announce", "persist", "write", "unsaved"}
               \cup Recording
Done      == {"wait", "refused", "release", "give"}
Places    == Done \cup Undecided \cup Saving

\* Places of the user interface where it has seen both modes idle; where it has
\* seen, or been told, that the session is over.
SawNoMode == {"tick", "suspend", "waitSaving"}
SawTheEnd == {"report", "stopped"}

NothingToRun == task \in Done /\ ~notified
Owned == buffer = session /\ recordingCapacity = Capacity

TypeOK ==
  /\ requestedMode \in {"Record", "Idle"}
  /\ notified \in BOOLEAN /\ stopped \in BOOLEAN /\ hasty \in BOOLEAN
  /\ saving \in BOOLEAN /\ lastSavedAudio \in BOOLEAN
  /\ task \in Places
  /\ session \in Nat /\ {buffer, file} \subseteq Nat \cup {None}
  /\ report \in [session : Nat, saved : BOOLEAN]

\* The task's own two flags say where it is.
FlagsFollowTask ==
  /\ activeMode = IF task \in Recording THEN "Record" ELSE "Idle"
  /\ saving <=> task \in Saving

\* The request is raised from the notification until the session is over.
RequestFollowsTask ==
  /\ notified => task = "wait" /\ requestedMode = "Record"
  /\ task = "enable" => requestedMode = "Record"
  /\ requestedMode = "Record" =>
       notified \/ task \in {"enable", "capture", "read", "finish"}

\* A buffer belongs to the latest session, and is there from its start until the
\* task frees it.
BufferFollowsTask ==
  /\ leaked = {}
  /\ ui = "arm" \/ notified \/ task \in InSession => Owned
  /\ task = "give" \/ (task = "wait" /\ ~notified /\ ui # "arm") => buffer = None

\* What the user interface has seen still holds.
SightsHold ==
  /\ ui = "arm" => task = "wait" /\ ~notified /\ ~stopped
  /\ stopped => task = "wait" /\ ~notified
  /\ ui \in SawNoMode => ~notified /\ task \notin Recording \cup {"enable"}
  /\ ui \in SawTheEnd => NothingToRun

\* The result is that of the latest session, and is reported when it is final.
ResultFollowsTask ==
  /\ file # None => file <= session
  /\ task = "saved" => file = session
  /\ ui = "arm" \/ notified \/ task \in Undecided =>
       ~lastSavedAudio /\ file # session
  /\ task # "saved" => (lastSavedAudio <=> file = session)
  /\ report.session <= session
  /\ report.session = session =>
       /\ NothingToRun /\ ui # "arm"
       /\ session # 0 => (report.saved <=> file = session)

Calm == /\ RequestFollowsTask /\ BufferFollowsTask
        /\ SightsHold /\ ResultFollowsTask

IInv == TypeOK /\ FlagsFollowTask /\ (~hasty => Calm)

USE RecorderAssumption

-----------------------------------------------------------------------------
\* Before the first session nothing runs and nothing is reported.
LEMMA InitRecorder == Init => IInv
  <1> SUFFICES ASSUME Init PROVE IInv
    OBVIOUS
  <1> USE DEF Init, Recording, Saving, Undecided, Done, Places, NothingToRun
  <1>1. TypeOK /\ FlagsFollowTask
    BY DEF TypeOK, FlagsFollowTask
  <1>2. RequestFollowsTask /\ BufferFollowsTask /\ SightsHold
    BY DEF RequestFollowsTask, BufferFollowsTask, SightsHold, InSession,
           SawNoMode, SawTheEnd
  <1>3. ResultFollowsTask
    BY DEF ResultFollowsTask
  <1> QED BY <1>1, <1>2, <1>3 DEF IInv, Calm

\* The capture task.
LEMMA TaskKeeps ==
  ASSUME IInv, TaskStep
  PROVE  IInv'
  <1> USE DEF TaskGoes, IInv, TypeOK, FlagsFollowTask, Calm, RequestFollowsTask,
             BufferFollowsTask, SightsHold, ResultFollowsTask, Owned,
             NothingToRun, Recording, Saving, Undecided, Done, Places,
             SawNoMode, SawTheEnd, InSession, flags, memory, ghosts
  <1>1. CASE Wake
    BY <1>1 DEF TaskStep, Wake
  <1>2. CASE Enable
    BY <1>2 DEF TaskStep, Enable
  <1>3. CASE Capture
    BY <1>3 DEF TaskStep, Capture
  <1>4. CASE ReadSamples
    BY <1>4 DEF TaskStep, ReadSamples
  <1>5. CASE ReadOverflows
    BY <1>5 DEF TaskStep, ReadOverflows
  <1>6. CASE ReadFails
    BY <1>6 DEF TaskStep, ReadFails
  <1>7. CASE Finish
    BY <1>7 DEF TaskStep, Finish
  <1>8. CASE Quiet
    BY <1>8 DEF TaskStep, Quiet
  <1>9. CASE Announce
    BY <1>9 DEF TaskStep, Announce
  <1>10. CASE Persist
    BY <1>10 DEF TaskStep, Persist
  <1>11. CASE WriteFile
    <2>1. TypeOK'
      <3>1. file' = None \/ file' = buffer
        BY <1>11 DEF WriteFile
      <3> QED BY <1>11, <3>1 DEF TaskStep, WriteFile
    <2>2. FlagsFollowTask'
      BY <1>11 DEF TaskStep, WriteFile
    <2>3. ~hasty => Calm'
      BY <1>11 DEF TaskStep, WriteFile
    <2> QED BY <2>1, <2>2, <2>3, <1>11 DEF TaskStep
  <1>12. CASE Result
    BY <1>12 DEF TaskStep, Result
  <1>13. CASE Unflag
    BY <1>13 DEF TaskStep, Unflag
  <1>14. CASE Release
    BY <1>14 DEF TaskStep, Release, ReleaseRecordingBuffer
  <1>15. CASE Give
    BY <1>15 DEF TaskStep, Give
  <1> QED BY <1>1, <1>2, <1>3, <1>4, <1>5, <1>6, <1>7, <1>8, <1>9, <1>10, <1>11, <1>12, <1>13, <1>14, <1>15 DEF TaskStep

\* The user interface.
LEMMA UiKeeps ==
  ASSUME IInv, Toggle \/ Tick \/ Suspend \/ UiContinues
  PROVE  IInv'
  <1> USE DEF UiGoes, UiLooks, NoGhosts, Trusts, IsRecordingActive, AtRest,
              IInv, TypeOK, FlagsFollowTask, Calm, RequestFollowsTask,
             BufferFollowsTask, SightsHold, ResultFollowsTask, Owned,
             NothingToRun, Recording, Saving, Undecided, Done, Places,
             SawNoMode, SawTheEnd, InSession, flags, memory, ghosts
  <1>1. CASE Toggle
    BY <1>1 DEF Toggle
  <1>2. CASE Tick
    BY <1>2 DEF Tick
  <1>3. CASE Suspend
    BY <1>3 DEF Suspend
  <1>4. CASE ToggleStops
    BY <1>4 DEF ToggleStops, RequestStop
  <1>5. CASE StartRecording
    <2>1. TypeOK'
      <3>1. session' \in Nat /\ session' # None /\ buffer' = session'
        BY <1>5 DEF StartRecording
      <3>2. hasty' \in BOOLEAN
        BY <1>5, Zenon DEF StartRecording
      <3> QED BY <1>5, <3>1, <3>2 DEF StartRecording
    <2>2. FlagsFollowTask'
      BY <1>5 DEF StartRecording
    <2>3. ASSUME ~hasty' PROVE Calm'
      <3>1. RequestFollowsTask'
        BY <1>5, <2>3 DEF StartRecording
      <3>2. BufferFollowsTask'
        BY <1>5, <2>3 DEF StartRecording
      <3>3. SightsHold'
        BY <1>5, <2>3 DEF StartRecording
      <3>4. ResultFollowsTask'
        BY <1>5, <2>3 DEF StartRecording
      <3> QED BY <3>1, <3>2, <3>3, <3>4
    <2> QED BY <2>1, <2>2, <2>3
  <1>6. CASE StartFails
    <2>1. TypeOK'
      BY <1>6 DEF StartFails
    <2>2. FlagsFollowTask'
      BY <1>6 DEF StartFails
    <2>3. ASSUME ~hasty' PROVE Calm'
      <3>1. RequestFollowsTask'
        BY <1>6, <2>3 DEF StartFails
      <3>2. BufferFollowsTask'
        <4>1. \/ AtRest /\ ~hasty
              \/ UNCHANGED <<buffer, recordingCapacity, leaked, hasty>>
          BY <1>6, <2>3 DEF StartFails
        <4>2. buffer' = buffer /\ leaked' = leaked
          BY <1>6, <2>3, <4>1 DEF StartFails
        <4>3. CASE AtRest /\ ~hasty
          BY <1>6, <4>2, <4>3 DEF StartFails
        <4>4. CASE UNCHANGED <<buffer, recordingCapacity, leaked, hasty>>
          BY <1>6, <2>3, <4>2, <4>4 DEF StartFails
        <4> QED BY <4>1, <4>3, <4>4
      <3>3. SightsHold'
        BY <1>6, <2>3 DEF StartFails
      <3>4. ResultFollowsTask'
        BY <1>6, <2>3 DEF StartFails
      <3> QED BY <3>1, <3>2, <3>3, <3>4
    <2> QED BY <2>1, <2>2, <2>3
  <1>7. CASE Arm
    BY <1>7 DEF Arm
  <1>8. CASE TickSaving
    BY <1>8 DEF TickSaving
  <1>9. CASE Report
    BY <1>9 DEF Report
  <1>10. CASE SuspendSaving
    BY <1>10 DEF SuspendSaving
  <1>11. CASE Stop
    BY <1>11 DEF Stop, RequestStop
  <1>12. CASE WaitModes
    BY <1>12 DEF WaitModes
  <1>13. CASE WaitSaving
    BY <1>13 DEF WaitSaving
  <1>14. CASE Take
    BY <1>14 DEF Take
  <1>15. CASE TimesOut
    BY <1>15 DEF TimesOut
  <1>16. CASE Resume
    BY <1>16 DEF Resume
  <1> QED BY <1>1, <1>2, <1>3, <1>4, <1>5, <1>6, <1>7, <1>8, <1>9, <1>10, <1>11, <1>12, <1>13, <1>14, <1>15, <1>16 DEF UiContinues
\* Every step keeps what the flags say about the two tasks.
THEOREM RecorderInvariant == Spec => []IInv
  <1>1. IInv /\ [Next]_vars => IInv'
    <2> SUFFICES ASSUME IInv, [Next]_vars PROVE IInv'
      OBVIOUS
    <2>1. CASE UNCHANGED vars
      BY <2>1 DEF vars, flags, memory, ghosts, IInv, TypeOK, FlagsFollowTask,
             Calm, RequestFollowsTask, BufferFollowsTask, SightsHold,
             ResultFollowsTask, Owned, NothingToRun
    <2> QED BY <2>1, TaskKeeps, UiKeeps DEF Next
  <1> QED BY <1>1, InitRecorder, PTL DEF Spec

-----------------------------------------------------------------------------
\* The capture task works on the buffer StartRecording allocated last, and no
\* buffer is lost.
THEOREM BufferOwnership == Spec => []BufferIsOwned
  <1>1. IInv => BufferIsOwned
    BY DEF IInv, Calm, BufferFollowsTask, Owned, BufferIsOwned
  <1> QED BY <1>1, RecorderInvariant, PTL

\* What TickRecordLifecycle tells the user of a session is what became of it.
THEOREM TruthfulReport == Spec => []ReportMatchesFile
  <1>1. IInv => ReportMatchesFile
    BY DEF IInv, Calm, ResultFollowsTask, ReportMatchesFile
  <1> QED BY <1>1, RecorderInvariant, PTL

\* SuspendHost and Shutdown go on only when nothing is captured or written.
THEOREM FinalStop == Spec => []StopIsFinal
  <1>1. IInv => StopIsFinal
    BY DEF IInv, Calm, SightsHold, SawTheEnd, NothingToRun, Done, StopIsFinal
  <1> QED BY <1>1, RecorderInvariant, PTL
=============================================================================
