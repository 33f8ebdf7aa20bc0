# NullPerator: formal model of its storage transactions and of its concurrent parts

NullPerator is a music tracker written in C++. The same core runs as firmware
on the Node hardware (ESP32, FreeRTOS, SdFat or a POSIX-like VFS), in a browser
(WASM), on iOS and on Android. This directory holds TLA+ specifications of the
parts of it that are hardest to test: what is left on the storage medium when a
call is refused or power is lost, when the application decides to save, how the
tasks of the Node firmware that render, play and record audio are started,
stopped and deleted, and the lock-free structures through which threads exchange
audio frames, MIDI messages and snapshots of the transport.

Paths below are relative to the repository; `Application/...` and the like are
under `sources/`.

## 1. Inventory

| Component | State it keeps | Operations | Depends on / is used by |
|---|---|---|---|
| **Project file journal** `Application/Persistency/ProjectFileJournal.h`, driven by `PersistencyService` | a destination, a temporary and a backup path for one payload | `Recover`, `SaveAtomically`, `PromoteBackup`, `Finalize`, `Discard` | every manual save, autosave and open |
| **Current-project marker** `PersistencyService::SaveProjectState_`, `StagingPersistence.cpp` `LoadCurrentProjectName` | `/.current`, `.current.tmp`, `.current.bak` | rewrite (two policies), select at boot | sessions, untitled replacement |
| **Untitled-project replacement** `StagingPersistence.cpp`, `TrackerApplicationSession::LoadProject` | `/projects/.untitled` and its backup directory, phase markers PENDING, COMMITTED, PURGE | Begin, Commit, Finalize, Rollback, Purge, recovery at boot | uses the marker; driven by the session and by `Ui2TrackerApplication::Initialize` |
| **Session** `Application/Session/TrackerApplicationSession.cpp` | loaded flag, project name, model, rollback file | open, create, load, save, autosave, delete | uses all of the above; used by the UI |
| **Autosave cadence** `Application/Session/AutoSaveCoordinator.*` | live, persisted and in-flight revision, busy, in-flight and Save As flags, deadline | mark dirty, tick, complete, reset | UI |
| **Project page** `Application/UI2/Ui2TrackerApplication.cpp`, `Controllers/Ui2ProjectLifecycleController.h`, `Ui2PersistenceStatus.h` | the one queued save, its presentation phase, the open dialog, a pending rename | queue, present, carry out; new, load, delete, rename, overwrite | session, coordinator |
| **Save As** `PersistencyService::SaveAsProject_`, `RecoverSaveAsTransactions_` | stage and backup directories per target | copy, swap, recover | session; recovery runs at boot and before each Save As |
| **Worker gate** `Foundation/Concurrency/WorkerGate.h` | a running flag and one busy slot per worker, all sequentially consistent atomics | `TryEnter`, `Leave`, `Start`, `Stop`, `IsIdle` | audio driver |
| **Node audio driver** `Adapters/node/audio/AudioDriver.cpp`, `Application/Mixer/MixerService.cpp` | two FreeRTOS queues of buffer indices, two pinned tasks, buffer sizes, mixer lock | render, write, init, start, stop, close | gate, mixer |
| **PCM ring, MIDI ring** `Services/Audio/PcmRingBuffer.h`, `Adapters/common/midi/MidiByteQueue.h` | single-producer single-consumer rings on atomics; the MIDI output has two of them | write, read, discard, estimate the fill | WASM, iOS, Android audio; MIDI input and output |
| **Transport snapshot** `Application/Player/TransportSnapshotPublication.h`, `AtomicTelemetrySnapshot.h` | a sequence counter and atomic words | publish, capture | player to UI |
| **Sample recorder** `Adapters/node/audio/record.cpp`, record page of `Ui2TrackerApplication` | requested and active mode, saving flag, result, buffer, semaphore | start, stop, capture, save, report, suspend | record page, suspension and shutdown |
| **Copy, sample and instrument journals** `System/FileSystem/CopyFileJournal.h`, `Ui2SampleEditorTransaction.cpp`, `InstrumentExport*.h` | temporary and backup of a file | copy, apply, export, recover | browsers and editors |
| **MIDI service, note tracker** `Services/Midi` | queues, device, sounding notes | flush, switch device, note on/off | player |
| **Sequencer** `Application/Player` | song, chain, phrase, table and groove positions | tick, queue, jump | called under the mixer lock |
| **Input mailbox, UI tasks of the Node** `Adapters/node/ui2` | accepted, pending and delivered key masks | post, take, shutdown | UI |
| **Firmware lifecycle** `FirmwareLifecycleService.cpp`, `FirmwareLifecycleController.cpp` | boot choice; power, headphone and battery timers | boot, shutdown | all of the above |
| Instruments and DSP, pages and renderer, platform hosts, vendored libraries | | | |

How they interact. Key presses and frames run on one task. A save is *queued*
by a key press or by the autosave tick, waits for a frame with the saving
indicator to reach the screen, and only then calls the session, which calls the
persistency service, which makes a sequence of file system calls. Every one of
those calls can be refused and power can go between any two of them. What the
next boot then finds is read by recovery code that can itself be cut off. On the
Node, two further tasks render and play audio on their own cores; they share two
queues, the buffers, the mixer lock and the gate with the task that owns the
driver. A third one records: it shares a buffer and four flags with the record
page, which polls them. Elsewhere two threads meet only in a ring or in a
published snapshot.

What makes the components correct, and where it is stated:

* a save never loses the generation it replaces, and reports success only for
  what is installed (journal);
* the marker always names a project that was in use or being switched to
  (marker);
* the untitled project survives its own replacement, the marker and the
  directory go back together, and the device boots (untitled replacement);
* "nothing to save" is only said when the model is on disk, an autosave never
  lands in another project's directory, no project is overwritten unasked, and a
  queued save is carried out (project saving);
* when the owner of the gate believes it is alone, it is (gate, audio driver);
* no audio buffer is lost or used twice, and a stop ends (audio driver);
* a project that had a name still has it, or can be given back to it, wherever a
  Save As or its recovery stops, and no half-made copy ever takes a name (Save As);
* a ring is a bounded queue and its two sides never touch the same slot; a
  snapshot is never torn or out of date (ring, sequence lock);
* what the user is told about a recording is what became of it, and a suspension
  waits for it (recorder).

The hazards behind these are listed one by one, at their source lines, in
`PROJECT.json`.

## 2. Modules

```
FaultyFiles ── ProjectFileJournal ─────────────────────┐
     ├──────── ProjectMarker ── ProjectMarkerAlone ────┴─ PersistencyProofs
     └──────── ProjectDirectories ─┬─ UntitledReplacement ─┬─ MCUntitledReplacement
                                   │    │                  └─ UntitledReplacementProofs
                                   │    └─ (INSTANCE) ProjectMarker
                                   └─ SaveAsTransaction ── SaveAsTransactionProofs
ProjectSaving ── ProjectSavingProofs
WorkerGate ── WorkerGateProofs
     └─ (INSTANCE, refined by) ── NodeAudioDriver ── NodeAudioDriverProofs
SampleRecorder ── SampleRecorderProofs
FrameFifo ────── (INSTANCE, refined by) ─ SpscRing ──────┐
AtomicRegister ─ (INSTANCE, refined by) ─ SequenceLock ──┴─ LockFreeProofs
MidiPacketQueue
```

Where one proof module extends two components, their specifications have names
of their own: `Spec` and `MarkerSpec` in PersistencyProofs, `Spec` and
`LockSpec` in LockFreeProofs.

**FaultyFiles** is the file system as the persistence code sees it. `DeleteCall`
and `MoveCall` are one `DeleteFile` or `MoveFile` with the branch the code takes
on the result. A call may be refused; it may also take effect and still report
failure, since both `PosixFileSystem` and the Node's file system sync the
directory afterwards. A rename onto an existing file replaces it on POSIX and is
refused on FAT. The persistence code is written for both ("SdFat refuses
rename-over-existing"), so here each such rename may do either: the models allow
every behaviour of either platform, and some that mix them. `calm` says that no
fault is injected.

**ProjectFileJournal** has one action per file system call of `Recover`,
`SaveAtomically`, `PromoteBackup`, `Finalize` and `Discard`, with the validated
load that calls them. A file holds a generation, is invalid, or is missing. `owed`
is what the last finished operation left the user, `attempt` what the running
one may install; `misread` records that a read error made recovery take a good
file for a corrupt one. The medium may also corrupt a destination at rest.

**ProjectMarker** holds the two marker procedures and nothing else, so that it
can be used twice: `ProjectMarkerAlone` puts it under the callers a session has,
`UntitledReplacement` calls it as a subroutine. The synced write of the retained
copy through its own temporary file is one atomic step.

**UntitledReplacement** models directories as wholes that are renamed at once
and deleted entry by entry (`ProjectDirectories`: `Gutted` still validates but
has lost samples, `Husk` has no project file). It covers
`BeginStagingProjectReplacement_`, `Commit...`, `Finalize...`, both rollbacks,
the purge, the recovery at boot, `LoadProject` with `failAndRollback`, and the
boot that tries once more with a new project. `back` is the return address of
each procedure. The three generations are the one in use, the one kept aside and
a fresh one.

**ProjectSaving** is the policy level: `AutoSaveCoordinator` field by field, the
queue of one save, the presentation phase, dialogs and rename, and the session's
calls as single steps with every result they can have (how a call survives a cut
in its middle is what the storage modules are about). Whether the autosave
interval has passed and whether the player runs are inputs of the step that asks.
Replacing the untitled project is the exception: its rollback may fail while the
session goes on, so `disk.aside` keeps what is set aside of the old directory and
a New is composed of what Begin, CreateProject, rollback and commit can each
leave (`Begun`, `Replacing`, `GivenUp`, `Tidied`). The history `place` says where
the saved copy of the open project then is: under its name, set aside, or
`"nowhere"` for sure.

**WorkerGate** gives every atomic load and store of the gate a step of its own.
`seen` is the position of the owner in the loop of `IsIdle`. Creating and
deleting a worker are the owner's, allowed only when `IsIdle` has just held.

**NodeAudioDriver** gives each task a step for each operation another task can
see: queue receive and send, gate access, lock and unlock, the codec write. The
owner's four operations are split the same way, down to the loop in
`StopDriver`. PCM is abstracted to whether a buffer's size is zero; codec
settings and telemetry are left out. `Player::Close` stops the mixer and then
closes it; the owner may do either alone or both in a row.

**SaveAsTransaction** has one action per call of `SaveAsProject_` and of one pass
of `RecoverSaveAsTransactions_`, over the stage, the backup and the home of each
name; copying samples and song is one step that can stop half way. The state
machine is shared: recovery runs for the boot and, first thing, for every Save
As. `kept` is the directory a name stands for: the one the last install put
there, or the backup to which recovery has returned it.

**SpscRing** is `PcmRingBuffer` and `MidiSpscRing`, which differ in whether a span
that does not fit is cut (`Write`) or refused (`PushBatch`). A call loads both
positions in one step: its own position is not written by anyone else, so only
the moment of the other load matters. Then it touches its slots one at a time and
stores its position. The monitor's two loads are two steps. **FrameFifo** is the
queue it implements; a frame is its serial number.

**SequenceLock** is `TransportSnapshotPublication` and `AtomicTelemetrySnapshot`.
Words are stored and loaded in any order, which is what relaxed accesses between
two fences may do; the accesses to the sequence stay in place. A capture that
fails its second look starts again. The sequence comes round after `Wrap`
publications, and a capture spans fewer, as the header requires.
**AtomicRegister** is what it implements.

**MidiPacketQueue** takes each of its two lanes for the queue that `SpscRing` is
shown to be, and splits `TryPop` at the one place where the producer can come in
between: the two peeks.

**SampleRecorder** gives the capture task a step for each flag it stores, each
read of the receiver and each half of the write to the file, and the user
interface one for each group of flags it loads. `IsRecordingActive` loads two
flags in one step: the first it loads only the page itself can raise. The
semaphore is the binary one of FreeRTOS; a notification is a bit. A start that
fails (no task, too little memory) may have set the capacity to 0 or lost the
buffer over whatever was there.

All atomics are taken to be sequentially consistent. For the gate they are; the
rings and the sequence lock order their accesses by release and acquire, which
the models reflect by keeping payload accesses between the position or sequence
accesses that publish them.

## 3. What is checked

| Run | Module | Distinct states | Question |
|---|---|---|---|
| `journal` | ProjectFileJournal | 57 thousand | Can any sequence of saves, opens and discards, with faults and power cuts, lose a committed generation or report a save that is not installed? |
| `marker` | ProjectMarkerAlone | 1.0 million | Does every interrupted or failed rewrite leave a marker that leads to a project in use or being switched to? |
| `untitled` | MCUntitledReplacement | 2.8 million | Does replacing the untitled project keep it, or the new one, and always come up again? |
| `project_saving` | ProjectSaving | 0.6 million | Do edits, autosaves, queued saves, renames and switches, failed ones included, keep the save state honest, and is a queued save carried out? |
| `worker_gate` | WorkerGate | 1.2 thousand | Can a worker be inside after the owner has seen every slot idle? |
| `node_audio` | NodeAudioDriver | 117 thousand | Do the tasks and the owner keep the gate, the buffers and the mixer lock? |
| `save_as` | SaveAsTransaction | 1.2 million | Can a Save As, its recovery or a deletion in between lose a project, or let a partial or replaced one appear under a name? |
| `ring` | SpscRing | 100 thousand | Is the ring a bounded queue under every interleaving of single accesses? |
| `snapshot` | SequenceLock | 122 thousand | Can a capture be torn or stale, also when the sequence comes round? |
| `recorder` | SampleRecorder | 199 thousand | Is the session started last always reported, truthfully, and is it over when a stop returns? |
| `node_audio_shutdown`, `midi_order` | NodeAudioDriver, MidiPacketQueue | | Two statements the code does not keep: section 4. |

Properties:

* `CommittedGenerationSurvives`: recovery from the files as they are now yields
  the committed generation or the one being installed. Not claimed after a
  misread, because there the code installs the older backup by design;
  `BackupOutlivesDoubt` is what then still holds: a valid backup goes only while
  another valid generation is there. It asks that this one parses, not that it
  was accepted: that the backup is dropped only after a semantic restore is the
  order of the calls of `LoadProject`, which no property checks.
* `ReportedSaveIsInstalled`, `SavedIsCurrent`: no success without the effect.
* `OpenSettles` (liveness): once faults stop, an open that finds a valid
  generation ends with it installed and no temporary left. Fairness is that a
  started operation goes on.
* `PointerSurvives`, `BootHonoursMarkers`, `RetainedBeforeReplaced`: the marker
  and its backups, read at any moment.
* `UntitledSurvives`, `BootRestores`, `AlwaysBoots`, `PurgeIsFinal`: the
  two-marker transaction. The first three carry the guard `tainted`, see below.
* `CleanMeansSaved`, `CheckpointedMeansStored`: revision numbers against what is
  on the medium, under the project's name or set aside; nothing is claimed while
  `place` is `"nowhere"`, and `FailedNewKeepsProject` says when a failed New may
  lead there: only when it found leftovers of an earlier one. `RenameIsTracked`: three places that have to agree on whether a
  rename is pending. `BusyOnlyWhileQueued` and `QueuedSaveSettles`: the autosave
  is never silenced for good, and a queued save is carried out. `AutosaveStaysHome`,
  `OverwriteWasAsked`: what a save may write to.
* `IdleMeansNoneInside`: mutual exclusion of the gate.
* `GateIsKept`: the audio driver implements `WorkerGate`, under the mapping that
  takes every place of a task behind the gate to `"in"`.
* `OwnerIsAlone`, `BuffersAccountedFor`, `PlaysWhatWasRendered`: no task is
  inside and none holds a buffer while the owner resets or deletes; while the
  driver plays, each buffer is in exactly one place and no wake token of an
  earlier stop is left; the codec is never given an empty buffer.
* `StopEmptiesTheGate`, `MixerLockComesBack` (liveness): a stop gets every task
  out wherever it waits, and the render task never keeps the mixer lock.

* `TargetSurvives`: the directory a name stands for is under it or is its backup,
  whatever fails. `OnlyCommittedProjectsAppear`: a complete directory under a
  name is the one that stands for it, so recovery neither promotes a stage nor
  brings back what was replaced. `BootSettles`: a recovery that meets no fault
  leaves every project in its place and nothing else.
  `RecoveryTerminates` (liveness): a directory that cannot be deleted does not
  keep recovery busy.
* `NoSlotIsShared`, `ImplementsFifo`, `FillNeverOverstated`: the ring.
* `IsAtomicRegister`, `FinalFrameArrives` (liveness): the snapshot.
* `BufferIsOwned`, `ReportMatchesFile`, `StopIsFinal`, `SessionsAreReported`
  (liveness): the recorder. The first three carry the guard `hasty`, see below;
  the last is about a session until the next one is started.

Each passing property has a mutant of the model that breaks it ("Seeded fault"
in the modules): a dropped guard, a missing reset, a swapped order.

### Bounds

* Journal: four generations. Three files and the committed generation can hold
  four different ones at most, so a fifth would behave like one of them.
* Marker: two named projects and the untitled one. A marker is compared with one
  name at a time; three files can then disagree about all three.
* Untitled: one named project and three directory contents: in use, kept aside,
  fresh. They are interchangeable and the checked properties are safety
  properties, so TLC permutes them.
* Saving: one named project beside the untitled one, two contents, and
  `MaxRevision = 2`: the least at which an edit falls between the request of an
  autosave and its completion and another follows. Revisions restart at every
  project boundary, so histories are not bounded. A rename collides with a
  stored project when the untitled project takes the name of the named one.
  States are merged by a `VIEW` that leaves out what nothing reads: the revision
  of an autosave that is no longer in flight, the persisted one where it is not the
  last, and the contents of recovery files other than the open project's. With
  the revisions alone merged there are 3.2 million states, and the safety
  properties hold there too.
* Gate: three workers, one more than the driver uses, so that a pass of
  `IsIdle` has a slot before and after the one that moves.
* Audio: three buffers, one fewer than `kSoundBufferCount`; three suffice for
  one in each task's hand and one in a queue. With four the same properties hold
  (633 thousand states).

* Save As: two names, because recovery takes one per pass and may end between
  them; two contents suffice since a copy differs from what it replaces.
* Ring: four slots and spans of one, three and five: one that leaves the ring
  neither empty nor full, one that wraps, and one that never fits. Ten frames
  take the positions around the ring twice. The bound stops the producer, so the
  run does not look for deadlocks.
* Snapshot: two words tell a torn copy; a sequence of four values makes every
  capture that spans more than one publication meet its own number again, and
  four publications take it round twice.
* Recorder: a buffer of two reads, so that a session can end empty, partly
  filled or full; three sessions, so that what one leaves behind can meet the
  next and the one after. The user may start no more, but goes on suspending and
  resuming.

### Fairness

* Journal: a started operation keeps executing (`WF(pc # "idle" /\ Next)`): it is
  a single-threaded call.
* Saving: `WF(Present)` and `WF(Tick)`. Every platform runs both in an endless
  loop, and a frame is requested while the indicator is shown.
* Audio: `WF` of each task and of the owner's begun operation: FreeRTOS runs a
  task that can run. Nothing makes the owner begin one. That `StopDriver`
  *returns* is not claimed: a refused task may raise its slot again at each
  inspection, which the code rules out only by the one-tick delays on both
  sides. What is claimed is that every task leaves.
* Save As: recovery keeps executing, being a single-threaded call.
* Snapshot: a publication under way is finished, and every reader keeps
  capturing, as the pages do on each tick. A reader may lose every race while
  the writer goes on; what is claimed holds once it stops.
* Recorder: `WF` of each task, `SF` of the page's tick, since suspension may
  come between any two frames, and `SF` of a read that delivers samples: the
  receiver may time out any number of times, but not for ever.

## 4. Disagreements found

Two runs are expected to end in a violation. Each refutes a sentence of a comment
or a test.

| Run | The statement | What happens |
|---|---|---|
| `node_audio_shutdown` | "From this point Shutdown() is safe and must run on every later failure" (`Ui2System.cpp:74`) | `CloseDriver` may delete a task between the two stores of `TryEnter`; its slot stays raised and a second close waits for it for ever. |
| `midi_order` | the packet queue "reserves realtime capacity and drains by sequence" (`tests/wasm_midi_tests.cpp:138`) | `TryPop` peeks at the normal lane, then at the realtime lane. A note and then a clock pushed in between are drained clock first. |

Others appear in the passing models as the exact places where a guard of their
properties begins; the models contain the behaviour, the properties stop
claiming anything after it.

*Untitled replacement*, ghost `tainted`:

* `CommitOrphaned`: `ClearStagingTransactionMarkers_` deletes PENDING before
  COMMITTED. Left in between, by a refused call or a power loss, COMMITTED stays
  alone, meets the PENDING of the next
  replacement, and boot takes an uncommitted candidate for committed, against
  "Recovery must never infer commit merely from a parseable replacement
  directory" (`StagingPersistence.cpp:348`).
* `NothingToRollBackTo`, `HalfRolledBack`: a rollback that fails after the
  pointer was rewritten is not retried to its end, against "PENDING + COMMITTED
  remain the durable retry record" (`:420`); the next boot, without a fault of
  its own, may not come up.
* `RollbackLeftBehind`, `PointerElsewhere`: a failed operation has left its
  rollback to be done and the session goes on; a load reported as done after that
  is undone by the next boot, against "The current-project marker is the load
  transaction's durable commit point" (`TrackerApplicationSession.cpp:256`).
  `PointerElsewhere` is also a replacement begun while the marker names another
  project, as after the rollback of a committed replacement. On FAT the rewrite
  of the marker that a later recovery needs is then refused at every attempt,
  because the retained copy names neither of the two projects, and so is the
  boot.
* The cleanup after COMMITTED is resumed only by a load of the untitled project,
  so a boot into another one leaves its markers: this is how the orphan arises.

*Project saving*:

* With a rename pending, the recovery file discarded after a switch is that of
  the project that has the new name (`TrackerApplicationSession.cpp:290`), and a
  failed switch rolls back under a name that has no directory, which leaves the
  session without a project (`:133`). Both are in `SwitchOpens` and
  `SwitchRollsBack`.
* `renamed`: the model was renamed again between the answer to the overwrite
  question and the frame the save waits for.
* The load rollback file kept "for manual/startup recovery" is read by no startup
  path.
* `place`: a New whose replacement of the untitled directory cannot be rolled
  back is only logged (`TrackerApplicationSession.cpp:121-127`), and the session
  lives on over the half-made directory. The model is then as it was and so is
  the coordinator, but the manual save is in the directory set aside until the
  next recovery brings it back. That recovery deletes the autosaves written
  meanwhile. A second New that fails over such leftovers may lose the copy:
  `"nowhere"`.
* A session without a project, as a failed rollback leaves it, opens another one
  with nothing to fall back on: if only the marker or the commit then fails, the
  call reports a failure (`:129-130`) with the project loaded, and the page keeps
  the lost project's name as the saved one. This is `SwitchFails`, and `"nowhere"`
  as well until the next project is opened.

*Save As*, ghost `tainted`, per name until the next install:

* A directory that is read wrongly once is deleted in favour of its backup
  (`StagingPersistence.cpp:231`); if the backup has lost files in an earlier
  cleanup, both are gone.
* A rollback whose deletion stops after samples went but while the song still
  validates is taken for a committed target by the next pass, which then deletes
  the whole backup.
* A project deleted by the user while its backup waits for a deferred cleanup
  comes back from it.

  Also, a deferred cleanup of one name ends the passes: other names are not
  recovered until a boot or Save As at which it succeeds. `BootSettles` is about
  recoveries that meet no fault, where this does not happen.

*Recorder*: `ExecuteRecord` starts a session without looking whether the last one
was reported (`Ui2TrackerApplication.cpp:1644`). One that ended by itself and is
followed by another before the next tick is never reported; `SessionsAreReported`
lets it go there.

*Recorder*, ghost `hasty`: a user interface that acts while the capture task only
looks idle.

* Between `activeMode` (`record.cpp:207`) and `saving` (`:211`): a tick reports
  "RECORDING SAVE FAILED" for a recording that is then saved, a suspension goes
  on without waiting, a start replaces buffer, length and path.
* Between `saving` (`:216`) and the release of the buffer (`:217`), and in the
  failure path between `:157` and `:160`: the buffer of a session started there
  is freed.
* A stop before the task has shown `activeMode`: before it has woken, the buffer
  is never freed and the semaphore never given; after that, the wait returns
  while the receiver is being enabled.

## 5. What is proved

All proofs are checked by TLAPS from the definitions, with no assumption beyond
the named ones on the constants, so each result holds for every number of
projects, generations, workers, buffers, slots or readers, and for executions of
any length.

* **PersistencyProofs**, journal: `TypeCorrect`, `GenerationSurvives` and
  `SaveInstalls`, for every set of generations and any number of faults.
  `CommittedGenerationSurvives` alone is not inductive: whether a file counts
  depends on where the running operation stands. The invariant `IInv` therefore
  has a conjunct for each operation (`Recovering`, `Saving`, `Opening`,
  `Discarding`) that describes the three files at every label, and two that tie
  labels to operations (`OperationOfLabel`, `IdleSettled`). Three lemmas
  (`DeleteEffect`, `MoveEffect`, `ReplaceEffect`) say what one file system call
  leaves, reported or not; each operation then has one lemma.
  `BackupOutlives` rests on no history of misreads: `StandsIn` says which valid
  file justifies each step that removes the backup.
* **PersistencyProofs**, marker: `PointerIsSafe`, `SaveIsCurrent`,
  `BootIsHonest` and `RetainedFirst`, for any set of named projects.
  `MarkerInv` describes the marker, its temporary and the retained copy at each
  label of the two procedures (`InUse`, `RetainedKept`, `NameCarried`,
  `PointerKept`), and for a boot which candidates are still to be looked at
  (`Selecting`, `CandidatesAllowed`). The retained copy matters because a rename
  that reports failure may have moved the temporary: from then on, only that
  copy is certain to name a project in use.
* **UntitledReplacementProofs**: `TypeCorrect`, `UntitledIsKept`,
  `PurgeGoesLast`, `BootsAlways` and `BootOpensDue`, for any projects and any
  generations of them, over every procedure of the two-marker transaction, its recovery and the
  boot. `Owed` is
  what a power loss may come upon at any moment: which of the two directories
  the user is owed, given which of PENDING, COMMITTED and PURGE are durable.
  `Stand` is what each operation has established at each of its labels; since
  recovery, rollback and the marker procedures are called from several places,
  it holds for the return address too: `Settled` is what a recovery that
  reports success promises its caller. `Owed` and `Stand` hold until `tainted`.
  `Flow`, which keeps a durable PURGE ahead of everything else, holds always,
  so `PurgeGoesLast` is not guarded. `BootsAlways` needs `Sound` as well, which
  has three parts: `Ready` (a procedure returns to a caller the session and the
  transaction agree with, and there is always something to return to), `Marked`
  (while a replacement is still to be undone, the marker PENDING names can be
  written back: `Fits` says that an ordinary rewrite will not be refused as a
  conflict with a retained backup), and `CalmBoot` (where a boot that has met no
  fault can be, and what it has found there).
  `BootOpensDue` (`BootRestores`) says which project the boot opens, and needs in
  addition that the marker and the untitled directory agree at every power loss.
  `Homed`: where the untitled project is named, it is there to be opened, as it
  stands or once a recovery has brought the backup back (`Ours`). `Leads`: a
  recovery that takes back returns to a project that may be opened; otherwise
  the marker names one, or none of its three files names any other that could
  be opened, so that the boot comes to the retained backup or the untitled
  project (`Pick`). `Steered` is what keeps both: what every rewrite of the
  marker, load, rollback, recovery and read has decided at each of its labels.
  Nothing is claimed while every project may be opened (`Wide`), which is where
  a fault, a forced purge or the rollback to no project at all puts the ghost `due`.
* **SaveAsTransactionProofs**: `ProjectsSurvive`, `OnlyCommitted` and
  `CalmBootSettles`, for any number of names and contents. `Owed(t)` says of each
  untainted name where the directory it stands for is (`Kept`), that a complete
  home is that directory (`Committed`), when a backup must be there
  (`BackupIsOwed`), and that what recovery takes for a committed target is one
  (`NoFalseHome`). `Working`, `Judged` and `Replaced` tie the running operation
  to its name; `CalmBoot` says what a recovery without faults has settled so far.
* **ProjectSavingProofs**: `CleanIsSaved`, `CheckpointIsStored`, `RenameTracked`,
  `BusyEnds`, `AutosavesAtHome`, `OverwritesAsked` and `FailedNewIsHarmless`, for
  any sets of projects and contents and any bound on the revisions. The invariant ties the revisions
  of the coordinator to what is on the medium (`RevisionsCount`), each flag that
  silences the autosave to the queued save or dialog that lowers it
  (`QueueIsBusy`, `DialogsHold`), a pending rename to the page it was made on
  (`RenameHoldsPage`), an answered question to the names it was about
  (`AgreedToThis`), and a saved copy that is set aside to the untitled project
  being the open one (`PlaceIsKnown`). Whatever Begin, rollback, recovery, cleanup and purge
  do, done or cut off, touches the untitled project only and brings back no
  recovery file that was not there or set aside (`OnlyUntitled`, with one lemma
  for each); a New from a disk without leftovers that has failed leaves the old
  directory in its place or set aside whole (`NewIsUndone`). The last three
  theorems are about steps and follow from it.
* **WorkerGateProofs**: `TypeCorrect`, `Visibility` and `Exclusion`, for any
  number of workers (`Visibility`: a worker inside has its slot raised). The
  strengthening says that a raised slot is visible from
  the moment it is raised, that the pass of `IsIdle` is back at zero whenever the
  gate is open, and that a worker whose slot the pass has gone by cannot be
  inside: it raised its slot before it looked, the gate was closed before the
  pass began.
* **NodeAudioDriverProofs**: `Discipline` (which of its steps the owner may be
  at, and what it then holds), `TasksAreTracked` (tasks and queues exist exactly
  while the driver says so), `Refinement` (every step of the driver is a step of
  the gate or leaves it alone) and `Exclusion` (`OwnerIsAlone`), for any number
  of buffers. Exclusion rests on the gate's own theorem, carried over by the
  refinement, and on the fact that a task outside the gate has nothing in its
  hand (`OwnerWaits`).
  `BuffersStay` and `PlaysRendered` follow from `BuffersKept`: what each task
  holds at each label (`TaskHolds`), that no buffer is in two places
  (`NoneTwice`) nor, while the driver plays, in none (`AllThere`), and that
  what is queued for the codec has been given a size (`QueuedIsSized`). Queues
  are looked at through what is in them, never through positions; that a queue
  has room for every buffer is a pigeonhole lemma.
* **SampleRecorderProofs**: `BufferOwnership`, `TruthfulReport` and `FinalStop`,
  for every capacity and any number of sessions. `FlagsFollowTask` says what the
  flags are at each place of the capture task, whatever the page does; `Calm`
  says for each place of either task what the flags allow the other, as long as
  the page has not been `hasty`.
* **LockFreeProofs**, ring: `SlotsAreNeverShared`, `FillIsNeverOverstated` and
  `RingIsFifo`, for every capacity and any lengths of spans. The invariant orders
  the positions (read, what is being taken, written, what is being put, and no
  more than a capacity from end to end), says that a slot between the read
  position and what has been stored holds its own frame number, and that what a
  read has copied so far is a run of consecutive numbers.
* **LockFreeProofs**, sequence lock: `TypeCorrect` and `SnapshotIsAtomic`, for
  any number of words and readers and any width of the sequence. The sequence is
  tied to the number of publications modulo its width; a reader that started `k`
  publications ago has, while the sequence could still match, copied words only
  of the publication it started from. The requirement that a capture spans fewer
  publications than take the sequence round is used exactly there. Both parts
  use a few lemmas about remainders (`CloseRemaindersDiffer`: two positions less
  than a capacity apart have different slots), derived from the definition of
  division.

Only model-checked is liveness (`OpenSettles`, `QueuedSaveSettles`,
`StopEmptiesTheGate`, `MixerLockComesBack`, `RecoveryTerminates`,
`FinalFrameArrives`, `SessionsAreReported`): it rests on fairness and `ENABLED`,
which the prover does not handle.

Every other property of a passing run is a theorem. No module uses a recursive
operator; what such a definition computes for every input is out of the
prover's reach.

## 6. Not modelled

* The other journals, the MIDI service with its note tracker and the input
  parser, the input mailbox, lifecycle timers: see the plan. One observation on
  the MIDI input: `QueuedMidiInDevice::poll` takes the disconnect request and
  then pops bytes, so bytes of a new connection can still meet the old parser or
  go with the next reset.
* Save As: a directory listing that is full, a journal name that is no project
  name, and the limit on passes, which the capacity of the listing implies.
* Journal: which of the two journals a project has. `BaseFilesForRead_` chooses
  between the files of `npsong.dat` and those of the legacy `lgptsav.dat`, and each
  of recover, load, backup load, promote and finalize asks it anew
  (`PersistencyService.cpp:43-59`, `581-589`). A call of one open can so work on
  other files than the call before it, when a destination came or went, or a
  sibling was misread, in between. The module has the files of one of the two.
* Project saving: the samples of a project; what it may hold is its song.
* Recorder: monitoring, which nothing starts; levels, elapsed time and progress;
  and the loss of the page's request at a project boundary
  (`Ui2TrackerApplication.cpp:1988`), which the page lock keeps from a session
  that is still recording (`:768`).
* Ring: the reset, which is called only when both sides are quiet.
* The sample pool, table holder and player rebinding during a switch: they change
  no durable state and can fail only as the load fails.
* Instruments and DSP, pages and rendering, platform hosts and vendored
  libraries: numeric or I/O code with nothing for a model checker.
* Bit-level wraparound of the 32-bit revision counters and of the millisecond
  clock: the coordinator compares revisions for equality only, and computes time
  differences modulo 2^32.

## 7. Plan

Order of further work, most important first:

1. **FileReplacement** for `CopyFileJournal`, sample editing and instrument
   export, which share one pattern with the journal.
2. **NodeUi2Input** and the firmware timers; MIDI note tracking across a device
   switch.
