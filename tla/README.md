# TLA+ specifications of the VLA infrastructure

This directory holds the formal models of the repository's Isaac VR
data-collection stack: the code that lets an operator with a Quest headset
record bimanual PIPER-X demonstrations in Isaac Sim, keeps each recorded row
causally paired, writes it to disk beside the simulation and decides which
demonstrations may be used for training.  Paths below are relative to the
repository; the models name the Python definitions they translate.

    cd tla
    tlc -workers 2 -config RecordingSession.cfg RecordingSession.tla
    tlapm RecordingSession_proofs.tla

## 1. The system and its parts

One process runs the control loop (`run_s2`): capture an observation, advance
the XR device, solve IK, step the physics, record.  A second thread finalizes
recorded artifacts.  The other programs (evaluation endpoint, physical arms,
replay, admission, materialization, launcher) meet this one through files,
sockets and signals.

| Component | State it keeps | Operations | Meets | What makes it correct |
|---|---|---|---|---|
| **Recording session** `isaac_vr_recording.py` | active episode, one staged (deferred) artifact, bounded queue of futures, failure, three JSON files per episode | `start_episode`, `check_finalization`, `end_episode`, `close`; worker: `finalize_sealed_episode` | called by the loop; a worker thread of its own; the disk | one writer per file, complete and final verdicts, bounded backlog, sealing order, `close()` leaves nothing behind |
| **LiveRecording** (same file) | open HDF5 rows, observation tokens, promoted successor, failure reason | `capture_observation`, `capture_successor`, `commit_transition`, `discard_*`, `seal`, `close` | loop, validator, frame sampler | the promoted successor is the next row's observation; no buffer reused while referenced |
| **Demonstration lifecycle** `isaac_vr_episode_lifecycle.py` | state, demo id, held buttons | `buttons`, `interrupt`/`disconnect`, `external_reset`, `publish_saved_demo` | loop calls it; it calls seal, publish and reset back | each demonstration disposed of once, only complete finalized ones saved |
| **Control loop** `isaac_s2_runtime.py` | recording, session, causal epoch, stop request, failure reason | one tick; `seal_demo`; the `finally` block | everything above | quiet when the operator is asked; every way out settles every file |
| **Causal validator** `d0_causal.py` | epoch, expected observation, pending transaction, ticks, sequences, ids | `begin_epoch`, `prepare`, `complete_transition`, `commit`, `abort` | the tick; the temporal recorder | unbroken chains, fresh identities, time forward |
| **Decision and receipt** `isaac_vr_decision.py` | XR receipt generation, solved decision | `advance`, `validate`, `prepare`, commit | device, IK, validator, LiveRecording | the receipt used is the current frame's |
| **Teleoperation device** `isaac_s2_upstream.py` | XR session, navigation, rebase epoch | `advance`, retargeters | XR runtime, processor | stale frames and missing controllers never act |
| **Teleoperation processor** `isaac_s2_processor.py` | per arm: clutch, rebase, sensitivity, held buttons | per-tick advance | device, loop | no motion on a rebasing tick, edges not levels |
| **Evaluation RPC** `isaac_eval_rpc.py` | cache, active episode, step index, closed | `reset`, `step`, `abort`, `close`; client retry and reconnect | two processes over a socket | at-most-once stepping |
| **Temporal recorder** `d0_temporal.py`, `temporal_recording.py` | prepared frame, rows, timing limits | `prepare_for_actuation`, `add_frame`, `save_episode`, `clear_episode_buffer` | physical record loop, validator | a frame's row is the action actually sent |
| **PIPER-X follower** `lerobot_robot_piperx` | connection, enabled joints, CAN snapshot | `connect`, `send_action`, `disconnect`, rollback | CAN thread, two arms | no arm left enabled after a failure |
| **Three-camera capture, camera guard** `isaac_vr_capture.py`, `isaac_vr_camera_guard.py` | producer boundary, frame counters | capture, invalidate, check | Kit render products, loop | no frame from before the boundary |
| **Replay, admission, materialization** `isaac_vr_replay.py`, `isaac_vr_admission.py`, `isaac_vr_lerobot_materialize.py` | files | load, decide, stage, publish | artifacts on disk | only finalized, admitted artifacts are used |
| **Launcher** `launch_isaac_vr.py` | child, stop requested | start, signal, wait | the control loop's process | one stop request, child always reaped |
| **Recording UI** `isaac_vr_recording_ui.py` | view model, feedback timer | update | lifecycle | shows the state it is in |
| **Environment** `run_isaac_s1.py`, `isaac_vr_runtime.py` | reset epoch, physics step, state generation, presentation buttons | `_advance`, `reset`, `capture_measured_state`, `consume_display_button` | loop, capture | a state or capture is known to be of the present boundary; presses act once |
| Performance logger, asset closure and provenance, contracts and lint, benchmarks and smokes | – | – | – | logging, sequential file hashing, one-shot scripts: not modelled |

What is hard here: two threads that both write an episode's marker file; any
write of three files raising or the process stopping between two of them;
backpressure that blocks the simulation thread; a stop request, XR disconnect,
reset or exception in any lifecycle state, each of which must dispose of the
demonstration exactly once; demonstrations split by gaps into several technical
episodes; button edges computed from frames that may be missing; causal
pairing across aborted ticks and epoch changes; Kit, CloudXR and lazy cameras
that act between any two stages of a tick; CAN threads that write while the
control thread reads; two arms where one may fail; and command-line tools that
read an episode while the session is still writing it.  `PROJECT.json` lists each
hazard at its line, with the properties that cover it.

## 2. The modules

| Module | Models | Depends on |
|---|---|---|
| `Absent` | Python's `None`, shared by the modules below | – |
| `ArtifactContract` | abstract: what a session promises about its episodes (record one at a time, seal, settle once, close quiet) | – |
| `RecordingSession` | `RecordingSession`, `_FinalizationOwner`, `finalize_sealed_episode`, both threads and three files | implements `ArtifactContract` |
| `DatasetPipeline` | `extract_projection`, replay, `materialize_projection`, admission, as processes beside the session | extends `RecordingSession` |
| `HumanRecording` | `run_s2` in RECORD mode with `RecordingLifecycle` and publication | composed with `ArtifactContract` |
| `CausalTransaction` | `CausalTransactionValidator` under the Isaac profiles | – |
| `MCCausalTransaction` | the same with ids drawn in order, for TLC | `CausalTransaction` |
| `XrDevice` | `XrInputReceipt`, `PiperXIsaacTeleopDevice`: what one XR poll is worth and for how long | – |
| `ThreeCameraCapture` | the environment's physics boundary, `ThreeCameraCapture`, `CameraGuard` | – |
| `LiveRecording` | the tokens, rows and outcome of one technical episode | – |
| `ControlTick` | one tick of `run_s2`, stage by stage, in RUN and RECORD | composes the three above; refines `CausalTransaction` |
| `TeleopProcessor` | retargeters, `BimanualS2TeleopProcessor`, the presentation button, in the order of a tick | – |
| `PiperXFollower` | two arms: connect, rollback, disconnect, CAN feedback, `send_action` | – |
| `TemporalRecording` | the physical arms' record loop, timing validator, prepared frame and dataset adapter | extends `PiperXFollower` |
| `EvalEndpoint` | `IsaacEvalEndpoint`: request cache, capacity, episodes | – |
| `EvalRpc` | the endpoint behind `serve_unix_socket`, `UnixEvalClient`, the socket between them | `EvalEndpoint` |
| `MCEvalEndpoint`, `MCEvalRpc` | symmetry of ids, and the requests the evaluator of a run makes | the two above |
| `MCTemporalRecording` | the CAN components of the instance | `TemporalRecording` |
| `RecordingSession_proofs`, `CausalTransaction_proofs`, `HumanRecording_proofs`, `ControlTick_proofs`, `TeleopProcessor_proofs`, `TemporalRecording_proofs` | inductive invariants and theorems | their components |
| `DatasetPipeline_proofs` | the same, on top of the session's invariant | `DatasetPipeline`, `RecordingSession_proofs` |
| `EvalRpc_proofs` | the same, of the endpoint with an arbitrary caller and of the run behind the socket | `EvalRpc` (and so `EvalEndpoint`) |

### RecordingSession

The simulation thread's position inside a blocking call is `at`; the worker's
position inside `finalize_sealed_episode` is `wstep`.  One action is one piece
of code between two points where the other thread can be observed: a whole
session method when it does not block, and each file write of the worker by
itself.  `submit` is split where `_acknowledge(wait=True)` blocks (`Submit`,
`AwaitOldest`), and `start_episode` behind its check (`StartEpisode`,
`OpenEpisode`, with `at = "start"` between them), because the worker may fail
while the files of the new episode are being opened.  `caller` remembers which method called `_submit_deferred`,
since what follows (and what a raise marks failed) depends on it.

Each JSON file is one variable per episode (`marker`, `manifest`, `result`)
holding its `artifact_state`.  `_atomic_write_json` replaces a file as a whole
and then opens and syncs its directory, so a write that raises may have taken
effect or not (`Write \/ UNCHANGED disk` in `WorkerFault`, and the subset
`written` in `MarkFailed`).  A raise behind the last write of
`finalize_sealed_episode` finds the marker published as `finalized`, and the
handler writes `failed` over it; what remains true of that window is said by
`FilesHaveOneOwner` (such a marker is already backed by manifest and result) and
`VerdictsStand` (only that handler takes it back, while the future is still
running).  Every reachable state is also a state a crash may leave on disk, and
the invariants on files are the crash properties.  A failing finalization marks
the episode failed; the writes of that marker and of `queued_for_finalization`
may fail too, for the episodes of `Unmarkable`.  When the failure marker cannot be written the
old one stays: `in_progress`, `finalizing` or even `finalized`, with an error in the
future (`ClosedIsQuiet` says that it is reported).

The session's observers (timing, queue depth) are assumed not to raise, except
for the `stat` of the staged file when an episode is staged (`ObserveQueue`).  The
same `stat` while `_acknowledge` pops a future is not modelled: it leaves the
loop like any exception, and `close()` has cleared the staged artifact before it
acknowledges.

After an exception the runtime only calls `close()` (`Callable`), because every
exception that escapes a session method leaves the control loop.

### HumanRecording

`at` is the position in the loop: `top`, `rest` (after `lifecycle.buttons`),
`closing` (inside `session.close()`, with `resume` naming what continues),
`finally`, `cleanup`, `exit`.  `Finish`, `Interrupted` and `SealDemo` are the
lifecycle's callbacks with both of their outcomes.  `Raise` is an exception
that leaves the loop: `lifecycle.fail()` and then only the cleanup remains.
`StepRaises` lets capture, XR, IK, physics or `check_finalization` raise.

The session is the contract: an episode is `recording`, `sealed`, `finalized`
or `failed`, and `Settle` is its worker.  `failed` means that nobody will write
the episode's files again and that its verdict is not `finalized`; a failure
marker that could not be written counts as failed too, whatever the file still
says.  (`Settle` may also finalize and report an error: the publication stood and
its handler could not take it back.)  `RecordingSession` shows that the
session with its threads and queue implements exactly this contract, which is
what entitles this module to leave them out.

One file is outside the contract, because no session exists yet:
`start_live_recording` writes `in_progress` first and has no handler for what
raises after it (`isaac_vr_recording.py` 1139-1266), so the marker keeps saying
so for good.  `OpenRaises` lists the ways in which opening may raise, and
`stranded` is that one.  `ExitIsSettled` therefore does not promise a verdict for
every episode: it says that nothing records or waits any more, that only the
last episode opened can be stranded, and that whatever was lost (`Lost`: stranded, or
failed without having been given up) ends the run with an exception.

What the operator presses (`pressed`) and what the pipeline reports
(`Observable`) differ: a missing controller reads as 0.0 and a tick without an
action as zeros.  `uses` counts the events one physical press fired and `missed`
holds the buttons whose present press some tick did not see; both are history
variables.

### CausalTransaction

The caller is arbitrary: every observation, action, source and transition
identity may be offered at any time.  A call the validator rejects changes
nothing but its rejection counter, so only accepted calls are steps.  The
digest of a payload stands for its bytes.  `log` is the history of what
`commit()` returned and what the properties speak about.

### DatasetPipeline

One process of the four commands is followed step by step (`tool`, `Program`);
its steps are the reads of the disk in the order the code makes them, and the
publication.  It runs beside the session's two threads, so a manifest may be
read before the worker writes the marker, and beside other processes of the same
commands (`OtherRuns`) and an operator who removes outputs (`Remove`), one step
each.  `readable` is the history of the episodes that were finalized on disk at
some time: another process may have read one of them then and publish only now,
after the finalization took its verdict back.  That is why `MadeOfOneFinalized`
speaks of recordings that are `Completed` (all three files were written, with an
accepted outcome and rows) and names the one way in which their marker may say
`failed` today.  Every output kind has one name, so that any two commands compete for it.
A content digest stands for the bytes and is the episode they come from.
`_publish_directory` and `os.link` refuse an existing name (`OrRefuse`);
`replay_from_snapshot` writes its report in place, which is why it can be half
written (`OpenReport`, `CloseReport`) and why materialization hashes it again
(`Recheck`).  `os.replace` of a directory onto a directory that appeared after
the `exists()` check raises, because the published directory is not empty.
`verify_decision` only evaluates again and changes nothing, so it is not a
command of its own; nor is the command that extracts into a private directory
and materializes from there, which is the two with a bundle nobody else touches.

### ControlTick, with XrDevice, ThreeCameraCapture and LiveRecording

`pc` is the stage that comes next: `capture`, `poll`, `command`, `solve`,
`transaction`, `apply`, `physics`, then `guard` (RUN) or `successor` and `commit`
(RECORD).  `Surprise` is what may happen between two of them: the XR session or
the operator's space changes, an application update steps the physics without
refreshing the articulation buffers, somebody reads `Camera.data` and updates a
camera lazily.  `Raise` is any stage raising; every check in the code that raises
is a guard of its stage, so that the failing check is the `Raise` step.

`XrDevice` keeps what the code keeps of a poll: session, control reference,
DeviceIO update, transform.  `StillValid` is `validate_xr`, called before the
solve and again before the targets are applied.  `ThreeCameraCapture` keeps the
reset epoch, the physics step, the generation of the articulation state and the
camera counters; one camera stands for the three, the slowest one, which a
failed capture did not reach.  RECORD runs with live cameras off.
`LiveRecording` is written as operators on the record of one episode: what
each method returns or leaves when it raises.

`DrivesValidator` is a refinement: `entered`, `asked` and `prepared` are mapped
to the variables of `CausalTransaction`.  The loop builds a new validator after
each gap, which forgets what the last one admitted; the mapping shows that the
calls of the whole run would have been accepted by a single validator which
forgets nothing.

### TeleopProcessor

Each action is one tick of `run_s2`: a poll that fails (`IdleTick`), a client
reset (`ResetTick`), a poll that is acted on (`PolledTick`) or made while the
client has paused control (`PausedTick`).  The data of a motion is abstracted to
whether the operator may be held to it: a displacement is `stale` when its
controller was not seen from its beginning to its end or when it was made before
a reset.  The relative retargeter can hide stale motion in its baseline
(`drift`) and in its smoothing accumulator (`residue`).  Upstream's relative
retargeter itself is not in the repository; `TrackingSafeSe3RelRetargeter`, which
the repository puts around it, decides what it sees.  The sensitivity buttons
are those of the S2 profile, the display button that of the VR profile; both
go through the same tick and do not disturb each other.  The backdrop button has
the display button's code and is not repeated.  A new XR session builds its
pipeline, and so its retargeters, anew.

### PiperXFollower and TemporalRecording

`PiperXFollower` has the flags of the two arms, and the motors, which `EnablePiper`
powers and `DisableArm` may fail to release.  `Connects` enumerates where one
arm's `connect()` may raise, with the failing call having taken effect or not
(`late`), and `Connect` composes the two arms with the rollback.  An interrupt
is not an `Exception` and is not rolled back by the code; `FailedConnectPowersNothing`
speaks of failures only.  The CAN thread first changes what the SDK holds
(`ParseFrame`) and then, under the lock, the copy and its time (`StoreFrame`); the
control thread reads the left arm, then the right one.

A motion is counted per drive (`Drives`: the joints and the gripper of each arm),
in the order of the SDK's calls (`Place`, `Servings`).  An action may have
something for some drives only, for one arm or for a gripper without joints; it is
refused as a whole when any part of it is bad, and otherwise commands the drives it
names up to the one where the SDK raises (`Commanded`).  The record loop's
actions name every drive; `Move` is any other caller, between episodes.  `behind`
and `torn` are histories: drives whose last command is not the latest action
accepted for them, and those whose latest action the SDK cut off.

`TemporalRecording` adds the record loop: observe, select an action
(`GetAction`, which prepares the frame), send, add the frame.  The loop itself
belongs to LeRobot and is external; it may be interrupted between two calls and
its caller may save, clear, go on or reconnect afterwards.  `moved` is the
history of what the arms were told, against which a saved episode is compared.
Within a source, sequence and time advance together, so a sample is its time.

### EvalEndpoint and EvalRpc

The endpoint handles one request in one step (its lock), so a request is
`Admitted` and `Execute`d or gets a `Reply` from what is known already.  The
environment may raise, may end an episode at any step, and may answer something
the JSON codec refuses; that last failure comes after the step took effect, as
in the code.  A request record stands for the canonical fingerprint of its
payload; each answer is numbered by the environment call it was computed from,
so that answers can be told apart.  An identity mismatch on reset or a malformed
action in a request that is otherwise allowed is not modelled; its effect on cache and
episode is that of `Reject`, and the conversions outside the `try` of `_step`
(264-275) raise past the cache.

`EvalRpc` puts a server thread and a client on the two ends of one connection.
The client is single-in-flight, so one unread request (`inbox`) and one unread
response (`outbox`) are all the socket can hold.  `peer` is how the client's end
looks to the server: `eof` if it closed with nothing unread, `reset` if
something the server had sent was still unread, which is what the kernel reports
for a Unix stream socket.  A timeout that fires while the server executes is
one that fires before the server has read the request: in both cases the
request is executed and its response meets a closed connection.  `answers` is
the history of what the client returned to its caller.  `Crash` and `Restart`
are a new process for the same run, with an empty cache; a new client process is
not modelled, since the evaluator is not in the repository.

## 3. What each run checks

| Run | Bounds | What it shows |
|---|---|---|
| `recording_session` | 4 episodes, queue of 2 (the code's), the markers of 2 episodes may fail, fair | type, complete verdicts, one owner per file, hand-over to the worker in order and bounded, a verdict stands or is taken back by its own finalization, a failure blocks the starts that check after it, `close()` is quiet, reports every loss and returns |
| `dataset_pipeline` | 2 episodes, queue of 1, markers may fail | published outputs are of one episode that was finalized when read and is complete on disk, and are never replaced; the session implements `ArtifactContract` |
| `human_recording` | 2 demonstrations, 3 episodes, frames may drop, fair | what is saved is finalized, ordered and complete; one disposition, nothing lost; quiet when the operator is asked; every exit settled and no loss silent; a press every tick saw fires once; leaving the loop ends the run |
| `human_recording_drop` | 1 demonstration, 1 episode, frames may drop | *violated*: one press fires two events (see Findings) |
| `causal_transaction` | 4 ids per role, 2 epochs, 2 digests, ticks and sequences up to 2 | chain, epochs, identities, time |
| `control_tick` | 4 control steps, 1 surprise, 2 transforms, 4 physics steps per tick, 28 to settle | rows are one stretch of simulated time; actions are fresh; sealed episodes are whole; a reset is no camera regression; the loop drives the validator as its specification allows |
| `teleop` | 2 arms, anything may be missing on any tick | no stale motion; one press toggles once |
| `teleop_reset` | the same, every frame complete | *violated*: a held button acts again after a reset (see Findings) |
| `physical_recording` | 3 CAN components, 1 camera, time up to 3, 2 connects, 2 rows, limits of 1, other callers move one arm or one gripper | a saved episode is what moved the arms; rows are fresh; a failed connect powers nothing; an action moves all the drives it names or none |
| `eval_endpoint` | 5 request ids (the capacity), 2 episode ids, 1 episode, horizon 2 | episodes are contiguous; what was answered never fills the capacity |
| `eval_rpc` | 2 request ids, 1 episode, horizon 1, 2 endpoint processes, fair | nothing executed twice, answers are their request's own and repeat; nobody waits forever |
| `eval_rpc_late_answer` | the same, 1 endpoint process | *violated*: the server ends with the run open (see Findings) |

Why the bounds are enough.  With a queue of 2 and 4 episodes the session can
hold one artifact running, one queued, one held back by backpressure or staged,
and one active, which is every place an artifact can be; more episodes only
repeat the pattern, and the theorems of section 5 do not depend on the number.
The writes of the finalization may fail in every episode; the failure and queue
markers may in the second and the third (`Unmarkable`), which are sealed with a
predecessor before them and an episode after them and can be marked by one
handler together.  The theorems hold for any set.
For the pipeline two episodes are what can be mixed up, and a queue of one is
enough for the worker to be behind.
Two demonstrations are needed for one to disturb the documents of another, and
three episodes for one of them to be split by a gap and the other not.  Four
control steps are a row, a gap and two more rows, or a row in each of two
demonstrations; the one surprise may fall between any two stages, and since no
check looks further back than its tick a second one meets the same checks.
`TeleopProcessor` has no bound: its state is finite.  Two rows are what
`RowsAreFresh` compares; time up to 3 lets one component of an arm be older than
the limit while the others are not, and two connects let the second start from
what a failed or partial first one left.  Two
request ids are enough for a retry to meet another request in between, for a
late answer to meet the wrong one, and for a restarted process to meet a request
its predecessor executed; arbitrary sequences up to the full capacity are the
business of `eval_endpoint`.  `MCEvalRpc` leaves the evaluator three requests
(reset, the first step, close).  Four
commits allow three in one epoch (both neighbours of a middle one) and one in
another.  The bounds are `MaxEpisodes`, `MaxDemos`, `MaxTick`, `MaxSequence`,
`MaxPending` (in the code a parameter), `Unmarkable`, `MaxInstances`, `Asked`, `MaxSteps`,
`MaxSurprises`, `MaxNow`, `MaxConnects`, `MaxRows` and the finite
`Ids`, `Epochs`, `Digests`, `Episodes`, `Matrices`, `Feeds`, `Offers`; each appears in one
guard or set.

`MCCausalTransaction` draws ids in order: ids are only compared for equality
and membership, so a caller that uses a new id may as well use the least new
one.  Offers for another epoch than the current one are left out there because
`prepare` and `complete_transition` reject them.  This model stops when ids and
ticks run out, `EvalEndpoint` when every id has been used, `ControlTick` when the
loop is over and `TemporalRecording` when time and connects are used up, hence
their `CHECK_DEADLOCK FALSE`; the other models check deadlock
(their end states stutter explicitly, or they have none).

## 4. Fairness

Only three kinds of steps are fair.  The worker (`WF(Worker)`, and `Settle` in
`HumanRecording`): `ThreadPoolExecutor(max_workers=1)` runs what it accepted,
and a read or write either completes or raises.  The blocked simulation thread
(`WF(Unblock)`, and `Leaving`): once the awaited future is done the call
returns.  `WF(Close)`: the loop runs at most `s2_max_control_steps` times and
its `finally` block always closes the session.  In `EvalRpc` the server's
thread is fair and so is a client that reads what has arrived (`WF(Server)`,
`WF(Receive \/ Hangup)`): both sit in a blocking read or accept that returns once
there is something to return.  Sending, giving up, reconnecting and crashing are
not fair.  Operator actions, gaps,
disconnects and failures are never fair.  `CloseReturns` holds also on a disk that
refuses the failure marker (`Unmarkable`): the code then leaves the
marker as it was, and `ClosedIsQuiet` says that such an episode is reported to the
caller.  `ControlTick`, `TeleopProcessor`, `TemporalRecording` and
`DatasetPipeline` state safety only and assume no fairness.

## 5. What is proved

Every safety invariant the runs check is also a theorem, and so are the two
action properties `VerdictsStand` and `PublishedOnce`, `FailureBlocksRecording`
and the refinement `KeepsContract`; `DrivesValidator` and the liveness
properties are not (see the end of this section).  A theorem holds for every
value of the constants that satisfies the named assumptions, so for any number
of episodes, demonstrations, control steps, requests, CAN components and arms.

The assumptions say that bounds are natural numbers (positive where an instance
of zero does not exist), that the value standing for Python's `None` is none of
the data (`NoneAssumption`, `EndpointAssumption`, `EvalAssumption`), that a
headset has a transform (`MatricesAssumption`), that the left arm is one of the
arms (`ArmsAssumption`) and that each arm has a CAN component from which its
snapshot is made (`FeedsAssumption`: `RowsAreFresh` speaks about the oldest one,
and an arm without any has none), and that other callers ask for drives the arms have
(`OffersAssumption`).  TLC evaluates all of them in its runs.

Each module follows one pattern.  The property of a run is seldom inductive: an
invariant is named that contains it and says what the code relies on at each
position; one lemma per action shows that it is preserved; `Invariant` concludes
by PTL; each theorem is a consequence.  The invariants were first checked by
TLC on the bounds of section 3.

**RecordingSession.**  Nothing in `FinalizedIsComplete`, `FilesHaveOneOwner` and
`VerdictsStand` says that the worker's job was sealed, or that the artifact inside
`submit` is not also in the queue.  `Inv` adds who holds which episode:

- `Unopened`: directories not yet opened hold nothing;
- `CallShape`: the position `at` and the `caller` fix which of
  `deferred`, `submitting` and `active` are set, and the marker of the active one;
- `Hands`: those are different episodes, and a staged or submitted one is marked
  `queued_for_finalization`;
- `Handed`: an episode with a future is in no hand, is untouched while its
  future is queued, and is the worker's `job` while it runs;
- `WorkerShape`: what the files of the `job` say at each `wstep`, the handler's
  included, which may find a published marker with both other files behind it;
- `AcceptedHasRows`: an episode sealed with an accepted outcome has rows.

`Strong` adds what the queue's order and the reported errors need:

- `Calls`: what the simulation thread has let go of, and that it does not block on
  a future once it knows of a failure;
- `HandsInOrder`: artifacts leave its hands in the order they were opened, the
  newest sealed one waiting for its successor's first transition;
- `QueueShape`: the futures in the queue are in order, behind one that is not done
  all are queued, and what left the queue is done, older and, if it failed, noticed;
- `Accounted`: an artifact without a verdict is in somebody's hands, or its loss
  was reported.

From it follow `HandOverInOrder`, `ClosedIsQuiet`, `FailureBlocksRecording` and,
step by step, `SessionKeepsContract`: under `ArtifactOf` each step of either thread
is a step of `ArtifactContract` or a stutter, a marker that could not be written
being the contract's failure of that episode.  This is what `HumanRecording`
builds on.

**DatasetPipeline.**  `PipelineRunsSession`: the tools only read the session's
files, so the session beside them takes its own steps and its theorems carry over.
`PInv` then says what a command that has made n of its reads holds: after the
second one an episode of `readable`, and before the publication one recording joined
from all reads; and that every episode of `readable` is `Completed`, which by
`VerdictsStand` it stays though its marker may be taken back.  `MadeOfOneFinalized` and
`PublishedOnce` follow, for any number of episodes and of other processes.

**HumanRecording.**  `HInv` is the type invariant, the saved and pressed properties
themselves and
`Control` (where the loop may be in each lifecycle state), `Disposed` (the latest
demonstration has no document yet, every earlier one has), `Numbered` and `Listed`
(episodes are opened in order, and the demonstration's list is all of its own),
`Calm` (nothing records and nothing is unsettled when somebody is asked or the run
is over), `Reported` (an episode is stranded, or failed without having been given
up, only when the run or its session knows of an error) and `Savable` (an episode of a demonstration that may still be saved is
sealed, finalized, or failed with the failure marked on the session).

**ControlTick.**  `CInv` joins the device, the cameras and the loop.  `Deciding`
says which local variables a stage may rely on; `OpenOK` says of the open episode
that its rows are one stretch of simulated time, that its last successor is the
terminal and, at the beginning of a tick, the promoted token, that the tick's
token is the pending one, and that its rows are of the validator's epoch;
`AppliedInv` says that what was applied last is consumed, which is why `validate_xr`
refuses it a second time.  No stage assumes anything of what Kit, CloudXR and lazy
cameras did before it: the lemmas about them (`DeviceStep`, `CameraStep`) are used in
every stage and in `Surprise`.

**TeleopProcessor.**  `Owed`: a retargeter holds back motion that must not come
out only while the next poll is a reset.  `Remembered`: the arm of a press that
has acted still holds it as pressed, or waits for the rebase that will look at it.

**PiperXFollower and TemporalRecording.**  `ArmInv`, `MotionInv` and `FeedbackInv`
are the arms, what they were told (`Delivered`: an action the loop goes on to write)
and the copy under the lock.  The recorder's invariant follows the
ticket: what is prepared before the action is fresh (`Ticket`), what is in the
buffer is what moved the arms (`Books`), and the validator remembers the last row
unless a frame is stuck (`Remembers`), in which case nothing can be added.

**EvalEndpoint and EvalRpc.**  `EndpointInv` holds with an arbitrary caller:
`Running` (an active episode is where its last successful call left it),
`Recorded` (a cached answer names its call) and `Budget`, the count behind
`CapacitySuffices`: the answered entries of the cache and those the active episode
may still need are at most horizon + 2 per started episode, which leaves the one
entry of the final close.  So a caller none of whose requests was refused or failed
always finds room for its close.  It is not promised to any other: a refused or
failed request keeps its place in the cache, and as many of them as there are
places to spare do starve the close.  `RpcInv` adds both ends
of the socket (`Wire`), that only the first endpoint a client met executes its
requests (`OneEndpoint`), and that while that endpoint lives every answer, the one on
the wire included, is the one it would give again (`Standing`); `ExactlyOnce`
is what remains of that after a restart (`Once`, `Truthful`).

**CausalTransaction.**  `TypeCorrect` first; then `ChainAlwaysPaired` (the
strengthening: the expected observation is the last commit's successor as long
as the epoch lasts, and a pending transaction was paired with it),
`EpochsAlwaysContiguous` (the current epoch is the last of the log or new),
`IdentitiesAlwaysUsedOnce` (every committed or pending identity is remembered,
and remembered ones are not offered again) and `TimeAlwaysForward` (ticks and
sequences remembered per epoch bound those of the log).

The proofs changed four definitions of the models.  `ArtifactOf` was a CASE with
overlapping guards, of which TLC takes the first and the semantics any; it is an
IF chain now.  `EpisodesAreContiguous` and `Fired` used `SelectSeq`, about which
the prover knows nothing for sequences of any length: the first names, for each
successful call, the successful call before it; the second is the set of the
buttons' places of which `buttons()` takes the first.  `FeedsAssumption` did not
demand a component per arm.

Only model-checked: the liveness properties `CloseReturns`, `LeavingEnds` and
`NobodyWaitsForever` (fairness and ENABLED are beyond the prover), and
`DrivesValidator`, whose mapping numbers the epochs and selects the committed
transactions of a sequence by `Min`, `Max` and `SelectSeq`, and for which the
invariant would have to remember every epoch and tick of the run.

## 6. Findings

`human_recording_drop` (`OnePressOneEvent`).  The operator manual,
`docs/project/RUN_VR_OPERATIONS.md` lines 101-103, says: "Each press is a rising
edge; release a button before using it in another state.  In particular,
holding X after Save cannot select success."  The code computes edges from what
the pipeline reports.  A tick without an action feeds zeros to
`lifecycle.buttons` (`isaac_s2_runtime.py` 713-724), and a missing controller
reads 0.0 (`isaac_s2_upstream.py` 276), so `_held` forgets a button that is
still down.  In the trace the operator presses X to save, keeps holding it, one
frame misses the left controller, and the next frame's X is a new edge which
classifies the demonstration as a success.  For a press that every tick saw the
statement holds (`SeenPressFiresOnce`).

`teleop_reset` (`HeldDisplayActsOnce`).  `VRRuntime.after_reset`
(`isaac_vr_runtime.py` 698-699) says: "Preserve edge state across a scene reset so
a physically held X/B cannot be interpreted as a second press in the new reset
epoch."  It does preserve it, but in the tick of the reset `run_s2` drops the
action (`isaac_s2_runtime.py` 822) and then hands `consume_display_button` the
default 0.0 (827-832, 861), which clears the edge state (`isaac_vr_runtime.py`
731).  The next tick reads the held X as a new press and switches the display
back.  The run has every frame complete; only the reset and the finger act.  The
layout button two lines above is guarded (`if action is not None`), and its comment
names the reason.

`eval_rpc_late_answer` (`ServesUntilClosed`).  `serve_unix_socket` says "Serve one
endpoint until a deduplicated close request succeeds." (`isaac_eval_rpc.py` 295),
and `docs/EVALUATION_POLICY.md` 42 that across a "transport reconnect" the "dedup
cache remains valid".  A client that closes its end with a response unread
resets the connection: its timeout and the answer crossed, or it gave up waiting
for the handshake that was just sent.  The server's next read (line 311) raises
`ConnectionResetError`; only a `BrokenPipeError` from a write is caught (322).
The exception leaves `serve_unix_socket`, which removes the socket: the run is
not closed, and the client can neither reconnect nor retry.  The trace is the
shortest one, with the handshake; running the two functions against each other
gives the same exception.

`docs/EVALUATION_POLICY.md` 66-80 already lists other gaps as defects (the lost
`close` response, malformed actions that end the server, errors without request
id); the model has the first and the third, since they are what the code does,
and none of its properties denies them.

Two observations contradict no document and have no run of their own.
`_atomic_write_json` may raise behind its `os.replace`, so a published `finalized` can
turn into `failed`; a tool that read it in between has published from a recording
that is complete, whose session reports a failed finalization.  And a
`start_live_recording` that raises leaves `in_progress` behind for good; the run
ends with an exception, and no tool reads such a recording.

## 7. Plan

All planned components are modelled, and what the runs check of their safety is
proved.  What is left, in this order:

1. `DrivesValidator`.  `CInv` needs the history: `asked` has ticks and updates in
   increasing order and its last entry is the pending one; `entered` has no epoch
   twice, because reset epoch, episode number, reference and session only grow in
   that order of significance, and a loop without a validator opens a new episode
   or has reset.  The committed transactions become a sequence of their own in
   place of `SelectSeq`, the bound on sequences a function of all the loop's
   bounds; then the steps are mapped one by one.
2. That `EvalRpc` implements an abstract endpoint that executes each request at
   most once and answers it for good, as a refinement in place of the history
   variable `answers`.
3. The parts listed as partly modelled whose rest is control: hold-to-scale
   sensitivity, and the malformed envelopes of the evaluation endpoint.

## Not modelled

- Physics, rendering and IK numerics: external or numeric code.  So are the
  scene, materials and lighting of `run_isaac_s1.py` and `isaac_vr_runtime.py`,
  and the drawing of the camera panels and of the recording UI.
- HDF5 layout, image encoding and decoding, row conversion, the RGB alignment and
  pose parity assays: data.
- Argument parsing, configuration and contract validation, manifests, asset
  hashing, document lint: sequential one-shot scripts without state.
- The launcher: a wrapper around one child.  One hazard of it is listed without
  a property: a SIGINT after the child exists and before `process` is bound is not
  forwarded, and later ones are ignored (`launch_isaac_vr.py` 691-697).
- Benchmarks, smokes and diagnostics drive the components above; the
  archive and the experiments under `src/docs` are records of earlier versions.
- `commit_transaction_frame`, and with it `validate_persistence` and
  `mark_persisted`, has no caller outside the tests.  DIAG mode of `run_s2` records
  nothing.
- Hold-to-scale sensitivity (a continuous factor), the switches of a single arm's
  configuration other than the default one, and malformed RPC envelopes.
- Details inside modelled parts: the host's reset beside the operator's in
  `ResetAsked` (it leads to the same tick), the processor generation `apply` checks
  beside the other ones, the stream a failed `connect()` of the evaluation client
  leaves open behind its closed socket, and the sources that read poses and
  buttons from the headset (`XrDevice` starts at what they deliver).

These make up most of the lines of `src/`: the state machines, protocols and
threads of the repository are the smaller part of it, and the models map those.
