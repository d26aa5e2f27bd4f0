------------------------- MODULE ThreeCameraCapture -------------------------
(***************************************************************************)
(* The producer side of an observation: the environment's physics step and *)
(* state generation (tools/run_isaac_s1.py, tools/isaac_vr_runtime.py),    *)
(* ThreeCameraCapture (tools/isaac_vr_capture.py) and the CameraGuard of   *)
(* ordinary RUN (tools/isaac_vr_camera_guard.py).  RECORD runs with the    *)
(* live cameras off and reads the articulation state alone.                *)
(*                                                                         *)
(* One camera stands for the three: the slowest, which is the one a failed *)
(* capture did not reach.  The operators are the steps the control loop    *)
(* takes; each says what becomes of every variable of this module.         *)
(***************************************************************************)
EXTENDS Absent, Integers

CONSTANTS
    Repeat,     \* physics steps of a control step
    Settle,     \* physics steps env.reset settles for
    MaxStale    \* CameraGuard.max_stale_steps
ASSUME CaptureAssumption == Repeat \in Nat \ {0} /\ Settle \in Nat /\ MaxStale \in Nat

VARIABLES
    live,       \* live_rgb_enabled: RUN, not RECORD
    resets,     \* VRCameraRig.reset_epoch
    step,       \* sim.get_physics_step_count()
    generation, \* env._state_physics_step
    frames,     \* Camera.frame, restarted by a reset
    data,       \* SensorBase._data_generation
    latest,     \* ThreeCameraCapture._latest
    previous,   \* CameraGuard.previous, None when absent
    stale       \* CameraGuard.stale

camera == <<live, resets, step, generation, frames, data, latest, previous, stale>>

Captures == [resets : Nat, step : Nat, data : Nat]

CaptureTypeOK ==
    /\ live \in BOOLEAN
    /\ resets \in Nat /\ step \in Nat /\ generation \in Nat
    /\ frames \in Nat /\ data \in Nat
    /\ latest \in Captures \cup {None}
    /\ previous \in Nat \cup {None} /\ stale \in 0..(MaxStale + 1)

CaptureInit ==
    /\ live \in BOOLEAN
    /\ resets = 1 /\ step = Settle /\ generation = Settle
    /\ frames = 1 /\ data = 1
    /\ latest = IF live THEN [resets |-> 1, step |-> Settle, data |-> 1] ELSE None
    /\ previous = None /\ stale = 0

\* What a capture after physics leaves, the camera restarting from frame from:
\* a capture of the boundary, or nothing whichever camera was reached.
Extract(from) ==
    \/ /\ frames' = from + 1 /\ data' = data + 1
       /\ latest' = [resets |-> resets', step |-> step', data |-> data + 1]
    \/ /\ frames' \in {from, from + 1} /\ data' = data + (frames' - from)
       /\ latest' = None

\* env._advance(n): every substep invalidates the capture, the last one retakes it.
AdvancePhysics(n, from) ==
    /\ step' = step + n /\ generation' = step + n
    /\ IF live THEN Extract(from) ELSE UNCHANGED <<frames, data, latest>>

Advance ==
    /\ UNCHANGED <<live, resets, previous, stale>>
    /\ AdvancePhysics(Repeat, frames)

\* Mutant: the guard compares across a reset.
GuardKeeps == UNCHANGED <<previous, stale>>

\* CameraGuard.reset()
GuardReset == previous' = None /\ stale' = 0

\* env.reset(seed), and the guard's reset next to it.
ResetScene ==
    /\ resets' = resets + 1
    /\ AdvancePhysics(Settle, 0)
    /\ GuardReset
    /\ UNCHANGED live

\* ThreeCameraCapture.latest() returns the capture: it is of this boundary and
\* no camera was updated since.
IsCurrent(capture) ==
    /\ capture # None
    /\ capture.resets = resets /\ capture.step = step
    /\ capture.data = data

Observed == IF IsCurrent(latest) THEN latest ELSE None

\* env.capture_measured_state() does not raise.
Measurable == generation = step

\* CameraGuard.sample accepts the counter.
StaleNow == IF previous # None /\ frames <= previous THEN stale + 1 ELSE 0
GuardAccepts == (previous # None => frames >= previous) /\ StaleNow <= MaxStale

GuardSample == previous' = frames /\ stale' = StaleNow

\* An application update outside env._advance: physics moves and nobody
\* refreshed the articulation buffers or invalidated the capture.
StrayPump ==
    /\ step' = step + 1
    /\ UNCHANGED <<live, resets, generation, frames, data, latest, previous, stale>>

\* Somebody reads Camera.data, which updates the camera lazily.
LazyUpdate ==
    /\ live
    /\ frames' = frames + 1 /\ data' = data + 1
    /\ UNCHANGED <<live, resets, step, generation, latest, previous, stale>>
=============================================================================
