-------------------------- MODULE TemporalRecording -------------------------
(***************************************************************************)
(* Recording the physical arms: TimestampedTeleoperator,                   *)
(* LeRobotFrameTimingProvider and TemporalLeRobotDatasetAdapter            *)
(* (tools/temporal_recording.py) around PhysicalTimingValidator and        *)
(* TemporalFrameRecorder (tools/d0_temporal.py), composed with the arms.   *)
(*                                                                         *)
(* External: the record loop, which observes, acts, sends and adds, may be *)
(* interrupted between any two, and whose caller may save, clear, go on or *)
(* reconnect whatever happened; and the dataset, which may raise.          *)
(*                                                                         *)
(* A sample is its time: within a source, sequence and time advance        *)
(* together, and the validator wants both to.                              *)
(***************************************************************************)
EXTENDS PiperXFollower, Sequences

CONSTANTS
    StateAge, CameraAge, Skew,  \* the limits of timing
    MaxRows,                    \* bound on the actions of an episode
    Offers                      \* what others than the loop ask: sets of drives

Timings == [state : Nat, camera : Nat, action : Nat]
Prepareds == [timing : Timings, selected : Nat]

ASSUME OffersAssumption == \A asks \in Offers : asks \subseteq Drives

ASSUME NoneAssumption == None \notin Timings \cup Prepareds

VARIABLES
    step,       \* where the record loop is in its tick
    seen,       \* the observation: its oldest value, its time, its image's
    action,     \* the time of the teleoperator's latest action
    pending,    \* TemporalLeRobotDatasetAdapter._pending
    last,       \* PhysicalTimingValidator._last_accepted
    buffer,     \* the dataset's episode buffer
    moved,      \* what moved the arms since the buffer was empty (history)
    dishonest   \* an episode was saved that is not what moved (history)

loopVars == <<step, seen, action>>
datasetVars == <<pending, last, buffer, moved, dishonest>>
followerVars == <<now, armVars, canVars, motionVars>>
vars == <<followerVars, loopVars, datasetVars>>

Init ==
    /\ InitFollower
    /\ step = "ready" /\ seen = None /\ action = 0
    /\ pending = None /\ last = None
    /\ buffer = <<>> /\ moved = <<>> /\ dishonest = FALSE

-----------------------------------------------------------------------------
(* One tick of the record loop                                             *)

\* The tick ends, in whatever way, and its locals with it: the timing the robot
\* and the teleoperator hold is not read before they set it anew.
Leave == step' = "ready" /\ seen' = None /\ action' = 0

Interrupted ==
    /\ step # "ready"
    /\ Leave
    /\ UNCHANGED <<followerVars, datasetVars>>

AllConnected == \A a \in Arms : IsConnected(a, arm[a])

\* BiPiperXFollower.get_observation, the left arm and its camera.
ObserveLeft(image) ==
    /\ step = "ready" /\ AllConnected /\ Complete("left")
    /\ seen' = [value |-> OldestValue("left"), state |-> OldestComponent("left"),
                camera |-> image]
    /\ step' = "observing"
    /\ UNCHANGED <<followerVars, action, datasetVars>>

\* The right arm: the state of the pair is as old as the older one.
ObserveRight ==
    /\ step = "observing" /\ IsConnected("right", arm["right"]) /\ Complete("right")
    /\ seen' = [seen EXCEPT !.value = Min({@, OldestValue("right")}),
                            !.state = Min({@, OldestComponent("right")})]
    /\ step' = "observed"
    /\ UNCHANGED <<followerVars, action, datasetVars>>

Timing == [state |-> seen.state, camera |-> seen.camera, action |-> now]

\* _validated_frame
Valid(timing) ==
    /\ now - timing.state <= StateAge
    /\ now - timing.camera <= CameraAge
    /\ now - Min({timing.state, timing.camera}) <= Skew
    /\ last # None => \A source \in DOMAIN timing : timing[source] > last[source]

\* Mutant: an uncommitted frame is forgotten.
PrepareAnyway ==
    IF Valid(Timing)
    THEN /\ pending' = [timing |-> Timing, selected |-> now]
         /\ step' = "selected" /\ action' = now /\ UNCHANGED seen
    ELSE UNCHANGED pending /\ Leave

\* prepare_for_actuation, which raises before the action is returned.
Prepare ==
    IF pending = None /\ Valid(Timing)
    THEN /\ pending' = [timing |-> Timing, selected |-> now]
         /\ step' = "selected" /\ action' = now /\ UNCHANGED seen
    ELSE UNCHANGED pending /\ Leave

\* TimestampedTeleoperator.get_action
GetAction ==
    /\ step = "observed"
    /\ Prepare
    /\ UNCHANGED <<followerVars, last, buffer, moved, dishonest>>

Frame == [state |-> seen.value, camera |-> seen.camera, action |-> action]

MayMove == \A a \in Arms : MotionReady(a, arm[a])

\* Robot.send_action: the teleoperator's action has a value for every drive,
\* good or bad.  The loop ends when it raises.
Send(bad, served) ==
    /\ step = "selected" /\ Len(moved) < MaxRows
    /\ MayMove
    /\ SendAction(Drives, bad, served)
    /\ moved' = IF Commanded(Drives, bad, served) = {} THEN moved ELSE Append(moved, Frame)
    /\ IF Commanded(Drives, bad, served) = Drives
       THEN step' = "sent" /\ UNCHANGED <<seen, action>>
       ELSE Leave
    /\ UNCHANGED <<pending, last, buffer, dishonest>>

\* commit_frame and its add_frame: the frame gets the prepared timing.
Row == [frame |-> Frame, timing |-> pending.timing, selected |-> pending.selected]

AddFrame ==
    /\ step = "sent" /\ pending # None
    /\ buffer' = Append(buffer, Row)
    /\ last' = pending.timing
    /\ pending' = None
    /\ Leave
    /\ UNCHANGED <<followerVars, moved, dishonest>>

\* The dataset raises, with the row in its buffer or not.
AddFrameRaises ==
    /\ step = "sent"
    /\ buffer' \in {buffer, Append(buffer, Row)}
    /\ Leave
    /\ UNCHANGED <<followerVars, pending, last, moved, dishonest>>

-----------------------------------------------------------------------------
(* The episode                                                             *)

\* _reset_episode_state
ResetEpisode == pending' = None /\ last' = None

Emptied == buffer' = <<>> /\ moved' = <<>>

Honest == moved = [i \in DOMAIN buffer |-> buffer[i].frame]

\* save_episode is refused while a frame is prepared.
SaveEpisode ==
    /\ step = "ready" /\ pending = None
    /\ dishonest' = (dishonest \/ ~Honest)
    /\ Emptied /\ ResetEpisode
    /\ UNCHANGED <<followerVars, loopVars>>

\* clear_episode_buffer
ClearEpisode ==
    /\ step = "ready"
    /\ Emptied /\ ResetEpisode
    /\ UNCHANGED <<followerVars, loopVars, dishonest>>

\* The dataset raises on saving or clearing, its buffer empty already.
EpisodeRaises ==
    /\ step = "ready" /\ moved # <<>>
    /\ Emptied
    /\ UNCHANGED <<followerVars, loopVars, pending, last, dishonest>>

\* Between episodes anyone may move the arms, with an action for some drives
\* only: for one arm, or for a gripper and no joints.
Move(asks, bad, served) ==
    /\ step = "ready" /\ moved = <<>>
    /\ MayMove
    /\ SendAction(asks, bad, served)
    /\ UNCHANGED <<loopVars, datasetVars>>

-----------------------------------------------------------------------------
RecorderUnchanged == UNCHANGED <<loopVars, datasetVars>>

Next ==
    \/ step = "ready" /\ Connect /\ RecorderUnchanged
    \/ step = "ready" /\ Disconnect /\ RecorderUnchanged
    \/ \E a \in Arms : CameraDrops(a) /\ RecorderUnchanged
    \/ Time /\ RecorderUnchanged
    \/ \E f \in Feeds : ParseFrame(f) /\ RecorderUnchanged
    \/ StoreFrame /\ RecorderUnchanged
    \/ Interrupted
    \/ \E image \in 1..now : ObserveLeft(image)
    \/ ObserveRight
    \/ GetAction
    \/ \E bad \in SUBSET Arms, served \in Servings : Send(bad, served)
    \/ \E asks \in Offers, bad \in SUBSET Arms, served \in Servings :
          Move(asks, bad, served)
    \/ AddFrame
    \/ AddFrameRaises
    \/ SaveEpisode
    \/ ClearEpisode
    \/ EpisodeRaises

Spec == Init /\ [][Next]_vars

-----------------------------------------------------------------------------
(* Correctness                                                             *)

\* A saved episode is what moved the arms, tick for tick: no action of it was
\* sent and not recorded, or recorded and not sent, and every row's timing is
\* that of its own observation and action.
EpisodeIsWhatMoved ==
    /\ ~dishonest
    /\ pending = None => Honest
    /\ \A i \in DOMAIN buffer : buffer[i].timing = buffer[i].frame

\* Every row acts on feedback no component of which, in either arm, was older
\* than the limit when the action was selected; and no row reuses the sample
\* of the one before.
RowsAreFresh ==
    \A i \in DOMAIN buffer :
        /\ buffer[i].selected - buffer[i].frame.state <= StateAge
        /\ buffer[i].selected - buffer[i].frame.camera <= CameraAge
        /\ i > 1 => \A x \in DOMAIN buffer[i].frame :
                       buffer[i].frame[x] > buffer[i - 1].frame[x]

\* "bimanual second-arm connect failure -> roll back the first arm": a connect
\* that fails leaves no arm powered that was not, unless DisableArm raised.
FailedConnectPowersNothing == \A a \in off : ~arm[a].powered

\* An action that one arm cannot take moves neither, and one that both take
\* moves every drive it has something for, and only those, unless the SDK cuts
\* it off: each drive was last commanded the latest action accepted for it.
\* An action the record loop goes on to write has moved them all.
ArmsMoveTogether ==
    /\ behind \subseteq torn
    /\ step = "sent" => behind = {}
=============================================================================
