--------------------------- MODULE PiperXFollower ---------------------------
(***************************************************************************)
(* Two PIPER-X arms behind one Robot (lerobot_robot_piperx/piperx.py) and  *)
(* the CAN feedback of their SDK adapter (sdk.py): connect with its        *)
(* rollback, disconnect, the locked feedback snapshot, and the action that *)
(* both arms must accept before it moves any of their drives.              *)
(*                                                                         *)
(* External: the motors (EnablePiper, DisableArm), the cameras and the CAN *)
(* reader thread.  Any call of them may raise.  Each arm's configuration   *)
(* is the default one: enable_on_connect, not disable_on_disconnect.       *)
(***************************************************************************)
EXTENDS FiniteSetsExt, Integers, Absent

CONSTANTS
    Feeds,      \* the CAN components: pairs of an arm and a component's name
    Cameras,    \* the arms that have a camera
    MaxNow,     \* bound on time
    MaxConnects \* bound on calls of connect()
ASSUME FeedsAssumption ==
    /\ \A f \in Feeds : f[1] \in {"left", "right"}
    /\ \A a \in {"left", "right"} : \E f \in Feeds : f[1] = a
ASSUME CamerasAssumption == Cameras \subseteq {"left", "right"}

VARIABLES
    now,        \* the host's clock
    arm,        \* the flags of each PiperXFollower, its motors and camera
    connects,   \* how often connect() was called
    off,        \* arms a failed connect answers for: unpowered (history)
    live,       \* receive time of the message the SDK parsed last, 0 for none
    store,      \* the copy under _temporal_snapshot_lock: value and stamp
    hand,       \* the frame the CAN thread parsed and has not copied yet
    behind,     \* drives whose last command is not of the last action that
                \* was accepted for them (history)
    torn        \* drives whose last action the SDK cut off (history)

armVars == <<arm, connects, off>>
canVars == <<live, store, hand>>
motionVars == <<behind, torn>>

Arms == {"left", "right"}
Drives == Arms \X {"joints", "gripper"}

Off == [connected |-> FALSE, configured |-> FALSE, enabled |-> FALSE,
        powered |-> FALSE, camera |-> FALSE]

NoFrame == [value |-> 0, stamp |-> 0]

InitFollower ==
    /\ now = 1
    /\ arm = [a \in Arms |-> Off]
    /\ connects = 0 /\ off = {}
    /\ live = [f \in Feeds |-> 0] /\ store = [f \in Feeds |-> NoFrame] /\ hand = None
    /\ behind = {} /\ torn = {}

-----------------------------------------------------------------------------
(* Connecting                                                              *)

HasCamera(a, s) == a \in Cameras => s.camera
IsConnected(a, s) == s.connected /\ HasCamera(a, s)
MotionReady(a, s) == IsConnected(a, s) /\ s.configured /\ s.enabled

Resources(s) == s.connected \/ s.configured \/ s.enabled \/ s.camera

\* _cleanup_connection: each call is made whatever the others raise, and the
\* flags fall whatever they raise.
Cleaned(s, force, cameras, broken) ==
    [Off EXCEPT !.powered = s.powered /\ (~force \/ "disable" \in broken),
                !.camera = s.camera /\ (~cameras \/ "camera" \in broken)]

\* The cleanup calls of each arm that would raise.
Breakages ==
    {broken \in [Arms -> SUBSET {"disable", "camera"}] :
        \A a \in Arms \ Cameras : "camera" \notin broken[a]}

Calls == {"port", "configure", "enable", "camera"}

\* connect() up to the call that raises, "port" standing for the calibration
\* before it too.  A call that raises, or an enable that times out, may have
\* done its work all the same: late.
Reached(s, call, late) ==
    CASE call = "port" -> s
      [] call = "configure" ->
            [s EXCEPT !.connected = TRUE, !.configured = FALSE, !.enabled = FALSE]
      [] call = "enable" ->
            [s EXCEPT !.connected = TRUE, !.configured = TRUE, !.enabled = FALSE,
                      !.powered = @ \/ late]
      [] call = "camera" ->
            [s EXCEPT !.connected = TRUE, !.configured = TRUE, !.enabled = TRUE,
                      !.powered = TRUE, !.camera = @ \/ late]

\* The arm's connect().  An interrupt is no Exception and rolls nothing back.
Connects(a, s, broken) ==
    IF IsConnected(a, s) THEN {[arm |-> s, raised |-> "exception"]}
    ELSE {[arm |-> [x \in DOMAIN Off |-> x = "camera" => a \in Cameras], raised |-> "no"]}
         \cup
         UNION {LET s1 == Reached(s, call, late)
                IN  {[arm |-> s1, raised |-> "interrupt"],
                     [arm |-> Cleaned(s1, call \in {"enable", "camera"}, call = "camera", broken),
                      raised |-> "exception"]} :
                call \in Calls \ (IF a \in Cameras THEN {} ELSE {"camera"}),
                late \in BOOLEAN}

\* Mutant: the rollback leaves the first arm as disconnect would.
RolledBackAsDisconnect(s, broken) == Cleaned(s, FALSE, TRUE, broken)

\* BiPiperXFollower.connect, the first arm when the second one raised.
RolledBack(s, broken) == Cleaned(s, TRUE, TRUE, broken)

\* BiPiperXFollower.connect
Connect ==
    /\ connects < MaxConnects /\ connects' = connects + 1
    /\ ~\A a \in Arms : IsConnected(a, arm[a])
    /\ \E broken \in Breakages :
       \E left \in Connects("left", arm["left"], broken["left"]) :
          \/ /\ left.raised # "no"
             /\ arm' = [arm EXCEPT !["left"] = left.arm]
             /\ off' = IF left.raised = "interrupt" THEN {}
                       ELSE {a \in Arms : ~arm[a].powered /\ "disable" \notin broken[a]}
          \/ /\ left.raised = "no"
             /\ \E right \in Connects("right", arm["right"], broken["right"]) :
                   \/ /\ right.raised # "exception"
                      /\ arm' = [left |-> left.arm, right |-> right.arm]
                      /\ off' = {}
                   \/ /\ right.raised = "exception"
                      /\ arm' = [left |-> RolledBack(left.arm, broken["left"]),
                                 right |-> right.arm]
                      /\ off' = {a \in Arms : ~arm[a].powered /\ "disable" \notin broken[a]}
    /\ UNCHANGED <<now, canVars, motionVars>>

\* BiPiperXFollower.disconnect: each arm that has anything to give back.
Disconnect ==
    /\ \E a \in Arms : Resources(arm[a])
    /\ \E broken \in Breakages :
          arm' = [a \in Arms |-> IF Resources(arm[a]) THEN Cleaned(arm[a], FALSE, TRUE, broken[a])
                                 ELSE arm[a]]
    /\ UNCHANGED <<now, connects, off, canVars, motionVars>>

CameraDrops(a) ==
    /\ arm[a].camera
    /\ arm' = [arm EXCEPT ![a].camera = FALSE]
    /\ UNCHANGED <<now, connects, off, canVars, motionVars>>

-----------------------------------------------------------------------------
(* Feedback                                                                *)

Time ==
    /\ now < MaxNow
    /\ now' = now + 1
    /\ UNCHANGED <<armVars, canVars, motionVars>>

\* ParseCANFrame of the base class: the message the SDK holds changes.
ParseFrame(f) ==
    /\ \E a \in Arms : arm[a].connected
    /\ hand = None /\ live[f] < now
    /\ live' = [live EXCEPT ![f] = now]
    /\ hand' = f
    /\ UNCHANGED <<now, armVars, store, motionVars>>

\* The rest of ParseCANFrame: value, time and sequence change under the lock.
StoreFrame ==
    /\ hand # None
    /\ store' = [store EXCEPT ![hand] = [value |-> live[hand], stamp |-> live[hand]]]
    /\ hand' = None
    /\ UNCHANGED <<now, armVars, live, motionVars>>

FeedsOf(a) == {f \in Feeds : f[1] = a}

\* Every component has been received once.
Complete(a) == \A f \in FeedsOf(a) : store[f] # NoFrame

\* Mutant: the newest component dates the state.
NewestComponent(a) == Max({store[f].stamp : f \in FeedsOf(a)})

\* GetTemporalObservationSnapshot and the oldest time of its components.
OldestComponent(a) == Min({store[f].stamp : f \in FeedsOf(a)})

\* The oldest of the values in that snapshot: a value is when it was received.
OldestValue(a) == Min({store[f].value : f \in FeedsOf(a)})

-----------------------------------------------------------------------------
(* Motion                                                                  *)

\* The order in which the drives are commanded: JointCtrl, then GripperCtrl,
\* of the left arm and then of the right one.
Place(d) == (IF d[1] = "left" THEN 0 ELSE 2) + (IF d[2] = "joints" THEN 1 ELSE 2)

\* What the SDK serves before it raises; all of them when it does not.
Servings == {{d \in Drives : Place(d) <= k} : k \in 0..4}

\* Mutant: the right arm's part is converted after the left arm moved.
CommandedInTurn(asks, bad, served) ==
    {d \in asks \cap served : "left" \notin bad /\ (d[1] = "right" => bad = {})}

\* The drives an action moves that has something for those of "asks" and whose
\* part is bad (partial joints, a value that is not finite) for the arms of
\* "bad".  _prepare_action of both arms comes before any command, and an arm
\* the action has nothing for takes it too and is not commanded.
Commanded(asks, bad, served) == IF bad = {} THEN asks \cap served ELSE {}

\* send_action of arms that are ready for motion
SendAction(asks, bad, served) ==
    LET accepted == IF bad = {} THEN asks ELSE {}
        commanded == Commanded(asks, bad, served)
    IN  /\ behind' = (behind \ commanded) \cup (accepted \ commanded)
                          \cup (commanded \ accepted)
        /\ torn' = (torn \ accepted) \cup (accepted \ served)
        /\ UNCHANGED <<now, armVars, canVars>>
=============================================================================
