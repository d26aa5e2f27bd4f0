--------------------------- MODULE TeleopProcessor ---------------------------
(***************************************************************************)
(* From the operator's hands to a Cartesian command in ordinary RUN:       *)
(* TrackingSafeSe3RelRetargeter over upstream's relative retargeter        *)
(* (tools/isaac_s2_upstream.py), BimanualS2TeleopProcessor                 *)
(* (tools/isaac_s2_processor.py, toggle sensitivity), the presentation     *)
(* button of tools/isaac_vr_runtime.py, and the order run_s2 calls them.   *)
(*                                                                         *)
(* A displacement is what the operator may be held to: a hand moves in     *)
(* every interval, and the motion is stale when it was not seen from end   *)
(* to end, or came before a reset.  The retargeter's baseline and its      *)
(* smoothing accumulator are the two places stale motion can hide in.      *)
(***************************************************************************)
EXTENDS Naturals

CONSTANTS
    Arms,
    Drops       \* a poll may miss a controller, its pose, or fail altogether

ASSUME ArmsAssumption ==
    /\ "left" \in Arms /\ "X" \notin Arms
    /\ Drops \in BOOLEAN

VARIABLES
    arm,        \* _ArmState
    hand,       \* the upstream retargeter of the arm
    command,    \* the arm's ArmTeleopCommand: its transition and its motion
    lost,       \* the last advance polled nothing
    rebase,     \* the session owes the retargeters a reset
    display,    \* VRRuntime._display_button_pressed
    down,       \* the buttons the operator holds down
    spent,      \* the buttons whose present press has acted (history)
    doubled     \* the buttons one of whose presses acted twice (history)

vars == <<arm, hand, command, lost, rebase, display, down, spent, doubled>>

X == "X"
Buttons == Arms \cup {X}
Poses == IF Drops THEN {"usable", "invalid", "absent"} ELSE {"usable"}
Motions == {"zero", "seen", "stale"}
Transitions == {"tracking_lost", "tracking_invalid", "tracking_rebased", "session_inactive",
                "sensitivity_switched", "clutch_engaged", "clutch_held",
                "clutch_release_rebased", "motion"}

TypeOK ==
    /\ arm \in [Arms -> [tracking : BOOLEAN, clutch : BOOLEAN, pending : BOOLEAN,
                         pressed : BOOLEAN]]
    /\ hand \in [Arms -> [first : BOOLEAN, drift : BOOLEAN, residue : BOOLEAN]]
    /\ command \in [Arms -> [transition : Transitions, motion : Motions]]
    /\ lost \in BOOLEAN /\ rebase \in BOOLEAN /\ display \in BOOLEAN
    /\ down \subseteq Buttons /\ spent \subseteq down /\ doubled \subseteq Buttons
    /\ \A a \in Arms :
          /\ arm[a].pending => ~arm[a].tracking
          /\ command[a].transition # "motion" => command[a].motion = "zero"

\* _new_state
NewArm == [tracking |-> FALSE, clutch |-> FALSE, pending |-> TRUE, pressed |-> FALSE]

\* _invalidate_relative_reference: no baseline, an empty accumulator.
NoReference == [first |-> TRUE, drift |-> FALSE, residue |-> FALSE]

Init ==
    /\ arm = [a \in Arms |-> NewArm]
    /\ hand = [a \in Arms |-> NoReference]
    /\ command = [a \in Arms |-> [transition |-> "session_inactive", motion |-> "zero"]]
    /\ lost = TRUE /\ rebase = FALSE /\ display = FALSE
    /\ down = {} /\ spent = {} /\ doubled = {}

-----------------------------------------------------------------------------
(* The retargeter                                                          *)

\* A hand the retargeter does not see moves away from its baseline.
Unseen(h) == IF h.first THEN h ELSE [h EXCEPT !.drift = TRUE]

\* Mutant: upstream's absent branch keeps baseline and accumulator.
RetargetedUpstream(h, pose, reset) ==
    IF reset THEN [NoReference EXCEPT !.first = pose # "usable"]
    ELSE IF pose = "absent" THEN Unseen(h)
    ELSE IF pose = "invalid" THEN NoReference
    ELSE [first |-> FALSE, drift |-> FALSE, residue |-> h.residue \/ h.drift]

\* _compute_fn: an unusable pose invalidates, a reset starts again at the
\* present pose, and a usable one is smoothed into the accumulator.
Retargeted(h, pose, reset) ==
    IF pose # "usable" THEN NoReference
    ELSE IF reset THEN [NoReference EXCEPT !.first = FALSE]
    ELSE [first |-> FALSE, drift |-> FALSE, residue |-> h.residue \/ h.drift]

\* ee_delta: zero without a baseline, else the accumulator.
Delta(h, pose, reset) ==
    IF pose # "usable" \/ reset \/ h.first THEN "zero"
    ELSE IF Retargeted(h, pose, reset).residue THEN "stale" ELSE "seen"

-----------------------------------------------------------------------------
(* The processor                                                           *)

\* _hold
Held(state, transition) ==
    [state |-> state, command |-> [transition |-> transition, motion |-> "zero"]]

\* session_inactive(), one arm of it.
Inactive(s) ==
    Held([s EXCEPT !.tracking = FALSE, !.clutch = FALSE, !.pending = TRUE, !.pressed = FALSE],
         "session_inactive")

\* Mutant: an arm out of sight is still taken for tracked.
LostKeepsTracking(s) ==
    Held([s EXCEPT !.clutch = FALSE, !.pending = TRUE],
         IF s.tracking THEN "tracking_lost" ELSE "tracking_invalid")

Lost(s) ==
    Held([s EXCEPT !.tracking = FALSE, !.clutch = FALSE, !.pending = TRUE],
         IF s.tracking THEN "tracking_lost" ELSE "tracking_invalid")

\* Mutant: recovery does not look at the button.
RebasedBlind(s, squeezed, pressed) ==
    Held([s EXCEPT !.pending = FALSE, !.tracking = TRUE, !.clutch = squeezed,
                   !.pressed = FALSE], "tracking_rebased")

\* The first tracked sample: a held button is no fresh toggle.
Rebased(s, squeezed, pressed) ==
    Held([s EXCEPT !.pending = FALSE, !.tracking = TRUE, !.clutch = squeezed,
                   !.pressed = pressed], "tracking_rebased")

Toggles(s, pressed) == ~s.pending /\ pressed /\ ~s.pressed

\* A tracked arm with a reference: switch, clutch, release, or move.
Controlled(s, squeezed, pressed, delta) ==
    LET next == [s EXCEPT !.tracking = TRUE, !.clutch = squeezed, !.pressed = pressed]
    IN  IF Toggles(s, pressed) THEN Held(next, "sensitivity_switched")
        ELSE IF squeezed THEN Held(next, IF s.clutch THEN "clutch_held" ELSE "clutch_engaged")
        ELSE IF s.clutch THEN Held(next, "clutch_release_rebased")
        ELSE [state |-> next, command |-> [transition |-> "motion", motion |-> delta]]

\* _advance_arm
AdvanceArm(s, pose, squeezed, pressed, delta) ==
    IF pose # "usable" THEN Lost(s)
    ELSE IF s.pending THEN Rebased(s, squeezed, pressed)
    ELSE Controlled(s, squeezed, pressed, delta)

-----------------------------------------------------------------------------
(* One tick of run_s2                                                      *)

\* The buttons in acted do what a press does.
Act(acted) ==
    /\ doubled' = doubled \cup (acted \cap spent)
    /\ spent' = spent \cup acted

\* consume_display_button: its value is zero without an action.
ConsumeDisplay(value) == display' = value

DisplayActs(value) == IF value /\ ~display THEN {X} ELSE {}

\* processor.session_inactive() for both arms, no presentation button down.
InactiveTick ==
    /\ arm' = [a \in Arms |-> Inactive(arm[a]).state]
    /\ command' = [a \in Arms |-> Inactive(arm[a]).command]
    /\ ConsumeDisplay(FALSE)
    /\ UNCHANGED <<down, spent, doubled>>

\* device.advance() polled nothing: no transform, whose return rebases, or no
\* session, whose successor builds its pipeline anew.
IdleTick ==
    /\ Drops
    /\ hand' = [a \in Arms |-> Unseen(hand[a])]
    /\ lost' = TRUE
    /\ InactiveTick
    /\ UNCHANGED rebase

\* device.reset(pause=False): the next poll resets the retargeters.
ResetDevice == rebase' = TRUE

\* The retargeters see a reset on this poll: they owe one, or the navigation
\* frame is new or moved.
Resets(moved) == rebase \/ lost \/ moved

\* The client resets the environment.  What the retargeters hold of the motion
\* before it is stale from here on.
ResetTick ==
    /\ hand' = [a \in Arms |->
                   IF hand[a].first THEN hand[a] ELSE [hand[a] EXCEPT !.residue = TRUE]]
    /\ arm' = [a \in Arms |-> Inactive(NewArm).state]
    /\ command' = [a \in Arms |-> Inactive(NewArm).command]
    /\ ConsumeDisplay(FALSE)
    /\ ResetDevice
    /\ lost' = FALSE
    /\ UNCHANGED <<down, spent, doubled>>

\* X is the left controller's: without it the button reads zero.
DisplayValue(pose) == X \in down /\ pose["left"] # "absent"

\* A recentered frame makes the processor inactive before it advances.
Before(s, moved) == IF moved THEN Inactive(s).state ELSE s

PolledTick(moved, pose, squeezed) ==
    LET reset == Resets(moved)
        pressed == [a \in Arms |-> a \in down]
        next == [a \in Arms |-> AdvanceArm(Before(arm[a], lost \/ moved), pose[a], squeezed[a],
                                           pressed[a], Delta(hand[a], pose[a], reset))]
    IN  /\ hand' = [a \in Arms |-> Retargeted(hand[a], pose[a], reset)]
        /\ arm' = [a \in Arms |-> next[a].state]
        /\ command' = [a \in Arms |-> next[a].command]
        /\ Act(DisplayActs(DisplayValue(pose)) \cup
               {a \in Arms : next[a].command.transition = "sensitivity_switched"})
        /\ ConsumeDisplay(DisplayValue(pose))
        /\ lost' = FALSE /\ rebase' = FALSE
        /\ UNCHANGED down

\* The client paused control: the poll is made, and nobody acts on it.
PausedTick(pose) ==
    /\ hand' = [a \in Arms |-> Retargeted(hand[a], pose[a], Resets(FALSE))]
    /\ arm' = [a \in Arms |-> Inactive(arm[a]).state]
    /\ command' = [a \in Arms |-> Inactive(arm[a]).command]
    /\ Act(DisplayActs(DisplayValue(pose))) /\ ConsumeDisplay(DisplayValue(pose))
    /\ lost' = FALSE /\ rebase' = FALSE
    /\ UNCHANGED down

\* Between two ticks the operator presses or releases a button.
Finger(b) ==
    /\ down' = IF b \in down THEN down \ {b} ELSE down \cup {b}
    /\ spent' = spent \ {b}
    /\ UNCHANGED <<arm, hand, command, lost, rebase, display, doubled>>

Next ==
    \/ IdleTick
    \/ ResetTick
    \/ \E moved \in BOOLEAN, pose \in [Arms -> Poses], squeezed \in [Arms -> BOOLEAN] :
           PolledTick(moved, pose, squeezed)
    \/ \E pose \in [Arms -> Poses] : PausedTick(pose)
    \/ \E b \in Buttons : Finger(b)

Spec == Init /\ [][Next]_vars

-----------------------------------------------------------------------------
(* Correctness                                                             *)

\* "Reconnect cannot replay stale deltas": no command moves an arm by a
\* displacement its controller was not seen through, or one made before a
\* reset, however many ticks later the smoothing would let it out.
NoStaleMotion == \A a \in Arms : command[a].motion # "stale"

\* Holding does not retrigger: one press of the sensitivity button switches
\* its arm at most once, whatever tracking, session and resets do meanwhile.
OnePressOneToggle == Arms \cap doubled = {}

\* isaac_vr_runtime.py:698: a physically held X cannot be interpreted as a
\* second press in the new reset epoch.
HeldDisplayActsOnce == X \notin doubled
=============================================================================
