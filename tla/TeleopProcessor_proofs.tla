------------------------ MODULE TeleopProcessor_proofs ------------------------
(***************************************************************************)
(* No stale motion and no second toggle, for every set of arms.            *)
(*                                                                         *)
(* Stale motion hides in the retargeter, never in a command: whatever      *)
(* leaves some there also makes the next poll a reset (Owed).  A spent     *)
(* press is remembered by the arm, or the arm waits for a rebase that will *)
(* look at the button (Remembered).                                        *)
(***************************************************************************)
EXTENDS TeleopProcessor, TLAPS

\* A retargeter without a baseline holds nothing.
Empty == \A a \in Arms : hand[a].first => ~hand[a].drift /\ ~hand[a].residue

\* Motion that must not come out is only held while a reset is due.
Owed == \A a \in Arms : hand[a].drift \/ hand[a].residue => rebase \/ lost

\* The arm of a spent press cannot take the button for a fresh one.
Remembered == \A a \in Arms \cap spent : arm[a].pressed \/ arm[a].pending

IInv == TypeOK /\ Empty /\ Owed /\ Remembered /\ NoStaleMotion /\ OnePressOneToggle
-----------------------------------------------------------------------------
(* What the operators of one arm return                                    *)

ArmState == [tracking : BOOLEAN, clutch : BOOLEAN, pending : BOOLEAN, pressed : BOOLEAN]
Command == [transition : Transitions, motion : Motions]
Hand == [first : BOOLEAN, drift : BOOLEAN, residue : BOOLEAN]

\* An inactive arm waits for a rebase and moves nothing.
LEMMA InactiveArm ==
    ASSUME NEW s \in ArmState
    PROVE  /\ Inactive(s).state \in ArmState
           /\ Inactive(s).command = [transition |-> "session_inactive", motion |-> "zero"]
           /\ Inactive(s).state.pending /\ ~Inactive(s).state.tracking
BY DEF ArmState, Inactive, Held

\* An advanced arm: it moves by delta or not at all; afterwards it knows the
\* button or waits for a rebase; and it switches on a fresh press only.
LEMMA AdvancedArm ==
    ASSUME NEW s \in ArmState, NEW pose, NEW squeezed \in BOOLEAN, NEW pressed \in BOOLEAN,
           NEW delta \in Motions, NEW r, r = AdvanceArm(s, pose, squeezed, pressed, delta)
    PROVE  /\ r.state \in ArmState /\ r.command \in Command
           /\ r.state.pending => ~r.state.tracking
           /\ r.command.transition # "motion" => r.command.motion = "zero"
           /\ r.command.motion \in {"zero", delta}
           /\ r.state.pending \/ r.state.pressed = pressed
           /\ r.command.transition = "sensitivity_switched" =>
                  pressed /\ ~s.pressed /\ ~s.pending
<1> USE DEF ArmState, Command, Transitions, Motions, AdvanceArm, Held
<1>1. CASE pose # "usable"
    BY <1>1 DEF Lost
<1>2. CASE pose = "usable" /\ s.pending
    BY <1>2 DEF Rebased
<1>3. CASE pose = "usable" /\ ~s.pending
    BY <1>3 DEF Controlled, Toggles
<1>4. QED BY <1>1, <1>2, <1>3

\* The retargeter: a reset or an unusable pose leaves it empty, and a poll
\* leaves no drift.
LEMMA RetargetedHand ==
    ASSUME NEW h \in Hand, NEW pose, NEW reset \in BOOLEAN, h.first => ~h.drift /\ ~h.residue,
           h.drift \/ h.residue => reset
    PROVE  /\ Retargeted(h, pose, reset) \in Hand
           /\ ~Retargeted(h, pose, reset).drift /\ ~Retargeted(h, pose, reset).residue
           /\ Delta(h, pose, reset) \in {"zero", "seen"}
BY DEF Hand, Retargeted, NoReference, Delta

-----------------------------------------------------------------------------
(* Every step keeps the inductive invariant                                *)

LEMMA InitHolds == Init => IInv
<1> SUFFICES ASSUME Init PROVE IInv
    OBVIOUS
<1> USE DEF Init, NewArm, NoReference
<1>1. /\ arm \in [Arms -> ArmState] /\ hand \in [Arms -> Hand]
      /\ \A a \in Arms : arm[a].pending /\ ~arm[a].tracking
    BY DEF ArmState, Hand
<1>2. /\ command \in [Arms -> Command]
      /\ \A a \in Arms : command[a].motion = "zero"
    BY DEF Command, Transitions, Motions
<1>3. TypeOK
    BY <1>1, <1>2 DEF TypeOK, ArmState, Hand, Command
<1>4. Empty /\ Owed /\ Remembered /\ NoStaleMotion /\ OnePressOneToggle
    BY <1>2 DEF Empty, Owed, Remembered, NoStaleMotion, OnePressOneToggle
<1>5. QED BY <1>3, <1>4 DEF IInv

\* A tick without a usable poll: every arm is inactive, no button acts.
LEMMA IdleTickStep == IInv /\ IdleTick => IInv'
<1> SUFFICES ASSUME IInv, IdleTick PROVE IInv'
    OBVIOUS
<1> USE DEF IInv, IdleTick, InactiveTick, ConsumeDisplay
<1>1. \A a \in Arms :
         /\ arm'[a] \in ArmState /\ arm'[a].pending /\ ~arm'[a].tracking
         /\ command'[a] = [transition |-> "session_inactive", motion |-> "zero"]
    BY InactiveArm DEF TypeOK, ArmState
<1>2. \A a \in Arms :
         /\ hand'[a] \in Hand /\ hand'[a].first = hand[a].first
         /\ hand[a].first => hand'[a] = hand[a]
    BY DEF TypeOK, Hand, Unseen
<1>3. TypeOK'
    <2>1. arm' \in [Arms -> ArmState] /\ hand' \in [Arms -> Hand]
        BY <1>1, <1>2
    <2>2. /\ command' \in [Arms -> Command]
          /\ \A a \in Arms : command'[a].motion = "zero"
        BY <1>1 DEF Command, Transitions, Motions
    <2>3. /\ down' \subseteq Buttons /\ spent' \subseteq down' /\ doubled' \subseteq Buttons
          /\ lost' \in BOOLEAN /\ rebase' \in BOOLEAN /\ display' \in BOOLEAN
        BY DEF TypeOK
    <2>4. \A a \in Arms : arm'[a].pending => ~arm'[a].tracking
        BY <1>1
    <2>5. QED BY <2>1, <2>2, <2>3, <2>4 DEF TypeOK, ArmState, Hand, Command
<1>4. Empty' /\ Owed'
    BY <1>2 DEF TypeOK, Empty, Owed
<1>5. Remembered' /\ NoStaleMotion' /\ OnePressOneToggle'
    BY <1>1 DEF Remembered, NoStaleMotion, OnePressOneToggle
<1>6. QED BY <1>3, <1>4, <1>5

\* A reset leaves motion behind in the retargeters, and owes them a reset.
LEMMA ResetTickStep == IInv /\ ResetTick => IInv'
<1> SUFFICES ASSUME IInv, ResetTick PROVE IInv'
    OBVIOUS
<1> USE DEF IInv, ResetTick, ResetDevice, ConsumeDisplay
<1>1. \A a \in Arms :
         /\ arm'[a] \in ArmState /\ arm'[a].pending /\ ~arm'[a].tracking
         /\ command'[a] = [transition |-> "session_inactive", motion |-> "zero"]
    BY InactiveArm DEF NewArm, ArmState
<1>2. \A a \in Arms :
         /\ hand'[a] \in Hand /\ hand'[a].first = hand[a].first
         /\ hand[a].first => hand'[a] = hand[a]
    BY DEF TypeOK, Hand
<1>3. TypeOK'
    <2>1. arm' \in [Arms -> ArmState] /\ hand' \in [Arms -> Hand]
        BY <1>1, <1>2
    <2>2. /\ command' \in [Arms -> Command]
          /\ \A a \in Arms : command'[a].motion = "zero"
        BY <1>1 DEF Command, Transitions, Motions
    <2>3. /\ down' \subseteq Buttons /\ spent' \subseteq down' /\ doubled' \subseteq Buttons
          /\ lost' \in BOOLEAN /\ rebase' \in BOOLEAN /\ display' \in BOOLEAN
        BY DEF TypeOK
    <2>4. \A a \in Arms : arm'[a].pending => ~arm'[a].tracking
        BY <1>1
    <2>5. QED BY <2>1, <2>2, <2>3, <2>4 DEF TypeOK, ArmState, Hand, Command
<1>4. Empty' /\ Owed'
    BY <1>2 DEF TypeOK, Empty, Owed
<1>5. Remembered' /\ NoStaleMotion' /\ OnePressOneToggle'
    BY <1>1 DEF Remembered, NoStaleMotion, OnePressOneToggle
<1>6. QED BY <1>3, <1>4, <1>5

\* A polled tick: what was owed is paid by its reset, and an arm switches only
\* on a press it did not remember.
LEMMA PolledTickStep ==
    ASSUME NEW moved \in BOOLEAN, NEW pose \in [Arms -> Poses],
           NEW squeezed \in [Arms -> BOOLEAN], IInv, PolledTick(moved, pose, squeezed)
    PROVE  IInv'
<1> DEFINE reset == Resets(moved)
           pressed == [a \in Arms |-> a \in down]
           before(a) == Before(arm[a], lost \/ moved)
           delta(a) == Delta(hand[a], pose[a], reset)
           next(a) == AdvanceArm(before(a), pose[a], squeezed[a], pressed[a], delta(a))
           acted == DisplayActs(DisplayValue(pose)) \cup
                    {a \in Arms : next(a).command.transition = "sensitivity_switched"}
<1> USE DEF IInv
<1>1. reset \in BOOLEAN
    BY DEF Resets, TypeOK
<1>2. \A a \in Arms : hand[a] \in Hand /\ arm[a] \in ArmState
    BY DEF TypeOK, Hand, ArmState
<1>3. \A a \in Arms :
         /\ hand'[a] \in Hand /\ ~hand'[a].drift /\ ~hand'[a].residue
         /\ delta(a) \in {"zero", "seen"}
    <2>1. \A a \in Arms : hand'[a] = Retargeted(hand[a], pose[a], reset)
        BY DEF PolledTick
    <2>2. TAKE a \in Arms
    <2>3. hand[a].drift \/ hand[a].residue => reset
        BY DEF Owed, Resets
    <2>4. hand[a].first => ~hand[a].drift /\ ~hand[a].residue
        BY DEF Empty
    <2>5. QED BY <1>1, <1>2, <2>1, <2>3, <2>4, RetargetedHand
<1>4. \A a \in Arms :
         /\ before(a) \in ArmState
         /\ (arm[a].pressed \/ arm[a].pending) => (before(a).pressed \/ before(a).pending)
    BY <1>2, InactiveArm DEF Before
<1> HIDE DEF before, delta, reset
<1>5. \A a \in Arms :
         /\ arm'[a] = next(a).state /\ command'[a] = next(a).command
    BY DEF PolledTick, before, delta, reset
<1>6. \A a \in Arms :
         /\ arm'[a] \in ArmState /\ command'[a] \in Command
         /\ arm'[a].pending => ~arm'[a].tracking
         /\ command'[a].transition # "motion" => command'[a].motion = "zero"
         /\ command'[a].motion \in {"zero", delta(a)}
         /\ arm'[a].pending \/ arm'[a].pressed = (a \in down)
         /\ command'[a].transition = "sensitivity_switched" =>
                a \in down /\ ~before(a).pressed /\ ~before(a).pending
    <2>1. TAKE a \in Arms
    <2>2. delta(a) \in Motions /\ squeezed[a] \in BOOLEAN /\ pressed[a] \in BOOLEAN
        BY <1>3 DEF Motions
    <2>3. /\ next(a).state \in ArmState /\ next(a).command \in Command
          /\ next(a).state.pending => ~next(a).state.tracking
          /\ next(a).command.transition # "motion" => next(a).command.motion = "zero"
          /\ next(a).command.motion \in {"zero", delta(a)}
          /\ next(a).state.pending \/ next(a).state.pressed = pressed[a]
          /\ next(a).command.transition = "sensitivity_switched" =>
                 pressed[a] /\ ~before(a).pressed /\ ~before(a).pending
        <3> HIDE DEF pressed
        <3>1. before(a) \in ArmState
            BY <1>4
        <3> DEFINE r == next(a)
        <3>2. r = AdvanceArm(before(a), pose[a], squeezed[a], pressed[a], delta(a))
            OBVIOUS
        <3> HIDE DEF r
        <3>3. QED BY <2>2, <3>1, <3>2, AdvancedArm
    <2>4. QED BY <1>5, <2>3
<1>7. /\ acted \subseteq down
      /\ Arms \cap acted \cap spent = {}
    <2>1. X \notin Arms
        BY ArmsAssumption DEF X
    <2>2. \A a \in Arms : next(a).command.transition = "sensitivity_switched" =>
                               a \in down /\ a \notin spent
        BY <1>4, <1>5, <1>6 DEF Remembered
    <2>3. DisplayActs(DisplayValue(pose)) \subseteq {X} \cap down
        BY DEF DisplayActs, DisplayValue
    <2>4. QED BY <2>1, <2>2, <2>3
<1>8. /\ doubled' = doubled \cup (acted \cap spent)
      /\ spent' = spent \cup acted /\ down' = down
      /\ lost' = FALSE /\ rebase' = FALSE /\ display' \in BOOLEAN
    BY DEF PolledTick, Act, ConsumeDisplay, DisplayValue, before, delta, reset
<1> HIDE DEF next, acted
<1>9. TypeOK'
    <2>1. /\ arm' \in [Arms -> ArmState] /\ hand' \in [Arms -> Hand]
          /\ command' \in [Arms -> Command]
        BY <1>3, <1>6 DEF PolledTick
    <2>2. down' \subseteq Buttons /\ spent' \subseteq down' /\ doubled' \subseteq Buttons
        BY <1>7, <1>8 DEF TypeOK
    <2>3. QED BY <1>6, <1>8, <2>1, <2>2 DEF TypeOK, ArmState, Hand, Command
<1>10. Empty' /\ Owed'
    BY <1>3 DEF Empty, Owed
<1>11. Remembered'
    BY <1>6, <1>7, <1>8 DEF Remembered, TypeOK
<1>12. NoStaleMotion'
    BY <1>3, <1>6 DEF NoStaleMotion
<1>13. OnePressOneToggle'
    BY <1>7, <1>8 DEF OnePressOneToggle
<1>14. QED BY <1>9, <1>10, <1>11, <1>12, <1>13

\* A paused tick polls the retargeters and makes every arm inactive.
LEMMA PausedTickStep ==
    ASSUME NEW pose \in [Arms -> Poses], IInv, PausedTick(pose)
    PROVE  IInv'
<1> DEFINE reset == Resets(FALSE)
           acted == DisplayActs(DisplayValue(pose))
<1> USE DEF IInv
<1>1. reset \in BOOLEAN
    BY DEF Resets, TypeOK
<1>2. \A a \in Arms : hand[a] \in Hand /\ arm[a] \in ArmState
    BY DEF TypeOK, Hand, ArmState
<1>3. \A a \in Arms : hand'[a] \in Hand /\ ~hand'[a].drift /\ ~hand'[a].residue
    <2>1. \A a \in Arms : hand'[a] = Retargeted(hand[a], pose[a], reset)
        BY DEF PausedTick
    <2>2. TAKE a \in Arms
    <2>3. hand[a].drift \/ hand[a].residue => reset
        BY DEF Owed, Resets
    <2>4. hand[a].first => ~hand[a].drift /\ ~hand[a].residue
        BY DEF Empty
    <2>5. QED BY <1>1, <1>2, <2>1, <2>3, <2>4, RetargetedHand
<1> HIDE DEF reset
<1>4. \A a \in Arms :
         /\ arm'[a] \in ArmState /\ arm'[a].pending /\ ~arm'[a].tracking
         /\ command'[a] = [transition |-> "session_inactive", motion |-> "zero"]
    BY <1>2, InactiveArm DEF PausedTick
<1>5. acted \subseteq {X} \cap down /\ X \notin Arms
    BY ArmsAssumption DEF DisplayActs, DisplayValue, X
<1>6. /\ doubled' = doubled \cup (acted \cap spent)
      /\ spent' = spent \cup acted /\ down' = down
      /\ lost' = FALSE /\ rebase' = FALSE /\ display' \in BOOLEAN
    BY DEF PausedTick, Act, ConsumeDisplay, DisplayValue
<1> HIDE DEF acted
<1>7. TypeOK'
    <2>1. arm' \in [Arms -> ArmState] /\ hand' \in [Arms -> Hand]
        BY <1>3, <1>4 DEF PausedTick
    <2>2. /\ command' \in [Arms -> Command]
          /\ \A a \in Arms : command'[a].motion = "zero"
        BY <1>4 DEF PausedTick, Command, Transitions, Motions
    <2>3. down' \subseteq Buttons /\ spent' \subseteq down' /\ doubled' \subseteq Buttons
        BY <1>5, <1>6 DEF TypeOK
    <2>4. \A a \in Arms : arm'[a].pending => ~arm'[a].tracking
        BY <1>4
    <2>5. QED BY <1>6, <2>1, <2>2, <2>3, <2>4 DEF TypeOK, ArmState, Hand, Command
<1>8. Empty' /\ Owed'
    BY <1>3 DEF Empty, Owed
<1>9. Remembered' /\ NoStaleMotion'
    BY <1>4 DEF Remembered, NoStaleMotion
<1>10. OnePressOneToggle'
    BY <1>5, <1>6 DEF OnePressOneToggle
<1>11. QED BY <1>7, <1>8, <1>9, <1>10

\* A finger starts or ends a press: what was spent ends with it.
LEMMA FingerStep ==
    ASSUME NEW b \in Buttons, IInv, Finger(b)
    PROVE  IInv'
<1> USE DEF IInv, Finger
<1>1. TypeOK'
    BY DEF TypeOK
<1>2. Empty' /\ Owed' /\ NoStaleMotion' /\ OnePressOneToggle'
    BY DEF Empty, Owed, NoStaleMotion, OnePressOneToggle
<1>3. Remembered'
    BY DEF Remembered
<1>4. QED BY <1>1, <1>2, <1>3

LEMMA NextKeeps == IInv /\ [Next]_vars => IInv'
<1>1. ASSUME IInv, Next PROVE IInv'
    BY <1>1, IdleTickStep, ResetTickStep, PolledTickStep, PausedTickStep, FingerStep DEF Next
<1>2. IInv /\ UNCHANGED vars => IInv'
    BY DEF vars, IInv, TypeOK, Empty, Owed, Remembered, NoStaleMotion, OnePressOneToggle
<1>3. QED BY <1>1, <1>2

\* The inductive invariant of a tick: where stale motion can hide, and which
\* held buttons have already acted.
THEOREM Invariant == Spec => []IInv
BY InitHolds, NextKeeps, PTL DEF Spec

-----------------------------------------------------------------------------
(* What it says of run_s2                                                  *)

\* The processor's and the retargeters' state is well formed, an arm that
\* waits for a rebase is never tracked, and only "motion" moves an arm.
THEOREM TypeCorrect == Spec => []TypeOK
<1>1. IInv => TypeOK
    BY DEF IInv
<1>2. QED BY <1>1, Invariant, PTL

\* Whatever the polls miss and whenever the client resets or pauses, no command
\* of _advance_arm carries a displacement that was not seen from end to end.
THEOREM MotionNeverStale == Spec => []NoStaleMotion
<1>1. IInv => NoStaleMotion
    BY DEF IInv
<1>2. QED BY <1>1, Invariant, PTL

\* One press of an arm's sensitivity button switches it at most once, through
\* any loss of tracking, reset, recentering or pause while it is held.
THEOREM PressTogglesOnce == Spec => []OnePressOneToggle
<1>1. IInv => OnePressOneToggle
    BY DEF IInv
<1>2. QED BY <1>1, Invariant, PTL
=============================================================================
