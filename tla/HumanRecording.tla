--------------------------- MODULE HumanRecording ---------------------------
(***************************************************************************)
(* tools/isaac_s2_runtime.py run_s2 in RECORD mode, with the               *)
(* RecordingLifecycle of tools/isaac_vr_episode_lifecycle.py it drives: the *)
(* operator's buttons, the demonstrations, the technical episodes of each, *)
(* their publication, and every way out of the control loop.               *)
(*                                                                         *)
(* One pass through the loop is Buttons (top of the loop to the end of     *)
(* lifecycle.buttons), then Menu, EnvironmentReset or a Control step.      *)
(* The recording session below is the contract RecordingSession is shown   *)
(* to keep: its worker settles sealed artifacts at any time, and           *)
(* session.close() returns when none is left.  The first episode of a      *)
(* session is opened outside of it, by start_live_recording, and is the    *)
(* one that can be stranded: recording_state.json says "in_progress" and   *)
(* nothing will ever write it again.                                       *)
(***************************************************************************)
EXTENDS Naturals, Sequences, FiniteSets

CONSTANTS
    MaxDemos,      \* bound on the demonstrations of one run
    MaxEpisodes,   \* bound on the technical episodes of one run
    DropFrames     \* may a tick miss a controller, or the whole XR frame?

ASSUME RecordingAssumption ==
    /\ MaxDemos \in Nat \ {0}
    /\ MaxEpisodes \in Nat \ {0}
    /\ DropFrames \in BOOLEAN

Demos == 1..MaxDemos
Episodes == 1..MaxEpisodes
None == 0

Buttons == {"x", "y", "b"}
LeftController == {"x", "y"}
RightController == {"b"}

\* RecordingState; the lifecycle owns a demonstration in the Active ones.
States == {"waiting", "recording", "review", "classify_outcome", "resetting",
           "failed", "interrupted"}
Active == {"recording", "review", "classify_outcome"}
TaskOutcomes == {"success", "failure", "incomplete"}
Dispositions == TaskOutcomes \cup {"discarded", "interrupted"}

VARIABLES
    state,        \* RecordingLifecycle.state
    demo,         \* demo_id, numbered in the order of identity()
    demos,        \* demonstrations started so far
    held,         \* RecordingLifecycle._held
    uses,         \* per button: events its current physical press has fired
    missed,       \* the buttons whose current press some tick did not see (history)
    at,           \* where the control loop is
    resume,       \* what seal_demo was called for, while it closes the session
    failed,       \* recording_failure_reason is not None
    session,      \* recording_session is not None
    broken,       \* a finalization of the session has failed
    recording,    \* the active technical episode of run_s2
    episodes,     \* demo_episodes: sealed episodes of the current demo
    artifact,     \* per episode: what its files say (ArtifactContract), or stranded
    outcome,      \* per episode: the outcome it was sealed with
    rows,         \* per episode: has a committed row
    owner,        \* per episode: its demonstration
    published     \* per demo: the index documents written for it

lifecycle == <<state, demo, demos, held, uses, missed>>
loop == <<at, resume, failed>>
files == <<artifact, outcome, rows, owner, published>>
vars == <<lifecycle, loop, session, broken, recording, episodes, files>>

Files == INSTANCE ArtifactContract WITH
    Artifacts <- Episodes, First <- 1, open <- session

ArtifactStates == Files!States \cup {"stranded"}

Points == {"top", "rest", "closing", "finally", "cleanup", "exit"}

TypeOK ==
    /\ state \in States
    /\ demo \in 0..MaxDemos /\ demos \in 0..MaxDemos
    /\ held \in SUBSET Buttons
    /\ uses \in [Buttons -> 0..2] /\ missed \in SUBSET Buttons
    /\ at \in Points
    /\ resume \in {"none", "stop", "reset", "interrupt", "exit"}
    /\ failed \in BOOLEAN /\ session \in BOOLEAN /\ broken \in BOOLEAN
    /\ recording \in 0..MaxEpisodes
    /\ episodes \in Seq(Episodes)
    /\ artifact \in [Episodes -> ArtifactStates]
    /\ outcome \in [Episodes -> {"none", "operator_stopped", "aborted", "failure"}]
    /\ rows \in [Episodes -> BOOLEAN]
    /\ owner \in [Episodes -> 0..MaxDemos]
    /\ published \in [Demos -> SUBSET [disposition : Dispositions, list : Seq(Episodes)]]

Init ==
    /\ state = "waiting" /\ demo = None /\ demos = 0
    /\ held = {} /\ uses = [b \in Buttons |-> 0] /\ missed = {}
    /\ at = "top" /\ resume = "none" /\ failed = FALSE
    /\ session = FALSE /\ broken = FALSE
    /\ recording = None /\ episodes = << >>
    /\ artifact = [e \in Episodes |-> "absent"]
    /\ outcome = [e \in Episodes |-> "none"]
    /\ rows = [e \in Episodes |-> FALSE]
    /\ owner = [e \in Episodes |-> None]
    /\ published = [d \in Demos |-> {}]

-----------------------------------------------------------------------------
(* Publication and disposition                                             *)

\* An exception out of the loop or out of lifecycle.interrupt: the lifecycle
\* is FAILED and only the cleanup of the finally block is left.
Raise ==
    /\ state' = "failed" /\ failed' = TRUE
    /\ at' = "cleanup" /\ resume' = "none"

Publish(disposition) ==
    published' = [published EXCEPT ![demo] =
                    @ \cup {[disposition |-> disposition, list |-> episodes]}]

\* Mutant: publish_saved_demo trusts the list it is given.
AnyList == TRUE

\* publish_saved_demo reads manifest and marker of every episode.
Publishable ==
    /\ episodes # << >>
    /\ \A i \in DOMAIN episodes : artifact[episodes[i]] = "finalized"

MayPublish(disposition) == disposition \in TaskOutcomes => Publishable

\* Mutant: a publication that raises is swallowed.
FinishSwallows(disposition) ==
    /\ (MayPublish(disposition) /\ Publish(disposition)) \/ UNCHANGED published
    /\ state' = "waiting" /\ demo' = None
    /\ at' = "top" /\ resume' = "none"
    /\ UNCHANGED failed

\* RecordingLifecycle._finish: publish or classify, then reset the scene.
\* Either may raise, the publication also after its document is in place.
Finish(disposition) ==
    \/ /\ MayPublish(disposition) /\ Publish(disposition)
       /\ state' = "waiting" /\ demo' = None
       /\ at' = "top" /\ resume' = "none"
       /\ UNCHANGED failed
    \/ /\ Raise
       /\ \/ UNCHANGED published
          \/ MayPublish(disposition) /\ Publish(disposition)
       /\ UNCHANGED demo

\* The end of RecordingLifecycle.interrupt; the loop breaks at once, or at
\* the next tick when external_reset called it.
Interrupted ==
    /\ UNCHANGED demo
    /\ \/ /\ Publish("interrupted")
          /\ state' = "interrupted"
          /\ at' = (IF at = "rest" THEN "top" ELSE "finally") /\ resume' = "none"
          /\ UNCHANGED failed
       \/ /\ Raise
          /\ UNCHANGED published \/ Publish("interrupted")

-----------------------------------------------------------------------------
(* seal_demo                                                               *)

\* RecordingSession.end_episode through finalize_recording.
EndEpisode(asked) ==
    /\ Files!Seal(recording)
    /\ outcome' = [outcome EXCEPT ![recording] =
                     IF rows[recording] \/ asked = "failure" THEN asked ELSE "aborted"]
    /\ episodes' = Append(episodes, recording)
    /\ recording' = None

\* It raised: the episode never enters the demonstration.
EndEpisodeRaises ==
    /\ Files!Abandon(recording)
    /\ recording' = None
    /\ UNCHANGED <<outcome, episodes>>

\* Mutant: the reason is passed where the outcome belongs.
ReasonAsOutcome(why) == why

OutcomeOf(why) == IF why = "stop" THEN "operator_stopped" ELSE "aborted"

\* seal_demo up to the wait inside session.close().
SealDemo(why) ==
    /\ \/ /\ \/ recording # None /\ EndEpisode(OutcomeOf(why))
             \/ recording = None /\ UNCHANGED <<recording, episodes, artifact, outcome, session>>
          /\ state' = "resetting" /\ at' = "closing" /\ resume' = why
          /\ UNCHANGED failed
       \/ recording # None /\ EndEpisodeRaises /\ Raise
    /\ UNCHANGED <<broken, rows, owner, published>>

\* Mutant: session.close() does not wait for its worker.
NoWait == TRUE

\* Mutant: session.close() waits for a failed artifact to succeed.
WaitForSuccess == \A e \in Episodes : artifact[e] \notin {"sealed", "failed"}

QueueIsEmpty == \A e \in Episodes : artifact[e] # "sealed"

CloseRaises == session /\ broken

\* session.close() has returned, or raised for a failed finalization or a
\* failing callback; the lifecycle continues where it called seal.
SessionClosed ==
    /\ at = "closing" /\ QueueIsEmpty
    /\ session' = FALSE /\ broken' = FALSE
    /\ \/ /\ resume = "exit"
          /\ at' = "exit" /\ resume' = "none"
          /\ failed' \in {failed \/ CloseRaises, TRUE}
          /\ UNCHANGED <<state, demo, published>>
       \/ /\ resume # "exit"
          /\ Raise
          /\ UNCHANGED <<demo, published>>
       \/ /\ ~CloseRaises /\ resume = "stop"
          /\ state' = "review" /\ at' = "rest" /\ resume' = "none"
          /\ UNCHANGED <<demo, failed, published>>
       \/ ~CloseRaises /\ resume = "reset" /\ Finish("discarded")
       \/ ~CloseRaises /\ resume = "interrupt" /\ Interrupted
    /\ UNCHANGED <<demos, held, uses, missed, recording, episodes, artifact, outcome,
                   rows, owner>>

-----------------------------------------------------------------------------
(* One pass through the loop                                               *)

\* check_finalization raises at the top of the loop; so may the capture, the
\* XR advance, IK, apply and the physics step.
StepRaises ==
    /\ at \in {"top", "rest"}
    /\ Raise
    /\ UNCHANGED <<demo, demos, held, uses, missed, session, broken, recording, episodes, files>>

MayTick == at = "top" /\ ~(session /\ broken)

\* A latched stop request, the last control step, the end of the app, or the
\* break of the tick that finds the lifecycle interrupted.
LeaveLoop ==
    /\ MayTick /\ at' = "finally"
    /\ UNCHANGED <<lifecycle, resume, failed, session, broken, recording, episodes, files>>

\* RecordingLifecycle.interrupt
Interrupt ==
    /\ \/ state = "recording" /\ SealDemo("interrupt") /\ UNCHANGED <<demo, demos, uses, missed>>
       \/ /\ state \in {"review", "classify_outcome"} /\ Interrupted
          /\ UNCHANGED <<demos, uses, missed, session, broken, recording, episodes,
                         artifact, outcome, rows, owner>>
    /\ UNCHANGED held

\* lifecycle.disconnect: the XR session stopped running.
Disconnect == MayTick /\ state \in Active /\ Interrupt

\* What the pipeline reports of the pressed buttons: a missing controller
\* reads 0.0 and a tick without an action reads zeros (run_s2,
\* ControllerButtonRetargeter).
Observable(pressed) ==
    {pressed} \cup
    IF DropFrames THEN {pressed \ LeftController, pressed \ RightController, {}} ELSE {}

\* The edges each state listens to, in order.
Meaning ==
    [s \in States |->
        CASE s = "waiting" -> <<<<"x", "start">>>>
          [] s = "recording" -> <<<<"y", "stop">>>>
          [] s = "review" -> <<<<"x", "save">>, <<"b", "discarded">>>>
          [] s = "classify_outcome" ->
                <<<<"x", "success">>, <<"y", "failure">>, <<"b", "incomplete">>>>
          [] OTHER -> << >>]

\* Mutant: the level of a button fires, not its edge.
FiredByLevel(observed) ==
    {i \in DOMAIN Meaning[state] : Meaning[state][i][1] \in observed}

\* The places of the pairs <<button, event>> that may fire; the first one does.
Fired(observed) ==
    {i \in DOMAIN Meaning[state] : Meaning[state][i][1] \in observed \ held}

\* What RecordingLifecycle.buttons does with an event.
Perform(event) ==
    \/ /\ event = "start"
       /\ demos < MaxDemos
       /\ demos' = demos + 1 /\ demo' = demos + 1
       /\ state' = "recording" /\ at' = "rest" /\ episodes' = << >>
       /\ UNCHANGED <<resume, failed, session, broken, recording, files>>
    \/ /\ event = "stop" /\ SealDemo("stop")
       /\ UNCHANGED <<demo, demos>>
    \/ /\ event = "save"
       /\ state' = "classify_outcome" /\ at' = "rest"
       /\ UNCHANGED <<demo, demos, resume, failed, session, broken, recording,
                      episodes, files>>
    \/ /\ event \in Dispositions /\ Finish(event)
       /\ UNCHANGED <<demos, session, broken, recording, episodes, artifact,
                      outcome, rows, owner>>

CountUse(pressed, fired) ==
    uses' = [b \in Buttons |->
               IF b \notin pressed THEN 0
               ELSE IF b \in fired /\ uses[b] < 2 THEN uses[b] + 1 ELSE uses[b]]

\* From the top of the loop to the end of RecordingLifecycle.buttons.
\* Outside the XR session nothing is pressed as far as the run can tell.
PollButtons ==
    /\ MayTick /\ state # "interrupted"
    /\ \E pressed \in SUBSET Buttons : \E observed \in Observable(pressed) :
          /\ held' = observed
          /\ missed' = (missed \cap pressed) \cup (pressed \ observed)
          /\ \/ /\ Fired(observed) = {}
                /\ CountUse(pressed, {})
                /\ at' = "rest"
                /\ UNCHANGED <<state, demo, demos, resume, failed, session,
                               broken, recording, episodes, files>>
             \/ \E first \in Fired(observed) :
                   /\ \A i \in Fired(observed) : first <= i
                   /\ CountUse(pressed, {Meaning[state][first][1]})
                   /\ Perform(Meaning[state][first][2])

\* Review and classification tick without control; a reset request discards
\* the reviewed demonstration and interrupts the one being classified.
MenuTick ==
    /\ at = "rest" /\ state \in {"review", "classify_outcome"}
    /\ \/ /\ at' = "top"
          /\ UNCHANGED <<state, demo, resume, failed, published>>
       \/ state = "review" /\ Finish("discarded")
       \/ state = "classify_outcome" /\ Interrupted
    /\ UNCHANGED <<demos, held, uses, missed, session, broken, recording, episodes,
                   artifact, outcome, rows, owner>>

\* Outside a demonstration a tick records nothing.
FreeTick ==
    /\ at = "rest" /\ state = "waiting" /\ at' = "top"
    /\ UNCHANGED <<lifecycle, resume, failed, session, broken, recording, episodes, files>>

\* environment_reset_requested during a demonstration
EnvironmentReset ==
    /\ at = "rest" /\ state = "recording"
    /\ SealDemo("reset")
    /\ UNCHANGED <<demo, demos, held, uses, missed>>

HasRow == recording # None /\ rows[recording]

\* An ineligible tick, or a changed causal epoch: the open episode is sealed
\* before the next physics step.
GapTick ==
    /\ at = "rest" /\ state = "recording"
    /\ \/ /\ ~HasRow
          /\ at' = "top"
          /\ UNCHANGED <<state, resume, failed, recording, episodes, artifact,
                         outcome, session>>
       \/ /\ HasRow
          /\ \/ EndEpisode("operator_stopped") /\ at' = "top"
                /\ UNCHANGED <<state, resume, failed>>
             \/ EndEpisodeRaises /\ Raise
    /\ UNCHANGED <<demo, demos, held, uses, missed, broken, rows, owner, published>>

\* An eligible tick commits one row into the open episode.
RecordTick ==
    /\ at = "rest" /\ state = "recording" /\ recording # None
    /\ rows' = [rows EXCEPT ![recording] = TRUE]
    /\ at' = "top"
    /\ UNCHANGED <<lifecycle, resume, failed, session, broken, recording,
                   episodes, artifact, outcome, owner, published>>

Fresh == {e \in Episodes : artifact[e] = "absent"}
NextEpisode == CHOOSE e \in Fresh : \A f \in Fresh : e <= f

FirstRow(e) == rows' = [rows EXCEPT ![e] = TRUE]

\* The episode raised while it was opened, after its first file: start_episode
\* marks it failed; start_live_recording has no handler behind the marker it
\* writes first; RecordingSession() leaves an open episode without a session.
\* (A raise before any file is StepRaises.)
OpenRaises ==
    /\ Raise
    /\ \/ /\ session /\ artifact' = [artifact EXCEPT ![NextEpisode] = "failed"]
          /\ UNCHANGED recording
       \/ /\ ~session /\ artifact' = [artifact EXCEPT ![NextEpisode] = "stranded"]
          /\ UNCHANGED recording
       \/ /\ ~session /\ artifact' = [artifact EXCEPT ![NextEpisode] = "recording"]
          /\ recording' = NextEpisode
    /\ UNCHANGED <<rows, session>>

\* An eligible tick without an episode opens the session or its next episode
\* and commits its first row, unless something on the way raises.  That the
\* worker may fail between start_episode's check and the files it opens is
\* this step followed by Settle: neither reads what the other writes.
OpenTick ==
    /\ at = "rest" /\ state = "recording" /\ recording = None /\ Fresh # {}
    /\ owner' = [owner EXCEPT ![NextEpisode] = demo]
    /\ \/ /\ ~broken
          /\ artifact' = [artifact EXCEPT ![NextEpisode] = "recording"]
          /\ recording' = NextEpisode /\ session' = TRUE
          /\ \/ FirstRow(NextEpisode) /\ at' = "top" /\ UNCHANGED <<state, resume, failed>>
             \/ Raise /\ rows' \in {rows, [rows EXCEPT ![NextEpisode] = TRUE]}
       \/ OpenRaises
    /\ UNCHANGED <<demo, demos, held, uses, missed, broken, episodes, outcome, published>>

-----------------------------------------------------------------------------
(* The finally block                                                       *)

FinallyInterrupt == at = "finally" /\ state \in Active /\ Interrupt

FinallySkips ==
    /\ at = "finally" /\ state \notin Active /\ at' = "cleanup"
    /\ UNCHANGED <<lifecycle, resume, failed, session, broken, recording, episodes, files>>

\* Mutant: the finally block only closes the session.
CleanupForgets ==
    /\ at = "cleanup" /\ at' = "closing" /\ resume' = "exit"
    /\ UNCHANGED <<lifecycle, failed, session, broken, recording, episodes, files>>

\* Only a failed run still has an episode here: finalize_recording("failure"),
\* or recording.close() when RecordingSession() itself had raised.
Cleanup ==
    /\ at = "cleanup" /\ at' = "closing" /\ resume' = "exit"
    /\ \/ recording = None
          /\ UNCHANGED <<recording, episodes, artifact, outcome, session>>
       \/ recording # None /\ session /\ (EndEpisode("failure") \/ EndEpisodeRaises)
       \/ /\ recording # None /\ ~session
          /\ artifact' = [artifact EXCEPT ![recording] = "failed"]
          /\ recording' = None
          /\ UNCHANGED <<episodes, outcome, session>>
    /\ UNCHANGED <<lifecycle, failed, broken, rows, owner, published>>

Exited == at = "exit" /\ UNCHANGED vars

-----------------------------------------------------------------------------
(* The worker of the session: the oldest sealed artifact settles            *)

\* A finalization may publish "finalized" and report an error all the same:
\* it raised behind its last write, and so did its handler (RecordingSession).
Settle ==
    /\ \E e \in Episodes :
          /\ artifact[e] = "sealed"
          /\ \A f \in Episodes : artifact[f] = "sealed" => e <= f
          /\ \/ /\ outcome[e] = "operator_stopped"
                /\ Files!Settle({e}, "finalized") /\ broken' \in {broken, TRUE}
             \/ /\ Files!Settle({e}, "failed")
                /\ broken' \in {broken \/ outcome[e] = "operator_stopped", TRUE}
    /\ UNCHANGED <<lifecycle, loop, recording, episodes, outcome, rows, owner, published>>

Loop ==
    \/ PollButtons \/ MenuTick \/ FreeTick \/ EnvironmentReset \/ GapTick
    \/ RecordTick \/ OpenTick \/ Disconnect
Leaving ==
    \/ FinallyInterrupt \/ FinallySkips \/ Cleanup \/ SessionClosed

Next == Loop \/ LeaveLoop \/ StepRaises \/ Leaving \/ Settle \/ Exited

\* The worker runs what it was given, and once the loop is left nothing but
\* the worker is waited for.
Fairness == WF_vars(Settle) /\ WF_vars(Leaving)

Spec == Init /\ [][Next]_vars
FairSpec == Spec /\ Fairness

-----------------------------------------------------------------------------
(* Correctness                                                             *)

EpisodesOf(d) == {e \in Episodes : owner[e] = d}
Elements(list) == {list[i] : i \in DOMAIN list}

\* A saved demonstration is one a trainer may read at any later time: its
\* document lists episodes of that demonstration only, in the order they were
\* recorded, every one that was sealed, each finalized with committed rows.
SavedIsFinalized ==
    \A d \in Demos : \A doc \in published[d] : doc.disposition \in TaskOutcomes =>
        /\ doc.list # << >>
        /\ \A i \in DOMAIN doc.list : \A k \in 1..(i - 1) : doc.list[k] < doc.list[i]
        /\ Elements(doc.list) = EpisodesOf(d)
        /\ \A e \in Elements(doc.list) : artifact[e] = "finalized" /\ rows[e]

\* A demonstration is disposed of at most once, whatever raises and whenever
\* the run is stopped, never both saved and discarded or interrupted; and a
\* run that ends without an exception has disposed of every one started.
OneDisposition ==
    /\ \A d \in Demos : Cardinality(published[d]) <= 1
    /\ (at = "exit" /\ ~failed) => \A d \in 1..demos : published[d] # {}

\* Whenever the operator is asked (start? keep? which outcome?), recording is
\* over: no session, no open episode, no artifact the worker still owns.  So
\* what is offered for review can be saved, if a single episode was recorded.
QuietWhenAsked ==
    /\ state \in {"waiting", "review", "classify_outcome"} =>
          /\ ~session /\ recording = None
          /\ \A e \in Episodes : artifact[e] \notin {"recording", "sealed"}
    /\ (state \in {"review", "classify_outcome"} /\ episodes # << >>) => Publishable

\* An episode the run lost, not one it gave up by sealing it as aborted or
\* failure: stranded, or failed though it was never sealed or was accepted.
Lost(e) ==
    \/ artifact[e] = "stranded"
    \/ artifact[e] = "failed" /\ outcome[e] \notin {"aborted", "failure"}

\* When run_s2 returns or raises, nothing records and nothing waits for the
\* worker; only the last episode it opened can be stranded without a verdict;
\* and no loss is silent: a run with a lost episode ends with an exception.
ExitIsSettled ==
    at = "exit" =>
        /\ \A e \in Episodes : artifact[e] \notin {"recording", "sealed"}
        /\ \A e, f \in Episodes :
              artifact[e] = "stranded" /\ e < f => artifact[f] = "absent"
        /\ (\E e \in Episodes : Lost(e)) => failed

\* "Each press is a rising edge; release a button before using it in another
\* state": one physical press never fires two events.
OnePressOneEvent == \A b \in Buttons : uses[b] <= 1

\* A press that every tick saw fires at most one event, whatever the ticks
\* missed of other presses.
SeenPressFiresOnce == \A b \in Buttons \ missed : uses[b] <= 1

\* Leaving the loop always ends the run; the worker is never waited for in vain.
LeavingEnds == (at \in {"closing", "finally", "cleanup"}) ~> (at \in {"top", "rest", "exit"})
=============================================================================
