-------------------------- MODULE RecordingSession --------------------------
(***************************************************************************)
(* tools/isaac_vr_recording.py: one RecordingSession, its active           *)
(* LiveRecording, the one staged (deferred) artifact, the bounded          *)
(* _FinalizationOwner and the filesystem worker thread that runs           *)
(* finalize_sealed_episode, with the three JSON files each episode leaves  *)
(* on disk.                                                                *)
(*                                                                         *)
(* Two threads: the simulation thread, whose position inside a blocking    *)
(* call is "at", and the worker, whose position inside                     *)
(* finalize_sealed_episode is "wstep".  The simulation thread is the       *)
(* runtime of isaac_s2_runtime.py: an exception that escapes a session     *)
(* method leaves the control loop, and the next call is close().           *)
(***************************************************************************)
EXTENDS Naturals, Sequences, FiniteSets

CONSTANTS
    MaxEpisodes,   \* bound on the technical episodes of one session
    MaxPending,    \* _FinalizationOwner.max_pending
    Unmarkable     \* bound: the episodes of which the write of a failure or
                   \* queue marker may itself raise

ASSUME SessionAssumption ==
    /\ MaxEpisodes \in Nat \ {0}
    /\ MaxPending \in Nat \ {0}

Episodes == 1..MaxEpisodes
None == 0                                   \* Python's None for an episode

\* The outcomes the runtime asks end_episode/close for, and what finalize
\* accepts as a finalized artifact; "aborted" stands for "failure" too, which
\* nothing tells from it.
Requested == {"operator_stopped", "aborted"}
Accepted == {"operator_stopped"}

Terminal == {"finalized", "failed"}
MarkerStates == {"none", "in_progress", "queued_for_finalization", "finalizing"}
                  \cup Terminal
WorkerSteps == {"idle", "mark", "verify", "manifest", "result", "final", "handler"}
MainPoints == {"run", "start", "submit", "await", "close_submit", "drain", "closed"}

VARIABLES
    started,     \* episodes opened so far; episode e is the e-th directory
    active,      \* RecordingSession.active_episode
    committed,   \* per episode: committed_frames > 0
    faulty,      \* LiveRecording._failure_reason of the active episode is set
    outcome,     \* per episode: SealedEpisode.outcome, or "none"
    deferred,    \* RecordingSession._deferred_sealed
    submitting,  \* the artifact inside _FinalizationOwner.submit
    caller,      \* who called _submit_deferred: "check", "end" or "close"
    at,          \* where the simulation thread is
    closing,     \* RecordingSession.close has been entered
    raised,      \* an exception has escaped a session method
    pending,     \* _FinalizationOwner._pending: futures not yet acknowledged
    failure,     \* _FinalizationOwner._failure is not None
    future,      \* per episode: its Future in the executor
    job, wstep,  \* the worker thread: its episode and its position
    marker,      \* recording_state.json: artifact_state
    manifest,    \* manifest.json: artifact_state
    result       \* result.json: artifact_state

main == <<started, active, committed, faulty, outcome, deferred>>
call == <<submitting, caller, at, closing, raised>>
queue == <<pending, failure>>
worker == <<future, job, wstep>>
disk == <<marker, manifest, result>>
vars == <<main, call, queue, worker, disk>>

TypeOK ==
    /\ started \in 0..MaxEpisodes
    /\ active \in 0..MaxEpisodes
    /\ committed \in [Episodes -> BOOLEAN]
    /\ faulty \in BOOLEAN
    /\ outcome \in [Episodes -> Requested \cup {"none"}]
    /\ deferred \in 0..MaxEpisodes
    /\ submitting \in 0..MaxEpisodes
    /\ caller \in {"none", "check", "end", "close"}
    /\ at \in MainPoints
    /\ closing \in BOOLEAN
    /\ raised \in BOOLEAN
    /\ pending \in Seq(Episodes)
    /\ failure \in BOOLEAN
    /\ future \in [Episodes -> {"none", "queued", "running", "done", "error"}]
    /\ job \in 0..MaxEpisodes
    /\ wstep \in WorkerSteps
    /\ marker \in [Episodes -> MarkerStates]
    /\ manifest \in [Episodes -> {"none", "in_progress"} \cup Terminal]
    /\ result \in [Episodes -> {"none"} \cup Terminal]

\* A session is constructed around a first episode that is already open.
Init ==
    /\ started = 1 /\ active = 1
    /\ committed = [e \in Episodes |-> FALSE]
    /\ faulty = FALSE
    /\ outcome = [e \in Episodes |-> "none"]
    /\ deferred = None /\ submitting = None /\ caller = "none"
    /\ at = "run" /\ closing = FALSE /\ raised = FALSE
    /\ pending = << >> /\ failure = FALSE
    /\ future = [e \in Episodes |-> "none"]
    /\ job = None /\ wstep = "idle"
    /\ marker = [e \in Episodes |-> IF e = 1 THEN "in_progress" ELSE "none"]
    /\ manifest = [e \in Episodes |-> IF e = 1 THEN "in_progress" ELSE "none"]
    /\ result = [e \in Episodes |-> "none"]

-----------------------------------------------------------------------------
(* _FinalizationOwner._acknowledge                                         *)

\* Mutant: only success counts as done, so an error is waited for.
SettledIfDone(e) == future[e] = "done"

Settled(e) == future[e] \in {"done", "error"}

\* Without waiting, _acknowledge pops the leading futures that are done.
DonePrefix ==
    CHOOSE k \in 0..Len(pending) :
        /\ \A i \in 1..k : Settled(pending[i])
        /\ k < Len(pending) => ~Settled(pending[k + 1])

Remaining == SubSeq(pending, DonePrefix + 1, Len(pending))
\* Mutant: an error is noticed only by the next acknowledgement.
FailureSeenLate == failure

FailureSeen == failure \/ \E i \in 1..DonePrefix : future[pending[i]] = "error"

Acknowledge == pending' = Remaining /\ failure' = FailureSeen

-----------------------------------------------------------------------------
(* The simulation thread                                                   *)

\* What exception handlers leave that write artifact_state "failed" for every
\* episode of S.  Each write may raise too, before or after its os.replace:
\* only those of "written" took effect.
MarkFailed(S) ==
    \E written \in SUBSET S :
        /\ S \ written \subseteq Unmarkable
        /\ marker' = [e \in Episodes |-> IF e \in written THEN "failed" ELSE marker[e]]

\* The runtime calls a session method only when the previous one returned.
Callable == at = "run" /\ ~raised

\* The staged artifact waits for the active episode's first transition.
StagedMayGo == deferred # None /\ active # None /\ committed[active]

\* check_finalization: acknowledge, then hand the staged artifact to the
\* worker once the active episode has its first committed transition.
CheckFinalization ==
    /\ Callable
    /\ Acknowledge
    /\ \/ /\ FailureSeen
          /\ raised' = TRUE
          /\ UNCHANGED <<deferred, submitting, caller, at>>
       \/ /\ ~FailureSeen
          /\ StagedMayGo
          /\ submitting' = deferred /\ deferred' = None
          /\ caller' = "check" /\ at' = "submit"
          /\ UNCHANGED raised
       \/ /\ ~FailureSeen
          /\ ~StagedMayGo
          /\ UNCHANGED <<deferred, submitting, caller, at, raised>>
    /\ UNCHANGED <<started, active, committed, faulty, outcome, closing,
                   worker, disk>>

\* Mutant: start_episode forgets that an episode may still be active.
AnyTime == TRUE

BetweenEpisodes == active = None

\* start_episode up to its check_finalization, which has no staged artifact to
\* hand over between episodes.
StartEpisode ==
    /\ Callable /\ BetweenEpisodes /\ started < MaxEpisodes
    /\ Acknowledge
    /\ IF FailureSeen
       THEN raised' = TRUE /\ UNCHANGED at
       ELSE at' = "start" /\ UNCHANGED raised
    /\ UNCHANGED <<main, submitting, caller, closing, worker, disk>>

\* The rest of start_episode; the worker has gone on since the check.  A start
\* that raises leaves no file when it has no private directory yet.  Later its
\* handler writes "failed" over what is there, the marker or the marker and
\* the manifest, unless that write raises too.
OpenEpisode ==
    /\ at = "start" /\ at' = "run"
    /\ started' = started + 1
    /\ \/ /\ active' = started + 1
          /\ marker' = [marker EXCEPT ![started + 1] = "in_progress"]
          /\ manifest' = [manifest EXCEPT ![started + 1] = "in_progress"]
          /\ UNCHANGED raised
       \/ /\ raised' = TRUE
          /\ \E marked, listed \in {"none", "in_progress"} :
                /\ listed = "in_progress" => marked = "in_progress"
                /\ manifest' = [manifest EXCEPT ![started + 1] = listed]
                /\ \/ marker' = [marker EXCEPT ![started + 1] = "failed"]
                   \/ /\ marked = "none" \/ started + 1 \in Unmarkable
                      /\ marker' = [marker EXCEPT ![started + 1] = marked]
          /\ UNCHANGED active
    /\ UNCHANGED <<committed, faulty, outcome, deferred, submitting, caller,
                   closing, queue, worker, result>>

\* LiveRecording.commit_transition, or a capture or commit that fails and
\* leaves _failure_reason behind.  A failing flush has already appended.
Record ==
    /\ Callable /\ active # None
    /\ \/ /\ committed' = [committed EXCEPT ![active] = TRUE]
          /\ UNCHANGED <<faulty, raised>>
       \/ /\ committed' \in {committed, [committed EXCEPT ![active] = TRUE]}
          /\ faulty' = TRUE /\ raised' = TRUE
    /\ UNCHANGED <<started, active, outcome, deferred, submitting, caller, at,
                   closing, queue, worker, disk>>

\* Mutant: an empty episode keeps the outcome it was asked for.
EffectiveIfEmpty(requested) == IF faulty THEN "aborted" ELSE requested

\* The outcome LiveRecording.seal records for the active episode.
Effective(requested) ==
    IF faulty \/ ~committed[active] THEN "aborted" ELSE requested

\* _observe_queue reads the size of the staged file, which may raise.
ObserveQueue == raised' \in {raised, TRUE}

\* end_episode up to the first point where it may block.  "then" is where
\* the thread goes when nothing has to be submitted first.
Seal(requested, then) ==
    \/ /\ outcome' = [outcome EXCEPT ![active] = Effective(requested)]
       /\ marker' = [marker EXCEPT ![active] = "queued_for_finalization"]
       /\ faulty' = FALSE
       /\ \/ /\ deferred = None
             /\ deferred' = active /\ active' = None /\ at' = then
             /\ ObserveQueue
             /\ UNCHANGED <<submitting, caller>>
          \/ /\ deferred # None
             /\ submitting' = deferred /\ deferred' = None
             /\ caller' = "end" /\ at' = "submit"
             /\ UNCHANGED <<active, raised>>
    \/ \* close_explicit_session or the terminal successor write raised, or
       \* the write of the queue marker, which has no handler
       /\ \/ MarkFailed({active})
          \/ /\ active \in Unmarkable
             /\ marker' = [marker EXCEPT ![active] = "queued_for_finalization"]
       /\ active' = None /\ faulty' = FALSE /\ at' = then /\ raised' = TRUE
       /\ UNCHANGED <<outcome, deferred, submitting, caller>>

EndEpisode ==
    /\ Callable /\ active # None
    /\ \E requested \in Requested : Seal(requested, "run")
    /\ UNCHANGED <<started, committed, closing, queue, worker, manifest, result>>

\* RecordingSession.close: seal the last episode, then hand over the staged
\* artifact, then wait for every future.
Close ==
    /\ at = "run" /\ closing' = TRUE
    /\ \/ /\ active = None
          /\ at' = "close_submit"
          /\ UNCHANGED <<active, faulty, outcome, deferred, submitting, caller,
                         raised, marker>>
       \/ /\ active # None
          /\ \E requested \in Requested : Seal(requested, "close_submit")
    /\ UNCHANGED <<started, committed, queue, worker, manifest, result>>

CloseSubmit ==
    /\ at = "close_submit"
    /\ \/ /\ deferred = None
          /\ at' = "drain"
          /\ UNCHANGED <<deferred, submitting, caller>>
       \/ /\ deferred # None
          /\ submitting' = deferred /\ deferred' = None
          /\ caller' = "close" /\ at' = "submit"
    /\ \E callbackRaised \in BOOLEAN : raised' = (raised \/ callbackRaised)
    /\ UNCHANGED <<started, active, committed, faulty, outcome, closing, queue,
                   worker, disk>>

\* _submit_deferred returns to its caller.
ReturnPoint ==
    IF caller = "check" THEN "run"
    ELSE IF caller = "end" THEN (IF closing THEN "close_submit" ELSE "run")
    ELSE "drain"

\* Mutant: end_episode stages its artifact without clearing active_episode.
EnqueueKeepsActive(rest) ==
    /\ pending' = Append(rest, submitting)
    /\ future' = [future EXCEPT ![submitting] = "queued"]
    /\ at' = ReturnPoint /\ submitting' = None /\ caller' = "none"
    /\ deferred' = IF caller = "end" THEN active ELSE deferred
    /\ UNCHANGED <<active, marker, raised>>

\* The executor accepts the artifact; end_episode then stages its own.
Enqueue(rest) ==
    /\ pending' = Append(rest, submitting)
    /\ future' = [future EXCEPT ![submitting] = "queued"]
    /\ at' = ReturnPoint /\ submitting' = None /\ caller' = "none"
    /\ IF caller = "end"
       THEN deferred' = active /\ active' = None /\ ObserveQueue
       ELSE UNCHANGED <<deferred, active, raised>>
    /\ UNCHANGED marker

\* submit raised, for a failed future or because it could not read the size
\* of the file: the artifact, and in end_episode its successor too, is marked
\* failed and never reaches the worker.
Refuse(rest) ==
    /\ pending' = rest
    /\ MarkFailed({submitting} \cup (IF caller = "end" THEN {active} ELSE {}))
    /\ at' = ReturnPoint /\ submitting' = None /\ caller' = "none"
    /\ active' = IF caller = "end" THEN None ELSE active
    /\ raised' = TRUE
    /\ UNCHANGED <<future, deferred>>

\* _FinalizationOwner.submit: check, then backpressure.
Submit ==
    /\ at = "submit"
    /\ failure' = FailureSeen
    /\ \/ (FailureSeen \/ Len(Remaining) < MaxPending) /\ Refuse(Remaining)
       \/ ~FailureSeen /\ Len(Remaining) < MaxPending /\ Enqueue(Remaining)
       \/ /\ ~FailureSeen /\ Len(Remaining) >= MaxPending
          /\ pending' = Remaining /\ at' = "await"
          /\ UNCHANGED <<active, deferred, submitting, caller, raised, future, marker>>
    /\ UNCHANGED <<started, committed, faulty, outcome, closing, job, wstep,
                   manifest, result>>

\* The thread is blocked in _acknowledge(wait=True, limit=1).
AwaitOldest ==
    /\ at = "await" /\ Settled(Head(pending))
    /\ failure' = (future[Head(pending)] = "error")
    /\ \/ Refuse(Tail(pending))
       \/ future[Head(pending)] = "done" /\ Enqueue(Tail(pending))
    /\ UNCHANGED <<started, committed, faulty, outcome, closing, job, wstep,
                   manifest, result>>

\* Mutant: close() does not wait for the queued futures.
DrainAtOnce ==
    /\ at = "drain" /\ at' = "closed"
    /\ pending' = << >>
    /\ failure' = (failure \/ \E i \in 1..Len(pending) : future[pending[i]] = "error")
    /\ raised' = (raised \/ failure')
    /\ UNCHANGED <<main, submitting, caller, closing, worker, disk>>

\* _FinalizationOwner.close: wait for all, then shut the executor down.
Drain ==
    /\ at = "drain"
    /\ \A i \in 1..Len(pending) : Settled(pending[i])
    /\ pending' = << >>
    /\ failure' = (failure \/ \E i \in 1..Len(pending) : future[pending[i]] = "error")
    /\ raised' = (raised \/ failure')
    /\ at' = "closed"
    /\ UNCHANGED <<main, submitting, caller, closing, worker, disk>>

Closed == at = "closed" /\ UNCHANGED vars

-----------------------------------------------------------------------------
(* The worker thread: finalize_sealed_episode                              *)

\* Mutant: futures are taken in any order.
WorkerTakesAny ==
    /\ wstep = "idle" /\ wstep' = "mark"
    /\ \E i \in 1..Len(pending) :
          /\ future[pending[i]] = "queued"
          /\ job' = pending[i]
          /\ future' = [future EXCEPT ![pending[i]] = "running"]
    /\ UNCHANGED <<main, call, queue, disk>>

\* The single worker takes the oldest queued future.
WorkerTake ==
    /\ wstep = "idle"
    /\ \E i \in 1..Len(pending) :
          /\ future[pending[i]] = "queued"
          /\ \A k \in 1..(i - 1) : future[pending[k]] # "queued"
          /\ job' = pending[i]
          /\ future' = [future EXCEPT ![pending[i]] = "running"]
    /\ wstep' = "mark"
    /\ UNCHANGED <<main, call, queue, disk>>

\* Mutant: the outcome itself is written as the artifact state.
VerdictIsOutcome == outcome[job]

Verdict == IF outcome[job] \in Accepted THEN "finalized" ELSE "failed"

\* What each step of finalize_sealed_episode leaves on disk.
WriteMarker ==
    /\ wstep = "mark"
    /\ marker' = [marker EXCEPT ![job] = "finalizing"]
    /\ UNCHANGED <<manifest, result>>

\* Terminal successor and HDF5 hash verified; both only read.
Verify == wstep = "verify" /\ UNCHANGED disk

WriteManifest ==
    /\ wstep = "manifest"
    /\ manifest' = [manifest EXCEPT ![job] = Verdict]
    /\ UNCHANGED <<marker, result>>

WriteResult ==
    /\ wstep = "result"
    /\ result' = [result EXCEPT ![job] = Verdict]
    /\ UNCHANGED <<marker, manifest>>

\* recording_state.json is written last.
WriteVerdict ==
    /\ wstep = "final"
    /\ marker' = [marker EXCEPT ![job] = Verdict]
    /\ UNCHANGED <<manifest, result>>

Write == WriteMarker \/ Verify \/ WriteManifest \/ WriteResult \/ WriteVerdict

StepAfter ==
    [mark |-> "verify", verify |-> "manifest", manifest |-> "result", result |-> "final"]

WorkerAdvance ==
    /\ wstep \in DOMAIN StepAfter /\ wstep' = StepAfter[wstep]
    /\ Write
    /\ UNCHANGED <<main, call, queue, future, job>>

WorkerFinish ==
    /\ wstep = "final" /\ wstep' = "idle" /\ job' = None
    /\ Write
    /\ future' = [future EXCEPT ![job] = "done"]
    /\ UNCHANGED <<main, call, queue>>

\* Any step of the body may raise.  _atomic_write_json may do so before its
\* os.replace or after it, when the directory cannot be opened or synced: the
\* write of the step has taken effect or has not.
WorkerFault ==
    /\ wstep \in DOMAIN StepAfter \cup {"final"} /\ wstep' = "handler"
    /\ Write \/ UNCHANGED disk
    /\ UNCHANGED <<main, call, queue, future, job>>

\* Mutant: the handler does not raise again, and the future looks done.
HandlerSwallows ==
    /\ wstep = "handler" /\ wstep' = "idle" /\ job' = None
    /\ MarkFailed({job})
    /\ future' = [future EXCEPT ![job] = "done"]
    /\ UNCHANGED <<main, call, queue, manifest, result>>

WorkerHandler ==
    /\ wstep = "handler" /\ wstep' = "idle" /\ job' = None
    /\ MarkFailed({job})
    /\ future' = [future EXCEPT ![job] = "error"]
    /\ UNCHANGED <<main, call, queue, manifest, result>>

Worker == WorkerTake \/ WorkerAdvance \/ WorkerFinish \/ WorkerFault \/ WorkerHandler

\* The steps the simulation thread takes without waiting for the operator.
Unblock == OpenEpisode \/ CloseSubmit \/ Submit \/ AwaitOldest \/ Drain

Next ==
    \/ CheckFinalization \/ StartEpisode \/ Record \/ EndEpisode \/ Close
    \/ Unblock \/ Closed \/ Worker

\* The executor runs what it accepted, a blocked call resumes once its
\* future is done, and run_s2 closes the session in its finally block after
\* at most s2_max_control_steps iterations.
Fairness == WF_vars(Worker) /\ WF_vars(Unblock) /\ WF_vars(Close)

Spec == Init /\ [][Next]_vars
FairSpec == Spec /\ Fairness

-----------------------------------------------------------------------------
(* Correctness                                                             *)

\* A finalized marker vouches for the whole artifact: the manifest and the
\* result already say so, and the episode was sealed with committed rows.
\* Every reachable state is a state a crash can leave on disk, so this is
\* also what a reader finds after one (finalize_sealed_episode writes the
\* marker last; publish_saved_demo and the replay loader trust it).
FinalizedIsComplete ==
    \A e \in Episodes : marker[e] = "finalized" =>
        /\ manifest[e] = "finalized" /\ result[e] = "finalized"
        /\ outcome[e] \in Accepted /\ committed[e]

\* No file of an episode has two writers: what the worker was given is
\* neither recording, nor staged, nor inside a submit that may still mark it
\* failed (_submit_deferred and end_episode write markers too).  What waits in
\* the queue is on disk as it was handed over, and a verdict that can be read
\* while its finalization still runs is the whole verdict: all three files
\* say the same.
FilesHaveOneOwner ==
    \A e \in Episodes :
        /\ future[e] # "none" => e \notin {active, deferred, submitting}
        /\ future[e] = "queued" => marker[e] = "queued_for_finalization"
        /\ (future[e] = "running" /\ marker[e] \in Terminal) =>
              manifest[e] = marker[e] /\ result[e] = marker[e]

\* A verdict stands: no later handler or retry overwrites it
\* (_atomic_write_json replaces whatever is there).  The one exception is the
\* finalization that published "finalized" and raised after it: its own
\* handler takes the verdict back, before anyone is told that it is done, and
\* the future reports the error.
VerdictsStand ==
    [][\A e \in Episodes :
          /\ marker[e] = "failed" => marker'[e] = "failed"
          /\ (marker[e] = "finalized" /\ marker'[e] # "finalized") =>
                /\ marker'[e] = "failed"
                /\ future[e] = "running" /\ future'[e] = "error"]_vars

\* Who may still write the files of an episode.
InHands == {active, deferred, submitting}
               \cup {e \in Episodes : future[e] \in {"queued", "running"}}

\* The hand-over to the worker is ordered and bounded.  The artifact staged
\* last does not reach the worker while the next episode still waits for its
\* first transition (check_finalization).  When one reaches the worker no
\* earlier one is still with the simulation thread, and none runs before an
\* earlier one is done (end_episode submits the staged artifact before it
\* stages its own, check and close submit it in between).  Backpressure
\* bounds the futures, and with them the sealed files that wait: the queue,
\* the artifact inside submit and the one just sealed or staged.
HandOverInOrder ==
    /\ (active > 1 /\ ~committed[active]) => future[active - 1] = "none"
    /\ \A e, f \in Episodes : (e < f /\ future[f] # "none") =>
          /\ e \notin {active, deferred, submitting}
          /\ future[e] \in {"queued", "running"} => future[f] = "queued"
    /\ Len(pending) <= MaxPending
    /\ Cardinality({e \in InHands \ {None} :
                       e = active => at \in {"submit", "await"} /\ caller = "end"})
         <= MaxPending + 2

SomeFinalizationFailed == \E e \in Episodes : future[e] = "error"

\* A worker failure blocks further recording, acknowledged or not: once a
\* finalization has failed no call of start_episode gets past its check and
\* no episode opens.  One call alone escapes, the one whose check was already
\* past when the worker failed; its episode opens, and it is the last.
FailureBlocksRecording ==
    [][(SomeFinalizationFailed /\ at # "start") =>
          started' = started /\ at' # "start"]_vars

\* close() returns only when the worker is done with every artifact it was
\* given, and whatever went wrong was reported to the caller: a finalization
\* that failed, and an episode that is left without its verdict on disk
\* because the failure marker itself could not be written.
ClosedIsQuiet ==
    at = "closed" =>
        /\ \A e \in Episodes : future[e] \notin {"queued", "running"}
        /\ (\E e \in Episodes : future[e] = "error" \/ marker[e] \notin Terminal \cup {"none"})
              => raised

\* The artifacts as the lifecycle sees them: what the worker was given is
\* sealed until its future is done, and one nobody will write again without a
\* verdict has failed, whatever its marker still says.
ArtifactOf(e) ==
    IF e > started THEN "absent"
    ELSE IF future[e] \in {"queued", "running"} THEN "sealed"
    ELSE IF marker[e] \in Terminal THEN marker[e]
    ELSE IF e \notin InHands THEN "failed"
    ELSE IF marker[e] = "in_progress" THEN "recording" ELSE "sealed"

Abstract == INSTANCE ArtifactContract WITH
    Artifacts <- Episodes, First <- 1,
    artifact <- [e \in Episodes |-> ArtifactOf(e)],
    open <- (at # "closed")

\* The session with its threads, queue and files implements the contract.
KeepsContract == Abstract!Contract

\* close() returns, whatever the queue and the failures of the finalizations
\* do (submit and _acknowledge wait for a future, the drain for all of them).
CloseReturns == closing ~> at = "closed"
=============================================================================
