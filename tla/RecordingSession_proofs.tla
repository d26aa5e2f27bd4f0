------------------------ MODULE RecordingSession_proofs ------------------------
(***************************************************************************)
(* Proofs about RecordingSession for every number of episodes and every    *)
(* queue bound: who may write which file, that a finalized marker vouches  *)
(* for the whole artifact, and that a verdict is never overwritten.        *)
(***************************************************************************)
EXTENDS RecordingSession, TLAPS, WellFoundedInduction, SequenceTheorems, FiniteSetTheorems

\* Among the futures of the queue that are not done one is the first, so the
\* acknowledgement has a definite extent.
LEMMA DonePrefixExists ==
    ASSUME TypeOK
    PROVE  \E k \in 0..Len(pending) :
               /\ \A i \in 1..k : Settled(pending[i])
               /\ k < Len(pending) => ~Settled(pending[k + 1])
<1> DEFINE waiting == {i \in 1..Len(pending) : ~Settled(pending[i])}
<1>0. Len(pending) \in Nat
  BY DEF TypeOK
<1>1. \E k \in 0..Len(pending) :
         /\ \A i \in 1..k : Settled(pending[i])
         /\ k < Len(pending) => ~Settled(pending[k + 1])
  <2>1. CASE waiting = {}
    <3>1. \A i \in 1..Len(pending) : Settled(pending[i])
      BY <2>1
    <3> HIDE DEF waiting
    <3> QED BY <3>1, <1>0
  <2>2. CASE waiting # {}
    <3>1. PICK m \in waiting : \A i \in waiting : ~(<<i, m>> \in OpToRel(<, Nat))
      <4>1. waiting \subseteq Nat
        BY <1>0
      <4> HIDE DEF waiting
      <4> QED BY <2>2, <4>1, NatLessThanWellFounded, WFMin
    <3>2. \A i \in waiting : ~(i < m)
      <4>1. \A i \in waiting : i \in Nat /\ m \in Nat
        BY <1>0
      <4> QED BY <3>1, <4>1 DEF OpToRel
    <3>3. m \in 1..Len(pending) /\ ~Settled(pending[m])
      OBVIOUS
    <3>4. \A i \in 1..(m - 1) : Settled(pending[i])
      <4> SUFFICES ASSUME NEW i \in 1..(m - 1), ~Settled(pending[i])
                   PROVE  FALSE
        OBVIOUS
      <4>1. i \in 1..Len(pending) /\ i < m
        BY <3>3, <1>0
      <4>2. i \in waiting
        BY <4>1
      <4> QED BY <3>2, <4>1, <4>2
    <3>5. m - 1 \in 0..Len(pending) /\ (m - 1) + 1 = m
      BY <3>3, <1>0
    <3> HIDE DEF waiting
    <3>6. ~Settled(pending[(m - 1) + 1])
      BY <3>3, <3>5
    <3> QED BY <3>4, <3>5, <3>6
  <2> QED BY <2>1, <2>2
<1> QED BY <1>1

LEMMA DonePrefixInQueue ==
    ASSUME TypeOK
    PROVE  DonePrefix \in 0..Len(pending)
BY DonePrefixExists DEF DonePrefix

\* What is left of the queue, or of its tail, are still episodes.
LEMMA QueueTypes ==
    ASSUME TypeOK
    PROVE  /\ Remaining \in Seq(Episodes)
           /\ \A e \in Episodes : Append(Remaining, e) \in Seq(Episodes)
           /\ \A i \in 1..Len(pending) : pending[i] \in Episodes
<1>1. Len(pending) \in Nat /\ \A i \in 1..Len(pending) : pending[i] \in Episodes
  BY DEF TypeOK
<1>2. DonePrefix \in 0..Len(pending)
  BY DonePrefixInQueue
<1>3. \A i \in (DonePrefix + 1)..Len(pending) : pending[i] \in Episodes
  BY <1>1, <1>2
<1>4. Remaining \in Seq(Episodes)
  BY <1>1, <1>2, <1>3, SubSeqProperties DEF Remaining
<1> QED BY <1>1, <1>4

-----------------------------------------------------------------------------
(* The inductive invariant                                                 *)

\* Directories not opened yet hold nothing.
Unopened ==
    /\ active <= started /\ deferred <= started /\ submitting <= started
    /\ \A e \in Episodes : e > started => marker[e] = "none" /\ future[e] = "none"

\* Where the simulation thread is says what it holds: inside submit it holds
\* one artifact and has staged none, and inside end_episode also a sealed
\* active episode.
CallShape ==
    /\ at \in {"submit", "await"} <=> submitting # None
    /\ submitting # None => deferred = None
    /\ submitting = None <=> caller = "none"
    /\ at = "await" => pending # << >>
    /\ at = "start" => active = None /\ started < MaxEpisodes
    /\ caller = "end" => active # None /\ marker[active] = "queued_for_finalization"
    /\ (caller # "end" /\ active # None) => marker[active] = "in_progress"

\* The three hands of the simulation thread hold different episodes, and
\* what is staged or being submitted waits for the worker on disk.
Hands ==
    /\ active # None => active # deferred /\ active # submitting
    /\ deferred # None => marker[deferred] = "queued_for_finalization"
    /\ submitting # None => marker[submitting] = "queued_for_finalization"

\* What has a future has left the simulation thread's hands.
Handed ==
    \A e \in Episodes :
        /\ future[e] # "none" => e # active /\ e # deferred /\ e # submitting
        /\ future[e] = "queued" => marker[e] = "queued_for_finalization"
        /\ future[e] = "running" => e = job

\* The worker's position says what it has written for its episode; in its
\* handler that may be the whole verdict.
WorkerShape ==
    /\ wstep = "idle" <=> job = None
    /\ job # None =>
        /\ future[job] = "running"
        /\ wstep = "mark" => marker[job] = "queued_for_finalization"
        /\ wstep \in {"verify", "manifest", "result", "final"} => marker[job] = "finalizing"
        /\ wstep = "handler" =>
              \/ marker[job] \in {"queued_for_finalization", "finalizing"}
              \/ marker[job] = Verdict /\ manifest[job] = Verdict /\ result[job] = Verdict
        /\ wstep \in {"result", "final"} => manifest[job] = Verdict
        /\ wstep = "final" => result[job] = Verdict

\* Only an episode with rows was sealed with an accepted outcome.
AcceptedHasRows == \A e \in Episodes : outcome[e] \in Accepted => committed[e]

Inv == /\ TypeOK /\ Unopened /\ CallShape /\ Hands /\ Handed /\ WorkerShape
       /\ AcceptedHasRows /\ FinalizedIsComplete

\* What a handler leaves: "failed" for some of its episodes, nothing for others.
LEMMA MarkedFailed ==
    ASSUME marker \in [Episodes -> MarkerStates], NEW S, MarkFailed(S)
    PROVE  /\ marker' \in [Episodes -> MarkerStates]
           /\ \A e \in Episodes : /\ marker'[e] \in {marker[e], "failed"}
                                  /\ e \notin S => marker'[e] = marker[e]
BY DEF MarkFailed, MarkerStates, Terminal

\* A step that only acknowledges, stages or fails a call.
LEMMA CheckFinalizationStep ==
    ASSUME Inv, CheckFinalization
    PROVE  Inv'
<1> USE SessionAssumption DEF Episodes, None, CheckFinalization, Callable,
   StagedMayGo, Acknowledge, worker, disk
<1>0. TypeOK /\ Unopened /\ CallShape /\ Hands /\ Handed /\ WorkerShape
      /\ AcceptedHasRows /\ FinalizedIsComplete
  BY DEF Inv
<1>q. Remaining \in Seq(Episodes) /\ FailureSeen \in BOOLEAN
  BY <1>0, QueueTypes DEF FailureSeen, TypeOK
<1>1. TypeOK'
  <2>1. started' \in 0..MaxEpisodes /\ active' \in 0..MaxEpisodes /\ deferred' \in 0..MaxEpisodes
       /\ submitting' \in 0..MaxEpisodes /\ job' \in 0..MaxEpisodes
    BY <1>0, <1>q DEF TypeOK
  <2>2. committed' \in [Episodes -> BOOLEAN] /\ outcome' \in [Episodes -> Requested \cup {"none"}]
    BY <1>0, <1>q DEF TypeOK
  <2>3. caller' \in {"none", "check", "end", "close"} /\ at' \in MainPoints /\ wstep' \in WorkerSteps
    BY <1>0, <1>q DEF TypeOK, MainPoints, WorkerSteps
  <2>4. faulty' \in BOOLEAN /\ closing' \in BOOLEAN /\ raised' \in BOOLEAN /\ failure' \in BOOLEAN
    BY <1>0, <1>q DEF TypeOK
  <2>5. pending' \in Seq(Episodes)
    BY <1>0, <1>q DEF TypeOK
  <2>6. future' \in [Episodes -> {"none", "queued", "running", "done", "error"}]
    BY <1>0, <1>q DEF TypeOK
  <2>7. marker' \in [Episodes -> MarkerStates]
    BY <1>0, <1>q DEF TypeOK, MarkerStates, Terminal
  <2>8. manifest' \in [Episodes -> {"none", "in_progress"} \cup Terminal]
       /\ result' \in [Episodes -> {"none"} \cup Terminal]
    BY <1>0, <1>q DEF TypeOK, Terminal
  <2> QED BY <2>1, <2>2, <2>3, <2>4, <2>5, <2>6, <2>7, <2>8 DEF TypeOK
<1>2. Unopened'
  BY <1>0, <1>q DEF Unopened, TypeOK
<1>3. CallShape'
  BY <1>0, <1>q DEF CallShape, Hands, TypeOK
<1>4. Hands'
  BY <1>0, <1>q DEF CallShape, Hands, Unopened, TypeOK
<1>5. Handed'
  BY <1>0, <1>q DEF Handed, Hands, CallShape, WorkerShape, Unopened, TypeOK
<1>6. WorkerShape'
  BY <1>0, <1>q DEF WorkerShape, Handed, Verdict, Unopened, TypeOK
<1>7. AcceptedHasRows'
  BY <1>0, <1>q DEF AcceptedHasRows, TypeOK
<1>8. FinalizedIsComplete'
  BY <1>0, <1>q DEF FinalizedIsComplete, WorkerShape, Hands, CallShape,
     Unopened, Terminal, TypeOK
<1> QED BY <1>1, <1>2, <1>3, <1>4, <1>5, <1>6, <1>7, <1>8 DEF Inv

\* The check of start_episode only acknowledges.
LEMMA StartEpisodeStep ==
    ASSUME Inv, StartEpisode
    PROVE  Inv'
<1> USE SessionAssumption DEF Episodes, None, StartEpisode, Callable,
   BetweenEpisodes, Acknowledge, main, worker, disk
<1>0. TypeOK /\ Unopened /\ CallShape /\ Hands /\ Handed /\ WorkerShape
      /\ AcceptedHasRows /\ FinalizedIsComplete
  BY DEF Inv
<1>q. Remaining \in Seq(Episodes) /\ FailureSeen \in BOOLEAN
  BY <1>0, QueueTypes DEF FailureSeen, TypeOK
<1>1. TypeOK'
  <2>1. started' \in 0..MaxEpisodes /\ active' \in 0..MaxEpisodes /\ deferred' \in 0..MaxEpisodes
       /\ submitting' \in 0..MaxEpisodes /\ job' \in 0..MaxEpisodes
    BY <1>0, <1>q DEF TypeOK
  <2>2. committed' \in [Episodes -> BOOLEAN] /\ outcome' \in [Episodes -> Requested \cup {"none"}]
    BY <1>0, <1>q DEF TypeOK
  <2>3. caller' \in {"none", "check", "end", "close"} /\ at' \in MainPoints /\ wstep' \in WorkerSteps
    BY <1>0, <1>q DEF TypeOK, MainPoints, WorkerSteps
  <2>4. faulty' \in BOOLEAN /\ closing' \in BOOLEAN /\ raised' \in BOOLEAN /\ failure' \in BOOLEAN
    BY <1>0, <1>q DEF TypeOK
  <2>5. pending' \in Seq(Episodes)
    BY <1>0, <1>q DEF TypeOK
  <2>6. future' \in [Episodes -> {"none", "queued", "running", "done", "error"}]
    BY <1>0, <1>q DEF TypeOK
  <2>7. marker' \in [Episodes -> MarkerStates]
    BY <1>0, <1>q DEF TypeOK, MarkerStates, Terminal
  <2>8. manifest' \in [Episodes -> {"none", "in_progress"} \cup Terminal]
       /\ result' \in [Episodes -> {"none"} \cup Terminal]
    BY <1>0, <1>q DEF TypeOK, Terminal
  <2> QED BY <2>1, <2>2, <2>3, <2>4, <2>5, <2>6, <2>7, <2>8 DEF TypeOK
<1>2. Unopened'
  BY <1>0, <1>q DEF Unopened, TypeOK
<1>3. CallShape'
  BY <1>0, <1>q DEF CallShape, Hands, TypeOK
<1>4. Hands'
  BY <1>0, <1>q DEF CallShape, Hands, Unopened, TypeOK
<1>5. Handed'
  BY <1>0, <1>q DEF Handed, Hands, CallShape, WorkerShape, Unopened, TypeOK
<1>6. WorkerShape'
  BY <1>0, <1>q DEF WorkerShape, Handed, Verdict, Unopened, TypeOK
<1>7. AcceptedHasRows'
  BY <1>0, <1>q DEF AcceptedHasRows, TypeOK
<1>8. FinalizedIsComplete'
  BY <1>0, <1>q DEF FinalizedIsComplete, WorkerShape, Hands, CallShape,
     Unopened, Terminal, TypeOK
<1> QED BY <1>1, <1>2, <1>3, <1>4, <1>5, <1>6, <1>7, <1>8 DEF Inv

\* An episode that opens, or whose start fails, has a directory of its own.
LEMMA OpenEpisodeStep ==
    ASSUME Inv, OpenEpisode
    PROVE  Inv'
<1> USE SessionAssumption DEF Episodes, None, OpenEpisode, queue, worker
<1>0. TypeOK /\ Unopened /\ CallShape /\ Hands /\ Handed /\ WorkerShape
      /\ AcceptedHasRows /\ FinalizedIsComplete
  BY DEF Inv
<1>q. /\ started + 1 \in Episodes /\ active = None
      /\ started \in Nat /\ started' = started + 1 /\ active' \in {active, started + 1}
      /\ \E m \in {"none", "failed", "in_progress"} : marker' = [marker EXCEPT ![started + 1] = m]
      /\ \E l \in {"none", "in_progress"} : manifest' = [manifest EXCEPT ![started + 1] = l]
      /\ active' # active => marker' = [marker EXCEPT ![started + 1] = "in_progress"]
      /\ UNCHANGED <<committed, faulty, outcome, deferred, submitting, caller, closing,
                     pending, failure, future, job, wstep, result>>
      /\ at = "start" /\ at' = "run" /\ raised' \in BOOLEAN
  <2>1. started + 1 \in Episodes /\ active = None /\ started \in Nat
    BY <1>0 DEF CallShape, TypeOK
  <2>2. \E m \in {"none", "failed", "in_progress"} : marker' = [marker EXCEPT ![started + 1] = m]
    OBVIOUS
  <2>3. \E l \in {"none", "in_progress"} : manifest' = [manifest EXCEPT ![started + 1] = l]
    OBVIOUS
  <2>4. active' # active => marker' = [marker EXCEPT ![started + 1] = "in_progress"]
    OBVIOUS
  <2>5. active' \in {active, started + 1}
    OBVIOUS
  <2>6. raised' \in BOOLEAN
    BY <1>0 DEF TypeOK
  <2>7. UNCHANGED <<committed, faulty, outcome, deferred, submitting, caller, closing,
                    pending, failure, future, job, wstep, result>>
    OBVIOUS
  <2> QED BY <2>1, <2>2, <2>3, <2>4, <2>5, <2>6, <2>7
<1> HIDE DEF OpenEpisode
<1>1. TypeOK'
  <2>1. started' \in 0..MaxEpisodes /\ active' \in 0..MaxEpisodes /\ deferred' \in 0..MaxEpisodes
       /\ submitting' \in 0..MaxEpisodes /\ job' \in 0..MaxEpisodes
    BY <1>0, <1>q DEF TypeOK
  <2>2. committed' \in [Episodes -> BOOLEAN] /\ outcome' \in [Episodes -> Requested \cup {"none"}]
    BY <1>0, <1>q DEF TypeOK
  <2>3. caller' \in {"none", "check", "end", "close"} /\ at' \in MainPoints /\ wstep' \in WorkerSteps
    BY <1>0, <1>q DEF TypeOK, MainPoints, WorkerSteps
  <2>4. faulty' \in BOOLEAN /\ closing' \in BOOLEAN /\ raised' \in BOOLEAN /\ failure' \in BOOLEAN
    BY <1>0, <1>q DEF TypeOK
  <2>5. pending' \in Seq(Episodes)
    BY <1>0, <1>q DEF TypeOK
  <2>6. future' \in [Episodes -> {"none", "queued", "running", "done", "error"}]
    BY <1>0, <1>q DEF TypeOK
  <2>7. marker' \in [Episodes -> MarkerStates]
    BY <1>0, <1>q DEF TypeOK, MarkerStates, Terminal
  <2>8. manifest' \in [Episodes -> {"none", "in_progress"} \cup Terminal]
       /\ result' \in [Episodes -> {"none"} \cup Terminal]
    BY <1>0, <1>q DEF TypeOK, Terminal
  <2> QED BY <2>1, <2>2, <2>3, <2>4, <2>5, <2>6, <2>7, <2>8 DEF TypeOK
<1>2. Unopened'
  BY <1>0, <1>q DEF Unopened, TypeOK
<1>3. CallShape'
  BY <1>0, <1>q DEF CallShape, Hands, TypeOK
<1>4. Hands'
  BY <1>0, <1>q DEF CallShape, Hands, Unopened, TypeOK
<1>5. Handed'
  BY <1>0, <1>q DEF Handed, Hands, CallShape, WorkerShape, Unopened, TypeOK
<1>6. WorkerShape'
  BY <1>0, <1>q DEF WorkerShape, Handed, Verdict, Unopened, TypeOK
<1>7. AcceptedHasRows'
  BY <1>0, <1>q DEF AcceptedHasRows, TypeOK
<1>8. FinalizedIsComplete'
  BY <1>0, <1>q DEF FinalizedIsComplete, WorkerShape, Hands, CallShape,
     Unopened, Terminal, TypeOK
<1> QED BY <1>1, <1>2, <1>3, <1>4, <1>5, <1>6, <1>7, <1>8 DEF Inv

\* Recording touches only the active episode.
LEMMA RecordStep ==
    ASSUME Inv, Record
    PROVE  Inv'
<1> USE SessionAssumption DEF Episodes, None, Record, Callable, queue, worker,
   disk
<1>0. TypeOK /\ Unopened /\ CallShape /\ Hands /\ Handed /\ WorkerShape
      /\ AcceptedHasRows /\ FinalizedIsComplete
  BY DEF Inv
<1>1. TypeOK'
  <2>1. started' \in 0..MaxEpisodes /\ active' \in 0..MaxEpisodes /\ deferred' \in 0..MaxEpisodes
       /\ submitting' \in 0..MaxEpisodes /\ job' \in 0..MaxEpisodes
    BY <1>0 DEF TypeOK
  <2>2. committed' \in [Episodes -> BOOLEAN] /\ outcome' \in [Episodes -> Requested \cup {"none"}]
    BY <1>0 DEF TypeOK
  <2>3. caller' \in {"none", "check", "end", "close"} /\ at' \in MainPoints /\ wstep' \in WorkerSteps
    BY <1>0 DEF TypeOK, MainPoints, WorkerSteps
  <2>4. faulty' \in BOOLEAN /\ closing' \in BOOLEAN /\ raised' \in BOOLEAN /\ failure' \in BOOLEAN
    BY <1>0 DEF TypeOK
  <2>5. pending' \in Seq(Episodes)
    BY <1>0 DEF TypeOK
  <2>6. future' \in [Episodes -> {"none", "queued", "running", "done", "error"}]
    BY <1>0 DEF TypeOK
  <2>7. marker' \in [Episodes -> MarkerStates]
    BY <1>0 DEF TypeOK, MarkerStates, Terminal
  <2>8. manifest' \in [Episodes -> {"none", "in_progress"} \cup Terminal]
       /\ result' \in [Episodes -> {"none"} \cup Terminal]
    BY <1>0 DEF TypeOK, Terminal
  <2> QED BY <2>1, <2>2, <2>3, <2>4, <2>5, <2>6, <2>7, <2>8 DEF TypeOK
<1>2. Unopened'
  BY <1>0 DEF Unopened, TypeOK
<1>3. CallShape'
  BY <1>0 DEF CallShape, Hands, TypeOK
<1>4. Hands'
  BY <1>0 DEF CallShape, Hands, Unopened, TypeOK
<1>5. Handed'
  BY <1>0 DEF Handed, Hands, CallShape, WorkerShape, Unopened, TypeOK
<1>6. WorkerShape'
  BY <1>0 DEF WorkerShape, Handed, Verdict, Unopened, TypeOK
<1>7. AcceptedHasRows'
  BY <1>0 DEF AcceptedHasRows, TypeOK
<1>8. FinalizedIsComplete'
  BY <1>0 DEF FinalizedIsComplete, WorkerShape, Hands, CallShape, Unopened,
     Terminal, TypeOK
<1> QED BY <1>1, <1>2, <1>3, <1>4, <1>5, <1>6, <1>7, <1>8 DEF Inv

\* Sealing moves the active episode to the stage, to submit or to failed.
LEMMA SealStep ==
    ASSUME Inv, NEW requested \in Requested, NEW then \in {"run", "close_submit"},
           at = "run", active # None, Seal(requested, then), closing' \in BOOLEAN,
           UNCHANGED <<started, committed, queue, worker, manifest, result>>
    PROVE  Inv'
<1> USE SessionAssumption DEF Episodes, None, Seal, queue, worker
<1>0. TypeOK /\ Unopened /\ CallShape /\ Hands /\ Handed /\ WorkerShape
      /\ AcceptedHasRows /\ FinalizedIsComplete
  BY DEF Inv
<1>m. /\ marker' \in [Episodes -> MarkerStates]
      /\ \A e \in Episodes : e # active => marker'[e] = marker[e]
      /\ marker'[active] \in {marker[active], "failed", "queued_for_finalization"}
      /\ active' # None \/ deferred' = active => marker'[active] = "queued_for_finalization"
  <2>1. marker \in [Episodes -> MarkerStates] /\ active \in Episodes /\ deferred # active
    BY <1>0 DEF TypeOK, Hands
  <2>2. \/ marker' = [marker EXCEPT ![active] = "queued_for_finalization"]
        \/ MarkFailed({active}) /\ active' = None /\ deferred' = deferred
    OBVIOUS
  <2>3. CASE marker' = [marker EXCEPT ![active] = "queued_for_finalization"]
    BY <2>1, <2>3 DEF MarkerStates
  <2>4. CASE MarkFailed({active}) /\ active' = None /\ deferred' = deferred
    BY <2>1, <2>4, MarkedFailed
  <2> QED BY <2>2, <2>3, <2>4
<1>r. raised' \in BOOLEAN
  BY <1>0 DEF ObserveQueue, TypeOK
<1>e. Effective(requested) \in Requested /\ (Effective(requested) \in Accepted => committed[active])
  BY <1>0 DEF Effective, Requested, Accepted, TypeOK
<1>1. TypeOK'
  <2>1. started' \in 0..MaxEpisodes /\ active' \in 0..MaxEpisodes /\ deferred' \in 0..MaxEpisodes
       /\ submitting' \in 0..MaxEpisodes /\ job' \in 0..MaxEpisodes
    BY <1>0, <1>e DEF TypeOK
  <2>2. committed' \in [Episodes -> BOOLEAN] /\ outcome' \in [Episodes -> Requested \cup {"none"}]
    BY <1>0, <1>e DEF TypeOK
  <2>3. caller' \in {"none", "check", "end", "close"} /\ at' \in MainPoints /\ wstep' \in WorkerSteps
    BY <1>0, <1>e DEF TypeOK, MainPoints, WorkerSteps
  <2>4. faulty' \in BOOLEAN /\ closing' \in BOOLEAN /\ raised' \in BOOLEAN /\ failure' \in BOOLEAN
    BY <1>0, <1>r, closing' \in BOOLEAN DEF TypeOK
  <2>5. pending' \in Seq(Episodes)
    BY <1>0, <1>e DEF TypeOK
  <2>6. future' \in [Episodes -> {"none", "queued", "running", "done", "error"}]
    BY <1>0, <1>e DEF TypeOK
  <2>7. marker' \in [Episodes -> MarkerStates]
    BY <1>m
  <2>8. manifest' \in [Episodes -> {"none", "in_progress"} \cup Terminal]
       /\ result' \in [Episodes -> {"none"} \cup Terminal]
    BY <1>0, <1>e DEF TypeOK, Terminal
  <2> QED BY <2>1, <2>2, <2>3, <2>4, <2>5, <2>6, <2>7, <2>8 DEF TypeOK
<1>2. Unopened'
  BY <1>0, <1>e, <1>m DEF Unopened, TypeOK
<1>3. CallShape'
  BY <1>0, <1>e, <1>m DEF CallShape, Hands, TypeOK
<1>4. Hands'
  BY <1>0, <1>e, <1>m DEF CallShape, Hands, Unopened, TypeOK
<1>5. Handed'
  BY <1>0, <1>e, <1>m DEF Handed, Hands, CallShape, WorkerShape, Unopened, TypeOK
<1>6. WorkerShape'
  BY <1>0, <1>e, <1>m DEF WorkerShape, Handed, Verdict, Unopened, TypeOK
<1>7. AcceptedHasRows'
  BY <1>0, <1>e DEF AcceptedHasRows, TypeOK
<1>8. FinalizedIsComplete'
  BY <1>0, <1>e, <1>m DEF FinalizedIsComplete, WorkerShape, Hands, CallShape,
     Unopened, Terminal, TypeOK
<1> QED BY <1>1, <1>2, <1>3, <1>4, <1>5, <1>6, <1>7, <1>8 DEF Inv

\* What the executor accepted has left the simulation thread.
LEMMA EnqueueStep ==
    ASSUME Inv, NEW rest \in Seq(Episodes), submitting # None, Enqueue(rest),
           failure' \in BOOLEAN,
           UNCHANGED <<started, committed, faulty, outcome, closing, job, wstep, manifest, result>>
    PROVE  Inv'
<1> USE SessionAssumption DEF Episodes, None, Enqueue
<1>0. TypeOK /\ Unopened /\ CallShape /\ Hands /\ Handed /\ WorkerShape
      /\ AcceptedHasRows /\ FinalizedIsComplete
  BY DEF Inv
<1>s. /\ submitting \in Episodes /\ Append(rest, submitting) \in Seq(Episodes)
      /\ ReturnPoint \in {"run", "close_submit", "drain"}
  BY <1>0 DEF TypeOK, ReturnPoint
<1>r. raised' \in BOOLEAN
  BY <1>0 DEF ObserveQueue, TypeOK
<1>1. TypeOK'
  <2>1. started' \in 0..MaxEpisodes /\ active' \in 0..MaxEpisodes /\ deferred' \in 0..MaxEpisodes
       /\ submitting' \in 0..MaxEpisodes /\ job' \in 0..MaxEpisodes
    BY <1>0, <1>s DEF TypeOK
  <2>2. committed' \in [Episodes -> BOOLEAN] /\ outcome' \in [Episodes -> Requested \cup {"none"}]
    BY <1>0, <1>s DEF TypeOK
  <2>3. caller' \in {"none", "check", "end", "close"} /\ at' \in MainPoints /\ wstep' \in WorkerSteps
    BY <1>0, <1>s DEF TypeOK, MainPoints, WorkerSteps
  <2>4. faulty' \in BOOLEAN /\ closing' \in BOOLEAN /\ raised' \in BOOLEAN /\ failure' \in BOOLEAN
    BY <1>0, <1>r, failure' \in BOOLEAN DEF TypeOK
  <2>5. pending' \in Seq(Episodes)
    BY <1>0, <1>s DEF TypeOK
  <2>6. future' \in [Episodes -> {"none", "queued", "running", "done", "error"}]
    BY <1>0, <1>s DEF TypeOK
  <2>7. marker' \in [Episodes -> MarkerStates]
    BY <1>0, <1>s DEF TypeOK, MarkerStates, Terminal
  <2>8. manifest' \in [Episodes -> {"none", "in_progress"} \cup Terminal]
       /\ result' \in [Episodes -> {"none"} \cup Terminal]
    BY <1>0, <1>s DEF TypeOK, Terminal
  <2> QED BY <2>1, <2>2, <2>3, <2>4, <2>5, <2>6, <2>7, <2>8 DEF TypeOK
<1>2. Unopened'
  BY <1>0, <1>s DEF Unopened, TypeOK
<1>3. CallShape'
  BY <1>0, <1>s DEF CallShape, Hands, TypeOK
<1>4. Hands'
  BY <1>0, <1>s DEF CallShape, Hands, Unopened, TypeOK
<1>5. Handed'
  BY <1>0, <1>s DEF Handed, Hands, CallShape, WorkerShape, Unopened, TypeOK
<1>6. WorkerShape'
  BY <1>0, <1>s DEF WorkerShape, Handed, Verdict, Unopened, TypeOK
<1>7. AcceptedHasRows'
  BY <1>0, <1>s DEF AcceptedHasRows, TypeOK
<1>8. FinalizedIsComplete'
  BY <1>0, <1>s DEF FinalizedIsComplete, WorkerShape, Hands, CallShape,
     Unopened, Terminal, TypeOK
<1> QED BY <1>1, <1>2, <1>3, <1>4, <1>5, <1>6, <1>7, <1>8 DEF Inv

\* A refused artifact, and its successor, are marked failed and let go.
LEMMA RefuseStep ==
    ASSUME Inv, NEW rest \in Seq(Episodes), submitting # None, Refuse(rest),
           failure' \in BOOLEAN,
           UNCHANGED <<started, committed, faulty, outcome, closing, job, wstep, manifest, result>>
    PROVE  Inv'
<1> USE SessionAssumption DEF Episodes, None, Refuse
<1>0. TypeOK /\ Unopened /\ CallShape /\ Hands /\ Handed /\ WorkerShape
      /\ AcceptedHasRows /\ FinalizedIsComplete
  BY DEF Inv
<1>m. /\ marker' \in [Episodes -> MarkerStates]
      /\ \A e \in Episodes : /\ marker'[e] \in {marker[e], "failed"}
                             /\ e # submitting /\ ~(caller = "end" /\ e = active)
                                  => marker'[e] = marker[e]
  <2>1. marker \in [Episodes -> MarkerStates]
    BY <1>0 DEF TypeOK
  <2> QED BY <2>1, MarkedFailed
<1>s. submitting \in Episodes /\ ReturnPoint \in {"run", "close_submit", "drain"}
  BY <1>0 DEF TypeOK, ReturnPoint
<1>1. TypeOK'
  <2>1. started' \in 0..MaxEpisodes /\ active' \in 0..MaxEpisodes /\ deferred' \in 0..MaxEpisodes
       /\ submitting' \in 0..MaxEpisodes /\ job' \in 0..MaxEpisodes
    BY <1>0, <1>s DEF TypeOK
  <2>2. committed' \in [Episodes -> BOOLEAN] /\ outcome' \in [Episodes -> Requested \cup {"none"}]
    BY <1>0, <1>s DEF TypeOK
  <2>3. caller' \in {"none", "check", "end", "close"} /\ at' \in MainPoints /\ wstep' \in WorkerSteps
    BY <1>0, <1>s DEF TypeOK, MainPoints, WorkerSteps
  <2>4. faulty' \in BOOLEAN /\ closing' \in BOOLEAN /\ raised' \in BOOLEAN /\ failure' \in BOOLEAN
    BY <1>0, <1>s DEF TypeOK
  <2>5. pending' \in Seq(Episodes)
    BY <1>0, <1>s DEF TypeOK
  <2>6. future' \in [Episodes -> {"none", "queued", "running", "done", "error"}]
    BY <1>0, <1>s DEF TypeOK
  <2>7. marker' \in [Episodes -> MarkerStates]
    BY <1>m
  <2>8. manifest' \in [Episodes -> {"none", "in_progress"} \cup Terminal]
       /\ result' \in [Episodes -> {"none"} \cup Terminal]
    BY <1>0, <1>s DEF TypeOK, Terminal
  <2> QED BY <2>1, <2>2, <2>3, <2>4, <2>5, <2>6, <2>7, <2>8 DEF TypeOK
<1>2. Unopened'
  BY <1>0, <1>m, <1>s DEF Unopened, TypeOK
<1>3. CallShape'
  BY <1>0, <1>m, <1>s DEF CallShape, Hands, TypeOK
<1>4. Hands'
  BY <1>0, <1>m, <1>s DEF CallShape, Hands, Unopened, TypeOK
<1>5. Handed'
  BY <1>0, <1>m, <1>s DEF Handed, Hands, CallShape, WorkerShape, Unopened, TypeOK
<1>6. WorkerShape'
  <2>1. job # None => job \in Episodes /\ job # active /\ job # submitting
    BY <1>0 DEF WorkerShape, Handed, TypeOK
  <2>2. /\ job' = job /\ wstep' = wstep /\ future' = future
        /\ manifest' = manifest /\ result' = result /\ Verdict' = Verdict
    BY DEF Verdict
  <2>3. job # None => marker'[job] = marker[job]
    BY <1>0, <1>m, <1>s, <2>1 DEF CallShape, TypeOK
  <2> QED BY <1>0, <2>1, <2>2, <2>3 DEF WorkerShape
<1>7. AcceptedHasRows'
  BY <1>0, <1>s DEF AcceptedHasRows, TypeOK
<1>8. FinalizedIsComplete'
  BY <1>0, <1>m, <1>s DEF FinalizedIsComplete, WorkerShape, Hands, CallShape,
     Unopened, Terminal, TypeOK
<1> QED BY <1>1, <1>2, <1>3, <1>4, <1>5, <1>6, <1>7, <1>8 DEF Inv

\* Closing hands over the staged artifact, if there is one.
LEMMA CloseSubmitStep ==
    ASSUME Inv, CloseSubmit
    PROVE  Inv'
<1> USE SessionAssumption DEF Episodes, None, CloseSubmit, queue, worker, disk
<1>0. TypeOK /\ Unopened /\ CallShape /\ Hands /\ Handed /\ WorkerShape
      /\ AcceptedHasRows /\ FinalizedIsComplete
  BY DEF Inv
<1>1. TypeOK'
  <2>1. started' \in 0..MaxEpisodes /\ active' \in 0..MaxEpisodes /\ deferred' \in 0..MaxEpisodes
       /\ submitting' \in 0..MaxEpisodes /\ job' \in 0..MaxEpisodes
    BY <1>0 DEF TypeOK
  <2>2. committed' \in [Episodes -> BOOLEAN] /\ outcome' \in [Episodes -> Requested \cup {"none"}]
    BY <1>0 DEF TypeOK
  <2>3. caller' \in {"none", "check", "end", "close"} /\ at' \in MainPoints /\ wstep' \in WorkerSteps
    BY <1>0 DEF TypeOK, MainPoints, WorkerSteps
  <2>4. faulty' \in BOOLEAN /\ closing' \in BOOLEAN /\ raised' \in BOOLEAN /\ failure' \in BOOLEAN
    BY <1>0 DEF TypeOK
  <2>5. pending' \in Seq(Episodes)
    BY <1>0 DEF TypeOK
  <2>6. future' \in [Episodes -> {"none", "queued", "running", "done", "error"}]
    BY <1>0 DEF TypeOK
  <2>7. marker' \in [Episodes -> MarkerStates]
    BY <1>0 DEF TypeOK, MarkerStates, Terminal
  <2>8. manifest' \in [Episodes -> {"none", "in_progress"} \cup Terminal]
       /\ result' \in [Episodes -> {"none"} \cup Terminal]
    BY <1>0 DEF TypeOK, Terminal
  <2> QED BY <2>1, <2>2, <2>3, <2>4, <2>5, <2>6, <2>7, <2>8 DEF TypeOK
<1>2. Unopened'
  BY <1>0 DEF Unopened, TypeOK
<1>3. CallShape'
  BY <1>0 DEF CallShape, Hands, TypeOK
<1>4. Hands'
  BY <1>0 DEF CallShape, Hands, Unopened, TypeOK
<1>5. Handed'
  BY <1>0 DEF Handed, Hands, CallShape, WorkerShape, Unopened, TypeOK
<1>6. WorkerShape'
  BY <1>0 DEF WorkerShape, Handed, Verdict, Unopened, TypeOK
<1>7. AcceptedHasRows'
  BY <1>0 DEF AcceptedHasRows, TypeOK
<1>8. FinalizedIsComplete'
  BY <1>0 DEF FinalizedIsComplete, WorkerShape, Hands, CallShape, Unopened,
     Terminal, TypeOK
<1> QED BY <1>1, <1>2, <1>3, <1>4, <1>5, <1>6, <1>7, <1>8 DEF Inv

\* Waiting for the queue changes no file.
LEMMA DrainStep ==
    ASSUME Inv, Drain
    PROVE  Inv'
<1> USE SessionAssumption DEF Episodes, None, Drain, main, worker, disk
<1>0. TypeOK /\ Unopened /\ CallShape /\ Hands /\ Handed /\ WorkerShape
      /\ AcceptedHasRows /\ FinalizedIsComplete
  BY DEF Inv
<1>1. TypeOK'
  <2>1. started' \in 0..MaxEpisodes /\ active' \in 0..MaxEpisodes /\ deferred' \in 0..MaxEpisodes
       /\ submitting' \in 0..MaxEpisodes /\ job' \in 0..MaxEpisodes
    BY <1>0 DEF TypeOK
  <2>2. committed' \in [Episodes -> BOOLEAN] /\ outcome' \in [Episodes -> Requested \cup {"none"}]
    BY <1>0 DEF TypeOK
  <2>3. caller' \in {"none", "check", "end", "close"} /\ at' \in MainPoints /\ wstep' \in WorkerSteps
    BY <1>0 DEF TypeOK, MainPoints, WorkerSteps
  <2>4. faulty' \in BOOLEAN /\ closing' \in BOOLEAN /\ raised' \in BOOLEAN /\ failure' \in BOOLEAN
    BY <1>0 DEF TypeOK
  <2>5. pending' \in Seq(Episodes)
    BY <1>0 DEF TypeOK
  <2>6. future' \in [Episodes -> {"none", "queued", "running", "done", "error"}]
    BY <1>0 DEF TypeOK
  <2>7. marker' \in [Episodes -> MarkerStates]
    BY <1>0 DEF TypeOK, MarkerStates, Terminal
  <2>8. manifest' \in [Episodes -> {"none", "in_progress"} \cup Terminal]
       /\ result' \in [Episodes -> {"none"} \cup Terminal]
    BY <1>0 DEF TypeOK, Terminal
  <2> QED BY <2>1, <2>2, <2>3, <2>4, <2>5, <2>6, <2>7, <2>8 DEF TypeOK
<1>2. Unopened'
  BY <1>0 DEF Unopened, TypeOK
<1>3. CallShape'
  BY <1>0 DEF CallShape, Hands, TypeOK
<1>4. Hands'
  BY <1>0 DEF CallShape, Hands, Unopened, TypeOK
<1>5. Handed'
  BY <1>0 DEF Handed, Hands, CallShape, WorkerShape, Unopened, TypeOK
<1>6. WorkerShape'
  BY <1>0 DEF WorkerShape, Handed, Verdict, Unopened, TypeOK
<1>7. AcceptedHasRows'
  BY <1>0 DEF AcceptedHasRows, TypeOK
<1>8. FinalizedIsComplete'
  BY <1>0 DEF FinalizedIsComplete, WorkerShape, Hands, CallShape, Unopened,
     Terminal, TypeOK
<1> QED BY <1>1, <1>2, <1>3, <1>4, <1>5, <1>6, <1>7, <1>8 DEF Inv

\* The worker takes a future nobody else holds.
LEMMA WorkerTakeStep ==
    ASSUME Inv, WorkerTake
    PROVE  Inv'
<1> USE SessionAssumption DEF Episodes, None, WorkerTake, main, call, queue,
   disk
<1>0. TypeOK /\ Unopened /\ CallShape /\ Hands /\ Handed /\ WorkerShape
      /\ AcceptedHasRows /\ FinalizedIsComplete
  BY DEF Inv
<1>p. Len(pending) \in Nat /\ \A i \in 1..Len(pending) : pending[i] \in Episodes
  BY <1>0 DEF TypeOK
<1>1. TypeOK'
  <2>1. started' \in 0..MaxEpisodes /\ active' \in 0..MaxEpisodes /\ deferred' \in 0..MaxEpisodes
       /\ submitting' \in 0..MaxEpisodes /\ job' \in 0..MaxEpisodes
    BY <1>0, <1>p DEF TypeOK
  <2>2. committed' \in [Episodes -> BOOLEAN] /\ outcome' \in [Episodes -> Requested \cup {"none"}]
    BY <1>0, <1>p DEF TypeOK
  <2>3. caller' \in {"none", "check", "end", "close"} /\ at' \in MainPoints /\ wstep' \in WorkerSteps
    BY <1>0, <1>p DEF TypeOK, MainPoints, WorkerSteps
  <2>4. faulty' \in BOOLEAN /\ closing' \in BOOLEAN /\ raised' \in BOOLEAN /\ failure' \in BOOLEAN
    BY <1>0, <1>p DEF TypeOK
  <2>5. pending' \in Seq(Episodes)
    BY <1>0, <1>p DEF TypeOK
  <2>6. future' \in [Episodes -> {"none", "queued", "running", "done", "error"}]
    BY <1>0, <1>p DEF TypeOK
  <2>7. marker' \in [Episodes -> MarkerStates]
    BY <1>0, <1>p DEF TypeOK, MarkerStates, Terminal
  <2>8. manifest' \in [Episodes -> {"none", "in_progress"} \cup Terminal]
       /\ result' \in [Episodes -> {"none"} \cup Terminal]
    BY <1>0, <1>p DEF TypeOK, Terminal
  <2> QED BY <2>1, <2>2, <2>3, <2>4, <2>5, <2>6, <2>7, <2>8 DEF TypeOK
<1>2. Unopened'
  BY <1>0, <1>p DEF Unopened, TypeOK
<1>3. CallShape'
  BY <1>0, <1>p DEF CallShape, Hands, TypeOK
<1>4. Hands'
  BY <1>0, <1>p DEF CallShape, Hands, Unopened, TypeOK
<1>5. Handed'
  BY <1>0, <1>p DEF Handed, Hands, CallShape, WorkerShape, Unopened, TypeOK
<1>6. WorkerShape'
  BY <1>0, <1>p DEF WorkerShape, Handed, Verdict, Unopened, TypeOK
<1>7. AcceptedHasRows'
  BY <1>0, <1>p DEF AcceptedHasRows, TypeOK
<1>8. FinalizedIsComplete'
  BY <1>0, <1>p DEF FinalizedIsComplete, WorkerShape, Hands, CallShape,
     Unopened, Terminal, TypeOK
<1> QED BY <1>1, <1>2, <1>3, <1>4, <1>5, <1>6, <1>7, <1>8 DEF Inv

\* The worker writes only the files of its own episode.
LEMMA WorkerAdvanceStep ==
    ASSUME Inv, WorkerAdvance
    PROVE  Inv'
<1> USE SessionAssumption DEF Episodes, None, WorkerAdvance, StepAfter, Write,
   WriteMarker, Verify, WriteManifest, WriteResult, WriteVerdict, main, call, queue, disk
<1>0. TypeOK /\ Unopened /\ CallShape /\ Hands /\ Handed /\ WorkerShape
      /\ AcceptedHasRows /\ FinalizedIsComplete
  BY DEF Inv
<1>j. /\ job \in Episodes /\ future[job] = "running" /\ job <= started
      /\ job # active /\ job # deferred /\ job # submitting
  BY <1>0 DEF WorkerShape, Handed, Unopened, TypeOK
<1>1. TypeOK'
  <2>1. started' \in 0..MaxEpisodes /\ active' \in 0..MaxEpisodes /\ deferred' \in 0..MaxEpisodes
       /\ submitting' \in 0..MaxEpisodes /\ job' \in 0..MaxEpisodes
    BY <1>0, <1>j DEF TypeOK, Verdict
  <2>2. committed' \in [Episodes -> BOOLEAN] /\ outcome' \in [Episodes -> Requested \cup {"none"}]
    BY <1>0, <1>j DEF TypeOK, Verdict
  <2>3. caller' \in {"none", "check", "end", "close"} /\ at' \in MainPoints /\ wstep' \in WorkerSteps
    BY <1>0, <1>j DEF TypeOK, Verdict, MainPoints, WorkerSteps
  <2>4. faulty' \in BOOLEAN /\ closing' \in BOOLEAN /\ raised' \in BOOLEAN /\ failure' \in BOOLEAN
    BY <1>0, <1>j DEF TypeOK, Verdict
  <2>5. pending' \in Seq(Episodes)
    BY <1>0, <1>j DEF TypeOK, Verdict
  <2>6. future' \in [Episodes -> {"none", "queued", "running", "done", "error"}]
    BY <1>0, <1>j DEF TypeOK, Verdict
  <2>7. marker' \in [Episodes -> MarkerStates]
    BY <1>0, <1>j DEF TypeOK, Verdict, MarkerStates, Terminal
  <2>8. manifest' \in [Episodes -> {"none", "in_progress"} \cup Terminal]
       /\ result' \in [Episodes -> {"none"} \cup Terminal]
    BY <1>0, <1>j DEF TypeOK, Verdict, Terminal
  <2> QED BY <2>1, <2>2, <2>3, <2>4, <2>5, <2>6, <2>7, <2>8 DEF TypeOK
<1>2. Unopened'
  BY <1>0, <1>j DEF Unopened, TypeOK, Verdict
<1>3. CallShape'
  BY <1>0, <1>j DEF CallShape, Hands, TypeOK, Verdict
<1>4. Hands'
  BY <1>0, <1>j DEF CallShape, Hands, Unopened, TypeOK, Verdict
<1>5. Handed'
  BY <1>0, <1>j DEF Handed, Hands, CallShape, WorkerShape, Unopened, TypeOK,
     Verdict
<1>6. WorkerShape'
  BY <1>0, <1>j DEF WorkerShape, Handed, Verdict, Unopened, TypeOK
<1>7. AcceptedHasRows'
  BY <1>0, <1>j DEF AcceptedHasRows, TypeOK, Verdict
<1>8. FinalizedIsComplete'
  BY <1>0, <1>j DEF FinalizedIsComplete, WorkerShape, Hands, CallShape,
     Unopened, Terminal, TypeOK, Verdict
<1> QED BY <1>1, <1>2, <1>3, <1>4, <1>5, <1>6, <1>7, <1>8 DEF Inv

\* The marker is finalized last.
LEMMA WorkerFinishStep ==
    ASSUME Inv, WorkerFinish
    PROVE  Inv'
<1> USE SessionAssumption DEF Episodes, None, WorkerFinish, Write, WriteMarker,
   Verify, WriteManifest, WriteResult, WriteVerdict, main, call, queue
<1>0. TypeOK /\ Unopened /\ CallShape /\ Hands /\ Handed /\ WorkerShape
      /\ AcceptedHasRows /\ FinalizedIsComplete
  BY DEF Inv
<1>j. /\ job \in Episodes /\ future[job] = "running" /\ job <= started
      /\ job # active /\ job # deferred /\ job # submitting
  BY <1>0 DEF WorkerShape, Handed, Unopened, TypeOK
<1>1. TypeOK'
  <2>1. started' \in 0..MaxEpisodes /\ active' \in 0..MaxEpisodes /\ deferred' \in 0..MaxEpisodes
       /\ submitting' \in 0..MaxEpisodes /\ job' \in 0..MaxEpisodes
    BY <1>0, <1>j DEF TypeOK, Verdict
  <2>2. committed' \in [Episodes -> BOOLEAN] /\ outcome' \in [Episodes -> Requested \cup {"none"}]
    BY <1>0, <1>j DEF TypeOK, Verdict
  <2>3. caller' \in {"none", "check", "end", "close"} /\ at' \in MainPoints /\ wstep' \in WorkerSteps
    BY <1>0, <1>j DEF TypeOK, Verdict, MainPoints, WorkerSteps
  <2>4. faulty' \in BOOLEAN /\ closing' \in BOOLEAN /\ raised' \in BOOLEAN /\ failure' \in BOOLEAN
    BY <1>0, <1>j DEF TypeOK, Verdict
  <2>5. pending' \in Seq(Episodes)
    BY <1>0, <1>j DEF TypeOK, Verdict
  <2>6. future' \in [Episodes -> {"none", "queued", "running", "done", "error"}]
    BY <1>0, <1>j DEF TypeOK, Verdict
  <2>7. marker' \in [Episodes -> MarkerStates]
    BY <1>0, <1>j DEF TypeOK, Verdict, MarkerStates, Terminal
  <2>8. manifest' \in [Episodes -> {"none", "in_progress"} \cup Terminal]
       /\ result' \in [Episodes -> {"none"} \cup Terminal]
    BY <1>0, <1>j DEF TypeOK, Verdict, Terminal
  <2> QED BY <2>1, <2>2, <2>3, <2>4, <2>5, <2>6, <2>7, <2>8 DEF TypeOK
<1>2. Unopened'
  BY <1>0, <1>j DEF Unopened, TypeOK, Verdict
<1>3. CallShape'
  BY <1>0, <1>j DEF CallShape, Hands, TypeOK, Verdict
<1>4. Hands'
  BY <1>0, <1>j DEF CallShape, Hands, Unopened, TypeOK, Verdict
<1>5. Handed'
  BY <1>0, <1>j DEF Handed, Hands, CallShape, WorkerShape, Unopened, TypeOK,
     Verdict
<1>6. WorkerShape'
  BY <1>0, <1>j DEF WorkerShape, Handed, Verdict, Unopened, TypeOK
<1>7. AcceptedHasRows'
  BY <1>0, <1>j DEF AcceptedHasRows, TypeOK, Verdict
<1>8. FinalizedIsComplete'
  <2>1. Verdict = "finalized" => outcome[job] \in Accepted /\ committed[job]
    BY <1>0, <1>j DEF Verdict, AcceptedHasRows
  <2>2. manifest[job] = Verdict /\ result[job] = Verdict
    BY <1>0, <1>j DEF WorkerShape
  <2>3. \A e \in Episodes : marker'[e] = IF e = job THEN Verdict ELSE marker[e]
    BY <1>0, <1>j DEF TypeOK
  <2>4. UNCHANGED <<manifest, result, outcome, committed>>
    OBVIOUS
  <2> QED BY <1>0, <2>1, <2>2, <2>3, <2>4 DEF FinalizedIsComplete
<1> QED BY <1>1, <1>2, <1>3, <1>4, <1>5, <1>6, <1>7, <1>8 DEF Inv

\* A fault leaves the files as they are, or the write of its step.
LEMMA WorkerFaultStep ==
    ASSUME Inv, WorkerFault
    PROVE  Inv'
<1> USE SessionAssumption DEF Episodes, None, WorkerFault, StepAfter, Write, WriteMarker,
   Verify, WriteManifest, WriteResult, WriteVerdict, main, call, queue, disk
<1>0. TypeOK /\ Unopened /\ CallShape /\ Hands /\ Handed /\ WorkerShape
      /\ AcceptedHasRows /\ FinalizedIsComplete
  BY DEF Inv
<1>j. /\ job \in Episodes /\ future[job] = "running" /\ job <= started
      /\ job # active /\ job # deferred /\ job # submitting
  BY <1>0 DEF WorkerShape, Handed, Unopened, TypeOK
<1>1. TypeOK'
  <2>1. started' \in 0..MaxEpisodes /\ active' \in 0..MaxEpisodes /\ deferred' \in 0..MaxEpisodes
       /\ submitting' \in 0..MaxEpisodes /\ job' \in 0..MaxEpisodes
    BY <1>0, <1>j DEF TypeOK, Verdict
  <2>2. committed' \in [Episodes -> BOOLEAN] /\ outcome' \in [Episodes -> Requested \cup {"none"}]
    BY <1>0, <1>j DEF TypeOK, Verdict
  <2>3. caller' \in {"none", "check", "end", "close"} /\ at' \in MainPoints /\ wstep' \in WorkerSteps
    BY <1>0, <1>j DEF TypeOK, Verdict, MainPoints, WorkerSteps
  <2>4. faulty' \in BOOLEAN /\ closing' \in BOOLEAN /\ raised' \in BOOLEAN /\ failure' \in BOOLEAN
    BY <1>0, <1>j DEF TypeOK, Verdict
  <2>5. pending' \in Seq(Episodes)
    BY <1>0, <1>j DEF TypeOK, Verdict
  <2>6. future' \in [Episodes -> {"none", "queued", "running", "done", "error"}]
    BY <1>0, <1>j DEF TypeOK, Verdict
  <2>7. marker' \in [Episodes -> MarkerStates]
    BY <1>0, <1>j DEF TypeOK, Verdict, MarkerStates, Terminal
  <2>8. manifest' \in [Episodes -> {"none", "in_progress"} \cup Terminal]
       /\ result' \in [Episodes -> {"none"} \cup Terminal]
    BY <1>0, <1>j DEF TypeOK, Verdict, Terminal
  <2> QED BY <2>1, <2>2, <2>3, <2>4, <2>5, <2>6, <2>7, <2>8 DEF TypeOK
<1>2. Unopened'
  BY <1>0, <1>j DEF Unopened, TypeOK
<1>3. CallShape'
  BY <1>0, <1>j DEF CallShape, Hands, TypeOK
<1>4. Hands'
  BY <1>0, <1>j DEF CallShape, Hands, Unopened, TypeOK
<1>5. Handed'
  BY <1>0, <1>j DEF Handed, Hands, CallShape, WorkerShape, Unopened, TypeOK
<1>6. WorkerShape'
  BY <1>0, <1>j DEF WorkerShape, Handed, Verdict, Unopened, TypeOK
<1>7. AcceptedHasRows'
  BY <1>0, <1>j DEF AcceptedHasRows, TypeOK
<1>8. FinalizedIsComplete'
  <2>1. UNCHANGED <<outcome, committed>>
    OBVIOUS
  <2>2. \A e \in Episodes : e # job =>
           marker'[e] = marker[e] /\ manifest'[e] = manifest[e] /\ result'[e] = result[e]
    BY <1>0, <1>j DEF TypeOK
  <2>3. marker'[job] = "finalized" =>
           /\ manifest'[job] = "finalized" /\ result'[job] = "finalized"
           /\ outcome[job] \in Accepted /\ committed[job]
    <3>1. marker'[job] = "finalized" =>
             Verdict = "finalized" /\ manifest[job] = Verdict /\ result[job] = Verdict
             /\ manifest' = manifest /\ result' = result
      BY <1>0, <1>j DEF WorkerShape, TypeOK
    <3>2. Verdict = "finalized" => outcome[job] \in Accepted
      BY DEF Verdict
    <3> QED BY <1>0, <1>j, <3>1, <3>2 DEF AcceptedHasRows
  <2> QED BY <1>0, <1>j, <2>1, <2>2, <2>3 DEF FinalizedIsComplete
<1> QED BY <1>1, <1>2, <1>3, <1>4, <1>5, <1>6, <1>7, <1>8 DEF Inv

\* The handler marks an artifact that was not finalized.
LEMMA WorkerHandlerStep ==
    ASSUME Inv, WorkerHandler
    PROVE  Inv'
<1> USE SessionAssumption DEF Episodes, None, WorkerHandler, main,
   call, queue
<1>0. TypeOK /\ Unopened /\ CallShape /\ Hands /\ Handed /\ WorkerShape
      /\ AcceptedHasRows /\ FinalizedIsComplete
  BY DEF Inv
<1>j. /\ job \in Episodes /\ future[job] = "running" /\ job <= started
      /\ job # active /\ job # deferred /\ job # submitting
  BY <1>0 DEF WorkerShape, Handed, Unopened, TypeOK
<1>m. /\ marker' \in [Episodes -> MarkerStates]
      /\ marker'[job] \in {marker[job], "failed"}
      /\ \A e \in Episodes : e # job => marker'[e] = marker[e]
  <2>1. marker \in [Episodes -> MarkerStates]
    BY <1>0 DEF TypeOK
  <2> QED BY <1>j, <2>1, MarkedFailed
<1>1. TypeOK'
  <2>1. started' \in 0..MaxEpisodes /\ active' \in 0..MaxEpisodes /\ deferred' \in 0..MaxEpisodes
       /\ submitting' \in 0..MaxEpisodes /\ job' \in 0..MaxEpisodes
    BY <1>0, <1>j, <1>m DEF TypeOK
  <2>2. committed' \in [Episodes -> BOOLEAN] /\ outcome' \in [Episodes -> Requested \cup {"none"}]
    BY <1>0, <1>j, <1>m DEF TypeOK
  <2>3. caller' \in {"none", "check", "end", "close"} /\ at' \in MainPoints /\ wstep' \in WorkerSteps
    BY <1>0, <1>j, <1>m DEF TypeOK, MainPoints, WorkerSteps
  <2>4. faulty' \in BOOLEAN /\ closing' \in BOOLEAN /\ raised' \in BOOLEAN /\ failure' \in BOOLEAN
    BY <1>0, <1>j, <1>m DEF TypeOK
  <2>5. pending' \in Seq(Episodes)
    BY <1>0, <1>j, <1>m DEF TypeOK
  <2>6. future' \in [Episodes -> {"none", "queued", "running", "done", "error"}]
    BY <1>0, <1>j, <1>m DEF TypeOK
  <2>7. marker' \in [Episodes -> MarkerStates]
    BY <1>0, <1>j, <1>m DEF TypeOK, MarkerStates, Terminal
  <2>8. manifest' \in [Episodes -> {"none", "in_progress"} \cup Terminal]
       /\ result' \in [Episodes -> {"none"} \cup Terminal]
    BY <1>0, <1>j, <1>m DEF TypeOK, Terminal
  <2> QED BY <2>1, <2>2, <2>3, <2>4, <2>5, <2>6, <2>7, <2>8 DEF TypeOK
<1>2. Unopened'
  BY <1>0, <1>j, <1>m DEF Unopened, TypeOK
<1>3. CallShape'
  BY <1>0, <1>j, <1>m DEF CallShape, Hands, TypeOK
<1>4. Hands'
  BY <1>0, <1>j, <1>m DEF CallShape, Hands, Unopened, TypeOK
<1>5. Handed'
  BY <1>0, <1>j, <1>m DEF Handed, Hands, CallShape, WorkerShape, Unopened, TypeOK
<1>6. WorkerShape'
  BY <1>0, <1>j, <1>m DEF WorkerShape, Handed, Verdict, Unopened, TypeOK
<1>7. AcceptedHasRows'
  BY <1>0, <1>j, <1>m DEF AcceptedHasRows, TypeOK
<1>8. FinalizedIsComplete'
  BY <1>0, <1>j, <1>m DEF FinalizedIsComplete, WorkerShape, Hands, CallShape,
     Unopened, Terminal, TypeOK
<1> QED BY <1>1, <1>2, <1>3, <1>4, <1>5, <1>6, <1>7, <1>8 DEF Inv

-----------------------------------------------------------------------------
(* The theorems                                                            *)

\* The invariant holds when the session is constructed.
LEMMA InvInit == Init => Inv
<1> SUFFICES ASSUME Init PROVE Inv
  OBVIOUS
<1> USE SessionAssumption DEF Episodes, None, Init
<1>1. TypeOK
  <2>1. pending \in Seq(Episodes)
    OBVIOUS
  <2>2. /\ started \in 0..MaxEpisodes /\ active \in 0..MaxEpisodes
        /\ deferred \in 0..MaxEpisodes /\ submitting \in 0..MaxEpisodes
        /\ job \in 0..MaxEpisodes
    OBVIOUS
  <2>3. /\ committed \in [Episodes -> BOOLEAN]
        /\ outcome \in [Episodes -> Requested \cup {"none"}]
        /\ future \in [Episodes -> {"none", "queued", "running", "done", "error"}]
        /\ marker \in [Episodes -> MarkerStates]
        /\ manifest \in [Episodes -> {"none", "in_progress"} \cup Terminal]
        /\ result \in [Episodes -> {"none"} \cup Terminal]
    BY DEF MarkerStates
  <2> QED BY <2>1, <2>2, <2>3 DEF TypeOK, MainPoints, WorkerSteps
<1>2. Unopened /\ CallShape /\ Hands
  BY DEF Unopened, CallShape, Hands
<1>3. Handed /\ WorkerShape /\ AcceptedHasRows /\ FinalizedIsComplete
  BY DEF Handed, WorkerShape, AcceptedHasRows, FinalizedIsComplete, Accepted
<1> QED BY <1>1, <1>2, <1>3 DEF Inv

\* Ending an episode is sealing it, and returning to the control loop.
LEMMA EndEpisodeStep ==
    ASSUME Inv, EndEpisode
    PROVE  Inv'
<1>1. closing' \in BOOLEAN /\ at = "run" /\ active # None
  BY DEF Inv, TypeOK, EndEpisode, Callable
<1>2. PICK requested \in Requested : Seal(requested, "run")
  BY DEF EndEpisode
<1> QED BY <1>1, <1>2, SealStep DEF EndEpisode

\* Closing seals what is still active.
LEMMA CloseStep ==
    ASSUME Inv, Close
    PROVE  Inv'
<1>1. CASE active # None
  <2>1. closing' \in BOOLEAN /\ at = "run"
    BY DEF Close
  <2>2. PICK requested \in Requested : Seal(requested, "close_submit")
    BY <1>1 DEF Close
  <2> QED BY <1>1, <2>1, <2>2, SealStep DEF Close
<1>2. CASE active = None
  <2>1. /\ at = "run" /\ at' = "close_submit" /\ closing' = TRUE
        /\ UNCHANGED <<started, active, committed, faulty, outcome, deferred,
                       submitting, caller, raised, queue, worker, disk>>
    BY <1>2 DEF Close, disk, worker, queue
  <2> USE DEF queue, worker, disk
  <2>2. TypeOK'
    BY <2>1 DEF Inv, TypeOK, MainPoints
  <2>3. (Unopened /\ CallShape /\ Hands)'
    BY <2>1 DEF Inv, Unopened, CallShape, Hands
  <2>4. (Handed /\ WorkerShape)'
    BY <2>1 DEF Inv, Handed, WorkerShape, Verdict
  <2>5. (AcceptedHasRows /\ FinalizedIsComplete)'
    BY <2>1 DEF Inv, AcceptedHasRows, FinalizedIsComplete
  <2> QED BY <2>2, <2>3, <2>4, <2>5 DEF Inv
<1> QED BY <1>1, <1>2

\* Submitting enqueues, refuses or blocks.
LEMMA SubmitStep ==
    ASSUME Inv, Submit
    PROVE  Inv'
<1> USE SessionAssumption DEF Episodes, None
<1>1. /\ submitting # None /\ Remaining \in Seq(Episodes) /\ FailureSeen \in BOOLEAN
      /\ failure' \in BOOLEAN
      /\ UNCHANGED <<started, committed, faulty, outcome, closing, job, wstep,
                     manifest, result>>
  BY QueueTypes DEF Inv, CallShape, Submit, FailureSeen, TypeOK
<1>2. CASE Enqueue(Remaining)
  BY <1>1, <1>2, EnqueueStep
<1>3. CASE Refuse(Remaining)
  BY <1>1, <1>3, RefuseStep
<1>4. CASE /\ Len(Remaining) >= MaxPending
           /\ pending' = Remaining /\ at' = "await"
           /\ UNCHANGED <<active, deferred, submitting, caller, raised, future, marker>>
  <2>1. Remaining # << >>
    BY <1>1, <1>4
  <2>2. TypeOK'
    BY <1>1, <1>4 DEF Inv, TypeOK, MainPoints
  <2>3. (Unopened /\ CallShape /\ Hands)'
    BY <1>1, <1>4, <2>1 DEF Inv, Unopened, CallShape, Hands
  <2>4. (Handed /\ WorkerShape)'
    BY <1>1, <1>4 DEF Inv, Handed, WorkerShape, Verdict
  <2>5. (AcceptedHasRows /\ FinalizedIsComplete)'
    BY <1>1, <1>4 DEF Inv, AcceptedHasRows, FinalizedIsComplete
  <2> QED BY <2>2, <2>3, <2>4, <2>5 DEF Inv
<1> QED BY <1>2, <1>3, <1>4 DEF Submit

\* A submit that had to wait enqueues or refuses with the tail of the queue.
LEMMA AwaitOldestStep ==
    ASSUME Inv, AwaitOldest
    PROVE  Inv'
<1> USE DEF Episodes, None
<1>1. /\ submitting # None /\ pending # << >> /\ pending \in Seq(Episodes)
      /\ failure' \in BOOLEAN
      /\ UNCHANGED <<started, committed, faulty, outcome, closing, job, wstep,
                     manifest, result>>
  BY DEF Inv, CallShape, AwaitOldest, TypeOK
<1>2. Tail(pending) \in Seq(Episodes)
  BY <1>1
<1>3. CASE Enqueue(Tail(pending))
  BY <1>1, <1>2, <1>3, EnqueueStep
<1>4. CASE Refuse(Tail(pending))
  BY <1>1, <1>2, <1>4, RefuseStep
<1> QED BY <1>3, <1>4 DEF AwaitOldest

\* Steps that change nothing of the state keep everything.
LEMMA StutterStep ==
    ASSUME Inv, UNCHANGED vars
    PROVE  Inv'
<1> USE DEF vars, main, call, queue, worker, disk
<1>1. (TypeOK /\ Unopened /\ CallShape /\ Hands)'
  BY DEF Inv, TypeOK, Unopened, CallShape, Hands
<1>2. (Handed /\ WorkerShape /\ AcceptedHasRows /\ FinalizedIsComplete)'
  BY DEF Inv, Handed, WorkerShape, Verdict, AcceptedHasRows,
     FinalizedIsComplete
<1> QED BY <1>1, <1>2 DEF Inv

\* Every step of either thread preserves the invariant.
LEMMA InvStep == Inv /\ [Next]_vars => Inv'
<1> SUFFICES ASSUME Inv, [Next]_vars PROVE Inv'
  OBVIOUS
<1>1. CASE CheckFinalization \/ StartEpisode \/ Record \/ EndEpisode \/ Close
  BY <1>1, CheckFinalizationStep, StartEpisodeStep, RecordStep,
     EndEpisodeStep, CloseStep
<1>2. CASE Unblock
  BY <1>2, OpenEpisodeStep, CloseSubmitStep, SubmitStep, AwaitOldestStep, DrainStep DEF Unblock
<1>3. CASE Worker
  BY <1>3, WorkerTakeStep, WorkerAdvanceStep, WorkerFinishStep,
     WorkerFaultStep,
     WorkerHandlerStep DEF Worker
<1>4. CASE Closed \/ UNCHANGED vars
  BY <1>4, StutterStep DEF Closed
<1> QED BY <1>1, <1>2, <1>3, <1>4 DEF Next

\* The invariant holds in every reachable state.
THEOREM Invariant == Spec => []Inv
<1> QED BY InvInit, InvStep, PTL DEF Spec

\* Every variable keeps the shape the code gives it, for every number of
\* episodes and every queue bound.
THEOREM TypeCorrect == Spec => []TypeOK
<1>1. Inv => TypeOK
  BY DEF Inv
<1> QED BY <1>1, Invariant, PTL

\* A finalized recording_state.json vouches for the manifest, the result, the
\* accepted outcome and committed rows, at every point a crash may leave.
THEOREM FinalizedAlwaysComplete == Spec => []FinalizedIsComplete
<1>1. Inv => FinalizedIsComplete
  BY DEF Inv
<1> QED BY <1>1, Invariant, PTL

\* The simulation thread and the worker never own one artifact together, what
\* waits for the worker is on disk as it was handed over, and a verdict that
\* can be read while the finalization still runs is in all three files.
THEOREM FilesAlwaysHaveOneOwner == Spec => []FilesHaveOneOwner
<1>1. Inv => FilesHaveOneOwner
  <2> SUFFICES ASSUME Inv, NEW e \in Episodes
               PROVE  /\ future[e] # "none" => e \notin {active, deferred, submitting}
                      /\ future[e] = "queued" => marker[e] = "queued_for_finalization"
                      /\ (future[e] = "running" /\ marker[e] \in Terminal) =>
                            manifest[e] = marker[e] /\ result[e] = marker[e]
    BY DEF FilesHaveOneOwner
  <2>1. /\ future[e] # "none" => e \notin {active, deferred, submitting}
        /\ future[e] = "queued" => marker[e] = "queued_for_finalization"
    BY DEF Inv, Handed
  <2>2. ASSUME future[e] = "running", marker[e] \in Terminal
        PROVE  manifest[e] = marker[e] /\ result[e] = marker[e]
    <3>1. job = e /\ job # None /\ wstep \in WorkerSteps /\ wstep # "idle"
      BY <2>2, SessionAssumption DEF Inv, Handed, WorkerShape, TypeOK, Episodes, None
    <3>2. marker[job] \notin {"queued_for_finalization", "finalizing"}
      BY <2>2, <3>1 DEF Terminal
    <3> QED BY <3>1, <3>2 DEF Inv, WorkerShape, WorkerSteps
  <2> QED BY <2>1, <2>2
<1> QED BY <1>1, Invariant, PTL

\* What a step may do to a verdict that is on disk: nothing, unless it is the
\* handler of the finalization that wrote it and still runs.
VerdictKept(e) ==
    \/ marker'[e] = marker[e]
    \/ /\ marker[e] = "finalized" /\ marker'[e] = "failed"
       /\ future[e] = "running" /\ future'[e] = "error"

LEMMA VerdictStep ==
    ASSUME Inv, [Next]_vars, NEW e \in Episodes, marker[e] \in Terminal
    PROVE  VerdictKept(e)
<1> USE DEF Terminal, VerdictKept
<1>0. /\ TypeOK /\ Unopened /\ CallShape /\ Hands /\ Handed /\ WorkerShape
      /\ e \in 1..MaxEpisodes /\ MaxEpisodes \in Nat
  BY SessionAssumption DEF Inv, Episodes
<1>1. /\ at = "run" => active # e
      /\ submitting # e /\ deferred # e /\ (caller = "end" => active # e)
  BY <1>0 DEF CallShape, Hands, None
<1>2. wstep \in {"mark", "verify", "manifest", "result", "final"} => job # e
  BY <1>0 DEF WorkerShape
<1>m. ASSUME NEW S, e \notin S, MarkFailed(S)
      PROVE  marker'[e] = marker[e]
  BY <1>0, <1>m, MarkedFailed DEF TypeOK
<1>3. CASE CheckFinalization \/ StartEpisode \/ Record \/ CloseSubmit \/ Drain
           \/ WorkerTake \/ Closed \/ UNCHANGED vars
  BY <1>3 DEF CheckFinalization, StartEpisode, Record, CloseSubmit, Drain,
     WorkerTake, Closed, vars, disk
<1>4. CASE OpenEpisode
  <2>1. e # started + 1
    BY <1>0 DEF Unopened, Episodes, TypeOK
  <2> QED BY <1>0, <1>4, <2>1 DEF OpenEpisode, TypeOK
<1>s. ASSUME NEW requested, NEW then, at = "run", Seal(requested, then)
      PROVE  marker'[e] = marker[e]
  <2>1. \/ marker' = [marker EXCEPT ![active] = "queued_for_finalization"]
        \/ MarkFailed({active})
    BY <1>s DEF Seal
  <2>2. e # active
    BY <1>1, <1>s
  <2> QED BY <1>0, <1>m, <2>1, <2>2 DEF TypeOK, Episodes
<1>5. CASE EndEpisode
  BY <1>5, <1>s DEF EndEpisode, Callable
<1>6. CASE Close
  BY <1>6, <1>s DEF Close
<1>e. ASSUME NEW rest, Enqueue(rest) \/ Refuse(rest)
      PROVE  marker'[e] = marker[e]
  BY <1>1, <1>e, <1>m DEF Enqueue, Refuse
<1>7. CASE Submit
  BY <1>7, <1>e DEF Submit
<1>8. CASE AwaitOldest
  BY <1>8, <1>e DEF AwaitOldest
<1>9. CASE WorkerAdvance \/ WorkerFinish \/ WorkerFault
  <2>1. job # e /\ (Write \/ UNCHANGED disk)
    BY <1>2, <1>9 DEF WorkerAdvance, WorkerFinish, WorkerFault, StepAfter
  <2> QED BY <1>0, <2>1 DEF Write, WriteMarker, Verify, WriteManifest, WriteResult,
      WriteVerdict, disk, TypeOK, Episodes
<1>10. CASE WorkerHandler
  <2>1. CASE job # e
    BY <1>10, <1>m, <2>1 DEF WorkerHandler
  <2>2. CASE job = e
    <3>1. marker'[e] \in {marker[e], "failed"}
      BY <1>0, <1>10, MarkedFailed DEF WorkerHandler, TypeOK
    <3>2. future[e] = "running" /\ future'[e] = "error"
      BY <1>0, <1>10, <2>2 DEF WorkerHandler, WorkerShape, TypeOK, Episodes
    <3> QED BY <3>1, <3>2
  <2> QED BY <2>1, <2>2
<1> QED BY <1>3, <1>4, <1>5, <1>6, <1>7, <1>8, <1>9, <1>10 DEF Next, Unblock, Worker

\* A verdict stands: no handler, retry or late write of either thread replaces
\* one, but for the handler of the finalization that published "finalized" and
\* raised after it.
THEOREM VerdictsAlwaysStand == Spec => VerdictsStand
<1>1. Inv /\ [Next]_vars =>
        [\A e \in Episodes :
            /\ marker[e] = "failed" => marker'[e] = "failed"
            /\ (marker[e] = "finalized" /\ marker'[e] # "finalized") =>
                  /\ marker'[e] = "failed"
                  /\ future[e] = "running" /\ future'[e] = "error"]_vars
  <2> SUFFICES ASSUME Inv, [Next]_vars, NEW e \in Episodes
               PROVE  /\ marker[e] = "failed" => marker'[e] = "failed"
                      /\ (marker[e] = "finalized" /\ marker'[e] # "finalized") =>
                            /\ marker'[e] = "failed"
                            /\ future[e] = "running" /\ future'[e] = "error"
    OBVIOUS
  <2>1. marker[e] \in Terminal => VerdictKept(e)
    BY VerdictStep
  <2> QED BY <2>1 DEF VerdictKept, Terminal
<1> QED BY <1>1, Invariant, PTL DEF Spec, VerdictsStand

-----------------------------------------------------------------------------
(* The queue and the hands over it: the strengthened invariant             *)

\* What the simulation thread has let go of, and why it waits.
Calls ==
    /\ at \in {"close_submit", "drain", "closed"} => active = None
    /\ at \in {"drain", "closed"} => deferred = None
    /\ caller = "close" => active = None
    /\ caller = "check" => active # None /\ committed[active]
    /\ at = "await" => ~failure

\* Artifacts leave the simulation thread in the order they were opened, and
\* the newest sealed one waits for the next one's first transition.
HandsInOrder ==
    /\ active # None => active = started /\ deferred < active /\ submitting < active
    /\ \A f \in Episodes : future[f] # "none" =>
          /\ deferred # None => f < deferred
          /\ submitting # None => f < submitting
          /\ active # None /\ ~committed[active] => f + 1 < active
          /\ active = None /\ at \in {"run", "start"} => f < started

\* The queue is bounded and ordered: behind a future that is not done all are
\* queued, and what left the queue is done, older and, if it failed, noticed.
QueueShape ==
    /\ Len(pending) <= MaxPending
    /\ \A i \in 1..Len(pending) : future[pending[i]] # "none"
    /\ \A i, j \in 1..Len(pending) : i < j =>
          /\ pending[i] < pending[j]
          /\ ~Settled(pending[i]) => future[pending[j]] = "queued"
    /\ \A e \in Episodes : future[e] # "none" =>
          \/ \E i \in 1..Len(pending) : pending[i] = e
          \/ /\ Settled(e) /\ \A i \in 1..Len(pending) : e < pending[i]
             /\ future[e] = "error" => failure \/ raised

\* An artifact without its verdict is in somebody's hands, or its loss was
\* reported.
Accounted ==
    /\ \A e \in Episodes : marker[e] \notin Terminal \cup {"none"} =>
          raised \/ e \in InHands \/ future[e] = "error"
    /\ at = "closed" => pending = << >> /\ (failure => raised)

Strong == Inv /\ Calls /\ HandsInOrder /\ QueueShape /\ Accounted

\* The first k futures were done and have been popped; seen says whether a
\* failure is known now.
Acknowledged(rest, seen, k) ==
    /\ k \in 0..Len(pending) /\ rest \in Seq(Episodes)
    /\ Len(rest) = Len(pending) - k
    /\ \A i \in 1..Len(rest) : rest[i] = pending[i + k]
    /\ \A i \in 1..k : Settled(pending[i])
    /\ seen <=> failure \/ \E i \in 1..k : future[pending[i]] = "error"

\* _acknowledge without waiting pops the leading futures that are done.
LEMMA AcknowledgeLeading ==
    ASSUME TypeOK
    PROVE  /\ Acknowledged(Remaining, FailureSeen, DonePrefix)
           /\ DonePrefix < Len(pending) => ~Settled(pending[DonePrefix + 1])
<1>1. Len(pending) \in Nat /\ \A i \in 1..Len(pending) : pending[i] \in Episodes
  BY DEF TypeOK
<1>2. DonePrefix \in 0..Len(pending)
  BY DonePrefixInQueue
<1>3. /\ \A i \in 1..DonePrefix : Settled(pending[i])
      /\ DonePrefix < Len(pending) => ~Settled(pending[DonePrefix + 1])
  <2> DEFINE P(k) == /\ \A i \in 1..k : Settled(pending[i])
                     /\ k < Len(pending) => ~Settled(pending[k + 1])
  <2>1. \E k \in 0..Len(pending) : P(k)
    BY DonePrefixExists
  <2>2. DonePrefix = CHOOSE k \in 0..Len(pending) : P(k)
    BY DEF DonePrefix
  <2> HIDE DEF P
  <2>3. P(DonePrefix)
    BY <2>1, <2>2
  <2> QED BY <2>3 DEF P
<1>4. Remaining \in Seq(Episodes)
  BY QueueTypes
<1>5. /\ Len(Remaining) = Len(pending) - DonePrefix
      /\ \A i \in 1..Len(Remaining) : Remaining[i] = pending[i + DonePrefix]
  <2>1. \A i \in (DonePrefix + 1)..Len(pending) : pending[i] \in Episodes
    BY <1>1, <1>2
  <2>2. /\ Len(Remaining) = IF DonePrefix + 1 <= Len(pending)
                            THEN Len(pending) - (DonePrefix + 1) + 1 ELSE 0
        /\ \A i \in 1..Len(Remaining) : Remaining[i] = pending[(DonePrefix + 1) + i - 1]
    BY <1>1, <1>2, <2>1, SubSeqProperties DEF Remaining
  <2> QED BY <1>1, <1>2, <1>4, <2>2
<1> QED BY <1>2, <1>3, <1>4, <1>5 DEF Acknowledged, FailureSeen

\* _acknowledge(wait=True, limit=1) pops the oldest future.
LEMMA AcknowledgeOldest ==
    ASSUME TypeOK, pending # << >>, Settled(Head(pending)), ~failure
    PROVE  Acknowledged(Tail(pending), future[Head(pending)] = "error", 1)
<1>1. /\ pending \in Seq(Episodes) /\ Len(pending) \in Nat \ {0}
      /\ Head(pending) = pending[1] /\ Tail(pending) \in Seq(Episodes)
      /\ Len(Tail(pending)) = Len(pending) - 1
      /\ \A i \in 1..Len(Tail(pending)) : Tail(pending)[i] = pending[i + 1]
  BY DEF TypeOK
<1> QED BY <1>1 DEF Acknowledged

\* The drain pops them all.
LEMMA AcknowledgeAll ==
    ASSUME TypeOK, \A i \in 1..Len(pending) : Settled(pending[i])
    PROVE  Acknowledged(<< >>, failure \/ \E i \in 1..Len(pending) : future[pending[i]] = "error",
                        Len(pending))
<1>1. Len(pending) \in Nat
  BY DEF TypeOK
<1> QED BY <1>1 DEF Acknowledged

\* Popping keeps the queue in shape, when a failure that is seen is kept.
LEMMA QueuePop ==
    ASSUME TypeOK, QueueShape, NEW rest, NEW seen \in BOOLEAN, NEW k, Acknowledged(rest, seen, k),
           pending' = rest, future' = future, failure' = seen, raised => raised'
    PROVE  QueueShape'
<1> USE DEF Acknowledged
<1>1. /\ Len(pending) \in Nat /\ k \in 0..Len(pending) /\ Len(rest) \in Nat
      /\ MaxPending \in Nat
      /\ \A i \in 1..Len(rest) : i + k \in 1..Len(pending) /\ rest[i] = pending[i + k]
      /\ \A i \in 1..Len(pending) : pending[i] \in Episodes
  <2>1. Len(pending) \in Nat /\ \A i \in 1..Len(pending) : pending[i] \in Episodes
    BY DEF TypeOK
  <2>2. k \in 0..Len(pending) /\ Len(rest) = Len(pending) - k /\ MaxPending \in Nat
    BY SessionAssumption
  <2>3. \A i \in 1..Len(rest) : i + k \in 1..Len(pending)
    BY <2>1, <2>2
  <2> QED BY <2>1, <2>2, <2>3
<1>2. Len(rest) <= MaxPending
  BY <1>1 DEF QueueShape
<1>3. \A i \in 1..Len(rest) : future[rest[i]] # "none"
  BY <1>1 DEF QueueShape
<1>4. ASSUME NEW i \in 1..Len(rest), NEW j \in 1..Len(rest), i < j
      PROVE  rest[i] < rest[j] /\ (~Settled(rest[i]) => future[rest[j]] = "queued")
  <2>1. i + k \in 1..Len(pending) /\ j + k \in 1..Len(pending) /\ i + k < j + k
    BY <1>1, <1>4
  <2>2. /\ pending[i + k] < pending[j + k]
        /\ ~Settled(pending[i + k]) => future[pending[j + k]] = "queued"
    BY <2>1 DEF QueueShape
  <2> QED BY <1>1, <2>2
<1>5. ASSUME NEW e \in Episodes, future[e] # "none"
      PROVE  \/ \E i \in 1..Len(rest) : rest[i] = e
             \/ /\ Settled(e) /\ \A i \in 1..Len(rest) : e < rest[i]
                /\ future[e] = "error" => failure' \/ raised'
  <2>1. CASE \E i \in 1..Len(pending) : pending[i] = e
    <3>1. PICK i \in 1..Len(pending) : pending[i] = e
      BY <2>1
    <3>2. CASE i <= k
      <4>0. i \in 1..k
        BY <1>1, <3>2
      <4>1. Settled(e) /\ (future[e] = "error" => seen)
        BY <3>1, <4>0
      <4>2. \A j \in 1..Len(rest) : e < rest[j]
        <5> SUFFICES ASSUME NEW j \in 1..Len(rest)
                     PROVE  e < rest[j]
          OBVIOUS
        <5>1. j + k \in 1..Len(pending) /\ i < j + k /\ rest[j] = pending[j + k]
          BY <1>1, <3>2
        <5> QED BY <3>1, <5>1 DEF QueueShape
      <4> QED BY <4>1, <4>2
    <3>3. CASE i > k
      <4>1. i - k \in 1..Len(rest) /\ (i - k) + k = i
        BY <1>1, <3>3
      <4> QED BY <1>1, <3>1, <4>1
    <3> QED BY <1>1, <3>2, <3>3
  <2>2. CASE ~\E i \in 1..Len(pending) : pending[i] = e
    BY <1>1, <1>5, <2>2 DEF QueueShape
  <2> QED BY <2>1, <2>2
<1> QED BY <1>2, <1>3, <1>4, <1>5 DEF QueueShape, Settled

\* So does handing over an episode younger than every earlier future.
LEMMA QueuePush ==
    ASSUME TypeOK, QueueShape, NEW rest, NEW seen \in BOOLEAN, NEW k, Acknowledged(rest, seen, k),
           Len(rest) < MaxPending, NEW s \in Episodes,
           \A f \in Episodes : future[f] # "none" => f < s,
           pending' = Append(rest, s), future' = [future EXCEPT ![s] = "queued"],
           failure' = seen, raised => raised'
    PROVE  QueueShape'
<1> USE DEF Acknowledged
<1>1. /\ Len(pending) \in Nat /\ k \in 0..Len(pending) /\ Len(rest) \in Nat
      /\ MaxPending \in Nat
      /\ \A i \in 1..Len(rest) : i + k \in 1..Len(pending) /\ rest[i] = pending[i + k]
      /\ \A i \in 1..Len(pending) : pending[i] \in Episodes
  BY SessionAssumption DEF TypeOK
<1>2. /\ Len(pending') = Len(rest) + 1 /\ pending'[Len(rest) + 1] = s
      /\ \A i \in 1..Len(rest) : pending'[i] = rest[i]
  <2>1. rest \in Seq(Episodes)
    OBVIOUS
  <2>2. pending' = Append(rest, s)
    OBVIOUS
  <2> HIDE DEF Acknowledged
  <2>3. /\ Len(Append(rest, s)) = Len(rest) + 1 /\ Append(rest, s)[Len(rest) + 1] = s
        /\ \A i \in 1..Len(rest) : Append(rest, s)[i] = rest[i]
    BY <2>1, AppendProperties
  <2> QED BY <2>2, <2>3
<1>3. /\ s \in Nat /\ Episodes \subseteq Nat /\ future[s] = "none"
      /\ \A e \in Episodes : future'[e] = IF e = s THEN "queued" ELSE future[e]
  BY SessionAssumption DEF Episodes, TypeOK
<1>4. ASSUME NEW i \in 1..Len(rest)
      PROVE  rest[i] \in Episodes /\ future[rest[i]] # "none" /\ rest[i] # s /\ rest[i] < s
  <2>1. pending[i + k] \in Episodes /\ future[pending[i + k]] # "none"
    BY <1>1 DEF QueueShape
  <2> QED BY <1>1, <1>3, <2>1
<1> HIDE DEF Acknowledged
<1>5. Len(pending') <= MaxPending
  BY <1>1, <1>2
<1>6. \A i \in 1..Len(pending') : future'[pending'[i]] # "none"
  BY <1>1, <1>2, <1>3, <1>4
<1>7. ASSUME NEW i \in 1..Len(pending'), NEW j \in 1..Len(pending'), i < j
      PROVE  /\ pending'[i] < pending'[j]
             /\ ~(future'[pending'[i]] \in {"done", "error"}) => future'[pending'[j]] = "queued"
  <2>1. i \in 1..Len(rest) /\ pending'[i] = rest[i]
    BY <1>1, <1>2, <1>7
  <2>2. CASE j = Len(rest) + 1
    BY <1>2, <1>3, <1>4, <2>1, <2>2
  <2>3. CASE j \in 1..Len(rest)
    <3>1. /\ i + k \in 1..Len(pending) /\ j + k \in 1..Len(pending) /\ i + k < j + k
          /\ rest[i] = pending[i + k] /\ rest[j] = pending[j + k]
      BY <1>1, <1>7, <2>1, <2>3
    <3>2. /\ rest[i] < rest[j]
          /\ ~Settled(rest[i]) => future[rest[j]] = "queued"
      BY <3>1 DEF QueueShape
    <3>3. /\ pending'[j] = rest[j]
          /\ future'[rest[i]] = future[rest[i]] /\ future'[rest[j]] = future[rest[j]]
      BY <1>2, <1>3, <1>4, <2>1, <2>3
    <3> QED BY <2>1, <3>2, <3>3 DEF Settled
  <2> QED BY <1>1, <1>2, <2>2, <2>3
<1>8. ASSUME NEW e \in Episodes, future'[e] # "none"
      PROVE  \/ \E i \in 1..Len(pending') : pending'[i] = e
             \/ /\ future'[e] \in {"done", "error"}
                /\ \A i \in 1..Len(pending') : e < pending'[i]
                /\ future'[e] = "error" => failure' \/ raised'
  <2>1. CASE e = s
    BY <1>1, <1>2, <2>1
  <2>2. CASE e # s
    <3>1. future'[e] = future[e] /\ future[e] # "none" /\ e < s
      BY <1>3, <1>8, <2>2
    <3>2. CASE \E i \in 1..Len(pending) : pending[i] = e
      <4>1. PICK i \in 1..Len(pending) : pending[i] = e
        BY <3>2
      <4>2. CASE i <= k
        <5>0. i \in 1..k
          BY <1>1, <4>2
        <5>1. future[e] \in {"done", "error"} /\ (future[e] = "error" => seen)
          BY <4>1, <5>0 DEF Acknowledged, Settled
        <5>2. \A j \in 1..Len(rest) : e < rest[j]
          BY <1>1, <4>1, <4>2 DEF QueueShape
        <5> QED BY <1>1, <1>2, <3>1, <5>1, <5>2
      <4>3. CASE i > k
        <5>1. i - k \in 1..Len(rest) /\ (i - k) + k = i
          <6>1. Len(rest) = Len(pending) - k
            BY DEF Acknowledged
          <6> QED BY <1>1, <4>3, <6>1
        <5>2. rest[i - k] = e
          BY <1>1, <4>1, <5>1
        <5>3. i - k \in 1..Len(pending') /\ pending'[i - k] = e
          BY <1>1, <1>2, <5>1, <5>2
        <5> QED BY <5>3
      <4> QED BY <1>1, <4>2, <4>3
    <3>3. CASE ~\E i \in 1..Len(pending) : pending[i] = e
      <4>1. /\ future[e] \in {"done", "error"}
            /\ \A i \in 1..Len(pending) : e < pending[i]
            /\ future[e] = "error" => failure \/ raised
        BY <3>1, <3>3 DEF QueueShape, Settled
      <4>2. future[e] = "error" => failure' \/ raised'
        BY <4>1 DEF Acknowledged
      <4> QED BY <1>1, <1>2, <3>1, <4>1, <4>2
    <3> QED BY <3>2, <3>3
  <2> QED BY <2>1, <2>2
<1> QED BY <1>5, <1>6, <1>7, <1>8 DEF QueueShape, Settled
-----------------------------------------------------------------------------
(* Every step keeps the strengthened invariant                            *)

\* The queue does not see a step of the simulation thread outside it.
LEMMA QueueFrame ==
    ASSUME QueueShape, UNCHANGED <<pending, future, failure>>, raised => raised'
    PROVE  QueueShape'
BY DEF QueueShape, Settled

\* Polling pops the done futures and may stage an artifact for the worker.
LEMMA CheckFinalizationKeeps ==
    ASSUME Strong, CheckFinalization
    PROVE  (Calls /\ HandsInOrder /\ QueueShape /\ Accounted)'
<1> USE SessionAssumption DEF Episodes, None, CheckFinalization, Callable,
    StagedMayGo, Acknowledge, worker, disk
<1>0. TypeOK /\ Unopened /\ CallShape /\ Hands /\ Handed /\ WorkerShape
      /\ Calls /\ HandsInOrder /\ QueueShape /\ Accounted
  BY DEF Strong, Inv
<1>a. Acknowledged(Remaining, FailureSeen, DonePrefix) /\ FailureSeen \in BOOLEAN
  BY <1>0, AcknowledgeLeading DEF FailureSeen, TypeOK
<1>1. Calls'
  BY <1>0, <1>a DEF Calls, CallShape, TypeOK, MainPoints
<1>2. HandsInOrder'
  BY <1>0, <1>a DEF HandsInOrder, Calls, CallShape, Hands, Handed, Unopened, TypeOK
<1>3. QueueShape'
  <2>1. /\ pending' = Remaining /\ failure' = FailureSeen /\ future' = future
        /\ raised => raised'
    BY <1>0
  <2> QED BY <1>0, <1>a, <2>1, QueuePop
<1>4. Accounted'
  BY <1>0, <1>a DEF Accounted, InHands, Calls, CallShape, Unopened, TypeOK, Terminal, MarkerStates
<1> QED BY <1>1, <1>2, <1>3, <1>4

\* The check of start_episode pops the done futures.
LEMMA StartEpisodeKeeps ==
    ASSUME Strong, StartEpisode
    PROVE  (Calls /\ HandsInOrder /\ QueueShape /\ Accounted)'
<1> USE SessionAssumption DEF Episodes, None, StartEpisode, Callable,
    BetweenEpisodes, Acknowledge, main, worker, disk
<1>0. TypeOK /\ Unopened /\ CallShape /\ Hands /\ Handed /\ WorkerShape
      /\ Calls /\ HandsInOrder /\ QueueShape /\ Accounted
  BY DEF Strong, Inv
<1>a. Acknowledged(Remaining, FailureSeen, DonePrefix) /\ FailureSeen \in BOOLEAN
  BY <1>0, AcknowledgeLeading DEF FailureSeen, TypeOK
<1>1. Calls'
  BY <1>0, <1>a DEF Calls, CallShape, TypeOK, MainPoints
<1>2. HandsInOrder'
  BY <1>0, <1>a DEF HandsInOrder, Calls, CallShape, Hands, Handed, Unopened, TypeOK
<1>3. QueueShape'
  <2>1. /\ pending' = Remaining /\ failure' = FailureSeen /\ future' = future
        /\ raised => raised'
    BY <1>0
  <2> QED BY <1>0, <1>a, <2>1, QueuePop
<1>4. Accounted'
  BY <1>0, <1>a DEF Accounted, InHands, Calls, CallShape, Unopened, TypeOK, Terminal, MarkerStates
<1> QED BY <1>1, <1>2, <1>3, <1>4

\* A new episode is younger than everything the worker was given.
LEMMA OpenEpisodeKeeps ==
    ASSUME Strong, OpenEpisode
    PROVE  (Calls /\ HandsInOrder /\ QueueShape /\ Accounted)'
<1> USE SessionAssumption DEF Episodes, None, OpenEpisode, queue, worker
<1>0. TypeOK /\ Unopened /\ CallShape /\ Hands /\ Handed /\ WorkerShape
      /\ Calls /\ HandsInOrder /\ QueueShape /\ Accounted
  BY DEF Strong, Inv
<1>1. Calls'
  BY <1>0 DEF Calls, CallShape, TypeOK, MainPoints
<1>2. HandsInOrder'
  BY <1>0 DEF HandsInOrder, Calls, CallShape, Hands, Handed, Unopened, TypeOK
<1>3. QueueShape'
  <2>1. UNCHANGED <<pending, future, failure>> /\ (raised => raised')
    BY <1>0 DEF TypeOK
  <2> QED BY <1>0, <2>1, QueueFrame
<1>4. Accounted'
  <2>1. active = None /\ at' # "closed" /\ UNCHANGED <<future, deferred, submitting>>
    BY <1>0 DEF CallShape
  <2>2. \/ raised' /\ active' = active
        \/ active' = started + 1 /\ raised' = raised
    OBVIOUS
  <2>3. \A e \in Episodes : e # started + 1 => marker'[e] = marker[e]
    BY <1>0 DEF TypeOK
  <2> QED BY <1>0, <2>1, <2>2, <2>3 DEF Accounted, InHands
<1> QED BY <1>1, <1>2, <1>3, <1>4

\* Recording only adds rows.
LEMMA RecordKeeps ==
    ASSUME Strong, Record
    PROVE  (Calls /\ HandsInOrder /\ QueueShape /\ Accounted)'
<1> USE SessionAssumption DEF Episodes, None, Record, Callable, queue, worker, disk
<1>0. TypeOK /\ Unopened /\ CallShape /\ Hands /\ Handed /\ WorkerShape
      /\ Calls /\ HandsInOrder /\ QueueShape /\ Accounted
  BY DEF Strong, Inv
<1>1. Calls'
  BY <1>0 DEF Calls, CallShape, TypeOK, MainPoints
<1>2. HandsInOrder'
  BY <1>0 DEF HandsInOrder, Calls, CallShape, Hands, Handed, Unopened, TypeOK
<1>3. QueueShape'
  <2>1. UNCHANGED <<pending, future, failure>> /\ (raised => raised')
    BY <1>0 DEF TypeOK
  <2> QED BY <1>0, <2>1, QueueFrame
<1>4. Accounted'
  BY <1>0 DEF Accounted, InHands, Calls, CallShape, Unopened, TypeOK, Terminal, MarkerStates
<1> QED BY <1>1, <1>2, <1>3, <1>4

\* Sealing passes the active episode on to the stage, to submit or to failed.
LEMMA SealKeeps ==
    ASSUME Strong, NEW requested \in Requested, NEW then \in {"run", "close_submit"},
           at = "run", active # None, Seal(requested, then), then = "run" \/ closing',
           closing => closing', then = "run" => ~raised,
           UNCHANGED <<started, committed, queue, worker, manifest, result>>
    PROVE  (Calls /\ HandsInOrder /\ QueueShape /\ Accounted)'
<1> USE SessionAssumption DEF Episodes, None, Seal, ObserveQueue, queue, worker
<1>0. TypeOK /\ Unopened /\ CallShape /\ Hands /\ Handed /\ WorkerShape
      /\ Calls /\ HandsInOrder /\ QueueShape /\ Accounted
  BY DEF Strong, Inv
<1>1. Calls'
  BY <1>0 DEF Calls, CallShape, TypeOK, MainPoints
<1>2. HandsInOrder'
  <2>1. /\ active = started /\ active \in Episodes /\ submitting = None
        /\ deferred \in Nat /\ deferred < active
    BY <1>0 DEF HandsInOrder, CallShape, TypeOK
  <2>2. \A f \in Episodes : future[f] # "none" => f < active
    BY <1>0, <2>1 DEF Unopened, Handed, TypeOK
  <2>3. /\ future' = future /\ started' = started /\ committed' = committed
        /\ \/ active' = None /\ submitting' = None /\ deferred' \in {deferred, active}
           \/ active' = active /\ submitting' = deferred /\ deferred' = None
    BY <2>1
  <2> QED BY <1>0, <2>1, <2>2, <2>3 DEF HandsInOrder
<1>3. QueueShape'
  <2>1. UNCHANGED <<pending, future, failure>> /\ (raised => raised')
    BY <1>0 DEF TypeOK
  <2> QED BY <1>0, <2>1, QueueFrame
<1>4. Accounted'
  <2>1. \A e \in Episodes : e # active => marker'[e] = marker[e]
    BY <1>0 DEF TypeOK, MarkFailed
  <2>2. at' # "closed" /\ (raised => raised') /\ future' = future
    BY <1>0 DEF TypeOK
  <2>3. raised' \/ \A e \in Episodes : e \in InHands => e \in InHands'
    BY <1>0, <2>2 DEF InHands, CallShape
  <2>4. active \in InHands
    BY DEF InHands
  <2>5. \A e \in Episodes : raised' \/ e \in InHands' \/ marker'[e] = marker[e]
    BY <2>1, <2>3, <2>4
  <2> QED BY <1>0, <2>2, <2>3, <2>5 DEF Accounted
<1> QED BY <1>1, <1>2, <1>3, <1>4

\* Closing without an active episode goes on to the staged artifact.
LEMMA CloseIdleKeeps ==
    ASSUME Strong, Close, active = None
    PROVE  (Calls /\ HandsInOrder /\ QueueShape /\ Accounted)'
<1> USE SessionAssumption DEF Episodes, None, Close, queue, worker
<1>0. TypeOK /\ Unopened /\ CallShape /\ Hands /\ Handed /\ WorkerShape
      /\ Calls /\ HandsInOrder /\ QueueShape /\ Accounted
  BY DEF Strong, Inv
<1>1. Calls'
  BY <1>0 DEF Calls, CallShape, TypeOK, MainPoints
<1>2. HandsInOrder'
  BY <1>0 DEF HandsInOrder, Calls, CallShape, Hands, Handed, Unopened, TypeOK
<1>3. QueueShape'
  <2>1. UNCHANGED <<pending, future, failure>> /\ (raised => raised')
    BY <1>0 DEF TypeOK
  <2> QED BY <1>0, <2>1, QueueFrame
<1>4. Accounted'
  BY <1>0 DEF Accounted, InHands, Calls, CallShape, Unopened, TypeOK, Terminal, MarkerStates
<1> QED BY <1>1, <1>2, <1>3, <1>4

\* Closing submits the staged artifact, or finds none.
LEMMA CloseSubmitKeeps ==
    ASSUME Strong, CloseSubmit
    PROVE  (Calls /\ HandsInOrder /\ QueueShape /\ Accounted)'
<1> USE SessionAssumption DEF Episodes, None, CloseSubmit, queue, worker, disk
<1>0. TypeOK /\ Unopened /\ CallShape /\ Hands /\ Handed /\ WorkerShape
      /\ Calls /\ HandsInOrder /\ QueueShape /\ Accounted
  BY DEF Strong, Inv
<1>1. Calls'
  BY <1>0 DEF Calls, CallShape, TypeOK, MainPoints
<1>2. HandsInOrder'
  BY <1>0 DEF HandsInOrder, Calls, CallShape, Hands, Handed, Unopened, TypeOK
<1>3. QueueShape'
  <2>1. UNCHANGED <<pending, future, failure>> /\ (raised => raised')
    BY <1>0 DEF TypeOK
  <2> QED BY <1>0, <2>1, QueueFrame
<1>4. Accounted'
  BY <1>0 DEF Accounted, InHands, Calls, CallShape, Unopened, TypeOK, Terminal, MarkerStates
<1> QED BY <1>1, <1>2, <1>3, <1>4

\* What the executor accepts is younger than all it was given before.
LEMMA EnqueueKeeps ==
    ASSUME Strong, NEW rest, NEW seen \in BOOLEAN, NEW k, Acknowledged(rest, seen, k),
           submitting # None, failure' = seen,
           Len(rest) < MaxPending, Enqueue(rest),
           UNCHANGED <<started, committed, faulty, outcome, closing, job, wstep, manifest, result>>
    PROVE  (Calls /\ HandsInOrder /\ QueueShape /\ Accounted)'
<1> USE SessionAssumption DEF Episodes, None, Enqueue
<1>0. TypeOK /\ Unopened /\ CallShape /\ Hands /\ Handed /\ WorkerShape
      /\ Calls /\ HandsInOrder /\ QueueShape /\ Accounted
  BY DEF Strong, Inv
<1>s. submitting \in Episodes /\ ReturnPoint \in {"run", "close_submit", "drain"} /\ deferred = None
  BY <1>0 DEF TypeOK, CallShape, ReturnPoint
<1>1. Calls'
  BY <1>0, <1>s DEF Calls, CallShape, TypeOK, ReturnPoint
<1>2. HandsInOrder'
  <2>1. \A f \in Episodes : future'[f] = IF f = submitting THEN "queued" ELSE future[f]
    BY <1>0, <1>s DEF TypeOK
  <2>2. \A f \in Episodes : future'[f] # "none" => f <= submitting
    BY <1>0, <1>s, <2>1 DEF HandsInOrder, TypeOK
  <2>3. CASE caller = "end"
    <3>1. /\ active = started /\ submitting < active /\ active \in Episodes
          /\ active' = None /\ submitting' = None /\ deferred' = active /\ started' = started
      BY <1>0, <1>s, <2>3 DEF HandsInOrder, CallShape, TypeOK
    <3> QED BY <1>s, <2>2, <3>1 DEF HandsInOrder, TypeOK
  <2>4. CASE caller = "check"
    <3>1. /\ active # None /\ committed[active] /\ active' = active /\ submitting' = None
          /\ deferred' = None /\ started' = started /\ committed' = committed
      BY <1>0, <1>s, <2>4 DEF Calls
    <3> QED BY <1>0, <1>s, <2>2, <3>1 DEF HandsInOrder, TypeOK
  <2>5. CASE caller = "close"
    <3>1. active' = None /\ submitting' = None /\ deferred' = None /\ at' = "drain"
      BY <1>0, <1>s, <2>5 DEF Calls, ReturnPoint
    <3> QED BY <3>1 DEF HandsInOrder
  <2> QED BY <1>0, <1>s, <2>3, <2>4, <2>5 DEF CallShape, TypeOK
<1>3. QueueShape'
  <2>1. \A f \in Episodes : future[f] # "none" => f < submitting
    BY <1>0, <1>s DEF HandsInOrder
  <2>2. raised => raised'
    BY <1>0 DEF ObserveQueue, TypeOK
  <2> QED BY <1>0, <1>s, <2>1, <2>2, QueuePush
<1>4. Accounted'
  <2>1. /\ \A f \in Episodes : future'[f] = IF f = submitting THEN "queued" ELSE future[f]
        /\ marker' = marker /\ at' # "closed" /\ (raised => raised')
    BY <1>0, <1>s DEF TypeOK, ObserveQueue
  <2>2. \A e \in Episodes : e \in InHands => e \in InHands'
    BY <1>0, <1>s, <2>1 DEF InHands
  <2> QED BY <1>0, <1>s, <2>1, <2>2 DEF Accounted, InHands
<1> QED BY <1>1, <1>2, <1>3, <1>4

\* A refusal is reported, and lets the artifact go.
LEMMA RefuseKeeps ==
    ASSUME Strong, NEW rest, NEW seen \in BOOLEAN, NEW k, Acknowledged(rest, seen, k),
           submitting # None, failure' = seen,
           Refuse(rest),
           UNCHANGED <<started, committed, faulty, outcome, closing, job, wstep, manifest, result>>
    PROVE  (Calls /\ HandsInOrder /\ QueueShape /\ Accounted)'
<1> USE SessionAssumption DEF Episodes, None, Refuse
<1>0. TypeOK /\ Unopened /\ CallShape /\ Hands /\ Handed /\ WorkerShape
      /\ Calls /\ HandsInOrder /\ QueueShape /\ Accounted
  BY DEF Strong, Inv
<1>s. submitting \in Episodes /\ ReturnPoint \in {"run", "close_submit", "drain"} /\ deferred = None
  BY <1>0 DEF TypeOK, CallShape, ReturnPoint
<1>1. Calls'
  BY <1>0, <1>s DEF Calls, CallShape, TypeOK, ReturnPoint
<1>2. HandsInOrder'
  <2>1. /\ future' = future /\ started' = started /\ committed' = committed
        /\ deferred' = None /\ submitting' = None
        /\ active' = IF caller = "end" THEN None ELSE active
    BY <1>s
  <2>2. caller # "end" /\ active = None => at' # "run"
    BY <1>0 DEF Calls, CallShape, ReturnPoint, TypeOK
  <2>3. caller = "end" => \A f \in Episodes : future[f] # "none" => f < started
    BY <1>0, <1>s DEF HandsInOrder, CallShape, TypeOK
  <2>4. (active' = None /\ at' \in {"run", "start"}) =>
           \A f \in Episodes : future[f] # "none" => f < started
    <3>1. CASE caller = "end"
      BY <2>3, <3>1
    <3>2. CASE caller # "end"
      <4>1. ~(active = None /\ at' = "run") /\ at' # "start"
        BY <1>0, <1>s, <2>2, <3>2
      <4> QED BY <2>1, <3>2, <4>1
    <3> QED BY <3>1, <3>2
  <2>5. active' # None => active' = active /\ caller # "end"
    BY <2>1
  <2>6. active # None => active \in Nat /\ None < active
    BY <1>0 DEF TypeOK
  <2> HIDE DEF Refuse
  <2> QED BY <1>0, <2>1, <2>4, <2>5, <2>6 DEF HandsInOrder
<1>3. QueueShape'
  <2>1. future' = future /\ raised'
    OBVIOUS
  <2> QED BY <1>0, <2>1, QueuePop
<1>4. Accounted'
  BY <1>s DEF Accounted
<1> QED BY <1>1, <1>2, <1>3, <1>4

\* Submitting enqueues below the bound, refuses, or waits.
LEMMA SubmitKeeps ==
    ASSUME Strong, Submit
    PROVE  (Calls /\ HandsInOrder /\ QueueShape /\ Accounted)'
<1> USE SessionAssumption DEF Episodes, None
<1>0. TypeOK /\ CallShape /\ Calls /\ HandsInOrder /\ QueueShape /\ Accounted
  BY DEF Strong, Inv
<1>1. /\ submitting # None /\ FailureSeen \in BOOLEAN /\ failure' = FailureSeen
      /\ Acknowledged(Remaining, FailureSeen, DonePrefix)
      /\ UNCHANGED <<started, committed, faulty, outcome, closing, job, wstep,
                     manifest, result>>
  BY <1>0, AcknowledgeLeading DEF CallShape, Submit, FailureSeen, TypeOK
<1>2. CASE Len(Remaining) < MaxPending /\ Enqueue(Remaining)
  BY <1>1, <1>2, EnqueueKeeps
<1>3. CASE Refuse(Remaining)
  BY <1>1, <1>3, RefuseKeeps
<1>4. CASE /\ ~FailureSeen /\ pending' = Remaining /\ at' = "await"
           /\ UNCHANGED <<active, deferred, submitting, caller, raised, future, marker>>
  <2>1. Calls'
    BY <1>0, <1>1, <1>4 DEF Calls
  <2>2. HandsInOrder'
    BY <1>0, <1>1, <1>4 DEF HandsInOrder
  <2>3. QueueShape'
    BY <1>0, <1>1, <1>4, QueuePop
  <2>4. Accounted'
    BY <1>0, <1>1, <1>4 DEF Accounted, InHands
  <2> QED BY <2>1, <2>2, <2>3, <2>4
<1> QED BY <1>2, <1>3, <1>4 DEF Submit

\* A submit that waited has room by the slot of the oldest future.
LEMMA AwaitOldestKeeps ==
    ASSUME Strong, AwaitOldest
    PROVE  (Calls /\ HandsInOrder /\ QueueShape /\ Accounted)'
<1> USE SessionAssumption DEF Episodes, None
<1>0. TypeOK /\ CallShape /\ Calls /\ QueueShape
  BY DEF Strong, Inv
<1> DEFINE seen == future[Head(pending)] = "error"
<1>1. /\ submitting # None /\ pending # << >> /\ seen \in BOOLEAN /\ failure' = seen
      /\ Acknowledged(Tail(pending), seen, 1)
      /\ UNCHANGED <<started, committed, faulty, outcome, closing, job, wstep,
                     manifest, result>>
  BY <1>0, AcknowledgeOldest DEF CallShape, Calls, AwaitOldest
<1>2. Len(Tail(pending)) < MaxPending
  <2>1. Len(pending) \in Nat \ {0} /\ Len(Tail(pending)) = Len(pending) - 1
    BY <1>0, <1>1 DEF TypeOK
  <2> QED BY <1>0, <2>1 DEF QueueShape
<1> HIDE DEF seen
<1>3. CASE Enqueue(Tail(pending))
  BY <1>1, <1>2, <1>3, EnqueueKeeps
<1>4. CASE Refuse(Tail(pending))
  BY <1>1, <1>4, RefuseKeeps
<1> QED BY <1>3, <1>4 DEF AwaitOldest

\* The drain empties a queue that is done, and reports its failures.
LEMMA DrainKeeps ==
    ASSUME Strong, Drain
    PROVE  (Calls /\ HandsInOrder /\ QueueShape /\ Accounted)'
<1> USE SessionAssumption DEF Episodes, None, Drain, main, worker, disk
<1>0. TypeOK /\ Unopened /\ CallShape /\ Hands /\ Handed /\ WorkerShape
      /\ Calls /\ HandsInOrder /\ QueueShape /\ Accounted
  BY DEF Strong, Inv
<1>1. Calls'
  BY <1>0 DEF Calls, CallShape, TypeOK, MainPoints
<1>2. HandsInOrder'
  BY <1>0 DEF HandsInOrder, Calls, CallShape, Hands, Handed, Unopened, TypeOK
<1>3. QueueShape'
  <2> DEFINE seen == failure \/ \E i \in 1..Len(pending) : future[pending[i]] = "error"
  <2>1. Acknowledged(<< >>, seen, Len(pending)) /\ seen \in BOOLEAN
    BY <1>0, AcknowledgeAll DEF TypeOK
  <2>2. pending' = << >> /\ failure' = seen /\ future' = future /\ (raised => raised')
    OBVIOUS
  <2> HIDE DEF seen
  <2> QED BY <1>0, <2>1, <2>2, QueuePop
<1>4. Accounted'
  BY <1>0 DEF Accounted, InHands, Calls, CallShape, Unopened, TypeOK, Terminal, MarkerStates
<1> QED BY <1>1, <1>2, <1>3, <1>4

\* The worker settles a future behind which all are queued.
LEMMA QueueSettle ==
    ASSUME TypeOK, QueueShape, NEW e \in Episodes, future[e] = "running",
           \A f \in Episodes : f # e => future'[f] = future[f],
           future'[e] \in {"done", "error"}, UNCHANGED <<pending, failure, raised>>
    PROVE  QueueShape'
<1>1. Len(pending) \in Nat /\ \A i \in 1..Len(pending) : pending[i] \in Episodes
  BY DEF TypeOK
<1>2. \A i \in 1..Len(pending) : future'[pending[i]] # "none"
  BY <1>1 DEF QueueShape
<1>3. ASSUME NEW i \in 1..Len(pending), NEW j \in 1..Len(pending), i < j
      PROVE  /\ pending[i] < pending[j]
             /\ ~Settled(pending[i])' => future'[pending[j]] = "queued"
  <2>1. /\ pending[i] < pending[j]
        /\ ~Settled(pending[i]) => future[pending[j]] = "queued"
    BY <1>3 DEF QueueShape
  <2> QED BY <1>1, <2>1 DEF Settled
<1>4. ASSUME NEW f \in Episodes, future'[f] # "none"
      PROVE  \/ \E i \in 1..Len(pending) : pending[i] = f
             \/ /\ Settled(f)' /\ \A i \in 1..Len(pending) : f < pending[i]
                /\ future'[f] = "error" => failure \/ raised
  <2>1. CASE f = e
    BY <2>1 DEF QueueShape, Settled
  <2>2. CASE f # e
    BY <1>4, <2>2 DEF QueueShape, Settled
  <2> QED BY <2>1, <2>2
<1> QED BY <1>2, <1>3, <1>4 DEF QueueShape

\* The worker takes the oldest queued future, with none running.
LEMMA WorkerTakeKeeps ==
    ASSUME Strong, WorkerTake
    PROVE  (Calls /\ HandsInOrder /\ QueueShape /\ Accounted)'
<1> USE SessionAssumption DEF Episodes, None, WorkerTake, main, call, queue, disk
<1>0. TypeOK /\ Unopened /\ CallShape /\ Hands /\ Handed /\ WorkerShape
      /\ Calls /\ HandsInOrder /\ QueueShape /\ Accounted
  BY DEF Strong, Inv
<1>p. PICK i \in 1..Len(pending) :
          /\ future[pending[i]] = "queued"
          /\ \A k \in 1..(i - 1) : future[pending[k]] # "queued"
          /\ future' = [future EXCEPT ![pending[i]] = "running"]
  OBVIOUS
<1>w. /\ Len(pending) \in Nat /\ \A k \in 1..Len(pending) : pending[k] \in Episodes
      /\ \A f \in Episodes : future'[f] = IF f = pending[i] THEN "running" ELSE future[f]
  BY <1>0, <1>p DEF TypeOK
<1>1. Calls'
  BY <1>0 DEF Calls
<1>2. HandsInOrder'
  <2>1. \A f \in Episodes : future'[f] # "none" => future[f] # "none"
    BY <1>p, <1>w
  <2>2. UNCHANGED <<active, started, deferred, submitting, committed, at>>
    OBVIOUS
  <2> QED BY <1>0, <2>1, <2>2 DEF HandsInOrder
<1>3. QueueShape'
  <2>1. \A k \in 1..(i - 1) : Settled(pending[k])
    <3>1. \A f \in Episodes : future[f] # "running"
      BY <1>0 DEF Handed, WorkerShape, TypeOK
    <3>2. TAKE k \in 1..(i - 1)
    <3>3. pending[k] \in Episodes /\ future[pending[k]] # "none" /\ future[pending[k]] # "queued"
      BY <1>0, <1>p, <1>w DEF QueueShape
    <3> QED BY <1>0, <3>1, <3>3 DEF Settled, TypeOK
  <2>2. \A k \in 1..Len(pending) : future'[pending[k]] # "none"
    BY <1>0, <1>w DEF QueueShape
  <2>3. ASSUME NEW k \in 1..Len(pending), NEW j \in 1..Len(pending), k < j
        PROVE  /\ pending[k] < pending[j]
               /\ ~Settled(pending[k])' => future'[pending[j]] = "queued"
    <3>1. /\ pending[k] < pending[j]
          /\ ~Settled(pending[k]) => future[pending[j]] = "queued"
      BY <1>0, <2>3 DEF QueueShape
    <3>2. CASE j = i
      BY <1>p, <1>w, <2>1, <2>3, <3>1, <3>2 DEF Settled
    <3>3. CASE j # i
      <4>1. pending[j] # pending[i]
        BY <1>0, <1>w, <3>3 DEF QueueShape
      <4> QED BY <1>p, <1>w, <3>1, <4>1 DEF Settled
    <3> QED BY <3>2, <3>3
  <2>4. ASSUME NEW f \in Episodes, future'[f] # "none"
        PROVE  \/ \E k \in 1..Len(pending) : pending[k] = f
               \/ /\ Settled(f)' /\ \A k \in 1..Len(pending) : f < pending[k]
                  /\ future'[f] = "error" => failure \/ raised
    BY <1>0, <1>p, <1>w, <2>4 DEF QueueShape, Settled
  <2> QED BY <1>0, <2>2, <2>3, <2>4 DEF QueueShape
<1>4. Accounted'
  <2>1. \A e \in Episodes : e \in InHands => e \in InHands'
    BY <1>p, <1>w DEF InHands
  <2> QED BY <1>0, <1>p, <1>w, <2>1 DEF Accounted
<1> QED BY <1>1, <1>2, <1>3, <1>4

\* The body of finalize_sealed_episode touches the files only.
LEMMA WorkerBodyKeeps ==
    ASSUME Strong, WorkerAdvance \/ WorkerFault
    PROVE  (Calls /\ HandsInOrder /\ QueueShape /\ Accounted)'
<1> USE SessionAssumption DEF Episodes, None
<1>0. TypeOK /\ Unopened /\ CallShape /\ Hands /\ Handed /\ WorkerShape
      /\ Calls /\ HandsInOrder /\ QueueShape /\ Accounted
  BY DEF Strong, Inv
<1>n. wstep # "idle"
  BY DEF WorkerAdvance, WorkerFault, StepAfter
<1>w. /\ job \in Episodes /\ future[job] = "running"
      /\ job # active /\ job # deferred /\ job # submitting
  BY <1>0, <1>n DEF WorkerShape, Handed, TypeOK
<1> USE DEF WorkerAdvance, WorkerFault, main, call, queue
<1>1. Calls'
  BY <1>0 DEF Calls
<1>2. HandsInOrder'
  <2>1. \A f \in Episodes : future'[f] # "none" => future[f] # "none"
    BY <1>0, <1>w DEF TypeOK
  <2>2. UNCHANGED <<active, started, deferred, submitting, committed, at>>
    OBVIOUS
  <2> QED BY <1>0, <2>1, <2>2 DEF HandsInOrder
<1>3. QueueShape'
  <2>1. UNCHANGED <<pending, future, failure, raised>>
    OBVIOUS
  <2> QED BY <1>0, <2>1, QueueFrame
<1>4. Accounted'
  <2>1. InHands' = InHands /\ job \in InHands
    BY <1>w DEF InHands
  <2>2. \A e \in Episodes : e # job => marker'[e] = marker[e]
    BY <1>0, <1>w DEF TypeOK, Write, WriteMarker, Verify, WriteManifest, WriteResult,
       WriteVerdict, disk
  <2> QED BY <1>0, <2>1, <2>2 DEF Accounted
<1> QED BY <1>1, <1>2, <1>3, <1>4

\* A future completes with its verdict on disk.
LEMMA WorkerFinishKeeps ==
    ASSUME Strong, WorkerFinish
    PROVE  (Calls /\ HandsInOrder /\ QueueShape /\ Accounted)'
<1> USE SessionAssumption DEF Episodes, None, WorkerFinish, Write, WriteMarker, Verify,
    WriteManifest, WriteResult, WriteVerdict, main, call, queue
<1>0. TypeOK /\ Unopened /\ CallShape /\ Hands /\ Handed /\ WorkerShape
      /\ Calls /\ HandsInOrder /\ QueueShape /\ Accounted
  BY DEF Strong, Inv
<1>w. /\ job \in Episodes /\ future[job] = "running"
      /\ job # active /\ job # deferred /\ job # submitting
  BY <1>0 DEF WorkerShape, Handed, TypeOK
<1>1. Calls'
  BY <1>0 DEF Calls
<1>2. HandsInOrder'
  <2>1. \A f \in Episodes : future'[f] # "none" => future[f] # "none"
    BY <1>0, <1>w DEF TypeOK
  <2>2. UNCHANGED <<active, started, deferred, submitting, committed, at>>
    OBVIOUS
  <2> QED BY <1>0, <2>1, <2>2 DEF HandsInOrder
<1>3. QueueShape'
  <2>1. \A f \in Episodes : f # job => future'[f] = future[f]
    BY <1>0, <1>w DEF TypeOK
  <2>2. future'[job] \in {"done", "error"}
    BY <1>0, <1>w DEF TypeOK
  <2>3. UNCHANGED <<pending, failure, raised>>
    OBVIOUS
  <2> QED BY <1>0, <1>w, <2>1, <2>2, <2>3, QueueSettle
<1>4. Accounted'
  <2>1. \A e \in Episodes : e # job => /\ marker'[e] = marker[e] /\ future'[e] = future[e]
                                       /\ (e \in InHands => e \in InHands')
    BY <1>0, <1>w DEF TypeOK, InHands
  <2>2. marker'[job] \in Terminal
    BY <1>0, <1>w DEF TypeOK, Terminal, Verdict
  <2> QED BY <1>0, <2>1, <2>2 DEF Accounted
<1> QED BY <1>1, <1>2, <1>3, <1>4

\* A future fails, whatever its handler could write.
LEMMA WorkerHandlerKeeps ==
    ASSUME Strong, WorkerHandler
    PROVE  (Calls /\ HandsInOrder /\ QueueShape /\ Accounted)'
<1> USE SessionAssumption DEF Episodes, None, WorkerHandler, main, call, queue
<1>0. TypeOK /\ Unopened /\ CallShape /\ Hands /\ Handed /\ WorkerShape
      /\ Calls /\ HandsInOrder /\ QueueShape /\ Accounted
  BY DEF Strong, Inv
<1>w. /\ job \in Episodes /\ future[job] = "running"
      /\ job # active /\ job # deferred /\ job # submitting
  BY <1>0 DEF WorkerShape, Handed, TypeOK
<1>1. Calls'
  BY <1>0 DEF Calls
<1>2. HandsInOrder'
  <2>1. \A f \in Episodes : future'[f] # "none" => future[f] # "none"
    BY <1>0, <1>w DEF TypeOK
  <2>2. UNCHANGED <<active, started, deferred, submitting, committed, at>>
    OBVIOUS
  <2> QED BY <1>0, <2>1, <2>2 DEF HandsInOrder
<1>3. QueueShape'
  <2>1. \A f \in Episodes : f # job => future'[f] = future[f]
    BY <1>0, <1>w DEF TypeOK
  <2>2. future'[job] \in {"done", "error"}
    BY <1>0, <1>w DEF TypeOK
  <2>3. UNCHANGED <<pending, failure, raised>>
    OBVIOUS
  <2> QED BY <1>0, <1>w, <2>1, <2>2, <2>3, QueueSettle
<1>4. Accounted'
  <2>1. \A e \in Episodes : e # job => /\ marker'[e] = marker[e] /\ future'[e] = future[e]
                                       /\ (e \in InHands => e \in InHands')
    BY <1>0, <1>w, MarkedFailed DEF TypeOK, InHands
  <2>2. future'[job] = "error"
    BY <1>0, <1>w DEF TypeOK, Terminal
  <2> QED BY <1>0, <2>1, <2>2 DEF Accounted
<1> QED BY <1>1, <1>2, <1>3, <1>4

\* The strengthened invariant holds when the session is constructed.
LEMMA StrongInit == Init => Strong
<1> SUFFICES ASSUME Init PROVE Strong
  OBVIOUS
<1> USE SessionAssumption DEF Init, Episodes, None
<1>1. Inv
  BY InvInit
<1>2. Calls /\ HandsInOrder
  BY DEF Calls, HandsInOrder
<1>3. QueueShape /\ Accounted
  BY DEF QueueShape, Accounted, InHands
<1> QED BY <1>1, <1>2, <1>3 DEF Strong

\* Ending an episode and closing both seal.
LEMMA EndAndCloseKeep ==
    ASSUME Strong, EndEpisode \/ Close
    PROVE  (Calls /\ HandsInOrder /\ QueueShape /\ Accounted)'
<1>1. CASE EndEpisode
  <2>1. at = "run" /\ ~raised /\ active # None /\ closing' = closing
    BY <1>1 DEF EndEpisode, Callable
  <2>2. PICK requested \in Requested : Seal(requested, "run")
    BY <1>1 DEF EndEpisode
  <2>3. UNCHANGED <<started, committed, queue, worker, manifest, result>>
    BY <1>1 DEF EndEpisode
  <2> QED BY <2>1, <2>2, <2>3, SealKeeps
<1>2. CASE Close /\ active # None
  <2>1. at = "run" /\ closing'
    BY <1>2 DEF Close
  <2>2. PICK requested \in Requested : Seal(requested, "close_submit")
    BY <1>2 DEF Close
  <2>3. UNCHANGED <<started, committed, queue, worker, manifest, result>>
    BY <1>2 DEF Close
  <2> QED BY <1>2, <2>1, <2>2, <2>3, SealKeeps
<1> QED BY <1>1, <1>2, CloseIdleKeeps

\* Every step of either thread preserves it.
LEMMA StrongStep == Strong /\ [Next]_vars => Strong'
<1> SUFFICES ASSUME Strong, [Next]_vars PROVE Strong'
  OBVIOUS
<1>1. Inv'
  BY InvStep DEF Strong
<1> DEFINE Kept == (Calls /\ HandsInOrder /\ QueueShape /\ Accounted)'
<1>2. CASE CheckFinalization \/ StartEpisode \/ Record \/ EndEpisode \/ Close
  <2>1. Kept
    BY <1>2, CheckFinalizationKeeps, StartEpisodeKeeps, RecordKeeps, EndAndCloseKeep
  <2> QED BY <1>1, <2>1 DEF Strong
<1>3. CASE Unblock
  <2>1. Kept
    BY <1>3, OpenEpisodeKeeps, CloseSubmitKeeps, SubmitKeeps, AwaitOldestKeeps, DrainKeeps DEF Unblock
  <2> QED BY <1>1, <2>1 DEF Strong
<1>4. CASE Worker
  <2>1. Kept
    BY <1>4, WorkerTakeKeeps, WorkerBodyKeeps, WorkerFinishKeeps, WorkerHandlerKeeps DEF Worker
  <2> QED BY <1>1, <2>1 DEF Strong
<1>5. CASE Closed \/ UNCHANGED vars
  <2>1. UNCHANGED vars
    BY <1>5 DEF Closed
  <2>2. Calls' /\ HandsInOrder' /\ Accounted'
    BY <2>1 DEF vars, main, call, queue, worker, disk, Strong, Calls, HandsInOrder, Accounted, InHands
  <2>3. QueueShape'
    BY <2>1, QueueFrame DEF vars, call, queue, worker, Strong
  <2> QED BY <1>1, <2>2, <2>3 DEF Strong
<1> QED BY <1>2, <1>3, <1>4, <1>5 DEF Next

\* The strengthened invariant holds in every reachable state.
THEOREM StrongInvariant == Spec => []Strong
BY StrongInit, StrongStep, PTL DEF Spec

\* No call of start_episode gets past its check when a finalization has failed:
\* a failure still in the queue is at its head, and polling sees it there.
LEMMA FailureStep ==
    ASSUME Strong, [Next]_vars, at # "start", started' # started \/ at' = "start",
           NEW e \in Episodes
    PROVE  future[e] # "error"
<1>0. TypeOK /\ QueueShape
  BY DEF Strong, Inv
<1>1. StartEpisode /\ at' = "start"
  <2>1. ASSUME NEW rest, Enqueue(rest) \/ Refuse(rest)
        PROVE  at' # "start"
    BY <2>1 DEF Enqueue, Refuse, ReturnPoint
  <2>2. ASSUME NEW requested, NEW then \in {"run", "close_submit"}, Seal(requested, then)
        PROVE  at' # "start"
    BY <2>2 DEF Seal
  <2> QED BY <2>1, <2>2 DEF Next, CheckFinalization, StartEpisode, Record, EndEpisode, Close,
      Unblock, OpenEpisode, CloseSubmit, Submit, AwaitOldest, Drain, Closed, Worker, WorkerTake,
      WorkerAdvance, WorkerFinish, WorkerFault, WorkerHandler, main, call, vars
<1>2. ~FailureSeen /\ ~raised
  BY <1>0, <1>1 DEF StartEpisode, Callable
<1> SUFFICES ASSUME future[e] = "error" PROVE FALSE
  OBVIOUS
<1>3. /\ Acknowledged(Remaining, FailureSeen, DonePrefix)
      /\ DonePrefix < Len(pending) => ~Settled(pending[DonePrefix + 1])
  BY <1>0, AcknowledgeLeading
<1>4. Len(pending) \in Nat /\ DonePrefix \in 0..Len(pending)
  BY <1>0, <1>3 DEF TypeOK, Acknowledged
<1>5. ~failure /\ \A i \in 1..DonePrefix : future[pending[i]] # "error"
  BY <1>2 DEF FailureSeen
<1>6. PICK i \in 1..Len(pending) : pending[i] = e
  BY <1>0, <1>2, <1>5 DEF QueueShape
<1>7. i > DonePrefix
  BY <1>4, <1>5, <1>6
<1>8. DonePrefix + 1 \in 1..Len(pending) /\ ~Settled(pending[DonePrefix + 1])
  BY <1>3, <1>4, <1>7
<1>9. i # DonePrefix + 1
  BY <1>6, <1>8 DEF Settled
<1>10. future[pending[i]] = "queued"
  <2>1. DonePrefix + 1 < i
    BY <1>4, <1>7, <1>9
  <2> QED BY <1>0, <1>8, <2>1 DEF QueueShape
<1> QED BY <1>6, <1>10

\* A worker failure blocks further recording: once a finalization has failed,
\* acknowledged or not, no call of start_episode gets past its check and no
\* episode opens but that of a call whose check was past already.
THEOREM FailureAlwaysBlocks == Spec => FailureBlocksRecording
<1>1. Strong /\ [Next]_vars =>
        [(SomeFinalizationFailed /\ at # "start") => started' = started /\ at' # "start"]_vars
  BY FailureStep DEF SomeFinalizationFailed
<1> QED BY <1>1, StrongInvariant, PTL DEF Spec, FailureBlocksRecording

\* close() has waited for every future, and reported whatever went wrong: a
\* failed finalization, or an artifact left without its verdict.
THEOREM ClosedAlwaysQuiet == Spec => []ClosedIsQuiet
<1>1. Strong => ClosedIsQuiet
  <2> SUFFICES ASSUME Strong, at = "closed", NEW e \in Episodes
               PROVE  /\ future[e] \notin {"queued", "running"}
                      /\ (future[e] = "error" \/ marker[e] \notin Terminal \cup {"none"}) => raised
    BY DEF ClosedIsQuiet
  <2>1. /\ active = None /\ deferred = None /\ submitting = None
        /\ pending = << >> /\ (failure => raised) /\ e # None
    BY SessionAssumption DEF Strong, Inv, Calls, CallShape, Accounted, Episodes, None
  <2>2. /\ future[e] \notin {"queued", "running"}
        /\ future[e] = "error" => raised
    BY <2>1 DEF Strong, QueueShape, Settled
  <2>3. marker[e] \notin Terminal \cup {"none"} => raised
    BY <2>1, <2>2 DEF Strong, Accounted, InHands
  <2> QED BY <2>2, <2>3
<1> QED BY <1>1, StrongInvariant, PTL

\* The episodes that wait for the worker are no more than the queue holds.
LEMMA WaitingIsBounded ==
    ASSUME Strong
    PROVE  LET waiting == {e \in Episodes : future[e] \in {"queued", "running"}}
           IN  IsFiniteSet(waiting) /\ Cardinality(waiting) <= MaxPending
<1> DEFINE waiting == {e \in Episodes : future[e] \in {"queued", "running"}}
           queued == {pending[i] : i \in 1..Len(pending)}
<1>1. Len(pending) \in Nat /\ Len(pending) <= MaxPending /\ MaxPending \in Nat
  BY SessionAssumption DEF Strong, Inv, TypeOK, QueueShape
<1>2. IsFiniteSet(1..Len(pending)) /\ Cardinality(1..Len(pending)) = Len(pending)
  <2>1. 1 \in Int /\ Len(pending) \in Int
    BY <1>1
  <2>2. /\ IsFiniteSet(1..Len(pending))
        /\ Cardinality(1..Len(pending)) = IF 1 > Len(pending) THEN 0 ELSE Len(pending) - 1 + 1
    BY ONLY <2>1, FS_Interval
  <2> QED BY <1>1, <2>2
<1>3. IsFiniteSet(queued) /\ Cardinality(queued) <= Len(pending)
  <2> DEFINE f == [i \in 1..Len(pending) |-> pending[i]]
  <2>1. f \in Surjection(1..Len(pending), queued)
    BY DEF Surjection
  <2> HIDE DEF f, queued
  <2> QED BY <1>2, <2>1, FS_Surjection
<1>4. waiting \subseteq queued
  BY DEF Strong, QueueShape, Settled
<1> HIDE DEF waiting, queued
<1>5. IsFiniteSet(waiting) /\ Cardinality(waiting) <= Cardinality(queued)
  BY <1>3, <1>4, FS_Subset
<1>6. Cardinality(waiting) \in Nat /\ Cardinality(queued) \in Nat
  BY <1>3, <1>5, FS_CardinalityType
<1>7. IsFiniteSet(waiting) /\ Cardinality(waiting) <= MaxPending
  BY <1>1, <1>3, <1>5, <1>6
<1> QED BY <1>7 DEF waiting

\* The hand-over to the worker keeps the order of the episodes, the last sealed
\* one waits for its successor's first transition, and backpressure bounds what
\* is sealed and not yet finalized.
THEOREM HandOverAlwaysInOrder == Spec => []HandOverInOrder
<1>1. ASSUME Strong PROVE HandOverInOrder
  <2> USE SessionAssumption DEF Episodes, None
  <2>0. TypeOK /\ Unopened /\ CallShape /\ Handed /\ HandsInOrder /\ QueueShape
    BY <1>1 DEF Strong, Inv
  <2>1. (active > 1 /\ ~committed[active]) => future[active - 1] = "none"
    <3> SUFFICES ASSUME active > 1, ~committed[active], future[active - 1] # "none"
                 PROVE  FALSE
      OBVIOUS
    <3>1. active - 1 \in Episodes /\ active # None /\ active \in Nat
      BY <2>0 DEF TypeOK
    <3>2. (active - 1) + 1 < active
      BY <2>0, <3>1 DEF HandsInOrder
    <3> QED BY <3>1, <3>2
  <2>2. ASSUME NEW e \in Episodes, NEW f \in Episodes, e < f, future[f] # "none"
        PROVE  /\ e \notin {active, deferred, submitting}
               /\ future[e] \in {"queued", "running"} => future[f] = "queued"
    <3>1. f <= started /\ (active # None => active = started)
      BY <2>0, <2>2 DEF Unopened, HandsInOrder, TypeOK
    <3>2. e \notin {active, deferred, submitting}
      BY <2>0, <2>2, <3>1 DEF HandsInOrder, TypeOK
    <3>3. ASSUME future[e] \in {"queued", "running"} PROVE future[f] = "queued"
      <4>1. PICK i \in 1..Len(pending) : pending[i] = e
        BY <2>0, <3>3 DEF QueueShape, Settled
      <4>2. PICK j \in 1..Len(pending) : pending[j] = f
        <5>1. ~(f < pending[i])
          BY <2>2, <4>1
        <5> QED BY <2>0, <2>2, <5>1 DEF QueueShape
      <4>3. i < j
        <5>1. Len(pending) \in Nat
          BY <2>0 DEF TypeOK
        <5>2. ~(j < i) /\ i # j
          BY <2>0, <2>2, <4>1, <4>2 DEF QueueShape
        <5> QED BY <5>1, <5>2
      <4> QED BY <2>0, <3>3, <4>1, <4>2, <4>3 DEF QueueShape, Settled
    <3> QED BY <3>2, <3>3
  <2>3. Len(pending) <= MaxPending
    BY <2>0 DEF QueueShape
  <2>4. Cardinality({e \in InHands \ {None} :
                        e = active => at \in {"submit", "await"} /\ caller = "end"})
          <= MaxPending + 2
    <3> DEFINE held == {e \in InHands \ {None} :
                           e = active => at \in {"submit", "await"} /\ caller = "end"}
               waiting == {e \in Episodes : future[e] \in {"queued", "running"}}
               all == (waiting \cup {active}) \cup {IF submitting = None THEN deferred ELSE submitting}
    <3>1. IsFiniteSet(waiting) /\ Cardinality(waiting) <= MaxPending
      BY <1>1, WaitingIsBounded
    <3>2. held \subseteq all
      BY <2>0 DEF InHands, CallShape
    <3> HIDE DEF waiting
    <3>3. Cardinality(waiting) \in Nat
      BY <3>1, FS_CardinalityType
    <3>4. /\ IsFiniteSet(waiting \cup {active})
          /\ Cardinality(waiting \cup {active}) \in {Cardinality(waiting), Cardinality(waiting) + 1}
          /\ Cardinality(waiting \cup {active}) \in Nat
      BY <3>1, <3>3, FS_AddElement
    <3>5. IsFiniteSet(all) /\ Cardinality(all) <= Cardinality(waiting) + 2
      <4> DEFINE two == waiting \cup {active}
                 x == IF submitting = None THEN deferred ELSE submitting
      <4> HIDE DEF two, x
      <4>1. /\ IsFiniteSet(two \cup {x})
            /\ Cardinality(two \cup {x}) = IF x \in two THEN Cardinality(two) ELSE Cardinality(two) + 1
        BY <3>4, FS_AddElement DEF two
      <4>2. /\ Cardinality(two) \in Nat
            /\ Cardinality(two) \in {Cardinality(waiting), Cardinality(waiting) + 1}
        BY <3>4 DEF two
      <4>3. IsFiniteSet(two \cup {x}) /\ Cardinality(two \cup {x}) <= Cardinality(waiting) + 2
        BY <3>3, <4>1, <4>2
      <4> QED BY <4>3 DEF two, x
    <3> HIDE DEF all, held
    <3>6. IsFiniteSet(held) /\ Cardinality(held) <= Cardinality(all)
      BY <3>2, <3>5, FS_Subset
    <3>7. Cardinality(held) \in Nat /\ Cardinality(all) \in Nat
      BY <3>5, <3>6, FS_CardinalityType
    <3>8. Cardinality(held) <= MaxPending + 2
      BY <3>1, <3>3, <3>5, <3>6, <3>7
    <3> QED BY <3>8 DEF held
  <2> QED BY <2>1, <2>2, <2>3, <2>4 DEF HandOverInOrder
<1> QED BY <1>1, StrongInvariant, PTL

-----------------------------------------------------------------------------
(* The session implements ArtifactContract                                 *)

\* The contract's step for each change the mapped artifacts may make.
LEMMA MappedStutter ==
    ASSUME \A e \in Episodes : ArtifactOf(e)' = ArtifactOf(e),
           (at # "closed")' <=> (at # "closed")
    PROVE  UNCHANGED <<[e \in Episodes |-> ArtifactOf(e)], at # "closed">>
<1>1. [e \in Episodes |-> ArtifactOf(e)]' = [e \in Episodes |-> ArtifactOf(e)]
  OBVIOUS
<1>2. (at # "closed")' = (at # "closed")
  OBVIOUS
<1> QED BY <1>1, <1>2

LEMMA MappedOpen ==
    ASSUME NEW n \in Episodes, at # "closed", at' # "closed", ArtifactOf(n) = "absent",
           \A e \in Episodes : ArtifactOf(e) # "recording",
           \A e \in Episodes : ArtifactOf(e)' = IF e = n THEN "recording" ELSE ArtifactOf(e)
    PROVE  Abstract!ContractNext
<1>1. Abstract!Open(n)
  BY DEF Abstract!Open, Abstract!InState
<1> QED BY <1>1 DEF Abstract!ContractNext

LEMMA MappedAbandon ==
    ASSUME NEW n \in Episodes, at # "closed", at' # "closed",
           ArtifactOf(n) \in {"absent", "recording"},
           \A e \in Episodes : ArtifactOf(e)' = IF e = n THEN "failed" ELSE ArtifactOf(e)
    PROVE  Abstract!ContractNext
<1>1. Abstract!Abandon(n)
  BY DEF Abstract!Abandon
<1> QED BY <1>1 DEF Abstract!ContractNext

LEMMA MappedSeal ==
    ASSUME NEW n \in Episodes, at # "closed", at' # "closed", ArtifactOf(n) = "recording",
           \A e \in Episodes : ArtifactOf(e)' = IF e = n THEN "sealed" ELSE ArtifactOf(e)
    PROVE  Abstract!ContractNext
<1>1. Abstract!Seal(n)
  BY DEF Abstract!Seal
<1> QED BY <1>1 DEF Abstract!ContractNext

LEMMA MappedSettle ==
    ASSUME NEW some \in SUBSET Episodes, NEW verdict \in {"finalized", "failed"},
           (at # "closed")' <=> (at # "closed"),
           \A e \in some : ArtifactOf(e) = "sealed",
           \A e \in Episodes : ArtifactOf(e)' = IF e \in some THEN verdict ELSE ArtifactOf(e)
    PROVE  Abstract!ContractNext
<1>1. some \in SUBSET Abstract!InState("sealed")
  BY DEF Abstract!InState
<1>2. Abstract!Settle(some, verdict)
  BY <1>1 DEF Abstract!Settle
<1> QED BY <1>1, <1>2 DEF Abstract!ContractNext

LEMMA MappedClose ==
    ASSUME at # "closed", at' = "closed",
           \A e \in Episodes : ArtifactOf(e) \notin {"recording", "sealed"},
           \A e \in Episodes : ArtifactOf(e)' = ArtifactOf(e)
    PROVE  Abstract!ContractNext
<1>1. Abstract!CloseSession
  BY DEF Abstract!CloseSession, Abstract!InState
<1> QED BY <1>1 DEF Abstract!ContractNext

\* What the lifecycle sees of the artifacts the session holds.
LEMMA MappedHands ==
    ASSUME Strong, NEW e \in Episodes
    PROVE  /\ e \in {deferred, submitting} => ArtifactOf(e) = "sealed"
           /\ e = active => ArtifactOf(e) = IF caller = "end" THEN "sealed" ELSE "recording"
           /\ future[e] \in {"queued", "running"} => ArtifactOf(e) = "sealed"
           /\ e > started => ArtifactOf(e) = "absent"
           /\ ArtifactOf(e) = "recording" => e = active
           /\ ArtifactOf(e) \in {"recording", "sealed"} => e \in InHands
<1> USE SessionAssumption DEF Episodes, None, Terminal
<1>0. TypeOK /\ Unopened /\ CallShape /\ Hands /\ Handed
  BY DEF Strong, Inv
<1>1. /\ e \in {deferred, submitting} =>
             marker[e] = "queued_for_finalization" /\ future[e] = "none"
      /\ e = active => future[e] = "none"
      /\ e = active =>
             marker[e] = IF caller = "end" THEN "queued_for_finalization" ELSE "in_progress"
      /\ e \in {active, deferred, submitting} \/ future[e] # "none" => e <= started
      /\ e > started => marker[e] = "none"
  BY <1>0 DEF CallShape, Hands, Handed, Unopened, TypeOK
<1> QED BY <1>0, <1>1 DEF ArtifactOf, InHands, TypeOK

\* The lifecycle sees no more of an artifact than whether it was opened, whether
\* the worker still has it and, when it has not, its marker and its holder.
LEMMA SameArtifact ==
    ASSUME NEW e \in Episodes, e > started' <=> e > started,
           future'[e] \in {"queued", "running"} <=> future[e] \in {"queued", "running"},
           \/ future[e] \in {"queued", "running"}
           \/ /\ marker'[e] = marker[e]
              /\ e \in {active', deferred', submitting'} <=> e \in {active, deferred, submitting}
    PROVE  ArtifactOf(e)' = ArtifactOf(e)
BY DEF ArtifactOf, InHands

LEMMA NewArtifact ==
    ASSUME NEW e \in Episodes, e <= started', started' \in Nat, e \in Nat,
           marker'[e] \notin Terminal, future'[e] \notin {"queued", "running"}
    PROVE  ArtifactOf(e)' =
               IF e \in {active', deferred', submitting'}
               THEN IF marker'[e] = "in_progress" THEN "recording" ELSE "sealed"
               ELSE "failed"
BY DEF ArtifactOf, InHands

\* An artifact nobody holds is seen as failed, whatever its handler wrote.
LEMMA LostArtifact ==
    ASSUME NEW e \in Episodes, e <= started', started' \in Nat, e \in Nat,
           marker'[e] \notin {"finalized"}, e \notin {active', deferred', submitting'},
           future'[e] \notin {"queued", "running"}
    PROVE  ArtifactOf(e)' = "failed"
BY DEF ArtifactOf, InHands, Terminal

\* The steps the lifecycle does not see.
LEMMA HiddenStep ==
    ASSUME Strong, CheckFinalization \/ StartEpisode \/ Record \/ CloseSubmit \/ WorkerTake
                   \/ WorkerAdvance \/ WorkerFault \/ (Close /\ active = None) \/ UNCHANGED vars
    PROVE  UNCHANGED <<[e \in Episodes |-> ArtifactOf(e)], at # "closed">>
<1> USE SessionAssumption DEF None
<1>0. TypeOK /\ WorkerShape /\ Handed /\ Unopened /\ CallShape
  BY DEF Strong, Inv
<1>1. CASE ~WorkerTake /\ ~WorkerAdvance /\ ~WorkerFault
  <2>1. marker' = marker /\ started' = started /\ future' = future
    BY <1>1 DEF CheckFinalization, StartEpisode, Record, CloseSubmit, Close, vars, main,
       call, queue, worker, disk
  <2>2. active' = active /\ {deferred', submitting'} = {deferred, submitting}
    BY <1>0, <1>1 DEF CheckFinalization, StartEpisode, Callable, Record, CloseSubmit, Close, vars,
       main, call, CallShape
  <2>3. \A e \in Episodes : ArtifactOf(e)' = ArtifactOf(e)
    BY <2>1, <2>2, SameArtifact
  <2>4. (at # "closed")' <=> (at # "closed")
    BY <1>1 DEF CheckFinalization, StartEpisode, Callable, Record, CloseSubmit, Close, vars, call
  <2> QED BY <2>3, <2>4, MappedStutter
<1>2. CASE WorkerTake
  <2>1. PICK i \in 1..Len(pending) :
           future[pending[i]] = "queued" /\ future' = [future EXCEPT ![pending[i]] = "running"]
    BY <1>2 DEF WorkerTake
  <2>2. pending[i] \in Episodes
    BY <1>0, <2>1 DEF TypeOK
  <2>3. UNCHANGED <<active, deferred, submitting, marker, started, at>>
    BY <1>2 DEF WorkerTake, main, call, disk
  <2>4. \A e \in Episodes : future'[e] \in {"queued", "running"} <=> future[e] \in {"queued", "running"}
    BY <1>0, <2>1, <2>2 DEF TypeOK
  <2>5. \A e \in Episodes : ArtifactOf(e)' = ArtifactOf(e)
    BY <2>3, <2>4, SameArtifact
  <2> QED BY <2>3, <2>5, MappedStutter
<1>3. CASE WorkerAdvance \/ WorkerFault
  <2>1. UNCHANGED <<active, deferred, submitting, future, started, at>>
    BY <1>3 DEF WorkerAdvance, WorkerFault, main, call
  <2>2. job \in Episodes /\ future[job] = "running" /\ (Write \/ UNCHANGED disk)
    BY <1>0, <1>3 DEF WorkerAdvance, WorkerFault, WorkerShape, StepAfter, TypeOK, Episodes
  <2>3. \A e \in Episodes : e # job => marker'[e] = marker[e]
    BY <1>0, <2>2 DEF Write, WriteMarker, Verify, WriteManifest, WriteResult, WriteVerdict,
       disk, TypeOK
  <2>4. \A e \in Episodes : ArtifactOf(e)' = ArtifactOf(e)
    BY <2>1, <2>2, <2>3, SameArtifact
  <2> QED BY <2>1, <2>4, MappedStutter
<1> QED BY <1>1, <1>2, <1>3

\* An episode that opens is recording, one whose start raises is abandoned.
LEMMA OpenMaps ==
    ASSUME Strong, OpenEpisode
    PROVE  Abstract!ContractNext
<1> USE SessionAssumption DEF None
<1>0. TypeOK /\ Unopened /\ CallShape
  BY DEF Strong, Inv
<1>n. PICK n \in Episodes : n = started + 1
  BY <1>0 DEF OpenEpisode, CallShape, TypeOK, Episodes
<1>1. /\ at = "start" /\ at' = "run" /\ active = None /\ caller = "none"
      /\ n \in Nat /\ n > started /\ started' = n
  BY <1>0, <1>n DEF OpenEpisode, CallShape, TypeOK, Episodes
<1>2. /\ ArtifactOf(n) = "absent" /\ marker[n] = "none" /\ future[n] = "none"
      /\ n \notin {active, deferred, submitting}
      /\ \A e \in Episodes : ArtifactOf(e) # "recording"
  BY <1>0, <1>1, MappedHands DEF Unopened, Episodes, TypeOK
<1>3. UNCHANGED <<future, deferred, submitting>>
  BY DEF OpenEpisode, worker
<1>4. \A e \in Episodes : e # n => (e > n <=> e > started) /\ e # None
  BY <1>0, <1>n DEF TypeOK, Episodes
<1>5. /\ active' \in {active, n}
      /\ \E m \in {"none", "failed", "in_progress"} : marker' = [marker EXCEPT ![n] = m]
      /\ active' = n => marker' = [marker EXCEPT ![n] = "in_progress"]
  BY <1>2, <1>n DEF OpenEpisode
<1>6. \A e \in Episodes : e # n => ArtifactOf(e)' = ArtifactOf(e)
  <2>1. \A e \in Episodes : e # n => marker'[e] = marker[e]
    BY <1>0, <1>5 DEF TypeOK
  <2>2. \A e \in Episodes : e # n => (e = active' <=> e = active)
    BY <1>1, <1>4, <1>5
  <2> QED BY <1>1, <1>3, <1>4, <2>1, <2>2, SameArtifact
<1>7. CASE active' = n
  <2>1. marker'[n] = "in_progress" /\ future'[n] = "none"
    BY <1>0, <1>2, <1>3, <1>5, <1>7 DEF TypeOK
  <2>2. ArtifactOf(n)' = "recording"
    BY <1>1, <1>7, <2>1, NewArtifact DEF Terminal
  <2> QED BY <1>1, <1>2, <1>6, <2>2, MappedOpen
<1>8. CASE active' # n
  <2>1. marker'[n] # "finalized"
    BY <1>0, <1>5 DEF TypeOK
  <2>2. n \notin {active', deferred', submitting'} /\ future'[n] = "none"
    BY <1>2, <1>3, <1>5, <1>8
  <2>3. ArtifactOf(n)' = "failed"
    BY <1>1, <2>1, <2>2, LostArtifact
  <2> QED BY <1>1, <1>2, <1>6, <2>3, MappedAbandon
<1> QED BY <1>7, <1>8

\* Sealing is seen as such, or as abandoning the episode.
LEMMA SealMaps ==
    ASSUME Strong, NEW requested \in Requested, NEW then \in {"run", "close_submit"},
           at = "run", active # None, Seal(requested, then), UNCHANGED <<started, queue, worker>>
    PROVE  Abstract!ContractNext
<1> USE SessionAssumption DEF None
<1>0. TypeOK /\ Unopened /\ CallShape /\ Hands /\ Handed
  BY DEF Strong, Inv
<1>1. PICK a \in Episodes : /\ a = active /\ a \in Nat /\ a <= started /\ a # None
                            /\ a \notin {deferred, submitting} /\ future[a] = "none"
  BY <1>0 DEF Hands, Handed, Unopened, CallShape, TypeOK, Episodes
<1>2. ArtifactOf(a) = "recording" /\ submitting = None
  BY <1>0, <1>1, MappedHands DEF CallShape
<1>3. at' # "closed" /\ started' = started /\ future' = future /\ started \in Nat
  BY <1>0 DEF Seal, worker, TypeOK
<1>4. \A e \in Episodes : e # None
  BY DEF Episodes
<1>5. CASE /\ marker' = [marker EXCEPT ![active] = "queued_for_finalization"]
           /\ \/ deferred = None /\ deferred' = active /\ active' = None /\ submitting' = submitting
              \/ submitting' = deferred /\ deferred' = None /\ active' = active
  <2>1. marker'[a] = "queued_for_finalization" /\ \A e \in Episodes : e # a => marker'[e] = marker[e]
    BY <1>0, <1>1, <1>5 DEF TypeOK
  <2>2. a \in {active', deferred', submitting'}
    BY <1>1, <1>5
  <2>3. ArtifactOf(a)' = "sealed"
    BY <1>1, <1>3, <2>1, <2>2, NewArtifact DEF Terminal
  <2>4. \A e \in Episodes : e # a =>
           (e \in {active', deferred', submitting'} <=> e \in {active, deferred, submitting})
    BY <1>1, <1>2, <1>4, <1>5
  <2>5. \A e \in Episodes : e # a => ArtifactOf(e)' = ArtifactOf(e)
    BY <1>3, <2>1, <2>4, SameArtifact
  <2> QED BY <1>2, <1>3, <2>3, <2>5, MappedSeal
<1>6. CASE /\ \/ MarkFailed({active})
              \/ marker' = [marker EXCEPT ![active] = "queued_for_finalization"]
           /\ active' = None /\ UNCHANGED <<deferred, submitting>>
  <2>1. marker'[a] # "finalized" /\ \A e \in Episodes : e # a => marker'[e] = marker[e]
    BY <1>0, <1>1, <1>6, MarkedFailed DEF CallShape, TypeOK
  <2>2. ArtifactOf(a)' = "failed"
    BY <1>1, <1>3, <1>6, <2>1, LostArtifact
  <2>3. \A e \in Episodes : e # a =>
           (e \in {active', deferred', submitting'} <=> e \in {active, deferred, submitting})
    BY <1>1, <1>4, <1>6
  <2>4. \A e \in Episodes : e # a => ArtifactOf(e)' = ArtifactOf(e)
    BY <1>3, <2>1, <2>3, SameArtifact
  <2> QED BY <1>2, <1>3, <2>2, <2>4, MappedAbandon
<1> QED BY <1>5, <1>6 DEF Seal

\* The hand-over to the executor is not seen.
LEMMA EnqueueMaps ==
    ASSUME Strong, submitting # None, NEW rest, Enqueue(rest), UNCHANGED started
    PROVE  UNCHANGED <<[e \in Episodes |-> ArtifactOf(e)], at # "closed">>
<1> USE SessionAssumption DEF None
<1>0. TypeOK /\ CallShape /\ Hands /\ Handed /\ Unopened
  BY DEF Strong, Inv
<1>1. \A e \in Episodes : e # None /\ future'[e] = IF e = submitting THEN "queued" ELSE future[e]
  BY <1>0 DEF Enqueue, TypeOK, Episodes
<1>2. marker' = marker /\ submitting' = None /\ deferred = None
  BY <1>0 DEF Enqueue, CallShape
<1>3. {active', deferred'} = {active, None}
  BY <1>2 DEF Enqueue
<1>4. \A e \in Episodes : ArtifactOf(e)' = ArtifactOf(e)
  <2> SUFFICES ASSUME NEW e \in Episodes
               PROVE  ArtifactOf(e)' = ArtifactOf(e)
    OBVIOUS
  <2>1. e # None /\ marker'[e] = marker[e] /\ started' = started
        /\ future'[e] = IF e = submitting THEN "queued" ELSE future[e]
    BY <1>1, <1>2
  <2>2. CASE e = submitting
    <3>1. future'[e] = "queued" /\ future[e] \notin {"queued", "running"} /\ e <= started
          /\ marker[e] = "queued_for_finalization" /\ e \in InHands
      BY <1>0, <2>1, <2>2 DEF Hands, Handed, Unopened, InHands, TypeOK, Episodes
    <3> QED BY <1>0, <2>1, <3>1 DEF ArtifactOf, Terminal, TypeOK, Episodes
  <2>3. CASE e # submitting
    <3>1. future'[e] = future[e]
          /\ (e \in {active', deferred', submitting'} <=> e \in {active, deferred, submitting})
      BY <1>2, <1>3, <2>1, <2>3
    <3> QED BY <2>1, <3>1, SameArtifact
  <2> QED BY <2>2, <2>3
<1>5. at # "closed" /\ at' # "closed"
  BY <1>0 DEF CallShape, Enqueue, ReturnPoint
<1> QED BY <1>4, <1>5, MappedStutter

\* A refusal settles what was being submitted, and in end_episode its
\* successor, as failed.
LEMMA RefuseMaps ==
    ASSUME Strong, submitting # None, NEW rest, Refuse(rest), UNCHANGED started
    PROVE  Abstract!ContractNext
<1> USE SessionAssumption DEF None
<1>0. TypeOK /\ CallShape /\ Hands /\ Handed /\ Unopened
  BY DEF Strong, Inv
<1>1. PICK some \in SUBSET Episodes :
           some = {submitting} \cup (IF caller = "end" THEN {active} ELSE {})
  <2> DEFINE some == {submitting} \cup (IF caller = "end" THEN {active} ELSE {})
  <2>1. submitting \in Episodes /\ (caller = "end" => active \in Episodes)
    BY <1>0 DEF CallShape, TypeOK, Episodes
  <2>2. some \in SUBSET Episodes
    BY <2>1
  <2> QED BY <2>2
<1>2. /\ deferred' = None /\ submitting' = None /\ deferred = None /\ future' = future
      /\ active' = IF caller = "end" THEN None ELSE active
      /\ MarkFailed(some)
  BY <1>0, <1>1 DEF Refuse, CallShape
<1>3. \A e \in some : /\ ArtifactOf(e) = "sealed" /\ future[e] = "none" /\ e <= started /\ e # None
                      /\ e \in Nat /\ marker[e] = "queued_for_finalization" /\ e # active'
  BY <1>0, <1>1, <1>2, MappedHands DEF CallShape, Hands, Handed, Unopened, TypeOK, Episodes
<1>4. \A e \in Episodes : /\ e \notin some => marker'[e] = marker[e]
                          /\ e \in some => marker'[e] # "finalized"
  BY <1>0, <1>2, <1>3, MarkedFailed DEF TypeOK
<1>5. \A e \in some : ArtifactOf(e)' = "failed"
  BY <1>0, <1>2, <1>3, <1>4, LostArtifact DEF TypeOK
<1>6. \A e \in Episodes : e \notin some => ArtifactOf(e)' = ArtifactOf(e)
  <2>1. \A e \in Episodes : e \notin some =>
           (e \in {active', deferred', submitting'} <=> e \in {active, deferred, submitting})
    BY <1>1, <1>2 DEF Episodes
  <2> QED BY <1>2, <1>4, <2>1, SameArtifact
<1>7. at # "closed" /\ at' # "closed"
  BY <1>0 DEF CallShape, Refuse, ReturnPoint
<1> QED BY <1>3, <1>5, <1>6, <1>7, MappedSettle

\* The worker settles its episode, by its verdict or by its failure.
LEMMA WorkerMaps ==
    ASSUME Strong, WorkerFinish \/ WorkerHandler
    PROVE  Abstract!ContractNext
<1> USE SessionAssumption DEF None
<1>0. TypeOK /\ WorkerShape /\ Handed /\ Unopened
  BY DEF Strong, Inv
<1>1. PICK j \in Episodes : /\ j = job /\ future[j] = "running" /\ j <= started /\ j \in Nat
                            /\ j \notin {active, deferred, submitting}
  BY <1>0 DEF WorkerFinish, WorkerHandler, WorkerShape, Handed, Unopened, TypeOK, Episodes
<1>2. ArtifactOf(j) = "sealed"
  BY <1>1, MappedHands
<1>f. ASSUME WorkerFinish
      PROVE  marker' = [marker EXCEPT ![j] = Verdict]
  BY <1>f, <1>1 DEF WorkerFinish, Write, WriteMarker, Verify, WriteManifest, WriteResult,
     WriteVerdict
<1>3. /\ UNCHANGED <<active, deferred, submitting, started, at>>
      /\ \A e \in Episodes : e # j => marker'[e] = marker[e] /\ future'[e] = future[e]
      /\ future'[j] \in {"done", "error"}
  <2>1. /\ UNCHANGED <<active, deferred, submitting, started, at>>
        /\ \E f \in {"done", "error"} : future' = [future EXCEPT ![j] = f]
    BY <1>1 DEF WorkerFinish, WorkerHandler, main, call
  <2>2. \A e \in Episodes : e # j => marker'[e] = marker[e]
    BY <1>0, <1>1, <1>f, MarkedFailed DEF WorkerHandler, TypeOK
  <2> QED BY <1>0, <2>1, <2>2 DEF TypeOK
<1>4. \A e \in Episodes : e # j => ArtifactOf(e)' = ArtifactOf(e)
  BY <1>3, SameArtifact
<1>5. PICK verdict \in {"finalized", "failed"} : ArtifactOf(j)' = verdict
  <2>0. j <= started' /\ future'[j] \notin {"queued", "running"} /\ started' \in Nat
    BY <1>0, <1>1, <1>3 DEF TypeOK
  <2>1. CASE marker'[j] = "finalized"
    BY <1>1, <2>0, <2>1 DEF ArtifactOf, Terminal
  <2>2. CASE marker'[j] # "finalized"
    <3>1. ArtifactOf(j)' = "failed"
      BY <1>1, <1>3, <2>0, <2>2, LostArtifact
    <3> QED BY <3>1
  <2> QED BY <2>1, <2>2
<1>6. {j} \in SUBSET Episodes
  BY <1>1
<1> QED BY <1>2, <1>3, <1>4, <1>5, <1>6, MappedSettle

\* When close() returns, every artifact has settled.
LEMMA DrainMaps ==
    ASSUME Strong, Drain
    PROVE  Abstract!ContractNext
<1> USE SessionAssumption DEF None
<1>0. TypeOK /\ CallShape /\ Calls /\ QueueShape
  BY DEF Strong, Inv
<1>1. active = None /\ deferred = None /\ submitting = None
  BY <1>0 DEF Drain, Calls, CallShape
<1>2. \A e \in Episodes : future[e] \notin {"queued", "running"} /\ e # None
  BY <1>0 DEF Drain, QueueShape, Settled, Episodes
<1>3. \A e \in Episodes : ArtifactOf(e) \notin {"recording", "sealed"}
  BY <1>1, <1>2, MappedHands DEF InHands
<1>4. \A e \in Episodes : ArtifactOf(e)' = ArtifactOf(e)
  <2>1. UNCHANGED <<active, deferred, submitting, future, marker, started>>
    BY DEF Drain, main, worker, disk
  <2> QED BY <2>1, SameArtifact
<1> QED BY <1>3, <1>4, MappedClose DEF Drain

\* A submit is seen only when it is refused.
LEMMA SubmitMaps ==
    ASSUME Strong, Submit \/ AwaitOldest
    PROVE  \/ Abstract!ContractNext
           \/ UNCHANGED <<[e \in Episodes |-> ArtifactOf(e)], at # "closed">>
<1>1. submitting # None /\ started' = started
  BY DEF Strong, Inv, CallShape, Submit, AwaitOldest
<1>2. ASSUME NEW rest, Enqueue(rest)
      PROVE  UNCHANGED <<[e \in Episodes |-> ArtifactOf(e)], at # "closed">>
  BY <1>1, <1>2, EnqueueMaps
<1>3. ASSUME NEW rest, Refuse(rest)
      PROVE  Abstract!ContractNext
  BY <1>1, <1>3, RefuseMaps
<1>4. CASE Submit /\ UNCHANGED <<active, deferred, submitting, future, marker>> /\ at' = "await"
  <2>1. \A e \in Episodes : ArtifactOf(e)' = ArtifactOf(e)
    BY <1>1, <1>4, SameArtifact
  <2> QED BY <1>4, <2>1, MappedStutter DEF Submit
<1> QED BY <1>2, <1>3, <1>4 DEF Submit, AwaitOldest

\* Every step of either thread is a step of the contract, or is not seen.
LEMMA StepMaps ==
    ASSUME Strong, [Next]_vars
    PROVE  \/ Abstract!ContractNext
           \/ UNCHANGED <<[e \in Episodes |-> ArtifactOf(e)], at # "closed">>
<1>1. CASE EndEpisode
  <2>1. at = "run" /\ active # None /\ UNCHANGED <<started, queue, worker>>
    BY <1>1 DEF EndEpisode, Callable
  <2>2. PICK requested \in Requested : Seal(requested, "run")
    BY <1>1 DEF EndEpisode
  <2> QED BY <2>1, <2>2, SealMaps
<1>2. CASE Close /\ active # None
  <2>1. at = "run" /\ UNCHANGED <<started, queue, worker>>
    BY <1>2 DEF Close
  <2>2. PICK requested \in Requested : Seal(requested, "close_submit")
    BY <1>2 DEF Close
  <2> QED BY <1>2, <2>1, <2>2, SealMaps
<1>3. CASE OpenEpisode
  BY <1>3, OpenMaps
<1>4. CASE Submit \/ AwaitOldest
  BY <1>4, SubmitMaps
<1>5. CASE Drain
  BY <1>5, DrainMaps
<1>6. CASE WorkerFinish \/ WorkerHandler
  BY <1>6, WorkerMaps
<1>7. CASE CheckFinalization \/ StartEpisode \/ Record \/ CloseSubmit \/ WorkerTake
           \/ WorkerAdvance \/ WorkerFault \/ (Close /\ active = None) \/ UNCHANGED vars
  BY <1>7, HiddenStep
<1> QED BY <1>1, <1>2, <1>3, <1>4, <1>5, <1>6, <1>7 DEF Next, Unblock, Worker, Closed

\* The session with its threads, queue, backpressure, faults and files
\* implements the contract the lifecycle relies on: one episode records at a
\* time, a sealed one settles once and for good, and close() leaves none open.
THEOREM SessionKeepsContract == Spec => KeepsContract
<1>1. Init => Abstract!ContractInit
  <2> SUFFICES ASSUME Init PROVE Abstract!ContractInit
    OBVIOUS
  <2> USE SessionAssumption DEF None
  <2>1. \A e \in Episodes : ArtifactOf(e) = IF e = 1 THEN "recording" ELSE "absent"
    BY DEF Init, ArtifactOf, InHands, Terminal, Episodes
  <2>2. at # "closed"
    BY DEF Init
  <2> QED BY <2>1, <2>2 DEF Abstract!ContractInit
<1>2. Strong /\ [Next]_vars =>
        [Abstract!ContractNext]_<<[e \in Episodes |-> ArtifactOf(e)], at # "closed">>
  BY StepMaps
<1> QED BY <1>1, <1>2, StrongInvariant, PTL DEF Spec, KeepsContract, Abstract!Contract
=============================================================================
