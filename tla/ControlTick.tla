---------------------------- MODULE ControlTick ----------------------------
(***************************************************************************)
(* One control loop of run_s2 (tools/isaac_s2_runtime.py), stage by stage, *)
(* in ordinary RUN (live) and in RECORD while a demonstration is being     *)
(* recorded: observation, XR poll, command, IK solve, transaction,         *)
(* application, physics, successor, commit.  It composes the XR device,    *)
(* the capture and the recorder; the validator it drives is specified by   *)
(* CausalTransaction, and DrivesValidator shows that the loop only ever    *)
(* does what that specification allows.                                    *)
(*                                                                         *)
(* Kit, CloudXR and the lazy cameras act between any two stages.  Menus,   *)
(* buttons and publication are HumanRecording's.                           *)
(***************************************************************************)
EXTENDS XrDevice, ThreeCameraCapture, LiveRecording, SequencesExt

CONSTANTS
    MaxSteps,       \* control steps of the loop
    MaxSurprises    \* events between stages
ASSUME StepsAssumption == MaxSteps \in Nat

VARIABLES
    pc,         \* the stage that comes next
    steps,      \* control_steps
    tick,       \* control_tick_id
    index,      \* recording_episode_index
    observed,   \* observation, the recording's token included
    eligible,   \* eligible
    decision,   \* solution, None for a hold
    validator,  \* validator.epoch, None without a validator
    prepared,   \* env.prepared_control_transaction is pending
    entered,    \* the epochs the loop entered, in order (history)
    asked,      \* the transactions it prepared, in order (history)
    applied,    \* at what the last bound decision was applied (history)
    surprises

loop == <<pc, steps, tick, index, observed, eligible, decision, validator, prepared>>
history == <<entered, asked, applied>>
vars == <<device, camera, recorder, loop, history, surprises>>

Stages == {"capture", "poll", "command", "solve", "transaction", "apply", "physics",
           "guard", "successor", "commit", "menu", "waiting", "over"}

Unrecorded == -1
EpochValues == [episode : Int, resets : Nat, reference : Nat, session : Nat]
Actions == [tick : Nat, epoch : EpochValues, update : Nat, step : Nat]

ASSUME NoneAssumption == None \notin Tokens \cup EpochValues \cup Episodes(Actions)

TypeOK ==
    /\ DeviceTypeOK /\ CaptureTypeOK
    /\ recording \in Episodes(Actions) \cup {None}
    /\ sealed # None => sealed.outcome \in Outcomes
    /\ pc \in Stages /\ steps \in 0..MaxSteps /\ tick \in 0..MaxSteps /\ index \in 0..MaxSteps
    /\ observed \in Tokens \cup Captures \cup {None}
    /\ eligible \in BOOLEAN /\ prepared \in BOOLEAN
    /\ validator \in EpochValues \cup {None}
    /\ (pc \in {"successor", "commit"} => eligible /\ prepared /\ recording # None)

Init ==
    /\ DeviceInit /\ CaptureInit
    /\ recording = None /\ sealed = None
    /\ pc = "capture" /\ steps = 0 /\ tick = 0 /\ index = 0
    /\ observed = None /\ eligible = FALSE /\ decision = None
    /\ validator = None /\ prepared = FALSE
    /\ entered = << >> /\ asked = << >> /\ applied = None
    /\ surprises = 0

-----------------------------------------------------------------------------
(* Leaving the loop                                                        *)

\* What the unwinding leaves: the recording sealed, and none of the locals.
Unwind(outcome) ==
    /\ SealAny(recording, outcome)
    /\ pc' = "over" /\ prepared' = FALSE /\ eligible' = FALSE
    /\ observed' = None /\ decision' = None /\ validator' = None
    /\ UNCHANGED <<steps, tick, index>>

\* Any stage may raise; the except clause makes the reason the outcome.
Raise ==
    /\ pc \notin {"menu", "waiting", "over", "commit"}
    /\ Unwind("failure")
    /\ UNCHANGED <<device, camera, history, surprises>>

\* The steps are used up, or stop_requested() before or after the poll.
Leave ==
    /\ pc \in {"capture", "command"}
    /\ Unwind("aborted")
    /\ UNCHANGED <<device, camera, history, surprises>>

-----------------------------------------------------------------------------
(* The stages of a step                                                    *)

Token(r) == r.pending

\* RECORD captures or takes the promoted token, which needs a state that is
\* current; RUN takes the capture that is, and forgets the last transaction.
CaptureStage ==
    /\ pc = "capture" /\ steps < MaxSteps
    /\ IF live
       THEN /\ observed' = Observed
            /\ UNCHANGED recorder
       ELSE \/ /\ recording # None
               /\ recording.promoted = None => Measurable
               /\ recording' = Captured(recording, resets, step)
               /\ observed' = Token(recording')
               /\ UNCHANGED sealed
            \/ /\ recording = None /\ Measurable
               /\ observed' = [sequence |-> 0, resets |-> resets, step |-> step]
               /\ UNCHANGED recorder
    /\ pc' = "poll" /\ steps' = steps + 1
    /\ decision' = None /\ eligible' = FALSE /\ prepared' = FALSE
    /\ UNCHANGED <<tick, index, validator, device, camera, history, surprises>>

PollStage ==
    /\ pc = "poll"
    /\ \/ AdvanceIdle
       \/ \E reset, tracked \in BOOLEAN : AdvancePolls(reset, tracked)
    /\ pc' = "command"
    /\ UNCHANGED <<steps, tick, index, observed, eligible, decision, validator, prepared,
                   recorder, camera, history, surprises>>

\* Y: the demonstration stops with the tick's token still pending.
StopDemo ==
    /\ pc = "command" /\ ~live /\ xrInput # None
    /\ SealAny(recording, "operator_stopped")
    /\ validator' = None
    /\ pc' = "menu"
    /\ UNCHANGED <<steps, tick, index, observed, eligible, decision, prepared,
                   device, camera, history, surprises>>

\* reset_demo(): the scene, the guard, the processor and the device.
FinishDemo ==
    /\ pc = "menu"
    /\ ResetScene /\ DeviceReset
    /\ pc' = "waiting"
    /\ UNCHANGED <<steps, tick, index, observed, eligible, decision, validator, prepared,
                   recorder, history, surprises>>

\* X: the next demonstration numbers its episodes from zero.
StartDemo ==
    /\ pc = "waiting"
    /\ index' = 0 /\ pc' = "capture"
    /\ UNCHANGED <<steps, tick, observed, eligible, decision, validator, prepared,
                   device, camera, recorder, history, surprises>>

\* The client asks for a reset that is no recenter.
ResetAsked == xrInput # None /\ xrInput.rebased /\ ~navigated

RecordedReset ==
    /\ pc = "command" /\ ~live /\ ResetAsked
    /\ SealAny(IF recording = None THEN None ELSE Discarded(recording), "aborted")
    /\ ResetScene /\ DeviceReset
    /\ validator' = None
    /\ pc' = "waiting"
    /\ UNCHANGED <<steps, tick, index, observed, eligible, decision, prepared,
                   history, surprises>>

\* In RUN the step goes on as a hold; env.reset raises unless it can observe.
RunReset ==
    /\ pc = "command" /\ live /\ ResetAsked
    /\ ResetScene /\ DeviceReset
    /\ latest' # None
    /\ observed' = None /\ pc' = "physics"
    /\ UNCHANGED <<steps, tick, index, eligible, decision, validator, prepared,
                   recorder, history, surprises>>

\* Mutant: a rejected tick leaves the episode open.
GapKeepsEpisode(r) == recording' = Discarded(r) /\ UNCHANGED <<sealed, validator>>

\* A gap discards the tick's token and seals the episode it interrupts.
Gap(r) ==
    IF r.committed > 0
    THEN Seal(Discarded(r), "operator_stopped") /\ validator' = None
    ELSE recording' = Discarded(r) /\ UNCHANGED <<sealed, validator>>

\* No observation, no poll, a rebase, a lost controller, or an arm whose
\* transition is not recordable: the command is applied unrecorded.
Hold ==
    /\ pc = "command"
    /\ IF recording = None THEN UNCHANGED <<recorder, validator>> ELSE Gap(recording)
    /\ \/ UNCHANGED device
       \/ live /\ xrInput # None /\ ScheduleRecenter
    /\ pc' = "physics"
    /\ UNCHANGED <<steps, tick, index, observed, eligible, decision, prepared,
                   camera, history, surprises>>

MayRecord ==
    /\ observed # None /\ xrInput # None
    /\ ~xrInput.rebased /\ xrInput.tracking

\* An eligible tick opens an episode when none is open, and is then solved.
Admit ==
    /\ pc = "command" /\ MayRecord /\ StillValid(xrInput)
    /\ IF live \/ recording # None
       THEN UNCHANGED <<recorder, observed, index>>
       ELSE /\ Measurable
            /\ recording' = Captured(Opened(index), resets, step)
            /\ observed' = Token(recording') /\ index' = index + 1
            /\ UNCHANGED sealed
    /\ tick' = tick + 1 /\ eligible' = TRUE
    /\ pc' = "solve"
    /\ UNCHANGED <<steps, decision, validator, prepared, device, camera, history, surprises>>

\* check_observation(env, observation)
Holds(o) ==
    /\ Measurable /\ step = o.step
    /\ IF live THEN IsCurrent(latest) /\ latest = o ELSE resets = o.resets

\* decision_epoch(...)
EpochOf(o, xr) ==
    [episode |-> IF live THEN Unrecorded ELSE recording.episode, resets |-> o.resets,
     reference |-> xr.reference, session |-> xr.session]

Solve ==
    /\ pc = "solve"
    /\ Holds(observed) /\ StillValid(xrInput)
    /\ decision' = [observed |-> observed, xr |-> xrInput, tick |-> tick]
    /\ pc' = "transaction"
    /\ UNCHANGED <<steps, tick, index, observed, eligible, validator, prepared,
                   device, camera, recorder, history, surprises>>

TickEpoch == EpochOf(decision.observed, decision.xr)

\* Committed rows belong to the epoch the validator is in.
RowsAtStake == validator # None /\ ~live /\ recording.committed > 0

\* A first validator, or the next epoch of the one there is.
BeginEpoch ==
    /\ pc = "transaction" /\ validator # TickEpoch /\ ~RowsAtStake
    /\ validator' = TickEpoch /\ entered' = Append(entered, TickEpoch)
    /\ UNCHANGED <<pc, steps, tick, index, observed, eligible, decision, prepared,
                   device, camera, recorder, asked, applied, surprises>>

\* Mutant: the tick that ends the episode is still recorded.
EpochChangedRecords ==
    /\ pc = "transaction" /\ validator # TickEpoch /\ RowsAtStake
    /\ Seal(Discarded(recording), "operator_stopped")
    /\ validator' = None
    /\ pc' = "apply"
    /\ UNCHANGED <<steps, tick, index, observed, eligible, decision, prepared,
                   device, camera, history, surprises>>

\* An epoch that changes under committed rows ends their episode; the command
\* is still applied.
EpochChanged ==
    /\ pc = "transaction" /\ validator # TickEpoch /\ RowsAtStake
    /\ Seal(Discarded(recording), "operator_stopped")
    /\ validator' = None /\ eligible' = FALSE
    /\ pc' = "apply"
    /\ UNCHANGED <<steps, tick, index, observed, decision, prepared,
                   device, camera, history, surprises>>

\* solution.prepare(validator)
Prepare ==
    /\ pc = "transaction" /\ validator = TickEpoch
    /\ asked' = Append(asked, [epoch |-> validator, tick |-> tick, observed |-> observed,
                               update |-> decision.xr.update, successor |-> None,
                               committed |-> FALSE])
    /\ prepared' = TRUE /\ pc' = "apply"
    /\ UNCHANGED <<steps, tick, index, observed, eligible, decision, validator,
                   device, camera, recorder, entered, applied, surprises>>

\* ik.apply: the last look at the observation and the input, then the targets.
Apply ==
    /\ pc = "apply"
    /\ StillValid(decision.xr) /\ Holds(decision.observed)
    /\ Consume(decision.xr)
    /\ applied' = [decision |-> decision, step |-> step, resets |-> resets,
                   session |-> session, polled |-> receipt.session, matrix |-> matrix,
                   again |-> applied # None /\ applied.decision.xr.update >= decision.xr.update]
    /\ pc' = "physics"
    /\ UNCHANGED <<steps, tick, index, observed, eligible, decision, validator, prepared,
                   camera, recorder, entered, asked, surprises>>

Physics ==
    /\ pc = "physics"
    /\ Advance
    /\ pc' = IF live THEN "guard" ELSE IF eligible THEN "successor" ELSE "capture"
    /\ UNCHANGED <<steps, tick, index, observed, eligible, decision, validator, prepared,
                   device, recorder, history, surprises>>

Guard ==
    /\ pc = "guard" /\ GuardAccepts
    /\ GuardSample
    /\ pc' = "capture"
    /\ UNCHANGED <<live, resets, step, generation, frames, data, latest,
                   steps, tick, index, observed, eligible, decision, validator, prepared,
                   device, recorder, history, surprises>>

\* capture_successor, and the validator's complete_transition when the
\* successor is the state exactly Repeat steps later.
Successor ==
    /\ pc = "successor"
    /\ Measurable /\ step = observed.step + Repeat /\ resets = observed.resets
    /\ recording' = SuccessorCaptured(recording, resets, step)
    /\ asked' = [asked EXCEPT ![Len(asked)].successor = recording'.successor]
    /\ pc' = "commit"
    /\ UNCHANGED <<steps, tick, index, observed, eligible, decision, validator, prepared,
                   sealed, device, camera, entered, applied, surprises>>

\* The action of the row: who decided it, when, from what.
RowAction == [tick |-> decision.tick, epoch |-> validator, update |-> decision.xr.update,
              step |-> applied.step]

\* validator.commit, then the row; the row's append or flush may raise.
Commit ==
    /\ pc = "commit"
    /\ asked' = [asked EXCEPT ![Len(asked)].committed = TRUE]
    /\ prepared' = FALSE
    /\ \/ /\ recording' = Committed(recording, RowAction)
          /\ pc' = "capture"
          /\ UNCHANGED <<sealed, eligible>>
       \/ /\ \E r \in CommitFailures(recording, RowAction) : Seal(r, "failure")
          /\ pc' = "over" /\ eligible' = FALSE
    /\ UNCHANGED <<steps, tick, index, observed, decision, validator,
                   device, camera, entered, applied, surprises>>

\* Between two stages: the headset, a stray application update, a lazy camera.
\* What the headset does after the input was used is seen at the next poll.
Surprise ==
    /\ pc \notin {"menu", "waiting", "over", "commit"} /\ surprises < MaxSurprises
    /\ surprises' = surprises + 1
    /\ \/ /\ pc \in {"poll", "command", "solve", "transaction", "apply"}
          /\ XrChanges /\ UNCHANGED camera
       \/ (StrayPump \/ LazyUpdate) /\ UNCHANGED device
    /\ UNCHANGED <<loop, recorder, history>>

Next ==
    \/ CaptureStage \/ PollStage
    \/ StopDemo \/ FinishDemo \/ StartDemo \/ RecordedReset \/ RunReset
    \/ Hold \/ Admit \/ Solve \/ BeginEpoch \/ EpochChanged \/ Prepare
    \/ Apply \/ Physics \/ Guard \/ Successor \/ Commit
    \/ Raise \/ Leave \/ Surprise

Spec == Init /\ [][Next]_vars

-----------------------------------------------------------------------------
(* Correctness                                                             *)

\* The rows of one episode are one unbroken stretch of simulated time: each
\* is Repeat physics steps long, starts at the very token the last one ended
\* at, and all belong to one reset epoch and one causal epoch; whatever was
\* discarded, polled, rebased or solved in between.
Gapless(rows) ==
    /\ \A i \in 1..Len(rows) :
          /\ rows[i].successor.step = rows[i].observed.step + Repeat
          /\ rows[i].successor.resets = rows[i].observed.resets
          /\ rows[i].action.epoch = rows[1].action.epoch
    /\ \A i \in 1..(Len(rows) - 1) : rows[i + 1].observed = rows[i].successor

RowsAreGapless ==
    /\ recording # None => Gapless(recording.rows)
    /\ sealed # None => Gapless(sealed.rows)

\* What reached the robots was decided from the state they were in and from an
\* input the headset still stood by: the scene was neither stepped nor reset
\* since the observation, session and navigation frame are those of the poll,
\* and no poll is used twice.
ActionsAreFresh ==
    applied # None =>
        LET d == applied.decision
        IN  /\ d.observed.step = applied.step /\ d.observed.resets = applied.resets
            /\ d.xr.transform = applied.matrix
            /\ applied.session = applied.polled
            /\ ~applied.again

\* An episode the loop hands over as the operator's has rows, counts them all
\* and ends with the observation its last row led to; a tick discarded after
\* that row takes nothing away from it.
SealedIsWhole ==
    (sealed # None /\ sealed.outcome = "operator_stopped") =>
        /\ sealed.committed > 0 /\ Len(sealed.rows) = sealed.committed
        /\ sealed.terminal = Last(sealed.rows).successor
        /\ \A i \in 1..Len(sealed.rows) :
              sealed.rows[i].action.step = sealed.rows[i].observed.step

\* When RUN compares the camera counters they are of one reset epoch: a reset,
\* which restarts them, is never mistaken for a camera that went backwards.
ResetIsNoRegression ==
    (pc = "guard" /\ previous # None) => frames >= previous

-----------------------------------------------------------------------------
(* The loop drives one validator.  It builds a new one after every gap,    *)
(* which would forget the identities the last one admitted; seen from      *)
(* outside they are a single CausalTransaction of the whole run, whose     *)
(* epochs are numbered as they are first entered.                          *)

EpochNumbers == 0..MaxSteps
Streams == {"state", "xr"}

\* An epoch entered again keeps its first number, which is not a new one.
Number(e) == Min({i \in 1..Len(entered) : entered[i] = e})
Here == IF entered = << >> THEN 0 ELSE Number(Last(entered))

IdOf(a) == <<Number(a.epoch), a.tick>>
AskedIn(n) == {i \in 1..Len(asked) : Number(asked[i].epoch) = n}
LastIn(n) == asked[Max(AskedIn(n))]
Used == {IdOf(asked[i]) : i \in 1..Len(asked)}
Finished == {IdOf(asked[i]) : i \in {j \in 1..Len(asked) : asked[j].successor # None}}

Identity(a) ==
    [epoch |-> Number(a.epoch), tick |-> a.tick, id |-> IdOf(a), digest |-> a.observed]
SuccessorIdentity(a) ==
    [epoch |-> Number(a.epoch), tick |-> a.tick + 1, id |-> <<Number(a.epoch), a.tick + 1>>,
     digest |-> a.successor]
SamplesOf(a) ==
    [s \in Streams |->
        [id |-> IdOf(a), sequence |-> IF s = "xr" THEN a.update ELSE a.observed.step]]
TransactionOf(a) ==
    [observation |-> Identity(a), action |-> IdOf(a), sources |-> SamplesOf(a)]
CompletionOf(a) ==
    [native |-> IdOf(a), transition |-> IdOf(a), successor |-> SuccessorIdentity(a)]
CommittedOf == SelectSeq(asked, LAMBDA a : a.committed)
CommittedHere == SelectSeq(CommittedOf, LAMBDA a : Number(a.epoch) = Here)

V == INSTANCE CausalTransaction WITH
    Epochs <- EpochNumbers, First <- 0,
    Ids <- EpochNumbers \X (0..(MaxSteps + 1)), Digests <- Tokens, Sources <- Streams,
    MaxTick <- MaxSteps, MaxSequence <- Settle + Repeat * MaxSteps * MaxSteps,
    epoch <- Here,
    epochs <- {0} \cup {Number(entered[i]) : i \in 1..Len(entered)},
    expected <- IF CommittedHere = << >> THEN None ELSE SuccessorIdentity(Last(CommittedHere)),
    pending <- IF prepared THEN TransactionOf(Last(asked)) ELSE None,
    completion <- IF prepared /\ Last(asked).successor # None
                  THEN CompletionOf(Last(asked)) ELSE None,
    ticks <- [n \in EpochNumbers |-> IF AskedIn(n) = {} THEN -1 ELSE LastIn(n).tick],
    sequences <- [n \in EpochNumbers |-> [s \in Streams |->
                     IF AskedIn(n) = {} THEN -1 ELSE SamplesOf(LastIn(n))[s].sequence]],
    ids <- [r \in {"observation", "action", "native", "transition"} |->
               IF r \in {"observation", "action"} THEN Used ELSE Finished],
    sampled <- [s \in Streams |-> Used],
    log <- [i \in 1..Len(CommittedOf) |-> [prepared |-> TransactionOf(CommittedOf[i]),
                                           completed |-> CompletionOf(CommittedOf[i])]]

ValidatorStep ==
    \/ Len(entered') > Len(entered) /\ V!BeginEpoch(Here')
    \/ LET a == Last(asked')
       IN  \/ /\ Len(asked') > Len(asked)
              /\ V!Prepare(Identity(a), IdOf(a), SamplesOf(a))
           \/ /\ pc = "successor" /\ pc' = "commit"
              /\ V!CompleteTransition(IdOf(a), IdOf(a), SuccessorIdentity(a))
    \/ pc = "commit" /\ V!Commit
    \/ V!AbortPending

\* Every call the loop makes is one that a single validator, which remembers
\* the whole run, would have accepted: no epoch is entered twice, no tick,
\* state or XR sample comes back, and every row follows from the last.  V's
\* variables are functions of the three the subscript names.
DrivesValidator == V!Init /\ [][ValidatorStep]_<<entered, asked, prepared>>
=============================================================================
