-------------------------- MODULE CausalTransaction --------------------------
(***************************************************************************)
(* tools/d0_causal.py: CausalTransactionValidator of one run, under the    *)
(* Isaac profiles (no physical timing validator).  The caller is           *)
(* arbitrary: it may offer any observation, action, source and transition  *)
(* identity at any time; what the validator rejects changes nothing but    *)
(* the rejection counter and is left out.                                  *)
(*                                                                         *)
(* A payload is its identity: the digest stands for the bytes, and         *)
(* verify_payload admits the one payload that has it.  Only the pairing of *)
(* a successor with the next observation compares digests, so only         *)
(* observations carry one.                                                 *)
(***************************************************************************)
EXTENDS Integers, Sequences

CONSTANTS
    Epochs,       \* the Epoch values of one run_id
    First,        \* the epoch the validator is constructed with
    Ids,          \* payload and transition ids
    Digests,      \* digests of observation payloads
    Sources,      \* names of the profile's source streams
    MaxTick,      \* bound on control_tick_id
    MaxSequence,  \* bound on a source's sequence number
    None

Ticks == 0..MaxTick
Identities == [epoch : Epochs, tick : 0..(MaxTick + 1), id : Ids, digest : Digests]

ASSUME CausalAssumption ==
    /\ First \in Epochs
    /\ MaxTick \in Nat
    /\ MaxSequence \in Nat
    /\ None \notin Identities

Roles == {"observation", "action", "native", "transition"}
Samples == [Sources -> [id : Ids, sequence : 0..MaxSequence]]

Transactions == [observation : Identities, action : Ids, sources : Samples]
Completions == [native : Ids, transition : Ids, successor : Identities]
Commits == [prepared : Transactions, completed : Completions]

VARIABLES
    epoch,      \* self.epoch
    epochs,     \* self._epochs
    expected,   \* self._expected_observation
    pending,    \* self._pending
    completion, \* self._completion
    ticks,      \* self._ticks, -1 where get() defaults
    sequences,  \* self._sequences, -1 where get() defaults
    ids,        \* self._ids of the fixed roles
    sampled,    \* self._ids of the sources
    log         \* what commit() has returned, in order

vars == <<epoch, epochs, expected, pending, completion, ticks, sequences, ids,
          sampled, log>>

TypeOK ==
    /\ epoch \in Epochs /\ epochs \in SUBSET Epochs
    /\ expected \in Identities \cup {None}
    /\ pending \in Transactions \cup {None}
    /\ completion \in Completions \cup {None}
    /\ ticks \in [Epochs -> -1..MaxTick]
    /\ sequences \in [Epochs -> [Sources -> -1..MaxSequence]]
    /\ ids \in [Roles -> SUBSET Ids]
    /\ sampled \in [Sources -> SUBSET Ids]
    /\ log \in Seq(Commits)

Init ==
    /\ epoch = First /\ epochs = {First}
    /\ expected = None /\ pending = None /\ completion = None
    /\ ticks = [e \in Epochs |-> -1]
    /\ sequences = [e \in Epochs |-> [s \in Sources |-> -1]]
    /\ ids = [r \in Roles |-> {}]
    /\ sampled = [s \in Sources |-> {}]
    /\ log = << >>

\* abort()
Abort == pending' = None /\ completion' = None

\* Mutant: an epoch may be entered again.
AnyEpoch(e) == e # epoch

NewEpoch(e) == e \notin epochs

BeginEpoch(e) ==
    /\ NewEpoch(e)
    /\ Abort
    /\ epoch' = e /\ epochs' = epochs \cup {e}
    /\ expected' = None
    /\ UNCHANGED <<ticks, sequences, ids, sampled, log>>

\* Mutant: the expected observation is compared by tick only.
PairedByTick(observation) == expected # None => observation.tick = expected.tick

Paired(observation) == expected # None => observation = expected

\* Mutant: a sequence number may repeat.
FreshUnlessOlder(given) ==
    \A s \in Sources :
        given[s].id \notin sampled[s] /\ given[s].sequence >= sequences[epoch][s]

\* No source sample is used twice, and each stream only moves forward.
FreshSamples(given) ==
    \A s \in Sources :
        given[s].id \notin sampled[s] /\ given[s].sequence > sequences[epoch][s]

\* Mutant: the action's identity is not remembered.
RememberObservation(observation, action) ==
    [ids EXCEPT !["observation"] = @ \cup {observation.id}]

Remember(observation, action) ==
    [ids EXCEPT !["observation"] = @ \cup {observation.id}, !["action"] = @ \cup {action}]

\* Mutant: the tick is counted before it is stored.
NextTick(observation) == observation.tick + 1

LastTick(observation) == observation.tick

Prepare(observation, action, given) ==
    /\ pending = None
    /\ observation.epoch = epoch /\ observation.tick \in Ticks
    /\ Paired(observation)
    /\ observation.tick > ticks[epoch]
    /\ FreshSamples(given)
    /\ observation.id \notin ids["observation"] /\ action \notin ids["action"]
    /\ pending' = [observation |-> observation, action |-> action, sources |-> given]
    /\ ticks' = [ticks EXCEPT ![epoch] = LastTick(observation)]
    /\ sequences' = [sequences EXCEPT ![epoch] = [s \in Sources |-> given[s].sequence]]
    /\ ids' = Remember(observation, action)
    /\ sampled' = [s \in Sources |-> sampled[s] \cup {given[s].id}]
    /\ UNCHANGED <<epoch, epochs, expected, completion, log>>

SuccessorFits(successor) ==
    successor.epoch = epoch /\ successor.tick = pending.observation.tick + 1

CompleteTransition(native, transition, successor) ==
    /\ pending # None /\ completion = None
    /\ SuccessorFits(successor)
    /\ native \notin ids["native"] /\ transition \notin ids["transition"]
    /\ successor.id \notin ids["observation"]
    /\ ids' = [ids EXCEPT !["native"] = @ \cup {native}, !["transition"] = @ \cup {transition}]
    /\ completion' = [native |-> native, transition |-> transition, successor |-> successor]
    /\ UNCHANGED <<epoch, epochs, expected, pending, ticks, sequences, sampled, log>>

Commit ==
    /\ pending # None /\ completion # None
    /\ expected' = completion.successor
    /\ log' = Append(log, [prepared |-> pending, completed |-> completion])
    /\ Abort
    /\ UNCHANGED <<epoch, epochs, ticks, sequences, ids, sampled>>

AbortPending ==
    /\ pending # None
    /\ Abort
    /\ UNCHANGED <<epoch, epochs, expected, ticks, sequences, ids, sampled, log>>

Next ==
    \/ \E e \in Epochs : BeginEpoch(e)
    \/ \E observation \in Identities, action \in Ids, given \in Samples :
           Prepare(observation, action, given)
    \/ \E native, transition \in Ids, successor \in Identities :
           CompleteTransition(native, transition, successor)
    \/ Commit
    \/ AbortPending

Spec == Init /\ [][Next]_vars

-----------------------------------------------------------------------------
(* Correctness                                                             *)

EpochAt(i) == log[i].prepared.observation.epoch
ObservationAt(i) == log[i].prepared.observation
SuccessorAt(i) == log[i].completed.successor

\* What a dataset reader relies on: within an epoch the committed transitions
\* form one unbroken chain, the successor of each being, bytes included, the
\* observation of the next; whatever was aborted or rejected in between.
ChainIsPaired ==
    \A i \in 1..(Len(log) - 1) :
        EpochAt(i) = EpochAt(i + 1) => ObservationAt(i + 1) = SuccessorAt(i)

\* An epoch is one contiguous run of the log: nothing prepared in an epoch
\* that was left is committed later, into another epoch or on its return.
EpochsAreContiguous ==
    \A i, k \in 1..Len(log) : (i < k /\ EpochAt(i) = EpochAt(k)) =>
        \A j \in i..k : EpochAt(j) = EpochAt(i)

\* No identity is trained on twice: observations, actions, native commands,
\* transitions and source samples of committed transitions are all distinct.
IdentitiesUsedOnce ==
    \A i, k \in 1..Len(log) : i < k =>
        /\ ObservationAt(i).id # ObservationAt(k).id
        /\ log[i].prepared.action # log[k].prepared.action
        /\ log[i].completed.native # log[k].completed.native
        /\ log[i].completed.transition # log[k].completed.transition
        /\ \A s \in Sources : log[i].prepared.sources[s].id # log[k].prepared.sources[s].id

\* Within an epoch no committed transition goes back in time: its tick and
\* the sequence number of every source stream strictly increase.
TimeMovesForward ==
    \A i, k \in 1..Len(log) : (i < k /\ EpochAt(i) = EpochAt(k)) =>
        /\ ObservationAt(i).tick < ObservationAt(k).tick
        /\ \A s \in Sources :
              log[i].prepared.sources[s].sequence < log[k].prepared.sources[s].sequence
=============================================================================
