----------------------- MODULE CausalTransaction_proofs -----------------------
(***************************************************************************)
(* Proofs about CausalTransaction for every set of epochs, ids, digests    *)
(* and sources and every bound: the committed transitions of an epoch are  *)
(* one chain of paired, distinct, forward-moving transactions.             *)
(***************************************************************************)
EXTENDS CausalTransaction, TLAPS

\* Every call keeps the validator's state well formed.
THEOREM TypeCorrect == Spec => []TypeOK
<1>1. Init => TypeOK
  BY CausalAssumption DEF Init, TypeOK, Roles
<1>2. TypeOK /\ [Next]_vars => TypeOK'
  <2> SUFFICES ASSUME TypeOK, [Next]_vars
               PROVE  TypeOK'
    OBVIOUS
  <2> USE CausalAssumption
  <2>1. CASE \E e \in Epochs : BeginEpoch(e)
    BY <2>1 DEF TypeOK, BeginEpoch, Abort
  <2>2. ASSUME NEW observation \in Identities, NEW action \in Ids, NEW given \in Samples,
               Prepare(observation, action, given)
        PROVE  TypeOK'
    <3>1. pending' \in Transactions
      BY <2>2 DEF Prepare, Transactions
    <3>2. ticks' \in [Epochs -> -1..MaxTick]
      BY <2>2 DEF Prepare, TypeOK, LastTick, Ticks
    <3>3. sequences' \in [Epochs -> [Sources -> -1..MaxSequence]]
      <4>1. [s \in Sources |-> given[s].sequence] \in [Sources -> -1..MaxSequence]
        BY DEF Samples
      <4> QED BY <4>1, <2>2 DEF Prepare, TypeOK
    <3>4. ids' \in [Roles -> SUBSET Ids]
      <4>1. observation.id \in Ids
        BY DEF Identities
      <4> QED BY <4>1, <2>2 DEF Prepare, TypeOK, Remember, Roles
    <3>5. sampled' \in [Sources -> SUBSET Ids]
      BY <2>2 DEF Prepare, TypeOK, Samples
    <3> QED BY <2>2, <3>1, <3>2, <3>3, <3>4, <3>5 DEF Prepare, TypeOK
  <2>3. ASSUME NEW native \in Ids, NEW transition \in Ids, NEW successor \in Identities,
               CompleteTransition(native, transition, successor)
        PROVE  TypeOK'
    <3>1. completion' \in Completions
      BY <2>3 DEF CompleteTransition, Completions
    <3>2. ids' \in [Roles -> SUBSET Ids]
      BY <2>3 DEF CompleteTransition, TypeOK, Roles
    <3> QED BY <2>3, <3>1, <3>2 DEF CompleteTransition, TypeOK
  <2>4. CASE Commit
    <3>1. completion \in Completions /\ pending \in Transactions
      BY <2>4 DEF Commit, TypeOK
    <3>2. [prepared |-> pending, completed |-> completion] \in Commits
      BY <3>1 DEF Commits
    <3>3. log' \in Seq(Commits)
      BY <2>4, <3>2 DEF Commit, TypeOK
    <3>4. expected' \in Identities
      BY <2>4, <3>1 DEF Commit, Completions
    <3> QED BY <2>4, <3>3, <3>4 DEF Commit, TypeOK, Abort
  <2>5. CASE AbortPending
    BY <2>5 DEF AbortPending, Abort, TypeOK
  <2>6. CASE UNCHANGED vars
    BY <2>6 DEF vars, TypeOK
  <2> QED BY <2>1, <2>2, <2>3, <2>4, <2>5, <2>6 DEF Next
<1> QED BY <1>1, <1>2, PTL DEF Spec

-----------------------------------------------------------------------------
(* The chain.  What a commit relies on was checked by prepare, possibly    *)
(* many steps earlier, so the invariant carries it along: the expected     *)
(* observation is the end of this epoch's chain, the pending transaction   *)
(* is the one that fits it, and the epochs of the log are all known.       *)

ChainEnd ==
    (Len(log) > 0 /\ EpochAt(Len(log)) = epoch) => expected = SuccessorAt(Len(log))

PendingFits ==
    pending # None => pending.observation.epoch = epoch /\ Paired(pending.observation)

EpochsKnown == epoch \in epochs /\ \A i \in 1..Len(log) : EpochAt(i) \in epochs

\* Once the epoch of the log has begun again it has lasted to the end.
EpochIsSuffix ==
    \A i \in 1..Len(log) : EpochAt(i) = epoch => \A j \in i..Len(log) : EpochAt(j) = epoch

ChainInv ==
    /\ TypeOK /\ ChainEnd /\ PendingFits /\ EpochsKnown /\ EpochIsSuffix
    /\ ChainIsPaired /\ EpochsAreContiguous

\* What Append does to the indices of the log.
LEMMA LogAfterCommit ==
    ASSUME TypeOK, Commit
    PROVE  /\ Len(log) \in Nat /\ Len(log') = Len(log) + 1
           /\ \A i \in 1..Len(log) : log'[i] = log[i]
           /\ log'[Len(log) + 1] = [prepared |-> pending, completed |-> completion]
<1>1. pending \in Transactions /\ completion \in Completions
  BY DEF Commit, TypeOK
<1> DEFINE new == [prepared |-> pending, completed |-> completion]
<1>2. new \in Commits /\ log \in Seq(Commits) /\ log' = Append(log, new)
  BY <1>1 DEF Commit, Commits, TypeOK
<1> HIDE DEF new
<1>3. QED
  <2>1. /\ Len(log) \in Nat /\ Len(log') = Len(log) + 1
        /\ \A i \in 1..Len(log) : log'[i] = log[i]
        /\ log'[Len(log) + 1] = new
    BY <1>2
  <2> QED BY <2>1 DEF new

\* The invariant is kept by every call.
LEMMA ChainStep == ChainInv /\ TypeOK' /\ [Next]_vars => ChainInv'
<1> SUFFICES ASSUME ChainInv, TypeOK', [Next]_vars
             PROVE  ChainInv'
  OBVIOUS
<1> USE CausalAssumption
<1>0. Len(log) \in Nat
  BY DEF ChainInv, TypeOK
<1>1. ASSUME NEW e \in Epochs, BeginEpoch(e)
      PROVE  ChainInv'
  <2>1. /\ log' = log /\ epoch' = e /\ epochs' = epochs \cup {e} /\ pending' = None
        /\ e \notin epochs
    BY <1>1 DEF BeginEpoch, NewEpoch, Abort
  <2>2. \A i \in 1..Len(log) : EpochAt(i) # e
    BY <2>1 DEF ChainInv, EpochsKnown
  <2>3. ChainEnd' /\ EpochIsSuffix'
    BY <1>0, <2>1, <2>2 DEF ChainEnd, EpochIsSuffix, EpochAt
  <2>4. PendingFits' /\ EpochsKnown'
    BY <2>1 DEF ChainInv, PendingFits, EpochsKnown, EpochAt
  <2>5. ChainIsPaired' /\ EpochsAreContiguous'
    BY <2>1 DEF ChainInv, ChainIsPaired, EpochsAreContiguous, EpochAt, ObservationAt, SuccessorAt
  <2> QED BY <2>3, <2>4, <2>5 DEF ChainInv
<1>2. ASSUME NEW observation \in Identities, NEW action \in Ids, NEW given \in Samples,
             Prepare(observation, action, given)
      PROVE  ChainInv'
  <2>1. /\ log' = log /\ epoch' = epoch /\ epochs' = epochs /\ expected' = expected
        /\ pending'.observation = observation
        /\ observation.epoch = epoch /\ Paired(observation)
    BY <1>2 DEF Prepare
  <2>2. PendingFits'
    BY <2>1 DEF PendingFits, Paired
  <2> QED
    BY <2>1, <2>2 DEF ChainInv, ChainEnd, EpochsKnown, EpochIsSuffix, ChainIsPaired,
       EpochsAreContiguous, EpochAt, ObservationAt, SuccessorAt
<1>3. ASSUME NEW native \in Ids, NEW transition \in Ids, NEW successor \in Identities,
             CompleteTransition(native, transition, successor)
      PROVE  ChainInv'
  <2>1. UNCHANGED <<log, epoch, epochs, expected, pending>>
    BY <1>3 DEF CompleteTransition
  <2> QED
    BY <2>1 DEF ChainInv, ChainEnd, PendingFits, Paired, EpochsKnown, EpochIsSuffix,
       ChainIsPaired, EpochsAreContiguous, EpochAt, ObservationAt, SuccessorAt
<1>4. CASE Commit
  <2>0. PICK n \in Nat : n = Len(log)
    BY <1>0
  <2>1. /\ Len(log') = n + 1
        /\ \A i \in 1..n : log'[i] = log[i]
        /\ log'[n + 1] = [prepared |-> pending, completed |-> completion]
    BY <1>4, <2>0, LogAfterCommit DEF ChainInv
  <2>2. /\ epoch' = epoch /\ epochs' = epochs /\ pending' = None
        /\ expected' = completion.successor
        /\ pending.observation.epoch = epoch /\ Paired(pending.observation)
    BY <1>4 DEF Commit, Abort, ChainInv, PendingFits
  <2>3. /\ \A i \in 1..n : EpochAt(i)' = EpochAt(i) /\ ObservationAt(i)' = ObservationAt(i)
                           /\ SuccessorAt(i)' = SuccessorAt(i)
        /\ EpochAt(n + 1)' = epoch
        /\ ObservationAt(n + 1)' = pending.observation
        /\ SuccessorAt(n + 1)' = completion.successor
    BY <2>1, <2>2 DEF EpochAt, ObservationAt, SuccessorAt
  <2>4. ChainEnd' /\ PendingFits' /\ EpochsKnown'
    BY <2>0, <2>1, <2>2, <2>3 DEF ChainEnd, PendingFits, EpochsKnown, ChainInv
  <2>5. EpochIsSuffix'
    BY <2>0, <2>1, <2>2, <2>3 DEF EpochIsSuffix, ChainInv
  <2>6. ChainIsPaired'
    <3> SUFFICES ASSUME NEW i \in 1..n, EpochAt(i)' = EpochAt(i + 1)'
                 PROVE  ObservationAt(i + 1)' = SuccessorAt(i)'
      BY <2>0, <2>1 DEF ChainIsPaired
    <3>1. CASE i < n
      BY <3>1, <2>0, <2>3 DEF ChainIsPaired, ChainInv
    <3>2. CASE i = n
      <4>1. n > 0 /\ EpochAt(n) = epoch
        BY <3>2, <2>0, <2>3
      <4>2. expected = SuccessorAt(n)
        BY <4>1, <2>0 DEF ChainInv, ChainEnd
      <4>3. log[n] \in Commits
        BY <3>2, <2>0 DEF ChainInv, TypeOK
      <4>4. SuccessorAt(n) \in Identities
        BY <4>3 DEF SuccessorAt, Commits, Completions
      <4>5. pending.observation = expected
        BY <2>2, <4>2, <4>4 DEF Paired
      <4> QED BY <3>2, <2>0, <2>3, <4>2, <4>5
    <3> QED BY <2>0, <3>1, <3>2
  <2>7. EpochsAreContiguous'
    <3> SUFFICES ASSUME NEW i \in 1..(n + 1), NEW k \in 1..(n + 1), i < k,
                        EpochAt(i)' = EpochAt(k)', NEW j \in i..k
                 PROVE  EpochAt(j)' = EpochAt(i)'
      BY <2>0, <2>1 DEF EpochsAreContiguous
    <3>1. CASE k <= n
      BY <3>1, <2>0, <2>3 DEF ChainInv, EpochsAreContiguous
    <3>2. CASE k = n + 1
      <4>1. EpochAt(i) = epoch
        BY <3>2, <2>0, <2>3
      <4>2. \A m \in i..n : EpochAt(m) = epoch
        BY <4>1, <3>2, <2>0 DEF ChainInv, EpochIsSuffix
      <4> QED BY <4>1, <4>2, <3>2, <2>0, <2>3
    <3> QED BY <2>0, <3>1, <3>2
  <2> QED BY <2>4, <2>5, <2>6, <2>7 DEF ChainInv
<1>5. CASE AbortPending
  <2>1. UNCHANGED <<log, epoch, epochs, expected>> /\ pending' = None
    BY <1>5 DEF AbortPending, Abort
  <2> QED
    <3>1. TypeOK /\ ChainEnd /\ PendingFits /\ EpochsKnown /\ EpochIsSuffix
          /\ ChainIsPaired /\ EpochsAreContiguous
      BY DEF ChainInv
    <3>2. (ChainEnd /\ PendingFits /\ EpochsKnown)'
      BY <2>1, <3>1 DEF ChainEnd, PendingFits, EpochsKnown, EpochAt, SuccessorAt
    <3>3. EpochIsSuffix' /\ ChainIsPaired'
      BY <2>1, <3>1 DEF EpochIsSuffix, ChainIsPaired, EpochAt, ObservationAt, SuccessorAt
    <3>4. EpochsAreContiguous'
      BY <2>1, <3>1 DEF EpochsAreContiguous, EpochAt
    <3> QED BY <3>2, <3>3, <3>4 DEF ChainInv
<1>6. CASE UNCHANGED vars
  BY <1>6 DEF vars, ChainInv, ChainEnd, PendingFits, Paired, EpochsKnown, EpochIsSuffix,
     ChainIsPaired, EpochsAreContiguous, EpochAt, ObservationAt, SuccessorAt
<1> QED BY <1>1, <1>2, <1>3, <1>4, <1>5, <1>6 DEF Next

\* A new validator has no chain yet.
LEMMA ChainInit == Init => ChainInv
<1> SUFFICES ASSUME Init PROVE ChainInv
  OBVIOUS
<1>1. TypeOK
  BY CausalAssumption DEF Init, TypeOK, Roles
<1>2. Len(log) = 0 /\ pending = None /\ epoch = First /\ epochs = {First}
  BY DEF Init
<1> QED
  BY <1>1, <1>2 DEF ChainInv, ChainEnd, PendingFits, EpochsKnown, EpochIsSuffix,
     ChainIsPaired, EpochsAreContiguous

\* Within an epoch each committed successor is the next committed observation.
THEOREM ChainAlwaysPaired == Spec => []ChainIsPaired
<1>1. ChainInv => ChainIsPaired
  BY DEF ChainInv
<1> QED BY <1>1, ChainInit, ChainStep, TypeCorrect, PTL DEF Spec

\* The committed transitions of an epoch are contiguous in the log.
THEOREM EpochsAlwaysContiguous == Spec => []EpochsAreContiguous
<1>1. ChainInv => EpochsAreContiguous
  BY DEF ChainInv
<1> QED BY <1>1, ChainInit, ChainStep, TypeCorrect, PTL DEF Spec

-----------------------------------------------------------------------------
(* Identities and time.  Everything a committed or pending transaction     *)
(* carries has been remembered, and prepare and complete_transition only   *)
(* accept what has not.                                                    *)

Remembered(p) ==
    /\ p.observation.id \in ids["observation"] /\ p.action \in ids["action"]
    /\ \A s \in Sources : p.sources[s].id \in sampled[s]
RememberedDone(c) == c.native \in ids["native"] /\ c.transition \in ids["transition"]

Apart(p, q) ==
    /\ p.observation.id # q.observation.id /\ p.action # q.action
    /\ \A s \in Sources : p.sources[s].id # q.sources[s].id
ApartDone(c, d) == c.native # d.native /\ c.transition # d.transition

IdentityInv ==
    /\ \A i \in 1..Len(log) : Remembered(log[i].prepared) /\ RememberedDone(log[i].completed)
    /\ pending # None =>
          Remembered(pending) /\ \A i \in 1..Len(log) : Apart(log[i].prepared, pending)
    /\ completion # None =>
          /\ RememberedDone(completion)
          /\ \A i \in 1..Len(log) : ApartDone(log[i].completed, completion)
    /\ \A i, k \in 1..Len(log) : i < k =>
          Apart(log[i].prepared, log[k].prepared) /\ ApartDone(log[i].completed, log[k].completed)

\* Memory only grows.
LEMMA MemoryGrows ==
    ASSUME TypeOK, [Next]_vars
    PROVE  /\ \A r \in Roles : ids[r] \subseteq ids'[r]
           /\ \A s \in Sources : sampled[s] \subseteq sampled'[s]
<1>1. CASE \E e \in Epochs : BeginEpoch(e)
  BY <1>1 DEF BeginEpoch
<1>2. ASSUME NEW observation \in Identities, NEW action \in Ids, NEW given \in Samples,
             Prepare(observation, action, given)
      PROVE  /\ \A r \in Roles : ids[r] \subseteq ids'[r]
             /\ \A s \in Sources : sampled[s] \subseteq sampled'[s]
  <2>1. \A r \in Roles : ids[r] \subseteq ids'[r]
    BY <1>2 DEF Prepare, Remember, TypeOK, Roles
  <2>2. \A s \in Sources : sampled[s] \subseteq sampled'[s]
    BY <1>2 DEF Prepare
  <2> QED BY <2>1, <2>2
<1>3. CASE \E native, transition \in Ids, successor \in Identities :
             CompleteTransition(native, transition, successor)
  BY <1>3 DEF CompleteTransition, TypeOK, Roles
<1>4. CASE Commit \/ AbortPending \/ UNCHANGED vars
  BY <1>4 DEF Commit, AbortPending, vars
<1> QED BY <1>1, <1>2, <1>3, <1>4 DEF Next

\* No call forgets an identity it has admitted.
LEMMA RememberedStays ==
    ASSUME TypeOK, [Next]_vars
    PROVE  /\ \A p : Remembered(p) => Remembered(p)'
           /\ \A c : RememberedDone(c) => RememberedDone(c)'
<1>1. /\ ids["observation"] \subseteq ids'["observation"] /\ ids["action"] \subseteq ids'["action"]
      /\ ids["native"] \subseteq ids'["native"] /\ ids["transition"] \subseteq ids'["transition"]
      /\ \A s \in Sources : sampled[s] \subseteq sampled'[s]
  BY MemoryGrows DEF Roles
<1> QED BY <1>1 DEF Remembered, RememberedDone

\* Every call remembers what it admits, so nothing is admitted twice.
LEMMA IdentityStep == TypeOK /\ IdentityInv /\ [Next]_vars => IdentityInv'
<1> SUFFICES ASSUME TypeOK, IdentityInv, [Next]_vars
             PROVE  IdentityInv'
  OBVIOUS
<1>0. PICK n \in Nat : n = Len(log)
  BY DEF TypeOK
<1>a. /\ \A p : Remembered(p) => Remembered(p)'
      /\ \A c : RememberedDone(c) => RememberedDone(c)'
  BY RememberedStays
<1>1. CASE pending' \in {pending, None} /\ completion' \in {completion, None} /\ log' = log
  BY <1>1, <1>a DEF IdentityInv, Apart, ApartDone
<1>2. ASSUME NEW observation \in Identities, NEW action \in Ids, NEW given \in Samples,
             Prepare(observation, action, given)
      PROVE  IdentityInv'
  <2>1. /\ log' = log /\ completion' = completion
        /\ pending' = [observation |-> observation, action |-> action, sources |-> given]
        /\ ids' = Remember(observation, action)
        /\ sampled' = [s \in Sources |-> sampled[s] \cup {given[s].id}]
        /\ observation.id \notin ids["observation"] /\ action \notin ids["action"]
        /\ \A s \in Sources : given[s].id \notin sampled[s]
    BY <1>2 DEF Prepare, FreshSamples
  <2>2. Remembered(pending)'
    BY <2>1 DEF Remembered, Remember, TypeOK, Roles
  <2>3. \A i \in 1..n : Apart(log[i].prepared, pending)'
    <3> SUFFICES ASSUME NEW i \in 1..n
                 PROVE  Apart(log[i].prepared, pending)'
      OBVIOUS
    <3>1. Remembered(log[i].prepared)
      BY <1>0 DEF IdentityInv
    <3> QED BY <3>1, <2>1 DEF Apart, Remembered
  <2> QED BY <1>0, <1>a, <2>1, <2>2, <2>3 DEF IdentityInv, Apart, ApartDone
<1>3. ASSUME NEW native \in Ids, NEW transition \in Ids, NEW successor \in Identities,
             CompleteTransition(native, transition, successor)
      PROVE  IdentityInv'
  <2>1. /\ log' = log /\ pending' = pending
        /\ completion' = [native |-> native, transition |-> transition, successor |-> successor]
        /\ ids' = [ids EXCEPT !["native"] = @ \cup {native}, !["transition"] = @ \cup {transition}]
        /\ native \notin ids["native"] /\ transition \notin ids["transition"]
    BY <1>3 DEF CompleteTransition
  <2>2. RememberedDone(completion)'
    BY <2>1 DEF RememberedDone, TypeOK, Roles
  <2>3. \A i \in 1..n : ApartDone(log[i].completed, completion)'
    BY <1>0, <2>1 DEF ApartDone, IdentityInv, RememberedDone
  <2> QED BY <1>0, <1>a, <2>1, <2>2, <2>3 DEF IdentityInv, Apart, ApartDone
<1>4. CASE Commit
  <2>1. /\ Len(log') = n + 1
        /\ \A i \in 1..n : log'[i] = log[i]
        /\ log'[n + 1].prepared = pending /\ log'[n + 1].completed = completion
    BY <1>0, <1>4, LogAfterCommit
  <2>2. /\ pending' = None /\ completion' = None /\ pending # None /\ completion # None
    BY <1>4 DEF Commit, Abort
  <2>3. /\ \A i \in 1..n : Remembered(log[i].prepared) /\ RememberedDone(log[i].completed)
        /\ Remembered(pending) /\ RememberedDone(completion)
        /\ \A i \in 1..n : /\ Apart(log[i].prepared, pending)
                           /\ ApartDone(log[i].completed, completion)
    BY <1>0, <2>2 DEF IdentityInv
  <2>4. \A i \in 1..(n + 1) : Remembered(log'[i].prepared) /\ RememberedDone(log'[i].completed)
    BY <2>1, <2>3
  <2>5. \A i \in 1..(n + 1) : Remembered(log[i].prepared)' /\ RememberedDone(log[i].completed)'
    BY <2>4, <1>4 DEF Commit, Remembered, RememberedDone
  <2>6. \A i, k \in 1..(n + 1) : i < k =>
           /\ Apart(log'[i].prepared, log'[k].prepared)
           /\ ApartDone(log'[i].completed, log'[k].completed)
    <3> SUFFICES ASSUME NEW i \in 1..(n + 1), NEW k \in 1..(n + 1), i < k
                 PROVE  /\ Apart(log'[i].prepared, log'[k].prepared)
                        /\ ApartDone(log'[i].completed, log'[k].completed)
      OBVIOUS
    <3>1. CASE k <= n
      BY <3>1, <1>0, <2>1 DEF IdentityInv
    <3>2. CASE k = n + 1
      BY <3>2, <2>1, <2>3
    <3> QED BY <3>1, <3>2
  <2> QED BY <2>1, <2>2, <2>5, <2>6 DEF IdentityInv, Apart, ApartDone
<1>5. CASE UNCHANGED vars
  BY <1>1, <1>5 DEF vars
<1>6. CASE AbortPending \/ \E e \in Epochs : BeginEpoch(e)
  BY <1>1, <1>6 DEF AbortPending, BeginEpoch, Abort
<1> QED BY <1>2, <1>3, <1>4, <1>5, <1>6 DEF Next

\* No payload, transition or sample identity is ever committed twice.
THEOREM IdentitiesAlwaysUsedOnce == Spec => []IdentitiesUsedOnce
<1>1. Init => IdentityInv
  BY DEF Init, IdentityInv
<1>2. TypeOK /\ IdentityInv => IdentitiesUsedOnce
  BY DEF IdentityInv, IdentitiesUsedOnce, Apart, ApartDone, ObservationAt
<1> QED BY <1>1, <1>2, IdentityStep, TypeCorrect, PTL DEF Spec

-----------------------------------------------------------------------------
(* Time                                                                    *)

\* What p used lies at or behind the marks kept for its epoch.
Behind(p) ==
    /\ p.observation.tick <= ticks[p.observation.epoch]
    /\ \A s \in Sources : p.sources[s].sequence <= sequences[p.observation.epoch][s]

Earlier(p, q) ==
    /\ p.observation.tick < q.observation.tick
    /\ \A s \in Sources : p.sources[s].sequence < q.sources[s].sequence

TimeInv ==
    /\ \A i \in 1..Len(log) : Behind(log[i].prepared)
    /\ pending # None =>
          /\ pending.observation.epoch = epoch /\ Behind(pending)
          /\ \A i \in 1..Len(log) : EpochAt(i) = epoch => Earlier(log[i].prepared, pending)
    /\ \A i, k \in 1..Len(log) : (i < k /\ EpochAt(i) = EpochAt(k)) =>
          Earlier(log[i].prepared, log[k].prepared)

\* Outside prepare the marks do not move.
LEMMA TimeStep == TypeOK /\ TimeInv /\ [Next]_vars => TimeInv'
<1> SUFFICES ASSUME TypeOK, TimeInv, [Next]_vars
             PROVE  TimeInv'
  OBVIOUS
<1>0. PICK n \in Nat : n = Len(log)
  BY DEF TypeOK
<1>l. \A i \in 1..n : log[i].prepared \in Transactions
  <2>1. \A i \in 1..n : log[i] \in Commits
    BY <1>0 DEF TypeOK
  <2> QED BY <2>1 DEF Commits
<1>1. CASE /\ pending' = None \/ (pending' = pending /\ epoch' = epoch)
           /\ log' = log /\ ticks' = ticks /\ sequences' = sequences
  BY <1>1 DEF TimeInv, Behind, Earlier, EpochAt
<1>2. ASSUME NEW observation \in Identities, NEW action \in Ids, NEW given \in Samples,
             Prepare(observation, action, given)
      PROVE  TimeInv'
  <2>1. /\ log' = log /\ epoch' = epoch
        /\ pending' = [observation |-> observation, action |-> action, sources |-> given]
        /\ ticks' = [ticks EXCEPT ![epoch] = observation.tick]
        /\ sequences' = [sequences EXCEPT ![epoch] = [s \in Sources |-> given[s].sequence]]
        /\ observation.epoch = epoch /\ observation.tick > ticks[epoch]
        /\ \A s \in Sources : given[s].sequence > sequences[epoch][s]
    BY <1>2 DEF Prepare, LastTick, FreshSamples
  <2>t. /\ epoch \in Epochs /\ ticks \in [Epochs -> -1..MaxTick]
        /\ sequences \in [Epochs -> [Sources -> -1..MaxSequence]]
        /\ observation.tick \in Int /\ \A s \in Sources : given[s].sequence \in Int
        /\ MaxTick \in Nat /\ MaxSequence \in Nat
    BY CausalAssumption DEF TypeOK, Identities, Samples
  <2>2. ASSUME NEW i \in 1..n
        PROVE  /\ Behind(log[i].prepared)'
               /\ EpochAt(i) = epoch => Earlier(log[i].prepared, pending)'
    <3> DEFINE p == log[i].prepared
    <3>1. Behind(p)
      BY <1>0 DEF TimeInv
    <3>2. /\ p.observation.epoch \in Epochs /\ p.observation.tick \in Int
          /\ \A s \in Sources : p.sources[s].sequence \in Int
      BY <1>l DEF Transactions, Identities, Samples
    <3>3. CASE p.observation.epoch = epoch
      <4>1. p.observation.tick < observation.tick
        BY <2>1, <2>t, <3>1, <3>2, <3>3 DEF Behind
      <4>2. \A s \in Sources : p.sources[s].sequence < given[s].sequence
        BY <2>1, <2>t, <3>1, <3>2, <3>3 DEF Behind
      <4>3. ticks'[epoch] = observation.tick
        BY <2>1, <2>t
      <4>4. \A s \in Sources : sequences'[epoch][s] = given[s].sequence
        BY <2>1, <2>t
      <4>5. /\ p.observation.tick <= ticks'[epoch]
            /\ \A s \in Sources : p.sources[s].sequence <= sequences'[epoch][s]
        BY <4>1, <4>2, <4>3, <4>4, <2>t, <3>2
      <4> QED BY <4>1, <4>2, <4>5, <3>3, <2>1 DEF Behind, Earlier
    <3>4. CASE p.observation.epoch # epoch
      <4>1. /\ ticks'[p.observation.epoch] = ticks[p.observation.epoch]
            /\ sequences'[p.observation.epoch] = sequences[p.observation.epoch]
        BY <2>1, <2>t, <3>2, <3>4
      <4> QED BY <4>1, <3>1, <3>4, <2>1 DEF Behind, EpochAt
    <3> QED BY <3>3, <3>4
  <2>3. Behind(pending)'
    <3>1. ticks'[epoch] = observation.tick
      BY <2>1, <2>t
    <3>2. \A s \in Sources : sequences'[epoch][s] = given[s].sequence
      BY <2>1, <2>t
    <3> QED BY <3>1, <3>2, <2>1, <2>t DEF Behind
  <2>4. \A i, k \in 1..n : (i < k /\ EpochAt(i) = EpochAt(k)) =>
           Earlier(log[i].prepared, log[k].prepared)
    BY <1>0 DEF TimeInv
  <2> QED BY <1>0, <2>1, <2>2, <2>3, <2>4 DEF TimeInv, EpochAt, Earlier
<1>3. CASE Commit
  <2>1. /\ Len(log') = n + 1
        /\ \A i \in 1..n : log'[i] = log[i]
        /\ log'[n + 1].prepared = pending
    BY <1>0, <1>3, LogAfterCommit
  <2>2. /\ pending # None /\ pending' = None /\ epoch' = epoch
        /\ ticks' = ticks /\ sequences' = sequences
    BY <1>3 DEF Commit, Abort
  <2>3. \A i \in 1..(n + 1) : Behind(log'[i].prepared)
    BY <1>0, <2>1, <2>2 DEF TimeInv
  <2>4. ASSUME NEW i \in 1..(n + 1), NEW k \in 1..(n + 1), i < k,
               log'[i].prepared.observation.epoch = log'[k].prepared.observation.epoch
        PROVE  Earlier(log'[i].prepared, log'[k].prepared)
    <3>1. CASE k <= n
      BY <3>1, <1>0, <2>1, <2>4 DEF TimeInv, EpochAt
    <3>2. CASE k = n + 1
      BY <3>2, <1>0, <2>1, <2>2, <2>4 DEF TimeInv, EpochAt
    <3> QED BY <3>1, <3>2
  <2> QED BY <2>1, <2>2, <2>3, <2>4 DEF TimeInv, EpochAt, Behind, Earlier
<1>4. CASE \/ AbortPending \/ UNCHANGED vars \/ \E e \in Epochs : BeginEpoch(e)
           \/ \E native, transition \in Ids, successor \in Identities :
                 CompleteTransition(native, transition, successor)
  BY <1>1, <1>4 DEF AbortPending, BeginEpoch, CompleteTransition, Abort, vars
<1> QED BY <1>2, <1>3, <1>4 DEF Next

\* Within an epoch ticks and source sequences of commits strictly increase.
THEOREM TimeAlwaysForward == Spec => []TimeMovesForward
<1>1. Init => TimeInv
  BY DEF Init, TimeInv
<1>2. TimeInv => TimeMovesForward
  BY DEF TimeInv, TimeMovesForward, Earlier, EpochAt, ObservationAt
<1> QED BY <1>1, <1>2, TimeStep, TypeCorrect, PTL DEF Spec
=============================================================================
