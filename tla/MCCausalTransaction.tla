------------------------ MODULE MCCausalTransaction ------------------------
(***************************************************************************)
(* CausalTransaction for TLC.  Ids only matter by being new or used, so    *)
(* the caller draws them in order: a used id, or the least new one.        *)
(***************************************************************************)
EXTENDS CausalTransaction, FiniteSets

Drawn(used) == {i \in Ids : i <= Cardinality(used) + 1}

DrawnSamples == {given \in Samples : \A s \in Sources : given[s].id \in Drawn(sampled[s])}

\* An identity of another epoch would be rejected and change nothing.
DrawnObservations ==
    [epoch : {epoch}, tick : 0..(MaxTick + 1), id : Drawn(ids["observation"]), digest : Digests]

MCNext ==
    \/ \E e \in Epochs : BeginEpoch(e)
    \/ \E observation \in DrawnObservations, action \in Drawn(ids["action"]),
          given \in DrawnSamples : Prepare(observation, action, given)
    \/ \E native \in Drawn(ids["native"]), transition \in Drawn(ids["transition"]),
          successor \in DrawnObservations :
           CompleteTransition(native, transition, successor)
    \/ Commit
    \/ AbortPending

MCSpec == Init /\ [][MCNext]_vars
=============================================================================
