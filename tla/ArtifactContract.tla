-------------------------- MODULE ArtifactContract --------------------------
(***************************************************************************)
(* What a recording session promises the operator lifecycle about the      *)
(* technical episodes it owns, with the threads, the queue and the files   *)
(* left out: one episode records at a time, a sealed episode settles once  *)
(* and for good as finalized or failed, and when close() has returned none *)
(* is still open or waiting.  RecordingSession implements it and           *)
(* HumanRecording is composed with it.                                     *)
(***************************************************************************)
CONSTANTS Artifacts, First

VARIABLES artifact, open

States == {"absent", "recording", "sealed", "finalized", "failed"}

ContractInit ==
    /\ artifact = [e \in Artifacts |-> IF e = First THEN "recording" ELSE "absent"]
    /\ open = TRUE

InState(s) == {e \in Artifacts : artifact[e] = s}

Open(e) ==
    /\ open /\ InState("recording") = {} /\ artifact[e] = "absent"
    /\ artifact' = [artifact EXCEPT ![e] = "recording"]
    /\ UNCHANGED open

\* An episode that never sealed: its start or its seal raised.
Abandon(e) ==
    /\ open /\ artifact[e] \in {"absent", "recording"}
    /\ artifact' = [artifact EXCEPT ![e] = "failed"]
    /\ UNCHANGED open

Seal(e) ==
    /\ open /\ artifact[e] = "recording"
    /\ artifact' = [artifact EXCEPT ![e] = "sealed"]
    /\ UNCHANGED open

\* Finalization finishes for the sealed episodes of "some".
Settle(some, verdict) ==
    /\ some \subseteq InState("sealed") /\ verdict \in {"finalized", "failed"}
    /\ artifact' = [e \in Artifacts |-> IF e \in some THEN verdict ELSE artifact[e]]
    /\ UNCHANGED open

CloseSession ==
    /\ open /\ InState("recording") = {} /\ InState("sealed") = {}
    /\ open' = FALSE
    /\ UNCHANGED artifact

ContractNext ==
    \/ \E e \in Artifacts : Open(e) \/ Abandon(e) \/ Seal(e)
    \/ \E some \in SUBSET InState("sealed"), verdict \in {"finalized", "failed"} :
           Settle(some, verdict)
    \/ CloseSession

Contract == ContractInit /\ [][ContractNext]_<<artifact, open>>
=============================================================================
