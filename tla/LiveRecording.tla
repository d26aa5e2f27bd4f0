--------------------------- MODULE LiveRecording ---------------------------
(***************************************************************************)
(* LiveRecording and ExplicitFrameSampler (tools/isaac_vr_recording.py):   *)
(* one technical episode's buffers.  Every row holds the observation O_t   *)
(* it was asked for and the successor O_(t+1) captured after the action;   *)
(* the successor is promoted to be the next O_t without sampling again.    *)
(*                                                                         *)
(* An episode is a value.  The operators return what a method leaves of    *)
(* it; where the method raises, the caller takes the operator that says    *)
(* what the exception leaves behind.                                       *)
(***************************************************************************)
EXTENDS Absent, Naturals, Sequences

VARIABLES
    recording,  \* run_s2's open LiveRecording, None without one
    sealed      \* the last sealed episode (history)

recorder == <<recording, sealed>>

\* RecordedObservationToken: its capture sequence, reset epoch and physics
\* step, which is also its state generation.
Tokens == [sequence : Nat, resets : Nat, step : Nat]
Buffers == Tokens \cup {None}
\* A row: its two tokens and what the caller's transition says of its action.
Rows(actions) == [observed : Tokens, successor : Tokens, action : actions]

Episodes(actions) ==
    [episode : Nat, committed : Nat, captures : Nat, failed : BOOLEAN,
     pending : Buffers, successor : Buffers, promoted : Buffers, terminal : Buffers,
     rows : Seq(Rows(actions))]

Outcomes == {"operator_stopped", "aborted", "failure"}

Opened(episode) ==
    [episode |-> episode, committed |-> 0, captures |-> 0, failed |-> FALSE,
     pending |-> None, successor |-> None, promoted |-> None, terminal |-> None,
     rows |-> << >>]

\* _capture_new_observation at the boundary of reset epoch resets and step.
NewToken(r, resets, step) == [sequence |-> r.captures, resets |-> resets, step |-> step]

\* Mutant: every observation is sampled.
CapturedAnew(r, resets, step) ==
    [r EXCEPT !.pending = NewToken(r, resets, step), !.promoted = None, !.captures = @ + 1]

\* capture_observation() returns the promoted successor rather than sample.
Captured(r, resets, step) ==
    IF r.promoted # None
    THEN [r EXCEPT !.pending = r.promoted, !.promoted = None]
    ELSE [r EXCEPT !.pending = NewToken(r, resets, step), !.captures = @ + 1]

SuccessorCaptured(r, resets, step) ==
    [r EXCEPT !.successor = NewToken(r, resets, step), !.captures = @ + 1]

\* Mutant: the rejected tick takes the terminal successor with it.
DiscardedWhole(r) == [r EXCEPT !.pending = None, !.successor = None, !.terminal = None]

Discarded(r) == [r EXCEPT !.pending = None, !.successor = None]

\* commit_transition
Appended(r, action) ==
    [r EXCEPT !.rows = Append(@, [observed |-> r.pending, successor |-> r.successor,
                                  action |-> action])]

Committed(r, action) ==
    [Appended(r, action) EXCEPT
        !.committed = @ + 1, !.terminal = r.successor, !.promoted = r.successor,
        !.pending = None, !.successor = None]

\* commit_transition raised: before, in the middle of or after the append, or
\* in the flush that follows the count.
CommitFailures(r, action) ==
    {[c EXCEPT !.failed = TRUE, !.pending = None, !.successor = None] :
        c \in {r, Appended(r, action), Committed(r, action)}}

\* seal(): what the episode is finished as, whatever outcome was asked for.
Effective(r, outcome) ==
    IF r.failed THEN "failure"
    ELSE IF r.committed = 0 /\ outcome = "operator_stopped" THEN "aborted"
    ELSE outcome

Seal(r, outcome) ==
    /\ sealed' = [outcome |-> Effective(r, outcome), committed |-> r.committed,
                  terminal |-> r.terminal, rows |-> r.rows]
    /\ recording' = None

\* seal() of the recording, when there is one.
SealAny(r, outcome) == IF r = None THEN UNCHANGED recorder ELSE Seal(r, outcome)
=============================================================================
