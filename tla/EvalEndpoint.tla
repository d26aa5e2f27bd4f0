---------------------------- MODULE EvalEndpoint ----------------------------
(***************************************************************************)
(* tools/isaac_eval_rpc.py: the IsaacEvalEndpoint of one evaluation run,   *)
(* its bounded request cache and its episodes, for a caller that sends     *)
(* anything in any order.  A payload is its request record, which is what  *)
(* _canonical_fingerprint identifies.  The lock makes one handled request  *)
(* one step.  EvalRpc puts the endpoint behind its socket.                 *)
(***************************************************************************)
EXTENDS Naturals, Sequences, FiniteSets

CONSTANTS
    Ids,           \* request ids
    Episodes,      \* episode ids
    NEpisodes,     \* handshake n_episodes
    Horizon,       \* handshake horizon
    None           \* Python's None

Resets == [op : {"reset"}, episode : Episodes]
Steps == [op : {"step"}, episode : Episodes, index : 0..Horizon]
Aborts == [op : {"abort"}, episode : Episodes]
Closes == [op : {"close"}]
Requests == Resets \cup Steps \cup Aborts \cup Closes

\* "observation" numbers the environment call the answer was computed from.
Answered == [kind : {"answer"}, observation : Nat]
Refused == [kind : {"protocol_error", "infrastructure_failure"}]
Results == Answered \cup Refused
Entries == [request : Requests, result : Results]

ASSUME EndpointAssumption ==
    /\ NEpisodes \in Nat \ {0} /\ Horizon \in Nat \ {0}
    /\ None \notin Episodes /\ None \notin Entries

VARIABLES
    cache,     \* _cache
    active,    \* _active_episode
    next,      \* _next_step_index
    started,   \* _started_episodes
    closed,    \* closed
    executed   \* the calls the environment has had, in order

endpoint == <<cache, active, next, started, closed, executed>>

EndpointInit ==
    /\ cache = [i \in Ids |-> None] /\ active = None /\ next = 0
    /\ started = {} /\ closed = FALSE
    /\ executed = << >>

-----------------------------------------------------------------------------
(* IsaacEvalEndpoint._execute                                              *)

Answer == [kind |-> "answer", observation |-> Len(executed')]
ProtocolError == [kind |-> "protocol_error"]
InfrastructureFailure == [kind |-> "infrastructure_failure"]

\* Mutant of Capacity: no room for the aborts.
CapacityWithoutAborts == NEpisodes * (Horizon + 1) + 1

Capacity == NEpisodes * (Horizon + 2) + 1

Cached == {i \in Ids : cache[i] # None}

Store(i, r, result) == cache' = [cache EXCEPT ![i] = [request |-> r, result |-> result]]

\* A call of the environment, whatever comes of it.
Call(i, r, ok) == executed' = Append(executed, [id |-> i, request |-> r, ok |-> ok])

CloseAllowed == active = None
AbortAllowed(r) == active = r.episode

\* Mutant of StepAllowed: any index is taken.
StepAnyIndex(r) == active = r.episode /\ next < Horizon

StepAllowed(r) == active = r.episode /\ r.index = next /\ next < Horizon
ResetAllowed(r) ==
    /\ active = None /\ r.episode \notin started
    /\ Cardinality(started) < NEpisodes

Allowed(r) ==
    \/ r.op = "reset" /\ ResetAllowed(r)
    \/ r.op = "step" /\ StepAllowed(r)
    \/ r.op = "abort" /\ AbortAllowed(r)
    \/ r.op = "close" /\ CloseAllowed

\* The effects of an operation that succeeds.  A response the JSON codec
\* refuses is a failure only after the effects.
Close(i, r) ==
    /\ r.op = "close" /\ closed' = TRUE
    /\ UNCHANGED <<active, next, started, executed>>
    /\ Store(i, r, Answer)

Abort(i, r) ==
    /\ r.op = "abort" /\ active' = None
    /\ UNCHANGED <<next, started, closed, executed>>
    /\ Store(i, r, Answer)

Step(i, r) ==
    /\ r.op = "step" /\ Call(i, r, TRUE)
    /\ next' = next + 1
    /\ active' \in {active, None}               \* terminated or truncated
    /\ UNCHANGED <<started, closed>>
    /\ \E result \in {Answer, InfrastructureFailure} : Store(i, r, result)

Reset(i, r) ==
    /\ r.op = "reset" /\ Call(i, r, TRUE)
    /\ active' = r.episode /\ started' = started \cup {r.episode} /\ next' = 0
    /\ UNCHANGED closed
    /\ \E result \in {Answer, InfrastructureFailure} : Store(i, r, result)

Reject(i, r) ==
    /\ ~Allowed(r)
    /\ UNCHANGED <<active, next, started, closed, executed>>
    /\ Store(i, r, ProtocolError)

\* environment.reset or environment.step raised.
NativeFails(i, r) ==
    /\ r.op \in {"reset", "step"} /\ Call(i, r, FALSE)
    /\ UNCHANGED <<active, next, started, closed>>
    /\ Store(i, r, InfrastructureFailure)

Execute(i, r) ==
    \/ Reject(i, r)
    \/ Allowed(r) /\ (Close(i, r) \/ Abort(i, r) \/ Step(i, r) \/ Reset(i, r) \/ NativeFails(i, r))

-----------------------------------------------------------------------------
(* IsaacEvalEndpoint.handle                                                *)

Admitted(i) == cache[i] = None /\ ~closed /\ Cardinality(Cached) < Capacity

\* The reply to an id already seen, or to one the run has no room for.
Reply(i, r) ==
    IF cache[i] = None THEN InfrastructureFailure
    ELSE IF cache[i].request = r THEN cache[i].result
    ELSE ProtocolError

\* At most one execution per request id; all others change nothing.
EndpointNext == \E i \in Ids, r \in Requests : Admitted(i) /\ Execute(i, r)

EndpointSpec == EndpointInit /\ [][EndpointNext]_endpoint

-----------------------------------------------------------------------------
(* Correctness                                                             *)

\* Call j is the last one before the k-th that succeeded.
LastBefore(j, k) ==
    /\ j \in 1..(k - 1) /\ executed[j].ok
    /\ \A m \in (j + 1)..(k - 1) : ~executed[m].ok

\* Call j leaves episode e where step n is the next.
Leads(j, e, n) ==
    /\ executed[j].request.episode = e
    /\ IF n = 0 THEN executed[j].request.op = "reset"
       ELSE executed[j].request.op = "step" /\ executed[j].request.index = n - 1

\* The transitions of an episode are contiguous: its reset, then steps 0, 1,
\* 2, ... of that episode only, whatever was lost or retried in between.
EpisodesAreContiguous ==
    \A k \in DOMAIN executed :
        executed[k].ok /\ executed[k].request.op = "step" =>
            \E j \in 1..(k - 1) :
                /\ LastBefore(j, k)
                /\ Leads(j, executed[k].request.episode, executed[k].request.index)

\* What was executed and answered never fills the run's declared capacity
\* ("reset + every possible step + abort per episode + final close"), whatever
\* else was refused or failed in between: until the run is closed, only
\* requests without an answer can have taken the room of the next one, and
\* each of them takes no more than its own.
CapacitySuffices ==
    ~closed => Cardinality({i \in Cached : cache[i].result.kind = "answer"}) < Capacity
=============================================================================
