---------------------------- MODULE EvalRpc_proofs ----------------------------
(***************************************************************************)
(* Proofs about EvalEndpoint and EvalRpc for every set of request and      *)
(* episode ids, every number of episodes, horizon and number of endpoint   *)
(* processes: episodes are contiguous, the capacity is enough, and a       *)
(* request is executed at most once and answered with its own response.    *)
(***************************************************************************)
EXTENDS EvalRpc, TLAPS, FiniteSetTheorems, SequenceTheorems

-----------------------------------------------------------------------------
(* The endpoint's invariant                                                *)

EnvironmentCalls == [id : Ids, request : Resets \cup Steps, ok : BOOLEAN]

EndpointTypeOK ==
    /\ cache \in [Ids -> Entries \cup {None}]
    /\ active \in Episodes \cup {None}
    /\ next \in 0..Horizon
    /\ started \in SUBSET Episodes
    /\ closed \in BOOLEAN
    /\ executed \in Seq(EnvironmentCalls)

\* An active episode is where its last successful call left it.
Running ==
    active # None =>
        \E j \in DOMAIN executed :
            LastBefore(j, Len(executed) + 1) /\ Leads(j, active, next)

\* Entries the active episode may still need beside the one it has.
Outstanding == IF active = None THEN 0 ELSE Horizon - next + 1

Fruitful == {i \in Cached : cache[i].result.kind = "answer"}

\* Until the close, every entry with an answer is one of the reset, the steps
\* and the abort of an episode that was started.
Budget ==
    /\ IsFiniteSet(Cached) /\ IsFiniteSet(started)
    /\ Cardinality(started) <= NEpisodes
    /\ ~closed =>
           Cardinality(Fruitful) + Outstanding <= Cardinality(started) * (Horizon + 2)

\* The call number x was made for request r under id i, and succeeded.
CallFor(x, i, r) ==
    x \in DOMAIN executed /\ executed[x] = [id |-> i, request |-> r, ok |-> TRUE]

\* An answer in the cache names the call it was computed from.
Recorded ==
    \A i \in Cached :
        cache[i].result.kind = "answer" /\ cache[i].request.op \in {"reset", "step"} =>
            CallFor(cache[i].result.observation, i, cache[i].request)

EndpointInv ==
    EndpointTypeOK /\ Running /\ EpisodesAreContiguous /\ Budget /\ Recorded

-----------------------------------------------------------------------------
(* The invariant of the run                                                *)

\* The answer the client is about to get, and those it has got.
Due == IF waiting # None /\ outbox # None
       THEN {[id |-> waiting.id, request |-> waiting.request,
              result |-> outbox.result, instance |-> known]}
       ELSE {}
Given == answers \cup Due

Answers == [id : Ids, request : Requests, result : Results, instance : Nat]

RpcTypeOK ==
    /\ instance \in Nat \ {0} /\ known \in Nat
    /\ server \in {"accepting", "serving", "down"}
    /\ peer \in {"open", "eof", "reset"}
    /\ inbox \in Messages \cup {None}
    /\ outbox \in Responses \cup {None}
    /\ conn \in {"none", "queued", "greeted", "served", "dead"}
    /\ waiting \in Messages \cup {None}
    /\ answers \in SUBSET Answers

\* The two ends of the socket agree; a request is in it only while it is
\* waited for or its connection is abandoned, a response only for its request.
Wire ==
    /\ conn \in {"greeted", "served"} <=> server = "serving" /\ peer = "open"
    /\ conn \in {"none", "queued", "greeted"} => waiting = None
    /\ waiting = None => outbox = None
    /\ server # "serving" => inbox = None
    /\ conn = "greeted" => inbox = None
    /\ conn = "served" =>
           \/ waiting = None /\ inbox = None
           \/ waiting # None /\ inbox = waiting /\ outbox = None
           \/ waiting # None /\ inbox = None /\ outbox # None
    /\ waiting # None /\ outbox # None => outbox.id = waiting.id

\* Only the first endpoint the client met ever gets a request of it.
OneEndpoint ==
    /\ known <= instance
    /\ conn = "served" => known = instance
    /\ known # instance => inbox = None /\ Cached = {}
    /\ known = 0 => executed = << >> /\ Given = {}
    /\ known = instance => \A j \in DOMAIN executed : executed[j].id \in Cached

\* While that endpoint lives every answer is the one it would give again.
Standing ==
    known = instance =>
        \A a \in Given : ~Admitted(a.id) /\ a.result = Reply(a.id, a.request)

Once == \A j, k \in DOMAIN executed : executed[j].id = executed[k].id => j = k

\* Answers name their call and agree, whether or not the endpoint still lives.
Truthful ==
    /\ \A a \in Given :
           /\ a.instance = known
           /\ a.request.op \in {"reset", "step"} /\ a.result.kind = "answer" =>
                  CallFor(a.result.observation, a.id, a.request)
    /\ \A a, b \in Given : a.id = b.id /\ a.request = b.request => a.result = b.result

RpcInv == EndpointInv /\ RpcTypeOK /\ Wire /\ OneEndpoint /\ Standing /\ Once /\ Truthful

-----------------------------------------------------------------------------
(* Lemmas about the endpoint                                              *)

LEMMA ResultTypes ==
    /\ ProtocolError \in Results /\ InfrastructureFailure \in Results
    /\ ProtocolError.kind # "answer" /\ InfrastructureFailure.kind # "answer"
BY DEF ProtocolError, InfrastructureFailure, Results, Refused

LEMMA AnswerType ==
    ASSUME executed' \in Seq(EnvironmentCalls)
    PROVE  Answer \in Results /\ Answer.kind = "answer" /\ Answer.observation = Len(executed')
BY DEF Answer, Results, Answered

\* An admitted request takes one entry.
LEMMA Stored ==
    ASSUME EndpointTypeOK, IsFiniteSet(Cached), NEW i \in Ids, Admitted(i),
           NEW r \in Requests, NEW res \in Results, Store(i, r, res)
    PROVE  /\ cache' \in [Ids -> Entries \cup {None}]
           /\ cache'[i] = [request |-> r, result |-> res]
           /\ \A k \in Ids \ {i} : cache'[k] = cache[k]
           /\ Cached' = Cached \cup {i} /\ i \notin Cached
           /\ IsFiniteSet(Cached')
           /\ Cardinality(Cached) \in Nat
           /\ Cardinality(Cached') = Cardinality(Cached) + 1
<1>1. [request |-> r, result |-> res] \in Entries
  BY DEF Entries
<1>2. /\ cache' \in [Ids -> Entries \cup {None}]
      /\ cache'[i] = [request |-> r, result |-> res]
      /\ \A k \in Ids \ {i} : cache'[k] = cache[k]
  BY <1>1 DEF EndpointTypeOK, Store
<1>3. Cached' = Cached \cup {i} /\ i \notin Cached
  BY <1>1, <1>2, EndpointAssumption DEF Cached, Admitted
<1> QED BY <1>2, <1>3, FS_AddElement, FS_CardinalityType

\* A call of the environment is appended to those it has had.
LEMMA Called ==
    ASSUME EndpointTypeOK, NEW i \in Ids, NEW r \in Resets \cup Steps,
           NEW ok \in BOOLEAN, Call(i, r, ok)
    PROVE  /\ executed' \in Seq(EnvironmentCalls)
           /\ Len(executed) \in Nat /\ Len(executed') = Len(executed) + 1
           /\ DOMAIN executed = 1..Len(executed)
           /\ DOMAIN executed' = 1..(Len(executed) + 1)
           /\ executed'[Len(executed) + 1] = [id |-> i, request |-> r, ok |-> ok]
           /\ \A j \in DOMAIN executed : executed'[j] = executed[j]
<1>1. [id |-> i, request |-> r, ok |-> ok] \in EnvironmentCalls
  BY DEF EnvironmentCalls
<1>2. executed \in Seq(EnvironmentCalls) /\ Len(executed) \in Nat
  BY DEF EndpointTypeOK
<1> QED BY <1>1, <1>2, AppendProperties DEF Call

\* What earlier calls say of an episode, they say after another one too.
LEMMA CalledBefore ==
    ASSUME EndpointTypeOK, NEW i \in Ids, NEW r \in Resets \cup Steps,
           NEW ok \in BOOLEAN, Call(i, r, ok), NEW j \in Int,
           NEW k \in 1..(Len(executed) + 1), LastBefore(j, k)
    PROVE  /\ j \in DOMAIN executed
           /\ LastBefore(j, k)'
           /\ \A e, n : Leads(j, e, n) => Leads(j, e, n)'
<1>0. /\ Len(executed) \in Nat /\ DOMAIN executed = 1..Len(executed)
      /\ \A x \in DOMAIN executed : executed'[x] = executed[x]
  BY Called
<1>1. j \in DOMAIN executed /\ \A x \in 1..(k - 1) : executed'[x] = executed[x]
  BY <1>0 DEF LastBefore
<1>2. j \in 1..(k - 1) /\ \A x \in (j + 1)..(k - 1) : x \in 1..(k - 1)
  BY DEF LastBefore
<1>3. LastBefore(j, k)'
  BY <1>1, <1>2 DEF LastBefore
<1>4. executed'[j] = executed[j]
  BY <1>1, <1>2
<1> QED BY <1>1, <1>3, <1>4 DEF Leads

\* Contiguity survives a call that fails, a reset, and the step that is next.
LEMMA ContiguousCall ==
    ASSUME EndpointInv, NEW i \in Ids, NEW r \in Resets \cup Steps,
           NEW ok \in BOOLEAN, Call(i, r, ok),
           r.op = "step" => StepAllowed(r)
    PROVE  EpisodesAreContiguous'
<1>0. EndpointTypeOK /\ Running /\ EpisodesAreContiguous
  BY DEF EndpointInv
<1> DEFINE Contiguous(k) ==
      executed[k].ok /\ executed[k].request.op = "step" =>
          \E j \in 1..(k - 1) :
              /\ LastBefore(j, k)
              /\ Leads(j, executed[k].request.episode, executed[k].request.index)
<1> SUFFICES ASSUME NEW k \in 1..(Len(executed) + 1) PROVE Contiguous(k)'
  BY <1>0, Called DEF EpisodesAreContiguous
<1>1. CASE k \in DOMAIN executed
  <2> SUFFICES ASSUME executed[k].ok, executed[k].request.op = "step"
               PROVE  \E j \in 1..(k - 1) :
                          /\ LastBefore(j, k)'
                          /\ Leads(j, executed[k].request.episode,
                                   executed[k].request.index)'
    BY <1>0, <1>1, Called
  <2>1. PICK j \in 1..(k - 1) :
          /\ LastBefore(j, k)
          /\ Leads(j, executed[k].request.episode, executed[k].request.index)
    BY <1>0, <1>1 DEF EpisodesAreContiguous
  <2>2. LastBefore(j, k)' /\ j \in DOMAIN executed
        /\ \A e, n : Leads(j, e, n) => Leads(j, e, n)'
    BY <1>0, <2>1, CalledBefore
  <2>3. executed'[k] = executed[k] /\ executed'[j] = executed[j]
    BY <1>0, <1>1, <2>2, Called
  <2> QED BY <2>1, <2>2, <2>3 DEF Leads
<1>2. CASE k = Len(executed) + 1
  <2>1. executed'[k] = [id |-> i, request |-> r, ok |-> ok]
    BY <1>0, <1>2, Called
  <2> SUFFICES ASSUME r.op = "step"
               PROVE  \E j \in 1..(k - 1) :
                          LastBefore(j, k)' /\ Leads(j, r.episode, r.index)'
    BY <2>1 DEF Leads
  <2>2. r \in Steps /\ active = r.episode /\ r.index = next /\ active # None
    BY EndpointAssumption DEF StepAllowed, Resets, Steps
  <2>3. PICK j \in DOMAIN executed :
          LastBefore(j, Len(executed) + 1) /\ Leads(j, r.episode, r.index)
    BY <1>0, <2>2 DEF Running
  <2>4. j \in Int /\ j \in 1..(k - 1)
    BY <1>0, <1>2, <2>3, Called
  <2> QED BY <1>0, <1>2, <2>3, <2>4, CalledBefore
<1> QED BY <1>0, <1>1, <1>2, Called

\* An entry that names its call keeps naming it; so does the new one.
LEMMA RecordedCall ==
    ASSUME EndpointInv, NEW i \in Ids, Admitted(i), NEW r \in Requests,
           NEW res \in Results, Store(i, r, res),
           \A x \in DOMAIN executed : x \in DOMAIN executed' /\ executed'[x] = executed[x],
           res.kind = "answer" /\ r.op \in {"reset", "step"} =>
               CallFor(res.observation, i, r)'
    PROVE  Recorded'
<1>0. EndpointTypeOK /\ IsFiniteSet(Cached) /\ Recorded
  BY DEF EndpointInv, Budget
<1>2. \A x, j, q : CallFor(x, j, q) => CallFor(x, j, q)'
  BY DEF CallFor
<1> SUFFICES ASSUME NEW j \in Cached', cache'[j].result.kind = "answer",
                    cache'[j].request.op \in {"reset", "step"}
             PROVE  CallFor(cache[j].result.observation, j, cache[j].request)'
  BY DEF Recorded
<1>3. CASE j = i
  <2>1. cache'[i] = [request |-> r, result |-> res]
    BY <1>0, Stored
  <2> QED BY <1>3, <2>1 DEF CallFor
<1>4. CASE j # i
  <2>1. j \in Cached /\ j \in Ids /\ cache'[j] = cache[j]
    BY <1>0, <1>4, Stored DEF Cached
  <2>2. CallFor(cache[j].result.observation, j, cache[j].request)
    BY <1>0, <2>1 DEF Recorded
  <2> QED BY <1>2, <2>1, <2>2 DEF CallFor
<1> QED BY <1>3, <1>4

\* An answer is one fruitful entry more, any other result is none.
LEMMA AnswersCounted ==
    ASSUME EndpointTypeOK, IsFiniteSet(Cached), NEW i \in Ids, Admitted(i),
           NEW r \in Requests, NEW res \in Results, Store(i, r, res)
    PROVE  /\ Cardinality(Fruitful) \in Nat
           /\ res.kind = "answer" => Cardinality(Fruitful') = Cardinality(Fruitful) + 1
           /\ res.kind # "answer" => Fruitful' = Fruitful
<1>1. /\ cache'[i] = [request |-> r, result |-> res]
      /\ Cached' = Cached \cup {i} /\ i \notin Cached
      /\ \A k \in Ids \ {i} : cache'[k] = cache[k]
  BY Stored
<1>2. Cached \subseteq Ids \ {i}
  BY <1>1 DEF Cached
<1>3. Fruitful' = IF res.kind = "answer" THEN Fruitful \cup {i} ELSE Fruitful
  BY <1>1, <1>2 DEF Fruitful
<1>4. Fruitful \subseteq Cached /\ i \notin Fruitful
  BY <1>1 DEF Fruitful
<1>5. IsFiniteSet(Fruitful) /\ Cardinality(Fruitful) \in Nat
  BY <1>4, FS_Subset, FS_CardinalityType
<1> QED BY <1>3, <1>4, <1>5, FS_AddElement

-----------------------------------------------------------------------------
(* The endpoint's operations keep its invariant                            *)

LEMMA RejectStep ==
    ASSUME EndpointInv, NEW i \in Ids, NEW r \in Requests, Admitted(i), Reject(i, r)
    PROVE  EndpointInv'
<1>0. /\ EndpointTypeOK /\ Running /\ EpisodesAreContiguous /\ Budget /\ Recorded
      /\ Store(i, r, ProtocolError) /\ UNCHANGED <<active, next, started, closed, executed>>
  BY DEF EndpointInv, Reject
<1>1. /\ cache' \in [Ids -> Entries \cup {None}] /\ IsFiniteSet(Cached')
      /\ Fruitful' = Fruitful
  BY <1>0, Stored, AnswersCounted, ResultTypes DEF Budget
<1>2. EndpointTypeOK' /\ Running' /\ EpisodesAreContiguous'
  BY <1>0, <1>1 DEF EndpointTypeOK, Running, EpisodesAreContiguous, LastBefore, Leads
<1>3. Budget'
  BY <1>0, <1>1 DEF Budget, Outstanding
<1>4. Recorded'
  BY <1>0, RecordedCall, ResultTypes
<1> QED BY <1>2, <1>3, <1>4 DEF EndpointInv

LEMMA NativeFailsStep ==
    ASSUME EndpointInv, NEW i \in Ids, NEW r \in Requests, Admitted(i),
           Allowed(r), NativeFails(i, r)
    PROVE  EndpointInv'
<1>0. /\ EndpointTypeOK /\ Running /\ EpisodesAreContiguous /\ Budget /\ Recorded
      /\ Store(i, r, InfrastructureFailure) /\ Call(i, r, FALSE)
      /\ UNCHANGED <<active, next, started, closed>>
  BY DEF EndpointInv, NativeFails
<1>1. r \in Resets \cup Steps /\ (r.op = "step" => StepAllowed(r))
  BY DEF NativeFails, Allowed, Requests, Resets, Steps, Aborts, Closes
<1>2. /\ cache' \in [Ids -> Entries \cup {None}] /\ IsFiniteSet(Cached')
      /\ Fruitful' = Fruitful
  BY <1>0, Stored, AnswersCounted, ResultTypes DEF Budget
<1>3. /\ executed' \in Seq(EnvironmentCalls)
      /\ Len(executed) \in Nat /\ Len(executed') = Len(executed) + 1
      /\ DOMAIN executed = 1..Len(executed)
      /\ DOMAIN executed' = 1..(Len(executed) + 1)
      /\ executed'[Len(executed) + 1] = [id |-> i, request |-> r, ok |-> FALSE]
      /\ \A j \in DOMAIN executed : executed'[j] = executed[j]
  BY <1>0, <1>1, Called
<1>4. EndpointTypeOK'
  BY <1>0, <1>2, <1>3 DEF EndpointTypeOK
<1>5. Running'
  <2> SUFFICES ASSUME active # None
               PROVE  Running'
    BY <1>0 DEF Running
  <2>0. PICK n \in Nat : n = Len(executed)
    BY <1>3
  <2>1. PICK j \in DOMAIN executed :
          LastBefore(j, Len(executed) + 1) /\ Leads(j, active, next)
    BY <1>0 DEF Running
  <2>2. LastBefore(j, n + 2)'
    BY <1>3, <2>0, <2>1 DEF LastBefore
  <2>3. Leads(j, active, next)'
    BY <1>0, <1>3, <2>1 DEF Leads
  <2> QED BY <1>3, <2>0, <2>2, <2>3 DEF Running, LastBefore
<1>6. EpisodesAreContiguous'
  BY <1>0, <1>1, ContiguousCall
<1>7. Budget'
  BY <1>0, <1>2 DEF Budget, Outstanding
<1>8. Recorded'
  BY <1>0, <1>3, RecordedCall, ResultTypes
<1> QED BY <1>4, <1>5, <1>6, <1>7, <1>8 DEF EndpointInv

LEMMA CloseStep ==
    ASSUME EndpointInv, NEW i \in Ids, NEW r \in Requests, Admitted(i), Close(i, r)
    PROVE  EndpointInv'
<1>0. /\ EndpointTypeOK /\ Running /\ EpisodesAreContiguous /\ Budget /\ Recorded
      /\ Store(i, r, Answer) /\ UNCHANGED <<active, next, started, executed>>
      /\ closed' = TRUE /\ Answer \in Results /\ r.op = "close"
  BY AnswerType DEF EndpointInv, Close, EndpointTypeOK
<1>1. cache' \in [Ids -> Entries \cup {None}] /\ IsFiniteSet(Cached')
  BY <1>0, Stored DEF Budget
<1>2. EndpointTypeOK' /\ Running' /\ EpisodesAreContiguous'
  BY <1>0, <1>1 DEF EndpointTypeOK, Running, EpisodesAreContiguous, LastBefore, Leads
<1>3. Budget'
  BY <1>0, <1>1 DEF Budget, Outstanding
<1>4. Recorded'
  BY <1>0, RecordedCall
<1> QED BY <1>2, <1>3, <1>4 DEF EndpointInv

LEMMA AbortStep ==
    ASSUME EndpointInv, NEW i \in Ids, NEW r \in Requests, Admitted(i),
           Allowed(r), Abort(i, r)
    PROVE  EndpointInv'
<1>0. /\ EndpointTypeOK /\ Running /\ EpisodesAreContiguous /\ Budget /\ Recorded
      /\ Store(i, r, Answer) /\ UNCHANGED <<next, started, closed, executed>>
      /\ active' = None /\ Answer \in Results /\ r.op = "abort"
  BY AnswerType DEF EndpointInv, Abort, EndpointTypeOK
<1>1. /\ cache' \in [Ids -> Entries \cup {None}] /\ IsFiniteSet(Cached')
      /\ Cardinality(Fruitful) \in Nat
      /\ Cardinality(Fruitful') \in {Cardinality(Fruitful), Cardinality(Fruitful) + 1}
  BY <1>0, Stored, AnswersCounted DEF Budget
<1>2. EndpointTypeOK' /\ Running' /\ EpisodesAreContiguous'
  BY <1>0, <1>1 DEF EndpointTypeOK, Running, EpisodesAreContiguous, LastBefore, Leads
<1>3. Budget'
  <2>1. active # None
    BY <1>0, EndpointAssumption DEF Allowed, AbortAllowed, Requests, Aborts, Resets,
       Steps, Closes
  <2>2. next \in Nat /\ Horizon \in Nat /\ next <= Horizon
    BY <1>0, EndpointAssumption DEF EndpointTypeOK
  <2>3. Outstanding >= 1 /\ Outstanding \in Nat /\ Outstanding' = 0
    BY <1>0, <2>1, <2>2 DEF Outstanding
  <2>4. ~closed' =>
          Cardinality(Fruitful') + Outstanding' <= Cardinality(started') * (Horizon + 2)
    <3> DEFINE room == Cardinality(started) * (Horizon + 2)
    <3>1. room \in Int
      BY <1>0, EndpointAssumption, FS_CardinalityType DEF Budget
    <3>2. ~closed => Cardinality(Fruitful) + Outstanding <= room
      BY <1>0 DEF Budget
    <3> HIDE DEF room
    <3>3. ~closed' => Cardinality(Fruitful') + Outstanding' <= room
      BY <1>0, <1>1, <2>3, <3>1, <3>2
    <3> QED BY <1>0, <3>3 DEF room
  <2> QED BY <1>0, <1>1, <2>4 DEF Budget
<1>4. Recorded'
  BY <1>0, RecordedCall
<1> QED BY <1>2, <1>3, <1>4 DEF EndpointInv

LEMMA StepStep ==
    ASSUME EndpointInv, NEW i \in Ids, NEW r \in Requests, Admitted(i),
           Allowed(r), Step(i, r)
    PROVE  EndpointInv'
<1>0. /\ EndpointTypeOK /\ Running /\ EpisodesAreContiguous /\ Budget /\ Recorded
      /\ Call(i, r, TRUE) /\ UNCHANGED <<started, closed>>
      /\ next' = next + 1 /\ active' \in {active, None}
  BY DEF EndpointInv, Step
<1>1. /\ r \in Steps /\ r.op = "step" /\ StepAllowed(r)
      /\ active = r.episode /\ r.index = next /\ active # None
      /\ next \in Nat /\ next < Horizon /\ Horizon \in Nat
  BY <1>0, EndpointAssumption DEF Step, Allowed, StepAllowed, Requests, Steps, Resets,
     Aborts, Closes, EndpointTypeOK
<1>2. PICK res \in {Answer, InfrastructureFailure} : Store(i, r, res)
  BY DEF Step
<1>3. /\ executed' \in Seq(EnvironmentCalls)
      /\ Len(executed) \in Nat /\ Len(executed') = Len(executed) + 1
      /\ DOMAIN executed = 1..Len(executed)
      /\ DOMAIN executed' = 1..(Len(executed) + 1)
      /\ executed'[Len(executed) + 1] = [id |-> i, request |-> r, ok |-> TRUE]
      /\ \A j \in DOMAIN executed : executed'[j] = executed[j]
  BY <1>0, <1>1, Called
<1>4. /\ res \in Results
      /\ res.kind = "answer" => res.observation = Len(executed) + 1
  BY <1>2, <1>3, AnswerType, ResultTypes
<1>5. /\ cache' \in [Ids -> Entries \cup {None}] /\ IsFiniteSet(Cached')
      /\ Cardinality(Fruitful) \in Nat
      /\ Cardinality(Fruitful') \in {Cardinality(Fruitful), Cardinality(Fruitful) + 1}
  BY <1>0, <1>2, <1>4, Stored, AnswersCounted DEF Budget
<1>6. EndpointTypeOK'
  BY <1>0, <1>1, <1>3, <1>5 DEF EndpointTypeOK
<1>7. Running'
  <2>0. PICK n \in Nat : n = Len(executed)
    BY <1>3
  <2>1. LastBefore(n + 1, n + 2)' /\ n + 1 \in DOMAIN executed'
    BY <1>3, <2>0 DEF LastBefore
  <2>2. active' # None => Leads(n + 1, active, next)'
    BY <1>0, <1>1, <1>3, <2>0 DEF Leads
  <2> QED BY <1>3, <2>0, <2>1, <2>2 DEF Running, LastBefore
<1>8. EpisodesAreContiguous'
  BY <1>0, <1>1, ContiguousCall
<1>9. Budget'
  <2>1. Outstanding \in Nat /\ Outstanding' \in Nat /\ Outstanding' <= Outstanding - 1
    BY <1>0, <1>1 DEF Outstanding
  <2>2. ~closed' =>
          Cardinality(Fruitful') + Outstanding' <= Cardinality(started') * (Horizon + 2)
    <3> DEFINE room == Cardinality(started) * (Horizon + 2)
    <3>1. room \in Int
      BY <1>0, <1>1, FS_CardinalityType DEF Budget
    <3>2. ~closed => Cardinality(Fruitful) + Outstanding <= room
      BY <1>0 DEF Budget
    <3> HIDE DEF room
    <3>3. ~closed' => Cardinality(Fruitful') + Outstanding' <= room
      BY <1>0, <1>5, <2>1, <3>1, <3>2
    <3> QED BY <1>0, <3>3 DEF room
  <2> QED BY <1>0, <1>5, <2>2 DEF Budget
<1>10. Recorded'
  <2>1. res.kind = "answer" => CallFor(res.observation, i, r)'
    BY <1>3, <1>4 DEF CallFor
  <2> QED BY <1>0, <1>2, <1>3, <1>4, <2>1, RecordedCall
<1> QED BY <1>6, <1>7, <1>8, <1>9, <1>10 DEF EndpointInv

LEMMA ResetStep ==
    ASSUME EndpointInv, NEW i \in Ids, NEW r \in Requests, Admitted(i),
           Allowed(r), Reset(i, r)
    PROVE  EndpointInv'
<1>0. /\ EndpointTypeOK /\ Running /\ EpisodesAreContiguous /\ Budget /\ Recorded
      /\ Call(i, r, TRUE) /\ UNCHANGED closed
      /\ active' = r.episode /\ started' = started \cup {r.episode} /\ next' = 0
  BY DEF EndpointInv, Reset
<1>1. /\ r \in Resets /\ r.op = "reset" /\ r.episode \in Episodes
      /\ active = None /\ r.episode \notin started /\ r.episode # None
      /\ Cardinality(started) < NEpisodes
      /\ Horizon \in Nat /\ NEpisodes \in Nat
  BY EndpointAssumption DEF Reset, Allowed, ResetAllowed, Requests, Steps, Resets,
     Aborts, Closes
<1>2. PICK res \in {Answer, InfrastructureFailure} : Store(i, r, res)
  BY DEF Reset
<1>3. /\ executed' \in Seq(EnvironmentCalls)
      /\ Len(executed) \in Nat /\ Len(executed') = Len(executed) + 1
      /\ DOMAIN executed = 1..Len(executed)
      /\ DOMAIN executed' = 1..(Len(executed) + 1)
      /\ executed'[Len(executed) + 1] = [id |-> i, request |-> r, ok |-> TRUE]
      /\ \A j \in DOMAIN executed : executed'[j] = executed[j]
  BY <1>0, <1>1, Called
<1>4. /\ res \in Results
      /\ res.kind = "answer" => res.observation = Len(executed) + 1
  BY <1>2, <1>3, AnswerType, ResultTypes
<1>5. /\ cache' \in [Ids -> Entries \cup {None}] /\ IsFiniteSet(Cached')
      /\ Cardinality(Fruitful) \in Nat
      /\ Cardinality(Fruitful') \in {Cardinality(Fruitful), Cardinality(Fruitful) + 1}
  BY <1>0, <1>2, <1>4, Stored, AnswersCounted DEF Budget
<1>6. EndpointTypeOK'
  BY <1>0, <1>1, <1>3, <1>5 DEF EndpointTypeOK
<1>7. Running'
  <2>0. PICK n \in Nat : n = Len(executed)
    BY <1>3
  <2>1. LastBefore(n + 1, n + 2)' /\ n + 1 \in DOMAIN executed'
    BY <1>3, <2>0 DEF LastBefore
  <2>2. Leads(n + 1, active, next)'
    BY <1>0, <1>1, <1>3, <2>0 DEF Leads
  <2> QED BY <1>3, <2>0, <2>1, <2>2 DEF Running, LastBefore
<1>8. EpisodesAreContiguous'
  BY <1>0, <1>1, ContiguousCall
<1>9. Budget'
  <2>1. /\ IsFiniteSet(started') /\ Cardinality(started) \in Nat
        /\ Cardinality(started') = Cardinality(started) + 1
    BY <1>0, <1>1, FS_AddElement, FS_CardinalityType DEF Budget
  <2>2. Outstanding = 0 /\ Outstanding' = Horizon + 1
    BY <1>0, <1>1 DEF Outstanding
  <2>3. ~closed' =>
          Cardinality(Fruitful') + Outstanding' <= Cardinality(started') * (Horizon + 2)
    <3> DEFINE room == Cardinality(started) * (Horizon + 2)
    <3>1. room \in Int
      BY <1>1, <2>1
    <3>2. ~closed => Cardinality(Fruitful) + Outstanding <= room
      BY <1>0 DEF Budget
    <3>3. Cardinality(started') * (Horizon + 2) = room + (Horizon + 2)
      BY <1>1, <2>1
    <3> HIDE DEF room
    <3> QED BY <1>0, <1>1, <1>5, <2>2, <3>1, <3>2, <3>3
  <2> QED BY <1>1, <1>5, <2>1, <2>3 DEF Budget
<1>10. Recorded'
  <2>1. res.kind = "answer" => CallFor(res.observation, i, r)'
    BY <1>3, <1>4 DEF CallFor
  <2> QED BY <1>0, <1>2, <1>3, <1>4, <2>1, RecordedCall
<1> QED BY <1>6, <1>7, <1>8, <1>9, <1>10 DEF EndpointInv

-----------------------------------------------------------------------------
(* The endpoint, for a caller that sends anything                          *)

LEMMA EndpointStart == EndpointInit => EndpointInv
<1> SUFFICES ASSUME EndpointInit PROVE EndpointInv
  OBVIOUS
<1>1. EndpointTypeOK
  <2>1. cache \in [Ids -> Entries \cup {None}]
    BY DEF EndpointInit
  <2>2. executed \in Seq(EnvironmentCalls)
    BY EmptySeq DEF EndpointInit
  <2>3. next \in 0..Horizon
    BY EndpointAssumption DEF EndpointInit
  <2> QED BY <2>1, <2>2, <2>3 DEF EndpointInit, EndpointTypeOK
<1>2. Cached = {} /\ started = {} /\ executed = << >> /\ active = None
  BY DEF EndpointInit, Cached
<1>3. Budget
  BY <1>2, EndpointAssumption, FS_EmptySet DEF Budget, Fruitful, Outstanding
<1>4. Running /\ EpisodesAreContiguous /\ Recorded
  BY <1>2 DEF Running, EpisodesAreContiguous, Recorded
<1> QED BY <1>1, <1>3, <1>4 DEF EndpointInv

LEMMA ExecuteStep ==
    ASSUME EndpointInv, NEW i \in Ids, NEW r \in Requests, Admitted(i), Execute(i, r)
    PROVE  EndpointInv'
BY RejectStep, NativeFailsStep, CloseStep, AbortStep, StepStep, ResetStep DEF Execute

LEMMA EndpointStutter ==
    ASSUME EndpointInv, UNCHANGED endpoint
    PROVE  EndpointInv'
BY DEF EndpointInv, EndpointTypeOK, Running, EpisodesAreContiguous, Budget, Recorded,
   endpoint, LastBefore, Leads, Cached, Fruitful, Outstanding, CallFor

\* The endpoint's invariant holds whatever its caller sends, in any order.
THEOREM EndpointInvariant == EndpointSpec => []EndpointInv
<1>1. EndpointInv /\ [EndpointNext]_endpoint => EndpointInv'
  BY ExecuteStep, EndpointStutter DEF EndpointNext
<1> QED BY EndpointStart, <1>1, PTL DEF EndpointSpec

\* The successful calls of an episode are its reset and then steps 0, 1, 2, ...
THEOREM EpisodesAlwaysContiguous == EndpointSpec => []EpisodesAreContiguous
<1>1. EndpointInv => EpisodesAreContiguous
  BY DEF EndpointInv
<1> QED BY <1>1, EndpointInvariant, PTL

LEMMA Monotone ==
    ASSUME NEW a \in Nat, NEW b \in Nat, NEW c \in Nat, a <= b
    PROVE  a * c <= b * c
OBVIOUS

LEMMA RoomIsLeft == EndpointInv => CapacitySuffices
<1> SUFFICES ASSUME EndpointInv, ~closed
             PROVE  Cardinality(Fruitful) < Capacity
  BY DEF CapacitySuffices, Fruitful
<1>1. /\ Cardinality(started) \in Nat /\ Cardinality(Fruitful) \in Nat
      /\ NEpisodes \in Nat /\ Horizon \in Nat /\ Cardinality(started) <= NEpisodes
      /\ Horizon + 2 \in Nat
  BY EndpointAssumption, FS_Subset, FS_CardinalityType DEF EndpointInv, Budget, Fruitful
<1>2. Cardinality(started) * (Horizon + 2) <= NEpisodes * (Horizon + 2)
  BY <1>1, Monotone
<1>3. Outstanding \in Nat
  BY <1>1 DEF Outstanding, EndpointInv, EndpointTypeOK
<1>4. Cardinality(Fruitful) + Outstanding <= Cardinality(started) * (Horizon + 2)
  BY DEF EndpointInv, Budget
<1> DEFINE used == Cardinality(started) * (Horizon + 2)
           room == NEpisodes * (Horizon + 2)
<1>5. used \in Int /\ room \in Int
  BY <1>1
<1>6. Capacity = room + 1
  BY DEF Capacity
<1> HIDE DEF used, room
<1>7. used <= room /\ Cardinality(Fruitful) + Outstanding <= used
  BY <1>2, <1>4 DEF used, room
<1> QED BY <1>1, <1>3, <1>5, <1>6, <1>7

\* What was answered never fills the declared capacity ("reset + every possible
\* step + abort per episode + final close"), whatever was refused or failed
\* beside it: a caller none of whose requests was refused or failed always has
\* room for the close, and k that were can cost it at most k places.
THEOREM CapacityAlwaysSuffices == EndpointSpec => []CapacitySuffices
<1> QED BY RoomIsLeft, EndpointInvariant, PTL

-----------------------------------------------------------------------------
(* The run: what an execution changes                                      *)

LEMMA CapacityType == Capacity \in Nat
BY EndpointAssumption DEF Capacity

\* One entry more, at most one call more, and no other request's reply changes.
LEMMA ExecuteEffect ==
    ASSUME EndpointInv, NEW i \in Ids, NEW r \in Requests, Admitted(i), Execute(i, r)
    PROVE  /\ i \notin Cached /\ Cached' = Cached \cup {i}
           /\ cache'[i].request = r /\ cache'[i].result \in Results
           /\ \A x \in DOMAIN executed :
                 x \in DOMAIN executed' /\ executed'[x] = executed[x]
           /\ \A x \in DOMAIN executed' \ DOMAIN executed :
                 x = Len(executed) + 1 /\ executed'[x].id = i
           /\ \A k \in Ids : ~Admitted(k) =>
                 ~Admitted(k)' /\ \A q : Reply(k, q)' = Reply(k, q)
           /\ ~Admitted(i)' /\ Reply(i, r)' = cache'[i].result
<1>0. EndpointTypeOK /\ IsFiniteSet(Cached)
  BY DEF EndpointInv, Budget
<1>1. \/ UNCHANGED executed
      \/ r \in Resets \cup Steps /\ Call(i, r, TRUE)
      \/ r \in Resets \cup Steps /\ Call(i, r, FALSE)
  BY DEF Execute, Reject, Close, Abort, Step, Reset, NativeFails, Requests, Resets,
     Steps, Aborts, Closes
<1>2. PICK res \in Results : Store(i, r, res)
  <2>1. executed' \in Seq(EnvironmentCalls)
    BY <1>0, <1>1, Called DEF EndpointTypeOK
  <2> QED BY <2>1, AnswerType, ResultTypes
          DEF Execute, Reject, Close, Abort, Step, Reset, NativeFails
<1>3. closed => closed'
  BY DEF Admitted
<1>4. /\ cache' \in [Ids -> Entries \cup {None}]
      /\ cache'[i] = [request |-> r, result |-> res]
      /\ \A k \in Ids \ {i} : cache'[k] = cache[k]
      /\ Cached' = Cached \cup {i} /\ i \notin Cached
      /\ Cardinality(Cached) \in Nat
      /\ Cardinality(Cached') = Cardinality(Cached) + 1
  BY <1>0, <1>2, Stored
<1>5. i \in Cached' /\ cache'[i] # None
  BY <1>4 DEF Cached
<1>6. /\ \A x \in DOMAIN executed :
            x \in DOMAIN executed' /\ executed'[x] = executed[x]
      /\ \A x \in DOMAIN executed' \ DOMAIN executed :
            x = Len(executed) + 1 /\ executed'[x].id = i
  <2>1. CASE UNCHANGED executed
    BY <2>1
  <2>2. CASE r \in Resets \cup Steps /\ Call(i, r, TRUE)
    <3>1. /\ Len(executed) \in Nat
          /\ DOMAIN executed = 1..Len(executed)
          /\ DOMAIN executed' = 1..(Len(executed) + 1)
          /\ executed'[Len(executed) + 1] = [id |-> i, request |-> r, ok |-> TRUE]
          /\ \A j \in DOMAIN executed : executed'[j] = executed[j]
      BY <1>0, <2>2, Called
    <3> QED BY <3>1
  <2>3. CASE r \in Resets \cup Steps /\ Call(i, r, FALSE)
    <3>1. /\ Len(executed) \in Nat
          /\ DOMAIN executed = 1..Len(executed)
          /\ DOMAIN executed' = 1..(Len(executed) + 1)
          /\ executed'[Len(executed) + 1] = [id |-> i, request |-> r, ok |-> FALSE]
          /\ \A j \in DOMAIN executed : executed'[j] = executed[j]
      BY <1>0, <2>3, Called
    <3> QED BY <3>1
  <2> QED BY <1>1, <2>1, <2>2, <2>3
<1>7. ASSUME NEW k \in Ids, ~Admitted(k)
      PROVE  ~Admitted(k)' /\ \A q : Reply(k, q)' = Reply(k, q)
  <2>1. k # i /\ cache'[k] = cache[k]
    BY <1>4, <1>7
  <2>2. ~Admitted(k)'
    BY <1>3, <1>4, <1>7, <2>1, CapacityType DEF Admitted, Capacity
  <2> QED BY <2>1, <2>2 DEF Reply, InfrastructureFailure, ProtocolError
<1>8. ~Admitted(i)' /\ Reply(i, r)' = cache'[i].result
  BY <1>4, <1>5 DEF Admitted, Reply
<1> QED BY <1>4, <1>6, <1>7, <1>8

LEMMA ReplyType ==
    ASSUME EndpointTypeOK, NEW i \in Ids, NEW r
    PROVE  /\ Reply(i, r) \in Results
           /\ Reply(i, r).kind = "answer" =>
                 /\ i \in Cached /\ cache[i].request = r
                 /\ cache[i].result = Reply(i, r)
<1>1. cache[i] # None => cache[i] \in Entries
  BY DEF EndpointTypeOK
<1> QED BY <1>1, ResultTypes DEF Reply, Cached, Entries

\* Whether it executes or not, the server responds with what it would say again.
LEMMA HandleEffect ==
    ASSUME RpcInv, NEW i \in Ids, NEW r \in Requests,
           i = inbox.id, r = inbox.request, Handle
    PROVE  /\ EndpointInv'
           /\ \E result \in Results : Respond(i, result) /\ result = Reply(i, r)'
           /\ ~Admitted(i)'
           /\ \A x \in DOMAIN executed :
                 x \in DOMAIN executed' /\ executed'[x] = executed[x]
           /\ \A x \in DOMAIN executed' \ DOMAIN executed :
                 x = Len(executed) + 1 /\ executed'[x].id \in Cached' \ Cached
           /\ Cached \subseteq Cached'
           /\ \A k \in Ids : ~Admitted(k) =>
                 ~Admitted(k)' /\ \A q : Reply(k, q)' = Reply(k, q)
<1>0. EndpointInv /\ EndpointTypeOK
  BY DEF RpcInv, EndpointInv
<1>1. CASE /\ ~Admitted(i) /\ UNCHANGED endpoint
           /\ Respond(i, Reply(i, r))
  <2>1. EndpointInv'
    BY <1>0, <1>1, EndpointStutter
  <2>2. /\ UNCHANGED <<executed, Cached>>
        /\ \A k \in Ids : (~Admitted(k) => ~Admitted(k)')
                          /\ \A q : Reply(k, q)' = Reply(k, q)
    BY <1>1 DEF endpoint, Cached, Admitted, Capacity, Reply, InfrastructureFailure,
       ProtocolError
  <2>3. PICK result \in Results : result = Reply(i, r)
    BY <1>0, ReplyType
  <2>4. Respond(i, result) /\ result = Reply(i, r)'
    BY <1>1, <2>2, <2>3
  <2> QED BY <1>1, <2>1, <2>2, <2>4
<1>2. CASE /\ Admitted(i) /\ Execute(i, r)
           /\ Respond(i, cache'[i].result)
  <2>1. EndpointInv'
    BY <1>0, <1>2, ExecuteStep
  <2>2. PICK result \in Results : result = cache'[i].result
    BY <1>0, <1>2, ExecuteEffect
  <2>3. Respond(i, result) /\ result = Reply(i, r)'
    BY <1>0, <1>2, <2>2, ExecuteEffect
  <2> QED BY <1>0, <1>2, <2>1, <2>3, ExecuteEffect
<1> QED BY <1>1, <1>2 DEF Handle

-----------------------------------------------------------------------------
(* The run: one lemma per step                                             *)

LEMMA RpcStart == Init => RpcInv
<1> SUFFICES ASSUME Init PROVE RpcInv
  OBVIOUS
<1>1. EndpointInv
  BY EndpointStart DEF Init
<1>2. Cached = {} /\ executed = << >> /\ Given = {}
  BY DEF Init, EndpointInit, Cached, Given, Due
<1>3. RpcTypeOK /\ Wire /\ OneEndpoint /\ Standing /\ Once /\ Truthful
  BY <1>2 DEF Init, RpcTypeOK, Wire, OneEndpoint, Standing, Once, Truthful
<1> QED BY <1>1, <1>3 DEF RpcInv

LEMMA HandleStep == RpcInv /\ Handle => RpcInv'
<1> SUFFICES ASSUME RpcInv, Handle PROVE RpcInv'
  OBVIOUS
<1>0. /\ RpcTypeOK /\ Wire /\ OneEndpoint /\ Standing /\ Once /\ Truthful
      /\ EndpointTypeOK
      /\ server = "serving" /\ inbox # None
      /\ UNCHANGED <<instance, peer, known, waiting, answers>>
  BY DEF RpcInv, Handle, EndpointInv
<1>1. PICK i \in Ids, r \in Requests : inbox = [id |-> i, request |-> r]
  BY <1>0 DEF RpcTypeOK, Messages
<1>2. known = instance /\ i = inbox.id /\ r = inbox.request
  BY <1>0, <1>1 DEF OneEndpoint
<1>3. /\ EndpointInv' /\ ~Admitted(i)'
      /\ \A x \in DOMAIN executed :
            x \in DOMAIN executed' /\ executed'[x] = executed[x]
      /\ \A x \in DOMAIN executed' \ DOMAIN executed :
            x = Len(executed) + 1 /\ executed'[x].id \in Cached' \ Cached
      /\ Cached \subseteq Cached'
      /\ \A k \in Ids : ~Admitted(k) =>
            ~Admitted(k)' /\ \A q : Reply(k, q)' = Reply(k, q)
  BY <1>2, HandleEffect
<1>4. PICK result \in Results : Respond(i, result) /\ result = Reply(i, r)'
  BY <1>2, HandleEffect
<1>5. [id |-> i, result |-> result] \in Responses
      /\ [id |-> i, result |-> result] # None
  BY EvalAssumption DEF Responses
<1>6. RpcTypeOK'
  BY <1>0, <1>4, <1>5 DEF RpcTypeOK, Respond
<1>7. peer = "open" =>
        /\ conn = "served" /\ waiting = inbox /\ outbox = None
        /\ outbox' = [id |-> i, result |-> result]
  BY <1>0, <1>4 DEF Wire, Respond
<1>8. peer # "open" => UNCHANGED outbox /\ conn \notin {"greeted", "served"}
  BY <1>0, <1>4 DEF Wire, Respond
<1>9. Wire'
  <2>1. CASE peer = "open"
    BY <1>0, <1>1, <1>4, <1>5, <1>7, <2>1 DEF Wire, Respond
  <2>2. CASE peer # "open"
    BY <1>0, <1>4, <1>8, <2>2 DEF Wire, Respond
  <2> QED BY <2>1, <2>2
<1> DEFINE new == [id |-> i, request |-> r, result |-> result, instance |-> known]
<1>10. \A a \in Given' : a \in Given \/ a = new
  BY <1>0, <1>1, <1>7, <1>8 DEF Given, Due
<1>11. \A a \in Given : a \in Answers
  BY <1>0 DEF Given, Due, RpcTypeOK, Answers, Messages, Responses
<1>12. OneEndpoint'
  <2>1. inbox' = None /\ conn' \in {conn, "dead"}
    BY <1>4 DEF Respond
  <2>2. \A j \in DOMAIN executed' : executed'[j].id \in Cached'
    BY <1>0, <1>2, <1>3 DEF OneEndpoint
  <2>3. known # 0
    BY <1>0, <1>2 DEF RpcTypeOK
  <2> QED BY <1>0, <1>2, <2>1, <2>2, <2>3 DEF OneEndpoint
<1>13. Standing'
  <2> SUFFICES ASSUME NEW a \in Given'
               PROVE  ~Admitted(a.id)' /\ a.result = Reply(a.id, a.request)'
    BY DEF Standing
  <2>1. CASE a = new
    BY <1>3, <1>4, <2>1
  <2>2. CASE a \in Given
    BY <1>0, <1>2, <1>3, <1>11, <2>2 DEF Standing, Answers
  <2> QED BY <1>10, <2>1, <2>2
<1>14. Once'
  <2> SUFFICES ASSUME NEW j \in DOMAIN executed', NEW k \in DOMAIN executed',
                      executed'[j].id = executed'[k].id
               PROVE  j = k
    BY DEF Once
  <2>1. \A x \in DOMAIN executed : executed'[x].id \in Cached
    BY <1>0, <1>2, <1>3 DEF OneEndpoint
  <2> QED BY <1>0, <1>3, <2>1 DEF Once
<1>15. Truthful'
  <2>1. \A x, k, q : CallFor(x, k, q) => CallFor(x, k, q)'
    BY <1>3 DEF CallFor
  <2>2. ASSUME NEW a \in Given'
        PROVE  /\ a.instance = known'
               /\ a.request.op \in {"reset", "step"} /\ a.result.kind = "answer" =>
                      CallFor(a.result.observation, a.id, a.request)'
    <3>1. CASE a = new
      <4>1. EndpointTypeOK' /\ Recorded'
        BY <1>3 DEF EndpointInv
      <4>2. result.kind = "answer" =>
              i \in Cached' /\ cache'[i].request = r /\ cache'[i].result = result
        BY <1>4 DEF Reply, Cached, InfrastructureFailure, ProtocolError
      <4> QED BY <1>0, <3>1, <4>1, <4>2 DEF Recorded, CallFor
    <3>2. CASE a \in Given
      BY <1>0, <2>1, <3>2 DEF Truthful, CallFor
    <3> QED BY <1>10, <3>1, <3>2
  <2>3. \A a, b \in Given' :
          a.id = b.id /\ a.request = b.request => a.result = b.result
    <3>1. \A a \in Given' : a.result = Reply(a.id, a.request)'
      BY <1>0, <1>2, <1>13 DEF Standing
    <3> QED BY <3>1 DEF Reply
  <2> QED BY <2>2, <2>3 DEF Truthful
<1> QED BY <1>3, <1>6, <1>9, <1>12, <1>13, <1>14, <1>15 DEF RpcInv

\* A step that leaves the endpoint alone and hands out nothing new.
LEMMA QuietStep ==
    ASSUME RpcInv, UNCHANGED <<endpoint, instance, known>>, Given' \subseteq Given,
           RpcTypeOK', Wire', inbox' # None => known = instance,
           conn' = "served" => known = instance
    PROVE  RpcInv'
<1>1. EndpointInv'
  BY EndpointStutter DEF RpcInv
<1>2. UNCHANGED <<cache, closed, executed, Cached>>
  BY DEF endpoint, Cached
<1>3. OneEndpoint' /\ Once'
  BY <1>2 DEF RpcInv, OneEndpoint, Once
<1>4. Standing'
  BY <1>2 DEF RpcInv, Standing, Admitted, Reply, Capacity, InfrastructureFailure,
     ProtocolError
<1>5. Truthful'
  BY <1>2 DEF RpcInv, Truthful, CallFor
<1> QED BY <1>1, <1>3, <1>4, <1>5 DEF RpcInv

\* A connection is accepted.
LEMMA AcceptQuiet == RpcInv /\ Accept => RpcInv'
<1> SUFFICES ASSUME RpcInv, Accept PROVE RpcInv'
  OBVIOUS
<1>1. RpcTypeOK /\ Wire /\ OneEndpoint
  BY DEF RpcInv
<1>2. RpcTypeOK'
  BY <1>1 DEF RpcTypeOK, Accept, socket, client, Leave
<1>3. Wire'
  BY <1>1 DEF RpcTypeOK, Wire, Accept, socket, client, Leave
<1>4. Given' \subseteq Given
  BY <1>1 DEF Given, Due, Wire, Accept, socket, client, Leave
<1>5. /\ UNCHANGED <<endpoint, instance, known>>
      /\ inbox' # None => known = instance
      /\ conn' = "served" => known = instance
  BY <1>1 DEF OneEndpoint, Accept, socket, client, Leave
<1> QED BY <1>2, <1>3, <1>4, <1>5, QuietStep

\* The served connection ended.
LEMMA EndOfConnectionQuiet == RpcInv /\ EndOfConnection => RpcInv'
<1> SUFFICES ASSUME RpcInv, EndOfConnection PROVE RpcInv'
  OBVIOUS
<1>1. RpcTypeOK /\ Wire /\ OneEndpoint
  BY DEF RpcInv
<1>2. RpcTypeOK'
  BY <1>1 DEF RpcTypeOK, EndOfConnection, socket, client, Leave
<1>3. Wire'
  BY <1>1 DEF RpcTypeOK, Wire, EndOfConnection, socket, client, Leave
<1>4. Given' \subseteq Given
  BY <1>1 DEF Given, Due, Wire, EndOfConnection, socket, client, Leave
<1>5. /\ UNCHANGED <<endpoint, instance, known>>
      /\ inbox' # None => known = instance
      /\ conn' = "served" => known = instance
  BY <1>1 DEF OneEndpoint, EndOfConnection, socket, client, Leave
<1> QED BY <1>2, <1>3, <1>4, <1>5, QuietStep

\* The served connection was reset.
LEMMA ResetByPeerQuiet == RpcInv /\ ResetByPeer => RpcInv'
<1> SUFFICES ASSUME RpcInv, ResetByPeer PROVE RpcInv'
  OBVIOUS
<1>1. RpcTypeOK /\ Wire /\ OneEndpoint
  BY DEF RpcInv
<1>2. RpcTypeOK'
  BY <1>1 DEF RpcTypeOK, ResetByPeer, socket, client, Leave
<1>3. Wire'
  BY <1>1 DEF RpcTypeOK, Wire, ResetByPeer, socket, client, Leave
<1>4. Given' \subseteq Given
  BY <1>1 DEF Given, Due, Wire, ResetByPeer, socket, client, Leave
<1>5. /\ UNCHANGED <<endpoint, instance, known>>
      /\ inbox' # None => known = instance
      /\ conn' = "served" => known = instance
  BY <1>1 DEF OneEndpoint, ResetByPeer, socket, client, Leave
<1> QED BY <1>2, <1>3, <1>4, <1>5, QuietStep

\* The process dies with its socket.
LEMMA CrashQuiet == RpcInv /\ Crash => RpcInv'
<1> SUFFICES ASSUME RpcInv, Crash PROVE RpcInv'
  OBVIOUS
<1>1. RpcTypeOK /\ Wire /\ OneEndpoint
  BY DEF RpcInv
<1>2. RpcTypeOK'
  BY <1>1 DEF RpcTypeOK, Crash, socket, client, Leave
<1>3. Wire'
  BY <1>1 DEF RpcTypeOK, Wire, Crash, socket, client, Leave
<1>4. Given' \subseteq Given
  BY <1>1 DEF Given, Due, Wire, Crash, socket, client, Leave
<1>5. /\ UNCHANGED <<endpoint, instance, known>>
      /\ inbox' # None => known = instance
      /\ conn' = "served" => known = instance
  BY <1>1 DEF OneEndpoint, Crash, socket, client, Leave
<1> QED BY <1>2, <1>3, <1>4, <1>5, QuietStep

\* The client asks to be served.
LEMMA ConnectQuiet == RpcInv /\ Connect => RpcInv'
<1> SUFFICES ASSUME RpcInv, Connect PROVE RpcInv'
  OBVIOUS
<1>1. RpcTypeOK /\ Wire /\ OneEndpoint
  BY DEF RpcInv
<1>2. RpcTypeOK'
  BY <1>1 DEF RpcTypeOK, Connect, socket, client, Leave
<1>3. Wire'
  BY <1>1 DEF RpcTypeOK, Wire, Connect, socket, client, Leave
<1>4. Given' \subseteq Given
  BY <1>1 DEF Given, Due, Wire, Connect, socket, client, Leave
<1>5. /\ UNCHANGED <<endpoint, instance, known>>
      /\ inbox' # None => known = instance
      /\ conn' = "served" => known = instance
  BY <1>1 DEF OneEndpoint, Connect, socket, client, Leave
<1> QED BY <1>2, <1>3, <1>4, <1>5, QuietStep

\* The client leaves between requests.
LEMMA DisconnectQuiet == RpcInv /\ Disconnect => RpcInv'
<1> SUFFICES ASSUME RpcInv, Disconnect PROVE RpcInv'
  OBVIOUS
<1>1. RpcTypeOK /\ Wire /\ OneEndpoint
  BY DEF RpcInv
<1>2. RpcTypeOK'
  BY <1>1 DEF RpcTypeOK, Disconnect, socket, client, Leave
<1>3. Wire'
  BY <1>1 DEF RpcTypeOK, Wire, Disconnect, socket, client, Leave
<1>4. Given' \subseteq Given
  BY <1>1 DEF Given, Due, Wire, Disconnect, socket, client, Leave
<1>5. /\ UNCHANGED <<endpoint, instance, known>>
      /\ inbox' # None => known = instance
      /\ conn' = "served" => known = instance
  BY <1>1 DEF OneEndpoint, Disconnect, socket, client, Leave
<1> QED BY <1>2, <1>3, <1>4, <1>5, QuietStep

\* The client meets the end of its connection.
LEMMA HangupQuiet == RpcInv /\ Hangup => RpcInv'
<1> SUFFICES ASSUME RpcInv, Hangup PROVE RpcInv'
  OBVIOUS
<1>1. RpcTypeOK /\ Wire /\ OneEndpoint
  BY DEF RpcInv
<1>2. RpcTypeOK'
  BY <1>1 DEF RpcTypeOK, Hangup, socket, client, Leave
<1>3. Wire'
  BY <1>1 DEF RpcTypeOK, Wire, Hangup, socket, client, Leave
<1>4. Given' \subseteq Given
  BY <1>1 DEF Given, Due, Wire, Hangup, socket, client, Leave
<1>5. /\ UNCHANGED <<endpoint, instance, known>>
      /\ inbox' # None => known = instance
      /\ conn' = "served" => known = instance
  BY <1>1 DEF OneEndpoint, Hangup, socket, client, Leave
<1> QED BY <1>2, <1>3, <1>4, <1>5, QuietStep

\* The client gives up and leaves.
LEMMA TimeoutQuiet == RpcInv /\ Timeout => RpcInv'
<1> SUFFICES ASSUME RpcInv, Timeout PROVE RpcInv'
  OBVIOUS
<1>1. RpcTypeOK /\ Wire /\ OneEndpoint
  BY DEF RpcInv
<1>2. RpcTypeOK'
  BY <1>1 DEF RpcTypeOK, Timeout, socket, client, Leave
<1>3. Wire'
  BY <1>1 DEF RpcTypeOK, Wire, Timeout, socket, client, Leave
<1>4. Given' \subseteq Given
  BY <1>1 DEF Given, Due, Wire, Timeout, socket, client, Leave
<1>5. /\ UNCHANGED <<endpoint, instance, known>>
      /\ inbox' # None => known = instance
      /\ conn' = "served" => known = instance
  BY <1>1 DEF OneEndpoint, Timeout, socket, client, Leave
<1> QED BY <1>2, <1>3, <1>4, <1>5, QuietStep

\* A request is sent to the endpoint the client knows.
LEMMA SendQuiet ==
    ASSUME RpcInv, NEW i \in Ids, NEW r \in Asked, Send(i, r)
    PROVE  RpcInv'
<1>1. RpcTypeOK /\ Wire /\ OneEndpoint
  BY DEF RpcInv
<1>2. [id |-> i, request |-> r] \in Messages /\ [id |-> i, request |-> r] # None
  BY EvalAssumption DEF Messages
<1>3. RpcTypeOK'
  BY <1>1, <1>2 DEF RpcTypeOK, Send
<1>4. Wire'
  BY <1>1, <1>2 DEF RpcTypeOK, Wire, Send
<1>5. Given' \subseteq Given
  BY <1>1 DEF Given, Due, Wire, Send
<1>6. /\ UNCHANGED <<endpoint, instance, known>>
      /\ known = instance
  BY <1>1 DEF OneEndpoint, Send
<1> QED BY <1>3, <1>4, <1>5, <1>6, QuietStep

\* The answer that was due is given.
LEMMA ReceiveQuiet == RpcInv /\ Receive => RpcInv'
<1> SUFFICES ASSUME RpcInv, Receive PROVE RpcInv'
  OBVIOUS
<1>1. RpcTypeOK /\ Wire /\ OneEndpoint
  BY DEF RpcInv
<1> DEFINE due == [id |-> waiting.id, request |-> waiting.request,
                   result |-> outbox.result, instance |-> known]
<1>2. /\ waiting # None /\ outbox # None /\ waiting' = None /\ outbox' = None
      /\ answers' \in {answers, answers \cup {due}}
      /\ UNCHANGED <<endpoint, instance, server, peer, inbox, conn, known>>
  BY DEF Receive
<1>3. due \in Answers /\ Due = {due}
  BY <1>1, <1>2 DEF RpcTypeOK, Answers, Messages, Responses, Due
<1>4. RpcTypeOK'
  BY <1>1, <1>2, <1>3 DEF RpcTypeOK
<1>5. Wire'
  BY <1>1, <1>2 DEF RpcTypeOK, Wire
<1>6. Given' \subseteq Given
  BY <1>2, <1>3 DEF Given, Due
<1> QED BY <1>1, <1>2, <1>4, <1>5, <1>6, QuietStep DEF OneEndpoint

\* The first handshake settles which endpoint is known; no other is.
LEMMA GreetStep == RpcInv /\ Greet => RpcInv'
<1> SUFFICES ASSUME RpcInv, Greet PROVE RpcInv'
  OBVIOUS
<1>1. RpcTypeOK /\ Wire /\ OneEndpoint /\ Standing /\ Once /\ Truthful
  BY DEF RpcInv
<1>2. RpcTypeOK' /\ Wire'
  BY <1>1 DEF RpcTypeOK, Wire, Greet
<1>3. Given' \subseteq Given
  BY <1>1 DEF Given, Due, Wire, Greet
<1>4. CASE known' = known
  BY <1>1, <1>2, <1>3, <1>4, QuietStep DEF Greet, Wire, OneEndpoint
<1>5. CASE known = 0 /\ known' = instance
  <2>1. Given = {} /\ Given' = {} /\ executed = << >>
    BY <1>1, <1>3, <1>5 DEF OneEndpoint
  <2>2. EndpointInv'
    BY EndpointStutter DEF RpcInv, Greet
  <2>3. executed' = << >> /\ Cached' = Cached /\ inbox' = None
        /\ instance' = instance /\ known' = instance' /\ instance' # 0
    BY <1>1, <1>5, <2>1 DEF Greet, endpoint, Cached, Wire, RpcTypeOK
  <2>4. OneEndpoint'
    BY <1>1, <2>1, <2>3 DEF OneEndpoint, RpcTypeOK
  <2>5. Standing' /\ Once' /\ Truthful'
    BY <2>1, <2>3 DEF Standing, Once, Truthful
  <2> QED BY <1>2, <2>2, <2>4, <2>5 DEF RpcInv
<1> QED BY <1>1, <1>4, <1>5 DEF Greet, OneEndpoint

\* A new process of the same run is another endpoint: the client will not
\* send it anything.
LEMMA RestartStep == RpcInv /\ Restart => RpcInv'
<1> SUFFICES ASSUME RpcInv, Restart PROVE RpcInv'
  OBVIOUS
<1>1. RpcTypeOK /\ Wire /\ OneEndpoint /\ Standing /\ Once /\ Truthful
      /\ EndpointInv /\ EndpointTypeOK
  BY DEF RpcInv, EndpointInv
<1>2. /\ cache' = [i \in Ids |-> None] /\ active' = None /\ next' = 0
      /\ started' = {} /\ closed' = FALSE /\ Cached' = {}
      /\ UNCHANGED <<executed, inbox, outbox, client>>
      /\ inbox' = None
  BY <1>1 DEF Restart, Cached, Wire
<1>3. EndpointInv'
  <2>1. EndpointTypeOK'
    <3>1. cache' \in [Ids -> Entries \cup {None}]
      BY <1>2
    <3>2. executed' \in Seq(EnvironmentCalls)
      BY <1>1, <1>2 DEF EndpointTypeOK
    <3>3. next' \in 0..Horizon
      BY <1>2, EndpointAssumption
    <3> QED BY <1>2, <3>1, <3>2, <3>3 DEF EndpointTypeOK
  <2>2. Budget'
    BY <1>2, EndpointAssumption, FS_EmptySet DEF Budget, Fruitful, Outstanding
  <2>3. Running' /\ Recorded' /\ EpisodesAreContiguous'
    BY <1>1, <1>2 DEF Running, Recorded, EndpointInv, EpisodesAreContiguous,
       LastBefore, Leads
  <2> QED BY <2>1, <2>2, <2>3 DEF EndpointInv
<1>4. /\ instance' = instance + 1 /\ known' = known /\ known <= instance
      /\ instance \in Nat /\ known \in Nat
  BY <1>1 DEF Restart, client, RpcTypeOK, OneEndpoint
<1>5. RpcTypeOK' /\ Wire'
  BY <1>1, <1>2, <1>4 DEF RpcTypeOK, Wire, Restart, client
<1>6. Given' = Given
  BY <1>2 DEF Given, Due, client
<1>7. OneEndpoint'
  BY <1>1, <1>2, <1>4, <1>6 DEF OneEndpoint, Wire, Restart, client
<1>8. Standing' /\ Once' /\ Truthful'
  BY <1>1, <1>2, <1>4, <1>6 DEF Standing, Once, Truthful, CallFor
<1> QED BY <1>3, <1>5, <1>7, <1>8 DEF RpcInv

LEMMA RpcStutter == RpcInv /\ UNCHANGED vars => RpcInv'
<1> SUFFICES ASSUME RpcInv, UNCHANGED vars PROVE RpcInv'
  OBVIOUS
<1>1. RpcTypeOK' /\ Wire' /\ Given' = Given
  BY DEF RpcInv, RpcTypeOK, Wire, vars, socket, client, Given, Due
<1> QED BY <1>1, QuietStep DEF RpcInv, OneEndpoint, vars, socket, client

LEMMA RpcStep == RpcInv /\ [Next]_vars => RpcInv'
<1> SUFFICES ASSUME RpcInv, [Next]_vars PROVE RpcInv'
  OBVIOUS
<1>1. CASE Server
  BY <1>1, HandleStep, AcceptQuiet, EndOfConnectionQuiet, ResetByPeerQuiet DEF Server
<1>2. CASE Client
  BY <1>2, ConnectQuiet, GreetStep, DisconnectQuiet, ReceiveQuiet, HangupQuiet,
     TimeoutQuiet DEF Client
<1>3. CASE \E i \in Ids, r \in Asked : Send(i, r)
  BY <1>3, SendQuiet
<1>4. CASE Crash \/ Restart \/ Over \/ UNCHANGED vars
  BY <1>4, CrashQuiet, RestartStep, RpcStutter DEF Over
<1> QED BY <1>1, <1>2, <1>3, <1>4 DEF Next

-----------------------------------------------------------------------------
(* The theorems of the run                                                 *)

\* The inductive invariant of endpoint, socket and client together.
THEOREM RpcInvariant == Spec => []RpcInv
<1> QED BY RpcStart, RpcStep, PTL DEF Spec

\* Whatever times out, is retried, reconnected to or restarted: no request is
\* executed twice, and an answer is that of its own request.
THEOREM AlwaysExactlyOnce == Spec => []ExactlyOnce
<1>1. RpcInv => ExactlyOnce
  <2> SUFFICES ASSUME RpcInv PROVE ExactlyOnce
    OBVIOUS
  <2>1. OneEndpoint /\ Standing /\ Once /\ Truthful /\ answers \subseteq Given
    BY DEF RpcInv, Given
  <2>2. ASSUME NEW a \in answers
        PROVE  /\ (a.request.op \in {"reset", "step"} /\ a.result.kind = "answer") =>
                      LET call == executed[a.result.observation]
                      IN call.id = a.id /\ call.request = a.request /\ call.ok
               /\ (a.instance = instance /\ cache[a.id] # None
                   /\ cache[a.id].request = a.request) =>
                      a.result = cache[a.id].result
    <3>1. a \in Given /\ a.instance = known
      BY <2>1 DEF Truthful
    <3>2. a.request.op \in {"reset", "step"} /\ a.result.kind = "answer" =>
            CallFor(a.result.observation, a.id, a.request)
      BY <2>1, <3>1 DEF Truthful
    <3>3. known = instance => a.result = Reply(a.id, a.request)
      BY <2>1, <3>1 DEF Standing
    <3> QED BY <3>1, <3>2, <3>3 DEF CallFor, Reply
  <2>3. \A a, b \in answers :
          (a.id = b.id /\ a.request = b.request) => a.result = b.result
    BY <2>1 DEF Truthful
  <2> QED BY <2>1, <2>2, <2>3 DEF ExactlyOnce, Once
<1> QED BY <1>1, RpcInvariant, PTL

\* Behind its socket, with restarts, the endpoint still runs contiguous
\* episodes and its capacity is still enough.
THEOREM EndpointAlwaysKept == Spec => [](EpisodesAreContiguous /\ CapacitySuffices)
<1>1. RpcInv => EpisodesAreContiguous /\ CapacitySuffices
  BY RoomIsLeft DEF RpcInv, EndpointInv
<1> QED BY <1>1, RpcInvariant, PTL
=============================================================================
