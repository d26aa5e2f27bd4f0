------------------------------ MODULE EvalRpc ------------------------------
(***************************************************************************)
(* tools/isaac_eval_rpc.py: the IsaacEvalEndpoint of one run behind        *)
(* serve_unix_socket, and the UnixEvalClient that talks to it, with the    *)
(* Unix stream socket between them.  The evaluator that uses the client is *)
(* not in the repository and is arbitrary: it may send any request under   *)
(* any id, give up waiting at any time, and reconnect.                     *)
(*                                                                         *)
(* The server is one thread, so the endpoint handles a request in one      *)
(* step; a client that gives up during a long simulation step is one that  *)
(* gives up before the server has read its request.  A payload is its      *)
(* request record, which is what _canonical_fingerprint identifies.        *)
(***************************************************************************)
EXTENDS EvalEndpoint

CONSTANTS
    Asked,         \* bound: the requests this run's evaluator makes
    MaxInstances   \* bound: the endpoint processes of one run

Messages == [id : Ids, request : Requests]
Responses == [id : Ids, result : Results]

ASSUME EvalAssumption ==
    /\ Asked \subseteq Requests /\ MaxInstances \in Nat \ {0}
    /\ None \notin Messages /\ None \notin Responses

VARIABLES
    instance,  \* endpoint_instance_id, numbered
    server,    \* serve_unix_socket: in accept, in a connection, or gone
    peer,      \* what the served connection's client end looks like to it
    inbox,     \* bytes of a request the server has not read
    outbox,    \* bytes of a response the client has not read
    conn,      \* UnixEvalClient's connection
    known,     \* UnixEvalClient.endpoint_instance_id
    waiting,   \* the message whose response the client waits for
    answers    \* every response the client has returned to its caller

socket == <<server, peer, inbox, outbox>>
client == <<conn, known, waiting, answers>>
vars == <<endpoint, instance, socket, client>>

Init ==
    /\ EndpointInit
    /\ instance = 1 /\ server = "accepting" /\ peer = "eof"
    /\ inbox = None /\ outbox = None
    /\ conn = "none" /\ known = 0 /\ waiting = None /\ answers = {}

-----------------------------------------------------------------------------
(* serve_unix_socket                                                       *)

\* Write the response; a client that is gone ends the connection
\* (BrokenPipeError), and a closed endpoint ends the server.
Respond(i, result) ==
    /\ inbox' = None
    /\ IF peer = "open"
       THEN /\ outbox' = [id |-> i, result |-> result]
            /\ server' = IF closed' THEN "down" ELSE "serving"
            /\ conn' = IF closed' THEN "dead" ELSE conn
       ELSE /\ server' = IF closed' THEN "down" ELSE "accepting"
            /\ conn' = IF closed' /\ conn = "queued" THEN "dead" ELSE conn
            /\ UNCHANGED outbox

\* IsaacEvalEndpoint.handle: at most one execution per request id.
Handle ==
    /\ server = "serving" /\ inbox # None
    /\ \/ /\ ~Admitted(inbox.id)
          /\ UNCHANGED endpoint
          /\ Respond(inbox.id, Reply(inbox.id, inbox.request))
       \/ /\ Admitted(inbox.id)
          /\ Execute(inbox.id, inbox.request)
          /\ Respond(inbox.id, cache'[inbox.id].result)
    /\ UNCHANGED <<instance, peer, known, waiting, answers>>

\* accept(), and the handshake that is the first line of every connection.
Accept ==
    /\ server = "accepting" /\ conn = "queued"
    /\ server' = "serving" /\ peer' = "open" /\ conn' = "greeted"
    /\ UNCHANGED <<endpoint, instance, inbox, outbox, known, waiting, answers>>

\* readline() met the end of the connection.
EndOfConnection ==
    /\ server = "serving" /\ inbox = None /\ peer = "eof"
    /\ server' = "accepting"
    /\ UNCHANGED <<endpoint, instance, peer, inbox, outbox, client>>

\* readline() raised ConnectionResetError, which nothing catches: the peer
\* closed its end with a response still unread.
ResetByPeer ==
    /\ server = "serving" /\ inbox = None /\ peer = "reset"
    /\ server' = "down"
    /\ conn' = IF conn = "queued" THEN "dead" ELSE conn
    /\ UNCHANGED <<endpoint, instance, peer, inbox, outbox, known, waiting, answers>>

\* The process dies, and another one is launched for the same run.
Crash ==
    /\ server # "down" /\ instance < MaxInstances
    /\ server' = "down" /\ peer' = "eof" /\ inbox' = None
    /\ conn' = IF conn = "none" THEN "none" ELSE "dead"
    /\ UNCHANGED <<endpoint, instance, outbox, known, waiting, answers>>

Restart ==
    /\ server = "down" /\ instance < MaxInstances
    /\ instance' = instance + 1 /\ server' = "accepting" /\ peer' = "eof"
    /\ cache' = [i \in Ids |-> None] /\ active' = None /\ next' = 0
    /\ started' = {} /\ closed' = FALSE
    /\ UNCHANGED <<executed, inbox, outbox, client>>

-----------------------------------------------------------------------------
(* UnixEvalClient                                                          *)

\* Mutant of Leave: the connection is forgotten but not closed.
LeaveOpen == conn' = "none" /\ outbox' = None /\ UNCHANGED peer

\* disconnect(): what the server has sent and nobody read is lost, and the
\* kernel tells the server so.
Leave ==
    /\ conn' = "none" /\ outbox' = None
    /\ peer' = IF conn \notin {"greeted", "served"} THEN peer
               ELSE IF conn = "greeted" \/ outbox # None THEN "reset" ELSE "eof"

\* connect() waits in the backlog for its handshake.
Connect ==
    /\ conn = "none" /\ server # "down"
    /\ conn' = "queued"
    /\ UNCHANGED <<endpoint, instance, socket, known, waiting, answers>>

\* The handshake names the endpoint: another one than before ends the run.
Greet ==
    /\ conn = "greeted"
    /\ \/ /\ known \in {0, instance}
          /\ conn' = "served" /\ known' = instance
          /\ UNCHANGED peer
       \/ /\ known \notin {0, instance}
          /\ conn' = "none" /\ peer' = "eof"
          /\ UNCHANGED known
    /\ UNCHANGED <<endpoint, instance, server, inbox, outbox, waiting, answers>>

\* disconnect() by the caller, by a connect() whose handshake timed out or
\* failed, or by a write into a dead connection.
Disconnect ==
    /\ waiting = None /\ conn # "none"
    /\ Leave
    /\ UNCHANGED <<endpoint, instance, server, inbox, known, waiting, answers>>

Send(i, r) ==
    /\ conn = "served" /\ waiting = None
    /\ inbox' = [id |-> i, request |-> r]
    /\ waiting' = [id |-> i, request |-> r]
    /\ UNCHANGED <<endpoint, instance, server, peer, outbox, conn, known, answers>>

\* An answer is checked against the id; an error carries none.
Receive ==
    /\ waiting # None /\ outbox # None
    /\ answers' =
         IF outbox.result.kind = "answer" /\ outbox.id # waiting.id THEN answers
         ELSE answers \cup {[id |-> waiting.id, request |-> waiting.request,
                             result |-> outbox.result, instance |-> known]}
    /\ waiting' = None /\ outbox' = None
    /\ UNCHANGED <<endpoint, instance, server, peer, inbox, conn, known>>

\* "endpoint closed before responding"
Hangup ==
    /\ waiting # None /\ conn = "dead" /\ outbox = None
    /\ waiting' = None
    /\ UNCHANGED <<endpoint, instance, socket, conn, known, answers>>

\* Mutant of Timeout: the connection is used again.
TimeoutStays ==
    /\ waiting # None /\ conn = "served"
    /\ waiting' = None
    /\ UNCHANGED <<endpoint, instance, socket, conn, known, answers>>

\* AmbiguousEvalTimeout: disconnect, and leave the retry to the caller.
Timeout ==
    /\ waiting # None /\ conn = "served"
    /\ waiting' = None
    /\ Leave
    /\ UNCHANGED <<endpoint, instance, server, inbox, known, answers>>

\* The run is over: its server is gone and nothing is connected to it.
Over == server = "down" /\ conn = "none" /\ UNCHANGED vars

Server == Handle \/ Accept \/ EndOfConnection \/ ResetByPeer
Client == Connect \/ Greet \/ Disconnect \/ Receive \/ Hangup \/ Timeout

Next ==
    \/ Server \/ Client \/ Crash \/ Restart \/ Over
    \/ \E i \in Ids, r \in Asked : Send(i, r)

\* The server runs, and the client reads what has arrived; nobody is
\* obliged to give up.
Fairness == WF_vars(Server) /\ WF_vars(Receive \/ Hangup)

Spec == Init /\ [][Next]_vars
FairSpec == Spec /\ Fairness

-----------------------------------------------------------------------------
(* Correctness                                                             *)

\* Exactly-once, whatever times out, is retried, reconnected to or restarted:
\* the environments execute no request twice, and a response the caller gets
\* is the response to its own request, never a late one to an earlier request
\* (errors carry no request id), nor another one when it retries.
ExactlyOnce ==
    /\ \A j, k \in DOMAIN executed : executed[j].id = executed[k].id => j = k
    /\ \A a \in answers :
          /\ (a.request.op \in {"reset", "step"} /\ a.result.kind = "answer") =>
                 LET call == executed[a.result.observation]
                 IN call.id = a.id /\ call.request = a.request /\ call.ok
          /\ (a.instance = instance /\ cache[a.id] # None /\ cache[a.id].request = a.request) =>
                 a.result = cache[a.id].result
    /\ \A a, b \in answers :
          (a.id = b.id /\ a.request = b.request) => a.result = b.result

\* A client that waits for a response, and one that waits to be accepted,
\* are not left waiting, whatever connection was abandoned before.
NobodyWaitsForever ==
    /\ waiting # None ~> waiting = None
    /\ conn = "queued" ~> conn # "queued"

\* "Serve one endpoint until a deduplicated close request succeeds."
ServesUntilClosed == server = "down" => closed
=============================================================================
