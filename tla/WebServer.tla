------------------------------ MODULE WebServer ------------------------------
(***************************************************************************)
(* The web server of exercises/6: ServerBase, Server<HTTP>, Server<HTTPS>  *)
(* and the resources of start_server().  Threads run the handlers of the   *)
(* asynchronous operations: one accept at a time, and per connection a     *)
(* chain of handshake, read of a head, read of a body, write.  Each        *)
(* handler starts the next operation of its connection, or drops the last  *)
(* reference to the socket, which closes it.                               *)
(*                                                                         *)
(* What a client sends is a sequence of units: the head of a request is    *)
(* one, its body is some more.  An operation on a socket takes as many     *)
(* units as have arrived, also more than it needs.  A body holds neither    *)
(* the end of a head nor a line that reads like the start of one.          *)
(*                                                                         *)
(* What a handler throws leaves io_service.run() and its thread: it ends   *)
(* the process, and with it every connection.                              *)
(***************************************************************************)
EXTENDS Integers, Sequences, FiniteSetsExt

CONSTANTS
    IoThreads,  \* the threads in io_service.run()
    Clients,
    Script,     \* Script[c]: the requests of client c, in order
    Stream,     \* Stream[c]: these requests as the units that c sends
    Pipelining, \* the clients that do not wait for an answer before they go on
    Nobody,
    SizeMod,    \* 2^64 in the code: arithmetic of size_t is modulo this
    MaxErrors   \* bound: failed accepts in a run

ASSUME ClientsAssumption ==
    /\ IoThreads # {} /\ Nobody \notin Clients /\ Pipelining \subseteq Clients

ASSUME BoundAssumption == MaxErrors \in Nat

Methods == {"GET", "POST"}

Paths == {"/info", "/match/x", "/string", "/page"}

\* length is the value of Content-Length, and the size of the body; NoLength if
\* there is no such header, BadLength if stoull() finds no size in it.  version
\* is above 1.05, or not, or stof() finds no number in it.
NoLength == -1
BadLength == -2
Versions == {"1.1", "1.0", "none"}

Request == [method : Methods, path : Paths, length : {NoLength, BadLength} \cup Nat,
            version : Versions]

ASSUME ScriptAssumption == \A c \in Clients : Script[c] \in Seq(Request)

BodySize(r) == IF r.length \in Nat THEN r.length ELSE 0

Units == [req : Nat, part : Nat]

Unit(i, part) == [req |-> i, part |-> part]

UnitsOf(c, i) == {Unit(i, part) : part \in 0..BodySize(Script[c][i])}

Before(u, v) == u.req < v.req \/ (u.req = v.req /\ u.part < v.part)

\* A stream holds all units of the requests and nothing else, in order.
ASSUME StreamAssumption ==
    \A c \in Clients :
        /\ Stream[c] \in Seq(Units)
        /\ \A n \in DOMAIN Stream[c] : \E i \in DOMAIN Script[c] : Stream[c][n] \in UnitsOf(c, i)
        /\ \A i \in DOMAIN Script[c] : \A u \in UnitsOf(c, i) :
              \E n \in DOMAIN Stream[c] : Stream[c][n] = u
        /\ \A m, n \in DOMAIN Stream[c] : m < n => Before(Stream[c][m], Stream[c][n])

\* No client sends so much that a wrapped size could arrive.
ASSUME SizeAssumption ==
    SizeMod \in Nat \ {0} /\ \A c \in Clients : 2 * Len(Stream[c]) < SizeMod

VARIABLES
    secure,    \* whether it is an HTTPS server
    listening, \* the accept operation: "idle", "armed", or "ready" to be handled;
               \* "terminated" when the process has ended
    accepted,  \* who was accepted when it is ready; Nobody after an error
    errors,    \* failed accepts so far
    serving,   \* serving[t]: the connection t has accepted and not yet served
    backlog,   \* the clients that wait to be accepted
    gone,      \* the clients that have hung up
    sent,      \* sent[c]: units c has sent
    wire,      \* wire[c]: those that the server has not read
    stage,     \* stage[c]: the operation on the socket of c, or "none", "closed"
    status,    \* status[c]: whether that is "pending", "done" or "failed"
    buffer,    \* buffer[c]: the read_buffer of the request
    request,   \* request[c]: the request that is read, 0 if it could not be parsed
    need,      \* need[c]: units that the read of the body waits for
    response,  \* response[c]: the write_buffer of the request
    answers    \* answers[c]: what c has received

NoResponse == [req |-> 0, by |-> 0, content |-> <<>>]

accepting == <<listening, accepted, errors, serving, backlog>>
sockets == <<stage, status, buffer, request, need, response, wire, answers>>
vars == <<secure, accepting, gone, sent, sockets>>

Init ==
    /\ secure \in BOOLEAN
    /\ listening = "armed"
    /\ accepted = Nobody
    /\ errors = 0
    /\ serving = [t \in IoThreads |-> Nobody]
    /\ backlog = {}
    /\ gone = {}
    /\ sent = [c \in Clients |-> 0]
    /\ wire = [c \in Clients |-> <<>>]
    /\ stage = [c \in Clients |-> "none"]
    /\ status = [c \in Clients |-> "done"]
    /\ buffer = [c \in Clients |-> <<>>]
    /\ request = [c \in Clients |-> 0]
    /\ need = [c \in Clients |-> 0]
    /\ response = [c \in Clients |-> NoResponse]
    /\ answers = [c \in Clients |-> <<>>]

------------------------------------------------------------------------------
(* The clients.                                                            *)

Known(c) == c \in backlog \/ stage[c] # "none" \/ accepted = c \/ \E t \in IoThreads : serving[t] = c

Connect(c) ==
    /\ ~Known(c) /\ c \notin gone
    /\ backlog' = backlog \cup {c}
    /\ UNCHANGED <<secure, listening, accepted, errors, serving, gone, sent, sockets>>

NextUnit(c) == Stream[c][sent[c] + 1]

\* A client that does not pipeline begins a request when it has the answer to
\* the one before.
Send(c) ==
    /\ Known(c) /\ c \notin gone /\ stage[c] # "closed"
    /\ sent[c] < Len(Stream[c])
    /\ LET u == NextUnit(c)
       IN  /\ u.part = 0 /\ c \notin Pipelining => Len(answers[c]) = u.req - 1
           /\ wire' = [wire EXCEPT ![c] = Append(@, u)]
    /\ sent' = [sent EXCEPT ![c] = @ + 1]
    /\ UNCHANGED <<secure, accepting, gone, stage, status, buffer, request, need, response, answers>>

\* At any time a client may hang up; what it has sent still arrives.
HangUp(c) ==
    /\ Known(c) /\ c \notin gone
    /\ gone' = gone \cup {c}
    /\ UNCHANGED <<secure, accepting, sent, sockets>>

------------------------------------------------------------------------------
(* Accepting.                                                              *)

\* async_accept() completes.
AcceptCompletes ==
    /\ listening = "armed"
    /\ \E c \in backlog : accepted' = c /\ backlog' = backlog \ {c}
    /\ listening' = "ready"
    /\ UNCHANGED <<secure, errors, serving, gone, sent, sockets>>

AcceptFails ==
    /\ listening = "armed"
    /\ errors < MaxErrors
    /\ errors' = errors + 1
    /\ accepted' = Nobody
    /\ listening' = "ready"
    /\ UNCHANGED <<secure, serving, backlog, gone, sent, sockets>>

HandleAcceptThen(t, armed) ==
    /\ listening = "ready" /\ serving[t] = Nobody
    /\ listening' = armed
    /\ serving' = [serving EXCEPT ![t] = accepted]
    /\ accepted' = Nobody
    /\ UNCHANGED <<secure, errors, backlog, gone, sent, sockets>>

\* Fault: accept() is called only if there was no error.
HandleAccept_OnSuccess(t) ==
    HandleAcceptThen(t, IF accepted = Nobody THEN "idle" ELSE "armed")

\* Its handler first calls accept() again.
HandleAccept(t) == HandleAcceptThen(t, "armed")

\* Then it serves the connection: another thread may be in the handler of the
\* next accept by now.
Serve(t) ==
    /\ serving[t] # Nobody
    /\ LET c == serving[t]
       IN  /\ stage' = [stage EXCEPT ![c] = IF secure THEN "handshake" ELSE "head"]
           /\ status' = [status EXCEPT ![c] = "pending"]
    /\ serving' = [serving EXCEPT ![t] = Nobody]
    /\ UNCHANGED <<secure, listening, accepted, errors, backlog, gone, sent,
                   buffer, request, need, response, wire, answers>>

------------------------------------------------------------------------------
(* The operations on the socket of a connection, by the network.           *)

Pending(c, what) == stage[c] = what /\ status[c] = "pending"

Complete(c) == status' = [status EXCEPT ![c] = "done"]

HandshakeCompletes(c) ==
    /\ Pending(c, "handshake")
    /\ Complete(c)
    /\ UNCHANGED <<secure, accepting, gone, sent, stage, buffer, request, need, response, wire, answers>>

IsHead(u) == u.part = 0

\* async_read_until(): takes what has arrived until the buffer holds a head.
ReadHead(c) ==
    /\ Pending(c, "head")
    /\ \E k \in 1..Len(wire[c]) :
          LET read == SubSeq(wire[c], 1, k)
          IN  /\ buffer' = [buffer EXCEPT ![c] = @ \o read]
              /\ wire' = [wire EXCEPT ![c] = SubSeq(@, k + 1, Len(@))]
              /\ status' = [status EXCEPT ![c] =
                               IF \E n \in 1..k : IsHead(read[n]) THEN "done" ELSE "pending"]
    /\ UNCHANGED <<secure, accepting, gone, sent, stage, request, need, response, answers>>

\* async_read() with transfer_exactly(): takes what has arrived, never more than
\* it needs.
ReadBody(c) ==
    /\ Pending(c, "body")
    /\ \E k \in 1..Len(wire[c]) :
          /\ k <= need[c]
          /\ buffer' = [buffer EXCEPT ![c] = @ \o SubSeq(wire[c], 1, k)]
          /\ wire' = [wire EXCEPT ![c] = SubSeq(@, k + 1, Len(@))]
          /\ need' = [need EXCEPT ![c] = @ - k]
          /\ status' = [status EXCEPT ![c] = IF need[c] = k THEN "done" ELSE "pending"]
    /\ UNCHANGED <<secure, accepting, gone, sent, stage, request, response, answers>>

\* The client is gone and nothing is left to read, or the handshake or the write
\* fails.
OperationFails(c) ==
    /\ status[c] = "pending" /\ stage[c] \in {"handshake", "head", "body", "write"}
    /\ c \in gone
    /\ stage[c] \in {"head", "body"} => wire[c] = <<>>
    /\ status' = [status EXCEPT ![c] = "failed"]
    /\ UNCHANGED <<secure, accepting, gone, sent, stage, buffer, request, need, response, wire, answers>>

\* async_write() completes: the client has the answer, if it is still there.
WriteCompletes(c) ==
    /\ Pending(c, "write")
    /\ Complete(c)
    /\ answers' = [answers EXCEPT ![c] = IF c \in gone THEN @ ELSE Append(@, response[c])]
    /\ UNCHANGED <<secure, accepting, gone, sent, stage, buffer, request, need, response, wire>>

------------------------------------------------------------------------------
(* The handlers of these operations.  A thread runs one from its start to  *)
(* its end; handlers of different connections only share all_resources,    *)
(* which nobody changes.                                                   *)

\* The resources of start_server(), in the order of the map, then the default one.
Resources == <<[paths |-> {"/info"}, methods |-> {"GET"}],
               [paths |-> {"/match/x"}, methods |-> {"GET"}],
               [paths |-> {"/string"}, methods |-> {"POST"}]>>

DefaultResources == <<[paths |-> Paths, methods |-> {"GET"}]>>

\* start() collects them.
AllResources == Resources \o DefaultResources

\* The first resource that has a function for the path and the method, or 0.
Serving(r) == {n \in DOMAIN AllResources :
                  r.path \in AllResources[n].paths /\ r.method \in AllResources[n].methods}

Route(r) == IF Serving(r) = {} THEN 0 ELSE Min(Serving(r))

Idle == \E t \in IoThreads : serving[t] = Nobody

Done(c, what) == stage[c] = what /\ status[c] = "done" /\ Idle

Start(c, what, state) ==
    /\ stage' = [stage EXCEPT ![c] = what]
    /\ status' = [status EXCEPT ![c] = state]

\* Dropping the last reference to the socket.
Close(c) == Start(c, "closed", "done")

\* process_request_and_respond(): a new buffer, what the old one held is lost.
ReadRequest(c) ==
    /\ Start(c, "head", "pending")
    /\ buffer' = [buffer EXCEPT ![c] = <<>>]
    /\ UNCHANGED <<secure, accepting, gone, sent, request, need, response, wire, answers>>

HandleHandshake(c) == Done(c, "handshake") /\ ReadRequest(c)

\* respond() to request i of c (0: an unparsed one).  The function of "/string"
\* returns all that the buffer holds.
Respond(c, i, content) ==
    LET route == IF i = 0 THEN 0 ELSE Route(Script[c][i])
        echo  == IF Script[c][i].method = "POST" THEN content ELSE <<>>
    IN  IF route = 0
        THEN Close(c) /\ UNCHANGED response
        ELSE /\ Start(c, "write", "pending")
             /\ response' = [response EXCEPT ![c] = [req |-> i, by |-> route, content |-> echo]]

\* The function of "/string" reads from the content, which is null if there was no
\* Content-Length.
ReadsNull(r) == r.method = "POST" /\ r.length = NoLength /\ Route(r) # 0

\* Where the head is in the buffer, and what follows it.
HeadAt(c) == Min({k \in DOMAIN buffer[c] : IsHead(buffer[c][k])})

Extra(c) == SubSeq(buffer[c], HeadAt(c) + 1, Len(buffer[c]))

HeadRequest(c) == Script[c][buffer[c][HeadAt(c)].req]

HeadLength(c) == HeadRequest(c).length

\* parse_request() eats the head.  When the buffer starts with something else it
\* finds no request, but it may find the headers.  The read of the body waits
\* for n more units.
HandleHeadWith(c, n) ==
    LET first == HeadAt(c) = 1
    IN  /\ request' = [request EXCEPT ![c] = IF first THEN buffer[c][1].req ELSE 0]
        /\ buffer' = [buffer EXCEPT ![c] = Extra(c)]
        /\ \/ /\ HeadLength(c) \in Nat
              /\ Start(c, "body", IF n = 0 THEN "done" ELSE "pending")
              /\ need' = [need EXCEPT ![c] = n]
              /\ UNCHANGED response
           \/ /\ IF first THEN HeadLength(c) = NoLength /\ ~ReadsNull(HeadRequest(c)) ELSE TRUE
              /\ Respond(c, request'[c], <<>>)
              /\ UNCHANGED need
        /\ UNCHANGED <<secure, accepting, gone, sent, wire, answers>>

\* Fault: what the buffer holds of the body is not counted.
HandleHead_Ignores(c) == Done(c, "head") /\ HandleHeadWith(c, HeadLength(c) % SizeMod)

\* The read of the body asks for what is not there already.
HandleHead(c) ==
    Done(c, "head") /\ HandleHeadWith(c, (HeadLength(c) - Len(Extra(c))) % SizeMod)

HandleBody(c) ==
    /\ Done(c, "body")
    /\ Respond(c, request[c], buffer[c])
    /\ UNCHANGED <<secure, accepting, gone, sent, buffer, request, need, wire, answers>>

Persistent(c) == Script[c][request[c]].version = "1.1"

\* Fault: responds again.
HandleWrite_Responds(c) ==
    /\ Done(c, "write") /\ Persistent(c)
    /\ Respond(c, request[c], <<>>)
    /\ UNCHANGED <<secure, accepting, gone, sent, buffer, request, need, wire, answers>>

\* HTTP 1.1: the connection is kept.
HandleWrite(c) == Done(c, "write") /\ Persistent(c) /\ ReadRequest(c)

CloseOnly(c) ==
    /\ Close(c)
    /\ UNCHANGED <<secure, accepting, gone, sent, buffer, request, need, response, wire, answers>>

\* Fault: whatever the version is.
HandleLastWrite_Always(c) == Done(c, "write") /\ CloseOnly(c)

HandleLastWrite(c) == Done(c, "write") /\ Script[c][request[c]].version = "1.0" /\ CloseOnly(c)

\* What no handler survives: stoull() throws in the handler of a head, whose
\* headers are not read for certain behind something else; a function of a
\* resource reads a null pointer; stof() throws in the handler of a write.
ThrowsFor(c, lengths) ==
    \/ Done(c, "head") /\ HeadLength(c) \in lengths
    \/ Done(c, "head") /\ HeadAt(c) = 1 /\ ReadsNull(HeadRequest(c))
    \/ Done(c, "write") /\ Script[c][request[c]].version = "none"

\* Fault: Content-Length is converted whether there is one or not.
Throws_Unchecked(c) == ThrowsFor(c, {BadLength, NoLength})

Throws(c) == ThrowsFor(c, {BadLength})

\* std::terminate(): all sockets are closed, nobody is served or accepted any more.
Terminate(c) ==
    /\ Throws(c)
    /\ listening' = "terminated"
    /\ accepted' = Nobody
    /\ serving' = [t \in IoThreads |-> Nobody]
    /\ backlog' = {}
    /\ stage' = [d \in Clients |-> "closed"]
    /\ status' = [d \in Clients |-> "done"]
    /\ UNCHANGED <<secure, errors, gone, sent, buffer, request, need, response, wire, answers>>

Failed(c) == status[c] = "failed" /\ Idle

\* Fault: goes on to the next request.
HandleFailure_Rereads(c) == Failed(c) /\ ReadRequest(c)

\* Every handler does nothing when its operation has failed.
HandleFailure(c) == Failed(c) /\ CloseOnly(c)

Handle(c) ==
    \/ HandleHandshake(c) \/ HandleHead(c) \/ HandleBody(c)
    \/ HandleWrite(c) \/ HandleLastWrite(c) \/ HandleFailure(c) \/ Terminate(c)

Network(c) ==
    \/ HandshakeCompletes(c) \/ ReadHead(c) \/ ReadBody(c)
    \/ WriteCompletes(c) \/ OperationFails(c)

Client(c) == Connect(c) \/ Send(c) \/ HangUp(c)

\* The server waits for clients for ever.
Waiting == UNCHANGED vars

Next ==
    \/ \E c \in Clients : Client(c) \/ Network(c) \/ Handle(c)
    \/ \E t \in IoThreads : HandleAccept(t) \/ Serve(t)
    \/ AcceptCompletes \/ AcceptFails
    \/ Waiting

Spec == Init /\ [][Next]_vars

\* The threads run what is ready and the network delivers: a connection has one
\* operation or handler at a time, and the system accepts who waits.  Nothing is
\* assumed of the clients: they may stop anywhere.
FairSpec ==
    /\ Spec
    /\ \A c \in Clients : WF_vars(Network(c) \/ Handle(c))
    /\ WF_vars(\E t \in IoThreads : HandleAccept(t) \/ Serve(t))
    /\ WF_vars(AcceptCompletes)

------------------------------------------------------------------------------
Responses == [req : Nat, by : 0..Len(AllResources), content : Seq(Units)]

TypeOK ==
    /\ secure \in BOOLEAN
    /\ listening \in {"idle", "armed", "ready", "terminated"}
    /\ accepted \in Clients \cup {Nobody}
    /\ errors \in 0..MaxErrors
    /\ serving \in [IoThreads -> Clients \cup {Nobody}]
    /\ backlog \subseteq Clients /\ gone \subseteq Clients
    /\ sent \in [Clients -> Nat]
    /\ wire \in [Clients -> Seq(Units)]
    /\ stage \in [Clients -> {"none", "handshake", "head", "body", "write", "closed"}]
    /\ status \in [Clients -> {"pending", "done", "failed"}]
    /\ buffer \in [Clients -> Seq(Units)]
    /\ request \in [Clients -> Nat]
    /\ need \in [Clients -> 0..(SizeMod - 1)]
    /\ response \in [Clients -> Responses]
    /\ answers \in [Clients -> Seq(Responses)]

\* Answers come in the order of the requests, none twice; a client that waits
\* for each gets all of them.
AnswersInOrder ==
    \A c \in Clients : \A n \in DOMAIN answers[c] :
        /\ c \notin Pipelining => answers[c][n].req = n
        /\ n > 1 => answers[c][n - 1].req < answers[c][n].req

Body(c, i) == [n \in 1..BodySize(Script[c][i]) |-> Unit(i, n)]

\* The function of "/string" returns exactly the body of its request, in
\* whatever pieces head and body arrived and whatever came behind them.
BodyIntact ==
    \A c \in Clients : \A n \in DOMAIN answers[c] :
        LET a == answers[c][n]
        IN  Script[c][a.req].method = "POST" => a.content = Body(c, a.req)

\* The whole of request i of c is on its way to the server.
HasSent(c, i) == \E n \in 1..sent[c] : Stream[c][n] = Unit(i, BodySize(Script[c][i]))

\* The requests that end the process: whatever has no size in its Content-Length,
\* and what a resource serves though it has no content or no version.
IsFatal(r) == r.length = BadLength \/ ReadsNull(r) \/ (r.version = "none" /\ Route(r) # 0)

FatalRequests == [c \in Clients |-> {i \in DOMAIN Script[c] : IsFatal(Script[c][i])}]

\* The server closes the connection of a client that waits for its answers only
\* because the client is gone, asked for it, or wanted what no resource has, or
\* because some client, that one or another, has sent a request that no server
\* survives.
ClosedForAReason ==
    \A c \in Clients \ Pipelining :
        LET n == Len(answers[c])
        IN  stage[c] = "closed" =>
                \/ c \in gone
                \/ n > 0 /\ Script[c][n].version = "1.0"
                \/ n < Len(Script[c]) /\ Route(Script[c][n + 1]) = 0
                \/ /\ listening = "terminated"
                   /\ \E d \in Clients : \E i \in FatalRequests[d] : HasSent(d, i)

\* "read_buffer->size() always equal to bytes_transferred": the buffer ends with
\* the head when the handler of the read of the head starts.
SizeIsTransferred ==
    \A c \in Clients : stage[c] = "head" /\ status[c] = "done" =>
        Len(buffer[c]) = HeadAt(c)

\* A resource serves it, and no request before it was the last.
Servable(c, i) ==
    /\ Route(Script[c][i]) # 0
    /\ \A k \in 1..(i - 1) : Script[c][k].version = "1.1"

\* Who has sent a whole request that some resource serves, and waits for its
\* answer, gets it, whatever the other clients do or omit, unless a request
\* terminates the server.
RequestsAnswered ==
    \A c \in Clients \ Pipelining : \A i \in DOMAIN Script[c] :
        Servable(c, i) =>
            HasSent(c, i) ~> \/ c \in gone \/ listening = "terminated"
                             \/ \E n \in DOMAIN answers[c] : answers[c][n].req = i

\* What request i of c deserves, by the resource of the first route that matches.
RightAnswer(c, i) ==
    LET r == Script[c][i]
    IN  IF Route(r) = 0 \/ r.length = BadLength \/ ReadsNull(r) THEN NoResponse
        ELSE [req |-> i, by |-> Route(r), content |-> IF r.method = "POST" THEN Body(c, i) ELSE <<>>]

RightAnswers == [c \in Clients |-> [i \in DOMAIN Script[c] |-> RightAnswer(c, i)]]

LastRequests == [c \in Clients |-> {i \in DOMAIN Script[c] : Script[c][i].version # "1.1"}]

\* What the clients see of the server, as an abstract server that has neither
\* connections nor threads: the right answers and no others, in order, none after
\* the last one; those that are due come; no connection is leaked; and it crashes
\* at no other requests than those.
Talk == INSTANCE Conversation
    WITH Reply <- RightAnswers,
         Refused <- NoResponse,
         Final <- LastRequests,
         Fatal <- FatalRequests,
         asked <- [c \in Clients |-> {i \in DOMAIN Script[c] : HasSent(c, i)}],
         answered <- answers,
         closed <- {c \in Clients : stage[c] = "closed"}

ImplementsConversation == Talk!Spec

==============================================================================
