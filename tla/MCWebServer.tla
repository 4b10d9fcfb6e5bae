----------------------------- MODULE MCWebServer -----------------------------
(* Instances of WebServer for TLC.                                         *)
EXTENDS WebServer, SequencesExt

CONSTANTS polite, hasty

Get(path, version) ==
    [method |-> "GET", path |-> path, length |-> NoLength, version |-> version]

Post(path, length, version) ==
    [method |-> "POST", path |-> path, length |-> length, version |-> version]

\* polite waits for each answer: a body, then a request that ends the
\* connection.  hasty does not wait: what it sends behind a head may be read with
\* it, and a later request then loses its head.  Each of its last three requests
\* ends the process in a way of its own, if it gets there: after the answer, for
\* its Content-Length, for its content.
Requests ==
    (polite :> <<Post("/string", 1, "1.1"), Get("/info", "1.0")>>) @@
    (hasty :> <<Get("/page", "1.1"), Post("/string", 1, "none"),
                Post("/page", BadLength, "1.1"), Post("/string", NoLength, "1.1")>>)

\* The units of each request: its head, then its body.
Streams ==
    [c \in Clients |->
        FlattenSeq([i \in DOMAIN Requests[c] |->
                       [n \in 1..(1 + BodySize(Requests[c][i])) |-> Unit(i, n - 1)]])]

\* The values of the constants.  TLC evaluates these wherever a constant is used,
\* and the definitions above only once.
ScriptValue == Requests

StreamValue == Streams

==============================================================================
