----------------------------- MODULE Conversation -----------------------------
(***************************************************************************)
(* What a web server promises its clients, without connections, threads,   *)
(* buffers or operations: each answer is the right one of a request that   *)
(* has been sent completely, answers come in the order of the requests,    *)
(* nothing follows the last one, and a client that waits for each answer   *)
(* gets every one that is due and is hung up on only for a reason.  The     *)
(* one thing a client can do to another is to crash the server for all of   *)
(* them, with a request that is known to.                                  *)
(***************************************************************************)
EXTENDS Integers, Sequences

CONSTANTS
    Clients,
    Pipelining, \* the clients that do not wait for an answer before they go on
    Reply,      \* Reply[c][i]: the right answer to request i of c, with i in its field req
    Refused,    \* the Reply to a request that gets no answer
    Final,      \* Final[c]: the requests that end the conversation
    Fatal       \* Fatal[c]: the requests that crash the server

VARIABLES
    asked,    \* asked[c]: the requests that c has sent completely
    answered, \* answered[c]: what c has received
    gone,     \* the clients that have hung up
    closed    \* the clients the server has hung up on

cvars == <<asked, answered, gone, closed>>

Init ==
    /\ asked = [c \in Clients |-> {}]
    /\ answered = [c \in Clients |-> <<>>]
    /\ gone = {}
    /\ closed = {}

Patient(c) == c \notin Pipelining

\* The last answer has been given.
Over(c) == \E n \in DOMAIN answered[c] : answered[c][n].req \in Final[c]

\* The answer to request i may come next: a patient client is owed each.
Due(c, i) ==
    /\ \A n \in DOMAIN answered[c] : answered[c][n].req < i
    /\ Patient(c) => i = Len(answered[c]) + 1

Ask(c) ==
    /\ c \notin gone \cup closed
    /\ \E i \in DOMAIN Reply[c] \ asked[c] :
          /\ 1..(i - 1) \subseteq asked[c]
          /\ Patient(c) => Due(c, i)
          /\ asked' = [asked EXCEPT ![c] = @ \cup {i}]
    /\ UNCHANGED <<answered, gone, closed>>

HangUp(c) ==
    /\ c \notin gone
    /\ gone' = gone \cup {c}
    /\ UNCHANGED <<asked, answered, closed>>

Answer(c) ==
    /\ c \notin gone \cup closed
    /\ ~Over(c)
    /\ \E i \in asked[c] :
          /\ Reply[c][i] # Refused
          /\ Due(c, i)
          /\ answered' = [answered EXCEPT ![c] = Append(@, Reply[c][i])]
    /\ UNCHANGED <<asked, gone, closed>>

\* To a client that pipelines the server promises nothing here.
Close(c) ==
    /\ c \notin closed
    /\ \/ ~Patient(c)
       \/ c \in gone
       \/ Over(c)
       \/ \E i \in asked[c] : Reply[c][i] = Refused /\ i \notin Fatal[c] /\ Due(c, i)
    /\ closed' = closed \cup {c}
    /\ UNCHANGED <<asked, answered, gone>>

Crash(c) ==
    /\ c \notin closed
    /\ asked[c] \cap Fatal[c] # {}
    /\ closed' = Clients
    /\ UNCHANGED <<asked, answered, gone>>

Next == \E c \in Clients : Ask(c) \/ HangUp(c) \/ Answer(c) \/ Close(c) \/ Crash(c)

Safe == Init /\ [][Next]_cvars

\* A patient client is answered, and nobody's connection is kept for ever, in as far
\* as the server does not crash before.
Spec ==
    /\ Safe
    /\ \A c \in Clients \ Pipelining : WF_cvars(Answer(c)) /\ WF_cvars(Close(c))
    /\ \A c \in Pipelining : WF_cvars(c \in gone /\ Close(c))

==============================================================================
