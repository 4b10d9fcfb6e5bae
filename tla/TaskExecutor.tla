----------------------------- MODULE TaskExecutor -----------------------------
(***************************************************************************)
(* What the class ThreadPool promises to its callers, without threads,     *)
(* locks or wakeups: tasks start in the order they were accepted, no more  *)
(* than Capacity of them run at once, a task accepted before the executor  *)
(* closes is run to its end before the executor is gone, and one that      *)
(* comes later is refused.                                                 *)
(***************************************************************************)
EXTENDS Integers, Sequences, FiniteSets

CONSTANTS
    Tasks,
    Capacity    \* the number of threads given to the constructor

VARIABLES
    status,     \* "open", "closing" (the destructor has begun) or "gone"
    queue,      \* accepted tasks that have not started, oldest first
    running,
    finished,
    refused

xvars == <<status, queue, running, finished, refused>>

Known == {queue[i] : i \in DOMAIN queue} \cup running \cup finished \cup refused

Init ==
    /\ status = "open"
    /\ queue = <<>>
    /\ running = {}
    /\ finished = {}
    /\ refused = {}

Accept(f) ==
    /\ status = "open"
    /\ f \notin Known
    /\ queue' = Append(queue, f)
    /\ UNCHANGED <<status, running, finished, refused>>

Refuse(f) ==
    /\ status = "closing"
    /\ f \notin Known
    /\ refused' = refused \cup {f}
    /\ UNCHANGED <<status, queue, running, finished>>

Start ==
    /\ queue # <<>>
    /\ Cardinality(running) < Capacity
    /\ running' = running \cup {Head(queue)}
    /\ queue' = Tail(queue)
    /\ UNCHANGED <<status, finished, refused>>

Finish(f) ==
    /\ f \in running
    /\ running' = running \ {f}
    /\ finished' = finished \cup {f}
    /\ UNCHANGED <<status, queue, refused>>

Close ==
    /\ status = "open"
    /\ status' = "closing"
    /\ UNCHANGED <<queue, running, finished, refused>>

Vanish ==
    /\ status = "closing"
    /\ queue = <<>>
    /\ running = {}
    /\ status' = "gone"
    /\ UNCHANGED <<queue, running, finished, refused>>

Next ==
    \/ \E f \in Tasks : Accept(f) \/ Refuse(f) \/ Finish(f)
    \/ Start
    \/ Close
    \/ Vanish

Safe == Init /\ [][Next]_xvars

Spec ==
    /\ Safe
    /\ WF_xvars(Start)
    /\ \A f \in Tasks : WF_xvars(Finish(f))
    /\ WF_xvars(Vanish)

==============================================================================
