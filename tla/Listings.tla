------------------------------- MODULE Listings -------------------------------
(***************************************************************************)
(* The small programs, one per behaviour: the critical sections of 7.2 and *)
(* 7.3, the listings of Lifetimes, the tuples of 4.3, and a request to the *)
(* function of the default resource.                                       *)
(*                                                                         *)
(* They share nothing.  The variables of those that do not run are parked. *)
(***************************************************************************)
EXTENDS Integers, Sequences, FiniteSets

CONSTANTS
    Threads, Nobody, Change,  \* of CriticalSection
    MaxObjects,               \* of Lifetimes
    MaxIndex,                 \* of Tuples
    Chars, Paths, NPos        \* of DefaultPath

ASSUME ThreadsAssumption ==
    /\ Nobody \notin Threads
    /\ Change \in [Threads -> Int]

ASSUME BoundsAssumption == MaxObjects \in Nat /\ MaxIndex \in Nat

ASSUME PathsAssumption ==
    /\ {".", "/"} \subseteq Chars
    /\ Paths \subseteq Seq(Chars)
    /\ NPos \notin Nat

VARIABLES
    program, \* the listing that runs; "4.3" or "handler" of the last two
    printed, \* what it has printed
    pc, mtx, v, reg, applied,
    rest, started, at, refs, val,
    asked, calls, n,
    stage, requested, path, last_pos, current_pos, filename, answer

threads == <<pc, mtx, v, reg, applied>>
heap == <<rest, started, at, refs, val>>
tuple == <<asked, calls, n>>
request == <<stage, requested, path, last_pos, current_pos, filename, answer>>

vars == <<program, printed, threads, heap, tuple, request>>

C == INSTANCE CriticalSection

L == INSTANCE Lifetimes

T == INSTANCE Tuples

P == INSTANCE DefaultPath

ThreadsParked == pc = <<>> /\ mtx = Nobody /\ v = 1 /\ reg = <<>> /\ applied = <<>>

HeapParked ==
    /\ rest = L!Alone(<<>>) /\ started = {} /\ at = [x \in L!Names |-> L!Nil]
    /\ refs = <<>> /\ val = <<>>

TupleParked == asked = <<>> /\ calls = 0 /\ n = 0

RequestParked ==
    /\ stage = "parked" /\ requested = <<>> /\ path = <<>> /\ last_pos = NPos
    /\ current_pos = 0 /\ filename = <<>> /\ answer = "none"

Init ==
    \/ C!Init /\ HeapParked /\ TupleParked /\ RequestParked
    \/ L!Init /\ ThreadsParked /\ TupleParked /\ RequestParked
    \/ program = "4.3" /\ T!Init /\ ThreadsParked /\ HeapParked /\ RequestParked
    \/ program = "handler" /\ P!Init /\ printed = <<>>
       /\ ThreadsParked /\ HeapParked /\ TupleParked

InCriticalSection == program \in {"7.2", "7.3"}

OnHeap == program \in L!Programs

ThreadStep(t) == InCriticalSection /\ C!Step(t) /\ UNCHANGED <<heap, tuple, request>>

HeapStep(t) == OnHeap /\ L!Step(t) /\ UNCHANGED <<threads, tuple, request>>

TupleStep ==
    program = "4.3" /\ T!tuple_index /\ UNCHANGED <<program, threads, heap, request>>

PathStep ==
    program = "handler" /\ P!Step /\ UNCHANGED <<program, printed, threads, heap, tuple>>

\* A thread waits for its mutex, or the program has ended.
Stopped ==
    /\ \/ InCriticalSection /\ ((\E t \in Threads : C!Idle(t)) \/ C!Joined)
       \/ OnHeap /\ L!Terminated
       \/ program = "4.3" /\ T!Returned
       \/ program = "handler" /\ P!Returned
    /\ UNCHANGED vars

Next ==
    \/ \E t \in Threads : ThreadStep(t)
    \/ \E t \in L!ThreadNames : HeapStep(t)
    \/ TupleStep
    \/ PathStep
    \/ Stopped

Spec == Init /\ [][Next]_vars

\* The threads keep running; mtx is not fair.
FairSpec ==
    /\ Spec
    /\ \A t \in Threads : WF_vars(ThreadStep(t))
    /\ \A t \in L!ThreadNames : WF_vars(HeapStep(t))
    /\ WF_vars(TupleStep)
    /\ WF_vars(PathStep)

------------------------------------------------------------------------------
TypeOK ==
    /\ InCriticalSection => C!TypeOK
    /\ OnHeap => L!TypeOK
    /\ program = "4.3" => T!TypeOK
    /\ program = "handler" => P!TypeOK

\* 7.2 and 7.3: each group of operations on v is one piece, whoever runs in between.
NoUpdateLost == InCriticalSection => C!NoUpdateLost

\* Lifetimes: the count of an object is the number of its owners, whatever was
\* moved, copied, shared or reset: nothing is destroyed twice or too early.
OwnersCounted == L!OwnersCounted

\* Lifetimes: nothing is left on the heap but the cycle of 5.3, and what a thread
\* that still runs owns.
NothingLeaks == OnHeap => L!NothingLeaks


\* The function of the default resource: at most one dot is left in a path.
OneDotLeft == P!OneDotLeft

\* Every program ends: no thread waits for ever, for a mutex, a thread or a
\* future; the tuple is printed; the request is answered for the right file.
EveryProgramEnds ==
    <>(/\ InCriticalSection => C!AllReturned
       /\ OnHeap /\ program # "3.5 any" => L!Exited
       /\ program = "4.3" => T!AllFound
       /\ program = "handler" => P!AnsweredRight)

==============================================================================
