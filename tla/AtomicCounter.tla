----------------------------- MODULE AtomicCounter -----------------------------
(***************************************************************************)
(* The counting programs of chapter 7: main() of code/7/7.6.atomic.cpp     *)
(* (two threads, the second counts twice), and relaxed_order() and         *)
(* sequential_consistent_order() of code/7/7.8.memory.order.cpp (N threads *)
(* that count once, with another memory order).  main() joins the threads  *)
(* in the order in which it started them; 7.6 prints the counter then (7.8 *)
(* prints how long it took, and the counter only in the book).             *)
(***************************************************************************)
EXTENDS CppMemory, FiniteSets

CONSTANTS
    N,          \* the threads are 1..N
    Increments, \* how often each of them counts
    Order       \* the memory order of their fetch_add()

VARIABLES
    left,    \* increments each thread has still to do
    joining, \* the thread main() waits for; N + 1 after the loop
    printed, \* what main() printed
    returned \* main() has returned

vars == <<memory, left, joining, printed, returned>>

Main == 0

Init ==
    /\ Booted(0..N, [x \in {"counter"} |-> 0])
    /\ left = Increments
    /\ joining = 1
    /\ printed = <<>>
    /\ returned = FALSE

\* counter.fetch_add(1, order); ++ and += are the same with seq_cst.
Count(t) ==
    /\ left[t] > 0
    /\ Rmw(t, "counter", Value("counter", Latest("counter")) + 1, Order)
    /\ left' = [left EXCEPT ![t] = @ - 1]
    /\ UNCHANGED <<joining, printed, returned>>

JoinNext(from) ==
    /\ joining \in 1..N
    /\ left[joining] = 0
    /\ Joined(Main, joining)
    /\ joining' = from + 1
    /\ UNCHANGED <<left, printed, returned>>

\* Fault: after its first join main() goes on.
Join_Once == JoinNext(N)

\* t.join()
Join == JoinNext(joining)

PrintCounter ==
    /\ joining = N + 1
    /\ printed = <<>>
    /\ \E k \in Readable(Main, "counter") :
          /\ Load(Main, "counter", k, "seq_cst")
          /\ printed' = <<Value("counter", k)>>
    /\ UNCHANGED <<left, joining, returned>>

Return ==
    /\ printed # <<>>
    /\ returned' = TRUE
    /\ UNCHANGED <<memory, left, joining, printed>>

Next ==
    \/ \E t \in 1..N : Count(t)
    \/ Join
    \/ PrintCounter
    \/ Return

------------------------------------------------------------------------------
\* The calls of fetch_add(): <<t, n>> is the one that leaves thread t n - 1 more.
Calls == UNION {{t} \X (1..Increments[t]) : t \in 1..N}

Total == Cardinality(Calls)

TypeOK ==
    /\ MemoryTypeOK(0..N, [x \in {"counter"} |-> 0..Total])
    /\ left \in [1..N -> 0..Total]
    /\ joining \in 1..(N + 1)
    /\ printed \in Seq(Nat)
    /\ returned \in BOOLEAN

==============================================================================
