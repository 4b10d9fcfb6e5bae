----------------------------- MODULE MemoryOrder -----------------------------
(***************************************************************************)
(* main() of code/7/7.8.memory.order.cpp, which runs four functions, and   *)
(* main() of code/7/7.6.atomic.cpp.  The functions share nothing: a        *)
(* behaviour runs one of them.  release_consume_order() is run twice, with *)
(* memory_order_consume taken literally and promoted to acquire.           *)
(***************************************************************************)
EXTENDS Integers, Sequences

CONSTANTS
    Acquirers,     \* the threads "acquire" of release_acquire_order()
    Consumers,     \* the threads "consumer" of release_consume_order()
    Counters,      \* how many threads count
    Uninitialised, \* what the pointer declared without a value may hold
    Garbage        \* what other memory holds that nobody has written

ASSUME ThreadsAssumption ==
    /\ Acquirers \cap {"release", "acqrel"} = {}
    /\ "producer" \notin Consumers
    /\ Counters \in Nat \ {0}

ASSUME UninitialisedAssumption ==
    /\ Uninitialised # {} /\ Uninitialised \subseteq {"null", "dangling"}
    /\ Garbage \in Int

VARIABLES
    running,  \* the function that runs
    mem, reads, cur, acq, rel, raced, \* the memory, see CppMemory
    pc,       \* where its threads are
    local,    \* its local variable
    printed,  \* what it prints
    returned  \* whether it has joined its threads and returned

vars == <<running, mem, reads, cur, acq, rel, raced, pc, local, printed, returned>>

Once == [t \in 1..Counters |-> 1]

\* The second thread of 7.6 counts twice.
SecondTwice == [t \in 1..Counters |-> IF t = 2 THEN 2 ELSE 1]

Acquire == INSTANCE ReleaseAcquire WITH expected <- local, ConsumePromoted <- FALSE

Literal == INSTANCE ReleaseConsume WITH p <- local, ConsumePromoted <- FALSE

Promoted == INSTANCE ReleaseConsume WITH p <- local, ConsumePromoted <- TRUE

Relaxed == INSTANCE AtomicCounter
    WITH left <- pc, joining <- local, ConsumePromoted <- FALSE,
         N <- Counters, Increments <- Once, Order <- "relaxed"

SeqCst == INSTANCE AtomicCounter
    WITH left <- pc, joining <- local, ConsumePromoted <- FALSE,
         N <- Counters, Increments <- Once, Order <- "seq_cst"

Atomic == INSTANCE AtomicCounter
    WITH left <- pc, joining <- local, ConsumePromoted <- FALSE,
         N <- Counters, Increments <- SecondTwice, Order <- "seq_cst"

Init ==
    \/ running = "release_acquire_order" /\ Acquire!Init
    \/ running = "release_consume_order_literal" /\ Literal!Init
    \/ running = "release_consume_order_promoted" /\ Promoted!Init
    \/ running = "relaxed_order" /\ Relaxed!Init
    \/ running = "sequential_consistent_order" /\ SeqCst!Init
    \/ running = "7.6.atomic" /\ Atomic!Init

Running(function) == running = function /\ UNCHANGED running

Next ==
    \/ Running("release_acquire_order") /\ Acquire!Next
    \/ Running("release_consume_order_literal") /\ Literal!Next
    \/ Running("release_consume_order_promoted") /\ Promoted!Next
    \/ Running("relaxed_order") /\ Relaxed!Next
    \/ Running("sequential_consistent_order") /\ SeqCst!Next
    \/ Running("7.6.atomic") /\ Atomic!Next

\* Every thread keeps running, and a store becomes visible to the loads of other
\* threads in the end, as the standard asks: a loop of compare_exchange_strong()
\* does not see the old value for ever.
AcquireFairness ==
    /\ WF_vars(Running("release_acquire_order") /\ Acquire!Releaser)
    /\ WF_vars(Running("release_acquire_order") /\ Acquire!AcqRel)
    /\ SF_vars(Running("release_acquire_order") /\ Acquire!Exchange)
    /\ \A t \in Acquirers :
          WF_vars(Running("release_acquire_order") /\ Acquire!Acquirer(t))
    /\ WF_vars(Running("release_acquire_order") /\ Acquire!Return)

ConsumeFairness ==
    /\ WF_vars(Running("release_consume_order_promoted") /\ Promoted!Producing)
    /\ \A t \in Consumers :
          WF_vars(Running("release_consume_order_promoted") /\ Promoted!Consuming(t))
    /\ WF_vars(Running("release_consume_order_promoted") /\ Promoted!Return)

Spec == Init /\ [][Next]_vars

FairSpec == Spec /\ AcquireFairness /\ ConsumeFairness

------------------------------------------------------------------------------
Consuming == {"release_consume_order_literal", "release_consume_order_promoted"}

Counting == {"relaxed_order", "sequential_consistent_order", "7.6.atomic"}

TypeOK ==
    /\ running = "release_acquire_order" => Acquire!TypeOK
    /\ running \in Consuming => Literal!TypeOK
    /\ running \in Counting => Atomic!TypeOK

\* release_acquire_order(), "must be 42": whoever has seen flag = 2 prints what
\* the thread "release" wrote to the plain v before it raised flag to 1, though it
\* was another thread that made it 2; and no access of v races.
PrintsFortyTwo ==
    running = "release_acquire_order" =>
        /\ \A t \in Acquirers : printed[t] \in {<<>>, <<42>>}
        /\ raced = {}

\* release_acquire_order(): flag goes from 0 to 1 to 2; acqrel never overtakes
\* release, because it resets expected after each failure.
FlagInOrder ==
    running = "release_acquire_order" =>
        \A n \in 1..Len(mem["flag"]) : mem["flag"][n].val = n - 1

\* release_consume_order(), "initialize as nullptr to prevent consumer load a
\* dangling pointer": a consumer leaves its loop with the address of the int.
NeverDangling ==
    running \in Consuming =>
        \A t \in Consumers : pc[t] = "print_p" => local[t] = "object"

\* release_consume_order(): consume orders what depends on the value read.  The
\* int is complete when it is printed, also if the compiler takes consume
\* literally.  v does not depend on that value: it is complete when it is printed,
\* and its accesses do not race, because compilers promote consume to acquire.
ConsumeOrders ==
    /\ running \in Consuming =>
          /\ "object" \notin raced
          /\ \A t \in Consumers : printed[t] # <<>> => printed[t][1] = 42
    /\ running = "release_consume_order_promoted" =>
          /\ "v" \notin raced
          /\ \A t \in Consumers : Len(printed[t]) = 2 => printed[t][2] = 1024

\* The counting functions: no increment is lost, whatever the memory order, and
\* main() sees all of them, because a join orders what the thread did before
\* what main() does next.
PrintsTotal ==
    /\ running \in Counting \ {"7.6.atomic"} => printed \in {<<>>, <<Relaxed!Total>>}
    /\ running = "7.6.atomic" => printed \in {<<>>, <<Atomic!Total>>}

\* The functions whose threads wait for one another in loops return.
LoopsEnd ==
    running \in {"release_acquire_order", "release_consume_order_promoted"} ~> returned

==============================================================================
