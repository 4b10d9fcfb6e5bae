--------------------------- MODULE ProducerConsumer ---------------------------
(***************************************************************************)
(* The program code/7/7.5.producer.consumer.cpp: a producer pushes 0, 1,   *)
(* 2, .. into produced_nums, and consumers pop them.  One flag, notified,  *)
(* tells all consumers of all items.  A consumer that has seen it unlocks  *)
(* mtx to be slow, and uses what it has seen only after it has locked      *)
(* again.                                                                  *)
(*                                                                         *)
(* What a thread does between locking mtx and unlocking it, or waiting, is *)
(* one action that starts with mtx in its hands.                           *)
(***************************************************************************)
EXTENDS Integers, Sequences, FiniteSets

CONSTANTS
    Producer,    \* the thread p
    Consumers,   \* the threads of cs
    Nobody,      \* mtx is free
    MaxItems,    \* bound: items recorded in a run
    MaxSpurious  \* bound: spurious wakeups of cv.wait() in a run

Threads == Consumers \cup {Producer}

ASSUME ThreadsAssumption ==
    /\ Producer \notin Consumers
    /\ Nobody \notin Threads

ASSUME BoundsAssumption == MaxItems \in Nat /\ MaxSpurious \in Nat

VARIABLES
    pc,             \* where each thread is
    mtx,            \* the thread that holds it, or Nobody
    produced_nums,
    notified,
    i,              \* the loop counter of the producer
    spurious,       \* spurious wakeups so far
    consumed        \* history: items in the order they were popped

vars == <<pc, mtx, produced_nums, notified, i, spurious, consumed>>

\* "sleep": in sleep_for(), before locking.  "wait": at the loop of cv.wait().
Holding == {"produce", "wait", "consume"}

Goto(t, where) == pc' = [pc EXCEPT ![t] = where]

Init ==
    /\ pc = [t \in Threads |-> IF t = Producer THEN "sleep" ELSE "lock"]
    /\ mtx = Nobody
    /\ produced_nums = <<>>
    /\ notified = FALSE
    /\ i = 0
    /\ spurious = 0
    /\ consumed = <<>>

\* Locking: for the producer, at the top of a consumer's loop, at the end of
\* cv.wait(), and after the consumer's sleep.
Inside(here) == CASE here = "sleep" -> "produce"
                  [] here = "relock" -> "consume"
                  [] OTHER -> "wait"

Enter(t) ==
    /\ pc[t] \in {"sleep", "lock", "wake", "relock"}
    /\ t = Producer => i < MaxItems \/ produced_nums # <<>>
    /\ mtx' = t
    /\ Goto(t, Inside(pc[t]))
    /\ UNCHANGED <<produced_nums, notified, i, spurious, consumed>>

Lock(t) == mtx = Nobody /\ Enter(t)

\* The sleepers of cv, after a notification of those in S.
Notified(S) == [t \in Threads |-> IF t \in S THEN "wake"
                                  ELSE IF t = Producer THEN "sleep" ELSE pc[t]]

Asleep == {c \in Consumers : pc[c] = "asleep"}

\* The producer never ends.  Bound: an item beyond MaxItems is not recorded, only
\* its notification is, for as long as recorded items are queued.
Push(wakes) ==
    /\ pc[Producer] = "produce"
    /\ IF i < MaxItems
       THEN produced_nums' = Append(produced_nums, i) /\ i' = i + 1
       ELSE UNCHANGED <<produced_nums, i>>
    /\ pc' = Notified(wakes)
    /\ mtx' = Nobody
    /\ UNCHANGED <<spurious, consumed>>

\* Fault: cv.notify_all() is missing.
Produce_Silent == notified' = TRUE /\ Push({})

Produce == notified' = TRUE /\ Push(Asleep)

\* while (!notified) cv.wait(lock): waiting unlocks and sleeps, atomically.
Wait(c) ==
    /\ pc[c] = "wait"
    /\ ~notified
    /\ mtx' = Nobody
    /\ Goto(c, "asleep")
    /\ UNCHANGED <<produced_nums, notified, i, spurious, consumed>>

SpuriousWakeup(c) ==
    /\ pc[c] = "asleep"
    /\ spurious < MaxSpurious
    /\ spurious' = spurious + 1
    /\ Goto(c, "wake")
    /\ UNCHANGED <<mtx, produced_nums, notified, i, consumed>>

Leave(c) ==
    /\ pc[c] = "wait"
    /\ notified
    /\ mtx' = Nobody
    /\ Goto(c, "relock")
    /\ UNCHANGED <<produced_nums, i, spurious, consumed>>

\* Fault: the flag is cleared as soon as it has been seen.
Pass_Clears(c) == notified' = FALSE /\ Leave(c)

\* The loop ends: unlock, and be slow.
Pass(c) == notified' = notified /\ Leave(c)

Pop(c, popped) ==
    /\ pc[c] = "consume"
    /\ consumed' = consumed \o popped
    /\ mtx' = Nobody
    /\ Goto(c, "lock")
    /\ UNCHANGED <<i, spurious>>

Popped == IF produced_nums = <<>> THEN <<>> ELSE <<Head(produced_nums)>>

Rest == IF produced_nums = <<>> THEN <<>> ELSE Tail(produced_nums)

\* Fault: the front is read and not popped.
Consume_Peek(c) ==
    /\ Pop(c, Popped)
    /\ notified' = FALSE
    /\ UNCHANGED produced_nums

\* Fault: notified is cleared only when nothing was left to pop.
Consume_Uncleared(c) ==
    /\ Pop(c, Popped)
    /\ notified' = (produced_nums # <<>>)
    /\ produced_nums' = Rest

\* Fault: the queue is not tested: front() of an empty queue reads garbage.
Consume_Untested(c) ==
    /\ Pop(c, IF produced_nums = <<>> THEN <<-1>> ELSE Popped)
    /\ notified' = FALSE
    /\ produced_nums' = Rest

\* Pop the front, if there is one, and clear the flag; the unlock of the end of
\* the loop body.
Consume(c) ==
    /\ Pop(c, Popped)
    /\ notified' = FALSE
    /\ produced_nums' = Rest

ConsumerStep(c) == Lock(c) \/ Wait(c) \/ Pass(c) \/ Consume(c)

ProducerStep == Lock(Producer) \/ Produce

\* The bound is reached: all that was recorded is consumed, the consumers sleep.
Bounded ==
    /\ i = MaxItems /\ produced_nums = <<>>
    /\ \A c \in Consumers : pc[c] = "asleep"
    /\ UNCHANGED vars

Next ==
    \/ ProducerStep
    \/ \E c \in Consumers : ConsumerStep(c) \/ SpuriousWakeup(c)
    \/ Bounded

Spec == Init /\ [][Next]_vars

\* The threads keep running, and a consumer that keeps trying to lock mtx gets it
\* in the end.  The language promises no such thing of a mutex, so that without
\* it the producer, which never ends, may be the only one to lock mtx.  It sleeps
\* for half a second between two locks, though, and mtx is free as long.
FairSpec ==
    /\ Spec
    /\ WF_vars(ProducerStep)
    /\ \A c \in Consumers : WF_vars(ConsumerStep(c)) /\ SF_vars(Lock(c))

------------------------------------------------------------------------------
TypeOK ==
    /\ pc \in [Threads -> Holding \cup {"sleep", "lock", "asleep", "wake", "relock"}]
    /\ mtx \in Threads \cup {Nobody}
    /\ produced_nums \in Seq(Nat)
    /\ notified \in BOOLEAN
    /\ i \in 0..MaxItems
    /\ spurious \in 0..MaxSpurious
    /\ consumed \in Seq(Nat)

\* Two consumers that passed on the same notification take no item twice, skip
\* none and keep the order: what was popped, then what is queued, is 0, 1, 2, ..
InOrder ==
    LET all == consumed \o produced_nums
    IN  Len(all) = i /\ \A k \in 1..i : all[k] = k - 1

\* The flag never announces an empty queue, so that a consumer that passes finds
\* an item unless another one that passed too was faster; and nobody sleeps
\* through it: it is up only if every consumer is awake.
FlagMeansItem ==
    notified => produced_nums # <<>> /\ \A c \in Consumers : pc[c] # "asleep"

\* The flag is lowered by a consumption only: when it goes down, an item was
\* popped in the same step.
FlagLoweredByPop ==
    [][notified /\ ~notified' => Len(consumed') = Len(consumed) + 1]_vars

\* Every notification is followed by a consumption, though the producer goes on
\* locking mtx and notifying.  (Not every item: a consumer that clears the flag
\* leaves the rest of the queue to the next notification.)
NotificationServed ==
    \A n \in 0..MaxItems :
        (notified /\ Len(consumed) = n) ~> Len(consumed) > n

==============================================================================
