------------------------------ MODULE AtomicAdds ------------------------------
(***************************************************************************)
(* What the counting programs of chapter 7 promise, without memory orders, *)
(* mutexes or joins: threads add to one total, each addition is one step,  *)
(* and the total is printed once, when none is left to be made.            *)
(***************************************************************************)
EXTENDS Integers, Sequences

CONSTANTS
    Adders,  \* the threads
    Amount,  \* Amount[t]: what t adds each time
    Plans    \* how often each of them is to add, in the programs there are

VARIABLES
    total,
    left,    \* left[t]: additions that t has still to make
    printed

avars == <<total, left, printed>>

Init ==
    /\ total = 0
    /\ left \in Plans
    /\ printed = <<>>

Add(t) ==
    /\ left[t] > 0
    /\ left' = [left EXCEPT ![t] = @ - 1]
    /\ total' = total + Amount[t]
    /\ UNCHANGED printed

Report ==
    /\ \A t \in Adders : left[t] = 0
    /\ printed = <<>>
    /\ printed' = <<total>>
    /\ UNCHANGED <<total, left>>

Next == Report \/ \E t \in Adders : Add(t)

Safe == Init /\ [][Next]_avars

\* Every addition is made, and the total is printed.
Spec ==
    /\ Safe
    /\ \A t \in Adders : WF_avars(Add(t))
    /\ WF_avars(Report)

==============================================================================
