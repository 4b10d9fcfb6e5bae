---------------------------- MODULE CriticalSection ----------------------------
(***************************************************************************)
(* The programs code/7/7.2.critical.section.a.cpp and                      *)
(* code/7/7.3.critical.section.b.cpp: threads run critical_section(n) with *)
(* an n of their own.  In 7.2 it assigns n to v under a lock_guard.  In    *)
(* 7.3 it assigns and prints v, releases the unique_lock, takes it again,  *)
(* and adds one to v and prints it.  main() joins the threads.             *)
(*                                                                         *)
(* The accesses of v are steps of their own, so that it is the mutex that  *)
(* keeps them together.                                                    *)
(***************************************************************************)
EXTENDS Integers, Sequences, FiniteSets

CONSTANTS
    Threads,   \* the threads of main()
    Nobody,    \* mtx is free
    Change     \* Change[t]: the argument change_v of t

VARIABLES
    program, \* the listing that runs: "7.2" or "7.3"
    pc,      \* where each thread is
    mtx,     \* the thread that holds it, or Nobody
    v,
    reg,     \* reg[t]: what t has read of v, to add one to it
    printed, \* printed[t]: what t has printed
    applied  \* history: the assignments (0) and additions (1) to v in order

vars == <<program, pc, mtx, v, reg, printed, applied>>

\* 7.3 has a second group of operations.
Twice == program = "7.3"

Goto(t, where) == pc' = [pc EXCEPT ![t] = where]

Init ==
    /\ program \in {"7.2", "7.3"}
    /\ pc = [t \in Threads |-> "lock"]
    /\ mtx = Nobody
    /\ v = 1
    /\ reg = [t \in Threads |-> 0]
    /\ printed = [t \in Threads |-> <<>>]
    /\ applied = <<>>

Take(t) ==
    /\ pc[t] \in {"lock", "lock again"}
    /\ mtx' = t
    /\ Goto(t, IF pc[t] = "lock" THEN "assign" ELSE "read")
    /\ UNCHANGED <<program, v, reg, printed, applied>>

\* Fault: a mutex of its own for each call: it is not static.
Lock_Private(t) == Take(t)

\* The constructor of the lock, or lock.lock().
Lock(t) == mtx = Nobody /\ Take(t)

AssignThen(t, next) ==
    /\ pc[t] = "assign"
    /\ v' = Change[t]
    /\ applied' = Append(applied, <<t, 0>>)
    /\ Goto(t, next)
    /\ UNCHANGED <<program, mtx, reg, printed>>

\* v = change_v
Assign(t) == AssignThen(t, IF Twice THEN "print" ELSE "unlock")

\* std::cout << v
PrintV(t) ==
    /\ pc[t] \in {"print", "print again"}
    /\ printed' = [printed EXCEPT ![t] = Append(@, v)]
    /\ Goto(t, IF pc[t] = "print" THEN "unlock" ELSE "unlock again")
    /\ UNCHANGED <<program, mtx, v, reg, applied>>

\* v += 1: its read and its write.
ReadV(t) ==
    /\ pc[t] = "read"
    /\ reg' = [reg EXCEPT ![t] = v]
    /\ Goto(t, "write")
    /\ UNCHANGED <<program, mtx, v, printed, applied>>

WriteV(t) ==
    /\ pc[t] = "write"
    /\ v' = reg[t] + 1
    /\ applied' = Append(applied, <<t, 1>>)
    /\ Goto(t, "print again")
    /\ UNCHANGED <<program, mtx, reg, printed>>

Leave(t, holder) ==
    /\ pc[t] \in {"unlock", "unlock again"}
    /\ mtx' = holder
    /\ Goto(t, IF pc[t] = "unlock" /\ Twice THEN "lock again" ELSE "done")
    /\ UNCHANGED <<program, v, reg, printed, applied>>

\* lock.unlock(), or the destructor of the lock.
Unlock(t) == Leave(t, Nobody)

Step(t) ==
    Lock(t) \/ Assign(t) \/ PrintV(t) \/ ReadV(t) \/ WriteV(t) \/ Unlock(t)

\* A thread that waits for mtx for ever, or main() after its joins.
Idle(t) == pc[t] \in {"lock", "lock again"} /\ mtx # Nobody /\ UNCHANGED vars

AllReturned == \A t \in Threads : pc[t] = "done"

Joined == AllReturned /\ UNCHANGED vars

Next ==
    \/ \E t \in Threads : Step(t) \/ Idle(t)
    \/ Joined

Spec == Init /\ [][Next]_vars

\* The threads keep running; mtx is not fair.
FairSpec == Spec /\ \A t \in Threads : WF_vars(Step(t))

------------------------------------------------------------------------------
Holding == {"assign", "print", "read", "write", "print again", "unlock", "unlock again"}

TypeOK ==
    /\ program \in {"7.2", "7.3"}
    /\ pc \in [Threads -> Holding \cup {"lock", "lock again", "done"}]
    /\ mtx \in Threads \cup {Nobody}
    /\ v \in Int
    /\ reg \in [Threads -> Int]
    /\ printed \in [Threads -> Seq(Int)]
    /\ \A t \in Threads : Len(printed[t]) <= 2
    /\ applied \in Seq(Threads \X {0, 1})

\* Each group of operations is one piece, whoever runs in between.  No operation
\* on v is lost or torn: v is what the last assignment put there, plus one for
\* each addition since, or 1 at first; and a thread prints the value it assigned.
NoUpdateLost ==
    LET assignments == {n \in DOMAIN applied : applied[n][2] = 0}
        last == {n \in assignments : \A m \in assignments : m <= n}
    IN  /\ last = {} => v = 1 /\ applied = <<>>
        /\ \A n \in last : v = Change[applied[n][1]] + Len(applied) - n
        /\ \A t \in Threads : printed[t] # <<>> => printed[t][1] = Change[t]

\* Every thread gets through both groups: taking the lock again after having
\* released it cannot end in a deadlock.
AllReturn == <>AllReturned

==============================================================================
