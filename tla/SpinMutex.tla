------------------------------ MODULE SpinMutex ------------------------------
(***************************************************************************)
(* The program exercises/7/7.2.mutex.cpp: a mutex made of an atomic flag,  *)
(* relaxed operations and two fences, and threads that each add an amount  *)
(* to the plain variable a under it.  main() joins them and prints a.      *)
(* lock(), a += n and unlock() are taken apart into their memory accesses. *)
(***************************************************************************)
EXTENDS CppMemory, Functions

CONSTANTS
    Lockers,   \* the threads t1, t2, ..
    Main,      \* the thread of main()
    MaxSpins   \* bound: how often an exchange of the run may fail

\* t1 adds 1, t2 adds 2; any assignment of amounts will do.
CONSTANT Amount

ASSUME LockersAssumption ==
    /\ Main \notin Lockers
    /\ Amount \in [Lockers -> Int]

ASSUME SpinsAssumption == MaxSpins \in Nat

VARIABLES
    pc,       \* where each thread is
    reg,      \* reg[t]: what t has read of a
    joined,   \* the threads main() has joined
    spins,    \* failed exchanges so far
    printed   \* what main() printed, a sequence

vars == <<memory, pc, reg, joined, spins, printed>>

Threads == Lockers \cup {Main}

\* The flag of the mutex, 1 for true, and the variable it protects.
Locations == {"flag", "a"}

Goto(t, where) == pc' = [pc EXCEPT ![t] = where]

Init ==
    /\ Booted(Threads, [x \in Locations |-> 0])
    /\ pc = [t \in Threads |-> IF t = Main THEN "join" ELSE "exchange"]
    /\ reg = [t \in Threads |-> 0]
    /\ joined = {}
    /\ spins = 0
    /\ printed = <<>>

At(t, where) == pc[t] = where /\ t \in Lockers

Taken == Value("flag", Latest("flag")) # 0

\* Fault: the flag is loaded, then stored: both see it free.
Exchange_Split(t) ==
    /\ At(t, "exchange")
    /\ \E k \in Readable(t, "flag") : Value("flag", k) = 0
    /\ Store(t, "flag", 1, "relaxed")
    /\ Goto(t, "acquire")
    /\ UNCHANGED <<reg, joined, spins, printed>>

\* flag.exchange(true) returns false: the loop of lock() ends.
Exchange(t) ==
    /\ At(t, "exchange")
    /\ ~Taken
    /\ Rmw(t, "flag", 1, "relaxed")
    /\ Goto(t, "acquire")
    /\ UNCHANGED <<reg, joined, spins, printed>>

\* It returns true: try again.
Spin(t) ==
    /\ At(t, "exchange")
    /\ Taken
    /\ spins < MaxSpins
    /\ spins' = spins + 1
    /\ Rmw(t, "flag", 1, "relaxed")
    /\ UNCHANGED <<pc, reg, joined, printed>>

\* Beyond the bound the failures are no longer recorded.
SpinOn(t) ==
    /\ At(t, "exchange")
    /\ Taken
    /\ spins = MaxSpins
    /\ UNCHANGED vars

\* The fence of lock().
Acquire(t) ==
    /\ At(t, "acquire")
    /\ AcquireFence(t)
    /\ Goto(t, "read")
    /\ UNCHANGED <<reg, joined, spins, printed>>

\* a += n: its read and its write.
ReadA(t) ==
    /\ At(t, "read")
    /\ \E k \in Readable(t, "a") :
          /\ PlainRead(t, "a", k)
          /\ reg' = [reg EXCEPT ![t] = Value("a", k)]
    /\ Goto(t, "write")
    /\ UNCHANGED <<joined, spins, printed>>

WriteA(t) ==
    /\ At(t, "write")
    /\ PlainWrite(t, "a", reg[t] + Amount[t])
    /\ Goto(t, "release")
    /\ UNCHANGED <<reg, joined, spins, printed>>

\* Fault: unlock() has no fence.
Release_Unfenced(t) ==
    /\ At(t, "release")
    /\ Goto(t, "clear")
    /\ UNCHANGED <<memory, reg, joined, spins, printed>>

\* The fence of unlock(), then its store.
Release(t) ==
    /\ At(t, "release")
    /\ ReleaseFence(t)
    /\ Goto(t, "clear")
    /\ UNCHANGED <<reg, joined, spins, printed>>

\* Fault: the mutex stays locked.
Clear_Forgotten(t) ==
    /\ At(t, "clear")
    /\ Store(t, "flag", 1, "relaxed")
    /\ Goto(t, "done")
    /\ UNCHANGED <<reg, joined, spins, printed>>

Clear(t) ==
    /\ At(t, "clear")
    /\ Store(t, "flag", 0, "relaxed")
    /\ Goto(t, "done")
    /\ UNCHANGED <<reg, joined, spins, printed>>

\* The joins of main(), in any order here: they only wait.
Join(t) ==
    /\ At(t, "done")
    /\ t \notin joined
    /\ Joined(Main, t)
    /\ joined' = joined \cup {t}
    /\ UNCHANGED <<pc, reg, spins, printed>>

\* Fault: main() does not wait for the threads.
PrintA_Unjoined ==
    /\ pc[Main] = "join"
    /\ \E k \in Readable(Main, "a") :
          /\ PlainRead(Main, "a", k)
          /\ printed' = Append(printed, Value("a", k))
    /\ Goto(Main, "done")
    /\ UNCHANGED <<reg, joined, spins>>

PrintA ==
    /\ pc[Main] = "join"
    /\ joined = Lockers
    /\ \E k \in Readable(Main, "a") :
          /\ PlainRead(Main, "a", k)
          /\ printed' = Append(printed, Value("a", k))
    /\ Goto(Main, "done")
    /\ UNCHANGED <<reg, joined, spins>>

\* main() has returned.
Terminated ==
    /\ pc[Main] = "done"
    /\ UNCHANGED vars

Critical(t) == Acquire(t) \/ ReadA(t) \/ WriteA(t) \/ Release(t) \/ Clear(t)

LockerStep(t) == Exchange(t) \/ Spin(t) \/ SpinOn(t) \/ Critical(t)

MainStep == PrintA \/ \E t \in Lockers : Join(t)

Next ==
    \/ \E t \in Lockers : LockerStep(t)
    \/ MainStep
    \/ Terminated

Spec == Init /\ [][Next]_vars

\* Every thread keeps running.  The mutex is not fair, but each thread takes it
\* once.
FairSpec ==
    /\ Spec
    /\ \A t \in Lockers : WF_vars(LockerStep(t))
    /\ WF_vars(MainStep)

------------------------------------------------------------------------------
Places == {"exchange", "acquire", "read", "write", "release", "clear", "done", "join"}

Values == [x \in Locations |-> IF x = "flag" THEN {0, 1} ELSE Int]

TypeOK ==
    /\ MemoryTypeOK(Threads, Values)
    /\ pc \in [Threads -> Places]
    /\ reg \in [Threads -> Int]
    /\ joined \subseteq Lockers
    /\ spins \in 0..MaxSpins
    /\ printed \in Seq(Int)

Inside == {"acquire", "read", "write", "release", "clear"}

\* lock() lets one thread in until it has left unlock().
MutualExclusion ==
    \A t, u \in Lockers : pc[t] \in Inside /\ pc[u] \in Inside => t = u

\* The two fences are enough, though every operation on the flag is relaxed:
\* no access of a, main()'s included, races with another one.
NoDataRace == raced = {}

\* Each write of a adds the amount of the thread whose turn it was.
EachAdds(turn) == \A n \in DOMAIN turn : Value("a", n + 1) = Value("a", n) + Amount[turn[n]]

\* No addition is lost or made twice, whatever the order in which the mutex is
\* taken: what main() prints comes of 0 in as many writes as there are threads,
\* one of each.
PrintsSum ==
    printed # <<>> =>
        /\ Value("a", 1) = 0
        /\ \E turn \in Bijection(1..(Latest("a") - 1), Lockers) : EachAdds(turn)
        /\ printed = <<Value("a", Latest("a"))>>

\* The program ends: nobody spins for ever.
Terminates == <>(pc[Main] = "done")

\* The threads that are past their write of a.
Past == {"release", "clear", "done"}

\* The additions as main() and the threads see them: a is its last write.
Adds == INSTANCE AtomicAdds WITH
    Adders <- Lockers,
    Plans <- {[t \in Lockers |-> 1]},
    total <- Value("a", Latest("a")),
    left <- [t \in Lockers |-> IF pc[t] \in Past THEN 0 ELSE 1]

\* Exchange, fences, read, write and store are together one addition: every step of
\* the program is an addition to the present total, the print of the total after all
\* of them, or changes nothing of it; and all additions are made.
ImplementsAdds == Adds!Spec

==============================================================================
