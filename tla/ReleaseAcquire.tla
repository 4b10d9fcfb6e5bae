---------------------------- MODULE ReleaseAcquire ----------------------------
(***************************************************************************)
(* release_acquire_order() of code/7/7.8.memory.order.cpp: the thread      *)
(* "release" writes v and raises flag to 1, "acqrel" raises it from 1 to 2 *)
(* and the threads of Acquirers (one in the program) wait for 2 and print  *)
(* v.  The program says v must be 42 then.                                 *)
(***************************************************************************)
EXTENDS CppMemory, FiniteSets

CONSTANTS
    Acquirers,  \* the threads that print
    Garbage     \* what the uninitialised v holds

Threads == Acquirers \cup {"release", "acqrel"}

VARIABLES
    pc,        \* where each thread is
    expected,  \* the local variable of acqrel
    printed,   \* what each acquirer printed, a sequence
    returned   \* all threads are joined

vars == <<memory, pc, expected, printed, returned>>

Goto(t, where) == pc' = [pc EXCEPT ![t] = where]

Init ==
    /\ Booted(Threads, [x \in {"flag", "v"} |-> IF x = "flag" THEN 0 ELSE Garbage])
    /\ pc = [t \in Threads |-> CASE t = "release" -> "write"
                                 [] t = "acqrel" -> "exchange"
                                 [] OTHER -> "look"]
    /\ expected = 1
    /\ printed = [t \in Acquirers |-> <<>>]
    /\ returned = FALSE

\* v = 42
WriteV ==
    /\ pc["release"] = "write"
    /\ PlainWrite("release", "v", 42)
    /\ Goto("release", "store")
    /\ UNCHANGED <<expected, printed, returned>>

StoreFlag(order) ==
    /\ pc["release"] = "store"
    /\ Store("release", "flag", 1, order)
    /\ Goto("release", "done")
    /\ UNCHANGED <<expected, printed, returned>>

\* Fault: the store of the flag is relaxed.
Publish_Relaxed == StoreFlag("relaxed")

\* flag.store(1, memory_order_release)
Publish == StoreFlag("release")

Swap(desired, next) ==
    /\ pc["acqrel"] = "exchange"
    /\ Value("flag", Latest("flag")) = expected
    /\ Rmw("acqrel", "flag", desired, "acq_rel")
    /\ Goto("acqrel", next)
    /\ UNCHANGED <<expected, printed, returned>>

\* Fault: the exchange puts back what it found.
Exchange_Same == Swap(expected, "done")

\* compare_exchange_strong() finds expected and writes 2.
Exchange == Swap(2, "done")

\* It finds another value, which it leaves in expected.
ExchangeFails ==
    /\ pc["acqrel"] = "exchange"
    /\ \E k \in Readable("acqrel", "flag") :
          /\ Value("flag", k) # expected
          /\ Load("acqrel", "flag", k, "acquire")
          /\ expected' = Value("flag", k)
    /\ Goto("acqrel", "reset")
    /\ UNCHANGED <<printed, returned>>

Retry(value) ==
    /\ pc["acqrel"] = "reset"
    /\ expected' = value
    /\ Goto("acqrel", "exchange")
    /\ UNCHANGED <<memory, printed, returned>>

\* Fault: expected keeps what the failed exchange left there.
Reset_Forgotten == Retry(expected)

\* expected = 1, "must after compare_exchange_strong"
Reset == Retry(1)

LoadFlag(t, order) ==
    /\ pc[t] = "look"
    /\ \E k \in Readable(t, "flag") :
          /\ Load(t, "flag", k, order)
          /\ Goto(t, IF Value("flag", k) < 2 THEN "look" ELSE "print")
    /\ UNCHANGED <<expected, printed, returned>>

\* while (flag.load(memory_order_acquire) < 2)
Look(t) == LoadFlag(t, "acquire")

PrintV(t) ==
    /\ pc[t] = "print"
    /\ \E k \in Readable(t, "v") :
          /\ PlainRead(t, "v", k)
          /\ printed' = [printed EXCEPT ![t] = Append(@, Value("v", k))]
    /\ Goto(t, "done")
    /\ UNCHANGED <<expected, returned>>

\* The joins of the function: they only wait.
Return ==
    /\ \A t \in Threads : pc[t] = "done"
    /\ returned' = TRUE
    /\ UNCHANGED <<memory, pc, expected, printed>>

Releaser == WriteV \/ Publish

AcqRel == Exchange \/ ExchangeFails \/ Reset

Acquirer(t) == Look(t) \/ PrintV(t)

Next ==
    \/ Releaser
    \/ AcqRel
    \/ \E t \in Acquirers : Acquirer(t)
    \/ Return

------------------------------------------------------------------------------
TypeOK ==
    /\ MemoryTypeOK(Threads, [x \in {"flag", "v"} |-> IF x = "flag" THEN 0..2 ELSE Int])
    /\ pc \in [Threads -> {"write", "store", "exchange", "reset", "look", "print", "done"}]
    /\ expected \in 0..1
    /\ printed \in [Acquirers -> Seq(Int)]
    /\ returned \in BOOLEAN

==============================================================================
