---------------------------- MODULE ReleaseConsume ----------------------------
(***************************************************************************)
(* release_consume_order() of code/7/7.8.memory.order.cpp: the producer    *)
(* makes an int, writes v, and publishes the address of the int in ptr.    *)
(* The consumers (one in the program) wait for an address, and print the   *)
(* int it points to and v.                                                 *)
(***************************************************************************)
EXTENDS CppMemory

CONSTANTS
    Consumers,     \* the threads that print
    Uninitialised, \* what ptr, declared without a value, may hold
    Garbage        \* what memory holds that nobody has written

Threads == Consumers \cup {"producer"}

VARIABLES
    pc,       \* where each thread is
    p,        \* the local variable p of each consumer
    printed,  \* what each consumer printed
    returned  \* all threads are joined

vars == <<memory, pc, p, printed, returned>>

Goto(t, where) == pc' = [pc EXCEPT ![t] = where]

\* "object" is the int of the producer and "dangling" some other place of memory;
\* as values they are addresses.
Locations == {"ptr", "object", "dangling", "v"}

Init ==
    /\ \E address \in Uninitialised :
          Booted(Threads, [x \in Locations |->
                              IF x = "ptr" THEN address ELSE Garbage])
    /\ pc = [t \in Threads |-> IF t = "producer" THEN "new" ELSE "look"]
    /\ p = [t \in Consumers |-> "null"]
    /\ printed = [t \in Consumers |-> <<>>]
    /\ returned = FALSE

\* int* p = new int(42)
New ==
    /\ pc["producer"] = "new"
    /\ PlainWrite("producer", "object", 42)
    /\ Goto("producer", "write")
    /\ UNCHANGED <<p, printed, returned>>

\* v = 1024
WriteV ==
    /\ pc["producer"] = "write"
    /\ PlainWrite("producer", "v", 1024)
    /\ Goto("producer", "store")
    /\ UNCHANGED <<p, printed, returned>>

StorePtr(address, order) ==
    /\ pc["producer"] = "store"
    /\ Store("producer", "ptr", address, order)
    /\ Goto("producer", "done")
    /\ UNCHANGED <<p, printed, returned>>

\* Fault: the store is relaxed.
Publish_Relaxed == StorePtr("object", "relaxed")

\* ptr.store(p, memory_order_release)
Publish == StorePtr("object", "release")

LoadPtr(t, order) ==
    /\ pc[t] = "look"
    /\ \E k \in Readable(t, "ptr") :
          /\ Load(t, "ptr", k, order)
          /\ p' = [p EXCEPT ![t] = Value("ptr", k)]
          /\ Goto(t, IF Value("ptr", k) = "null" THEN "look" ELSE "print_p")
    /\ UNCHANGED <<printed, returned>>

\* while (!(p = ptr.load(memory_order_consume)))
Look(t) == LoadPtr(t, "consume")

Output(t, x, next) ==
    /\ \E k \in Readable(t, x) :
          /\ PlainRead(t, x, k)
          /\ printed' = [printed EXCEPT ![t] = Append(@, Value(x, k))]
    /\ Goto(t, next)
    /\ UNCHANGED <<p, returned>>

PrintP(t) ==
    /\ pc[t] = "print_p"
    /\ Output(t, p[t], "print_v")

PrintV(t) ==
    /\ pc[t] = "print_v"
    /\ Output(t, "v", "done")

Return ==
    /\ \A t \in Threads : pc[t] = "done"
    /\ returned' = TRUE
    /\ UNCHANGED <<memory, pc, p, printed>>

Producing == New \/ WriteV \/ Publish

Consuming(t) == Look(t) \/ PrintP(t) \/ PrintV(t)

Next ==
    \/ Producing
    \/ \E t \in Consumers : Consuming(t)
    \/ Return

------------------------------------------------------------------------------
Values ==
    [x \in Locations |->
        IF x = "ptr" THEN {"null", "dangling", "object"} ELSE Int]

TypeOK ==
    /\ MemoryTypeOK(Threads, Values)
    /\ pc \in [Threads -> {"new", "write", "store", "look", "print_p", "print_v", "done"}]
    /\ p \in [Consumers -> {"null", "dangling", "object"}]
    /\ \A t \in Consumers : pc[t] = "print_p" => p[t] # "null"
    /\ printed \in [Consumers -> Seq(Int)]
    /\ returned \in BOOLEAN

==============================================================================
