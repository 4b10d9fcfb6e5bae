------------------------------ MODULE CppMemory ------------------------------
(***************************************************************************)
(* The memory of a C++20 program, as far as the programs of chapter 7 use  *)
(* it: std::atomic with its memory orders, fences, plain variables, and    *)
(* the end of a thread that is joined.                                     *)
(*                                                                         *)
(* What happens before what is kept as sets of accesses.  cur[t] holds the *)
(* accesses that happen before the next step of thread t; a write of an    *)
(* atomic carries the set that a thread acquires when it reads the value.  *)
(* Two conflicting accesses race when the later one does not have the      *)
(* earlier one in cur.                                                     *)
(*                                                                         *)
(* A write goes to the end of its location's modification order.  That     *)
(* loses no behaviour of programs that have one atomic, as these have: the *)
(* program order, the reads from other threads and the modification order  *)
(* of one location are never cyclic, and TLC runs them in any order that   *)
(* extends them.  For the same reason seq_cst differs in nothing from      *)
(* acq_rel.                                                                *)
(***************************************************************************)
EXTENDS Integers, Sequences

CONSTANT
    ConsumePromoted  \* the compiler treats consume as acquire (all of today do)

ASSUME PromotionAssumption == ConsumePromoted \in BOOLEAN

VARIABLES
    mem,    \* mem[x]: the writes of location x in modification order
    reads,  \* reads[x]: how often x, a plain variable, was read
    cur,    \* cur[t]: the accesses that happen before the next step of t
    acq,    \* acq[t]: those an acquire fence of t would add to cur[t]
    rel,    \* rel[t]: those that happen before the last release fence of t
    raced   \* the locations with a data race

memory == <<mem, reads, cur, acq, rel, raced>>

\* The n-th write of x, and its n-th read.
Written(x, n) == [at |-> x, write |-> TRUE, n |-> n]

ReadOf(x, n) == [at |-> x, write |-> FALSE, n |-> n]

Accesses(locations) ==
    [at : locations, write : BOOLEAN, n : Nat]

\* The first write of a location is its initialisation, before any thread.
Booted(threads, initial) ==
    /\ mem = [x \in DOMAIN initial |-> <<[val |-> initial[x], knows |-> {}]>>]
    /\ reads = [x \in DOMAIN initial |-> 0]
    /\ cur = [t \in threads |-> {Written(x, 1) : x \in DOMAIN initial}]
    /\ acq = [t \in threads |-> {}]
    /\ rel = [t \in threads |-> {}]
    /\ raced = {}

\* values[x]: the values of location x.
MemoryTypeOK(threads, values) ==
    LET locations == DOMAIN values
        accesses  == SUBSET Accesses(locations)
    IN  /\ DOMAIN mem = locations
        /\ \A x \in locations : /\ mem[x] \in Seq([val : values[x], knows : accesses])
                                /\ mem[x] # <<>>
        /\ reads \in [locations -> Nat]
        /\ cur \in [threads -> accesses]
        /\ acq \in [threads -> accesses]
        /\ rel \in [threads -> accesses]
        /\ raced \subseteq locations

Latest(x) == Len(mem[x])

Value(x, k) == mem[x][k].val

WritesOf(x) == {Written(x, n) : n \in 1..Latest(x)}

ReadsOf(x) == {ReadOf(x, n) : n \in 1..reads[x]}

\* A thread reads a write, or one after it, once it has seen it.
Readable(t, x) ==
    {k \in 1..Latest(x) : \A n \in 1..Latest(x) : Written(x, n) \in cur[t] => n <= k}

Acquires(order) ==
    order \in {"acquire", "acq_rel", "seq_cst"}
        \/ (order = "consume" /\ ConsumePromoted)

Releases(order) == order \in {"release", "acq_rel", "seq_cst"}

\* What a load of the k-th write of x brings.  A consume load, taken literally,
\* orders only what depends on the value: here, the object it points to.
Brought(x, k, order) ==
    IF Acquires(order) THEN mem[x][k].knows
    ELSE IF order = "consume"
         THEN {e \in mem[x][k].knows : e.at = Value(x, k)}
         ELSE {}

Load(t, x, k, order) ==
    /\ k \in Readable(t, x)
    /\ cur' = [cur EXCEPT ![t] = @ \cup {Written(x, k)} \cup Brought(x, k, order)]
    /\ acq' = [acq EXCEPT ![t] = @ \cup mem[x][k].knows]
    /\ UNCHANGED <<mem, reads, rel, raced>>

Store(t, x, v, order) ==
    LET e == Written(x, Latest(x) + 1)
        knows == IF Releases(order) THEN cur[t] ELSE rel[t]
    IN  /\ mem' = [mem EXCEPT ![x] = Append(@, [val |-> v, knows |-> knows \cup {e}])]
        /\ cur' = [cur EXCEPT ![t] = @ \cup {e}]
        /\ UNCHANGED <<reads, acq, rel, raced>>

\* A read-modify-write reads the last write and continues its release sequence.
Rmw(t, x, v, order) ==
    LET last  == mem[x][Latest(x)]
        e     == Written(x, Latest(x) + 1)
        seen  == cur[t] \cup {Written(x, Latest(x))} \cup Brought(x, Latest(x), order)
        knows == last.knows \cup (IF Releases(order) THEN seen ELSE rel[t])
    IN  /\ mem' = [mem EXCEPT ![x] = Append(@, [val |-> v, knows |-> knows \cup {e}])]
        /\ cur' = [cur EXCEPT ![t] = seen \cup {e}]
        /\ acq' = [acq EXCEPT ![t] = @ \cup last.knows]
        /\ UNCHANGED <<reads, rel, raced>>

AcquireFence(t) ==
    /\ cur' = [cur EXCEPT ![t] = @ \cup acq[t]]
    /\ UNCHANGED <<mem, reads, acq, rel, raced>>

ReleaseFence(t) ==
    /\ rel' = [rel EXCEPT ![t] = cur[t]]
    /\ UNCHANGED <<mem, reads, cur, acq, raced>>

\* A plain read sees any write it may see: exactly the last one if nothing races.
PlainRead(t, x, k) ==
    /\ k \in Readable(t, x)
    /\ reads' = [reads EXCEPT ![x] = @ + 1]
    /\ cur' = [cur EXCEPT ![t] = @ \cup {ReadOf(x, reads[x] + 1)}]
    /\ raced' = raced \cup (IF WritesOf(x) \subseteq cur[t] THEN {} ELSE {x})
    /\ UNCHANGED <<mem, acq, rel>>

PlainWrite(t, x, v) ==
    LET e == Written(x, Latest(x) + 1)
    IN  /\ mem' = [mem EXCEPT ![x] = Append(@, [val |-> v, knows |-> {}])]
        /\ cur' = [cur EXCEPT ![t] = @ \cup {e}]
        /\ raced' = raced \cup (IF WritesOf(x) \cup ReadsOf(x) \subseteq cur[t] THEN {} ELSE {x})
        /\ UNCHANGED <<reads, acq, rel>>

\* Thread m has joined t: all t did happens before what m does next.
Joined(m, t) ==
    /\ cur' = [cur EXCEPT ![m] = @ \cup cur[t]]
    /\ UNCHANGED <<mem, reads, acq, rel, raced>>

==============================================================================
