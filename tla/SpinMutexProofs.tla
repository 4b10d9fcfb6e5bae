--------------------------- MODULE SpinMutexProofs ---------------------------
(***************************************************************************)
(* Proofs about SpinMutex, for any number of threads: the mutex excludes,  *)
(* its two fences order the accesses of a, though every operation on the   *)
(* flag is relaxed, and no addition to a is lost.                          *)
(*                                                                         *)
(* The argument for the order: what was done to a travels with the flag.   *)
(* While the flag is free its last write knows all of it (FreeFlagKnows);  *)
(* the exchange that takes the flag hands it to acq, the acquire fence to  *)
(* cur, the release fence to rel, and the store that frees the flag to the *)
(* flag again.  The failing exchanges in between carry on whatever they    *)
(* found, but nobody takes the flag from them.                             *)
(***************************************************************************)
EXTENDS SpinMutex, TLAPS

\* The flag is taken exactly while a thread is inside.
LockInv ==
    /\ Taken <=> \E t \in Lockers : pc[t] \in Inside
    /\ MutualExclusion

\* All accesses of a so far, but its initialisation, which everybody knows.
Accessed == (WritesOf("a") \cup ReadsOf("a")) \ {Written("a", 1)}

FreeFlagKnows ==
    ~Taken => Accessed \subseteq mem["flag"][Latest("flag")].knows

HolderKnows(t) ==
    /\ pc[t] = "acquire" => Accessed \subseteq acq[t]
    /\ pc[t] \in {"read", "write", "release", "clear"} => Accessed \subseteq cur[t]
    /\ pc[t] = "clear" => Accessed \subseteq rel[t]

\* What main() will know: an access is known to the thread that made it.
JoinKnows ==
    /\ \A e \in Accessed : \E t \in Lockers : e \in cur[t]
    /\ \A t \in joined : pc[t] = "done" /\ cur[t] \subseteq cur[Main]

OrderInv ==
    /\ raced = {}
    /\ \A t \in Threads : Written("a", 1) \in cur[t]
    /\ pc[Main] \in {"join", "done"}
    /\ pc[Main] = "join" =>
          /\ FreeFlagKnows
          /\ \A t \in Lockers : HolderKnows(t)
          /\ JoinKnows
    /\ pc[Main] = "done" => \A t \in Lockers : pc[t] = "done"

IInv == TypeOK /\ LockInv /\ OrderInv

------------------------------------------------------------------------------
\* A write at the end of a modification order.
LEMMA Extend ==
    ASSUME NEW S, NEW s \in Seq(S), NEW m \in S
    PROVE  /\ Append(s, m) \in Seq(S)
           /\ Append(s, m) # <<>>
           /\ Len(Append(s, m)) = Len(s) + 1
           /\ Append(s, m)[Len(s) + 1] = m
           /\ \A n \in 1..Len(s) : Append(s, m)[n] = s[n]
  OBVIOUS

LEMMA Single ==
    ASSUME NEW S, NEW m \in S
    PROVE  <<m>> \in Seq(S) /\ <<m>> # <<>>
  OBVIOUS

LEMMA NonEmpty ==
    ASSUME NEW S, NEW s \in Seq(S), s # <<>>
    PROVE  Len(s) \in Nat \ {0} /\ \A n \in 1..Len(s) : s[n] \in S
  OBVIOUS

\* What TypeOK says of one location.
LEMMA Typed ==
    ASSUME TypeOK, NEW x \in Locations
    PROVE  /\ Latest(x) \in Nat \ {0}
           /\ \A n \in 1..Latest(x) : /\ Value(x, n) \in Values[x]
                                      /\ mem[x][n].knows \subseteq Accesses(Locations)
           /\ reads[x] \in Nat
           /\ \A n \in Nat : /\ Written(x, n) \in Accesses(Locations)
                             /\ ReadOf(x, n) \in Accesses(Locations)
           /\ Values["flag"] = {0, 1} /\ Values["a"] = Int
  <1> DEFINE M == [val : Values[x], knows : SUBSET Accesses(Locations)]
  <1>0. DOMAIN Values = Locations /\ Values["flag"] = {0, 1} /\ Values["a"] = Int
    BY DEF Values, Locations
  <1>1. mem[x] \in Seq(M) /\ mem[x] # <<>> /\ reads[x] \in Nat
    BY <1>0 DEF TypeOK, MemoryTypeOK
  <1>2. Latest(x) \in Nat \ {0} /\ \A n \in 1..Latest(x) : mem[x][n] \in M
    BY <1>1, NonEmpty DEF Latest
  <1>3. \A n \in Nat : /\ Written(x, n) \in Accesses(Locations)
                       /\ ReadOf(x, n) \in Accesses(Locations)
    BY DEF Written, ReadOf, Accesses
  <1> QED
    BY <1>0, <1>1, <1>2, <1>3 DEF Value

\* The memory stays well typed under every operation on it.
LEMMA StoreTyped ==
    ASSUME TypeOK, NEW t \in Threads, NEW x \in Locations, NEW v \in Values[x],
           NEW order, Store(t, x, v, order)
    PROVE  MemoryTypeOK(Threads, Values)'
  <1> DEFINE A == SUBSET Accesses(Locations)
             e == Written(x, Latest(x) + 1)
             knows == IF Releases(order) THEN cur[t] ELSE rel[t]
             m == [val |-> v, knows |-> knows \cup {e}]
  <1>a. DOMAIN Values = Locations
    BY DEF Values
  <1>b. cur[t] \in A /\ rel[t] \in A
    BY <1>a DEF TypeOK, MemoryTypeOK
  <1>c. knows \in A
    BY <1>b
  <1>d. Latest(x) + 1 \in Nat
    BY Typed
  <1>1. e \in Accesses(Locations) /\ knows \in A /\ DOMAIN Values = Locations
    BY <1>a, <1>c, <1>d, Typed
  <1>2. mem' = [mem EXCEPT ![x] = Append(@, m)] /\ cur' = [cur EXCEPT ![t] = @ \cup {e}]
    BY DEF Store
  <1>3. m \in [val : Values[x], knows : A]
    BY <1>1
  <1>4. mem[x] \in Seq([val : Values[x], knows : A]) /\ DOMAIN mem = Locations
    BY <1>1 DEF TypeOK, MemoryTypeOK
  <1> HIDE DEF m
  <1>5. /\ Append(mem[x], m) \in Seq([val : Values[x], knows : A])
        /\ Append(mem[x], m) # <<>>
    BY <1>3, <1>4, Extend
  <1>6. \A y \in Locations : mem'[y] = IF y = x THEN Append(mem[x], m) ELSE mem[y]
    BY <1>2, <1>4
  <1>7. DOMAIN mem' = Locations
    BY <1>2, <1>4
  <1>8. cur' \in [Threads -> A]
    BY <1>1, <1>2 DEF TypeOK, MemoryTypeOK
  <1> QED
    BY <1>1, <1>5, <1>6, <1>7, <1>8 DEF TypeOK, MemoryTypeOK, Store

LEMMA RmwTyped ==
    ASSUME TypeOK, NEW t \in Threads, NEW x \in Locations, NEW v \in Values[x],
           Rmw(t, x, v, "relaxed")
    PROVE  MemoryTypeOK(Threads, Values)'
  <1> DEFINE A == SUBSET Accesses(Locations)
             last == mem[x][Latest(x)]
             e == Written(x, Latest(x) + 1)
             knows == last.knows \cup rel[t]
             m == [val |-> v, knows |-> knows \cup {e}]
  <1>a. DOMAIN Values = Locations
    BY DEF Values
  <1>b. rel[t] \in A
    BY <1>a DEF TypeOK, MemoryTypeOK
  <1>c. Latest(x) \in Nat \ {0} /\ last.knows \in A
    BY Typed
  <1>d. Latest(x) \in Nat /\ Latest(x) + 1 \in Nat
    BY <1>c
  <1>1. /\ e \in Accesses(Locations) /\ Written(x, Latest(x)) \in Accesses(Locations)
        /\ last.knows \in A /\ rel[t] \in A /\ DOMAIN Values = Locations
    BY <1>a, <1>b, <1>c, <1>d, Typed
  <1>2. /\ mem' = [mem EXCEPT ![x] = Append(@, m)]
        /\ cur' = [cur EXCEPT ![t] = (cur[t] \cup {Written(x, Latest(x))} \cup {}) \cup {e}]
        /\ acq' = [acq EXCEPT ![t] = @ \cup last.knows]
        /\ UNCHANGED <<reads, rel, raced>>
    BY DEF Rmw, Brought, Acquires, Releases
  <1>3. m \in [val : Values[x], knows : A]
    BY <1>1
  <1>4. mem[x] \in Seq([val : Values[x], knows : A]) /\ DOMAIN mem = Locations
    BY <1>1 DEF TypeOK, MemoryTypeOK
  <1> HIDE DEF m, last, e
  <1>5. /\ Append(mem[x], m) \in Seq([val : Values[x], knows : A])
        /\ Append(mem[x], m) # <<>>
    BY <1>3, <1>4, Extend
  <1>6. \A y \in Locations : mem'[y] = IF y = x THEN Append(mem[x], m) ELSE mem[y]
    BY <1>2, <1>4
  <1>7. DOMAIN mem' = Locations
    BY <1>2, <1>4
  <1>8. cur' \in [Threads -> A] /\ acq' \in [Threads -> A]
    BY <1>1, <1>2 DEF TypeOK, MemoryTypeOK
  <1> QED
    BY <1>1, <1>2, <1>5, <1>6, <1>7, <1>8 DEF TypeOK, MemoryTypeOK

LEMMA PlainWriteTyped ==
    ASSUME TypeOK, NEW t \in Threads, NEW v \in Int, PlainWrite(t, "a", v)
    PROVE  MemoryTypeOK(Threads, Values)'
  <1> DEFINE A == SUBSET Accesses(Locations)
             e == Written("a", Latest("a") + 1)
             m == [val |-> v, knows |-> {}]
  <1>0. "a" \in Locations
    BY DEF Locations
  <1>1. e \in Accesses(Locations) /\ DOMAIN Values = Locations
    BY <1>0, Typed DEF Values
  <1>2. /\ mem' = [mem EXCEPT !["a"] = Append(@, m)]
        /\ cur' = [cur EXCEPT ![t] = @ \cup {e}]
        /\ UNCHANGED <<reads, acq, rel>>
        /\ raced' \subseteq raced \cup {"a"}
    BY DEF PlainWrite
  <1>3. m \in [val : Values["a"], knows : A]
    BY DEF Values, Locations
  <1>4. mem["a"] \in Seq([val : Values["a"], knows : A]) /\ DOMAIN mem = Locations
    BY <1>0, <1>1 DEF TypeOK, MemoryTypeOK
  <1> HIDE DEF m, e
  <1>5. /\ Append(mem["a"], m) \in Seq([val : Values["a"], knows : A])
        /\ Append(mem["a"], m) # <<>>
    BY <1>3, <1>4, Extend
  <1>6. \A y \in Locations : mem'[y] = IF y = "a" THEN Append(mem["a"], m) ELSE mem[y]
    BY <1>2, <1>4
  <1>7. DOMAIN mem' = Locations
    BY <1>2, <1>4
  <1>8. cur' \in [Threads -> A]
    BY <1>1, <1>2 DEF TypeOK, MemoryTypeOK
  <1> QED
    BY <1>0, <1>1, <1>2, <1>5, <1>6, <1>7, <1>8 DEF TypeOK, MemoryTypeOK

LEMMA PlainReadTyped ==
    ASSUME TypeOK, NEW t \in Threads, NEW k, PlainRead(t, "a", k)
    PROVE  MemoryTypeOK(Threads, Values)' /\ Value("a", k) \in Int
  <1>0. "a" \in Locations /\ DOMAIN Values = Locations
    BY DEF Locations, Values
  <1>1. k \in 1..Latest("a")
    BY DEF PlainRead, Readable
  <1>2. Value("a", k) \in Int /\ ReadOf("a", reads["a"] + 1) \in Accesses(Locations)
    BY <1>0, <1>1, Typed
  <1>3. /\ reads' \in [Locations -> Nat]
        /\ cur' \in [Threads -> SUBSET Accesses(Locations)]
        /\ raced' \subseteq Locations
    BY <1>0, <1>2 DEF PlainRead, TypeOK, MemoryTypeOK
  <1> QED
    BY <1>0, <1>2, <1>3 DEF PlainRead, TypeOK, MemoryTypeOK

------------------------------------------------------------------------------
LEMMA TypeInit == Init => TypeOK
  <1> SUFFICES ASSUME Init PROVE TypeOK
    OBVIOUS
  <1> DEFINE A == SUBSET Accesses(Locations)
             m == [val |-> 0, knows |-> {}]
  <1>0. DOMAIN Values = Locations /\ \A x \in Locations : 0 \in Values[x]
    BY DEF Values
  <1>1. \A x \in Locations : m \in [val : Values[x], knows : A]
    BY <1>0
  <1>2. /\ DOMAIN mem = Locations
        /\ \A x \in Locations : mem[x] = <<m>>
    BY DEF Init, Booted
  <1> HIDE DEF m
  <1>3. \A x \in Locations : /\ mem[x] \in Seq([val : Values[x], knows : A])
                             /\ mem[x] # <<>>
    <2> TAKE x \in Locations
    <2>1. m \in [val : Values[x], knows : A] /\ mem[x] = <<m>>
      BY <1>1, <1>2
    <2> DEFINE M == [val : Values[x], knows : A]
    <2> HIDE DEF M
    <2>2. <<m>> \in Seq(M) /\ <<m>> # <<>>
      BY <2>1, Single DEF M
    <2> QED
      BY <2>1, <2>2 DEF M
  <1>4. cur = [t \in Threads |-> {Written(x, 1) : x \in Locations}]
    BY DEF Init, Booted
  <1>e. \A x \in Locations : Written(x, 1) \in Accesses(Locations)
    BY DEF Written, Accesses
  <1>5. {Written(x, 1) : x \in Locations} \in A
    BY <1>e
  <1>6. cur \in [Threads -> A]
    BY <1>4, <1>5
  <1>7. /\ acq = [t \in Threads |-> {}] /\ rel = [t \in Threads |-> {}]
        /\ reads = [x \in Locations |-> 0] /\ raced = {}
    BY DEF Init, Booted
  <1>8. MemoryTypeOK(Threads, Values)
    BY <1>0, <1>2, <1>3, <1>6, <1>7 DEF MemoryTypeOK
  <1> QED
    BY <1>8, SpinsAssumption DEF Init, TypeOK, Places

\* One step per action; the lemmas above say what it does to the memory.
LEMMA TypeStep == TypeOK /\ [Next]_vars => TypeOK'
  <1> SUFFICES ASSUME TypeOK, [Next]_vars PROVE TypeOK'
    OBVIOUS
  <1> USE DEF Goto
  <1>0. /\ pc \in [Threads -> Places] /\ reg \in [Threads -> Int]
        /\ joined \subseteq Lockers /\ spins \in 0..MaxSpins
        /\ printed \in Seq(Int) /\ "flag" \in Locations
        /\ 1 \in Values["flag"] /\ 0 \in Values["flag"] /\ Lockers \subseteq Threads
        /\ MaxSpins \in Nat /\ Main \in Threads
    BY SpinsAssumption DEF TypeOK, Locations, Values, Threads
  <1>1. ASSUME NEW t \in Lockers, Exchange(t) PROVE TypeOK'
    <2>1. MemoryTypeOK(Threads, Values)'
      BY <1>0, <1>1, RmwTyped DEF Exchange
    <2> QED
      BY <1>0, <1>1, <2>1 DEF Exchange, TypeOK, Places
  <1>2. ASSUME NEW t \in Lockers, Spin(t) PROVE TypeOK'
    <2>1. MemoryTypeOK(Threads, Values)'
      BY <1>0, <1>2, RmwTyped DEF Spin
    <2> QED
      BY <1>0, <1>2, <2>1 DEF Spin, TypeOK
  <1>3. ASSUME NEW t \in Lockers, Acquire(t) PROVE TypeOK'
    <2>1. cur' \in [Threads -> SUBSET Accesses(Locations)] /\ DOMAIN Values = Locations
      BY <1>0, <1>3 DEF Acquire, AcquireFence, TypeOK, MemoryTypeOK, Values
    <2>2. MemoryTypeOK(Threads, Values)'
      BY <1>3, <2>1 DEF Acquire, AcquireFence, TypeOK, MemoryTypeOK
    <2> QED
      BY <1>0, <1>3, <2>2 DEF Acquire, TypeOK, Places
  <1>4. ASSUME NEW t \in Lockers, ReadA(t) PROVE TypeOK'
    <2>1. PICK k \in Readable(t, "a") : PlainRead(t, "a", k) /\ reg' = [reg EXCEPT ![t] = Value("a", k)]
      BY <1>4 DEF ReadA
    <2>2. MemoryTypeOK(Threads, Values)' /\ Value("a", k) \in Int
      BY <1>0, <2>1, PlainReadTyped
    <2> QED
      BY <1>0, <1>4, <2>1, <2>2 DEF ReadA, TypeOK, Places
  <1>5. ASSUME NEW t \in Lockers, WriteA(t) PROVE TypeOK'
    <2>1. reg[t] + Amount[t] \in Int
      BY <1>0, LockersAssumption
    <2>2. MemoryTypeOK(Threads, Values)'
      BY <1>0, <1>5, <2>1, PlainWriteTyped DEF WriteA
    <2> QED
      BY <1>0, <1>5, <2>2 DEF WriteA, TypeOK, Places
  <1>6. ASSUME NEW t \in Lockers, Release(t) PROVE TypeOK'
    <2>1. rel' \in [Threads -> SUBSET Accesses(Locations)] /\ DOMAIN Values = Locations
      BY <1>0, <1>6 DEF Release, ReleaseFence, TypeOK, MemoryTypeOK, Values
    <2>2. MemoryTypeOK(Threads, Values)'
      BY <1>6, <2>1 DEF Release, ReleaseFence, TypeOK, MemoryTypeOK
    <2> QED
      BY <1>0, <1>6, <2>2 DEF Release, TypeOK, Places
  <1>7. ASSUME NEW t \in Lockers, Clear(t) PROVE TypeOK'
    <2>1. MemoryTypeOK(Threads, Values)'
      BY <1>0, <1>7, StoreTyped DEF Clear
    <2> QED
      BY <1>0, <1>7, <2>1 DEF Clear, TypeOK, Places
  <1>8. ASSUME NEW t \in Lockers, Join(t) PROVE TypeOK'
    <2>1. cur' \in [Threads -> SUBSET Accesses(Locations)] /\ DOMAIN Values = Locations
      BY <1>0, <1>8 DEF Join, Joined, TypeOK, MemoryTypeOK, Values
    <2>2. MemoryTypeOK(Threads, Values)'
      BY <1>8, <2>1 DEF Join, Joined, TypeOK, MemoryTypeOK
    <2> QED
      BY <1>0, <1>8, <2>2 DEF Join, TypeOK
  <1>9. CASE PrintA
    <2>1. PICK k \in Readable(Main, "a") :
             PlainRead(Main, "a", k) /\ printed' = Append(printed, Value("a", k))
      BY <1>9 DEF PrintA
    <2>2. MemoryTypeOK(Threads, Values)' /\ Value("a", k) \in Int
      BY <1>0, <2>1, PlainReadTyped
    <2>3. printed' \in Seq(Int)
      BY <1>0, <2>1, <2>2
    <2> QED
      BY <1>0, <1>9, <2>2, <2>3 DEF PrintA, TypeOK, Places
  <1>10. CASE UNCHANGED vars
    BY <1>10 DEF vars, memory, TypeOK, MemoryTypeOK
  <1>11. ASSUME NEW t \in Lockers, SpinOn(t) PROVE TypeOK'
    BY <1>10, <1>11 DEF SpinOn
  <1> QED
    BY <1>1, <1>2, <1>3, <1>4, <1>5, <1>6, <1>7, <1>8, <1>9, <1>10, <1>11
       DEF Next, LockerStep, Critical, MainStep, Terminated

\* The memory, the registers and the places of the threads are what they are
\* declared to be, for any number of threads.
THEOREM TypeCorrect == Spec => []TypeOK
  BY TypeInit, TypeStep, PTL DEF Spec

------------------------------------------------------------------------------
(* Mutual exclusion.  Only the last write of the flag matters.             *)

LEMMA TakenAfter ==
    ASSUME TypeOK, NEW v \in {0, 1}, NEW m, m.val = v,
           mem' = [mem EXCEPT !["flag"] = Append(@, m)]
    PROVE  Taken' <=> v = 1
  <1> DEFINE A == SUBSET Accesses(Locations)
             M == [val : {0, 1}, knows : A]
  <1>1. mem["flag"] \in Seq(M) /\ "flag" \in DOMAIN mem
    BY DEF TypeOK, MemoryTypeOK, Values, Locations
  <1>2. mem'["flag"] = Append(mem["flag"], m)
    BY <1>1
  <1>3. Len(mem'["flag"]) = Len(mem["flag"]) + 1 /\ mem'["flag"][Len(mem["flag"]) + 1] = m
    BY <1>1, <1>2
  <1> QED
    BY <1>3 DEF Taken, Value, Latest

\* What a relaxed exchange and a relaxed store of the flag change.
LEMMA FlagExchanged ==
    ASSUME TypeOK, NEW t \in Threads, NEW v \in {0, 1}, Rmw(t, "flag", v, "relaxed")
    PROVE  /\ Taken' <=> v = 1
           /\ UNCHANGED <<mem["a"], reads, rel, raced>>
           /\ acq'[t] = acq[t] \cup mem["flag"][Latest("flag")].knows
           /\ cur[t] \subseteq cur'[t]
           /\ \A u \in Threads \ {t} : cur'[u] = cur[u] /\ acq'[u] = acq[u]
  <1> DEFINE last == mem["flag"][Latest("flag")]
             e == Written("flag", Latest("flag") + 1)
             m == [val |-> v, knows |-> (last.knows \cup rel[t]) \cup {e}]
  <1>1. DOMAIN cur = Threads /\ DOMAIN acq = Threads
    BY DEF TypeOK, MemoryTypeOK
  <1>2. /\ mem' = [mem EXCEPT !["flag"] = Append(@, m)]
        /\ cur' = [cur EXCEPT ![t] = (cur[t] \cup {Written("flag", Latest("flag"))} \cup {}) \cup {e}]
        /\ acq' = [acq EXCEPT ![t] = @ \cup last.knows]
        /\ UNCHANGED <<reads, rel, raced>>
    BY DEF Rmw, Brought, Acquires, Releases
  <1>3. m.val = v
    OBVIOUS
  <1> HIDE DEF m, e, last
  <1>4. Taken' <=> v = 1
    BY <1>2, <1>3, TakenAfter
  <1>5. mem'["a"] = mem["a"]
    BY <1>2 DEF TypeOK, MemoryTypeOK, Values, Locations
  <1> QED
    BY <1>1, <1>2, <1>4, <1>5 DEF last

LEMMA FlagStored ==
    ASSUME TypeOK, NEW t \in Threads, NEW v \in {0, 1}, Store(t, "flag", v, "relaxed")
    PROVE  /\ Taken' <=> v = 1
           /\ UNCHANGED <<mem["a"], reads, acq, rel, raced>>
           /\ rel[t] \subseteq mem'["flag"][Latest("flag")'].knows
           /\ cur[t] \subseteq cur'[t]
           /\ \A u \in Threads \ {t} : cur'[u] = cur[u]
  <1> DEFINE e == Written("flag", Latest("flag") + 1)
             m == [val |-> v, knows |-> rel[t] \cup {e}]
             M == [val : {0, 1}, knows : SUBSET Accesses(Locations)]
  <1>1. DOMAIN cur = Threads
    BY DEF TypeOK, MemoryTypeOK
  <1>2. /\ mem' = [mem EXCEPT !["flag"] = Append(@, m)]
        /\ cur' = [cur EXCEPT ![t] = @ \cup {e}]
        /\ UNCHANGED <<reads, acq, rel, raced>>
    BY DEF Store, Releases
  <1>3. m.val = v /\ rel[t] \subseteq m.knows
    OBVIOUS
  <1> HIDE DEF m, e
  <1>4. Taken' <=> v = 1
    BY <1>2, <1>3, TakenAfter
  <1>5. mem'["a"] = mem["a"]
    BY <1>2 DEF TypeOK, MemoryTypeOK, Values, Locations
  <1>6. mem["flag"] \in Seq(M) /\ mem'["flag"] = Append(mem["flag"], m)
    BY <1>2 DEF TypeOK, MemoryTypeOK, Values, Locations
  <1>7. mem'["flag"][Len(mem'["flag"])] = m
    BY <1>6
  <1> QED
    BY <1>1, <1>2, <1>3, <1>4, <1>5, <1>7 DEF Latest

LEMMA LockInit == Init => LockInv
  <1> SUFFICES ASSUME Init PROVE LockInv
    OBVIOUS
  <1>1. mem["flag"] = <<[val |-> 0, knows |-> {}]>>
    BY DEF Init, Booted, Locations
  <1>2. ~Taken
    BY <1>1 DEF Taken, Value, Latest
  <1>3. \A t \in Lockers : pc[t] = "exchange"
    BY LockersAssumption DEF Init, Threads
  <1> QED
    BY <1>2, <1>3 DEF LockInv, MutualExclusion, Inside

\* Only Exchange goes in, when the flag is free; only Clear goes out.
LEMMA LockStep == TypeOK /\ LockInv /\ [Next]_vars => LockInv'
  <1> SUFFICES ASSUME TypeOK, LockInv, [Next]_vars PROVE LockInv'
    OBVIOUS
  <1> USE DEF Goto, At
  <1>0. /\ pc \in [Threads -> Places] /\ Lockers \subseteq Threads /\ Main \in Threads
        /\ Main \notin Lockers
    BY LockersAssumption DEF TypeOK, Threads
  <1>1. ASSUME NEW t \in Lockers, Exchange(t) PROVE LockInv'
    <2>1. Taken'
      BY <1>0, <1>1, FlagExchanged DEF Exchange
    <2>2. \A u \in Lockers : pc[u] \notin Inside
      BY <1>1 DEF Exchange, LockInv
    <2>3. \A u \in Lockers : pc'[u] \in Inside <=> u = t
      BY <1>0, <1>1, <2>2 DEF Exchange, Inside
    <2> QED
      BY <2>1, <2>3 DEF LockInv, MutualExclusion
  <1>2. ASSUME NEW t \in Lockers, Spin(t) PROVE LockInv'
    <2>1. Taken'
      BY <1>0, <1>2, FlagExchanged DEF Spin
    <2> QED
      BY <1>2, <2>1 DEF Spin, LockInv, MutualExclusion
  <1>3. ASSUME NEW t \in Lockers, Clear(t) PROVE LockInv'
    <2>1. ~Taken'
      BY <1>0, <1>3, FlagStored DEF Clear
    <2>2. \A u \in Lockers : pc[u] \in Inside => u = t
      BY <1>3 DEF Clear, LockInv, MutualExclusion, Inside
    <2>3. \A u \in Lockers : pc'[u] \notin Inside
      BY <1>0, <1>3, <2>2 DEF Clear, Inside
    <2> QED
      BY <2>1, <2>3 DEF LockInv, MutualExclusion
  <1>4. ASSUME UNCHANGED mem["flag"],
               \A u \in Lockers : pc'[u] \in Inside <=> pc[u] \in Inside
        PROVE  LockInv'
    BY <1>4 DEF LockInv, MutualExclusion, Taken, Value, Latest
  <1>5. ASSUME NEW t \in Lockers, Acquire(t) \/ ReadA(t) \/ Release(t) \/ Join(t)
        PROVE  LockInv'
    <2>1. UNCHANGED mem
      BY <1>5 DEF Acquire, AcquireFence, ReadA, PlainRead, Release, ReleaseFence, Join, Joined
    <2>2. \A u \in Lockers : pc'[u] \in Inside <=> pc[u] \in Inside
      BY <1>0, <1>5 DEF Acquire, ReadA, Release, Join, Inside
    <2> QED
      BY <1>4, <2>1, <2>2
  <1>6. ASSUME NEW t \in Lockers, WriteA(t) PROVE LockInv'
    <2>1. UNCHANGED mem["flag"]
      BY <1>6 DEF WriteA, PlainWrite
    <2>2. \A u \in Lockers : pc'[u] \in Inside <=> pc[u] \in Inside
      BY <1>0, <1>6 DEF WriteA, Inside
    <2> QED
      BY <1>4, <2>1, <2>2
  <1>7. CASE PrintA
    <2>1. UNCHANGED mem
      BY <1>7 DEF PrintA, PlainRead
    <2>2. \A u \in Lockers : pc'[u] = pc[u]
      BY <1>0, <1>7 DEF PrintA
    <2> QED
      BY <1>4, <2>1, <2>2
  <1>8. CASE UNCHANGED vars
    BY <1>4, <1>8 DEF vars, memory
  <1>9. ASSUME NEW t \in Lockers, SpinOn(t) PROVE LockInv'
    BY <1>8, <1>9 DEF SpinOn
  <1> QED
    BY <1>1, <1>2, <1>3, <1>5, <1>6, <1>7, <1>8, <1>9
       DEF Next, LockerStep, Critical, MainStep, Terminated

\* lock() excludes, for any number of threads: two threads are never both past
\* their exchange and not yet through unlock().
THEOREM Excludes == Spec => []MutualExclusion
  <1>1. LockInv => MutualExclusion
    BY DEF LockInv
  <1> QED
    BY TypeInit, TypeStep, LockInit, LockStep, <1>1, PTL DEF Spec

------------------------------------------------------------------------------
(* The order of the accesses of a.                                         *)

LEMMA NothingAdded == UNCHANGED <<mem["a"], reads>> => Accessed' = Accessed
  BY DEF Accessed, WritesOf, ReadsOf, Latest

\* A thread that knows what was done to a reads it without a race, and is the
\* one that knows of the reading.
LEMMA ReadAdds ==
    ASSUME TypeOK, NEW t \in Threads, NEW k, PlainRead(t, "a", k),
           Accessed \subseteq cur[t], Written("a", 1) \in cur[t]
    PROVE  /\ UNCHANGED <<mem, acq, rel, raced>>
           /\ Accessed' \subseteq cur'[t]
           /\ \A e \in Accessed' : e \in Accessed \/ e \in cur'[t]
           /\ cur[t] \subseteq cur'[t]
           /\ \A u \in Threads \ {t} : cur'[u] = cur[u]
  <1> DEFINE e == ReadOf("a", reads["a"] + 1)
  <1>0. "a" \in Locations /\ reads["a"] \in Nat /\ DOMAIN cur = Threads /\ DOMAIN reads = Locations
    BY Typed DEF Locations, TypeOK, MemoryTypeOK, Values
  <1>1. WritesOf("a") \subseteq cur[t]
    BY DEF Accessed
  <1>2. /\ cur' = [cur EXCEPT ![t] = @ \cup {e}]
        /\ reads' = [reads EXCEPT !["a"] = @ + 1]
        /\ UNCHANGED <<mem, acq, rel>> /\ raced' = raced
    BY <1>1 DEF PlainRead
  <1>3. WritesOf("a")' = WritesOf("a")
    BY <1>2 DEF WritesOf, Latest
  <1>4. 1..reads'["a"] = (1..reads["a"]) \cup {reads["a"] + 1}
    BY <1>0, <1>2
  <1>5. ReadsOf("a")' = ReadsOf("a") \cup {e}
    BY <1>4 DEF ReadsOf
  <1>6. Accessed' \subseteq Accessed \cup {e}
    BY <1>3, <1>5 DEF Accessed
  <1> QED
    BY <1>0, <1>2, <1>6

LEMMA WriteAdds ==
    ASSUME TypeOK, NEW t \in Threads, NEW v \in Int, PlainWrite(t, "a", v),
           Accessed \subseteq cur[t], Written("a", 1) \in cur[t]
    PROVE  /\ UNCHANGED <<mem["flag"], acq, rel, raced>>
           /\ Accessed' \subseteq cur'[t]
           /\ \A e \in Accessed' : e \in Accessed \/ e \in cur'[t]
           /\ cur[t] \subseteq cur'[t]
           /\ \A u \in Threads \ {t} : cur'[u] = cur[u]
  <1> DEFINE e == Written("a", Latest("a") + 1)
             m == [val |-> v, knows |-> {}]
             M == [val : Int, knows : SUBSET Accesses(Locations)]
  <1>0. DOMAIN cur = Threads
    BY DEF TypeOK, MemoryTypeOK
  <1>1. WritesOf("a") \cup ReadsOf("a") \subseteq cur[t]
    BY DEF Accessed
  <1>2. /\ cur' = [cur EXCEPT ![t] = @ \cup {e}]
        /\ mem' = [mem EXCEPT !["a"] = Append(@, m)]
        /\ UNCHANGED <<reads, acq, rel>> /\ raced' = raced
    BY <1>1 DEF PlainWrite
  <1>3. mem["a"] \in Seq(M) /\ mem'["a"] = Append(mem["a"], m) /\ mem'["flag"] = mem["flag"]
    BY <1>2 DEF TypeOK, MemoryTypeOK, Values, Locations
  <1>4. Latest("a") \in Nat /\ Latest("a")' = Latest("a") + 1
    BY <1>3 DEF Latest
  <1>5. 1..Latest("a")' = (1..Latest("a")) \cup {Latest("a") + 1}
    BY <1>4
  <1>6. WritesOf("a")' = WritesOf("a") \cup {e}
    BY <1>5 DEF WritesOf
  <1>7. ReadsOf("a")' = ReadsOf("a")
    BY <1>2 DEF ReadsOf
  <1>8. Accessed' \subseteq Accessed \cup {e}
    BY <1>6, <1>7 DEF Accessed
  <1> QED
    BY <1>0, <1>2, <1>3, <1>8

LEMMA OrderInit == Init => OrderInv
  <1> SUFFICES ASSUME Init PROVE OrderInv
    OBVIOUS
  <1> DEFINE m == [val |-> 0, knows |-> {}]
  <1>1. mem["a"] = <<m>> /\ reads["a"] = 0 /\ raced = {}
    BY DEF Init, Booted, Locations
  <1>2. WritesOf("a") = {Written("a", 1)} /\ ReadsOf("a") = {}
    BY <1>1 DEF WritesOf, ReadsOf, Latest
  <1>3. Accessed = {}
    BY <1>2 DEF Accessed
  <1>4. \A t \in Threads : cur[t] = {Written(x, 1) : x \in Locations}
    BY DEF Init, Booted
  <1>5. \A t \in Threads : Written("a", 1) \in cur[t]
    BY <1>4 DEF Locations
  <1>6. pc[Main] = "join" /\ joined = {}
    BY DEF Init, Threads
  <1> QED
    BY <1>1, <1>3, <1>5, <1>6 DEF OrderInv, FreeFlagKnows, HolderKnows, JoinKnows

\* A step of a thread that is not done leaves main() and the joined threads alone.
LEMMA JoinKept ==
    ASSUME JoinKnows, NEW t \in Lockers, pc[t] # "done", joined \subseteq Lockers,
           UNCHANGED joined,
           \A u \in Threads \ {t} : cur'[u] = cur[u] /\ pc'[u] = pc[u],
           cur[t] \subseteq cur'[t],
           \A e \in Accessed' : e \in Accessed \/ e \in cur'[t]
    PROVE  JoinKnows'
  <1>0. Main \in Threads \ {t} /\ Lockers \subseteq Threads
    BY LockersAssumption DEF Threads
  <1>1. \A u \in joined : u # t
    BY DEF JoinKnows
  <1>2. ASSUME NEW u \in joined' PROVE pc'[u] = "done" /\ cur'[u] \subseteq cur'[Main]
    BY <1>0, <1>1, <1>2 DEF JoinKnows
  <1>3. ASSUME NEW e \in Accessed' PROVE \E u \in Lockers : e \in cur'[u]
    <2>1. CASE e \in cur'[t]
      BY <2>1
    <2>2. CASE e \in Accessed
      BY <1>0, <2>2 DEF JoinKnows
    <2> QED
      BY <1>3, <2>1, <2>2
  <1> QED
    BY <1>2, <1>3 DEF JoinKnows

\* What the actions of a thread have to show: what it knows afterwards.
LEMMA StepOrders ==
    ASSUME TypeOK, LockInv', OrderInv, NEW t \in Lockers, pc[t] # "done",
           UNCHANGED <<raced, joined>>,
           \A u \in Threads \ {t} : cur'[u] = cur[u] /\ pc'[u] = pc[u],
           cur[t] \subseteq cur'[t],
           \A e \in Accessed' : e \in Accessed \/ e \in cur'[t],
           FreeFlagKnows', HolderKnows(t)',
           \A u \in Lockers \ {t} : HolderKnows(u)'
    PROVE  OrderInv'
  <1>0. Main \in Threads \ {t} /\ Lockers \subseteq Threads
    BY LockersAssumption DEF Threads
  <1>1. pc[Main] = "join" /\ pc'[Main] = "join" /\ JoinKnows
    BY <1>0 DEF OrderInv
  <1>2. JoinKnows'
    BY <1>1, JoinKept DEF TypeOK
  <1>3. \A u \in Threads : Written("a", 1) \in cur'[u]
    BY DEF OrderInv
  <1> QED
    BY <1>1, <1>2, <1>3 DEF OrderInv

\* The others know nothing they need while somebody is inside.
LEMMA OthersOutside ==
    ASSUME LockInv, NEW t \in Lockers, pc[t] \in Inside,
           \A u \in Lockers \ {t} : pc'[u] = pc[u]
    PROVE  \A u \in Lockers \ {t} : HolderKnows(u)'
  <1>1. \A u \in Lockers \ {t} : pc[u] \notin Inside
    BY DEF LockInv, MutualExclusion
  <1> QED
    BY <1>1 DEF HolderKnows, Inside

LEMMA OrderStep == IInv /\ LockInv' /\ [Next]_vars => OrderInv'
  <1> SUFFICES ASSUME TypeOK, LockInv, OrderInv, LockInv', [Next]_vars
               PROVE  OrderInv'
    BY DEF IInv
  <1> USE DEF Goto, At
  <1>0. /\ pc \in [Threads -> Places] /\ Lockers \subseteq Threads /\ Main \in Threads
        /\ Main \notin Lockers /\ joined \subseteq Lockers
        /\ DOMAIN cur = Threads /\ DOMAIN acq = Threads /\ DOMAIN rel = Threads
    BY LockersAssumption DEF TypeOK, MemoryTypeOK, Threads
  <1>k. ASSUME NEW t \in Lockers, pc[t] # "done"
        PROVE  /\ pc[Main] = "join" /\ FreeFlagKnows /\ \A u \in Lockers : HolderKnows(u)
               /\ Written("a", 1) \in cur[t]
    BY <1>0, <1>k DEF OrderInv
  <1>1. ASSUME NEW t \in Lockers, Exchange(t) PROVE OrderInv'
    <2>0. pc[t] = "exchange" /\ pc' = [pc EXCEPT ![t] = "acquire"] /\ ~Taken
      BY <1>1 DEF Exchange
    <2>1. /\ Taken' /\ UNCHANGED <<mem["a"], reads, rel, raced>>
          /\ acq'[t] = acq[t] \cup mem["flag"][Latest("flag")].knows
          /\ cur[t] \subseteq cur'[t]
          /\ \A u \in Threads \ {t} : cur'[u] = cur[u] /\ acq'[u] = acq[u]
      BY <1>0, <1>1, FlagExchanged DEF Exchange
    <2>2. Accessed' = Accessed
      BY <2>1, NothingAdded
    <2>3. HolderKnows(t)'
      BY <1>0, <1>k, <2>0, <2>1, <2>2 DEF HolderKnows, FreeFlagKnows
    <2>4. \A u \in Lockers \ {t} : HolderKnows(u)'
      BY <1>0, <1>k, <2>0, <2>1, <2>2 DEF HolderKnows
    <2>5. FreeFlagKnows'
      BY <2>1 DEF FreeFlagKnows
    <2> QED
      BY <1>0, <1>1, <2>0, <2>1, <2>2, <2>3, <2>4, <2>5, StepOrders DEF Exchange
  <1>2. ASSUME NEW t \in Lockers, Spin(t) PROVE OrderInv'
    <2>0. pc[t] = "exchange" /\ pc' = pc
      BY <1>2 DEF Spin
    <2>1. /\ Taken' /\ UNCHANGED <<mem["a"], reads, rel, raced>>
          /\ cur[t] \subseteq cur'[t]
          /\ \A u \in Threads \ {t} : cur'[u] = cur[u] /\ acq'[u] = acq[u]
      BY <1>0, <1>2, FlagExchanged DEF Spin
    <2>2. Accessed' = Accessed
      BY <2>1, NothingAdded
    <2>3. HolderKnows(t)'
      BY <2>0 DEF HolderKnows
    <2>4. \A u \in Lockers \ {t} : HolderKnows(u)'
      BY <1>0, <1>k, <2>0, <2>1, <2>2 DEF HolderKnows
    <2>5. FreeFlagKnows'
      BY <2>1 DEF FreeFlagKnows
    <2> QED
      BY <1>0, <1>2, <2>0, <2>1, <2>2, <2>3, <2>4, <2>5, StepOrders DEF Spin
  <1>3. ASSUME NEW t \in Lockers, Acquire(t) PROVE OrderInv'
    <2>0. pc[t] = "acquire" /\ pc' = [pc EXCEPT ![t] = "read"]
      BY <1>3 DEF Acquire
    <2>1. /\ UNCHANGED <<mem, reads, acq, rel, raced, joined>>
          /\ cur' = [cur EXCEPT ![t] = @ \cup acq[t]]
      BY <1>3 DEF Acquire, AcquireFence
    <2>2. Accessed' = Accessed
      BY <2>1, NothingAdded
    <2>3. HolderKnows(t)'
      BY <1>0, <1>k, <2>0, <2>1, <2>2 DEF HolderKnows
    <2>4. \A u \in Lockers \ {t} : HolderKnows(u)'
      BY <1>0, <2>0, OthersOutside DEF Inside
    <2>5. FreeFlagKnows'
      BY <1>0, <2>0, <2>1 DEF FreeFlagKnows, LockInv, Inside, Taken, Value, Latest
    <2> QED
      BY <1>0, <2>0, <2>1, <2>2, <2>3, <2>4, <2>5, StepOrders
  <1>4. ASSUME NEW t \in Lockers, ReadA(t) PROVE OrderInv'
    <2>0. pc[t] = "read" /\ pc' = [pc EXCEPT ![t] = "write"] /\ UNCHANGED joined
      BY <1>4 DEF ReadA
    <2>k. Accessed \subseteq cur[t] /\ Written("a", 1) \in cur[t]
      BY <1>k, <2>0 DEF HolderKnows
    <2>1. PICK k : PlainRead(t, "a", k)
      BY <1>4 DEF ReadA
    <2>2. /\ UNCHANGED <<mem, acq, rel, raced>>
          /\ Accessed' \subseteq cur'[t]
          /\ \A e \in Accessed' : e \in Accessed \/ e \in cur'[t]
          /\ cur[t] \subseteq cur'[t]
          /\ \A u \in Threads \ {t} : cur'[u] = cur[u]
      BY <1>0, <2>1, <2>k, ReadAdds
    <2>3. HolderKnows(t)'
      BY <1>0, <2>0, <2>2 DEF HolderKnows
    <2>4. \A u \in Lockers \ {t} : HolderKnows(u)'
      BY <1>0, <2>0, OthersOutside DEF Inside
    <2>5. FreeFlagKnows'
      BY <1>0, <2>0, <2>2 DEF FreeFlagKnows, LockInv, Inside, Taken, Value, Latest
    <2> QED
      BY <1>0, <2>0, <2>2, <2>3, <2>4, <2>5, StepOrders
  <1>5. ASSUME NEW t \in Lockers, WriteA(t) PROVE OrderInv'
    <2>0. pc[t] = "write" /\ pc' = [pc EXCEPT ![t] = "release"] /\ UNCHANGED joined
      BY <1>5 DEF WriteA
    <2>k. Accessed \subseteq cur[t] /\ Written("a", 1) \in cur[t]
      BY <1>k, <2>0 DEF HolderKnows
    <2>1. reg[t] + Amount[t] \in Int
      BY <1>0, LockersAssumption DEF TypeOK
    <2>2. /\ UNCHANGED <<mem["flag"], acq, rel, raced>>
          /\ Accessed' \subseteq cur'[t]
          /\ \A e \in Accessed' : e \in Accessed \/ e \in cur'[t]
          /\ cur[t] \subseteq cur'[t]
          /\ \A u \in Threads \ {t} : cur'[u] = cur[u]
      BY <1>0, <1>5, <2>1, <2>k, WriteAdds DEF WriteA
    <2>3. HolderKnows(t)'
      BY <1>0, <2>0, <2>2 DEF HolderKnows
    <2>4. \A u \in Lockers \ {t} : HolderKnows(u)'
      BY <1>0, <2>0, OthersOutside DEF Inside
    <2>5. FreeFlagKnows'
      BY <1>0, <2>0, <2>2 DEF FreeFlagKnows, LockInv, Inside, Taken, Value, Latest
    <2> QED
      BY <1>0, <2>0, <2>2, <2>3, <2>4, <2>5, StepOrders
  <1>6. ASSUME NEW t \in Lockers, Release(t) PROVE OrderInv'
    <2>0. pc[t] = "release" /\ pc' = [pc EXCEPT ![t] = "clear"]
      BY <1>6 DEF Release
    <2>1. /\ UNCHANGED <<mem, reads, cur, acq, raced, joined>>
          /\ rel' = [rel EXCEPT ![t] = cur[t]]
      BY <1>6 DEF Release, ReleaseFence
    <2>2. Accessed' = Accessed
      BY <2>1, NothingAdded
    <2>3. HolderKnows(t)'
      BY <1>0, <1>k, <2>0, <2>1, <2>2 DEF HolderKnows
    <2>4. \A u \in Lockers \ {t} : HolderKnows(u)'
      BY <1>0, <2>0, OthersOutside DEF Inside
    <2>5. FreeFlagKnows'
      BY <1>0, <2>0, <2>1 DEF FreeFlagKnows, LockInv, Inside, Taken, Value, Latest
    <2> QED
      BY <1>0, <2>0, <2>1, <2>2, <2>3, <2>4, <2>5, StepOrders
  <1>7. ASSUME NEW t \in Lockers, Clear(t) PROVE OrderInv'
    <2>0. pc[t] = "clear" /\ pc' = [pc EXCEPT ![t] = "done"] /\ UNCHANGED joined
      BY <1>7 DEF Clear
    <2>1. /\ UNCHANGED <<mem["a"], reads, acq, rel, raced>>
          /\ rel[t] \subseteq mem'["flag"][Latest("flag")'].knows
          /\ cur[t] \subseteq cur'[t]
          /\ \A u \in Threads \ {t} : cur'[u] = cur[u]
      BY <1>0, <1>7, FlagStored DEF Clear
    <2>2. Accessed' = Accessed
      BY <2>1, NothingAdded
    <2>3. HolderKnows(t)'
      BY <1>0, <2>0 DEF HolderKnows
    <2>4. \A u \in Lockers \ {t} : HolderKnows(u)'
      BY <1>0, <2>0, OthersOutside DEF Inside
    <2>5. FreeFlagKnows'
      BY <1>k, <2>0, <2>1, <2>2 DEF FreeFlagKnows, HolderKnows
    <2> QED
      BY <1>0, <2>0, <2>1, <2>2, <2>3, <2>4, <2>5, StepOrders
  <1>8. ASSUME NEW t \in Lockers, Join(t) PROVE OrderInv'
    <2>1. /\ pc[t] = "done" /\ UNCHANGED <<pc, mem, reads, acq, rel, raced>>
          /\ cur' = [cur EXCEPT ![Main] = @ \cup cur[t]] /\ joined' = joined \cup {t}
      BY <1>8 DEF Join, Joined
    <2>2. Accessed' = Accessed
      BY <2>1, NothingAdded
    <2>3. \A u \in Threads : cur[u] \subseteq cur'[u]
      BY <1>0, <2>1
    <2>4. FreeFlagKnows' <=> FreeFlagKnows
      BY <2>1, <2>2 DEF FreeFlagKnows, Taken, Value, Latest
    <2>5. ASSUME NEW u \in Lockers, HolderKnows(u) PROVE HolderKnows(u)'
      BY <1>0, <2>1, <2>2, <2>3, <2>5 DEF HolderKnows
    <2>6. \A u \in joined' : JoinKnows => (pc'[u] = "done" /\ cur'[u] \subseteq cur'[Main])
      BY <1>0, <2>1 DEF JoinKnows
    <2>7. JoinKnows => JoinKnows'
      BY <1>0, <2>2, <2>3, <2>6 DEF JoinKnows
    <2> QED
      BY <2>1, <2>3, <2>4, <2>5, <2>7 DEF OrderInv
  <1>9. CASE PrintA
    <2>0. pc[Main] = "join" /\ joined = Lockers /\ pc' = [pc EXCEPT ![Main] = "done"]
      BY <1>9 DEF PrintA
    <2>1. PICK k : PlainRead(Main, "a", k)
      BY <1>9 DEF PrintA
    <2>2. \A u \in Lockers : pc[u] = "done" /\ cur[u] \subseteq cur[Main]
      BY <2>0 DEF OrderInv, JoinKnows
    <2>3. Accessed \subseteq cur[Main] /\ Written("a", 1) \in cur[Main]
      BY <1>0, <2>0, <2>2 DEF OrderInv, JoinKnows
    <2>4. /\ UNCHANGED raced /\ cur[Main] \subseteq cur'[Main]
          /\ \A u \in Threads \ {Main} : cur'[u] = cur[u]
      BY <1>0, <2>1, <2>3, ReadAdds
    <2>5. pc'[Main] = "done" /\ \A u \in Lockers : pc'[u] = "done"
      BY <1>0, <2>0, <2>2
    <2> QED
      BY <2>4, <2>5 DEF OrderInv
  <1>10. CASE UNCHANGED vars
    <2>1. UNCHANGED <<pc, mem, reads, cur, acq, rel, raced, joined>>
      BY <1>10 DEF vars, memory
    <2>2. Accessed' = Accessed
      BY <2>1, NothingAdded
    <2> QED
      BY <2>1, <2>2 DEF OrderInv, FreeFlagKnows, HolderKnows, JoinKnows, Taken, Value, Latest
  <1>11. ASSUME NEW t \in Lockers, SpinOn(t) PROVE OrderInv'
    BY <1>10, <1>11 DEF SpinOn
  <1> QED
    BY <1>1, <1>2, <1>3, <1>4, <1>5, <1>6, <1>7, <1>8, <1>9, <1>10, <1>11
       DEF Next, LockerStep, Critical, MainStep, Terminated

\* The fences of lock() and unlock() order every access of what the mutex
\* protects, for any number of threads, and the joins order what main() reads.
THEOREM FencesSuffice == Spec => []NoDataRace
  <1>1. OrderInv => NoDataRace
    BY DEF OrderInv, NoDataRace
  <1>2. IInv /\ [Next]_vars => IInv'
    BY TypeStep, LockStep, OrderStep DEF IInv
  <1>3. Init => IInv
    BY TypeInit, LockInit, OrderInit DEF IInv
  <1>4. IInv => OrderInv
    BY DEF IInv
  <1> QED
    BY <1>1, <1>2, <1>3, <1>4, PTL DEF Spec

------------------------------------------------------------------------------
(* What is printed.  The writes of a are the turns of the threads that are *)
(* past theirs; the one inside has read the last of them.                  *)

\* The threads that have written a.
Writers == {t \in Lockers : pc[t] \in Past}

SumInv ==
    /\ Value("a", 1) = 0
    /\ \E turn \in Bijection(1..(Latest("a") - 1), Writers) : EachAdds(turn)
    /\ \A t \in Lockers : pc[t] = "write" => reg[t] = Value("a", Latest("a"))
    /\ pc[Main] = "join" => printed = <<>>
    /\ pc[Main] = "done" => printed = <<Value("a", Latest("a"))>>

LEMMA SumInit == Init => SumInv
  <1> SUFFICES ASSUME Init PROVE SumInv
    OBVIOUS
  <1> DEFINE none == [n \in {} |-> Main]
  <1>1. mem["a"] = <<[val |-> 0, knows |-> {}]>>
    BY DEF Init, Booted, Locations
  <1>2. Value("a", 1) = 0 /\ 1..(Latest("a") - 1) = {}
    BY <1>1 DEF Value, Latest
  <1>3. \A t \in Lockers : pc[t] = "exchange"
    BY LockersAssumption DEF Init, Threads
  <1>4. Writers = {}
    BY <1>3 DEF Writers, Past
  <1>5. none \in Bijection({}, {}) /\ EachAdds(none)
    BY DEF Bijection, Injection, Surjection, IsInjective, EachAdds
  <1>6. pc[Main] = "join" /\ printed = <<>>
    BY DEF Init, Threads
  <1> QED
    BY <1>2, <1>3, <1>4, <1>5, <1>6 DEF SumInv

\* Who knows every access of a reads its last write.
LEMMA ReadsLatest ==
    ASSUME TypeOK, NEW t \in Threads, NEW k \in Readable(t, "a"),
           Accessed \subseteq cur[t], Written("a", 1) \in cur[t]
    PROVE  k = Latest("a")
  <1>1. Latest("a") \in Nat \ {0} /\ k \in 1..Latest("a")
    BY Typed DEF Locations, Readable
  <1>2. Written("a", Latest("a")) \in cur[t]
    BY <1>1 DEF Accessed, WritesOf
  <1>3. Latest("a") <= k
    BY <1>1, <1>2 DEF Readable
  <1> QED
    BY <1>1, <1>3

\* A step that neither writes a nor reads it nor prints.
LEMMA SumKept ==
    ASSUME SumInv, UNCHANGED <<mem["a"], reg, printed, pc[Main]>>,
           \A t \in Lockers : pc'[t] \in Past <=> pc[t] \in Past,
           \A t \in Lockers : pc'[t] = "write" <=> pc[t] = "write"
    PROVE  SumInv'
  <1>1. Writers' = Writers
    BY DEF Writers, Past
  <1> QED
    BY <1>1 DEF SumInv, EachAdds, Value, Latest

\* The next turn is that of a thread that had none.
LEMMA NextTurn ==
    ASSUME NEW N \in Nat, NEW S, NEW t, t \notin S, NEW turn \in Bijection(1..N, S)
    PROVE  [n \in 1..(N + 1) |-> IF n = N + 1 THEN t ELSE turn[n]]
               \in Bijection(1..(N + 1), S \cup {t})
  <1> DEFINE next == [n \in 1..(N + 1) |-> IF n = N + 1 THEN t ELSE turn[n]]
  <1>1. /\ turn \in [1..N -> S]
        /\ \A m, n \in 1..N : turn[m] = turn[n] => m = n
        /\ \A u \in S : \E n \in 1..N : turn[n] = u
    BY DEF Bijection, Injection, Surjection, IsInjective
  <1>2. 1..(N + 1) = (1..N) \cup {N + 1} /\ N + 1 \notin 1..N
    OBVIOUS
  <1>3. next \in [1..(N + 1) -> S \cup {t}]
    BY <1>1, <1>2
  <1>4. \A m, n \in 1..(N + 1) : next[m] = next[n] => m = n
    BY <1>1, <1>2
  <1>5. ASSUME NEW u \in S \cup {t} PROVE \E n \in 1..(N + 1) : next[n] = u
    <2>1. CASE u = t
      BY <1>2, <2>1
    <2>2. CASE u \in S
      <3>1. PICK n \in 1..N : turn[n] = u
        BY <1>1, <2>2
      <3>2. n \in 1..(N + 1) /\ next[n] = u
        BY <1>2, <3>1
      <3> QED
        BY <3>2
    <2> QED
      BY <1>5, <2>1, <2>2
  <1> QED
    BY <1>3, <1>4, <1>5 DEF Bijection, Injection, Surjection, IsInjective

LEMMA SumStep == IInv /\ SumInv /\ [Next]_vars => SumInv'
  <1> SUFFICES ASSUME TypeOK, LockInv, OrderInv, SumInv, [Next]_vars
               PROVE  SumInv'
    BY DEF IInv
  <1> USE DEF Goto, At
  <1>0. /\ pc \in [Threads -> Places] /\ Lockers \subseteq Threads /\ Main \in Threads
        /\ Main \notin Lockers /\ DOMAIN reg = Threads
    BY LockersAssumption DEF TypeOK, Threads
  <1>k. ASSUME NEW t \in Lockers, pc[t] # "done"
        PROVE  pc[Main] = "join" /\ HolderKnows(t) /\ Written("a", 1) \in cur[t]
    BY <1>0, <1>k DEF OrderInv
  <1>1. ASSUME NEW t \in Lockers, Exchange(t) PROVE SumInv'
    <2>1. UNCHANGED mem["a"]
      BY <1>0, <1>1, FlagExchanged DEF Exchange
    <2> QED
      BY <1>0, <1>1, <2>1, SumKept DEF Exchange, Past
  <1>2. ASSUME NEW t \in Lockers, Spin(t) PROVE SumInv'
    <2>1. UNCHANGED mem["a"]
      BY <1>0, <1>2, FlagExchanged DEF Spin
    <2> QED
      BY <1>2, <2>1, SumKept DEF Spin
  <1>3. ASSUME NEW t \in Lockers, Acquire(t) \/ Release(t) PROVE SumInv'
    <2>1. UNCHANGED mem["a"]
      BY <1>3 DEF Acquire, AcquireFence, Release, ReleaseFence
    <2> QED
      BY <1>0, <1>3, <2>1, SumKept DEF Acquire, Release, Past
  <1>4. ASSUME NEW t \in Lockers, ReadA(t) PROVE SumInv'
    <2>1. PICK k \in Readable(t, "a") :
             PlainRead(t, "a", k) /\ reg' = [reg EXCEPT ![t] = Value("a", k)]
      BY <1>4 DEF ReadA
    <2>2. pc[t] = "read" /\ pc' = [pc EXCEPT ![t] = "write"] /\ UNCHANGED <<mem, printed>>
      BY <1>4, <2>1 DEF ReadA, PlainRead
    <2>3. k = Latest("a")
      BY <1>0, <1>k, <2>2, ReadsLatest DEF HolderKnows
    <2>4. Writers' = Writers
      BY <1>0, <2>2 DEF Writers, Past
    <2>5. \A u \in Lockers : pc'[u] = "write" => reg'[u] = Value("a", Latest("a"))
      BY <1>0, <2>1, <2>2, <2>3 DEF SumInv
    <2>6. pc'[Main] = pc[Main]
      BY <1>0, <2>2
    <2> QED
      BY <2>2, <2>4, <2>5, <2>6 DEF SumInv, EachAdds, Value, Latest
  <1>5. ASSUME NEW t \in Lockers, WriteA(t) PROVE SumInv'
    <2> DEFINE M == [val : Int, knows : SUBSET Accesses(Locations)]
               m == [val |-> reg[t] + Amount[t], knows |-> {}]
    <2>0. pc[t] = "write" /\ pc' = [pc EXCEPT ![t] = "release"] /\ UNCHANGED <<reg, printed>>
      BY <1>5 DEF WriteA
    <2>1. reg[t] + Amount[t] \in Int /\ reg[t] = Value("a", Latest("a"))
      BY <1>0, <2>0, LockersAssumption DEF TypeOK, SumInv
    <2>2. mem["a"] \in Seq(M) /\ mem'["a"] = Append(mem["a"], m) /\ m \in M
      BY <1>5, <2>1 DEF WriteA, PlainWrite, TypeOK, MemoryTypeOK, Values, Locations
    <2>3. PICK N \in Nat : Latest("a") = N + 1
      <3>1. Latest("a") \in Nat \ {0}
        BY Typed DEF Locations
      <3> QED
        BY <3>1
    <2>4. /\ Latest("a")' = N + 2
          /\ Value("a", N + 2)' = Value("a", N + 1) + Amount[t]
          /\ \A n \in 1..(N + 1) : Value("a", n)' = Value("a", n)
      <3> HIDE DEF m, M
      <3>1. Len(mem["a"]) = N + 1 /\ m.val = Value("a", N + 1) + Amount[t]
        BY <2>1, <2>3 DEF Latest, m
      <3>2. /\ Len(mem'["a"]) = N + 1 + 1 /\ mem'["a"][N + 1 + 1] = m
            /\ \A n \in 1..(N + 1) : mem'["a"][n] = mem["a"][n]
        BY <2>2, <3>1, Extend
      <3>3. N + 1 + 1 = N + 2
        OBVIOUS
      <3> QED
        BY <3>1, <3>2, <3>3 DEF Latest, Value
    <2>5. PICK turn \in Bijection(1..N, Writers) : EachAdds(turn)
      <3>1. Latest("a") - 1 = N
        BY <2>3
      <3> QED
        BY <3>1 DEF SumInv
    <2>6. PICK next : next = [n \in 1..(N + 1) |-> IF n = N + 1 THEN t ELSE turn[n]]
      OBVIOUS
    <2>7. t \notin Writers /\ Writers' = Writers \cup {t}
      BY <1>0, <2>0 DEF Writers, Past
    <2>8. next \in Bijection(1..(Latest("a")' - 1), Writers')
      <3>1. Latest("a")' - 1 = N + 1
        BY <2>4
      <3> QED
        BY <2>6, <2>7, <3>1, NextTurn
    <2>9. EachAdds(next)'
      <3>1. ASSUME NEW n \in 1..(N + 1)
            PROVE  Value("a", n + 1)' = Value("a", n)' + Amount[next[n]]
        <4>1. CASE n = N + 1
          <5>1. n + 1 = N + 2 /\ next[n] = t
            BY <2>6, <4>1
          <5> QED
            BY <2>4, <4>1, <5>1 DEF Value
        <4>2. CASE n # N + 1
          <5>1. n \in 1..N /\ n \in 1..(N + 1) /\ n + 1 \in 1..(N + 1) /\ next[n] = turn[n]
            BY <2>6, <4>2
          <5>2. DOMAIN turn = 1..N
            BY <2>5 DEF Bijection, Injection
          <5>3. Value("a", n + 1) = Value("a", n) + Amount[turn[n]]
            BY <2>5, <5>1, <5>2 DEF EachAdds
          <5> QED
            BY <2>4, <5>1, <5>3 DEF Value
        <4> QED
          BY <4>1, <4>2
      <3>2. DOMAIN next = 1..(N + 1)
        BY <2>6
      <3> QED
        BY <3>1, <3>2 DEF EachAdds
    <2>10. \A u \in Lockers : pc'[u] # "write"
      BY <1>0, <2>0 DEF LockInv, MutualExclusion, Inside
    <2>11. Value("a", 1)' = 0
      BY <2>4 DEF SumInv, Value
    <2>12. pc'[Main] = "join" /\ printed' = <<>>
      BY <1>0, <1>k, <2>0 DEF SumInv
    <2> QED
      BY <2>8, <2>9, <2>10, <2>11, <2>12 DEF SumInv
  <1>6. ASSUME NEW t \in Lockers, Clear(t) PROVE SumInv'
    <2>1. UNCHANGED mem["a"]
      BY <1>0, <1>6, FlagStored DEF Clear
    <2> QED
      BY <1>0, <1>6, <2>1, SumKept DEF Clear, Past
  <1>7. ASSUME NEW t \in Lockers, Join(t) PROVE SumInv'
    BY <1>7, SumKept DEF Join, Joined
  <1>8. CASE PrintA
    <2>0. pc[Main] = "join" /\ joined = Lockers /\ pc' = [pc EXCEPT ![Main] = "done"]
      BY <1>8 DEF PrintA
    <2>1. PICK k \in Readable(Main, "a") :
             PlainRead(Main, "a", k) /\ printed' = Append(printed, Value("a", k))
      BY <1>8 DEF PrintA
    <2>2. Accessed \subseteq cur[Main] /\ Written("a", 1) \in cur[Main]
      BY <1>0, <2>0 DEF OrderInv, JoinKnows
    <2>3. k = Latest("a")
      BY <1>0, <2>1, <2>2, ReadsLatest
    <2>4. printed' = <<Value("a", Latest("a"))>>
      BY <2>0, <2>1, <2>3 DEF SumInv
    <2>5. UNCHANGED mem
      BY <2>1 DEF PlainRead
    <2>6. \A t \in Lockers : pc'[t] = pc[t]
      BY <1>0, <2>0
    <2>7. Writers' = Writers /\ UNCHANGED reg
      BY <1>8, <2>6 DEF Writers, PrintA
    <2>8. pc'[Main] = "done"
      BY <1>0, <2>0
    <2> QED
      BY <2>4, <2>5, <2>6, <2>7, <2>8 DEF SumInv, EachAdds, Value, Latest
  <1>9. CASE UNCHANGED vars
    BY <1>9, SumKept DEF vars, memory
  <1>10. ASSUME NEW t \in Lockers, SpinOn(t) PROVE SumInv'
    BY <1>9, <1>10 DEF SpinOn
  <1> QED
    BY <1>1, <1>2, <1>3, <1>4, <1>5, <1>6, <1>7, <1>8, <1>9, <1>10
       DEF Next, LockerStep, Critical, MainStep, Terminated

\* No a += n is lost or made twice, for any number of threads and any amounts:
\* main() prints what one addition of each thread makes of 0.
THEOREM NothingLost == Spec => []PrintsSum
  <1>1. IInv /\ SumInv => PrintsSum
    <2> SUFFICES ASSUME OrderInv, SumInv, printed # <<>> PROVE PrintsSum
      BY DEF IInv, PrintsSum
    <2>1. pc[Main] = "done" /\ \A t \in Lockers : pc[t] = "done"
      BY DEF OrderInv, SumInv
    <2>2. Writers = Lockers
      BY <2>1 DEF Writers, Past
    <2> QED
      BY <2>1, <2>2 DEF SumInv, PrintsSum
  <1>2. IInv /\ [Next]_vars => IInv'
    BY TypeStep, LockStep, OrderStep DEF IInv
  <1>3. Init => IInv /\ SumInv
    BY TypeInit, LockInit, OrderInit, SumInit DEF IInv
  <1> QED
    BY <1>1, <1>2, <1>3, SumStep, PTL DEF Spec

------------------------------------------------------------------------------
(* The whole of lock(), a += n and unlock() is one addition.               *)

LEMMA AddsInit == Init => Adds!Init
  <1> SUFFICES ASSUME Init PROVE Adds!Init
    OBVIOUS
  <1>1. mem["a"] = <<[val |-> 0, knows |-> {}]>>
    BY DEF Init, Booted, Locations
  <1>2. Value("a", Latest("a")) = 0
    BY <1>1 DEF Value, Latest
  <1>3. \A t \in Lockers : pc[t] = "exchange"
    BY LockersAssumption DEF Init, Threads
  <1> QED
    BY <1>2, <1>3 DEF Adds!Init, Past, Init

\* A step that does not write a, nor prints.
LEMMA AddsKept ==
    ASSUME UNCHANGED <<mem["a"], printed>>,
           \A t \in Lockers : pc'[t] \in Past <=> pc[t] \in Past
    PROVE  UNCHANGED Adds!avars
  BY DEF Adds!avars, Value, Latest

LEMMA AddsStep == IInv /\ SumInv /\ [Next]_vars => [Adds!Next]_(Adds!avars)
  <1> SUFFICES ASSUME TypeOK, LockInv, OrderInv, SumInv, [Next]_vars
               PROVE  Adds!Next \/ UNCHANGED Adds!avars
    BY DEF IInv
  <1> USE DEF Goto, At
  <1>0. /\ pc \in [Threads -> Places] /\ Lockers \subseteq Threads /\ Main \in Threads
        /\ Main \notin Lockers
    BY LockersAssumption DEF TypeOK, Threads
  <1>1. ASSUME NEW t \in Lockers, Exchange(t) \/ Spin(t) \/ SpinOn(t) \/ Clear(t)
        PROVE  UNCHANGED Adds!avars
    <2>1. UNCHANGED <<mem["a"], printed>>
      BY <1>0, <1>1, FlagExchanged, FlagStored DEF Exchange, Spin, SpinOn, Clear, vars, memory
    <2>2. \A u \in Lockers : pc'[u] \in Past <=> pc[u] \in Past
      BY <1>0, <1>1 DEF Exchange, Spin, SpinOn, Clear, vars, Past
    <2> QED
      BY <2>1, <2>2, AddsKept
  <1>2. ASSUME NEW t \in Lockers, Acquire(t) \/ ReadA(t) \/ Release(t)
        PROVE  UNCHANGED Adds!avars
    <2>1. UNCHANGED <<mem["a"], printed>>
      BY <1>2 DEF Acquire, ReadA, Release, AcquireFence, PlainRead, ReleaseFence
    <2>2. \A u \in Lockers : pc'[u] \in Past <=> pc[u] \in Past
      BY <1>0, <1>2 DEF Acquire, ReadA, Release, Past
    <2> QED
      BY <2>1, <2>2, AddsKept
  <1>3. ASSUME NEW t \in Lockers, WriteA(t) PROVE Adds!Next
    <2> DEFINE left == [u \in Lockers |-> IF pc[u] \in Past THEN 0 ELSE 1]
               m == [val |-> reg[t] + Amount[t], knows |-> {}]
               M == [val : Int, knows : SUBSET Accesses(Locations)]
    <2>1. pc[t] = "write" /\ pc' = [pc EXCEPT ![t] = "release"] /\ UNCHANGED printed
      BY <1>3 DEF WriteA
    <2>2. reg[t] + Amount[t] \in Int /\ reg[t] = Value("a", Latest("a"))
      BY <1>0, <2>1, LockersAssumption DEF TypeOK, SumInv
    <2>3. mem["a"] \in Seq(M) /\ mem'["a"] = Append(mem["a"], m) /\ m \in M
      BY <1>3, <2>2 DEF WriteA, PlainWrite, TypeOK, MemoryTypeOK, Values, Locations
    <2>4. Value("a", Latest("a"))' = Value("a", Latest("a")) + Amount[t]
      <3> HIDE DEF M, m
      <3>1. Len(mem'["a"]) = Len(mem["a"]) + 1 /\ mem'["a"][Len(mem["a"]) + 1] = m
        BY <2>3, Extend
      <3> QED
        BY <2>2, <3>1 DEF Value, Latest, m
    <2>5. left[t] = 1 /\ left' = [left EXCEPT ![t] = @ - 1]
      <3>1. /\ pc[t] \notin Past /\ pc'[t] \in Past
            /\ \A u \in Lockers \ {t} : pc'[u] = pc[u]
        BY <1>0, <2>1 DEF Past
      <3>2. left[t] = 1 /\ left'[t] = 0 /\ \A u \in Lockers \ {t} : left'[u] = left[u]
        BY <3>1
      <3>3. \A u \in Lockers : left'[u] = [left EXCEPT ![t] = @ - 1][u]
        BY <3>2
      <3> QED
        BY <3>2, <3>3
    <2>6. Adds!Add(t)
      BY <2>1, <2>4, <2>5 DEF Adds!Add
    <2> QED
      BY <2>6 DEF Adds!Next
  <1>4. ASSUME NEW t \in Lockers, Join(t) PROVE UNCHANGED Adds!avars
    BY <1>4, AddsKept DEF Join, Joined
  <1>5. CASE PrintA
    <2>1. pc[Main] = "join" /\ joined = Lockers /\ pc' = [pc EXCEPT ![Main] = "done"]
      BY <1>5 DEF PrintA
    <2>2. printed = <<>> /\ printed' = <<Value("a", Latest("a"))'>>
      <3>1. SumInv' /\ pc'[Main] = "done"
        BY <1>0, <2>1, SumStep DEF IInv
      <3> QED
        BY <2>1, <3>1 DEF SumInv, Value, Latest
    <2>3. UNCHANGED mem
      BY <1>5 DEF PrintA, PlainRead
    <2>4. \A t \in Lockers : pc[t] = "done" /\ pc'[t] = pc[t]
      BY <1>0, <2>1 DEF OrderInv, JoinKnows
    <2>5. Adds!Report
      BY <2>2, <2>3, <2>4 DEF Adds!Report, Past, Value, Latest
    <2> QED
      BY <2>5 DEF Adds!Next
  <1>6. CASE UNCHANGED vars
    BY <1>6, AddsKept DEF vars, memory
  <1> QED
    BY <1>1, <1>2, <1>3, <1>4, <1>5, <1>6
       DEF Next, LockerStep, Critical, MainStep, Terminated

\* For any number of threads and any amounts, the program does nothing that a
\* program with indivisible additions could not do: the safety half of
\* ImplementsAdds.
THEOREM ImplementsAddsSafely == Spec => Adds!Safe
  <1>1. IInv /\ [Next]_vars => IInv'
    BY TypeStep, LockStep, OrderStep DEF IInv
  <1>2. Init => IInv /\ SumInv
    BY TypeInit, LockInit, OrderInit, SumInit DEF IInv
  <1> QED
    BY <1>1, <1>2, SumStep, AddsInit, AddsStep, PTL DEF Spec, Adds!Safe

==============================================================================
