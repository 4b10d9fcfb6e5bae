--------------------------- MODULE MemoryOrderProofs ---------------------------
(***************************************************************************)
(* Theorems about MemoryOrder: what the functions of 7.8 and main() of 7.6 *)
(* print, for any number of reading and of counting threads.               *)
(*                                                                         *)
(* The argument is always the same: what was written travels with a value. *)
(* Who has found the value in an atomic knows the writes before it, and    *)
(* who knows the last write of a location reads that one and no other.     *)
(***************************************************************************)
EXTENDS MemoryOrder, FiniteSetTheorems, TLAPS

Written(x, n) == [at |-> x, write |-> TRUE, n |-> n]

Accesses(locations) == [at : locations, write : BOOLEAN, n : Nat]

\* A write of a value of values, as the memory records it.
Writes(values, locations) == [val : values, knows : SUBSET Accesses(locations)]

Written1And2(x) == {Written(x, 1), Written(x, 2)}

------------------------------------------------------------------------------
LEMMA AppendedTo ==
    ASSUME NEW S, NEW s \in Seq(S), NEW n \in S
    PROVE  /\ Append(s, n) \in Seq(S)
           /\ Len(Append(s, n)) = Len(s) + 1
           /\ Append(s, n)[Len(s) + 1] = n
           /\ \A k \in 1..Len(s) : Append(s, n)[k] = s[k]
  OBVIOUS

\* A write at the end of the modification order of x.
LEMMA Appended ==
    ASSUME NEW S, NEW f, NEW x \in DOMAIN f, f[x] \in Seq(S), NEW m \in S,
           NEW g, g = [f EXCEPT ![x] = Append(@, m)]
    PROVE  /\ DOMAIN g = DOMAIN f
           /\ \A y \in DOMAIN f : y # x => g[y] = f[y]
           /\ Len(f[x]) \in Nat
           /\ g[x] \in Seq(S)
           /\ Len(g[x]) = Len(f[x]) + 1
           /\ g[x][Len(f[x]) + 1] = m
           /\ \A n \in 1..Len(f[x]) : g[x][n] = f[x][n]
<1>1. g[x] = Append(f[x], m) /\ Len(f[x]) \in Nat
  OBVIOUS
<1>2. /\ Append(f[x], m) \in Seq(S)
      /\ Len(Append(f[x], m)) = Len(f[x]) + 1
      /\ Append(f[x], m)[Len(f[x]) + 1] = m
      /\ \A n \in 1..Len(f[x]) : Append(f[x], m)[n] = f[x][n]
  BY AppendedTo
<1> QED BY <1>1, <1>2

LEMMA SecondAppended ==
    ASSUME NEW S, NEW m \in S, NEW n \in S
    PROVE  Append(<<m>>, n) = <<m, n>>
<1> DEFINE s == <<m>>
           both == <<m, n>>
           all == Append(s, n)
<1>1. s \in Seq(S) /\ Len(s) = 1 /\ s[1] = m
  OBVIOUS
<1>2. both \in Seq(S) /\ Len(both) = 2 /\ both[1] = m /\ both[2] = n
  OBVIOUS
<1> HIDE DEF s, both
<1>3. /\ all \in Seq(S) /\ Len(all) = Len(s) + 1 /\ all[Len(s) + 1] = n
      /\ \A k \in 1..Len(s) : all[k] = s[k]
  BY <1>1, AppendedTo
<1> HIDE DEF all
<1>4. all \in Seq(S) /\ Len(all) = 2 /\ all[1] = m /\ all[2] = n
  BY <1>1, <1>3
<1>5. all = both
  BY <1>2, <1>4
<1> QED BY <1>5 DEF s, both, all

LEMMA OneElement ==
    ASSUME NEW S, NEW m \in S
    PROVE  <<m>> \in Seq(S) /\ Len(<<m>>) = 1 /\ <<m>>[1] = m
  OBVIOUS

LEMMA UpToThree ==
    ASSUME NEW l \in 1..3
    PROVE  l \in 1..l /\ \A k \in 1..l : k \in 1..3 /\ k \in Nat
  OBVIOUS

LEMMA Nth ==
    ASSUME NEW S, NEW s \in Seq(S), NEW n \in 1..Len(s)
    PROVE  s[n] \in S /\ n \in Nat /\ Len(s) \in Nat
  OBVIOUS

------------------------------------------------------------------------------
(* release_acquire_order().                                                *)

ReleaseAcquire == running = "release_acquire_order"

AcquireThreads == Acquirers \cup {"release", "acqrel"}

FlagAndV == {"flag", "v"}

AcquireTyped ==
    /\ mem \in [FlagAndV -> Seq(Writes(Int, FlagAndV))]
    /\ reads \in [FlagAndV -> Nat]
    /\ cur \in [AcquireThreads -> SUBSET Accesses(FlagAndV)]
    /\ pc \in [AcquireThreads -> {"write", "store", "exchange", "reset", "look", "print", "done"}]
    /\ printed \in [Acquirers -> Seq(Int)]

\* Where the writers are tells how often they have written.
Progress ==
    /\ pc["release"] \in {"write", "store", "done"}
    /\ pc["acqrel"] \in {"exchange", "reset", "done"}
    /\ pc["acqrel"] = "exchange" => local = 1
    /\ Len(mem["v"]) = IF pc["release"] = "write" THEN 1 ELSE 2
    /\ Len(mem["v"]) = 2 => mem["v"][2].val = 42
    /\ Len(mem["flag"]) = IF pc["release"] # "done" THEN 1
                          ELSE IF pc["acqrel"] # "done" THEN 2 ELSE 3
    /\ pc["acqrel"] = "done" => pc["release"] = "done"
    /\ \A n \in 1..Len(mem["flag"]) : mem["flag"][n].val = n - 1

\* Every value of flag but the first one carries the two writes of v.
FlagCarriesV ==
    /\ \A n \in 2..Len(mem["flag"]) : Written1And2("v") \subseteq mem["flag"][n].knows
    /\ pc["release"] # "write" => Written("v", 2) \in cur["release"]
    /\ \A t \in AcquireThreads : Written("v", 1) \in cur[t]

ReaderKnows(t) ==
    /\ pc[t] \in {"look", "print", "done"}
    /\ pc[t] # "look" => pc["release"] = "done"
    /\ pc[t] = "print" => Written("v", 2) \in cur[t]
    /\ printed[t] = IF pc[t] = "done" THEN <<42>> ELSE <<>>

AcquireInv ==
    /\ AcquireTyped
    /\ Progress
    /\ FlagCarriesV
    /\ \A t \in Acquirers : ReaderKnows(t)
    /\ pc["release"] # "done" => reads["v"] = 0
    /\ raced = {}

LEMMA AcquireInit == Acquire!Init => AcquireInv
<1> SUFFICES ASSUME Acquire!Init PROVE AcquireInv
  OBVIOUS
<1> DEFINE first(x) == [val |-> IF x = "flag" THEN 0 ELSE Garbage, knows |-> {}]
           W == Writes(Int, FlagAndV)
<1>1. /\ mem = [x \in FlagAndV |-> <<first(x)>>]
      /\ reads = [x \in FlagAndV |-> 0]
      /\ cur = [t \in AcquireThreads |-> {Written(x, 1) : x \in FlagAndV}]
      /\ raced = {}
  BY DEF Acquire!Init, Acquire!Booted, Acquire!Written, Written, FlagAndV, AcquireThreads,
         Acquire!Threads
<1>2. \A x \in FlagAndV : first(x) \in W
  BY UninitialisedAssumption DEF Writes
<1>3. first("flag").val = 0
  OBVIOUS
<1> HIDE DEF first, W
<1>4. \A x \in FlagAndV : mem[x] \in Seq(W) /\ Len(mem[x]) = 1 /\ mem[x][1] = first(x)
  BY <1>1, <1>2, OneElement
<1>5. mem \in [FlagAndV -> Seq(W)]
  BY <1>1, <1>4
<1>6. \A x \in FlagAndV : Written(x, 1) \in Accesses(FlagAndV)
  BY DEF Written, Accesses
<1>7. /\ cur \in [AcquireThreads -> SUBSET Accesses(FlagAndV)]
      /\ \A t \in AcquireThreads : Written("v", 1) \in cur[t]
  BY <1>1, <1>6 DEF FlagAndV
<1>8. /\ pc \in [AcquireThreads -> {"write", "store", "exchange", "reset", "look", "print", "done"}]
      /\ pc["release"] = "write" /\ pc["acqrel"] = "exchange" /\ local = 1
      /\ \A t \in Acquirers : pc[t] = "look" /\ printed[t] = <<>>
      /\ printed \in [Acquirers -> Seq(Int)]
  BY ThreadsAssumption DEF Acquire!Init, AcquireThreads, Acquire!Threads
<1>9. AcquireTyped
  BY <1>1, <1>5, <1>7, <1>8 DEF AcquireTyped, W
<1> QED BY <1>1, <1>3, <1>4, <1>7, <1>8, <1>9 DEF AcquireInv, Progress, FlagCarriesV, ReaderKnows, FlagAndV

\* What the invariant says of the memory as such.
LEMMA AcquireMemory ==
    ASSUME AcquireInv
    PROVE  /\ DOMAIN mem = FlagAndV /\ DOMAIN cur = AcquireThreads
           /\ mem["v"] \in Seq(Writes(Int, FlagAndV)) /\ Len(mem["v"]) \in 1..2
           /\ mem["flag"] \in Seq(Writes(Int, FlagAndV)) /\ Len(mem["flag"]) \in 1..3
           /\ \A n \in Nat : \A x \in FlagAndV : Written(x, n) \in Accesses(FlagAndV)
<1>1. \A n \in Nat : \A x \in FlagAndV : Written(x, n) \in Accesses(FlagAndV)
  BY DEF Written, Accesses
<1> QED BY <1>1 DEF AcquireInv, AcquireTyped, Progress, FlagAndV

LEMMA FlagWrite ==
    ASSUME AcquireInv, NEW k \in 1..Len(mem["flag"])
    PROVE  /\ k \in 1..3 /\ k \in Nat
           /\ mem["flag"][k].val = k - 1
           /\ mem["flag"][k].knows \subseteq Accesses(FlagAndV)
           /\ Written("flag", k) \in Accesses(FlagAndV)
<1>1. k \in 1..3 /\ k \in Nat
  <2>1. Len(mem["flag"]) \in 1..3
    BY AcquireMemory
  <2> QED BY <2>1, UpToThree
<1>2. mem["flag"][k].val = k - 1
  BY DEF AcquireInv, Progress
<1>3. mem["flag"][k] \in Writes(Int, FlagAndV)
  <2>1. mem["flag"] \in Seq(Writes(Int, FlagAndV))
    BY AcquireMemory
  <2> QED BY <2>1, Nth
<1>4. mem["flag"][k].knows \subseteq Accesses(FlagAndV)
  BY <1>3 DEF Writes
<1>5. Written("flag", k) \in Accesses(FlagAndV)
  BY <1>1, AcquireMemory DEF FlagAndV
<1> QED BY <1>1, <1>2, <1>4, <1>5

LEMMA WriteVKeeps == ASSUME AcquireInv, Acquire!WriteV PROVE AcquireInv'
<1> DEFINE e == Written("v", 2)
           m == [val |-> 42, knows |-> {}]
<1>0. /\ pc["release"] = "write" /\ Len(mem["v"]) = 1 /\ reads["v"] = 0
      /\ "release" \in AcquireThreads /\ "release" \notin Acquirers /\ "v" \in FlagAndV
  BY ThreadsAssumption DEF Acquire!WriteV, AcquireInv, Progress, AcquireThreads, FlagAndV
<1>1. /\ mem' = [mem EXCEPT !["v"] = Append(@, m)]
      /\ cur' = [cur EXCEPT !["release"] = @ \cup {e}]
      /\ pc' = [pc EXCEPT !["release"] = "store"]
      /\ UNCHANGED <<reads, local, printed>>
  BY <1>0 DEF Acquire!WriteV, Acquire!PlainWrite, Acquire!Goto, Acquire!Written, Written, Acquire!Latest
<1>2. raced' = {}
  <2>1. 1..Len(mem["v"]) = {1} /\ 1..reads["v"] = {}
    BY <1>0
  <2>2. Acquire!WritesOf("v") = {Written("v", 1)} /\ Acquire!ReadsOf("v") = {}
    BY <2>1 DEF Acquire!WritesOf, Acquire!ReadsOf, Acquire!Latest, Acquire!Written, Written
  <2>3. Written("v", 1) \in cur["release"] /\ raced = {}
    BY <1>0 DEF AcquireInv, FlagCarriesV
  <2> QED BY <2>2, <2>3 DEF Acquire!WriteV, Acquire!PlainWrite
<1>3. m \in Writes(Int, FlagAndV) /\ e \in Accesses(FlagAndV)
  BY <1>0, AcquireMemory DEF Writes
<1> HIDE DEF e
<1>4. /\ mem'["v"] \in Seq(Writes(Int, FlagAndV)) /\ Len(mem'["v"]) = 2 /\ mem'["v"][2] = m
      /\ DOMAIN mem' = FlagAndV /\ mem'["flag"] = mem["flag"]
  BY SMTT(40), <1>0, <1>1, <1>3, AcquireMemory, Appended DEF FlagAndV
<1>5. AcquireTyped'
  BY <1>0, <1>1, <1>3, <1>4 DEF AcquireInv, AcquireTyped, FlagAndV
<1>6. Progress'
  BY <1>0, <1>1, <1>4 DEF AcquireInv, AcquireTyped, Progress
<1>7. FlagCarriesV'
  BY <1>0, <1>1, <1>4 DEF AcquireInv, AcquireTyped, FlagCarriesV, e
<1>8. \A t \in Acquirers : ReaderKnows(t)'
  BY <1>0, <1>1 DEF AcquireInv, AcquireTyped, ReaderKnows
<1> QED BY <1>0, <1>1, <1>2, <1>5, <1>6, <1>7, <1>8 DEF AcquireInv

\* A write of flag by one of the writers, who then is done.
LEMMA RaiseKeeps ==
    ASSUME AcquireInv, NEW t \in {"release", "acqrel"}, NEW m \in Writes(Int, FlagAndV), NEW seen,
           pc["release"] = "done" <=> t = "acqrel", pc[t] # "done",
           t = "release" => pc[t] # "write",
           mem' = [mem EXCEPT !["flag"] = Append(@, m)],
           cur' = [cur EXCEPT ![t] = seen],
           cur[t] \subseteq seen, seen \subseteq Accesses(FlagAndV),
           pc' = [pc EXCEPT ![t] = "done"],
           m.val = Len(mem["flag"]), Written1And2("v") \subseteq m.knows,
           UNCHANGED <<reads, raced, local, printed>>
    PROVE  AcquireInv'
<1>0. /\ t \in AcquireThreads /\ t \notin Acquirers /\ "release" \in AcquireThreads
      /\ "acqrel" \in AcquireThreads /\ Acquirers \subseteq AcquireThreads
  BY ThreadsAssumption DEF AcquireThreads
<1>1. /\ mem'["flag"] \in Seq(Writes(Int, FlagAndV)) /\ Len(mem'["flag"]) = Len(mem["flag"]) + 1
      /\ mem'["flag"][Len(mem["flag"]) + 1] = m
      /\ \A n \in 1..Len(mem["flag"]) : mem'["flag"][n] = mem["flag"][n]
      /\ DOMAIN mem' = FlagAndV /\ mem'["v"] = mem["v"]
  BY AcquireMemory, Appended DEF FlagAndV
<1>2. AcquireTyped'
  BY <1>0, <1>1 DEF AcquireInv, AcquireTyped, FlagAndV
<1>3. Len(mem["flag"]) = IF t = "release" THEN 1 ELSE 2
  BY DEF AcquireInv, Progress
<1>4. Progress'
  <2>1. \A n \in 1..Len(mem'["flag"]) : mem'["flag"][n].val = n - 1
    <3> TAKE n \in 1..Len(mem'["flag"])
    <3>1. n \in 1..Len(mem["flag"]) \/ n = Len(mem["flag"]) + 1
      BY <1>1, <1>3
    <3> QED BY <1>1, <1>3, <3>1 DEF AcquireInv, Progress
  <2>2. Len(mem'["flag"]) = IF t = "release" THEN 2 ELSE 3
    BY <1>1, <1>3
  <2> QED BY <1>0, <1>1, <2>1, <2>2 DEF AcquireInv, AcquireTyped, Progress
<1>5. FlagCarriesV'
  <2>1. ASSUME NEW n \in 2..Len(mem'["flag"]) PROVE Written1And2("v") \subseteq mem'["flag"][n].knows
    <3>1. n \in 2..Len(mem["flag"]) \/ n = Len(mem["flag"]) + 1
      BY <1>1, <1>3
    <3>2. CASE n \in 2..Len(mem["flag"])
      BY <1>1, <3>2 DEF AcquireInv, FlagCarriesV
    <3> QED BY <1>1, <3>1, <3>2
  <2>2. \A u \in AcquireThreads : cur[u] \subseteq cur'[u]
    BY <1>0 DEF AcquireInv, AcquireTyped
  <2> QED BY <1>0, <2>1, <2>2 DEF AcquireInv, AcquireTyped, FlagCarriesV
<1>6. \A u \in Acquirers : ReaderKnows(u)'
  BY <1>0 DEF AcquireInv, AcquireTyped, ReaderKnows
<1> QED BY <1>0, <1>2, <1>4, <1>5, <1>6 DEF AcquireInv, AcquireTyped

LEMMA PublishKeeps == ASSUME AcquireInv, Acquire!Publish PROVE AcquireInv'
<1> DEFINE e == Written("flag", 2)
           seen == cur["release"] \cup {e}
           m == [val |-> 1, knows |-> seen]
<1>0. /\ pc["release"] = "store" /\ Len(mem["flag"]) = 1
      /\ "release" \in AcquireThreads /\ "flag" \in FlagAndV
  BY DEF Acquire!Publish, Acquire!StoreFlag, AcquireInv, Progress, AcquireThreads, FlagAndV
<1>1. /\ mem' = [mem EXCEPT !["flag"] = Append(@, m)]
      /\ cur' = [cur EXCEPT !["release"] = seen]
      /\ pc' = [pc EXCEPT !["release"] = "done"]
      /\ UNCHANGED <<reads, raced, local, printed>>
  BY <1>0 DEF Acquire!Publish, Acquire!StoreFlag, Acquire!Store, Acquire!Goto, Acquire!Written,
              Written, Acquire!Latest, Acquire!Releases
<1>2. seen \subseteq Accesses(FlagAndV)
  BY <1>0, AcquireMemory DEF AcquireInv, AcquireTyped
<1>3. m \in Writes(Int, FlagAndV) /\ m.val = Len(mem["flag"])
  BY <1>0, <1>2 DEF Writes
<1>4. Written1And2("v") \subseteq cur["release"]
  BY <1>0 DEF AcquireInv, FlagCarriesV, Written1And2
<1>5. Written1And2("v") \subseteq m.knows /\ cur["release"] \subseteq seen
  BY <1>4
<1> HIDE DEF m, seen
<1> QED BY <1>0, <1>1, <1>2, <1>3, <1>5, RaiseKeeps

LEMMA ExchangeKeeps == ASSUME AcquireInv, Acquire!Exchange PROVE AcquireInv'
<1> DEFINE last == mem["flag"][Len(mem["flag"])]
           e == Written("flag", Len(mem["flag"]) + 1)
           before == cur["acqrel"] \cup {Written("flag", Len(mem["flag"]))} \cup last.knows
           seen == before \cup {e}
           m == [val |-> 2, knows |-> (last.knows \cup before) \cup {e}]
<1>0. /\ pc["acqrel"] = "exchange" /\ last.val = 1
      /\ "acqrel" \in AcquireThreads /\ "flag" \in FlagAndV
  BY DEF Acquire!Exchange, Acquire!Swap, Acquire!Value, Acquire!Latest,
         AcquireInv, Progress, AcquireThreads, FlagAndV
<1>1. /\ mem' = [mem EXCEPT !["flag"] = Append(@, m)]
      /\ cur' = [cur EXCEPT !["acqrel"] = seen]
      /\ pc' = [pc EXCEPT !["acqrel"] = "done"]
      /\ UNCHANGED <<reads, raced, local, printed>>
  BY <1>0 DEF Acquire!Exchange, Acquire!Swap, Acquire!Rmw, Acquire!Goto, Acquire!Written, Written,
              Acquire!Latest, Acquire!Releases, Acquire!Acquires, Acquire!Brought
<1>2. Len(mem["flag"]) \in 1..Len(mem["flag"])
  <2>1. Len(mem["flag"]) \in 1..3
    BY AcquireMemory
  <2> QED BY <2>1, UpToThree
<1>3. Len(mem["flag"]) = 2 /\ pc["release"] = "done"
  <2>1. last.val = Len(mem["flag"]) - 1
    BY <1>2, FlagWrite
  <2> QED BY <1>0, <1>2, <2>1, AcquireMemory DEF AcquireInv, Progress
<1>4. last.knows \subseteq Accesses(FlagAndV) /\ Written1And2("v") \subseteq last.knows
  BY <1>2, <1>3, FlagWrite DEF AcquireInv, FlagCarriesV
<1>5. seen \subseteq Accesses(FlagAndV)
  BY <1>0, <1>3, <1>4, AcquireMemory DEF AcquireInv, AcquireTyped
<1>6. /\ m \in Writes(Int, FlagAndV) /\ m.val = Len(mem["flag"])
      /\ Written1And2("v") \subseteq m.knows /\ cur["acqrel"] \subseteq seen
  BY <1>3, <1>4, <1>5 DEF Writes
<1> HIDE DEF m, seen
<1> QED BY <1>0, <1>1, <1>3, <1>5, <1>6, RaiseKeeps

\* A step that only brings a thread new knowledge of what was written before.
LEMMA LearnKeeps ==
    ASSUME AcquireInv, NEW t \in AcquireThreads, NEW seen,
           cur' = [cur EXCEPT ![t] = seen],
           cur[t] \subseteq seen, seen \subseteq Accesses(FlagAndV),
           UNCHANGED <<mem, reads, raced, printed>>,
           pc' \in [AcquireThreads -> {"write", "store", "exchange", "reset", "look", "print", "done"}],
           Progress',
           pc'["release"] = pc["release"],
           \A u \in Acquirers : ReaderKnows(u)'
    PROVE  AcquireInv'
<1>1. AcquireTyped'
  BY DEF AcquireInv, AcquireTyped
<1>2. \A u \in AcquireThreads : cur[u] \subseteq cur'[u]
  BY DEF AcquireInv, AcquireTyped
<1>3. FlagCarriesV'
  BY <1>2 DEF AcquireInv, FlagCarriesV, AcquireThreads
<1> QED BY <1>1, <1>3 DEF AcquireInv

LEMMA ExchangeFailsKeeps == ASSUME AcquireInv, Acquire!ExchangeFails PROVE AcquireInv'
<1>0. pc["acqrel"] = "exchange" /\ "acqrel" \in AcquireThreads /\ "acqrel" \notin Acquirers
  BY ThreadsAssumption DEF Acquire!ExchangeFails, AcquireThreads
<1>1. PICK k \in 1..Len(mem["flag"]) :
         /\ cur' = [cur EXCEPT !["acqrel"] = (@ \cup {Written("flag", k)}) \cup mem["flag"][k].knows]
         /\ UNCHANGED <<mem, reads, raced, printed>>
  BY DEF Acquire!ExchangeFails, Acquire!Load, Acquire!Readable, Acquire!Latest, Acquire!Brought,
         Acquire!Acquires, Acquire!Written, Written
<1>2. pc' = [pc EXCEPT !["acqrel"] = "reset"]
  BY DEF Acquire!ExchangeFails, Acquire!Goto
<1>3. mem["flag"][k].knows \subseteq Accesses(FlagAndV) /\ Written("flag", k) \in Accesses(FlagAndV)
  BY FlagWrite
<1>4. Progress'
  BY <1>0, <1>1, <1>2 DEF AcquireInv, AcquireTyped, Progress
<1>5. \A u \in Acquirers : ReaderKnows(u)'
  BY <1>0, <1>1, <1>2 DEF AcquireInv, AcquireTyped, ReaderKnows, AcquireThreads
<1> DEFINE seen == (cur["acqrel"] \cup {Written("flag", k)}) \cup mem["flag"][k].knows
<1>6. /\ cur' = [cur EXCEPT !["acqrel"] = seen]
      /\ cur["acqrel"] \subseteq seen /\ seen \subseteq Accesses(FlagAndV)
  BY <1>0, <1>1, <1>3 DEF AcquireInv, AcquireTyped
<1>7. /\ pc' \in [AcquireThreads -> {"write", "store", "exchange", "reset", "look", "print", "done"}]
      /\ pc'["release"] = pc["release"]
  BY <1>0, <1>2 DEF AcquireInv, AcquireTyped, AcquireThreads
<1> HIDE DEF seen
<1> QED BY <1>0, <1>1, <1>4, <1>5, <1>6, <1>7, LearnKeeps

LEMMA LookKeeps == ASSUME AcquireInv, NEW t \in Acquirers, Acquire!Look(t) PROVE AcquireInv'
<1>0. /\ pc[t] = "look" /\ t \in AcquireThreads /\ t \notin {"release", "acqrel"}
      /\ Acquirers \subseteq AcquireThreads
  BY ThreadsAssumption DEF Acquire!Look, Acquire!LoadFlag, AcquireThreads
<1>1. PICK k \in 1..Len(mem["flag"]) :
         /\ cur' = [cur EXCEPT ![t] = (@ \cup {Written("flag", k)}) \cup mem["flag"][k].knows]
         /\ pc' = [pc EXCEPT ![t] = IF mem["flag"][k].val < 2 THEN "look" ELSE "print"]
         /\ UNCHANGED <<mem, reads, raced, printed, local>>
  BY DEF Acquire!Look, Acquire!LoadFlag, Acquire!Load, Acquire!Readable, Acquire!Latest,
         Acquire!Brought, Acquire!Acquires, Acquire!Written, Written, Acquire!Goto, Acquire!Value
<1> DEFINE seen == (cur[t] \cup {Written("flag", k)}) \cup mem["flag"][k].knows
<1>2. mem["flag"][k].knows \subseteq Accesses(FlagAndV) /\ Written("flag", k) \in Accesses(FlagAndV)
  BY FlagWrite
<1>3. Progress'
  BY <1>0, <1>1 DEF AcquireInv, AcquireTyped, Progress, AcquireThreads
<1>4. k \in 1..3 /\ mem["flag"][k].val = k - 1
  BY FlagWrite
<1>5. k = 3 => pc["release"] = "done" /\ Written("v", 2) \in mem["flag"][k].knows
  BY <1>1, AcquireMemory DEF AcquireInv, Progress, FlagCarriesV, Written1And2
<1>6. ReaderKnows(t)'
  BY <1>0, <1>1, <1>4, <1>5 DEF AcquireInv, AcquireTyped, ReaderKnows, AcquireThreads
<1>7. \A u \in Acquirers : ReaderKnows(u)'
  <2> TAKE u \in Acquirers
  <2>1. CASE u # t
    BY <1>0, <1>1, <2>1 DEF AcquireInv, AcquireTyped, ReaderKnows, AcquireThreads
  <2> QED BY <1>6, <2>1
<1>8. /\ cur' = [cur EXCEPT ![t] = seen]
      /\ cur[t] \subseteq seen /\ seen \subseteq Accesses(FlagAndV)
  BY <1>0, <1>1, <1>2 DEF AcquireInv, AcquireTyped
<1>9. /\ pc' \in [AcquireThreads -> {"write", "store", "exchange", "reset", "look", "print", "done"}]
      /\ pc'["release"] = pc["release"]
  BY <1>0, <1>1 DEF AcquireInv, AcquireTyped, AcquireThreads
<1> HIDE DEF seen
<1> QED BY <1>0, <1>1, <1>3, <1>7, <1>8, <1>9, LearnKeeps

LEMMA PrintVKeeps == ASSUME AcquireInv, NEW t \in Acquirers, Acquire!PrintV(t) PROVE AcquireInv'
<1>0. /\ pc[t] = "print" /\ t \in AcquireThreads /\ t \notin {"release", "acqrel"}
      /\ Acquirers \subseteq AcquireThreads /\ "v" \in FlagAndV
  BY ThreadsAssumption DEF Acquire!PrintV, AcquireThreads, FlagAndV
<1> DEFINE e == [at |-> "v", write |-> FALSE, n |-> reads["v"] + 1]
<1>1. PICK k \in Acquire!Readable(t, "v") :
         /\ Acquire!PlainRead(t, "v", k)
         /\ printed' = [printed EXCEPT ![t] = Append(@, mem["v"][k].val)]
  BY DEF Acquire!PrintV, Acquire!Value
<1>2. /\ pc["release"] = "done" /\ Len(mem["v"]) = 2 /\ mem["v"][2].val = 42
      /\ Written("v", 2) \in cur[t] /\ Written("v", 1) \in cur[t] /\ printed[t] = <<>>
  BY <1>0 DEF AcquireInv, ReaderKnows, Progress, FlagCarriesV
<1>3. k = 2
  BY <1>1, <1>2 DEF Acquire!Readable, Acquire!Latest, Acquire!Written, Written
<1>4. /\ UNCHANGED <<mem, raced, local>>
      /\ cur' = [cur EXCEPT ![t] = @ \cup {e}]
      /\ reads' = [reads EXCEPT !["v"] = @ + 1]
      /\ pc' = [pc EXCEPT ![t] = "done"]
  <2>1. 1..Len(mem["v"]) = {1, 2}
    BY <1>2
  <2>2. Acquire!WritesOf("v") \subseteq cur[t]
    BY <1>2, <2>1 DEF Acquire!WritesOf, Acquire!Latest, Acquire!Written, Written
  <2> QED BY <1>1, <2>2 DEF Acquire!PlainRead, Acquire!PrintV, Acquire!Goto, Acquire!ReadOf
<1>5. printed' = [printed EXCEPT ![t] = <<42>>]
  <2>1. Append(<<>>, 42) = <<42>>
    OBVIOUS
  <2> QED BY <1>0, <1>1, <1>2, <1>3, <2>1 DEF AcquireInv, AcquireTyped
<1>6. e \in Accesses(FlagAndV)
  BY <1>0 DEF Accesses, AcquireInv, AcquireTyped
<1> HIDE DEF e
<1>7. AcquireTyped'
  BY <1>0, <1>4, <1>5, <1>6 DEF AcquireInv, AcquireTyped
<1>8. Progress'
  BY <1>0, <1>4 DEF AcquireInv, AcquireTyped, Progress, AcquireThreads
<1>9. FlagCarriesV'
  BY <1>0, <1>4 DEF AcquireInv, AcquireTyped, FlagCarriesV, AcquireThreads
<1>10. \A u \in Acquirers : ReaderKnows(u)'
  BY <1>0, <1>2, <1>4, <1>5 DEF AcquireInv, AcquireTyped, ReaderKnows, AcquireThreads
<1> QED BY <1>0, <1>2, <1>4, <1>7, <1>8, <1>9, <1>10 DEF AcquireInv

LEMMA AcquireNext == AcquireInv /\ Acquire!Next => AcquireInv'
<1> SUFFICES ASSUME AcquireInv, Acquire!Next PROVE AcquireInv'
  OBVIOUS
<1>1. CASE Acquire!Reset
  BY <1>1, ThreadsAssumption
  DEF Acquire!Reset, Acquire!Retry, Acquire!Goto, Acquire!memory, AcquireInv, AcquireTyped, Progress,
      FlagCarriesV, ReaderKnows, AcquireThreads
<1>2. CASE Acquire!Return
  BY <1>2
  DEF Acquire!Return, Acquire!memory, AcquireInv, AcquireTyped, Progress, FlagCarriesV, ReaderKnows
<1> QED
  BY <1>1, <1>2, WriteVKeeps, PublishKeeps, ExchangeKeeps, ExchangeFailsKeeps, LookKeeps, PrintVKeeps
  DEF Acquire!Next, Acquire!Releaser, Acquire!AcqRel, Acquire!Acquirer

------------------------------------------------------------------------------
(* release_consume_order(), with ptr initialised as the book has it.       *)

InPromoted == running = "release_consume_order_promoted"

ConsumeThreads == Consumers \cup {"producer"}

Places == {"new", "write", "store", "look", "print_p", "print_v", "done"}

Cells == {"ptr", "object", "dangling", "v"}

Val(x) == IF x = "ptr" THEN {"null", "object"} ELSE Int

ConsumeTyped ==
    /\ DOMAIN mem = Cells
    /\ \A x \in Cells : mem[x] \in Seq(Writes(Val(x), Cells))
    /\ reads \in [Cells -> Nat]
    /\ cur \in [ConsumeThreads -> SUBSET Accesses(Cells)]
    /\ pc \in [ConsumeThreads -> Places]
    /\ local \in [Consumers -> {"null", "object"}]
    /\ printed \in [Consumers -> Seq(Int)]

\* Where the producer is tells what it has written.
ProducerAt ==
    /\ pc["producer"] \in {"new", "write", "store", "done"}
    /\ Len(mem["object"]) = IF pc["producer"] = "new" THEN 1 ELSE 2
    /\ Len(mem["v"]) = IF pc["producer"] \in {"new", "write"} THEN 1 ELSE 2
    /\ Len(mem["ptr"]) = IF pc["producer"] # "done" THEN 1 ELSE 2
    /\ Len(mem["object"]) = 2 => mem["object"][2].val = 42
    /\ Len(mem["v"]) = 2 => mem["v"][2].val = 1024
    /\ mem["ptr"][1].val = "null"
    /\ Len(mem["ptr"]) = 2 => mem["ptr"][2].val = "object"

\* The address carries both writes of the int, and those of v.
AddressCarries ==
    /\ Len(mem["ptr"]) = 2 =>
          Written1And2("object") \cup Written1And2("v") \subseteq mem["ptr"][2].knows
    /\ pc["producer"] # "new" => Written("object", 2) \in cur["producer"]
    /\ pc["producer"] \notin {"new", "write"} => Written("v", 2) \in cur["producer"]
    /\ \A t \in ConsumeThreads : {Written("object", 1), Written("v", 1)} \subseteq cur[t]

\* Who has the address knows the int, and v if consume is promoted.
ConsumerKnows(t) ==
    /\ pc[t] \in {"look", "print_p", "print_v", "done"}
    /\ pc[t] # "look" => pc["producer"] = "done"
    /\ pc[t] = "print_p" => local[t] = "object" /\ Written("object", 2) \in cur[t]
    /\ InPromoted /\ pc[t] \in {"print_p", "print_v"} => Written("v", 2) \in cur[t]

ConsumerPrinted(t) ==
    /\ pc[t] = "look" \/ pc[t] = "print_p" => printed[t] = <<>>
    /\ pc[t] = "print_v" => printed[t] = <<42>>
    /\ pc[t] = "done" => \E n \in Int : printed[t] = <<42, n>> /\ (InPromoted => n = 1024)

NoRace ==
    /\ pc["producer"] # "done" => reads["object"] = 0 /\ reads["v"] = 0
    /\ "object" \notin raced
    /\ InPromoted => "v" \notin raced

ConsumeInv ==
    /\ ConsumeTyped
    /\ ProducerAt
    /\ AddressCarries
    /\ \A t \in Consumers : ConsumerKnows(t) /\ ConsumerPrinted(t)
    /\ NoRace

\* The two parts about a consumer, after a step.
KnowsAfter(t) == ConsumerKnows(t)'

PrintedAfter(t) == ConsumerPrinted(t)'

LEMMA ConsumeInit ==
    ASSUME Uninitialised = {"null"}, Promoted!Init \/ Literal!Init
    PROVE  ConsumeInv
<1> DEFINE first(x) == [val |-> IF x = "ptr" THEN "null" ELSE Garbage, knows |-> {}]
<1>1. /\ mem = [x \in Cells |-> <<first(x)>>]
      /\ reads = [x \in Cells |-> 0]
      /\ cur = [t \in ConsumeThreads |-> {Written(x, 1) : x \in Cells}]
      /\ raced = {}
      /\ pc = [t \in ConsumeThreads |-> IF t = "producer" THEN "new" ELSE "look"]
      /\ local = [t \in Consumers |-> "null"]
      /\ printed = [t \in Consumers |-> <<>>]
  BY DEF Promoted!Init, Promoted!Booted, Promoted!Written, Written, Cells, ConsumeThreads,
         Promoted!Threads, Promoted!Locations,
         Literal!Init, Literal!Booted, Literal!Written, Literal!Threads, Literal!Locations
<1>2. \A x \in Cells : first(x) \in Writes(Val(x), Cells)
  BY UninitialisedAssumption DEF Writes, Val
<1>3. first("ptr").val = "null"
  OBVIOUS
<1> HIDE DEF first
<1>4. \A x \in Cells : /\ mem[x] \in Seq(Writes(Val(x), Cells))
                        /\ Len(mem[x]) = 1 /\ mem[x][1] = first(x)
  BY <1>1, <1>2, OneElement
<1>6. \A x \in Cells : Written(x, 1) \in Accesses(Cells)
  BY DEF Written, Accesses
<1>7. /\ cur \in [ConsumeThreads -> SUBSET Accesses(Cells)]
      /\ \A t \in ConsumeThreads : {Written("object", 1), Written("v", 1)} \subseteq cur[t]
  BY <1>1, <1>6 DEF Cells
<1>8. /\ pc \in [ConsumeThreads -> Places] /\ pc["producer"] = "new"
      /\ \A t \in Consumers : pc[t] = "look" /\ printed[t] = <<>>
      /\ local \in [Consumers -> {"null", "object"}] /\ printed \in [Consumers -> Seq(Int)]
  BY <1>1, ThreadsAssumption DEF ConsumeThreads, Places
<1>9. ConsumeTyped
  BY <1>1, <1>4, <1>7, <1>8 DEF ConsumeTyped
<1>10. \A t \in Consumers : ConsumerKnows(t) /\ ConsumerPrinted(t)
  <2> TAKE t \in Consumers
  <2>1. pc[t] = "look" /\ printed[t] = <<>>
    BY <1>8
  <2> QED BY <2>1 DEF ConsumerKnows, ConsumerPrinted
<1>11. ProducerAt /\ AddressCarries /\ NoRace
  BY <1>1, <1>3, <1>4, <1>7, <1>8 DEF ProducerAt, AddressCarries, NoRace, Cells
<1> QED BY <1>9, <1>10, <1>11 DEF ConsumeInv

LEMMA ConsumeMemory ==
    ASSUME ConsumeInv
    PROVE  /\ DOMAIN cur = ConsumeThreads
           /\ \A x \in {"ptr", "object", "v"} :
                 /\ mem[x] \in Seq(Writes(Val(x), Cells)) /\ Len(mem[x]) \in 1..3
                 /\ x \in Cells
           /\ "producer" \in ConsumeThreads /\ "producer" \notin Consumers
           /\ Consumers \subseteq ConsumeThreads
           /\ \A n \in Nat : \A x \in Cells : Written(x, n) \in Accesses(Cells)
<1>1. \A n \in Nat : \A x \in Cells : Written(x, n) \in Accesses(Cells)
  BY DEF Written, Accesses
<1>2. Len(mem["ptr"]) \in 1..3 /\ Len(mem["object"]) \in 1..3 /\ Len(mem["v"]) \in 1..3
  <2>1. \A n : n \in {1, 2} => n \in 1..3
    OBVIOUS
  <2>2. Len(mem["ptr"]) \in {1, 2} /\ Len(mem["object"]) \in {1, 2} /\ Len(mem["v"]) \in {1, 2}
    BY DEF ConsumeInv, ProducerAt
  <2> QED BY <2>1, <2>2
<1>3. \A x \in {"ptr", "object", "v"} : x \in Cells /\ mem[x] \in Seq(Writes(Val(x), Cells))
  BY DEF ConsumeInv, ConsumeTyped, Cells
<1>4. \A x \in {"ptr", "object", "v"} : Len(mem[x]) \in 1..3
  BY <1>2
<1> QED BY <1>1, <1>3, <1>4, ThreadsAssumption DEF ConsumeInv, ConsumeTyped, ConsumeThreads

LEMMA AddressWrite ==
    ASSUME ConsumeInv, NEW k \in 1..Len(mem["ptr"])
    PROVE  /\ k \in 1..3 /\ k \in Nat
           /\ k = 1 \/ (k = 2 /\ Len(mem["ptr"]) = 2)
           /\ mem["ptr"][k].knows \subseteq Accesses(Cells)
           /\ Written("ptr", k) \in Accesses(Cells)
<1>1. Len(mem["ptr"]) \in 1..3
  BY ConsumeMemory
<1>2. k \in 1..3 /\ k \in Nat
  BY <1>1, UpToThree
<1>3. k = 1 \/ (k = 2 /\ Len(mem["ptr"]) = 2)
  <2>1. Len(mem["ptr"]) = 1 \/ Len(mem["ptr"]) = 2
    BY DEF ConsumeInv, ProducerAt
  <2>2. CASE Len(mem["ptr"]) = 1
    BY <2>2
  <2>3. CASE Len(mem["ptr"]) = 2
    BY <2>3
  <2> QED BY <2>1, <2>2, <2>3
<1>4. mem["ptr"] \in Seq(Writes(Val("ptr"), Cells))
  BY ConsumeMemory
<1>5. mem["ptr"][k] \in Writes(Val("ptr"), Cells)
  BY <1>4, Nth
<1>6. mem["ptr"][k].knows \subseteq Accesses(Cells)
  BY <1>5 DEF Writes
<1>7. Written("ptr", k) \in Accesses(Cells)
  BY <1>2, ConsumeMemory
<1> QED BY <1>2, <1>3, <1>6, <1>7

\* What any step of the producer leaves right: it writes x and knows more.
LEMMA ProducerWrites ==
    ASSUME ConsumeInv, UNCHANGED running, pc["producer"] # "done",
           NEW x \in {"ptr", "object", "v"}, NEW m \in Writes(Val(x), Cells), NEW seen,
           NEW next \in Places,
           mem' = [mem EXCEPT ![x] = Append(@, m)],
           cur' = [cur EXCEPT !["producer"] = seen],
           cur["producer"] \subseteq seen, seen \subseteq Accesses(Cells),
           pc' = [pc EXCEPT !["producer"] = next],
           UNCHANGED <<reads, local, printed>>
    PROVE  /\ ConsumeTyped'
           /\ \A t \in Consumers : KnowsAfter(t) /\ PrintedAfter(t)
           /\ Len(mem'[x]) = Len(mem[x]) + 1
           /\ mem'[x][Len(mem[x]) + 1] = m
           /\ \A n \in 1..Len(mem[x]) : mem'[x][n] = mem[x][n]
           /\ \A y \in Cells : y # x => mem'[y] = mem[y]
           /\ \A t \in ConsumeThreads : cur[t] \subseteq cur'[t]
           /\ pc'["producer"] = next
           /\ cur'["producer"] = seen
<1>0. /\ x \in Cells /\ DOMAIN mem = Cells /\ "producer" \in ConsumeThreads
      /\ "producer" \notin Consumers /\ Consumers \subseteq ConsumeThreads
      /\ mem[x] \in Seq(Writes(Val(x), Cells))
  BY ConsumeMemory DEF ConsumeInv, ConsumeTyped
<1>1. /\ mem'[x] \in Seq(Writes(Val(x), Cells)) /\ Len(mem'[x]) = Len(mem[x]) + 1
      /\ mem'[x][Len(mem[x]) + 1] = m
      /\ \A n \in 1..Len(mem[x]) : mem'[x][n] = mem[x][n]
      /\ DOMAIN mem' = Cells /\ \A y \in Cells : y # x => mem'[y] = mem[y]
  BY <1>0, Appended
<1>2. \A y \in Cells : mem'[y] \in Seq(Writes(Val(y), Cells))
  <2> TAKE y \in Cells
  <2>1. CASE y = x
    BY <1>1, <2>1
  <2>2. CASE y # x
    BY <1>1, <2>2 DEF ConsumeInv, ConsumeTyped
  <2> QED BY <2>1, <2>2
<1>3. /\ cur' \in [ConsumeThreads -> SUBSET Accesses(Cells)]
      /\ \A t \in ConsumeThreads : cur[t] \subseteq cur'[t]
      /\ cur'["producer"] = seen /\ pc'["producer"] = next
      /\ pc' \in [ConsumeThreads -> Places]
      /\ \A t \in Consumers : pc'[t] = pc[t]
  BY <1>0 DEF ConsumeInv, ConsumeTyped
<1>4. ConsumeTyped'
  BY <1>1, <1>2, <1>3 DEF ConsumeInv, ConsumeTyped
<1>5. \A t \in Consumers : KnowsAfter(t) /\ PrintedAfter(t)
  <2> TAKE t \in Consumers
  <2>1. pc[t] = "look" /\ pc'[t] = "look" /\ printed'[t] = printed[t] /\ ConsumerPrinted(t)
    BY <1>3 DEF ConsumeInv, ConsumerKnows
  <2>2. KnowsAfter(t)
    BY <2>1 DEF ConsumerKnows, KnowsAfter
  <2>3. PrintedAfter(t)
    BY <2>1 DEF ConsumerPrinted, PrintedAfter, InPromoted
  <2> QED BY <2>2, <2>3
<1> QED BY <1>1, <1>3, <1>4, <1>5

LEMMA NewKeeps == ASSUME ConsumeInv, UNCHANGED running, Promoted!New PROVE ConsumeInv'
<1> DEFINE e == Written("object", 2)
           m == [val |-> 42, knows |-> {}]
           seen == cur["producer"] \cup {e}
<1>0. /\ pc["producer"] = "new" /\ Len(mem["object"]) = 1 /\ reads["object"] = 0
      /\ Written("object", 1) \in cur["producer"]
      /\ "producer" \in ConsumeThreads
  BY ConsumeMemory DEF Promoted!New, ConsumeInv, ProducerAt, NoRace, AddressCarries
<1>1. /\ mem' = [mem EXCEPT !["object"] = Append(@, m)]
      /\ cur' = [cur EXCEPT !["producer"] = seen]
      /\ pc' = [pc EXCEPT !["producer"] = "write"]
      /\ UNCHANGED <<reads, local, printed>>
  BY <1>0 DEF Promoted!New, Promoted!PlainWrite, Promoted!Goto, Promoted!Written, Written,
              Promoted!Latest
<1>2. raced' = raced
  <2>1. 1..Len(mem["object"]) = {1} /\ 1..reads["object"] = {}
    BY <1>0
  <2>2. /\ Promoted!WritesOf("object") = {Written("object", 1)}
        /\ Promoted!ReadsOf("object") = {}
    BY <2>1 DEF Promoted!WritesOf, Promoted!ReadsOf, Promoted!Latest, Promoted!Written, Written
  <2> QED BY <1>0, <2>2 DEF Promoted!New, Promoted!PlainWrite
<1>3. /\ m \in Writes(Val("object"), Cells)
      /\ cur["producer"] \subseteq seen /\ seen \subseteq Accesses(Cells)
  <2>1. e \in Accesses(Cells)
    BY DEF Written, Accesses, Cells
  <2> QED BY <1>0, <2>1 DEF Writes, Val, ConsumeInv, ConsumeTyped
<1>4. e \in seen
  OBVIOUS
<1>5. m.val = 42
  OBVIOUS
<1> HIDE DEF m, seen
<1>6. /\ ConsumeTyped'
      /\ \A t \in Consumers : KnowsAfter(t) /\ PrintedAfter(t)
      /\ Len(mem'["object"]) = 2 /\ mem'["object"][2] = m
      /\ mem'["ptr"] = mem["ptr"] /\ mem'["v"] = mem["v"]
      /\ \A t \in ConsumeThreads : cur[t] \subseteq cur'[t]
      /\ pc'["producer"] = "write" /\ e \in cur'["producer"]
  <2>1. "write" \in Places /\ pc["producer"] # "done" /\ "object" \in {"ptr", "object", "v"}
    BY <1>0 DEF Places
  <2>2. /\ ConsumeTyped'
        /\ \A t \in Consumers : KnowsAfter(t) /\ PrintedAfter(t)
        /\ Len(mem'["object"]) = Len(mem["object"]) + 1
        /\ mem'["object"][Len(mem["object"]) + 1] = m
        /\ \A n \in 1..Len(mem["object"]) : mem'["object"][n] = mem["object"][n]
        /\ \A y \in Cells : y # "object" => mem'[y] = mem[y]
        /\ \A t \in ConsumeThreads : cur[t] \subseteq cur'[t]
        /\ pc'["producer"] = "write"
        /\ cur'["producer"] = seen
    BY <1>1, <1>3, <2>1, ProducerWrites
  <2> QED BY <1>0, <1>4, <2>2 DEF Cells
<1>7. ProducerAt'
  BY <1>0, <1>5, <1>6 DEF ConsumeInv, ProducerAt
<1>8. AddressCarries'
  BY <1>0, <1>6 DEF ConsumeInv, ProducerAt, AddressCarries
<1>9. NoRace'
  BY <1>0, <1>1, <1>2, <1>6 DEF ConsumeInv, NoRace, InPromoted
<1> QED BY <1>6, <1>7, <1>8, <1>9 DEF ConsumeInv, KnowsAfter, PrintedAfter

LEMMA ConsumeWriteVKeeps ==
    ASSUME ConsumeInv, UNCHANGED running, Promoted!WriteV PROVE ConsumeInv'
<1> DEFINE e == Written("v", 2)
           m == [val |-> 1024, knows |-> {}]
           seen == cur["producer"] \cup {e}
<1>0. /\ pc["producer"] = "write" /\ Len(mem["v"]) = 1 /\ reads["v"] = 0
      /\ Written("v", 1) \in cur["producer"]
      /\ "producer" \in ConsumeThreads
  BY ConsumeMemory DEF Promoted!WriteV, ConsumeInv, ProducerAt, NoRace, AddressCarries
<1>1. /\ mem' = [mem EXCEPT !["v"] = Append(@, m)]
      /\ cur' = [cur EXCEPT !["producer"] = seen]
      /\ pc' = [pc EXCEPT !["producer"] = "store"]
      /\ UNCHANGED <<reads, local, printed>>
  BY <1>0 DEF Promoted!WriteV, Promoted!PlainWrite, Promoted!Goto, Promoted!Written, Written,
              Promoted!Latest
<1>2. raced' = raced
  <2>1. 1..Len(mem["v"]) = {1} /\ 1..reads["v"] = {}
    BY <1>0
  <2>2. Promoted!WritesOf("v") = {Written("v", 1)} /\ Promoted!ReadsOf("v") = {}
    BY <2>1 DEF Promoted!WritesOf, Promoted!ReadsOf, Promoted!Latest, Promoted!Written, Written
  <2> QED BY <1>0, <2>2 DEF Promoted!WriteV, Promoted!PlainWrite
<1>3. /\ m \in Writes(Val("v"), Cells)
      /\ cur["producer"] \subseteq seen /\ seen \subseteq Accesses(Cells)
  <2>1. e \in Accesses(Cells)
    BY DEF Written, Accesses, Cells
  <2> QED BY <1>0, <2>1 DEF Writes, Val, ConsumeInv, ConsumeTyped
<1>4. e \in seen
  OBVIOUS
<1>5. m.val = 1024
  OBVIOUS
<1> HIDE DEF m, seen
<1>6. /\ ConsumeTyped'
      /\ \A t \in Consumers : KnowsAfter(t) /\ PrintedAfter(t)
      /\ Len(mem'["v"]) = 2 /\ mem'["v"][2] = m
      /\ mem'["ptr"] = mem["ptr"] /\ mem'["object"] = mem["object"]
      /\ \A t \in ConsumeThreads : cur[t] \subseteq cur'[t]
      /\ pc'["producer"] = "store" /\ e \in cur'["producer"]
  <2>1. "store" \in Places /\ pc["producer"] # "done" /\ "v" \in {"ptr", "object", "v"}
    BY <1>0 DEF Places
  <2>2. /\ ConsumeTyped'
        /\ \A t \in Consumers : KnowsAfter(t) /\ PrintedAfter(t)
        /\ Len(mem'["v"]) = Len(mem["v"]) + 1
        /\ mem'["v"][Len(mem["v"]) + 1] = m
        /\ \A n \in 1..Len(mem["v"]) : mem'["v"][n] = mem["v"][n]
        /\ \A y \in Cells : y # "v" => mem'[y] = mem[y]
        /\ \A t \in ConsumeThreads : cur[t] \subseteq cur'[t]
        /\ pc'["producer"] = "store"
        /\ cur'["producer"] = seen
    BY <1>1, <1>3, <2>1, ProducerWrites
  <2> QED BY <1>0, <1>4, <2>2 DEF Cells
<1>7. ProducerAt'
  BY <1>0, <1>5, <1>6 DEF ConsumeInv, ProducerAt
<1>8. AddressCarries'
  BY <1>0, <1>6 DEF ConsumeInv, ProducerAt, AddressCarries
<1>9. NoRace'
  BY <1>0, <1>1, <1>2, <1>6 DEF ConsumeInv, NoRace, InPromoted
<1> QED BY <1>6, <1>7, <1>8, <1>9 DEF ConsumeInv, KnowsAfter, PrintedAfter

LEMMA ConsumePublishKeeps ==
    ASSUME ConsumeInv, UNCHANGED running, Promoted!Publish PROVE ConsumeInv'
<1> DEFINE e == Written("ptr", 2)
           seen == cur["producer"] \cup {e}
           m == [val |-> "object", knows |-> seen]
<1>0. /\ pc["producer"] = "store" /\ Len(mem["ptr"]) = 1 /\ "producer" \in ConsumeThreads
      /\ Written1And2("object") \cup Written1And2("v") \subseteq cur["producer"]
  BY ConsumeMemory DEF Promoted!Publish, Promoted!StorePtr, ConsumeInv, ProducerAt, AddressCarries,
                       Written1And2
<1>1. /\ mem' = [mem EXCEPT !["ptr"] = Append(@, m)]
      /\ cur' = [cur EXCEPT !["producer"] = seen]
      /\ pc' = [pc EXCEPT !["producer"] = "done"]
      /\ UNCHANGED <<reads, local, printed, raced>>
  BY <1>0 DEF Promoted!Publish, Promoted!StorePtr, Promoted!Store, Promoted!Goto, Promoted!Written,
              Written, Promoted!Latest, Promoted!Releases
<1>2. cur["producer"] \subseteq seen /\ seen \subseteq Accesses(Cells)
  <2>1. e \in Accesses(Cells)
    BY DEF Written, Accesses, Cells
  <2> QED BY <1>0, <2>1 DEF ConsumeInv, ConsumeTyped
<1>3. /\ m \in Writes(Val("ptr"), Cells) /\ m.val = "object"
      /\ Written1And2("object") \cup Written1And2("v") \subseteq m.knows
  BY <1>0, <1>2 DEF Writes, Val
<1> HIDE DEF m, seen
<1>4. /\ ConsumeTyped'
      /\ \A t \in Consumers : KnowsAfter(t) /\ PrintedAfter(t)
      /\ Len(mem'["ptr"]) = 2 /\ mem'["ptr"][2] = m /\ mem'["ptr"][1] = mem["ptr"][1]
      /\ mem'["object"] = mem["object"] /\ mem'["v"] = mem["v"]
      /\ \A t \in ConsumeThreads : cur[t] \subseteq cur'[t]
      /\ pc'["producer"] = "done"
  <2>1. "done" \in Places /\ pc["producer"] # "done" /\ "ptr" \in {"ptr", "object", "v"}
    BY <1>0 DEF Places
  <2>2. /\ ConsumeTyped'
        /\ \A t \in Consumers : KnowsAfter(t) /\ PrintedAfter(t)
        /\ Len(mem'["ptr"]) = Len(mem["ptr"]) + 1
        /\ mem'["ptr"][Len(mem["ptr"]) + 1] = m
        /\ \A n \in 1..Len(mem["ptr"]) : mem'["ptr"][n] = mem["ptr"][n]
        /\ \A y \in Cells : y # "ptr" => mem'[y] = mem[y]
        /\ \A t \in ConsumeThreads : cur[t] \subseteq cur'[t]
        /\ pc'["producer"] = "done"
        /\ cur'["producer"] = seen
    BY <1>1, <1>2, <1>3, <2>1, ProducerWrites
  <2> QED BY <1>0, <1>3, <2>2 DEF Cells
<1>5. ProducerAt'
  BY <1>0, <1>3, <1>4 DEF ConsumeInv, ProducerAt
<1>6. AddressCarries'
  BY <1>0, <1>3, <1>4 DEF ConsumeInv, AddressCarries
<1>7. NoRace'
  BY <1>1, <1>4 DEF ConsumeInv, NoRace, InPromoted
<1> QED BY <1>4, <1>5, <1>6, <1>7 DEF ConsumeInv, KnowsAfter, PrintedAfter

\* What a consumer knows and has printed stays right while others take steps.
LEMMA ConsumerStays ==
    ASSUME NEW t \in Consumers, ConsumerKnows(t), ConsumerPrinted(t),
           UNCHANGED running,
           pc["producer"] = "done" => pc'["producer"] = "done",
           pc'[t] = pc[t] /\ cur'[t] = cur[t] /\ local'[t] = local[t] /\ printed'[t] = printed[t]
    PROVE  KnowsAfter(t) /\ PrintedAfter(t)
<1>1. KnowsAfter(t)
  BY DEF ConsumerKnows, KnowsAfter, InPromoted
<1>2. InPromoted' <=> InPromoted
  BY DEF InPromoted
<1>3. (pc[t] = "look" \/ pc[t] = "print_p" => printed[t] = <<>>)'
  BY DEF ConsumerPrinted, PrintedAfter
<1>4. (pc[t] = "print_v" => printed[t] = <<42>>)'
  BY DEF ConsumerPrinted, PrintedAfter
<1>5. (pc[t] = "done" => \E n \in Int : printed[t] = <<42, n>> /\ (InPromoted => n = 1024))'
  BY <1>2 DEF ConsumerPrinted, PrintedAfter
<1>6. PrintedAfter(t)
  BY <1>3, <1>4, <1>5 DEF ConsumerPrinted, PrintedAfter
<1> QED BY <1>1, <1>6

\* A step of one consumer that writes nothing.
LEMMA ConsumerSteps ==
    ASSUME ConsumeInv, UNCHANGED running, NEW t \in Consumers, NEW seen, NEW next \in Places,
           UNCHANGED mem,
           cur' = [cur EXCEPT ![t] = seen],
           cur[t] \subseteq seen, seen \subseteq Accesses(Cells),
           pc' = [pc EXCEPT ![t] = next],
           reads' \in [Cells -> Nat],
           local' \in [Consumers -> {"null", "object"}],
           printed' \in [Consumers -> Seq(Int)],
           \A u \in Consumers : u # t => local'[u] = local[u] /\ printed'[u] = printed[u],
           KnowsAfter(t), PrintedAfter(t), NoRace'
    PROVE  ConsumeInv'
<1>0. t \in ConsumeThreads /\ t # "producer" /\ Consumers \subseteq ConsumeThreads
  BY ConsumeMemory
<1>1. ConsumeTyped'
  BY <1>0 DEF ConsumeInv, ConsumeTyped
<1>2. /\ pc'["producer"] = pc["producer"]
      /\ \A u \in ConsumeThreads : cur[u] \subseteq cur'[u]
  BY <1>0 DEF ConsumeInv, ConsumeTyped
<1>3. ProducerAt' /\ AddressCarries'
  BY SMTT(40), <1>0, <1>2, ConsumeMemory DEF ConsumeInv, ProducerAt, AddressCarries
<1>4. \A u \in Consumers : KnowsAfter(u) /\ PrintedAfter(u)
  <2> TAKE u \in Consumers
  <2>1. CASE u # t
    <3>1. pc'[u] = pc[u] /\ cur'[u] = cur[u] /\ local'[u] = local[u] /\ printed'[u] = printed[u]
      BY <1>0, <2>1 DEF ConsumeInv, ConsumeTyped
    <3>2. ConsumerKnows(u) /\ ConsumerPrinted(u)
      BY DEF ConsumeInv
    <3>3. pc["producer"] = "done" => pc'["producer"] = "done"
      BY <1>2
    <3> QED BY <3>1, <3>2, <3>3, ConsumerStays
  <2> QED BY <2>1
<1> QED BY <1>1, <1>3, <1>4 DEF ConsumeInv, KnowsAfter, PrintedAfter

\* A look at ptr brings what its value carries: of the int if consume is taken
\* literally, and all of it if consume is promoted.
LEMMA ConsumeLookKeeps ==
    ASSUME ConsumeInv, UNCHANGED running, NEW t \in Consumers,
           Promoted!Look(t) \/ (~InPromoted /\ Literal!Look(t))
    PROVE  ConsumeInv'
<1>0. pc[t] = "look" /\ t \in ConsumeThreads
  BY ConsumeMemory DEF Promoted!Look, Promoted!LoadPtr, Literal!Look, Literal!LoadPtr
<1>1. PICK k \in 1..Len(mem["ptr"]),
           brought \in SUBSET UNION {mem["ptr"][n].knows : n \in 1..Len(mem["ptr"])} :
         /\ brought \subseteq mem["ptr"][k].knows
         /\ cur' = [cur EXCEPT ![t] = (@ \cup {Written("ptr", k)}) \cup brought]
         /\ pc' = [pc EXCEPT ![t] = IF mem["ptr"][k].val = "null" THEN "look" ELSE "print_p"]
         /\ local' = [local EXCEPT ![t] = mem["ptr"][k].val]
         /\ {e \in mem["ptr"][k].knows : e.at = mem["ptr"][k].val} \subseteq brought
         /\ InPromoted => brought = mem["ptr"][k].knows
         /\ UNCHANGED <<mem, reads, raced, printed>>
  <2>1. CASE Promoted!Look(t)
    <3>1. PICK k \in 1..Len(mem["ptr"]) :
             /\ cur' = [cur EXCEPT ![t] = (@ \cup {Written("ptr", k)}) \cup mem["ptr"][k].knows]
             /\ pc' = [pc EXCEPT ![t] = IF mem["ptr"][k].val = "null" THEN "look" ELSE "print_p"]
             /\ local' = [local EXCEPT ![t] = mem["ptr"][k].val]
             /\ UNCHANGED <<mem, reads, raced, printed>>
      BY <2>1 DEF Promoted!Look, Promoted!LoadPtr, Promoted!Load, Promoted!Readable, Promoted!Latest,
             Promoted!Brought, Promoted!Acquires, Promoted!Written, Written, Promoted!Goto,
             Promoted!Value
    <3> QED BY <3>1
  <2>2. CASE ~InPromoted /\ Literal!Look(t)
    <3>1. PICK k \in 1..Len(mem["ptr"]) :
             /\ cur' = [cur EXCEPT ![t] = (@ \cup {Written("ptr", k)})
                                      \cup {e \in mem["ptr"][k].knows : e.at = mem["ptr"][k].val}]
             /\ pc' = [pc EXCEPT ![t] = IF mem["ptr"][k].val = "null" THEN "look" ELSE "print_p"]
             /\ local' = [local EXCEPT ![t] = mem["ptr"][k].val]
             /\ UNCHANGED <<mem, reads, raced, printed>>
      BY <2>2 DEF Literal!Look, Literal!LoadPtr, Literal!Load, Literal!Readable, Literal!Latest,
             Literal!Brought, Literal!Acquires, Literal!Written, Written, Literal!Goto,
             Literal!Value
    <3> DEFINE some == {e \in mem["ptr"][k].knows : e.at = mem["ptr"][k].val}
    <3>2. some \subseteq mem["ptr"][k].knows
      OBVIOUS
    <3> QED BY <2>2, <3>1, <3>2
  <2> QED BY <2>1, <2>2
<1> DEFINE seen == (cur[t] \cup {Written("ptr", k)}) \cup brought
           next == IF mem["ptr"][k].val = "null" THEN "look" ELSE "print_p"
<1>2. /\ cur' = [cur EXCEPT ![t] = seen]
      /\ cur[t] \subseteq seen /\ seen \subseteq Accesses(Cells)
  <2>1. mem["ptr"][k].knows \subseteq Accesses(Cells) /\ Written("ptr", k) \in Accesses(Cells)
    BY AddressWrite
  <2> QED BY <1>0, <1>1, <2>1 DEF ConsumeInv, ConsumeTyped
<1>3. mem["ptr"][k].val \in {"null", "object"}
  <2>1. k = 1 \/ (k = 2 /\ Len(mem["ptr"]) = 2)
    BY AddressWrite
  <2> QED BY <2>1 DEF ConsumeInv, ProducerAt
<1>4. mem["ptr"][k].val = "object" =>
         /\ pc["producer"] = "done"
         /\ Written("object", 2) \in seen
         /\ InPromoted => Written("v", 2) \in seen
  <2> SUFFICES ASSUME mem["ptr"][k].val = "object"
               PROVE  /\ pc["producer"] = "done"
                      /\ Written("object", 2) \in seen
                      /\ InPromoted => Written("v", 2) \in seen
    OBVIOUS
  <2>1. k = 2 /\ Len(mem["ptr"]) = 2
    <3>1. k = 1 \/ (k = 2 /\ Len(mem["ptr"]) = 2)
      BY AddressWrite
    <3>2. mem["ptr"][1].val = "null"
      BY DEF ConsumeInv, ProducerAt
    <3> QED BY <3>1, <3>2
  <2>2. /\ Written("object", 2) \in mem["ptr"][k].knows
        /\ Written("v", 2) \in mem["ptr"][k].knows
    BY <2>1 DEF ConsumeInv, AddressCarries, Written1And2
  <2>3. Written("object", 2).at = "object"
    BY DEF Written
  <2>4. pc["producer"] = "done"
    BY <2>1 DEF ConsumeInv, ProducerAt
  <2> QED BY <1>1, <2>2, <2>3, <2>4
<1>5. /\ pc'[t] = next /\ local'[t] = mem["ptr"][k].val /\ cur'[t] = seen
      /\ pc'["producer"] = pc["producer"] /\ printed' = printed
      /\ local' \in [Consumers -> {"null", "object"}]
      /\ \A u \in Consumers : u # t => local'[u] = local[u]
  BY <1>0, <1>1, <1>2, <1>3, ConsumeMemory DEF ConsumeInv, ConsumeTyped
<1> HIDE DEF seen
<1>6. KnowsAfter(t)
  BY <1>3, <1>4, <1>5 DEF ConsumerKnows, KnowsAfter, InPromoted
<1>7. PrintedAfter(t)
  <2>1. ConsumerPrinted(t)
    BY DEF ConsumeInv
  <2> QED BY <1>0, <1>5, <2>1 DEF ConsumerPrinted, PrintedAfter, InPromoted
<1>8. NoRace'
  BY <1>1, <1>5 DEF ConsumeInv, NoRace, InPromoted
<1>9. next \in Places /\ reads' \in [Cells -> Nat] /\ printed' \in [Consumers -> Seq(Int)]
  BY <1>1 DEF Places, ConsumeInv, ConsumeTyped
<1>10. pc' = [pc EXCEPT ![t] = next]
  BY <1>1
<1> HIDE DEF next
<1> QED BY <1>1, <1>2, <1>5, <1>6, <1>7, <1>8, <1>9, <1>10, ConsumerSteps

\* The memory that a consumer reads once the producer is done.
LEMMA AfterProducer ==
    ASSUME ConsumeInv, pc["producer"] = "done"
    PROVE  /\ Len(mem["object"]) = 2 /\ mem["object"][2].val = 42
           /\ Len(mem["v"]) = 2 /\ mem["v"][2].val = 1024
<1>1. Len(mem["object"]) = 2 /\ Len(mem["v"]) = 2
  BY DEF ConsumeInv, ProducerAt
<1> QED BY <1>1 DEF ConsumeInv, ProducerAt

\* A plain read of x by a consumer, and what it does to the memory.
Outputs(t, x, k, next) ==
    /\ UNCHANGED <<mem, local>>
    /\ reads' = [reads EXCEPT ![x] = @ + 1]
    /\ cur' = [cur EXCEPT ![t] = @ \cup {Promoted!ReadOf(x, reads[x] + 1)}]
    /\ raced' = raced \cup (IF Promoted!WritesOf(x) \subseteq cur[t] THEN {} ELSE {x})
    /\ printed' = [printed EXCEPT ![t] = Append(@, mem[x][k].val)]
    /\ pc' = [pc EXCEPT ![t] = next]

LEMMA ConsumerReads ==
    ASSUME ConsumeInv, UNCHANGED running, NEW t \in Consumers, NEW x \in {"object", "v"},
           NEW k \in 1..2, NEW next \in {"print_v", "done"},
           Outputs(t, x, k, next),
           pc["producer"] = "done",
           x = "object" \/ InPromoted => Written(x, 2) \in cur[t],
           PrintedAfter(t),
           InPromoted /\ next = "print_v" => Written("v", 2) \in cur[t]
    PROVE  ConsumeInv'
<1> DEFINE seen == cur[t] \cup {Promoted!ReadOf(x, reads[x] + 1)}
           all == Append(printed[t], mem[x][k].val)
<1>0. /\ t \in ConsumeThreads /\ t # "producer" /\ x \in Cells /\ next \in Places
      /\ mem[x] \in Seq(Writes(Val(x), Cells)) /\ Len(mem[x]) = 2
      /\ Written(x, 1) \in cur[t]
  <2>1. t \in ConsumeThreads /\ t # "producer" /\ x \in Cells /\ next \in Places
    BY ConsumeMemory DEF Cells, Places
  <2>2. mem[x] \in Seq(Writes(Val(x), Cells))
    BY <2>1 DEF ConsumeInv, ConsumeTyped
  <2>3. Len(mem[x]) = 2
    BY AfterProducer
  <2>4. Written(x, 1) \in cur[t]
    BY <2>1 DEF ConsumeInv, AddressCarries
  <2> QED BY <2>1, <2>2, <2>3, <2>4
<1>1. cur[t] \subseteq seen /\ seen \subseteq Accesses(Cells)
  <2>1. reads[x] + 1 \in Nat
    BY <1>0 DEF ConsumeInv, ConsumeTyped
  <2>2. Promoted!ReadOf(x, reads[x] + 1) \in Accesses(Cells)
    BY <1>0, <2>1 DEF Promoted!ReadOf, Accesses
  <2> QED BY <1>0, <2>2 DEF ConsumeInv, ConsumeTyped
<1>2. cur' = [cur EXCEPT ![t] = seen] /\ cur'[t] = seen
  <2>1. cur' = [cur EXCEPT ![t] = seen]
    BY DEF Outputs
  <2> HIDE DEF seen
  <2> QED BY <1>0, <2>1, ConsumeMemory
<1> HIDE DEF seen
<1>3. reads' \in [Cells -> Nat]
  <2>1. reads \in [Cells -> Nat] /\ reads' = [reads EXCEPT ![x] = @ + 1]
    BY DEF ConsumeInv, ConsumeTyped, Outputs
  <2> QED BY <1>0, <2>1
<1>4. /\ printed' \in [Consumers -> Seq(Int)]
      /\ \A u \in Consumers : u # t => printed'[u] = printed[u]
  <2>1. mem[x][k] \in Writes(Val(x), Cells) /\ Val(x) = Int
    <3>1. k \in 1..Len(mem[x])
      BY <1>0
    <3>2. Val(x) = Int
      BY DEF Val
    <3> QED BY <1>0, <3>1, <3>2, Nth
  <2>2. mem[x][k].val \in Int
    BY <2>1 DEF Writes
  <2>3. printed[t] \in Seq(Int)
    BY DEF ConsumeInv, ConsumeTyped
  <2>4. all \in Seq(Int)
    BY <2>2, <2>3
  <2>5. printed' = [printed EXCEPT ![t] = all] /\ printed \in [Consumers -> Seq(Int)]
    BY DEF Outputs, ConsumeInv, ConsumeTyped
  <2> HIDE DEF all
  <2> QED BY <2>4, <2>5
<1>5. /\ pc'[t] = next /\ pc'["producer"] = "done"
      /\ pc' = [pc EXCEPT ![t] = next]
  BY <1>0, ConsumeMemory DEF Outputs, ConsumeInv, ConsumeTyped
<1>6. /\ \A u \in Consumers : u # t => local'[u] = local[u]
      /\ local' \in [Consumers -> {"null", "object"}]
      /\ UNCHANGED mem
  BY DEF Outputs, ConsumeInv, ConsumeTyped
<1>7. KnowsAfter(t)
  <2>1. pc'[t] \in {"print_v", "done"}
    BY <1>5
  <2>2. InPromoted' /\ pc'[t] \in {"print_p", "print_v"} => Written("v", 2) \in cur'[t]
    BY <1>1, <1>2, <1>5 DEF InPromoted
  <2> QED BY <1>5, <2>1, <2>2 DEF ConsumerKnows, KnowsAfter
<1>8. x = "object" \/ InPromoted => raced' = raced
  <2> SUFFICES ASSUME x = "object" \/ InPromoted PROVE raced' = raced
    OBVIOUS
  <2>1. 1..Len(mem[x]) = {1, 2}
    BY <1>0
  <2>2. Promoted!WritesOf(x) = {Written(x, 1), Written(x, 2)}
    BY <2>1 DEF Promoted!WritesOf, Promoted!Latest, Promoted!Written, Written
  <2> QED BY <1>0, <2>2 DEF Outputs
<1>9. NoRace'
  <2>1. "object" \notin raced' /\ (InPromoted => "v" \notin raced')
    BY <1>8 DEF ConsumeInv, NoRace, Outputs
  <2>2. InPromoted' <=> InPromoted
    BY DEF InPromoted
  <2> QED BY <1>5, <2>1, <2>2 DEF NoRace
<1> QED BY <1>0, <1>1, <1>2, <1>3, <1>4, <1>5, <1>6, <1>7, <1>9, ConsumerSteps

LEMMA ConsumePrintPKeeps ==
    ASSUME ConsumeInv, UNCHANGED running, NEW t \in Consumers, Promoted!PrintP(t) PROVE ConsumeInv'
<1>0. /\ pc[t] = "print_p" /\ local[t] = "object" /\ pc["producer"] = "done"
      /\ Written("object", 2) \in cur[t]
      /\ InPromoted => Written("v", 2) \in cur[t]
      /\ printed[t] = <<>> /\ Len(mem["object"]) = 2 /\ mem["object"][2].val = 42
  BY DEF Promoted!PrintP, ConsumeInv, ConsumerKnows, ConsumerPrinted, ProducerAt
<1>1. PICK k \in Promoted!Readable(t, "object") :
         /\ Promoted!PlainRead(t, "object", k)
         /\ printed' = [printed EXCEPT ![t] = Append(@, mem["object"][k].val)]
  BY <1>0 DEF Promoted!PrintP, Promoted!Output, Promoted!Value
<1>2. k = 2 /\ k \in 1..2
  <2>1. k \in 1..2 /\ (\A n \in 1..2 : Written("object", n) \in cur[t] => n <= k)
    BY <1>0, <1>1 DEF Promoted!Readable, Promoted!Latest, Promoted!Written, Written
  <2> QED BY <1>0, <2>1
<1>3. Outputs(t, "object", k, "print_v")
  BY <1>0, <1>1 DEF Promoted!PlainRead, Promoted!PrintP, Promoted!Output, Promoted!Goto, Outputs
<1>4. PrintedAfter(t)
  <2>1. Append(<<>>, 42) = <<42>>
    OBVIOUS
  <2>2. printed'[t] = <<42>>
    BY <1>0, <1>1, <1>2, <2>1 DEF ConsumeInv, ConsumeTyped
  <2>3. pc'[t] = "print_v"
    BY <1>3, ConsumeMemory DEF ConsumeInv, ConsumeTyped, Outputs
  <2> QED BY <2>2, <2>3 DEF ConsumerPrinted, PrintedAfter
<1>5. "print_v" \in {"print_v", "done"} /\ "object" \in {"object", "v"}
  OBVIOUS
<1> QED BY <1>0, <1>1, <1>2, <1>3, <1>4, <1>5, ConsumerReads

LEMMA ConsumePrintVKeeps ==
    ASSUME ConsumeInv, UNCHANGED running, NEW t \in Consumers, Promoted!PrintV(t) PROVE ConsumeInv'
<1>0. /\ pc[t] = "print_v" /\ pc["producer"] = "done"
      /\ InPromoted => Written("v", 2) \in cur[t]
      /\ printed[t] = <<42>> /\ Len(mem["v"]) = 2 /\ mem["v"][2].val = 1024
  BY DEF Promoted!PrintV, ConsumeInv, ConsumerKnows, ConsumerPrinted, ProducerAt
<1>1. PICK k \in Promoted!Readable(t, "v") :
         /\ Promoted!PlainRead(t, "v", k)
         /\ printed' = [printed EXCEPT ![t] = Append(@, mem["v"][k].val)]
  BY <1>0 DEF Promoted!PrintV, Promoted!Output, Promoted!Value
<1>2. InPromoted => k = 2
  <2>1. k \in 1..2 /\ (\A n \in 1..2 : Written("v", n) \in cur[t] => n <= k)
    BY <1>0, <1>1 DEF Promoted!Readable, Promoted!Latest, Promoted!Written, Written
  <2> QED BY <1>0, <2>1
<1>3. k \in 1..2
  BY <1>0, <1>1 DEF Promoted!Readable, Promoted!Latest
<1>4. Outputs(t, "v", k, "done")
  BY <1>1 DEF Promoted!PlainRead, Promoted!PrintV, Promoted!Output, Promoted!Goto, Outputs
<1>5. PrintedAfter(t)
  <2> DEFINE n == mem["v"][k].val
  <2>1. n \in Int /\ (InPromoted => n = 1024)
    <3>1. mem["v"] \in Seq(Writes(Val("v"), Cells)) /\ Val("v") = Int
      BY ConsumeMemory DEF Val
    <3>2. mem["v"][k] \in Writes(Int, Cells)
      BY <1>0, <1>3, <3>1, Nth
    <3> QED BY <1>0, <1>2, <1>3, <3>2 DEF Writes
  <2> HIDE DEF n
  <2>2. Append(<<42>>, n) = <<42, n>>
    <3> DEFINE S == Int
    <3>1. 42 \in S /\ n \in S
      BY <2>1
    <3> HIDE DEF S
    <3> QED BY <3>1, SecondAppended
  <2>3. printed'[t] = <<42, n>>
    <3>1. printed' = [printed EXCEPT ![t] = Append(@, n)]
      BY <1>1 DEF n
    <3>2. printed'[t] = Append(printed[t], n)
      BY <3>1 DEF ConsumeInv, ConsumeTyped
    <3>3. printed[t] = <<42>>
      BY <1>0
    <3> QED BY <2>2, <3>2, <3>3
  <2>4. pc'[t] = "done" /\ (InPromoted' <=> InPromoted)
    BY <1>4, ConsumeMemory DEF ConsumeInv, ConsumeTyped, InPromoted, Outputs
  <2> QED BY <2>1, <2>3, <2>4 DEF ConsumerPrinted, PrintedAfter
<1>6. "done" \in {"print_v", "done"} /\ "v" \in {"object", "v"}
  OBVIOUS
<1> QED BY <1>0, <1>1, <1>3, <1>4, <1>5, <1>6, ConsumerReads

\* The two readings of consume differ in the look at ptr and in nothing else.
LEMMA ReadingsAgree ==
    /\ Literal!Producing <=> Promoted!Producing
    /\ \A t \in Consumers : Literal!PrintP(t) <=> Promoted!PrintP(t)
    /\ \A t \in Consumers : Literal!PrintV(t) <=> Promoted!PrintV(t)
<1>1. \A t, x, k : Literal!PlainRead(t, x, k) <=> Promoted!PlainRead(t, x, k)
  BY DEF Literal!PlainRead, Promoted!PlainRead, Literal!Readable, Promoted!Readable,
         Literal!WritesOf, Promoted!WritesOf, Literal!Latest, Promoted!Latest,
         Literal!Written, Promoted!Written, Literal!ReadOf, Promoted!ReadOf
<1>2. \A t, x, v : Literal!PlainWrite(t, x, v) <=> Promoted!PlainWrite(t, x, v)
  BY DEF Literal!PlainWrite, Promoted!PlainWrite, Literal!WritesOf, Promoted!WritesOf,
         Literal!ReadsOf, Promoted!ReadsOf, Literal!Latest, Promoted!Latest,
         Literal!Written, Promoted!Written, Literal!ReadOf, Promoted!ReadOf
<1>3. \A t, x, v : Literal!Store(t, x, v, "release") <=> Promoted!Store(t, x, v, "release")
  BY DEF Literal!Store, Promoted!Store, Literal!Latest, Promoted!Latest,
         Literal!Written, Promoted!Written, Literal!Releases, Promoted!Releases
<1>4. \A t, x : Literal!Readable(t, x) = Promoted!Readable(t, x)
  BY DEF Literal!Readable, Promoted!Readable, Literal!Latest, Promoted!Latest,
         Literal!Written, Promoted!Written
<1>5. \A t, x, next : Literal!Output(t, x, next) <=> Promoted!Output(t, x, next)
  BY <1>1, <1>4 DEF Literal!Output, Promoted!Output, Literal!Value, Promoted!Value,
                    Literal!Goto, Promoted!Goto
<1> QED
  BY <1>2, <1>3, <1>5
  DEF Literal!Producing, Promoted!Producing, Literal!New, Promoted!New, Literal!WriteV, Promoted!WriteV,
      Literal!Publish, Promoted!Publish, Literal!StorePtr, Promoted!StorePtr, Literal!Goto, Promoted!Goto,
      Literal!PrintP, Promoted!PrintP, Literal!PrintV, Promoted!PrintV

LEMMA ConsumeNext ==
    ASSUME ConsumeInv, UNCHANGED running,
           Promoted!Next \/ (~InPromoted /\ Literal!Next)
    PROVE  ConsumeInv'
<1>1. CASE Promoted!Producing
  BY <1>1, NewKeeps, ConsumeWriteVKeeps, ConsumePublishKeeps DEF Promoted!Producing
<1>2. CASE \E t \in Consumers :
              Promoted!Look(t) \/ (~InPromoted /\ Literal!Look(t))
  BY <1>2, ConsumeLookKeeps
<1>3. CASE \E t \in Consumers : Promoted!PrintP(t) \/ Promoted!PrintV(t)
  BY <1>3, ConsumePrintPKeeps, ConsumePrintVKeeps
<1>4. CASE Promoted!Return \/ Literal!Return
  <2>1. UNCHANGED <<mem, reads, cur, raced, pc, local, printed, running>>
    BY <1>4 DEF Promoted!Return, Literal!Return, Promoted!memory, Literal!memory
  <2> QED BY <2>1 DEF ConsumeInv, ConsumeTyped, ProducerAt, AddressCarries, ConsumerKnows,
                      ConsumerPrinted, NoRace, InPromoted
<1> QED
  BY <1>1, <1>2, <1>3, <1>4, ReadingsAgree
  DEF Promoted!Next, Promoted!Consuming, Literal!Next, Literal!Consuming

------------------------------------------------------------------------------
(* The counting functions: relaxed_order(), sequential_consistent_order()  *)
(* and 7.6.                                                                *)

Turns == IF running = "7.6.atomic" THEN SecondTwice ELSE Once

AllCalls == UNION {{t} \X (1..Turns[t]) : t \in 1..Counters}

\* The calls of fetch_add() that have returned.
DoneCalls == {c \in AllCalls : c[2] > pc[c[1]]}

Counter == {"counter"}

CountTyped ==
    /\ mem \in [Counter -> Seq(Writes(Nat, Counter))]
    /\ cur \in [0..Counters -> SUBSET Accesses(Counter)]
    /\ rel \in [0..Counters -> SUBSET Accesses(Counter)]
    /\ pc \in [1..Counters -> Nat]
    /\ local \in 1..(Counters + 1)

\* The n-th write has left n - 1 in the counter: as many as the calls that are done.
Exact ==
    /\ \A t \in 1..Counters : pc[t] <= Turns[t]
    /\ Len(mem["counter"]) = Cardinality(DoneCalls) + 1
    /\ \A n \in 1..Len(mem["counter"]) : mem["counter"][n].val = n - 1

\* Some thread knows each write, and main() knows what the threads do that it joined.
JoinsCollect ==
    /\ Written("counter", 1) \in cur[0]
    /\ \A n \in 2..Len(mem["counter"]) : \E t \in 1..Counters : Written("counter", n) \in cur[t]
    /\ \A t \in 1..Counters : t < local => pc[t] = 0 /\ cur[t] \subseteq cur[0]

CountInv ==
    /\ CountTyped
    /\ Exact
    /\ JoinsCollect
    /\ printed \in {<<>>, <<Cardinality(AllCalls)>>}

\* What the steps of the three functions have in common.
CountsOne(t, m, seen) ==
    /\ pc[t] > 0
    /\ mem' = [mem EXCEPT !["counter"] = Append(@, m)]
    /\ cur' = [cur EXCEPT ![t] = seen]
    /\ pc' = [pc EXCEPT ![t] = @ - 1]
    /\ UNCHANGED <<rel, local, printed>>

JoinsOne ==
    /\ local \in 1..Counters
    /\ pc[local] = 0
    /\ cur' = [cur EXCEPT ![0] = @ \cup cur[local]]
    /\ local' = local + 1
    /\ UNCHANGED <<mem, rel, pc, printed>>

PrintsLast(k) ==
    /\ local = Counters + 1
    /\ printed = <<>>
    /\ \A n \in 1..Len(mem["counter"]) : Written("counter", n) \in cur[0] => n <= k
    /\ cur' = [cur EXCEPT ![0] = (@ \cup {Written("counter", k)}) \cup mem["counter"][k].knows]
    /\ printed' = <<mem["counter"][k].val>>
    /\ UNCHANGED <<mem, rel, pc, local>>

LEMMA CallsFinite ==
    /\ IsFiniteSet(AllCalls)
    /\ Turns \in [1..Counters -> Nat]
    /\ AllCalls \subseteq (1..Counters) \X Nat
    /\ \A t \in 1..Counters : \A n \in Nat : <<t, n>> \in AllCalls <=> 1 <= n /\ n <= Turns[t]
    /\ \A c \in AllCalls : c[1] \in 1..Counters /\ c[2] \in Nat /\ c[2] > 0 /\ c = <<c[1], c[2]>>
<1>1. Counters \in Nat
  BY ThreadsAssumption
<1>2. Turns \in [1..Counters -> Nat] /\ \A t \in 1..Counters : Turns[t] <= 2
  BY <1>1 DEF Turns, Once, SecondTwice
<1>3. AllCalls \subseteq (1..Counters) \X (1..2)
  <2> SUFFICES ASSUME NEW t \in 1..Counters, NEW c \in {t} \X (1..Turns[t])
               PROVE  c \in (1..Counters) \X (1..2)
    BY DEF AllCalls
  <2>1. 1..Turns[t] \subseteq 1..2
    <3>1. Turns[t] \in Nat /\ Turns[t] <= 2
      BY <1>2
    <3> QED BY <3>1
  <2> QED BY <2>1
<1>4. IsFiniteSet((1..Counters) \X (1..2))
  <2>1. IsFiniteSet(1..Counters) /\ IsFiniteSet(1..2)
    <3>1. 1 \in Int /\ 2 \in Int /\ Counters \in Int
      BY <1>1
    <3> QED BY <3>1, FS_Interval
  <2> QED BY <2>1, FS_Product
<1>5. IsFiniteSet(AllCalls)
  BY <1>3, <1>4, FS_Subset
<1>6. \A t \in 1..Counters : \A n \in Nat : <<t, n>> \in AllCalls <=> 1 <= n /\ n <= Turns[t]
  BY <1>1, <1>2 DEF AllCalls
<1>7. \A c \in AllCalls : c[1] \in 1..Counters /\ c[2] \in Nat /\ c[2] > 0 /\ c = <<c[1], c[2]>>
  BY <1>3
<1> QED BY <1>2, <1>3, <1>5, <1>6, <1>7

LEMMA CountKeeps ==
    ASSUME CountInv, UNCHANGED running, NEW t \in 1..Counters, NEW m, NEW seen, CountsOne(t, m, seen),
           m \in Writes(Nat, Counter), m.val = Len(mem["counter"]),
           cur[t] \subseteq seen, seen \subseteq Accesses(Counter),
           Written("counter", Len(mem["counter"]) + 1) \in seen
    PROVE  CountInv'
<1> DEFINE l == Len(mem["counter"])
<1>0. /\ Counters \in Nat /\ t \in 0..Counters /\ 0 \in 0..Counters /\ t # 0 /\ t \in Nat
      /\ 1..Counters \subseteq 0..Counters
  BY ThreadsAssumption
<1>1. /\ mem'["counter"] \in Seq(Writes(Nat, Counter)) /\ Len(mem'["counter"]) = l + 1 /\ l \in Nat
      /\ mem'["counter"][l + 1] = m /\ DOMAIN mem' = Counter
      /\ \A n \in 1..l : mem'["counter"][n] = mem["counter"][n]
  <2>1. /\ DOMAIN mem = Counter /\ "counter" \in Counter
        /\ mem["counter"] \in Seq(Writes(Nat, Counter))
        /\ mem' = [mem EXCEPT !["counter"] = Append(@, m)]
    BY DEF CountInv, CountTyped, Counter, CountsOne
  <2> QED BY <2>1, Appended
<1>2. /\ cur' \in [0..Counters -> SUBSET Accesses(Counter)] /\ cur'[0] = cur[0]
      /\ \A u \in 0..Counters : cur[u] \subseteq cur'[u] /\ (u # t => cur'[u] = cur[u])
      /\ Written("counter", l + 1) \in cur'[t]
  BY <1>0 DEF CountInv, CountTyped, CountsOne
<1>3. /\ pc' \in [1..Counters -> Nat] /\ pc'[t] = pc[t] - 1 /\ pc[t] > 0 /\ pc[t] \in Nat
      /\ \A u \in 1..Counters : u # t => pc'[u] = pc[u]
      /\ \A u \in 1..Counters : pc[u] \in Nat /\ pc'[u] <= pc[u]
  <2>1. pc \in [1..Counters -> Nat] /\ pc' = [pc EXCEPT ![t] = @ - 1] /\ pc[t] > 0
    BY DEF CountInv, CountTyped, CountsOne
  <2> QED BY <2>1
<1>4. CountTyped'
  BY <1>1, <1>2, <1>3 DEF CountInv, CountTyped, Counter, CountsOne
<1>5. Turns' = Turns /\ AllCalls' = AllCalls
  BY DEF Turns, AllCalls
<1>6. Exact'
  <2>1. DoneCalls' = DoneCalls \cup {<<t, pc[t]>>} /\ <<t, pc[t]>> \notin DoneCalls
    <3>1. <<t, pc[t]>> \in AllCalls
      BY <1>3, CallsFinite DEF CountInv, Exact
    <3>2. <<t, pc[t]>> \notin DoneCalls
      BY <1>3 DEF DoneCalls
    <3>3. ASSUME NEW c \in AllCalls PROVE c[2] > pc'[c[1]] <=> c[2] > pc[c[1]] \/ c = <<t, pc[t]>>
      <4>1. c[1] \in 1..Counters /\ c[2] \in Nat /\ c = <<c[1], c[2]>>
        BY CallsFinite
      <4>2. CASE c[1] # t
        BY <1>3, <4>1, <4>2
      <4>3. CASE c[1] = t
        BY <1>3, <4>1, <4>3
      <4> QED BY <4>2, <4>3
    <3> QED BY <1>5, <3>1, <3>2, <3>3 DEF DoneCalls
  <2>2. IsFiniteSet(DoneCalls)
    BY CallsFinite, FS_Subset DEF DoneCalls
  <2>3. Cardinality(DoneCalls') = Cardinality(DoneCalls) + 1 /\ Cardinality(DoneCalls) \in Nat
    BY <2>1, <2>2, FS_AddElement, FS_CardinalityType
  <2>4. Len(mem'["counter"]) = Cardinality(DoneCalls)' + 1
    BY <1>1, <2>3 DEF CountInv, Exact
  <2>5. \A n \in 1..Len(mem'["counter"]) : mem'["counter"][n].val = n - 1
    <3> TAKE n \in 1..Len(mem'["counter"])
    <3>1. n \in 1..l \/ n = l + 1
      BY <1>1
    <3>2. CASE n \in 1..l
      BY <1>1, <3>2 DEF CountInv, Exact
    <3>3. CASE n = l + 1
      BY <1>1, <3>3
    <3> QED BY <3>1, <3>2, <3>3
  <2>6. \A u \in 1..Counters : pc'[u] <= Turns[u]
    BY <1>3, CallsFinite DEF CountInv, Exact
  <2> QED BY <1>5, <2>4, <2>5, <2>6 DEF Exact
<1>7. JoinsCollect'
  <2>1. \A n \in 2..Len(mem'["counter"]) : \E u \in 1..Counters : Written("counter", n) \in cur'[u]
    <3> TAKE n \in 2..Len(mem'["counter"])
    <3>1. n \in 2..l \/ n = l + 1
      BY <1>1
    <3> QED BY <1>0, <1>2, <3>1 DEF CountInv, JoinsCollect
  <2>2. local' = local
    BY DEF CountsOne
  <2>3. \A u \in 1..Counters : u < local' => u # t
    BY <1>3, <2>2 DEF CountInv, JoinsCollect
  <2> QED BY <1>0, <1>2, <1>3, <2>1, <2>2, <2>3 DEF CountInv, JoinsCollect
<1>8. printed' \in {<<>>, <<Cardinality(AllCalls')>>}
  BY <1>5 DEF CountInv, CountsOne
<1> QED BY <1>4, <1>6, <1>7, <1>8 DEF CountInv

\* The parts of the invariant that a step of main() keeps.
LEMMA MainKeeps ==
    ASSUME CountInv, UNCHANGED <<running, mem, rel, pc>>, NEW seen,
           cur' = [cur EXCEPT ![0] = seen], cur[0] \subseteq seen, seen \subseteq Accesses(Counter)
    PROVE  /\ cur' \in [0..Counters -> SUBSET Accesses(Counter)]
           /\ Exact' /\ AllCalls' = AllCalls
           /\ Written("counter", 1) \in cur'[0]
           /\ \A n \in 2..Len(mem'["counter"]) :
                 \E t \in 1..Counters : Written("counter", n) \in cur'[t]
           /\ \A t \in 1..Counters : cur'[t] = cur[t]
           /\ cur'[0] = seen
<1>0. Counters \in Nat /\ 0 \in 0..Counters /\ 1..Counters \subseteq 0..Counters /\ 0 \notin 1..Counters
  BY ThreadsAssumption
<1>1. /\ cur' \in [0..Counters -> SUBSET Accesses(Counter)] /\ cur'[0] = seen
      /\ \A t \in 1..Counters : cur'[t] = cur[t]
  BY <1>0 DEF CountInv, CountTyped
<1>2. Turns' = Turns /\ AllCalls' = AllCalls /\ DoneCalls' = DoneCalls
  BY DEF Turns, AllCalls, DoneCalls
<1>3. Exact'
  BY <1>2 DEF CountInv, Exact
<1> QED BY <1>1, <1>2, <1>3 DEF CountInv, JoinsCollect

LEMMA JoinKeeps == ASSUME CountInv, UNCHANGED running, JoinsOne PROVE CountInv'
<1> DEFINE seen == cur[0] \cup cur[local]
<1>0. Counters \in Nat /\ local \in 1..Counters /\ 0 \in 0..Counters /\ local \in 0..Counters
  BY ThreadsAssumption DEF JoinsOne
<1>1. cur' = [cur EXCEPT ![0] = seen] /\ cur[0] \subseteq seen /\ seen \subseteq Accesses(Counter)
  BY <1>0 DEF CountInv, CountTyped, JoinsOne
<1> HIDE DEF seen
<1>2. UNCHANGED <<running, mem, rel, pc>>
  BY DEF JoinsOne
<1>3. /\ cur' \in [0..Counters -> SUBSET Accesses(Counter)]
      /\ Exact' /\ AllCalls' = AllCalls
      /\ Written("counter", 1) \in cur'[0]
      /\ \A n \in 2..Len(mem'["counter"]) :
            \E t \in 1..Counters : Written("counter", n) \in cur'[t]
      /\ \A t \in 1..Counters : cur'[t] = cur[t]
      /\ cur'[0] = seen
  BY <1>1, <1>2, MainKeeps
<1>4. \A t \in 1..Counters : t < local' => pc'[t] = 0 /\ cur'[t] \subseteq cur'[0]
  <2> TAKE t \in 1..Counters
  <2> SUFFICES ASSUME t < local' PROVE pc'[t] = 0 /\ cur'[t] \subseteq cur'[0]
    OBVIOUS
  <2>1. t < local \/ t = local
    BY <1>0 DEF JoinsOne
  <2>2. CASE t < local
    BY <1>1, <1>2, <1>3, <2>2 DEF CountInv, JoinsCollect
  <2>3. CASE t = local
    BY <1>2, <1>3, <2>3 DEF JoinsOne, seen
  <2> QED BY <2>1, <2>2, <2>3
<1>5. local' \in 1..(Counters + 1)
  BY <1>0 DEF JoinsOne
<1>6. CountTyped'
  BY <1>2, <1>3, <1>5 DEF CountInv, CountTyped
<1>7. printed' \in {<<>>, <<Cardinality(AllCalls')>>}
  BY <1>3 DEF CountInv, JoinsOne
<1> QED BY <1>3, <1>4, <1>6, <1>7 DEF CountInv, JoinsCollect

LEMMA PrintCounterKeeps ==
    ASSUME CountInv, UNCHANGED running, NEW k \in 1..Len(mem["counter"]), PrintsLast(k)
    PROVE  /\ CountInv'
           /\ k = Len(mem["counter"])
           /\ \A t \in 1..Counters : pc[t] = 0
<1> DEFINE seen == (cur[0] \cup {Written("counter", k)}) \cup mem["counter"][k].knows
           l == Len(mem["counter"])
<1>0. Counters \in Nat /\ local = Counters + 1 /\ 0 \in 0..Counters /\ k \in Nat /\ l \in Nat
  <2>1. mem["counter"] \in Seq(Writes(Nat, Counter))
    BY DEF CountInv, CountTyped, Counter
  <2> QED BY <2>1, Nth, ThreadsAssumption DEF PrintsLast
<1>1. cur' = [cur EXCEPT ![0] = seen] /\ cur[0] \subseteq seen /\ seen \subseteq Accesses(Counter)
  <2>1. mem["counter"][k] \in Writes(Nat, Counter)
    <3>1. mem["counter"] \in Seq(Writes(Nat, Counter))
      BY DEF CountInv, CountTyped, Counter
    <3> QED BY <3>1, Nth
  <2>2. mem["counter"][k].knows \subseteq Accesses(Counter)
    BY <2>1 DEF Writes
  <2>3. Written("counter", k) \in Accesses(Counter)
    BY <1>0 DEF Written, Accesses, Counter
  <2>4. cur[0] \subseteq Accesses(Counter)
    BY <1>0 DEF CountInv, CountTyped
  <2> QED BY <2>2, <2>3, <2>4 DEF PrintsLast
<1> HIDE DEF seen
<1>2. UNCHANGED <<running, mem, rel, pc, local>>
  BY DEF PrintsLast
<1>3. /\ cur' \in [0..Counters -> SUBSET Accesses(Counter)]
      /\ Exact' /\ AllCalls' = AllCalls
      /\ Written("counter", 1) \in cur'[0]
      /\ \A n \in 2..Len(mem'["counter"]) :
            \E t \in 1..Counters : Written("counter", n) \in cur'[t]
      /\ \A t \in 1..Counters : cur'[t] = cur[t]
      /\ cur'[0] = seen
  BY <1>1, <1>2, MainKeeps
<1>4. \A t \in 1..Counters : t < local' => pc'[t] = 0 /\ cur'[t] \subseteq cur'[0]
  BY <1>1, <1>2, <1>3 DEF CountInv, JoinsCollect
<1>5. CountTyped'
  BY <1>2, <1>3 DEF CountInv, CountTyped
<1>6. \A t \in 1..Counters : pc[t] = 0 /\ cur[t] \subseteq cur[0]
  BY <1>0 DEF CountInv, JoinsCollect
<1>7. k = l
  <2>1. \A n \in 1..l : Written("counter", n) \in cur[0]
    <3> TAKE n \in 1..l
    <3>1. n = 1 \/ n \in 2..l
      BY <1>0
    <3> QED BY <1>6, <3>1 DEF CountInv, JoinsCollect
  <2>2. l \in 1..l
    BY <1>0
  <2>3. l <= k
    BY <2>1, <2>2 DEF PrintsLast
  <2> QED BY <1>0, <2>3
<1>8. DoneCalls = AllCalls
  BY <1>6, CallsFinite DEF DoneCalls
<1>9. mem["counter"][k].val = Cardinality(AllCalls)
  <2>1. Cardinality(AllCalls) \in Nat
    BY CallsFinite, FS_CardinalityType
  <2>2. mem["counter"][k].val = k - 1 /\ l = Cardinality(AllCalls) + 1
    BY <1>8 DEF CountInv, Exact
  <2> QED BY <1>7, <2>1, <2>2
<1>10. printed' \in {<<>>, <<Cardinality(AllCalls')>>}
  BY <1>3, <1>9 DEF PrintsLast
<1>11. CountInv'
  BY <1>3, <1>4, <1>5, <1>10 DEF CountInv, JoinsCollect
<1> QED BY <1>6, <1>7, <1>11

\* fetch_add() with the memory order of each function.
LEMMA FetchAdds ==
    ASSUME CountInv, NEW t \in 1..Counters,
           Relaxed!Count(t) \/ SeqCst!Count(t) \/ Atomic!Count(t)
    PROVE  \E m, seen :
              /\ CountsOne(t, m, seen)
              /\ m \in Writes(Nat, Counter) /\ m.val = Len(mem["counter"])
              /\ cur[t] \subseteq seen /\ seen \subseteq Accesses(Counter)
              /\ Written("counter", Len(mem["counter"]) + 1) \in seen
<1> DEFINE l == Len(mem["counter"])
           last == mem["counter"][l]
           e == Written("counter", l + 1)
           before == cur[t] \cup {Written("counter", l)}
<1>0. /\ Counters \in Nat /\ t \in 0..Counters /\ l \in Nat \ {0} /\ l \in 1..l
      /\ mem["counter"] \in Seq(Writes(Nat, Counter))
      /\ last.val = l - 1
  <2>1. Counters \in Nat /\ t \in 0..Counters /\ mem["counter"] \in Seq(Writes(Nat, Counter))
    BY ThreadsAssumption DEF CountInv, CountTyped, Counter
  <2>2. Cardinality(DoneCalls) \in Nat
    BY CallsFinite, FS_Subset, FS_CardinalityType DEF DoneCalls
  <2>3. l \in Nat \ {0} /\ l \in 1..l
    BY <2>2 DEF CountInv, Exact
  <2> QED BY <2>1, <2>3 DEF CountInv, Exact
<1>1. last \in Writes(Nat, Counter)
  BY <1>0, Nth
<1>2. /\ e \in Accesses(Counter) /\ before \subseteq Accesses(Counter)
      /\ rel[t] \subseteq Accesses(Counter) /\ last.knows \subseteq Accesses(Counter)
  <2>1. e \in Accesses(Counter) /\ Written("counter", l) \in Accesses(Counter)
    BY <1>0 DEF Written, Accesses, Counter
  <2>2. cur[t] \subseteq Accesses(Counter) /\ rel[t] \subseteq Accesses(Counter)
    BY <1>0 DEF CountInv, CountTyped
  <2>3. last.knows \subseteq Accesses(Counter)
    BY <1>1 DEF Writes
  <2> QED BY <2>1, <2>2, <2>3
<1>3. ASSUME Relaxed!Count(t)
      PROVE  CountsOne(t, [val |-> l, knows |-> (last.knows \cup rel[t]) \cup {e}], before \cup {e})
  <2>1. Relaxed!Rmw(t, "counter", last.val + 1, "relaxed")
    BY <1>3 DEF Relaxed!Count, Relaxed!Value, Relaxed!Latest
  <2>2. last.val + 1 = l
    BY <1>0
  <2> QED BY <1>3, <2>1, <2>2
          DEF Relaxed!Count, Relaxed!Rmw, Relaxed!Written, Written, Relaxed!Latest, Relaxed!Releases,
              Relaxed!Acquires, Relaxed!Brought, CountsOne
<1>4. ASSUME SeqCst!Count(t) \/ Atomic!Count(t)
      PROVE  CountsOne(t, [val |-> l, knows |-> (last.knows \cup (before \cup last.knows)) \cup {e}],
                       (before \cup last.knows) \cup {e})
  <2>1. last.val + 1 = l
    BY <1>0
  <2>2. CASE SeqCst!Count(t)
    <3>1. SeqCst!Rmw(t, "counter", last.val + 1, "seq_cst")
      BY <2>2 DEF SeqCst!Count, SeqCst!Value, SeqCst!Latest
    <3> QED BY <2>1, <2>2, <3>1
            DEF SeqCst!Count, SeqCst!Rmw, SeqCst!Written, Written, SeqCst!Latest, SeqCst!Releases,
                SeqCst!Acquires, SeqCst!Brought, CountsOne
  <2>3. CASE Atomic!Count(t)
    <3>1. Atomic!Rmw(t, "counter", last.val + 1, "seq_cst")
      BY <2>3 DEF Atomic!Count, Atomic!Value, Atomic!Latest
    <3> QED BY <2>1, <2>3, <3>1
            DEF Atomic!Count, Atomic!Rmw, Atomic!Written, Written, Atomic!Latest, Atomic!Releases,
                Atomic!Acquires, Atomic!Brought, CountsOne
  <2> QED BY <1>4, <2>2, <2>3
<1>5. CASE Relaxed!Count(t)
  <2> DEFINE m == [val |-> l, knows |-> (last.knows \cup rel[t]) \cup {e}]
             seen == before \cup {e}
  <2>1. CountsOne(t, m, seen)
    BY <1>3, <1>5
  <2>2. m \in Writes(Nat, Counter) /\ m.val = l
    BY <1>0, <1>2 DEF Writes
  <2>3. cur[t] \subseteq seen /\ seen \subseteq Accesses(Counter) /\ e \in seen
    BY <1>2
  <2> HIDE DEF m, seen
  <2> QED BY <2>1, <2>2, <2>3
<1>6. CASE SeqCst!Count(t) \/ Atomic!Count(t)
  <2> DEFINE m == [val |-> l, knows |-> (last.knows \cup (before \cup last.knows)) \cup {e}]
             seen == (before \cup last.knows) \cup {e}
  <2>1. CountsOne(t, m, seen)
    BY <1>4, <1>6
  <2>2. m \in Writes(Nat, Counter) /\ m.val = l
    BY <1>0, <1>2 DEF Writes
  <2>3. cur[t] \subseteq seen /\ seen \subseteq Accesses(Counter) /\ e \in seen
    BY <1>2
  <2> HIDE DEF m, seen
  <2> QED BY <2>1, <2>2, <2>3
<1> QED BY <1>5, <1>6

\* What a step of the three functions is.
LEMMA CountingSteps ==
    ASSUME CountInv, Relaxed!Next \/ SeqCst!Next \/ Atomic!Next
    PROVE  \/ \E t \in 1..Counters : Relaxed!Count(t) \/ SeqCst!Count(t) \/ Atomic!Count(t)
           \/ JoinsOne
           \/ \E k \in 1..Len(mem["counter"]) : PrintsLast(k)
           \/ UNCHANGED <<mem, cur, rel, pc, local, printed>>
<1>1. CASE \E t \in 1..Counters : Relaxed!Count(t) \/ SeqCst!Count(t) \/ Atomic!Count(t)
  BY <1>1
<1>2. CASE Relaxed!Join \/ SeqCst!Join \/ Atomic!Join
  BY <1>2 DEF JoinsOne, Relaxed!Join, Relaxed!JoinNext, Relaxed!Joined, Relaxed!Main,
              SeqCst!Join, SeqCst!JoinNext, SeqCst!Joined, SeqCst!Main,
              Atomic!Join, Atomic!JoinNext, Atomic!Joined, Atomic!Main
<1>3. CASE Relaxed!PrintCounter
  BY <1>3 DEF PrintsLast, Written, Relaxed!PrintCounter, Relaxed!Readable, Relaxed!Load, Relaxed!Brought,
              Relaxed!Acquires, Relaxed!Main, Relaxed!Value, Relaxed!Latest, Relaxed!Written
<1>4. CASE SeqCst!PrintCounter
  BY <1>4 DEF PrintsLast, Written, SeqCst!PrintCounter, SeqCst!Readable, SeqCst!Load, SeqCst!Brought,
              SeqCst!Acquires, SeqCst!Main, SeqCst!Value, SeqCst!Latest, SeqCst!Written
<1>5. CASE Atomic!PrintCounter
  BY <1>5 DEF PrintsLast, Written, Atomic!PrintCounter, Atomic!Readable, Atomic!Load, Atomic!Brought,
              Atomic!Acquires, Atomic!Main, Atomic!Value, Atomic!Latest, Atomic!Written
<1>6. CASE Relaxed!Return \/ SeqCst!Return \/ Atomic!Return
  BY <1>6 DEF Relaxed!Return, Relaxed!memory, SeqCst!Return, SeqCst!memory, Atomic!Return, Atomic!memory
<1> QED BY <1>1, <1>2, <1>3, <1>4, <1>5, <1>6 DEF Relaxed!Next, SeqCst!Next, Atomic!Next

LEMMA CountNext ==
    ASSUME CountInv, UNCHANGED running, Relaxed!Next \/ SeqCst!Next \/ Atomic!Next
    PROVE  CountInv'
<1>1. CASE \E t \in 1..Counters : Relaxed!Count(t) \/ SeqCst!Count(t) \/ Atomic!Count(t)
  BY <1>1, FetchAdds, CountKeeps
<1>2. CASE JoinsOne
  BY <1>2, JoinKeeps
<1>3. CASE \E k \in 1..Len(mem["counter"]) : PrintsLast(k)
  BY <1>3, PrintCounterKeeps
<1>4. CASE UNCHANGED <<mem, cur, rel, pc, local, printed>>
  BY <1>4 DEF CountInv, CountTyped, Exact, JoinsCollect, DoneCalls, AllCalls, Turns
<1> QED BY <1>1, <1>2, <1>3, <1>4, CountingSteps

LEMMA CountInit ==
    ASSUME \/ running # "7.6.atomic" /\ (Relaxed!Init \/ SeqCst!Init)
           \/ running = "7.6.atomic" /\ Atomic!Init
    PROVE  CountInv
<1> DEFINE first == [val |-> 0, knows |-> {}]
<1>0. Counters \in Nat \ {0} /\ 0 \in 0..Counters
  BY ThreadsAssumption
<1>1. /\ mem = [x \in Counter |-> <<first>>]
      /\ cur = [t \in 0..Counters |-> {Written(x, 1) : x \in Counter}]
      /\ rel = [t \in 0..Counters |-> {}]
      /\ pc = Turns
      /\ local = 1
      /\ printed = <<>>
  BY DEF Relaxed!Init, Relaxed!Booted, Relaxed!Written, SeqCst!Init, SeqCst!Booted, SeqCst!Written,
         Atomic!Init, Atomic!Booted, Atomic!Written, Written, Counter, Turns
<1>2. first \in Writes(Nat, Counter) /\ first.val = 0
  BY DEF Writes
<1> HIDE DEF first
<1>3. <<first>> \in Seq(Writes(Nat, Counter)) /\ Len(<<first>>) = 1 /\ <<first>>[1] = first
  BY <1>2, OneElement
<1>4. mem \in [Counter -> Seq(Writes(Nat, Counter))] /\ mem["counter"] = <<first>>
  BY <1>1, <1>3 DEF Counter
<1>5. /\ Written("counter", 1) \in Accesses(Counter)
      /\ {Written(x, 1) : x \in Counter} = {Written("counter", 1)}
  BY DEF Written, Accesses, Counter
<1>6. CountTyped
  <2>1. /\ cur \in [0..Counters -> SUBSET Accesses(Counter)]
        /\ rel \in [0..Counters -> SUBSET Accesses(Counter)]
    BY <1>1, <1>5
  <2>2. pc \in [1..Counters -> Nat] /\ local \in 1..(Counters + 1)
    BY <1>0, <1>1, CallsFinite
  <2> QED BY <1>4, <2>1, <2>2 DEF CountTyped
<1>7. Exact
  <2>1. DoneCalls = {}
    <3> SUFFICES ASSUME NEW c \in AllCalls PROVE ~(c[2] > Turns[c[1]])
      BY <1>1 DEF DoneCalls
    <3>1. c = <<c[1], c[2]>> /\ c[1] \in 1..Counters /\ c[2] \in Nat
      BY CallsFinite
    <3>2. c[2] <= Turns[c[1]] /\ Turns[c[1]] \in Nat
      BY <3>1, CallsFinite
    <3> QED BY <3>1, <3>2
  <2>2. Cardinality(DoneCalls) = 0
    BY <2>1, FS_EmptySet
  <2>3. \A t \in 1..Counters : pc[t] <= Turns[t]
    BY <1>1, CallsFinite
  <2>4. 1..Len(mem["counter"]) = {1}
    BY <1>3, <1>4
  <2> QED BY <1>2, <1>3, <1>4, <2>2, <2>3, <2>4 DEF Exact
<1>8. JoinsCollect
  <2>1. 2..Len(mem["counter"]) = {}
    BY <1>3, <1>4
  <2>2. \A t \in 1..Counters : ~(t < local)
    BY <1>1
  <2>3. Written("counter", 1) \in cur[0]
    BY <1>0, <1>1, <1>5
  <2> QED BY <2>1, <2>2, <2>3 DEF JoinsCollect
<1> QED BY <1>1, <1>6, <1>7, <1>8 DEF CountInv

------------------------------------------------------------------------------
(* A behaviour of MemoryOrder runs one of the functions.                   *)

\* ptr as the book has it.
Initialised == Uninitialised = {"null"}

Inv ==
    /\ running \in {"release_acquire_order"} \cup Consuming \cup Counting
    /\ ReleaseAcquire => AcquireInv
    /\ running \in Consuming /\ Initialised => ConsumeInv
    /\ running \in Counting => CountInv

LEMMA InvInit == Init => Inv
<1> SUFFICES ASSUME Init PROVE Inv
  OBVIOUS
<1> USE DEF Consuming, Counting
<1>1. CASE running = "release_acquire_order" /\ Acquire!Init
  BY <1>1, AcquireInit DEF Inv
<1>2. CASE running \in Consuming /\ (Literal!Init \/ Promoted!Init)
  BY <1>2, ConsumeInit DEF Inv, Initialised, ReleaseAcquire
<1>3. CASE running \in Counting \ {"7.6.atomic"} /\ (Relaxed!Init \/ SeqCst!Init)
  BY <1>3, CountInit DEF Inv, ReleaseAcquire
<1>4. CASE running = "7.6.atomic" /\ Atomic!Init
  BY <1>4, CountInit DEF Inv, ReleaseAcquire
<1> QED BY <1>1, <1>2, <1>3, <1>4 DEF Init

LEMMA InvNext == Inv /\ [Next]_vars => Inv'
<1> SUFFICES ASSUME Inv, [Next]_vars PROVE Inv'
  OBVIOUS
<1> USE DEF Consuming, Counting
<1>1. CASE Running("release_acquire_order") /\ Acquire!Next
  BY <1>1, AcquireNext DEF Inv, Running, ReleaseAcquire
<1>2. CASE Running("release_consume_order_literal") /\ Literal!Next
  <2>1. (Initialised => ConsumeInv) /\ ~InPromoted /\ UNCHANGED running
    BY <1>2 DEF Inv, Running, InPromoted
  <2> QED BY <1>2, <2>1, ConsumeNext DEF Inv, Running, ReleaseAcquire
<1>3. CASE Running("release_consume_order_promoted") /\ Promoted!Next
  BY <1>3, ConsumeNext DEF Inv, Running, ReleaseAcquire
<1>4. CASE \/ Running("relaxed_order") /\ Relaxed!Next
           \/ Running("sequential_consistent_order") /\ SeqCst!Next
           \/ Running("7.6.atomic") /\ Atomic!Next
  BY <1>4, CountNext DEF Inv, Running, ReleaseAcquire
<1>5. CASE UNCHANGED vars
  <2>1. AcquireInv => AcquireInv'
    BY SMTT(40), <1>5 DEF vars, AcquireInv, AcquireTyped, Progress, FlagCarriesV, ReaderKnows
  <2>2. ConsumeInv => ConsumeInv'
    BY SMTT(40), <1>5 DEF vars, ConsumeInv, ConsumeTyped, ProducerAt, AddressCarries, ConsumerKnows,
                          ConsumerPrinted, NoRace, InPromoted
  <2>3. CountInv => CountInv'
    BY SMTT(40), <1>5 DEF vars, CountInv, CountTyped, Exact, JoinsCollect, DoneCalls, AllCalls, Turns
  <2> QED BY <1>5, <2>1, <2>2, <2>3 DEF vars, Inv, ReleaseAcquire
<1> QED BY <1>1, <1>2, <1>3, <1>4, <1>5 DEF Next

\* release_acquire_order(): every reader prints 42, and no access of v races, for
\* any number of readers, whatever memory the functions find.
THEOREM PrintsFortyTwoHolds == Spec => []PrintsFortyTwo
<1>1. Inv => PrintsFortyTwo
  BY DEF Inv, ReleaseAcquire, PrintsFortyTwo, AcquireInv, ReaderKnows
<1> QED BY <1>1, InvInit, InvNext, PTL DEF Spec

\* release_acquire_order(): flag holds 0, 1 and 2 in this order.
THEOREM FlagInOrderHolds == Spec => []FlagInOrder
<1>1. Inv => FlagInOrder
  BY DEF Inv, ReleaseAcquire, FlagInOrder, AcquireInv, Progress
<1> QED BY <1>1, InvInit, InvNext, PTL DEF Spec

\* release_consume_order() with ptr initialised: what a consumer prints of the int
\* is complete, however consume is compiled; what it prints of v is complete, and v
\* does not race, if consume is promoted to acquire.
THEOREM ConsumeOrdersHolds == ASSUME Initialised PROVE Spec => []ConsumeOrders
<1>1. Inv => ConsumeOrders
  <2> SUFFICES ASSUME ConsumeInv, running \in Consuming PROVE ConsumeOrders
    BY DEF Inv, ConsumeOrders, Consuming
  <2>1. ASSUME NEW t \in Consumers, printed[t] # <<>>
        PROVE  printed[t][1] = 42 /\ (InPromoted /\ Len(printed[t]) = 2 => printed[t][2] = 1024)
    <3>1. ConsumerPrinted(t) /\ pc[t] \in {"look", "print_p", "print_v", "done"}
      BY DEF ConsumeInv, ConsumerKnows
    <3>2. CASE printed[t] = <<42>>
      BY <3>2
    <3>3. CASE \E n \in Int : printed[t] = <<42, n>> /\ (InPromoted => n = 1024)
      BY <3>3
    <3> QED BY <2>1, <3>1, <3>2, <3>3 DEF ConsumerPrinted
  <2>2. ASSUME NEW t \in Consumers, Len(printed[t]) = 2 PROVE printed[t] # <<>>
    BY <2>2
  <2>3. "object" \notin raced /\ (InPromoted => "v" \notin raced)
    BY DEF ConsumeInv, NoRace
  <2> QED BY <2>1, <2>2, <2>3 DEF ConsumeOrders, InPromoted
<1> QED BY <1>1, InvInit, InvNext, PTL DEF Spec

\* The counting functions: main() prints the number of calls of fetch_add(), for
\* any number of threads and each of the memory orders.
THEOREM PrintsTotalHolds == Spec => []PrintsTotal
<1>1. Inv => PrintsTotal
  <2>1. running # "7.6.atomic" => AllCalls = Relaxed!Calls
    BY DEF AllCalls, Turns, Relaxed!Calls
  <2>2. running = "7.6.atomic" => AllCalls = Atomic!Calls
    BY DEF AllCalls, Turns, Atomic!Calls
  <2>3. CountInv => printed \in {<<>>, <<Cardinality(AllCalls)>>}
    BY DEF CountInv
  <2>4. running \in Counting /\ Inv => CountInv
    BY DEF Inv
  <2>5. "7.6.atomic" \in Counting
    BY DEF Counting
  <2>6. Relaxed!Total = Cardinality(Relaxed!Calls)
    BY DEF Relaxed!Total, Relaxed!Cardinality, Cardinality
  <2>7. Atomic!Total = Cardinality(Atomic!Calls)
    BY DEF Atomic!Total, Atomic!Cardinality, Cardinality
  <2> QED BY <2>1, <2>2, <2>3, <2>4, <2>5, <2>6, <2>7 DEF PrintsTotal
<1> QED BY <1>1, InvInit, InvNext, PTL DEF Spec

------------------------------------------------------------------------------
(* A fetch_add() is one addition, whatever its memory order.               *)

IsCounting == running \in Counting

\* The counting functions as an abstract program that adds in one step; the
\* other functions do nothing in it.
Adds == INSTANCE AtomicAdds
    WITH Adders <- 1..Counters,
         Amount <- [t \in 1..Counters |-> 1],
         Plans <- {Once, SecondTwice},
         total <- IF IsCounting THEN mem["counter"][Len(mem["counter"])].val ELSE 0,
         left <- IF IsCounting THEN pc ELSE Once,
         printed <- IF IsCounting THEN printed ELSE <<>>

LEMMA AddsInit == Init => Adds!Init
<1> SUFFICES ASSUME Init PROVE Adds!Init
  OBVIOUS
<1>1. CASE ~IsCounting
  BY <1>1 DEF Adds!Init
<1>2. CASE IsCounting
  <2>1. Relaxed!Init \/ SeqCst!Init \/ Atomic!Init
    BY <1>2 DEF Init, IsCounting, Counting
  <2>2. mem["counter"] = <<[val |-> 0, knows |-> {}]>> /\ pc \in {Once, SecondTwice} /\ printed = <<>>
    BY <2>1 DEF Relaxed!Init, Relaxed!Booted, SeqCst!Init, SeqCst!Booted, Atomic!Init, Atomic!Booted
  <2> QED BY <1>2, <2>2 DEF Adds!Init
<1> QED BY <1>1, <1>2

LEMMA AddsStep == Inv /\ [Next]_vars => [Adds!Next]_(Adds!avars)
<1> SUFFICES ASSUME Inv, [Next]_vars PROVE Adds!Next \/ UNCHANGED Adds!avars
  OBVIOUS
<1>1. CASE UNCHANGED vars
  BY <1>1 DEF vars, Adds!avars, IsCounting
<1>2. CASE Next /\ ~IsCounting
  <2>1. UNCHANGED running
    BY <1>2 DEF Next, Running
  <2> QED BY <1>2, <2>1 DEF Adds!avars, IsCounting
<1>3. CASE Next /\ IsCounting
  <2>1. CountInv /\ UNCHANGED running /\ IsCounting'
    BY <1>3 DEF Inv, Next, Running, IsCounting
  <2>2. Relaxed!Next \/ SeqCst!Next \/ Atomic!Next
    BY <1>3 DEF Next, Running, IsCounting, Counting
  <2>3. ASSUME NEW t \in 1..Counters, Relaxed!Count(t) \/ SeqCst!Count(t) \/ Atomic!Count(t)
        PROVE  Adds!Next
    <3> DEFINE l == Len(mem["counter"])
    <3>1. PICK m, seen : /\ CountsOne(t, m, seen)
                         /\ m \in Writes(Nat, Counter) /\ m.val = l
      BY <2>1, <2>3, FetchAdds
    <3>2. /\ DOMAIN mem = Counter /\ "counter" \in Counter
          /\ mem["counter"] \in Seq(Writes(Nat, Counter))
      BY <2>1 DEF CountInv, CountTyped, Counter
    <3>3. mem'["counter"][Len(mem'["counter"])] = m
      <4>1. mem' = [mem EXCEPT !["counter"] = Append(@, m)]
        BY <3>1 DEF CountsOne
      <4>2. Len(mem'["counter"]) = l + 1 /\ mem'["counter"][l + 1] = m
        BY <3>1, <3>2, <4>1, Appended
      <4> QED BY <4>2
    <3>4. mem["counter"][l].val = l - 1
      <4>1. Cardinality(DoneCalls) \in Nat
        BY CallsFinite, FS_Subset, FS_CardinalityType DEF DoneCalls
      <4>2. l \in 1..l
        BY <2>1, <4>1 DEF CountInv, Exact
      <4> QED BY <2>1, <4>2 DEF CountInv, Exact
    <3>5. Len(mem["counter"]) \in Nat
      BY <3>2
    <3>6. mem'["counter"][Len(mem'["counter"])].val = mem["counter"][l].val + 1
      BY <3>1, <3>3, <3>4, <3>5
    <3>7. pc[t] > 0 /\ pc' = [pc EXCEPT ![t] = @ - 1] /\ UNCHANGED printed
      BY <3>1 DEF CountsOne
    <3>8. Adds!Add(t)
      BY <1>3, <2>1, <3>6, <3>7 DEF Adds!Add
    <3> QED BY <3>8 DEF Adds!Next
  <2>4. CASE JoinsOne
    BY <1>3, <2>1, <2>4 DEF JoinsOne, Adds!avars
  <2>5. ASSUME NEW k \in 1..Len(mem["counter"]), PrintsLast(k)
        PROVE  Adds!Next
    <3>1. k = Len(mem["counter"]) /\ \A t \in 1..Counters : pc[t] = 0
      BY <2>1, <2>5, PrintCounterKeeps
    <3>2. Adds!Report
      BY <1>3, <2>1, <2>5, <3>1 DEF PrintsLast, Adds!Report
    <3> QED BY <3>2 DEF Adds!Next
  <2>6. CASE UNCHANGED <<mem, cur, rel, pc, local, printed>>
    BY <1>3, <2>1, <2>6 DEF Adds!avars
  <2> QED BY <2>1, <2>2, <2>3, <2>4, <2>5, <2>6, CountingSteps
<1> QED BY <1>1, <1>2, <1>3

\* The counting functions, relaxed or not, do nothing that a program with
\* indivisible additions and a print after the last of them could not do.
THEOREM CountingAddsSafely == Spec => Adds!Safe
<1> QED BY InvInit, InvNext, AddsInit, AddsStep, PTL DEF Spec, Adds!Safe

==============================================================================
