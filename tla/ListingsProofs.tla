---------------------------- MODULE ListingsProofs ----------------------------
(***************************************************************************)
(* Theorems about Listings: for any number of threads and any arguments of *)
(* 7.2 and 7.3, any program on the heap of Lifetimes with any number of    *)
(* objects, and paths of any length.                                       *)
(***************************************************************************)
EXTENDS Listings, FiniteSetTheorems, SequenceTheorems, WellFoundedInduction, TLAPS

------------------------------------------------------------------------------
(* Sets of numbers.                                                        *)

LEMMA HasMin ==
    ASSUME NEW S \in SUBSET Nat, S # {}
    PROVE  \E x \in S : \A y \in S : x <= y
<1>1. IsWellFoundedOn(OpToRel(<,Nat), Nat)
  BY NatLessThanWellFounded
<1>2. PICK x \in S : \A y \in S : ~ (<<y, x>> \in OpToRel(<,Nat))
  BY <1>1, WFMin
<1>3. \A y \in S : ~ (y < x)
  BY <1>2 DEF OpToRel
<1> QED BY <1>3

LEMMA HasMax ==
    ASSUME NEW m \in Nat, NEW S \in SUBSET (0..m - 1), S # {}
    PROVE  \E x \in S : \A y \in S : y <= x
<1> DEFINE R == {m - k : k \in S}
<1>0. \A k \in S : m - k \in Nat
  OBVIOUS
<1>1. R \in SUBSET Nat /\ R # {}
  <2>1. R \in SUBSET Nat
    BY <1>0
  <2>2. PICK k \in S : TRUE
    OBVIOUS
  <2>3. m - k \in R
    BY <2>2
  <2> QED BY <2>1, <2>3
<1> HIDE DEF R
<1>2. PICK x \in R : \A y \in R : x <= y
  BY <1>1, HasMin
<1> USE DEF R
<1>3. PICK k \in S : x = m - k
  BY <1>2
<1>4. ASSUME NEW j \in S PROVE j <= k
  <2>1. m - j \in R
    OBVIOUS
  <2>2. x <= m - j
    BY <1>2, <2>1
  <2> QED BY <1>3, <2>2
<1> QED BY <1>3, <1>4

------------------------------------------------------------------------------
(* The path of the default resource.                                       *)

\* find() answers with the first dot from a position on, if there is one ...
LEMMA FindFirst ==
    ASSUME NEW s \in Seq(Chars), NEW from \in Nat
    PROVE  LET k == P!Find(s, from)
           IN  \/ k = NPos /\ \A j \in P!Dots(s) : j < from
               \/ k \in P!Dots(s) /\ from <= k /\ k \in Nat
                  /\ \A j \in P!Dots(s) : from <= j => k <= j
<1> DEFINE hits == {k \in P!Dots(s) : from <= k}
<1>1. P!Dots(s) \in SUBSET Nat
  BY DEF P!Dots
<1>2. CASE hits = {}
  <2>1. P!Find(s, from) = NPos
    BY <1>2 DEF P!Find
  <2>2. \A j \in P!Dots(s) : j < from
    BY <1>1, <1>2
  <2> QED BY <2>1, <2>2
<1>3. CASE hits # {}
  <2>1. \E k \in hits : \A j \in hits : k <= j
    BY <1>1, <1>3, HasMin
  <2>2. P!Find(s, from) = CHOOSE k \in hits : \A j \in hits : k <= j
    BY <1>3 DEF P!Find
  <2>3. P!Find(s, from) \in hits /\ \A j \in hits : P!Find(s, from) <= j
    BY <2>1, <2>2
  <2> QED BY <1>1, <2>3
<1> QED BY <1>2, <1>3

\* ... and rfind() with the last one.
LEMMA RFindLast ==
    ASSUME NEW s \in Seq(Chars)
    PROVE  LET k == P!RFind(s)
           IN  \/ k = NPos /\ P!Dots(s) = {}
               \/ k \in P!Dots(s) /\ \A j \in P!Dots(s) : j <= k
<1>1. Len(s) \in Nat /\ P!Dots(s) \in SUBSET (0..Len(s) - 1)
  BY DEF P!Dots
<1>2. P!Dots(s) # {} => \E k \in P!Dots(s) : \A j \in P!Dots(s) : j <= k
  BY <1>1, HasMax
<1> QED BY <1>2 DEF P!RFind

\* erase() moves the dots that are behind it.
LEMMA EraseDots ==
    ASSUME NEW s \in Seq(Chars), NEW k \in P!Dots(s)
    PROVE  /\ P!Erase(s, k) \in Seq(Chars)
           /\ P!Dots(P!Erase(s, k)) =
                 {j \in P!Dots(s) : j < k} \cup {j - 1 : j \in {j \in P!Dots(s) : j > k}}
<1>1. Len(s) \in Nat /\ k \in 0..Len(s) - 1
  BY DEF P!Dots
<1> DEFINE e == P!Erase(s, k)
<1>2. e = [i \in 1..Len(s) - 1 |-> IF i <= k THEN s[i] ELSE s[i + 1]]
  BY DEF P!Erase
<1>3. e \in Seq(Chars) /\ Len(e) = Len(s) - 1
  <2>1. \A i \in 1..Len(s) - 1 : (IF i <= k THEN s[i] ELSE s[i + 1]) \in Chars
    BY <1>1
  <2>2. Len(s) - 1 \in Nat
    BY <1>1
  <2>3. e \in [1..Len(s) - 1 -> Chars]
    BY <1>2, <2>1
  <2> QED BY <2>2, <2>3
<1> HIDE DEF e
<1>4. ASSUME NEW j \in 0..Len(s) - 2 PROVE e[j + 1] = IF j < k THEN s[j + 1] ELSE s[j + 2]
  BY <1>1, <1>2, <1>4
<1>5. P!Dots(e) = {j \in 0..Len(s) - 2 : e[j + 1] = "."}
  BY <1>1, <1>3 DEF P!Dots
<1>6. ASSUME NEW j \in P!Dots(e)
      PROVE  \/ j \in P!Dots(s) /\ j < k
             \/ j + 1 \in P!Dots(s) /\ j + 1 > k /\ j = (j + 1) - 1
  <2>1. j \in 0..Len(s) - 2 /\ e[j + 1] = "."
    BY <1>5
  <2>2. CASE j < k
    BY <1>1, <1>4, <2>1, <2>2 DEF P!Dots
  <2>3. CASE j >= k
    <3>1. s[j + 2] = "." /\ j + 1 \in 0..Len(s) - 1 /\ (j + 1) + 1 = j + 2
      BY <1>1, <1>4, <2>1, <2>3
    <3>2. j + 1 \in P!Dots(s)
      BY <3>1 DEF P!Dots
    <3> QED BY <1>1, <2>1, <2>3, <3>2
  <2> QED BY <1>1, <2>1, <2>2, <2>3
<1>7. ASSUME NEW j \in P!Dots(s), j < k PROVE j \in P!Dots(e)
  <2>1. j \in 0..Len(s) - 2 /\ s[j + 1] = "."
    BY <1>1, <1>7 DEF P!Dots
  <2> QED BY <1>4, <1>5, <1>7, <2>1
<1>8. ASSUME NEW j \in P!Dots(s), j > k PROVE j - 1 \in P!Dots(e)
  <2>1. j \in 0..Len(s) - 1 /\ s[j + 1] = "." /\ (j - 1) + 2 = j + 1
    BY DEF P!Dots
  <2>2. j - 1 \in 0..Len(s) - 2 /\ ~(j - 1 < k)
    BY <1>1, <1>8, <2>1
  <2>3. e[(j - 1) + 1] = s[j + 1]
    BY <1>4, <2>1, <2>2
  <2> QED BY <1>5, <2>1, <2>2, <2>3
<1>9. P!Dots(e) = {j \in P!Dots(s) : j < k} \cup {j - 1 : j \in {j \in P!Dots(s) : j > k}}
  BY <1>6, <1>7, <1>8
<1> QED BY <1>3, <1>9 DEF e

\* No dot is before current_pos, and last_pos is the last one: so what find()
\* finds is a dot to erase, or the only one that is left.
PathInv ==
    /\ path \in Seq(Chars)
    /\ current_pos \in Nat
    /\ stage = "loop" =>
          /\ \A k \in P!Dots(path) : current_pos <= k
          /\ \/ last_pos = NPos /\ P!Dots(path) = {}
             \/ last_pos \in P!Dots(path) /\ \A j \in P!Dots(path) : j <= last_pos
    /\ OneDotLeft

LEMMA PathInit == Init => PathInv
<1>1. ASSUME P!Init PROVE PathInv
  <2>1. path \in Seq(Chars) /\ current_pos = 0 /\ stage = "loop" /\ last_pos = P!RFind(path)
    BY <1>1, PathsAssumption DEF P!Init
  <2>2. \A k \in P!Dots(path) : 0 <= k
    BY DEF P!Dots
  <2> QED BY <2>1, <2>2, RFindLast DEF PathInv, OneDotLeft, P!OneDotLeft
<1>2. ASSUME RequestParked PROVE PathInv
  <2>1. path = <<>> /\ current_pos = 0 /\ stage = "parked"
    BY <1>2 DEF RequestParked
  <2>2. P!Dots(path) = {}
    BY <2>1 DEF P!Dots
  <2> QED BY <2>1, <2>2 DEF PathInv, OneDotLeft, P!OneDotLeft
<1> QED BY <1>1, <1>2 DEF Init

LEMMA EraseDotKeeps == ASSUME PathInv, P!EraseDot PROVE PathInv'
<1> DEFINE k == P!Find(path, current_pos)
<1>1. /\ stage = "loop" /\ stage' = stage
      /\ k # NPos /\ k # last_pos
      /\ current_pos' = k /\ last_pos' = last_pos - 1
      /\ path' = P!Erase(path, k)
  BY DEF P!EraseDot, P!EraseAt
<1>2. /\ path \in Seq(Chars) /\ current_pos \in Nat
      /\ \A j \in P!Dots(path) : current_pos <= j
      /\ \/ last_pos = NPos /\ P!Dots(path) = {}
         \/ last_pos \in P!Dots(path) /\ \A j \in P!Dots(path) : j <= last_pos
  BY <1>1 DEF PathInv
<1>3. k \in P!Dots(path) /\ k \in Nat /\ \A j \in P!Dots(path) : k <= j
  BY <1>1, <1>2, FindFirst
<1> HIDE DEF k
<1>4. P!Dots(path) \in SUBSET Nat
  BY <1>2 DEF P!Dots
<1>5. last_pos \in P!Dots(path) /\ k < last_pos /\ \A j \in P!Dots(path) : j <= last_pos
  BY <1>1, <1>2, <1>3, <1>4
<1>6. path' \in Seq(Chars) /\ P!Dots(path') = {j - 1 : j \in {j \in P!Dots(path) : j > k}}
  <2>1. {j \in P!Dots(path) : j < k} = {}
    BY <1>3, <1>4
  <2> QED BY <1>1, <1>2, <1>3, <2>1, EraseDots
<1>7. \A j \in P!Dots(path') : k <= j
  BY <1>3, <1>4, <1>6
<1>8. last_pos - 1 \in P!Dots(path') /\ \A j \in P!Dots(path') : j <= last_pos - 1
  BY <1>4, <1>5, <1>6
<1>9. P!Dots(path)' = P!Dots(path')
  BY DEF P!Dots
<1> QED BY <1>1, <1>3, <1>6, <1>7, <1>8, <1>9 DEF PathInv, OneDotLeft, P!OneDotLeft

LEMMA EndLoopKeeps == ASSUME PathInv, P!EndLoop PROVE PathInv'
<1> DEFINE k == P!Find(path, current_pos)
<1>1. /\ stage = "loop" /\ stage' = "name"
      /\ k = NPos \/ k = last_pos
      /\ path' = path /\ current_pos' = current_pos
  BY DEF P!EndLoop, P!EndLoopAt
<1>2. /\ path \in Seq(Chars) /\ current_pos \in Nat
      /\ \A j \in P!Dots(path) : current_pos <= j
      /\ \/ last_pos = NPos /\ P!Dots(path) = {}
         \/ last_pos \in P!Dots(path) /\ \A j \in P!Dots(path) : j <= last_pos
  BY <1>1 DEF PathInv
<1>3. P!Dots(path) \in SUBSET Nat
  BY <1>2 DEF P!Dots
<1>4. \/ k = NPos /\ \A j \in P!Dots(path) : j < current_pos
      \/ k \in P!Dots(path) /\ \A j \in P!Dots(path) : k <= j
  BY <1>2, FindFirst
<1> HIDE DEF k
<1>5. \A i, j \in P!Dots(path) : i = j
  <2>1. CASE k = NPos /\ \A j \in P!Dots(path) : j < current_pos
    BY <1>2, <1>3, <2>1
  <2>2. CASE k \in P!Dots(path) /\ \A j \in P!Dots(path) : k <= j
    <3>1. k # NPos
      BY <1>3, <2>2, PathsAssumption
    <3>2. \A j \in P!Dots(path) : j <= k
      BY <1>1, <1>2, <2>2, <3>1
    <3> QED BY <1>3, <2>2, <3>2
  <2> QED BY <1>4, <2>1, <2>2
<1>6. P!Dots(path)' = P!Dots(path)
  BY <1>1 DEF P!Dots
<1> QED BY <1>1, <1>2, <1>5, <1>6 DEF PathInv, OneDotLeft, P!OneDotLeft

LEMMA PathNext == PathInv /\ [Next]_vars => PathInv'
<1> SUFFICES ASSUME PathInv, [Next]_vars PROVE PathInv'
  OBVIOUS
<1>1. ASSUME UNCHANGED request PROVE PathInv'
  BY <1>1 DEF PathInv, OneDotLeft, P!OneDotLeft, P!Dots, request
<1>2. ASSUME PathStep PROVE PathInv'
  <2>1. CASE P!EraseDot
    BY <2>1, EraseDotKeeps
  <2>2. CASE P!EndLoop
    BY <2>2, EndLoopKeeps
  <2>3. CASE P!NameFile \/ P!Open
    <3>1. /\ path' = path /\ current_pos' = current_pos
          /\ stage # "loop" /\ stage' # "loop"
      BY <2>3 DEF P!NameFile, P!Open
    <3> QED BY <3>1 DEF PathInv, OneDotLeft, P!OneDotLeft, P!Dots
  <2> QED BY <1>2, <2>1, <2>2, <2>3 DEF PathStep, P!Step
<1>3. PathStep \/ UNCHANGED request
  BY DEF Next, ThreadStep, HeapStep, TupleStep, Stopped, vars
<1> QED BY <1>1, <1>2, <1>3

\* Of a path of any length the loop leaves at most one dot.
THEOREM PathKeepsOneDot == Spec => []OneDotLeft
<1>1. PathInv => OneDotLeft
  BY DEF PathInv
<1> QED BY <1>1, PathInit, PathNext, PTL DEF Spec

\* f says where in the requested path the characters of path come from: in their
\* order, and all that is missing is dots.
ComesFrom(f) ==
    /\ f \in [1..Len(path) -> 1..Len(requested)]
    /\ \A i, j \in 1..Len(path) : i < j => f[i] < f[j]
    /\ \A i \in 1..Len(path) : path[i] = requested[f[i]]
    /\ \A j \in 1..Len(requested) :
          requested[j] = "." \/ \E i \in 1..Len(path) : f[i] = j

LastDot(d) == d \in P!Dots(requested) /\ \A e \in P!Dots(requested) : e <= d

\* Nothing but dots is erased, and the last one is not.
OnlyDotsErased ==
    \E f : ComesFrom(f) /\ \A d : LastDot(d) => \E i \in 1..Len(path) : f[i] = d + 1

\* While the loop runs, last_pos is where the last dot has moved to.
ErasedInv ==
    /\ requested \in Seq(Chars)
    /\ \E f : /\ ComesFrom(f)
              /\ \A d : LastDot(d) =>
                    \E i \in 1..Len(path) : f[i] = d + 1 /\ (stage = "loop" => i = last_pos + 1)

LEMMA ErasedInit == Init => ErasedInv
<1> SUFFICES ASSUME Init PROVE ErasedInv
  OBVIOUS
<1>1. /\ path = requested /\ requested \in Seq(Chars)
      /\ stage = "loop" => last_pos = P!RFind(path)
  <2>1. CASE P!Init
    BY <2>1, PathsAssumption DEF P!Init
  <2>2. CASE RequestParked
    <3>1. path = <<>> /\ requested = <<>> /\ stage # "loop"
      BY <2>2 DEF RequestParked
    <3> QED BY <3>1
  <2> QED BY <2>1, <2>2 DEF Init
<1> DEFINE f == [i \in 1..Len(path) |-> i]
<1>2. ComesFrom(f)
  BY <1>1 DEF ComesFrom
<1>3. ASSUME NEW d, LastDot(d)
      PROVE  d + 1 \in 1..Len(path) /\ f[d + 1] = d + 1
             /\ (stage = "loop" => d + 1 = last_pos + 1)
  <2>1. d \in 0..Len(path) - 1 /\ d \in P!Dots(path) /\ \A e \in P!Dots(path) : e <= d
    BY <1>1, <1>3 DEF LastDot, P!Dots
  <2>2. d + 1 \in 1..Len(path)
    BY <1>1, <2>1
  <2>3. CASE stage = "loop"
    <3>1. P!RFind(path) \in P!Dots(path) /\ d <= P!RFind(path)
      BY <1>1, <2>1, RFindLast
    <3>2. P!RFind(path) \in Nat /\ P!RFind(path) <= d
      BY <2>1, <3>1 DEF P!Dots
    <3> QED BY <1>1, <2>1, <2>2, <2>3, <3>1, <3>2
  <2> QED BY <2>2, <2>3
<1> QED BY <1>1, <1>2, <1>3 DEF ErasedInv

LEMMA EraseDotErases == ASSUME PathInv, ErasedInv, P!EraseDot PROVE ErasedInv'
<1> DEFINE k == P!Find(path, current_pos)
<1>0. PICK n_path : n_path = Len(path)
  OBVIOUS
<1>1. /\ stage = "loop" /\ stage' = stage /\ requested' = requested
      /\ k # NPos /\ k # last_pos
      /\ last_pos' = last_pos - 1 /\ path' = P!Erase(path, k)
  BY DEF P!EraseDot, P!EraseAt
<1>2. /\ path \in Seq(Chars) /\ current_pos \in Nat /\ requested \in Seq(Chars)
      /\ \/ last_pos = NPos /\ P!Dots(path) = {}
         \/ last_pos \in P!Dots(path) /\ \A j \in P!Dots(path) : j <= last_pos
  BY <1>1 DEF PathInv, ErasedInv
<1>3. k \in P!Dots(path) /\ last_pos \in P!Dots(path) /\ k <= last_pos
  BY <1>1, <1>2, FindFirst
<1> HIDE DEF k
<1>4. /\ n_path \in Nat /\ k \in 0..n_path - 1 /\ path[k + 1] = "."
      /\ last_pos \in 0..n_path - 1 /\ k < last_pos
  BY <1>0, <1>1, <1>2, <1>3 DEF P!Dots
<1>5. /\ path' = [i \in 1..n_path - 1 |-> IF i <= k THEN path[i] ELSE path[i + 1]]
      /\ Len(path') = n_path - 1
  <2>1. path' = [i \in 1..n_path - 1 |-> IF i <= k THEN path[i] ELSE path[i + 1]]
    BY <1>0, <1>1 DEF P!Erase
  <2>2. path' \in Seq(Chars)
    BY <1>1, <1>2, <1>3, EraseDots
  <2>3. DOMAIN path' = 1..Len(path') /\ Len(path') \in Nat
    BY <2>2
  <2> QED BY <1>4, <2>1, <2>3
<1>6. PICK f : /\ ComesFrom(f)
               /\ \A d : LastDot(d) => \E i \in 1..n_path : f[i] = d + 1 /\ i = last_pos + 1
  BY <1>0, <1>1 DEF ErasedInv
<1>7. /\ f \in [1..n_path -> 1..Len(requested)] /\ Len(requested) \in Nat
      /\ \A i, j \in 1..n_path : i < j => f[i] < f[j]
      /\ \A i \in 1..n_path : path[i] = requested[f[i]]
      /\ \A j \in 1..Len(requested) : requested[j] = "." \/ \E i \in 1..n_path : f[i] = j
  BY <1>0, <1>2, <1>6 DEF ComesFrom
<1>g. PICK g : g = [i \in 1..n_path - 1 |-> IF i <= k THEN f[i] ELSE f[i + 1]]
  OBVIOUS
\* Position i of path has moved to To(i), unless it is the one that is erased.
<1> DEFINE To(i) == IF i <= k THEN i ELSE i - 1
<1>8. ASSUME NEW i \in 1..n_path, i # k + 1
      PROVE  To(i) \in 1..n_path - 1 /\ g[To(i)] = f[i]
  BY <1>4, <1>8, <1>g
<1>9. ASSUME NEW i \in 1..n_path - 1
      PROVE  \E j \in 1..n_path : /\ g[i] = f[j] /\ path'[i] = path[j]
                                  /\ j = IF i <= k THEN i ELSE i + 1
  BY <1>4, <1>5, <1>9, <1>g
<1>10. ComesFrom(g)'
  <2>1. g \in [1..n_path - 1 -> 1..Len(requested)]
    BY <1>7, <1>9, <1>g
  <2>2. ASSUME NEW i \in 1..n_path - 1, NEW j \in 1..n_path - 1, i < j PROVE g[i] < g[j]
    BY <1>4, <1>7, <1>9, <2>2
  <2>3. \A i \in 1..n_path - 1 : path'[i] = requested[g[i]]
    BY <1>7, <1>9
  <2>4. ASSUME NEW j \in 1..Len(requested), requested[j] # "."
        PROVE  \E i \in 1..n_path - 1 : g[i] = j
    <3>1. PICK i \in 1..n_path : f[i] = j
      BY <1>7, <2>4
    <3>2. i # k + 1
      BY <1>4, <1>7, <2>4, <3>1
    <3> QED BY <1>8, <3>1, <3>2
  <2> QED BY <1>1, <1>5, <2>1, <2>2, <2>3, <2>4 DEF ComesFrom
<1>11. ASSUME NEW d, LastDot(d)'
       PROVE  \E i \in 1..n_path - 1 : g[i] = d + 1 /\ i = last_pos' + 1
  <2>1. LastDot(d)
    BY <1>1, <1>11 DEF LastDot, P!Dots
  <2>2. f[last_pos + 1] = d + 1
    BY <1>6, <2>1
  <2>3. g[last_pos] = f[last_pos + 1] /\ last_pos \in 1..n_path - 1
    BY <1>4, <1>g
  <2> QED BY <1>1, <1>4, <2>2, <2>3
<1>12. \A d : LastDot(d)' => \E i \in 1..Len(path') :
                  g[i] = d + 1 /\ (stage' = "loop" => i = last_pos' + 1)
  BY <1>5, <1>11
<1>13. requested' \in Seq(Chars)
  BY <1>1, <1>2
<1> QED BY <1>10, <1>12, <1>13, Zenon DEF ErasedInv

LEMMA ErasedNext == PathInv /\ ErasedInv /\ [Next]_vars => ErasedInv'
<1> SUFFICES ASSUME PathInv, ErasedInv, [Next]_vars PROVE ErasedInv'
  OBVIOUS
<1>1. ASSUME path' = path, requested' = requested, stage' = "loop" => stage = "loop" /\ last_pos' = last_pos
      PROVE  ErasedInv'
  <2>1. \A f : ComesFrom(f) => ComesFrom(f)'
    BY <1>1 DEF ComesFrom
  <2>2. \A d : LastDot(d)' <=> LastDot(d)
    BY <1>1 DEF LastDot, P!Dots
  <2> QED BY <1>1, <2>1, <2>2 DEF ErasedInv
<1>2. ASSUME PathStep PROVE ErasedInv'
  <2>1. CASE P!EraseDot
    BY <2>1, EraseDotErases
  <2>2. CASE P!EndLoop \/ P!NameFile \/ P!Open
    <3>1. path' = path /\ requested' = requested /\ stage' # "loop"
      BY <2>2 DEF P!EndLoop, P!EndLoopAt, P!NameFile, P!Open
    <3> QED BY <1>1, <3>1
  <2> QED BY <1>2, <2>1, <2>2 DEF PathStep, P!Step
<1>3. ASSUME UNCHANGED request PROVE ErasedInv'
  BY <1>1, <1>3 DEF request
<1>4. PathStep \/ UNCHANGED request
  BY DEF Next, ThreadStep, HeapStep, TupleStep, Stopped, vars
<1> QED BY <1>2, <1>3, <1>4

\* What the loop makes of a path of any length is the path without some of its
\* dots: no other character is erased or moved, and the last dot stays.
THEOREM PathLosesOnlyDots == Spec => []OnlyDotsErased
<1>1. ErasedInv => OnlyDotsErased
  BY DEF ErasedInv, OnlyDotsErased
<1> QED BY <1>1, PathInit, PathNext, ErasedInit, ErasedNext, PTL DEF Spec

------------------------------------------------------------------------------
(* The critical sections.                                                  *)

\* The last assignment to v was the k-th operation on it, additions followed.
LastAssignment(k) ==
    /\ k \in DOMAIN applied
    /\ applied[k][2] = 0
    /\ \A m \in DOMAIN applied : m > k => applied[m][2] = 1
    /\ v = Change[applied[k][1]] + Len(applied) - k

ThreadsType ==
    /\ pc \in [Threads -> C!Holding \cup {"lock", "lock again", "done"}]
    /\ mtx \in Threads \cup {Nobody}
    /\ v \in Int
    /\ reg \in [Threads -> Int]
    /\ printed \in [Threads -> Seq(Int)]
    /\ applied \in Seq(Threads \X {0, 1})

\* mtx keeps the groups of operations apart.
MutualExclusion == \A t \in Threads : pc[t] \in C!Holding <=> mtx = t

\* What a thread between two operations of a group knows of v.
Knows(t) ==
    /\ pc[t] = "print" => v = Change[t]
    /\ pc[t] = "write" => reg[t] = v

Printed(t) ==
    /\ printed[t] # <<>> => printed[t][1] = Change[t]
    /\ pc[t] \in {"lock again", "read", "write", "print again"} => printed[t] # <<>>
    /\ pc[t] = "unlock" /\ C!Twice => printed[t] # <<>>

Applied ==
    \/ applied = <<>> /\ v = 1 /\ \A t \in Threads : pc[t] \in {"lock", "assign"}
    \/ \E k \in DOMAIN applied : LastAssignment(k)

CriticalInv ==
    InCriticalSection =>
        /\ ThreadsType
        /\ MutualExclusion
        /\ \A t \in Threads : Knows(t) /\ Printed(t)
        /\ Applied

LEMMA CriticalImplies == CriticalInv => NoUpdateLost
<1> SUFFICES ASSUME InCriticalSection, CriticalInv PROVE C!NoUpdateLost
  BY DEF NoUpdateLost
<1> DEFINE assignments == {k \in DOMAIN applied : applied[k][2] = 0}
           last == {k \in assignments : \A m \in assignments : m <= k}
<1>1. applied \in Seq(Threads \X {0, 1}) /\ \A t \in Threads : Printed(t)
  BY DEF CriticalInv, ThreadsType
<1>2. CASE applied = <<>> /\ v = 1
  <2>1. last = {}
    BY <1>1, <1>2
  <2>2. \A s \in Threads : printed[s] # <<>> => printed[s][1] = Change[s]
    BY <1>1 DEF Printed
  <2>3. (last = {} => v = 1 /\ applied = <<>>)
        /\ \A m \in last : v = Change[applied[m][1]] + Len(applied) - m
    BY <1>2, <2>1
  <2> QED BY <2>2, <2>3, Zenon DEF C!NoUpdateLost
<1>3. CASE \E k \in DOMAIN applied : LastAssignment(k)
  <2>1. PICK k \in DOMAIN applied : LastAssignment(k)
    BY <1>3
  <2>2. DOMAIN applied = 1..Len(applied) /\ Len(applied) \in Nat
    BY <1>1
  <2>3. last = {k}
    BY <2>1, <2>2 DEF LastAssignment
  <2>4. v = Change[applied[k][1]] + Len(applied) - k
    BY <2>1 DEF LastAssignment
  <2>5. \A s \in Threads : printed[s] # <<>> => printed[s][1] = Change[s]
    BY <1>1 DEF Printed
  <2>6. (last = {} => v = 1 /\ applied = <<>>)
        /\ \A m \in last : v = Change[applied[m][1]] + Len(applied) - m
    BY <2>3, <2>4
  <2> QED BY <2>5, <2>6, Zenon DEF C!NoUpdateLost
<1> QED BY <1>2, <1>3 DEF CriticalInv, Applied

LEMMA CriticalInit == Init => CriticalInv
<1>1. ASSUME Init, InCriticalSection PROVE C!Init
  BY <1>1 DEF Init, InCriticalSection, L!Init, L!Programs
<1>2. ASSUME C!Init PROVE CriticalInv
  BY <1>2, ThreadsAssumption
  DEF C!Init, CriticalInv, ThreadsType, MutualExclusion, Knows, Printed, Applied, C!Holding
<1> QED BY <1>1, <1>2 DEF CriticalInv

\* The induction hypothesis of a step of the critical sections.
CriticalTyped == InCriticalSection /\ InCriticalSection' /\ CriticalInv /\ program' = program

LEMMA LockKeeps ==
    ASSUME CriticalTyped, NEW t \in Threads, C!Lock(t) PROVE CriticalInv'
<1> USE DEF C!Holding
<1>1. /\ pc[t] \in {"lock", "lock again"} /\ mtx = Nobody
      /\ mtx' = t /\ pc' = [pc EXCEPT ![t] = IF pc[t] = "lock" THEN "assign" ELSE "read"]
      /\ UNCHANGED <<program, v, reg, printed, applied>>
  BY DEF C!Lock, C!Take, C!Goto
<1>2. ThreadsType /\ MutualExclusion /\ Applied /\ \A s \in Threads : Knows(s) /\ Printed(s)
  BY DEF CriticalTyped, CriticalInv
<1>3. ThreadsType'
  BY <1>1, <1>2 DEF ThreadsType
<1>4. MutualExclusion'
  BY <1>1, <1>2, ThreadsAssumption DEF ThreadsType, MutualExclusion
<1>5. \A s \in Threads : Knows(s)' /\ Printed(s)'
  BY <1>1, <1>2 DEF ThreadsType, Knows, Printed, C!Twice
<1>6. Applied'
  BY <1>1, <1>2 DEF ThreadsType, Applied, LastAssignment
<1> QED BY <1>3, <1>4, <1>5, <1>6 DEF CriticalInv

\* What an operation on v adds to applied.
LEMMA Operation ==
    ASSUME ThreadsType, NEW t \in Threads, NEW kind \in {0, 1},
           applied' = Append(applied, <<t, kind>>)
    PROVE  /\ applied' \in Seq(Threads \X {0, 1})
           /\ Len(applied) \in Nat /\ Len(applied') = Len(applied) + 1
           /\ DOMAIN applied = 1..Len(applied) /\ DOMAIN applied' = 1..Len(applied) + 1
           /\ applied'[Len(applied) + 1] = <<t, kind>>
           /\ \A k \in 1..Len(applied) : applied'[k] = applied[k]
<1>1. applied \in Seq(Threads \X {0, 1}) /\ <<t, kind>> \in Threads \X {0, 1}
  BY DEF ThreadsType
<1> QED BY <1>1

LEMMA AssignKeeps ==
    ASSUME CriticalTyped, NEW t \in Threads, C!Assign(t) PROVE CriticalInv'
<1> USE DEF C!Holding
<1>1. /\ pc[t] = "assign" /\ v' = Change[t] /\ applied' = Append(applied, <<t, 0>>)
      /\ pc' = [pc EXCEPT ![t] = IF C!Twice THEN "print" ELSE "unlock"]
      /\ UNCHANGED <<program, mtx, reg, printed>>
  BY DEF C!Assign, C!AssignThen, C!Goto
<1>2. ThreadsType /\ MutualExclusion /\ Applied /\ \A s \in Threads : Knows(s) /\ Printed(s)
  BY DEF CriticalTyped, CriticalInv
<1>o. /\ applied' \in Seq(Threads \X {0, 1})
      /\ Len(applied) \in Nat /\ Len(applied') = Len(applied) + 1
      /\ DOMAIN applied = 1..Len(applied) /\ DOMAIN applied' = 1..Len(applied) + 1
      /\ applied'[Len(applied) + 1] = <<t, 0>>
      /\ \A k \in 1..Len(applied) : applied'[k] = applied[k]
  BY <1>1, <1>2, Operation
<1>3. ThreadsType'
  <2>1. v' \in Int
    BY <1>1, ThreadsAssumption
  <2> QED BY <1>1, <1>2, <1>o, <2>1 DEF ThreadsType
<1>4. MutualExclusion'
  BY <1>1, <1>2 DEF ThreadsType, MutualExclusion
<1>5. \A s \in Threads : Knows(s)' /\ Printed(s)'
  <2>1. \A s \in Threads : s # t => pc[s] \notin {"print", "write"}
    BY <1>1, <1>2 DEF MutualExclusion
  <2>2. \A s \in Threads : Knows(s)'
    BY <1>1, <1>2, <2>1 DEF ThreadsType, Knows
  <2>3. \A s \in Threads : Printed(s)'
    BY <1>1, <1>2 DEF ThreadsType, Printed, C!Twice
  <2> QED BY <2>2, <2>3
<1>6. \E k \in DOMAIN applied' : LastAssignment(k)'
  <2>1. v' = Change[t] + Len(applied') - (Len(applied) + 1)
    BY <1>1, <1>2, <1>o, ThreadsAssumption
  <2>2. Len(applied) + 1 \in DOMAIN applied' /\ applied'[Len(applied) + 1][2] = 0
        /\ applied'[Len(applied) + 1][1] = t
    BY <1>o
  <2>3. \A m \in DOMAIN applied' : ~(m > Len(applied) + 1)
    BY <1>o
  <2> QED BY <1>1, <2>1, <2>2, <2>3 DEF LastAssignment
<1>7. Applied'
  BY <1>6 DEF Applied
<1> QED BY <1>3, <1>4, <1>5, <1>7 DEF CriticalInv

LEMMA WriteKeeps ==
    ASSUME CriticalTyped, NEW t \in Threads, C!WriteV(t) PROVE CriticalInv'
<1> USE DEF C!Holding
<1>v. v' = reg[t] + 1 /\ applied' = Append(applied, <<t, 1>>)
  BY DEF C!WriteV
<1>1. /\ pc[t] = "write"
      /\ pc' = [pc EXCEPT ![t] = "print again"]
      /\ UNCHANGED <<program, mtx, reg, printed>>
  BY DEF C!WriteV, C!Goto
<1>2. ThreadsType /\ MutualExclusion /\ Applied /\ \A s \in Threads : Knows(s) /\ Printed(s)
  BY DEF CriticalTyped, CriticalInv
<1>o. /\ applied' \in Seq(Threads \X {0, 1})
      /\ Len(applied) \in Nat /\ Len(applied') = Len(applied) + 1
      /\ DOMAIN applied = 1..Len(applied) /\ DOMAIN applied' = 1..Len(applied) + 1
      /\ applied'[Len(applied) + 1] = <<t, 1>>
      /\ \A k \in 1..Len(applied) : applied'[k] = applied[k]
  BY <1>v, <1>2, Operation
<1>3. ThreadsType'
  <2>1. reg[t] \in Int
    BY <1>2 DEF ThreadsType
  <2>2. v' \in Int
    BY <1>v, <2>1
  <2> QED BY <1>1, <1>2, <1>o, <2>2 DEF ThreadsType
<1>4. MutualExclusion'
  BY <1>1, <1>2 DEF ThreadsType, MutualExclusion
<1>5. \A s \in Threads : Knows(s)' /\ Printed(s)'
  <2>0. mtx = t
    BY <1>1, <1>2 DEF MutualExclusion
  <2>1. \A s \in Threads : s # t => pc[s] \notin {"print", "write"}
    BY <1>2, <2>0 DEF MutualExclusion
  <2>2. \A s \in Threads : Knows(s)'
    BY <1>1, <1>2, <2>1 DEF ThreadsType, Knows
  <2>3. \A s \in Threads : Printed(s)'
    BY <1>1, <1>2 DEF ThreadsType, Printed, C!Twice
  <2> QED BY <2>2, <2>3
<1>6. Applied'
  <2>1. PICK k \in DOMAIN applied : LastAssignment(k)
    BY <1>1, <1>2 DEF Applied
  <2>2. v' = v + 1 /\ v = Change[applied[k][1]] + Len(applied) - k
    <3>1. reg[t] = v
      BY <1>1, <1>2 DEF Knows
    <3> QED BY <1>v, <2>1, <3>1 DEF LastAssignment
  <2>3. k \in 1..Len(applied) /\ applied[k] \in Threads \X {0, 1}
    <3>1. applied \in Seq(Threads \X {0, 1})
      BY <1>2 DEF ThreadsType
    <3> QED BY <3>1, <2>1, <1>o
  <2>4. Change[applied[k][1]] \in Int
    BY <2>3, ThreadsAssumption
  <2>5. v' = Change[applied'[k][1]] + Len(applied') - k
    BY <2>2, <2>3, <2>4, <1>o
  <2>6. k \in DOMAIN applied' /\ applied'[k][2] = 0
    BY <2>1, <2>3, <1>o DEF LastAssignment
  <2>7. ASSUME NEW m \in DOMAIN applied', m > k PROVE applied'[m][2] = 1
    <3>1. CASE m \in DOMAIN applied
      BY <2>1, <2>7, <3>1, <1>o DEF LastAssignment
    <3>2. CASE m = Len(applied) + 1
      BY <3>2, <1>o
    <3> QED BY <2>7, <3>1, <3>2, <1>o
  <2>8. LastAssignment(k)'
    BY <2>5, <2>6, <2>7 DEF LastAssignment
  <2> QED BY <2>6, <2>8 DEF Applied
<1> QED BY <1>3, <1>4, <1>5, <1>6 DEF CriticalInv

LEMMA ReadKeeps ==
    ASSUME CriticalTyped, NEW t \in Threads, C!ReadV(t) PROVE CriticalInv'
<1> USE DEF C!Holding
<1>1. /\ pc[t] = "read" /\ reg' = [reg EXCEPT ![t] = v] /\ pc' = [pc EXCEPT ![t] = "write"]
      /\ UNCHANGED <<program, mtx, v, printed, applied>>
  BY DEF C!ReadV, C!Goto
<1>2. ThreadsType /\ MutualExclusion /\ Applied /\ \A s \in Threads : Knows(s) /\ Printed(s)
  BY DEF CriticalTyped, CriticalInv
<1>3. ThreadsType'
  BY <1>1, <1>2 DEF ThreadsType
<1>4. MutualExclusion'
  BY <1>1, <1>2 DEF ThreadsType, MutualExclusion
<1>5. \A s \in Threads : Knows(s)' /\ Printed(s)'
  BY <1>1, <1>2 DEF ThreadsType, Knows, Printed, C!Twice
<1>6. Applied'
  BY <1>1, <1>2 DEF ThreadsType, Applied, LastAssignment
<1> QED BY <1>3, <1>4, <1>5, <1>6 DEF CriticalInv

LEMMA PrintKeeps ==
    ASSUME CriticalTyped, NEW t \in Threads, C!PrintV(t) PROVE CriticalInv'
<1> USE DEF C!Holding
<1>1. /\ pc[t] \in {"print", "print again"}
      /\ printed' = [printed EXCEPT ![t] = Append(@, v)]
      /\ pc' = [pc EXCEPT ![t] = IF pc[t] = "print" THEN "unlock" ELSE "unlock again"]
      /\ UNCHANGED <<program, mtx, v, reg, applied>>
  BY DEF C!PrintV, C!Goto
<1>2. ThreadsType /\ MutualExclusion /\ Applied /\ \A s \in Threads : Knows(s) /\ Printed(s)
  BY DEF CriticalTyped, CriticalInv
<1>3. printed[t] \in Seq(Int) /\ printed'[t] = Append(printed[t], v) /\ v \in Int
  BY <1>1, <1>2 DEF ThreadsType
<1>4. /\ printed'[t] \in Seq(Int) /\ printed'[t] # <<>>
      /\ printed'[t][1] = IF printed[t] = <<>> THEN v ELSE printed[t][1]
  <2>1. CASE printed[t] = <<>>
    BY <1>3, <2>1
  <2>2. CASE printed[t] # <<>>
    <3>1. Len(printed[t]) \in Nat /\ Len(printed[t]) >= 1
      BY <1>3, <2>2, EmptySeq
    <3> QED BY <1>3, <2>2, <3>1
  <2> QED BY <2>1, <2>2
<1>5. ThreadsType'
  BY <1>1, <1>2, <1>4 DEF ThreadsType
<1>6. MutualExclusion'
  BY <1>1, <1>2 DEF ThreadsType, MutualExclusion
<1>7. \A s \in Threads : Knows(s)'
  BY <1>1, <1>2 DEF ThreadsType, Knows
<1>8. Printed(t)'
  BY <1>1, <1>2, <1>4 DEF Knows, Printed, C!Twice
<1>9. \A s \in Threads : s # t => Printed(s)'
  BY <1>1, <1>2 DEF ThreadsType, Printed, C!Twice
<1>10. Applied'
  BY <1>1, <1>2 DEF ThreadsType, Applied, LastAssignment
<1> QED BY <1>5, <1>6, <1>7, <1>8, <1>9, <1>10 DEF CriticalInv

LEMMA UnlockKeeps ==
    ASSUME CriticalTyped, NEW t \in Threads, C!Unlock(t) PROVE CriticalInv'
<1> USE DEF C!Holding
<1>1. /\ pc[t] \in {"unlock", "unlock again"} /\ mtx' = Nobody
      /\ pc' = [pc EXCEPT ![t] =
                   IF pc[t] = "unlock" /\ C!Twice THEN "lock again" ELSE "done"]
      /\ UNCHANGED <<program, v, reg, printed, applied>>
  BY DEF C!Unlock, C!Leave, C!Goto
<1>2. ThreadsType /\ MutualExclusion /\ Applied /\ \A s \in Threads : Knows(s) /\ Printed(s)
  BY DEF CriticalTyped, CriticalInv
<1>3. ThreadsType'
  BY <1>1, <1>2 DEF ThreadsType
<1>4. MutualExclusion'
  BY <1>1, <1>2, ThreadsAssumption DEF ThreadsType, MutualExclusion
<1>5. \A s \in Threads : Knows(s)' /\ Printed(s)'
  BY <1>1, <1>2 DEF ThreadsType, Knows, Printed, C!Twice
<1>6. Applied'
  BY <1>1, <1>2 DEF ThreadsType, Applied, LastAssignment
<1> QED BY <1>3, <1>4, <1>5, <1>6 DEF CriticalInv

LEMMA CriticalNext == CriticalInv /\ [Next]_vars => CriticalInv'
<1> SUFFICES ASSUME CriticalInv, [Next]_vars, InCriticalSection' PROVE CriticalInv'
  BY DEF CriticalInv
<1>1. program' = program /\ InCriticalSection
  <2>1. program' = program
    BY DEF Next, vars, ThreadStep, HeapStep, TupleStep, PathStep, Stopped, C!Step, C!Lock,
           C!Take, C!Assign, C!AssignThen, C!PrintV, C!ReadV, C!WriteV, C!Unlock, C!Leave,
           L!Step, L!Do, L!DoNew, L!DoCopy, L!DoShare, L!DoRefer, L!DoMove, L!MoveTo,
           L!DoDrop, L!Release, L!DoStore, L!DoPrint, L!DoCall, L!DoPush, L!DoStart,
           L!DoWait, L!DoUse
  <2> QED BY <2>1 DEF InCriticalSection
<1>2. CriticalTyped
  BY <1>1 DEF CriticalTyped
<1>3. ASSUME NEW t \in Threads, ThreadStep(t) PROVE CriticalInv'
  <2>1. C!Lock(t) \/ C!Assign(t) \/ C!PrintV(t) \/ C!ReadV(t) \/ C!WriteV(t) \/ C!Unlock(t)
    BY <1>3 DEF ThreadStep, C!Step
  <2> QED BY <1>2, <2>1, LockKeeps, AssignKeeps, PrintKeeps, ReadKeeps, WriteKeeps, UnlockKeeps
<1>4. CASE UNCHANGED vars
  BY <1>1, <1>4
  DEF vars, threads, CriticalInv, ThreadsType, MutualExclusion, Knows, Printed, Applied,
      LastAssignment, C!Twice
<1>5. (\E t \in Threads : ThreadStep(t)) \/ UNCHANGED vars
  BY <1>1 DEF Next, HeapStep, TupleStep, PathStep, Stopped, InCriticalSection, OnHeap, L!Programs
<1> QED BY <1>3, <1>4, <1>5

\* Any number of threads, whatever their arguments: each group of operations on v
\* stays in one piece, and v is what the last assignment and the additions since
\* make it.
THEOREM GroupsStayWhole == Spec => []NoUpdateLost
<1> QED BY CriticalImplies, CriticalInit, CriticalNext, PTL DEF Spec

------------------------------------------------------------------------------
(* The heap.  Whatever program uses it, and however many objects it makes,  *)
(* a reference count is the number of owners.  A step changes what one name *)
(* holds, or two for a move: the lemmas about Count say what that does to   *)
(* the number of owners.                                                    *)

\* The owners of object o, if f says who holds what.
Count(f, o) == Cardinality({x \in L!Owners : f[x] = o})

Holders == [L!Names -> Nat]

------------------------------------------------------------------------------
LEMMA EightAreFinite ==
    ASSUME NEW a, NEW b, NEW c, NEW d, NEW e, NEW f, NEW g, NEW h
    PROVE  IsFiniteSet({a, b, c, d, e, f, g, h})
<1>1. IsFiniteSet({a} \cup {b})
  BY FS_Singleton, FS_Union
<1>2. IsFiniteSet({c} \cup {d})
  BY FS_Singleton, FS_Union
<1>3. IsFiniteSet({e} \cup {f})
  BY FS_Singleton, FS_Union
<1>4. IsFiniteSet({g} \cup {h})
  BY FS_Singleton, FS_Union
<1>5. IsFiniteSet(({a} \cup {b}) \cup ({c} \cup {d}))
  BY <1>1, <1>2, FS_Union
<1>6. IsFiniteSet(({e} \cup {f}) \cup ({g} \cup {h}))
  BY <1>3, <1>4, FS_Union
<1>7. IsFiniteSet((({a} \cup {b}) \cup ({c} \cup {d})) \cup (({e} \cup {f}) \cup ({g} \cup {h})))
  BY <1>5, <1>6, FS_Union
<1>8. {a, b, c, d, e, f, g, h}
      = (({a} \cup {b}) \cup ({c} \cup {d})) \cup (({e} \cup {f}) \cup ({g} \cup {h}))
  OBVIOUS
<1> QED BY <1>7, <1>8

LEMMA OwnersFinite == IsFiniteSet(L!Owners)
<1> DEFINE first == {"value", "copy_value", "stored_value", "important", "v1", "v2", "result", "lv1"}
           second == {"lv2", "rv2", "a", "b", "obj", "str", "v[0]", "v[1]"}
           third == {"v", "storage", "pointer", "pointer2", "pointer3", "i", "p1", "p2"}
           fourth == {"a->pointer", "b->pointer", "task", "task of t",
                      "task of t", "task of t", "task of t", "task of t"}
<1>1. IsFiniteSet(first) /\ IsFiniteSet(second)
  BY EightAreFinite
<1>2. IsFiniteSet(third) /\ IsFiniteSet(fourth)
  BY EightAreFinite
<1>3. L!Owners = (first \cup second) \cup (third \cup fourth)
  BY DEF L!Owners
<1> HIDE DEF first, second, third, fourth
<1>4. IsFiniteSet(first \cup second)
  BY <1>1, FS_Union
<1>5. IsFiniteSet(third \cup fourth)
  BY <1>2, FS_Union
<1>6. IsFiniteSet((first \cup second) \cup (third \cup fourth))
  BY <1>4, <1>5, FS_Union
<1> QED BY <1>3, <1>6

LEMMA OwnersAreNames == L!Owners \subseteq L!Names
  BY DEF L!Names

LEMMA HoldersFinite ==
    ASSUME NEW f, NEW o
    PROVE  IsFiniteSet({x \in L!Owners : f[x] = o}) /\ Count(f, o) \in Nat
<1> DEFINE holders == {x \in L!Owners : f[x] = o}
<1>1. holders \subseteq L!Owners
  OBVIOUS
<1>2. IsFiniteSet(holders)
  BY <1>1, OwnersFinite, FS_Subset
<1>3. Cardinality(holders) \in Nat
  BY <1>2, FS_CardinalityType
<1> QED BY <1>2, <1>3 DEF Count

\* From f to g, x has come to hold p.
Holds(g, f, x, p) == \A y \in L!Owners : g[y] = IF y = x THEN p ELSE f[y]

\* Of the objects other than p, only what x held has lost an owner.
LEMMA OwnersElsewhere ==
    ASSUME NEW f, NEW g, NEW x \in L!Owners, NEW p, Holds(g, f, x, p),
           NEW o, f[x] # o, p # o
    PROVE  Count(g, o) = Count(f, o)
<1>1. {y \in L!Owners : g[y] = o} = {y \in L!Owners : f[y] = o}
  BY DEF Holds
<1> QED BY <1>1 DEF Count

LEMMA OwnerGained ==
    ASSUME NEW f, NEW g, NEW x \in L!Owners, NEW o, Holds(g, f, x, o), f[x] # o
    PROVE  Count(g, o) = Count(f, o) + 1
<1> DEFINE before == {y \in L!Owners : f[y] = o}
<1>1. {y \in L!Owners : g[y] = o} = before \cup {x}
  BY DEF Holds
<1>2. IsFiniteSet(before)
  BY HoldersFinite
<1>3. x \notin before
  OBVIOUS
<1>4. Cardinality(before \cup {x}) = Cardinality(before) + 1
  <2> HIDE DEF before
  <2> QED BY <1>2, <1>3, FS_AddElement
<1> QED BY <1>1, <1>4 DEF Count

LEMMA OwnerLost ==
    ASSUME NEW f, NEW g, NEW x \in L!Owners, NEW o, NEW p, Holds(g, f, x, p),
           f[x] = o, p # o
    PROVE  Count(f, o) = Count(g, o) + 1
<1>1. Holds(f, g, x, o) /\ g[x] # o
  BY DEF Holds
<1> QED BY <1>1, OwnerGained

------------------------------------------------------------------------------
HeapType ==
    /\ at \in Holders
    /\ refs \in Seq(Nat)
    /\ \A x \in L!Owners : at[x] <= Len(refs)

Counted == \A o \in 1..Len(refs) : refs[o] = Count(at, o)

HeapInv == HeapType /\ Counted

LEMMA CountedIsOwnersCounted == HeapType => (Counted <=> OwnersCounted)
<1> SUFFICES ASSUME HeapType PROVE Counted <=> OwnersCounted
  OBVIOUS
<1>1. DOMAIN refs = 1..Len(refs)
  BY DEF HeapType
<1>2. \A S : L!Cardinality(S) = Cardinality(S)
  BY DEF L!Cardinality, Cardinality
<1> QED BY <1>1, <1>2 DEF Counted, Count, OwnersCounted, L!OwnersCounted, L!Objects, L!OwnersOf

LEMMA HeapInit == Init => HeapInv
<1> SUFFICES ASSUME Init PROVE HeapInv
  OBVIOUS
<1>1. at = [x \in L!Names |-> 0] /\ refs = <<>>
  BY DEF Init, C!Init, L!Init, HeapParked, L!Nil
<1>2. Len(refs) = 0 /\ refs \in Seq(Nat)
  BY <1>1
<1> QED BY <1>1, <1>2, OwnersAreNames DEF HeapInv, HeapType, Counted, Holders

\* x becomes the only owner of a new object.
LEMMA AllocateKeeps ==
    ASSUME HeapInv, NEW x, NEW m, L!Allocate(x, m) PROVE HeapInv'
<1> DEFINE new == Len(refs) + 1
<1>1. /\ x \in L!Owners /\ at[x] = 0
      /\ at' = [at EXCEPT ![x] = new] /\ refs' = Append(refs, 1)
  BY DEF L!Allocate, L!Hold, L!Nil
<1>2. at \in Holders /\ refs \in Seq(Nat) /\ Len(refs) \in Nat
      /\ (\A y \in L!Owners : at[y] <= Len(refs)) /\ Counted
  BY DEF HeapInv, HeapType
<1>3. /\ refs' \in Seq(Nat) /\ Len(refs') = new /\ new \in Nat /\ refs'[new] = 1
      /\ \A o \in 1..Len(refs) : refs'[o] = refs[o]
  BY <1>1, <1>2
<1>h. at' \in Holders /\ Holds(at', at, x, new)
  BY <1>1, <1>2, <1>3, OwnersAreNames DEF Holders, Holds
<1>4. HeapType'
  <2>1. \A y \in L!Owners : at[y] \in Nat
    BY <1>2, OwnersAreNames DEF Holders
  <2> QED BY <1>2, <1>3, <1>h, <2>1 DEF HeapType, Holds
<1>5. Count(at', new) = 1
  <2>1. {y \in L!Owners : at[y] = new} = {}
    BY <1>2, OwnersAreNames DEF Holders
  <2>2. Count(at, new) = 0
    BY <2>1, FS_EmptySet DEF Count
  <2>3. at[x] # new
    BY <1>1, <1>2
  <2>4. Count(at', new) = Count(at, new) + 1
    BY <1>1, <1>h, <2>3, OwnerGained
  <2> QED BY <2>2, <2>4
<1>6. ASSUME NEW o \in 1..Len(refs) PROVE Count(at', o) = Count(at, o)
  <2>1. at[x] # o /\ new # o
    BY <1>1, <1>2, <1>6
  <2> QED BY <1>1, <1>h, <2>1, OwnersElsewhere
<1>7. ASSUME NEW o \in 1..Len(refs') PROVE refs'[o] = Count(at', o)
  <2>1. CASE o = new
    BY <1>3, <1>5, <2>1
  <2>2. CASE o \in 1..Len(refs)
    BY <1>2, <1>3, <1>6, <2>2 DEF Counted
  <2> QED BY <1>2, <1>3, <1>7, <2>1, <2>2
<1> QED BY <1>4, <1>7 DEF HeapInv, Counted

LEMMA ShareKeeps ==
    ASSUME HeapInv, NEW t, NEW s, L!DoShare(t, s) PROVE HeapInv'
<1> DEFINE x == s.x
           p == at[s.y]
<1>1. /\ x \in L!Owners /\ s.y \in L!Owners /\ at[x] = 0 /\ p # 0
      /\ at' = [at EXCEPT ![x] = p] /\ refs' = [refs EXCEPT ![p] = @ + 1]
  BY DEF L!DoShare, L!Hold, L!Nil
<1>2. at \in Holders /\ refs \in Seq(Nat) /\ Len(refs) \in Nat
      /\ (\A y \in L!Owners : at[y] <= Len(refs)) /\ Counted
  BY DEF HeapInv, HeapType
<1>3. p \in Nat /\ p \in 1..Len(refs)
  BY <1>1, <1>2, OwnersAreNames DEF Holders
<1> HIDE DEF x, p
<1>4. /\ refs' \in Seq(Nat) /\ Len(refs') = Len(refs)
      /\ refs'[p] = refs[p] + 1 /\ \A o \in 1..Len(refs) : o # p => refs'[o] = refs[o]
  BY <1>1, <1>2, <1>3
<1>h. at' \in Holders /\ Holds(at', at, x, p)
  BY <1>1, <1>2, <1>3, OwnersAreNames DEF Holders, Holds
<1>5. HeapType'
  BY <1>2, <1>3, <1>4, <1>h DEF HeapType, Holds
<1>6. Count(at', p) = Count(at, p) + 1
  BY <1>1, <1>h, OwnerGained
<1>7. ASSUME NEW o \in 1..Len(refs), o # p PROVE Count(at', o) = Count(at, o)
  <2>1. at[x] # o
    BY <1>1, <1>7
  <2> QED BY <1>1, <1>7, <1>h, <2>1, OwnersElsewhere
<1> QED BY <1>2, <1>3, <1>4, <1>5, <1>6, <1>7 DEF HeapInv, Counted

LEMMA MoveKeeps ==
    ASSUME HeapInv, NEW t, NEW s, L!DoMove(t, s) PROVE HeapInv'
<1> DEFINE x == s.x
           y == s.y
           p == at[s.y]
<1>1. /\ x \in L!Owners /\ y \in L!Owners /\ x # y /\ at[x] = 0
      /\ at' = [at EXCEPT ![x] = p, ![y] = 0] /\ refs' = refs
  BY DEF L!DoMove, L!MoveTo, L!Nil
<1>2. at \in Holders /\ refs \in Seq(Nat) /\ Len(refs) \in Nat
      /\ (\A z \in L!Owners : at[z] <= Len(refs)) /\ Counted
  BY DEF HeapInv, HeapType
<1>3. p \in Nat /\ p <= Len(refs) /\ at[y] = p
  BY <1>1, <1>2, OwnersAreNames DEF Holders
\* Between the two assignments of the move constructor both names hold p.
<1>4. PICK both : Holds(both, at, x, p) /\ Holds(at', both, y, 0) /\ both[y] = p
  <2>1. Holds([at EXCEPT ![x] = p], at, x, p) /\ [at EXCEPT ![x] = p][y] = p
    BY <1>1, <1>2, <1>3, OwnersAreNames DEF Holders, Holds
  <2>2. Holds(at', [at EXCEPT ![x] = p], y, 0)
    BY <1>1, <1>2, <1>3, OwnersAreNames DEF Holders, Holds
  <2> QED BY <2>1, <2>2
<1>5. at' \in Holders
  BY <1>1, <1>2, <1>3, OwnersAreNames DEF Holders
<1> HIDE DEF x, y, p
<1>6. HeapType'
  BY <1>1, <1>2, <1>3, <1>4, <1>5 DEF HeapType, Holds
<1>7. ASSUME NEW o \in 1..Len(refs) PROVE Count(at', o) = Count(at, o)
  <2>1. at[x] # o /\ 0 # o
    BY <1>1, <1>7
  <2>2. CASE o = p
    <3>1. Count(both, o) = Count(at, o) + 1
      BY <1>1, <1>4, <2>1, <2>2, OwnerGained
    <3>2. Count(both, o) = Count(at', o) + 1
      BY <1>1, <1>4, <2>1, <2>2, OwnerLost
    <3>3. Count(at, o) \in Nat /\ Count(at', o) \in Nat
      BY HoldersFinite
    <3> QED BY <3>1, <3>2, <3>3
  <2>3. CASE o # p
    <3>1. Count(both, o) = Count(at, o)
      BY <1>1, <1>4, <2>1, <2>3, OwnersElsewhere
    <3>2. Count(at', o) = Count(both, o)
      BY <1>1, <1>4, <2>1, <2>3, OwnersElsewhere
    <3> QED BY <3>1, <3>2
  <2> QED BY <2>2, <2>3
<1> QED BY <1>1, <1>2, <1>6, <1>7 DEF HeapInv, Counted

LEMMA DropKeeps ==
    ASSUME HeapInv, NEW t, NEW s, L!DoDrop(t, s) PROVE HeapInv'
<1> DEFINE x == s.x
           p == at[s.x]
<1>1. /\ x \in L!Owners /\ at' = [at EXCEPT ![x] = 0]
      /\ refs' = IF p = 0 THEN refs ELSE [refs EXCEPT ![p] = @ - 1]
  BY DEF L!DoDrop, L!Release, L!Hold, L!Nil
<1>2. at \in Holders /\ refs \in Seq(Nat) /\ Len(refs) \in Nat
      /\ (\A y \in L!Owners : at[y] <= Len(refs)) /\ Counted
  BY DEF HeapInv, HeapType
<1>3. p \in Nat /\ p <= Len(refs) /\ at[x] = p
  BY <1>1, <1>2, OwnersAreNames DEF Holders
<1> HIDE DEF x, p
<1>4. at' \in Holders /\ Holds(at', at, x, 0)
  BY <1>1, <1>2, OwnersAreNames DEF Holders, Holds
<1>5. ASSUME NEW o \in 1..Len(refs), o # p PROVE Count(at', o) = Count(at, o)
  <2>1. 0 # o
    BY <1>5
  <2> QED BY <1>1, <1>3, <1>4, <1>5, <2>1, OwnersElsewhere
<1>6. CASE p = 0
  <2>1. refs' = refs
    BY <1>1, <1>6
  <2> QED BY <1>2, <1>4, <1>5, <1>6, <2>1 DEF HeapInv, HeapType, Counted, Holds
<1>7. CASE p # 0
  <2>1. p \in 1..Len(refs)
    BY <1>2, <1>3, <1>7
  <2>2. Count(at, p) = Count(at', p) + 1
    BY <1>1, <1>3, <1>4, <1>7, OwnerLost
  <2>3. Count(at', p) \in Nat /\ refs[p] = Count(at', p) + 1
    BY <1>1, <1>2, <2>1, <2>2, HoldersFinite DEF Counted
  <2>4. refs' = [refs EXCEPT ![p] = @ - 1]
    BY <1>1, <1>7
  <2>5. refs[p] - 1 = Count(at', p)
    BY <2>3
  <2>6. /\ refs' \in Seq(Nat) /\ Len(refs') = Len(refs) /\ refs'[p] = Count(at', p)
        /\ \A o \in 1..Len(refs) : o # p => refs'[o] = refs[o]
    BY <1>2, <2>1, <2>3, <2>4, <2>5
  <2> QED BY <1>2, <1>4, <1>5, <2>1, <2>6 DEF HeapInv, HeapType, Counted, Holds
<1> QED BY <1>6, <1>7

\* A reference is no owner.
LEMMA ReferKeeps ==
    ASSUME HeapInv, NEW t, NEW s, L!DoRefer(t, s) PROVE HeapInv'
<1>1. /\ s.x \in L!References /\ s.y \in L!Owners
      /\ at' = [at EXCEPT ![s.x] = at[s.y]] /\ refs' = refs
  BY DEF L!DoRefer, L!Hold
<1>2. s.x \notin L!Owners
  BY <1>1 DEF L!References, L!Owners
<1>3. at \in Holders /\ at' \in Holders /\ \A y \in L!Owners : at'[y] = at[y]
  BY <1>1, <1>2, OwnersAreNames DEF HeapInv, HeapType, Holders, L!Names
<1>4. \A o : Count(at', o) = Count(at, o)
  <2>1. \A o : {y \in L!Owners : at'[y] = o} = {y \in L!Owners : at[y] = o}
    BY <1>3
  <2> QED BY <2>1 DEF Count
<1> QED BY <1>1, <1>3, <1>4 DEF HeapInv, HeapType, Counted

LEMMA HeapNext == HeapInv /\ [Next]_vars => HeapInv'
<1> SUFFICES ASSUME HeapInv, [Next]_vars PROVE HeapInv'
  OBVIOUS
<1>1. ASSUME at' = at, refs' = refs PROVE HeapInv'
  BY <1>1 DEF HeapInv, HeapType, Counted, Count
<1>2. ASSUME NEW t, NEW s, L!Do(t, s) PROVE HeapInv'
  <2>1. ASSUME L!DoNew(t, s) \/ L!DoCopy(t, s) PROVE HeapInv'
    <3>1. L!Allocate(s.x, s.n) \/ L!Allocate(s.x, val[at[s.y]])
      BY <2>1 DEF L!DoNew, L!DoCopy
    <3> QED BY <3>1, AllocateKeeps
  <2>2. ASSUME L!DoStore(t, s) \/ L!DoPrint(t, s) \/ L!DoCall(t, s) \/ L!DoPush(t, s)
               \/ L!DoStart(t, s) \/ L!DoWait(t, s) \/ L!DoUse(t, s)
        PROVE  HeapInv'
    <3>1. at' = at /\ refs' = refs
      BY <2>2 DEF L!DoStore, L!DoPrint, L!DoCall, L!DoPush, L!DoStart, L!DoWait, L!DoUse
    <3> QED BY <1>1, <3>1
  <2> QED BY <1>2, <2>1, <2>2, ShareKeeps, ReferKeeps, MoveKeeps, DropKeeps DEF L!Do
<1>3. ASSUME NEW t \in L!ThreadNames, HeapStep(t) PROVE HeapInv'
  BY <1>2, <1>3 DEF HeapStep, L!Step
<1>4. CASE UNCHANGED heap
  BY <1>1, <1>4 DEF heap
<1>5. (\E t \in L!ThreadNames : HeapStep(t)) \/ UNCHANGED heap
  BY DEF Next, ThreadStep, TupleStep, PathStep, Stopped, vars
<1> QED BY <1>3, <1>4, <1>5

\* However many objects a program makes, and whatever it moves, copies, shares or
\* resets: the count of an object is the number of its owners.
THEOREM CountsAreOwners == Spec => []OwnersCounted
<1>1. HeapInv => OwnersCounted
  BY CountedIsOwnersCounted DEF HeapInv
<1> QED BY <1>1, HeapInit, HeapNext, PTL DEF Spec

------------------------------------------------------------------------------
(* Scopes.  A program leaks nothing because of how it is written: what      *)
(* main() makes a name hold it drops further down, but for the members of   *)
(* objects (5.3) and the promise it hands to the thread (7.4).  A statement *)
(* that expands into others, a push or a use of class A, keeps it so.       *)

IsSeq(q) == q \in Seq({q[i] : i \in DOMAIN q})

\* Statement s may make x an owner; lets go of it.
Acquires(s, x) ==
    \/ s.do \in {"new", "copy", "share", "move"} /\ s.x = x
    \/ s.do = "push" /\ s.y = x
    \/ s.do = "use" /\ x \in L!ObjectsOfA

Drops(s, x) == s.do = "drop" /\ s.x = x

Members == {"a->pointer", "b->pointer"}

Promise == "task of t"

\* The names that are variables of main().
Locals == {
    "value", "copy_value", "stored_value", "important", "v1", "v2", "result",
    "lv1", "lv2", "rv2", "a", "b", "obj", "str", "v[0]", "v[1]",
    "v", "storage", "pointer", "pointer2", "pointer3", "i", "p1", "p2", "task"}

NeverAcquires(q, x) == \A i \in DOMAIN q : ~Acquires(q[i], x)

DropsLater(q, i, x) == \E k \in DOMAIN q : i < k /\ Drops(q[k], x)

NotAfterStart(q, x) ==
    \A i, j \in DOMAIN q : q[i].do = "start" /\ i < j => ~Acquires(q[j], x)

\* But for those of S, the names that q acquires are local, and dropped further down.
Owes(q, S) ==
    /\ IsSeq(q)
    /\ \A i \in DOMAIN q : \A x :
          Acquires(q[i], x) => x \in S \/ (x \in Locals /\ DropsLater(q, i, x))

\* What main() of program p does not drop itself.
Kept(p) == CASE p = "5.3" -> Members [] p = "7.4" -> {Promise} [] OTHER -> {}

\* The promise is handed over before the thread is started, and the thread drops it.
Handed ==
    LET q == rest["main"]
    IN  /\ at[Promise] # 0 \/ ~NeverAcquires(q, Promise) => DropsLater(rest["t"], 0, Promise)
        /\ "t" \in started => NeverAcquires(q, Promise)
        /\ NotAfterStart(q, Promise)

ScopeInv ==
    /\ DOMAIN rest = L!ThreadNames
    /\ Owes(rest["main"], Kept(program))
    /\ IsSeq(rest["t"]) /\ \A x : NeverAcquires(rest["t"], x)
    /\ \A x \in L!Owners :
          at[x] # 0 => x \in Kept(program) \/ (x \in Locals /\ DropsLater(rest["main"], 0, x))
    /\ Handed

------------------------------------------------------------------------------
LEMMA IsSeqOf == ASSUME NEW S, NEW q \in Seq(S) PROVE IsSeq(q)
<1> DEFINE R == {q[i] : i \in DOMAIN q}
<1>1. Len(q) \in Nat /\ DOMAIN q = 1..Len(q) /\ q = [i \in 1..Len(q) |-> q[i]]
  OBVIOUS
<1>2. q \in [1..Len(q) -> R]
  BY <1>1
<1>3. q \in Seq(R)
  BY <1>1, <1>2
<1> QED BY <1>3 DEF IsSeq

LEMMA SeqLength == ASSUME NEW q, IsSeq(q) PROVE Len(q) \in Nat /\ DOMAIN q = 1..Len(q)
<1>1. PICK R : q \in Seq(R)
  BY DEF IsSeq
<1> QED BY <1>1

LEMMA SeqTail ==
    ASSUME NEW q, IsSeq(q), q # <<>>
    PROVE  /\ IsSeq(Tail(q)) /\ DOMAIN Tail(q) = 1..Len(q) - 1 /\ Len(Tail(q)) = Len(q) - 1
           /\ Head(q) = q[1] /\ Len(q) > 0
           /\ \A i \in 1..Len(q) - 1 : Tail(q)[i] = q[i + 1]
<1>1. PICK R : q \in Seq(R)
  BY DEF IsSeq
<1>2. Tail(q) \in Seq(R) /\ Len(Tail(q)) = Len(q) - 1 /\ Len(q) > 0
  BY <1>1
<1>3. IsSeq(Tail(q))
  BY <1>2, IsSeqOf
<1>4. \A i \in 1..Len(q) - 1 : Tail(q)[i] = q[i + 1]
  BY <1>1
<1>5. Head(q) = q[1] /\ DOMAIN Tail(q) = 1..Len(q) - 1
  BY <1>1, <1>2
<1> QED BY <1>2, <1>3, <1>4, <1>5

LEMMA SeqJoined ==
    ASSUME NEW a, NEW b, IsSeq(a), IsSeq(b)
    PROVE  /\ IsSeq(a \o b) /\ DOMAIN (a \o b) = 1..(Len(a) + Len(b))
           /\ \A i \in DOMAIN a : (a \o b)[i] = a[i]
           /\ \A i \in DOMAIN b : (a \o b)[Len(a) + i] = b[i]
<1> DEFINE R == {a[i] : i \in DOMAIN a} \cup {b[i] : i \in DOMAIN b}
<1>1. a \in Seq(R) /\ b \in Seq(R)
  <2>1. ASSUME NEW A, NEW B, A \subseteq B, NEW q \in Seq(A) PROVE q \in Seq(B)
    BY <2>1
  <2> QED BY <2>1 DEF IsSeq
<1> HIDE DEF R
<1>2. a \o b \in Seq(R) /\ Len(a \o b) = Len(a) + Len(b)
  BY <1>1
<1>3. IsSeq(a \o b)
  BY <1>2, IsSeqOf
<1>4. \A i \in DOMAIN a : (a \o b)[i] = a[i]
  BY <1>1
<1>5. \A i \in DOMAIN b : (a \o b)[Len(a) + i] = b[i]
  BY <1>1
<1>6. DOMAIN (a \o b) = 1..(Len(a) + Len(b))
  BY <1>2
<1> QED BY <1>3, <1>4, <1>5, <1>6

\* A script in two pieces: the second one may pay the debts of the first.
LEMMA OwesJoined ==
    ASSUME NEW a, NEW b, NEW S, NEW U, Owes(a, S), Owes(b, U),
           \A x \in S : x \in U \/ (x \in Locals /\ DropsLater(b, 0, x))
    PROVE  Owes(a \o b, U)
<1> DEFINE q == a \o b
<1>1. /\ IsSeq(a) /\ Len(a) \in Nat /\ DOMAIN a = 1..Len(a)
      /\ IsSeq(b) /\ Len(b) \in Nat /\ DOMAIN b = 1..Len(b)
  BY SeqLength DEF Owes
<1>2. /\ IsSeq(q) /\ DOMAIN q = 1..(Len(a) + Len(b))
      /\ \A i \in DOMAIN a : q[i] = a[i]
      /\ \A i \in DOMAIN b : q[Len(a) + i] = b[i]
  BY <1>1, SeqJoined
<1> HIDE DEF q
<1>3. ASSUME NEW i \in DOMAIN q, NEW x, Acquires(q[i], x), x \notin U
      PROVE  x \in Locals /\ DropsLater(q, i, x)
  <2>1. CASE i \in DOMAIN a
    <3>1. Acquires(a[i], x)
      BY <1>2, <1>3, <2>1
    <3>2. CASE x \in S
      <4>1. x \in Locals /\ DropsLater(b, 0, x)
        BY <1>3, <3>2
      <4>2. PICK k \in DOMAIN b : Drops(b[k], x)
        BY <4>1 DEF DropsLater
      <4>3. Len(a) + k \in DOMAIN q /\ i < Len(a) + k /\ Drops(q[Len(a) + k], x)
        BY <1>1, <1>2, <2>1, <4>2
      <4> QED BY <4>1, <4>3 DEF DropsLater
    <3>3. CASE x \notin S
      <4>1. x \in Locals /\ DropsLater(a, i, x)
        BY <2>1, <3>1, <3>3 DEF Owes
      <4>2. PICK k \in DOMAIN a : i < k /\ Drops(a[k], x)
        BY <4>1 DEF DropsLater
      <4>3. k \in DOMAIN q /\ Drops(q[k], x)
        BY <1>1, <1>2, <4>2
      <4> QED BY <4>1, <4>2, <4>3 DEF DropsLater
    <3> QED BY <3>2, <3>3
  <2>2. CASE i \notin DOMAIN a
    <3> DEFINE j == i - Len(a)
    <3>1. j \in DOMAIN b /\ i = Len(a) + j
      BY <1>1, <1>2, <1>3, <2>2
    <3>2. Acquires(b[j], x)
      BY <1>2, <1>3, <3>1
    <3>3. x \in Locals /\ DropsLater(b, j, x)
      BY <1>3, <3>1, <3>2 DEF Owes
    <3>4. PICK k \in DOMAIN b : j < k /\ Drops(b[k], x)
      BY <3>3 DEF DropsLater
    <3>5. Len(a) + k \in DOMAIN q /\ i < Len(a) + k /\ Drops(q[Len(a) + k], x)
      BY <1>1, <1>2, <3>1, <3>4
    <3> QED BY <3>3, <3>5 DEF DropsLater
  <2> QED BY <2>1, <2>2
<1> QED BY <1>2, <1>3 DEF q, Owes

\* The first statement of q is replaced by statements that acquire no more than it does.
LEMMA Expanded ==
    ASSUME NEW q, IsSeq(q), q # <<>>, NEW more, IsSeq(more),
           \A i \in DOMAIN more :
              more[i].do # "start" /\ \A x : Acquires(more[i], x) => Acquires(Head(q), x)
    PROVE  LET r == more \o Tail(q)
           IN  /\ IsSeq(r)
               /\ \A S : Owes(q, S) => Owes(r, S)
               /\ \A x : NeverAcquires(q, x) => NeverAcquires(r, x)
               /\ \A x : NotAfterStart(q, x) => NotAfterStart(r, x)
               /\ \A x : DropsLater(q, 0, x) => DropsLater(r, 0, x) \/ Drops(Head(q), x)
               /\ \A S, x : Owes(q, S) /\ Acquires(Head(q), x)
                               => x \in S \/ (x \in Locals /\ DropsLater(r, 0, x))
<1> DEFINE rest_q == Tail(q)
           r == more \o rest_q
           m == Len(more)
<1>1. /\ m \in Nat /\ DOMAIN more = 1..m /\ Len(q) \in Nat /\ DOMAIN q = 1..Len(q)
      /\ IsSeq(rest_q) /\ DOMAIN rest_q = 1..Len(q) - 1 /\ Len(rest_q) = Len(q) - 1
      /\ Head(q) = q[1] /\ Len(q) > 0
      /\ \A i \in 1..Len(q) - 1 : rest_q[i] = q[i + 1]
  BY SeqLength, SeqTail
<1>2. /\ IsSeq(r) /\ DOMAIN r = 1..(m + (Len(q) - 1))
      /\ \A i \in 1..m : r[i] = more[i]
      /\ \A i \in 1..Len(q) - 1 : r[m + i] = q[i + 1]
  BY <1>1, SeqJoined
<1> HIDE DEF rest_q, r, m
\* A statement of r comes of the first of q, or is a later one.
<1>3. ASSUME NEW i \in DOMAIN r, NEW x, Acquires(r[i], x)
      PROVE  \E j \in DOMAIN q : Acquires(q[j], x) /\ i <= m + (j - 1)
  <2>1. CASE i <= m
    <3>1. Acquires(q[1], x)
      BY <1>1, <1>2, <1>3, <2>1
    <3> QED BY <1>1, <1>2, <1>3, <2>1, <3>1
  <2>2. CASE i > m
    <3>1. i - m \in 1..Len(q) - 1 /\ i = m + (i - m)
      BY <1>1, <1>2, <1>3, <2>2
    <3>2. Acquires(q[(i - m) + 1], x)
      BY <1>2, <1>3, <3>1
    <3>3. (i - m) + 1 \in DOMAIN q /\ i <= m + (((i - m) + 1) - 1)
      BY <1>1, <1>3, <1>2, <3>1
    <3> QED BY <3>2, <3>3
  <2> QED BY <1>1, <1>2, <1>3, <2>1, <2>2
<1>4. ASSUME NEW k \in DOMAIN q, k > 1
      PROVE  m + (k - 1) \in DOMAIN r /\ r[m + (k - 1)] = q[k]
  <2>1. k - 1 \in 1..Len(q) - 1 /\ (k - 1) + 1 = k
    BY <1>1, <1>4
  <2>2. r[m + (k - 1)] = q[(k - 1) + 1]
    BY <1>2, <2>1
  <2> QED BY <1>1, <1>2, <2>1, <2>2
<1>5. ASSUME NEW S, Owes(q, S) PROVE Owes(r, S)
  <2>1. ASSUME NEW i \in DOMAIN r, NEW x, Acquires(r[i], x), x \notin S
        PROVE  x \in Locals /\ DropsLater(r, i, x)
    <3>1. PICK j \in DOMAIN q : Acquires(q[j], x) /\ i <= m + (j - 1)
      BY <1>3, <2>1
    <3>2. x \in Locals /\ DropsLater(q, j, x)
      BY <1>5, <2>1, <3>1 DEF Owes
    <3>3. PICK k \in DOMAIN q : j < k /\ Drops(q[k], x)
      BY <3>2 DEF DropsLater
    <3>4. m + (k - 1) \in DOMAIN r /\ Drops(r[m + (k - 1)], x)
      BY <1>1, <1>4, <3>1, <3>3
    <3>5. i < m + (k - 1)
      BY <1>1, <1>2, <2>1, <3>1, <3>3
    <3> QED BY <3>2, <3>4, <3>5 DEF DropsLater
  <2> QED BY <1>2, <2>1 DEF Owes
<1>6. ASSUME NEW x, NeverAcquires(q, x) PROVE NeverAcquires(r, x)
  BY <1>3, <1>6 DEF NeverAcquires
<1>7. ASSUME NEW x, DropsLater(q, 0, x), ~Drops(Head(q), x) PROVE DropsLater(r, 0, x)
  <2>1. PICK k \in DOMAIN q : Drops(q[k], x)
    BY <1>7 DEF DropsLater
  <2>2. k > 1
    BY <1>1, <1>7, <2>1
  <2>3. m + (k - 1) \in DOMAIN r /\ 0 < m + (k - 1) /\ Drops(r[m + (k - 1)], x)
    BY <1>1, <1>4, <2>1, <2>2
  <2> QED BY <2>3 DEF DropsLater
<1>8. ASSUME NEW S, NEW x, Owes(q, S), Acquires(Head(q), x), x \notin S
      PROVE  x \in Locals /\ DropsLater(r, 0, x)
  <2>1. x \in Locals /\ DropsLater(q, 1, x)
    BY <1>1, <1>8 DEF Owes
  <2>2. PICK k \in DOMAIN q : 1 < k /\ Drops(q[k], x)
    BY <2>1 DEF DropsLater
  <2>3. m + (k - 1) \in DOMAIN r /\ 0 < m + (k - 1) /\ Drops(r[m + (k - 1)], x)
    BY <1>1, <1>4, <2>2
  <2> QED BY <2>1, <2>3 DEF DropsLater
<1>9. ASSUME NEW x, NotAfterStart(q, x),
             NEW i \in DOMAIN r, NEW j \in DOMAIN r, r[i].do = "start", i < j
      PROVE  ~Acquires(r[j], x)
  <2>1. i - m \in 1..Len(q) - 1 /\ j - m \in 1..Len(q) - 1
    BY <1>1, <1>2, <1>9
  <2>2. i = m + (i - m) /\ j = m + (j - m)
    BY <1>1, <1>2, <1>9
  <2>3. r[i] = q[(i - m) + 1] /\ r[j] = q[(j - m) + 1]
    BY <1>2, <2>1, <2>2
  <2>4. (i - m) + 1 \in DOMAIN q /\ (j - m) + 1 \in DOMAIN q /\ (i - m) + 1 < (j - m) + 1
    BY <1>1, <1>2, <1>9, <2>1
  <2> QED BY <1>9, <2>3, <2>4 DEF NotAfterStart
<1>10. \A x : NotAfterStart(q, x) => NotAfterStart(r, x)
  BY <1>9 DEF NotAfterStart
<1> QED BY <1>2, <1>5, <1>6, <1>7, <1>8, <1>10 DEF r, rest_q

------------------------------------------------------------------------------
(* What a step does to the scopes.                                         *)

\* The statement s of thread t is replaced by more.
Replaces(t, s, more) ==
    /\ rest' = [rest EXCEPT ![t] = more \o Tail(@)]
    /\ IsSeq(more)
    /\ \A i \in DOMAIN more : more[i].do # "start" /\ \A x : Acquires(more[i], x) => Acquires(s, x)

\* A name comes to hold something only by a statement that acquires it.
StepEffect(t, s) ==
    /\ program' = program
    /\ t \in started
    /\ \E more : Replaces(t, s, more)
    /\ started' = started \/ (s.do = "start" /\ started' = started \cup {s.x})
    /\ \A x \in L!Owners : at'[x] # 0 => (at[x] # 0 \/ Acquires(s, x)) /\ ~Drops(s, x)

LEMMA ReplacedByNothing ==
    ASSUME NEW t, NEW s, L!Continue(t, <<>>)
    PROVE  \E more : Replaces(t, s, more)
<1>1. IsSeq(<<>>)
  <2>1. <<>> \in Seq({})
    OBVIOUS
  <2> QED BY <2>1, IsSeqOf
<1>2. Replaces(t, s, <<>>)
  BY <1>1 DEF Replaces, L!Continue
<1> QED BY <1>2

LEMMA AllocateEffect ==
    ASSUME HeapType, NEW x, NEW m, L!Allocate(x, m), NEW y \in L!Owners
    PROVE  at'[y] # 0 => at[y] # 0 \/ y = x
BY DEF L!Allocate, L!Hold, HeapType, Holders

LEMMA DropEffect == ASSUME HeapType, NEW t, NEW s, L!DoDrop(t, s) PROVE StepEffect(t, s)
<1>1. /\ t \in started /\ program' = program /\ started' = started
      /\ s.do = "drop" /\ at' = [at EXCEPT ![s.x] = 0]
      /\ \/ L!Continue(t, <<>>)
         \/ L!Continue(t, L!Destructors(at[s.x]))
  BY DEF L!DoDrop, L!Release, L!Executes, L!Hold, L!Nil
<1>2. \E more : Replaces(t, s, more)
  <2>1. CASE L!Continue(t, <<>>)
    BY <2>1, ReplacedByNothing
  <2>2. CASE L!Continue(t, L!Destructors(at[s.x]))
    <3> DEFINE o == at[s.x]
               q == L!Destructors(o)
    <3>1. \E name : L!Parts(o) = <<>> \/ L!Parts(o) = <<name>>
      BY DEF L!Parts
    <3>2. \E l \in {0, 1} : DOMAIN L!Parts(o) = 1..l
      BY <3>1
    <3>3. PICK l \in {0, 1} : q = [k \in 1..l |-> L!Drop(L!Parts(o)[k])]
      BY <3>2 DEF L!Destructors
    <3> HIDE DEF q
    <3>4. q \in Seq({L!Drop(L!Parts(o)[k]) : k \in 1..l})
      BY <3>3
    <3>5. \A k \in DOMAIN q : q[k].do = "drop"
      BY <3>3 DEF L!Drop, L!Statement
    <3>6. \A k \in DOMAIN q : q[k].do # "start" /\ \A x : ~Acquires(q[k], x)
      BY <3>5 DEF Acquires
    <3>7. IsSeq(q)
      BY <3>4, IsSeqOf
    <3> QED BY <2>2, <3>6, <3>7 DEF Replaces, L!Continue, q
  <2> QED BY <1>1, <2>1, <2>2
<1>3. ASSUME NEW x \in L!Owners, at'[x] # 0
      PROVE  at[x] # 0 /\ ~Drops(s, x)
  BY <1>1, <1>3, OwnersAreNames DEF HeapType, Holders, Drops
<1> QED BY <1>1, <1>2, <1>3 DEF StepEffect

LEMMA PushEffect == ASSUME NEW t, NEW s, L!DoPush(t, s) PROVE StepEffect(t, s)
<1>1. /\ t \in started /\ program' = program /\ started' = started
      /\ s.do = "push" /\ at' = at
  BY DEF L!DoPush, L!Executes
<1>2. PICK larger, first :
        /\ first = <<>> \/ first = <<L!Drop(s.y), L!New(s.y, larger)>>
        /\ L!Continue(t, first \o <<L!Add(s.x, 1)>>)
  BY DEF L!DoPush
<1> DEFINE add == <<L!Add(s.x, 1)>>
           Only(q) == /\ IsSeq(q)
                      /\ \A i \in DOMAIN q :
                            q[i].do # "start" /\ \A x : Acquires(q[i], x) => x = s.y
<1>3. Only(first)
  <2> DEFINE grow == <<L!Drop(s.y), L!New(s.y, larger)>>
  <2>0. grow \in Seq({L!Drop(s.y), L!New(s.y, larger)})
        /\ <<>> \in Seq({L!Drop(s.y), L!New(s.y, larger)})
    OBVIOUS
  <2>1. first \in Seq({L!Drop(s.y), L!New(s.y, larger)})
    <3> HIDE DEF grow
    <3>1. first = <<>> \/ first = grow
      BY <1>2 DEF grow
    <3> QED BY <2>0, <3>1
  <2>2. IsSeq(first)
    BY <2>1, IsSeqOf
  <2>3. \A i \in DOMAIN first : first[i] \in {L!Drop(s.y), L!New(s.y, larger)}
    BY <2>1
  <2> QED BY <2>2, <2>3 DEF Acquires, L!Drop, L!New, L!Statement
<1>4. Only(add)
  <2>1. add \in Seq({L!Add(s.x, 1)})
    OBVIOUS
  <2>2. IsSeq(add)
    BY <2>1, IsSeqOf
  <2> QED BY <2>2 DEF Acquires, L!Add, L!Statement
<1>5. ASSUME NEW a, NEW b, Only(a), Only(b) PROVE Only(a \o b)
  <2>0. IsSeq(a) /\ IsSeq(b)
    BY <1>5
  <2>1. Len(a) \in Nat /\ DOMAIN a = 1..Len(a) /\ Len(b) \in Nat /\ DOMAIN b = 1..Len(b)
    BY <2>0, SeqLength
  <2>2. /\ IsSeq(a \o b) /\ DOMAIN (a \o b) = 1..(Len(a) + Len(b))
        /\ \A i \in DOMAIN a : (a \o b)[i] = a[i]
        /\ \A i \in DOMAIN b : (a \o b)[Len(a) + i] = b[i]
    BY <2>0, <2>1, SeqJoined
  <2>3. ASSUME NEW i \in DOMAIN (a \o b)
        PROVE  i \in DOMAIN a \/ (i - Len(a) \in DOMAIN b /\ i = Len(a) + (i - Len(a)))
    BY <2>1, <2>2
  <2> QED BY <1>5, <2>2, <2>3
<1>6. Acquires(s, s.y)
  BY <1>1 DEF Acquires
<1> HIDE DEF add
<1>7. Replaces(t, s, first \o add)
  <2>1. Only(first \o add)
    BY <1>3, <1>4, <1>5
  <2> QED BY <1>2, <1>6, <2>1 DEF Replaces, L!Continue, add
<1>8. \A x : ~Drops(s, x)
  BY <1>1 DEF Drops
<1> QED BY <1>1, <1>7, <1>8 DEF StepEffect

LEMMA UseEffect == ASSUME NEW t, NEW s, L!DoUse(t, s) PROVE StepEffect(t, s)
<1>1. /\ t \in started /\ program' = program /\ started' = started
      /\ s.do = "use" /\ at' = at
      /\ L!Continue(t, <<>>) \/ \E use \in L!Uses : L!Continue(t, <<use, L!Use>>)
  BY DEF L!DoUse, L!Executes
<1>2. \E more : Replaces(t, s, more)
  <2>1. ASSUME NEW use \in L!Uses, L!Continue(t, <<use, L!Use>>)
        PROVE  Replaces(t, s, <<use, L!Use>>)
    <3> DEFINE q == <<use, L!Use>>
    <3>1. q \in Seq({use, L!Use})
      OBVIOUS
    <3>2. IsSeq(q) /\ \A i \in DOMAIN q : q[i] \in {use, L!Use}
      <4>1. IsSeq(q)
        BY <3>1, IsSeqOf
      <4>2. \A i \in DOMAIN q : q[i] \in {use, L!Use}
        OBVIOUS
      <4> QED BY <4>1, <4>2
    <3>3. use.do # "start" /\ use.x \in L!ObjectsOfA /\ use.do # "push" /\ use.do # "use"
      BY DEF L!Uses, L!New, L!Copy, L!Move, L!Drop, L!Statement
    <3>4. L!Use.do = "use"
      BY DEF L!Use, L!Statement
    <3>5. \A x : Acquires(use, x) \/ Acquires(L!Use, x) => Acquires(s, x)
      BY <1>1, <3>3, <3>4 DEF Acquires
    <3> QED BY <2>1, <3>2, <3>3, <3>4, <3>5 DEF Replaces, L!Continue
  <2> QED BY <1>1, <2>1, ReplacedByNothing
<1>3. \A x : ~Drops(s, x)
  BY <1>1 DEF Drops
<1> QED BY <1>1, <1>2, <1>3 DEF StepEffect

LEMMA AnyEffect == ASSUME HeapType, NEW t, NEW s, L!Do(t, s) PROVE StepEffect(t, s)
<1> DEFINE Simple ==
             /\ t \in started /\ program' = program
             /\ L!Continue(t, <<>>) /\ s.do # "drop"
<1>0. ASSUME Simple,
             started' = started \/ (s.do = "start" /\ started' = started \cup {s.x}),
             \A x \in L!Owners : at'[x] # 0 => at[x] # 0 \/ Acquires(s, x)
      PROVE  StepEffect(t, s)
  BY <1>0, ReplacedByNothing DEF StepEffect, Drops
<1>1. ASSUME L!DoNew(t, s) \/ L!DoCopy(t, s) PROVE StepEffect(t, s)
  <2>1. Simple /\ started' = started /\ s.do \in {"new", "copy"}
        /\ \E m : L!Allocate(s.x, m)
    BY <1>1 DEF L!DoNew, L!DoCopy, L!Executes
  <2>2. \A x \in L!Owners : at'[x] # 0 => at[x] # 0 \/ x = s.x
    BY <2>1, AllocateEffect
  <2> QED BY <1>0, <2>1, <2>2 DEF Acquires
<1>2. ASSUME L!DoShare(t, s) \/ L!DoMove(t, s) PROVE StepEffect(t, s)
  <2>1. Simple /\ started' = started /\ s.do \in {"share", "move"}
    BY <1>2 DEF L!DoShare, L!DoMove, L!MoveTo, L!Executes
  <2>2. \A x \in L!Owners : at'[x] # 0 => at[x] # 0 \/ x = s.x
    <3>1. \/ at' = [at EXCEPT ![s.x] = at[s.y]]
          \/ at' = [at EXCEPT ![s.x] = at[s.y], ![s.y] = 0]
      BY <1>2 DEF L!DoShare, L!DoMove, L!MoveTo, L!Hold, L!Nil
    <3>2. at \in Holders
      BY DEF HeapType
    <3> QED BY <3>1, <3>2, OwnersAreNames DEF Holders
  <2> QED BY <1>0, <2>1, <2>2 DEF Acquires
<1>3. ASSUME L!DoRefer(t, s) PROVE StepEffect(t, s)
  <2>1. Simple /\ started' = started
    BY <1>3 DEF L!DoRefer, L!Executes
  <2>2. s.x \notin L!Owners /\ at' = [at EXCEPT ![s.x] = at[s.y]]
    BY <1>3 DEF L!DoRefer, L!Hold, L!References, L!Owners
  <2>3. \A x \in L!Owners : at'[x] = at[x]
    BY <2>2 DEF HeapType, Holders
  <2> QED BY <1>0, <2>1, <2>3
<1>4. ASSUME L!DoStore(t, s) \/ L!DoPrint(t, s) \/ L!DoCall(t, s) \/ L!DoStart(t, s) \/ L!DoWait(t, s)
      PROVE  StepEffect(t, s)
  <2>1. Simple /\ at' = at
    BY <1>4 DEF L!DoStore, L!DoPrint, L!DoCall, L!DoStart, L!DoWait, L!Executes
  <2>2. started' = started \/ (s.do = "start" /\ started' = started \cup {s.x})
    BY <1>4 DEF L!DoStore, L!DoPrint, L!DoCall, L!DoStart, L!DoWait, L!Executes
  <2> QED BY <1>0, <2>1, <2>2
<1> QED BY <1>1, <1>2, <1>3, <1>4, DropEffect, PushEffect, UseEffect DEF L!Do

LEMMA PromiseIsAName == Promise \in L!Owners /\ Promise \notin Locals
BY Zenon DEF Promise, L!Owners, Locals

LEMMA MainKeepsScopes ==
    ASSUME ScopeInv, HeapType, rest["main"] # <<>>, L!Do("main", Head(rest["main"]))
    PROVE  ScopeInv'
<1> DEFINE q == rest["main"]
           s == Head(q)
<1>1. StepEffect("main", s)
  BY AnyEffect
<1>2. PICK more : Replaces("main", s, more)
  BY <1>1 DEF StepEffect
<1> DEFINE r == more \o Tail(q)
<1>3. rest'["main"] = r /\ rest'["t"] = rest["t"] /\ DOMAIN rest' = L!ThreadNames
  BY <1>2 DEF Replaces, ScopeInv, L!ThreadNames
<1>4. Owes(q, Kept(program)) /\ IsSeq(q) /\ program' = program /\ Kept(program)' = Kept(program)
  BY <1>1 DEF ScopeInv, Owes, StepEffect, Kept
<1>5. /\ \A S : Owes(q, S) => Owes(r, S)
      /\ \A x : NeverAcquires(q, x) => NeverAcquires(r, x)
      /\ \A x : NotAfterStart(q, x) => NotAfterStart(r, x)
      /\ \A x : DropsLater(q, 0, x) => DropsLater(r, 0, x) \/ Drops(s, x)
      /\ \A S, x : Owes(q, S) /\ Acquires(s, x)
                      => x \in S \/ (x \in Locals /\ DropsLater(r, 0, x))
  <2>1. q # <<>> /\ IsSeq(more)
        /\ \A i \in DOMAIN more :
              more[i].do # "start" /\ \A x : Acquires(more[i], x) => Acquires(Head(q), x)
    BY <1>2 DEF Replaces
  <2> QED BY <1>4, <2>1, Expanded
<1>6. s = q[1] /\ 1 \in DOMAIN q /\ \A j \in DOMAIN q : j = 1 \/ 1 < j
  <2>1. Len(q) \in Nat /\ DOMAIN q = 1..Len(q) /\ Len(q) > 0 /\ s = q[1]
    BY <1>4, SeqLength, SeqTail
  <2> QED BY <2>1
<1> HIDE DEF q, r, s
<1>7. ASSUME NEW x \in L!Owners, at'[x] # 0
      PROVE  x \in Kept(program) \/ (x \in Locals /\ DropsLater(r, 0, x))
  <2>1. (at[x] # 0 \/ Acquires(s, x)) /\ ~Drops(s, x)
    BY <1>1, <1>7 DEF StepEffect
  <2>2. CASE at[x] # 0
    BY <1>5, <1>7, <2>1, <2>2 DEF ScopeInv, q
  <2>3. CASE Acquires(s, x)
    BY <1>4, <1>5, <2>3
  <2> QED BY <2>1, <2>2, <2>3
<1>8. Handed'
  <2>0. Handed
    BY DEF ScopeInv
  <2>1. ASSUME at'[Promise] # 0 \/ ~NeverAcquires(r, Promise) PROVE DropsLater(rest["t"], 0, Promise)
    <3>1. at[Promise] # 0 \/ ~NeverAcquires(q, Promise)
      BY <1>1, <1>5, <1>6, <2>1, PromiseIsAName DEF StepEffect, NeverAcquires
    <3> QED BY <2>0, <3>1 DEF Handed, q
  <2>2. ASSUME "t" \in started' PROVE NeverAcquires(r, Promise)
    <3>1. CASE "t" \in started
      BY <1>5, <2>0, <3>1 DEF Handed, q
    <3>2. CASE s.do = "start"
      <4>1. ~Acquires(s, Promise)
        BY <3>2 DEF Acquires
      <4>2. NeverAcquires(q, Promise)
        BY <1>6, <2>0, <3>2, <4>1 DEF Handed, NotAfterStart, NeverAcquires, q
      <4> QED BY <1>5, <4>2
    <3> QED BY <1>1, <2>2, <3>1, <3>2 DEF StepEffect
  <2>3. NotAfterStart(r, Promise)
    BY <1>5, <2>0 DEF Handed, q
  <2> QED BY <1>3, <2>1, <2>2, <2>3 DEF Handed
<1>9. Owes(r, Kept(program))
  BY <1>4, <1>5
<1> QED BY <1>3, <1>4, <1>7, <1>8, <1>9 DEF ScopeInv

LEMMA ThreadKeepsScopes ==
    ASSUME ScopeInv, HeapType, rest["t"] # <<>>, L!Do("t", Head(rest["t"]))
    PROVE  ScopeInv'
<1> DEFINE q == rest["t"]
           s == Head(q)
<1>1. StepEffect("t", s)
  BY AnyEffect
<1>2. PICK more : Replaces("t", s, more)
  BY <1>1 DEF StepEffect
<1> DEFINE r == more \o Tail(q)
<1>3. rest'["t"] = r /\ rest'["main"] = rest["main"] /\ DOMAIN rest' = L!ThreadNames
  BY <1>2 DEF Replaces, ScopeInv, L!ThreadNames
<1>4. /\ IsSeq(q) /\ (\A x : NeverAcquires(q, x)) /\ Handed
      /\ program' = program /\ Kept(program)' = Kept(program)
  BY <1>1 DEF ScopeInv, StepEffect, Kept
<1>5. /\ IsSeq(r)
      /\ \A x : NeverAcquires(q, x) => NeverAcquires(r, x)
      /\ \A x : DropsLater(q, 0, x) => DropsLater(r, 0, x) \/ Drops(s, x)
  <2>1. q # <<>> /\ IsSeq(more)
        /\ \A i \in DOMAIN more :
              more[i].do # "start" /\ \A x : Acquires(more[i], x) => Acquires(Head(q), x)
    BY <1>2 DEF Replaces
  <2> QED BY <1>4, <2>1, Expanded
<1>6. \A x : ~Acquires(s, x)
  <2>1. s = q[1] /\ 1 \in DOMAIN q
    <3>1. Len(q) \in Nat /\ DOMAIN q = 1..Len(q) /\ Len(q) > 0 /\ s = q[1]
      BY <1>4, SeqLength, SeqTail
    <3> QED BY <3>1
  <2> QED BY <1>4, <2>1 DEF NeverAcquires
<1> HIDE DEF q, r, s
<1>7. \A x \in L!Owners : at'[x] # 0 => at[x] # 0 /\ ~Drops(s, x)
  BY <1>1, <1>6 DEF StepEffect
<1>8. "t" \in started /\ NeverAcquires(rest["main"], Promise)
  BY <1>1, <1>4 DEF StepEffect, Handed
<1>9. Handed'
  <2>1. at'[Promise] # 0 => DropsLater(r, 0, Promise)
    BY <1>4, <1>5, <1>7, PromiseIsAName DEF Handed, q
  <2> QED BY <1>3, <1>4, <1>8, <2>1 DEF Handed
<1> QED BY <1>3, <1>4, <1>5, <1>7, <1>9 DEF ScopeInv

------------------------------------------------------------------------------
(* The scripts of the listings.  The SMT solver sees their statements; it   *)
(* does not take strings with a space, so those are parameters of lemmas.   *)


LEMMA AddOfAcquiresNothing == \A x, y, z : ~Acquires(L!AddOf(x, y), z)
BY Zenon DEF Acquires, L!AddOf, L!Statement

USE AddOfAcquiresNothing
    DEF L!Statement, L!New, L!Copy, L!Set, L!Show, L!Drop, L!Move, L!Add, L!Refer,
        L!Share, L!Push, L!Count, L!Call, L!Say, L!Start, L!Join, L!Wait, L!Use,
        Acquires, Drops, DropsLater, Locals, L!ObjectsOfA


LEMMA ValueCaptureScoped == Owes(L!lambda_value_capture, {})
BY DEF L!lambda_value_capture, Owes, IsSeq

LEMMA ReferenceCaptureScoped == Owes(L!lambda_reference_capture, {})
BY DEF L!lambda_reference_capture, Owes, IsSeq

LEMMA ExpressionCaptureScoped == Owes(L!lambda_expression_capture, {})
BY DEF L!lambda_expression_capture, Owes, IsSeq

LEMMA RvalueScoped == Owes(L!rvalue, {})
BY DEF L!rvalue, Owes, IsSeq

LEMMA StringMovesScoped == Owes(L!string_moves, {})
BY DEF L!string_moves, Owes, IsSeq

LEMMA UniquePtrScoped == Owes(L!unique_ptr, {})
BY DEF L!unique_ptr, Owes, IsSeq

LEMMA AnyUseScoped == Owes(L!any_use, {})
BY DEF L!any_use, Owes, IsSeq

LEMMA ReturnsRvalueScoped == ASSUME NEW test PROVE Owes(L!ReturnsRvalue(test), {})
<1> DEFINE last == <<L!Show("obj"), L!Drop("obj")>>
<1>1. Owes(L!return_rvalue(test), {"obj"})
  BY DEF L!return_rvalue, Owes, IsSeq
<1>2. Owes(last, {}) /\ "obj" \in Locals /\ DropsLater(last, 0, "obj")
  BY DEF Owes, IsSeq
<1> HIDE DEF last
<1>3. Owes(L!return_rvalue(test) \o last, {})
  <2> HIDE DEF DropsLater, Locals
  <2> QED BY <1>1, <1>2, OwesJoined
<1> QED BY <1>3 DEF L!ReturnsRvalue, last

LEMMA ContainerScoped == Owes(L!linear_container, {})
<1> DEFINE S == {"v", "storage"}
           two == <<L!Push("v", "storage"), L!Push("v", "storage")>>
           three == <<L!Push("v", "storage"), L!Push("v", "storage"), L!Push("v", "storage")>>
           first == <<L!New("v", 0), L!New("storage", 0)>>
           again == <<L!Drop("storage"), L!Copy("storage", "v")>>
           last == <<L!Drop("storage"), L!Drop("v")>>
           show == L!SizeAndCapacity
           clear == <<L!Set("v", 0)>>
<1>1. Owes(first, S) /\ Owes(two, S) /\ Owes(three, S)
  BY DEF Owes, IsSeq
<1>2. Owes(show, S) /\ Owes(again, S) /\ Owes(clear, S)
  BY DEF L!SizeAndCapacity, Owes, IsSeq
<1>3. Owes(last, {}) /\ \A x \in S : x \in Locals /\ DropsLater(last, 0, x)
  BY DEF Owes, IsSeq
<1>4. L!linear_container =
        first \o show \o three \o show \o two \o show \o clear \o show \o again \o show \o last
  BY DEF L!linear_container
<1> HIDE DEF S, two, three, first, again, last, show, clear
<1>5. ASSUME NEW a, NEW b, Owes(a, S), Owes(b, S) PROVE Owes(a \o b, S)
  <2> HIDE DEF DropsLater, Locals
  <2> QED BY <1>5, OwesJoined
<1>6. Owes(first \o show \o three \o show \o two \o show \o clear \o show \o again \o show, S)
  BY <1>1, <1>2, <1>5
<1>7. ASSUME NEW a, Owes(a, S) PROVE Owes(a \o last, {})
  <2> HIDE DEF DropsLater, Locals
  <2> QED BY <1>3, <1>7, OwesJoined
<1> QED BY <1>4, <1>6, <1>7

LEMMA SharedPtrScoped == Owes(L!shared_ptr, {})
<1> DEFINE S == {"pointer", "pointer2", "pointer3"}
           first == <<L!New("pointer", 10), L!Share("pointer2", "pointer"),
                      L!Share("pointer3", "pointer")>>
           called == L!foo("pointer")
           refer == <<L!Show("pointer"), L!Refer("p", "pointer")>>
           second == <<L!Drop("pointer2")>>
           third == <<L!Drop("pointer3")>>
           last == <<L!Drop("pointer3"), L!Drop("pointer2"), L!Drop("pointer")>>
           counts == L!Counts
<1>1. Owes(first, S) /\ Owes(called, S) /\ Owes(refer, S)
  BY DEF L!foo, Owes, IsSeq
<1>2. Owes(second, S) /\ Owes(third, S) /\ Owes(counts, S)
  BY DEF L!Counts, Owes, IsSeq
<1>3. Owes(last, {}) /\ \A x \in S : x \in Locals /\ DropsLater(last, 0, x)
  BY DEF Owes, IsSeq
<1>4. L!shared_ptr =
        first \o called \o refer \o counts \o second \o counts \o third \o counts \o last
  BY DEF L!shared_ptr
<1> HIDE DEF S, first, called, refer, second, third, last, counts
<1>5. ASSUME NEW a, NEW b, Owes(a, S), Owes(b, S) PROVE Owes(a \o b, S)
  <2> HIDE DEF DropsLater, Locals
  <2> QED BY <1>5, OwesJoined
<1>6. Owes(first \o called \o refer \o counts \o second \o counts \o third \o counts, S)
  BY <1>1, <1>2, <1>5
<1>7. ASSUME NEW a, Owes(a, S) PROVE Owes(a \o last, {})
  <2> HIDE DEF DropsLater, Locals
  <2> QED BY <1>3, <1>7, OwesJoined
<1> QED BY <1>4, <1>6, <1>7

\* The members of 5.3 are never dropped by main().
LEMMA WeakPtrScoped == Owes(L!weak_ptr, Members)
<1>1. ASSUME NEW p, NEW q
      PROVE  Owes(<<L!New("a", 0), L!New("b", 0), L!Share(p, "b"), L!Share(q, "a"),
                    L!Drop("b"), L!Drop("a")>>, {p, q})
  BY DEF Owes, IsSeq
<1> QED BY ONLY <1>1, Zenon DEF L!weak_ptr, Members

LEMMA ThreadBasicScoped ==
    /\ Owes(L!thread_basic["main"], {})
    /\ IsSeq(L!thread_basic["t"]) /\ \A x : NeverAcquires(L!thread_basic["t"], x)
    /\ DOMAIN L!thread_basic = L!ThreadNames
<1>1. ASSUME NEW m PROVE IsSeq(<<L!Say(m)>>) /\ \A x : NeverAcquires(<<L!Say(m)>>, x)
  BY DEF IsSeq, NeverAcquires
<1>2. Owes(<<L!Start("t"), L!Join("t")>>, {})
  BY DEF Owes, IsSeq
<1>3. /\ L!thread_basic["main"] = <<L!Start("t"), L!Join("t")>>
      /\ \E m : L!thread_basic["t"] = <<L!Say(m)>>
      /\ DOMAIN L!thread_basic = {"main", "t"}
  BY DEF L!thread_basic
<1> HIDE DEF L!Start, L!Join, L!Say
<1> QED BY <1>1, <1>2, <1>3 DEF L!ThreadNames

\* p is the promise of 7.4.
FuturesMain(p) ==
    <<L!New("task", 0), L!Share("result", "task"), L!Move(p, "task"), L!Start("t"),
      L!Say("waiting..."), L!Wait("result"), L!Say("done!"), L!Show("result"),
      L!Drop("result"), L!Drop("task")>>

FuturesThread(p) == <<L!Set(p, 7), L!Drop(p)>>

LEMMA FuturesScoped ==
    /\ Owes(L!futures["main"], {Promise}) /\ NotAfterStart(L!futures["main"], Promise)
    /\ IsSeq(L!futures["t"]) /\ \A x : NeverAcquires(L!futures["t"], x)
    /\ DropsLater(L!futures["t"], 0, Promise)
    /\ DOMAIN L!futures = L!ThreadNames
<1>1. ASSUME NEW p, p \notin Locals
      PROVE  /\ Owes(FuturesMain(p), {p}) /\ NotAfterStart(FuturesMain(p), p)
             /\ IsSeq(FuturesThread(p)) /\ \A x : NeverAcquires(FuturesThread(p), x)
             /\ DropsLater(FuturesThread(p), 0, p)
  <2>1. Owes(FuturesMain(p), {p})
    BY DEF FuturesMain, Owes, IsSeq
  <2>2. NotAfterStart(FuturesMain(p), p)
    <3>1. p \notin {"result", "task"}
      BY <1>1
    <3>2. ASSUME NEW j \in DOMAIN FuturesMain(p), Acquires(FuturesMain(p)[j], p) PROVE j = 3
      BY <3>1, <3>2 DEF FuturesMain
    <3>3. ASSUME NEW j \in DOMAIN FuturesMain(p), FuturesMain(p)[j].do = "start" PROVE j = 4
      BY <3>3 DEF FuturesMain
    <3> HIDE DEF Acquires
    <3> QED BY <3>2, <3>3 DEF NotAfterStart
  <2>3. IsSeq(FuturesThread(p)) /\ \A x : NeverAcquires(FuturesThread(p), x)
    BY DEF FuturesThread, IsSeq, NeverAcquires
  <2>4. DropsLater(FuturesThread(p), 0, p)
    BY DEF FuturesThread
  <2> QED BY <2>1, <2>2, <2>3, <2>4
<1>2. /\ L!futures["main"] = FuturesMain(Promise) /\ L!futures["t"] = FuturesThread(Promise)
      /\ DOMAIN L!futures = L!ThreadNames
  BY ONLY Zenon DEF L!futures, FuturesMain, FuturesThread, Promise, L!ThreadNames
<1> HIDE DEF DropsLater, Locals
<1> QED BY <1>1, <1>2, PromiseIsAName

HIDE AddOfAcquiresNothing
     DEF L!Statement, L!New, L!Copy, L!Set, L!Show, L!Drop, L!Move, L!Add, L!Refer,
         L!Share, L!Push, L!Count, L!Call, L!Say, L!Start, L!Join, L!Wait, L!Use,
         Acquires, Drops, DropsLater, Locals, L!ObjectsOfA


LEMMA ScriptOf ==
    /\ L!Script("3.1 value") = L!Alone(L!lambda_value_capture)
    /\ L!Script("3.1 reference") = L!Alone(L!lambda_reference_capture)
    /\ L!Script("3.1 expression") = L!Alone(L!lambda_expression_capture)
    /\ L!Script("3.3") = L!Alone(L!rvalue)
    /\ L!Script("3.5") = L!Alone(L!ReturnsRvalue(FALSE))
    /\ L!Script("3.5 true") = L!Alone(L!ReturnsRvalue(TRUE))
    /\ L!Script("3.5 any") = L!Alone(L!any_use)
    /\ L!Script("3.6") = L!Alone(L!string_moves)
    /\ L!Script("4.1") = L!Alone(L!linear_container)
    /\ L!Script("5.1") = L!Alone(L!shared_ptr)
    /\ L!Script("5.2") = L!Alone(L!unique_ptr)
    /\ L!Script("5.3") = L!Alone(L!weak_ptr)
    /\ L!Script("7.1") = L!thread_basic
    /\ L!Script("7.4") = L!futures
BY Zenon DEF L!Script

LEMMA KeptOf ==
    /\ Kept("5.3") = Members /\ Kept("7.4") = {Promise}
    /\ \A p : p \notin {"5.3", "7.4"} => Kept(p) = {}
BY Zenon DEF Kept

\* A script that program p can start with.
Scoped(script, p) ==
    /\ DOMAIN script = L!ThreadNames
    /\ Owes(script["main"], Kept(p))
    /\ IsSeq(script["t"]) /\ \A x : NeverAcquires(script["t"], x)
    /\ \/ NeverAcquires(script["main"], Promise)
       \/ NotAfterStart(script["main"], Promise) /\ DropsLater(script["t"], 0, Promise)

LEMMA AloneScoped ==
    ASSUME NEW q, NEW p, Owes(q, Kept(p)), Promise \notin Kept(p)
    PROVE  Scoped(L!Alone(q), p)
<1>1. /\ L!Alone(q)["main"] = q /\ L!Alone(q)["t"] = <<>>
      /\ DOMAIN L!Alone(q) = L!ThreadNames
  BY DEF L!Alone, L!ThreadNames
<1>2. IsSeq(<<>>) /\ \A x : NeverAcquires(<<>>, x)
  <2>1. <<>> \in Seq({})
    OBVIOUS
  <2>2. IsSeq(<<>>)
    BY <2>1, IsSeqOf
  <2> QED BY <2>2 DEF NeverAcquires
<1>3. NeverAcquires(q, Promise)
  BY PromiseIsAName DEF Owes, NeverAcquires
<1> QED BY <1>1, <1>2, <1>3 DEF Scoped

LEMMA EveryScriptIsScoped == ASSUME NEW p \in L!Programs PROVE Scoped(L!Script(p), p)
<1>1. Promise \notin {} /\ Promise \notin Members
  BY Zenon DEF Promise, Members
<1>2. ASSUME NEW q, Owes(q, {}), p \notin {"5.3", "7.4"} PROVE Scoped(L!Alone(q), p)
  BY <1>1, <1>2, AloneScoped, KeptOf
<1>3. CASE p \in {"3.1 value", "3.1 reference", "3.1 expression", "3.3"}
  BY <1>2, <1>3, ScriptOf, ValueCaptureScoped, ReferenceCaptureScoped,
     ExpressionCaptureScoped, RvalueScoped, Zenon
<1>4. CASE p \in {"3.5", "3.5 true", "3.5 any", "3.6"}
  BY <1>2, <1>4, ScriptOf, ReturnsRvalueScoped, AnyUseScoped, StringMovesScoped, Zenon
<1>5. CASE p \in {"4.1", "5.1", "5.2"}
  BY <1>2, <1>5, ScriptOf, ContainerScoped, SharedPtrScoped, UniquePtrScoped, Zenon
<1>6. CASE p = "5.3"
  BY <1>1, <1>6, ScriptOf, KeptOf, WeakPtrScoped, AloneScoped, Zenon
<1>7. CASE p = "7.1"
  <2>1. Kept(p) = {}
    BY <1>7, KeptOf, Zenon
  <2>2. NeverAcquires(L!thread_basic["main"], Promise)
    BY ThreadBasicScoped, PromiseIsAName DEF Owes, NeverAcquires
  <2> QED BY <1>7, <2>1, <2>2, ScriptOf, ThreadBasicScoped, Zenon DEF Scoped
<1>8. CASE p = "7.4"
  BY <1>8, ScriptOf, KeptOf, FuturesScoped, Zenon DEF Scoped
<1>9. p \in {"3.1 value", "3.1 reference", "3.1 expression", "3.3"}
         \cup {"3.5", "3.5 true", "3.5 any", "3.6"} \cup {"4.1", "5.1", "5.2"}
         \cup {"5.3", "7.1", "7.4"}
  BY Zenon DEF L!Programs
<1> QED BY <1>3, <1>4, <1>5, <1>6, <1>7, <1>8, <1>9, Zenon

------------------------------------------------------------------------------
LEMMA ScopeInit == Init => ScopeInv
<1> SUFFICES ASSUME Init PROVE ScopeInv
  OBVIOUS
<1>1. ASSUME Scoped(rest, program), at = [x \in L!Names |-> 0], started \in {{}, {"main"}}
      PROVE  ScopeInv
  <2>1. "t" \notin started
    BY <1>1
  <2>2. at[Promise] = 0 /\ \A x \in L!Owners : at[x] = 0
    BY <1>1, PromiseIsAName, OwnersAreNames
  <2>3. NeverAcquires(rest["main"], Promise) => NotAfterStart(rest["main"], Promise)
    BY DEF NeverAcquires, NotAfterStart
  <2>4. Handed
    BY <1>1, <2>1, <2>2, <2>3 DEF Scoped, Handed
  <2> QED BY <1>1, <2>2, <2>4 DEF Scoped, ScopeInv
<1>2. CASE L!Init
  BY <1>1, <1>2, EveryScriptIsScoped DEF L!Init, L!Nil
<1>3. CASE HeapParked /\ program \in {"7.2", "7.3", "4.3", "handler"}
  <2>1. Owes(<<>>, {}) /\ Kept(program) = {} /\ Promise \notin Kept(program)
    <3>1. <<>> \in Seq({})
      OBVIOUS
    <3>2. IsSeq(<<>>)
      BY <3>1, IsSeqOf
    <3>3. Owes(<<>>, {})
      BY <3>2 DEF Owes
    <3>4. program \notin {"5.3", "7.4"}
      BY <1>3
    <3>5. Kept(program) = {}
      BY <3>4, KeptOf, Zenon
    <3> QED BY <3>3, <3>5
  <2>2. Scoped(rest, program)
    BY <1>3, <2>1, AloneScoped DEF HeapParked
  <2> QED BY <1>1, <1>3, <2>2 DEF HeapParked, L!Nil
<1> QED BY <1>2, <1>3 DEF Init, C!Init, P!Init

LEMMA ScopeNext == ScopeInv /\ HeapInv /\ [Next]_vars => ScopeInv'
<1> SUFFICES ASSUME ScopeInv, HeapInv, [Next]_vars PROVE ScopeInv'
  OBVIOUS
<1>1. ASSUME NEW t \in L!ThreadNames, HeapStep(t) PROVE ScopeInv'
  <2>1. t \in {"main", "t"} /\ rest[t] # <<>> /\ L!Do(t, Head(rest[t])) /\ HeapType
    BY <1>1 DEF HeapStep, L!Step, L!ThreadNames, HeapInv
  <2> QED BY <2>1, MainKeepsScopes, ThreadKeepsScopes
<1>2. CASE UNCHANGED <<program, heap>>
  BY <1>2 DEF heap, ScopeInv, Handed, Kept
<1>3. ASSUME NEW t \in Threads, ThreadStep(t) PROVE UNCHANGED <<program, heap>>
  BY <1>3 DEF ThreadStep, C!Step, C!Lock, C!Take, C!Assign, C!AssignThen, C!PrintV, C!ReadV,
      C!WriteV, C!Unlock, C!Leave
<1>4. ASSUME TupleStep \/ PathStep \/ Stopped \/ UNCHANGED vars
      PROVE  UNCHANGED <<program, heap>>
  BY <1>4 DEF TupleStep, PathStep, Stopped, vars, heap
<1> QED BY <1>1, <1>2, <1>3, <1>4 DEF Next

LEMMA ScopeImplies == ScopeInv /\ HeapInv => NothingLeaks
<1> SUFFICES ASSUME ScopeInv, HeapInv, OnHeap, L!Exited,
                    NEW o \in L!Objects, L!Alive(o)
             PROVE  /\ program \in {"5.3", "7.4"}
                    /\ L!OwnersOf(o) \subseteq {"a->pointer", "b->pointer", "task of t"}
                    /\ program = "7.4" => rest["t"] # <<>>
  BY Zenon DEF NothingLeaks, L!NothingLeaks
<1>1. rest["main"] = <<>> /\ \A x : ~DropsLater(rest["main"], 0, x)
  <2>1. rest["main"] = <<>>
    BY DEF L!Exited
  <2> QED BY <2>1 DEF DropsLater
<1>2. \A x \in L!Owners : at[x] # 0 => x \in Kept(program)
  BY <1>1 DEF ScopeInv
<1>3. o \in Nat /\ o # 0 /\ refs[o] = Count(at, o) /\ refs[o] > 0
  BY DEF L!Objects, L!Alive, L!Nil, HeapInv, HeapType, Counted
<1>4. PICK x \in L!Owners : at[x] = o
  <2>1. CASE {x \in L!Owners : at[x] = o} = {}
    BY <1>3, <2>1, FS_EmptySet DEF Count
  <2> QED BY <2>1
<1>5. program \in {"5.3", "7.4"}
  BY <1>2, <1>3, <1>4, KeptOf
<1>6. L!OwnersOf(o) \subseteq Kept(program)
  BY <1>2, <1>3 DEF L!OwnersOf
<1>7. Kept(program) \subseteq {"a->pointer", "b->pointer", "task of t"}
  BY <1>5, KeptOf, Zenon DEF Members, Promise
<1>8. ASSUME program = "7.4" PROVE rest["t"] # <<>>
  <2>1. x = Promise /\ at[Promise] # 0
    BY <1>2, <1>3, <1>4, <1>8, KeptOf
  <2>2. DropsLater(rest["t"], 0, Promise)
    BY <2>1 DEF ScopeInv, Handed
  <2> QED BY <2>2 DEF DropsLater
<1> QED BY <1>5, <1>6, <1>7, <1>8

\* When main() has returned, nothing is left on the heap but the cycle of 5.3 and
\* what the thread of 7.4 still owns: whatever a use of class A does, however many
\* objects it makes and however the threads of a listing run.
THEOREM NothingIsLeaked == Spec => []NothingLeaks
<1>1. HeapInv /\ ScopeInv => NothingLeaks
  BY ScopeImplies
<1> QED BY <1>1, HeapInit, HeapNext, ScopeInit, ScopeNext, PTL DEF Spec

==============================================================================
