--------------------------- MODULE WebServerProofs ---------------------------
(***************************************************************************)
(* Theorems about WebServer: for any clients, requests and streams, any    *)
(* number of threads and any pieces in which the units arrive.             *)
(***************************************************************************)
EXTENDS WebServer, SequenceTheorems, WellFoundedInduction, TLAPS

------------------------------------------------------------------------------
(* The inductive invariant.                                                *)

\* Of the stream of c the server has read Taken(c) units, and of these First(c)
\* are before the buffer.
Taken(c) == sent[c] - Len(wire[c])

First(c) == Taken(c) - Len(buffer[c])

\* Buffer and wire hold consecutive units of the stream, up to the last one sent.
Segments(c) ==
    /\ First(c) >= 0 /\ sent[c] <= Len(Stream[c])
    /\ \A n \in 1..Len(buffer[c]) : buffer[c][n] = Stream[c][First(c) + n]
    /\ \A n \in 1..Len(wire[c]) : wire[c][n] = Stream[c][Taken(c) + n]

\* A client waits in one place.
Once(c) ==
    /\ c \in backlog \/ stage[c] # "none" => accepted # c /\ \A t \in IoThreads : serving[t] # c
    /\ c \in backlog => stage[c] = "none"
    /\ accepted = c => \A t \in IoThreads : serving[t] # c
    /\ \A t, u \in IoThreads : serving[t] = c /\ serving[u] = c => t = u

\* Nothing has been read before the first head is waited for.
Fresh(c) ==
    stage[c] \in {"none", "handshake"} =>
        Taken(c) = 0 /\ buffer[c] = <<>> /\ answers[c] = <<>>

\* The read of a head is done when there is one, and no request that is still to
\* be found has been answered.
InHead(c) ==
    stage[c] = "head" =>
        /\ status[c] = "pending" => \A n \in 1..Len(buffer[c]) : ~IsHead(buffer[c][n])
        /\ status[c] = "done" => \E n \in 1..Len(buffer[c]) : IsHead(buffer[c][n])
        /\ \A n \in 1..Len(answers[c]) : \A m \in (First(c) + 1)..Len(Stream[c]) :
              IsHead(Stream[c][m]) => answers[c][n].req < Stream[c][m].req

\* The head of the request that is served is right before the buffer, and the
\* requests that have been answered are earlier ones.
InRequest(c) ==
    stage[c] \in {"body", "write"} =>
        LET u == Stream[c][First(c)]
        IN  /\ First(c) >= 1 /\ IsHead(u)
            /\ request[c] \in {0, u.req}
            /\ \A n \in 1..Len(answers[c]) :
                  \/ answers[c][n].req < u.req
                  \/ stage[c] = "write" /\ status[c] = "done" /\ answers[c][n].req = u.req

\* The read of the body waits for the rest of it, or for more than will ever come.
InBody(c) ==
    stage[c] = "body" =>
        LET length == Script[c][Stream[c][First(c)].req].length
            due    == Len(buffer[c]) + need[c]
        IN  /\ length \in Nat
            /\ status[c] = "pending" => due \in {length, SizeMod + length}
            /\ status[c] = "done" => Len(buffer[c]) = length

\* The answer is that of the request: the echo is its body.
Proper(c, a) ==
    /\ a.req \in DOMAIN Script[c]
    /\ Script[c][a.req].method = "POST" => a.content = Body(c, a.req)

InWrite(c) ==
    stage[c] = "write" => response[c].req = request[c] /\ Proper(c, response[c])

Answered(c) ==
    \A n \in 1..Len(answers[c]) :
        /\ Proper(c, answers[c][n])
        /\ n > 1 => answers[c][n - 1].req < answers[c][n].req
        /\ c \notin Pipelining => answers[c][n].req = n

\* An operation fails only when the client is gone.
FailsWhenGone(c) == status[c] = "failed" => c \in gone /\ stage[c] # "none"

Whole(c) == Len(buffer[c]) = BodySize(Script[c][request[c]])

Reason(c, n) ==
    \/ n > 0 /\ Script[c][n].version = "1.0"
    \/ n < Len(Script[c]) /\ Route(Script[c][n + 1]) = 0

\* A client that waits for its answers, and is there, has at most one request in
\* flight: the server finds each head where it looks for it.
Waits(c) ==
    c \notin Pipelining /\ c \notin gone =>
        LET n == Len(answers[c])
        IN  /\ \A m \in 1..sent[c] : Stream[c][m].req <= n + 1
            /\ stage[c] \in {"none", "handshake", "head"} /\ First(c) < Len(Stream[c]) =>
                  Stream[c][First(c) + 1] = Unit(n + 1, 0)
            /\ stage[c] = "body" => request[c] = n + 1
            /\ stage[c] = "write" =>
                  Whole(c) /\ request[c] = IF status[c] = "done" THEN n ELSE n + 1
            /\ stage[c] = "closed" => Reason(c, n) \/ listening = "terminated"

SocketInv(c) ==
    /\ Segments(c) /\ Fresh(c) /\ InHead(c) /\ InRequest(c) /\ InBody(c) /\ InWrite(c)
    /\ Answered(c) /\ FailsWhenGone(c) /\ Waits(c)

ConnectionInv(c) == Once(c) /\ SocketInv(c)

Inv == TypeOK /\ \A c \in Clients : ConnectionInv(c)

------------------------------------------------------------------------------
(* Streams.                                                                *)

LEMMA StreamSeq ==
    ASSUME NEW c \in Clients
    PROVE  /\ Stream[c] \in Seq(Units)
           /\ Len(Stream[c]) \in Nat
           /\ DOMAIN Stream[c] = 1..Len(Stream[c])
           /\ \A n \in 1..Len(Stream[c]) : Stream[c][n] \in Units
<1>1. Stream[c] \in Seq(Units)
  BY StreamAssumption
<1> QED BY <1>1, LenProperties

LEMMA ScriptSeq ==
    ASSUME NEW c \in Clients
    PROVE  /\ Len(Script[c]) \in Nat
           /\ DOMAIN Script[c] = 1..Len(Script[c])
           /\ \A i \in DOMAIN Script[c] :
                 /\ Script[c][i] \in Request
                 /\ Script[c][i].length \in {NoLength, BadLength} \cup Nat
                 /\ BodySize(Script[c][i]) \in Nat
                 /\ Script[c][i].length \in Nat => BodySize(Script[c][i]) = Script[c][i].length
                 /\ Script[c][i].length \notin Nat => BodySize(Script[c][i]) = 0
<1>1. Script[c] \in Seq(Request)
  BY ScriptAssumption
<1>2. DOMAIN Script[c] = 1..Len(Script[c]) /\ Len(Script[c]) \in Nat
  BY <1>1, LenProperties
<1>3. \A i \in DOMAIN Script[c] : Script[c][i] \in Request
  BY <1>1
<1>4. \A r \in Request : /\ r.length \in {NoLength, BadLength} \cup Nat
                         /\ BodySize(r) \in Nat
                         /\ r.length \in Nat => BodySize(r) = r.length
                         /\ r.length \notin Nat => BodySize(r) = 0
  BY DEF Request, BodySize
<1> QED BY <1>2, <1>3, <1>4

\* Each unit of the stream belongs to a request ...
LEMMA UnitOfRequest ==
    ASSUME NEW c \in Clients, NEW n \in 1..Len(Stream[c])
    PROVE  /\ Stream[c][n].req \in DOMAIN Script[c]
           /\ Stream[c][n].part \in 0..BodySize(Script[c][Stream[c][n].req])
           /\ Stream[c][n] = Unit(Stream[c][n].req, Stream[c][n].part)
<1>1. PICK i \in DOMAIN Script[c] : Stream[c][n] \in UnitsOf(c, i)
  BY StreamAssumption, StreamSeq
<1>2. PICK p \in 0..BodySize(Script[c][i]) : Stream[c][n] = Unit(i, p)
  BY <1>1 DEF UnitsOf
<1>3. Unit(i, p).req = i /\ Unit(i, p).part = p
  BY DEF Unit
<1> QED BY <1>1, <1>2, <1>3

\* ... is there ...
LEMMA UnitArrives ==
    ASSUME NEW c \in Clients, NEW i \in DOMAIN Script[c], NEW p \in 0..BodySize(Script[c][i])
    PROVE  \E n \in 1..Len(Stream[c]) : Stream[c][n] = Unit(i, p)
<1>1. Unit(i, p) \in UnitsOf(c, i)
  BY DEF UnitsOf
<1> QED BY <1>1, StreamAssumption, StreamSeq

\* ... and is in its place.
LEMMA InOrder ==
    ASSUME NEW c \in Clients, NEW m \in 1..Len(Stream[c]), NEW n \in 1..Len(Stream[c]), m < n
    PROVE  LET u == Stream[c][m]
               v == Stream[c][n]
           IN  u.req < v.req \/ (u.req = v.req /\ u.part < v.part)
BY StreamAssumption, StreamSeq DEF Before

\* A unit is followed by the next one of its request, and the last one by the head
\* of the next request.
LEMMA Successor ==
    ASSUME NEW c \in Clients, NEW m \in 1..Len(Stream[c]),
           NEW i \in DOMAIN Script[c], NEW p \in 0..BodySize(Script[c][i]),
           Stream[c][m] = Unit(i, p)
    PROVE  /\ p < BodySize(Script[c][i]) =>
                 m < Len(Stream[c]) /\ Stream[c][m + 1] = Unit(i, p + 1)
           /\ p = BodySize(Script[c][i]) /\ m < Len(Stream[c]) =>
                 Stream[c][m + 1] = Unit(i + 1, 0)
<1> DEFINE L == Len(Stream[c])
           S == Stream[c]
           B(j) == BodySize(Script[c][j])
<1>0. /\ L \in Nat /\ Len(Script[c]) \in Nat /\ DOMAIN Script[c] = 1..Len(Script[c])
      /\ \A j \in 1..Len(Script[c]) : B(j) \in Nat
  BY StreamSeq, ScriptSeq
<1>1. \A n \in 1..L : /\ S[n].req \in Nat /\ S[n].part \in Nat
                      /\ S[n].req \in 1..Len(Script[c]) /\ S[n].part <= B(S[n].req)
                      /\ S[n] = Unit(S[n].req, S[n].part)
  <2> TAKE n \in 1..L
  <2>1. /\ S[n].req \in 1..Len(Script[c]) /\ S[n].part \in 0..B(S[n].req)
        /\ S[n] = Unit(S[n].req, S[n].part)
    BY <1>0, UnitOfRequest
  <2> QED BY <1>0, <2>1
<1>2. \A j, k \in 1..L : j < k => \/ S[j].req < S[k].req
                                  \/ S[j].req = S[k].req /\ S[j].part < S[k].part
  BY InOrder
<1>3. S[m].req = i /\ S[m].part = p /\ m \in 1..L /\ i \in Nat /\ p \in Nat /\ B(i) \in Nat
  BY <1>0 DEF Unit
<1> HIDE DEF L, S, B
<1>4. ASSUME p < B(i) PROVE m < L /\ S[m + 1] = Unit(i, p + 1)
  <2>1. PICK n \in 1..L : S[n] = Unit(i, p + 1)
    <3>1. p + 1 \in 0..B(i)
      BY <1>3, <1>4
    <3> QED BY <3>1, UnitArrives DEF L, S, B
  <2>2. S[n].req = i /\ S[n].part = p + 1
    BY <2>1 DEF Unit
  <2>3. m < n
    BY <1>0, <1>2, <1>3, <2>2
  <2>4. m + 1 \in 1..L
    BY <1>0, <2>3
  <2>5. ~(m + 1 < n)
    <3>1. \/ i < S[m + 1].req
          \/ i = S[m + 1].req /\ p < S[m + 1].part
      BY <1>2, <1>3, <2>4
    <3>2. m + 1 < n => \/ S[m + 1].req < i
                       \/ S[m + 1].req = i /\ S[m + 1].part < p + 1
      BY <1>2, <2>2, <2>4
    <3>3. S[m + 1].req \in Nat /\ S[m + 1].part \in Nat
      BY <1>1, <2>4
    <3> QED BY <1>3, <3>1, <3>2, <3>3
  <2> QED BY <1>0, <2>1, <2>3, <2>5
<1>5. ASSUME p = B(i), m < L PROVE S[m + 1] = Unit(i + 1, 0)
  <2>1. m + 1 \in 1..L
    BY <1>0, <1>5
  <2>2. S[m + 1].req > i
    BY SMTT(40), <1>0, <1>1, <1>2, <1>3, <1>5, <2>1
  <2>3. i + 1 \in DOMAIN Script[c] /\ 0 \in 0..B(i + 1)
    BY SMTT(40), <1>0, <1>1, <2>1, <2>2
  <2>4. PICK n \in 1..L : S[n] = Unit(i + 1, 0)
    BY <2>3, UnitArrives DEF L, S, B
  <2>5. S[n].req = i + 1 /\ S[n].part = 0
    BY <2>4 DEF Unit
  <2>6. m < n
    BY <1>0, <1>2, <1>3, <2>5
  <2>7. ~(m + 1 < n)
    <3>1. m + 1 < n => \/ S[m + 1].req < i + 1
                       \/ S[m + 1].req = i + 1 /\ S[m + 1].part < 0
      BY <1>2, <2>1, <2>5
    <3>2. S[m + 1].req \in Nat /\ S[m + 1].part \in Nat
      BY <1>1, <2>1
    <3> QED BY <1>3, <2>2, <3>1, <3>2
  <2> QED BY <1>0, <2>4, <2>6, <2>7
<1> QED BY <1>4, <1>5 DEF L, S, B

\* After the last unit of a request comes the first unit of the next request.
LEMMA AfterBody ==
    ASSUME NEW c \in Clients, NEW m \in 1..Len(Stream[c]), NEW i \in DOMAIN Script[c],
           Stream[c][m] = Unit(i, BodySize(Script[c][i])), m < Len(Stream[c])
    PROVE  Stream[c][m + 1] = Unit(i + 1, 0)
<1>1. BodySize(Script[c][i]) \in 0..BodySize(Script[c][i])
  BY ScriptSeq
<1> QED BY <1>1, Successor

LEMMA HasMin ==
    ASSUME NEW S \in SUBSET Nat, S # {}
    PROVE  \E x \in S : \A y \in S : x <= y
<1>1. IsWellFoundedOn(OpToRel(<,Nat), Nat)
  BY NatLessThanWellFounded
<1>2. PICK x \in S : \A y \in S : ~ (<<y, x>> \in OpToRel(<,Nat))
  BY <1>1, WFMin
<1>3. \A y \in S : ~ (y < x)
  BY <1>2 DEF OpToRel
<1> QED BY <1>3

LEMMA MinIsMember ==
    ASSUME NEW S \in SUBSET Nat, S # {}
    PROVE  Min(S) \in S /\ \A y \in S : Min(S) <= y
<1>1. \E x \in S : \A y \in S : x <= y
  BY HasMin
<1> QED BY <1>1 DEF Min

\* The body of a request follows its head.
LEMMA BodyFollows ==
    ASSUME NEW c \in Clients, NEW f \in 1..Len(Stream[c]), IsHead(Stream[c][f]),
           NEW p \in 0..BodySize(Script[c][Stream[c][f].req])
    PROVE  f + p <= Len(Stream[c]) /\ Stream[c][f + p] = Unit(Stream[c][f].req, p)
<1> DEFINE i == Stream[c][f].req
           B == BodySize(Script[c][i])
           Right(q) == f + q <= Len(Stream[c]) /\ Stream[c][f + q] = Unit(i, q)
           wrong == {q \in 0..B : ~Right(q)}
<1>0. i \in DOMAIN Script[c] /\ B \in Nat /\ Len(Stream[c]) \in Nat
  BY UnitOfRequest, ScriptSeq, StreamSeq
<1>1. SUFFICES ASSUME wrong # {} PROVE FALSE
  OBVIOUS
<1>2. wrong \in SUBSET Nat
  BY <1>0
<1>3. PICK q \in wrong : \A r \in wrong : q <= r
  BY <1>1, <1>2, HasMin
<1>4. Right(0)
  BY <1>0, UnitOfRequest DEF IsHead
<1>5. q # 0 /\ q - 1 \in 0..B /\ q - 1 < B
  BY <1>0, <1>3, <1>4
<1>6. Right(q - 1)
  BY <1>0, <1>2, <1>3, <1>5
<1>7. f + (q - 1) \in 1..Len(Stream[c])
  BY <1>0, <1>2, <1>5, <1>6
<1>8. f + (q - 1) < Len(Stream[c]) /\ Stream[c][(f + (q - 1)) + 1] = Unit(i, (q - 1) + 1)
  BY <1>0, <1>5, <1>6, <1>7, Successor
<1>9. (f + (q - 1)) + 1 = f + q /\ (q - 1) + 1 = q
  BY <1>2, <1>3
<1>10. Right(q)
  BY <1>0, <1>7, <1>8, <1>9
<1> QED BY <1>3, <1>10

------------------------------------------------------------------------------
(* Types.                                                                  *)

LEMMA Pieces ==
    ASSUME NEW s \in Seq(Units), NEW k \in 0..Len(s)
    PROVE  /\ SubSeq(s, 1, k) \in Seq(Units)
           /\ Len(SubSeq(s, 1, k)) = k
           /\ \A n \in 1..k : SubSeq(s, 1, k)[n] = s[n]
           /\ SubSeq(s, k + 1, Len(s)) \in Seq(Units)
           /\ Len(SubSeq(s, k + 1, Len(s))) = Len(s) - k
           /\ \A n \in 1..(Len(s) - k) : SubSeq(s, k + 1, Len(s))[n] = s[k + n]
<1>0. Len(s) \in Nat /\ k \in Int /\ k + 1 \in Int /\ 1 \in Int /\ Len(s) \in Int
  BY LenProperties
<1>1. \A i \in 1..Len(s) : s[i] \in Units
  BY LenProperties
<1>2. (\A i \in 1..k : s[i] \in Units) /\ \A i \in (k + 1)..Len(s) : s[i] \in Units
  BY <1>0, <1>1
<1>3. /\ SubSeq(s, 1, k) \in Seq(Units)
      /\ Len(SubSeq(s, 1, k)) = IF 1 <= k THEN k - 1 + 1 ELSE 0
      /\ \A i \in 1..(k - 1 + 1) : SubSeq(s, 1, k)[i] = s[1 + i - 1]
  BY <1>0, <1>2, SubSeqProperties
<1>4. /\ SubSeq(s, k + 1, Len(s)) \in Seq(Units)
      /\ Len(SubSeq(s, k + 1, Len(s))) = IF k + 1 <= Len(s) THEN Len(s) - (k + 1) + 1 ELSE 0
      /\ \A i \in 1..(Len(s) - (k + 1) + 1) : SubSeq(s, k + 1, Len(s))[i] = s[(k + 1) + i - 1]
  BY <1>0, <1>2, SubSeqProperties
<1>5. /\ (IF 1 <= k THEN k - 1 + 1 ELSE 0) = k
      /\ k - 1 + 1 = k
      /\ (IF k + 1 <= Len(s) THEN Len(s) - (k + 1) + 1 ELSE 0) = Len(s) - k
  BY <1>0
<1>6. \A n \in 1..k : SubSeq(s, 1, k)[n] = s[n]
  <2> TAKE n \in 1..k
  <2>1. n \in 1..(k - 1 + 1) /\ 1 + n - 1 = n
    BY <1>0
  <2> QED BY <1>3, <2>1
<1>7. \A n \in 1..(Len(s) - k) : SubSeq(s, k + 1, Len(s))[n] = s[k + n]
  <2> TAKE n \in 1..(Len(s) - k)
  <2>1. n \in 1..(Len(s) - (k + 1) + 1) /\ (k + 1) + n - 1 = k + n
    BY <1>0
  <2> QED BY <1>4, <2>1
<1> QED BY <1>3, <1>4, <1>5, <1>6, <1>7

LEMMA Resourceful ==
    \A r : Route(r) \in 0..Len(AllResources)
<1> DEFINE Resource == [paths : SUBSET Paths, methods : SUBSET Methods]
<1>1. AllResources \in Seq(Resource)
  <2>1. Resources \in Seq(Resource)
    BY DEF Resources, Paths, Methods
  <2>2. DefaultResources \in Seq(Resource)
    BY DEF DefaultResources, Paths, Methods
  <2> QED BY <2>1, <2>2, ConcatProperties DEF AllResources
<1>2. Len(AllResources) \in Nat /\ DOMAIN AllResources = 1..Len(AllResources)
  BY <1>1, LenProperties
<1>3. ASSUME NEW r, Serving(r) # {} PROVE Min(Serving(r)) \in 1..Len(AllResources)
  <2>1. Serving(r) \in SUBSET Nat /\ Serving(r) \subseteq 1..Len(AllResources)
    BY <1>2 DEF Serving
  <2> QED BY <1>3, <2>1, MinIsMember
<1> QED BY <1>2, <1>3 DEF Route

\* What TypeOK says of one connection.
LEMMA Typed ==
    ASSUME Inv, NEW c \in Clients
    PROVE  /\ sent[c] \in Nat /\ request[c] \in Nat /\ need[c] \in 0..(SizeMod - 1)
           /\ wire[c] \in Seq(Units) /\ Len(wire[c]) \in Nat
           /\ buffer[c] \in Seq(Units) /\ Len(buffer[c]) \in Nat
           /\ answers[c] \in Seq(Responses) /\ Len(answers[c]) \in Nat
           /\ DOMAIN answers[c] = 1..Len(answers[c])
           /\ response[c] \in Responses
           /\ Taken(c) \in Nat /\ First(c) \in Nat
           /\ Len(Stream[c]) \in Nat
           /\ SizeMod \in Nat \ {0} /\ 2 * Len(Stream[c]) < SizeMod
           /\ ConnectionInv(c)
<1>1. /\ sent[c] \in Nat /\ request[c] \in Nat /\ need[c] \in 0..(SizeMod - 1)
      /\ wire[c] \in Seq(Units) /\ buffer[c] \in Seq(Units)
      /\ answers[c] \in Seq(Responses) /\ response[c] \in Responses
  BY DEF Inv, TypeOK
<1>2. /\ Len(wire[c]) \in Nat /\ Len(buffer[c]) \in Nat
      /\ Len(answers[c]) \in Nat /\ DOMAIN answers[c] = 1..Len(answers[c])
  BY <1>1, LenProperties
<1>3. Segments(c)
  BY DEF Inv, ConnectionInv, SocketInv
<1>4. Taken(c) \in Nat /\ First(c) \in Nat
  BY SMTT(40), <1>1, <1>2, <1>3 DEF Segments, First, Taken
<1> QED BY <1>1, <1>2, <1>4, StreamSeq, SizeAssumption DEF Inv

\* The head that the handler of the read of a head finds.
LEMMA HeadFound ==
    ASSUME Inv, NEW c \in Clients, Done(c, "head")
    PROVE  /\ HeadAt(c) \in 1..Len(buffer[c])
           /\ IsHead(buffer[c][HeadAt(c)])
           /\ \A k \in 1..Len(buffer[c]) : IsHead(buffer[c][k]) => HeadAt(c) <= k
           /\ First(c) + HeadAt(c) \in 1..Len(Stream[c])
           /\ buffer[c][HeadAt(c)] = Stream[c][First(c) + HeadAt(c)]
           /\ buffer[c][HeadAt(c)].req \in DOMAIN Script[c]
           /\ HeadLength(c) \in {NoLength, BadLength} \cup Nat
           /\ HeadRequest(c) = Script[c][buffer[c][HeadAt(c)].req]
           /\ HeadLength(c) = HeadRequest(c).length
           /\ Extra(c) \in Seq(Units)
           /\ Len(Extra(c)) = Len(buffer[c]) - HeadAt(c)
           /\ \A n \in 1..Len(Extra(c)) : Extra(c)[n] = buffer[c][HeadAt(c) + n]
<1> DEFINE H == {k \in DOMAIN buffer[c] : IsHead(buffer[c][k])}
<1>0. DOMAIN buffer[c] = 1..Len(buffer[c]) /\ Len(buffer[c]) \in Nat
  BY Typed, LenProperties
<1>1. H # {} /\ H \in SUBSET Nat
  BY <1>0 DEF Inv, ConnectionInv, SocketInv, InHead, Done
<1>2. HeadAt(c) \in H /\ \A k \in H : HeadAt(c) <= k
  BY <1>1, MinIsMember DEF HeadAt
<1>3. HeadAt(c) \in 1..Len(buffer[c]) /\ IsHead(buffer[c][HeadAt(c)])
  BY <1>0, <1>2
<1>4. /\ First(c) + HeadAt(c) \in 1..Len(Stream[c])
      /\ buffer[c][HeadAt(c)] = Stream[c][First(c) + HeadAt(c)]
  <2>1. Segments(c)
    BY Typed DEF ConnectionInv, SocketInv
  <2>2. First(c) + Len(buffer[c]) = Taken(c) /\ Taken(c) <= sent[c] /\ sent[c] \in Nat
    BY <1>0, Typed DEF First, Taken
  <2>3. First(c) \in Nat /\ Len(Stream[c]) \in Nat /\ Taken(c) \in Nat
    BY Typed
  <2> QED BY SMTT(40), <1>0, <1>3, <2>1, <2>2, <2>3 DEF Segments
<1>5. buffer[c][HeadAt(c)].req \in DOMAIN Script[c]
  BY <1>4, UnitOfRequest
<1>6. /\ HeadLength(c) \in {NoLength, BadLength} \cup Nat
      /\ HeadRequest(c) = Script[c][buffer[c][HeadAt(c)].req]
      /\ HeadLength(c) = HeadRequest(c).length
  BY <1>5, ScriptSeq DEF HeadLength, HeadRequest
<1>7. /\ Extra(c) \in Seq(Units)
      /\ Len(Extra(c)) = Len(buffer[c]) - HeadAt(c)
      /\ \A n \in 1..Len(Extra(c)) : Extra(c)[n] = buffer[c][HeadAt(c) + n]
  <2>1. HeadAt(c) \in 0..Len(buffer[c])
    BY <1>0, <1>3
  <2>2. buffer[c] \in Seq(Units)
    BY Typed
  <2> QED BY ZenonT(40), <2>1, <2>2, Pieces DEF Extra
<1> QED BY <1>0, <1>2, <1>3, <1>4, <1>5, <1>6, <1>7

LEMMA Remainder ==
    ASSUME NEW n \in Int, NEW m \in Nat \ {0}
    PROVE  n % m \in 0..(m - 1)
OBVIOUS

LEMMA SmallRemainder ==
    ASSUME NEW n \in Int, NEW m \in Nat \ {0}, -m < n, n < m
    PROVE  n % m = IF n >= 0 THEN n ELSE m + n
OBVIOUS

\* The resource and the answer of respond() to request i.
RouteTo(c, i) == IF i = 0 THEN 0 ELSE Route(Script[c][i])

AnswerTo(c, i, content) ==
    [req     |-> i,
     by      |-> RouteTo(c, i),
     content |-> IF Script[c][i].method = "POST" THEN content ELSE <<>>]

\* Where respond() leaves the connection.
LEMMA Responding ==
    ASSUME Inv, NEW c \in Clients, NEW i \in Nat, NEW content \in Seq(Units), Respond(c, i, content)
    PROVE  \/ /\ RouteTo(c, i) = 0
              /\ stage' = [stage EXCEPT ![c] = "closed"]
              /\ status' = [status EXCEPT ![c] = "done"]
              /\ response' = response
           \/ /\ i # 0 /\ RouteTo(c, i) # 0 /\ AnswerTo(c, i, content) \in Responses
              /\ stage' = [stage EXCEPT ![c] = "write"]
              /\ status' = [status EXCEPT ![c] = "pending"]
              /\ response' = [response EXCEPT ![c] = AnswerTo(c, i, content)]
<1>1. CASE RouteTo(c, i) = 0
  BY <1>1 DEF Respond, RouteTo, Close, Start
<1>2. CASE RouteTo(c, i) # 0
  <2>1. i # 0 /\ RouteTo(c, i) \in 0..Len(AllResources)
    BY <1>2, Resourceful DEF RouteTo
  <2>2. (IF Script[c][i].method = "POST" THEN content ELSE <<>>) \in Seq(Units)
    OBVIOUS
  <2>3. AnswerTo(c, i, content) \in Responses
    BY <2>1, <2>2 DEF Responses, AnswerTo
  <2> QED BY <1>2, <2>1, <2>3 DEF Respond, RouteTo, AnswerTo, Start
<1> QED BY <1>1, <1>2

LEMMA TypedByClients ==
    ASSUME Inv, NEW c \in Clients, Client(c)
    PROVE  TypeOK'
<1>0. TypeOK
  BY DEF Inv
<1>1. CASE Connect(c)
  BY <1>0, <1>1 DEF TypeOK, Connect, sockets
<1>2. CASE Send(c)
  <2>1. Stream[c][sent[c] + 1] \in Units
    BY <1>2, StreamSeq, Typed DEF Send
  <2>2. Append(wire[c], NextUnit(c)) \in Seq(Units)
    BY <2>1, Typed DEF NextUnit
  <2>3. /\ wire' = [wire EXCEPT ![c] = Append(wire[c], NextUnit(c))]
        /\ sent' = [sent EXCEPT ![c] = sent[c] + 1]
        /\ UNCHANGED <<secure, accepting, gone, stage, status, buffer, request, need, response, answers>>
    BY <1>2 DEF Send
  <2>4. sent[c] + 1 \in Nat
    BY Typed
  <2>5. sent' \in [Clients -> Nat] /\ wire' \in [Clients -> Seq(Units)]
    BY <1>0, <2>2, <2>3, <2>4 DEF TypeOK
  <2> QED BY <1>0, <2>3, <2>5 DEF TypeOK, accepting
<1>3. CASE HangUp(c)
  BY <1>0, <1>3 DEF TypeOK, HangUp, sockets, accepting
<1> QED BY <1>1, <1>2, <1>3 DEF Client

LEMMA TypedByAccepts ==
    ASSUME Inv, \/ AcceptCompletes \/ AcceptFails
                \/ \E t \in IoThreads : HandleAccept(t) \/ Serve(t)
    PROVE  TypeOK'
<1>0. TypeOK
  BY DEF Inv
<1>1. CASE AcceptCompletes
  BY <1>0, <1>1 DEF TypeOK, AcceptCompletes, sockets
<1>2. CASE AcceptFails
  BY <1>0, <1>2, BoundAssumption DEF TypeOK, AcceptFails, sockets
<1>3. ASSUME NEW t \in IoThreads, HandleAccept(t) PROVE TypeOK'
  BY <1>0, <1>3 DEF TypeOK, HandleAccept, HandleAcceptThen, sockets
<1>4. ASSUME NEW t \in IoThreads, Serve(t) PROVE TypeOK'
  <2>1. serving[t] \in Clients
    BY <1>0, <1>4 DEF TypeOK, Serve
  <2> QED BY <1>0, <1>4, <2>1 DEF TypeOK, Serve
<1> QED BY <1>1, <1>2, <1>3, <1>4

LEMMA TypedByNetwork ==
    ASSUME Inv, NEW c \in Clients, Network(c)
    PROVE  TypeOK'
<1>0. TypeOK
  BY DEF Inv
<1>1. CASE HandshakeCompletes(c)
  BY <1>0, <1>1 DEF TypeOK, HandshakeCompletes, Complete, accepting
<1>2. CASE ReadHead(c)
  <2>1. PICK k \in 1..Len(wire[c]) :
           /\ buffer' = [buffer EXCEPT ![c] = buffer[c] \o SubSeq(wire[c], 1, k)]
           /\ wire' = [wire EXCEPT ![c] = SubSeq(wire[c], k + 1, Len(wire[c]))]
           /\ \E s \in {"done", "pending"} : status' = [status EXCEPT ![c] = s]
    BY <1>2 DEF ReadHead
  <2>2. k \in 0..Len(wire[c])
    BY Typed
  <2>3. /\ SubSeq(wire[c], 1, k) \in Seq(Units)
        /\ SubSeq(wire[c], k + 1, Len(wire[c])) \in Seq(Units)
    BY <2>2, Typed, Pieces
  <2>4. buffer[c] \o SubSeq(wire[c], 1, k) \in Seq(Units)
    BY <2>3, Typed, ConcatProperties
  <2>5. UNCHANGED <<secure, accepting, gone, sent, stage, request, need, response, answers>>
    BY <1>2 DEF ReadHead
  <2> QED BY <1>0, <2>1, <2>3, <2>4, <2>5 DEF TypeOK, accepting
<1>3. CASE ReadBody(c)
  <2>1. PICK k \in 1..Len(wire[c]) :
           /\ k <= need[c]
           /\ buffer' = [buffer EXCEPT ![c] = buffer[c] \o SubSeq(wire[c], 1, k)]
           /\ wire' = [wire EXCEPT ![c] = SubSeq(wire[c], k + 1, Len(wire[c]))]
           /\ need' = [need EXCEPT ![c] = need[c] - k]
           /\ \E s \in {"done", "pending"} : status' = [status EXCEPT ![c] = s]
    BY <1>3 DEF ReadBody
  <2>2. k \in 0..Len(wire[c])
    BY Typed
  <2>3. /\ SubSeq(wire[c], 1, k) \in Seq(Units)
        /\ SubSeq(wire[c], k + 1, Len(wire[c])) \in Seq(Units)
    BY <2>2, Typed, Pieces
  <2>4. buffer[c] \o SubSeq(wire[c], 1, k) \in Seq(Units)
    BY <2>3, Typed, ConcatProperties
  <2>5. need[c] - k \in 0..(SizeMod - 1)
    BY <2>1, Typed
  <2>6. UNCHANGED <<secure, accepting, gone, sent, stage, request, response, answers>>
    BY <1>3 DEF ReadBody
  <2> QED BY <1>0, <2>1, <2>3, <2>4, <2>5, <2>6 DEF TypeOK, accepting
<1>4. CASE WriteCompletes(c)
  <2>1. Append(answers[c], response[c]) \in Seq(Responses)
    BY Typed
  <2>2. /\ \E a \in Seq(Responses) : answers' = [answers EXCEPT ![c] = a]
        /\ status' = [status EXCEPT ![c] = "done"]
        /\ UNCHANGED <<secure, accepting, gone, sent, stage, buffer, request, need, response, wire>>
    BY <1>4, <2>1, Typed DEF WriteCompletes, Complete
  <2> QED BY <1>0, <2>2 DEF TypeOK, accepting
<1>5. CASE OperationFails(c)
  BY <1>0, <1>5 DEF TypeOK, OperationFails, accepting
<1> QED BY <1>1, <1>2, <1>3, <1>4, <1>5 DEF Network

LEMMA TypedByHandlers ==
    ASSUME Inv, NEW c \in Clients, Handle(c)
    PROVE  TypeOK'
<1>0. TypeOK
  BY DEF Inv
<1>1. ASSUME ReadRequest(c) PROVE TypeOK'
  BY SMTT(40), <1>0, <1>1 DEF TypeOK, ReadRequest, Start, accepting
<1>2. ASSUME CloseOnly(c) PROVE TypeOK'
  BY <1>0, <1>2 DEF TypeOK, CloseOnly, Close, Start, accepting
<1>3. ASSUME NEW i \in Nat, NEW content \in Seq(Units), Respond(c, i, content)
      PROVE  /\ stage' \in [Clients -> {"none", "handshake", "head", "body", "write", "closed"}]
             /\ status' \in [Clients -> {"pending", "done", "failed"}]
             /\ response' \in [Clients -> Responses]
  <2>1. \/ /\ stage' = [stage EXCEPT ![c] = "closed"]
           /\ status' = [status EXCEPT ![c] = "done"]
           /\ response' = response
        \/ \E answer \in Responses :
              /\ stage' = [stage EXCEPT ![c] = "write"]
              /\ status' = [status EXCEPT ![c] = "pending"]
              /\ response' = [response EXCEPT ![c] = answer]
    BY <1>3, Responding
  <2>2. /\ stage \in [Clients -> {"none", "handshake", "head", "body", "write", "closed"}]
        /\ status \in [Clients -> {"pending", "done", "failed"}]
        /\ response \in [Clients -> Responses]
    BY <1>0 DEF TypeOK
  <2> QED BY <2>1, <2>2
<1>4. CASE HandleHead(c)
  <2>0. Done(c, "head")
    BY <1>4 DEF HandleHead
  <2> DEFINE n == (HeadLength(c) - Len(Extra(c))) % SizeMod
             i == IF HeadAt(c) = 1 THEN buffer[c][1].req ELSE 0
  <2> HIDE DEF n, i
  <2>1. n \in 0..(SizeMod - 1)
    <3>1. HeadLength(c) - Len(Extra(c)) \in Int
      <4>1. HeadLength(c) \in Int
        BY <2>0, HeadFound DEF NoLength, BadLength
      <4>2. Len(Extra(c)) \in Int
        BY <2>0, HeadFound, LenProperties
      <4> QED BY <4>1, <4>2
    <3> QED BY <3>1, Typed, Remainder DEF n
  <2>2. i \in Nat
    <3>1. buffer[c][HeadAt(c)].req \in DOMAIN Script[c]
      BY <2>0, HeadFound
    <3>2. buffer[c][HeadAt(c)].req \in Nat
      BY <3>1, ScriptSeq
    <3> QED BY <3>2 DEF i
  <2>3. Extra(c) \in Seq(Units)
    BY <2>0, HeadFound
  <2>4. /\ request' = [request EXCEPT ![c] = i]
        /\ buffer' = [buffer EXCEPT ![c] = Extra(c)]
        /\ UNCHANGED <<secure, accepting, gone, sent, wire, answers>>
        /\ \/ /\ \E s \in {"done", "pending"} : Start(c, "body", s)
              /\ need' = [need EXCEPT ![c] = n]
              /\ UNCHANGED response
           \/ /\ Respond(c, request'[c], <<>>)
              /\ UNCHANGED need
    BY <1>4 DEF HandleHead, HandleHeadWith, n, i
  <2>5. request'[c] = i
    BY <1>0, <2>4 DEF TypeOK
  <2>6. <<>> \in Seq(Units)
    OBVIOUS
  <2>7. CASE \E s \in {"done", "pending"} : /\ Start(c, "body", s)
                                            /\ need' = [need EXCEPT ![c] = n]
                                            /\ UNCHANGED response
    <3>1. PICK s \in {"done", "pending"} : Start(c, "body", s)
      BY <2>7
    <3>2. /\ stage' \in [Clients -> {"none", "handshake", "head", "body", "write", "closed"}]
          /\ status' \in [Clients -> {"pending", "done", "failed"}]
      BY <1>0, <3>1 DEF TypeOK, Start
    <3>3. /\ request' \in [Clients -> Nat]
          /\ buffer' \in [Clients -> Seq(Units)]
          /\ need' \in [Clients -> 0..(SizeMod - 1)]
      BY <1>0, <2>1, <2>2, <2>3, <2>4, <2>7 DEF TypeOK
    <3> QED BY ZenonT(40), <1>0, <2>4, <2>7, <3>2, <3>3 DEF TypeOK, accepting
  <2>8. CASE Respond(c, i, <<>>) /\ UNCHANGED need
    <3>1. /\ stage' \in [Clients -> {"none", "handshake", "head", "body", "write", "closed"}]
          /\ status' \in [Clients -> {"pending", "done", "failed"}]
          /\ response' \in [Clients -> Responses]
      BY <1>3, <2>2, <2>6, <2>8
    <3> QED BY <1>0, <2>2, <2>3, <2>4, <2>8, <3>1 DEF TypeOK, accepting
  <2> QED BY <2>4, <2>5, <2>7, <2>8
<1>5. CASE HandleBody(c)
  <2>1. /\ stage' \in [Clients -> {"none", "handshake", "head", "body", "write", "closed"}]
        /\ status' \in [Clients -> {"pending", "done", "failed"}]
        /\ response' \in [Clients -> Responses]
    BY <1>3, <1>5, Typed DEF HandleBody
  <2>2. UNCHANGED <<secure, accepting, gone, sent, buffer, request, need, wire, answers>>
    BY <1>5 DEF HandleBody
  <2> QED BY <1>0, <2>1, <2>2 DEF TypeOK, accepting
<1>6. CASE Terminate(c)
  BY <1>0, <1>6 DEF TypeOK, Terminate
<1> QED BY <1>1, <1>2, <1>4, <1>5, <1>6
        DEF Handle, HandleHandshake, HandleWrite, HandleLastWrite, HandleFailure

LEMMA TypedNext ==
    ASSUME Inv, [Next]_vars
    PROVE  TypeOK'
<1>1. CASE UNCHANGED vars
  BY <1>1 DEF Inv, TypeOK, vars, accepting, sockets
<1> QED BY <1>1, TypedByClients, TypedByAccepts, TypedByNetwork, TypedByHandlers DEF Next, Waiting

------------------------------------------------------------------------------
(* Who waits where.                                                        *)

LEMMA OnceStays ==
    ASSUME NEW c \in Clients, Once(c), UNCHANGED accepting,
           stage[c] # "none" <=> stage'[c] # "none"
    PROVE  Once(c)'
BY DEF Once, accepting

LEMMA OnceByHandlers ==
    ASSUME Inv, NEW c \in Clients, Network(c) \/ Handle(c) \/ Send(c) \/ HangUp(c),
           NEW d \in Clients
    PROVE  Once(d)'
<1>0. TypeOK /\ Once(d)
  BY DEF Inv, ConnectionInv
<1>1. CASE Send(c) \/ HangUp(c)
  BY <1>0, <1>1, OnceStays DEF Send, HangUp, accepting, sockets
<1>2. CASE Network(c)
  BY <1>0, <1>2, OnceStays DEF Network, HandshakeCompletes, ReadHead, ReadBody, WriteCompletes,
       OperationFails, accepting
<1>3. CASE Terminate(c)
  BY <1>3, ClientsAssumption DEF Once, Terminate
<1>4. CASE Handle(c) /\ ~Terminate(c)
  <2>1. ASSUME NEW s \in {"head", "body", "write", "closed"},
               stage' = [stage EXCEPT ![c] = s], stage[c] # "none", UNCHANGED accepting
        PROVE  Once(d)'
    BY <1>0, <2>1, OnceStays DEF TypeOK
  <2>2. stage[c] # "none"
    <3>1. CASE HandleFailure(c)
      BY <3>1 DEF HandleFailure, Failed, Inv, ConnectionInv, SocketInv, FailsWhenGone
    <3>2. CASE ~HandleFailure(c)
      BY <1>4, <3>2 DEF Handle, HandleHandshake, HandleHead, HandleBody, HandleWrite,
           HandleLastWrite, Done
    <3> QED BY <3>1, <3>2
  <2>3. UNCHANGED accepting
    BY <1>4 DEF Handle, HandleHandshake, HandleHead, HandleHeadWith, HandleBody, HandleWrite,
         HandleLastWrite, HandleFailure, ReadRequest, CloseOnly, accepting
  <2>4. \E s \in {"head", "body", "write", "closed"} : stage' = [stage EXCEPT ![c] = s]
    BY <1>4 DEF Handle, HandleHandshake, HandleHead, HandleHeadWith, HandleBody, HandleWrite,
         HandleLastWrite, HandleFailure, ReadRequest, CloseOnly, Respond, Close, Start
  <2> QED BY <2>1, <2>2, <2>3, <2>4
<1> QED BY <1>1, <1>2, <1>3, <1>4

LEMMA OnceByAccepts ==
    ASSUME Inv, NEW d \in Clients,
           \/ AcceptCompletes \/ AcceptFails \/ \E c \in Clients : Connect(c)
           \/ \E t \in IoThreads : HandleAccept(t) \/ Serve(t)
    PROVE  Once(d)'
<1>0. TypeOK /\ Once(d) /\ Nobody \notin Clients
  BY ClientsAssumption DEF Inv, ConnectionInv
<1>1. CASE AcceptCompletes
  BY <1>0, <1>1 DEF Once, AcceptCompletes, sockets
<1>2. CASE AcceptFails
  BY <1>0, <1>2 DEF Once, AcceptFails, sockets
<1>3. ASSUME NEW c \in Clients, Connect(c) PROVE Once(d)'
  BY <1>0, <1>3 DEF Once, Connect, Known, sockets
<1>4. ASSUME NEW t \in IoThreads, HandleAccept(t) PROVE Once(d)'
  BY <1>0, <1>4 DEF TypeOK, Once, HandleAccept, HandleAcceptThen, sockets
<1>5. ASSUME NEW t \in IoThreads, Serve(t) PROVE Once(d)'
  <2>1. CASE serving[t] = d
    BY <1>0, <1>5, <2>1 DEF TypeOK, Once, Serve
  <2>2. CASE serving[t] # d
    BY ZenonT(40), <1>0, <1>5, <2>2 DEF TypeOK, Once, Serve
  <2> QED BY <2>1, <2>2
<1> QED BY <1>1, <1>2, <1>3, <1>4, <1>5

------------------------------------------------------------------------------
(* Buffer and wire.                                                        *)

\* Nothing happens to the socket of c, and the end of the process is the end.
Same(c) ==
    /\ sent'[c] = sent[c] /\ wire'[c] = wire[c] /\ stage'[c] = stage[c] /\ status'[c] = status[c]
    /\ buffer'[c] = buffer[c] /\ request'[c] = request[c] /\ need'[c] = need[c]
    /\ response'[c] = response[c] /\ answers'[c] = answers[c]
    /\ c \in gone' <=> c \in gone
    /\ listening = "terminated" => listening' = "terminated"

LEMMA SameKeeps ==
    ASSUME NEW c \in Clients, SocketInv(c), Same(c)
    PROVE  SocketInv(c)'
<1>1. Taken(c)' = Taken(c) /\ First(c)' = First(c)
  BY DEF Same, First, Taken
<1>2. Segments(c)' /\ Fresh(c)' /\ InHead(c)'
  BY <1>1 DEF Same, SocketInv, Segments, Fresh, InHead
<1>3. InRequest(c)' /\ InBody(c)' /\ InWrite(c)'
  BY <1>1 DEF Same, SocketInv, InRequest, InBody, InWrite, Proper
<1>4. Answered(c)' /\ FailsWhenGone(c)'
  BY DEF Same, SocketInv, Answered, FailsWhenGone, Proper
<1>5. Waits(c)'
  BY <1>1 DEF Same, SocketInv, Waits, Whole, Reason
<1> QED BY <1>2, <1>3, <1>4, <1>5 DEF SocketInv

LEMMA SegmentsStay ==
    ASSUME NEW c \in Clients, Segments(c),
           sent'[c] = sent[c], wire'[c] = wire[c], buffer'[c] = buffer[c]
    PROVE  Segments(c)' /\ Taken(c)' = Taken(c) /\ First(c)' = First(c)
BY DEF Segments, First, Taken

\* k units are read from the wire into the buffer.
LEMMA SegmentsRead ==
    ASSUME Inv, NEW c \in Clients, NEW k \in 1..Len(wire[c]),
           sent'[c] = sent[c],
           buffer'[c] = buffer[c] \o SubSeq(wire[c], 1, k),
           wire'[c] = SubSeq(wire[c], k + 1, Len(wire[c]))
    PROVE  /\ Segments(c)' /\ Taken(c)' = Taken(c) + k /\ First(c)' = First(c)
           /\ Len(buffer'[c]) = Len(buffer[c]) + k
           /\ \A n \in 1..Len(buffer[c]) : buffer'[c][n] = buffer[c][n]
           /\ \A n \in 1..k : buffer'[c][Len(buffer[c]) + n] = wire[c][n]
<1> DEFINE b == buffer[c]
           w == wire[c]
           B == buffer'[c]
           W == wire'[c]
<1>a. Len(buffer[c]) \in Nat /\ Len(wire[c]) \in Nat /\ k \in 1..Len(wire[c]) /\ k \in Nat
  BY Typed
<1>0. /\ b \in Seq(Units) /\ w \in Seq(Units) /\ Len(b) \in Nat /\ Len(w) \in Nat
      /\ k \in 0..Len(w) /\ sent[c] \in Nat /\ Segments(c)
      /\ Taken(c) \in Nat /\ First(c) \in Nat
  BY Typed DEF ConnectionInv, SocketInv
<1>1. /\ SubSeq(w, 1, k) \in Seq(Units) /\ Len(SubSeq(w, 1, k)) = k
      /\ \A n \in 1..k : SubSeq(w, 1, k)[n] = w[n]
      /\ Len(W) = Len(w) - k
      /\ \A n \in 1..(Len(w) - k) : W[n] = w[k + n]
  BY <1>0, Pieces
<1>2. /\ Len(B) = Len(b) + k
      /\ \A n \in 1..(Len(b) + k) :
            B[n] = IF n <= Len(b) THEN b[n] ELSE SubSeq(w, 1, k)[n - Len(b)]
  BY <1>0, <1>1, ConcatProperties
<1>3. \A n \in 1..Len(b) : B[n] = b[n]
  BY <1>0, <1>2
<1>4. \A n \in 1..k : B[Len(b) + n] = w[n]
  <2> TAKE n \in 1..k
  <2>1. Len(b) + n \in 1..(Len(b) + k) /\ ~(Len(b) + n <= Len(b)) /\ (Len(b) + n) - Len(b) = n
    BY <1>a
  <2> QED BY <1>1, <1>2, <2>1
<1>5. Taken(c)' = Taken(c) + k /\ First(c)' = First(c)
  BY SMTT(40), <1>0, <1>1, <1>2 DEF Taken, First
<1>6. /\ First(c) >= 0 /\ sent[c] <= Len(Stream[c])
      /\ \A n \in 1..Len(b) : b[n] = Stream[c][First(c) + n]
      /\ \A n \in 1..Len(w) : w[n] = Stream[c][Taken(c) + n]
      /\ First(c) + Len(b) = Taken(c)
  <2>1. First(c) + Len(b) = Taken(c)
    BY <1>0 DEF First
  <2> QED BY <1>0, <2>1 DEF Segments
<1>7. \A n \in 1..Len(B) : B[n] = Stream[c][First(c) + n]
  <2> TAKE n \in 1..Len(B)
  <2>1. CASE n <= Len(b)
    BY <1>0, <1>3, <1>6, <2>1
  <2>2. CASE n > Len(b)
    <3>1. n - Len(b) \in 1..k /\ Len(b) + (n - Len(b)) = n
      BY <1>0, <1>2, <2>2
    <3>2. B[n] = w[n - Len(b)]
      BY <1>4, <3>1
    <3>3. w[n - Len(b)] = Stream[c][Taken(c) + (n - Len(b))]
      <4>1. n - Len(b) \in 1..Len(w)
        BY <1>a, <3>1
      <4> QED BY <1>6, <4>1
    <3>4. Taken(c) + (n - Len(b)) = First(c) + n
      BY <1>0, <1>6
    <3> QED BY <3>2, <3>3, <3>4
  <2> QED BY <1>0, <1>2, <2>1, <2>2
<1>8. \A n \in 1..Len(W) : W[n] = Stream[c][(Taken(c) + k) + n]
  <2> TAKE n \in 1..Len(W)
  <2>1. W[n] = w[k + n] /\ k + n \in 1..Len(w) /\ Taken(c) + (k + n) = (Taken(c) + k) + n
    BY <1>0, <1>1
  <2> QED BY <1>6, <2>1
<1>9. Segments(c)'
  BY <1>5, <1>6, <1>7, <1>8 DEF Segments
<1> QED BY <1>2, <1>3, <1>4, <1>5, <1>9

\* The first h units of the buffer are eaten.
LEMMA SegmentsEat ==
    ASSUME Inv, NEW c \in Clients, NEW h \in 0..Len(buffer[c]),
           sent'[c] = sent[c], wire'[c] = wire[c],
           Len(buffer'[c]) = Len(buffer[c]) - h,
           \A n \in 1..Len(buffer'[c]) : buffer'[c][n] = buffer[c][h + n]
    PROVE  Segments(c)' /\ Taken(c)' = Taken(c) /\ First(c)' = First(c) + h
<1>0. /\ Len(buffer[c]) \in Nat /\ Len(wire[c]) \in Nat /\ sent[c] \in Nat
      /\ Segments(c) /\ Taken(c) \in Nat /\ First(c) \in Nat
  BY Typed DEF ConnectionInv, SocketInv
<1>1. Taken(c)' = Taken(c) /\ First(c)' = First(c) + h
  BY SMTT(40), <1>0 DEF Taken, First
<1>2. \A n \in 1..Len(buffer'[c]) : buffer'[c][n] = Stream[c][(First(c) + h) + n]
  <2> TAKE n \in 1..Len(buffer'[c])
  <2>1. h + n \in 1..Len(buffer[c]) /\ First(c) + (h + n) = (First(c) + h) + n
    BY <1>0
  <2>2. buffer[c][h + n] = Stream[c][First(c) + (h + n)]
    BY <1>0, <2>1 DEF Segments
  <2> QED BY <2>1, <2>2
<1>3. /\ First(c) + h >= 0
      /\ sent'[c] <= Len(Stream[c])
      /\ \A n \in 1..Len(wire'[c]) : wire'[c][n] = Stream[c][Taken(c) + n]
  BY <1>0 DEF Segments
<1> QED BY <1>1, <1>2, <1>3 DEF Segments

------------------------------------------------------------------------------
(* What a step of a connection keeps.                                      *)

\* Until the first head is waited for nothing but the stage changes.
LEMMA ServeKeeps ==
    ASSUME Inv, NEW t \in IoThreads, Serve(t), NEW c \in Clients, serving[t] = c
    PROVE  SocketInv(c)'
<1>0. SocketInv(c) /\ stage[c] = "none"
  BY DEF Inv, ConnectionInv, Once
<1>1. /\ sent'[c] = sent[c] /\ wire'[c] = wire[c] /\ buffer'[c] = buffer[c]
      /\ answers'[c] = answers[c] /\ gone' = gone
      /\ stage'[c] \in {"handshake", "head"} /\ status'[c] = "pending"
  BY DEF Serve, Inv, TypeOK
<1>2. Segments(c)' /\ Taken(c)' = Taken(c) /\ First(c)' = First(c)
  BY <1>0, <1>1, SegmentsStay DEF SocketInv
<1>3. Taken(c) = 0 /\ buffer[c] = <<>> /\ answers[c] = <<>> /\ Len(buffer[c]) = 0 /\ Len(answers[c]) = 0
  BY <1>0 DEF SocketInv, Fresh
<1>4. Fresh(c)' /\ InHead(c)' /\ InRequest(c)' /\ InBody(c)' /\ InWrite(c)'
  BY <1>1, <1>2, <1>3 DEF Fresh, InHead, InRequest, InBody, InWrite
<1>5. Answered(c)' /\ FailsWhenGone(c)'
  BY <1>1, <1>3 DEF Answered, FailsWhenGone
<1>6. Waits(c)'
  BY <1>0, <1>1, <1>2 DEF SocketInv, Waits
<1> QED BY <1>2, <1>4, <1>5, <1>6 DEF SocketInv

\* A client that waits for its answers begins at most the request after them.
LEMMA SendKeeps ==
    ASSUME Inv, NEW c \in Clients, Send(c)
    PROVE  SocketInv(c)'
<1> DEFINE u == Stream[c][sent[c] + 1]
<1>0. /\ SocketInv(c) /\ sent[c] \in Nat /\ sent[c] + 1 \in 1..Len(Stream[c])
      /\ wire[c] \in Seq(Units) /\ Len(wire[c]) \in Nat /\ Len(Stream[c]) \in Nat
      /\ Len(buffer[c]) \in Nat
  BY Typed DEF ConnectionInv, Send
<1>1. u \in Units
  BY <1>0, StreamSeq
<1>2. /\ sent'[c] = sent[c] + 1 /\ wire'[c] = Append(wire[c], u)
      /\ stage'[c] = stage[c] /\ status'[c] = status[c] /\ buffer'[c] = buffer[c]
      /\ request'[c] = request[c] /\ need'[c] = need[c] /\ response'[c] = response[c]
      /\ answers'[c] = answers[c] /\ gone' = gone
      /\ stage[c] # "closed"
      /\ u.part = 0 /\ c \notin Pipelining => Len(answers[c]) = u.req - 1
  BY DEF Send, NextUnit, Inv, TypeOK
<1> HIDE DEF u
<1>3. /\ Len(wire'[c]) = Len(wire[c]) + 1
      /\ \A n \in 1..Len(wire[c]) : wire'[c][n] = wire[c][n]
      /\ wire'[c][Len(wire[c]) + 1] = u
  BY <1>0, <1>1, <1>2, AppendProperties
<1>4. Taken(c)' = Taken(c) /\ First(c)' = First(c)
  BY SMTT(40), <1>0, <1>2, <1>3 DEF Taken, First
<1>5. Segments(c)'
  <2>1. /\ First(c) >= 0
        /\ \A n \in 1..Len(buffer[c]) : buffer[c][n] = Stream[c][First(c) + n]
        /\ \A n \in 1..Len(wire[c]) : wire[c][n] = Stream[c][Taken(c) + n]
    BY <1>0 DEF SocketInv, Segments
  <2>2. Taken(c) + (Len(wire[c]) + 1) = sent[c] + 1
    BY <1>0 DEF Taken
  <2>3. \A n \in 1..(Len(wire[c]) + 1) : wire'[c][n] = Stream[c][Taken(c) + n]
    <3> TAKE n \in 1..(Len(wire[c]) + 1)
    <3>1. CASE n = Len(wire[c]) + 1
      BY <1>3, <2>2, <3>1 DEF u
    <3>2. CASE n \in 1..Len(wire[c])
      BY <1>3, <2>1, <3>2
    <3> QED BY <1>0, <3>1, <3>2
  <2> QED BY <1>0, <1>2, <1>3, <1>4, <2>1, <2>3 DEF Segments
<1>6. Fresh(c)' /\ InHead(c)' /\ InRequest(c)' /\ InBody(c)' /\ InWrite(c)'
  BY <1>0, <1>2, <1>4 DEF SocketInv, Fresh, InHead, InRequest, InBody, InWrite, Proper
<1>7. Answered(c)' /\ FailsWhenGone(c)'
  BY <1>0, <1>2 DEF SocketInv, Answered, FailsWhenGone, Proper
<1>8. ASSUME c \notin Pipelining, c \notin gone
      PROVE  \A m \in 1..sent'[c] : Stream[c][m].req <= Len(answers[c]) + 1
  <2>1. \A m \in 1..sent[c] : Stream[c][m].req <= Len(answers[c]) + 1
    BY <1>0, <1>8 DEF SocketInv, Waits
  <2>2. u.req <= Len(answers[c]) + 1
    <3>1. /\ u.req \in DOMAIN Script[c] /\ u.part \in 0..BodySize(Script[c][u.req])
          /\ BodySize(Script[c][u.req]) \in Nat /\ u.req \in Nat /\ Len(answers[c]) \in Nat
      <4>1. u.req \in DOMAIN Script[c] /\ u.part \in 0..BodySize(Script[c][u.req])
        BY <1>0, UnitOfRequest DEF u
      <4> QED BY <4>1, ScriptSeq, Typed
    <3>2. CASE u.part = 0
      BY <1>2, <1>8, <3>1, <3>2
    <3>3. CASE u.part # 0
      <4>1. u.part - 1 \in 0..BodySize(Script[c][u.req])
        BY <3>1, <3>3
      <4>2. PICK m \in 1..Len(Stream[c]) : Stream[c][m] = Unit(u.req, u.part - 1)
        BY <3>1, <4>1, UnitArrives
      <4>3. Stream[c][m].req = u.req /\ Stream[c][m].part = u.part - 1
        BY <4>2 DEF Unit
      <4>4. m # sent[c] + 1 /\ ~(sent[c] + 1 < m)
        BY SMTT(40), <1>0, <3>1, <4>3, InOrder DEF u
      <4>5. m \in 1..sent[c]
        BY <1>0, <4>4
      <4> QED BY <2>1, <4>3, <4>5
    <3> QED BY <3>2, <3>3
  <2>3. \A m \in 1..(sent[c] + 1) : m \in 1..sent[c] \/ m = sent[c] + 1
    BY <1>0
  <2> QED BY <1>2, <2>1, <2>2, <2>3 DEF u
<1>9. Waits(c)'
  <2>1. SUFFICES ASSUME c \notin Pipelining, c \notin gone PROVE Waits(c)'
    BY <1>2 DEF Waits
  <2>2. Waits(c)
    BY <1>0 DEF SocketInv
  <2> QED BY <1>2, <1>4, <1>8, <2>1, <2>2 DEF Waits, Whole, Reason
<1> QED BY <1>5, <1>6, <1>7, <1>9 DEF SocketInv

LEMMA HangUpKeeps ==
    ASSUME Inv, NEW c \in Clients, HangUp(c)
    PROVE  SocketInv(c)'
<1>0. SocketInv(c)
  BY DEF Inv, ConnectionInv
<1>1. /\ sent'[c] = sent[c] /\ wire'[c] = wire[c] /\ stage'[c] = stage[c]
      /\ status'[c] = status[c] /\ buffer'[c] = buffer[c] /\ request'[c] = request[c]
      /\ need'[c] = need[c] /\ response'[c] = response[c] /\ answers'[c] = answers[c]
      /\ c \in gone'
  BY DEF HangUp, sockets
<1>2. Segments(c)' /\ Taken(c)' = Taken(c) /\ First(c)' = First(c)
  BY <1>0, <1>1, SegmentsStay DEF SocketInv
<1>3. Fresh(c)' /\ InHead(c)' /\ InRequest(c)' /\ InBody(c)' /\ InWrite(c)'
  BY <1>0, <1>1, <1>2 DEF SocketInv, Fresh, InHead, InRequest, InBody, InWrite, Proper
<1>4. Answered(c)' /\ FailsWhenGone(c)' /\ Waits(c)'
  BY <1>0, <1>1 DEF SocketInv, Answered, FailsWhenGone, Proper, Waits
<1> QED BY <1>2, <1>3, <1>4 DEF SocketInv

LEMMA HandshakeKeeps ==
    ASSUME Inv, NEW c \in Clients, HandshakeCompletes(c)
    PROVE  SocketInv(c)'
<1>0. SocketInv(c) /\ stage[c] = "handshake"
  BY DEF Inv, ConnectionInv, HandshakeCompletes, Pending
<1>1. /\ sent'[c] = sent[c] /\ wire'[c] = wire[c] /\ stage'[c] = "handshake"
      /\ status'[c] = "done" /\ buffer'[c] = buffer[c] /\ answers'[c] = answers[c]
      /\ gone' = gone
  BY <1>0 DEF HandshakeCompletes, Complete, Inv, TypeOK
<1>2. Segments(c)' /\ Taken(c)' = Taken(c) /\ First(c)' = First(c)
  BY <1>0, <1>1, SegmentsStay DEF SocketInv
<1>3. Fresh(c)' /\ InHead(c)' /\ InRequest(c)' /\ InBody(c)' /\ InWrite(c)'
  BY <1>0, <1>1, <1>2 DEF SocketInv, Fresh, InHead, InRequest, InBody, InWrite
<1>4. Answered(c)' /\ FailsWhenGone(c)'
  BY <1>0, <1>1 DEF SocketInv, Answered, FailsWhenGone, Proper
<1>5. Waits(c)'
  BY <1>0, <1>1, <1>2 DEF SocketInv, Waits
<1> QED BY <1>2, <1>3, <1>4, <1>5 DEF SocketInv

LEMMA FailureKeeps ==
    ASSUME Inv, NEW c \in Clients, OperationFails(c)
    PROVE  SocketInv(c)'
<1>0. SocketInv(c) /\ c \in gone /\ stage[c] # "none" /\ status[c] = "pending"
  BY DEF Inv, ConnectionInv, OperationFails
<1>1. /\ sent'[c] = sent[c] /\ wire'[c] = wire[c] /\ stage'[c] = stage[c]
      /\ status'[c] = "failed" /\ buffer'[c] = buffer[c] /\ request'[c] = request[c]
      /\ need'[c] = need[c] /\ response'[c] = response[c] /\ answers'[c] = answers[c]
      /\ gone' = gone
  BY DEF OperationFails, Inv, TypeOK
<1>2. Segments(c)' /\ Taken(c)' = Taken(c) /\ First(c)' = First(c)
  BY <1>0, <1>1, SegmentsStay DEF SocketInv
<1>3. Fresh(c)' /\ InHead(c)' /\ InRequest(c)' /\ InBody(c)' /\ InWrite(c)'
  BY <1>0, <1>1, <1>2 DEF SocketInv, Fresh, InHead, InRequest, InBody, InWrite, Proper
<1>4. Answered(c)' /\ FailsWhenGone(c)' /\ Waits(c)'
  BY <1>0, <1>1 DEF SocketInv, Answered, FailsWhenGone, Proper, Waits
<1> QED BY <1>2, <1>3, <1>4 DEF SocketInv

\* The read of a head goes on until there is one.
LEMMA ReadHeadKeeps ==
    ASSUME Inv, NEW c \in Clients, ReadHead(c)
    PROVE  SocketInv(c)'
<1>0. /\ SocketInv(c) /\ stage[c] = "head" /\ status[c] = "pending"
      /\ Len(buffer[c]) \in Nat /\ Len(wire[c]) \in Nat /\ wire[c] \in Seq(Units)
  BY Typed DEF ConnectionInv, ReadHead, Pending
<1>1. PICK k \in 1..Len(wire[c]) :
         /\ buffer' = [buffer EXCEPT ![c] = buffer[c] \o SubSeq(wire[c], 1, k)]
         /\ wire' = [wire EXCEPT ![c] = SubSeq(wire[c], k + 1, Len(wire[c]))]
         /\ status' = [status EXCEPT ![c] =
                          IF \E n \in 1..k : IsHead(SubSeq(wire[c], 1, k)[n]) THEN "done" ELSE "pending"]
  BY DEF ReadHead
<1>2. k \in 0..Len(wire[c]) /\ k \in Nat
  BY <1>0
<1>3. \A n \in 1..k : SubSeq(wire[c], 1, k)[n] = wire[c][n]
  BY <1>0, <1>2, Pieces
<1>4. /\ sent'[c] = sent[c] /\ stage'[c] = "head" /\ request'[c] = request[c] /\ need'[c] = need[c]
      /\ response'[c] = response[c] /\ answers'[c] = answers[c] /\ gone' = gone
      /\ buffer'[c] = buffer[c] \o SubSeq(wire[c], 1, k)
      /\ wire'[c] = SubSeq(wire[c], k + 1, Len(wire[c]))
      /\ status'[c] = IF \E n \in 1..k : IsHead(wire[c][n]) THEN "done" ELSE "pending"
  BY <1>0, <1>1, <1>3 DEF ReadHead, Inv, TypeOK
<1>5. /\ Segments(c)' /\ First(c)' = First(c)
      /\ Len(buffer'[c]) = Len(buffer[c]) + k
      /\ \A n \in 1..Len(buffer[c]) : buffer'[c][n] = buffer[c][n]
      /\ \A n \in 1..k : buffer'[c][Len(buffer[c]) + n] = wire[c][n]
  BY <1>4, SegmentsRead
<1>6. InHead(c)'
  <2>1. CASE \E n \in 1..k : IsHead(wire[c][n])
    <3>1. PICK n \in 1..k : IsHead(wire[c][n])
      BY <2>1
    <3>2. Len(buffer[c]) + n \in 1..Len(buffer'[c]) /\ IsHead(buffer'[c][Len(buffer[c]) + n])
      <4>1. Len(buffer[c]) + n \in 1..(Len(buffer[c]) + k)
        BY <1>0, <1>2
      <4> QED BY <1>5, <3>1, <4>1
    <3>3. status'[c] = "done"
      BY <1>4, <2>1
    <3> QED BY <1>0, <1>4, <1>5, <3>2, <3>3 DEF SocketInv, InHead
  <2>2. CASE ~\E n \in 1..k : IsHead(wire[c][n])
    <3>1. \A n \in 1..Len(buffer[c]) : ~IsHead(buffer[c][n])
      BY <1>0 DEF SocketInv, InHead
    <3>2. ASSUME NEW n \in 1..Len(buffer'[c]) PROVE ~IsHead(buffer'[c][n])
      <4>1. CASE n \in 1..Len(buffer[c])
        BY <1>5, <3>1, <4>1
      <4>2. CASE n \notin 1..Len(buffer[c])
        <5>1. n - Len(buffer[c]) \in 1..k /\ Len(buffer[c]) + (n - Len(buffer[c])) = n
          BY <1>0, <1>2, <1>5, <4>2
        <5> QED BY <1>5, <2>2, <5>1
      <4> QED BY <4>1, <4>2
    <3>3. status'[c] = "pending"
      BY <1>4, <2>2
    <3> QED BY <1>0, <1>4, <1>5, <3>2, <3>3 DEF SocketInv, InHead
  <2> QED BY <2>1, <2>2
<1>7. Fresh(c)' /\ InRequest(c)' /\ InBody(c)' /\ InWrite(c)'
  BY <1>4 DEF Fresh, InRequest, InBody, InWrite
<1>8. Answered(c)' /\ FailsWhenGone(c)'
  BY <1>0, <1>4 DEF SocketInv, Answered, FailsWhenGone, Proper
<1>9. Waits(c)'
  BY <1>0, <1>4, <1>5 DEF SocketInv, Waits
<1> QED BY <1>5, <1>6, <1>7, <1>8, <1>9 DEF SocketInv

\* The read of a body is done when all of it is there; a size that wrapped around
\* stays out of reach.
LEMMA ReadBodyKeeps ==
    ASSUME Inv, NEW c \in Clients, ReadBody(c)
    PROVE  SocketInv(c)'
<1> DEFINE u == Stream[c][First(c)]
           length == Script[c][u.req].length
<1>0. /\ SocketInv(c) /\ stage[c] = "body" /\ status[c] = "pending"
      /\ Len(buffer[c]) \in Nat /\ Len(wire[c]) \in Nat
      /\ First(c) \in Nat /\ Len(Stream[c]) \in Nat /\ SizeMod \in Nat
      /\ 2 * Len(Stream[c]) < SizeMod /\ need[c] \in Nat
  BY Typed DEF ConnectionInv, ReadBody, Pending
<1>1. PICK k \in 1..Len(wire[c]) :
         /\ k <= need[c]
         /\ buffer' = [buffer EXCEPT ![c] = buffer[c] \o SubSeq(wire[c], 1, k)]
         /\ wire' = [wire EXCEPT ![c] = SubSeq(wire[c], k + 1, Len(wire[c]))]
         /\ need' = [need EXCEPT ![c] = need[c] - k]
         /\ status' = [status EXCEPT ![c] = IF need[c] = k THEN "done" ELSE "pending"]
  BY DEF ReadBody
<1>2. /\ sent'[c] = sent[c] /\ stage'[c] = "body" /\ request'[c] = request[c]
      /\ response'[c] = response[c] /\ answers'[c] = answers[c] /\ gone' = gone
      /\ buffer'[c] = buffer[c] \o SubSeq(wire[c], 1, k)
      /\ wire'[c] = SubSeq(wire[c], k + 1, Len(wire[c]))
      /\ need'[c] = need[c] - k
      /\ status'[c] = IF need[c] = k THEN "done" ELSE "pending"
  BY <1>0, <1>1 DEF ReadBody, Inv, TypeOK
<1>3. /\ Segments(c)' /\ Taken(c)' = Taken(c) + k /\ First(c)' = First(c)
      /\ Len(buffer'[c]) = Len(buffer[c]) + k
  BY <1>2, SegmentsRead
<1>4. First(c) \in 1..Len(Stream[c]) /\ IsHead(u) /\ Len(buffer[c]) + k <= Len(Stream[c])
  <2>1. First(c) >= 1 /\ IsHead(u)
    BY <1>0 DEF SocketInv, InRequest
  <2>2. Taken(c) = First(c) + Len(buffer[c]) /\ Taken(c) + Len(wire[c]) = sent[c]
    BY SMTT(40), <1>0, Typed DEF First, Taken
  <2>3. sent[c] <= Len(Stream[c]) /\ sent[c] \in Nat /\ Taken(c) \in Nat
    BY <1>0, Typed DEF SocketInv, Segments
  <2>4. k \in Nat /\ k <= Len(wire[c])
    BY <1>0
  <2>5. Len(buffer[c]) \in Nat /\ Len(wire[c]) \in Nat /\ First(c) \in Nat /\ Len(Stream[c]) \in Nat
    BY <1>0
  <2>6. First(c) \in 1..Len(Stream[c])
    BY <2>1, <2>2, <2>3, <2>5
  <2>7. Len(buffer[c]) + k <= Len(Stream[c])
    BY SMTT(40), <2>2, <2>3, <2>4, <2>5
  <2> QED BY <2>1, <2>6, <2>7
<1>5. length \in Nat /\ length <= Len(Stream[c])
  <2>1. length \in Nat
    BY <1>0 DEF SocketInv, InBody
  <2>2. u.req \in DOMAIN Script[c]
    BY <1>4, UnitOfRequest
  <2>3. length \in Nat /\ BodySize(Script[c][u.req]) = length
    BY <2>1, <2>2, ScriptSeq
  <2>4. First(c) + length <= Len(Stream[c])
    <3>1. length \in 0..BodySize(Script[c][u.req])
      BY <2>3
    <3> QED BY <1>4, <3>1, BodyFollows
  <2> QED BY <1>0, <2>1, <2>3, <2>4
<1>6. InBody(c)'
  <2>1. Len(buffer[c]) + need[c] \in {length, SizeMod + length}
    BY <1>0 DEF SocketInv, InBody
  <2> HIDE DEF length
  <2>2. Len(buffer'[c]) + need'[c] = Len(buffer[c]) + need[c]
    BY <1>0, <1>1, <1>2, <1>3
  <2>3. need[c] = k => Len(buffer'[c]) = length
    BY <1>0, <1>1, <1>3, <1>4, <1>5, <2>1
  <2> QED BY <1>2, <1>3, <1>5, <2>1, <2>2, <2>3 DEF InBody, length
<1>7. InRequest(c)'
  BY <1>0, <1>2, <1>3 DEF SocketInv, InRequest
<1>8. Fresh(c)' /\ InHead(c)' /\ InWrite(c)'
  BY <1>2 DEF Fresh, InHead, InWrite
<1>9. Answered(c)' /\ FailsWhenGone(c)'
  BY <1>0, <1>2 DEF SocketInv, Answered, FailsWhenGone, Proper
<1>10. Waits(c)'
  BY <1>0, <1>2, <1>3 DEF SocketInv, Waits
<1> QED BY <1>3, <1>6, <1>7, <1>8, <1>9, <1>10 DEF SocketInv

\* The client has the answer to the request whose head is before the buffer.
LEMMA WriteKeeps ==
    ASSUME Inv, NEW c \in Clients, WriteCompletes(c)
    PROVE  SocketInv(c)'
<1>0. /\ SocketInv(c) /\ stage[c] = "write" /\ status[c] = "pending"
      /\ answers[c] \in Seq(Responses) /\ response[c] \in Responses /\ Len(answers[c]) \in Nat
  BY Typed DEF ConnectionInv, WriteCompletes, Pending
<1>1. /\ sent'[c] = sent[c] /\ wire'[c] = wire[c] /\ stage'[c] = "write" /\ status'[c] = "done"
      /\ buffer'[c] = buffer[c] /\ request'[c] = request[c] /\ need'[c] = need[c]
      /\ response'[c] = response[c] /\ gone' = gone
      /\ answers'[c] = IF c \in gone THEN answers[c] ELSE Append(answers[c], response[c])
  BY <1>0 DEF WriteCompletes, Complete, Inv, TypeOK
<1>2. Segments(c)' /\ Taken(c)' = Taken(c) /\ First(c)' = First(c)
  BY <1>0, <1>1, SegmentsStay DEF SocketInv
<1>3. response[c].req = request[c] /\ Proper(c, response[c])
  BY <1>0 DEF SocketInv, InWrite
<1>4. /\ First(c) >= 1 /\ IsHead(Stream[c][First(c)])
      /\ request[c] \in {0, Stream[c][First(c)].req}
      /\ \A n \in 1..Len(answers[c]) : answers[c][n].req < Stream[c][First(c)].req
  BY <1>0 DEF SocketInv, InRequest
<1>5. request[c] = Stream[c][First(c)].req
  <2>1. 0 \notin DOMAIN Script[c]
    BY ScriptSeq
  <2> QED BY <1>3, <1>4, <2>1 DEF Proper
<1>6. Fresh(c)' /\ InHead(c)' /\ InBody(c)' /\ FailsWhenGone(c)'
  BY <1>1 DEF Fresh, InHead, InBody, FailsWhenGone
<1>7. InWrite(c)'
  BY <1>1, <1>3 DEF InWrite, Proper
<1>8. CASE c \in gone
  <2>1. InRequest(c)' /\ Answered(c)' /\ Waits(c)'
    BY <1>0, <1>1, <1>2, <1>4, <1>8 DEF SocketInv, InRequest, Answered, Proper, Waits
  <2> QED BY <1>2, <1>6, <1>7, <2>1 DEF SocketInv
<1>9. CASE c \notin gone
  <2>1. /\ Len(answers'[c]) = Len(answers[c]) + 1
        /\ \A n \in 1..Len(answers[c]) : answers'[c][n] = answers[c][n]
        /\ answers'[c][Len(answers[c]) + 1] = response[c]
    BY <1>0, <1>1, <1>9, AppendProperties
  <2>2. \A n \in 1..(Len(answers[c]) + 1) : n \in 1..Len(answers[c]) \/ n = Len(answers[c]) + 1
    BY <1>0
  <2>3. InRequest(c)'
    BY <1>1, <1>2, <1>3, <1>4, <1>5, <2>1, <2>2 DEF InRequest
  <2>4. Answered(c)
    BY <1>0 DEF SocketInv
  <2>5. Proper(c, response[c])' /\ \A n \in 1..Len(answers[c]) : Proper(c, answers[c][n])'
    BY <1>1, <1>3, <2>1, <2>4 DEF Answered, Proper
  <2>6. c \notin Pipelining => request[c] = Len(answers[c]) + 1
    BY <1>0, <1>9 DEF SocketInv, Waits
  <2>7. Answered(c)'
    <3> SUFFICES ASSUME NEW n \in 1..(Len(answers[c]) + 1)
                 PROVE  /\ Proper(c, answers'[c][n])
                        /\ n > 1 => answers'[c][n - 1].req < answers'[c][n].req
                        /\ c \notin Pipelining => answers'[c][n].req = n
      BY <2>1 DEF Answered, Proper
    <3>1. CASE n \in 1..Len(answers[c])
      <4>1. n > 1 => n - 1 \in 1..Len(answers[c])
        BY <1>0, <3>1
      <4> QED BY <2>1, <2>4, <3>1, <4>1 DEF Answered, Proper
    <3>2. CASE n = Len(answers[c]) + 1
      <4>1. n > 1 => n - 1 \in 1..Len(answers[c]) /\ answers'[c][n - 1] = answers[c][n - 1]
        BY <1>0, <2>1, <3>2
      <4> QED BY <1>3, <1>4, <1>5, <2>1, <2>6, <3>2, <4>1
    <3> QED BY <2>2, <3>1, <3>2
  <2>8. Waits(c)'
    <3> SUFFICES ASSUME c \notin Pipelining PROVE Waits(c)'
      BY <1>1 DEF Waits
    <3>1. Waits(c)
      BY <1>0 DEF SocketInv
    <3>2. \A m \in 1..sent[c] : Stream[c][m].req <= (Len(answers[c]) + 1) + 1
      <4>1. \A m \in 1..sent[c] : Stream[c][m].req <= Len(answers[c]) + 1 /\ Stream[c][m].req \in Nat
        <5>1. \A m \in 1..sent[c] : m \in 1..Len(Stream[c])
          BY <1>0, Typed DEF SocketInv, Segments
        <5> QED BY <1>9, <3>1, <5>1, UnitOfRequest, ScriptSeq DEF Waits
      <4> QED BY <1>0, <4>1
    <3>3. Whole(c)'
      BY <1>0, <1>1, <1>9, <3>1 DEF Waits, Whole
    <3> QED BY <1>1, <1>2, <2>1, <2>6, <3>2, <3>3 DEF Waits
  <2> QED BY <1>2, <1>6, <1>7, <2>3, <2>7, <2>8 DEF SocketInv
<1> QED BY <1>8, <1>9

\* The next request is read with an empty buffer: what follows has not been
\* answered, and a client that waits begins with a head.
LEMMA ReadsNext ==
    ASSUME Inv, NEW c \in Clients, ReadRequest(c),
           \A n \in 1..Len(answers[c]) : \A m \in (Taken(c) + 1)..Len(Stream[c]) :
              IsHead(Stream[c][m]) => answers[c][n].req < Stream[c][m].req,
           c \notin Pipelining /\ c \notin gone /\ Taken(c) < Len(Stream[c]) =>
              Stream[c][Taken(c) + 1] = Unit(Len(answers[c]) + 1, 0)
    PROVE  SocketInv(c)'
<1>0. SocketInv(c) /\ Len(buffer[c]) \in Nat /\ Taken(c) \in Nat
  BY Typed DEF ConnectionInv
<1>1. /\ sent'[c] = sent[c] /\ wire'[c] = wire[c] /\ stage'[c] = "head" /\ status'[c] = "pending"
      /\ buffer'[c] = <<>> /\ answers'[c] = answers[c] /\ gone' = gone
  BY DEF ReadRequest, Start, Inv, TypeOK
<1>2. Len(buffer'[c]) = 0
  BY <1>1
<1>3. First(c) + Len(buffer[c]) = Taken(c) /\ First(c) \in Nat
  BY <1>0, Typed DEF First
<1>4. Segments(c)' /\ First(c)' = Taken(c)
  <2>1. Len(buffer[c]) \in 0..Len(buffer[c]) /\ Len(buffer'[c]) = Len(buffer[c]) - Len(buffer[c])
    BY <1>0, <1>2
  <2>2. \A n \in 1..Len(buffer'[c]) : buffer'[c][n] = buffer[c][Len(buffer[c]) + n]
    BY <1>2
  <2> QED BY <1>1, <1>3, <2>1, <2>2, SegmentsEat
<1>5. Fresh(c)' /\ InRequest(c)' /\ InBody(c)' /\ InWrite(c)'
  BY <1>1 DEF Fresh, InRequest, InBody, InWrite
<1>6. InHead(c)'
  BY <1>1, <1>2, <1>4 DEF InHead
<1>7. Answered(c)' /\ FailsWhenGone(c)'
  BY <1>0, <1>1 DEF SocketInv, Answered, FailsWhenGone, Proper
<1>8. Waits(c)'
  BY <1>0, <1>1, <1>4 DEF SocketInv, Waits
<1> QED BY <1>4, <1>5, <1>6, <1>7, <1>8 DEF SocketInv

LEMMA HandleHandshakeKeeps ==
    ASSUME Inv, NEW c \in Clients, HandleHandshake(c)
    PROVE  SocketInv(c)'
<1>1. ReadRequest(c) /\ stage[c] = "handshake" /\ SocketInv(c)
  BY DEF HandleHandshake, Done, Inv, ConnectionInv
<1>2. Taken(c) = 0 /\ Len(buffer[c]) = 0 /\ Len(answers[c]) = 0
  BY <1>1 DEF SocketInv, Fresh
<1>3. First(c) = Taken(c)
  BY <1>2, Typed DEF First
<1>4. c \notin Pipelining /\ c \notin gone /\ Taken(c) < Len(Stream[c]) =>
         Stream[c][Taken(c) + 1] = Unit(Len(answers[c]) + 1, 0)
  BY <1>1, <1>3 DEF SocketInv, Waits
<1> QED BY <1>1, <1>2, <1>4, ReadsNext

\* The request whose head is before the buffer.
LEMMA Current ==
    ASSUME Inv, NEW c \in Clients, stage[c] \in {"body", "write"}
    PROVE  LET u == Stream[c][First(c)]
           IN  /\ First(c) \in 1..Len(Stream[c]) /\ IsHead(u)
               /\ u.req \in DOMAIN Script[c] /\ u.req \in Nat \ {0}
               /\ request[c] \in {0, u.req}
               /\ stage[c] = "write" => request[c] = u.req
<1>0. /\ SocketInv(c) /\ First(c) \in Nat /\ Len(buffer[c]) \in Nat /\ Len(wire[c]) \in Nat
      /\ sent[c] \in Nat /\ Len(Stream[c]) \in Nat
  BY Typed DEF ConnectionInv
<1>1. /\ First(c) >= 1 /\ IsHead(Stream[c][First(c)])
      /\ request[c] \in {0, Stream[c][First(c)].req}
  BY <1>0 DEF SocketInv, InRequest
<1>2. First(c) \in 1..Len(Stream[c])
  <2>1. First(c) + Len(buffer[c]) + Len(wire[c]) = sent[c]
    BY <1>0 DEF First, Taken
  <2>2. sent[c] <= Len(Stream[c])
    BY <1>0 DEF SocketInv, Segments
  <2>3. /\ First(c) \in Nat /\ Len(buffer[c]) \in Nat /\ Len(wire[c]) \in Nat
        /\ sent[c] \in Nat /\ Len(Stream[c]) \in Nat
    BY <1>0
  <2> QED BY <1>1, <2>1, <2>2, <2>3
<1>3. Stream[c][First(c)].req \in DOMAIN Script[c] /\ Stream[c][First(c)].req \in Nat \ {0}
  BY <1>2, UnitOfRequest, ScriptSeq
<1>4. stage[c] = "write" => request[c] # 0
  <2>1. 0 \notin DOMAIN Script[c]
    BY ScriptSeq
  <2> QED BY <1>0, <2>1 DEF SocketInv, InWrite, Proper
<1> QED BY <1>1, <1>2, <1>3, <1>4

LEMMA HandleWriteKeeps ==
    ASSUME Inv, NEW c \in Clients, HandleWrite(c)
    PROVE  SocketInv(c)'
<1> DEFINE u == Stream[c][First(c)]
           n == Len(answers[c])
<1>0. /\ ReadRequest(c) /\ stage[c] = "write" /\ status[c] = "done" /\ SocketInv(c)
      /\ n \in Nat /\ First(c) \in Nat /\ Taken(c) \in Nat /\ Len(Stream[c]) \in Nat
      /\ Len(buffer[c]) \in Nat /\ First(c) + Len(buffer[c]) = Taken(c)
  BY Typed DEF HandleWrite, Done, ConnectionInv, First
<1>1. /\ First(c) \in 1..Len(Stream[c]) /\ IsHead(u) /\ request[c] = u.req
      /\ u.req \in DOMAIN Script[c] /\ u.req \in Nat
  BY <1>0, Current
<1>2. \A k \in 1..n : answers[c][k].req <= u.req
  <2>1. \A k \in 1..n : answers[c][k].req < u.req \/ answers[c][k].req = u.req
    BY <1>0 DEF SocketInv, InRequest
  <2>2. \A k \in 1..n : answers[c][k].req \in Nat
    <3>1. \A k \in 1..n : answers[c][k].req \in DOMAIN Script[c]
      BY <1>0 DEF SocketInv, Answered, Proper
    <3> QED BY <3>1, ScriptSeq
  <2> QED BY <1>1, <2>1, <2>2
<1>3. ASSUME NEW k \in 1..n, NEW m \in (Taken(c) + 1)..Len(Stream[c]), IsHead(Stream[c][m])
      PROVE  answers[c][k].req < Stream[c][m].req
  <2>1. m \in 1..Len(Stream[c]) /\ First(c) < m
    BY <1>0
  <2>2. u.part = 0 /\ Stream[c][m].part = 0
    BY <1>1, <1>3 DEF IsHead
  <2>3. u.req < Stream[c][m].req
    BY <1>1, <2>1, <2>2, InOrder
  <2>4. /\ answers[c][k].req \in Nat /\ Stream[c][m].req \in Nat
        /\ answers[c][k].req <= u.req
    <3>1. answers[c][k].req \in DOMAIN Script[c] /\ Stream[c][m].req \in DOMAIN Script[c]
      BY <1>0, <2>1, UnitOfRequest DEF SocketInv, Answered, Proper
    <3>2. DOMAIN Script[c] \subseteq Nat
      BY ScriptSeq
    <3> QED BY <1>2, <3>1, <3>2
  <2> QED BY SMTT(40), <1>1, <2>3, <2>4
<1>4. ASSUME c \notin Pipelining, c \notin gone, Taken(c) < Len(Stream[c])
      PROVE  Stream[c][Taken(c) + 1] = Unit(n + 1, 0)
  <2>1. request[c] = n /\ Len(buffer[c]) = BodySize(Script[c][u.req])
    BY <1>0, <1>1, <1>4 DEF SocketInv, Waits, Whole
  <2>2. BodySize(Script[c][u.req]) \in Nat
    BY <1>1, ScriptSeq
  <2>3. BodySize(Script[c][u.req]) \in 0..BodySize(Script[c][u.req])
    BY <2>2
  <2>4. Stream[c][Taken(c)] = Unit(n, BodySize(Script[c][n])) /\ Taken(c) \in 1..Len(Stream[c])
    <3>1. /\ First(c) + BodySize(Script[c][u.req]) <= Len(Stream[c])
          /\ Stream[c][First(c) + BodySize(Script[c][u.req])] = Unit(u.req, BodySize(Script[c][u.req]))
      BY <1>1, <2>3, BodyFollows
    <3>2. First(c) + BodySize(Script[c][u.req]) = Taken(c) /\ u.req = n
      BY <1>0, <1>1, <2>1
    <3>3. Taken(c) \in 1..Len(Stream[c])
      BY <1>0, <1>1, <2>2, <3>1, <3>2
    <3> QED BY <3>1, <3>2, <3>3
  <2>5. n \in DOMAIN Script[c] /\ BodySize(Script[c][n]) \in 0..BodySize(Script[c][n])
    BY <1>0, <1>1, <2>1, <2>3
  <2>6. Taken(c) < Len(Stream[c]) => Stream[c][Taken(c) + 1] = Unit(n + 1, 0)
    BY ZenonT(40), <2>4, <2>5, AfterBody
  <2> QED BY <1>4, <2>6
<1> QED BY <1>0, <1>3, <1>4, ReadsNext

LEMMA CloseKeeps ==
    ASSUME Inv, NEW c \in Clients, CloseOnly(c), stage[c] # "none",
           c \notin Pipelining /\ c \notin gone => Reason(c, Len(answers[c]))
    PROVE  SocketInv(c)'
<1>0. SocketInv(c)
  BY DEF Inv, ConnectionInv
<1>1. /\ sent'[c] = sent[c] /\ wire'[c] = wire[c] /\ stage'[c] = "closed"
      /\ status'[c] = "done" /\ buffer'[c] = buffer[c] /\ answers'[c] = answers[c]
      /\ gone' = gone
  BY DEF CloseOnly, Close, Start, Inv, TypeOK
<1>2. Segments(c)' /\ Taken(c)' = Taken(c) /\ First(c)' = First(c)
  BY <1>0, <1>1, SegmentsStay DEF SocketInv
<1>3. Fresh(c)' /\ InHead(c)' /\ InRequest(c)' /\ InBody(c)' /\ InWrite(c)'
  BY <1>1 DEF Fresh, InHead, InRequest, InBody, InWrite
<1>4. Answered(c)' /\ FailsWhenGone(c)'
  BY <1>0, <1>1 DEF SocketInv, Answered, FailsWhenGone, Proper
<1>5. Waits(c)'
  BY <1>0, <1>1 DEF SocketInv, Waits, Reason
<1> QED BY <1>2, <1>3, <1>4, <1>5 DEF SocketInv

LEMMA HandleLastWriteKeeps ==
    ASSUME Inv, NEW c \in Clients, HandleLastWrite(c)
    PROVE  SocketInv(c)'
<1>1. /\ CloseOnly(c) /\ stage[c] = "write" /\ status[c] = "done" /\ SocketInv(c)
      /\ Script[c][request[c]].version = "1.0"
  BY DEF HandleLastWrite, Done, Inv, ConnectionInv
<1>2. request[c] \in Nat /\ request[c] # 0
  BY <1>1, Current
<1>3. c \notin Pipelining /\ c \notin gone => request[c] = Len(answers[c])
  BY <1>1 DEF SocketInv, Waits
<1> QED BY <1>1, <1>2, <1>3, CloseKeeps DEF Reason

LEMMA HandleFailureKeeps ==
    ASSUME Inv, NEW c \in Clients, HandleFailure(c)
    PROVE  SocketInv(c)'
<1>1. CloseOnly(c) /\ c \in gone /\ stage[c] # "none"
  BY DEF HandleFailure, Failed, Inv, ConnectionInv, SocketInv, FailsWhenGone
<1> QED BY <1>1, CloseKeeps

\* respond() to request i, whose head is before the buffer.
LEMMA RespondKeeps ==
    ASSUME Inv, NEW c \in Clients, NEW i \in Nat, NEW content \in Seq(Units),
           Respond(c, i, content),
           NEW f \in 1..Len(Stream[c]), First(c)' = f, Segments(c)',
           IsHead(Stream[c][f]), i \in {0, Stream[c][f].req},
           \A n \in 1..Len(answers[c]) : answers[c][n].req < Stream[c][f].req,
           i # 0 /\ Script[c][i].method = "POST" => content = Body(c, i),
           request'[c] = i, sent'[c] = sent[c], answers'[c] = answers[c], gone' = gone,
           c \notin Pipelining /\ c \notin gone =>
              i = Len(answers[c]) + 1 /\ Len(buffer'[c]) = BodySize(Script[c][i])
    PROVE  SocketInv(c)'
<1> DEFINE answer == AnswerTo(c, i, content)
<1>0. SocketInv(c) /\ TypeOK /\ Len(answers[c]) \in Nat
  BY Typed DEF Inv, ConnectionInv
<1>1. i # 0 => i \in DOMAIN Script[c] /\ i = Stream[c][f].req
  BY UnitOfRequest
<1>2. Answered(c)'
  BY <1>0 DEF SocketInv, Answered, Proper
<1>3. CASE /\ RouteTo(c, i) = 0
           /\ stage' = [stage EXCEPT ![c] = "closed"]
           /\ status' = [status EXCEPT ![c] = "done"]
  <2>1. stage'[c] = "closed" /\ status'[c] = "done"
    BY <1>0, <1>3 DEF TypeOK
  <2>2. /\ Fresh(c)' /\ InHead(c)' /\ InRequest(c)' /\ InBody(c)' /\ InWrite(c)'
        /\ FailsWhenGone(c)'
    BY <2>1 DEF Fresh, InHead, InRequest, InBody, InWrite, FailsWhenGone
  <2>3. ASSUME c \notin Pipelining, c \notin gone PROVE Reason(c, Len(answers[c]))
    <3>1. i = Len(answers[c]) + 1 /\ i # 0
      BY <1>0, <2>3
    <3>2. Route(Script[c][i]) = 0 /\ i <= Len(Script[c])
      BY <1>1, <1>3, <3>1, ScriptSeq DEF RouteTo
    <3>3. Len(answers[c]) < Len(Script[c])
      BY <1>0, <3>1, <3>2, ScriptSeq
    <3> QED BY <3>1, <3>2, <3>3 DEF Reason
  <2>4. Waits(c)'
    BY <1>0, <2>1, <2>3 DEF SocketInv, Waits, Reason
  <2> QED BY <1>2, <2>2, <2>4 DEF SocketInv
<1>4. CASE /\ i # 0
           /\ stage' = [stage EXCEPT ![c] = "write"]
           /\ status' = [status EXCEPT ![c] = "pending"]
           /\ response' = [response EXCEPT ![c] = answer]
  <2>1. stage'[c] = "write" /\ status'[c] = "pending" /\ response'[c] = answer
    BY <1>0, <1>4 DEF TypeOK
  <2>2. Fresh(c)' /\ InHead(c)' /\ InBody(c)' /\ FailsWhenGone(c)'
    BY <2>1 DEF Fresh, InHead, InBody, FailsWhenGone
  <2>3. InRequest(c)'
    BY <2>1 DEF InRequest
  <2>4. InWrite(c)'
    <3>1. answer.req = i /\ (Script[c][i].method = "POST" => answer.content = Body(c, i))
      BY <1>4 DEF AnswerTo
    <3>2. i \in DOMAIN Script[c]
      BY <1>1, <1>4
    <3> HIDE DEF answer
    <3>3. response'[c].req = request'[c] /\ Proper(c, response[c])'
      BY <2>1, <3>1, <3>2 DEF Proper, Body
    <3> QED BY <3>3 DEF InWrite
  <2>5. Waits(c)'
    BY <1>0, <2>1 DEF SocketInv, Waits, Whole
  <2> QED BY <1>2, <2>2, <2>3, <2>4, <2>5 DEF SocketInv
<1>5. \/ /\ RouteTo(c, i) = 0
         /\ stage' = [stage EXCEPT ![c] = "closed"]
         /\ status' = [status EXCEPT ![c] = "done"]
      \/ /\ i # 0
         /\ stage' = [stage EXCEPT ![c] = "write"]
         /\ status' = [status EXCEPT ![c] = "pending"]
         /\ response' = [response EXCEPT ![c] = answer]
  BY Responding
<1> QED BY <1>3, <1>4, <1>5

LEMMA HandleBodyKeeps ==
    ASSUME Inv, NEW c \in Clients, HandleBody(c)
    PROVE  SocketInv(c)'
<1> DEFINE f == First(c)
           i == request[c]
           u == Stream[c][f]
<1>0. /\ SocketInv(c) /\ stage[c] = "body" /\ status[c] = "done"
      /\ Respond(c, i, buffer[c])
      /\ sent'[c] = sent[c] /\ wire'[c] = wire[c] /\ buffer'[c] = buffer[c]
      /\ request'[c] = i /\ answers'[c] = answers[c] /\ gone' = gone
  BY DEF HandleBody, Done, Inv, ConnectionInv
<1>1. /\ f \in 1..Len(Stream[c]) /\ IsHead(u) /\ i \in {0, u.req}
      /\ u.req \in DOMAIN Script[c] /\ u.req \in Nat \ {0}
  BY <1>0, Current
<1>2. i \in Nat /\ buffer[c] \in Seq(Units) /\ Len(answers[c]) \in Nat
  BY Typed
<1>3. Segments(c)' /\ First(c)' = f
  BY <1>0, SegmentsStay DEF SocketInv
<1>4. \A n \in 1..Len(answers[c]) : answers[c][n].req < u.req
  BY <1>0 DEF SocketInv, InRequest
<1>5. Len(buffer[c]) = BodySize(Script[c][u.req]) /\ BodySize(Script[c][u.req]) \in Nat
  BY <1>0, <1>1, ScriptSeq DEF SocketInv, InBody
<1>6. buffer[c] = Body(c, u.req)
  <2>1. /\ buffer[c] = [n \in 1..Len(buffer[c]) |-> buffer[c][n]]
    BY <1>2
  <2>2. ASSUME NEW n \in 1..Len(buffer[c]) PROVE buffer[c][n] = Unit(u.req, n)
    <3>1. buffer[c][n] = Stream[c][f + n]
      BY <1>0 DEF SocketInv, Segments
    <3>2. n \in 0..BodySize(Script[c][u.req])
      BY <1>5
    <3> QED BY <1>1, <3>1, <3>2, BodyFollows
  <2> QED BY <1>5, <2>1, <2>2 DEF Body
<1>7. c \notin Pipelining /\ c \notin gone => i = Len(answers[c]) + 1
  BY <1>0 DEF SocketInv, Waits
<1>8. i # 0 => i = u.req
  BY <1>1
<1>9. c \notin Pipelining /\ c \notin gone => i # 0
  BY <1>2, <1>7
<1> HIDE DEF f, i, u
<1> QED BY <1>0, <1>1, <1>2, <1>3, <1>4, <1>5, <1>6, <1>7, <1>8, <1>9, RespondKeeps DEF u

LEMMA HandleHeadKeeps ==
    ASSUME Inv, NEW c \in Clients, HandleHead(c)
    PROVE  SocketInv(c)'
<1> DEFINE h == HeadAt(c)
           f == First(c) + h
           u == Stream[c][f]
           first == h = 1
           i == IF first THEN buffer[c][1].req ELSE 0
           size == Len(Extra(c))
           length == HeadLength(c)
           n == (length - size) % SizeMod
           B == BodySize(Script[c][u.req])
<1>0. /\ Done(c, "head") /\ SocketInv(c) /\ stage[c] = "head" /\ status[c] = "done"
      /\ Len(buffer[c]) \in Nat /\ Len(answers[c]) \in Nat /\ First(c) \in Nat
      /\ Len(Stream[c]) \in Nat /\ SizeMod \in Nat \ {0} /\ 2 * Len(Stream[c]) < SizeMod
  BY Typed DEF HandleHead, Done, ConnectionInv
<1>1. /\ h \in 1..Len(buffer[c]) /\ f \in 1..Len(Stream[c]) /\ IsHead(u)
      /\ buffer[c][h] = u /\ u.req \in DOMAIN Script[c]
      /\ Extra(c) \in Seq(Units) /\ size = Len(buffer[c]) - h /\ size \in Nat
      /\ \A k \in 1..size : Extra(c)[k] = buffer[c][h + k]
      /\ \A k \in 1..Len(buffer[c]) : IsHead(buffer[c][k]) => h <= k
  <2>1. h \in 1..Len(buffer[c]) /\ size = Len(buffer[c]) - h
    BY <1>0, HeadFound
  <2>2. size \in Nat
    BY <1>0, <2>1
  <2>3. f \in 1..Len(Stream[c]) /\ IsHead(buffer[c][h]) /\ buffer[c][h] = u
    BY <1>0, HeadFound
  <2>4. buffer[c][h].req \in DOMAIN Script[c]
    BY <1>0, HeadFound
  <2>5. /\ Extra(c) \in Seq(Units)
        /\ \A k \in 1..size : Extra(c)[k] = buffer[c][h + k]
        /\ \A k \in 1..Len(buffer[c]) : IsHead(buffer[c][k]) => h <= k
    BY <1>0, HeadFound
  <2> QED BY <2>1, <2>2, <2>3, <2>4, <2>5
<1>b. f + size <= sent[c] /\ sent[c] <= Len(Stream[c]) /\ sent[c] \in Nat /\ f \in Nat
  <2>1. First(c) + Len(buffer[c]) = Taken(c) /\ Taken(c) + Len(wire[c]) = sent[c]
    BY SMTT(40), <1>0, Typed DEF First, Taken
  <2>2. /\ Len(wire[c]) \in Nat /\ Taken(c) \in Nat /\ sent[c] \in Nat
    BY Typed
  <2>3. sent[c] <= Len(Stream[c])
    BY <1>0 DEF SocketInv, Segments
  <2>4. f + size = First(c) + Len(buffer[c]) /\ f \in Nat
    BY <1>0, <1>1
  <2> QED BY SMTT(40), <1>0, <2>1, <2>2, <2>3, <2>4
<1>2. length = Script[c][u.req].length /\ length \in {NoLength, BadLength} \cup Nat
  BY <1>0, <1>1, HeadFound
<1>3. /\ B \in Nat /\ u.req \in Nat \ {0}
      /\ length \in Nat => B = length
      /\ length \notin Nat => B = 0
  BY SMTT(40), <1>1, <1>2, ScriptSeq
<1>4. i \in {0, u.req} /\ i \in Nat /\ (i # 0 => first)
  BY <1>1, <1>3
<1> HIDE DEF n, i
<1>5. /\ sent'[c] = sent[c] /\ wire'[c] = wire[c] /\ answers'[c] = answers[c] /\ gone' = gone
      /\ buffer'[c] = Extra(c) /\ request'[c] = i
      /\ \/ /\ length \in Nat
            /\ stage'[c] = "body" /\ status'[c] = (IF n = 0 THEN "done" ELSE "pending")
            /\ need'[c] = n
         \/ /\ first => length = NoLength
            /\ Respond(c, i, <<>>)
  BY DEF HandleHead, HandleHeadWith, Start, Inv, TypeOK, n, i
<1>6. Segments(c)' /\ First(c)' = f
  <2>1. h \in 0..Len(buffer[c])
    BY <1>1
  <2> QED BY <1>1, <1>5, <2>1, SegmentsEat
<1>7. \A k \in 1..Len(answers[c]) : answers[c][k].req < u.req
  <2>1. f \in (First(c) + 1)..Len(Stream[c])
    BY <1>0, <1>1
  <2> QED BY <1>0, <1>1, <2>1 DEF SocketInv, InHead
<1>8. f + B <= Len(Stream[c])
  <2>1. B \in 0..B
    BY <1>3
  <2> QED BY <1>1, <2>1, BodyFollows
<1>9. ASSUME c \notin Pipelining, c \notin gone
      PROVE  first /\ i = u.req /\ u.req = Len(answers[c]) + 1 /\ size <= B
  <2>1. Waits(c)
    BY <1>0 DEF SocketInv
  <2>2. 1 \in 1..Len(buffer[c]) /\ First(c) < Len(Stream[c])
    BY SMTT(40), <1>0, <1>1
  <2>3. Stream[c][First(c) + 1] = Unit(Len(answers[c]) + 1, 0)
    BY <1>0, <1>9, <2>1, <2>2 DEF Waits
  <2>4. buffer[c][1] = Unit(Len(answers[c]) + 1, 0)
    BY <1>0, <2>2, <2>3 DEF SocketInv, Segments
  <2>5. IsHead(buffer[c][1]) /\ buffer[c][1].req = Len(answers[c]) + 1
    BY <2>4 DEF IsHead, Unit
  <2>6. first
    BY <1>1, <2>2, <2>5
  <2>7. u.req = Len(answers[c]) + 1 /\ i = u.req
    BY <1>1, <2>5, <2>6 DEF i
  <2>8. ASSUME size > B PROVE FALSE
    <3>1. f + B < Len(Stream[c]) /\ f + B + 1 \in 1..sent[c] /\ f + B \in 1..Len(Stream[c])
      <4>1. size \in Nat /\ Len(Stream[c]) \in Nat /\ f >= 1
        BY <1>0, <1>1
      <4> HIDE DEF f, size, B
      <4> QED BY <1>3, <1>b, <2>8, <4>1
    <3>2. B \in 0..B /\ Stream[c][f + B] = Unit(u.req, B)
      <4>1. B \in 0..B
        BY <1>3
      <4> QED BY <1>1, <4>1, BodyFollows
    <3>3. Stream[c][f + B + 1] = Unit(u.req + 1, 0)
      BY <1>1, <3>1, <3>2, Successor
    <3>4. Stream[c][f + B + 1].req = u.req + 1
      BY <3>3 DEF Unit
    <3>5. Stream[c][f + B + 1].req <= Len(answers[c]) + 1
      BY <1>9, <2>1, <3>1 DEF Waits
    <3> QED BY <1>0, <2>7, <3>4, <3>5
  <2> QED BY <1>1, <1>3, <2>6, <2>7, <2>8
<1>10. CASE /\ length \in Nat
            /\ stage'[c] = "body" /\ status'[c] = (IF n = 0 THEN "done" ELSE "pending")
            /\ need'[c] = n
  <2>1. n = IF length - size >= 0 THEN length - size ELSE SizeMod + (length - size)
    <3>1. size \in Nat /\ Len(Stream[c]) \in Nat
      BY <1>0, <1>1
    <3>2. B = length /\ B \in Nat
      BY <1>3, <1>10
    <3> HIDE DEF f, size, length, B
    <3>3. size <= Len(Stream[c]) /\ length <= Len(Stream[c]) /\ length \in Nat
      BY <1>b, <1>8, <3>1, <3>2
    <3>4. length - size \in Int /\ -SizeMod < length - size /\ length - size < SizeMod
      BY <1>0, <3>1, <3>3
    <3> QED BY <1>0, <3>4, SmallRemainder DEF n
  <2>2. InBody(c)'
    <3>1. length \in Nat /\ SizeMod \in Nat /\ size \in Nat /\ size < SizeMod
      <4>1. size \in Nat /\ Len(Stream[c]) \in Nat /\ SizeMod \in Nat
        BY <1>0, <1>1
      <4>2. length \in Nat
        BY <1>3, <1>10
      <4> HIDE DEF f, size, length
      <4> QED BY <1>0, <1>b, <4>1, <4>2
    <3>2. size + n \in {length, SizeMod + length}
      BY <2>1, <3>1
    <3>3. n = 0 => size = length
      BY <2>1, <3>1
    <3>4. Len(buffer'[c]) = size
      BY <1>5
    <3> HIDE DEF size, length
    <3>5. length = Script[c][u.req].length
      BY <1>2
    <3> QED BY <1>6, <1>10, <3>2, <3>3, <3>4, <3>5 DEF InBody
  <2>3. InRequest(c)'
    <3>1. f >= 1 /\ IsHead(u)
      BY <1>1
    <3> QED BY <1>4, <1>5, <1>6, <1>7, <1>10, <3>1 DEF InRequest
  <2>4. Fresh(c)' /\ InHead(c)' /\ InWrite(c)'
    BY <1>10 DEF Fresh, InHead, InWrite
  <2>5. Answered(c)' /\ FailsWhenGone(c)'
    BY <1>0, <1>5, <1>10 DEF SocketInv, Answered, FailsWhenGone, Proper
  <2>6. Waits(c)'
    BY <1>0, <1>5, <1>9, <1>10 DEF SocketInv, Waits
  <2> QED BY <1>6, <2>2, <2>3, <2>4, <2>5, <2>6 DEF SocketInv
<1>11. CASE (first => length = NoLength) /\ Respond(c, i, <<>>)
  <2>1. <<>> \in Seq(Units)
    OBVIOUS
  <2>2. i # 0 /\ Script[c][i].method = "POST" => <<>> = Body(c, i)
    <3>1. i # 0 => B = 0 /\ i = u.req
      BY <1>3, <1>4, <1>11 DEF NoLength
    <3> QED BY <3>1 DEF Body
  <2>3. c \notin Pipelining /\ c \notin gone =>
           i = Len(answers[c]) + 1 /\ Len(buffer'[c]) = BodySize(Script[c][i])
    BY <1>1, <1>3, <1>5, <1>9, <1>11 DEF NoLength
  <2> HIDE DEF f
  <2> QED BY <1>1, <1>4, <1>5, <1>6, <1>7, <1>11, <2>1, <2>2, <2>3, RespondKeeps
<1> QED BY <1>5, <1>10, <1>11

------------------------------------------------------------------------------
(* The invariant.                                                          *)

\* A step of one connection is none of another, unless it ends all of them.
LEMMA OthersStay ==
    ASSUME Inv, NEW c \in Clients, NEW d \in Clients, c # d,
           Client(c) \/ Network(c) \/ Handle(c), ~Terminate(c)
    PROVE  Same(d)
<1>0. TypeOK
  BY DEF Inv
<1>1. CASE Client(c)
  BY <1>0, <1>1 DEF TypeOK, Same, Client, Connect, Send, HangUp, sockets, accepting
<1>2. CASE Network(c)
  <2>1. CASE HandshakeCompletes(c) \/ OperationFails(c) \/ WriteCompletes(c)
    BY <1>0, <2>1 DEF TypeOK, Same, HandshakeCompletes, OperationFails, WriteCompletes, Complete, accepting
  <2>2. CASE ReadHead(c)
    BY <1>0, <2>2 DEF TypeOK, Same, ReadHead, accepting
  <2>3. CASE ReadBody(c)
    BY <1>0, <2>3 DEF TypeOK, Same, ReadBody, accepting
  <2> QED BY <1>2, <2>1, <2>2, <2>3 DEF Network
<1>3. CASE Handle(c)
  <2>1. CASE ReadRequest(c)
    BY <1>0, <2>1 DEF TypeOK, Same, ReadRequest, Start, accepting
  <2>2. CASE CloseOnly(c)
    BY <1>0, <2>2 DEF TypeOK, Same, CloseOnly, Close, Start, accepting
  <2>3. ASSUME NEW i, NEW content, Respond(c, i, content)
        PROVE  stage'[d] = stage[d] /\ status'[d] = status[d] /\ response'[d] = response[d]
    BY <1>0, <2>3 DEF TypeOK, Respond, Close, Start
  <2>4. CASE HandleHead(c)
    <3>1. /\ UNCHANGED <<listening, gone, sent, wire, answers>>
          /\ request'[d] = request[d] /\ buffer'[d] = buffer[d]
      BY <1>0, <2>4 DEF TypeOK, HandleHead, HandleHeadWith, accepting
    <3>2. /\ stage'[d] = stage[d] /\ status'[d] = status[d] /\ response'[d] = response[d]
          /\ need'[d] = need[d]
      <4>1. \/ \E s \in {"done", "pending"} : \E n : /\ Start(c, "body", s)
                                                        /\ need' = [need EXCEPT ![c] = n]
                                                        /\ UNCHANGED response
            \/ Respond(c, request'[c], <<>>) /\ UNCHANGED need
        BY <2>4 DEF HandleHead, HandleHeadWith
      <4>2. CASE Respond(c, request'[c], <<>>) /\ UNCHANGED need
        BY <2>3, <4>2
      <4>3. CASE \E s \in {"done", "pending"} : \E n : /\ Start(c, "body", s)
                                                          /\ need' = [need EXCEPT ![c] = n]
                                                          /\ UNCHANGED response
        BY <1>0, <4>3 DEF TypeOK, Start
      <4> QED BY <4>1, <4>2, <4>3
    <3> QED BY <3>1, <3>2 DEF Same
  <2>5. CASE HandleBody(c)
    <3>1. /\ UNCHANGED <<listening, gone, sent, wire, answers, request, buffer, need>>
          /\ Respond(c, request[c], buffer[c])
      BY <2>5 DEF HandleBody, accepting
    <3> QED BY <2>3, <3>1 DEF Same
  <2> QED BY <1>3, <2>1, <2>2, <2>4, <2>5 DEF Handle, HandleHandshake, HandleWrite,
          HandleLastWrite, HandleFailure
<1> QED BY <1>1, <1>2, <1>3

\* The process ends: every connection is closed.
LEMMA TerminateKeeps ==
    ASSUME Inv, NEW c \in Clients, Terminate(c), NEW d \in Clients
    PROVE  SocketInv(d)'
<1>0. SocketInv(d)
  BY DEF Inv, ConnectionInv
<1>1. /\ sent'[d] = sent[d] /\ wire'[d] = wire[d] /\ stage'[d] = "closed"
      /\ status'[d] = "done" /\ buffer'[d] = buffer[d] /\ answers'[d] = answers[d]
      /\ gone' = gone /\ listening' = "terminated"
  BY DEF Terminate
<1>2. Segments(d)' /\ Taken(d)' = Taken(d) /\ First(d)' = First(d)
  BY <1>0, <1>1, SegmentsStay DEF SocketInv
<1>3. Fresh(d)' /\ InHead(d)' /\ InRequest(d)' /\ InBody(d)' /\ InWrite(d)'
  BY <1>1 DEF Fresh, InHead, InRequest, InBody, InWrite
<1>4. Answered(d)' /\ FailsWhenGone(d)'
  BY <1>0, <1>1 DEF SocketInv, Answered, FailsWhenGone, Proper
<1>5. Waits(d)'
  BY <1>0, <1>1 DEF SocketInv, Waits
<1> QED BY <1>2, <1>3, <1>4, <1>5 DEF SocketInv

LEMMA InvInit ==
    Init => Inv
<1> SUFFICES ASSUME Init PROVE Inv
  OBVIOUS
<1>1. TypeOK
  <2>1. NoResponse \in Responses
    <3>1. 0 \in 0..Len(AllResources) /\ <<>> \in Seq(Units)
      BY Resourceful
    <3> QED BY <3>1 DEF NoResponse, Responses
  <2>2. 0 \in 0..(SizeMod - 1) \/ Clients = {}
    BY SizeAssumption
  <2> QED BY <2>1, <2>2, SizeAssumption, BoundAssumption DEF Init, TypeOK
<1>2. ASSUME NEW c \in Clients PROVE ConnectionInv(c)
  <2>1. /\ sent[c] = 0 /\ wire[c] = <<>> /\ stage[c] = "none" /\ status[c] = "done"
        /\ buffer[c] = <<>> /\ answers[c] = <<>>
        /\ backlog = {} /\ accepted = Nobody /\ \A t \in IoThreads : serving[t] = Nobody
    BY DEF Init
  <2>2. Len(wire[c]) = 0 /\ Len(buffer[c]) = 0 /\ Len(answers[c]) = 0 /\ Len(Stream[c]) \in Nat
    BY <2>1, StreamSeq
  <2>3. Taken(c) = 0 /\ First(c) = 0
    <3>1. Taken(c) = 0 - 0
      BY <2>1, <2>2 DEF Taken
    <3>2. First(c) = Taken(c) - 0
      BY <2>2 DEF First
    <3> QED BY <3>1, <3>2
  <2>4. Once(c)
    BY <2>1, ClientsAssumption DEF Once
  <2>5. Segments(c)
    BY <2>1, <2>2, <2>3 DEF Segments
  <2>6. /\ Fresh(c) /\ InHead(c) /\ InRequest(c) /\ InBody(c) /\ InWrite(c)
        /\ FailsWhenGone(c)
    BY <2>1, <2>3 DEF Fresh, InHead, InRequest, InBody, InWrite, FailsWhenGone
  <2>7. Answered(c)
    BY <2>2 DEF Answered
  <2>8. Waits(c)
    <3>1. 0 < Len(Stream[c]) => Stream[c][1] = Unit(1, 0)
      <4> SUFFICES ASSUME 0 < Len(Stream[c]) PROVE Stream[c][1] = Unit(1, 0)
        OBVIOUS
      <4>1. 1 \in 1..Len(Stream[c])
        BY <2>2
      <4>2. Stream[c][1].req \in DOMAIN Script[c] /\ Stream[c][1] \in Units
        BY <4>1, UnitOfRequest, StreamSeq
      <4>3. 1 \in DOMAIN Script[c] /\ 0 \in 0..BodySize(Script[c][1])
        BY <4>2, ScriptSeq
      <4>4. PICK n \in 1..Len(Stream[c]) : Stream[c][n] = Unit(1, 0)
        BY <4>3, UnitArrives
      <4>5. Stream[c][n].req = 1 /\ Stream[c][n].part = 0
        BY <4>4 DEF Unit
      <4>6. Stream[c][1].req >= 1 /\ Stream[c][1].req \in Nat /\ Stream[c][1].part \in Nat
        BY <4>2, ScriptSeq DEF Units
      <4>7. 1 < n => Stream[c][1].req < 1 \/ (Stream[c][1].req = 1 /\ Stream[c][1].part < 0)
        BY <4>1, <4>5, InOrder
      <4>8. n = 1
        BY <4>6, <4>7
      <4> QED BY <4>4, <4>8
    <3> QED BY <2>1, <2>2, <2>3, <3>1 DEF Waits
  <2> QED BY <2>4, <2>5, <2>6, <2>7, <2>8 DEF ConnectionInv, SocketInv
<1> QED BY <1>1, <1>2 DEF Inv

LEMMA InvNext ==
    Inv /\ [Next]_vars => Inv'
<1> SUFFICES ASSUME Inv, [Next]_vars PROVE Inv'
  OBVIOUS
<1>1. TypeOK'
  BY TypedNext
<1>2. \A d \in Clients : Once(d) /\ SocketInv(d)
  BY DEF Inv, ConnectionInv
<1>3. CASE UNCHANGED vars
  <2>1. \A d \in Clients : Same(d) /\ Once(d)'
    BY <1>2, <1>3 DEF vars, accepting, sockets, Same, Once
  <2> QED BY <1>1, <1>2, <2>1, SameKeeps DEF Inv, ConnectionInv
<1>4. ASSUME AcceptCompletes \/ AcceptFails \/ \E t \in IoThreads : HandleAccept(t)
      PROVE  Inv'
  <2>1. \A d \in Clients : Same(d)
    BY <1>4 DEF AcceptCompletes, AcceptFails, HandleAccept, HandleAcceptThen, sockets, Same
  <2> QED BY <1>1, <1>2, <1>4, <2>1, SameKeeps, OnceByAccepts DEF Inv, ConnectionInv
<1>5. ASSUME NEW t \in IoThreads, Serve(t) PROVE Inv'
  <2>1. ASSUME NEW d \in Clients PROVE SocketInv(d)'
    <3>1. CASE serving[t] = d
      BY <1>5, <3>1, ServeKeeps
    <3>2. CASE serving[t] # d
      <4>1. Same(d)
        BY <1>5, <3>2 DEF Serve, Same, Inv, TypeOK
      <4> QED BY <1>2, <4>1, SameKeeps
    <3> QED BY <3>1, <3>2
  <2> QED BY <1>1, <1>5, <2>1, OnceByAccepts DEF Inv, ConnectionInv
<1>6. ASSUME NEW c \in Clients, Client(c) \/ Network(c) \/ Handle(c) PROVE Inv'
  <2>1. ASSUME NEW d \in Clients PROVE Once(d)'
    BY <1>6, OnceByHandlers, OnceByAccepts DEF Client
  <2>2. SocketInv(c)'
    <3>1. CASE Connect(c)
      <4>1. Same(c)
        BY <3>1 DEF Connect, sockets, Same
      <4> QED BY <1>2, <4>1, SameKeeps
    <3>2. CASE Send(c) \/ HangUp(c)
      BY <3>2, SendKeeps, HangUpKeeps
    <3>3. CASE Network(c)
      BY <3>3, HandshakeKeeps, ReadHeadKeeps, ReadBodyKeeps, WriteKeeps, FailureKeeps DEF Network
    <3>4. CASE Handle(c)
      BY <3>4, HandleHandshakeKeeps, HandleHeadKeeps, HandleBodyKeeps, HandleWriteKeeps,
         HandleLastWriteKeeps, HandleFailureKeeps, TerminateKeeps DEF Handle
    <3> QED BY <1>6, <3>1, <3>2, <3>3, <3>4 DEF Client
  <2>3. ASSUME NEW d \in Clients PROVE SocketInv(d)'
    <3>1. CASE d = c
      BY <2>2, <3>1
    <3>2. CASE d # c /\ ~Terminate(c)
      BY <1>2, <1>6, <3>2, OthersStay, SameKeeps
    <3>3. CASE Terminate(c)
      BY <3>3, TerminateKeeps
    <3> QED BY <3>1, <3>2, <3>3
  <2> QED BY <1>1, <2>1, <2>3 DEF Inv, ConnectionInv
<1> QED BY <1>3, <1>4, <1>5, <1>6 DEF Next, Waiting

THEOREM Invariance ==
    Spec => []Inv
BY InvInit, InvNext, PTL DEF Spec

------------------------------------------------------------------------------
(* What it says about the answers.                                         *)

\* Answers come in the order of the requests, for any number of pipelined requests
\* and in any splitting of what is sent; a client that waits gets them all.
THEOREM AnswersInOrderHolds ==
    Spec => []AnswersInOrder
<1>1. Inv => AnswersInOrder
  <2> SUFFICES ASSUME Inv, NEW c \in Clients, NEW n \in DOMAIN answers[c]
               PROVE  /\ c \notin Pipelining => answers[c][n].req = n
                      /\ n > 1 => answers[c][n - 1].req < answers[c][n].req
    BY DEF AnswersInOrder
  <2>1. n \in 1..Len(answers[c]) /\ Answered(c)
    BY Typed DEF ConnectionInv, SocketInv
  <2> QED BY <2>1 DEF Answered
<1> QED BY <1>1, Invariance, PTL

\* The answer of "/string" is the whole body of its request and nothing else:
\* total - bytes_transferred counts what is there, and a size that wraps around
\* is never reached.
THEOREM BodyIntactHolds ==
    Spec => []BodyIntact
<1>1. Inv => BodyIntact
  <2> SUFFICES ASSUME Inv, NEW c \in Clients, NEW n \in DOMAIN answers[c],
                      Script[c][answers[c][n].req].method = "POST"
               PROVE  answers[c][n].content = Body(c, answers[c][n].req)
    BY DEF BodyIntact
  <2>1. n \in 1..Len(answers[c]) /\ Answered(c)
    BY Typed DEF ConnectionInv, SocketInv
  <2> QED BY <2>1 DEF Answered, Proper
<1> QED BY <1>1, Invariance, PTL

------------------------------------------------------------------------------
(* The server as its clients see it.                                       *)

\* A request that gets an answer.
Answerable(r) == Route(r) # 0 /\ r.length # BadLength /\ ~ReadsNull(r)

RightTo(c) == {RightAnswer(c, i) : i \in {j \in DOMAIN Script[c] : Answerable(Script[c][j])}}

\* What a client has got, and what is written to it, is the right answer to a
\* request that has been sent completely.
Right(c) ==
    /\ \A n \in 1..Len(answers[c]) : answers[c][n] \in RightTo(c) /\ HasSent(c, answers[c][n].req)
    /\ stage[c] = "write" => response[c] \in RightTo(c) /\ HasSent(c, response[c].req)

\* After an answer that is the last one the connection is about to be closed.
Ending(c) == stage[c] = "closed" \/ (stage[c] = "write" /\ status[c] = "done" /\ ~Persistent(c))

Lasts(c) ==
    \A n \in 1..Len(answers[c]) : Script[c][answers[c][n].req].version = "1.1" \/ Ending(c)

Talking(c) == Right(c) /\ Lasts(c)

\* When the process has ended, somebody has sent one of the requests that end it.
Ended == listening = "terminated" => \E d \in Clients : \E i \in FatalRequests[d] : HasSent(d, i)

TalkInv == Inv /\ Ended /\ \A c \in Clients : Talking(c)

LEMMA RightOnes ==
    ASSUME NEW c \in Clients, NEW a \in RightTo(c)
    PROVE  /\ a.req \in DOMAIN Script[c] /\ Route(Script[c][a.req]) # 0
           /\ RightAnswers[c][a.req] = a
           /\ a # NoResponse
<1>1. PICK i \in DOMAIN Script[c] : Answerable(Script[c][i]) /\ a = RightAnswer(c, i)
  BY DEF RightTo
<1>2. a.req = i /\ a.by = Route(Script[c][i]) /\ Route(Script[c][i]) # 0
  BY <1>1 DEF RightAnswer, Answerable
<1>3. RightAnswers[c][i] = RightAnswer(c, i)
  BY DEF RightAnswers
<1>4. NoResponse.by = 0
  BY DEF NoResponse
<1> QED BY <1>1, <1>2, <1>3, <1>4

LEMMA SameTalk ==
    ASSUME NEW c \in Clients, Talking(c), Same(c)
    PROVE  Talking(c)'
BY DEF Talking, Right, Lasts, Ending, Persistent, HasSent, Same

\* A connection that goes on with something else than a write.
LEMMA OnwardTalk ==
    ASSUME NEW c \in Clients, Talking(c), sent'[c] = sent[c], answers'[c] = answers[c],
           stage'[c] # "write", ~Ending(c)
    PROVE  Talking(c)'
BY DEF Talking, Right, Lasts, Ending, HasSent

\* A step that no client sees.
LEMMA Unseen ==
    ASSUME UNCHANGED <<sent, answers, gone>>,
           \A d \in Clients : stage'[d] = "closed" <=> stage[d] = "closed"
    PROVE  UNCHANGED Talk!cvars
BY DEF Talk!cvars, HasSent

\* The request whose body has arrived has been sent.
LEMMA AllSent ==
    ASSUME Inv, NEW c \in Clients, NEW f \in 1..Len(Stream[c]), IsHead(Stream[c][f]),
           f + BodySize(Script[c][Stream[c][f].req]) <= sent[c]
    PROVE  HasSent(c, Stream[c][f].req)
<1> DEFINE i == Stream[c][f].req
           B == BodySize(Script[c][i])
<1>1. i \in DOMAIN Script[c] /\ B \in Nat /\ sent[c] \in Nat /\ Len(Stream[c]) \in Nat
  BY UnitOfRequest, ScriptSeq, Typed
<1>2. B \in 0..B
  BY <1>1
<1>3. Stream[c][f + B] = Unit(i, B)
  BY <1>2, BodyFollows
<1>4. f + B \in 1..sent[c]
  <2>1. f + B <= sent[c]
    OBVIOUS
  <2> HIDE DEF B
  <2> QED BY <1>1, <2>1
<1> QED BY <1>3, <1>4 DEF HasSent

\* What one step does for the connection it is a step of, and for the abstract
\* server.
Follows(c) == Talking(c)' /\ (Talk!Next \/ UNCHANGED Talk!cvars)

LEMMA SendFollows ==
    ASSUME TalkInv, NEW c \in Clients, Send(c)
    PROVE  Follows(c)
<1> DEFINE asked == [d \in Clients |-> {j \in DOMAIN Script[d] : HasSent(d, j)}]
<1>0. /\ Talking(c) /\ Inv /\ SocketInv(c) /\ sent[c] \in Nat /\ sent[c] + 1 \in 1..Len(Stream[c])
      /\ Len(answers[c]) \in Nat /\ DOMAIN answers[c] = 1..Len(answers[c])
      /\ sent \in [Clients -> Nat] /\ Len(Stream[c]) \in Nat
  <2>1. /\ Talking(c) /\ Inv /\ sent \in [Clients -> Nat] /\ sent[c] < Len(Stream[c])
    BY DEF TalkInv, Inv, TypeOK, Send
  <2>2. /\ SocketInv(c) /\ sent[c] \in Nat /\ Len(Stream[c]) \in Nat
        /\ Len(answers[c]) \in Nat /\ DOMAIN answers[c] = 1..Len(answers[c])
    BY <2>1, Typed DEF ConnectionInv
  <2>3. sent[c] + 1 \in 1..Len(Stream[c])
    BY <2>1, <2>2
  <2> QED BY <2>1, <2>2, <2>3
<1>i. PICK i : i = Stream[c][sent[c] + 1].req
  OBVIOUS
<1>1. /\ sent' = [sent EXCEPT ![c] = @ + 1] /\ UNCHANGED <<gone, stage, status, request, response, answers>>
      /\ c \notin gone /\ stage[c] # "closed"
  BY DEF Send
<1>2. sent'[c] = sent[c] + 1 /\ \A d \in Clients : d # c => sent'[d] = sent[d]
  BY <1>0, <1>1
<1>3. \A j : HasSent(c, j) => HasSent(c, j)'
  BY <1>0, <1>2 DEF HasSent
<1>4. Talking(c)'
  BY <1>0, <1>1, <1>3 DEF Talking, Right, Lasts, Ending, Persistent
<1>5. \A d \in Clients : d # c => asked'[d] = asked[d]
  BY <1>2 DEF HasSent
<1>6. ASSUME NEW j \in DOMAIN Script[c], HasSent(c, j)', ~HasSent(c, j) PROVE j = i
  <2>1. PICK n \in 1..(sent[c] + 1) : Stream[c][n] = Unit(j, BodySize(Script[c][j]))
    BY <1>2, <1>6 DEF HasSent
  <2>2. n \notin 1..sent[c]
    BY <1>6, <2>1 DEF HasSent
  <2>3. n = sent[c] + 1
    BY <1>0, <2>2
  <2> QED BY <1>i, <2>1, <2>3 DEF Unit
<1>7. CASE \A j \in DOMAIN Script[c] : HasSent(c, j)' => HasSent(c, j)
  <2>1. asked' = asked
    BY <1>3, <1>5, <1>7
  <2>2. UNCHANGED Talk!cvars
    BY <1>1, <2>1 DEF Talk!cvars
  <2> QED BY <1>4, <2>2 DEF Follows
<1>8. CASE \E j \in DOMAIN Script[c] : HasSent(c, j)' /\ ~HasSent(c, j)
  <2>1. i \in DOMAIN Script[c] /\ HasSent(c, i)' /\ ~HasSent(c, i)
    <3>1. PICK j \in DOMAIN Script[c] : HasSent(c, j)' /\ ~HasSent(c, j)
      BY <1>8
    <3>2. j = i
      BY <1>6, <3>1
    <3> QED BY <3>1, <3>2
  <2>2. asked' = [asked EXCEPT ![c] = @ \cup {i}]
    <3>1. asked'[c] = asked[c] \cup {i}
      <4>1. \A j \in DOMAIN Script[c] : HasSent(c, j)' <=> HasSent(c, j) \/ j = i
        BY <1>3, <1>6, <2>1
      <4> QED BY <2>1, <4>1
    <3> QED BY <1>5, <3>1
  <2>3. i \in DOMAIN RightAnswers[c] \ asked[c] /\ i \in Nat
    BY <2>1, ScriptSeq DEF RightAnswers
  <2>4. ASSUME NEW j \in 1..(i - 1) PROVE j \in asked[c]
    <3>1. j \in DOMAIN Script[c] /\ j < i /\ j \in Nat
      BY <2>1, <2>3, ScriptSeq
    <3>2. BodySize(Script[c][j]) \in 0..BodySize(Script[c][j])
      BY <3>1, ScriptSeq
    <3>3. PICK n \in 1..Len(Stream[c]) : Stream[c][n] = Unit(j, BodySize(Script[c][j]))
      BY <3>1, <3>2, UnitArrives
    <3>4. Stream[c][n].req = j
      BY <3>3 DEF Unit
    <3>5. ~(sent[c] + 1 < n) /\ n # sent[c] + 1
      <4>1. sent[c] + 1 < n => i <= j
        BY <1>i, <1>0, <2>3, <3>1, <3>4, InOrder, SMTT(40)
      <4> QED BY <1>i, <2>3, <3>1, <3>4, <4>1
    <3>6. n \in 1..sent[c]
      BY <1>0, <3>5
    <3> QED BY <3>1, <3>3, <3>6 DEF HasSent
  <2>5. ASSUME c \notin Pipelining
        PROVE  i = Len(answers[c]) + 1 /\ \A n \in DOMAIN answers[c] : answers[c][n].req < i
    <3>1. \A n \in 1..Len(answers[c]) : answers[c][n].req = n /\ HasSent(c, n)
      BY <1>0, <2>5 DEF SocketInv, Answered, Talking, Right
    <3>2. i \notin 1..Len(answers[c]) /\ i \in Nat \ {0}
      BY <2>1, <2>3, <3>1, ScriptSeq
    <3>3. i <= Len(answers[c]) + 1
      <4>1. SocketInv(c)'
        BY <1>0, SendKeeps
      <4>2. sent[c] + 1 \in 1..sent'[c]
        BY <1>0, <1>2
      <4> QED BY <1>i, <1>1, <2>5, <4>1, <4>2 DEF SocketInv, Waits
    <3>4. i = Len(answers[c]) + 1
      BY <1>0, <3>2, <3>3
    <3> QED BY <1>0, <3>1, <3>4
  <2> HIDE DEF asked
  <2>6. Talk!Ask(c)
    BY <1>1, <2>2, <2>3, <2>4, <2>5 DEF Talk!Ask, Talk!Patient, Talk!Due, asked
  <2> QED BY <1>4, <2>6 DEF Follows, Talk!Next
<1> QED BY <1>7, <1>8

LEMMA HangUpFollows ==
    ASSUME TalkInv, NEW c \in Clients, HangUp(c)
    PROVE  Follows(c)
<1>1. Talking(c)'
  BY DEF TalkInv, HangUp, sockets, Talking, Right, Lasts, Ending, Persistent, HasSent
<1>2. Talk!HangUp(c)
  BY DEF HangUp, sockets, Talk!HangUp, HasSent
<1> QED BY <1>1, <1>2 DEF Follows, Talk!Next

\* The answer that arrives is the right one, due, and none has been the last.
LEMMA WriteFollows ==
    ASSUME TalkInv, NEW c \in Clients, WriteCompletes(c)
    PROVE  Follows(c)
<1> DEFINE i == response[c].req
           a == response[c]
<1>0. /\ Talking(c) /\ Inv /\ SocketInv(c) /\ stage[c] = "write" /\ status[c] = "pending"
      /\ Len(answers[c]) \in Nat /\ DOMAIN answers[c] = 1..Len(answers[c])
      /\ answers[c] \in Seq(Responses) /\ response[c] \in Responses
  BY Typed DEF TalkInv, ConnectionInv, WriteCompletes, Pending
<1>1. /\ UNCHANGED <<sent, gone, stage, request, response>> /\ status'[c] = "done"
      /\ answers' = [answers EXCEPT ![c] = IF c \in gone THEN @ ELSE Append(@, a)]
      /\ answers'[c] = IF c \in gone THEN answers[c] ELSE Append(answers[c], a)
  BY <1>0 DEF WriteCompletes, Complete, Inv, TypeOK
<1>2. a \in RightTo(c) /\ HasSent(c, i) /\ i = request[c]
  BY <1>0 DEF Talking, Right, SocketInv, InWrite
<1>3. \A n \in 1..Len(answers[c]) :
         /\ answers[c][n] \in RightTo(c) /\ HasSent(c, answers[c][n].req)
         /\ Script[c][answers[c][n].req].version = "1.1"
  BY <1>0 DEF Talking, Right, Lasts, Ending
<1>4. CASE c \in gone
  <2>1. answers' = answers
    BY <1>0, <1>1, <1>4 DEF Inv, TypeOK
  <2>2. Talking(c)'
    BY <1>1, <1>2, <1>3, <2>1 DEF Talking, Right, Lasts, HasSent
  <2>3. UNCHANGED Talk!cvars
    BY <1>1, <2>1, Unseen
  <2> QED BY <2>2, <2>3 DEF Follows
<1>5. CASE c \notin gone
  <2>1. /\ Len(answers'[c]) = Len(answers[c]) + 1
        /\ \A n \in 1..Len(answers[c]) : answers'[c][n] = answers[c][n]
        /\ answers'[c][Len(answers[c]) + 1] = a
    BY <1>0, <1>1, <1>5, AppendProperties
  <2>2. \A n \in 1..(Len(answers[c]) + 1) : n \in 1..Len(answers[c]) \/ n = Len(answers[c]) + 1
    BY <1>0
  <2>3. Right(c)'
    BY <1>1, <1>2, <1>3, <2>1, <2>2 DEF Right, HasSent
  <2>4. Lasts(c)'
    <3>1. Script[c][i].version = "1.1" \/ Ending(c)'
      BY <1>0, <1>1, <1>2 DEF Ending, Persistent
    <3> QED BY <1>3, <2>1, <2>2, <3>1 DEF Lasts
  <2>5. \A n \in DOMAIN answers[c] : answers[c][n].req < i
    <3>1. stage[c] \in {"body", "write"} /\ request[c] = Stream[c][First(c)].req
      BY <1>0, Current
    <3> QED BY <1>0, <1>2, <3>1 DEF SocketInv, InRequest
  <2>6. c \notin Pipelining => i = Len(answers[c]) + 1
    BY <1>0, <1>2, <1>5 DEF SocketInv, Waits
  <2>7. ~ \E n \in DOMAIN answers[c] : answers[c][n].req \in LastRequests[c]
    BY <1>0, <1>3 DEF LastRequests
  <2>8. i \in DOMAIN Script[c] /\ RightAnswers[c][i] = a /\ a # NoResponse
    BY <1>2, RightOnes
  <2> HIDE DEF i, a
  <2>9. Talk!Answer(c)
    BY <1>0, <1>1, <1>2, <1>5, <2>5, <2>6, <2>7, <2>8
       DEF Talk!Answer, Talk!Over, Talk!Due, Talk!Patient, HasSent
  <2> QED BY <2>3, <2>4, <2>9 DEF Follows, Talking, Talk!Next
<1> QED BY <1>4, <1>5

\* respond() to a request that has been sent: the right answer is written, or the
\* request is refused.
LEMMA RespondFollows ==
    ASSUME TalkInv, Inv', NEW c \in Clients, NEW i \in Nat, NEW content \in Seq(Units),
           Respond(c, i, content), stage[c] \in {"head", "body"},
           request'[c] = i, UNCHANGED <<sent, gone, answers>>,
           i # 0 => i \in DOMAIN Script[c] /\ HasSent(c, i),
           i # 0 => Script[c][i].length # BadLength /\ ~ReadsNull(Script[c][i]),
           c \notin Pipelining /\ c \notin gone => i = Len(answers[c]) + 1
    PROVE  Follows(c)
<1>0. /\ Talking(c) /\ ~Ending(c) /\ TypeOK /\ stage[c] # "closed"
      /\ Len(answers[c]) \in Nat /\ DOMAIN answers[c] = 1..Len(answers[c]) /\ SocketInv(c)
  BY Typed DEF TalkInv, Inv, Ending, ConnectionInv
<1>1. CASE /\ RouteTo(c, i) = 0
           /\ stage' = [stage EXCEPT ![c] = "closed"]
  <2>1. stage'[c] = "closed" /\ \A d \in Clients : d # c => stage'[d] = stage[d]
    BY <1>0, <1>1 DEF TypeOK
  <2>2. Talking(c)'
    BY <1>0, <2>1, OnwardTalk
  <2>3. ASSUME c \notin Pipelining, c \notin gone
        PROVE  /\ i \in DOMAIN Script[c] /\ HasSent(c, i) /\ RightAnswers[c][i] = NoResponse
               /\ i \notin FatalRequests[c]
               /\ i = Len(answers[c]) + 1
               /\ \A n \in DOMAIN answers[c] : answers[c][n].req < i
    <3>1. i = Len(answers[c]) + 1 /\ i # 0
      BY <1>0, <2>3
    <3>2. Route(Script[c][i]) = 0
      BY <1>1, <3>1 DEF RouteTo
    <3>3. RightAnswers[c][i] = NoResponse
      BY <3>1, <3>2 DEF RightAnswers, RightAnswer
    <3>4. \A n \in 1..Len(answers[c]) : answers[c][n].req = n
      BY <1>0, <2>3 DEF SocketInv, Answered
    <3>5. i \notin FatalRequests[c]
      BY <3>1, <3>2 DEF FatalRequests, IsFatal
    <3> QED BY <1>0, <3>1, <3>3, <3>4, <3>5
  <2>4. {d \in Clients : stage'[d] = "closed"} = {d \in Clients : stage[d] = "closed"} \cup {c}
    BY <2>1
  <2>5. Talk!Close(c)
    BY <1>0, <2>3, <2>4 DEF Talk!Close, Talk!Patient, Talk!Due, HasSent
  <2> QED BY <2>2, <2>5 DEF Follows, Talk!Next
<1>2. CASE /\ i # 0 /\ RouteTo(c, i) # 0
           /\ stage' = [stage EXCEPT ![c] = "write"]
           /\ response' = [response EXCEPT ![c] = AnswerTo(c, i, content)]
  <2>1. /\ stage'[c] = "write" /\ response'[c] = AnswerTo(c, i, content)
        /\ \A d \in Clients : d # c => stage'[d] = stage[d]
    BY <1>0, <1>2 DEF TypeOK
  <2>2. Script[c][i].method = "POST" => response'[c].content = Body(c, i)
    <3>1. SocketInv(c)'
      BY DEF Inv, ConnectionInv
    <3>2. Proper(c, response[c])' /\ response'[c].req = i
      BY <2>1, <3>1 DEF SocketInv, InWrite
    <3> QED BY <3>2 DEF Proper, Body
  <2>3. response'[c] = RightAnswer(c, i) /\ Answerable(Script[c][i])
    <3>1. Answerable(Script[c][i])
      BY <1>2 DEF RouteTo, Answerable
    <3> QED BY <1>2, <2>1, <2>2, <3>1 DEF AnswerTo, RightAnswer, RouteTo, Answerable
  <2>4. response'[c] \in RightTo(c) /\ response'[c].req = i
    BY <1>2, <2>1, <2>3 DEF RightTo, AnswerTo
  <2>5. Talking(c)'
    BY <1>0, <1>2, <2>4 DEF Talking, Right, Lasts, HasSent
  <2>6. \A d \in Clients : stage'[d] = "closed" <=> stage[d] = "closed"
    BY <1>0, <2>1
  <2> QED BY <2>5, <2>6, Unseen DEF Follows
<1> QED BY <1>1, <1>2, Responding DEF TalkInv

LEMMA HandleBodyFollows ==
    ASSUME TalkInv, Inv', NEW c \in Clients, HandleBody(c)
    PROVE  Follows(c)
<1> DEFINE f == First(c)
<1>0. /\ Inv /\ SocketInv(c) /\ stage[c] = "body" /\ status[c] = "done"
      /\ Respond(c, request[c], buffer[c])
      /\ UNCHANGED <<sent, gone, answers>> /\ request'[c] = request[c]
      /\ request[c] \in Nat /\ buffer[c] \in Seq(Units)
  BY Typed DEF TalkInv, HandleBody, Done, ConnectionInv
<1>1. /\ f \in 1..Len(Stream[c]) /\ IsHead(Stream[c][f]) /\ request[c] \in {0, Stream[c][f].req}
      /\ Stream[c][f].req \in DOMAIN Script[c]
  BY <1>0, Current
<1>2. f + BodySize(Script[c][Stream[c][f].req]) <= sent[c]
  <2>1. Len(buffer[c]) = BodySize(Script[c][Stream[c][f].req])
    BY <1>0, <1>1, ScriptSeq DEF SocketInv, InBody
  <2>2. f + Len(buffer[c]) <= sent[c]
    <3>1. /\ Len(buffer[c]) \in Nat /\ Len(wire[c]) \in Nat /\ sent[c] \in Nat
      BY <1>0, Typed
    <3> QED BY <3>1 DEF First, Taken
  <2> QED BY <2>1, <2>2
<1>3. HasSent(c, Stream[c][f].req)
  BY <1>0, <1>1, <1>2, AllSent
<1>4. c \notin Pipelining /\ c \notin gone => request[c] = Len(answers[c]) + 1
  BY <1>0 DEF SocketInv, Waits
<1>5. request[c] # 0 => Script[c][request[c]].length # BadLength /\ ~ReadsNull(Script[c][request[c]])
  <2>1. Script[c][Stream[c][f].req].length \in Nat
    BY <1>0 DEF SocketInv, InBody
  <2> QED BY <1>1, <2>1 DEF ReadsNull, NoLength, BadLength
<1> QED BY <1>0, <1>1, <1>3, <1>4, <1>5, RespondFollows

LEMMA HandleHeadFollows ==
    ASSUME TalkInv, Inv', NEW c \in Clients, HandleHead(c)
    PROVE  Follows(c)
<1> DEFINE h == HeadAt(c)
           f == First(c) + h
<1>0. /\ Inv /\ Talking(c) /\ SocketInv(c) /\ Done(c, "head") /\ stage[c] = "head"
      /\ Len(buffer[c]) \in Nat /\ Len(answers[c]) \in Nat /\ First(c) \in Nat
      /\ Len(Stream[c]) \in Nat
  BY Typed DEF TalkInv, HandleHead, Done, ConnectionInv
<1>1. /\ h \in 1..Len(buffer[c]) /\ IsHead(buffer[c][h])
      /\ \A k \in 1..Len(buffer[c]) : IsHead(buffer[c][k]) => h <= k
      /\ f \in 1..Len(Stream[c]) /\ buffer[c][h] = Stream[c][f]
      /\ buffer[c][h].req \in DOMAIN Script[c]
  BY <1>0, HeadFound
<1>2. PICK i : i = IF h = 1 THEN buffer[c][1].req ELSE 0
  OBVIOUS
<1>3. /\ UNCHANGED <<sent, gone, answers>> /\ request'[c] = i
      /\ \/ stage' = [stage EXCEPT ![c] = "body"]
         \/ /\ h = 1 => HeadLength(c) = NoLength /\ ~ReadsNull(HeadRequest(c))
            /\ Respond(c, i, <<>>)
  BY <1>0, <1>2 DEF HandleHead, HandleHeadWith, Start, Inv, TypeOK
<1>4. CASE stage' = [stage EXCEPT ![c] = "body"]
  <2>1. stage'[c] = "body" /\ \A d \in Clients : d # c => stage'[d] = stage[d]
    BY <1>0, <1>4 DEF Inv, TypeOK
  <2>2. Talking(c)'
    BY <1>0, <1>3, <2>1, OnwardTalk DEF Ending
  <2>3. \A d \in Clients : stage'[d] = "closed" <=> stage[d] = "closed"
    BY <1>0, <2>1
  <2> QED BY <1>3, <2>2, <2>3, Unseen DEF Follows
<1>5. CASE /\ h = 1 => HeadLength(c) = NoLength /\ ~ReadsNull(HeadRequest(c))
           /\ Respond(c, i, <<>>)
  <2>1. i \in Nat /\ <<>> \in Seq(Units)
    BY <1>1, <1>2, ScriptSeq
  <2>2. i # 0 => i \in DOMAIN Script[c] /\ HasSent(c, i)
    <3> SUFFICES ASSUME i # 0 PROVE i \in DOMAIN Script[c] /\ HasSent(c, i)
      OBVIOUS
    <3>1. h = 1 /\ i = Stream[c][f].req /\ i \in DOMAIN Script[c]
      BY <1>1, <1>2
    <3>2. BodySize(Script[c][i]) = 0
      <4>1. Script[c][i].length \notin Nat
        BY <1>2, <1>5, <3>1 DEF HeadLength, HeadRequest, NoLength
      <4> QED BY <3>1, <4>1, ScriptSeq
    <3>3. f <= sent[c] /\ sent[c] \in Nat
      <4>1. /\ Len(buffer[c]) \in Nat /\ Len(wire[c]) \in Nat /\ sent[c] \in Nat
        BY <1>0, Typed
      <4>2. First(c) + Len(buffer[c]) <= sent[c]
        BY <4>1 DEF First, Taken
      <4> QED BY <1>0, <1>1, <4>1, <4>2
    <3> HIDE DEF f
    <3> QED BY <1>0, <1>1, <3>1, <3>2, <3>3, AllSent
  <2>3. ASSUME c \notin Pipelining, c \notin gone PROVE i = Len(answers[c]) + 1
    <3>1. 1 \in 1..Len(buffer[c]) /\ First(c) < Len(Stream[c])
      BY SMTT(40), <1>0, <1>1
    <3>2. Stream[c][First(c) + 1] = Unit(Len(answers[c]) + 1, 0)
      BY <1>0, <2>3, <3>1 DEF SocketInv, Waits
    <3>3. buffer[c][1] = Unit(Len(answers[c]) + 1, 0)
      BY <1>0, <3>1, <3>2 DEF SocketInv, Segments
    <3>4. IsHead(buffer[c][1]) /\ buffer[c][1].req = Len(answers[c]) + 1
      BY <3>3 DEF IsHead, Unit
    <3> QED BY <1>1, <1>2, <3>1, <3>4
  <2>4. i # 0 => Script[c][i].length # BadLength /\ ~ReadsNull(Script[c][i])
    <3>1. i # 0 => h = 1 /\ HeadRequest(c) = Script[c][i]
      BY <1>2 DEF HeadRequest
    <3> QED BY <1>5, <3>1 DEF HeadLength, NoLength, BadLength
  <2> QED BY <1>0, <1>3, <1>5, <2>1, <2>2, <2>3, <2>4, RespondFollows
<1> QED BY <1>3, <1>4, <1>5

LEMMA CloseFollows ==
    ASSUME TalkInv, NEW c \in Clients, HandleLastWrite(c) \/ HandleFailure(c)
    PROVE  Follows(c)
<1>0. /\ Inv /\ Talking(c) /\ SocketInv(c) /\ TypeOK /\ CloseOnly(c)
      /\ Len(answers[c]) \in Nat /\ DOMAIN answers[c] = 1..Len(answers[c])
  BY Typed DEF TalkInv, HandleLastWrite, HandleFailure, ConnectionInv, Inv
<1>1. /\ UNCHANGED <<sent, gone, answers>>
      /\ stage'[c] = "closed" /\ \A d \in Clients : d # c => stage'[d] = stage[d]
  BY <1>0 DEF CloseOnly, Close, Start, TypeOK
<1>2. Talking(c)'
  BY <1>0, <1>1 DEF Talking, Right, Lasts, Ending, HasSent
<1>3. CASE stage[c] = "closed"
  BY <1>1, <1>2, <1>3, Unseen DEF Follows
<1>4. CASE stage[c] # "closed"
  <2>1. ASSUME c \notin Pipelining, c \notin gone
        PROVE  \E n \in DOMAIN answers[c] : answers[c][n].req \in LastRequests[c]
    <3>1. ~HandleFailure(c)
      BY <1>0, <2>1 DEF HandleFailure, Failed, SocketInv, FailsWhenGone
    <3>2. stage[c] = "write" /\ status[c] = "done" /\ Script[c][request[c]].version = "1.0"
      BY <3>1 DEF HandleLastWrite, Done
    <3>3. request[c] = Len(answers[c]) /\ request[c] \in DOMAIN Script[c]
      BY <1>0, <2>1, <3>2, Current DEF SocketInv, Waits
    <3>4. Len(answers[c]) \in 1..Len(answers[c])
      BY <1>0, <3>3, ScriptSeq
    <3>5. answers[c][Len(answers[c])].req = request[c]
      BY <1>0, <2>1, <3>3, <3>4 DEF SocketInv, Answered
    <3> QED BY <1>0, <3>2, <3>3, <3>4, <3>5 DEF LastRequests
  <2>2. {d \in Clients : stage'[d] = "closed"} = {d \in Clients : stage[d] = "closed"} \cup {c}
    BY <1>1
  <2>3. Talk!Close(c)
    BY <1>1, <1>4, <2>1, <2>2 DEF Talk!Close, Talk!Patient, Talk!Over, HasSent
  <2> QED BY <1>2, <2>3 DEF Follows, Talk!Next
<1> QED BY <1>3, <1>4

\* The other steps of a connection: it goes on, and no client sees it.
LEMMA OnwardFollows ==
    ASSUME TalkInv, NEW c \in Clients,
           \/ HandshakeCompletes(c) \/ ReadHead(c) \/ ReadBody(c) \/ OperationFails(c)
           \/ HandleHandshake(c) \/ HandleWrite(c)
    PROVE  Follows(c)
<1>0. Inv /\ Talking(c) /\ TypeOK
  BY DEF TalkInv, Inv
<1>1. CASE HandshakeCompletes(c) \/ ReadHead(c) \/ ReadBody(c)
  <2>1. UNCHANGED <<sent, gone, answers, stage>> /\ stage[c] \in {"handshake", "head", "body"}
    BY <1>1 DEF HandshakeCompletes, ReadHead, ReadBody, Pending
  <2>2. Talking(c)'
    BY <1>0, <2>1, OnwardTalk DEF Ending
  <2> QED BY <2>1, <2>2, Unseen DEF Follows
<1>2. CASE OperationFails(c)
  <2>1. UNCHANGED <<sent, gone, answers, stage, response>> /\ status[c] = "pending" /\ stage[c] # "closed"
    BY <1>2 DEF OperationFails
  <2>2. Talking(c)'
    BY <1>0, <2>1 DEF Talking, Right, Lasts, Ending, HasSent
  <2> QED BY <2>1, <2>2, Unseen DEF Follows
<1>3. CASE HandleHandshake(c) \/ HandleWrite(c)
  <2>1. /\ UNCHANGED <<sent, gone, answers>> /\ stage[c] # "closed" /\ ~Ending(c)
        /\ stage'[c] = "head" /\ \A d \in Clients : d # c => stage'[d] = stage[d]
    BY <1>0, <1>3 DEF HandleHandshake, HandleWrite, Done, ReadRequest, Start, TypeOK, Ending
  <2>2. Talking(c)'
    BY <1>0, <2>1, OnwardTalk
  <2>3. \A d \in Clients : stage'[d] = "closed" <=> stage[d] = "closed"
    BY <2>1
  <2> QED BY <2>1, <2>2, <2>3, Unseen DEF Follows
<1> QED BY <1>1, <1>2, <1>3

\* What ends the process is a request that does, and its client has sent all of it.
LEMMA FatalSent ==
    ASSUME TalkInv, NEW c \in Clients, Throws(c)
    PROVE  /\ stage[c] \in {"head", "write"}
           /\ \E i \in FatalRequests[c] : HasSent(c, i)
<1>0. Inv /\ Talking(c) /\ SocketInv(c)
  BY DEF TalkInv, Inv, ConnectionInv
<1>1. CASE /\ Done(c, "head")
           /\ HeadLength(c) = BadLength \/ ReadsNull(HeadRequest(c))
  <2> DEFINE f == First(c) + HeadAt(c)
             i == Stream[c][f].req
  <2>1. /\ HeadAt(c) \in 1..Len(buffer[c]) /\ f \in 1..Len(Stream[c]) /\ IsHead(Stream[c][f])
        /\ i \in DOMAIN Script[c] /\ HeadRequest(c) = Script[c][i]
        /\ HeadLength(c) = Script[c][i].length
    <3>1. /\ HeadAt(c) \in 1..Len(buffer[c]) /\ f \in 1..Len(Stream[c])
          /\ IsHead(buffer[c][HeadAt(c)]) /\ buffer[c][HeadAt(c)] = Stream[c][f]
      BY <1>0, <1>1, HeadFound
    <3>2. /\ buffer[c][HeadAt(c)].req \in DOMAIN Script[c]
          /\ HeadRequest(c) = Script[c][buffer[c][HeadAt(c)].req]
          /\ HeadLength(c) = HeadRequest(c).length
      BY <1>0, <1>1, HeadFound
    <3> QED BY <3>1, <3>2
  <2>2. IsFatal(Script[c][i]) /\ Script[c][i].length \notin Nat
    BY SMTT(40), <1>1, <2>1 DEF IsFatal, ReadsNull, NoLength, BadLength
  <2>3. BodySize(Script[c][i]) = 0
    BY <2>1, <2>2, ScriptSeq
  <2>4. f <= sent[c] /\ f \in Nat
    <3>1. /\ Len(buffer[c]) \in Nat /\ Len(wire[c]) \in Nat /\ sent[c] \in Nat /\ First(c) \in Nat
      BY <1>0, Typed
    <3>2. First(c) + Len(buffer[c]) <= sent[c]
      BY <3>1 DEF First, Taken
    <3> QED BY <2>1, <3>1, <3>2
  <2>5. f + BodySize(Script[c][i]) <= sent[c]
    BY <2>3, <2>4
  <2>6. HasSent(c, i)
    BY <1>0, <2>1, <2>5, AllSent
  <2> QED BY <1>1, <2>1, <2>2, <2>6 DEF FatalRequests, Done
<1>2. CASE Done(c, "write") /\ Script[c][request[c]].version = "none"
  <2>1. /\ stage[c] = "write" /\ response[c] \in RightTo(c) /\ HasSent(c, response[c].req)
        /\ response[c].req = request[c]
    BY <1>0, <1>2 DEF Done, Talking, Right, SocketInv, InWrite
  <2>2. request[c] \in DOMAIN Script[c] /\ Route(Script[c][request[c]]) # 0
    BY <2>1, RightOnes
  <2> QED BY <1>2, <2>1, <2>2 DEF FatalRequests, IsFatal
<1> QED BY <1>1, <1>2 DEF Throws, ThrowsFor

LEMMA TerminateFollows ==
    ASSUME TalkInv, NEW c \in Clients, Terminate(c)
    PROVE  Talk!Crash(c) /\ Ended' /\ \A d \in Clients : Talking(d)'
<1>1. /\ UNCHANGED <<sent, gone, answers>> /\ \A d \in Clients : stage'[d] = "closed"
  BY DEF Terminate
<1>2. PICK i \in FatalRequests[c] : HasSent(c, i)
  BY FatalSent DEF Terminate
<1>3. stage[c] # "closed" /\ i \in DOMAIN Script[c]
  BY FatalSent DEF Terminate, FatalRequests
<1>4. Ended'
  BY <1>1, <1>2 DEF Ended, HasSent
<1>5. \A d \in Clients : Talking(d)'
  BY <1>1 DEF TalkInv, Talking, Right, Lasts, Ending, HasSent
<1>6. Talk!Crash(c)
  BY <1>1, <1>2, <1>3 DEF Talk!Crash, HasSent
<1> QED BY <1>4, <1>5, <1>6

\* What has been sent stays sent.
LEMMA EndedStays ==
    ASSUME Ended, listening' = "terminated" => listening = "terminated",
           \A d \in Clients : sent[d] \in Nat /\ sent'[d] \in Nat /\ sent[d] <= sent'[d]
    PROVE  Ended'
<1>1. ASSUME NEW d \in Clients, NEW i, HasSent(d, i) PROVE HasSent(d, i)'
  <2>1. PICK n \in 1..sent[d] : Stream[d][n] = Unit(i, BodySize(Script[d][i]))
    BY <1>1 DEF HasSent
  <2>2. n \in 1..sent'[d]
    OBVIOUS
  <2> QED BY <2>1, <2>2 DEF HasSent
<1> QED BY <1>1 DEF Ended

LEMMA TalkInit == Init => TalkInv /\ Talk!Init
<1> SUFFICES ASSUME Init PROVE TalkInv /\ Talk!Init
  OBVIOUS
<1>1. ASSUME NEW c \in Clients
      PROVE  /\ sent[c] = 0 /\ stage[c] = "none" /\ answers[c] = <<>> /\ Len(answers[c]) = 0
  BY DEF Init
<1>2. \A c \in Clients : Talking(c)
  BY <1>1 DEF Talking, Right, Lasts
<1>3. \A c \in Clients : \A i : ~HasSent(c, i)
  BY <1>1 DEF HasSent
<1>4. Talk!Init
  BY <1>1, <1>3 DEF Init, Talk!Init
<1>5. Ended
  BY DEF Init, Ended
<1> QED BY <1>2, <1>4, <1>5, InvInit DEF TalkInv

LEMMA EndedNext ==
    ASSUME TalkInv, [Next]_vars, ~ \E c \in Clients : Terminate(c)
    PROVE  Ended'
<1>1. listening' = "terminated" => listening = "terminated"
  <2>1. CASE UNCHANGED vars
    BY <2>1 DEF vars, accepting
  <2>2. CASE AcceptCompletes \/ AcceptFails \/ \E t \in IoThreads : HandleAccept(t) \/ Serve(t)
    BY <2>2 DEF AcceptCompletes, AcceptFails, HandleAccept, HandleAcceptThen, Serve
  <2>3. ASSUME NEW c \in Clients, Client(c) \/ Network(c)
        PROVE  UNCHANGED listening
    BY <2>3 DEF Client, Connect, Send, HangUp, Network, HandshakeCompletes, ReadHead, ReadBody,
       WriteCompletes, OperationFails, accepting
  <2>4. ASSUME NEW c \in Clients, Handle(c)
        PROVE  UNCHANGED listening
    BY <2>4 DEF Handle, HandleHandshake, HandleHead, HandleHeadWith, HandleBody, HandleWrite,
       HandleLastWrite, HandleFailure, ReadRequest, CloseOnly, accepting
  <2> QED BY <2>1, <2>2, <2>3, <2>4 DEF Next, Waiting
<1>2. ASSUME NEW d \in Clients PROVE sent[d] \in Nat /\ sent'[d] \in Nat /\ sent[d] <= sent'[d]
  <2>1. sent \in [Clients -> Nat]
    BY DEF TalkInv, Inv, TypeOK
  <2>2. CASE UNCHANGED sent
    BY <2>1, <2>2
  <2>3. CASE \E c \in Clients : Send(c)
    BY <2>1, <2>3 DEF Send
  <2>4. UNCHANGED sent \/ \E c \in Clients : Send(c)
    <3>1. CASE UNCHANGED vars
      BY <3>1 DEF vars
    <3>2. CASE AcceptCompletes \/ AcceptFails \/ \E t \in IoThreads : HandleAccept(t) \/ Serve(t)
      BY <3>2 DEF AcceptCompletes, AcceptFails, HandleAccept, HandleAcceptThen, Serve
    <3>3. ASSUME NEW c \in Clients, Client(c) \/ Network(c), ~Send(c)
          PROVE  UNCHANGED sent
      BY <3>3 DEF Client, Connect, HangUp, Network, HandshakeCompletes, ReadHead, ReadBody,
         WriteCompletes, OperationFails
    <3>4. ASSUME NEW c \in Clients, Handle(c)
          PROVE  UNCHANGED sent
      BY <3>4 DEF Handle, HandleHandshake, HandleHead, HandleHeadWith, HandleBody,
         HandleWrite, HandleLastWrite, HandleFailure, ReadRequest, CloseOnly
    <3> QED BY <3>1, <3>2, <3>3, <3>4 DEF Next, Waiting
  <2> QED BY <2>2, <2>3, <2>4
<1> QED BY <1>1, <1>2, EndedStays DEF TalkInv

LEMMA TalkStep == TalkInv /\ [Next]_vars => TalkInv' /\ [Talk!Next]_(Talk!cvars)
<1> SUFFICES ASSUME TalkInv, [Next]_vars
             PROVE  TalkInv' /\ (Talk!Next \/ UNCHANGED Talk!cvars)
  OBVIOUS
<1>0. Inv /\ Inv' /\ \A d \in Clients : Talking(d) /\ ConnectionInv(d)
  BY InvNext DEF TalkInv, Inv
<1>t. ASSUME NEW c \in Clients, Terminate(c) PROVE TalkInv' /\ Talk!Next
  BY <1>0, <1>t, TerminateFollows DEF TalkInv, Talk!Next
<1>n. SUFFICES ASSUME ~ \E c \in Clients : Terminate(c)
               PROVE  TalkInv' /\ (Talk!Next \/ UNCHANGED Talk!cvars)
  BY <1>t
<1>e. Ended'
  BY <1>n, EndedNext
<1>1. CASE UNCHANGED vars
  <2>1. \A d \in Clients : Same(d)
    BY <1>1 DEF vars, sockets, accepting, Same
  <2>2. UNCHANGED Talk!cvars
    BY <1>1, Unseen DEF vars, sockets
  <2> QED BY <1>0, <1>e, <2>1, <2>2, SameTalk DEF TalkInv
<1>2. CASE AcceptCompletes \/ AcceptFails \/ \E t \in IoThreads : HandleAccept(t)
  <2>1. UNCHANGED <<gone, sent, sockets>>
    BY <1>2 DEF AcceptCompletes, AcceptFails, HandleAccept, HandleAcceptThen
  <2>2. \A d \in Clients : Same(d)
    BY <1>2, <2>1 DEF AcceptCompletes, AcceptFails, HandleAccept, HandleAcceptThen, sockets, Same
  <2>3. UNCHANGED Talk!cvars
    BY <2>1, Unseen DEF sockets
  <2> QED BY <1>0, <1>e, <2>2, <2>3, SameTalk DEF TalkInv
<1>3. ASSUME NEW t \in IoThreads, Serve(t) PROVE TalkInv' /\ (Talk!Next \/ UNCHANGED Talk!cvars)
  <2>1. PICK c : c = serving[t]
    OBVIOUS
  <2>2. /\ UNCHANGED <<gone, sent, answers>> /\ c \in Clients
        /\ stage'[c] \in {"handshake", "head"}
        /\ \A d \in Clients : d # c => Same(d)
    BY <1>0, <1>3, <2>1 DEF Serve, Inv, TypeOK, Same
  <2>3. stage[c] = "none"
    BY <1>0, <2>1, <2>2 DEF ConnectionInv, Once
  <2>4. Talking(c)'
    BY <1>0, <2>2, <2>3, OnwardTalk DEF Ending
  <2>5. \A d \in Clients : Talking(d)'
    BY <1>0, <2>2, <2>4, SameTalk
  <2>6. \A d \in Clients : stage'[d] = "closed" <=> stage[d] = "closed"
    BY <2>2, <2>3 DEF Same
  <2> QED BY <1>0, <1>e, <2>2, <2>5, <2>6, Unseen DEF TalkInv
<1>4. ASSUME NEW c \in Clients, Connect(c)
      PROVE  TalkInv' /\ (Talk!Next \/ UNCHANGED Talk!cvars)
  <2>1. UNCHANGED <<listening, gone, sent, sockets>>
    BY <1>4 DEF Connect
  <2>2. \A d \in Clients : Same(d)
    BY <2>1 DEF sockets, Same
  <2>3. UNCHANGED Talk!cvars
    BY <2>1, Unseen DEF sockets
  <2> QED BY <1>0, <1>e, <2>2, <2>3, SameTalk DEF TalkInv
<1>5. ASSUME NEW c \in Clients, Send(c) \/ HangUp(c) \/ Network(c) \/ Handle(c)
      PROVE  TalkInv' /\ (Talk!Next \/ UNCHANGED Talk!cvars)
  <2>1. Follows(c)
    BY <1>0, <1>5, <1>n, SendFollows, HangUpFollows, WriteFollows, HandleHeadFollows, HandleBodyFollows,
       CloseFollows, OnwardFollows DEF Network, Handle
  <2>2. ASSUME NEW d \in Clients PROVE Talking(d)'
    <3>1. CASE d = c
      BY <2>1, <3>1 DEF Follows
    <3>2. CASE d # c
      BY <1>0, <1>5, <1>n, <3>2, OthersStay, SameTalk DEF Client
    <3> QED BY <3>1, <3>2
  <2> QED BY <1>0, <1>e, <2>1, <2>2 DEF Follows, TalkInv
<1> QED BY <1>1, <1>2, <1>3, <1>4, <1>5 DEF Next, Client, Waiting

\* A connection whose client waits for its answers is only closed when the client
\* is gone, has asked for it, or has asked for what no resource serves, or when a
\* request that some client has sent has ended the process: one that makes a
\* handler throw, or a resource read what is not there.
THEOREM ClosedForAReasonHolds ==
    Spec => []ClosedForAReason
<1>1. TalkInv => ClosedForAReason
  <2> SUFFICES ASSUME TalkInv, NEW c \in Clients \ Pipelining, stage[c] = "closed", c \notin gone
               PROVE  \/ Reason(c, Len(answers[c]))
                      \/ /\ listening = "terminated"
                         /\ \E d \in Clients : \E i \in FatalRequests[d] : HasSent(d, i)
    BY DEF ClosedForAReason, Reason
  <2>1. Waits(c) /\ Ended
    BY DEF TalkInv, Inv, ConnectionInv, SocketInv
  <2> QED BY <2>1 DEF Waits, Ended
<1> QED BY <1>1, TalkInit, TalkStep, PTL DEF Spec

\* For any clients, requests and streams, any number of threads and any pieces in
\* which the units arrive: the clients see nothing that the abstract server of
\* Conversation could not do, the safety half of ImplementsConversation.  It crashes
\* as well, but only at requests that are known to crash it.
THEOREM ImplementsConversationSafely == Spec => Talk!Safe
<1> QED BY TalkInit, TalkStep, PTL DEF Spec, Talk!Safe

==============================================================================
