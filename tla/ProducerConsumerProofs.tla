------------------------ MODULE ProducerConsumerProofs ------------------------
(***************************************************************************)
(* Theorems about ProducerConsumer, for any number of consumers and items. *)
(***************************************************************************)
EXTENDS ProducerConsumer, SequenceTheorems, TLAPS

------------------------------------------------------------------------------
(* What has left a queue and what is still in it, read as one sequence.     *)

\* Moving the head of a queue to the end of what has left it ...
LEMMA MoveHead ==
    ASSUME NEW S, NEW s \in Seq(S), NEW t \in Seq(S), t # <<>>
    PROVE  Append(s, Head(t)) \o Tail(t) = s \o t
  BY HeadTailProperties, AppendProperties, ConcatProperties, SeqEqual

\* ... and adding an element at the end of the queue.
LEMMA AppendConcat ==
    ASSUME NEW S, NEW s \in Seq(S), NEW t \in Seq(S), NEW e \in S
    PROVE  s \o Append(t, e) = Append(s \o t, e)
  BY AppendProperties, ConcatProperties, SeqEqual

------------------------------------------------------------------------------
\* A producer that has locked and records no more finds recorded items queued.
BoundKept == pc[Producer] = "produce" => i < MaxItems \/ produced_nums # <<>>

\* mtx keeps the critical sections apart.
MutualExclusion == \A t \in Threads : pc[t] \in Holding <=> mtx = t

\* The two parts of FlagMeansItem.
FlagOverItem == notified => produced_nums # <<>>

NoSleeper == notified => \A c \in Consumers : pc[c] # "asleep"

Inv ==
    /\ TypeOK
    /\ BoundKept
    /\ MutualExclusion
    /\ InOrder
    /\ FlagOverItem
    /\ NoSleeper

USE DEF Threads, Holding, Goto

LEMMA InitInv == Init => Inv
<1> SUFFICES ASSUME Init PROVE Inv
  OBVIOUS
<1> USE ThreadsAssumption, BoundsAssumption DEF Init
<1>1. TypeOK
  <2>1. pc \in [Threads -> Holding \cup {"sleep", "lock", "asleep", "wake", "relock"}]
    OBVIOUS
  <2>2. produced_nums \in Seq(Nat) /\ consumed \in Seq(Nat)
    OBVIOUS
  <2>3. i \in 0..MaxItems /\ spurious \in 0..MaxSpurious
    OBVIOUS
  <2> QED BY <2>1, <2>2, <2>3 DEF TypeOK
<1>2. BoundKept /\ MutualExclusion /\ FlagOverItem /\ NoSleeper
  BY DEF BoundKept, MutualExclusion, FlagOverItem, NoSleeper
<1>3. InOrder
  BY DEF InOrder
<1> QED BY <1>1, <1>2, <1>3 DEF Inv

\* Popping moves the first item to the end of consumed.
LEMMA PopMoves ==
    ASSUME NEW s \in Seq(Nat), NEW t \in Seq(Nat), t # <<>>
    PROVE  /\ s \o <<Head(t)>> \in Seq(Nat)
           /\ Tail(t) \in Seq(Nat)
           /\ (s \o <<Head(t)>>) \o Tail(t) = s \o t
<1>1. Head(t) \in Nat /\ Tail(t) \in Seq(Nat) /\ Len(t) \in Nat /\ Len(t) >= 1
  OBVIOUS
<1>3. s \o <<Head(t)>> = Append(s, Head(t))
  BY <1>1, AppendIsConcat
<1>4. Append(s, Head(t)) \o Tail(t) = s \o t
  BY MoveHead
<1>5. Append(s, Head(t)) \in Seq(Nat)
  BY <1>1, AppendProperties
<1> QED BY <1>1, <1>3, <1>4, <1>5

LEMMA StepInv == Inv /\ [Next]_vars => Inv'
<1> SUFFICES ASSUME Inv, [Next]_vars PROVE Inv'
  OBVIOUS
<1> USE ThreadsAssumption, BoundsAssumption
<1>0. /\ pc \in [Threads -> Holding \cup {"sleep", "lock", "asleep", "wake", "relock"}]
      /\ mtx \in Threads \cup {Nobody}
      /\ produced_nums \in Seq(Nat) /\ Len(produced_nums) \in Nat
      /\ notified \in BOOLEAN
      /\ i \in 0..MaxItems
      /\ spurious \in 0..MaxSpurious
      /\ consumed \in Seq(Nat) /\ Len(consumed) \in Nat
      /\ BoundKept /\ MutualExclusion /\ InOrder /\ FlagOverItem /\ NoSleeper
  BY DEF Inv, TypeOK
<1>1. ASSUME NEW t \in Threads, Lock(t) PROVE Inv'
  <2>1. /\ produced_nums' = produced_nums /\ notified' = notified /\ i' = i
        /\ consumed' = consumed /\ spurious' = spurious
        /\ mtx = Nobody /\ mtx' = t
        /\ t = Producer => i < MaxItems \/ produced_nums # <<>>
    BY <1>1 DEF Lock, Enter
  <2>2. /\ pc[t] \notin Holding
        /\ pc' = [pc EXCEPT ![t] = Inside(pc[t])] /\ Inside(pc[t]) \in Holding
    BY <1>1 DEF Lock, Enter, Inside
  <2>3. TypeOK'
    BY <1>0, <2>1, <2>2 DEF TypeOK
  <2>4. MutualExclusion'
    BY <1>0, <2>1, <2>2 DEF MutualExclusion
  <2>5. NoSleeper' /\ BoundKept'
    BY <1>0, <2>1, <2>2 DEF NoSleeper, BoundKept
  <2>6. InOrder' /\ FlagOverItem'
    BY <1>0, <2>1 DEF InOrder, FlagOverItem
  <2> QED BY <2>3, <2>4, <2>5, <2>6 DEF Inv
<1>2. ASSUME Produce PROVE Inv'
  <2>1. /\ IF i < MaxItems
           THEN produced_nums' = Append(produced_nums, i) /\ i' = i + 1
           ELSE produced_nums' = produced_nums /\ i' = i
        /\ pc[Producer] = "produce" /\ mtx' = Nobody
        /\ notified' = TRUE /\ consumed' = consumed /\ spurious' = spurious
        /\ pc' = [t \in Threads |-> IF t \in Asleep THEN "wake"
                                    ELSE IF t = Producer THEN "sleep" ELSE pc[t]]
    BY <1>2 DEF Produce, Push, Notified
  <2>2. TypeOK'
    <3>1. produced_nums' \in Seq(Nat) /\ i' \in 0..MaxItems
      <4>1. i \in Nat
        BY <1>0
      <4>2. CASE i < MaxItems
        <5>1. produced_nums \in Seq(Nat)
          BY <1>0
        <5>2. Append(produced_nums, i) \in Seq(Nat)
          BY <4>1, <5>1, AppendProperties
        <5>3. i + 1 \in 0..MaxItems
          BY <4>1, <4>2, BoundsAssumption
        <5> QED BY <2>1, <4>2, <5>2, <5>3
      <4>3. CASE ~(i < MaxItems)
        BY <1>0, <2>1, <4>3
      <4> QED BY <4>2, <4>3
    <3>2. pc' \in [Threads -> Holding \cup {"sleep", "lock", "asleep", "wake", "relock"}]
      BY <1>0, <2>1
    <3> QED BY <1>0, <2>1, <3>1, <3>2 DEF TypeOK
  <2>3. mtx = Producer
    BY <1>0, <2>1 DEF MutualExclusion
  <2>4. MutualExclusion'
    BY <1>0, <2>1, <2>3 DEF MutualExclusion, Asleep
  <2>5. InOrder'
    <3>1. CASE i < MaxItems
      <4> DEFINE all == consumed \o produced_nums
      <4>1. consumed \o Append(produced_nums, i) = Append(all, i)
        <5>1. i \in Nat /\ consumed \in Seq(Nat) /\ produced_nums \in Seq(Nat)
          BY <1>0
        <5> QED BY <5>1, AppendConcat, SMTT(40)
      <4>2. all \in Seq(Nat)
        BY <1>0, ConcatProperties
      <4>3. Len(all) = i /\ i \in Nat /\ \A k \in 1..i : all[k] = k - 1
        BY <1>0 DEF InOrder
      <4>4. /\ Len(Append(all, i)) = i + 1
            /\ \A k \in 1..i : Append(all, i)[k] = all[k]
            /\ Append(all, i)[i + 1] = i
        BY <4>2, <4>3, AppendProperties
      <4>5. \A k \in 1..(i + 1) : Append(all, i)[k] = k - 1
        BY <4>3, <4>4
      <4> QED BY <2>1, <3>1, <4>1, <4>4, <4>5 DEF InOrder
    <3>2. CASE ~(i < MaxItems)
      BY <1>0, <2>1, <3>2 DEF InOrder
    <3> QED BY <3>1, <3>2
  <2>6. NoSleeper' /\ BoundKept'
    BY <1>0, <2>1 DEF NoSleeper, BoundKept, Asleep
  <2>7. FlagOverItem'
    <3>1. CASE i < MaxItems
      BY <1>0, <2>1, <3>1, AppendProperties DEF FlagOverItem
    <3>2. CASE ~(i < MaxItems)
      BY <1>0, <2>1, <3>2 DEF FlagOverItem, BoundKept
    <3> QED BY <3>1, <3>2
  <2> QED BY <2>2, <2>4, <2>5, <2>6, <2>7 DEF Inv
<1>3. ASSUME NEW c \in Consumers, Wait(c) \/ SpuriousWakeup(c) \/ Pass(c) PROVE Inv'
  <2>1. /\ produced_nums' = produced_nums /\ notified' = notified /\ i' = i
        /\ consumed' = consumed /\ spurious' \in 0..MaxSpurious
    BY <1>0, <1>3 DEF Wait, SpuriousWakeup, Pass, Leave
  <2>2. \/ /\ pc[c] = "wait" /\ mtx' = Nobody
           /\ \E s \in {"asleep", "relock"} : pc' = [pc EXCEPT ![c] = s]
           /\ pc'[c] = "asleep" => ~notified
        \/ /\ pc[c] = "asleep" /\ mtx' = mtx /\ pc' = [pc EXCEPT ![c] = "wake"]
    BY <1>0, <1>3 DEF Wait, SpuriousWakeup, Pass, Leave
  <2>3. TypeOK'
    BY <1>0, <2>1, <2>2 DEF TypeOK
  <2>4. MutualExclusion'
    BY <1>0, <2>2 DEF MutualExclusion
  <2>5. NoSleeper' /\ BoundKept'
    BY <1>0, <2>1, <2>2 DEF NoSleeper, BoundKept
  <2>6. InOrder' /\ FlagOverItem'
    BY <1>0, <2>1 DEF InOrder, FlagOverItem
  <2> QED BY <2>3, <2>4, <2>5, <2>6 DEF Inv
<1>4. ASSUME NEW c \in Consumers, Consume(c) PROVE Inv'
  <2>1. /\ pc[c] = "consume" /\ pc' = [pc EXCEPT ![c] = "lock"] /\ mtx' = Nobody
        /\ i' = i /\ spurious' = spurious /\ notified' = FALSE
        /\ consumed' = consumed \o Popped /\ produced_nums' = Rest
    BY <1>4 DEF Consume, Pop
  <2>2. /\ consumed' \in Seq(Nat) /\ produced_nums' \in Seq(Nat)
        /\ consumed' \o produced_nums' = consumed \o produced_nums
    <3>1. CASE produced_nums = <<>>
      BY <1>0, <2>1, <3>1, ConcatEmptySeq DEF Popped, Rest
    <3>2. CASE produced_nums # <<>>
      <4>1. Popped = <<Head(produced_nums)>> /\ Rest = Tail(produced_nums)
        BY <3>2 DEF Popped, Rest
      <4> QED BY <1>0, <2>1, <3>2, <4>1, PopMoves
    <3> QED BY <3>1, <3>2
  <2>3. TypeOK'
    BY <1>0, <2>1, <2>2 DEF TypeOK
  <2>4. MutualExclusion'
    BY <1>0, <2>1 DEF MutualExclusion
  <2>5. NoSleeper' /\ FlagOverItem'
    BY <1>0, <2>1 DEF NoSleeper, FlagOverItem
  <2>6. BoundKept'
    <3>1. pc[Producer] # "produce"
      BY <1>0, <2>1 DEF MutualExclusion
    <3> QED BY <1>0, <2>1, <3>1 DEF BoundKept
  <2>7. InOrder'
    BY <1>0, <2>1, <2>2 DEF InOrder
  <2> QED BY <2>3, <2>4, <2>5, <2>6, <2>7 DEF Inv
<1>5. CASE UNCHANGED vars
  BY <1>0, <1>5
  DEF vars, Inv, TypeOK, BoundKept, MutualExclusion, InOrder, FlagOverItem, NoSleeper
<1> QED BY <1>1, <1>2, <1>3, <1>4, <1>5 DEF Next, ProducerStep, ConsumerStep, Bounded

LEMMA Invariant == Spec => []Inv
  BY InitInv, StepInv, PTL DEF Spec

\* However many consumers compete, items are consumed in the order of their
\* production, none twice and none skipped.
THEOREM ConsumedInOrder == Spec => []InOrder
<1>1. Inv => InOrder
  BY DEF Inv
<1> QED BY <1>1, Invariant, PTL

\* The variables keep their types for any number of consumers and items.
THEOREM TypeCorrect == Spec => []TypeOK
<1>1. Inv => TypeOK
  BY DEF Inv
<1> QED BY <1>1, Invariant, PTL

\* The flag is up only over a queue that is not empty, while every consumer is
\* awake ...
THEOREM FlagIsHonest == Spec => []FlagMeansItem
<1>1. Inv => FlagMeansItem
  BY DEF Inv, FlagOverItem, NoSleeper, FlagMeansItem
<1> QED BY <1>1, Invariant, PTL

\* ... and goes down only when an item is popped.
THEOREM LoweredByPopOnly == Spec => FlagLoweredByPop
<1>1. ASSUME Inv, [Next]_vars, notified, ~notified'
      PROVE  Len(consumed') = Len(consumed) + 1
  <2>1. PICK c \in Consumers : Consume(c)
    BY <1>1 DEF Next, ProducerStep, ConsumerStep, Lock, Enter, Produce, Wait, Pass, Leave,
                SpuriousWakeup, Bounded, vars
  <2>2. /\ produced_nums \in Seq(Nat) /\ produced_nums # <<>>
        /\ consumed \in Seq(Nat)
    BY <1>1 DEF Inv, TypeOK, FlagOverItem
  <2>3. consumed' = consumed \o <<Head(produced_nums)>>
    BY <2>1, <2>2 DEF Consume, Pop, Popped
  <2>4. Head(produced_nums) \in Nat
    BY <2>2
  <2>5. consumed' = Append(consumed, Head(produced_nums))
    BY <2>2, <2>3, <2>4, AppendIsConcat
  <2> QED BY <2>2, <2>4, <2>5, AppendProperties
<1>2. Inv /\ [Next]_vars => [notified /\ ~notified' => Len(consumed') = Len(consumed) + 1]_vars
  BY <1>1
<1> QED BY <1>2, Invariant, PTL DEF Spec, FlagLoweredByPop

==============================================================================
