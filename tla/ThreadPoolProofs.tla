--------------------------- MODULE ThreadPoolProofs ---------------------------
(***************************************************************************)
(* Theorems about ThreadPool, for any number of workers, clients and       *)
(* tasks.                                                                  *)
(***************************************************************************)
EXTENDS ThreadPool, SequenceTheorems, FiniteSetTheorems, TLAPS

------------------------------------------------------------------------------
(* What has left a queue and what is still in it, read as one sequence.     *)

\* Moving the head of a queue to the end of what has left it ...
LEMMA MoveHead ==
    ASSUME NEW S, NEW s \in Seq(S), NEW t \in Seq(S), t # <<>>
    PROVE  Append(s, Head(t)) \o Tail(t) = s \o t
  BY HeadTailProperties, AppendProperties, ConcatProperties, SeqEqual

\* ... and adding an element at the end of the queue.
LEMMA AppendConcat ==
    ASSUME NEW S, NEW s \in Seq(S), NEW t \in Seq(S), NEW e \in S
    PROVE  s \o Append(t, e) = Append(s \o t, e)
  BY AppendProperties, ConcatProperties, SeqEqual

USE DEF Threads, Ready, WorkerPC, EnqueuePC, OwnerPC, Return, TakeThis, PushThis, DestroyMembers

------------------------------------------------------------------------------
(***************************************************************************)
(* Types.                                                                  *)
(***************************************************************************)
\* The task a caller brings to the critical section of enqueue() is not empty:
\* TypeOK is not inductive without it.
Brings == \A t \in Threads : pc[t] \in {"enqLock", "enqCheck"} => arg[t] \in Tasks

TypeInv == TypeOK /\ Brings

LEMMA InitType == Init => TypeInv
<1> SUFFICES ASSUME Init PROVE TypeInv
  OBVIOUS
<1>1. /\ pc \in [Threads -> WorkerPC \cup OwnerPC \cup {"idle"}]
      /\ \A w \in Workers : pc[w] = "unborn"
      /\ \A c \in Clients : pc[c] = "idle"
      /\ pc[Owner] = "ctor"
  BY ThreadsDisjoint DEF Init
<1>2. tasks \in Seq(Tasks) /\ accepted \in Seq(Tasks) /\ started \in Seq(Tasks)
  BY DEF Init
<1>3. queue_mutex \in Threads \cup {NoThread} /\ stop \in BOOLEAN
  BY DEF Init
<1>4. /\ task \in [Workers -> Tasks \cup {NoTask}]
      /\ arg \in [Threads -> Tasks \cup {NoTask}]
  BY DEF Init
<1>5. /\ future \in [Tasks -> {"none", "pending", "refused", "broken"} \cup Ready]
      /\ joined \in SUBSET Workers
      /\ spurious \in 0..MaxSpurious
  BY BoundsAssumption DEF Init
<1>6. \A t \in Threads : pc[t] \in {"unborn", "idle", "ctor"}
  BY DEF Init
<1> QED BY <1>1, <1>2, <1>3, <1>4, <1>5, <1>6 DEF TypeOK, TypeInv, Brings

\* Where enqueue() returns to is a place the thread can be in.
LEMMA HomeType ==
    ASSUME NEW t \in Threads
    PROVE  /\ t \in Workers => Home(t) = "run"
           /\ t \in Clients => Home(t) = "idle"
           /\ t = Owner => Home(t) = "open"
           /\ Home(t) \in {"run", "idle", "open"}
  BY ThreadsDisjoint DEF Home

\* What a notification does to the threads.
Wakes(t, here) ==
    /\ pc'[t] = here
    /\ \A u \in Threads \ {t} :
           \/ pc'[u] = pc[u]
           \/ u \in Workers /\ pc[u] = "asleep" /\ pc'[u] = "wake"

LEMMA NotifyOneWakes ==
    ASSUME NEW t \in Threads, TypeOK, NotifyOne(t)
    PROVE  pc[t] = "notify" /\ Wakes(t, Home(t))
<1>1. CASE Goto(t, Home(t))
  BY <1>1 DEF NotifyOne, Goto, TypeOK, Wakes
<1>2. ASSUME NEW w \in Sleeping, pc' = [pc EXCEPT ![t] = Home(t), ![w] = "wake"]
      PROVE  Wakes(t, Home(t))
  <2>1. w \in Workers /\ pc[w] = "asleep" /\ w # t
    BY DEF NotifyOne, Sleeping
  <2> QED BY <1>2, <2>1 DEF TypeOK, Wakes
<1> QED BY <1>1, <1>2 DEF NotifyOne

LEMMA NotifyAllWakes ==
    ASSUME TypeOK, NotifyAll
    PROVE  pc[Owner] = "notifyAll" /\ Wakes(Owner, "join")
  BY ThreadsDisjoint DEF NotifyAll, Sleeping, TypeOK, Wakes

LEMMA CtorType == TypeInv /\ (CtorStep \/ SpawnThrows \/ UnwindTerminates) => TypeInv'
<1> SUFFICES ASSUME TypeInv, CtorStep \/ SpawnThrows \/ UnwindTerminates PROVE TypeInv'
  OBVIOUS
<1>1. CASE CtorDone
  BY <1>1, ThreadsDisjoint DEF CtorDone, Goto, TypeOK, TypeInv, Brings
<1>2. ASSUME NEW w \in Workers, Spawn(w) PROVE TypeInv'
  BY <1>2, ThreadsDisjoint DEF Spawn, Goto, TypeOK, TypeInv, Brings
<1>3. CASE SpawnThrows
  BY <1>3, ThreadsDisjoint DEF SpawnThrows, Goto, TypeOK, TypeInv, Brings
<1>4. CASE UnwindTerminates
  BY <1>4, ThreadsDisjoint DEF UnwindTerminates, Goto, TypeOK, TypeInv, Brings
<1> QED BY <1>1, <1>2, <1>3, <1>4 DEF CtorStep

LEMMA WorkerType ==
    ASSUME NEW w \in Workers, TypeInv, WorkerStep(w) \/ SpuriousWakeup(w)
    PROVE  TypeInv'
<1>1. CASE WorkerLock(w)
  BY <1>1, ThreadsDisjoint DEF WorkerLock, Goto, Lock, TypeOK, TypeInv, Brings
<1>2. CASE PredicateFalse(w)
  BY <1>2, ThreadsDisjoint DEF PredicateFalse, Goto, TypeOK, TypeInv, Brings
<1>3. CASE Block(w)
  BY <1>3, ThreadsDisjoint DEF Block, Goto, Unlock, TypeOK, TypeInv, Brings
<1>4. CASE SpuriousWakeup(w)
  BY <1>4, ThreadsDisjoint, BoundsAssumption DEF SpuriousWakeup, Goto, TypeOK, TypeInv, Brings
<1>5. CASE WorkerReturn(w)
  BY <1>5, ThreadsDisjoint DEF WorkerReturn, Goto, Unlock, TypeOK, TypeInv, Brings
<1>6. CASE Take(w)
  <2>1. Head(tasks) \in Tasks /\ Tail(tasks) \in Seq(Tasks)
    BY <1>6 DEF Take, TypeOK, TypeInv, Brings
  <2> QED BY <1>6, <2>1, ThreadsDisjoint DEF Take, Goto, Unlock, TypeOK, TypeInv, Brings
<1>7. CASE Finish(w)
  BY ZenonT(40), <1>7, ThreadsDisjoint DEF Finish, Goto, TypeOK, TypeInv, Brings
<1> QED BY <1>1, <1>2, <1>3, <1>4, <1>5, <1>6, <1>7 DEF WorkerStep

LEMMA CallType ==
    ASSUME NEW t \in Threads, TypeInv, CallStep(t) \/ \E f \in Tasks : Enqueue(t, f)
    PROVE  TypeInv'
<1>1. ASSUME NEW f \in Tasks, Enqueue(t, f) PROVE TypeInv'
  BY <1>1, ThreadsDisjoint DEF Enqueue, Goto, TypeOK, TypeInv, Brings
<1>2. CASE EnqueueLock(t)
  BY <1>2, ThreadsDisjoint DEF EnqueueLock, Goto, Lock, TypeOK, TypeInv, Brings
<1>3. CASE EnqueueThrow(t)
  BY <1>3, HomeType, ThreadsDisjoint DEF EnqueueThrow, Goto, Unlock, TypeOK, TypeInv, Brings
<1>4. CASE EnqueuePush(t)
  BY <1>4, ThreadsDisjoint DEF EnqueuePush, Goto, Unlock, TypeOK, TypeInv, Brings
<1>5. CASE NotifyOne(t)
  <2>1. pc[t] = "notify" /\ Wakes(t, Home(t))
    BY <1>5, NotifyOneWakes DEF TypeInv
  <2>2. pc' \in [Threads -> WorkerPC \cup EnqueuePC \cup OwnerPC \cup {"idle"}]
    BY ZenonT(40), <1>5, HomeType DEF NotifyOne, Goto, TypeInv, TypeOK
  <2>3. \A u \in Threads :
            \/ u = t /\ pc'[u] = Home(u)
            \/ pc'[u] = pc[u]
            \/ u \in Workers /\ pc'[u] = "wake"
    BY <2>1 DEF Wakes
  <2>4. UNCHANGED <<queue_mutex, tasks, stop, task, arg, future, joined, spurious, accepted, started>>
    BY <1>5 DEF NotifyOne
  <2>5. /\ \A w \in Workers : pc'[w] \in WorkerPC \cup EnqueuePC
        /\ \A c \in Clients : pc'[c] \in {"idle"} \cup EnqueuePC
        /\ pc'[Owner] \in OwnerPC \cup EnqueuePC
    BY <2>3, HomeType, ThreadsDisjoint DEF TypeInv, TypeOK
  <2>6. Brings'
    BY <2>3, <2>4, HomeType DEF TypeInv, Brings
  <2> QED BY <2>2, <2>4, <2>5, <2>6 DEF TypeOK, TypeInv
<1> QED BY <1>1, <1>2, <1>3, <1>4, <1>5 DEF CallStep

LEMMA DtorType == TypeInv /\ (Dtor \/ DtorStep) => TypeInv'
<1> SUFFICES ASSUME TypeInv, Dtor \/ DtorStep PROVE TypeInv'
  OBVIOUS
<1>1. CASE Dtor
  BY <1>1, ThreadsDisjoint DEF Dtor, Goto, TypeOK, TypeInv, Brings
<1>2. CASE DtorLock
  BY <1>2, ThreadsDisjoint DEF DtorLock, Goto, Lock, TypeOK, TypeInv, Brings
<1>3. CASE DtorStop
  BY <1>3, ThreadsDisjoint DEF DtorStop, Goto, Unlock, TypeOK, TypeInv, Brings
<1>4. CASE NotifyAll
  BY <1>4, ThreadsDisjoint DEF NotifyAll, Sleeping, TypeOK, TypeInv, Brings
<1>5. ASSUME NEW w \in Workers, Join(w) PROVE TypeInv'
  BY <1>5 DEF Join, TypeOK, TypeInv, Brings
<1>6. CASE Destroy
  BY <1>6, ThreadsDisjoint DEF Destroy, Goto, TypeOK, TypeInv, Brings
<1> QED BY <1>1, <1>2, <1>3, <1>4, <1>5, <1>6 DEF DtorStep

LEMMA StutterType == TypeInv /\ UNCHANGED vars => TypeInv'
  BY DEF vars, TypeOK, TypeInv, Brings

\* Every step of the pool is one of these.
LEMMA Steps ==
    ASSUME [Next]_vars
    PROVE  \/ CtorStep \/ SpawnThrows \/ UnwindTerminates
           \/ \E w \in Workers : WorkerStep(w) \/ SpuriousWakeup(w)
           \/ \E t \in Threads : CallStep(t) \/ \E f \in Tasks : Enqueue(t, f)
           \/ Dtor \/ DtorStep
           \/ UNCHANGED vars
  BY DEF Next, Halted

\* The variables keep their types: among others, that a worker never gets into
\* the code of the owner, and that the queue never holds an empty function.
THEOREM TypeCorrect == Spec => []TypeOK
<1>1. Init => TypeInv
  BY InitType
<1>2. TypeInv /\ [Next]_vars => TypeInv'
  BY Steps, CtorType, WorkerType, CallType, DtorType, StutterType
<1>3. TypeInv => TypeOK
  BY DEF TypeInv
<1> QED BY <1>1, <1>2, <1>3, PTL DEF Spec

------------------------------------------------------------------------------
(***************************************************************************)
(* The mutex.                                                              *)
(***************************************************************************)
\* tasks and stop are only touched by the holder of queue_mutex, and two
\* threads never hold it together.
LockDiscipline ==
    \A t \in Threads : pc[t] \in InCritical <=> queue_mutex = t

LockInv == TypeInv /\ LockDiscipline

LEMMA InitLock == Init => LockDiscipline
  BY ThreadsDisjoint DEF Init, LockDiscipline, InCritical

LEMMA LockStep == LockInv /\ [Next]_vars => LockDiscipline'
<1> SUFFICES ASSUME LockInv, [Next]_vars PROVE LockDiscipline'
  OBVIOUS
<1> USE ThreadsDisjoint DEF LockInv, TypeInv, TypeOK, LockDiscipline, InCritical, Goto
<1>1. CASE CtorDone \/ SpawnThrows \/ UnwindTerminates \/ Dtor
  BY <1>1 DEF CtorDone, SpawnThrows, UnwindTerminates, Dtor
<1>2. ASSUME NEW w \in Workers, Spawn(w) \/ SpuriousWakeup(w) \/ PredicateFalse(w) \/ Finish(w)
      PROVE  LockDiscipline'
  BY <1>2 DEF Spawn, SpuriousWakeup, PredicateFalse, Finish
<1>3. ASSUME NEW w \in Workers, WorkerLock(w) PROVE LockDiscipline'
  BY <1>3 DEF WorkerLock, Lock
<1>4. ASSUME NEW w \in Workers, Block(w) \/ WorkerReturn(w) \/ Take(w) PROVE LockDiscipline'
  <2>1. queue_mutex = w /\ queue_mutex' = NoThread
    BY <1>4 DEF Block, WorkerReturn, Take, Unlock
  <2>2. \E s \in {"asleep", "done", "run"} : pc' = [pc EXCEPT ![w] = s]
    BY <1>4 DEF Block, WorkerReturn, Take
  <2> QED BY <2>1, <2>2
<1>5. ASSUME NEW t \in Threads, NEW f \in Tasks, Enqueue(t, f) PROVE LockDiscipline'
  BY <1>5, HomeType DEF Enqueue, MayCall
<1>6. ASSUME NEW t \in Threads, EnqueueLock(t) PROVE LockDiscipline'
  BY <1>6 DEF EnqueueLock, Lock
<1>7. ASSUME NEW t \in Threads, EnqueueThrow(t) \/ EnqueuePush(t) PROVE LockDiscipline'
  <2>1. queue_mutex = t /\ queue_mutex' = NoThread
    BY <1>7 DEF EnqueueThrow, EnqueuePush, Unlock
  <2>2. \E s \in {"run", "idle", "open", "notify"} : pc' = [pc EXCEPT ![t] = s]
    BY <1>7, HomeType DEF EnqueueThrow, EnqueuePush
  <2> QED BY <2>1, <2>2
<1>8. ASSUME NEW t \in Threads, NotifyOne(t) PROVE LockDiscipline'
  <2>1. pc[t] = "notify" /\ Wakes(t, Home(t))
    BY <1>8, NotifyOneWakes
  <2> QED BY <1>8, <2>1, HomeType DEF NotifyOne, Wakes
<1>9. CASE DtorLock
  BY <1>9 DEF DtorLock, Lock
<1>10. CASE DtorStop
  BY <1>10 DEF DtorStop, Unlock
<1>11. CASE NotifyAll
  BY <1>11 DEF NotifyAll, Sleeping
<1>12. ASSUME NEW w \in Workers, Join(w) PROVE LockDiscipline'
  BY <1>12 DEF Join
<1>13. CASE Destroy
  BY <1>13 DEF Destroy
<1>14. CASE UNCHANGED vars
  BY <1>14 DEF vars
<1> QED
  BY Steps, <1>1, <1>2, <1>3, <1>4, <1>5, <1>6, <1>7, <1>8, <1>9, <1>10, <1>11, <1>12,
     <1>13, <1>14
  DEF CtorStep, WorkerStep, CallStep, DtorStep

LEMMA TypeStep == TypeInv /\ [Next]_vars => TypeInv'
  BY Steps, CtorType, WorkerType, CallType, DtorType, StutterType

LEMMA LockInvariant == Spec => []LockInv
<1>1. Init => LockInv
  BY InitType, InitLock DEF LockInv
<1>2. LockInv /\ [Next]_vars => LockInv'
  BY TypeStep, LockStep DEF LockInv
<1> QED BY <1>1, <1>2, PTL DEF Spec

\* Whatever the threads do, queue_mutex keeps their critical sections apart:
\* the queue and stop are only accessed by its holder.
THEOREM MutualExclusion == Spec => []LockDiscipline
<1>1. LockInv => LockDiscipline
  BY DEF LockInv
<1> QED BY <1>1, LockInvariant, PTL

------------------------------------------------------------------------------
(***************************************************************************)
(* The life of the pool.                                                   *)
(***************************************************************************)
\* What the owner's position says of the other threads ...
Phases ==
    /\ stop <=> pc[Owner] \in {"notifyAll", "join", "destroyed"}
    /\ pc[Owner] \notin {"ctor", "ctorThrew", "unwinding", "aborted"} =>
           \A w \in Workers : pc[w] # "unborn"
    /\ pc[Owner] = "ctorThrew" => \A w \in Workers : pc[w] = "unborn"
    /\ pc[Owner] \in {"ctor", "ctorThrew", "unwinding"} => \A c \in Clients : pc[c] = "idle"
    /\ OwnerJoinsClients /\ ~OwnerActive => \A c \in Clients : pc[c] = "idle"

\* ... and what a worker that goes to sleep, or returns, knows of the queue.
WorkerKnows ==
    /\ \A w \in Workers : pc[w] = "block" => ~stop /\ tasks = <<>>
    /\ \A w \in Workers : pc[w] = "done" => stop /\ tasks = <<>>
    /\ \A w \in joined : pc[w] = "done"
    /\ pc[Owner] = "destroyed" => joined = Workers

LifeInv == LockInv /\ Phases /\ WorkerKnows

LEMMA InitLife == Init => Phases /\ WorkerKnows
  BY ThreadsDisjoint DEF Init, Phases, WorkerKnows, OwnerActive

LEMMA PhasesStep == LifeInv /\ [Next]_vars => Phases'
<1> SUFFICES ASSUME LifeInv, [Next]_vars PROVE Phases'
  OBVIOUS
<1> USE ThreadsDisjoint DEF LifeInv, LockInv, TypeInv, TypeOK, Phases, OwnerActive, Goto
<1>1. CASE CtorDone \/ SpawnThrows \/ UnwindTerminates \/ Dtor
  BY <1>1 DEF CtorDone, SpawnThrows, UnwindTerminates, Dtor
<1>2. ASSUME NEW w \in Workers, Spawn(w) PROVE Phases'
  BY <1>2 DEF Spawn
<1>3. ASSUME NEW w \in Workers, WorkerStep(w) \/ SpuriousWakeup(w) PROVE Phases'
  <2>1. stop' = stop
    BY <1>3 DEF WorkerStep, WorkerLock, PredicateFalse, Block, WorkerReturn, Take, Finish,
                SpuriousWakeup
  <2>2. \E s \in WorkerPC \ {"unborn"} : pc' = [pc EXCEPT ![w] = s]
    BY <1>3 DEF WorkerStep, WorkerLock, PredicateFalse, Block, WorkerReturn, Take, Finish,
                SpuriousWakeup
  <2>3. pc[w] # "unborn"
    BY <1>3 DEF WorkerStep, WorkerLock, PredicateFalse, Block, WorkerReturn, Take, Finish,
                SpuriousWakeup
  <2> QED BY <2>1, <2>2, <2>3
<1>4. ASSUME NEW t \in Threads, NEW f \in Tasks, Enqueue(t, f) PROVE Phases'
  BY <1>4, HomeType DEF Enqueue, MayCall
<1>5. ASSUME NEW t \in Threads, EnqueueLock(t) PROVE Phases'
  BY <1>5 DEF EnqueueLock
<1>6. ASSUME NEW t \in Threads, EnqueueThrow(t) \/ EnqueuePush(t) PROVE Phases'
  BY <1>6, HomeType DEF EnqueueThrow, EnqueuePush
<1>7. ASSUME NEW t \in Threads, NotifyOne(t) PROVE Phases'
  <2>1. pc[t] = "notify" /\ Wakes(t, Home(t)) /\ stop' = stop
    BY <1>7, NotifyOneWakes DEF NotifyOne
  <2> QED BY <2>1, HomeType DEF Wakes
<1>8. CASE DtorLock \/ DtorStop
  BY <1>8 DEF DtorLock, DtorStop
<1>9. CASE NotifyAll
  <2>1. pc[Owner] = "notifyAll" /\ Wakes(Owner, "join") /\ stop' = stop
    BY <1>9, NotifyAllWakes DEF NotifyAll
  <2> QED BY <2>1 DEF Wakes
<1>10. ASSUME NEW w \in Workers, Join(w) PROVE Phases'
  BY <1>10 DEF Join
<1>11. CASE Destroy
  BY <1>11 DEF Destroy
<1>12. CASE UNCHANGED vars
  BY <1>12 DEF vars
<1> QED
  BY Steps, <1>1, <1>2, <1>3, <1>4, <1>5, <1>6, <1>7, <1>8, <1>9, <1>10, <1>11, <1>12
  DEF CtorStep, CallStep, DtorStep

LEMMA WorkerKnowsStep == LifeInv /\ [Next]_vars => WorkerKnows'
<1> SUFFICES ASSUME LifeInv, [Next]_vars PROVE WorkerKnows'
  OBVIOUS
<1> USE ThreadsDisjoint
    DEF LifeInv, LockInv, TypeInv, TypeOK, WorkerKnows, Goto
<1>1. CASE CtorDone \/ SpawnThrows \/ UnwindTerminates \/ Dtor \/ DtorLock
  BY <1>1 DEF CtorDone, SpawnThrows, UnwindTerminates, Dtor, DtorLock
<1>2. ASSUME NEW w \in Workers,
             Spawn(w) \/ SpuriousWakeup(w) \/ WorkerLock(w) \/ PredicateFalse(w)
             \/ Block(w) \/ WorkerReturn(w) \/ Finish(w)
      PROVE  WorkerKnows'
  BY <1>2 DEF Spawn, SpuriousWakeup, WorkerLock, PredicateFalse, Block, WorkerReturn, Finish
<1>3. ASSUME NEW w \in Workers, Take(w) PROVE WorkerKnows'
  BY <1>3 DEF Take, LockDiscipline, InCritical
<1>4. ASSUME NEW t \in Threads, NEW f \in Tasks, Enqueue(t, f) PROVE WorkerKnows'
  BY <1>4, HomeType DEF Enqueue, MayCall
<1>5. ASSUME NEW t \in Threads, EnqueueLock(t) PROVE WorkerKnows'
  BY <1>5 DEF EnqueueLock
<1>6. ASSUME NEW t \in Threads, EnqueueThrow(t) PROVE WorkerKnows'
  BY <1>6, HomeType DEF EnqueueThrow
<1>7. ASSUME NEW t \in Threads, EnqueuePush(t) PROVE WorkerKnows'
  BY <1>7 DEF EnqueuePush, LockDiscipline, InCritical, Phases
<1>8. ASSUME NEW t \in Threads, NotifyOne(t) PROVE WorkerKnows'
  <2>1. pc[t] = "notify" /\ Wakes(t, Home(t))
    BY <1>8, NotifyOneWakes
  <2> QED BY <1>8, <2>1, HomeType DEF NotifyOne, Wakes
<1>9. CASE DtorStop
  BY <1>9 DEF DtorStop, LockDiscipline, InCritical
<1>10. CASE NotifyAll
  <2>1. Wakes(Owner, "join")
    BY <1>10, NotifyAllWakes
  <2> QED BY <1>10, <2>1 DEF NotifyAll, Wakes
<1>11. ASSUME NEW w \in Workers, Join(w) PROVE WorkerKnows'
  BY <1>11 DEF Join
<1>12. CASE Destroy
  BY <1>12 DEF Destroy
<1>13. CASE UNCHANGED vars
  BY <1>13 DEF vars
<1> QED
  BY Steps, <1>1, <1>2, <1>3, <1>4, <1>5, <1>6, <1>7, <1>8, <1>9, <1>10, <1>11, <1>12, <1>13
  DEF CtorStep, WorkerStep, CallStep, DtorStep

LEMMA LifeInvariant == Spec => []LifeInv
<1>1. Init => LifeInv
  BY InitType, InitLock, InitLife DEF LifeInv, LockInv
<1>2. LifeInv /\ [Next]_vars => LifeInv'
  BY TypeStep, LockStep, PhasesStep, WorkerKnowsStep DEF LifeInv, LockInv
<1> QED BY <1>1, <1>2, PTL DEF Spec

\* While the pool is being constructed, and in a constructor that threw, nobody
\* has called enqueue(): the workers it has started found nothing to run.
Quiet ==
    pc[Owner] \in {"ctor", "ctorThrew", "unwinding"} =>
        /\ accepted = <<>> /\ tasks = <<>>
        /\ \A w \in Workers : pc[w] \in {"unborn", "lock", "check", "block", "asleep", "wake"}

QuietInv == LifeInv /\ Quiet

LEMMA QuietStep == QuietInv /\ [Next]_vars => Quiet'
<1> SUFFICES ASSUME QuietInv, [Next]_vars PROVE Quiet'
  OBVIOUS
<1> USE ThreadsDisjoint DEF QuietInv, LifeInv, LockInv, TypeInv, TypeOK, Phases, Quiet, Goto
<1>1. CASE CtorDone \/ SpawnThrows \/ UnwindTerminates \/ Dtor
  BY <1>1 DEF CtorDone, SpawnThrows, UnwindTerminates, Dtor
<1>2. ASSUME NEW w \in Workers, Spawn(w) PROVE Quiet'
  BY <1>2 DEF Spawn
<1>3. ASSUME NEW w \in Workers, WorkerStep(w) \/ SpuriousWakeup(w) PROVE Quiet'
  <2>1. CASE WorkerLock(w) \/ PredicateFalse(w) \/ Block(w) \/ SpuriousWakeup(w)
    BY <2>1 DEF WorkerLock, PredicateFalse, Block, SpuriousWakeup
  <2>2. CASE WorkerReturn(w) \/ Take(w) \/ Finish(w)
    BY <2>2 DEF WorkerReturn, Take, Finish
  <2> QED BY <1>3, <2>1, <2>2 DEF WorkerStep
<1>4. ASSUME NEW t \in Threads,
             EnqueueLock(t) \/ EnqueueThrow(t) \/ EnqueuePush(t)
             \/ \E f \in Tasks : Enqueue(t, f)
      PROVE  Quiet'
  <2>1. pc[t] \in {"enqLock", "enqCheck", "run", "idle", "open"}
    BY <1>4, HomeType DEF EnqueueLock, EnqueueThrow, EnqueuePush, Enqueue, MayCall
  <2>2. t = Owner => pc'[Owner] \notin {"ctor", "ctorThrew", "unwinding"}
    BY <1>4, HomeType DEF EnqueueLock, EnqueueThrow, EnqueuePush, Enqueue
  <2>3. t # Owner => pc'[Owner] = pc[Owner]
    BY <1>4 DEF EnqueueLock, EnqueueThrow, EnqueuePush, Enqueue
  <2>4. t # Owner => pc[Owner] \notin {"ctor", "ctorThrew", "unwinding"}
    BY <1>4, <2>1, HomeType DEF EnqueueLock, EnqueueThrow, EnqueuePush, Enqueue, MayCall, OwnerActive
  <2> QED BY <2>2, <2>3, <2>4
<1>5. ASSUME NEW t \in Threads, NotifyOne(t) PROVE Quiet'
  <2>1. pc[t] = "notify" /\ Wakes(t, Home(t))
    BY <1>5, NotifyOneWakes
  <2>2. pc'[Owner] \notin {"ctor", "ctorThrew", "unwinding"}
    BY <2>1, HomeType DEF Wakes
  <2> QED BY <2>2
<1>6. CASE DtorStep
  <2>1. CASE NotifyAll
    BY <2>1, NotifyAllWakes DEF Wakes
  <2>2. CASE DtorLock \/ DtorStop \/ Destroy
    BY <2>2 DEF DtorLock, DtorStop, Destroy
  <2>3. ASSUME NEW w \in Workers, Join(w) PROVE Quiet'
    BY <2>3 DEF Join
  <2> QED BY <1>6, <2>1, <2>2, <2>3 DEF DtorStep
<1>7. CASE UNCHANGED vars
  BY <1>7 DEF vars
<1> QED BY Steps, <1>1, <1>2, <1>3, <1>4, <1>5, <1>6, <1>7 DEF CtorStep, CallStep

LEMMA QuietInvariant == Spec => []QuietInv
<1>1. Init => QuietInv
  <2>1. Init => LifeInv
    BY InitType, InitLock, InitLife DEF LifeInv, LockInv
  <2> QED BY <2>1, ThreadsDisjoint DEF Init, Quiet, QuietInv
<1>2. QuietInv /\ [Next]_vars => QuietInv'
  BY QuietStep, TypeStep, LockStep, PhasesStep, WorkerKnowsStep DEF QuietInv, LifeInv, LockInv
<1> QED BY <1>1, <1>2, PTL DEF Spec

\* An owner that waits for its clients before it destroys the pool leaves
\* neither a worker nor a caller behind in it; and a constructor that throws
\* leaves none but workers without a task, when it ends the process.
THEOREM NobodyLeftInside ==
    ASSUME OwnerJoinsClients
    PROVE  Spec => []NoUseAfterDestroy
<1>1. QuietInv => NoUseAfterDestroy
  BY OwnerJoinsClients
  DEF QuietInv, Quiet, LifeInv, Phases, WorkerKnows, NoUseAfterDestroy, PoolDead, UsesPool,
      OwnerActive
<1> QED BY <1>1, QuietInvariant, PTL

------------------------------------------------------------------------------
(***************************************************************************)
(* The promises.                                                           *)
(***************************************************************************)
\* A thread holds a task exactly where the code has one in a local variable.
Holding ==
    /\ \A t \in Threads : arg[t] # NoTask <=> pc[t] \in {"enqLock", "enqCheck"}
    /\ \A w \in Workers : task[w] # NoTask <=> pc[w] \in {"run"} \cup EnqueuePC

\* No task is in two places ...
Apart ==
    /\ \A t, u \in Threads : arg[t] = arg[u] /\ arg[t] # NoTask => t = u
    /\ \A i, j \in 1..Len(tasks) : tasks[i] = tasks[j] => i = j
    /\ \A v, w \in Workers : task[v] = task[w] /\ task[v] # NoTask => v = w
    /\ \A t \in Threads, i \in 1..Len(tasks) : arg[t] # tasks[i]
    /\ \A t \in Threads, w \in Workers : arg[t] = task[w] => arg[t] = NoTask
    /\ \A w \in Workers, i \in 1..Len(tasks) : task[w] # tasks[i]

\* ... and the places hold the tasks whose futures are pending.
Pending ==
    /\ \A t \in Threads : arg[t] # NoTask => future[arg[t]] = "pending"
    /\ \A i \in 1..Len(tasks) : future[tasks[i]] = "pending"
    /\ \A w \in Workers : task[w] # NoTask => future[task[w]] = "pending"
    /\ \A f \in Tasks : future[f] = "pending" =>
           \/ \E t \in Threads : arg[t] = f
           \/ \E i \in 1..Len(tasks) : tasks[i] = f
           \/ \E w \in Workers : task[w] = f

PromiseInv == LifeInv /\ Holding /\ Apart /\ Pending

LEMMA InitPromise == Init => Holding /\ Apart /\ Pending
  BY ThreadsDisjoint DEF Init, Holding, Apart, Pending

\* The steps that leave every task where it is.
Unmoved == arg' = arg /\ tasks' = tasks /\ task' = task /\ future' = future

LEMMA StaySteps ==
    ASSUME LifeInv, [Next]_vars
    PROVE  \/ Unmoved /\ started' = started /\ accepted' = accepted
           \/ \E w \in Workers : Take(w) \/ Finish(w)
           \/ \E t \in Threads : EnqueueThrow(t) \/ EnqueuePush(t)
                                \/ \E f \in Tasks : Enqueue(t, f)
           \/ Destroy
  BY Steps
  DEF CtorStep, CtorDone, Spawn, SpawnThrows, UnwindTerminates, WorkerStep, WorkerLock, PredicateFalse, Block,
      SpuriousWakeup, WorkerReturn, CallStep, EnqueueLock, NotifyOne, Dtor, DtorStep,
      DtorLock, DtorStop, NotifyAll, Join, vars, Unmoved

LEMMA HoldingStep == PromiseInv /\ [Next]_vars => Holding'
<1> SUFFICES ASSUME PromiseInv, [Next]_vars PROVE Holding'
  OBVIOUS
<1> USE ThreadsDisjoint, NoTaskAssumption
    DEF PromiseInv, LifeInv, LockInv, TypeInv, TypeOK, Brings, Holding, Goto
<1>1. CASE CtorDone \/ SpawnThrows \/ UnwindTerminates \/ Dtor \/ DtorLock \/ DtorStop
  BY SMTT(40), <1>1 DEF CtorDone, SpawnThrows, UnwindTerminates, Dtor, DtorLock, DtorStop
<1>2. ASSUME NEW w \in Workers, Spawn(w) PROVE Holding'
  BY <1>2 DEF Spawn
<1>3. ASSUME NEW w \in Workers, WorkerStep(w) \/ SpuriousWakeup(w) PROVE Holding'
  <2>1. CASE WorkerLock(w) \/ PredicateFalse(w) \/ Block(w) \/ WorkerReturn(w)
             \/ SpuriousWakeup(w)
    <3>1. /\ pc[w] \notin {"run"} \cup EnqueuePC
          /\ \E s \in WorkerPC \ {"run"} : pc' = [pc EXCEPT ![w] = s]
          /\ arg' = arg /\ task' = task
      BY <2>1 DEF WorkerLock, PredicateFalse, Block, WorkerReturn, SpuriousWakeup
    <3> QED BY SMTT(40), <3>1
  <2>2. CASE Take(w)
    <3>1. Head(tasks) \in Tasks
      BY <2>2 DEF Take
    <3> QED BY <2>2, <3>1 DEF Take
  <2>3. CASE Finish(w)
    BY <2>3 DEF Finish
  <2> QED BY <1>3, <2>1, <2>2, <2>3 DEF WorkerStep
<1>4. ASSUME NEW t \in Threads, NEW f \in Tasks, Enqueue(t, f) PROVE Holding'
  BY <1>4, HomeType DEF Enqueue, MayCall
<1>5. ASSUME NEW t \in Threads, EnqueueLock(t) PROVE Holding'
  BY <1>5 DEF EnqueueLock
<1>6. ASSUME NEW t \in Threads, EnqueueThrow(t) \/ EnqueuePush(t) PROVE Holding'
  <2>1. /\ pc[t] = "enqCheck"
        /\ \E s \in {"notify", Home(t)} : pc' = [pc EXCEPT ![t] = s]
        /\ arg' = [arg EXCEPT ![t] = NoTask]
        /\ task' = task
    BY <1>6 DEF EnqueueThrow, EnqueuePush
  <2>2. /\ t \in Workers => pc'[t] \in {"run", "notify"}
        /\ pc'[t] \notin {"enqLock", "enqCheck"}
        /\ \A u \in Threads \ {t} : pc'[u] = pc[u]
    BY <2>1, HomeType
  <2> QED BY <2>1, <2>2
<1>7. ASSUME NEW t \in Threads, NotifyOne(t) PROVE Holding'
  <2>1. pc[t] = "notify" /\ Wakes(t, Home(t)) /\ arg' = arg /\ task' = task
    BY <1>7, NotifyOneWakes DEF NotifyOne
  <2> QED BY ZenonT(40), <2>1, HomeType DEF Wakes
<1>8. CASE NotifyAll
  <2>1. pc[Owner] = "notifyAll" /\ Wakes(Owner, "join") /\ arg' = arg /\ task' = task
    BY <1>8, NotifyAllWakes DEF NotifyAll
  <2> QED BY <2>1 DEF Wakes
<1>9. ASSUME NEW w \in Workers, Join(w) PROVE Holding'
  BY <1>9 DEF Join
<1>10. CASE Destroy
  BY <1>10 DEF Destroy
<1>11. CASE UNCHANGED vars
  BY <1>11 DEF vars
<1> QED
  BY Steps, <1>1, <1>2, <1>3, <1>4, <1>5, <1>6, <1>7, <1>8, <1>9, <1>10, <1>11
  DEF CtorStep, CallStep, DtorStep

LEMMA PlacesStep == PromiseInv /\ [Next]_vars => Apart' /\ Pending'
<1> SUFFICES ASSUME PromiseInv, [Next]_vars PROVE Apart' /\ Pending'
  OBVIOUS
<1>0. /\ arg \in [Threads -> Tasks \cup {NoTask}]
      /\ task \in [Workers -> Tasks \cup {NoTask}]
      /\ future \in [Tasks -> {"none", "pending", "refused", "broken"} \cup Ready]
      /\ tasks \in Seq(Tasks) /\ Len(tasks) \in Nat
      /\ \A i \in 1..Len(tasks) : tasks[i] \in Tasks /\ tasks[i] # NoTask
      /\ NoTask \notin Tasks
  BY NoTaskAssumption DEF PromiseInv, LifeInv, LockInv, TypeInv, TypeOK
<1>a. Apart
  BY DEF PromiseInv
<1>p. Pending
  BY DEF PromiseInv
<1>h. \A t \in Threads : arg[t] # NoTask <=> pc[t] \in {"enqLock", "enqCheck"}
  BY DEF PromiseInv, Holding
<1>w. \A w \in Workers : task[w] # NoTask <=> pc[w] \in {"run"} \cup EnqueuePC
  BY DEF PromiseInv, Holding
<1>1. CASE Unmoved
  BY <1>1, <1>a, <1>p DEF Unmoved, Apart, Pending
<1>2. ASSUME NEW w \in Workers, Take(w) PROVE Apart' /\ Pending'
  <2>1. /\ task' = [task EXCEPT ![w] = tasks[1]]
        /\ tasks # <<>>
        /\ tasks' = Tail(tasks)
        /\ arg' = arg /\ future' = future
    BY <1>0, <1>2 DEF Take
  <2>2. task[w] = NoTask
    BY <1>2, <1>w DEF Take
  <2>3. /\ Len(tasks) \in Nat \ {0} /\ Len(tasks') = Len(tasks) - 1
        /\ \A i \in 1..Len(tasks') : tasks'[i] = tasks[i + 1]
    BY <1>0, <2>1
  <2>4. \A i \in 1..Len(tasks) : i = 1 \/ \E j \in 1..Len(tasks') : tasks'[j] = tasks[i]
    <3> SUFFICES ASSUME NEW i \in 1..Len(tasks), i # 1
                 PROVE  i - 1 \in 1..Len(tasks') /\ tasks'[i - 1] = tasks[i]
      OBVIOUS
    <3> QED BY <2>3
  <2>5. \A i \in 1..Len(tasks') : i + 1 \in 1..Len(tasks) /\ i + 1 # 1
    BY <2>3
  <2>6. Apart'
    BY <1>0, <1>a, <2>1, <2>2, <2>3, <2>5 DEF Apart
  <2>7. ASSUME NEW f \in Tasks, future'[f] = "pending"
        PROVE  \/ \E t \in Threads : arg'[t] = f
               \/ \E i \in 1..Len(tasks') : tasks'[i] = f
               \/ \E v \in Workers : task'[v] = f
    <3>1. CASE \E t \in Threads : arg[t] = f
      BY <2>1, <3>1
    <3>2. CASE \E v \in Workers : task[v] = f
      BY <1>0, <2>1, <2>2, <3>2
    <3>3. ASSUME NEW i \in 1..Len(tasks), tasks[i] = f
          PROVE  f = tasks[1] \/ \E j \in 1..Len(tasks') : tasks'[j] = f
      BY <2>4, <3>3
    <3>4. CASE f = tasks[1]
      BY <1>0, <2>1, <3>4
    <3> QED BY <1>p, <2>1, <2>7, <3>1, <3>2, <3>3, <3>4 DEF Pending
  <2>8. /\ \A t \in Threads : arg'[t] # NoTask => future'[arg'[t]] = "pending"
        /\ \A i \in 1..Len(tasks') : future'[tasks'[i]] = "pending"
        /\ \A v \in Workers : task'[v] # NoTask => future'[task'[v]] = "pending"
    BY <1>0, <1>p, <2>1, <2>3, <2>5 DEF Pending
  <2>9. Pending'
    BY <2>7, <2>8 DEF Pending
  <2> QED BY <2>6, <2>9
<1>3. ASSUME NEW w \in Workers, Finish(w) PROVE Apart' /\ Pending'
  <2>1. task[w] \in Tasks /\ task[w] # NoTask
    BY <1>0, <1>3, <1>w DEF Finish
  <2>2. PICK r \in Ready : future' = [future EXCEPT ![task[w]] = r]
    BY <1>3 DEF Finish
  <2>3. task' = [task EXCEPT ![w] = NoTask] /\ arg' = arg /\ tasks' = tasks
    BY <1>3 DEF Finish
  <2>4. Apart'
    BY <1>0, <1>a, <2>1, <2>3 DEF Apart
  <2>5. Pending'
    BY SMTT(40), <1>0, <1>a, <1>p, <2>1, <2>2, <2>3 DEF Apart, Pending
  <2> QED BY <2>4, <2>5
<1>4. ASSUME NEW t \in Threads, NEW f \in Tasks, Enqueue(t, f) PROVE Apart' /\ Pending'
  <2>1. arg[t] = NoTask
    BY <1>4, <1>h, HomeType DEF Enqueue, MayCall
  <2>2. /\ future[f] = "none" /\ future' = [future EXCEPT ![f] = "pending"]
        /\ arg' = [arg EXCEPT ![t] = f]
        /\ tasks' = tasks /\ task' = task
    BY <1>4 DEF Enqueue
  <2>3. /\ \A u \in Threads : arg[u] # f
        /\ \A i \in 1..Len(tasks) : tasks[i] # f
        /\ \A v \in Workers : task[v] # f
    BY <1>0, <1>p, <2>2 DEF Pending
  <2>4. Apart'
    BY <1>0, <1>a, <2>1, <2>2, <2>3 DEF Apart
  <2>5. Pending'
    BY <1>0, <1>p, <2>1, <2>2, <2>3 DEF Pending
  <2> QED BY <2>4, <2>5
<1>5. ASSUME NEW t \in Threads, EnqueueThrow(t) PROVE Apart' /\ Pending'
  <2>1. arg[t] \in Tasks
    BY <1>0, <1>5, <1>h DEF EnqueueThrow
  <2>2. /\ future' = [future EXCEPT ![arg[t]] = "refused"]
        /\ arg' = [arg EXCEPT ![t] = NoTask]
        /\ tasks' = tasks /\ task' = task
    BY <1>5 DEF EnqueueThrow
  <2>3. Apart'
    BY <1>0, <1>a, <2>2 DEF Apart
  <2>4. Pending'
    BY <1>0, <1>a, <1>p, <2>1, <2>2 DEF Apart, Pending
  <2> QED BY <2>3, <2>4
<1>6. ASSUME NEW t \in Threads, EnqueuePush(t) PROVE Apart' /\ Pending'
  <2>1. arg[t] \in Tasks
    BY <1>0, <1>6, <1>h DEF EnqueuePush
  <2>2. /\ tasks' = Append(tasks, arg[t])
        /\ arg' = [arg EXCEPT ![t] = NoTask]
        /\ task' = task /\ future' = future
    BY <1>6 DEF EnqueuePush
  <2>3. /\ Len(tasks') = Len(tasks) + 1
        /\ \A i \in 1..Len(tasks) : tasks'[i] = tasks[i]
        /\ tasks'[Len(tasks) + 1] = arg[t]
    BY <1>0, <2>1, <2>2
  <2>4. 1..Len(tasks') = 1..Len(tasks) \cup {Len(tasks) + 1}
    BY <1>0, <2>3
  <2>5. Apart'
    BY <1>0, <1>a, <2>1, <2>2, <2>3, <2>4 DEF Apart
  <2>6. Pending'
    BY <1>0, <1>p, <2>1, <2>2, <2>3, <2>4 DEF Pending
  <2> QED BY <2>5, <2>6
<1>7. CASE Destroy
  <2>1. /\ tasks' = <<>> /\ arg' = arg /\ task' = task
        /\ future' = [f \in Tasks |-> IF \E i \in 1..Len(tasks) : tasks[i] = f
                                      THEN "broken" ELSE future[f]]
    BY <1>0, <1>7 DEF Destroy
  <2>2. 1..Len(tasks') = {}
    BY <2>1
  <2>3. Apart'
    BY <1>a, <2>1, <2>2 DEF Apart
  <2>4. /\ \A t \in Threads : arg[t] # NoTask => future'[arg[t]] = "pending"
        /\ \A v \in Workers : task[v] # NoTask => future'[task[v]] = "pending"
    BY <1>0, <1>a, <1>p, <2>1 DEF Apart, Pending
  <2>5. ASSUME NEW f \in Tasks, future'[f] = "pending"
        PROVE  (\E t \in Threads : arg[t] = f) \/ (\E v \in Workers : task[v] = f)
    <3>1. future[f] = "pending" /\ ~\E i \in 1..Len(tasks) : tasks[i] = f
      BY <1>0, <2>1, <2>5
    <3> QED BY <1>p, <3>1 DEF Pending
  <2>6. Pending'
    BY <2>1, <2>2, <2>4, <2>5 DEF Pending
  <2> QED BY <2>3, <2>6
<1> QED BY StaySteps, <1>1, <1>2, <1>3, <1>4, <1>5, <1>6, <1>7 DEF PromiseInv

LEMMA PromiseInvariant == Spec => []PromiseInv
<1>1. Init => PromiseInv
  BY InitType, InitLock, InitLife, InitPromise DEF PromiseInv, LifeInv, LockInv
<1>2. PromiseInv /\ [Next]_vars => PromiseInv'
  BY TypeStep, LockStep, PhasesStep, WorkerKnowsStep, HoldingStep, PlacesStep
  DEF PromiseInv, LifeInv, LockInv
<1> QED BY <1>1, <1>2, PTL DEF Spec

\* A future is pending exactly as long as its task is with one caller, in the
\* queue once, or on one worker: no promise is lost on the way, or kept twice.
THEOREM PromisesKept == Spec => []OnePlacePerPromise
<1>1. ASSUME PromiseInv PROVE OnePlacePerPromise
  <2> SUFFICES ASSUME NEW f \in Tasks
               PROVE  IF future[f] = "pending" THEN \E h \in Holders(f) : Holders(f) = {h}
                      ELSE Holders(f) = {}
    BY DEF OnePlacePerPromise
  <2> DEFINE Callers == {u \in Threads : arg[u] = f}
             Places == {j \in 1..Len(tasks) : tasks[j] = f}
             Runners == {v \in Workers : task[v] = f}
  <2>0. DOMAIN tasks = 1..Len(tasks) /\ f # NoTask
    BY <1>1, NoTaskAssumption DEF PromiseInv, LifeInv, LockInv, TypeInv, TypeOK
  <2>1. Holders(f) = {<<"caller", t>> : t \in Callers} \cup {<<"queue", i>> : i \in Places}
                     \cup {<<"worker", w>> : w \in Runners}
    BY <2>0 DEF Holders
  <2>2. CASE future[f] # "pending"
    <3>1. Callers = {} /\ Places = {} /\ Runners = {}
      BY <1>1, <2>0, <2>2 DEF PromiseInv, Pending
    <3> QED BY <2>1, <2>2, <3>1
  <2>3. CASE future[f] = "pending"
    <3>1. /\ \A t, u \in Callers : t = u
          /\ \A i, j \in Places : i = j
          /\ \A v, w \in Runners : v = w
          /\ Callers = {} \/ Places = {}
          /\ Callers = {} \/ Runners = {}
          /\ Places = {} \/ Runners = {}
      BY <1>1, <2>0 DEF PromiseInv, Apart
    <3>2. Callers # {} \/ Places # {} \/ Runners # {}
      BY <1>1, <2>3 DEF PromiseInv, Pending
    <3>3. CASE Callers # {}
      <4>1. PICK t \in Callers : Callers = {t} /\ Places = {} /\ Runners = {}
        BY <3>1, <3>3
      <4>2. Holders(f) = {<<"caller", t>>}
        BY <2>1, <4>1
      <4> QED BY <2>3, <4>2
    <3>4. CASE Places # {}
      <4>1. PICK i \in Places : Places = {i} /\ Callers = {} /\ Runners = {}
        BY <3>1, <3>4
      <4>2. Holders(f) = {<<"queue", i>>}
        BY <2>1, <4>1
      <4> QED BY <2>3, <4>2
    <3>5. CASE Runners # {}
      <4>1. PICK w \in Runners : Runners = {w} /\ Callers = {} /\ Places = {}
        BY <3>1, <3>5
      <4>2. Holders(f) = {<<"worker", w>>}
        BY <2>1, <4>1
      <4> QED BY <2>3, <4>2
    <3> QED BY <3>2, <3>3, <3>4, <3>5
  <2> QED BY <2>2, <2>3
<1> QED BY <1>1, PromiseInvariant, PTL

------------------------------------------------------------------------------
(***************************************************************************)
(* The history of a pool with workers.                                     *)
(***************************************************************************)
History ==
    /\ started \o tasks = accepted
    /\ \A i, j \in 1..Len(accepted) : accepted[i] = accepted[j] => i = j
    /\ \A t \in Threads, i \in 1..Len(accepted) : arg[t] # accepted[i]
    /\ \A i \in 1..Len(accepted) : future[accepted[i]] \in {"pending"} \cup Ready
    /\ \A f \in Tasks : future[f] # "broken"

HistoryInv == PromiseInv /\ History

LEMMA InitHistory == Init => History
  BY NoTaskAssumption DEF Init, History

\* The destructor of a pool with workers finds the queue empty.
LEMMA DestroyDrained ==
    ASSUME Workers # {}, LifeInv, Destroy
    PROVE  tasks = <<>> /\ tasks' = tasks /\ future' = future
<1>1. tasks = <<>>
  BY DEF LifeInv, WorkerKnows, Destroy
<1>2. future \in [Tasks -> {"none", "pending", "refused", "broken"} \cup Ready]
  BY DEF LifeInv, LockInv, TypeInv, TypeOK
<1> QED BY <1>1, <1>2 DEF Destroy

LEMMA HistoryStep ==
    ASSUME Workers # {}, HistoryInv, [Next]_vars
    PROVE  History'
<1>0. /\ arg \in [Threads -> Tasks \cup {NoTask}]
      /\ task \in [Workers -> Tasks \cup {NoTask}]
      /\ future \in [Tasks -> {"none", "pending", "refused", "broken"} \cup Ready]
      /\ tasks \in Seq(Tasks) /\ started \in Seq(Tasks) /\ accepted \in Seq(Tasks)
      /\ Len(accepted) \in Nat
      /\ \A i \in 1..Len(accepted) : accepted[i] \in Tasks /\ accepted[i] # NoTask
      /\ NoTask \notin Tasks
  BY NoTaskAssumption DEF HistoryInv, PromiseInv, LifeInv, LockInv, TypeInv, TypeOK
<1>a. History /\ Pending
  BY DEF HistoryInv, PromiseInv
<1>h. \A t \in Threads : arg[t] # NoTask <=> pc[t] \in {"enqLock", "enqCheck"}
  BY DEF HistoryInv, PromiseInv, Holding
<1>1. CASE Unmoved /\ started' = started /\ accepted' = accepted
  BY <1>1, <1>a DEF Unmoved, History
<1>2. ASSUME NEW w \in Workers, Take(w) PROVE History'
  <2>1. /\ tasks # <<>> /\ tasks' = Tail(tasks) /\ started' = Append(started, Head(tasks))
        /\ accepted' = accepted /\ arg' = arg /\ future' = future
    BY <1>2 DEF Take
  <2>2. started' \o tasks' = accepted'
    <3>1. Append(started, Head(tasks)) \o Tail(tasks) = started \o tasks
      BY <1>0, <2>1, MoveHead
    <3> QED BY <1>a, <2>1, <3>1 DEF History
  <2> QED BY <1>a, <2>1, <2>2 DEF History
<1>3. ASSUME NEW w \in Workers, Finish(w) PROVE History'
  <2>1. PICK r \in Ready : future' = [future EXCEPT ![task[w]] = r]
    BY <1>3 DEF Finish
  <2> QED BY <1>0, <1>3, <1>a, <2>1 DEF Finish, History
<1>4. ASSUME NEW t \in Threads, NEW f \in Tasks, Enqueue(t, f) PROVE History'
  <2>1. /\ future[f] = "none" /\ future' = [future EXCEPT ![f] = "pending"]
        /\ arg' = [arg EXCEPT ![t] = f]
        /\ UNCHANGED <<tasks, started, accepted>>
    BY <1>4 DEF Enqueue
  <2>2. \A i \in 1..Len(accepted) : accepted[i] # f
    BY <1>a, <2>1 DEF History
  <2> QED BY <1>0, <1>a, <2>1, <2>2 DEF History
<1>5. ASSUME NEW t \in Threads, EnqueueThrow(t) PROVE History'
  <2>1. /\ future' = [future EXCEPT ![arg[t]] = "refused"]
        /\ arg' = [arg EXCEPT ![t] = NoTask]
        /\ UNCHANGED <<tasks, started, accepted>>
    BY <1>5 DEF EnqueueThrow
  <2> QED BY <1>0, <1>a, <2>1 DEF History
<1>6. ASSUME NEW t \in Threads, EnqueuePush(t) PROVE History'
  <2>1. arg[t] \in Tasks /\ future[arg[t]] = "pending"
    BY <1>0, <1>6, <1>a, <1>h DEF EnqueuePush, Pending
  <2>2. /\ tasks' = Append(tasks, arg[t]) /\ accepted' = Append(accepted, arg[t])
        /\ arg' = [arg EXCEPT ![t] = NoTask]
        /\ started' = started /\ future' = future
    BY <1>6 DEF EnqueuePush
  <2>3. started' \o tasks' = accepted'
    BY <1>0, <1>a, <2>1, <2>2, AppendConcat DEF History
  <2>4. /\ Len(accepted') = Len(accepted) + 1
        /\ \A i \in 1..Len(accepted) : accepted'[i] = accepted[i]
        /\ accepted'[Len(accepted) + 1] = arg[t]
        /\ 1..Len(accepted') = 1..Len(accepted) \cup {Len(accepted) + 1}
    BY <1>0, <2>1, <2>2
  <2>5. \A u \in Threads \ {t} : arg[u] = arg[t] => arg[u] = NoTask
    BY <1>0, <2>1 DEF HistoryInv, PromiseInv, Apart
  <2>6. \A u \in Threads, i \in 1..Len(accepted') : arg'[u] # accepted'[i]
    BY <1>0, <1>a, <2>1, <2>2, <2>4, <2>5 DEF History
  <2> QED BY <1>0, <1>a, <2>1, <2>2, <2>3, <2>4, <2>6 DEF History
<1>7. CASE Destroy
  <2>1. tasks' = tasks /\ future' = future
    BY <1>7, DestroyDrained DEF HistoryInv, PromiseInv
  <2> QED BY ZenonT(40), <1>7, <1>a, <2>1 DEF Destroy, History
<1>8. \/ Unmoved /\ started' = started /\ accepted' = accepted
      \/ \E w \in Workers : Take(w) \/ Finish(w)
      \/ \E t \in Threads : EnqueueThrow(t) \/ EnqueuePush(t)
                           \/ \E f \in Tasks : Enqueue(t, f)
      \/ Destroy
  BY StaySteps DEF HistoryInv, PromiseInv
<1> QED BY <1>1, <1>2, <1>3, <1>4, <1>5, <1>6, <1>7, <1>8

LEMMA HistoryInvariant == ASSUME Workers # {} PROVE Spec => []HistoryInv
<1>1. Init => HistoryInv
  BY InitType, InitLock, InitLife, InitPromise, InitHistory
  DEF HistoryInv, PromiseInv, LifeInv, LockInv
<1>2. HistoryInv /\ [Next]_vars => HistoryInv'
  BY Workers # {}, HistoryStep, TypeStep, LockStep, PhasesStep, WorkerKnowsStep,
     HoldingStep, PlacesStep
  DEF HistoryInv, PromiseInv, LifeInv, LockInv
<1> QED BY <1>1, <1>2, PTL DEF Spec

\* Tasks are started in the order of the pushes, each one once.
THEOREM FirstInFirstOut == ASSUME Workers # {} PROVE Spec => []StartedInOrder
<1>1. HistoryInv => StartedInOrder
  BY DEF HistoryInv, PromiseInv, LifeInv, LockInv, TypeInv, TypeOK, History, StartedInOrder
<1> QED BY <1>1, HistoryInvariant, PTL

\* When ~ThreadPool() returns and no caller was left inside, every accepted task
\* has run and no future is left pending or broken.
THEOREM DestructorDrains ==
    ASSUME Workers # {}, OwnerJoinsClients
    PROVE  Spec => []DrainedWhenDestroyed
<1>1. ASSUME HistoryInv, pc[Owner] = "destroyed"
      PROVE  \A f \in Tasks : future[f] \notin {"pending", "broken"}
  <2>1. /\ \A w \in Workers : pc[w] = "done"
        /\ \A c \in Clients : pc[c] = "idle"
        /\ tasks = <<>>
    BY <1>1, OwnerJoinsClients, Workers # {}
    DEF HistoryInv, PromiseInv, LifeInv, Phases, WorkerKnows, OwnerActive
  <2>2. /\ \A t \in Threads : arg[t] = NoTask
        /\ \A w \in Workers : task[w] = NoTask
    BY <1>1, <2>1 DEF HistoryInv, PromiseInv, Holding
  <2> QED BY <1>1, <2>1, <2>2, NoTaskAssumption
          DEF HistoryInv, PromiseInv, Pending, History
<1>2. HistoryInv => DrainedWhenDestroyed
  BY <1>1
  DEF HistoryInv, PromiseInv, LifeInv, LockInv, TypeInv, TypeOK, History, DrainedWhenDestroyed
<1> QED BY <1>2, HistoryInvariant, PTL

------------------------------------------------------------------------------
(***************************************************************************)
(* Wakeups.                                                                *)
(***************************************************************************)
WakeupInv == LifeInv /\ NoLostWakeup

LEMMA Counts ==
    /\ IsFiniteSet(Awake) /\ Cardinality(Awake) \in Nat
    /\ IsFiniteSet(Notifying) /\ Cardinality(Notifying) \in Nat
<1>1. IsFiniteSet(Threads)
  BY WorkersFinite, FS_Union, FS_Singleton
<1>2. Awake \in SUBSET Threads /\ Notifying \in SUBSET Threads
  BY DEF Awake, Notifying
<1> QED BY <1>1, <1>2, FS_Subset, FS_CardinalityType

LEMMA AddOne ==
    ASSUME NEW S, IsFiniteSet(S), NEW x, x \notin S
    PROVE  IsFiniteSet(S \cup {x}) /\ Cardinality(S \cup {x}) = Cardinality(S) + 1
  BY FS_AddElement

LEMMA DropOne ==
    ASSUME NEW S, IsFiniteSet(S), NEW x \in S
    PROVE  IsFiniteSet(S \ {x}) /\ Cardinality(S \ {x}) = Cardinality(S) - 1
  BY FS_RemoveElement

LEMMA Grows ==
    ASSUME NEW S, NEW T, S \subseteq T, IsFiniteSet(T)
    PROVE  Cardinality(S) <= Cardinality(T)
  BY FS_Subset

LEMMA WakeupStep == WakeupInv /\ [Next]_vars => NoLostWakeup'
<1> SUFFICES ASSUME WakeupInv, [Next]_vars PROVE NoLostWakeup'
  OBVIOUS
<1>0. /\ IsFiniteSet(Awake) /\ Cardinality(Awake) \in Nat
      /\ IsFiniteSet(Notifying) /\ Cardinality(Notifying) \in Nat
      /\ IsFiniteSet(Awake') /\ Cardinality(Awake') \in Nat
      /\ IsFiniteSet(Notifying') /\ Cardinality(Notifying') \in Nat
  <2>1. IsFiniteSet(Threads)
    BY WorkersFinite, FS_Union, FS_Singleton
  <2>2. Awake' \in SUBSET Threads /\ Notifying' \in SUBSET Threads
    BY DEF Awake, Notifying
  <2> QED BY <2>1, <2>2, Counts, FS_Subset, FS_CardinalityType
<1>t. /\ pc \in [Threads -> WorkerPC \cup EnqueuePC \cup OwnerPC \cup {"idle"}]
      /\ \A w \in Workers : pc[w] \in WorkerPC \cup EnqueuePC
      /\ \A c \in Clients : pc[c] \in {"idle"} \cup EnqueuePC
      /\ tasks \in Seq(Tasks) /\ Len(tasks) \in Nat
      /\ TypeOK
  BY DEF WakeupInv, LifeInv, LockInv, TypeInv, TypeOK
<1>w. /\ \A w \in Workers : pc[w] = "block" => ~stop /\ tasks = <<>>
      /\ stop <=> pc[Owner] \in {"notifyAll", "join", "destroyed"}
  BY DEF WakeupInv, LifeInv, WorkerKnows, Phases
<1>n. NoLostWakeup
  BY DEF WakeupInv
\* A step that neither adds a sleeper nor a task, nor takes a credit away, is safe.
<1>k. ASSUME Sleeping' \subseteq Sleeping, Len(tasks') = Len(tasks),
             Awake \subseteq Awake', Notifying \subseteq Notifying',
             stop' = stop, pc'[Owner] = pc[Owner] \/ pc[Owner] # "notifyAll"
      PROVE  NoLostWakeup'
  <2>1. Cardinality(Awake) <= Cardinality(Awake')
    BY <1>0, <1>k, Grows
  <2>2. Cardinality(Notifying) <= Cardinality(Notifying')
    BY <1>0, <1>k, Grows
  <2> QED BY <1>0, <1>t, <1>n, <1>k, <2>1, <2>2 DEF NoLostWakeup
<1>1. CASE CtorDone \/ SpawnThrows \/ UnwindTerminates \/ Dtor \/ DtorLock
  <2>1. /\ \A t \in Threads \ {Owner} : pc'[t] = pc[t]
        /\ pc[Owner] \in {"ctor", "unwinding", "open", "dtorLock"}
        /\ pc'[Owner] \in {"open", "ctorThrew", "unwinding", "aborted", "dtorLock", "dtorStop"}
        /\ stop' = stop /\ tasks' = tasks
    BY <1>1, <1>t DEF CtorDone, SpawnThrows, UnwindTerminates, Dtor, DtorLock, Goto
  <2>2. Sleeping' = Sleeping /\ Awake' = Awake /\ Notifying' = Notifying
    BY <2>1, ThreadsDisjoint DEF Sleeping, Awake, Notifying
  <2> QED BY <1>k, <2>1, <2>2
<1>2. ASSUME NEW w \in Workers,
             Spawn(w) \/ SpuriousWakeup(w) \/ WorkerLock(w) \/ Finish(w)
      PROVE  NoLostWakeup'
  <2>1. /\ pc[w] \in {"unborn", "asleep", "lock", "wake", "run"}
        /\ pc'[w] \in {"lock", "check", "wake"}
        /\ \A t \in Threads \ {w} : pc'[t] = pc[t]
        /\ stop' = stop /\ tasks' = tasks
    BY <1>2, <1>t DEF Spawn, SpuriousWakeup, WorkerLock, Finish, Goto
  <2>2. Sleeping' \subseteq Sleeping /\ Awake \subseteq Awake' /\ Notifying \subseteq Notifying'
    BY <2>1 DEF Sleeping, Awake, Notifying
  <2> QED BY <1>k, <2>1, <2>2, ThreadsDisjoint
\* Nobody sleeps, or is about to, over a queue that is not empty.
<1>3. ASSUME NEW w \in Workers, PredicateFalse(w) \/ Block(w) PROVE NoLostWakeup'
  <2>1. tasks' = <<>> /\ ~stop'
    BY <1>3, <1>w DEF PredicateFalse, Block
  <2>2. Len(tasks') = 0
    BY <2>1
  <2> QED BY <1>0, <2>1, <2>2 DEF NoLostWakeup
<1>4. ASSUME NEW w \in Workers, WorkerReturn(w) PROVE NoLostWakeup'
  <2>1. /\ pc[w] = "check" /\ pc'[w] = "done" /\ \A t \in Threads \ {w} : pc'[t] = pc[t]
        /\ stop' = stop /\ tasks' = <<>>
    BY <1>4, <1>t DEF WorkerReturn, Goto
  <2>2. Sleeping' = Sleeping /\ Len(tasks') = 0
    BY <2>1 DEF Sleeping
  <2> QED BY <1>0, <1>n, <2>1, <2>2, ThreadsDisjoint DEF NoLostWakeup
<1>5. ASSUME NEW w \in Workers, Take(w) PROVE NoLostWakeup'
  <2>1. /\ pc[w] = "check" /\ pc'[w] = "run" /\ \A t \in Threads \ {w} : pc'[t] = pc[t]
        /\ stop' = stop /\ Len(tasks') = Len(tasks) - 1
    BY <1>5, <1>t DEF Take, Goto
  <2>2. Sleeping' = Sleeping /\ Notifying' = Notifying /\ Awake' = Awake \ {w} /\ w \in Awake
    BY <2>1 DEF Sleeping, Awake, Notifying
  <2>3. Cardinality(Awake') = Cardinality(Awake) - 1
    BY <1>0, <2>2, DropOne
  <2> QED BY SMTT(40), <1>0, <1>t, <1>n, <2>1, <2>2, <2>3, ThreadsDisjoint DEF NoLostWakeup
<1>6. ASSUME NEW t \in Threads,
             EnqueueLock(t) \/ EnqueueThrow(t) \/ \E f \in Tasks : Enqueue(t, f)
      PROVE  NoLostWakeup'
  <2>1. /\ pc[t] \in {"enqLock", "enqCheck", "run", "idle", "open"}
        /\ pc'[t] \in {"enqLock", "enqCheck", "run", "idle", "open"}
        /\ \A u \in Threads \ {t} : pc'[u] = pc[u]
        /\ stop' = stop /\ tasks' = tasks
    BY <1>6, <1>t, HomeType DEF EnqueueLock, EnqueueThrow, Enqueue, MayCall, Goto
  <2>2. Sleeping' = Sleeping /\ Awake' = Awake /\ Notifying' = Notifying
    BY <2>1 DEF Sleeping, Awake, Notifying
  <2> QED BY <1>k, <2>1, <2>2
\* The caller that added a task owes a notification.
<1>7. ASSUME NEW t \in Threads, EnqueuePush(t) PROVE NoLostWakeup'
  <2>1. /\ pc[t] = "enqCheck" /\ pc'[t] = "notify" /\ \A u \in Threads \ {t} : pc'[u] = pc[u]
        /\ ~stop' /\ Len(tasks') = Len(tasks) + 1
    BY <1>7, <1>t DEF EnqueuePush, Goto
  <2>2. /\ Sleeping' = Sleeping /\ Awake' = Awake
        /\ Notifying' = Notifying \cup {t} /\ t \notin Notifying
    BY <2>1 DEF Sleeping, Awake, Notifying
  <2>3. Cardinality(Notifying') = Cardinality(Notifying) + 1
    BY <1>0, <2>2, AddOne
  <2> QED BY <1>0, <1>t, <1>n, <2>1, <2>2, <2>3 DEF NoLostWakeup
\* The notification is paid for by the sleeper it wakes.
<1>8. ASSUME NEW t \in Threads, NotifyOne(t) PROVE NoLostWakeup'
  <2>1. CASE Sleeping = {}
    <3>1. pc[t] = "notify" /\ Wakes(t, Home(t))
      BY <1>8, <1>t, NotifyOneWakes
    <3>2. Sleeping' = {}
      BY <2>1, <3>1, HomeType DEF Sleeping, Wakes
    <3> QED BY <3>2 DEF NoLostWakeup
  <2>2. ASSUME NEW w \in Sleeping, pc' = [pc EXCEPT ![t] = Home(t), ![w] = "wake"]
        PROVE  NoLostWakeup'
    <3>1. w \in Workers /\ pc[w] = "asleep" /\ pc[t] = "notify" /\ w # t
      BY <1>8, <2>2 DEF NotifyOne, Sleeping
    <3>2. /\ pc'[w] = "wake" /\ pc'[t] \in {"run", "idle", "open"}
          /\ \A u \in Threads \ {t, w} : pc'[u] = pc[u]
      BY <1>t, <2>2, <3>1, HomeType
    <3>3. /\ Sleeping' \subseteq Sleeping
          /\ Awake' = Awake \cup {w} /\ w \notin Awake
          /\ Notifying' = Notifying \ {t} /\ t \in Notifying
      BY <3>1, <3>2 DEF Sleeping, Awake, Notifying
    <3>4. /\ Cardinality(Awake') = Cardinality(Awake) + 1
          /\ Cardinality(Notifying') = Cardinality(Notifying) - 1
      BY <1>0, <3>3, AddOne, DropOne
    <3>5. stop' = stop /\ tasks' = tasks
      BY <1>8 DEF NotifyOne
    <3>6. stop => pc'[Owner] = pc[Owner]
      BY <1>w, <3>1, <3>2, ThreadsDisjoint
    <3> QED BY <1>0, <1>t, <1>n, <2>2, <3>3, <3>4, <3>5, <3>6 DEF NoLostWakeup
  <2> QED BY <1>8, <2>1, <2>2 DEF NotifyOne
<1>9. CASE DtorStop
  <2>1. /\ \A t \in Threads \ {Owner} : pc'[t] = pc[t]
        /\ pc[Owner] = "dtorStop" /\ pc'[Owner] = "notifyAll"
        /\ tasks' = tasks
    BY <1>9, <1>t DEF DtorStop, Goto
  <2>2. Sleeping' = Sleeping /\ Awake' = Awake /\ Notifying' = Notifying
    BY <2>1, ThreadsDisjoint DEF Sleeping, Awake, Notifying
  <2> QED BY <1>n, <2>1, <2>2 DEF NoLostWakeup
<1>10. CASE NotifyAll
  <2>1. Sleeping' = {}
    BY <1>10, ThreadsDisjoint DEF NotifyAll, Sleeping
  <2> QED BY <2>1 DEF NoLostWakeup
<1>11. CASE (\E w \in Workers : Join(w)) \/ UNCHANGED vars
  <2>1. pc' = pc /\ tasks' = tasks /\ stop' = stop
    BY <1>11 DEF Join, vars
  <2>2. Sleeping' = Sleeping /\ Awake' = Awake /\ Notifying' = Notifying
    BY <2>1 DEF Sleeping, Awake, Notifying
  <2> QED BY <1>k, <2>1, <2>2
<1>12. CASE Destroy
  <2>1. /\ pc[Owner] = "join" /\ pc' = [pc EXCEPT ![Owner] = "destroyed"]
        /\ stop' = stop /\ Len(tasks') = 0
    BY <1>12 DEF Destroy, Goto
  <2>2. Sleeping' = Sleeping
    BY <1>t, <2>1, ThreadsDisjoint DEF Sleeping
  <2> QED BY <1>0, <1>n, <1>w, <2>1, <2>2 DEF NoLostWakeup
<1> QED
  BY Steps, <1>1, <1>2, <1>3, <1>4, <1>5, <1>6, <1>7, <1>8, <1>9, <1>10, <1>11, <1>12
  DEF CtorStep, WorkerStep, CallStep, DtorStep

\* Whatever the number of workers and callers, no wakeup is lost: a queued task
\* never waits for a worker that sleeps with nobody left to wake it.
THEOREM NoWakeupLost == Spec => []NoLostWakeup
<1>1. Init => WakeupInv
  BY InitType, InitLock, InitLife DEF Init, LifeInv, LockInv, WakeupInv, NoLostWakeup, Sleeping
<1>2. WakeupInv /\ [Next]_vars => WakeupInv'
  BY WakeupStep, TypeStep, LockStep, PhasesStep, WorkerKnowsStep
  DEF WakeupInv, LifeInv, LockInv
<1>3. WakeupInv => NoLostWakeup
  BY DEF WakeupInv
<1> QED BY <1>1, <1>2, <1>3, PTL DEF Spec

------------------------------------------------------------------------------
(***************************************************************************)
(* The pool and the executor.                                              *)
(***************************************************************************)
\* The values the refinement mapping gives to the executor's variables.
Status == IF pc[Owner] = "destroyed" THEN "gone" ELSE IF stop THEN "closing" ELSE "open"
OnWorkers == {task[w] : w \in Workers} \ {NoTask}
Done == {f \in Tasks : future[f] \in Ready}
Refused == {f \in Tasks : future[f] = "refused"}

\* A worker without a task keeps the others below the capacity.
LEMMA BelowCapacity ==
    ASSUME NEW w \in Workers, task[w] = NoTask
    PROVE  Cardinality(OnWorkers) < Cardinality(Workers)
<1> DEFINE Others == Workers \ {w}
<1>1. /\ IsFiniteSet(Others)
      /\ Cardinality(Others) = Cardinality(Workers) - 1
      /\ Cardinality(Workers) \in Nat
  BY WorkersFinite, FS_RemoveElement, FS_CardinalityType
<1>2. /\ IsFiniteSet({task[v] : v \in Others})
      /\ Cardinality({task[v] : v \in Others}) <= Cardinality(Others)
  <2> DEFINE Img == {task[v] : v \in Others}
             g == [v \in Others |-> task[v]]
  <2>1. g \in Surjection(Others, Img)
    BY DEF Surjection
  <2> HIDE DEF g, Img, Others
  <2>2. IsFiniteSet(Img) /\ Cardinality(Img) <= Cardinality(Others)
    BY <1>1, <2>1, FS_Surjection
  <2> QED BY <2>2 DEF Img
<1>3. OnWorkers \subseteq {task[v] : v \in Others}
  BY DEF OnWorkers
<1>4. Cardinality(OnWorkers) <= Cardinality({task[v] : v \in Others})
  BY <1>2, <1>3, FS_Subset
<1>5. Cardinality(OnWorkers) \in Nat /\ Cardinality({task[v] : v \in Others}) \in Nat
  BY <1>2, <1>3, FS_Subset, FS_CardinalityType
<1> QED BY <1>1, <1>2, <1>4, <1>5

\* The two modules mean the same thing by a cardinality.
LEMMA SameCardinality == \A S : Executor!Cardinality(S) = Cardinality(S)
  BY DEF Cardinality, Executor!Cardinality

LEMMA InitExecutor == Init => Executor!Init
<1> SUFFICES ASSUME Init PROVE Executor!Init
  OBVIOUS
<1>1. /\ pc[Owner] = "ctor" /\ ~stop /\ tasks = <<>>
      /\ \A w \in Workers : task[w] = NoTask
      /\ \A f \in Tasks : future[f] = "none"
  BY ThreadsDisjoint DEF Init
<1> QED BY <1>1 DEF Executor!Init

\* Only Destroy makes or unmakes a destroyed pool.
LEMMA OwnerStays ==
    ASSUME LifeInv, [Next]_vars, ~Destroy
    PROVE  (pc[Owner] = "destroyed") = (pc'[Owner] = "destroyed")
<1> USE ThreadsDisjoint DEF LifeInv, LockInv, TypeInv, TypeOK, Goto
<1>1. CASE CtorStep \/ SpawnThrows \/ UnwindTerminates \/ Dtor
  BY <1>1 DEF CtorStep, CtorDone, Spawn, SpawnThrows, UnwindTerminates, Dtor
<1>2. ASSUME NEW w \in Workers, WorkerStep(w) \/ SpuriousWakeup(w)
      PROVE  pc'[Owner] = pc[Owner]
  BY <1>2 DEF WorkerStep, WorkerLock, PredicateFalse, Block, WorkerReturn, Take, Finish,
              SpuriousWakeup
<1>3. ASSUME NEW t \in Threads,
             EnqueueLock(t) \/ EnqueueThrow(t) \/ EnqueuePush(t)
             \/ \E f \in Tasks : Enqueue(t, f)
      PROVE  (pc[Owner] = "destroyed") = (pc'[Owner] = "destroyed")
  BY <1>3, HomeType DEF EnqueueLock, EnqueueThrow, EnqueuePush, Enqueue, MayCall
<1>4. ASSUME NEW t \in Threads, NotifyOne(t)
      PROVE  (pc[Owner] = "destroyed") = (pc'[Owner] = "destroyed")
  BY <1>4, NotifyOneWakes, HomeType DEF Wakes
<1>5. CASE DtorStep
  <2>1. CASE NotifyAll
    BY <2>1, NotifyAllWakes DEF Wakes
  <2> QED BY <1>5, <2>1 DEF DtorStep, DtorLock, DtorStop, Join
<1>6. CASE UNCHANGED vars
  BY <1>6 DEF vars
<1> QED BY Steps, <1>1, <1>2, <1>3, <1>4, <1>5, <1>6 DEF CallStep

\* Each step of the pool is a step of the executor, or the executor does not move.
LEMMA ExecutorStep ==
    ASSUME Workers # {}, OwnerJoinsClients, PromiseInv, [Next]_vars
    PROVE  [Executor!Next]_(Executor!xvars)
<1>0. /\ arg \in [Threads -> Tasks \cup {NoTask}]
      /\ task \in [Workers -> Tasks \cup {NoTask}]
      /\ future \in [Tasks -> {"none", "pending", "refused", "broken"} \cup Ready]
      /\ tasks \in Seq(Tasks) /\ DOMAIN tasks = 1..Len(tasks)
      /\ \A i \in 1..Len(tasks) : tasks[i] \in Tasks
      /\ NoTask \notin Tasks
      /\ pc \in [Threads -> WorkerPC \cup EnqueuePC \cup OwnerPC \cup {"idle"}]
  BY NoTaskAssumption DEF PromiseInv, LifeInv, LockInv, TypeInv, TypeOK
<1>h. /\ \A t \in Threads : arg[t] # NoTask <=> pc[t] \in {"enqLock", "enqCheck"}
      /\ \A w \in Workers : task[w] # NoTask <=> pc[w] \in {"run"} \cup EnqueuePC
  BY DEF PromiseInv, Holding
<1>p. Apart /\ Pending
  BY DEF PromiseInv
<1>s. stop <=> pc[Owner] \in {"notifyAll", "join", "destroyed"}
  BY DEF PromiseInv, LifeInv, Phases
\* In a destroyed pool nobody moves.
<1>d. pc[Owner] = "destroyed" =>
          /\ \A w \in Workers : pc[w] = "done"
          /\ \A c \in Clients : pc[c] = "idle"
  BY OwnerJoinsClients DEF PromiseInv, LifeInv, Phases, WorkerKnows, OwnerActive
\* A task whose future is pending and that is not queued or running is unknown.
<1>k. ASSUME NEW t \in Threads, arg[t] # NoTask
      PROVE  /\ arg[t] \in Tasks
             /\ arg[t] \notin {tasks[i] : i \in DOMAIN tasks} \cup OnWorkers \cup Done \cup Refused
  <2>1. arg[t] \in Tasks /\ future[arg[t]] = "pending"
    BY <1>0, <1>k, <1>p DEF Pending
  <2>2. arg[t] \notin Done \cup Refused
    BY <2>1 DEF Done, Refused
  <2>3. arg[t] \notin {tasks[i] : i \in DOMAIN tasks} \cup OnWorkers
    BY <1>0, <1>k, <1>p DEF Apart, OnWorkers
  <2> QED BY <2>1, <2>2, <2>3
<1> DEFINE Same == /\ tasks' = tasks /\ OnWorkers' = OnWorkers
                   /\ Done' = Done /\ Refused' = Refused
<1>1. CASE Unmoved /\ ~Destroy
  <2>1. Same
    BY <1>1 DEF Unmoved, OnWorkers, Done, Refused
  <2>2. Status' = Status \/ (Status = "open" /\ Status' = "closing")
    <3>1. CASE DtorStop
      BY <1>0, <1>s, <3>1 DEF DtorStop, Goto, Status
    <3>2. CASE ~DtorStop
      <4>1. stop' = stop
        BY <1>1, <3>2, Steps
        DEF CtorStep, CtorDone, Spawn, SpawnThrows, UnwindTerminates, WorkerStep, WorkerLock, PredicateFalse,
            Block, SpuriousWakeup, WorkerReturn, Take, Finish, CallStep, EnqueueLock,
            EnqueueThrow, EnqueuePush, NotifyOne, Enqueue, Dtor, DtorStep, DtorLock, NotifyAll,
            Join, vars
      <4>2. (pc[Owner] = "destroyed") = (pc'[Owner] = "destroyed")
        BY <1>0, <1>1, OwnerStays DEF PromiseInv
      <4> QED BY <4>1, <4>2 DEF Status
    <3> QED BY <3>1, <3>2
  <2>3. CASE Status' = Status
    BY <2>1, <2>3 DEF Executor!xvars, Status, OnWorkers, Done, Refused
  <2>4. CASE Status = "open" /\ Status' = "closing"
    BY <2>1, <2>4 DEF Executor!Next, Executor!Close, Status, OnWorkers, Done, Refused
  <2> QED BY <2>2, <2>3, <2>4
<1>2. ASSUME NEW w \in Workers, Take(w) PROVE Executor!Next
  <2>1. /\ tasks # <<>> /\ tasks' = Tail(tasks) /\ future' = future /\ Head(tasks) \in Tasks
        /\ task' = [task EXCEPT ![w] = Head(tasks)] /\ task[w] = NoTask
        /\ stop' = stop /\ pc' = [pc EXCEPT ![w] = "run"]
    BY <1>0, <1>2, <1>h DEF Take, Goto
  <2>2. OnWorkers' = OnWorkers \cup {Head(tasks)}
    BY <1>0, <2>1 DEF OnWorkers
  <2>3. Status' = Status /\ Done' = Done /\ Refused' = Refused
    BY <1>0, <2>1, ThreadsDisjoint DEF Status, Done, Refused
  <2>4. Cardinality(OnWorkers) < Cardinality(Workers)
    BY <2>1, BelowCapacity
  <2>5. Executor!Start
    BY <2>1, <2>2, <2>3, <2>4, SameCardinality DEF Executor!Start, Status, OnWorkers, Done, Refused
  <2> QED BY <2>5 DEF Executor!Next
<1>3. ASSUME NEW w \in Workers, Finish(w) PROVE Executor!Next
  <2>1. PICK r \in Ready : future' = [future EXCEPT ![task[w]] = r]
    BY <1>3 DEF Finish
  <2>2. /\ task' = [task EXCEPT ![w] = NoTask] /\ tasks' = tasks
        /\ task[w] \in Tasks /\ future[task[w]] = "pending" /\ task[w] \in OnWorkers
        /\ stop' = stop /\ pc' = [pc EXCEPT ![w] = "lock"]
    BY <1>0, <1>3, <1>h, <1>p DEF Finish, Goto, Pending, OnWorkers
  <2>3. OnWorkers' = OnWorkers \ {task[w]}
    BY <1>0, <1>p, <2>2 DEF OnWorkers, Apart
  <2>4. Done' = Done \cup {task[w]} /\ Refused' = Refused
    BY <1>0, <2>1, <2>2 DEF Done, Refused
  <2>5. Status' = Status
    BY <1>0, <2>2, ThreadsDisjoint DEF Status
  <2>6. PICK f \in Tasks : f = task[w]
    BY <2>2
  <2>7. Executor!Finish(f)
    BY <2>2, <2>3, <2>4, <2>5, <2>6 DEF Executor!Finish, Status, OnWorkers, Done, Refused
  <2> QED BY <2>7 DEF Executor!Next
<1>4. ASSUME NEW t \in Threads, NEW f \in Tasks, Enqueue(t, f)
      PROVE  UNCHANGED Executor!xvars
  <2>1. /\ future[f] = "none" /\ future' = [future EXCEPT ![f] = "pending"]
        /\ tasks' = tasks /\ task' = task /\ stop' = stop
    BY <1>4 DEF Enqueue
  <2>2. Same
    BY <1>0, <2>1 DEF OnWorkers, Done, Refused
  <2>3. (pc[Owner] = "destroyed") = (pc'[Owner] = "destroyed")
    BY <1>0, <1>4, HomeType, ThreadsDisjoint DEF Enqueue, MayCall, Goto
  <2>4. Status' = Status
    BY <2>1, <2>3 DEF Status
  <2> QED BY <2>2, <2>4 DEF Executor!xvars, Status, OnWorkers, Done, Refused
<1>5. ASSUME NEW t \in Threads, EnqueueThrow(t) PROVE Executor!Next
  <2>1. /\ pc[t] = "enqCheck" /\ stop /\ stop' = stop /\ tasks' = tasks /\ task' = task
        /\ future' = [future EXCEPT ![arg[t]] = "refused"] /\ arg[t] # NoTask
        /\ pc' = [pc EXCEPT ![t] = Home(t)]
    BY <1>5, <1>h DEF EnqueueThrow, Goto
  <2>2. arg[t] \in Tasks /\ future[arg[t]] = "pending"
    BY <1>0, <1>p, <2>1 DEF Pending
  <2>3. OnWorkers' = OnWorkers /\ Done' = Done /\ Refused' = Refused \cup {arg[t]}
    BY <1>0, <2>1, <2>2 DEF OnWorkers, Done, Refused
  <2>4. pc[Owner] # "destroyed" /\ pc'[Owner] # "destroyed"
    BY <1>0, <1>d, <2>1, HomeType, ThreadsDisjoint
  <2>5. Status = "closing" /\ Status' = "closing"
    BY <2>1, <2>4 DEF Status
  <2>6. PICK f \in Tasks : f = arg[t]
    BY <2>2
  <2>7. Executor!Refuse(f)
    BY <1>k, <2>1, <2>3, <2>5, <2>6
    DEF Executor!Refuse, Executor!Known, Status, OnWorkers, Done, Refused
  <2> QED BY <2>7 DEF Executor!Next
<1>6. ASSUME NEW t \in Threads, EnqueuePush(t) PROVE Executor!Next
  <2>1. /\ pc[t] = "enqCheck" /\ ~stop /\ stop' = stop /\ tasks' = Append(tasks, arg[t])
        /\ task' = task /\ future' = future /\ arg[t] # NoTask
        /\ pc' = [pc EXCEPT ![t] = "notify"]
    BY <1>6, <1>h DEF EnqueuePush, Goto
  <2>2. OnWorkers' = OnWorkers /\ Done' = Done /\ Refused' = Refused
    BY <2>1 DEF OnWorkers, Done, Refused
  <2>3. Status = "open" /\ Status' = "open"
    BY <1>0, <1>s, <2>1 DEF Status
  <2>4. PICK f \in Tasks : f = arg[t]
    BY <1>k, <2>1
  <2>5. Executor!Accept(f)
    BY <1>k, <2>1, <2>2, <2>3, <2>4
    DEF Executor!Accept, Executor!Known, Status, OnWorkers, Done, Refused
  <2> QED BY <2>5 DEF Executor!Next
<1>7. CASE Destroy
  <2>1. tasks = <<>> /\ tasks' = tasks /\ future' = future
    BY <1>7, Workers # {}, DestroyDrained DEF PromiseInv
  <2>2. /\ pc[Owner] = "join" /\ task' = task /\ stop' = stop
        /\ pc' = [pc EXCEPT ![Owner] = "destroyed"] /\ joined = Workers
    BY <1>7 DEF Destroy, Goto
  <2>3. Status = "closing" /\ Status' = "gone"
    BY <1>0, <1>s, <2>2 DEF Status
  <2>4. OnWorkers = {}
    <3>1. \A w \in Workers : pc[w] = "done"
      BY <2>2 DEF PromiseInv, LifeInv, WorkerKnows
    <3> QED BY <1>h, <3>1 DEF OnWorkers
  <2>5. OnWorkers' = OnWorkers /\ Done' = Done /\ Refused' = Refused
    BY <2>1, <2>2 DEF OnWorkers, Done, Refused
  <2>6. Executor!Vanish
    BY <2>1, <2>3, <2>4, <2>5 DEF Executor!Vanish, Status, OnWorkers, Done, Refused
  <2> QED BY <2>6 DEF Executor!Next
<1> QED BY StaySteps, <1>1, <1>2, <1>3, <1>4, <1>5, <1>6, <1>7 DEF PromiseInv

\* A pool with workers, whose owner waits for its callers, does nothing that the
\* abstract executor does not allow: the safety half of ImplementsExecutor.
THEOREM ImplementsExecutorSafely ==
    ASSUME Workers # {}, OwnerJoinsClients
    PROVE  Spec => Executor!Safe
<1>1. PromiseInv /\ [Next]_vars => [Executor!Next]_(Executor!xvars)
  BY Workers # {}, OwnerJoinsClients, ExecutorStep
<1> QED BY <1>1, InitExecutor, PromiseInvariant, PTL DEF Spec, Executor!Safe

==============================================================================
