------------------------- MODULE ThreadPoolMainProofs -------------------------
(***************************************************************************)
(* main() of exercises/7/7.1/main.cpp prints its results in order, for any *)
(* number of tasks and workers.  A step of main() is a step of the pool or *)
(* leaves it alone, so that the invariants of ThreadPoolProofs hold here.  *)
(***************************************************************************)
EXTENDS ThreadPoolMain, ThreadPoolProofs

USE DEF Threads, Ready, WorkerPC, EnqueuePC, OwnerPC, Return, TakeThis, PushThis, DestroyMembers

\* The loops of main() count their turns.
Loops ==
    /\ i \in 0..NumTasks
    /\ results \in Seq(Nat) /\ Len(results) \in {i, i - 1}
    /\ \A j \in DOMAIN results : results[j] = j - 1
    /\ printed \in Seq(Nat) /\ Len(printed) <= NumTasks
    /\ \A j \in DOMAIN printed : printed[j] = j - 1

NoTaskFailed == \A f \in Tasks : future[f] \notin {"refused", "error"}

MainInv == LifeInv /\ Loops /\ NoTaskFailed

LEMMA MainInitial == MainInit => MainInv
<1> SUFFICES ASSUME MainInit PROVE MainInv
  OBVIOUS
<1>1. LifeInv
  BY InitType, InitLock, InitLife DEF LifeInv, LockInv, MainInit
<1>2. NoTaskFailed
  BY DEF MainInit, Init, NoTaskFailed
<1>3. Loops
  BY MainAssumption DEF MainInit, Loops
<1> QED BY <1>1, <1>2, <1>3 DEF MainInv

\* The composition adds nothing to what the pool does.
LEMMA MainIsPool == MainInv /\ [MainNext]_mvars => [Next]_vars
<1> SUFFICES ASSUME MainInv, [MainNext]_mvars PROVE [Next]_vars
  OBVIOUS
<1>1. Owner \in Threads
  OBVIOUS
<1>2. CASE PoolStep
  <2>1. \A w \in Workers : MainWorkerStep(w) => WorkerStep(w)
    BY DEF MainWorkerStep, MainFinish, WorkerStep
  <2> QED BY <1>1, <1>2, <2>1 DEF PoolStep, CtorThrows, Next
<1>3. CASE MainEnqueue
  <2>1. i \in Tasks /\ Enqueue(Owner, i)
    BY <1>3, MainAssumption DEF MainEnqueue, MainInv, Loops
  <2>2. pc[Owner] = "open"
    BY <2>1, HomeType DEF Enqueue, MayCall
  <2> QED BY <1>1, <2>1, <2>2 DEF Next
<1>4. CASE MainReturn
  BY <1>1, <1>4 DEF MainReturn, Dtor, Next
<1>5. CASE MainEmplace \/ MainGet \/ Halted \/ UNCHANGED mvars
  BY <1>5 DEF MainEmplace, MainGet, Halted, mvars
<1> QED BY <1>2, <1>3, <1>4, <1>5 DEF MainNext, MainStep

LEMMA LoopsStep == MainInv /\ [MainNext]_mvars => Loops'
<1> SUFFICES ASSUME MainInv, [MainNext]_mvars PROVE Loops'
  OBVIOUS
<1>1. Loops
  BY DEF MainInv
<1>2. NumTasks \in Nat
  BY MainAssumption
<1>3. CASE UNCHANGED <<i, results, printed>>
  BY <1>1, <1>3 DEF Loops
<1>4. CASE MainEnqueue
  BY <1>1, <1>2, <1>4 DEF Loops, MainEnqueue
<1>5. CASE MainEmplace
  <2>1. Len(results) < i /\ results' = Append(results, i - 1) /\ UNCHANGED <<i, printed>>
    BY <1>5 DEF MainEmplace
  <2>2. Len(results) = i - 1
    BY <1>1, <2>1 DEF Loops
  <2> QED BY <1>1, <1>2, <2>1, <2>2 DEF Loops
<1>6. CASE MainGet
  <2>1. PICK f : f = results[Len(printed) + 1] /\ printed' = Append(printed, f)
                 /\ Len(results) = NumTasks /\ Len(printed) < NumTasks
                 /\ UNCHANGED <<i, results>>
    BY <1>6 DEF MainGet
  <2>2. f = Len(printed)
    BY SMTT(40), <1>1, <1>2, <2>1 DEF Loops
  <2> QED BY <1>1, <1>2, <2>1, <2>2 DEF Loops
<1> QED BY <1>3, <1>4, <1>5, <1>6 DEF MainNext, MainStep, MainReturn, mvars

LEMMA NoTaskFailedStep == MainInv /\ [MainNext]_mvars => NoTaskFailed'
<1> SUFFICES ASSUME MainInv, [MainNext]_mvars PROVE NoTaskFailed'
  OBVIOUS
<1>1. NoTaskFailed /\ future \in [Tasks -> {"none", "pending", "refused", "broken"} \cup Ready]
  BY DEF MainInv, LifeInv, LockInv, TypeInv, TypeOK
<1>2. CASE UNCHANGED future
  BY <1>1, <1>2 DEF NoTaskFailed
<1>3. CASE MainEnqueue
  BY <1>1, <1>3 DEF MainEnqueue, Enqueue, NoTaskFailed
<1>4. ASSUME NEW w \in Workers, MainFinish(w) PROVE NoTaskFailed'
  BY <1>1, <1>4 DEF MainFinish, Finish, NoTaskFailed
\* While the owner calls enqueue() the pool is not stopped.
<1>5. CASE EnqueueThrow(Owner)
  BY <1>5 DEF EnqueueThrow, MainInv, LifeInv, Phases
<1>6. CASE Destroy
  BY <1>1, <1>6 DEF Destroy, NoTaskFailed
<1>7. \/ UNCHANGED future \/ MainEnqueue \/ EnqueueThrow(Owner) \/ Destroy
      \/ \E w \in Workers : MainFinish(w)
  BY DEF MainNext, MainStep, PoolStep, CtorThrows, SpawnThrows, UnwindTerminates,
         MainWorkerStep, CtorStep, CallStep, DtorStep,
         MainEmplace, MainGet, MainReturn, Halted, mvars, vars,
         CtorDone, Spawn, WorkerLock, PredicateFalse, Block, WorkerReturn, Take,
         SpuriousWakeup, EnqueueLock, EnqueuePush, NotifyOne, Dtor, DtorLock, DtorStop,
         NotifyAll, Join
<1> QED BY <1>2, <1>3, <1>4, <1>5, <1>6, <1>7

LEMMA MainNextKeeps == MainInv /\ [MainNext]_mvars => MainInv'
<1> SUFFICES ASSUME MainInv, [MainNext]_mvars PROVE MainInv'
  OBVIOUS
<1>1. LifeInv'
  BY MainIsPool, TypeStep, LockStep, PhasesStep, WorkerKnowsStep DEF MainInv, LifeInv, LockInv
<1> QED BY <1>1, LoopsStep, NoTaskFailedStep DEF MainInv

\* For any number of tasks and workers: the results are printed in the order of
\* the calls of enqueue(), and none of them is refused or fails.
THEOREM ResultsInOrder == MainSpec => []PrintedInOrder
<1>1. MainInv => PrintedInOrder
  BY DEF MainInv, Loops, NoTaskFailed, PrintedInOrder
<1> QED BY <1>1, MainInitial, MainNextKeeps, PTL DEF MainSpec

==============================================================================
