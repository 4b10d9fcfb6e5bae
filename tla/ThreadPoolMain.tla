---------------------------- MODULE ThreadPoolMain ----------------------------
(***************************************************************************)
(* The program exercises/7/7.1/main.cpp: main() is the owner and the only  *)
(* caller of a pool.  It enqueues the tasks 0, 1, .., keeps their futures  *)
(* in results, prints what each get() returns, in order, and leaves the    *)
(* pool to its destructor.  The tasks print, sleep and return a string:    *)
(* they neither throw nor enqueue.                                         *)
(***************************************************************************)
EXTENDS ThreadPool

CONSTANT NumTasks

ASSUME MainAssumption ==
    /\ NumTasks \in Nat
    /\ Clients = {}
    /\ Tasks = 0..(NumTasks - 1)

VARIABLES
    i,        \* the loop counter of the enqueue loop
    results,  \* the futures, each named by its task
    printed   \* the values printed by the loop over results, in order

mvars == <<vars, i, results, printed>>

MainInit == Init /\ i = 0 /\ results = <<>> /\ printed = <<>>

\* One turn of the first loop begins: pool.enqueue() is called ...
MainEnqueue ==
    /\ i < NumTasks
    /\ Len(results) = i
    /\ Enqueue(Owner, i)
    /\ i' = i + 1
    /\ UNCHANGED <<results, printed>>

\* Fault: results is filled from the front.
MainEmplace_Front ==
    /\ pc[Owner] = "open"
    /\ Len(results) < i
    /\ results' = <<i - 1>> \o results
    /\ UNCHANGED <<vars, i, printed>>

\* ... and the future it returned goes to the end of results.
MainEmplace ==
    /\ pc[Owner] = "open"
    /\ Len(results) < i
    /\ results' = Append(results, i - 1)
    /\ UNCHANGED <<vars, i, printed>>

\* result.get() blocks until the shared state is ready.
MainGet ==
    /\ pc[Owner] = "open"
    /\ Len(results) = NumTasks
    /\ Len(printed) < NumTasks
    /\ LET f == results[Len(printed) + 1] IN
       /\ future[f] = "value"
       /\ printed' = Append(printed, f)
    /\ UNCHANGED <<vars, i, results>>

\* The block of main() ends: results, then pool, are destroyed.
MainReturn ==
    /\ Len(printed) = NumTasks
    /\ Len(results) = NumTasks
    /\ Dtor
    /\ UNCHANGED <<i, results, printed>>

\* A task of main() returns its string.
MainFinish(w) == Finish(w) /\ future'[task[w]] = "value"

MainWorkerStep(w) ==
    \/ WorkerLock(w) \/ PredicateFalse(w) \/ Block(w)
    \/ WorkerReturn(w) \/ Take(w) \/ MainFinish(w)

\* Nobody catches what the constructor throws: with or without unwinding, the
\* process ends.
CtorThrows == SpawnThrows \/ UnwindTerminates

PoolStep ==
    /\ pc[Owner] # "aborted"
    /\ \/ CtorStep
       \/ CtorThrows
       \/ CallStep(Owner)
       \/ DtorStep
       \/ \E w \in Workers : MainWorkerStep(w) \/ SpuriousWakeup(w)

MainStep == MainEnqueue \/ MainEmplace \/ MainGet \/ MainReturn

MainNext ==
    \/ PoolStep /\ UNCHANGED <<i, results, printed>>
    \/ MainStep
    \/ Halted /\ UNCHANGED <<i, results, printed>>

MainSpec ==
    /\ MainInit /\ [][MainNext]_mvars
    /\ WF_mvars(MainStep)
    /\ \A w \in Workers :
           WF_mvars(Running /\ MainWorkerStep(w) /\ UNCHANGED <<i, results, printed>>)
    /\ WF_mvars((CtorStep \/ CallStep(Owner) \/ DtorStep) /\ UNCHANGED <<i, results, printed>>)

------------------------------------------------------------------------------
\* The k-th result printed is that of the k-th task, whatever order the
\* workers finish in, and no enqueue() of main() is refused.
PrintedInOrder ==
    /\ \A k \in DOMAIN printed : printed[k] = k - 1
    /\ \A f \in Tasks : future[f] \notin {"refused", "error"}

\* main() prints every result and returns, unless a thread could not be started.
MainTerminates ==
    <>(\/ pc[Owner] = "destroyed" /\ Len(printed) = NumTasks
       \/ pc[Owner] \in {"ctorThrew", "unwinding", "aborted"})

==============================================================================
