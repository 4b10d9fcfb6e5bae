------------------------------ MODULE ThreadPool ------------------------------
(***************************************************************************)
(* The class ThreadPool of exercises/7/7.1/thread_pool.hpp.                *)
(*                                                                         *)
(* Three kinds of threads meet in the pool: the workers its constructor    *)
(* starts, the owner that constructs and destroys it, and clients that     *)
(* only call enqueue().  The owner calls enqueue() too, and so may the     *)
(* body of a task, on the worker that runs it.                             *)
(*                                                                         *)
(* pc names the point a thread has reached.  queue_mutex is held across    *)
(* the states of InCritical; whatever a thread does between two points     *)
(* while it holds the mutex is one action, because tasks and stop are only *)
(* accessed under it.  The one exception is the predicate of               *)
(* condition.wait(): evaluating it and going to sleep are two steps, since *)
(* a notification that fell between them would be lost.                    *)
(*                                                                         *)
(* A definition introduced by "Fault:" is the operation that follows it    *)
(* with a bug put in.  No specification uses it; it shows that a property  *)
(* notices that bug.                                                       *)
(***************************************************************************)
EXTENDS Integers, Sequences, FiniteSets

CONSTANTS
    Workers,            \* the threads of the vector workers
    Clients,            \* other threads that call enqueue()
    Owner,              \* the thread that constructs and destroys the pool
    Tasks,              \* the callables that are ever passed to enqueue()
    NoThread,           \* queue_mutex is free
    NoTask,             \* an empty std::function
    OwnerJoinsClients,  \* does the owner wait for the clients before ~ThreadPool()?
    MaxSpurious         \* bound: spurious wakeups of condition.wait() in a run

Threads == Workers \cup Clients \cup {Owner}

ASSUME ThreadsDisjoint ==
    /\ Workers \cap Clients = {}
    /\ Owner \notin Workers \cup Clients
    /\ NoThread \notin Threads

ASSUME WorkersFinite == IsFiniteSet(Workers) /\ IsFiniteSet(Clients)

ASSUME NoTaskAssumption == NoTask \notin Tasks

ASSUME BoundsAssumption == OwnerJoinsClients \in BOOLEAN /\ MaxSpurious \in Nat

VARIABLES
    pc,           \* where each thread is
    queue_mutex,  \* the thread that holds it, or NoThread
    tasks,        \* the queue
    stop,         \* set by the destructor
    task,         \* per worker: the local variable task
    arg,          \* per thread: the task it is passing to enqueue()
    future,       \* per task: the shared state of its future
    joined,       \* workers the destructor has joined
    spurious,     \* spurious wakeups so far
    accepted,     \* history: tasks in the order they were pushed
    started       \* history: tasks in the order they were popped

vars == <<pc, queue_mutex, tasks, stop, task, arg, future, joined, spurious,
          accepted, started>>

(***************************************************************************)
(* Vocabulary.                                                             *)
(***************************************************************************)
WorkerPC == {"unborn", "lock", "check", "block", "asleep", "wake", "run", "done"}
EnqueuePC == {"enqLock", "enqCheck", "notify"}
OwnerPC == {"ctor", "ctorThrew", "unwinding", "aborted", "open", "dtorLock", "dtorStop",
            "notifyAll", "join", "destroyed"}

\* The states in which a thread holds queue_mutex.
InCritical == {"check", "block", "enqCheck", "dtorStop"}

\* Where a thread calls enqueue() from, and returns to.
Home(t) == IF t \in Workers THEN "run" ELSE IF t \in Clients THEN "idle" ELSE "open"

\* The wait set of condition.
Sleeping == {w \in Workers : pc[w] = "asleep"}

\* Workers that will look at the queue before they sleep.
Awake == {w \in Workers : pc[w] \in {"lock", "check", "wake"}}

\* Threads between the unlock and the notify_one() of enqueue().
Notifying == {t \in Threads : pc[t] = "notify"}

Ready == {"value", "error"}

OwnerActive == pc[Owner] \in {"open"} \cup EnqueuePC

\* The pool's members are being destroyed, or have been.
PoolDead == pc[Owner] \in {"destroyed", "ctorThrew", "unwinding"}

\* Nobody answers for what the threads of a dying process do.
Running == pc[Owner] \notin {"unwinding", "aborted"}

\* May t call enqueue() now?  A client holds a reference from the end of the
\* constructor on; an owner that joins it first lets no call outlive the pool.
MayCall(t) ==
    /\ pc[t] = Home(t)
    /\ t \in Clients => IF OwnerJoinsClients
                        THEN OwnerActive
                        ELSE pc[Owner] \notin {"ctor", "ctorThrew", "unwinding", "destroyed"}

Goto(t, where) == pc' = [pc EXCEPT ![t] = where]

Lock(t) == queue_mutex = NoThread /\ queue_mutex' = t

\* The destructor of std::unique_lock.
Unlock == queue_mutex' = NoThread

------------------------------------------------------------------------------
Init ==
    /\ pc = [t \in Threads |-> IF t \in Workers THEN "unborn"
                               ELSE IF t \in Clients THEN "idle" ELSE "ctor"]
    /\ queue_mutex = NoThread
    /\ tasks = <<>>
    /\ stop = FALSE
    /\ task = [w \in Workers |-> NoTask]
    /\ arg = [t \in Threads |-> NoTask]
    /\ future = [t \in Tasks |-> "none"]
    /\ joined = {}
    /\ spurious = 0
    /\ accepted = <<>>
    /\ started = <<>>

(***************************************************************************)
(* The constructor: one thread after the other.  If std::thread throws,    *)
(* the members are destroyed in reverse order.  The first one leaves       *)
(* nobody behind.  A later one unwinds condition, queue_mutex and tasks    *)
(* under the workers that run or sleep, and only then is the vector        *)
(* destroyed, whose joinable threads end the process in std::terminate().  *)
(* In between the workers use what is no more: they may go on with what    *)
(* they find in the memory, stop, or take the process down, and the        *)
(* destructor of condition may wait for sleepers that nobody wakes.        *)
(***************************************************************************)
Spawn(w) ==
    /\ pc[Owner] = "ctor"
    /\ pc[w] = "unborn"
    /\ Goto(w, "lock")
    /\ UNCHANGED <<queue_mutex, tasks, stop, task, arg, future, joined, spurious,
                   accepted, started>>

\* Fault: the workers are detached, so that the exception reaches the caller.
SpawnThrows_Detached ==
    /\ pc[Owner] = "ctor"
    /\ \E w \in Workers : pc[w] = "unborn"
    /\ Goto(Owner, "ctorThrew")
    /\ UNCHANGED <<queue_mutex, tasks, stop, task, arg, future, joined, spurious,
                   accepted, started>>

SpawnThrows ==
    /\ pc[Owner] = "ctor"
    /\ \E w \in Workers : pc[w] = "unborn"
    /\ Goto(Owner, IF \A w \in Workers : pc[w] = "unborn" THEN "ctorThrew" ELSE "unwinding")
    /\ UNCHANGED <<queue_mutex, tasks, stop, task, arg, future, joined, spurious,
                   accepted, started>>

UnwindTerminates ==
    /\ pc[Owner] = "unwinding"
    /\ Goto(Owner, "aborted")
    /\ UNCHANGED <<queue_mutex, tasks, stop, task, arg, future, joined, spurious,
                   accepted, started>>

CtorDone ==
    /\ pc[Owner] = "ctor"
    /\ \A w \in Workers : pc[w] # "unborn"
    /\ Goto(Owner, "open")
    /\ UNCHANGED <<queue_mutex, tasks, stop, task, arg, future, joined, spurious,
                   accepted, started>>

(***************************************************************************)
(* The loop of a worker.                                                   *)
(***************************************************************************)
\* std::unique_lock, or the relock at the end of condition.wait().
WorkerLock(w) ==
    /\ pc[w] \in {"lock", "wake"}
    /\ Lock(w)
    /\ Goto(w, "check")
    /\ UNCHANGED <<tasks, stop, task, arg, future, joined, spurious, accepted, started>>

\* The predicate of condition.wait() is false.
PredicateFalse(w) ==
    /\ pc[w] = "check"
    /\ ~stop /\ tasks = <<>>
    /\ Goto(w, "block")
    /\ UNCHANGED <<queue_mutex, tasks, stop, task, arg, future, joined, spurious,
                   accepted, started>>

\* condition.wait() releases the mutex and sleeps, atomically.
Block(w) ==
    /\ pc[w] = "block"
    /\ Unlock
    /\ Goto(w, "asleep")
    /\ UNCHANGED <<tasks, stop, task, arg, future, joined, spurious, accepted, started>>

SpuriousWakeup(w) ==
    /\ pc[w] = "asleep"
    /\ spurious < MaxSpurious
    /\ spurious' = spurious + 1
    /\ Goto(w, "wake")
    /\ UNCHANGED <<queue_mutex, tasks, stop, task, arg, future, joined, accepted, started>>

\* The thread function returns.
Return(w) ==
    /\ pc[w] = "check"
    /\ Unlock
    /\ Goto(w, "done")
    /\ UNCHANGED <<tasks, stop, task, arg, future, joined, spurious, accepted, started>>

\* Fault: the queue is not looked at before returning.
WorkerReturn_Undrained(w) == stop /\ Return(w)

\* The pool is stopped and drained.
WorkerReturn(w) == stop /\ tasks = <<>> /\ Return(w)

\* Moving f to the local variable task, and leaving the critical section.
TakeThis(w, f, rest) ==
    /\ pc[w] = "check"
    /\ task' = [task EXCEPT ![w] = f]
    /\ tasks' = rest
    /\ started' = Append(started, f)
    /\ Unlock
    /\ Goto(w, "run")
    /\ UNCHANGED <<stop, arg, future, joined, spurious, accepted>>

\* Fault: the newest task is taken.
Take_Back(w) ==
    tasks # <<>> /\ TakeThis(w, tasks[Len(tasks)], SubSeq(tasks, 1, Len(tasks) - 1))

\* Fault: tasks.pop() is missing.
Take_NoPop(w) == tasks # <<>> /\ TakeThis(w, Head(tasks), tasks)

Take(w) == tasks # <<>> /\ TakeThis(w, Head(tasks), Tail(tasks))

\* task() ends; the packaged_task stores what it returned or threw.
Finish(w) ==
    /\ pc[w] = "run"
    /\ \E r \in Ready : future' = [future EXCEPT ![task[w]] = r]
    /\ task' = [task EXCEPT ![w] = NoTask]
    /\ Goto(w, "lock")
    /\ UNCHANGED <<queue_mutex, tasks, stop, arg, joined, spurious, accepted, started>>

(***************************************************************************)
(* enqueue(), called by any thread t, the worker of a running task         *)
(* included.                                                               *)
(***************************************************************************)
Enqueue(t, f) ==
    /\ MayCall(t)
    /\ future[f] = "none"
    /\ future' = [future EXCEPT ![f] = "pending"]
    /\ arg' = [arg EXCEPT ![t] = f]
    /\ Goto(t, "enqLock")
    /\ UNCHANGED <<queue_mutex, tasks, stop, task, joined, spurious, accepted, started>>

EnqueueLock(t) ==
    /\ pc[t] = "enqLock"
    /\ Lock(t)
    /\ Goto(t, "enqCheck")
    /\ UNCHANGED <<tasks, stop, task, arg, future, joined, spurious, accepted, started>>

\* throw std::runtime_error: unwinding unlocks, and drops the future.
EnqueueThrow(t) ==
    /\ pc[t] = "enqCheck"
    /\ stop
    /\ future' = [future EXCEPT ![arg[t]] = "refused"]
    /\ arg' = [arg EXCEPT ![t] = NoTask]
    /\ Unlock
    /\ Goto(t, Home(t))
    /\ UNCHANGED <<tasks, stop, task, joined, spurious, accepted, started>>

\* Pushing f, and leaving the critical section.
PushThis(t, f, next) ==
    /\ pc[t] = "enqCheck"
    /\ tasks' = Append(tasks, f)
    /\ accepted' = Append(accepted, f)
    /\ arg' = [arg EXCEPT ![t] = NoTask]
    /\ Unlock
    /\ Goto(t, next)
    /\ UNCHANGED <<stop, task, future, joined, spurious, started>>

\* Fault: an empty std::function is pushed.
EnqueuePush_Empty(t) == ~stop /\ PushThis(t, NoTask, "notify")

\* Fault: stop is not looked at.
EnqueuePush_NoStopCheck(t) == PushThis(t, arg[t], "notify")

\* Fault: notify_one() is missing.
EnqueuePush_NoNotify(t) == ~stop /\ PushThis(t, arg[t], Home(t))

EnqueuePush(t) == ~stop /\ PushThis(t, arg[t], "notify")

\* notify_one(): any one of the sleepers, or nobody.
NotifyOne(t) ==
    /\ pc[t] = "notify"
    /\ \/ /\ Sleeping = {}
          /\ Goto(t, Home(t))
       \/ \E w \in Sleeping : pc' = [pc EXCEPT ![t] = Home(t), ![w] = "wake"]
    /\ UNCHANGED <<queue_mutex, tasks, stop, task, arg, future, joined, spurious,
                   accepted, started>>

(***************************************************************************)
(* The destructor, called by the owner.                                    *)
(***************************************************************************)
Dtor ==
    /\ pc[Owner] = "open"
    /\ OwnerJoinsClients => \A c \in Clients : pc[c] = "idle"
    /\ Goto(Owner, "dtorLock")
    /\ UNCHANGED <<queue_mutex, tasks, stop, task, arg, future, joined, spurious,
                   accepted, started>>

\* Fault: stop is written without the mutex.
DtorLock_NoLock ==
    /\ pc[Owner] = "dtorLock"
    /\ Goto(Owner, "dtorStop")
    /\ UNCHANGED <<queue_mutex, tasks, stop, task, arg, future, joined, spurious,
                   accepted, started>>

DtorLock ==
    /\ pc[Owner] = "dtorLock"
    /\ Lock(Owner)
    /\ Goto(Owner, "dtorStop")
    /\ UNCHANGED <<tasks, stop, task, arg, future, joined, spurious, accepted, started>>

DtorStop ==
    /\ pc[Owner] = "dtorStop"
    /\ stop' = TRUE
    /\ Unlock
    /\ Goto(Owner, "notifyAll")
    /\ UNCHANGED <<tasks, task, arg, future, joined, spurious, accepted, started>>

\* Fault: notify_one() in place of notify_all().
NotifyAll_One ==
    /\ pc[Owner] = "notifyAll"
    /\ \/ Sleeping = {} /\ Goto(Owner, "join")
       \/ \E w \in Sleeping : pc' = [pc EXCEPT ![Owner] = "join", ![w] = "wake"]
    /\ UNCHANGED <<queue_mutex, tasks, stop, task, arg, future, joined, spurious,
                   accepted, started>>

NotifyAll ==
    /\ pc[Owner] = "notifyAll"
    /\ pc' = [t \in Threads |-> IF t \in Sleeping THEN "wake"
                                ELSE IF t = Owner THEN "join" ELSE pc[t]]
    /\ UNCHANGED <<queue_mutex, tasks, stop, task, arg, future, joined, spurious,
                   accepted, started>>

\* worker.join() returns once the thread function has.  The loop joins the
\* workers in the order of the vector; which goes first tells nothing apart.
Join(w) ==
    /\ pc[Owner] = "join"
    /\ w \notin joined
    /\ pc[w] = "done"
    /\ joined' = joined \cup {w}
    /\ UNCHANGED <<pc, queue_mutex, tasks, stop, task, arg, future, spurious,
                   accepted, started>>

\* The members are destroyed, and with them the promises of the tasks that are
\* still queued.
DestroyMembers ==
    /\ pc[Owner] = "join"
    /\ tasks' = <<>>
    /\ future' = [f \in Tasks |-> IF \E i \in DOMAIN tasks : tasks[i] = f
                                  THEN "broken" ELSE future[f]]
    /\ Goto(Owner, "destroyed")
    /\ UNCHANGED <<queue_mutex, stop, task, arg, joined, spurious, accepted, started>>

\* Fault: the workers are not joined.
Destroy_NoJoin == DestroyMembers

\* The body of the destructor is over.
Destroy == joined = Workers /\ DestroyMembers

------------------------------------------------------------------------------
WorkerStep(w) ==
    \/ WorkerLock(w) \/ PredicateFalse(w) \/ Block(w)
    \/ WorkerReturn(w) \/ Take(w) \/ Finish(w)

CallStep(t) == EnqueueLock(t) \/ EnqueueThrow(t) \/ EnqueuePush(t) \/ NotifyOne(t)

CtorStep == CtorDone \/ \E w \in Workers : Spawn(w)

DtorStep == DtorLock \/ DtorStop \/ NotifyAll \/ Destroy \/ \E w \in Workers : Join(w)

\* Nothing is left to run: the pool is gone, or the process is.
Halted ==
    /\ pc[Owner] \in {"destroyed", "ctorThrew", "aborted"}
    /\ UNCHANGED vars

Next ==
    \/ /\ pc[Owner] # "aborted"
       /\ \/ CtorStep
          \/ SpawnThrows
          \/ UnwindTerminates
          \/ \E w \in Workers : WorkerStep(w) \/ SpuriousWakeup(w)
          \/ \E t \in Threads : CallStep(t) \/ \E f \in Tasks : Enqueue(t, f)
          \/ Dtor
          \/ DtorStep
    \/ Halted

\* Every started thread keeps running, tasks end, and a constructor or a
\* destructor that has begun goes on.  Nobody has to call enqueue() or begin
\* the destructor, and no mutex is assumed to be fair.
Fairness ==
    /\ \A w \in Workers : WF_vars(Running /\ WorkerStep(w))
    /\ \A t \in Threads : WF_vars(Running /\ CallStep(t))
    /\ WF_vars(CtorStep)
    /\ WF_vars(DtorStep)

Spec == Init /\ [][Next]_vars

FairSpec == Spec /\ Fairness

------------------------------------------------------------------------------
TypeOK ==
    /\ pc \in [Threads -> WorkerPC \cup EnqueuePC \cup OwnerPC \cup {"idle"}]
    /\ \A w \in Workers : pc[w] \in WorkerPC \cup EnqueuePC
    /\ \A c \in Clients : pc[c] \in {"idle"} \cup EnqueuePC
    /\ pc[Owner] \in OwnerPC \cup EnqueuePC
    /\ queue_mutex \in Threads \cup {NoThread}
    /\ tasks \in Seq(Tasks)
    /\ stop \in BOOLEAN
    /\ task \in [Workers -> Tasks \cup {NoTask}]
    /\ arg \in [Threads -> Tasks \cup {NoTask}]
    /\ future \in [Tasks -> {"none", "pending", "refused", "broken"} \cup Ready]
    /\ joined \in SUBSET Workers
    /\ spurious \in 0..MaxSpurious
    /\ accepted \in Seq(Tasks)
    /\ started \in Seq(Tasks)

(***************************************************************************)
(* Safety.                                                                 *)
(***************************************************************************)
\* condition never loses a wakeup.  While a worker sleeps, every queued task
\* has a worker of its own on the way to the queue, or a notify_one() still to
\* come; and once stop is set nobody sleeps unless notify_all() is to come.
NoLostWakeup ==
    Sleeping # {} =>
        /\ Len(tasks) <= Cardinality(Awake) + Cardinality(Notifying)
        /\ stop => pc[Owner] = "notifyAll"

\* A task is started once, and in the order of the pushes: what was popped
\* followed by what is queued is what was pushed, and nothing was pushed twice.
\* (Only ThreadPool(0) can drop what is queued, when it is destroyed.)
StartedInOrder ==
    /\ Workers # {} \/ ~PoolDead => started \o tasks = accepted
    /\ \A i, j \in DOMAIN accepted : accepted[i] = accepted[j] => i = j

\* The places a task can be in: with its caller, in the queue, on a worker.
Holders(f) ==
    {<<"caller", t>> : t \in {u \in Threads : arg[u] = f}} \cup
    {<<"queue", i>> : i \in {j \in DOMAIN tasks : tasks[j] = f}} \cup
    {<<"worker", w>> : w \in {v \in Workers : task[v] = f}}

\* A future is pending exactly as long as its task is in one of these places,
\* and it is never in two: no promise is forgotten, none is kept twice.
OnePlacePerPromise ==
    \A f \in Tasks : IF future[f] = "pending"
                     THEN \E h \in Holders(f) : Holders(f) = {h}
                     ELSE Holders(f) = {}

\* Where a thread uses the pool's members, or will without asking again.
UsesPool(t) == pc[t] \notin {"unborn", "done", "idle"}

\* Neither a worker nor an enqueue() is left in a pool whose members have been
\* destroyed, by ~ThreadPool() or by a constructor that threw: with one exception,
\* the workers of a constructor that could not start them all.  These lose
\* nothing, for nobody has called enqueue(), and nobody catches that constructor's
\* exception, for the process ends.
NoUseAfterDestroy ==
    PoolDead => \A t \in Threads \ {Owner} :
        UsesPool(t) => pc[Owner] = "unwinding" /\ t \in Workers /\ accepted = <<>>

\* The destructor drains: when it returns, every task that was accepted has
\* run and no future is pending or broken.  ThreadPool(0) has nobody to run them.
DrainedWhenDestroyed ==
    pc[Owner] = "destroyed" /\ Workers # {} =>
        /\ \A i \in DOMAIN accepted : future[accepted[i]] \in Ready
        /\ \A f \in Tasks : future[f] \notin {"pending", "broken"}

(***************************************************************************)
(* Liveness.                                                               *)
(***************************************************************************)
\* The destructor wakes and joins every worker: it returns.
DestructorReturns == pc[Owner] = "dtorLock" ~> pc[Owner] = "destroyed"

(***************************************************************************)
(* The pool implements the executor its callers see.                       *)
(***************************************************************************)
Executor == INSTANCE TaskExecutor WITH
    Capacity <- Cardinality(Workers),
    status <- IF pc[Owner] = "destroyed" THEN "gone"
              ELSE IF stop THEN "closing" ELSE "open",
    queue <- tasks,
    running <- {task[w] : w \in Workers} \ {NoTask},
    finished <- {f \in Tasks : future[f] \in Ready},
    refused <- {f \in Tasks : future[f] = "refused"}

\* Every step of the pool is a step of the executor or changes nothing its
\* callers can see, and under fair threads it keeps the executor's promises: a
\* task that was accepted is run, whether or not the pool is ever destroyed.
ImplementsExecutor == Executor!Spec

==============================================================================
