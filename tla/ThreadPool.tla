------------------------------ MODULE ThreadPool ------------------------------
(***************************************************************************)
(* The worker pool of mtbl/threadpool.c: worker threads, the pool that     *)
(* lends them out, and result handlers that collect their results.         *)
(*                                                                         *)
(* Processes                                                               *)
(*   owner h      the caller that created result handler h (a writer or a  *)
(*                sorter); it dispatches jobs and destroys the handler     *)
(*   worker t     the thread running thread_worker()                       *)
(*   handler h    the thread running result_worker()                       *)
(*   destroyer    the caller of mtbl_threadpool_destroy()                  *)
(*                                                                         *)
(* One action is one critical section, or one stretch of code that touches *)
(* only data its thread owns.  A mutex that is never held across a wait is *)
(* implicit in the atomicity of the action; the pool mutex, which          *)
(* threadpool_destroy() holds while it joins a worker, is the variable     *)
(* poolHeld.  A condition variable is the set of threads whose program     *)
(* counter says that they sleep on it: pthread_cond_signal() makes one of  *)
(* them, if there is one, test its condition again, and a thread may also  *)
(* wake for no reason.                                                     *)
(***************************************************************************)
EXTENDS Integers, Sequences, FiniteSets

CONSTANTS
    Handlers,     \* result handlers, each with one owner
    Ordered,      \* handlers whose owner passes ordered = true (the writer)
    Jobs,         \* Jobs[h]: bound on the jobs owner h dispatches
    MaxThreads,   \* pool->max
    SizeMax,      \* largest value of size_t
    None          \* NULL: no callback, no result, no result queue

ASSUME HandlersAssumption ==
    /\ Ordered \subseteq Handlers
    /\ Jobs \in [Handlers -> Nat]
    /\ None \notin Handlers
    /\ None \notin Handlers \X Nat

ASSUME SizesAssumption ==
    /\ MaxThreads \in Nat \ {0}
    /\ SizeMax \in Nat
    /\ MaxThreads < SizeMax

Thread == 1..MaxThreads

\* Job i of handler h; it stands for (cb, arg), and for the result it yields.
Job == Handlers \X (Nat \ {0})

VARIABLES
    pool,         \* pool->head: the idle threads, last returned first
    count,        \* pool->count
    poolHeld,     \* pool->m is held by the destroyer
    running,      \* thr->running
    job,          \* thr->cb and thr->arg
    res,          \* thr->res
    rqOf,         \* thr->rq: where an unordered worker posts itself
    wpc,          \* program counter of worker t
    queue,        \* rq->head: threads with a result, or one to come
    finished,     \* rq->finished
    nthreads,     \* rq->nthreads, a size_t
    opc,          \* program counter of owner h
    othr,         \* local thr of threadpool_dispatch()
    sent,         \* number of jobs owner h has handed to a worker
    hpc,          \* program counter of handler h
    hthr,         \* local thr of resultq_next()
    hres,         \* local res of result_worker()
    delivered,    \* results passed to rh->cb(), in order
    dpc,          \* program counter of the destroyer
    dthr          \* local thr of threadpool_destroy()

poolVars    == <<pool, count, poolHeld>>
thrVars     == <<running, job, res, rqOf>>
queueVars   == <<queue, finished, nthreads>>
ownerVars   == <<opc, othr, sent>>
handlerVars == <<hpc, hthr, hres, delivered>>
destroyVars == <<dpc, dthr>>
vars == <<poolVars, thrVars, wpc, queueVars, ownerVars, handlerVars, destroyVars>>

Init ==
    /\ pool = <<>>
    /\ count = 0
    /\ poolHeld = FALSE
    /\ running = [t \in Thread |-> FALSE]
    /\ job = [t \in Thread |-> None]
    /\ res = [t \in Thread |-> None]
    /\ rqOf = [t \in Thread |-> None]
    /\ wpc = [t \in Thread |-> "absent"]
    /\ queue = [h \in Handlers |-> <<>>]
    /\ finished = [h \in Handlers |-> FALSE]
    /\ nthreads = [h \in Handlers |-> 0]
    /\ opc = [h \in Handlers |-> "idle"]
    /\ othr = [h \in Handlers |-> 0]
    /\ sent = [h \in Handlers |-> 0]
    /\ hpc = [h \in Handlers |-> "next"]
    /\ hthr = [h \in Handlers |-> 0]
    /\ hres = [h \in Handlers |-> None]
    /\ delivered = [h \in Handlers |-> <<>>]
    /\ dpc = "idle"
    /\ dthr = 0

-------------------------------------------------------------------------------
(* Helpers: the conditions the code waits for, and its condition variables *)

\* size_t arithmetic.
Inc(n) == IF n = SizeMax THEN 0 ELSE n + 1
Dec(n) == IF n = 0 THEN SizeMax ELSE n - 1

\* Plausible bugs, each one the body of a definition that follows it.
PoolExhaustedLate == pool = <<>> /\ count > MaxThreads
DrainedEarly(h) == finished[h]
QueueForEveryWorker(h) == h
PutInFront(q, t) == <<t>> \o q
NoIdleThread == pool = <<>>
SignalNobody == UNCHANGED <<opc, dpc>>
WokenByNothing(h) == hpc

PoolExhausted == pool = <<>> /\ count = MaxThreads

\* The test that lets a result handler's thread stop.
Drained(h) == finished[h] /\ nthreads[h] = 0

\* The queue an owner hands to the worker; an ordered owner queues the worker
\* itself, before the work is done.
QueueForWorker(h) == IF h \in Ordered THEN None ELSE h

\* *rq->ptail = thr; rq->ptail = &thr->next
Put(q, t) == Append(q, t)

\* while (pool->count > 0), in threadpool_destroy()
AllJoined == count = 0

\* pthread_cond_signal(&pool->c)
SignalPool ==
    \/ \E h \in Handlers :
          /\ opc[h] = "sleep"
          /\ opc' = [opc EXCEPT ![h] = "next"]
          /\ UNCHANGED dpc
    \/ /\ dpc = "sleep"
       /\ dpc' = "lock"
       /\ UNCHANGED opc
    \/ /\ dpc # "sleep"
       /\ \A h \in Handlers : opc[h] # "sleep"
       /\ UNCHANGED <<opc, dpc>>

\* pthread_cond_signal(&rq->c); only the handler's own thread waits on it.
WokenByQueue(h) ==
    IF hpc[h] = "sleep" THEN [hpc EXCEPT ![h] = "next"] ELSE hpc

\* Handlers asleep on thr->c, waiting for worker t's result.
AwaitingResult(t) == {h \in Handlers : hpc[h] = "await" /\ hthr[h] = t}

\* pthread_cond_signal(&thr->c), which the worker and a handler share
SignalThread(t) ==
    \/ /\ wpc[t] = "sleep"
       /\ wpc' = [wpc EXCEPT ![t] = "check"]
       /\ UNCHANGED hpc
    \/ /\ \E h \in AwaitingResult(t) : hpc' = [hpc EXCEPT ![h] = "collect"]
       /\ UNCHANGED wpc
    \/ /\ wpc[t] # "sleep"
       /\ AwaitingResult(t) = {}
       /\ UNCHANGED <<wpc, hpc>>

-------------------------------------------------------------------------------
(* Owner: threadpool_dispatch() and result_handler_destroy() *)

\* threadpool_next(), its critical section: sleep, take an idle thread or
\* count one that will be created.
TakeThread(h) ==
    /\ \/ opc[h] = "idle" /\ sent[h] < Jobs[h]
       \/ opc[h] = "next"
    /\ ~poolHeld
    /\ \/ /\ PoolExhausted
          /\ opc' = [opc EXCEPT ![h] = "sleep"]
          /\ UNCHANGED <<pool, count, othr>>
       \/ /\ pool # <<>>
          /\ pool' = Tail(pool)
          /\ othr' = [othr EXCEPT ![h] = Head(pool)]
          /\ opc' = [opc EXCEPT ![h] = "assign"]
          /\ UNCHANGED count
       \/ /\ pool = <<>>
          /\ ~PoolExhausted
          /\ count' = count + 1
          /\ othr' = [othr EXCEPT ![h] = count + 1]
          /\ opc' = [opc EXCEPT ![h] = "create"]
          /\ UNCHANGED pool
    /\ UNCHANGED <<poolHeld, thrVars, wpc, queueVars, sent, handlerVars, destroyVars>>

\* The end of threadpool_next(), outside the lock.
CreateThread(h) ==
    /\ opc[h] = "create"
    /\ wpc' = [wpc EXCEPT ![othr[h]] = "check"]
    /\ opc' = [opc EXCEPT ![h] = "assign"]
    /\ UNCHANGED <<poolVars, thrVars, queueVars, othr, sent, handlerVars, destroyVars>>

\* Hand the job over under thr->m and signal thr->c.
Assign(h) ==
    LET t == othr[h] IN
    /\ opc[h] = "assign"
    /\ job' = [job EXCEPT ![t] = <<h, sent[h] + 1>>]
    /\ sent' = [sent EXCEPT ![h] = @ + 1]
    /\ rqOf' = [rqOf EXCEPT ![t] = QueueForWorker(h)]
    /\ running' = [running EXCEPT ![t] = TRUE]
    /\ opc' = [opc EXCEPT ![h] = "enqueue"]
    /\ SignalThread(t)
    /\ UNCHANGED <<poolVars, res, queueVars, othr, hthr, hres, delivered, destroyVars>>

\* The second critical section of threadpool_dispatch(), under rq->m.  The
\* worker may already have run and been collected: nthreads then wraps.
Enqueue(h) ==
    /\ opc[h] = "enqueue"
    /\ nthreads' = [nthreads EXCEPT ![h] = Inc(@)]
    /\ IF h \in Ordered
       THEN /\ queue' = [queue EXCEPT ![h] = Put(@, othr[h])]
            /\ hpc' = WokenByQueue(h)
       ELSE UNCHANGED <<queue, hpc>>
    /\ opc' = [opc EXCEPT ![h] = "idle"]
    /\ othr' = [othr EXCEPT ![h] = 0]
    /\ UNCHANGED <<poolVars, thrVars, wpc, finished, sent, hthr, hres, delivered, destroyVars>>

\* result_handler_destroy(): resultq_finish(), then wait for the thread.
Finish(h) ==
    /\ opc[h] = "idle"
    /\ finished' = [finished EXCEPT ![h] = TRUE]
    /\ hpc' = WokenByQueue(h)
    /\ opc' = [opc EXCEPT ![h] = "join"]
    /\ UNCHANGED <<poolVars, thrVars, wpc, queue, nthreads, othr, sent,
                   hthr, hres, delivered, destroyVars>>

JoinHandler(h) ==
    /\ opc[h] = "join"
    /\ hpc[h] = "exited"
    /\ opc' = [opc EXCEPT ![h] = "done"]
    /\ UNCHANGED <<poolVars, thrVars, wpc, queueVars, othr, sent, handlerVars, destroyVars>>

-------------------------------------------------------------------------------
(* Worker: thread_worker() *)

\* while (!me->running) pthread_cond_wait(&me->c, &me->m)
AwaitJob(t) ==
    /\ wpc[t] = "check"
    /\ wpc' = [wpc EXCEPT ![t] = IF running[t] THEN "run" ELSE "sleep"]
    /\ UNCHANGED <<poolVars, thrVars, queueVars, ownerVars, handlerVars, destroyVars>>

\* A NULL callback ends the thread.
ExitWorker(t) ==
    /\ wpc[t] = "run"
    /\ job[t] = None
    /\ wpc' = [wpc EXCEPT ![t] = "exited"]
    /\ UNCHANGED <<poolVars, thrVars, queueVars, ownerVars, handlerVars, destroyVars>>

\* Call cb and clear the job; no lock is held.  me->rq, which the code also
\* moves to a local variable here, is cleared when the result is posted.
RunJob(t) ==
    /\ wpc[t] = "run"
    /\ job[t] # None
    /\ res' = [res EXCEPT ![t] = job[t]]
    /\ job' = [job EXCEPT ![t] = None]
    /\ wpc' = [wpc EXCEPT ![t] = IF rqOf[t] = None THEN "signal" ELSE "clear"]
    /\ UNCHANGED <<poolVars, running, rqOf, queueVars, ownerVars, handlerVars, destroyVars>>

\* me->running = false, without me->m
ClearRunning(t) ==
    /\ wpc[t] = "clear"
    /\ running' = [running EXCEPT ![t] = FALSE]
    /\ wpc' = [wpc EXCEPT ![t] = "post"]
    /\ UNCHANGED <<poolVars, job, res, rqOf, queueVars, ownerVars, handlerVars, destroyVars>>

\* Unordered: append self to the result queue under rq->m.
PostSelf(t) ==
    LET h == rqOf[t] IN
    /\ wpc[t] = "post"
    /\ queue' = [queue EXCEPT ![h] = Put(@, t)]
    /\ hpc' = WokenByQueue(h)
    /\ rqOf' = [rqOf EXCEPT ![t] = None]
    /\ wpc' = [wpc EXCEPT ![t] = "check"]
    /\ UNCHANGED <<poolVars, running, job, res, finished, nthreads, ownerVars,
                   hthr, hres, delivered, destroyVars>>

\* Ordered: clear running and signal thr->c under thr->m.
SignalResult(t) ==
    /\ wpc[t] = "signal"
    /\ running' = [running EXCEPT ![t] = FALSE]
    /\ \/ \E h \in AwaitingResult(t) : hpc' = [hpc EXCEPT ![h] = "collect"]
       \/ AwaitingResult(t) = {} /\ UNCHANGED hpc
    /\ wpc' = [wpc EXCEPT ![t] = "check"]
    /\ UNCHANGED <<poolVars, job, res, rqOf, queueVars, ownerVars,
                   hthr, hres, delivered, destroyVars>>

-------------------------------------------------------------------------------
(* Handler: result_worker() and resultq_next() *)

\* Take the first thread of the queue, stop, or sleep on rq->c.
NextResult(h) ==
    /\ hpc[h] = "next"
    /\ \/ /\ queue[h] # <<>>
          /\ hthr' = [hthr EXCEPT ![h] = Head(queue[h])]
          /\ queue' = [queue EXCEPT ![h] = Tail(@)]
          /\ nthreads' = [nthreads EXCEPT ![h] = Dec(@)]
          /\ hpc' = [hpc EXCEPT ![h] = "collect"]
       \/ /\ queue[h] = <<>>
          /\ hpc' = [hpc EXCEPT ![h] = IF Drained(h) THEN "destroy" ELSE "sleep"]
          /\ UNCHANGED <<hthr, queue, nthreads>>
    /\ UNCHANGED <<poolVars, thrVars, wpc, finished, ownerVars, hres, delivered, destroyVars>>

\* Wait until the worker has stopped running and take its result.
CollectResult(h) ==
    LET t == hthr[h] IN
    /\ hpc[h] = "collect"
    /\ \/ /\ running[t]
          /\ hpc' = [hpc EXCEPT ![h] = "await"]
          /\ UNCHANGED <<hres, res>>
       \/ /\ ~running[t]
          /\ hres' = [hres EXCEPT ![h] = res[t]]
          /\ res' = [res EXCEPT ![t] = None]
          /\ hpc' = [hpc EXCEPT ![h] = "return"]
    /\ UNCHANGED <<poolVars, running, job, rqOf, wpc, queueVars, ownerVars,
                   hthr, delivered, destroyVars>>

\* Push the thread on the pool under pool->m and signal pool->c.
ReturnThread(h) ==
    /\ hpc[h] = "return"
    /\ ~poolHeld
    /\ pool' = <<hthr[h]>> \o pool
    /\ hthr' = [hthr EXCEPT ![h] = 0]
    /\ SignalPool
    /\ hpc' = [hpc EXCEPT ![h] = "callback"]
    /\ UNCHANGED <<count, poolHeld, thrVars, wpc, queueVars, othr, sent,
                   hres, delivered, dthr>>

\* rh->cb(res, rh->cbdata)
Callback(h) ==
    /\ hpc[h] = "callback"
    /\ delivered' = [delivered EXCEPT ![h] = Append(@, hres[h])]
    /\ hres' = [hres EXCEPT ![h] = None]
    /\ hpc' = [hpc EXCEPT ![h] = "next"]
    /\ UNCHANGED <<poolVars, thrVars, wpc, queueVars, ownerVars, hthr, destroyVars>>

\* resultq_destroy(), then the thread ends.
ExitHandler(h) ==
    /\ hpc[h] = "destroy"
    /\ hpc' = [hpc EXCEPT ![h] = "exited"]
    /\ UNCHANGED <<poolVars, thrVars, wpc, queueVars, ownerVars, hthr, hres,
                   delivered, destroyVars>>

-------------------------------------------------------------------------------
(* Destroyer: threadpool_destroy().  A pool is destroyed after use: no owner *)
(* is dispatching, or will dispatch, but handlers may still be collecting.   *)

StartDestroy ==
    /\ dpc = "idle"
    /\ \A h \in Handlers : opc[h] \in {"join", "done"}
    /\ dpc' = "lock"
    /\ UNCHANGED <<poolVars, thrVars, wpc, queueVars, ownerVars, handlerVars, dthr>>

\* Acquire pool->m, at first and after each wake-up.
LockPool ==
    /\ dpc = "lock"
    /\ poolHeld' = TRUE
    /\ dpc' = "loop"
    /\ UNCHANGED <<pool, count, thrVars, wpc, queueVars, ownerVars, handlerVars, dthr>>

\* pthread_cond_wait() on pool->c, while threads are lent out.
AwaitIdle ==
    /\ dpc = "loop"
    /\ ~AllJoined
    /\ pool = <<>>
    /\ poolHeld' = FALSE
    /\ dpc' = "sleep"
    /\ UNCHANGED <<pool, count, thrVars, wpc, queueVars, ownerVars, handlerVars, dthr>>

\* Pop an idle thread and wake it with a NULL callback.
StopThread ==
    /\ dpc = "loop"
    /\ ~AllJoined
    /\ pool # <<>>
    /\ dthr' = Head(pool)
    /\ pool' = Tail(pool)
    /\ running' = [running EXCEPT ![Head(pool)] = TRUE]
    /\ SignalThread(Head(pool))
    /\ dpc' = "join"
    /\ UNCHANGED <<count, poolHeld, job, res, rqOf, queueVars, ownerVars,
                   hthr, hres, delivered>>

\* pthread_join(), free(thr)
JoinThread ==
    /\ dpc = "join"
    /\ wpc[dthr] = "exited"
    /\ wpc' = [wpc EXCEPT ![dthr] = "freed"]
    /\ count' = count - 1
    /\ dthr' = 0
    /\ dpc' = "loop"
    /\ UNCHANGED <<pool, poolHeld, thrVars, queueVars, ownerVars, handlerVars>>

\* The pool is empty: release pool->m and free the pool.
FreePool ==
    /\ dpc = "loop"
    /\ AllJoined
    /\ poolHeld' = FALSE
    /\ dpc' = "done"
    /\ UNCHANGED <<pool, count, thrVars, wpc, queueVars, ownerVars, handlerVars, dthr>>

-------------------------------------------------------------------------------
(* Spurious wake-ups, which pthread_cond_wait() allows. *)

WakeOwner(h) ==
    /\ opc[h] = "sleep"
    /\ opc' = [opc EXCEPT ![h] = "next"]
    /\ UNCHANGED <<poolVars, thrVars, wpc, queueVars, othr, sent, handlerVars, destroyVars>>

WakeHandler(h) ==
    /\ \/ hpc[h] = "sleep" /\ hpc' = [hpc EXCEPT ![h] = "next"]
       \/ hpc[h] = "await" /\ hpc' = [hpc EXCEPT ![h] = "collect"]
    /\ UNCHANGED <<poolVars, thrVars, wpc, queueVars, ownerVars, hthr, hres,
                   delivered, destroyVars>>

WakeWorker(t) ==
    /\ wpc[t] = "sleep"
    /\ wpc' = [wpc EXCEPT ![t] = "check"]
    /\ UNCHANGED <<poolVars, thrVars, queueVars, ownerVars, handlerVars, destroyVars>>

WakeDestroyer ==
    /\ dpc = "sleep"
    /\ dpc' = "lock"
    /\ UNCHANGED <<poolVars, thrVars, wpc, queueVars, ownerVars, handlerVars, dthr>>

-------------------------------------------------------------------------------
Owner(h) == TakeThread(h) \/ CreateThread(h) \/ Assign(h) \/ Enqueue(h)
            \/ Finish(h) \/ JoinHandler(h)

Worker(t) == AwaitJob(t) \/ ExitWorker(t) \/ RunJob(t) \/ ClearRunning(t)
             \/ PostSelf(t) \/ SignalResult(t)

Handler(h) == NextResult(h) \/ CollectResult(h) \/ ReturnThread(h)
              \/ Callback(h) \/ ExitHandler(h)

Destroyer == StartDestroy \/ LockPool \/ AwaitIdle \/ StopThread
             \/ JoinThread \/ FreePool

Spurious == \/ \E h \in Handlers : WakeOwner(h) \/ WakeHandler(h)
            \/ \E t \in Thread : WakeWorker(t)
            \/ WakeDestroyer

Next == \/ \E h \in Handlers : Owner(h) \/ Handler(h)
        \/ \E t \in Thread : Worker(t)
        \/ Destroyer
        \/ Spurious

Spec == Init /\ [][Next]_vars

\* Every thread is scheduled, and one that waits for pool->m, which a destroyer
\* with endless spurious wake-ups takes and releases for ever, gets it in the
\* end.  Nothing is assumed of spurious wake-ups, nor of the application: an
\* owner need not dispatch again or destroy its handler.
ThreadFairness ==
    /\ \A h \in Handlers : WF_vars(opc[h] # "idle" /\ Owner(h)) /\ WF_vars(Handler(h))
                           /\ SF_vars(ReturnThread(h))
    /\ \A t \in Thread : WF_vars(Worker(t))
    /\ WF_vars(dpc # "idle" /\ Destroyer)

ServiceFairSpec == Spec /\ ThreadFairness

-------------------------------------------------------------------------------
(* Properties *)

WorkerPC == {"absent", "check", "sleep", "run", "clear", "post", "signal",
             "exited", "freed"}
OwnerPC == {"idle", "next", "sleep", "create", "assign", "enqueue", "join", "done"}
HandlerPC == {"next", "sleep", "collect", "await", "return", "callback",
              "destroy", "exited"}
DestroyerPC == {"idle", "lock", "loop", "sleep", "join", "done"}

\* The type invariant, one part for each structure.
PoolOK ==
    /\ pool \in Seq(Thread)
    /\ count \in 0..MaxThreads
ThreadOK ==
    /\ running \in [Thread -> BOOLEAN]
    /\ job \in [Thread -> Job \cup {None}]
    /\ res \in [Thread -> Job \cup {None}]
    /\ rqOf \in [Thread -> Handlers \cup {None}]
    /\ wpc \in [Thread -> WorkerPC]
QueueOK ==
    /\ queue \in [Handlers -> Seq(Thread)]
    /\ finished \in [Handlers -> BOOLEAN]
    /\ nthreads \in [Handlers -> 0..SizeMax]
OwnerOK ==
    /\ opc \in [Handlers -> OwnerPC]
    /\ othr \in [Handlers -> Thread \cup {0}]
    /\ sent \in [Handlers -> Nat]
HandlerOK ==
    /\ hpc \in [Handlers -> HandlerPC]
    /\ hthr \in [Handlers -> Thread \cup {0}]
    /\ hres \in [Handlers -> Job \cup {None}]
    /\ delivered \in [Handlers -> Seq(Job \cup {None})]
DestroyerOK ==
    /\ dpc \in DestroyerPC
    /\ dthr \in Thread \cup {0}

TypeOK ==
    /\ poolHeld \in BOOLEAN
    /\ PoolOK /\ ThreadOK /\ QueueOK /\ OwnerOK /\ HandlerOK /\ DestroyerOK

\* An idle thread: no job, no result, not running.
Idle(t) == job[t] = None /\ res[t] = None /\ ~running[t]

Alive(t) == wpc[t] \notin {"absent", "freed"}

\* Where the program still refers to thread t.  An unordered worker that has
\* been handed a job belongs to nobody until it posts itself.
InPool(t) == {<<"pool", i>> : i \in {k \in DOMAIN pool : pool[k] = t}}
InQueue(t, h) == {<<"queue", h, i>> : i \in {k \in DOMAIN queue[h] : queue[h][k] = t}}
InQueues(t) == UNION {InQueue(t, h) : h \in Handlers}
WithOwner(t) == {<<"owner", h>> : h \in {g \in Handlers :
                    /\ othr[g] = t
                    /\ opc[g] = "assign" \/ (opc[g] = "enqueue" /\ g \in Ordered)}}
WithHandler(t) == {<<"handler", h>> : h \in {g \in Handlers : hthr[g] = t}}
WithItself(t) == IF rqOf[t] # None THEN {<<"worker">>} ELSE {}
WithDestroyer(t) == IF dthr = t THEN {<<"destroyer">>} ELSE {}

Places(t) == InPool(t) \cup InQueues(t) \cup WithOwner(t) \cup WithHandler(t)
             \cup WithItself(t) \cup WithDestroyer(t)

\* The assertions of threadpool_next(), threadpool_dispatch(),
\* threadpool_destroy() and resultq_destroy() hold whenever they are reached,
\* though most of the fields they read are written without a lock.
AssertsHold ==
    /\ pool # <<>> => Idle(Head(pool))
    /\ \A h \in Handlers :
          /\ opc[h] = "assign" => Idle(othr[h]) /\ Places(othr[h]) = {<<"owner", h>>}
          /\ opc[h] = "enqueue" => ~finished[h]
          /\ hpc[h] = "destroy" => queue[h] = <<>> /\ finished[h] /\ nthreads[h] = 0

\* A thread is never lost and never lent twice: at any time exactly one of
\* the pool, an owner, a result queue, a handler, the destroyer or the
\* unordered worker itself has it.
ThreadPlaced == \A t \in Thread : Alive(t) => \E p \in Places(t) : Places(t) = {p}

\* No thread is used after it is freed: nobody refers to a thread that
\* threadpool_destroy() has freed, and when it returns every thread has been
\* freed and no handler will touch the pool again.
NoUseAfterFree ==
    /\ \A t \in Thread : wpc[t] = "freed" => Places(t) = {}
    /\ dpc = "done" => /\ \A t \in Thread : ~Alive(t)
                       /\ \A h \in Handlers : hthr[h] = 0

\* The pool implements the abstract job service: exactly-once delivery, in the
\* order of dispatch for an ordered handler, all of it before
\* result_handler_destroy() returns.
Service == INSTANCE JobService WITH
    closed <- [h \in Handlers |-> opc[h] = "done"]

ServiceSpec == Service!Spec

\* From some time on every job that was dispatched has been delivered and no call
\* is in progress: each threadpool_dispatch(), result_handler_destroy() and
\* threadpool_destroy() that was entered has returned, whether or not the
\* application goes on to destroy the rest.  No wake-up is lost on the three
\* condition variables, and nobody waits for one who waits for him.  (The number
\* of jobs is bounded, so that nothing is dispatched from some time on.)
JobsDelivered ==
    <>[](/\ \A h \in Handlers : Len(delivered[h]) = sent[h] /\ opc[h] \in {"idle", "done"}
         /\ dpc \in {"idle", "done"})

===============================================================================
