-------------------------- MODULE ThreadPool_proofs --------------------------
(***************************************************************************)
(* Proofs about ThreadPool, for any set of handlers, any number of threads *)
(* and any number of jobs.                                                 *)
(***************************************************************************)
EXTENDS ThreadPool, SequenceTheorems, FiniteSetTheorems, TLAPS

USE HandlersAssumption, SizesAssumption
    DEF HandlersAssumption, SizesAssumption,
        WorkerPC, OwnerPC, HandlerPC, DestroyerPC,
        vars, poolVars, thrVars, queueVars, ownerVars, handlerVars, destroyVars

-------------------------------------------------------------------------------
(* Type correctness *)

\* TypeOK is not inductive: a thread is pushed and appended from local
\* variables, which must hold a thread at that point, and pool->count is
\* decremented after a join.
OwnerLocals ==
    \A h \in Handlers : opc[h] \in {"create", "assign", "enqueue"} => othr[h] \in Thread
HandlerLocals ==
    \A h \in Handlers : hpc[h] \in {"collect", "await", "return"} => hthr[h] \in Thread
DestroyerLocals ==
    dpc = "join" => dthr \in Thread /\ count > 0

LocalsOK == OwnerLocals /\ HandlerLocals /\ DestroyerLocals

TypeInv == TypeOK /\ LocalsOK

LEMMA HeadTail ==
    ASSUME NEW S, NEW q \in Seq(S), q # <<>>
    PROVE  Head(q) \in S /\ Tail(q) \in Seq(S)
OBVIOUS

\* size_t stays in its range.
LEMMA SizeType ==
    ASSUME NEW n \in 0..SizeMax
    PROVE  Inc(n) \in 0..SizeMax /\ Dec(n) \in 0..SizeMax
BY DEF Inc, Dec

\* A signal wakes at most one sleeper, which tests its condition again.
LEMMA SignalPoolWakes ==
    ASSUME OwnerOK, DestroyerOK, SignalPool
    PROVE  /\ opc' \in [Handlers -> OwnerPC]
           /\ dpc' \in DestroyerPC
           /\ \A h \in Handlers : opc'[h] = opc[h] \/ (opc[h] = "sleep" /\ opc'[h] = "next")
           /\ dpc' = dpc \/ (dpc = "sleep" /\ dpc' = "lock")
BY DEF OwnerOK, DestroyerOK, SignalPool

LEMMA SignalThreadWakes ==
    ASSUME ThreadOK, HandlerOK, NEW t, SignalThread(t)
    PROVE  /\ wpc' \in [Thread -> WorkerPC]
           /\ hpc' \in [Handlers -> HandlerPC]
           /\ \A u \in Thread : wpc'[u] = wpc[u] \/ (wpc[u] = "sleep" /\ wpc'[u] = "check")
           /\ \A h \in Handlers :
                 hpc'[h] = hpc[h] \/ (hpc[h] = "await" /\ hpc'[h] = "collect")
<1>1. CASE wpc[t] = "sleep" /\ wpc' = [wpc EXCEPT ![t] = "check"] /\ UNCHANGED hpc
    BY <1>1 DEF ThreadOK, HandlerOK
<1>2. CASE UNCHANGED wpc /\ \E h \in AwaitingResult(t) : hpc' = [hpc EXCEPT ![h] = "collect"]
    <2>1. PICK h \in AwaitingResult(t) : hpc' = [hpc EXCEPT ![h] = "collect"]
        BY <1>2
    <2>2. h \in Handlers /\ hpc[h] = "await"
        BY <2>1 DEF AwaitingResult
    <2>3. QED
        BY <1>2, <2>1, <2>2 DEF ThreadOK, HandlerOK
<1>3. CASE UNCHANGED <<wpc, hpc>>
    BY <1>3 DEF ThreadOK, HandlerOK
<1>4. QED
    BY <1>1, <1>2, <1>3 DEF SignalThread

LEMMA SignalResultWakes ==
    ASSUME HandlerOK, NEW t,
           \/ \E h \in AwaitingResult(t) : hpc' = [hpc EXCEPT ![h] = "collect"]
           \/ UNCHANGED hpc
    PROVE  /\ hpc' \in [Handlers -> HandlerPC]
           /\ \A h \in Handlers :
                 hpc'[h] = hpc[h] \/ (hpc[h] = "await" /\ hpc'[h] = "collect")
<1>1. CASE \E h \in AwaitingResult(t) : hpc' = [hpc EXCEPT ![h] = "collect"]
    <2>1. PICK h \in AwaitingResult(t) : hpc' = [hpc EXCEPT ![h] = "collect"]
        BY <1>1
    <2>2. h \in Handlers /\ hpc[h] = "await"
        BY <2>1 DEF AwaitingResult
    <2>3. QED
        BY <2>1, <2>2 DEF HandlerOK
<1>2. CASE UNCHANGED hpc
    BY <1>2 DEF HandlerOK
<1>3. QED
    BY <1>1, <1>2

LEMMA WokenByQueueWakes ==
    ASSUME HandlerOK, NEW h
    PROVE  /\ WokenByQueue(h) \in [Handlers -> HandlerPC]
           /\ \A g \in Handlers : \/ WokenByQueue(h)[g] = hpc[g]
                                  \/ hpc[g] = "sleep" /\ WokenByQueue(h)[g] = "next"
BY DEF HandlerOK, WokenByQueue

LEMMA TypeInit == Init => TypeInv
<1> SUFFICES ASSUME Init PROVE TypeInv
    OBVIOUS
<1> USE DEF Init
<1>1. poolHeld \in BOOLEAN
    OBVIOUS
<1>2. PoolOK
    BY DEF PoolOK
<1>3. ThreadOK
    BY DEF ThreadOK
<1>4. QueueOK
    BY DEF QueueOK
<1>5. OwnerOK /\ HandlerOK
    BY DEF OwnerOK, HandlerOK
<1>6. DestroyerOK
    BY DEF DestroyerOK
<1>7. LocalsOK
    BY DEF LocalsOK, OwnerLocals, HandlerLocals, DestroyerLocals
<1>8. QED
    BY <1>1, <1>2, <1>3, <1>4, <1>5, <1>6, <1>7 DEF TypeInv, TypeOK

LEMMA PoolStep == TypeInv /\ [Next]_vars => PoolOK'
<1> SUFFICES ASSUME TypeInv, [Next]_vars PROVE PoolOK'
    OBVIOUS
<1> USE DEF TypeInv, TypeOK, PoolOK
<1>1. ASSUME NEW h \in Handlers, TakeThread(h) PROVE PoolOK'
    <2>1. CASE pool # <<>> /\ pool' = Tail(pool) /\ UNCHANGED count
        BY <2>1, HeadTail
    <2>2. CASE ~PoolExhausted /\ pool = <<>> /\ count' = count + 1 /\ UNCHANGED pool
        BY <2>2 DEF PoolExhausted
    <2>3. CASE UNCHANGED <<pool, count>>
        BY <2>3
    <2>4. QED
        BY <1>1, <2>1, <2>2, <2>3 DEF TakeThread
<1>2. ASSUME NEW h \in Handlers, ReturnThread(h) PROVE PoolOK'
    BY <1>2 DEF ReturnThread, LocalsOK, HandlerLocals
<1>3. ASSUME LockPool PROVE PoolOK'
    BY <1>3 DEF LockPool
<1>4. ASSUME AwaitIdle PROVE PoolOK'
    BY <1>4 DEF AwaitIdle
<1>5. ASSUME StopThread PROVE PoolOK'
    BY <1>5 DEF StopThread, AllJoined
<1>6. ASSUME JoinThread PROVE PoolOK'
    BY <1>6 DEF JoinThread, LocalsOK, DestroyerLocals
<1>7. ASSUME FreePool PROVE PoolOK'
    BY <1>7 DEF FreePool
<1>8. CASE UNCHANGED poolVars
    BY <1>8
<1>9. QED
    BY <1>1, <1>2, <1>3, <1>4, <1>5, <1>6, <1>7, <1>8
    DEF Next, Owner, Worker, Handler, Destroyer, Spurious,
        CreateThread, Assign, Enqueue, Finish, JoinHandler, AwaitJob, ExitWorker, RunJob, ClearRunning, PostSelf, SignalResult, NextResult, CollectResult, Callback, ExitHandler, StartDestroy, WakeOwner, WakeHandler, WakeWorker, WakeDestroyer

LEMMA ThreadStep == TypeInv /\ [Next]_vars => ThreadOK'
<1> SUFFICES ASSUME TypeInv, [Next]_vars PROVE ThreadOK'
    OBVIOUS
<1> USE DEF TypeInv, TypeOK, ThreadOK
<1>1. ASSUME NEW h \in Handlers, CreateThread(h) PROVE ThreadOK'
    BY <1>1 DEF CreateThread
<1>2. ASSUME NEW h \in Handlers, Assign(h) PROVE ThreadOK'
    <2>1. <<h, sent[h] + 1>> \in Job
        BY DEF OwnerOK, Job
    <2>2. QueueForWorker(h) \in Handlers \cup {None}
        BY DEF QueueForWorker
    <2>3. wpc' \in [Thread -> WorkerPC]
        BY <1>2, SignalThreadWakes DEF Assign
    <2>4. QED
        BY <1>2, <2>1, <2>2, <2>3 DEF Assign
<1>3. ASSUME NEW t \in Thread, AwaitJob(t) PROVE ThreadOK'
    BY <1>3 DEF AwaitJob
<1>4. ASSUME NEW t \in Thread, ExitWorker(t) PROVE ThreadOK'
    BY <1>4 DEF ExitWorker
<1>5. ASSUME NEW t \in Thread, RunJob(t) PROVE ThreadOK'
    BY <1>5 DEF RunJob
<1>6. ASSUME NEW t \in Thread, ClearRunning(t) PROVE ThreadOK'
    BY <1>6 DEF ClearRunning
<1>7. ASSUME NEW t \in Thread, PostSelf(t) PROVE ThreadOK'
    BY <1>7 DEF PostSelf
<1>8. ASSUME NEW t \in Thread, SignalResult(t) PROVE ThreadOK'
    BY <1>8 DEF SignalResult
<1>9. ASSUME NEW h \in Handlers, CollectResult(h) PROVE ThreadOK'
    BY <1>9 DEF CollectResult
<1>10. ASSUME StopThread PROVE ThreadOK'
    BY <1>10, SignalThreadWakes DEF StopThread, AllJoined
<1>11. ASSUME JoinThread PROVE ThreadOK'
    BY <1>11 DEF JoinThread, LocalsOK, DestroyerLocals
<1>12. ASSUME NEW t \in Thread, WakeWorker(t) PROVE ThreadOK'
    BY <1>12 DEF WakeWorker
<1>13. CASE UNCHANGED <<thrVars, wpc>>
    BY <1>13
<1>14. QED
    BY <1>1, <1>2, <1>3, <1>4, <1>5, <1>6, <1>7, <1>8, <1>9, <1>10, <1>11, <1>12, <1>13
    DEF Next, Owner, Worker, Handler, Destroyer, Spurious,
        TakeThread, Enqueue, Finish, JoinHandler, NextResult, ReturnThread, Callback, ExitHandler, StartDestroy, LockPool, AwaitIdle, FreePool, WakeOwner, WakeHandler, WakeDestroyer

LEMMA QueueStep == TypeInv /\ [Next]_vars => QueueOK'
<1> SUFFICES ASSUME TypeInv, [Next]_vars PROVE QueueOK'
    OBVIOUS
<1> USE DEF TypeInv, TypeOK, QueueOK
<1>1. ASSUME NEW h \in Handlers, Enqueue(h) PROVE QueueOK'
    <2>1. othr[h] \in Thread /\ Inc(nthreads[h]) \in 0..SizeMax
        BY <1>1, SizeType DEF Enqueue, LocalsOK, OwnerLocals
    <2>2. Put(queue[h], othr[h]) \in Seq(Thread)
        BY <2>1 DEF Put
    <2>3. QED
        BY <1>1, <2>1, <2>2 DEF Enqueue
<1>2. ASSUME NEW h \in Handlers, Finish(h) PROVE QueueOK'
    BY <1>2 DEF Finish
<1>3. ASSUME NEW t \in Thread, PostSelf(t) PROVE QueueOK'
    <2>1. CASE rqOf[t] \in Handlers
        <3>1. Put(queue[rqOf[t]], t) \in Seq(Thread)
            BY <2>1 DEF Put
        <3>2. QED
            BY <1>3, <2>1, <3>1 DEF PostSelf
    <2>2. CASE rqOf[t] \notin Handlers
        <3>1. queue' = queue
            BY <1>3, <2>2 DEF PostSelf
        <3>2. QED
            BY <1>3, <3>1 DEF PostSelf
    <2>3. QED
        BY <2>1, <2>2
<1>4. ASSUME NEW h \in Handlers, NextResult(h) PROVE QueueOK'
    <2>1. Dec(nthreads[h]) \in 0..SizeMax
        BY SizeType
    <2>2. queue[h] # <<>> => Tail(queue[h]) \in Seq(Thread)
        BY HeadTail
    <2>3. CASE queue[h] = <<>>
        BY <1>4, <2>3 DEF NextResult
    <2>4. CASE queue[h] # <<>>
        <3>1. /\ queue' = [queue EXCEPT ![h] = Tail(queue[h])]
              /\ nthreads' = [nthreads EXCEPT ![h] = Dec(nthreads[h])]
              /\ finished' = finished
            BY <1>4, <2>4 DEF NextResult
        <3>2. QED
            BY <2>1, <2>2, <2>4, <3>1
    <2>5. QED
        BY <2>3, <2>4
<1>5. CASE UNCHANGED queueVars
    BY <1>5
<1>6. QED
    BY <1>1, <1>2, <1>3, <1>4, <1>5
    DEF Next, Owner, Worker, Handler, Destroyer, Spurious,
        TakeThread, CreateThread, Assign, JoinHandler, AwaitJob, ExitWorker, RunJob, ClearRunning, SignalResult, CollectResult, ReturnThread, Callback, ExitHandler, StartDestroy, LockPool, AwaitIdle, StopThread, JoinThread, FreePool, WakeOwner, WakeHandler, WakeWorker, WakeDestroyer

LEMMA OwnerStep == TypeInv /\ [Next]_vars => OwnerOK'
<1> SUFFICES ASSUME TypeInv, [Next]_vars PROVE OwnerOK'
    OBVIOUS
<1> USE DEF TypeInv, TypeOK, OwnerOK
<1>1. ASSUME NEW h \in Handlers, TakeThread(h) PROVE OwnerOK'
    <2>1. CASE opc' = [opc EXCEPT ![h] = "sleep"] /\ UNCHANGED othr
        BY <1>1, <2>1 DEF TakeThread
    <2>2. CASE /\ pool # <<>>
               /\ othr' = [othr EXCEPT ![h] = Head(pool)]
               /\ opc' = [opc EXCEPT ![h] = "assign"]
        BY <1>1, <2>2, HeadTail DEF TakeThread, PoolOK
    <2>3. CASE /\ pool = <<>> /\ ~PoolExhausted
               /\ othr' = [othr EXCEPT ![h] = count + 1]
               /\ opc' = [opc EXCEPT ![h] = "create"]
        <3>1. count + 1 \in Thread
            BY <2>3 DEF PoolExhausted, PoolOK, Thread
        <3>2. QED
            BY <1>1, <2>3, <3>1 DEF TakeThread
    <2>4. QED
        BY <1>1, <2>1, <2>2, <2>3 DEF TakeThread
<1>2. ASSUME NEW h \in Handlers, CreateThread(h) PROVE OwnerOK'
    BY <1>2 DEF CreateThread
<1>3. ASSUME NEW h \in Handlers, Assign(h) PROVE OwnerOK'
    BY <1>3 DEF Assign, QueueForWorker
<1>4. ASSUME NEW h \in Handlers, Enqueue(h) PROVE OwnerOK'
    BY <1>4 DEF Enqueue, LocalsOK
<1>5. ASSUME NEW h \in Handlers, Finish(h) PROVE OwnerOK'
    BY <1>5 DEF Finish
<1>6. ASSUME NEW h \in Handlers, JoinHandler(h) PROVE OwnerOK'
    BY <1>6 DEF JoinHandler
<1>7. ASSUME NEW h \in Handlers, ReturnThread(h) PROVE OwnerOK'
    BY <1>7, SignalPoolWakes DEF ReturnThread, LocalsOK, HandlerLocals
<1>8. ASSUME NEW h \in Handlers, WakeOwner(h) PROVE OwnerOK'
    BY <1>8 DEF WakeOwner
<1>9. CASE UNCHANGED ownerVars
    BY <1>9
<1>10. QED
    BY <1>1, <1>2, <1>3, <1>4, <1>5, <1>6, <1>7, <1>8, <1>9
    DEF Next, Owner, Worker, Handler, Destroyer, Spurious,
        AwaitJob, ExitWorker, RunJob, ClearRunning, PostSelf, SignalResult, NextResult, CollectResult, Callback, ExitHandler, StartDestroy, LockPool, AwaitIdle, StopThread, JoinThread, FreePool, WakeHandler, WakeWorker, WakeDestroyer

LEMMA HandlerStep == TypeInv /\ [Next]_vars => HandlerOK'
<1> SUFFICES ASSUME TypeInv, [Next]_vars PROVE HandlerOK'
    OBVIOUS
<1> USE DEF TypeInv, TypeOK, HandlerOK
<1>1. ASSUME NEW h \in Handlers, Assign(h) PROVE HandlerOK'
    BY <1>1, SignalThreadWakes DEF Assign, QueueForWorker
<1>2. ASSUME NEW h \in Handlers, Enqueue(h) PROVE HandlerOK'
    BY <1>2, WokenByQueueWakes DEF Enqueue, LocalsOK
<1>3. ASSUME NEW h \in Handlers, Finish(h) PROVE HandlerOK'
    BY <1>3, WokenByQueueWakes DEF Finish
<1>4. ASSUME NEW t \in Thread, PostSelf(t) PROVE HandlerOK'
    BY <1>4, WokenByQueueWakes DEF PostSelf
<1>5. ASSUME NEW t \in Thread, SignalResult(t) PROVE HandlerOK'
    BY <1>5, SignalResultWakes DEF SignalResult
<1>6. ASSUME NEW h \in Handlers, NextResult(h) PROVE HandlerOK'
    <2>1. queue[h] # <<>> => Head(queue[h]) \in Thread
        BY HeadTail DEF QueueOK
    <2>2. CASE queue[h] = <<>>
        BY <1>6, <2>2 DEF NextResult
    <2>3. CASE queue[h] # <<>>
        <3>1. /\ hthr' = [hthr EXCEPT ![h] = Head(queue[h])]
              /\ hpc' = [hpc EXCEPT ![h] = "collect"]
              /\ UNCHANGED <<hres, delivered>>
            BY <1>6, <2>3 DEF NextResult
        <3>2. QED
            BY <2>1, <2>3, <3>1
    <2>4. QED
        BY <2>2, <2>3
<1>7. ASSUME NEW h \in Handlers, CollectResult(h) PROVE HandlerOK'
    <2>1. res[hthr[h]] \in Job \cup {None}
        BY <1>7 DEF CollectResult, ThreadOK, LocalsOK, HandlerLocals
    <2>2. QED
        BY <1>7, <2>1 DEF CollectResult
<1>8. ASSUME NEW h \in Handlers, ReturnThread(h) PROVE HandlerOK'
    BY <1>8 DEF ReturnThread, LocalsOK, HandlerLocals
<1>9. ASSUME NEW h \in Handlers, Callback(h) PROVE HandlerOK'
    BY <1>9 DEF Callback
<1>10. ASSUME NEW h \in Handlers, ExitHandler(h) PROVE HandlerOK'
    BY <1>10 DEF ExitHandler
<1>11. ASSUME StopThread PROVE HandlerOK'
    BY <1>11, SignalThreadWakes DEF StopThread, AllJoined
<1>12. ASSUME NEW h \in Handlers, WakeHandler(h) PROVE HandlerOK'
    BY <1>12 DEF WakeHandler
<1>13. CASE UNCHANGED handlerVars
    BY <1>13
<1>14. QED
    BY <1>1, <1>2, <1>3, <1>4, <1>5, <1>6, <1>7, <1>8, <1>9, <1>10, <1>11, <1>12, <1>13
    DEF Next, Owner, Worker, Handler, Destroyer, Spurious,
        TakeThread, CreateThread, JoinHandler, AwaitJob, ExitWorker, RunJob, ClearRunning, StartDestroy, LockPool, AwaitIdle, JoinThread, FreePool, WakeOwner, WakeWorker, WakeDestroyer

LEMMA DestroyerStep == TypeInv /\ [Next]_vars => DestroyerOK'
<1> SUFFICES ASSUME TypeInv, [Next]_vars PROVE DestroyerOK'
    OBVIOUS
<1> USE DEF TypeInv, TypeOK, DestroyerOK
<1>1. ASSUME NEW h \in Handlers, ReturnThread(h) PROVE DestroyerOK'
    BY <1>1, SignalPoolWakes DEF ReturnThread, LocalsOK, HandlerLocals
<1>2. ASSUME StartDestroy PROVE DestroyerOK'
    BY <1>2 DEF StartDestroy
<1>3. ASSUME LockPool PROVE DestroyerOK'
    BY <1>3 DEF LockPool
<1>4. ASSUME AwaitIdle PROVE DestroyerOK'
    BY <1>4 DEF AwaitIdle
<1>5. ASSUME StopThread PROVE DestroyerOK'
    BY <1>5, HeadTail DEF StopThread, PoolOK
<1>6. ASSUME JoinThread PROVE DestroyerOK'
    BY <1>6 DEF JoinThread, LocalsOK, DestroyerLocals
<1>7. ASSUME FreePool PROVE DestroyerOK'
    BY <1>7 DEF FreePool
<1>8. ASSUME WakeDestroyer PROVE DestroyerOK'
    BY <1>8 DEF WakeDestroyer
<1>9. CASE UNCHANGED destroyVars
    BY <1>9
<1>10. QED
    BY <1>1, <1>2, <1>3, <1>4, <1>5, <1>6, <1>7, <1>8, <1>9
    DEF Next, Owner, Worker, Handler, Destroyer, Spurious,
        TakeThread, CreateThread, Assign, Enqueue, Finish, JoinHandler, AwaitJob, ExitWorker, RunJob, ClearRunning, PostSelf, SignalResult, NextResult, CollectResult, Callback, ExitHandler, WakeOwner, WakeHandler, WakeWorker

\* The flag is only ever set to a Boolean constant.
LEMMA FlagStep == TypeInv /\ [Next]_vars => poolHeld' \in BOOLEAN
BY Zenon DEF TypeInv, TypeOK, Next, Owner, Worker, Handler, Destroyer, Spurious,
        TakeThread, CreateThread, Assign, Enqueue, Finish, JoinHandler, AwaitJob,
        ExitWorker, RunJob, ClearRunning, PostSelf, SignalResult, NextResult,
        CollectResult, ReturnThread, Callback, ExitHandler, StartDestroy, LockPool,
        AwaitIdle, StopThread, JoinThread, FreePool, WakeOwner, WakeHandler,
        WakeWorker, WakeDestroyer

LEMMA OwnerLocalsStep == TypeInv /\ [Next]_vars => OwnerLocals'
<1> SUFFICES ASSUME TypeInv, [Next]_vars PROVE OwnerLocals'
    OBVIOUS
<1> USE DEF TypeInv, TypeOK, LocalsOK, OwnerOK, OwnerLocals
<1>1. ASSUME NEW h \in Handlers, TakeThread(h) PROVE OwnerLocals'
    <2>1. pool # <<>> => Head(pool) \in Thread
        BY HeadTail DEF PoolOK
    <2>2. ~PoolExhausted /\ pool = <<>> => count + 1 \in Thread
        BY DEF PoolExhausted, PoolOK, Thread
    <2>3. CASE opc' = [opc EXCEPT ![h] = "sleep"] /\ UNCHANGED othr
        BY <2>3
    <2>4. CASE /\ pool # <<>>
               /\ othr' = [othr EXCEPT ![h] = Head(pool)]
               /\ opc' = [opc EXCEPT ![h] = "assign"]
        BY <2>1, <2>4
    <2>5. CASE /\ pool = <<>> /\ ~PoolExhausted
               /\ othr' = [othr EXCEPT ![h] = count + 1]
               /\ opc' = [opc EXCEPT ![h] = "create"]
        BY <2>2, <2>5
    <2>6. QED
        BY <1>1, <2>3, <2>4, <2>5 DEF TakeThread
<1>2. ASSUME NEW h \in Handlers, CreateThread(h) PROVE OwnerLocals'
    BY <1>2 DEF CreateThread
<1>3. ASSUME NEW h \in Handlers, Assign(h) PROVE OwnerLocals'
    BY <1>3 DEF Assign, QueueForWorker
<1>4. ASSUME NEW h \in Handlers, Enqueue(h) PROVE OwnerLocals'
    BY <1>4 DEF Enqueue
<1>5. ASSUME NEW h \in Handlers, Finish(h) PROVE OwnerLocals'
    BY <1>5 DEF Finish
<1>6. ASSUME NEW h \in Handlers, JoinHandler(h) PROVE OwnerLocals'
    BY <1>6 DEF JoinHandler
<1>7. ASSUME NEW h \in Handlers, ReturnThread(h) PROVE OwnerLocals'
    BY <1>7, SignalPoolWakes DEF ReturnThread
<1>8. ASSUME NEW h \in Handlers, WakeOwner(h) PROVE OwnerLocals'
    BY <1>8 DEF WakeOwner
<1>9. CASE UNCHANGED vars
    BY <1>9
<1>10. QED
    BY <1>1, <1>2, <1>3, <1>4, <1>5, <1>6, <1>7, <1>8, <1>9
    DEF Next, Owner, Worker, Handler, Destroyer, Spurious,
        AwaitJob, ExitWorker, RunJob, ClearRunning, PostSelf, SignalResult, NextResult, CollectResult, Callback, ExitHandler, StartDestroy, LockPool, AwaitIdle, StopThread, JoinThread, FreePool, WakeHandler, WakeWorker, WakeDestroyer

LEMMA HandlerLocalsStep == TypeInv /\ [Next]_vars => HandlerLocals'
<1> SUFFICES ASSUME TypeInv, [Next]_vars PROVE HandlerLocals'
    OBVIOUS
<1> USE DEF TypeInv, TypeOK, LocalsOK, HandlerOK, HandlerLocals
<1>1. ASSUME NEW h \in Handlers, Assign(h) PROVE HandlerLocals'
    BY <1>1, SignalThreadWakes DEF Assign, QueueForWorker
<1>2. ASSUME NEW h \in Handlers, Enqueue(h) PROVE HandlerLocals'
    BY <1>2, WokenByQueueWakes DEF Enqueue
<1>3. ASSUME NEW h \in Handlers, Finish(h) PROVE HandlerLocals'
    BY <1>3, WokenByQueueWakes DEF Finish
<1>4. ASSUME NEW t \in Thread, PostSelf(t) PROVE HandlerLocals'
    BY <1>4, WokenByQueueWakes DEF PostSelf
<1>5. ASSUME NEW t \in Thread, SignalResult(t) PROVE HandlerLocals'
    BY <1>5, SignalResultWakes DEF SignalResult
<1>6. ASSUME NEW h \in Handlers, NextResult(h) PROVE HandlerLocals'
    <2>1. CASE queue[h] = <<>>
        BY <1>6, <2>1 DEF NextResult
    <2>2. CASE queue[h] # <<>>
        <3>1. Head(queue[h]) \in Thread
            BY <2>2, HeadTail DEF QueueOK
        <3>2. /\ hthr' = [hthr EXCEPT ![h] = Head(queue[h])]
              /\ hpc' = [hpc EXCEPT ![h] = "collect"]
            BY <1>6, <2>2 DEF NextResult
        <3>3. QED
            BY <3>1, <3>2
    <2>3. QED
        BY <2>1, <2>2
<1>7. ASSUME NEW h \in Handlers, CollectResult(h) PROVE HandlerLocals'
    BY <1>7 DEF CollectResult
<1>8. ASSUME NEW h \in Handlers, ReturnThread(h) PROVE HandlerLocals'
    BY <1>8 DEF ReturnThread
<1>9. ASSUME NEW h \in Handlers, Callback(h) PROVE HandlerLocals'
    BY <1>9 DEF Callback
<1>10. ASSUME NEW h \in Handlers, ExitHandler(h) PROVE HandlerLocals'
    BY <1>10 DEF ExitHandler
<1>11. ASSUME StopThread PROVE HandlerLocals'
    BY <1>11, SignalThreadWakes DEF StopThread, AllJoined
<1>12. ASSUME NEW h \in Handlers, WakeHandler(h) PROVE HandlerLocals'
    BY <1>12 DEF WakeHandler
<1>13. CASE UNCHANGED vars
    BY <1>13
<1>14. QED
    BY <1>1, <1>2, <1>3, <1>4, <1>5, <1>6, <1>7, <1>8, <1>9, <1>10, <1>11, <1>12, <1>13
    DEF Next, Owner, Worker, Handler, Destroyer, Spurious,
        TakeThread, CreateThread, JoinHandler, AwaitJob, ExitWorker, RunJob, ClearRunning, StartDestroy, LockPool, AwaitIdle, JoinThread, FreePool, WakeOwner, WakeWorker, WakeDestroyer

LEMMA DestroyerLocalsStep == TypeInv /\ [Next]_vars => DestroyerLocals'
<1> SUFFICES ASSUME TypeInv, [Next]_vars PROVE DestroyerLocals'
    OBVIOUS
<1> USE DEF TypeInv, TypeOK, LocalsOK, DestroyerOK, DestroyerLocals
<1>1. ASSUME NEW h \in Handlers, TakeThread(h) PROVE DestroyerLocals'
    BY <1>1 DEF TakeThread, PoolExhausted, PoolOK
<1>2. ASSUME NEW h \in Handlers, ReturnThread(h) PROVE DestroyerLocals'
    BY <1>2, SignalPoolWakes DEF ReturnThread, PoolOK
<1>3. ASSUME StartDestroy PROVE DestroyerLocals'
    BY <1>3 DEF StartDestroy, PoolOK
<1>4. ASSUME LockPool PROVE DestroyerLocals'
    BY <1>4 DEF LockPool, PoolOK
<1>5. ASSUME AwaitIdle PROVE DestroyerLocals'
    BY <1>5 DEF AwaitIdle, PoolOK
<1>6. ASSUME StopThread PROVE DestroyerLocals'
    BY <1>6, HeadTail DEF StopThread, AllJoined, PoolOK
<1>7. ASSUME JoinThread PROVE DestroyerLocals'
    BY <1>7 DEF JoinThread, PoolOK
<1>8. ASSUME FreePool PROVE DestroyerLocals'
    BY <1>8 DEF FreePool, PoolOK
<1>9. ASSUME WakeDestroyer PROVE DestroyerLocals'
    BY <1>9 DEF WakeDestroyer, PoolOK
<1>10. CASE UNCHANGED vars
    BY <1>10
<1>11. QED
    BY <1>1, <1>2, <1>3, <1>4, <1>5, <1>6, <1>7, <1>8, <1>9, <1>10
    DEF Next, Owner, Worker, Handler, Destroyer, Spurious,
        CreateThread, Assign, Enqueue, Finish, JoinHandler, AwaitJob, ExitWorker, RunJob, ClearRunning, PostSelf, SignalResult, NextResult, CollectResult, Callback, ExitHandler, WakeOwner, WakeHandler, WakeWorker


LEMMA TypeStep == TypeInv /\ [Next]_vars => TypeInv'
BY PoolStep, ThreadStep, QueueStep, OwnerStep, HandlerStep, DestroyerStep, FlagStep,
   OwnerLocalsStep, HandlerLocalsStep, DestroyerLocalsStep
DEF TypeInv, TypeOK, LocalsOK

\* Type correctness of every reachable state of threadpool.c's data.
THEOREM TypeCorrect == Spec => []TypeOK
<1>1. TypeInv => TypeOK
    BY DEF TypeInv
<1>2. QED
    BY <1>1, TypeInit, TypeStep, PTL DEF Spec

-------------------------------------------------------------------------------
(* Who has a worker thread *)

HIDE DEF WorkerPC, OwnerPC, HandlerPC, DestroyerPC,
         vars, poolVars, thrVars, queueVars, ownerVars, handlerVars, destroyVars

(* Lists without repetitions: the pool, and the queues of results *)

Elements(q) == {q[i] : i \in DOMAIN q}
NoRepeats(q) == \A i, j \in DOMAIN q : q[i] = q[j] => i = j

\* Taking the first element removes it from the elements, and no other.
LEMMA TakeFirst ==
    ASSUME NEW S, NEW q \in Seq(S), q # <<>>, NoRepeats(q)
    PROVE  /\ NoRepeats(Tail(q))
           /\ Elements(Tail(q)) = Elements(q) \ {Head(q)}
           /\ Head(q) \in Elements(q)
<1> DEFINE n == Len(q)
<1>1. n \in Nat /\ n # 0 /\ DOMAIN q = 1..n
    BY EmptySeq, LenProperties
<1>2. DOMAIN Tail(q) = 1..(n - 1) /\ \A i \in 1..(n - 1) : Tail(q)[i] = q[i + 1]
    BY HeadTailProperties, LenProperties, <1>1
<1>3. Head(q) = q[1]
    BY <1>1
<1> HIDE DEF n
<1>4. NoRepeats(Tail(q))
  <2> SUFFICES ASSUME NEW i \in 1..(n - 1), NEW j \in 1..(n - 1), Tail(q)[i] = Tail(q)[j]
               PROVE  i = j
      BY <1>2 DEF NoRepeats
  <2>1. i + 1 \in DOMAIN q /\ j + 1 \in DOMAIN q
      BY <1>1
  <2>2. q[i + 1] = q[j + 1]
      BY <1>2
  <2>3. i + 1 = j + 1
      BY <2>1, <2>2 DEF NoRepeats
  <2> QED BY <1>1, <2>3
<1>5. ASSUME NEW x \in Elements(Tail(q)) PROVE x \in Elements(q) /\ x # Head(q)
  <2>1. PICK i \in 1..(n - 1) : x = q[i + 1]
      BY <1>2, <1>5 DEF Elements
  <2>2. i + 1 \in DOMAIN q /\ 1 \in DOMAIN q /\ i + 1 # 1
      BY <1>1, <2>1
  <2> QED BY <1>3, <2>1, <2>2 DEF Elements, NoRepeats
<1>6. ASSUME NEW x \in Elements(q), x # Head(q) PROVE x \in Elements(Tail(q))
  <2>1. PICK i \in 1..n : x = q[i]
      BY <1>1, <1>6 DEF Elements
  <2>2. i - 1 \in 1..(n - 1) /\ i = (i - 1) + 1
      BY <1>1, <1>3, <1>6, <2>1
  <2>3. Tail(q)[i - 1] = q[i]
      BY <1>2, <2>2
  <2> QED BY <1>2, <2>1, <2>2, <2>3 DEF Elements
<1>7. Head(q) \in Elements(q)
    BY <1>1, <1>3 DEF Elements
<1> QED BY <1>4, <1>5, <1>6, <1>7

\* Adding an element that is not there, at either end.
LEMMA PutLast ==
    ASSUME NEW S, NEW q \in Seq(S), NEW x \in S, NoRepeats(q), x \notin Elements(q)
    PROVE  /\ NoRepeats(Append(q, x))
           /\ Elements(Append(q, x)) = Elements(q) \cup {x}
<1> DEFINE n == Len(q)
           r == Append(q, x)
<1>1. n \in Nat /\ DOMAIN q = 1..n
    BY LenProperties
<1>2. DOMAIN r = 1..(n + 1) /\ r[n + 1] = x /\ \A i \in 1..n : r[i] = q[i]
    BY AppendProperties, LenProperties, <1>1
<1> HIDE DEF n, r
<1>3. \A i \in 1..n : q[i] # x
    BY <1>1 DEF Elements
<1>4. NoRepeats(r)
  <2> SUFFICES ASSUME NEW i \in 1..(n + 1), NEW j \in 1..(n + 1), r[i] = r[j] PROVE i = j
      BY <1>2 DEF NoRepeats
  <2>1. CASE i = n + 1 \/ j = n + 1
    <3>1. i \in 1..n \/ i = n + 1
        BY <1>1
    <3>2. j \in 1..n \/ j = n + 1
        BY <1>1
    <3> QED BY <1>2, <1>3, <2>1, <3>1, <3>2
  <2>2. CASE i \in 1..n /\ j \in 1..n
      BY <1>1, <1>2, <2>2 DEF NoRepeats
  <2> QED BY <1>1, <2>1, <2>2
<1>5. ASSUME NEW y \in Elements(r) PROVE y \in Elements(q) \/ y = x
  <2>1. PICK i \in 1..(n + 1) : y = r[i]
      BY <1>2, <1>5 DEF Elements
  <2>2. i \in 1..n \/ i = n + 1
      BY <1>1
  <2> QED BY <1>1, <1>2, <2>1, <2>2 DEF Elements
<1>6. ASSUME NEW y \in Elements(q) PROVE y \in Elements(r)
  <2>1. PICK i \in 1..n : y = q[i]
      BY <1>1, <1>6 DEF Elements
  <2>2. i \in 1..(n + 1)
      BY <1>1
  <2> QED BY <1>2, <2>1, <2>2 DEF Elements
<1>7. x \in Elements(r)
    BY <1>1, <1>2 DEF Elements
<1> QED BY <1>4, <1>5, <1>6, <1>7 DEF r

LEMMA PutFirst ==
    ASSUME NEW S, NEW q \in Seq(S), NEW x \in S, NoRepeats(q), x \notin Elements(q)
    PROVE  /\ NoRepeats(<<x>> \o q)
           /\ Elements(<<x>> \o q) = Elements(q) \cup {x}
<1> DEFINE r == <<x>> \o q
<1>1. r \in Seq(S) /\ r # <<>> /\ Tail(r) = q /\ Head(r) = x
    OBVIOUS
<1> DEFINE n == Len(r)
<1>2. n \in Nat /\ n # 0 /\ DOMAIN r = 1..n /\ r[1] = x
    BY <1>1, EmptySeq, LenProperties
<1>3. DOMAIN q = 1..(n - 1) /\ \A i \in 1..(n - 1) : q[i] = r[i + 1]
    BY <1>1, <1>2, HeadTailProperties, LenProperties
<1> HIDE DEF n, r
<1>4. \A i \in 2..n : i - 1 \in DOMAIN q /\ r[i] = q[i - 1]
  <2> TAKE i \in 2..n
  <2>1. i - 1 \in 1..(n - 1) /\ (i - 1) + 1 = i
      BY <1>2
  <2> QED BY <1>3, <2>1
<1>5. \A i \in 1..n : i = 1 \/ i \in 2..n
    BY <1>2
<1>6. \A i \in 2..n : r[i] \in Elements(q) /\ r[i] # x
    BY <1>4 DEF Elements
<1>7. NoRepeats(r)
  <2> SUFFICES ASSUME NEW i \in 1..n, NEW j \in 1..n, r[i] = r[j] PROVE i = j
      BY <1>2 DEF NoRepeats
  <2>1. CASE i = 1 \/ j = 1
      BY <1>2, <1>5, <1>6, <2>1
  <2>2. CASE i \in 2..n /\ j \in 2..n
    <3>1. i - 1 = j - 1
        BY <1>4, <2>2 DEF NoRepeats
    <3> QED BY <1>2, <3>1
  <2> QED BY <1>5, <2>1, <2>2
<1>8. ASSUME NEW y \in Elements(q) PROVE y \in Elements(r)
  <2>1. PICK i \in 1..(n - 1) : y = r[i + 1]
      BY <1>3, <1>8 DEF Elements
  <2>2. i + 1 \in 1..n
      BY <1>2
  <2> QED BY <1>2, <2>1, <2>2 DEF Elements
<1>9. \A y \in Elements(r) : y \in Elements(q) \/ y = x
    BY <1>2, <1>5, <1>6 DEF Elements
<1>10. x \in Elements(r)
    BY <1>2 DEF Elements
<1> QED BY <1>7, <1>8, <1>9, <1>10 DEF r

-------------------------------------------------------------------------------
(* The inductive invariant *)

\* The kinds of places that a thread can be in; a queue, an owner and a result
\* handler belong to a handler, the others to nobody.
Kind == {"pool", "queue", "owner", "handler", "worker", "destroyer"}
Whose == Handlers \cup {None}

Pooled == Elements(pool)
Queued(h) == Elements(queue[h])
Holding(h) == opc[h] = "assign" \/ (opc[h] = "enqueue" /\ h \in Ordered)

\* Thread t is in the place of kind k that belongs to h: Places(t), without the
\* positions in the pool and in the queues.
At(t, k, h) ==
    \/ k = "pool" /\ h = None /\ t \in Pooled
    \/ k = "queue" /\ h \in Handlers /\ t \in Queued(h)
    \/ k = "owner" /\ h \in Handlers /\ Holding(h) /\ othr[h] = t
    \/ k = "handler" /\ h \in Handlers /\ hthr[h] = t
    \/ k = "worker" /\ h = None /\ rqOf[t] # None
    \/ k = "destroyer" /\ h = None /\ dthr = t

\* Nobody else has a thread that somebody has, and a list has it once.
OnePlace ==
    /\ NoRepeats(pool)
    /\ \A h \in Handlers : NoRepeats(queue[h])
    /\ \A t \in Thread : \A k1, k2 \in Kind, h1, h2 \in Whose :
          At(t, k1, h1) /\ At(t, k2, h2) => k1 = k2 /\ h1 = h2

\* Exactly the threads that exist are somewhere.
SomePlace == \A t \in Thread : Alive(t) <=> \E k \in Kind, h \in Whose : At(t, k, h)

\* Local variables are cleared when they are out of use, and an unordered worker
\* keeps its queue until it has posted itself.
HandlersCleared == \A h \in Handlers : hpc[h] \notin {"collect", "await", "return"} => hthr[h] = 0
DestroyerCleared == dpc # "join" => dthr = 0
WorkersQueue == \A t \in Thread : wpc[t] \in {"clear", "post"} => rqOf[t] # None

LocalsCleared == HandlersCleared /\ DestroyerCleared /\ WorkersQueue

\* Until the pool is destroyed its threads are numbered in the order in which
\* they were counted; the ones that do not exist yet are being created, each by
\* one owner.
Numbered ==
    /\ dpc = "idle" => \A t \in Thread :
          /\ t > count => wpc[t] = "absent"
          /\ t <= count => \/ Alive(t)
                           \/ \E h \in Handlers : opc[h] = "create" /\ othr[h] = t
    /\ \A h \in Handlers :
          opc[h] = "create" => wpc[othr[h]] = "absent" /\ othr[h] <= count
    /\ \A g, h \in Handlers :
          opc[g] = "create" /\ opc[h] = "create" /\ othr[g] = othr[h] => g = h

\* A pool is destroyed when nobody dispatches any more; count is then the number
\* of threads that are left.
Destruction ==
    /\ dpc # "idle" => /\ \A h \in Handlers : opc[h] \in {"join", "done"}
                       /\ count = Cardinality({t \in Thread : Alive(t)})
    /\ dpc = "done" => count = 0

PlaceInv == TypeInv /\ OnePlace /\ SomePlace /\ LocalsCleared /\ Numbered /\ Destruction

-------------------------------------------------------------------------------
(* Two kinds of steps: nothing moves, or one thread does *)

Existence == \A t \in Thread : Alive(t)' <=> Alive(t)

Stays == /\ UNCHANGED <<pool, queue>>
         /\ \A t \in Thread : \A k \in Kind, h \in Whose : At(t, k, h)' <=> At(t, k, h)

\* Thread x goes to the place of kind k1 that belongs to h1.
Moves(x, k1, h1) ==
    \A t \in Thread : \A k \in Kind, h \in Whose :
        At(t, k, h)' <=> IF t = x THEN k = k1 /\ h = h1 ELSE At(t, k, h)

ListsOK == NoRepeats(pool) /\ \A h \in Handlers : NoRepeats(queue[h])

LEMMA StayStep ==
    ASSUME OnePlace, SomePlace, Stays, Existence
    PROVE  OnePlace' /\ SomePlace'
<1>1. ListsOK'
    BY DEF OnePlace, Stays, ListsOK
<1>2. ASSUME NEW t \in Thread, NEW k \in Kind, NEW l \in Kind, NEW g \in Whose, NEW h \in Whose,
             At(t, k, g)', At(t, l, h)'
      PROVE  k = l /\ g = h
  <2>1. At(t, k, g) /\ At(t, l, h)
      BY <1>2 DEF Stays
  <2> QED BY <2>1 DEF OnePlace
<1>3. OnePlace'
    BY <1>1, <1>2, Zenon DEF OnePlace, ListsOK
<1>4. SomePlace'
    BY Zenon DEF SomePlace, Stays, Existence
<1> QED BY <1>3, <1>4

LEMMA MoveStep ==
    ASSUME OnePlace, SomePlace, ListsOK',
           NEW x \in Thread, NEW k1 \in Kind, NEW h1 \in Whose, Moves(x, k1, h1),
           Alive(x)', \A t \in Thread : t # x => (Alive(t)' <=> Alive(t))
    PROVE  OnePlace' /\ SomePlace'
<1>1. ASSUME NEW t \in Thread, NEW k \in Kind, NEW l \in Kind, NEW g \in Whose, NEW h \in Whose,
             At(t, k, g)', At(t, l, h)'
      PROVE  k = l /\ g = h
  <2>1. CASE t = x
      BY <1>1, <2>1 DEF Moves
  <2>2. CASE t # x
    <3>1. At(t, k, g) /\ At(t, l, h)
        BY <1>1, <2>2 DEF Moves
    <3> QED BY <3>1 DEF OnePlace
  <2> QED BY <2>1, <2>2
<1>2. OnePlace'
    BY <1>1, Zenon DEF OnePlace, ListsOK
<1>3. ASSUME NEW t \in Thread PROVE Alive(t)' <=> \E k \in Kind, h \in Whose : At(t, k, h)'
  <2>1. CASE t = x
      BY <2>1 DEF Moves
  <2>2. CASE t # x
      BY <2>2, Zenon DEF Moves, SomePlace
  <2> QED BY <2>1, <2>2
<1>4. SomePlace'
    BY <1>3, Zenon DEF SomePlace
<1> QED BY <1>2, <1>4


\* Thread x is freed.
LEMMA GoneStep ==
    ASSUME OnePlace, SomePlace, ListsOK', NEW x \in Thread,
           \A t \in Thread : \A k \in Kind, h \in Whose : At(t, k, h)' <=> t # x /\ At(t, k, h),
           ~Alive(x)', \A t \in Thread : t # x => (Alive(t)' <=> Alive(t))
    PROVE  OnePlace' /\ SomePlace'
<1>1. ASSUME NEW t \in Thread, NEW k \in Kind, NEW l \in Kind, NEW g \in Whose, NEW h \in Whose,
             At(t, k, g)', At(t, l, h)'
      PROVE  k = l /\ g = h
  <2>1. At(t, k, g) /\ At(t, l, h)
      BY <1>1
  <2> QED BY <2>1 DEF OnePlace
<1>2. OnePlace'
    BY <1>1, Zenon DEF OnePlace, ListsOK
<1>3. ASSUME NEW t \in Thread PROVE Alive(t)' <=> \E k \in Kind, h \in Whose : At(t, k, h)'
  <2>1. CASE t = x
      BY <2>1
  <2>2. CASE t # x
      BY <2>2, Zenon DEF SomePlace
  <2> QED BY <2>1, <2>2
<1>4. SomePlace'
    BY <1>3, Zenon DEF SomePlace
<1> QED BY <1>2, <1>4

\* What a step must leave alone for nothing to move.
LEMMA NothingMoves ==
    ASSUME OnePlace, SomePlace, Existence,
           UNCHANGED <<pool, queue, hthr, dthr>>,
           \A h \in Handlers : /\ Holding(h)' <=> Holding(h)
                               /\ Holding(h) => othr'[h] = othr[h],
           \A t \in Thread : (rqOf'[t] # None) <=> (rqOf[t] # None)
    PROVE  OnePlace' /\ SomePlace'
<1>1. ASSUME NEW t \in Thread, NEW k \in Kind, NEW h \in Whose
      PROVE  At(t, k, h)' <=> At(t, k, h)
    BY DEF At, Pooled, Queued, Elements
<1>2. Stays
    BY <1>1 DEF Stays
<1> QED BY <1>2, StayStep

\* A thread that is somewhere exists, and is nowhere else.
LEMMA OnlyThere ==
    ASSUME OnePlace, SomePlace, NEW x \in Thread, NEW l \in Kind, NEW g \in Whose, At(x, l, g)
    PROVE  /\ Alive(x)
           /\ \A k \in Kind, h \in Whose : At(x, k, h) => k = l /\ h = g
<1>1. Alive(x)
    BY DEF SomePlace
<1>2. ASSUME NEW k \in Kind, NEW h \in Whose, At(x, k, h) PROVE k = l /\ h = g
    BY <1>2 DEF OnePlace
<1> QED BY <1>1, <1>2

LEMMA PlaceInit == Init => PlaceInv
<1> SUFFICES ASSUME Init PROVE PlaceInv
    OBVIOUS
<1>1. TypeInv
    BY TypeInit
<1>2. ASSUME NEW t \in Thread, NEW k \in Kind, NEW h \in Whose PROVE ~At(t, k, h)
  <2>1. Pooled = {}
      BY DEF Init, Pooled, Elements
  <2>2. h \in Handlers => Queued(h) = {} /\ ~Holding(h)
      BY DEF Init, Queued, Elements, Holding
  <2> QED BY <2>1, <2>2 DEF Init, At, Thread
<1>3. ListsOK
    BY DEF Init, ListsOK, NoRepeats
<1>4. OnePlace
    BY <1>2, <1>3, Zenon DEF OnePlace, ListsOK
<1>5. SomePlace
    BY <1>2 DEF Init, SomePlace, Alive
<1>6. LocalsCleared
    BY DEF Init, LocalsCleared, HandlersCleared, DestroyerCleared, WorkersQueue
<1>7. Numbered
    BY DEF Init, Numbered
<1>8. Destruction
    BY DEF Init, Destruction
<1> QED BY <1>1, <1>4, <1>5, <1>6, <1>7, <1>8 DEF PlaceInv

-------------------------------------------------------------------------------
(* Every step keeps each thread in one place *)

\* Steps of an owner.
LEMMA OwnerPlaces ==
    ASSUME PlaceInv, NEW h \in Handlers, Owner(h)
    PROVE  OnePlace' /\ SomePlace'
<1>0. /\ othr \in [Handlers -> Thread \cup {0}] /\ opc \in [Handlers -> OwnerPC]
      /\ pool \in Seq(Thread) /\ wpc \in [Thread -> WorkerPC]
      /\ OnePlace /\ SomePlace
    BY DEF PlaceInv, TypeInv, TypeOK, OwnerOK, PoolOK, ThreadOK
<1>1. CASE TakeThread(h) /\ pool' = pool
  <2>1. \A g \in Handlers : /\ Holding(g)' <=> Holding(g)
                            /\ Holding(g) => othr'[g] = othr[g]
      BY <1>0, <1>1 DEF TakeThread, Holding
  <2>2. Existence /\ UNCHANGED <<pool, queue, hthr, dthr, rqOf>>
      BY <1>1, Zenon DEF TakeThread, thrVars, queueVars, handlerVars, destroyVars, Existence, Alive
  <2> QED BY <1>0, <2>1, <2>2, NothingMoves
<1>2. CASE TakeThread(h) /\ pool' # pool
  <2>1. /\ pool # <<>> /\ pool' = Tail(pool) /\ othr' = [othr EXCEPT ![h] = Head(pool)]
        /\ opc' = [opc EXCEPT ![h] = "assign"] /\ ~Holding(h)
        /\ UNCHANGED <<queue, hthr, dthr, rqOf, wpc>>
      BY <1>2 DEF TakeThread, thrVars, queueVars, handlerVars, destroyVars, Holding
  <2> DEFINE x == Head(pool)
  <2>2. pool \in Seq(Thread) /\ x \in Thread /\ NoRepeats(pool)
      BY <1>0, <2>1, HeadTail DEF OnePlace
  <2>3. NoRepeats(pool') /\ Pooled' = Pooled \ {x} /\ x \in Pooled
      BY <2>1, <2>2, TakeFirst DEF Pooled
  <2>4. \A g \in Handlers : /\ Queued(g)' = Queued(g)
                            /\ g # h => (Holding(g)' <=> Holding(g)) /\ othr'[g] = othr[g]
                            /\ Holding(h)' /\ othr'[h] = x
      BY <1>0, <2>1 DEF Queued, Holding, Elements
  <2>5. At(x, "pool", None)
      BY <2>3 DEF At
  <2>6. Alive(x) /\ \A k \in Kind, g \in Whose : At(x, k, g) => k = "pool" /\ g = None
    <3>1. "pool" \in Kind /\ None \in Whose
        BY DEF Kind, Whose
    <3> QED BY <1>0, <2>2, <2>5, <3>1, OnlyThere
  <2>7. Moves(x, "owner", h)
    <3> SUFFICES ASSUME NEW t \in Thread, NEW k \in Kind, NEW g \in Whose
                 PROVE  At(t, k, g)' <=> IF t = x THEN k = "owner" /\ g = h ELSE At(t, k, g)
        BY DEF Moves
    <3> HIDE DEF x
    <3>1. CASE t = x
        BY <2>1, <2>3, <2>4, <2>6, <3>1 DEF At
    <3>2. CASE t # x
        BY <2>1, <2>3, <2>4, <3>2 DEF At
    <3> QED BY <3>1, <3>2
  <2>8. ListsOK'
      BY <1>0, <2>1, <2>3 DEF ListsOK, OnePlace
  <2>9. \A t \in Thread : Alive(t)' <=> Alive(t)
      BY <2>1 DEF Alive
  <2>10. "owner" \in Kind /\ h \in Whose
      BY DEF Kind, Whose
  <2> HIDE DEF x
  <2> QED BY <1>0, <2>2, <2>6, <2>7, <2>8, <2>9, <2>10, MoveStep
<1>3. CASE CreateThread(h)
  <2>0. PICK x \in Thread : x = othr[h]
      BY <1>3 DEF CreateThread, PlaceInv, TypeInv, LocalsOK, OwnerLocals
  <2>1. /\ opc[h] = "create" /\ opc' = [opc EXCEPT ![h] = "assign"] /\ wpc' = [wpc EXCEPT ![x] = "check"]
        /\ UNCHANGED <<pool, queue, othr, hthr, dthr, rqOf>>
      BY <1>3, <2>0 DEF CreateThread, poolVars, thrVars, queueVars, handlerVars, destroyVars
  <2>2. ~Alive(x)
      BY <2>0, <2>1 DEF PlaceInv, Numbered, Alive
  <2>3. \A k \in Kind, g \in Whose : ~At(x, k, g)
      BY <1>0, <2>2 DEF SomePlace
  <2>4. \A g \in Handlers : /\ g # h => (Holding(g)' <=> Holding(g))
                            /\ Holding(h)' /\ othr'[h] = x /\ ~Holding(h)
      BY <1>0, <2>0, <2>1 DEF Holding
  <2>5. Moves(x, "owner", h)
    <3> SUFFICES ASSUME NEW t \in Thread, NEW k \in Kind, NEW g \in Whose
                 PROVE  At(t, k, g)' <=> IF t = x THEN k = "owner" /\ g = h ELSE At(t, k, g)
        BY DEF Moves
    <3>0. Pooled' = Pooled /\ (g \in Handlers => Queued(g)' = Queued(g))
        BY <2>1 DEF Pooled, Queued, Elements
    <3>1. CASE t = x
        BY <2>1, <2>3, <2>4, <3>0, <3>1 DEF At
    <3>2. CASE t # x
        BY <2>0, <2>1, <2>4, <3>0, <3>2 DEF At
    <3> QED BY <3>1, <3>2
  <2>6. ListsOK'
      BY <1>0, <2>1 DEF ListsOK, OnePlace
  <2>7. Alive(x)' /\ \A t \in Thread : t # x => (Alive(t)' <=> Alive(t))
      BY <1>0, <2>1 DEF Alive
  <2>8. "owner" \in Kind /\ h \in Whose
      BY DEF Kind, Whose
  <2> QED BY <1>0, <2>5, <2>6, <2>7, <2>8, MoveStep
<1>4. CASE Assign(h)
  <2> DEFINE x == othr[h]
  <2>1. /\ opc[h] = "assign" /\ opc' = [opc EXCEPT ![h] = "enqueue"]
        /\ rqOf' = [rqOf EXCEPT ![x] = QueueForWorker(h)]
        /\ UNCHANGED <<pool, queue, othr, hthr, dthr>>
        /\ SignalThread(x)
      BY <1>4 DEF Assign, poolVars, queueVars, destroyVars
  <2>2. x \in Thread /\ Holding(h) /\ At(x, "owner", h)
      BY <2>1 DEF PlaceInv, TypeInv, LocalsOK, OwnerLocals, Holding, At
  <2>3. Alive(x) /\ \A k \in Kind, g \in Whose : At(x, k, g) => k = "owner" /\ g = h
    <3>1. "owner" \in Kind /\ h \in Whose
        BY DEF Kind, Whose
    <3> HIDE DEF x
    <3> QED BY <1>0, <2>2, <3>1, OnlyThere
  <2>4. rqOf[x] = None
    <3>1. "worker" \in Kind /\ None \in Whose /\ "worker" # "owner"
        BY DEF Kind, Whose
    <3> QED BY <2>3, <3>1 DEF At
  <2>5. \A t \in Thread : Alive(t)' <=> Alive(t)
    <3>1. ThreadOK /\ HandlerOK
        BY DEF PlaceInv, TypeInv, TypeOK
    <3>2. \A u \in Thread : wpc'[u] = wpc[u] \/ (wpc[u] = "sleep" /\ wpc'[u] = "check")
        BY <2>1, <3>1, SignalThreadWakes
    <3> QED BY <3>2 DEF Alive
  <2>6. rqOf \in [Thread -> Handlers \cup {None}]
      BY DEF PlaceInv, TypeInv, TypeOK, ThreadOK
  <2>7. CASE h \in Ordered
    <3>1. \A t \in Thread : (rqOf'[t] # None) <=> (rqOf[t] # None)
        BY <2>1, <2>4, <2>6, <2>7 DEF QueueForWorker
    <3>2. \A g \in Handlers : /\ Holding(g)' <=> Holding(g)
                              /\ Holding(g) => othr'[g] = othr[g]
        BY <1>0, <2>1, <2>7 DEF Holding
    <3> QED BY <1>0, <2>1, <2>5, <3>1, <3>2, NothingMoves DEF Existence
  <2>8. CASE h \notin Ordered
    <3>1. \A t \in Thread : t # x => rqOf'[t] = rqOf[t]
        BY <2>1, <2>6
    <3>2. rqOf'[x] # None
        BY <2>1, <2>2, <2>6, <2>8 DEF QueueForWorker
    <3>3. \A g \in Handlers : /\ g # h => (Holding(g)' <=> Holding(g))
                              /\ ~Holding(h)'
        BY <1>0, <2>1, <2>8 DEF Holding
    <3>4. Moves(x, "worker", None)
      <4> SUFFICES ASSUME NEW t \in Thread, NEW k \in Kind, NEW g \in Whose
                   PROVE  At(t, k, g)' <=> IF t = x THEN k = "worker" /\ g = None ELSE At(t, k, g)
          BY DEF Moves
      <4>0. Pooled' = Pooled /\ (g \in Handlers => Queued(g)' = Queued(g))
          BY <2>1 DEF Pooled, Queued, Elements
      <4>1. g = h => othr[g] = x
          OBVIOUS
      <4> HIDE DEF x
      <4>2. CASE t = x
          BY <2>1, <2>3, <3>2, <3>3, <4>0, <4>2 DEF At
      <4>3. CASE t # x
          BY <2>1, <3>1, <3>3, <4>0, <4>1, <4>3 DEF At
      <4> QED BY <4>2, <4>3
    <3>5. ListsOK'
        BY <1>0, <2>1 DEF ListsOK, OnePlace
    <3>6. "worker" \in Kind /\ None \in Whose
        BY DEF Kind, Whose
    <3> HIDE DEF x
    <3> QED BY <1>0, <2>2, <2>3, <2>5, <3>4, <3>5, <3>6, MoveStep
  <2> QED BY <2>7, <2>8
<1>5. CASE Enqueue(h) /\ h \notin Ordered
  <2>1. \A g \in Handlers : /\ Holding(g)' <=> Holding(g)
                            /\ Holding(g) => othr'[g] = othr[g]
      BY <1>0, <1>5 DEF Enqueue, Holding
  <2>2. Existence /\ UNCHANGED <<pool, queue, hthr, dthr, rqOf>>
      BY <1>5, Zenon DEF Enqueue, poolVars, thrVars, destroyVars, Existence, Alive
  <2> QED BY <1>0, <2>1, <2>2, NothingMoves
<1>6. CASE Enqueue(h) /\ h \in Ordered
  <2> DEFINE x == othr[h]
  <2>1. /\ opc[h] = "enqueue" /\ opc' = [opc EXCEPT ![h] = "idle"]
        /\ queue' = [queue EXCEPT ![h] = Append(@, x)] /\ othr' = [othr EXCEPT ![h] = 0]
        /\ UNCHANGED <<pool, hthr, dthr, rqOf, wpc>>
      BY <1>6 DEF Enqueue, Put, poolVars, thrVars, destroyVars
  <2>2. x \in Thread /\ Holding(h) /\ At(x, "owner", h)
      BY <1>6, <2>1 DEF PlaceInv, TypeInv, LocalsOK, OwnerLocals, Holding, At
  <2>3. Alive(x) /\ \A k \in Kind, g \in Whose : At(x, k, g) => k = "owner" /\ g = h
    <3>1. "owner" \in Kind /\ h \in Whose
        BY DEF Kind, Whose
    <3> HIDE DEF x
    <3> QED BY <1>0, <2>2, <3>1, OnlyThere
  <2>4. queue \in [Handlers -> Seq(Thread)]
      BY DEF PlaceInv, TypeInv, TypeOK, QueueOK
  <2>5. x \notin Queued(h)
    <3>1. "queue" \in Kind /\ h \in Whose /\ "queue" # "owner"
        BY DEF Kind, Whose
    <3> HIDE DEF x
    <3> QED BY <2>3, <3>1 DEF At
  <2>6. NoRepeats(queue'[h]) /\ Queued(h)' = Queued(h) \cup {x}
    <3>1. queue[h] \in Seq(Thread) /\ queue'[h] = Append(queue[h], x) /\ NoRepeats(queue[h])
        BY <1>0, <2>1, <2>4 DEF OnePlace
    <3> HIDE DEF x
    <3> QED BY <2>2, <2>5, <3>1, PutLast DEF Queued
  <2>7. \A g \in Handlers : g # h => /\ queue'[g] = queue[g] /\ Queued(g)' = Queued(g)
                                     /\ Holding(g)' <=> Holding(g)
                                     /\ othr'[g] = othr[g]
      BY <1>0, <2>1, <2>4 DEF Queued, Holding, Elements
  <2>8. ~Holding(h)'
      BY <1>0, <2>1 DEF Holding
  <2>9. Moves(x, "queue", h)
    <3> SUFFICES ASSUME NEW t \in Thread, NEW k \in Kind, NEW g \in Whose
                 PROVE  At(t, k, g)' <=> IF t = x THEN k = "queue" /\ g = h ELSE At(t, k, g)
        BY DEF Moves
    <3>0. Pooled' = Pooled
        BY <2>1 DEF Pooled
    <3>1. g = h => othr[g] = x
        OBVIOUS
    <3> HIDE DEF x
    <3>2. CASE t = x
        BY <2>1, <2>3, <2>6, <2>7, <2>8, <3>0, <3>2 DEF At
    <3>3. CASE t # x
        BY <2>1, <2>6, <2>7, <2>8, <3>0, <3>1, <3>3 DEF At
    <3> QED BY <3>2, <3>3
  <2>10. ListsOK'
      BY <1>0, <2>1, <2>6, <2>7 DEF ListsOK, OnePlace
  <2>11. \A t \in Thread : Alive(t)' <=> Alive(t)
      BY <2>1 DEF Alive
  <2>12. "queue" \in Kind /\ h \in Whose
      BY DEF Kind, Whose
  <2> HIDE DEF x
  <2> QED BY <1>0, <2>2, <2>3, <2>9, <2>10, <2>11, <2>12, MoveStep
<1>7. CASE Finish(h) \/ JoinHandler(h)
  <2>1. \A g \in Handlers : /\ Holding(g)' <=> Holding(g)
                            /\ Holding(g) => othr'[g] = othr[g]
      BY <1>0, <1>7 DEF Finish, JoinHandler, Holding
  <2>2. Existence /\ UNCHANGED <<pool, queue, hthr, dthr, rqOf>>
      BY <1>7, Zenon DEF Finish, JoinHandler, poolVars, thrVars, queueVars, handlerVars,
                         destroyVars, Existence, Alive
  <2> QED BY <1>0, <2>1, <2>2, NothingMoves
<1> QED BY <1>1, <1>2, <1>3, <1>4, <1>5, <1>6, <1>7 DEF Owner

\* Steps of a worker.
LEMMA WorkerPlaces ==
    ASSUME PlaceInv, NEW x \in Thread, Worker(x)
    PROVE  OnePlace' /\ SomePlace'
<1>0. /\ wpc \in [Thread -> WorkerPC] /\ rqOf \in [Thread -> Handlers \cup {None}]
      /\ OnePlace /\ SomePlace
    BY DEF PlaceInv, TypeInv, TypeOK, ThreadOK
<1>1. CASE AwaitJob(x) \/ ExitWorker(x) \/ RunJob(x) \/ ClearRunning(x) \/ SignalResult(x)
  <2>1. UNCHANGED <<pool, queue, opc, othr, hthr, dthr, rqOf>>
      BY <1>1, Zenon DEF AwaitJob, ExitWorker, RunJob, ClearRunning, SignalResult,
                         poolVars, thrVars, queueVars, ownerVars, handlerVars, destroyVars
  <2>2. Existence
      BY <1>0, <1>1 DEF AwaitJob, ExitWorker, RunJob, ClearRunning, SignalResult, Existence, Alive
  <2> QED BY <1>0, <2>1, <2>2, NothingMoves DEF Holding
<1>2. CASE PostSelf(x)
  <2>1. PICK h \in Handlers : h = rqOf[x]
      BY <1>0, <1>2 DEF PostSelf, PlaceInv, LocalsCleared, WorkersQueue
  <2>2. /\ wpc[x] = "post" /\ wpc' = [wpc EXCEPT ![x] = "check"]
        /\ queue' = [queue EXCEPT ![h] = Append(@, x)] /\ rqOf' = [rqOf EXCEPT ![x] = None]
        /\ UNCHANGED <<pool, opc, othr, hthr, dthr>>
      BY <1>2, <2>1 DEF PostSelf, Put, poolVars, ownerVars, destroyVars
  <2>3. Alive(x) /\ \A k \in Kind, g \in Whose : At(x, k, g) => k = "worker" /\ g = None
    <3>1. "worker" \in Kind /\ None \in Whose
        BY DEF Kind, Whose
    <3>2. At(x, "worker", None)
        BY <2>1 DEF At
    <3> QED BY <1>0, <3>1, <3>2, OnlyThere
  <2>4. x \notin Queued(h)
    <3>1. "queue" \in Kind /\ h \in Whose /\ "queue" # "worker"
        BY DEF Kind, Whose
    <3> QED BY <2>3, <3>1 DEF At
  <2>5. queue \in [Handlers -> Seq(Thread)]
      BY DEF PlaceInv, TypeInv, TypeOK, QueueOK
  <2>6. NoRepeats(queue'[h]) /\ Queued(h)' = Queued(h) \cup {x}
    <3>1. queue[h] \in Seq(Thread) /\ queue'[h] = Append(queue[h], x) /\ NoRepeats(queue[h])
        BY <1>0, <2>2, <2>5 DEF OnePlace
    <3> QED BY <2>4, <3>1, PutLast DEF Queued
  <2>7. \A g \in Handlers : /\ g # h => queue'[g] = queue[g] /\ Queued(g)' = Queued(g)
                            /\ Holding(g)' <=> Holding(g)
      BY <2>2, <2>5 DEF Queued, Holding, Elements
  <2>8. rqOf'[x] = None /\ \A t \in Thread : t # x => rqOf'[t] = rqOf[t]
      BY <1>0, <2>2
  <2>9. Moves(x, "queue", h)
    <3> SUFFICES ASSUME NEW t \in Thread, NEW k \in Kind, NEW g \in Whose
                 PROVE  At(t, k, g)' <=> IF t = x THEN k = "queue" /\ g = h ELSE At(t, k, g)
        BY DEF Moves
    <3>0. Pooled' = Pooled
        BY <2>2 DEF Pooled
    <3>1. CASE t = x
        BY <2>2, <2>3, <2>6, <2>7, <2>8, <3>0, <3>1 DEF At
    <3>2. CASE t # x
        BY <2>2, <2>6, <2>7, <2>8, <3>0, <3>2 DEF At
    <3> QED BY <3>1, <3>2
  <2>10. ListsOK'
      BY <1>0, <2>2, <2>6, <2>7 DEF ListsOK, OnePlace
  <2>11. \A t \in Thread : Alive(t)' <=> Alive(t)
      BY <1>0, <2>2 DEF Alive
  <2>12. "queue" \in Kind /\ h \in Whose
      BY DEF Kind, Whose
  <2> QED BY <1>0, <2>3, <2>9, <2>10, <2>11, <2>12, MoveStep
<1> QED BY <1>1, <1>2 DEF Worker

\* Steps of a result handler.
LEMMA HandlerPlaces ==
    ASSUME PlaceInv, NEW h \in Handlers, Handler(h)
    PROVE  OnePlace' /\ SomePlace'
<1>0. /\ hthr \in [Handlers -> Thread \cup {0}] /\ queue \in [Handlers -> Seq(Thread)]
      /\ pool \in Seq(Thread) /\ OwnerOK /\ DestroyerOK
      /\ OnePlace /\ SomePlace
    BY DEF PlaceInv, TypeInv, TypeOK, HandlerOK, QueueOK, PoolOK
<1>1. CASE CollectResult(h) \/ Callback(h) \/ ExitHandler(h) \/ (NextResult(h) /\ queue[h] = <<>>)
  <2>1. UNCHANGED <<pool, queue, opc, othr, hthr, dthr, rqOf, wpc>>
      BY <1>1, Zenon DEF CollectResult, Callback, ExitHandler, NextResult,
                         poolVars, thrVars, queueVars, ownerVars, handlerVars, destroyVars
  <2> QED BY <1>0, <2>1, NothingMoves DEF Holding, Existence, Alive
<1>2. CASE NextResult(h) /\ queue[h] # <<>>
  <2>1. PICK x \in Thread : x = Head(queue[h])
      BY <1>0, <1>2, HeadTail
  <2>2. /\ hthr' = [hthr EXCEPT ![h] = x] /\ queue' = [queue EXCEPT ![h] = Tail(@)]
        /\ hpc[h] = "next"
        /\ UNCHANGED <<pool, opc, othr, dthr, rqOf, wpc>>
      BY <1>2, <2>1 DEF NextResult, poolVars, thrVars, ownerVars, destroyVars
  <2>3. NoRepeats(queue'[h]) /\ Queued(h)' = Queued(h) \ {x} /\ x \in Queued(h)
    <3>1. queue[h] \in Seq(Thread) /\ queue'[h] = Tail(queue[h]) /\ NoRepeats(queue[h])
        BY <1>0, <2>2 DEF OnePlace
    <3> QED BY <1>2, <2>1, <3>1, TakeFirst DEF Queued
  <2>4. Alive(x) /\ \A k \in Kind, g \in Whose : At(x, k, g) => k = "queue" /\ g = h
    <3>1. "queue" \in Kind /\ h \in Whose
        BY DEF Kind, Whose
    <3>2. At(x, "queue", h)
        BY <2>3 DEF At
    <3> QED BY <1>0, <3>1, <3>2, OnlyThere
  <2>5. \A g \in Handlers : /\ g # h => /\ queue'[g] = queue[g] /\ Queued(g)' = Queued(g)
                                        /\ hthr'[g] = hthr[g]
                            /\ Holding(g)' <=> Holding(g)
      BY <1>0, <2>2 DEF Queued, Holding, Elements
  <2>6. hthr[h] = 0 /\ hthr'[h] = x
      BY <1>0, <2>2 DEF PlaceInv, LocalsCleared, HandlersCleared
  <2>7. Moves(x, "handler", h)
    <3> SUFFICES ASSUME NEW t \in Thread, NEW k \in Kind, NEW g \in Whose
                 PROVE  At(t, k, g)' <=> IF t = x THEN k = "handler" /\ g = h ELSE At(t, k, g)
        BY DEF Moves
    <3>0. Pooled' = Pooled /\ t # 0
        BY <2>2 DEF Pooled, Thread
    <3>1. CASE t = x
        BY <2>2, <2>3, <2>4, <2>5, <2>6, <3>0, <3>1 DEF At
    <3>2. CASE t # x
        BY <2>2, <2>3, <2>5, <2>6, <3>0, <3>2 DEF At
    <3> QED BY <3>1, <3>2
  <2>8. ListsOK'
      BY <1>0, <2>2, <2>3, <2>5 DEF ListsOK, OnePlace
  <2>9. \A t \in Thread : Alive(t)' <=> Alive(t)
      BY <2>2 DEF Alive
  <2>10. "handler" \in Kind /\ h \in Whose
      BY DEF Kind, Whose
  <2> QED BY <1>0, <2>4, <2>7, <2>8, <2>9, <2>10, MoveStep
<1>3. CASE ReturnThread(h)
  <2>1. PICK x \in Thread : x = hthr[h]
      BY <1>3 DEF ReturnThread, PlaceInv, TypeInv, LocalsOK, HandlerLocals
  <2>2. /\ pool' = <<x>> \o pool /\ hthr' = [hthr EXCEPT ![h] = 0] /\ SignalPool
        /\ UNCHANGED <<queue, othr, dthr, rqOf, wpc>>
      BY <1>3, <2>1 DEF ReturnThread, thrVars, queueVars
  <2>3. Alive(x) /\ \A k \in Kind, g \in Whose : At(x, k, g) => k = "handler" /\ g = h
    <3>1. "handler" \in Kind /\ h \in Whose
        BY DEF Kind, Whose
    <3>2. At(x, "handler", h)
        BY <2>1 DEF At
    <3> QED BY <1>0, <3>1, <3>2, OnlyThere
  <2>4. x \notin Pooled
    <3>1. "pool" \in Kind /\ None \in Whose /\ "pool" # "handler"
        BY DEF Kind, Whose
    <3> QED BY <2>3, <3>1 DEF At
  <2>5. NoRepeats(pool') /\ Pooled' = Pooled \cup {x}
      BY <1>0, <2>2, <2>4, PutFirst DEF Pooled, OnePlace
  <2>6. \A g \in Handlers : /\ queue'[g] = queue[g] /\ Queued(g)' = Queued(g)
                            /\ g # h => hthr'[g] = hthr[g]
      BY <1>0, <2>2 DEF Queued, Elements
  <2>7. \A g \in Handlers : Holding(g)' <=> Holding(g)
    <3>1. \A g \in Handlers : opc'[g] = opc[g] \/ (opc[g] = "sleep" /\ opc'[g] = "next")
        BY <1>0, <2>2, SignalPoolWakes
    <3> QED BY <3>1 DEF Holding
  <2>8. Moves(x, "pool", None)
    <3> SUFFICES ASSUME NEW t \in Thread, NEW k \in Kind, NEW g \in Whose
                 PROVE  At(t, k, g)' <=> IF t = x THEN k = "pool" /\ g = None ELSE At(t, k, g)
        BY DEF Moves
    <3>0. hthr'[h] = 0 /\ t # 0
        BY <1>0, <2>2 DEF Thread
    <3>1. CASE t = x
        BY <2>2, <2>3, <2>5, <2>6, <2>7, <3>0, <3>1 DEF At
    <3>2. CASE t # x
        BY <2>1, <2>2, <2>5, <2>6, <2>7, <3>0, <3>2 DEF At
    <3> QED BY <3>1, <3>2
  <2>9. ListsOK'
      BY <1>0, <2>5, <2>6 DEF ListsOK, OnePlace
  <2>10. \A t \in Thread : Alive(t)' <=> Alive(t)
      BY <2>2 DEF Alive
  <2>11. "pool" \in Kind /\ None \in Whose
      BY DEF Kind, Whose
  <2> QED BY <1>0, <2>3, <2>8, <2>9, <2>10, <2>11, MoveStep
<1> QED BY <1>1, <1>2, <1>3 DEF Handler

\* Steps of the destroyer.
LEMMA DestroyerPlaces ==
    ASSUME PlaceInv, Destroyer
    PROVE  OnePlace' /\ SomePlace'
<1>0. /\ pool \in Seq(Thread) /\ wpc \in [Thread -> WorkerPC] /\ ThreadOK /\ HandlerOK
      /\ OnePlace /\ SomePlace
    BY DEF PlaceInv, TypeInv, TypeOK, PoolOK, ThreadOK
<1>1. CASE StartDestroy \/ LockPool \/ AwaitIdle \/ FreePool
  <2>1. UNCHANGED <<pool, queue, opc, othr, hthr, dthr, rqOf, wpc>>
      BY <1>1, Zenon DEF StartDestroy, LockPool, AwaitIdle, FreePool,
                         poolVars, thrVars, queueVars, ownerVars, handlerVars
  <2> QED BY <1>0, <2>1, NothingMoves DEF Holding, Existence, Alive
<1>2. CASE StopThread
  <2>1. PICK x \in Thread : pool # <<>> /\ x = Head(pool)
      BY <1>0, <1>2, HeadTail DEF StopThread
  <2>2. /\ pool' = Tail(pool) /\ dthr' = x /\ dpc = "loop" /\ SignalThread(x)
        /\ UNCHANGED <<queue, opc, othr, hthr, rqOf>>
      BY <1>2, <2>1 DEF StopThread, queueVars, ownerVars
  <2>3. NoRepeats(pool') /\ Pooled' = Pooled \ {x} /\ x \in Pooled
      BY <1>0, <2>1, <2>2, TakeFirst DEF Pooled, OnePlace
  <2>4. Alive(x) /\ \A k \in Kind, g \in Whose : At(x, k, g) => k = "pool" /\ g = None
    <3>1. "pool" \in Kind /\ None \in Whose
        BY DEF Kind, Whose
    <3>2. At(x, "pool", None)
        BY <2>3 DEF At
    <3> QED BY <1>0, <3>1, <3>2, OnlyThere
  <2>5. \A g \in Handlers : Queued(g)' = Queued(g) /\ (Holding(g)' <=> Holding(g))
      BY <2>2 DEF Queued, Holding, Elements
  <2>6. Moves(x, "destroyer", None)
    <3> SUFFICES ASSUME NEW t \in Thread, NEW k \in Kind, NEW g \in Whose
                 PROVE  At(t, k, g)' <=> IF t = x THEN k = "destroyer" /\ g = None ELSE At(t, k, g)
        BY DEF Moves
    <3>0. dthr = 0 /\ t # 0
        BY <2>2 DEF PlaceInv, LocalsCleared, DestroyerCleared, Thread
    <3>1. CASE t = x
        BY <2>2, <2>3, <2>4, <2>5, <3>0, <3>1 DEF At
    <3>2. CASE t # x
        BY <2>2, <2>3, <2>5, <3>0, <3>2 DEF At
    <3> QED BY <3>1, <3>2
  <2>7. ListsOK'
      BY <1>0, <2>2, <2>3 DEF ListsOK, OnePlace
  <2>8. \A t \in Thread : Alive(t)' <=> Alive(t)
    <3>1. \A t \in Thread : wpc'[t] = wpc[t] \/ (wpc[t] = "sleep" /\ wpc'[t] = "check")
        BY <1>0, <2>2, SignalThreadWakes
    <3> QED BY <3>1 DEF Alive
  <2>9. "destroyer" \in Kind /\ None \in Whose
      BY DEF Kind, Whose
  <2> QED BY <1>0, <2>4, <2>6, <2>7, <2>8, <2>9, MoveStep
<1>3. CASE JoinThread
  <2>1. PICK x \in Thread : x = dthr
      BY <1>3 DEF JoinThread, PlaceInv, TypeInv, LocalsOK, DestroyerLocals
  <2>2. /\ wpc[x] = "exited" /\ wpc' = [wpc EXCEPT ![x] = "freed"] /\ dthr' = 0
        /\ UNCHANGED <<pool, queue, opc, othr, hthr, rqOf>>
      BY <1>3, <2>1 DEF JoinThread, thrVars, queueVars, ownerVars, handlerVars
  <2>3. \A k \in Kind, g \in Whose : At(x, k, g) => k = "destroyer" /\ g = None
    <3>1. "destroyer" \in Kind /\ None \in Whose
        BY DEF Kind, Whose
    <3>2. At(x, "destroyer", None)
        BY <2>1 DEF At
    <3> QED BY <1>0, <3>1, <3>2, OnlyThere
  <2>4. ASSUME NEW t \in Thread, NEW k \in Kind, NEW g \in Whose
        PROVE  At(t, k, g)' <=> t # x /\ At(t, k, g)
    <3>0. Pooled' = Pooled /\ (g \in Handlers => Queued(g)' = Queued(g) /\ (Holding(g)' <=> Holding(g)))
        BY <2>2 DEF Pooled, Queued, Elements, Holding
    <3>1. t # 0
        BY DEF Thread
    <3>2. CASE t = x
        BY <2>2, <2>3, <3>0, <3>1, <3>2 DEF At
    <3>3. CASE t # x
        BY <2>1, <2>2, <3>0, <3>1, <3>3 DEF At
    <3> QED BY <3>2, <3>3
  <2>5. ListsOK'
      BY <1>0, <2>2 DEF ListsOK, OnePlace
  <2>6. ~Alive(x)' /\ \A t \in Thread : t # x => (Alive(t)' <=> Alive(t))
      BY <1>0, <2>2 DEF Alive
  <2> QED BY <1>0, <2>4, <2>5, <2>6, GoneStep
<1> QED BY <1>1, <1>2, <1>3 DEF Destroyer

\* Spurious wake-ups move nothing.
LEMMA SpuriousPlaces ==
    ASSUME PlaceInv, Spurious
    PROVE  OnePlace' /\ SomePlace'
<1>1. OwnerOK /\ ThreadOK /\ OnePlace /\ SomePlace
    BY DEF PlaceInv, TypeInv, TypeOK
<1>2. UNCHANGED <<pool, queue, othr, hthr, dthr, rqOf>>
    BY Zenon DEF Spurious, WakeOwner, WakeHandler, WakeWorker, WakeDestroyer, poolVars, thrVars,
                 queueVars, ownerVars, handlerVars, destroyVars
<1>3. Existence
    BY <1>1 DEF Spurious, WakeOwner, WakeHandler, WakeWorker, WakeDestroyer, Existence, Alive, ThreadOK
<1>4. \A g \in Handlers : Holding(g)' <=> Holding(g)
    BY <1>1 DEF Spurious, WakeOwner, WakeHandler, WakeWorker, WakeDestroyer, Holding, OwnerOK, ownerVars
<1> QED BY <1>1, <1>2, <1>3, <1>4, NothingMoves

LEMMA PlacesStep == PlaceInv /\ [Next]_vars => OnePlace' /\ SomePlace'
<1> SUFFICES ASSUME PlaceInv, [Next]_vars PROVE OnePlace' /\ SomePlace'
    OBVIOUS
<1>1. CASE UNCHANGED vars
  <2>1. UNCHANGED <<pool, queue, opc, othr, hthr, dthr, rqOf, wpc>>
      BY <1>1 DEF vars, poolVars, thrVars, queueVars, ownerVars, handlerVars, destroyVars
  <2> QED BY <2>1, NothingMoves DEF PlaceInv, Holding, Existence, Alive
<1>2. CASE Next
    BY <1>2, OwnerPlaces, WorkerPlaces, HandlerPlaces, DestroyerPlaces, SpuriousPlaces DEF Next
<1> QED BY <1>1, <1>2

-------------------------------------------------------------------------------
(* The rest of the invariant *)

LEMMA HandlersClearedStep == PlaceInv /\ [Next]_vars => HandlersCleared'
<1> SUFFICES ASSUME PlaceInv, [Next]_vars PROVE HandlersCleared'
    OBVIOUS
<1>0. /\ ThreadOK /\ HandlerOK /\ HandlersCleared
      /\ hpc \in [Handlers -> HandlerPC] /\ hthr \in [Handlers -> Thread \cup {0}]
    BY DEF PlaceInv, TypeInv, TypeOK, HandlerOK, LocalsCleared
<1>1. ASSUME NEW g \in Handlers, Assign(g) PROVE HandlersCleared'
  <2>1. SignalThread(othr[g]) /\ UNCHANGED hthr
      BY <1>1 DEF Assign
  <2> QED BY <1>0, <2>1, SignalThreadWakes DEF HandlersCleared
<1>2. ASSUME StopThread PROVE HandlersCleared'
  <2>1. SignalThread(Head(pool)) /\ UNCHANGED hthr
      BY <1>2 DEF StopThread
  <2> QED BY <1>0, <2>1, SignalThreadWakes DEF HandlersCleared
<1>3. ASSUME NEW t \in Thread, SignalResult(t) PROVE HandlersCleared'
  <2>1. /\ \/ \E h \in AwaitingResult(t) : hpc' = [hpc EXCEPT ![h] = "collect"]
           \/ UNCHANGED hpc
        /\ UNCHANGED hthr
      BY <1>3 DEF SignalResult
  <2> QED BY <1>0, <2>1, SignalResultWakes DEF HandlersCleared
<1>4. ASSUME NEW g \in Handlers, Enqueue(g) \/ Finish(g) PROVE HandlersCleared'
  <2>1. (hpc' = WokenByQueue(g) \/ UNCHANGED hpc) /\ UNCHANGED hthr
      BY <1>4 DEF Enqueue, Finish
  <2> QED BY <1>0, <2>1, WokenByQueueWakes DEF HandlersCleared
<1>5. ASSUME NEW t \in Thread, PostSelf(t) PROVE HandlersCleared'
  <2>1. hpc' = WokenByQueue(rqOf[t]) /\ UNCHANGED hthr
      BY <1>5 DEF PostSelf
  <2> QED BY <1>0, <2>1, WokenByQueueWakes DEF HandlersCleared
<1>6. ASSUME NEW g \in Handlers, Handler(g) PROVE HandlersCleared'
    BY <1>0, <1>6 DEF Handler, NextResult, CollectResult, ReturnThread, Callback, ExitHandler,
                      HandlersCleared
<1>7. ASSUME Spurious PROVE HandlersCleared'
    BY <1>0, <1>7 DEF Spurious, WakeOwner, WakeHandler, WakeWorker, WakeDestroyer, handlerVars,
                      HandlersCleared
<1>8. CASE UNCHANGED <<hpc, hthr>>
    BY <1>0, <1>8 DEF HandlersCleared
<1>9. ASSUME NEW g \in Handlers, TakeThread(g) \/ CreateThread(g) \/ JoinHandler(g)
      PROVE  UNCHANGED <<hpc, hthr>>
    BY <1>9, Zenon DEF TakeThread, CreateThread, JoinHandler, handlerVars
<1>10. ASSUME NEW t \in Thread, AwaitJob(t) \/ ExitWorker(t) \/ RunJob(t) \/ ClearRunning(t)
       PROVE  UNCHANGED <<hpc, hthr>>
    BY <1>10, Zenon DEF AwaitJob, ExitWorker, RunJob, ClearRunning, handlerVars
<1>11. ASSUME StartDestroy \/ LockPool \/ AwaitIdle \/ JoinThread \/ FreePool
       PROVE  UNCHANGED <<hpc, hthr>>
    BY <1>11, Zenon DEF StartDestroy, LockPool, AwaitIdle, JoinThread, FreePool, handlerVars
<1>12. ASSUME UNCHANGED vars PROVE UNCHANGED <<hpc, hthr>>
    BY <1>12 DEF vars, handlerVars
<1> QED BY <1>1, <1>2, <1>3, <1>4, <1>5, <1>6, <1>7, <1>8, <1>9, <1>10, <1>11, <1>12
        DEF Next, Owner, Worker, Destroyer

LEMMA DestroyerClearedStep == PlaceInv /\ [Next]_vars => DestroyerCleared'
<1> SUFFICES ASSUME PlaceInv, [Next]_vars PROVE DestroyerCleared'
    OBVIOUS
<1>0. OwnerOK /\ DestroyerOK /\ DestroyerCleared
    BY DEF PlaceInv, TypeInv, TypeOK, LocalsCleared
<1>1. ASSUME NEW g \in Handlers, ReturnThread(g) PROVE DestroyerCleared'
  <2>1. SignalPool /\ UNCHANGED dthr
      BY <1>1 DEF ReturnThread
  <2> QED BY <1>0, <2>1, SignalPoolWakes DEF DestroyerCleared
<1>2. ASSUME Destroyer PROVE DestroyerCleared'
    BY <1>0, <1>2 DEF Destroyer, StartDestroy, LockPool, AwaitIdle, StopThread, JoinThread, FreePool,
                      DestroyerCleared
<1>3. ASSUME Spurious PROVE DestroyerCleared'
    BY <1>0, <1>3 DEF Spurious, WakeOwner, WakeHandler, WakeWorker, WakeDestroyer, destroyVars,
                      DestroyerCleared
<1>4. CASE UNCHANGED <<dpc, dthr>>
    BY <1>0, <1>4 DEF DestroyerCleared
<1>5. ASSUME NEW g \in Handlers, Owner(g) PROVE UNCHANGED <<dpc, dthr>>
    BY <1>5, Zenon DEF Owner, TakeThread, CreateThread, Assign, Enqueue, Finish, JoinHandler, destroyVars
<1>6. ASSUME NEW t \in Thread, Worker(t) PROVE UNCHANGED <<dpc, dthr>>
    BY <1>6, Zenon DEF Worker, AwaitJob, ExitWorker, RunJob, ClearRunning, PostSelf, SignalResult,
                       destroyVars
<1>7. ASSUME NEW g \in Handlers, NextResult(g) \/ CollectResult(g) \/ Callback(g) \/ ExitHandler(g)
      PROVE  UNCHANGED <<dpc, dthr>>
    BY <1>7, Zenon DEF NextResult, CollectResult, Callback, ExitHandler, destroyVars
<1>8. ASSUME UNCHANGED vars PROVE UNCHANGED <<dpc, dthr>>
    BY <1>8 DEF vars, destroyVars
<1> QED BY <1>1, <1>2, <1>3, <1>4, <1>5, <1>6, <1>7, <1>8 DEF Next, Handler

LEMMA WorkersQueueStep == PlaceInv /\ [Next]_vars => WorkersQueue'
<1> SUFFICES ASSUME PlaceInv, [Next]_vars PROVE WorkersQueue'
    OBVIOUS
<1>0. /\ ThreadOK /\ HandlerOK /\ WorkersQueue /\ OnePlace /\ SomePlace
      /\ wpc \in [Thread -> WorkerPC] /\ rqOf \in [Thread -> Handlers \cup {None}]
    BY DEF PlaceInv, TypeInv, TypeOK, ThreadOK, LocalsCleared
<1>1. ASSUME NEW g \in Handlers, Assign(g) PROVE WorkersQueue'
  <2>1. PICK x \in Thread : x = othr[g]
      BY <1>1 DEF Assign, PlaceInv, TypeInv, LocalsOK, OwnerLocals
  <2>2. opc[g] = "assign" /\ SignalThread(x) /\ rqOf' = [rqOf EXCEPT ![x] = QueueForWorker(g)]
      BY <1>1, <2>1 DEF Assign
  <2>3. rqOf[x] = None
    <3>1. "owner" \in Kind /\ g \in Whose /\ "worker" \in Kind /\ None \in Whose /\ "worker" # "owner"
        BY DEF Kind, Whose
    <3>2. At(x, "owner", g)
        BY <2>1, <2>2 DEF At, Holding
    <3>3. ~At(x, "worker", None)
        BY <1>0, <3>1, <3>2, OnlyThere
    <3> QED BY <3>3 DEF At
  <2>4. \A u \in Thread : wpc'[u] = wpc[u] \/ (wpc[u] = "sleep" /\ wpc'[u] = "check")
      BY <1>0, <2>2, SignalThreadWakes
  <2> QED BY <1>0, <2>2, <2>3, <2>4 DEF WorkersQueue
<1>2. ASSUME StopThread PROVE WorkersQueue'
  <2>1. SignalThread(Head(pool)) /\ UNCHANGED rqOf
      BY <1>2 DEF StopThread
  <2>2. \A u \in Thread : wpc'[u] = wpc[u] \/ (wpc[u] = "sleep" /\ wpc'[u] = "check")
      BY <1>0, <2>1, SignalThreadWakes
  <2> QED BY <1>0, <2>1, <2>2 DEF WorkersQueue
<1>3. ASSUME NEW t \in Thread, Worker(t) PROVE WorkersQueue'
    BY <1>0, <1>3 DEF Worker, AwaitJob, ExitWorker, RunJob, ClearRunning, PostSelf, SignalResult,
                      thrVars, WorkersQueue
<1>4. ASSUME NEW g \in Handlers, CreateThread(g) PROVE WorkersQueue'
    BY <1>0, <1>4 DEF CreateThread, thrVars, WorkersQueue
<1>5. ASSUME JoinThread PROVE WorkersQueue'
    BY <1>0, <1>5 DEF JoinThread, thrVars, WorkersQueue
<1>6. ASSUME Spurious PROVE WorkersQueue'
    BY <1>0, <1>6 DEF Spurious, WakeOwner, WakeHandler, WakeWorker, WakeDestroyer, thrVars, WorkersQueue
<1>7. CASE UNCHANGED <<wpc, rqOf>>
    BY <1>0, <1>7 DEF WorkersQueue
<1>8. ASSUME NEW g \in Handlers, TakeThread(g) \/ Enqueue(g) \/ Finish(g) \/ JoinHandler(g)
      PROVE  UNCHANGED <<wpc, rqOf>>
    BY <1>8, Zenon DEF TakeThread, Enqueue, Finish, JoinHandler, thrVars
<1>9. ASSUME NEW g \in Handlers, Handler(g) PROVE UNCHANGED <<wpc, rqOf>>
    BY <1>9, Zenon DEF Handler, NextResult, CollectResult, ReturnThread, Callback, ExitHandler, thrVars
<1>10. ASSUME StartDestroy \/ LockPool \/ AwaitIdle \/ FreePool PROVE UNCHANGED <<wpc, rqOf>>
    BY <1>10, Zenon DEF StartDestroy, LockPool, AwaitIdle, FreePool, thrVars
<1>11. ASSUME UNCHANGED vars PROVE UNCHANGED <<wpc, rqOf>>
    BY <1>11 DEF vars, thrVars
<1> QED BY <1>1, <1>2, <1>3, <1>4, <1>5, <1>6, <1>7, <1>8, <1>9, <1>10, <1>11
        DEF Next, Owner, Destroyer

\* A step that creates no thread and ends none, and neither begins nor ends a
\* destruction.
LEMMA NothingCounted ==
    ASSUME Numbered, Destruction, count' = count,
           \A t \in Thread : /\ wpc'[t] = "absent" <=> wpc[t] = "absent"
                             /\ Alive(t)' <=> Alive(t),
           \A h \in Handlers : /\ opc'[h] = "create" <=> opc[h] = "create"
                               /\ opc[h] = "create" => othr'[h] = othr[h] /\ othr[h] \in Thread
                               /\ opc[h] \in {"join", "done"} => opc'[h] \in {"join", "done"},
           dpc' = dpc \/ (dpc \notin {"idle", "done"} /\ dpc' \notin {"idle", "done"})
    PROVE  Numbered' /\ Destruction'
<1>1. dpc' = "idle" => dpc = "idle"
    OBVIOUS
<1>2. Numbered'
  <2>1. dpc' = "idle" => \A t \in Thread :
          /\ t > count' => wpc'[t] = "absent"
          /\ t <= count' => \/ Alive(t)'
                            \/ \E h \in Handlers : opc'[h] = "create" /\ othr'[h] = t
      BY <1>1 DEF Numbered
  <2>2. \A h \in Handlers : opc'[h] = "create" => wpc'[othr'[h]] = "absent" /\ othr'[h] <= count'
      BY DEF Numbered
  <2>3. \A g, h \in Handlers : opc'[g] = "create" /\ opc'[h] = "create" /\ othr'[g] = othr'[h] => g = h
      BY DEF Numbered
  <2> QED BY <2>1, <2>2, <2>3, Zenon DEF Numbered
<1>3. Destruction'
  <2>1. {t \in Thread : Alive(t)}' = {t \in Thread : Alive(t)}
      OBVIOUS
  <2> HIDE DEF Alive
  <2> QED BY <2>1 DEF Destruction
<1> QED BY <1>2, <1>3

LEMMA OwnerNumbers ==
    ASSUME PlaceInv, NEW h \in Handlers, Owner(h)
    PROVE  Numbered' /\ Destruction'
<1>0. /\ othr \in [Handlers -> Thread \cup {0}] /\ opc \in [Handlers -> OwnerPC]
      /\ wpc \in [Thread -> WorkerPC] /\ count \in 0..MaxThreads /\ ThreadOK /\ HandlerOK
      /\ Numbered /\ Destruction /\ OwnerLocals
    BY DEF PlaceInv, TypeInv, TypeOK, OwnerOK, PoolOK, ThreadOK, LocalsOK
<1>1. CASE \/ TakeThread(h) /\ opc'[h] # "create"
           \/ Assign(h) \/ Enqueue(h) \/ Finish(h) \/ JoinHandler(h)
  <2>1. UNCHANGED <<count, dpc>>
      BY <1>0, <1>1 DEF TakeThread, Assign, Enqueue, Finish, JoinHandler, poolVars, destroyVars
  <2>2. \A t \in Thread : wpc'[t] = wpc[t] \/ (wpc[t] = "sleep" /\ wpc'[t] = "check")
    <3>1. Assign(h) => SignalThread(othr[h])
        BY DEF Assign
    <3>2. ~Assign(h) => wpc' = wpc
        BY <1>1, Zenon DEF TakeThread, Enqueue, Finish, JoinHandler
    <3> QED BY <1>0, <3>1, <3>2, SignalThreadWakes
  <2>3. \A t \in Thread : /\ wpc'[t] = "absent" <=> wpc[t] = "absent"
                          /\ Alive(t)' <=> Alive(t)
      BY <2>2 DEF Alive
  <2>4. /\ opc[h] \notin {"create", "done"} /\ opc'[h] # "create"
        /\ opc[h] = "join" => opc'[h] = "done"
        /\ \A g \in Handlers : g # h => opc'[g] = opc[g] /\ othr'[g] = othr[g]
      BY <1>0, <1>1 DEF TakeThread, Assign, Enqueue, Finish, JoinHandler
  <2>5. \A g \in Handlers : /\ opc'[g] = "create" <=> opc[g] = "create"
                            /\ opc[g] = "create" => othr'[g] = othr[g] /\ othr[g] \in Thread
                            /\ opc[g] \in {"join", "done"} => opc'[g] \in {"join", "done"}
      BY <1>0, <2>4 DEF OwnerLocals
  <2> QED BY <1>0, <2>1, <2>3, <2>5, NothingCounted
<1>2. CASE TakeThread(h) /\ opc'[h] = "create"
  <2>1. /\ opc[h] \in {"idle", "next"} /\ opc' = [opc EXCEPT ![h] = "create"]
        /\ othr' = [othr EXCEPT ![h] = count + 1] /\ count' = count + 1 /\ count + 1 \in Thread
        /\ UNCHANGED <<wpc, dpc>>
      BY <1>0, <1>2 DEF TakeThread, PoolExhausted, Thread, destroyVars
  <2>2. dpc = "idle"
      BY <1>0, <2>1 DEF Destruction
  <2>3. wpc[count + 1] = "absent"
      BY <1>0, <2>1, <2>2 DEF Numbered
  <2>4. opc'[h] = "create" /\ othr'[h] = count + 1
      BY <1>0, <2>1
  <2>5. \A g \in Handlers : g # h => opc'[g] = opc[g] /\ othr'[g] = othr[g]
      BY <1>0, <2>1
  <2>6. ASSUME NEW t \in Thread
        PROVE  /\ t > count' => wpc'[t] = "absent"
               /\ t <= count' => \/ Alive(t)'
                                 \/ \E g \in Handlers : opc'[g] = "create" /\ othr'[g] = t
    <3>1. CASE t > count + 1
        BY <1>0, <2>1, <2>2, <3>1 DEF Numbered, Thread
    <3>2. CASE t = count + 1
        BY <1>0, <2>1, <2>4, <3>2
    <3>3. CASE t <= count
      <4>1. Alive(t) \/ \E g \in Handlers : opc[g] = "create" /\ othr[g] = t
          BY <1>0, <2>2, <3>3 DEF Numbered
      <4>2. \A g \in Handlers : opc[g] = "create" => g # h
          BY <2>1
      <4>3. Alive(t)' <=> Alive(t)
          BY <2>1 DEF Alive
      <4> QED BY <1>0, <2>1, <2>5, <3>3, <4>1, <4>2, <4>3 DEF Thread
    <3> QED BY <1>0, <3>1, <3>2, <3>3 DEF Thread
  <2>7. ASSUME NEW g \in Handlers, opc'[g] = "create"
        PROVE  wpc'[othr'[g]] = "absent" /\ othr'[g] <= count'
                /\ (g # h => othr'[g] # count + 1)
    <3>1. CASE g = h
        BY <1>0, <2>1, <2>3, <2>4, <3>1
    <3>2. CASE g # h
        BY <1>0, <2>1, <2>5, <2>7, <3>2 DEF Numbered, OwnerLocals, Thread
    <3> QED BY <3>1, <3>2
  <2>8. ASSUME NEW f \in Handlers, NEW g \in Handlers,
               opc'[f] = "create", opc'[g] = "create", othr'[f] = othr'[g]
        PROVE  f = g
      BY <1>0, <2>4, <2>5, <2>7, <2>8 DEF Numbered
  <2>9. Numbered'
      BY <2>6, <2>7, <2>8, Zenon DEF Numbered
  <2>10. Destruction'
      BY <2>1, <2>2 DEF Destruction
  <2> QED BY <2>9, <2>10
<1>3. CASE CreateThread(h)
  <2>1. PICK x \in Thread : x = othr[h]
      BY <1>0, <1>3 DEF CreateThread, OwnerLocals
  <2>2. /\ opc[h] = "create" /\ opc' = [opc EXCEPT ![h] = "assign"]
        /\ wpc' = [wpc EXCEPT ![x] = "check"] /\ UNCHANGED <<othr, count, dpc>>
      BY <1>3, <2>1 DEF CreateThread, poolVars, destroyVars
  <2>3. dpc = "idle"
      BY <1>0, <2>2 DEF Destruction
  <2>4. \A g \in Handlers : opc'[g] = "create" => g # h /\ opc[g] = "create" /\ othr[g] # x
      BY <1>0, <2>1, <2>2 DEF Numbered
  <2>5. ASSUME NEW t \in Thread
        PROVE  /\ t > count' => wpc'[t] = "absent"
               /\ t <= count' => \/ Alive(t)'
                                 \/ \E g \in Handlers : opc'[g] = "create" /\ othr'[g] = t
    <3>1. CASE t = x
      <4>1. x <= count /\ count \in Nat
          BY <1>0, <2>1, <2>2 DEF Numbered
      <4>2. Alive(t)'
          BY <1>0, <2>2, <3>1 DEF Alive
      <4> QED BY <2>2, <3>1, <4>1, <4>2 DEF Thread
    <3>2. CASE t # x
      <4>1. wpc'[t] = wpc[t] /\ (Alive(t)' <=> Alive(t))
          BY <1>0, <2>2, <3>2 DEF Alive
      <4>2. t <= count => Alive(t) \/ \E g \in Handlers : g # h /\ opc[g] = "create" /\ othr[g] = t
          BY <1>0, <2>1, <2>3, <3>2 DEF Numbered
      <4>3. \A g \in Handlers : g # h => opc'[g] = opc[g]
          BY <1>0, <2>2
      <4> QED BY <1>0, <2>2, <2>3, <4>1, <4>2, <4>3 DEF Numbered
    <3> QED BY <3>1, <3>2
  <2>6. ASSUME NEW g \in Handlers, opc'[g] = "create"
        PROVE  wpc'[othr'[g]] = "absent" /\ othr'[g] <= count'
      BY <1>0, <2>2, <2>4, <2>6 DEF Numbered, OwnerLocals
  <2>7. ASSUME NEW f \in Handlers, NEW g \in Handlers,
               opc'[f] = "create", opc'[g] = "create", othr'[f] = othr'[g]
        PROVE  f = g
      BY <1>0, <2>2, <2>4, <2>7 DEF Numbered
  <2>8. Numbered'
      BY <2>5, <2>6, <2>7, Zenon DEF Numbered
  <2>9. Destruction'
      BY <2>2, <2>3 DEF Destruction
  <2> QED BY <2>8, <2>9
<1> QED BY <1>1, <1>2, <1>3 DEF Owner

LEMMA OtherNumbers ==
    ASSUME PlaceInv, \/ \E t \in Thread : Worker(t)
                     \/ \E h \in Handlers : Handler(h)
                     \/ LockPool \/ AwaitIdle \/ StopThread \/ Spurious
                     \/ UNCHANGED vars
    PROVE  Numbered' /\ Destruction'
<1>0. /\ wpc \in [Thread -> WorkerPC] /\ ThreadOK /\ HandlerOK /\ OwnerOK /\ DestroyerOK
      /\ Numbered /\ Destruction /\ OwnerLocals
    BY DEF PlaceInv, TypeInv, TypeOK, ThreadOK, LocalsOK
<1>1. UNCHANGED <<count, othr>>
    BY Zenon DEF Worker, AwaitJob, ExitWorker, RunJob, ClearRunning, PostSelf, SignalResult,
           Handler, NextResult, CollectResult, ReturnThread, Callback, ExitHandler,
           LockPool, AwaitIdle, StopThread, Spurious, WakeOwner, WakeHandler, WakeWorker,
           WakeDestroyer, vars, poolVars, ownerVars
<1>2. ASSUME NEW t \in Thread
      PROVE  /\ wpc'[t] = "absent" <=> wpc[t] = "absent"
             /\ Alive(t)' <=> Alive(t)
  <2>1. CASE UNCHANGED wpc
      BY <2>1 DEF Alive
  <2>2. CASE StopThread
    <3>1. SignalThread(Head(pool))
        BY <2>2 DEF StopThread
    <3> QED BY <1>0, <3>1, SignalThreadWakes DEF Alive
  <2>3. CASE Spurious
      BY <1>0, <2>3 DEF Spurious, WakeOwner, WakeHandler, WakeWorker, WakeDestroyer, Alive
  <2>4. CASE \E u \in Thread : Worker(u)
      BY <1>0, <2>4 DEF Worker, AwaitJob, ExitWorker, RunJob, ClearRunning, PostSelf, SignalResult, Alive
  <2>5. CASE (\E h \in Handlers : Handler(h)) \/ LockPool \/ AwaitIdle \/ UNCHANGED vars
    <3>1. UNCHANGED wpc
        BY <2>5, Zenon DEF Handler, NextResult, CollectResult, ReturnThread, Callback, ExitHandler,
                           LockPool, AwaitIdle, vars
    <3> QED BY <2>1, <3>1
  <2> QED BY <2>2, <2>3, <2>4, <2>5
<1>3. /\ \A h \in Handlers : opc'[h] = opc[h] \/ (opc[h] = "sleep" /\ opc'[h] = "next")
      /\ dpc' = dpc \/ (dpc \notin {"idle", "done"} /\ dpc' \notin {"idle", "done"})
  <2>1. CASE UNCHANGED <<opc, dpc>>
      BY <2>1
  <2>2. CASE \E h \in Handlers : ReturnThread(h)
    <3>1. SignalPool
        BY <2>2 DEF ReturnThread
    <3> QED BY <1>0, <3>1, SignalPoolWakes
  <2>3. CASE LockPool \/ AwaitIdle \/ StopThread
      BY <2>3 DEF LockPool, AwaitIdle, StopThread, ownerVars
  <2>4. CASE Spurious
      BY <1>0, <2>4 DEF Spurious, WakeOwner, WakeHandler, WakeWorker, WakeDestroyer, OwnerOK,
                        ownerVars, destroyVars
  <2>5. ASSUME \/ \E t \in Thread : Worker(t)
               \/ \E h \in Handlers : Handler(h) /\ ~ReturnThread(h)
               \/ UNCHANGED vars
        PROVE  UNCHANGED <<opc, dpc>>
      BY <2>5, Zenon DEF Worker, AwaitJob, ExitWorker, RunJob, ClearRunning, PostSelf, SignalResult,
             Handler, NextResult, CollectResult, Callback, ExitHandler, vars, ownerVars, destroyVars
  <2> QED BY <2>1, <2>2, <2>3, <2>4, <2>5
<1>4. \A h \in Handlers : /\ opc'[h] = "create" <=> opc[h] = "create"
                          /\ opc[h] = "create" => othr'[h] = othr[h] /\ othr[h] \in Thread
                          /\ opc[h] \in {"join", "done"} => opc'[h] \in {"join", "done"}
    BY <1>0, <1>1, <1>3 DEF OwnerLocals
<1> QED BY <1>0, <1>1, <1>2, <1>3, <1>4, NothingCounted

LEMMA DestroyerNumbers ==
    ASSUME PlaceInv, StartDestroy \/ JoinThread \/ FreePool
    PROVE  Numbered' /\ Destruction'
<1>0. /\ wpc \in [Thread -> WorkerPC] /\ count \in 0..MaxThreads
      /\ Numbered /\ Destruction
    BY DEF PlaceInv, TypeInv, TypeOK, ThreadOK, PoolOK
<1> DEFINE living == {t \in Thread : Alive(t)}
<1>1. UNCHANGED opc /\ dpc' # "idle" /\ \A h \in Handlers : opc[h] \in {"join", "done"}
    BY <1>0 DEF StartDestroy, JoinThread, FreePool, ownerVars, Destruction
<1>2. Numbered'
    BY <1>1 DEF Numbered
<1>3. count' = Cardinality(living')
  <2>1. CASE StartDestroy
    <3>1. dpc = "idle" /\ UNCHANGED <<count, wpc>>
        BY <2>1 DEF StartDestroy, poolVars
    <3>2. ASSUME NEW t \in Thread PROVE Alive(t) <=> t <= count
        BY <1>0, <1>1, <3>1 DEF Numbered, Alive, Thread
    <3>3. living = 1..count
        BY <1>0, <3>2 DEF Thread
    <3>4. living' = living
        BY <3>1 DEF Alive
    <3>5. Cardinality(1..count) = count
        BY <1>0, FS_Interval
    <3> HIDE DEF living
    <3> QED BY <3>1, <3>3, <3>4, <3>5
  <2>2. CASE JoinThread
    <3>1. PICK x \in Thread : x = dthr
        BY <2>2 DEF JoinThread, PlaceInv, TypeInv, LocalsOK, DestroyerLocals
    <3>2. /\ dpc = "join" /\ wpc[x] = "exited" /\ wpc' = [wpc EXCEPT ![x] = "freed"]
          /\ count' = count - 1
        BY <2>2, <3>1 DEF JoinThread
    <3>3. count = Cardinality(living)
        BY <1>0, <3>2 DEF Destruction
    <3>4. x \in living /\ living' = living \ {x}
        BY <1>0, <3>2 DEF Alive
    <3>5. IsFiniteSet(living)
      <4>1. IsFiniteSet(Thread)
          BY FS_Interval DEF Thread
      <4> QED BY <4>1, FS_Subset
    <3> HIDE DEF living
    <3>6. Cardinality(living \ {x}) = Cardinality(living) - 1
        BY <3>4, <3>5, FS_RemoveElement
    <3> QED BY <3>2, <3>3, <3>4, <3>6
  <2>3. CASE FreePool
    <3>1. dpc = "loop" /\ UNCHANGED <<count, wpc>>
        BY <2>3 DEF FreePool
    <3>2. living' = living /\ count = Cardinality(living)
        BY <1>0, <3>1 DEF Destruction, Alive
    <3> HIDE DEF living
    <3> QED BY <3>1, <3>2
  <2> QED BY <2>1, <2>2, <2>3
<1>4. dpc' = "done" => count' = 0
    BY DEF StartDestroy, JoinThread, FreePool, AllJoined
<1>5. Destruction'
    BY <1>1, <1>3, <1>4 DEF Destruction
<1> QED BY <1>2, <1>5

LEMMA PlaceStep == PlaceInv /\ [Next]_vars => PlaceInv'
<1> SUFFICES ASSUME PlaceInv, [Next]_vars PROVE PlaceInv'
    OBVIOUS
<1>1. TypeInv'
    BY TypeStep DEF PlaceInv
<1>2. OnePlace' /\ SomePlace'
    BY PlacesStep
<1>3. LocalsCleared'
    BY HandlersClearedStep, DestroyerClearedStep, WorkersQueueStep DEF LocalsCleared
<1>4. Numbered' /\ Destruction'
    BY OwnerNumbers, OtherNumbers, DestroyerNumbers DEF Next, Destroyer
<1> QED BY <1>1, <1>2, <1>3, <1>4 DEF PlaceInv

-------------------------------------------------------------------------------
(* What the invariant says of Places *)

\* Place p is what At tells of thread t at (k, h), with its position.
Named(p, t, k, h) ==
    \/ k = "pool" /\ \E i \in DOMAIN pool : pool[i] = t /\ p = <<"pool", i>>
    \/ k = "queue" /\ \E i \in DOMAIN queue[h] : queue[h][i] = t /\ p = <<"queue", h, i>>
    \/ k = "owner" /\ p = <<"owner", h>>
    \/ k = "handler" /\ p = <<"handler", h>>
    \/ k = "worker" /\ p = <<"worker">>
    \/ k = "destroyer" /\ p = <<"destroyer">>

LEMMA InPlaces ==
    ASSUME NEW t, NEW p
    PROVE  p \in Places(t) <=> \/ p \in InPool(t)
                               \/ \E h \in Handlers : p \in InQueue(t, h)
                               \/ p \in WithOwner(t)
                               \/ p \in WithHandler(t)
                               \/ p = <<"worker">> /\ rqOf[t] # None
                               \/ p = <<"destroyer">> /\ dthr = t
<1>1. p \in Places(t) <=> \/ p \in InPool(t) \/ p \in InQueues(t) \/ p \in WithOwner(t)
                          \/ p \in WithHandler(t) \/ p \in WithItself(t) \/ p \in WithDestroyer(t)
    BY DEF Places
<1>2. p \in InQueues(t) <=> \E h \in Handlers : p \in InQueue(t, h)
    BY DEF InQueues
<1>3. /\ p \in WithItself(t) <=> p = <<"worker">> /\ rqOf[t] # None
      /\ p \in WithDestroyer(t) <=> p = <<"destroyer">> /\ dthr = t
    BY DEF WithItself, WithDestroyer
<1> QED BY <1>1, <1>2, <1>3, Zenon

LEMMA PlaceNamed ==
    ASSUME NEW t \in Thread, NEW p \in Places(t)
    PROVE  \E k \in Kind, h \in Whose : At(t, k, h) /\ Named(p, t, k, h)
<1> USE DEF Kind, Whose, At, Named
<1>1. CASE p \in InPool(t)
  <2>1. PICK i \in DOMAIN pool : pool[i] = t /\ p = <<"pool", i>>
      BY <1>1 DEF InPool
  <2>2. At(t, "pool", None) /\ Named(p, t, "pool", None)
      BY <2>1 DEF Pooled, Elements
  <2> QED BY <2>2
<1>2. CASE \E h \in Handlers : p \in InQueue(t, h)
  <2>0. PICK h \in Handlers : p \in InQueue(t, h)
      BY <1>2
  <2>1. PICK i \in DOMAIN queue[h] : queue[h][i] = t /\ p = <<"queue", h, i>>
      BY <2>0 DEF InQueue
  <2>2. At(t, "queue", h) /\ Named(p, t, "queue", h)
      BY <2>1 DEF Queued, Elements
  <2> QED BY <2>2
<1>3. CASE p \in WithOwner(t)
    BY <1>3 DEF WithOwner, Holding
<1>4. CASE p \in WithHandler(t)
    BY <1>4 DEF WithHandler
<1>5. CASE p = <<"worker">> /\ rqOf[t] # None
    BY <1>5
<1>6. CASE p = <<"destroyer">> /\ dthr = t
    BY <1>6
<1> HIDE DEF Kind, Whose, At, Named
<1> QED BY <1>1, <1>2, <1>3, <1>4, <1>5, <1>6, InPlaces

LEMMA NamedPlace ==
    ASSUME NEW t \in Thread, NEW k \in Kind, NEW h \in Whose, At(t, k, h)
    PROVE  Places(t) # {}
<1>1. CASE k = "pool"
  <2>1. PICK i \in DOMAIN pool : pool[i] = t
      BY <1>1 DEF At, Pooled, Elements
  <2>2. <<"pool", i>> \in Places(t)
      BY <2>1, InPlaces DEF InPool
  <2> QED BY <2>2
<1>2. CASE k = "queue"
  <2>1. h \in Handlers /\ \E i \in DOMAIN queue[h] : queue[h][i] = t
      BY <1>2 DEF At, Queued, Elements
  <2>2. PICK i \in DOMAIN queue[h] : queue[h][i] = t
      BY <2>1
  <2>3. <<"queue", h, i>> \in Places(t)
      BY <2>1, <2>2, InPlaces DEF InQueue
  <2> QED BY <2>3
<1>3. CASE k = "owner"
  <2>1. <<"owner", h>> \in Places(t)
      BY <1>3, InPlaces DEF At, WithOwner, Holding
  <2> QED BY <2>1
<1>4. CASE k = "handler"
  <2>1. <<"handler", h>> \in Places(t)
      BY <1>4, InPlaces DEF At, WithHandler
  <2> QED BY <2>1
<1>5. CASE k = "worker"
  <2>1. <<"worker">> \in Places(t)
      BY <1>5, InPlaces DEF At
  <2> QED BY <2>1
<1>6. CASE k = "destroyer"
  <2>1. <<"destroyer">> \in Places(t)
      BY <1>6, InPlaces DEF At
  <2> QED BY <2>1
<1> QED BY <1>1, <1>2, <1>3, <1>4, <1>5, <1>6 DEF Kind

LEMMA SamePlace ==
    ASSUME OnePlace, NEW t \in Thread, NEW p \in Places(t), NEW q \in Places(t)
    PROVE  p = q
<1>1. PICK k \in Kind, g \in Whose : At(t, k, g) /\ Named(p, t, k, g)
    BY PlaceNamed
<1>2. PICK l \in Kind, h \in Whose : At(t, l, h) /\ Named(q, t, l, h)
    BY PlaceNamed
<1>3. k = l /\ g = h
    BY <1>1, <1>2 DEF OnePlace
<1>4. CASE k = "pool"
    BY <1>1, <1>2, <1>3, <1>4 DEF Named, OnePlace, NoRepeats
<1>5. CASE k = "queue"
  <2>1. NoRepeats(queue[g])
      BY <1>1, <1>5 DEF At, OnePlace
  <2> QED BY <1>1, <1>2, <1>3, <1>5, <2>1 DEF Named, NoRepeats
<1>6. CASE k \notin {"pool", "queue"}
    BY <1>1, <1>2, <1>3, <1>6 DEF Named
<1> QED BY <1>4, <1>5, <1>6

\* threadpool_next() hands out a thread that nobody else has, and each thread is
\* somewhere as long as it exists, whatever the order of the critical sections.
THEOREM ThreadNeverLost == Spec => []ThreadPlaced
<1>1. PlaceInv => ThreadPlaced
  <2> SUFFICES ASSUME PlaceInv, NEW t \in Thread, Alive(t)
               PROVE  \E p \in Places(t) : Places(t) = {p}
      BY DEF ThreadPlaced
  <2>1. OnePlace /\ Places(t) # {}
      BY NamedPlace DEF PlaceInv, SomePlace
  <2>2. PICK p \in Places(t) : TRUE
      BY <2>1
  <2>3. \A q \in Places(t) : q = p
      BY <2>1, SamePlace
  <2> QED BY <2>3
<1> QED BY <1>1, PlaceInit, PlaceStep, PTL DEF Spec

\* threadpool_destroy() frees no thread that somebody still has, and when it
\* returns it has freed them all.
THEOREM FreedThreadsUnused == Spec => []NoUseAfterFree
<1>1. ASSUME PlaceInv PROVE NoUseAfterFree
  <2>0. SomePlace /\ Destruction /\ hthr \in [Handlers -> Thread \cup {0}]
      BY <1>1 DEF PlaceInv, TypeInv, TypeOK, HandlerOK
  <2>1. ASSUME NEW t \in Thread, wpc[t] = "freed" PROVE Places(t) = {}
    <3>1. \A k \in Kind, h \in Whose : ~At(t, k, h)
        BY <2>0, <2>1 DEF SomePlace, Alive
    <3> QED BY <3>1, PlaceNamed
  <2>2. ASSUME dpc = "done" PROVE \A t \in Thread : ~Alive(t)
    <3> DEFINE living == {t \in Thread : Alive(t)}
    <3>1. Cardinality(living) = 0
        BY <2>0, <2>2 DEF Destruction
    <3>2. IsFiniteSet(living)
      <4>1. IsFiniteSet(Thread)
          BY FS_Interval DEF Thread
      <4> QED BY <4>1, FS_Subset
    <3>3. living = {}
      <4> HIDE DEF living
      <4> QED BY <3>1, <3>2, FS_EmptySet
    <3> QED BY <3>3
  <2>3. ASSUME dpc = "done", NEW h \in Handlers PROVE hthr[h] = 0
    <3>1. ASSUME hthr[h] \in Thread PROVE FALSE
      <4>1. "handler" \in Kind /\ h \in Whose
          BY DEF Kind, Whose
      <4>2. At(hthr[h], "handler", h)
          BY DEF At
      <4> QED BY <2>0, <2>2, <2>3, <3>1, <4>1, <4>2 DEF SomePlace
    <3> QED BY <2>0, <3>1
  <2> QED BY <2>1, <2>2, <2>3 DEF NoUseAfterFree
<1> QED BY <1>1, PlaceInit, PlaceStep, PTL DEF Spec

-------------------------------------------------------------------------------
(* What becomes of a job: the pool keeps its assertions and implements JobService. *)

-------------------------------------------------------------------------------
(* What other threads do to a program counter: they wake it, at most. *)

HandlerWoken(h) == \/ hpc'[h] = hpc[h]
                   \/ hpc[h] = "await" /\ hpc'[h] = "collect"
                   \/ hpc[h] = "sleep" /\ hpc'[h] = "next"

LEMMA HandlerWakes ==
    ASSUME PlaceInv, NEW h \in Handlers, [Next]_vars, ~Handler(h)
    PROVE  HandlerWoken(h)
<1>0. ThreadOK /\ HandlerOK /\ hpc \in [Handlers -> HandlerPC]
    BY DEF PlaceInv, TypeInv, TypeOK, HandlerOK
<1>1. ASSUME NEW g \in Handlers, Assign(g) PROVE HandlerWoken(h)
  <2>1. SignalThread(othr[g])
      BY <1>1 DEF Assign
  <2> QED BY <1>0, <2>1, SignalThreadWakes DEF HandlerWoken
<1>2. ASSUME StopThread PROVE HandlerWoken(h)
  <2>1. SignalThread(Head(pool))
      BY <1>2 DEF StopThread
  <2> QED BY <1>0, <2>1, SignalThreadWakes DEF HandlerWoken
<1>3. ASSUME NEW t \in Thread, SignalResult(t) PROVE HandlerWoken(h)
  <2>1. \/ \E g \in AwaitingResult(t) : hpc' = [hpc EXCEPT ![g] = "collect"]
        \/ UNCHANGED hpc
      BY <1>3 DEF SignalResult
  <2> QED BY <1>0, <2>1, SignalResultWakes DEF HandlerWoken
<1>4. ASSUME NEW g \in Handlers, Enqueue(g) \/ Finish(g) PROVE HandlerWoken(h)
  <2>1. hpc' = WokenByQueue(g) \/ UNCHANGED hpc
      BY <1>4 DEF Enqueue, Finish
  <2> QED BY <1>0, <2>1, WokenByQueueWakes DEF HandlerWoken
<1>5. ASSUME NEW t \in Thread, PostSelf(t) PROVE HandlerWoken(h)
  <2>1. hpc' = WokenByQueue(rqOf[t])
      BY <1>5 DEF PostSelf
  <2> QED BY <1>0, <2>1, WokenByQueueWakes DEF HandlerWoken
<1>6. ASSUME NEW g \in Handlers, Handler(g), g # h PROVE HandlerWoken(h)
    BY <1>0, <1>6 DEF Handler, NextResult, CollectResult, ReturnThread, Callback, ExitHandler,
                      HandlerWoken
<1>7. ASSUME Spurious PROVE HandlerWoken(h)
    BY <1>0, <1>7 DEF Spurious, WakeOwner, WakeHandler, WakeWorker, WakeDestroyer, handlerVars,
                      HandlerWoken
<1>8. CASE UNCHANGED hpc
    BY <1>8 DEF HandlerWoken
<1>9. ASSUME NEW g \in Handlers, TakeThread(g) \/ CreateThread(g) \/ JoinHandler(g)
      PROVE  UNCHANGED hpc
    BY <1>9, Zenon DEF TakeThread, CreateThread, JoinHandler, handlerVars
<1>10. ASSUME NEW t \in Thread, AwaitJob(t) \/ ExitWorker(t) \/ RunJob(t) \/ ClearRunning(t)
       PROVE  UNCHANGED hpc
    BY <1>10, Zenon DEF AwaitJob, ExitWorker, RunJob, ClearRunning, handlerVars
<1>11. ASSUME StartDestroy \/ LockPool \/ AwaitIdle \/ JoinThread \/ FreePool PROVE UNCHANGED hpc
    BY <1>11, Zenon DEF StartDestroy, LockPool, AwaitIdle, JoinThread, FreePool, handlerVars
<1>12. ASSUME UNCHANGED vars PROVE UNCHANGED hpc
    BY <1>12 DEF vars, handlerVars
<1> QED BY <1>1, <1>2, <1>3, <1>4, <1>5, <1>6, <1>7, <1>8, <1>9, <1>10, <1>11, <1>12
        DEF Next, Owner, Worker, Destroyer

OwnerWoken(h) == opc'[h] = opc[h] \/ (opc[h] = "sleep" /\ opc'[h] = "next")

LEMMA OwnerWakes ==
    ASSUME PlaceInv, NEW h \in Handlers, [Next]_vars, ~Owner(h)
    PROVE  OwnerWoken(h)
<1>0. OwnerOK /\ DestroyerOK /\ opc \in [Handlers -> OwnerPC]
    BY DEF PlaceInv, TypeInv, TypeOK, OwnerOK
<1>1. ASSUME NEW g \in Handlers, ReturnThread(g) PROVE OwnerWoken(h)
  <2>1. SignalPool
      BY <1>1 DEF ReturnThread
  <2> QED BY <1>0, <2>1, SignalPoolWakes DEF OwnerWoken
<1>2. ASSUME NEW g \in Handlers, Owner(g), g # h PROVE OwnerWoken(h)
    BY <1>0, <1>2 DEF Owner, TakeThread, CreateThread, Assign, Enqueue, Finish, JoinHandler, OwnerWoken
<1>3. ASSUME NEW g \in Handlers, NextResult(g) \/ CollectResult(g) \/ Callback(g) \/ ExitHandler(g)
      PROVE  OwnerWoken(h)
    BY <1>3 DEF NextResult, CollectResult, Callback, ExitHandler, ownerVars, OwnerWoken
<1>4. ASSUME NEW t \in Thread, Worker(t) PROVE OwnerWoken(h)
    BY <1>4 DEF Worker, AwaitJob, ExitWorker, RunJob, ClearRunning, PostSelf, SignalResult,
                ownerVars, OwnerWoken
<1>5. ASSUME Destroyer PROVE OwnerWoken(h)
    BY <1>5 DEF Destroyer, StartDestroy, LockPool, AwaitIdle, StopThread, JoinThread, FreePool,
                ownerVars, OwnerWoken
<1>6. ASSUME Spurious PROVE OwnerWoken(h)
    BY <1>0, <1>6 DEF Spurious, WakeOwner, WakeHandler, WakeWorker, WakeDestroyer, ownerVars,
                      OwnerWoken
<1>7. ASSUME UNCHANGED vars PROVE OwnerWoken(h)
    BY <1>7 DEF vars, ownerVars, OwnerWoken
<1> QED BY <1>1, <1>2, <1>3, <1>4, <1>5, <1>6, <1>7 DEF Next, Handler

WorkerWoken(t) == wpc'[t] = wpc[t] \/ (wpc[t] = "sleep" /\ wpc'[t] = "check")

LEMMA WorkerWakes ==
    ASSUME PlaceInv, NEW t \in Thread, [Next]_vars,
           ~Worker(t), \A h \in Handlers : ~CreateThread(h), ~JoinThread
    PROVE  WorkerWoken(t)
<1>0. ThreadOK /\ HandlerOK /\ wpc \in [Thread -> WorkerPC]
    BY DEF PlaceInv, TypeInv, TypeOK, ThreadOK
<1>1. ASSUME NEW g \in Handlers, Assign(g) PROVE WorkerWoken(t)
  <2>1. SignalThread(othr[g])
      BY <1>1 DEF Assign
  <2> QED BY <1>0, <2>1, SignalThreadWakes DEF WorkerWoken
<1>2. ASSUME StopThread PROVE WorkerWoken(t)
  <2>1. SignalThread(Head(pool))
      BY <1>2 DEF StopThread
  <2> QED BY <1>0, <2>1, SignalThreadWakes DEF WorkerWoken
<1>3. ASSUME NEW u \in Thread, Worker(u), u # t PROVE WorkerWoken(t)
    BY <1>0, <1>3 DEF Worker, AwaitJob, ExitWorker, RunJob, ClearRunning, PostSelf, SignalResult,
                      WorkerWoken
<1>4. ASSUME NEW g \in Handlers, TakeThread(g) \/ Enqueue(g) \/ Finish(g) \/ JoinHandler(g)
      PROVE  WorkerWoken(t)
    BY <1>4 DEF TakeThread, Enqueue, Finish, JoinHandler, WorkerWoken
<1>5. ASSUME NEW g \in Handlers, Handler(g) PROVE WorkerWoken(t)
    BY <1>5 DEF Handler, NextResult, CollectResult, ReturnThread, Callback, ExitHandler, WorkerWoken
<1>6. ASSUME StartDestroy \/ LockPool \/ AwaitIdle \/ FreePool PROVE WorkerWoken(t)
    BY <1>6 DEF StartDestroy, LockPool, AwaitIdle, FreePool, WorkerWoken
<1>7. ASSUME Spurious PROVE WorkerWoken(t)
    BY <1>0, <1>7 DEF Spurious, WakeOwner, WakeHandler, WakeWorker, WakeDestroyer, WorkerWoken
<1>8. ASSUME UNCHANGED vars PROVE WorkerWoken(t)
    BY <1>8 DEF vars, WorkerWoken
<1> QED BY <1>1, <1>2, <1>3, <1>4, <1>5, <1>6, <1>7, <1>8 DEF Next, Owner, Destroyer

-------------------------------------------------------------------------------
(* The job of a thread *)

\* What thread t carries: a job, or its result, which is the same in this model.
Carried(t) == IF job[t] # None THEN job[t] ELSE res[t]

\* Thread t is in use for handler h, from the assignment of a job until its result
\* is taken.
UsedFor(t, h) ==
    \/ At(t, "queue", h)
    \/ At(t, "handler", h) /\ hpc[h] \in {"collect", "await"}
    \/ rqOf[t] = h
    \/ At(t, "owner", h) /\ opc[h] = "enqueue"

\* An owner takes a thread and assigns a job to it, a handler takes the result:
\* the two steps that begin and end a use.
TakesResult(g) == CollectResult(g) /\ ~running[hthr[g]]

Types ==
    /\ pool \in Seq(Thread)
    /\ running \in [Thread -> BOOLEAN] /\ wpc \in [Thread -> WorkerPC]
    /\ job \in [Thread -> Job \cup {None}] /\ res \in [Thread -> Job \cup {None}]
    /\ rqOf \in [Thread -> Handlers \cup {None}]
    /\ queue \in [Handlers -> Seq(Thread)] /\ finished \in [Handlers -> BOOLEAN]
    /\ nthreads \in [Handlers -> 0..SizeMax]
    /\ opc \in [Handlers -> OwnerPC] /\ othr \in [Handlers -> Thread \cup {0}]
    /\ sent \in [Handlers -> Nat]
    /\ hpc \in [Handlers -> HandlerPC] /\ hthr \in [Handlers -> Thread \cup {0}]
    /\ hres \in [Handlers -> Job \cup {None}]
    /\ delivered \in [Handlers -> Seq(Job \cup {None})]

-------------------------------------------------------------------------------
(* The inductive invariant *)

\* A thread at rest: in the pool, or on its way from it or back to it.
AtRest(t) ==
    \/ At(t, "pool", None)
    \/ \E h \in Handlers : \/ At(t, "owner", h) /\ opc[h] = "assign"
                           \/ At(t, "handler", h) /\ hpc[h] = "return"

\* A worker keeps its job until it has run it, and is not running when it waits for
\* another one, or is about to post itself.
Phase(t) ==
    /\ job[t] # None => running[t] /\ res[t] = None /\ wpc[t] \in {"check", "sleep", "run"}
    /\ ~running[t] => wpc[t] \in {"absent", "check", "sleep", "post"}
    /\ wpc[t] = "absent" => Idle(t)
Phases == \A t \in Thread : Phase(t)

Resting == \A t \in Thread : AtRest(t) => Idle(t)

\* nthreads is the number of threads that are busy for an unordered handler or have
\* posted themselves; until the owner has counted the last one it is one less, modulo
\* the range of size_t.
Lent(h) == {t \in Thread : rqOf[t] = h \/ t \in Queued(h)}
Counts(h) == nthreads[h] = IF opc[h] = "enqueue" THEN Dec(Cardinality(Lent(h))) ELSE Cardinality(Lent(h))
Counted == \A h \in Handlers \ Ordered : Counts(h)
Unposted == \A t \in Thread : rqOf[t] \notin Ordered

\* The end of a handler, and of its owner's dispatches.
End(h) ==
    /\ finished[h] <=> opc[h] \in {"join", "done"}
    /\ hpc[h] \in {"destroy", "exited"} => finished[h] /\ queue[h] = <<>> /\ nthreads[h] = 0
    /\ opc[h] = "done" => hpc[h] = "exited"
    /\ opc[h] \in {"next", "sleep", "create", "assign"} => sent[h] < Jobs[h]
Ending == \A h \in Handlers : End(h)

WorkInv == PlaceInv /\ Phases /\ Resting /\ Counted /\ Unposted /\ Ending

\* Where job i of handler h can be: with a thread that is in use, with the handler's
\* thread (spot 0), or delivered (spot -1).
Spot == Thread \cup {0, -1}
DeliveredTo(h) == Elements(delivered[h])
HasResult(h) == hpc[h] \in {"return", "callback"}
Has(p, h, i) ==
    \/ p \in Thread /\ UsedFor(p, h) /\ Carried(p) = <<h, i>>
    \/ p = 0 /\ HasResult(h) /\ hres[h] = <<h, i>>
    \/ p = -1 /\ <<h, i>> \in DeliveredTo(h)

\* A job is somewhere from the moment it is sent, and nowhere twice.
Keeps(h, i) ==
    /\ (\E p \in Spot : Has(p, h, i)) <=> i \in 1..sent[h]
    /\ \A p, q \in Spot : Has(p, h, i) /\ Has(q, h, i) => p = q
Kept == \A h \in Handlers, i \in Nat : Keeps(h, i)

\* The threads of handler h, its own thread and its callback have none but h's jobs.
Own(h) == {<<h, i>> : i \in 1..sent[h]}
Owns(h) ==
    /\ \A t \in Thread : UsedFor(t, h) => Carried(t) \in Own(h)
    /\ HasResult(h) => hres[h] \in Own(h)
    /\ DeliveredTo(h) \subseteq Own(h)
Owned == \A h \in Handlers : Owns(h)

\* The jobs of an ordered handler stand in the order of their dispatch: delivered
\* ones, the one in the handler's hands, those in its queue, and the one that the
\* owner has yet to queue.
Collecting(h) == hpc[h] \in {"collect", "await"}
Before(h) == Len(delivered[h]) + (IF HasResult(h) \/ Collecting(h) THEN 1 ELSE 0)
Load == [t \in Thread |-> Carried(t)]
Turn(h) ==
    /\ HasResult(h) => hres[h] = <<h, Len(delivered[h]) + 1>>
    /\ Collecting(h) => Load[hthr[h]] = <<h, Len(delivered[h]) + 1>>
    /\ \A k \in DOMAIN queue[h] : Load[queue[h][k]] = <<h, Before(h) + k>>
    /\ opc[h] = "enqueue" => Load[othr[h]] = <<h, sent[h]>>
    /\ Before(h) + Len(queue[h]) + (IF opc[h] = "enqueue" THEN 1 ELSE 0) = sent[h]
InTurn == \A h \in Ordered : Turn(h)

ServiceInv == WorkInv /\ Kept /\ Owned /\ InTurn

-------------------------------------------------------------------------------
(* The uses of a thread *)

LEMMA TypesOf == PlaceInv => Types
BY DEF PlaceInv, TypeInv, TypeOK, PoolOK, ThreadOK, QueueOK, OwnerOK, HandlerOK, Types

LEMMA Kinds ==
    /\ "pool" \in Kind /\ "queue" \in Kind /\ "owner" \in Kind /\ "handler" \in Kind
    /\ "worker" \in Kind /\ "destroyer" \in Kind
    /\ None \in Whose /\ Handlers \subseteq Whose
BY DEF Kind, Whose

\* A thread is used for one handler at most.
LEMMA UsedForOne ==
    ASSUME PlaceInv, NEW t \in Thread, NEW g \in Handlers, NEW h \in Handlers,
           UsedFor(t, g), UsedFor(t, h)
    PROVE  g = h
<1>1. ASSUME NEW i \in Handlers, UsedFor(t, i)
      PROVE  \E k \in Kind, j \in Whose : At(t, k, j) /\ i = IF k = "worker" THEN rqOf[t] ELSE j
  <2>1. i # None
      BY HandlersAssumption DEF HandlersAssumption
  <2>2. CASE rqOf[t] = i
    <3>1. At(t, "worker", None)
        BY <2>1, <2>2 DEF At
    <3> QED BY <2>2, <3>1, Kinds
  <2>3. ASSUME NEW k \in {"queue", "handler", "owner"}, At(t, k, i)
        PROVE  \E l \in Kind, j \in Whose : At(t, l, j) /\ i = IF l = "worker" THEN rqOf[t] ELSE j
    <3>1. k \in Kind /\ i \in Whose /\ k # "worker"
        BY Kinds
    <3> QED BY <2>3, <3>1
  <2>4. CASE At(t, "queue", i)
      BY <2>3, <2>4
  <2>5. CASE At(t, "handler", i)
      BY <2>3, <2>5
  <2>6. CASE At(t, "owner", i)
      BY <2>3, <2>6
  <2> QED BY <1>1, <2>2, <2>4, <2>5, <2>6 DEF UsedFor
<1>2. PICK k \in Kind, i \in Whose : At(t, k, i) /\ g = IF k = "worker" THEN rqOf[t] ELSE i
    BY <1>1
<1>3. PICK l \in Kind, j \in Whose : At(t, l, j) /\ h = IF l = "worker" THEN rqOf[t] ELSE j
    BY <1>1
<1>4. \A k1, k2 \in Kind, h1, h2 \in Whose : At(t, k1, h1) /\ At(t, k2, h2) => k1 = k2 /\ h1 = h2
    BY DEF PlaceInv, OnePlace
<1>5. k = l /\ i = j
    BY <1>2, <1>3, <1>4
<1> QED BY <1>2, <1>3, <1>5

\* A thread that is at rest, or in the hands of the destroyer, is not in use.
LEMMA UnusedPlace ==
    ASSUME PlaceInv, NEW t \in Thread, NEW h \in Handlers, NEW g \in Whose,
           NEW k \in Kind, At(t, k, g),
           \/ k \in {"pool", "destroyer"}
           \/ k = "owner" /\ opc[g] = "assign"
           \/ k = "handler" /\ hpc[g] = "return"
    PROVE  ~UsedFor(t, h)
<1>1. OnePlace /\ SomePlace
    BY DEF PlaceInv
<1>2. \A l \in Kind, i \in Whose : At(t, l, i) => l = k /\ i = g
    BY <1>1, OnlyThere
<1>3. rqOf[t] = None
  <2>1. k # "worker"
      OBVIOUS
  <2>2. ~At(t, "worker", None)
      BY <1>2, <2>1, Kinds
  <2> QED BY <2>2 DEF At
<1>4. ~At(t, "queue", h)
    BY <1>2, Kinds
<1>5. At(t, "handler", h) => hpc[h] = "return"
    BY <1>2, Kinds
<1>6. At(t, "owner", h) => opc[h] = "assign"
    BY <1>2, Kinds
<1>7. h # None
    BY HandlersAssumption DEF HandlersAssumption
<1> QED BY <1>3, <1>4, <1>5, <1>6, <1>7 DEF UsedFor

\* What a step must leave alone for a use to go on.
LEMMA UseSame ==
    ASSUME NEW t \in Thread, NEW h \in Handlers,
           Queued(h)' = Queued(h), hthr'[h] = hthr[h], rqOf'[t] = rqOf[t],
           hpc'[h] \in {"collect", "await"} <=> hpc[h] \in {"collect", "await"},
           opc'[h] = "enqueue" <=> opc[h] = "enqueue",
           opc[h] = "enqueue" => othr'[h] = othr[h]
    PROVE  UsedFor(t, h)' <=> UsedFor(t, h)
<1>1. At(t, "queue", h)' <=> At(t, "queue", h)
    BY DEF At
<1>2. At(t, "handler", h)' <=> At(t, "handler", h)
    BY DEF At
<1>3. (At(t, "owner", h) /\ opc[h] = "enqueue")' <=> (At(t, "owner", h) /\ opc[h] = "enqueue")
    BY DEF At, Holding
<1> QED BY <1>1, <1>2, <1>3, Zenon DEF UsedFor

LEMMA OwnerUses ==
    ASSUME PlaceInv, [Next]_vars, NEW t \in Thread, NEW h \in Handlers,
           NEW g \in Handlers, Owner(g), ~Assign(g)
    PROVE  UsedFor(t, h)' <=> UsedFor(t, h)
<1>0. Types /\ OnePlace /\ SomePlace
    BY TypesOf DEF PlaceInv
<1>1. UNCHANGED <<hthr, rqOf>>
    BY Zenon DEF Owner, TakeThread, CreateThread, Enqueue, Finish, JoinHandler, handlerVars, thrVars
<1>2. hpc'[h] \in {"collect", "await"} <=> hpc[h] \in {"collect", "await"}
    BY <1>0 DEF Owner, TakeThread, CreateThread, Enqueue, Finish, JoinHandler, handlerVars, WokenByQueue, Types
<1>3. CASE TakeThread(g) \/ CreateThread(g) \/ Finish(g) \/ JoinHandler(g)
  <2>1. UNCHANGED queue
      BY <1>3, Zenon DEF TakeThread, CreateThread, Finish, JoinHandler, queueVars
  <2>2. /\ opc'[h] = "enqueue" <=> opc[h] = "enqueue"
        /\ opc[h] = "enqueue" => othr'[h] = othr[h]
      BY <1>0, <1>3 DEF TakeThread, CreateThread, Finish, JoinHandler, Types
  <2> QED BY <1>1, <1>2, <2>1, <2>2, UseSame DEF Queued
<1>4. CASE Enqueue(g) /\ (g # h \/ h \notin Ordered)
  <2>1. Queued(h)' = Queued(h)
      BY <1>0, <1>4 DEF Enqueue, Queued, Types
  <2>2. CASE g # h
    <3>1. opc'[h] = opc[h] /\ othr'[h] = othr[h]
        BY <1>0, <1>4, <2>2 DEF Enqueue, Types
    <3> QED BY <1>1, <1>2, <2>1, <3>1, UseSame
  <2>3. CASE g = h /\ h \notin Ordered
    <3>1. ~At(t, "owner", h)' /\ (At(t, "owner", h) => opc[h] # "enqueue")
        BY <1>0, <1>4, <2>3 DEF Enqueue, At, Holding, Types
    <3>2. /\ At(t, "queue", h)' <=> At(t, "queue", h)
          /\ At(t, "handler", h)' <=> At(t, "handler", h)
        BY <1>1, <2>1 DEF At
    <3> QED BY <1>1, <1>2, <3>1, <3>2 DEF UsedFor
  <2> QED BY <1>4, <2>2, <2>3
<1>5. CASE Enqueue(g) /\ g = h /\ h \in Ordered
  <2>1. PICK x \in Thread : x = othr[h]
      BY <1>5 DEF Enqueue, PlaceInv, TypeInv, LocalsOK, OwnerLocals
  <2>2. /\ queue'[h] = Append(queue[h], x) /\ opc[h] = "enqueue" /\ opc'[h] = "idle"
      BY <1>0, <1>5, <2>1 DEF Enqueue, Put, Types
  <2>3. At(x, "owner", h)
      BY <1>5, <2>1, <2>2 DEF At, Holding
  <2>4. ~At(x, "queue", h)
      BY <1>0, <2>3, Kinds, OnlyThere
  <2>5. Queued(h)' = Queued(h) \cup {x}
    <3>1. queue[h] \in Seq(Thread) /\ NoRepeats(queue[h]) /\ x \notin Elements(queue[h])
        BY <1>0, <2>4 DEF Types, OnePlace, At, Queued
    <3> QED BY <2>2, <3>1, PutLast DEF Queued
  <2>6. /\ At(t, "queue", h)' <=> At(t, "queue", h) \/ t = x
        /\ At(t, "handler", h)' <=> At(t, "handler", h)
        /\ At(t, "owner", h) <=> t = x
        /\ ~At(t, "owner", h)'
      BY <1>1, <1>5, <2>1, <2>2, <2>5 DEF At, Holding
  <2> QED BY <1>1, <1>2, <2>2, <2>6 DEF UsedFor
<1> QED BY <1>3, <1>4, <1>5 DEF Owner

LEMMA AssignUses ==
    ASSUME PlaceInv, NEW t \in Thread, NEW h \in Handlers, NEW g \in Handlers, Assign(g)
    PROVE  UsedFor(t, h)' <=> UsedFor(t, h) \/ (t = othr[g] /\ h = g)
<1>0. Types /\ OnePlace /\ SomePlace /\ ThreadOK /\ HandlerOK
    BY TypesOf DEF PlaceInv, TypeInv, TypeOK
<1>1. PICK x \in Thread : x = othr[g]
    BY DEF Assign, PlaceInv, TypeInv, LocalsOK, OwnerLocals
<1>2. /\ opc[g] = "assign" /\ opc' = [opc EXCEPT ![g] = "enqueue"] /\ SignalThread(x)
      /\ rqOf' = [rqOf EXCEPT ![x] = QueueForWorker(g)]
      /\ UNCHANGED <<queue, hthr, othr>>
    BY <1>1 DEF Assign, queueVars
<1>3. At(x, "owner", g)
    BY <1>1, <1>2 DEF At, Holding
<1>4. \A k \in Kind, i \in Whose : At(x, k, i) => k = "owner" /\ i = g
    BY <1>0, <1>3, Kinds, OnlyThere
<1>5. rqOf[x] = None
    BY <1>4, Kinds DEF At
<1>6. Collecting(h)' <=> Collecting(h)
  <2>1. hpc'[h] = hpc[h] \/ (hpc[h] = "await" /\ hpc'[h] = "collect")
      BY <1>0, <1>2, SignalThreadWakes
  <2> QED BY <2>1 DEF Collecting
<1>7. /\ At(t, "queue", h)' <=> At(t, "queue", h)
      /\ At(t, "handler", h)' <=> At(t, "handler", h)
    BY <1>2 DEF At, Queued
<1>8. CASE h # g
  <2>1. At(t, "owner", h)' /\ opc'[h] = "enqueue" <=> At(t, "owner", h) /\ opc[h] = "enqueue"
      BY <1>0, <1>2, <1>8 DEF At, Holding, Types
  <2>2. rqOf'[t] = h <=> rqOf[t] = h
      BY <1>0, <1>2, <1>5, <1>8, HandlersAssumption DEF Types, QueueForWorker, HandlersAssumption
  <2> QED BY <1>6, <1>7, <1>8, <2>1, <2>2 DEF UsedFor, Collecting
<1>9. CASE h = g
  <2>1. ~(At(t, "owner", h) /\ opc[h] = "enqueue")
      BY <1>2, <1>9
  <2>2. CASE g \in Ordered
    <3>1. At(t, "owner", h)' /\ opc'[h] = "enqueue" <=> t = x
        BY <1>0, <1>1, <1>2, <1>9, <2>2 DEF At, Holding, Types
    <3>2. rqOf'[t] = h <=> rqOf[t] = h
        BY <1>0, <1>2, <1>5, <2>2, HandlersAssumption DEF Types, QueueForWorker, HandlersAssumption
    <3> QED BY <1>1, <1>6, <1>7, <1>9, <2>1, <3>1, <3>2 DEF UsedFor, Collecting
  <2>3. CASE g \notin Ordered
    <3>1. ~At(t, "owner", h)'
        BY <1>0, <1>2, <1>9, <2>3 DEF At, Holding, Types
    <3>2. rqOf'[t] = h <=> rqOf[t] = h \/ t = x
        BY <1>0, <1>2, <1>9, <2>3 DEF Types, QueueForWorker
    <3> QED BY <1>1, <1>6, <1>7, <1>9, <2>1, <3>1, <3>2 DEF UsedFor, Collecting
  <2> QED BY <2>2, <2>3
<1> QED BY <1>8, <1>9

LEMMA WorkerUses ==
    ASSUME PlaceInv, NEW t \in Thread, NEW h \in Handlers, NEW x \in Thread, Worker(x)
    PROVE  UsedFor(t, h)' <=> UsedFor(t, h)
<1>0. Types /\ OnePlace /\ SomePlace /\ HandlerOK
    BY TypesOf DEF PlaceInv, TypeInv, TypeOK
<1>1. UNCHANGED <<hthr, opc, othr>>
    BY Zenon DEF Worker, AwaitJob, ExitWorker, RunJob, ClearRunning, PostSelf, SignalResult,
                 ownerVars, handlerVars
<1>2. Collecting(h)' <=> Collecting(h)
  <2>1. \A i \in Handlers : ~Handler(i) => HandlerWoken(i)
      BY HandlerWakes DEF Next
  <2>2. CASE Handler(h)
    <3>1. UNCHANGED wpc
        BY <2>2, Zenon DEF Handler, NextResult, CollectResult, ReturnThread, Callback, ExitHandler
    <3> QED BY <1>0, <3>1 DEF Worker, AwaitJob, ExitWorker, RunJob, ClearRunning, PostSelf, SignalResult, Types
  <2> QED BY <2>1, <2>2 DEF HandlerWoken, Collecting
<1>3. CASE ~PostSelf(x)
  <2>1. UNCHANGED <<queue, rqOf>>
      BY <1>3, Zenon DEF Worker, AwaitJob, ExitWorker, RunJob, ClearRunning, SignalResult,
                 queueVars, thrVars
  <2> QED BY <1>1, <1>2, <2>1, UseSame DEF Queued, Collecting
<1>4. CASE PostSelf(x)
  <2>1. PICK g \in Handlers : g = rqOf[x]
      BY <1>0, <1>4 DEF PostSelf, PlaceInv, LocalsCleared, WorkersQueue, Types
  <2>2. queue' = [queue EXCEPT ![g] = Append(@, x)] /\ rqOf' = [rqOf EXCEPT ![x] = None]
      BY <1>4, <2>1 DEF PostSelf, Put
  <2>3. At(x, "worker", None) /\ g # None /\ h # None
      BY <2>1, HandlersAssumption DEF At, HandlersAssumption
  <2>4. \A k \in Kind, i \in Whose : At(x, k, i) => k = "worker"
      BY <1>0, <2>3, Kinds, OnlyThere
  <2>5. Queued(g)' = Queued(g) \cup {x}
    <3>1. x \notin Elements(queue[g])
        BY <2>4, Kinds DEF At, Queued
    <3>2. queue[g] \in Seq(Thread) /\ NoRepeats(queue[g]) /\ queue'[g] = Append(queue[g], x)
        BY <1>0, <2>2 DEF Types, OnePlace
    <3> QED BY <3>1, <3>2, PutLast DEF Queued
  <2>6. g # h => Queued(h)' = Queued(h)
      BY <1>0, <2>2 DEF Types, Queued
  <2>7. At(t, "queue", h)' \/ rqOf'[t] = h <=> At(t, "queue", h) \/ rqOf[t] = h
      BY <1>0, <2>1, <2>2, <2>3, <2>5, <2>6 DEF At, Types
  <2>8. /\ At(t, "handler", h)' <=> At(t, "handler", h)
        /\ At(t, "owner", h)' <=> At(t, "owner", h)
      BY <1>1 DEF At, Holding
  <2> QED BY <1>1, <1>2, <2>7, <2>8 DEF UsedFor, Collecting
<1> QED BY <1>3, <1>4

LEMMA HandlerUses ==
    ASSUME PlaceInv, NEW t \in Thread, NEW h \in Handlers, NEW g \in Handlers, Handler(g)
    PROVE  UsedFor(t, h)' <=> UsedFor(t, h) /\ ~(TakesResult(g) /\ t = hthr[g])
<1>0. Types /\ OnePlace /\ SomePlace /\ OwnerOK /\ DestroyerOK
    BY TypesOf DEF PlaceInv, TypeInv, TypeOK
<1>1. UNCHANGED rqOf
    BY Zenon DEF Handler, NextResult, CollectResult, ReturnThread, Callback, ExitHandler, thrVars
<1>2. /\ opc'[h] = "enqueue" <=> opc[h] = "enqueue"
      /\ opc[h] = "enqueue" => othr'[h] = othr[h]
      /\ Holding(h)' <=> Holding(h)
      /\ Holding(h) => othr'[h] = othr[h]
  <2>1. CASE ReturnThread(g)
    <3>1. SignalPool /\ UNCHANGED othr
        BY <2>1 DEF ReturnThread
    <3> QED BY <1>0, <3>1, SignalPoolWakes DEF Holding
  <2>2. CASE ~ReturnThread(g)
    <3>1. UNCHANGED <<opc, othr>>
        BY <2>2, Zenon DEF Handler, NextResult, CollectResult, Callback, ExitHandler, ownerVars
    <3> QED BY <3>1 DEF Holding
  <2> QED BY <2>1, <2>2
<1>3. CASE NextResult(g) /\ queue[g] # <<>>
  <2>1. PICK x \in Thread : x = Head(queue[g])
      BY <1>0, <1>3, HeadTail DEF Types
  <2>2. /\ hthr' = [hthr EXCEPT ![g] = x] /\ queue' = [queue EXCEPT ![g] = Tail(@)]
        /\ hpc[g] = "next" /\ hpc' = [hpc EXCEPT ![g] = "collect"]
      BY <1>3, <2>1 DEF NextResult
  <2>3. Queued(g)' = Queued(g) \ {x} /\ x \in Queued(g)
    <3>1. queue[g] \in Seq(Thread) /\ queue'[g] = Tail(queue[g]) /\ NoRepeats(queue[g])
        BY <1>0, <2>2 DEF Types, OnePlace
    <3> QED BY <1>3, <2>1, <3>1, TakeFirst DEF Queued
  <2>4. ~TakesResult(g)
      BY <2>2 DEF TakesResult, CollectResult
  <2>5. CASE h # g
    <3>1. /\ Queued(h)' = Queued(h) /\ hthr'[h] = hthr[h] /\ rqOf'[t] = rqOf[t]
          /\ hpc'[h] \in {"collect", "await"} <=> hpc[h] \in {"collect", "await"}
        BY <1>0, <1>1, <2>2, <2>5 DEF Types, Queued
    <3> QED BY <1>2, <2>4, <3>1, UseSame
  <2>6. CASE h = g
    <3>1. hthr'[h] = x /\ hpc'[h] = "collect" /\ hpc[h] = "next"
        BY <1>0, <2>2, <2>6 DEF Types
    <3>2. At(t, "queue", h)' \/ At(t, "handler", h)' <=> At(t, "queue", h)
        BY <2>3, <2>6, <3>1 DEF At
    <3>3. At(t, "owner", h)' <=> At(t, "owner", h)
        BY <1>2 DEF At
    <3> QED BY <1>1, <1>2, <2>4, <3>1, <3>2, <3>3 DEF UsedFor
  <2> QED BY <2>5, <2>6
<1>4. CASE CollectResult(g) /\ ~running[hthr[g]]
  <2>1. PICK x \in Thread : x = hthr[g]
      BY <1>4 DEF CollectResult, PlaceInv, TypeInv, LocalsOK, HandlerLocals
  <2>2. /\ hpc[g] = "collect" /\ hpc' = [hpc EXCEPT ![g] = "return"]
        /\ UNCHANGED <<hthr, queue>>
      BY <1>4 DEF CollectResult, queueVars
  <2>3. TakesResult(g)
      BY <1>4 DEF TakesResult
  <2>4. CASE t # x
    <3>1. At(t, "handler", h)' /\ hpc'[h] \in {"collect", "await"} <=> At(t, "handler", h) /\ hpc[h] \in {"collect", "await"}
        BY <1>0, <2>1, <2>2, <2>4 DEF At, Types
    <3>2. /\ At(t, "owner", h)' <=> At(t, "owner", h)
          /\ At(t, "queue", h)' <=> At(t, "queue", h)
        BY <1>2, <2>2 DEF At, Queued
    <3> QED BY <1>1, <1>2, <2>1, <2>4, <3>1, <3>2 DEF UsedFor
  <2>5. CASE t = x
    <3>1. At(x, "handler", g)
        BY <2>1 DEF At
    <3>2. \A k \in Kind, i \in Whose : At(x, k, i) => k = "handler" /\ i = g
        BY <1>0, <3>1, Kinds, OnlyThere
    <3>3. ~At(x, "queue", h) /\ ~At(x, "owner", h) /\ (At(x, "handler", h) => h = g) /\ ~At(x, "worker", None)
        BY <3>2, Kinds
    <3>4. /\ At(t, "owner", h)' <=> At(t, "owner", h)
          /\ At(t, "queue", h)' <=> At(t, "queue", h)
          /\ At(t, "handler", h)' <=> At(t, "handler", h)
        BY <1>2, <2>2 DEF At, Queued
    <3>5. h = g => hpc'[h] = "return"
        BY <1>0, <2>2 DEF Types
    <3>6. rqOf'[t] # h
        BY <1>1, <2>5, <3>3, HandlersAssumption DEF At, HandlersAssumption
    <3> QED BY <2>1, <2>3, <2>5, <3>3, <3>4, <3>5, <3>6 DEF UsedFor
  <2> QED BY <2>4, <2>5
<1>5. CASE ReturnThread(g)
  <2>1. /\ hpc[g] = "return" /\ hpc' = [hpc EXCEPT ![g] = "callback"]
        /\ hthr' = [hthr EXCEPT ![g] = 0] /\ UNCHANGED queue
      BY <1>5 DEF ReturnThread, queueVars
  <2>2. At(t, "handler", h)' /\ hpc'[h] \in {"collect", "await"} <=> At(t, "handler", h) /\ hpc[h] \in {"collect", "await"}
      BY <1>0, <2>1 DEF At, Types
  <2>3. /\ At(t, "owner", h)' <=> At(t, "owner", h)
        /\ At(t, "queue", h)' <=> At(t, "queue", h)
      BY <1>2, <2>1 DEF At, Queued
  <2>4. ~TakesResult(g)
      BY <2>1 DEF TakesResult, CollectResult
  <2> QED BY <1>1, <1>2, <2>2, <2>3, <2>4 DEF UsedFor
<1>6. CASE \/ NextResult(g) /\ queue[g] = <<>>
           \/ CollectResult(g) /\ running[hthr[g]]
           \/ Callback(g) \/ ExitHandler(g)
  <2>1. UNCHANGED <<queue, hthr>> /\ ~TakesResult(g)
      BY <1>6 DEF NextResult, CollectResult, Callback, ExitHandler, queueVars, TakesResult
  <2>2. hpc'[h] \in {"collect", "await"} <=> hpc[h] \in {"collect", "await"}
      BY <1>0, <1>6 DEF NextResult, CollectResult, Callback, ExitHandler, Types
  <2> QED BY <1>1, <1>2, <2>1, <2>2, UseSame DEF Queued
<1> QED BY <1>3, <1>4, <1>5, <1>6 DEF Handler

LEMMA OtherUses ==
    ASSUME PlaceInv, NEW t \in Thread, NEW h \in Handlers,
           Destroyer \/ Spurious \/ UNCHANGED vars
    PROVE  UsedFor(t, h)' <=> UsedFor(t, h)
<1>0. Types /\ ThreadOK /\ HandlerOK
    BY TypesOf DEF PlaceInv, TypeInv, TypeOK
<1>1. UNCHANGED <<queue, hthr, othr, rqOf>>
    BY Zenon DEF Destroyer, StartDestroy, LockPool, AwaitIdle, StopThread, JoinThread, FreePool,
           Spurious, WakeOwner, WakeHandler, WakeWorker, WakeDestroyer,
           vars, thrVars, queueVars, ownerVars, handlerVars
<1>2. /\ opc'[h] = "enqueue" <=> opc[h] = "enqueue"
      /\ hpc'[h] \in {"collect", "await"} <=> hpc[h] \in {"collect", "await"}
  <2>1. CASE StopThread
    <3>1. SignalThread(Head(pool)) /\ UNCHANGED opc
        BY <2>1 DEF StopThread, ownerVars
    <3> QED BY <1>0, <3>1, SignalThreadWakes
  <2>2. CASE Destroyer /\ ~StopThread
      BY <2>2 DEF Destroyer, StartDestroy, LockPool, AwaitIdle, JoinThread, FreePool, ownerVars, handlerVars
  <2>3. CASE Spurious
      BY <1>0, <2>3 DEF Spurious, WakeOwner, WakeHandler, WakeWorker, WakeDestroyer, ownerVars, handlerVars, Types
  <2>4. CASE UNCHANGED vars
      BY <2>4 DEF vars, ownerVars, handlerVars
  <2> QED BY <2>1, <2>2, <2>3, <2>4
<1> QED BY <1>1, <1>2, UseSame DEF Queued

\* The two steps that begin and end a use, and all the others.
LEMMA UseSteps ==
    ASSUME PlaceInv, [Next]_vars, NEW t \in Thread, NEW h \in Handlers
    PROVE  /\ \A g \in Handlers : Assign(g) => (UsedFor(t, h)' <=> UsedFor(t, h) \/ (t = othr[g] /\ h = g))
           /\ \A g \in Handlers : TakesResult(g) => (UsedFor(t, h)' <=> UsedFor(t, h) /\ t # hthr[g])
           /\ (\A g \in Handlers : ~Assign(g) /\ ~TakesResult(g)) => (UsedFor(t, h)' <=> UsedFor(t, h))
<1>1. ASSUME NEW g \in Handlers, TakesResult(g)
      PROVE  UsedFor(t, h)' <=> UsedFor(t, h) /\ t # hthr[g]
    BY <1>1, HandlerUses DEF TakesResult, Handler
<1>2. ASSUME \A g \in Handlers : ~Assign(g) /\ ~TakesResult(g)
      PROVE  UsedFor(t, h)' <=> UsedFor(t, h)
    BY <1>2, OwnerUses, WorkerUses, HandlerUses, OtherUses DEF Next
<1> QED BY <1>1, <1>2, AssignUses

-------------------------------------------------------------------------------
(* The phases of a worker *)

\* A thread at rest is in use for nobody.
RestUnused == \A t \in Thread, h \in Handlers : AtRest(t) => ~UsedFor(t, h)

LEMMA RestIsUnused == PlaceInv => RestUnused
<1> SUFFICES ASSUME PlaceInv, NEW t \in Thread, NEW h \in Handlers, AtRest(t) PROVE ~UsedFor(t, h)
    BY DEF RestUnused
<1>1. CASE At(t, "pool", None)
    BY <1>1, Kinds, UnusedPlace
<1>2. ASSUME NEW g \in Handlers, At(t, "owner", g), opc[g] = "assign" PROVE ~UsedFor(t, h)
    BY <1>2, Kinds, UnusedPlace
<1>3. ASSUME NEW g \in Handlers, At(t, "handler", g), hpc[g] = "return" PROVE ~UsedFor(t, h)
    BY <1>3, Kinds, UnusedPlace
<1> QED BY <1>1, <1>2, <1>3 DEF AtRest

LEMMA RestUnusedNext == PlaceInv /\ [Next]_vars => RestUnused'
<1>1. PlaceInv' => RestUnused'
    BY RestIsUnused, PTL
<1> QED BY <1>1, PlaceStep

\* What a step must do to change a thread.
LEMMA ThreadSame ==
    ASSUME PlaceInv, [Next]_vars, NEW t \in Thread,
           ~Worker(t), ~JoinThread, ~(StopThread /\ t = Head(pool)),
           \A g \in Handlers : /\ ~CreateThread(g)
                               /\ ~(Assign(g) /\ t = othr[g])
                               /\ ~(TakesResult(g) /\ t = hthr[g])
    PROVE  running'[t] = running[t] /\ job'[t] = job[t] /\ res'[t] = res[t] /\ WorkerWoken(t)
<1>0. Types
    BY TypesOf
<1>1. WorkerWoken(t)
    BY WorkerWakes
<1> SUFFICES running'[t] = running[t] /\ job'[t] = job[t] /\ res'[t] = res[t]
    BY <1>1
<1>2. CASE \E g \in Handlers : Owner(g)
    BY <1>0, <1>2 DEF Owner, TakeThread, Assign, Enqueue, Finish, JoinHandler, thrVars, Types
<1>3. CASE \E g \in Handlers : Handler(g)
  <2>1. PICK g \in Handlers : Handler(g)
      BY <1>3
  <2>2. CASE CollectResult(g)
      BY <1>0, <2>2 DEF CollectResult, TakesResult, Types
  <2>3. CASE ~CollectResult(g)
      BY <2>1, <2>3, Zenon DEF Handler, NextResult, ReturnThread, Callback, ExitHandler, thrVars
  <2> QED BY <2>2, <2>3
<1>4. CASE \E x \in Thread : Worker(x)
  <2>1. PICK x \in Thread : Worker(x) /\ x # t
      BY <1>4
  <2> QED BY <1>0, <2>1 DEF Worker, AwaitJob, ExitWorker, RunJob, ClearRunning, PostSelf,
                            SignalResult, thrVars, Types
<1>5. CASE Destroyer
    BY <1>0, <1>5 DEF Destroyer, StartDestroy, LockPool, AwaitIdle, StopThread, FreePool, thrVars, Types
<1>6. CASE Spurious \/ UNCHANGED vars
    BY <1>6, Zenon DEF Spurious, WakeOwner, WakeHandler, WakeWorker, WakeDestroyer, vars, thrVars
<1> QED BY <1>2, <1>3, <1>4, <1>5, <1>6 DEF Next

LEMMA PhaseStep ==
    ASSUME PlaceInv, Phases, Resting, [Next]_vars, NEW t \in Thread
    PROVE  Phase(t)'
<1>0. Types /\ Phase(t) /\ OnePlace /\ SomePlace /\ ThreadOK /\ HandlerOK
    BY TypesOf DEF Phases, PlaceInv, TypeInv, TypeOK
<1>1. CASE Worker(t)
  <2>1. CASE AwaitJob(t)
      BY <1>0, <2>1 DEF AwaitJob, thrVars, Phase, Idle, Types
  <2>2. CASE ExitWorker(t)
      BY <1>0, <2>2 DEF ExitWorker, thrVars, Phase, Idle, Types
  <2>3. CASE RunJob(t)
      BY <1>0, <2>3 DEF RunJob, Phase, Idle, Types
  <2>4. CASE ClearRunning(t)
      BY <1>0, <2>4 DEF ClearRunning, Phase, Idle, Types
  <2>5. CASE PostSelf(t)
      BY <1>0, <2>5 DEF PostSelf, Phase, Idle, Types
  <2>6. CASE SignalResult(t)
      BY <1>0, <2>6 DEF SignalResult, Phase, Idle, Types
  <2> QED BY <1>1, <2>1, <2>2, <2>3, <2>4, <2>5, <2>6 DEF Worker
<1>2. CASE JoinThread
    BY <1>0, <1>2 DEF JoinThread, thrVars, Phase, Idle, Types
<1>3. CASE StopThread /\ t = Head(pool)
  <2>1. At(t, "pool", None)
    <3>1. pool # <<>> /\ pool \in Seq(Thread) /\ NoRepeats(pool)
        BY <1>0, <1>3 DEF StopThread, Types, OnePlace
    <3> QED BY <1>3, <3>1, TakeFirst DEF At, Pooled
  <2>2. Idle(t) /\ Alive(t)
      BY <1>0, <2>1, Kinds, OnlyThere DEF Resting, AtRest
  <2>3. WorkerWoken(t)
      BY <1>0, <1>3, SignalThreadWakes DEF StopThread, WorkerWoken
  <2>4. running'[t] = TRUE /\ UNCHANGED <<job, res>>
      BY <1>0, <1>3 DEF StopThread, Types
  <2> QED BY <2>2, <2>3, <2>4 DEF Phase, Idle, Alive, WorkerWoken
<1>4. ASSUME NEW g \in Handlers, CreateThread(g) PROVE Phase(t)'
  <2>1. othr[g] \in Thread /\ wpc[othr[g]] = "absent"
      BY <1>4 DEF CreateThread, PlaceInv, TypeInv, LocalsOK, OwnerLocals, Numbered
  <2> QED BY <1>0, <1>4, <2>1 DEF CreateThread, thrVars, Phase, Idle, Types
<1>5. ASSUME NEW g \in Handlers, Assign(g), t = othr[g] PROVE Phase(t)'
  <2>1. At(t, "owner", g) /\ opc[g] = "assign"
      BY <1>5 DEF Assign, At, Holding
  <2>2. Idle(t) /\ Alive(t)
      BY <1>0, <2>1, Kinds, OnlyThere DEF Resting, AtRest
  <2>3. wpc[t] # "post"
    <3>1. ~At(t, "worker", None)
        BY <1>0, <2>1, Kinds, OnlyThere
    <3> QED BY <3>1 DEF At, PlaceInv, LocalsCleared, WorkersQueue
  <2>4. WorkerWoken(t)
      BY <1>0, <1>5, SignalThreadWakes DEF Assign, WorkerWoken
  <2>5. running'[t] = TRUE /\ UNCHANGED res
      BY <1>0, <1>5 DEF Assign, Types
  <2> QED BY <1>0, <2>2, <2>3, <2>4, <2>5 DEF Phase, Idle, Alive, WorkerWoken
<1>6. ASSUME NEW g \in Handlers, TakesResult(g), t = hthr[g] PROVE Phase(t)'
  <2>1. res' = [res EXCEPT ![t] = None] /\ ~running[t] /\ UNCHANGED <<running, job, wpc>>
      BY <1>6 DEF TakesResult, CollectResult
  <2> QED BY <1>0, <2>1 DEF Phase, Idle, Types
<1>7. ASSUME ~Worker(t), ~JoinThread, ~(StopThread /\ t = Head(pool)),
             \A g \in Handlers : /\ ~CreateThread(g)
                                 /\ ~(Assign(g) /\ t = othr[g])
                                 /\ ~(TakesResult(g) /\ t = hthr[g])
      PROVE  Phase(t)'
  <2>1. running'[t] = running[t] /\ job'[t] = job[t] /\ res'[t] = res[t] /\ WorkerWoken(t)
      BY <1>7, ThreadSame
  <2> QED BY <1>0, <2>1 DEF Phase, Idle, WorkerWoken
<1> QED BY <1>1, <1>2, <1>3, <1>4, <1>5, <1>6, <1>7

\* Where a thread comes from that is at rest after a step.
LEMMA RestFrom ==
    ASSUME PlaceInv, [Next]_vars, NEW t \in Thread, AtRest(t)'
    PROVE  \/ AtRest(t)
           \/ \E g \in Handlers : CreateThread(g) /\ t = othr[g]
           \/ \E g \in Handlers : TakesResult(g) /\ t = hthr[g]
<1>0. Types /\ OwnerOK /\ DestroyerOK /\ OnePlace
    BY TypesOf DEF PlaceInv, TypeInv, TypeOK
<1>1. CASE At(t, "pool", None)'
  <2>1. CASE UNCHANGED pool
      BY <1>1, <2>1 DEF At, Pooled, AtRest
  <2>2. ASSUME NEW g \in Handlers, ReturnThread(g) PROVE AtRest(t)
    <3>1. PICK x \in Thread : x = hthr[g]
        BY <2>2 DEF ReturnThread, PlaceInv, TypeInv, LocalsOK, HandlerLocals
    <3>2. At(x, "handler", g) /\ hpc[g] = "return" /\ pool' = <<x>> \o pool
        BY <2>2, <3>1 DEF ReturnThread, At
    <3>3. OnePlace' /\ Types'
      <4>1. PlaceInv'
          BY PlaceStep
      <4>2. PlaceInv' => Types'
          BY TypesOf, PTL
      <4> QED BY <4>1, <4>2 DEF PlaceInv
    <3>4. t = x \/ t \in Pooled
      <4>1. pool' \in Seq(Thread) /\ pool' # <<>> /\ NoRepeats(pool') /\ Head(pool') = x /\ Tail(pool') = pool
          BY <1>0, <3>2, <3>3 DEF Types, OnePlace
      <4>2. Elements(pool) = Elements(pool') \ {x}
          BY <4>1, TakeFirst
      <4> QED BY <1>1, <4>2 DEF At, Pooled
    <3> QED BY <3>2, <3>4 DEF At, AtRest
  <2>3. ASSUME pool # <<>>, pool' = Tail(pool) PROVE AtRest(t)
    <3>1. Elements(Tail(pool)) = Elements(pool) \ {Head(pool)}
        BY <1>0, <2>3, TakeFirst DEF Types, OnePlace
    <3> QED BY <1>1, <2>3, <3>1 DEF At, Pooled, AtRest
  <2>4. CASE \E g \in Handlers : TakeThread(g)
      BY <2>1, <2>3, <2>4 DEF TakeThread
  <2>5. CASE StopThread
      BY <2>3, <2>5 DEF StopThread
  <2>6. ASSUME NEW g \in Handlers, Owner(g), ~TakeThread(g) PROVE UNCHANGED pool
      BY <2>6, Zenon DEF Owner, CreateThread, Assign, Enqueue, Finish, JoinHandler, poolVars
  <2>7. ASSUME NEW g \in Handlers, Handler(g), ~ReturnThread(g) PROVE UNCHANGED pool
      BY <2>7, Zenon DEF Handler, NextResult, CollectResult, Callback, ExitHandler, poolVars
  <2>8. ASSUME NEW x \in Thread, Worker(x) PROVE UNCHANGED pool
      BY <2>8, Zenon DEF Worker, AwaitJob, ExitWorker, RunJob, ClearRunning, PostSelf, SignalResult, poolVars
  <2>9. ASSUME Destroyer, ~StopThread PROVE UNCHANGED pool
      BY <2>9, Zenon DEF Destroyer, StartDestroy, LockPool, AwaitIdle, JoinThread, FreePool, poolVars
  <2>10. CASE Spurious \/ UNCHANGED vars
      BY <2>1, <2>10, Zenon DEF Spurious, WakeOwner, WakeHandler, WakeWorker, WakeDestroyer, vars, poolVars
  <2>11. CASE Next
      BY <2>1, <2>2, <2>4, <2>5, <2>6, <2>7, <2>8, <2>9, <2>10, <2>11 DEF Next
  <2> QED BY <2>10, <2>11
<1>2. ASSUME NEW h \in Handlers, At(t, "owner", h)', opc'[h] = "assign"
      PROVE  AtRest(t) \/ \E g \in Handlers : CreateThread(g) /\ t = othr[g]
  <2>1. othr'[h] = t
      BY <1>2 DEF At
  <2>2. CASE Owner(h)
    <3>1. CASE TakeThread(h)
      <4>1. pool # <<>> /\ t = Head(pool)
          BY <1>0, <1>2, <2>1, <3>1 DEF TakeThread, Types
      <4>2. t \in Pooled
          BY <1>0, <4>1, TakeFirst DEF Types, OnePlace, Pooled
      <4> QED BY <4>2 DEF At, AtRest
    <3>2. CASE CreateThread(h)
        BY <2>1, <3>2 DEF CreateThread
    <3>3. CASE Assign(h) \/ Enqueue(h) \/ Finish(h) \/ JoinHandler(h)
        BY <1>0, <1>2, <3>3 DEF Assign, Enqueue, Finish, JoinHandler, Types
    <3> QED BY <2>2, <3>1, <3>2, <3>3 DEF Owner
  <2>3. CASE ~Owner(h)
    <3>1. opc[h] = "assign"
        BY <1>2, <2>3, OwnerWakes DEF OwnerWoken
    <3>2. othr'[h] = othr[h]
      <4>1. CASE \E g \in Handlers : Owner(g)
          BY <1>0, <2>3, <4>1 DEF Owner, TakeThread, CreateThread, Assign, Enqueue, Finish, JoinHandler,
                                  ownerVars, Types
      <4>2. CASE ~\E g \in Handlers : Owner(g)
          BY <4>2, Zenon DEF Next, Worker, Handler, Destroyer, Spurious,
             AwaitJob, ExitWorker, RunJob, ClearRunning, PostSelf, SignalResult,
             NextResult, CollectResult, ReturnThread, Callback, ExitHandler,
             StartDestroy, LockPool, AwaitIdle, StopThread, JoinThread, FreePool,
             WakeOwner, WakeHandler, WakeWorker, WakeDestroyer, vars, ownerVars
      <4> QED BY <4>1, <4>2
    <3>3. At(t, "owner", h)
        BY <2>1, <3>1, <3>2 DEF At, Holding
    <3> QED BY <3>1, <3>3 DEF AtRest
  <2> QED BY <2>2, <2>3
<1>3. ASSUME NEW h \in Handlers, At(t, "handler", h)', hpc'[h] = "return"
      PROVE  AtRest(t) \/ \E g \in Handlers : TakesResult(g) /\ t = hthr[g]
  <2>1. hthr'[h] = t
      BY <1>3 DEF At
  <2>2. CASE Handler(h)
    <3>1. CollectResult(h)
        BY <1>0, <1>3, <2>2 DEF Handler, NextResult, ReturnThread, Callback, ExitHandler, Types
    <3>2. ~running[hthr[h]] /\ hthr[h] = t
        BY <1>0, <1>3, <2>1, <3>1 DEF CollectResult, Types
    <3> QED BY <3>1, <3>2 DEF TakesResult
  <2>3. CASE ~Handler(h)
    <3>1. hpc[h] = "return"
        BY <1>3, <2>3, HandlerWakes DEF HandlerWoken
    <3>2. hthr'[h] = hthr[h]
      <4>1. CASE \E g \in Handlers : Handler(g)
          BY <1>0, <2>3, <4>1 DEF Handler, NextResult, CollectResult, ReturnThread, Callback, ExitHandler, Types
      <4>2. CASE ~\E g \in Handlers : Handler(g)
          BY <4>2, Zenon DEF Next, Owner, Worker, Destroyer, Spurious,
             TakeThread, CreateThread, Assign, Enqueue, Finish, JoinHandler,
             AwaitJob, ExitWorker, RunJob, ClearRunning, PostSelf, SignalResult,
             StartDestroy, LockPool, AwaitIdle, StopThread, JoinThread, FreePool,
             WakeOwner, WakeHandler, WakeWorker, WakeDestroyer, vars, handlerVars
      <4> QED BY <4>1, <4>2
    <3>3. At(t, "handler", h)
        BY <2>1, <3>2 DEF At
    <3> QED BY <3>1, <3>3 DEF AtRest
  <2> QED BY <2>2, <2>3
<1> QED BY <1>1, <1>2, <1>3 DEF AtRest

LEMMA RestStep ==
    ASSUME PlaceInv, Phases, Resting, [Next]_vars, NEW t \in Thread, AtRest(t)'
    PROVE  Idle(t)'
<1>0. Types /\ Phase(t) /\ PlaceInv'
    BY TypesOf, PlaceStep DEF Phases
<1>1. CASE JoinThread
    <2>1. Idle(t)
        BY <1>1, RestFrom DEF JoinThread, CreateThread, TakesResult, CollectResult, Resting, destroyVars
    <2> QED BY <1>1, <2>1 DEF JoinThread, thrVars, Idle
<1>2. ASSUME NEW g \in Handlers, CreateThread(g) PROVE Idle(t)'
  <2>1. CASE t = othr[g]
    <3>1. wpc[t] = "absent"
        BY <1>2, <2>1 DEF CreateThread, PlaceInv, Numbered
    <3> QED BY <1>0, <1>2, <3>1 DEF CreateThread, thrVars, Phase, Idle
  <2>2. CASE AtRest(t)
      BY <1>2, <2>2 DEF Resting, CreateThread, thrVars, Idle
  <2>3. ASSUME NEW i \in Handlers, TakesResult(i) PROVE FALSE
    <3>1. UNCHANGED opc
        BY <2>3 DEF TakesResult, CollectResult, ownerVars
    <3> QED BY <1>0, <1>2, <3>1 DEF CreateThread, Types
  <2>4. ASSUME NEW i \in Handlers, CreateThread(i), i # g PROVE FALSE
      BY <1>0, <1>2, <2>4 DEF CreateThread, Types
  <2> QED BY <2>1, <2>2, <2>3, <2>4, RestFrom
<1>3. ASSUME NEW g \in Handlers, TakesResult(g), t = hthr[g] PROVE Idle(t)'
  <2>1. res' = [res EXCEPT ![t] = None] /\ ~running[t] /\ UNCHANGED <<running, job>>
      BY <1>3 DEF TakesResult, CollectResult
  <2> QED BY <1>0, <2>1 DEF Phase, Idle, Types
<1>4. ASSUME NEW g \in Handlers, Assign(g), t = othr[g] PROVE FALSE
  <2>1. UsedFor(t, g)'
      BY <1>4, AssignUses
  <2> QED BY <2>1, RestUnusedNext DEF RestUnused
<1>5. ASSUME StopThread, t = Head(pool) PROVE FALSE
  <2>1. At(t, "destroyer", None)'
      BY <1>5 DEF StopThread, At
  <2>2. OnePlace'
      BY <1>0 DEF PlaceInv
  <2>3. \A k \in Kind, h \in Whose : At(t, k, h)' => k = "destroyer"
    <3> TAKE k \in Kind, h \in Whose
    <3> HAVE At(t, k, h)'
    <3> QED BY <2>1, <2>2, Kinds DEF OnePlace
  <2> QED BY <2>3, Kinds DEF AtRest
<1>6. CASE Worker(t) /\ AtRest(t)
  <2>1. Idle(t)
      BY <1>6 DEF Resting
  <2>2. CASE AwaitJob(t) \/ ExitWorker(t) \/ PostSelf(t)
      BY <2>1, <2>2 DEF AwaitJob, ExitWorker, PostSelf, thrVars, Idle
  <2>3. CASE RunJob(t) \/ ClearRunning(t) \/ SignalResult(t)
      BY <1>0, <2>1, <2>3 DEF RunJob, ClearRunning, SignalResult, Idle, Phase
  <2> QED BY <1>6, <2>2, <2>3 DEF Worker
<1>7. ASSUME ~Worker(t), ~JoinThread, ~(StopThread /\ t = Head(pool)),
             \A g \in Handlers : /\ ~CreateThread(g)
                                 /\ ~(Assign(g) /\ t = othr[g])
                                 /\ ~(TakesResult(g) /\ t = hthr[g])
      PROVE  Idle(t)'
  <2>1. Idle(t)
      BY <1>7, RestFrom DEF Resting
  <2>2. running'[t] = running[t] /\ job'[t] = job[t] /\ res'[t] = res[t]
      BY <1>7, ThreadSame
  <2> QED BY <2>1, <2>2 DEF Idle
<1>8. CASE AtRest(t)
    BY <1>1, <1>2, <1>3, <1>4, <1>5, <1>6, <1>7, <1>8
<1> QED BY <1>2, <1>3, <1>8, RestFrom

-------------------------------------------------------------------------------
(* The count of an unordered handler's threads, and the end of a handler *)

LEMMA UnpostedStep ==
    ASSUME PlaceInv, Unposted, [Next]_vars, NEW t \in Thread
    PROVE  rqOf'[t] \notin Ordered
<1>0. Types /\ rqOf[t] \notin Ordered /\ None \notin Ordered
    BY TypesOf, HandlersAssumption DEF Unposted, HandlersAssumption
<1>1. ASSUME NEW g \in Handlers, Assign(g) PROVE rqOf'[t] \notin Ordered
    BY <1>0, <1>1 DEF Assign, QueueForWorker, Types
<1>2. ASSUME NEW x \in Thread, PostSelf(x) PROVE rqOf'[t] \notin Ordered
    BY <1>0, <1>2 DEF PostSelf, Types
<1>3. ASSUME NEW g \in Handlers, Owner(g), ~Assign(g) PROVE UNCHANGED rqOf
    BY <1>3, Zenon DEF Owner, TakeThread, CreateThread, Enqueue, Finish, JoinHandler, thrVars
<1>4. ASSUME NEW g \in Handlers, Handler(g) PROVE UNCHANGED rqOf
    BY <1>4, Zenon DEF Handler, NextResult, CollectResult, ReturnThread, Callback, ExitHandler, thrVars
<1>5. ASSUME NEW x \in Thread, Worker(x), ~PostSelf(x) PROVE UNCHANGED rqOf
    BY <1>5, Zenon DEF Worker, AwaitJob, ExitWorker, RunJob, ClearRunning, SignalResult, thrVars
<1>6. ASSUME Destroyer \/ Spurious \/ UNCHANGED vars PROVE UNCHANGED rqOf
    BY <1>6, Zenon DEF Destroyer, StartDestroy, LockPool, AwaitIdle, StopThread, JoinThread, FreePool,
       Spurious, WakeOwner, WakeHandler, WakeWorker, WakeDestroyer, vars, thrVars
<1> QED BY <1>0, <1>1, <1>2, <1>3, <1>4, <1>5, <1>6 DEF Next

LEMMA LentFinite ==
    ASSUME NEW h
    PROVE  IsFiniteSet(Lent(h)) /\ Cardinality(Lent(h)) \in 0..MaxThreads
<1>1. IsFiniteSet(Thread) /\ Cardinality(Thread) = MaxThreads
    BY FS_Interval, SizesAssumption DEF Thread, SizesAssumption
<1>2. Lent(h) \subseteq Thread
    BY DEF Lent
<1>3. IsFiniteSet(Lent(h)) /\ Cardinality(Lent(h)) <= MaxThreads
    BY <1>1, <1>2, FS_Subset
<1>4. Cardinality(Lent(h)) \in Nat
    BY <1>3, FS_CardinalityType
<1> QED BY <1>3, <1>4, SizesAssumption DEF SizesAssumption

\* The other steps do not touch the count, nor the set that is counted.
LEMMA CountSame ==
    ASSUME PlaceInv, [Next]_vars, NEW h \in Handlers, h \notin Ordered,
           ~Assign(h), ~Enqueue(h), ~(NextResult(h) /\ queue[h] # <<>>)
    PROVE  Lent(h)' = Lent(h) /\ nthreads'[h] = nthreads[h]
<1>0. Types
    BY TypesOf
<1>1. ASSUME NEW g \in Handlers, Owner(g) PROVE Lent(h)' = Lent(h) /\ nthreads'[h] = nthreads[h]
  <2>1. CASE Assign(g)
    <3>1. g # h
        BY <2>1
    <3>2. PICK x \in Thread : x = othr[g] /\ At(x, "owner", g)
        BY <2>1 DEF Assign, PlaceInv, TypeInv, LocalsOK, OwnerLocals, At, Holding
    <3>3. ~At(x, "worker", None)
        BY <3>2, Kinds, OnlyThere DEF PlaceInv
    <3>4. rqOf' = [rqOf EXCEPT ![x] = QueueForWorker(g)] /\ rqOf[x] = None /\ UNCHANGED <<queue, nthreads>>
        BY <2>1, <3>2, <3>3 DEF Assign, At, queueVars
    <3>5. QueueForWorker(g) # h /\ None # h
        BY <3>1, HandlersAssumption DEF QueueForWorker, HandlersAssumption
    <3>6. \A t \in Thread : rqOf'[t] = h <=> rqOf[t] = h
        BY <1>0, <3>4, <3>5 DEF Types
    <3> QED BY <3>4, <3>6 DEF Lent, Queued
  <2>2. CASE Enqueue(g)
    <3>1. rqOf' = rqOf /\ queue'[h] = queue[h] /\ nthreads'[h] = nthreads[h]
        BY <1>0, <2>2 DEF Enqueue, thrVars, Types
    <3> QED BY <3>1 DEF Lent, Queued
  <2>3. CASE TakeThread(g) \/ CreateThread(g) \/ Finish(g) \/ JoinHandler(g)
    <3>1. UNCHANGED <<rqOf, queue, nthreads>>
        BY <2>3, Zenon DEF TakeThread, CreateThread, Finish, JoinHandler, thrVars, queueVars
    <3> QED BY <3>1 DEF Lent, Queued
  <2> QED BY <1>1, <2>1, <2>2, <2>3 DEF Owner
<1>2. ASSUME NEW g \in Handlers, Handler(g) PROVE Lent(h)' = Lent(h) /\ nthreads'[h] = nthreads[h]
  <2>1. rqOf' = rqOf /\ queue'[h] = queue[h] /\ nthreads'[h] = nthreads[h]
      BY <1>0, <1>2 DEF Handler, NextResult, CollectResult, ReturnThread, Callback, ExitHandler, thrVars,
                        queueVars, Types
  <2> QED BY <2>1 DEF Lent, Queued
<1>3. ASSUME NEW x \in Thread, Worker(x) PROVE Lent(h)' = Lent(h) /\ nthreads'[h] = nthreads[h]
  <2>1. CASE PostSelf(x)
    <3>1. PICK g \in Handlers : g = rqOf[x]
        BY <1>0, <2>1 DEF PostSelf, PlaceInv, LocalsCleared, WorkersQueue, Types
    <3>2. /\ queue' = [queue EXCEPT ![g] = Append(@, x)] /\ rqOf' = [rqOf EXCEPT ![x] = None]
          /\ nthreads' = nthreads
        BY <2>1, <3>1 DEF PostSelf, Put
    <3>3. At(x, "worker", None) /\ g # None /\ h # None
        BY <3>1, HandlersAssumption DEF At, HandlersAssumption
    <3>4. x \notin Queued(g)
        BY <3>3, Kinds, OnlyThere DEF At, PlaceInv
    <3>5. Queued(g)' = Queued(g) \cup {x}
      <4>1. queue[g] \in Seq(Thread) /\ NoRepeats(queue[g]) /\ queue'[g] = Append(queue[g], x)
          BY <1>0, <3>2 DEF Types, PlaceInv, OnePlace
      <4> QED BY <3>4, <4>1, PutLast DEF Queued
    <3>6. g # h => Queued(h)' = Queued(h)
        BY <1>0, <3>2 DEF Types, Queued
    <3>7. \A t \in Thread : rqOf'[t] = IF t = x THEN None ELSE rqOf[t]
        BY <1>0, <3>2 DEF Types
    <3>8. ASSUME NEW t \in Thread
          PROVE  rqOf'[t] = h \/ t \in Queued(h)' <=> rqOf[t] = h \/ t \in Queued(h)
        BY <3>1, <3>3, <3>5, <3>6, <3>7
    <3> QED BY <3>2, <3>8 DEF Lent
  <2>2. CASE ~PostSelf(x)
    <3>1. UNCHANGED <<rqOf, queue, nthreads>>
        BY <1>3, <2>2, Zenon DEF Worker, AwaitJob, ExitWorker, RunJob, ClearRunning, SignalResult,
                                 thrVars, queueVars
    <3> QED BY <3>1 DEF Lent, Queued
  <2> QED BY <2>1, <2>2
<1>4. ASSUME Destroyer \/ Spurious \/ UNCHANGED vars
      PROVE  Lent(h)' = Lent(h) /\ nthreads'[h] = nthreads[h]
  <2>1. UNCHANGED <<rqOf, queue, nthreads>>
      BY <1>4, Zenon DEF Destroyer, StartDestroy, LockPool, AwaitIdle, StopThread, JoinThread, FreePool,
         Spurious, WakeOwner, WakeHandler, WakeWorker, WakeDestroyer, vars, thrVars, queueVars
  <2> QED BY <2>1 DEF Lent, Queued
<1> QED BY <1>1, <1>2, <1>3, <1>4 DEF Next

LEMMA CountStep ==
    ASSUME PlaceInv, Counted, [Next]_vars, NEW h \in Handlers, h \notin Ordered
    PROVE  Counts(h)'
<1>0. Types /\ Counts(h)
    BY TypesOf DEF Counted, Counts
<1> DEFINE c == Cardinality(Lent(h))
<1>1. IsFiniteSet(Lent(h)) /\ c \in Nat /\ c < SizeMax
    BY LentFinite, SizesAssumption DEF SizesAssumption
<1>2. CASE Assign(h)
  <2>1. PICK x \in Thread : x = othr[h] /\ At(x, "owner", h)
      BY <1>2 DEF Assign, PlaceInv, TypeInv, LocalsOK, OwnerLocals, At, Holding
  <2>2. ~At(x, "worker", None) /\ ~At(x, "queue", h)
      BY <2>1, Kinds, OnlyThere DEF PlaceInv
  <2>3. /\ opc[h] = "assign" /\ opc' = [opc EXCEPT ![h] = "enqueue"]
        /\ rqOf' = [rqOf EXCEPT ![x] = h] /\ rqOf[x] = None /\ x \notin Queued(h)
        /\ UNCHANGED <<queue, nthreads>>
      BY <1>2, <2>1, <2>2 DEF Assign, At, QueueForWorker, queueVars
  <2>4. Lent(h)' = Lent(h) \cup {x} /\ x \notin Lent(h)
      BY <1>0, <2>3, HandlersAssumption DEF Lent, Queued, Types, HandlersAssumption
  <2>5. c' = c + 1
    <3> HIDE DEF Lent
    <3> QED BY <1>1, <2>4, FS_AddElement
  <2> HIDE DEF c
  <2>6. nthreads'[h] = c /\ opc'[h] = "enqueue"
      BY <1>0, <2>3 DEF Counts, c, Types
  <2>7. Dec(c + 1) = c
      BY <1>1 DEF Dec
  <2> QED BY <2>5, <2>6, <2>7 DEF Counts, c
<1>3. CASE Enqueue(h)
  <2>1. Lent(h)' = Lent(h)
      BY <1>3 DEF Enqueue, thrVars, Lent, Queued
  <2> HIDE DEF c
  <2>2. nthreads[h] = Dec(c) /\ nthreads'[h] = Inc(nthreads[h]) /\ opc'[h] = "idle"
      BY <1>0, <1>3 DEF Enqueue, Counts, c, Types
  <2>3. Inc(Dec(c)) = c
      BY <1>1, SizesAssumption DEF Inc, Dec, SizesAssumption
  <2>4. c' = c
      BY <2>1 DEF c
  <2> QED BY <2>2, <2>3, <2>4 DEF Counts, c
<1>4. CASE NextResult(h) /\ queue[h] # <<>>
  <2>1. PICK x \in Thread : x = Head(queue[h])
      BY <1>0, <1>4, HeadTail DEF Types
  <2>2. queue' = [queue EXCEPT ![h] = Tail(@)] /\ nthreads' = [nthreads EXCEPT ![h] = Dec(@)] /\ UNCHANGED <<opc, rqOf>>
      BY <1>4, <2>1 DEF NextResult, thrVars, ownerVars
  <2>3. Queued(h)' = Queued(h) \ {x} /\ x \in Queued(h)
    <3>1. queue[h] \in Seq(Thread) /\ queue'[h] = Tail(queue[h]) /\ NoRepeats(queue[h])
        BY <1>0, <2>2 DEF Types, PlaceInv, OnePlace
    <3> QED BY <1>4, <2>1, <3>1, TakeFirst DEF Queued
  <2>4. rqOf[x] = None
    <3>1. At(x, "queue", h)
        BY <2>3 DEF At
    <3>2. ~At(x, "worker", None)
        BY <3>1, Kinds, OnlyThere DEF PlaceInv
    <3> QED BY <3>2 DEF At
  <2>5. Lent(h)' = Lent(h) \ {x} /\ x \in Lent(h)
      BY <2>2, <2>3, <2>4, HandlersAssumption DEF Lent, HandlersAssumption
  <2>6. c' = c - 1 /\ c # 0
    <3> HIDE DEF Lent
    <3>1. Cardinality(Lent(h) \ {x}) = Cardinality(Lent(h)) - 1
        BY <1>1, <2>5, FS_RemoveElement
    <3>2. c # 0
        BY <1>1, <2>5, FS_EmptySet
    <3> QED BY <2>5, <3>1, <3>2
  <2> HIDE DEF c
  <2>7. nthreads'[h] = Dec(nthreads[h]) /\ opc'[h] = opc[h]
      BY <1>0, <2>2 DEF Types
  <2>8. Dec(c) = c - 1
      BY <1>1, <2>6 DEF Dec
  <2> QED BY <1>0, <2>6, <2>7, <2>8 DEF Counts, c
<1>5. CASE ~Assign(h) /\ ~Enqueue(h) /\ ~(NextResult(h) /\ queue[h] # <<>>)
  <2>1. Lent(h)' = Lent(h) /\ nthreads'[h] = nthreads[h]
      BY <1>5, CountSame
  <2>2. opc'[h] = "enqueue" <=> opc[h] = "enqueue"
    <3>1. CASE Owner(h)
        BY <1>0, <1>5, <3>1 DEF Owner, TakeThread, CreateThread, Finish, JoinHandler, Types
    <3>2. CASE ~Owner(h)
        BY <3>2, OwnerWakes DEF OwnerWoken
    <3> QED BY <3>1, <3>2
  <2> HIDE DEF Lent
  <2> QED BY <1>0, <2>1, <2>2 DEF Counts
<1> QED BY <1>2, <1>3, <1>4, <1>5

\* Only an assignment counts as sent.
LEMMA SentSame ==
    ASSUME Types, [Next]_vars, NEW h \in Handlers, ~Assign(h)
    PROVE  sent'[h] = sent[h]
<1>1. ASSUME NEW g \in Handlers, Owner(g) PROVE sent'[h] = sent[h]
    BY <1>1 DEF Owner, TakeThread, CreateThread, Assign, Enqueue, Finish, JoinHandler, Types
<1>2. ASSUME NEW g \in Handlers, Handler(g) PROVE UNCHANGED sent
    BY <1>2, Zenon DEF Handler, NextResult, CollectResult, ReturnThread, Callback, ExitHandler, ownerVars
<1>3. ASSUME NEW x \in Thread, Worker(x) PROVE UNCHANGED sent
    BY <1>3, Zenon DEF Worker, AwaitJob, ExitWorker, RunJob, ClearRunning, PostSelf, SignalResult, ownerVars
<1>4. ASSUME Destroyer \/ Spurious \/ UNCHANGED vars PROVE UNCHANGED sent
    BY <1>4, Zenon DEF Destroyer, StartDestroy, LockPool, AwaitIdle, StopThread, JoinThread, FreePool,
       Spurious, WakeOwner, WakeHandler, WakeWorker, WakeDestroyer, vars, ownerVars
<1> QED BY <1>1, <1>2, <1>3, <1>4 DEF Next

LEMMA EndStep ==
    ASSUME PlaceInv, Counted, Unposted, Ending, [Next]_vars, NEW h \in Handlers
    PROVE  End(h)'
<1>0. Types /\ End(h)
    BY TypesOf DEF Ending
<1>1. finished'[h] <=> opc'[h] \in {"join", "done"}
  <2>1. CASE Owner(h)
      BY <1>0, <2>1 DEF Owner, TakeThread, CreateThread, Assign, Enqueue, Finish, JoinHandler,
                        queueVars, Types, End
  <2>2. ASSUME ~Owner(h) PROVE opc'[h] \in {"join", "done"} <=> opc[h] \in {"join", "done"}
      BY <2>2, OwnerWakes DEF OwnerWoken
  <2>3. ASSUME ~Owner(h) PROVE finished'[h] = finished[h]
    <3>1. ASSUME NEW g \in Handlers, Owner(g) PROVE finished'[h] = finished[h]
        BY <1>0, <2>3, <3>1 DEF Owner, TakeThread, CreateThread, Assign, Enqueue, Finish, JoinHandler,
                                queueVars, Types
    <3>2. ASSUME NEW g \in Handlers, Handler(g) PROVE UNCHANGED finished
        BY <3>2, Zenon DEF Handler, NextResult, CollectResult, ReturnThread, Callback, ExitHandler, queueVars
    <3>3. ASSUME NEW x \in Thread, Worker(x) PROVE UNCHANGED finished
        BY <3>3, Zenon DEF Worker, AwaitJob, ExitWorker, RunJob, ClearRunning, PostSelf, SignalResult, queueVars
    <3>4. ASSUME Destroyer \/ Spurious \/ UNCHANGED vars PROVE UNCHANGED finished
        BY <3>4, Zenon DEF Destroyer, StartDestroy, LockPool, AwaitIdle, StopThread, JoinThread, FreePool,
           Spurious, WakeOwner, WakeHandler, WakeWorker, WakeDestroyer, vars, queueVars
    <3> QED BY <3>1, <3>2, <3>3, <3>4 DEF Next
  <2> QED BY <1>0, <2>1, <2>2, <2>3 DEF End
<1>2. finished[h] => finished'[h]
  <2>1. CASE Owner(h)
      BY <1>0, <2>1 DEF Owner, TakeThread, CreateThread, Assign, Enqueue, Finish, JoinHandler, queueVars, Types, End
  <2>2. CASE ~Owner(h)
      BY <1>0, <1>1, <2>2, OwnerWakes DEF OwnerWoken, End
  <2> QED BY <2>1, <2>2
<1>3. ASSUME hpc'[h] \in {"destroy", "exited"}
      PROVE  finished'[h] /\ queue'[h] = <<>> /\ nthreads'[h] = 0
  <2>1. CASE Handler(h)
    <3>1. CASE NextResult(h)
        BY <1>0, <1>3, <3>1 DEF NextResult, Drained, Types
    <3>2. CASE ExitHandler(h)
        BY <1>0, <3>2 DEF ExitHandler, queueVars, End
    <3>3. CASE CollectResult(h) \/ ReturnThread(h) \/ Callback(h)
        BY <1>0, <1>3, <3>3 DEF CollectResult, ReturnThread, Callback, Types
    <3> QED BY <2>1, <3>1, <3>2, <3>3 DEF Handler
  <2>2. CASE ~Handler(h)
    <3>1. hpc[h] \in {"destroy", "exited"}
        BY <1>3, <2>2, HandlerWakes DEF HandlerWoken
    <3>2. finished[h] /\ queue[h] = <<>> /\ nthreads[h] = 0 /\ opc[h] \in {"join", "done"}
        BY <1>0, <3>1 DEF End
    <3>3. ASSUME NEW x \in Thread, PostSelf(x) PROVE rqOf[x] # h
      <4> SUFFICES ASSUME rqOf[x] = h PROVE FALSE
          OBVIOUS
      <4>1. h \notin Ordered
          BY DEF Unposted
      <4>2. Cardinality(Lent(h)) = 0
          BY <3>2, <4>1 DEF Counted, Counts
      <4>3. Lent(h) = {}
        <5>1. IsFiniteSet(Lent(h))
            BY LentFinite
        <5> HIDE DEF Lent
        <5> QED BY <4>2, <5>1, FS_EmptySet
      <4>4. x \in Lent(h)
          BY DEF Lent
      <4> QED BY <4>3, <4>4
    <3>4. queue'[h] = queue[h] /\ nthreads'[h] = nthreads[h]
      <4>1. ASSUME NEW g \in Handlers, Owner(g) PROVE queue'[h] = queue[h] /\ nthreads'[h] = nthreads[h]
        <5>1. CASE Enqueue(g)
            BY <1>0, <3>2, <5>1 DEF Enqueue, Types
        <5>2. CASE ~Enqueue(g)
            BY <4>1, <5>2, Zenon DEF Owner, TakeThread, CreateThread, Assign, Finish, JoinHandler, queueVars
        <5> QED BY <5>1, <5>2
      <4>2. ASSUME NEW g \in Handlers, Handler(g) PROVE queue'[h] = queue[h] /\ nthreads'[h] = nthreads[h]
          BY <1>0, <2>2, <4>2 DEF Handler, NextResult, CollectResult, ReturnThread, Callback, ExitHandler, queueVars, Types
      <4>3. ASSUME NEW x \in Thread, Worker(x) PROVE queue'[h] = queue[h] /\ nthreads'[h] = nthreads[h]
        <5>1. CASE PostSelf(x)
            BY <1>0, <3>3, <5>1 DEF PostSelf, Types
        <5>2. CASE ~PostSelf(x)
            BY <4>3, <5>2, Zenon DEF Worker, AwaitJob, ExitWorker, RunJob, ClearRunning, SignalResult, queueVars
        <5> QED BY <5>1, <5>2
      <4>4. ASSUME Destroyer \/ Spurious \/ UNCHANGED vars
            PROVE  queue'[h] = queue[h] /\ nthreads'[h] = nthreads[h]
          BY <4>4, Zenon DEF Destroyer, StartDestroy, LockPool, AwaitIdle, StopThread, JoinThread, FreePool,
             Spurious, WakeOwner, WakeHandler, WakeWorker, WakeDestroyer, vars, queueVars
      <4> QED BY <4>1, <4>2, <4>3, <4>4 DEF Next
    <3> QED BY <1>2, <3>2, <3>4
  <2> QED BY <2>1, <2>2
<1>4. ASSUME opc'[h] = "done" PROVE hpc'[h] = "exited"
  <2>1. hpc[h] = "exited"
    <3>1. CASE Owner(h)
        BY <1>0, <1>4, <3>1 DEF Owner, TakeThread, CreateThread, Assign, Enqueue, Finish, JoinHandler, Types, End
    <3>2. CASE ~Owner(h)
        BY <1>0, <1>4, <3>2, OwnerWakes DEF OwnerWoken, End
    <3> QED BY <3>1, <3>2
  <2>2. ~Handler(h)
      BY <2>1 DEF Handler, NextResult, CollectResult, ReturnThread, Callback, ExitHandler
  <2> QED BY <2>1, <2>2, HandlerWakes DEF HandlerWoken
<1>5. ASSUME opc'[h] \in {"next", "sleep", "create", "assign"} PROVE sent'[h] < Jobs[h]
  <2>1. CASE Owner(h)
      BY <1>0, <1>5, <2>1 DEF Owner, TakeThread, CreateThread, Assign, Enqueue, Finish, JoinHandler, Types, End
  <2>2. CASE ~Owner(h)
    <3>1. opc[h] \in {"next", "sleep", "create", "assign"}
        BY <1>5, <2>2, OwnerWakes DEF OwnerWoken
    <3>2. sent'[h] = sent[h]
        BY <1>0, <2>2, SentSame DEF Owner
    <3> QED BY <1>0, <3>1, <3>2 DEF End
  <2> QED BY <2>1, <2>2
<1> QED BY <1>1, <1>3, <1>4, <1>5 DEF End

LEMMA WorkInit == Init => WorkInv
<1> SUFFICES ASSUME Init PROVE WorkInv
    OBVIOUS
<1>1. PlaceInv
    BY PlaceInit
<1>2. Phases
    BY DEF Init, Phases, Phase, Idle
<1>3. Resting
    BY DEF Init, Resting, Idle
<1>4. Unposted
    BY HandlersAssumption DEF Init, Unposted, HandlersAssumption
<1>5. ASSUME NEW h \in Handlers, h \notin Ordered PROVE Counts(h)
  <2>1. Lent(h) = {}
      BY HandlersAssumption DEF Init, Lent, Queued, Elements, HandlersAssumption
  <2>2. Cardinality({}) = 0
      BY FS_EmptySet
  <2> HIDE DEF Lent
  <2> QED BY <2>1, <2>2 DEF Init, Counts
<1>6. Ending
    BY DEF Init, Ending, End
<1> QED BY <1>1, <1>2, <1>3, <1>4, <1>5, <1>6 DEF WorkInv, Counted

LEMMA WorkStep == WorkInv /\ [Next]_vars => WorkInv'
<1> SUFFICES ASSUME WorkInv, [Next]_vars PROVE WorkInv'
    OBVIOUS
<1>0. PlaceInv /\ Phases /\ Resting /\ Counted /\ Unposted /\ Ending
    BY DEF WorkInv
<1>1. Phases'
    BY <1>0, PhaseStep DEF Phases
<1>2. Resting'
    BY <1>0, RestStep DEF Resting
<1>3. Counted'
    BY <1>0, CountStep DEF Counted
<1>4. Unposted'
    BY <1>0, UnpostedStep DEF Unposted
<1>5. Ending'
    BY <1>0, EndStep DEF Ending
<1> QED BY <1>0, <1>1, <1>2, <1>3, <1>4, <1>5, PlaceStep DEF WorkInv

\* The assertions of threadpool.c hold when they are reached, and so does every
\* test that they stand for.
THEOREM AssertionsHold == Spec => []AssertsHold
<1>1. ASSUME WorkInv PROVE AssertsHold
  <2>0. PlaceInv /\ Resting /\ Ending /\ Types /\ OnePlace
      BY <1>1, TypesOf DEF WorkInv, PlaceInv
  <2>1. ASSUME pool # <<>> PROVE Idle(Head(pool))
    <3>1. PICK x \in Thread : x = Head(pool)
        BY <2>0, <2>1, HeadTail DEF Types
    <3>2. At(x, "pool", None)
        BY <2>0, <2>1, <3>1, TakeFirst DEF Types, OnePlace, At, Pooled
    <3> QED BY <2>0, <3>1, <3>2 DEF Resting, AtRest
  <2>2. ASSUME NEW h \in Handlers, opc[h] = "assign"
        PROVE  Idle(othr[h]) /\ Places(othr[h]) = {<<"owner", h>>}
    <3>1. PICK x \in Thread : x = othr[h]
        BY <2>0, <2>2 DEF PlaceInv, TypeInv, LocalsOK, OwnerLocals
    <3>2. At(x, "owner", h)
        BY <2>2, <3>1 DEF At, Holding
    <3>3. Idle(x)
        BY <2>0, <2>2, <3>2 DEF Resting, AtRest
    <3>4. <<"owner", h>> \in Places(x)
        BY <2>2, <3>1, InPlaces DEF WithOwner
    <3>5. \A q \in Places(x) : q = <<"owner", h>>
        BY <2>0, <3>4, SamePlace
    <3> QED BY <3>1, <3>3, <3>4, <3>5
  <2>3. ASSUME NEW h \in Handlers
        PROVE  /\ opc[h] = "enqueue" => ~finished[h]
               /\ hpc[h] = "destroy" => queue[h] = <<>> /\ finished[h] /\ nthreads[h] = 0
      BY <2>0 DEF Ending, End
  <2> QED BY <2>1, <2>2, <2>3 DEF AssertsHold
<1> QED BY <1>1, WorkInit, WorkStep, PTL DEF Spec

-------------------------------------------------------------------------------
(* What becomes of a job *)

\* A thread carries the same job, or its result, as long as it is in use.
LEMMA CarriedKept ==
    ASSUME WorkInv, [Next]_vars, NEW t \in Thread, NEW h \in Handlers, UsedFor(t, h),
           ~(TakesResult(h) /\ t = hthr[h])
    PROVE  Carried(t)' = Carried(t)
<1>0. PlaceInv /\ Types /\ Phase(t)
    BY TypesOf DEF WorkInv, Phases
<1>1. CASE Worker(t)
  <2>1. CASE RunJob(t)
      BY <1>0, <2>1 DEF RunJob, Carried, Types
  <2>2. CASE ~RunJob(t)
    <3>1. UNCHANGED <<job, res>>
        BY <1>1, <2>2, Zenon DEF Worker, AwaitJob, ExitWorker, ClearRunning, PostSelf, SignalResult, thrVars
    <3> QED BY <3>1 DEF Carried
  <2> QED BY <2>1, <2>2
<1>2. CASE JoinThread \/ StopThread \/ \E g \in Handlers : CreateThread(g)
  <2>1. UNCHANGED <<job, res>>
      BY <1>2, Zenon DEF JoinThread, StopThread, CreateThread, thrVars
  <2> QED BY <2>1 DEF Carried
<1>3. ASSUME NEW g \in Handlers, Assign(g), t = othr[g] PROVE FALSE
  <2>1. AtRest(t)
      BY <1>3 DEF Assign, AtRest, At, Holding
  <2> QED BY <1>0, <2>1, RestIsUnused DEF RestUnused
<1>4. ASSUME NEW g \in Handlers, TakesResult(g), t = hthr[g] PROVE FALSE
  <2>1. UsedFor(t, g)
      BY <1>4 DEF TakesResult, CollectResult, UsedFor, At
  <2>2. g = h
      BY <1>0, <2>1, UsedForOne
  <2> QED BY <1>4, <2>2
<1>5. ASSUME ~Worker(t), ~JoinThread, ~StopThread, \A g \in Handlers : ~CreateThread(g)
      PROVE  Carried(t)' = Carried(t)
  <2>1. job'[t] = job[t] /\ res'[t] = res[t]
      BY <1>0, <1>3, <1>4, <1>5, ThreadSame
  <2> QED BY <2>1 DEF Carried
<1> QED BY <1>1, <1>2, <1>5

\* What the others leave alone of a handler.
LEMMA ResultSame ==
    ASSUME WorkInv, [Next]_vars, NEW h \in Handlers, ~TakesResult(h), ~Callback(h)
    PROVE  delivered'[h] = delivered[h] /\ hres'[h] = hres[h] /\ (HasResult(h)' <=> HasResult(h))
<1>0. PlaceInv /\ Types
    BY TypesOf DEF WorkInv
<1>1. HasResult(h)' <=> HasResult(h)
  <2>1. CASE Handler(h)
      BY <1>0, <2>1 DEF Handler, NextResult, CollectResult, ReturnThread, ExitHandler, TakesResult, HasResult, Types
  <2>2. CASE ~Handler(h)
      BY <1>0, <2>2, HandlerWakes DEF HandlerWoken, HasResult
  <2> QED BY <2>1, <2>2
<1>2. ASSUME NEW g \in Handlers, Handler(g) PROVE delivered'[h] = delivered[h] /\ hres'[h] = hres[h]
    BY <1>0, <1>2 DEF Handler, NextResult, CollectResult, ReturnThread, Callback, ExitHandler, TakesResult, Types
<1>3. ASSUME NEW g \in Handlers, Owner(g) PROVE UNCHANGED <<delivered, hres>>
    BY <1>3, Zenon DEF Owner, TakeThread, CreateThread, Assign, Enqueue, Finish, JoinHandler, handlerVars
<1>4. ASSUME NEW x \in Thread, Worker(x) PROVE UNCHANGED <<delivered, hres>>
    BY <1>4, Zenon DEF Worker, AwaitJob, ExitWorker, RunJob, ClearRunning, PostSelf, SignalResult, handlerVars
<1>5. ASSUME Destroyer \/ Spurious \/ UNCHANGED vars PROVE UNCHANGED <<delivered, hres>>
    BY <1>5, Zenon DEF Destroyer, StartDestroy, LockPool, AwaitIdle, StopThread, JoinThread, FreePool,
       Spurious, WakeOwner, WakeHandler, WakeWorker, WakeDestroyer, vars, handlerVars
<1> QED BY <1>1, <1>2, <1>3, <1>4, <1>5 DEF Next

\* How the whereabouts of a job change: it is assigned, its result is taken, its
\* result is delivered.
LEMMA Spots == \A p \in Thread : p # 0 /\ p # -1 /\ 0 # -1
BY SizesAssumption DEF Thread, SizesAssumption

LEMMA HasSame ==
    ASSUME WorkInv, [Next]_vars, NEW p \in Thread, NEW h \in Handlers, NEW i \in Nat,
           UsedFor(p, h)' <=> UsedFor(p, h), ~(TakesResult(h) /\ p = hthr[h])
    PROVE  Has(p, h, i)' <=> Has(p, h, i)
<1>1. UsedFor(p, h) => Carried(p)' = Carried(p)
    BY CarriedKept
<1> QED BY <1>1, Spots DEF Has

LEMMA ResultHasSame ==
    ASSUME WorkInv, [Next]_vars, NEW p \in {0, -1}, NEW h \in Handlers, NEW i \in Nat,
           ~TakesResult(h), ~Callback(h)
    PROVE  Has(p, h, i)' <=> Has(p, h, i)
<1>1. delivered'[h] = delivered[h] /\ hres'[h] = hres[h] /\ (HasResult(h)' <=> HasResult(h))
    BY ResultSame
<1>2. DeliveredTo(h)' = DeliveredTo(h)
    BY <1>1 DEF DeliveredTo
<1> QED BY <1>1, <1>2, Spots DEF Has

LEMMA AssignHas ==
    ASSUME WorkInv, NEW g \in Handlers, Assign(g), NEW p \in Spot, NEW h \in Handlers, NEW i \in Nat
    PROVE  Has(p, h, i)' <=> Has(p, h, i) \/ (p = othr[g] /\ h = g /\ i = sent[g] + 1)
<1>0. PlaceInv /\ Types /\ Next
    BY TypesOf DEF WorkInv, Next, Owner
<1>1. ~TakesResult(h) /\ ~Callback(h)
    BY <1>0 DEF Assign, TakesResult, CollectResult, Callback, ownerVars, Types
<1>2. PICK x \in Thread : x = othr[g]
    BY <1>0 DEF Assign, PlaceInv, TypeInv, LocalsOK, OwnerLocals
<1>3. CASE p \notin Thread
    BY <1>0, <1>1, <1>2, <1>3, ResultHasSame DEF Spot
<1>4. CASE p \in Thread /\ p # x
  <2>1. UsedFor(p, h)' <=> UsedFor(p, h)
      BY <1>0, <1>2, <1>4, AssignUses
  <2> QED BY <1>0, <1>1, <1>2, <1>4, <2>1, HasSame
<1>5. CASE p = x
  <2>1. UsedFor(x, h)' <=> UsedFor(x, h) \/ h = g
      BY <1>0, <1>2, AssignUses
  <2>2. ~UsedFor(x, h)
    <3>1. AtRest(x)
        BY <1>2 DEF Assign, AtRest, At, Holding
    <3> QED BY <1>0, <3>1, RestIsUnused DEF RestUnused
  <2>3. Carried(x)' = <<g, sent[g] + 1>>
    <3>1. job'[x] = <<g, sent[g] + 1>>
        BY <1>0, <1>2 DEF Assign, Types
    <3>2. <<g, sent[g] + 1>> # None
        BY <1>0, HandlersAssumption DEF HandlersAssumption, Types
    <3> QED BY <3>1, <3>2 DEF Carried
  <2> QED BY <1>2, <1>5, <2>1, <2>2, <2>3, Spots DEF Has
<1> QED BY <1>3, <1>4, <1>5

LEMMA TakeHas ==
    ASSUME WorkInv, NEW g \in Handlers, TakesResult(g), NEW p \in Spot, NEW h \in Handlers, NEW i \in Nat
    PROVE  Has(p, h, i)' <=> (p # hthr[g] /\ Has(p, h, i)) \/ (p = 0 /\ Has(hthr[g], h, i))
<1>0. PlaceInv /\ Types /\ Next
    BY TypesOf DEF WorkInv, Next, Handler, TakesResult
<1>1. PICK x \in Thread : x = hthr[g]
    BY <1>0 DEF TakesResult, CollectResult, PlaceInv, TypeInv, LocalsOK, HandlerLocals
<1>2. /\ hpc[g] = "collect" /\ hpc' = [hpc EXCEPT ![g] = "return"] /\ ~running[x]
      /\ hres' = [hres EXCEPT ![g] = res[x]] /\ UNCHANGED delivered
    BY <1>1 DEF TakesResult, CollectResult
<1>3. Carried(x) = res[x]
  <2>1. job[x] = None
      BY <1>2 DEF WorkInv, Phases, Phase
  <2> QED BY <2>1 DEF Carried
<1>4. At(x, "handler", g)
    BY <1>1 DEF At
<1>5. UsedFor(x, g) /\ (h # g => ~UsedFor(x, h)) /\ ~UsedFor(x, h)'
  <2>1. UsedFor(x, g)
      BY <1>2, <1>4 DEF UsedFor
  <2> QED BY <1>0, <1>1, <2>1, UsedForOne, UseSteps
<1>6. ~HasResult(g) /\ HasResult(g)' /\ hres'[g] = Carried(x)
    BY <1>0, <1>2, <1>3 DEF HasResult, Types
<1>7. Has(x, h, i) <=> h = g /\ Carried(x) = <<h, i>>
    BY <1>5, Spots DEF Has
<1>8. h # g => ~TakesResult(h) /\ ~Callback(h)
    BY <1>0, <1>2 DEF TakesResult, CollectResult, Callback, Types
<1>9. CASE p = x
    BY <1>1, <1>5, <1>7, <1>9, Spots DEF Has
<1>10. CASE p \in Thread /\ p # x
  <2>1. UsedFor(p, h)' <=> UsedFor(p, h)
      BY <1>0, <1>1, <1>10, UseSteps
  <2>2. Has(p, h, i)' <=> Has(p, h, i)
      BY <1>0, <1>1, <1>8, <1>10, <2>1, HasSame
  <2> QED BY <1>1, <1>10, <2>2, Spots
<1>11. CASE p = -1
  <2>1. DeliveredTo(h)' = DeliveredTo(h)
      BY <1>2 DEF DeliveredTo
  <2> QED BY <1>1, <1>11, <2>1, Spots DEF Has
<1>12. CASE p = 0 /\ h = g
    BY <1>1, <1>6, <1>7, <1>12, Spots DEF Has
<1>13. CASE p = 0 /\ h # g
  <2>1. Has(p, h, i)' <=> Has(p, h, i)
      BY <1>0, <1>8, <1>13, ResultHasSame
  <2> QED BY <1>1, <1>7, <1>13, <2>1, Spots
<1> QED BY <1>9, <1>10, <1>11, <1>12, <1>13 DEF Spot

LEMMA AppendElement ==
    ASSUME NEW S, NEW q \in Seq(S), NEW x \in S
    PROVE  Elements(Append(q, x)) = Elements(q) \cup {x}
<1> DEFINE n == Len(q)
           r == Append(q, x)
<1>1. n \in Nat /\ DOMAIN q = 1..n
    BY LenProperties
<1>2. DOMAIN r = 1..(n + 1) /\ r[n + 1] = x /\ \A i \in 1..n : r[i] = q[i]
    BY AppendProperties, LenProperties, <1>1
<1> HIDE DEF n, r
<1>3. \A i \in 1..(n + 1) : i \in 1..n \/ i = n + 1
    BY <1>1
<1>4. 1..n \subseteq 1..(n + 1) /\ n + 1 \in 1..(n + 1)
    BY <1>1
<1>5. \A y : y \in Elements(r) <=> \E i \in 1..(n + 1) : y = r[i]
    BY <1>2 DEF Elements
<1>6. \A y : y \in Elements(q) <=> \E i \in 1..n : y = q[i]
    BY <1>1 DEF Elements
<1>7. \A y : y \in Elements(r) <=> y \in Elements(q) \/ y = x
    BY <1>2, <1>3, <1>4, <1>5, <1>6
<1> QED BY <1>7 DEF r

LEMMA CallbackHas ==
    ASSUME WorkInv, NEW g \in Handlers, Callback(g), NEW p \in Spot, NEW h \in Handlers, NEW i \in Nat
    PROVE  Has(p, h, i)' <=> IF h = g THEN (p # 0 /\ Has(p, h, i)) \/ (p = -1 /\ Has(0, h, i))
                             ELSE Has(p, h, i)
<1>0. PlaceInv /\ Types /\ Next
    BY TypesOf DEF WorkInv, Next, Handler
<1>1. /\ hpc[g] = "callback" /\ hpc' = [hpc EXCEPT ![g] = "next"]
      /\ delivered' = [delivered EXCEPT ![g] = Append(@, hres[g])]
    BY DEF Callback
<1>2. \A f \in Handlers : ~TakesResult(f) /\ ~Assign(f)
    BY <1>0, <1>1 DEF Callback, TakesResult, CollectResult, Assign, handlerVars, Types
<1>3. CASE p \in Thread
  <2>1. UsedFor(p, h)' <=> UsedFor(p, h)
      BY <1>0, <1>2, <1>3, UseSteps
  <2>2. Has(p, h, i)' <=> Has(p, h, i)
      BY <1>0, <1>2, <1>3, <2>1, HasSame
  <2> QED BY <1>3, <2>2, Spots
<1>4. CASE p \in {0, -1} /\ h # g
  <2>1. ~Callback(h)
      BY <1>0, <1>1, <1>4 DEF Callback, Types
  <2> QED BY <1>0, <1>2, <1>4, <2>1, ResultHasSame
<1>5. CASE p \in {0, -1} /\ h = g
  <2>1. HasResult(g) /\ ~HasResult(g)'
      BY <1>0, <1>1 DEF HasResult, Types
  <2>2. DeliveredTo(g)' = DeliveredTo(g) \cup {hres[g]}
    <3>1. delivered'[g] = Append(delivered[g], hres[g])
        BY <1>0, <1>1 DEF Types
    <3>2. delivered[g] \in Seq(Job \cup {None}) /\ hres[g] \in Job \cup {None}
        BY <1>0 DEF Types
    <3>3. Elements(Append(delivered[g], hres[g])) = Elements(delivered[g]) \cup {hres[g]}
        BY <3>2, AppendElement
    <3> QED BY <3>1, <3>3 DEF DeliveredTo
  <2> QED BY <1>5, <2>1, <2>2, Spots DEF Has
<1> QED BY <1>3, <1>4, <1>5 DEF Spot

LEMMA OtherHas ==
    ASSUME WorkInv, [Next]_vars, NEW p \in Spot, NEW h \in Handlers, NEW i \in Nat,
           \A g \in Handlers : ~Assign(g) /\ ~TakesResult(g) /\ ~Callback(g)
    PROVE  Has(p, h, i)' <=> Has(p, h, i)
<1>1. CASE p \in Thread
  <2>1. UsedFor(p, h)' <=> UsedFor(p, h)
      BY <1>1, UseSteps DEF WorkInv
  <2> QED BY <1>1, <2>1, HasSame
<1>2. CASE p \in {0, -1}
    BY <1>2, ResultHasSame
<1> QED BY <1>1, <1>2 DEF Spot

LEMMA KeptStep ==
    ASSUME WorkInv, Kept, [Next]_vars, NEW h \in Handlers, NEW i \in Nat
    PROVE  Keeps(h, i)'
<1>0. Types /\ Keeps(h, i)
    BY TypesOf DEF WorkInv, Kept
<1> DEFINE P(p) == Has(p, h, i)
<1>1. ASSUME NEW g \in Handlers, Assign(g) PROVE Keeps(h, i)'
  <2>1. \A p \in Spot : P(p)' <=> P(p) \/ (p = othr[g] /\ h = g /\ i = sent[g] + 1)
      BY <1>1, AssignHas
  <2>2. othr[g] \in Spot
      BY <1>1 DEF Assign, WorkInv, PlaceInv, TypeInv, LocalsOK, OwnerLocals, Spot
  <2>3. sent'[h] = IF h = g THEN sent[h] + 1 ELSE sent[h]
      BY <1>0, <1>1 DEF Assign, Types
  <2>4. sent[h] \in Nat
      BY <1>0 DEF Types
  <2>5. i \in 1..sent'[h] <=> i \in 1..sent[h] \/ (h = g /\ i = sent[g] + 1)
      BY <2>3, <2>4
  <2>6. h = g /\ i = sent[g] + 1 => i \notin 1..sent[h]
      BY <2>4
  <2> HIDE DEF P
  <2>7. (\E p \in Spot : P(p)) <=> i \in 1..sent[h]
      BY <1>0 DEF Keeps, P
  <2>8. (\E p \in Spot : P(p)') <=> i \in 1..sent'[h]
      BY <2>1, <2>2, <2>5, <2>7
  <2>9. \A p, q \in Spot : P(p)' /\ P(q)' => p = q
      BY <1>0, <2>1, <2>6, <2>7 DEF Keeps, P
  <2> QED BY <2>8, <2>9 DEF Keeps, P
<1>2. ASSUME NEW g \in Handlers, TakesResult(g) PROVE Keeps(h, i)'
  <2>1. \A p \in Spot : P(p)' <=> (p # hthr[g] /\ P(p)) \/ (p = 0 /\ P(hthr[g]))
      BY <1>2, TakeHas
  <2>2. hthr[g] \in Spot /\ 0 \in Spot
      BY <1>2 DEF TakesResult, CollectResult, WorkInv, PlaceInv, TypeInv, LocalsOK, HandlerLocals, Spot
  <2>3. sent'[h] = sent[h]
      BY <1>2 DEF TakesResult, CollectResult, ownerVars
  <2> HIDE DEF P
  <2>4. /\ (\E p \in Spot : P(p)) <=> i \in 1..sent[h]
        /\ \A p, q \in Spot : P(p) /\ P(q) => p = q
      BY <1>0 DEF Keeps, P
  <2>5. (\E p \in Spot : P(p)') <=> i \in 1..sent'[h]
      BY <2>1, <2>2, <2>3, <2>4
  <2>6. \A p, q \in Spot : P(p)' /\ P(q)' => p = q
      BY <2>1, <2>2, <2>4
  <2> QED BY <2>5, <2>6 DEF Keeps, P
<1>3. ASSUME NEW g \in Handlers, Callback(g) PROVE Keeps(h, i)'
  <2>1. \A p \in Spot : P(p)' <=> IF h = g THEN (p # 0 /\ P(p)) \/ (p = -1 /\ P(0)) ELSE P(p)
      BY <1>3, CallbackHas
  <2>2. 0 \in Spot /\ -1 \in Spot
      BY DEF Spot
  <2>3. sent'[h] = sent[h]
      BY <1>3 DEF Callback, ownerVars
  <2> HIDE DEF P
  <2>4. /\ (\E p \in Spot : P(p)) <=> i \in 1..sent[h]
        /\ \A p, q \in Spot : P(p) /\ P(q) => p = q
      BY <1>0 DEF Keeps, P
  <2>5. (\E p \in Spot : P(p)') <=> i \in 1..sent'[h]
      BY <2>1, <2>2, <2>3, <2>4
  <2>6. \A p, q \in Spot : P(p)' /\ P(q)' => p = q
      BY <2>1, <2>2, <2>4
  <2> QED BY <2>5, <2>6 DEF Keeps, P
<1>4. ASSUME \A g \in Handlers : ~Assign(g) /\ ~TakesResult(g) /\ ~Callback(g) PROVE Keeps(h, i)'
  <2>1. \A p \in Spot : P(p)' <=> P(p)
      BY <1>4, OtherHas
  <2>2. sent'[h] = sent[h]
      BY <1>0, <1>4, SentSame
  <2> HIDE DEF P
  <2> QED BY <1>0, <2>1, <2>2 DEF Keeps, P
<1> QED BY <1>1, <1>2, <1>3, <1>4

LEMMA OwnedStep ==
    ASSUME WorkInv, Owned, [Next]_vars, NEW h \in Handlers
    PROVE  Owns(h)'
<1>0. PlaceInv /\ Types /\ Owns(h)
    BY TypesOf DEF WorkInv, Owned
<1>1. sent[h] \in Nat /\ sent'[h] \in {sent[h], sent[h] + 1} /\ (Assign(h) => sent'[h] = sent[h] + 1)
  <2>1. CASE Assign(h)
      BY <1>0, <2>1 DEF Assign, Types
  <2>2. CASE ~Assign(h)
      BY <1>0, <2>2, SentSame DEF Types
  <2> QED BY <2>1, <2>2
<1>2. Own(h) \subseteq Own(h)' /\ (Assign(h) => <<h, sent[h] + 1>> \in Own(h)')
    BY <1>1 DEF Own
<1>3. ASSUME NEW t \in Thread, UsedFor(t, h)' PROVE Carried(t)' \in Own(h)'
  <2>1. CASE UsedFor(t, h)
    <3>1. ~(TakesResult(h) /\ t = hthr[h])
        BY <1>0, <1>3, UseSteps
    <3>2. Carried(t)' = Carried(t)
        BY <2>1, <3>1, CarriedKept
    <3> QED BY <1>0, <1>2, <2>1, <3>2 DEF Owns
  <2>2. CASE ~UsedFor(t, h)
    <3>1. Assign(h) /\ t = othr[h]
      <4>1. \E g \in Handlers : Assign(g)
          BY <1>0, <1>3, <2>2, UseSteps
      <4> QED BY <1>0, <1>3, <2>2, <4>1, UseSteps
    <3>2. job'[t] = <<h, sent[h] + 1>>
        BY <1>0, <3>1 DEF Assign, Types
    <3>3. <<h, sent[h] + 1>> # None
        BY <1>0, HandlersAssumption DEF HandlersAssumption, Types
    <3>4. Carried(t)' = <<h, sent[h] + 1>>
        BY <3>2, <3>3 DEF Carried
    <3> QED BY <1>2, <3>1, <3>4
  <2> QED BY <2>1, <2>2
<1>4. (HasResult(h)' => hres'[h] \in Own(h)') /\ DeliveredTo(h)' \subseteq Own(h)'
  <2>1. CASE ~TakesResult(h) /\ ~Callback(h)
    <3>1. delivered'[h] = delivered[h] /\ hres'[h] = hres[h] /\ (HasResult(h)' <=> HasResult(h))
        BY <2>1, ResultSame
    <3>2. DeliveredTo(h)' = DeliveredTo(h)
        BY <3>1 DEF DeliveredTo
    <3> QED BY <1>0, <1>2, <3>1, <3>2 DEF Owns
  <2>2. CASE TakesResult(h)
    <3>1. PICK x \in Thread : x = hthr[h]
        BY <1>0, <2>2 DEF TakesResult, CollectResult, PlaceInv, TypeInv, LocalsOK, HandlerLocals
    <3>2. /\ hpc[h] = "collect" /\ ~running[x] /\ hres'[h] = res[x] /\ UNCHANGED delivered
        BY <1>0, <2>2, <3>1 DEF TakesResult, CollectResult, Types
    <3>3. Carried(x) = res[x]
        BY <3>2 DEF WorkInv, Phases, Phase, Carried
    <3>4. UsedFor(x, h)
        BY <3>1, <3>2 DEF UsedFor, At
    <3>5. DeliveredTo(h)' = DeliveredTo(h)
        BY <3>2 DEF DeliveredTo
    <3> QED BY <1>0, <1>2, <3>2, <3>3, <3>4, <3>5 DEF Owns
  <2>3. CASE Callback(h)
    <3>1. /\ hpc[h] = "callback" /\ hpc'[h] = "next" /\ delivered'[h] = Append(delivered[h], hres[h])
        BY <1>0, <2>3 DEF Callback, Types
    <3>2. delivered[h] \in Seq(Job \cup {None}) /\ hres[h] \in Job \cup {None}
        BY <1>0 DEF Types
    <3>3. DeliveredTo(h)' = DeliveredTo(h) \cup {hres[h]}
        BY <3>1, <3>2, AppendElement DEF DeliveredTo
    <3>4. HasResult(h) /\ ~HasResult(h)'
        BY <3>1 DEF HasResult
    <3>5. hres[h] \in Own(h)' /\ DeliveredTo(h) \subseteq Own(h)'
        BY <1>0, <1>2, <3>4 DEF Owns
    <3> QED BY <3>3, <3>4, <3>5
  <2> QED BY <2>1, <2>2, <2>3
<1> QED BY <1>3, <1>4 DEF Owns

\* What the steps of others, and the remaining ones of its own, leave alone of an
\* ordered handler.
LEMMA TurnSame ==
    ASSUME WorkInv, [Next]_vars, NEW h \in Ordered, ~Assign(h), ~Enqueue(h),
           ~(NextResult(h) /\ queue[h] # <<>>), ~TakesResult(h), ~Callback(h)
    PROVE  /\ queue'[h] = queue[h]
           /\ Collecting(h)' <=> Collecting(h)
           /\ Collecting(h) => hthr'[h] = hthr[h]
           /\ opc'[h] = "enqueue" <=> opc[h] = "enqueue"
           /\ opc[h] = "enqueue" => othr'[h] = othr[h]
<1>0. PlaceInv /\ Types /\ h \in Handlers
    BY TypesOf, HandlersAssumption DEF WorkInv, HandlersAssumption
<1>1. queue'[h] = queue[h]
  <2>1. ASSUME NEW g \in Handlers, Owner(g) PROVE queue'[h] = queue[h]
      BY <1>0, <2>1 DEF Owner, TakeThread, CreateThread, Assign, Enqueue, Finish, JoinHandler, queueVars, Types
  <2>2. ASSUME NEW g \in Handlers, Handler(g) PROVE queue'[h] = queue[h]
      BY <1>0, <2>2 DEF Handler, NextResult, CollectResult, ReturnThread, Callback, ExitHandler, queueVars, Types
  <2>3. ASSUME NEW x \in Thread, Worker(x) PROVE queue'[h] = queue[h]
    <3>1. CASE PostSelf(x)
      <4>1. rqOf[x] # h
          BY DEF WorkInv, Unposted
      <4> QED BY <1>0, <3>1, <4>1 DEF PostSelf, Types
    <3>2. CASE ~PostSelf(x)
        BY <2>3, <3>2, Zenon DEF Worker, AwaitJob, ExitWorker, RunJob, ClearRunning, SignalResult, queueVars
    <3> QED BY <3>1, <3>2
  <2>4. ASSUME Destroyer \/ Spurious \/ UNCHANGED vars PROVE UNCHANGED queue
      BY <2>4, Zenon DEF Destroyer, StartDestroy, LockPool, AwaitIdle, StopThread, JoinThread, FreePool,
         Spurious, WakeOwner, WakeHandler, WakeWorker, WakeDestroyer, vars, queueVars
  <2> QED BY <2>1, <2>2, <2>3, <2>4 DEF Next
<1>2. /\ Collecting(h)' <=> Collecting(h)
      /\ Collecting(h) => hthr'[h] = hthr[h]
  <2>1. CASE Handler(h)
      BY <1>0, <2>1 DEF Handler, NextResult, CollectResult, ReturnThread, Callback, ExitHandler, TakesResult,
                        Collecting, Types
  <2>2. CASE ~Handler(h)
    <3>1. Collecting(h)' <=> Collecting(h)
        BY <1>0, <2>2, HandlerWakes DEF HandlerWoken, Collecting
    <3>2. ASSUME NEW g \in Handlers, Handler(g) PROVE hthr'[h] = hthr[h]
        BY <1>0, <2>2, <3>2 DEF Handler, NextResult, CollectResult, ReturnThread, Callback, ExitHandler, Types
    <3>3. ASSUME NEW g \in Handlers, Owner(g) PROVE UNCHANGED hthr
        BY <3>3, Zenon DEF Owner, TakeThread, CreateThread, Assign, Enqueue, Finish, JoinHandler, handlerVars
    <3>4. ASSUME NEW x \in Thread, Worker(x) PROVE UNCHANGED hthr
        BY <3>4, Zenon DEF Worker, AwaitJob, ExitWorker, RunJob, ClearRunning, PostSelf, SignalResult, handlerVars
    <3>5. ASSUME Destroyer \/ Spurious \/ UNCHANGED vars PROVE UNCHANGED hthr
        BY <3>5, Zenon DEF Destroyer, StartDestroy, LockPool, AwaitIdle, StopThread, JoinThread, FreePool,
           Spurious, WakeOwner, WakeHandler, WakeWorker, WakeDestroyer, vars, handlerVars
    <3> QED BY <3>1, <3>2, <3>3, <3>4, <3>5 DEF Next
  <2> QED BY <2>1, <2>2
<1>3. /\ opc'[h] = "enqueue" <=> opc[h] = "enqueue"
      /\ opc[h] = "enqueue" => othr'[h] = othr[h]
  <2>1. CASE Owner(h)
      BY <1>0, <2>1 DEF Owner, TakeThread, CreateThread, Finish, JoinHandler, Types
  <2>2. CASE ~Owner(h)
    <3>1. opc'[h] = "enqueue" <=> opc[h] = "enqueue"
        BY <1>0, <2>2, OwnerWakes DEF OwnerWoken
    <3>2. ASSUME NEW g \in Handlers, Owner(g) PROVE othr'[h] = othr[h]
        BY <1>0, <2>2, <3>2 DEF Owner, TakeThread, CreateThread, Assign, Enqueue, Finish, JoinHandler, ownerVars, Types
    <3>3. ASSUME NEW g \in Handlers, Handler(g) PROVE UNCHANGED othr
        BY <3>3, Zenon DEF Handler, NextResult, CollectResult, ReturnThread, Callback, ExitHandler, ownerVars
    <3>4. ASSUME NEW x \in Thread, Worker(x) PROVE UNCHANGED othr
        BY <3>4, Zenon DEF Worker, AwaitJob, ExitWorker, RunJob, ClearRunning, PostSelf, SignalResult, ownerVars
    <3>5. ASSUME Destroyer \/ Spurious \/ UNCHANGED vars PROVE UNCHANGED othr
        BY <3>5, Zenon DEF Destroyer, StartDestroy, LockPool, AwaitIdle, StopThread, JoinThread, FreePool,
           Spurious, WakeOwner, WakeHandler, WakeWorker, WakeDestroyer, vars, ownerVars
    <3> QED BY <3>1, <3>2, <3>3, <3>4, <3>5 DEF Next
  <2> QED BY <2>1, <2>2
<1> QED BY <1>1, <1>2, <1>3

\* The threads whose jobs are in turn are in use.
LEMMA InUse ==
    ASSUME WorkInv, NEW h \in Ordered
    PROVE  /\ \A k \in DOMAIN queue[h] : queue[h][k] \in Thread /\ UsedFor(queue[h][k], h)
           /\ Collecting(h) => hthr[h] \in Thread /\ UsedFor(hthr[h], h)
           /\ opc[h] = "enqueue" => othr[h] \in Thread /\ UsedFor(othr[h], h)
           /\ \A k \in DOMAIN queue[h] : Collecting(h) => queue[h][k] # hthr[h]
<1>0. PlaceInv /\ Types /\ OnePlace /\ h \in Handlers /\ LocalsOK
    BY TypesOf, HandlersAssumption DEF WorkInv, PlaceInv, TypeInv, HandlersAssumption
<1>1. ASSUME NEW k \in DOMAIN queue[h]
      PROVE  queue[h][k] \in Thread /\ UsedFor(queue[h][k], h) /\ At(queue[h][k], "queue", h)
  <2>1. queue[h] \in Seq(Thread)
      BY <1>0 DEF Types
  <2>2. queue[h][k] \in Thread
      BY <2>1
  <2>3. At(queue[h][k], "queue", h)
      BY <1>0 DEF At, Queued, Elements
  <2> QED BY <2>2, <2>3 DEF UsedFor
<1>2. ASSUME Collecting(h) PROVE hthr[h] \in Thread /\ UsedFor(hthr[h], h) /\ At(hthr[h], "handler", h)
    BY <1>0, <1>2 DEF Collecting, LocalsOK, HandlerLocals, UsedFor, At
<1>3. ASSUME opc[h] = "enqueue" PROVE othr[h] \in Thread /\ UsedFor(othr[h], h)
    BY <1>0, <1>3 DEF LocalsOK, OwnerLocals, UsedFor, At, Holding
<1>4. ASSUME NEW k \in DOMAIN queue[h], Collecting(h), queue[h][k] = hthr[h] PROVE FALSE
  <2>1. PICK x \in Thread : x = hthr[h]
      BY <1>2, <1>4
  <2>2. At(x, "queue", h) /\ At(x, "handler", h)
      BY <1>1, <1>2, <1>4, <2>1
  <2>3. \A k1, k2 \in Kind, h1, h2 \in Whose : At(x, k1, h1) /\ At(x, k2, h2) => k1 = k2 /\ h1 = h2
      BY <1>0 DEF OnePlace
  <2> QED BY <1>0, <2>2, <2>3, Kinds
<1> QED BY <1>1, <1>2, <1>3, <1>4

LEMMA LoadSame ==
    ASSUME WorkInv, [Next]_vars, NEW t \in Thread, NEW h \in Handlers, UsedFor(t, h),
           ~(TakesResult(h) /\ t = hthr[h])
    PROVE  Load'[t] = Load[t]
BY CarriedKept DEF Load

LEMMA TurnStep ==
    ASSUME WorkInv, InTurn, [Next]_vars, NEW h \in Ordered
    PROVE  Turn(h)'
<1>0. PlaceInv /\ Types /\ h \in Handlers /\ Turn(h)
    BY TypesOf, HandlersAssumption DEF WorkInv, HandlersAssumption, InTurn
<1> DEFINE d == Len(delivered[h])
           n == Len(queue[h])
           b == Before(h)
<1>1. d \in Nat /\ n \in Nat /\ DOMAIN queue[h] = 1..n
    BY <1>0, LenProperties DEF Types
<1>2. b \in Nat /\ sent[h] \in Nat
    BY <1>0, <1>1 DEF Before, Types
<1>3. CASE /\ ~Assign(h) /\ ~Enqueue(h) /\ ~(NextResult(h) /\ queue[h] # <<>>)
           /\ ~TakesResult(h) /\ ~Callback(h)
  <2>1. /\ queue'[h] = queue[h] /\ (Collecting(h)' <=> Collecting(h))
        /\ Collecting(h) => hthr'[h] = hthr[h]
        /\ opc'[h] = "enqueue" <=> opc[h] = "enqueue"
        /\ opc[h] = "enqueue" => othr'[h] = othr[h]
      BY <1>3, TurnSame
  <2>2. delivered'[h] = delivered[h] /\ hres'[h] = hres[h] /\ (HasResult(h)' <=> HasResult(h))
      BY <1>0, <1>3, ResultSame
  <2>3. sent'[h] = sent[h]
      BY <1>0, <1>3, SentSame
  <2>4. \A t \in Thread : UsedFor(t, h) => Load'[t] = Load[t]
      BY <1>0, <1>3, LoadSame
  <2>5. Before(h)' = Before(h)
      BY <2>1, <2>2 DEF Before
  <2>6. Collecting(h) => Load'[hthr[h]] = Load[hthr[h]]
      BY <2>4, InUse
  <2>7. opc[h] = "enqueue" => Load'[othr[h]] = Load[othr[h]]
      BY <2>4, InUse
  <2>8. \A k \in DOMAIN queue[h] : Load'[queue[h][k]] = Load[queue[h][k]]
      BY <2>4, InUse
  <2> HIDE DEF Load, Before, Collecting, HasResult
  <2>9. \A k \in DOMAIN queue'[h] : Load'[queue'[h][k]] = <<h, Before(h)' + k>>
      BY <1>0, <2>1, <2>5, <2>8 DEF Turn
  <2>10. /\ HasResult(h)' => hres'[h] = <<h, Len(delivered'[h]) + 1>>
         /\ Collecting(h)' => Load'[hthr'[h]] = <<h, Len(delivered'[h]) + 1>>
      BY <1>0, <2>1, <2>2, <2>6 DEF Turn
  <2>11. /\ opc'[h] = "enqueue" => Load'[othr'[h]] = <<h, sent'[h]>>
         /\ Before(h)' + Len(queue'[h]) + (IF opc'[h] = "enqueue" THEN 1 ELSE 0) = sent'[h]
      BY <1>0, <2>1, <2>3, <2>5, <2>7 DEF Turn
  <2> QED BY <2>9, <2>10, <2>11 DEF Turn
<1>4. CASE Assign(h)
  <2>1. /\ opc[h] = "assign" /\ opc'[h] = "enqueue" /\ UNCHANGED <<queue, hthr, othr, delivered, hres>>
        /\ sent'[h] = sent[h] + 1 /\ SignalThread(othr[h])
      BY <1>0, <1>4 DEF Assign, queueVars, Types
  <2>2. (Collecting(h)' <=> Collecting(h)) /\ (HasResult(h)' <=> HasResult(h))
    <3>1. hpc'[h] = hpc[h] \/ (hpc[h] = "await" /\ hpc'[h] = "collect")
        BY <1>0, <2>1, SignalThreadWakes DEF PlaceInv, TypeInv, TypeOK
    <3> QED BY <3>1 DEF Collecting, HasResult
  <2>3. ~TakesResult(h)
      BY <2>1 DEF TakesResult, CollectResult, ownerVars
  <2>4. \A t \in Thread : UsedFor(t, h) => Load'[t] = Load[t]
      BY <1>0, <2>3, LoadSame
  <2>5. Load'[othr[h]] = <<h, sent'[h]>>
    <3>1. PICK x \in Thread : x = othr[h]
        BY <1>0, <2>1 DEF PlaceInv, TypeInv, LocalsOK, OwnerLocals
    <3>2. job'[x] = <<h, sent[h] + 1>> /\ <<h, sent[h] + 1>> # None
        BY <1>0, <1>4, <3>1, HandlersAssumption DEF Assign, Types, HandlersAssumption
    <3>3. Load'[x] = job'[x]
        BY <3>2 DEF Load, Carried
    <3> QED BY <2>1, <3>1, <3>2, <3>3
  <2>6. Before(h)' = Before(h)
      BY <2>1, <2>2 DEF Before
  <2>7. Collecting(h) => Load'[hthr[h]] = Load[hthr[h]]
      BY <2>4, InUse
  <2>8. \A k \in DOMAIN queue[h] : Load'[queue[h][k]] = Load[queue[h][k]]
      BY <2>4, InUse
  <2>9. b + n = sent[h]
      BY <1>0, <1>1, <1>2, <2>1 DEF Turn
  <2> HIDE DEF Load, Before, Collecting, HasResult
  <2>10. Before(h)' + Len(queue'[h]) + 1 = sent'[h]
      BY <1>1, <1>2, <2>1, <2>6, <2>9
  <2>11. HasResult(h)' => hres'[h] = <<h, Len(delivered'[h]) + 1>>
      BY <1>0, <2>1, <2>2 DEF Turn
  <2>12. Collecting(h)' => Load'[hthr'[h]] = <<h, Len(delivered'[h]) + 1>>
      BY <1>0, <2>1, <2>2, <2>7 DEF Turn
  <2>13. \A k \in DOMAIN queue'[h] : Load'[queue'[h][k]] = <<h, Before(h)' + k>>
      BY <1>0, <2>1, <2>6, <2>8 DEF Turn
  <2>14. Load'[othr'[h]] = <<h, sent'[h]>>
      BY <2>1, <2>5
  <2> QED BY <2>1, <2>10, <2>11, <2>12, <2>13, <2>14 DEF Turn
<1>5. CASE Enqueue(h)
  <2>1. PICK x \in Thread : x = othr[h]
      BY <1>0, <1>5 DEF Enqueue, PlaceInv, TypeInv, LocalsOK, OwnerLocals
  <2>2. /\ opc[h] = "enqueue" /\ opc'[h] = "idle" /\ queue'[h] = Append(queue[h], x)
        /\ UNCHANGED <<sent, hthr, delivered, hres, job, res>> /\ hpc' = WokenByQueue(h)
      BY <1>0, <1>5, <2>1 DEF Enqueue, Put, thrVars, Types
  <2>3. (Collecting(h)' <=> Collecting(h)) /\ (HasResult(h)' <=> HasResult(h))
      BY <1>0, <2>2 DEF WokenByQueue, Collecting, HasResult, Types
  <2>4. Load' = Load /\ Before(h)' = Before(h)
      BY <2>2, <2>3 DEF Load, Carried, Before
  <2>5. /\ Len(queue'[h]) = n + 1 /\ DOMAIN queue'[h] = 1..(n + 1) /\ queue'[h][n + 1] = x
        /\ \A k \in 1..n : queue'[h][k] = queue[h][k]
    <3>1. queue[h] \in Seq(Thread) /\ queue'[h] \in Seq(Thread)
        BY <1>0, <2>2 DEF Types
    <3> QED BY <1>1, <2>2, <3>1, AppendProperties, LenProperties
  <2> HIDE DEF Load, Before, Collecting, HasResult, n, b
  <2>6. b + n + 1 = sent[h]
      BY <1>0, <2>2 DEF Turn, b, n
  <2>7. Before(h)' = b
      BY <2>4 DEF b
  <2>8. HasResult(h)' => hres'[h] = <<h, Len(delivered'[h]) + 1>>
      BY <1>0, <2>2, <2>3 DEF Turn
  <2>9. Collecting(h)' => Load'[hthr'[h]] = <<h, Len(delivered'[h]) + 1>>
      BY <1>0, <2>2, <2>3, <2>4 DEF Turn
  <2>10. ASSUME NEW k \in 1..n PROVE Load'[queue'[h][k]] = <<h, b + k>>
      BY <1>0, <1>1, <2>4, <2>5 DEF Turn, b
  <2>11. Load'[queue'[h][n + 1]] = <<h, b + (n + 1)>>
    <3>1. Load[x] = <<h, sent[h]>>
        BY <1>0, <2>1, <2>2 DEF Turn
    <3>2. b + (n + 1) = sent[h]
        BY <1>1, <1>2, <2>6
    <3> QED BY <2>4, <2>5, <3>1, <3>2
  <2>12. \A k \in 1..(n + 1) : k \in 1..n \/ k = n + 1
      BY <1>1
  <2>13. \A k \in DOMAIN queue'[h] : Load'[queue'[h][k]] = <<h, Before(h)' + k>>
      BY <2>5, <2>7, <2>10, <2>11, <2>12
  <2>14. Before(h)' + Len(queue'[h]) = sent'[h]
      BY <1>1, <1>2, <2>2, <2>5, <2>6, <2>7
  <2>15. Before(h)' + Len(queue'[h]) + 0 = sent'[h]
      BY <1>1, <1>2, <2>5, <2>7, <2>14
  <2>16. opc'[h] # "enqueue"
      BY <2>2
  <2> QED BY <2>8, <2>9, <2>13, <2>15, <2>16 DEF Turn
<1>6. CASE NextResult(h) /\ queue[h] # <<>>
  <2>1. /\ hpc[h] = "next" /\ hpc'[h] = "collect" /\ queue'[h] = Tail(queue[h]) /\ hthr'[h] = queue[h][1]
        /\ UNCHANGED <<opc, othr, sent, delivered, hres, job, res>>
    <3>1. queue[h] \in Seq(Thread) /\ queue[h] # <<>>
        BY <1>0, <1>6 DEF Types
    <3>2. Head(queue[h]) = queue[h][1]
        BY <3>1
    <3> QED BY <1>0, <1>6, <3>2 DEF NextResult, thrVars, ownerVars, Types
  <2>2. ~Collecting(h) /\ ~HasResult(h) /\ Collecting(h)' /\ ~HasResult(h)'
      BY <2>1 DEF Collecting, HasResult
  <2>3. Load' = Load /\ b = d /\ Before(h)' = d + 1
    <3>1. Load' = Load
        BY <2>1 DEF Load, Carried
    <3> HIDE DEF Collecting, HasResult
    <3>2. b = d
      <4>1. Before(h) = Len(delivered[h]) + 0
          BY <2>2 DEF Before
      <4> HIDE DEF Before
      <4> QED BY <1>1, <4>1
    <3>3. Before(h)' = d + 1
        BY <1>1, <2>1, <2>2 DEF Before
    <3> QED BY <3>1, <3>2, <3>3
  <2>4. /\ n # 0 /\ Len(queue'[h]) = n - 1 /\ DOMAIN queue'[h] = 1..(n - 1)
        /\ \A k \in 1..(n - 1) : queue'[h][k] = queue[h][k + 1]
    <3>1. queue[h] \in Seq(Thread) /\ queue[h] # <<>>
        BY <1>0, <1>6 DEF Types
    <3>2. Tail(queue[h]) \in Seq(Thread)
        BY <3>1
    <3> QED BY <1>1, <2>1, <3>1, <3>2, HeadTailProperties, EmptySeq, LenProperties
  <2> HIDE DEF Load, Before, Collecting, HasResult
  <2>5. Before(h) = d
      BY <2>3
  <2> HIDE DEF n, b, d
  <2>6. d + n + (IF opc[h] = "enqueue" THEN 1 ELSE 0) = sent[h]
      BY <1>0, <2>5 DEF Turn, n
  <2>7. \A k \in 1..n : Load[queue[h][k]] = <<h, d + k>>
      BY <1>0, <1>1, <2>5 DEF Turn
  <2>8. Load'[hthr'[h]] = <<h, Len(delivered'[h]) + 1>>
    <3>1. 1 \in 1..n
        BY <1>1, <2>4
    <3> QED BY <2>1, <2>3, <2>7, <3>1 DEF d
  <2>9. ASSUME NEW k \in 1..(n - 1) PROVE Load'[queue'[h][k]] = <<h, Before(h)' + k>>
    <3>1. k + 1 \in 1..n /\ d + (k + 1) = (d + 1) + k
        BY <1>1
    <3>2. Load[queue[h][k + 1]] = <<h, d + (k + 1)>>
        BY <2>7, <3>1
    <3> QED BY <2>3, <2>4, <3>1, <3>2
  <2>10. Before(h)' + Len(queue'[h]) + (IF opc'[h] = "enqueue" THEN 1 ELSE 0) = sent'[h]
    <3>1. PICK e \in {0, 1} : e = IF opc[h] = "enqueue" THEN 1 ELSE 0
        OBVIOUS
    <3>2. d + n + e = sent[h]
        BY <2>6, <3>1
    <3>3. (d + 1) + (n - 1) + e = sent[h]
        BY <1>1, <3>2
    <3> QED BY <2>1, <2>3, <2>4, <3>1, <3>3
  <2>11. opc'[h] = "enqueue" => Load'[othr'[h]] = <<h, sent'[h]>>
      BY <1>0, <2>1, <2>3 DEF Turn
  <2>12. \A k \in DOMAIN queue'[h] : Load'[queue'[h][k]] = <<h, Before(h)' + k>>
      BY <2>4, <2>9
  <2> QED BY <2>2, <2>8, <2>10, <2>11, <2>12 DEF Turn
<1>7. CASE TakesResult(h)
  <2>1. PICK x \in Thread : x = hthr[h]
      BY <1>0, <1>7 DEF TakesResult, CollectResult, PlaceInv, TypeInv, LocalsOK, HandlerLocals
  <2>2. /\ hpc[h] = "collect" /\ hpc'[h] = "return" /\ ~running[x] /\ hres'[h] = res[x]
        /\ UNCHANGED <<queue, opc, othr, sent, delivered>>
      BY <1>0, <1>7, <2>1 DEF TakesResult, CollectResult, queueVars, ownerVars, Types
  <2>3. Collecting(h) /\ ~HasResult(h) /\ ~Collecting(h)' /\ HasResult(h)'
      BY <2>2 DEF Collecting, HasResult
  <2>4. Before(h)' = Before(h)
      BY <2>2, <2>3 DEF Before
  <2>5. Load[x] = res[x]
      BY <2>2 DEF WorkInv, Phases, Phase, Carried, Load
  <2>6. \A t \in Thread : UsedFor(t, h) /\ t # x => Load'[t] = Load[t]
      BY <1>0, <2>1, LoadSame
  <2>7. \A k \in DOMAIN queue[h] : Load'[queue[h][k]] = Load[queue[h][k]]
      BY <2>1, <2>3, <2>6, InUse
  <2>8. opc[h] = "enqueue" => Load'[othr[h]] = Load[othr[h]]
    <3> SUFFICES ASSUME opc[h] = "enqueue" PROVE Load'[othr[h]] = Load[othr[h]]
        OBVIOUS
    <3>1. PICK y \in Thread : y = othr[h] /\ UsedFor(y, h)
        BY InUse
    <3>2. At(y, "owner", h) /\ At(x, "handler", h)
        BY <1>0, <2>1, <3>1 DEF At, Holding
    <3>3. x # y
        BY <1>0, <3>2, Kinds, OnlyThere DEF PlaceInv
    <3> QED BY <2>6, <3>1, <3>3
  <2> HIDE DEF Load, Before, Collecting, HasResult
  <2>9. hres'[h] = <<h, Len(delivered'[h]) + 1>>
      BY <1>0, <2>1, <2>2, <2>3, <2>5 DEF Turn
  <2>10. \A k \in DOMAIN queue'[h] : Load'[queue'[h][k]] = <<h, Before(h)' + k>>
      BY <1>0, <2>2, <2>4, <2>7 DEF Turn
  <2>11. opc'[h] = "enqueue" => Load'[othr'[h]] = <<h, sent'[h]>>
      BY <1>0, <2>2, <2>8 DEF Turn
  <2>12. Before(h)' + Len(queue'[h]) + (IF opc'[h] = "enqueue" THEN 1 ELSE 0) = sent'[h]
      BY <1>0, <2>2, <2>4 DEF Turn
  <2> QED BY <2>3, <2>9, <2>10, <2>11, <2>12 DEF Turn
<1>8. CASE Callback(h)
  <2>1. /\ hpc[h] = "callback" /\ hpc'[h] = "next" /\ delivered'[h] = Append(delivered[h], hres[h])
        /\ UNCHANGED <<queue, opc, othr, sent, job, res>>
      BY <1>0, <1>8 DEF Callback, thrVars, queueVars, ownerVars, Types
  <2>2. HasResult(h) /\ ~HasResult(h)' /\ ~Collecting(h)'
      BY <2>1 DEF Collecting, HasResult
  <2>3. Len(delivered'[h]) = d + 1
    <3>1. delivered[h] \in Seq(Job \cup {None}) /\ hres[h] \in Job \cup {None}
        BY <1>0 DEF Types
    <3> QED BY <2>1, <3>1, AppendProperties
  <2>4. Load' = Load /\ Before(h)' = Before(h)
    <3>1. Load' = Load
        BY <2>1 DEF Load, Carried
    <3> HIDE DEF Collecting, HasResult
    <3>2. Before(h) = d + 1
        BY <1>1, <2>2 DEF Before
    <3>3. Before(h)' = d + 1
      <4>1. Before(h)' = Len(delivered'[h]) + 0
          BY <2>2 DEF Before
      <4> HIDE DEF Before
      <4> QED BY <1>1, <2>3, <4>1
    <3> QED BY <3>1, <3>2, <3>3
  <2> HIDE DEF Load, Before, Collecting, HasResult
  <2>5. \A k \in DOMAIN queue'[h] : Load'[queue'[h][k]] = <<h, Before(h)' + k>>
      BY <1>0, <2>1, <2>4 DEF Turn
  <2>6. opc'[h] = "enqueue" => Load'[othr'[h]] = <<h, sent'[h]>>
      BY <1>0, <2>1, <2>4 DEF Turn
  <2>7. Before(h)' + Len(queue'[h]) + (IF opc'[h] = "enqueue" THEN 1 ELSE 0) = sent'[h]
      BY <1>0, <2>1, <2>4 DEF Turn
  <2> QED BY <2>2, <2>5, <2>6, <2>7 DEF Turn
<1> QED BY <1>3, <1>4, <1>5, <1>6, <1>7, <1>8

LEMMA ServiceInit == Init => ServiceInv
<1> SUFFICES ASSUME Init PROVE ServiceInv
    OBVIOUS
<1>1. WorkInv
    BY WorkInit
<1>2. ASSUME NEW t \in Thread, NEW h \in Handlers PROVE ~UsedFor(t, h)
    BY HandlersAssumption DEF Init, UsedFor, At, Queued, Elements, Holding, HandlersAssumption, Thread
<1>3. ASSUME NEW h \in Handlers
      PROVE  ~HasResult(h) /\ ~Collecting(h) /\ DeliveredTo(h) = {} /\ sent[h] = 0 /\ opc[h] = "idle"
    BY DEF Init, HasResult, Collecting, DeliveredTo, Elements
<1>4. ASSUME NEW h \in Handlers, NEW i \in Nat PROVE Keeps(h, i)
  <2>1. \A p \in Spot : ~Has(p, h, i)
      BY <1>2, <1>3 DEF Has
  <2>2. i \notin 1..sent[h]
      BY <1>3
  <2> QED BY <2>1, <2>2 DEF Keeps
<1>5. Owned
    BY <1>2, <1>3 DEF Owned, Owns
<1>6. ASSUME NEW h \in Ordered PROVE Turn(h)
  <2>1. h \in Handlers
      BY HandlersAssumption DEF HandlersAssumption
  <2>2. queue[h] = <<>> /\ Len(queue[h]) = 0 /\ DOMAIN queue[h] = {} /\ Len(delivered[h]) = 0
      BY <2>1 DEF Init
  <2>3. Before(h) = 0
      BY <1>3, <2>1, <2>2 DEF Before
  <2> HIDE DEF HasResult, Collecting, Before, Load
  <2> QED BY <1>3, <2>1, <2>2, <2>3 DEF Turn
<1> QED BY <1>1, <1>4, <1>5, <1>6 DEF ServiceInv, Kept, InTurn

LEMMA ServiceStep == ServiceInv /\ [Next]_vars => ServiceInv'
<1> SUFFICES ASSUME ServiceInv, [Next]_vars PROVE ServiceInv'
    OBVIOUS
<1>0. WorkInv /\ Kept /\ Owned /\ InTurn
    BY DEF ServiceInv
<1>1. WorkInv'
    BY <1>0, WorkStep
<1>2. Kept'
    BY <1>0, KeptStep DEF Kept
<1>3. Owned'
    BY <1>0, OwnedStep DEF Owned
<1>4. InTurn'
    BY <1>0, TurnStep DEF InTurn
<1> QED BY <1>1, <1>2, <1>3, <1>4 DEF ServiceInv

-------------------------------------------------------------------------------
(* The refinement *)

LEMMA SameDelivered ==
    ASSUME Types, NEW h \in Handlers
    PROVE  Service!DeliveredSet(h) = DeliveredTo(h) /\ Service!Outstanding(h) = Own(h) \ DeliveredTo(h)
<1>1. DOMAIN delivered[h] = 1..Len(delivered[h])
    BY LenProperties DEF Types
<1>2. Service!DeliveredSet(h) = DeliveredTo(h)
    BY <1>1 DEF Service!DeliveredSet, DeliveredTo, Elements
<1> QED BY <1>2 DEF Service!Outstanding, Own

\* Assigning a job is the abstract dispatch, calling back the delivery, and the
\* end of the join the return of result_handler_destroy(); nothing else shows.
LEMMA ServiceActions ==
    ASSUME ServiceInv, [Next]_vars
    PROVE  [Service!Next]_(Service!jvars)
<1>0. WorkInv /\ PlaceInv /\ Types /\ Kept /\ Owned /\ InTurn /\ Ending
    BY TypesOf DEF ServiceInv, WorkInv
<1> DEFINE closed == [h \in Handlers |-> opc[h] = "done"]
<1>1. ASSUME NEW h \in Handlers, Assign(h) PROVE Service!Next
  <2>1. opc[h] = "assign" /\ opc' = [opc EXCEPT ![h] = "enqueue"] /\ sent' = [sent EXCEPT ![h] = @ + 1] /\ UNCHANGED delivered
      BY <1>1 DEF Assign
  <2>2. sent[h] < Jobs[h]
      BY <1>0, <2>1 DEF Ending, End
  <2>3. closed' = closed /\ ~closed[h]
      BY <1>0, <2>1 DEF Types
  <2>4. Service!Dispatch(h)
      BY <2>1, <2>2, <2>3 DEF Service!Dispatch
  <2> QED BY <2>4 DEF Service!Next
<1>2. ASSUME NEW h \in Handlers, Callback(h) PROVE Service!Next
  <2>1. /\ hpc[h] = "callback" /\ delivered' = [delivered EXCEPT ![h] = Append(@, hres[h])]
        /\ UNCHANGED <<sent, opc>>
      BY <1>2 DEF Callback, ownerVars
  <2>2. closed' = closed /\ ~closed[h]
      BY <1>0, <2>1 DEF Ending, End
  <2>3. HasResult(h)
      BY <2>1 DEF HasResult
  <2>4. hres[h] \in Own(h)
      BY <1>0, <2>3 DEF Owned, Owns
  <2>5. hres[h] \notin DeliveredTo(h)
    <3>1. PICK i \in 1..sent[h] : hres[h] = <<h, i>>
        BY <2>4 DEF Own
    <3>2. i \in Nat
        BY <1>0 DEF Types
    <3>3. Has(0, h, i)
        BY <2>3, <3>1 DEF Has
    <3>4. ~Has(-1, h, i)
        BY <1>0, <3>2, <3>3 DEF Kept, Keeps, Spot
    <3> QED BY <3>1, <3>4 DEF Has
  <2>6. hres[h] \in Service!Outstanding(h)
      BY <1>0, <2>4, <2>5, SameDelivered
  <2>7. h \in Ordered => hres[h] = <<h, Len(delivered[h]) + 1>>
      BY <1>0, <2>3 DEF InTurn, Turn
  <2>8. Service!Deliver(h)
      BY <2>1, <2>2, <2>6, <2>7 DEF Service!Deliver
  <2> QED BY <2>8 DEF Service!Next
<1>3. ASSUME NEW h \in Handlers, JoinHandler(h) PROVE Service!Next
  <2>1. /\ opc[h] = "join" /\ hpc[h] = "exited" /\ opc' = [opc EXCEPT ![h] = "done"]
        /\ UNCHANGED <<sent, delivered>>
      BY <1>3 DEF JoinHandler, handlerVars
  <2>2. ~closed[h] /\ closed' = [closed EXCEPT ![h] = TRUE]
      BY <1>0, <2>1 DEF Types
  <2>3. queue[h] = <<>> /\ nthreads[h] = 0
      BY <1>0, <2>1 DEF Ending, End
  <2>4. ASSUME NEW t \in Thread PROVE ~UsedFor(t, h)
    <3>1. ~At(t, "queue", h)
        BY <2>3 DEF At, Queued, Elements
    <3>2. rqOf[t] # h
      <4>1. CASE h \in Ordered
          BY <1>0, <4>1 DEF WorkInv, Unposted
      <4>2. CASE h \notin Ordered
        <5>1. Cardinality(Lent(h)) = 0
            BY <1>0, <2>1, <2>3, <4>2 DEF WorkInv, Counted, Counts
        <5>2. IsFiniteSet(Lent(h))
            BY LentFinite
        <5>3. Lent(h) = {}
          <6> HIDE DEF Lent
          <6> QED BY <5>1, <5>2, FS_EmptySet
        <5> QED BY <5>3 DEF Lent
      <4> QED BY <4>1, <4>2
    <3> QED BY <2>1, <3>1, <3>2 DEF UsedFor
  <2>5. ASSUME NEW i \in 1..sent[h] PROVE <<h, i>> \in DeliveredTo(h)
    <3>1. i \in Nat
        BY <1>0 DEF Types
    <3>2. PICK p \in Spot : Has(p, h, i)
        BY <1>0, <3>1 DEF Kept, Keeps
    <3>3. ~HasResult(h)
        BY <2>1 DEF HasResult
    <3> QED BY <2>4, <3>2, <3>3 DEF Has
  <2>6. Service!Outstanding(h) = {}
    <3>1. Own(h) \subseteq DeliveredTo(h)
        BY <2>5 DEF Own
    <3> QED BY <1>0, <3>1, SameDelivered
  <2>7. Service!Close(h)
      BY <2>1, <2>2, <2>6 DEF Service!Close
  <2> QED BY <2>7 DEF Service!Next
<1>4. ASSUME \A h \in Handlers : ~Assign(h) /\ ~Callback(h) /\ ~JoinHandler(h)
      PROVE  UNCHANGED Service!jvars
  <2>1. UNCHANGED <<sent, delivered>>
    <3>1. ASSUME NEW g \in Handlers, Owner(g) PROVE UNCHANGED <<sent, delivered>>
        BY <1>4, <3>1, Zenon DEF Owner, TakeThread, CreateThread, Enqueue, Finish, ownerVars, handlerVars
    <3>2. ASSUME NEW g \in Handlers, Handler(g) PROVE UNCHANGED <<sent, delivered>>
        BY <1>4, <3>2, Zenon DEF Handler, NextResult, CollectResult, ReturnThread, ExitHandler, ownerVars
    <3>3. ASSUME NEW x \in Thread, Worker(x) PROVE UNCHANGED <<sent, delivered>>
        BY <3>3, Zenon DEF Worker, AwaitJob, ExitWorker, RunJob, ClearRunning, PostSelf, SignalResult,
                           ownerVars, handlerVars
    <3>4. ASSUME Destroyer \/ Spurious \/ UNCHANGED vars PROVE UNCHANGED <<sent, delivered>>
        BY <3>4, Zenon DEF Destroyer, StartDestroy, LockPool, AwaitIdle, StopThread, JoinThread, FreePool,
           Spurious, WakeOwner, WakeHandler, WakeWorker, WakeDestroyer, vars, ownerVars, handlerVars
    <3> QED BY <3>1, <3>2, <3>3, <3>4 DEF Next
  <2>2. ASSUME NEW h \in Handlers PROVE opc'[h] = "done" <=> opc[h] = "done"
    <3>1. CASE Owner(h)
        BY <1>0, <1>4, <3>1 DEF Owner, TakeThread, CreateThread, Enqueue, Finish, Types
    <3>2. CASE ~Owner(h)
        BY <1>0, <3>2, OwnerWakes DEF OwnerWoken
    <3> QED BY <3>1, <3>2
  <2>3. closed' = closed
      BY <2>2
  <2> QED BY <2>1, <2>3 DEF Service!jvars
<1> QED BY <1>1, <1>2, <1>3, <1>4

\* Whatever the threads and the order of their critical sections, every job is
\* delivered once at most, in the order of dispatch when the handler is ordered, and
\* result_handler_destroy() returns when all of them have been.
THEOREM PoolIsService == Spec => ServiceSpec
<1>1. Init => Service!Init
    BY DEF Init, Service!Init
<1>2. ServiceInv /\ [Next]_vars => [Service!Next]_(Service!jvars)
    BY ServiceActions
<1> QED BY <1>1, <1>2, ServiceInit, ServiceStep, PTL DEF Spec, ServiceSpec, Service!Spec

===============================================================================
