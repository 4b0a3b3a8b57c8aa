------------------------------ MODULE JobService ------------------------------
(***************************************************************************)
(* What the worker pool of mtbl/threadpool.c promises to one user of a     *)
(* result handler (mtbl/threadpool.h:42-63): every job that is dispatched  *)
(* is delivered to the handler's callback exactly once, in the order of    *)
(* dispatch when the handler is ordered, and result_handler_destroy()      *)
(* returns only after the last of them has been delivered.  Nothing is     *)
(* said of threads, queues, locks or condition variables.                  *)
(*                                                                         *)
(* Job number i of handler h is the pair <<h, i>>.                         *)
(***************************************************************************)
EXTENDS Naturals, Sequences

CONSTANTS
    Handlers,    \* the result handlers that share the pool
    Ordered,     \* the handlers whose owner dispatches with ordered = true
    Jobs         \* Jobs[h]: bound on the number of jobs handler h is sent

VARIABLES
    sent,        \* sent[h]: number of jobs dispatched so far
    delivered,   \* delivered[h]: the jobs given to the callback, in order
    closed       \* closed[h]: result_handler_destroy() has returned

jvars == <<sent, delivered, closed>>

DeliveredSet(h) == {delivered[h][k] : k \in 1..Len(delivered[h])}

Outstanding(h) == {<<h, i>> : i \in 1..sent[h]} \ DeliveredSet(h)

Init ==
    /\ sent = [h \in Handlers |-> 0]
    /\ delivered = [h \in Handlers |-> <<>>]
    /\ closed = [h \in Handlers |-> FALSE]

Dispatch(h) ==
    /\ ~closed[h]
    /\ sent[h] < Jobs[h]
    /\ sent' = [sent EXCEPT ![h] = @ + 1]
    /\ UNCHANGED <<delivered, closed>>

\* An ordered handler takes the oldest outstanding job, an unordered one any.
Deliver(h) ==
    \E j \in Outstanding(h) :
        /\ ~closed[h]
        /\ h \in Ordered => j = <<h, Len(delivered[h]) + 1>>
        /\ delivered' = [delivered EXCEPT ![h] = Append(@, j)]
        /\ UNCHANGED <<sent, closed>>

Close(h) ==
    /\ ~closed[h]
    /\ Outstanding(h) = {}
    /\ closed' = [closed EXCEPT ![h] = TRUE]
    /\ UNCHANGED <<sent, delivered>>

Next == \E h \in Handlers : Dispatch(h) \/ Deliver(h) \/ Close(h)

Spec == Init /\ [][Next]_jvars

\* Outstanding jobs do not stay outstanding, and every handler is destroyed.
FairSpec ==
    Spec /\ \A h \in Handlers : WF_jvars(Deliver(h)) /\ WF_jvars(Close(h))

===============================================================================
