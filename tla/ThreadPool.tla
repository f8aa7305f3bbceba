---- MODULE ThreadPool ----
(***************************************************************************)
(* The network disk's thread pool: the server's main thread allocates a    *)
(* task node, appends it under the queue mutex and signals the condition   *)
(* variable after unlocking; every worker runs thread_handle.              *)
(*                                                                         *)
(* One action is one step between two points where another thread can be   *)
(* observed: a mutex operation, the condition wait, one queue operation    *)
(* made under the mutex, or the transfer as a whole.                       *)
(***************************************************************************)
EXTENDS WorkQueue, FiniteSets

CONSTANTS Worker,    \* the THREAD_NUM threads thread_pool_start creates
          Main,      \* the thread that runs main()
          Nobody     \* the owner of a free mutex

ASSUME WorkerAssumption == IsFiniteSet(Worker)
ASSUME ThreadAssumption == Main \notin Worker /\ Nobody \notin Worker /\ Main # Nobody

VARIABLES que,       \* ptp->queue
          mutex,     \* the thread that holds pq->mutex
          pc,        \* pc[w]: where worker w is in thread_handle
          pcur,      \* pcur[w]: the node worker w took
          mpc,       \* where the main thread is in its enqueue sequence
          pnew,      \* the node the main thread is about to enqueue
          heap,      \* the cells malloc may hand out
          fifo       \* history: the nodes enqueued and not yet taken, oldest first

vars == <<que, mutex, pc, pcur, mpc, pnew, heap, fifo>>

WorkerPC == {"lock", "check", "wait", "relock", "get", "unlock", "task"}
MainPC   == {"serve", "lock", "set", "unlock", "signal"}

\* The threads blocked in pthread_cond_wait that no wake-up has reached.
Waiting == {w \in Worker : pc[w] = "wait"}

Init ==
    /\ que = QueueInit
    /\ mutex = Nobody
    /\ pc = [w \in Worker |-> "lock"]
    /\ pcur = [w \in Worker |-> NULL]
    /\ mpc = "serve"
    /\ pnew = NULL
    /\ heap = Node
    /\ fifo = <<>>

-----------------------------------------------------------------------------
\* The main thread.

\* A token connection asked for GETS or PUTS: calloc a zeroed node, fill it in.
NewTask(n) ==
    /\ mpc = "serve"
    /\ n \in heap
    /\ heap' = heap \ {n}
    /\ pnew' = n
    /\ que' = [que EXCEPT !.pnext[n] = NULL]
    /\ mpc' = "lock"
    /\ UNCHANGED <<mutex, pc, pcur, fifo>>

MainLock ==
    /\ mpc = "lock"
    /\ mutex = Nobody
    /\ mutex' = Main
    /\ mpc' = "set"
    /\ UNCHANGED <<que, pc, pcur, pnew, heap, fifo>>

MainSet ==
    /\ mpc = "set"
    /\ que' = QueueSet(que, pnew)
    /\ fifo' = Append(fifo, pnew)
    /\ pnew' = NULL
    /\ mpc' = "unlock"
    /\ UNCHANGED <<mutex, pc, pcur, heap>>

MainUnlock ==
    /\ mpc = "unlock"
    /\ mutex' = Nobody
    /\ mpc' = "signal"
    /\ UNCHANGED <<que, pc, pcur, pnew, heap, fifo>>

\* Mutant: signals only when the queue was empty before.
SignalIfWasEmpty ==
    /\ mpc = "signal"
    /\ mpc' = "serve"
    /\ IF Waiting = {} \/ que.size # 1 THEN pc' = pc
       ELSE \E w \in Waiting : pc' = [pc EXCEPT ![w] = "relock"]
    /\ UNCHANGED <<que, mutex, pcur, pnew, heap, fifo>>

\* pthread_cond_signal: one of the waiting threads, if there is any.
MainSignal ==
    /\ mpc = "signal"
    /\ mpc' = "serve"
    /\ IF Waiting = {} THEN pc' = pc
       ELSE \E w \in Waiting : pc' = [pc EXCEPT ![w] = "relock"]
    /\ UNCHANGED <<que, mutex, pcur, pnew, heap, fifo>>

-----------------------------------------------------------------------------
\* A worker.

Lock(w) ==
    /\ pc[w] = "lock"
    /\ mutex = Nobody
    /\ mutex' = w
    /\ pc' = [pc EXCEPT ![w] = "check"]
    /\ UNCHANGED <<que, pcur, mpc, pnew, heap, fifo>>

\* Mutant: waits without testing the size.
CondWaitAlways(w) ==
    /\ pc[w] = "check"
    /\ mutex' = Nobody
    /\ pc' = [pc EXCEPT ![w] = "wait"]
    /\ UNCHANGED <<que, pcur, mpc, pnew, heap, fifo>>

\* The queue is empty: release the mutex and wait, in one step.
CondWait(w) ==
    /\ pc[w] = "check"
    /\ que.size = 0
    /\ mutex' = Nobody
    /\ pc' = [pc EXCEPT ![w] = "wait"]
    /\ UNCHANGED <<que, pcur, mpc, pnew, heap, fifo>>

SkipWait(w) ==
    /\ pc[w] = "check"
    /\ que.size # 0
    /\ pc' = [pc EXCEPT ![w] = "get"]
    /\ UNCHANGED <<que, mutex, pcur, mpc, pnew, heap, fifo>>

\* pthread_cond_wait may return without a signal.
SpuriousWakeup(w) ==
    /\ pc[w] = "wait"
    /\ pc' = [pc EXCEPT ![w] = "relock"]
    /\ UNCHANGED <<que, mutex, pcur, mpc, pnew, heap, fifo>>

\* pthread_cond_wait takes the mutex again; the size is not tested again.
Relock(w) ==
    /\ pc[w] = "relock"
    /\ mutex = Nobody
    /\ mutex' = w
    /\ pc' = [pc EXCEPT ![w] = "get"]
    /\ UNCHANGED <<que, pcur, mpc, pnew, heap, fifo>>

Get(w) ==
    /\ pc[w] = "get"
    /\ pcur' = [pcur EXCEPT ![w] = Taken(que, @)]
    /\ que' = QueueGet(que)
    /\ fifo' = IF fifo = <<>> THEN fifo ELSE Tail(fifo)
    /\ pc' = [pc EXCEPT ![w] = "unlock"]
    /\ UNCHANGED <<mutex, mpc, pnew, heap>>

\* pthread_cleanup_pop(1) runs cleanup(); without a node the loop starts over.
Unlock(w) ==
    /\ pc[w] = "unlock"
    /\ mutex' = Nobody
    /\ pc' = [pc EXCEPT ![w] = IF pcur[w] = NULL THEN "lock" ELSE "task"]
    /\ UNCHANGED <<que, pcur, mpc, pnew, heap, fifo>>

\* Mutant: frees the node and keeps the pointer.
FinishKeepsPointer(w) ==
    /\ pc[w] = "task"
    /\ heap' = heap \cup {pcur[w]}
    /\ pc' = [pc EXCEPT ![w] = "lock"]
    /\ UNCHANGED <<que, mutex, pcur, mpc, pnew, fifo>>

\* do_gets or do_puts has returned: close the socket, free the node.
FinishTask(w) ==
    /\ pc[w] = "task"
    /\ heap' = heap \cup {pcur[w]}
    /\ pcur' = [pcur EXCEPT ![w] = NULL]
    /\ pc' = [pc EXCEPT ![w] = "lock"]
    /\ UNCHANGED <<que, mutex, mpc, pnew, fifo>>

-----------------------------------------------------------------------------
MainStep == MainLock \/ MainSet \/ MainUnlock \/ MainSignal

\* The steps of thread_handle that only need the scheduler.
WorkerStep(w) == \/ Lock(w) \/ CondWait(w) \/ SkipWait(w)
                 \/ Relock(w) \/ Get(w) \/ Unlock(w)

Next == \/ \E n \in Node : NewTask(n)
        \/ MainStep
        \/ \E w \in Worker : WorkerStep(w) \/ SpuriousWakeup(w) \/ FinishTask(w)

Spec == Init /\ [][Next]_vars

\* A runnable thread is eventually scheduled.  Nothing is assumed about new
\* requests, spurious wake-ups, or how long a transfer takes: a peer that
\* stops reading keeps its worker in "task" for ever.
Fairness == WF_vars(MainStep) /\ \A w \in Worker : WF_vars(WorkerStep(w))

FairSpec == Spec /\ Fairness

-----------------------------------------------------------------------------
\* Properties.

TypeOK ==
    /\ que \in Queue
    /\ mutex \in Worker \cup {Main, Nobody}
    /\ pc \in [Worker -> WorkerPC]
    /\ pcur \in [Worker -> Pointer]
    /\ mpc \in MainPC
    /\ pnew \in Pointer
    /\ heap \in SUBSET Node
    /\ fifo \in Seq(Node)

\* The linked list that queue_set and queue_get maintain is, at every moment,
\* the nodes enqueued and not yet taken, in order: none is lost, repeated or
\* reachable after a worker took it.
ListMatchesFifo == Represents(que, fifo)

Queued == {fifo[i] : i \in 1..Len(fifo)}

\* Every node has one owner: the allocator, the main thread, the queue or one
\* worker.  A node that is queued or running is never handed out by calloc,
\* and no two workers hold (and free) the same node.
OneOwner ==
    /\ heap \cap Queued = {}
    /\ pnew \notin heap \cup Queued
    /\ \A w \in Worker : pcur[w] # NULL => pcur[w] \notin heap \cup Queued \cup {pnew}
    /\ \A v, w \in Worker : pcur[v] # NULL /\ pcur[v] = pcur[w] => v = w

\* Workers that will look at the queue before they block: they have not tested
\* it yet, or hold a wake-up, or found nothing and are about to start over.
Looking == {w \in Worker : \/ pc[w] \in {"lock", "check", "relock", "get"}
                           \/ pc[w] = "unlock" /\ pcur[w] = NULL}

SignalDue == IF mpc \in {"unlock", "signal"} THEN 1 ELSE 0

\* No wake-up is lost: while some worker sleeps, every queued task is matched
\* by a worker that is about to look at the queue or by the signal the main
\* thread still owes, although the signal is sent after the mutex is released
\* and thread_handle tests the size with `if`, not `while`.
NoLostWakeup == Waiting # {} => que.size <= Cardinality(Looking) + SignalDue

\* A queued task is eventually taken, unless every worker is busy with a transfer.
QueuedIsTaken ==
    \A n \in Node :
        (n \in Queued) ~> (n \notin Queued \/ \A w \in Worker : pc[w] = "task")

\* The pool implements the abstract one: the linked list is the line, and a
\* worker runs the node in pcur.
Pool == INSTANCE TaskPool
            WITH Task <- Node, Idle <- NULL, line <- fifo, running <- pcur
PoolSpec == Pool!Spec
====
