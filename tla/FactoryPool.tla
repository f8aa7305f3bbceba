---- MODULE FactoryPool ----
(***************************************************************************)
(* The thread pools before the network disk's: main accepts connections    *)
(* and queues them, threads send a file to each.  The later of the two has *)
(* an exit: SIGQUIT at the parent process wakes main through a pipe, which *)
(* cancels the threads and joins them.  The queue is that of WorkQueue.    *)
(***************************************************************************)
EXTENDS WorkQueue, FiniteSets

CONSTANTS Thread, Client

\* zeroed: nodes come from calloc().  closes: a thread closes the connection it has served.
\* exits: there is the exit.
day32  == [zeroed |-> TRUE, closes |-> TRUE, exits |-> FALSE]
revise == [zeroed |-> FALSE, closes |-> FALSE, exits |-> TRUE]

FactoryAssumption == Thread # {} /\ NULL \notin Client

VARIABLES version,
          que,     \* the queue
          fd,      \* node -> new_fd, the client it is about, or NULL if the node is not allocated
          client,  \* client -> "away", "backlog", "taken", "served"
          gone,    \* clients that have closed their end
          main,    \* "wait", "join", "exited" or "dead" (the whole process)
          mutex,   \* NULL, or the thread that ended with the mutex
          pc,      \* thread -> "lock", "wait", "woken", "serve" or "ended"
          pcur,    \* thread -> the node it has
          quit,    \* SIGQUIT has come
          cancel   \* pthread_cancel() was called for every thread

factoryVars == <<version, que, fd, client, gone, main, mutex, pc, pcur, quit, cancel>>

\* The list ends where its counter says.  Once it does not, everything may happen.
Sound == que.size = 0 => que.head = NULL

FactoryInit ==
    /\ version \in {day32, revise} /\ que = QueueInit /\ fd = [n \in Node |-> NULL]
    /\ client = [c \in Client |-> "away"] /\ gone = {} /\ main = "wait" /\ mutex = NULL
    /\ pc = [t \in Thread |-> "lock"] /\ pcur = [t \in Thread |-> NULL]
    /\ quit = FALSE /\ cancel = FALSE
-----------------------------------------------------------------------------
Connect(c) ==
    /\ client[c] = "away" /\ client' = [client EXCEPT ![c] = "backlog"]
    /\ UNCHANGED <<version, que, fd, gone, main, mutex, pc, pcur, quit, cancel>>

Leave(c) ==
    /\ client[c] \in {"backlog", "taken"} /\ c \notin gone /\ gone' = gone \cup {c}
    /\ UNCHANGED <<version, que, fd, client, main, mutex, pc, pcur, quit, cancel>>

Quit ==
    /\ version.exits /\ ~quit /\ quit' = TRUE
    /\ UNCHANGED <<version, que, fd, client, gone, main, mutex, pc, pcur, cancel>>

\* main() accepts, gets a node, whose pnext malloc() leaves as it was, queues it and signals.
Accept(c, n) ==
    /\ main = "wait" /\ client[c] = "backlog" /\ fd[n] = NULL /\ mutex = NULL
    /\ client' = [client EXCEPT ![c] = "taken"] /\ fd' = [fd EXCEPT ![n] = c]
    /\ \E link \in {NULL, que.pnext[n]} :
         /\ version.zeroed => link = NULL
         /\ que' = QueueSet([que EXCEPT !.pnext = [@ EXCEPT ![n] = link]], n)
    /\ IF \E t \in Thread : pc[t] = "wait"
       THEN \E t \in Thread : pc[t] = "wait" /\ pc' = [pc EXCEPT ![t] = "woken"]
       ELSE UNCHANGED pc
    /\ UNCHANGED <<version, gone, main, mutex, pcur, quit, cancel>>

Exit ==
    /\ main = "wait" /\ quit /\ main' = "join" /\ cancel' = TRUE
    /\ UNCHANGED <<version, que, fd, client, gone, mutex, pc, pcur, quit>>

Joined ==
    /\ main = "join" /\ (\A t \in Thread : pc[t] = "ended") /\ main' = "exited"
    /\ UNCHANGED <<version, que, fd, client, gone, mutex, pc, pcur, quit, cancel>>
-----------------------------------------------------------------------------
\* thread_handle()

Wait(t) ==
    /\ pc[t] = "lock" /\ mutex = NULL /\ que.size = 0 /\ pc' = [pc EXCEPT ![t] = "wait"]
    /\ UNCHANGED <<version, que, fd, client, gone, main, mutex, pcur, quit, cancel>>

SpuriousWakeup(t) ==
    /\ pc[t] = "wait" /\ pc' = [pc EXCEPT ![t] = "woken"]
    /\ UNCHANGED <<version, que, fd, client, gone, main, mutex, pcur, quit, cancel>>

\* The queue may be empty again when a woken thread gets there.
Get(t) ==
    /\ mutex = NULL /\ (pc[t] = "woken" \/ (pc[t] = "lock" /\ que.size > 0))
    /\ que' = QueueGet(que) /\ pcur' = [pcur EXCEPT ![t] = Taken(que, @)]
    /\ pc' = [pc EXCEPT ![t] = IF que.size > 0 THEN "serve" ELSE "lock"]
    /\ UNCHANGED <<version, fd, client, gone, main, mutex, quit, cancel>>

Serve(t) ==
    /\ pc[t] = "serve"
    /\ client' = [client EXCEPT ![fd[pcur[t]]] = "served"]
    /\ fd' = [fd EXCEPT ![pcur[t]] = NULL] /\ pcur' = [pcur EXCEPT ![t] = NULL]
    /\ pc' = [pc EXCEPT ![t] = "lock"]
    /\ UNCHANGED <<version, que, gone, main, mutex, quit, cancel>>

\* The client has left: a later send() ends the process with SIGPIPE.
Broken(t) ==
    /\ pc[t] = "serve" /\ fd[pcur[t]] \in gone /\ main' = "dead"
    /\ UNCHANGED <<version, que, fd, client, gone, mutex, pc, pcur, quit, cancel>>

\* As a mutant: without the cleanup handler the thread ends with the mutex, which
\* pthread_cond_wait() has locked again.
CancelledWithMutex(t) ==
    /\ cancel /\ pc[t] \in {"wait", "woken", "serve"}
    /\ pc[t] = "serve" \/ mutex = NULL
    /\ mutex' = IF pc[t] = "serve" THEN mutex ELSE t
    /\ pc' = [pc EXCEPT ![t] = "ended"]
    /\ UNCHANGED <<version, que, fd, client, gone, main, pcur, quit, cancel>>

\* A thread ends in pthread_cond_wait(), where cleanup() unlocks the mutex, or in a system
\* call of transfer_file(), with its node and the connection.
Cancelled(t) ==
    /\ cancel /\ pc[t] \in {"wait", "woken", "serve"}
    /\ pc[t] = "serve" \/ mutex = NULL
    /\ pc' = [pc EXCEPT ![t] = "ended"]
    /\ UNCHANGED <<version, que, fd, client, gone, main, mutex, pcur, quit, cancel>>

FactoryNext ==
    /\ Sound /\ main # "dead"
    /\ \/ \E c \in Client : Connect(c) \/ Leave(c) \/ \E n \in Node : Accept(c, n)
       \/ Quit \/ Exit \/ Joined
       \/ \E t \in Thread : \/ Wait(t) \/ SpuriousWakeup(t) \/ Get(t)
                            \/ Serve(t) \/ Broken(t) \/ Cancelled(t)

FactorySpec == FactoryInit /\ [][FactoryNext]_factoryVars
-----------------------------------------------------------------------------
Listed == LET at[i \in 1..que.size] == IF i = 1 THEN que.head ELSE que.pnext[at[i - 1]]
          IN  {at[i] : i \in 1..que.size}

\* A connection that main has taken is one node's, and that node is in the queue or one
\* thread's, for as long as the list is sound; which it always is with zeroed nodes.
TakenOnce ==
    /\ version.zeroed => Sound
    /\ Sound => \A c \in Client : client[c] = "taken" =>
         \E n \in Node : /\ \A m \in Node : fd[m] = c <=> m = n
                         /\ Cardinality({t \in Thread : pcur[t] = n})
                            = IF n \in Listed THEN 0 ELSE 1

\* A thread that ends leaves the mutex free: main can join the others.
MutexIsLeft == main = "join" => mutex = NULL

\* A connection in the queue has somebody who is awake or about to look.
QueueIsSeen == main = "wait" /\ Sound /\ que.size > 0 =>
    \E t \in Thread : pc[t] \in {"lock", "woken", "serve"}
====
