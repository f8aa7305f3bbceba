---- MODULE PoolProofs ----
(***************************************************************************)
(* The pools, for any number of workers, children, clients and nodes.      *)
(*                                                                         *)
(* The thread pool: its linked list is a FIFO of the tasks nobody has      *)
(* taken, every node has one owner, no wake-up is lost, and it implements  *)
(* TaskPool.  The pool of processes: a child that passes for free is free, *)
(* a connection is one child's, the server ends in order.  The earlier     *)
(* pools of threads: a connection is one node's, and the node is in the    *)
(* queue or one thread's.  How all of them send files: a client gets the   *)
(* whole file, for any sizes and in whichever pieces the bytes come.       *)
(***************************************************************************)
EXTENDS ThreadPool, FiniteSetTheorems, FunctionTheorems, SequenceTheorems, WellFoundedInduction,
        TLAPS

\* The earlier servers, a behaviour of each with variables of its own; those of the pool of
\* threads that are called like this one's go by the same names.
CONSTANTS Child, Client
VARIABLES version, client, gone, main, batch, busy, down, up, child, task, sigint, fd, quit, cancel

Processes == INSTANCE ProcessPool
Threads == INSTANCE FactoryPool WITH Thread <- Worker

\* The sizes of sets are the same in each.
LEMMA PoolFinite == ASSUME NEW S PROVE Processes!IsFiniteSet(S) <=> IsFiniteSet(S)
BY DEF Processes!IsFiniteSet, IsFiniteSet

LEMMA PoolSize == ASSUME NEW S PROVE Processes!Cardinality(S) = Cardinality(S)
BY DEF Processes!Cardinality, Cardinality

LEMMA FactorySize == ASSUME NEW S PROVE Threads!Cardinality(S) = Cardinality(S)
BY DEF Threads!Cardinality, Cardinality

-----------------------------------------------------------------------------
\* What queue_set and queue_get do to the sequence a list stands for.

\* An empty queue, the state after queue_init's bzero, stands for no tasks.
LEMMA InitRepresents == QueueInit \in Queue /\ Represents(QueueInit, <<>>)
BY NullAssumption DEF QueueInit, Queue, Pointer, Represents

\* queue_set appends: a node that is not queued and whose link is null becomes
\* the last element.
LEMMA SetAppends ==
    ASSUME NEW q \in Queue, NEW s \in Seq(Node), NEW n \in Node,
           Represents(q, s),
           \A i \in 1..Len(s) : s[i] # n,
           q.pnext[n] = NULL
    PROVE  /\ QueueSet(q, n) \in Queue
           /\ Represents(QueueSet(q, n), Append(s, n))
<1> DEFINE r == QueueSet(q, n)
           t == Append(s, n)
<1>1. r \in Queue
  <2>1. /\ q.head \in Pointer /\ q.tail \in Pointer /\ q.size \in Nat
        /\ q.pnext \in [Node -> Pointer]
    BY DEF Queue
  <2>2. [q.pnext EXCEPT ![q.tail] = n] \in [Node -> Pointer]
    BY <2>1 DEF Pointer
  <2>3. /\ (IF q.head = NULL THEN n ELSE q.head) \in Pointer
        /\ n \in Pointer /\ q.size + 1 \in Nat
    BY <2>1 DEF Pointer
  <2> QED BY <2>1, <2>2, <2>3 DEF QueueSet, Queue
<1>2. CASE s = <<>>
  <2>1. q.head = NULL /\ q.size = 0
    BY <1>2 DEF Represents
  <2>2. r.head = n /\ r.tail = n /\ r.size = 1 /\ r.pnext = q.pnext
    BY <2>1 DEF QueueSet
  <2>3. t = <<n>>
    BY <1>2
  <2> QED
    BY <1>1, <2>2, <2>3 DEF Represents
<1>3. CASE s # <<>>
  <2>1. Len(s) \in Nat \ {0} /\ t \in Seq(Node) /\ Len(t) = Len(s) + 1
    BY <1>3
  <2>2. \A i \in 1..Len(s) : t[i] = s[i] /\ s[i] \in Node
    BY <2>1
  <2>3. t[Len(t)] = n /\ t # <<>>
    BY <2>1
  <2>4. q.head = s[1] /\ q.tail = s[Len(s)] /\ q.size = Len(s) /\ q.head # NULL
    BY <1>3, <2>1, <2>2, NullAssumption DEF Represents
  <2>5. /\ r.head = s[1] /\ r.tail = n /\ r.size = Len(s) + 1
        /\ r.pnext = [q.pnext EXCEPT ![s[Len(s)]] = n]
    BY <2>4 DEF QueueSet
  <2>6. q.pnext \in [Node -> Pointer]
    BY DEF Queue
  <2>7. ASSUME NEW i \in 1..Len(t), NEW j \in 1..Len(t), t[i] = t[j]
        PROVE  i = j
    <3>1. \A a, b \in 1..Len(s) : s[a] = s[b] => a = b
      BY DEF Represents
    <3> QED
      BY <2>1, <2>2, <2>3, <2>7, <3>1
  <2>8. ASSUME NEW i \in 1..(Len(t) - 1)
        PROVE  r.pnext[t[i]] = t[i + 1]
    <3>1. CASE i = Len(s)
      BY <2>1, <2>2, <2>3, <2>5, <2>6, <3>1
    <3>2. CASE i # Len(s)
      <4>1. i \in 1..(Len(s) - 1) /\ i + 1 \in 1..Len(s)
        BY <2>1, <3>2
      <4>2. s[i] # s[Len(s)] /\ q.pnext[s[i]] = s[i + 1]
        BY <1>3, <2>1, <4>1 DEF Represents
      <4> QED
        BY <2>2, <2>5, <2>6, <4>1, <4>2
    <3> QED BY <3>1, <3>2
  <2>9. r.pnext[n] = NULL
    <3>1. s[Len(s)] # n
      BY <2>1
    <3> QED
      BY <2>5, <2>6, <3>1
  <2> QED
    BY <1>1, <2>1, <2>2, <2>3, <2>5, <2>7, <2>8, <2>9 DEF Represents
<1> QED BY <1>2, <1>3

\* queue_get removes the first element and hands it to the caller; on an empty
\* queue it changes nothing.
LEMMA GetRemoves ==
    ASSUME NEW q \in Queue, NEW s \in Seq(Node), Represents(q, s), s # <<>>
    PROVE  /\ QueueGet(q) \in Queue
           /\ Represents(QueueGet(q), Tail(s))
           /\ q.head = s[1] /\ q.head \in Node /\ q.size > 0
           /\ QueueGet(q).size = q.size - 1
<1> DEFINE r == QueueGet(q)
           t == Tail(s)
           k == Len(s)
<1>1. k \in Nat \ {0} /\ t \in Seq(Node) /\ Len(t) = k - 1
  OBVIOUS
<1>2. \A i \in 1..(k - 1) : t[i] = s[i + 1]
  OBVIOUS
<1>3. /\ q.head = s[1] /\ q.tail = s[k] /\ q.size = k
      /\ \A i \in 1..(k - 1) : q.pnext[s[i]] = s[i + 1]
      /\ q.pnext[s[k]] = NULL
      /\ \A i, j \in 1..k : s[i] = s[j] => i = j
  BY <1>1 DEF Represents
<1>4. \A i \in 1..k : s[i] \in Node /\ s[i] # NULL
  BY <1>1, NullAssumption
<1>5. q.size # 0 /\ q.head \in Node /\ q.size > 0
  BY <1>1, <1>3, <1>4
<1>6. /\ r.head = q.pnext[s[1]]
      /\ r.tail = IF q.pnext[s[1]] = NULL THEN NULL ELSE q.tail
      /\ r.size = k - 1
      /\ r.pnext = q.pnext
  BY <1>3, <1>5 DEF QueueGet, Queue
<1>7. r \in Queue
  <2>1. r = [head |-> r.head, tail |-> r.tail, size |-> r.size, pnext |-> r.pnext]
    BY <1>5 DEF QueueGet, Queue
  <2>2. q.pnext \in [Node -> Pointer] /\ q.tail \in Pointer
    BY DEF Queue
  <2>3. r.head \in Pointer /\ r.tail \in Pointer /\ r.size \in Nat
    BY <1>1, <1>4, <1>6, <2>2 DEF Pointer
  <2> QED BY <1>6, <2>1, <2>2, <2>3 DEF Queue
<1>8. CASE k = 1
  <2>1. t = <<>>
    <3>1. Len(t) = 0
      BY <1>1, <1>8
    <3> HIDE DEF t
    <3> QED BY <1>1, <3>1
  <2>2. r.head = NULL /\ r.tail = NULL /\ r.size = 0
    BY <1>3, <1>6, <1>8
  <2> QED BY <1>3, <1>5, <1>6, <1>7, <2>1, <2>2 DEF Represents
<1>9. CASE k # 1
  <2>1. k - 1 \in Nat \ {0} /\ t # <<>>
    <3>1. k - 1 \in Nat \ {0} /\ Len(t) # 0
      BY <1>1, <1>9
    <3>2. Len(<<>>) = 0
      OBVIOUS
    <3> HIDE DEF t
    <3> QED BY <3>1, <3>2
  <2>2. r.head = t[1]
    BY <1>2, <1>3, <1>6, <2>1
  <2>3. r.tail = t[Len(t)]
    <3>1. q.pnext[s[1]] = s[2] /\ s[2] # NULL
      BY <1>3, <1>4, <2>1
    <3> QED BY <1>1, <1>2, <1>3, <1>6, <2>1, <3>1
  <2>4. \A i \in 1..(Len(t) - 1) : r.pnext[t[i]] = t[i + 1]
    BY <1>1, <1>2, <1>3, <1>6
  <2>5. r.pnext[t[Len(t)]] = NULL
    BY <1>1, <1>2, <1>3, <1>6, <2>1
  <2>6. \A i, j \in 1..Len(t) : t[i] = t[j] => i = j
    <3> SUFFICES ASSUME NEW i \in 1..Len(t), NEW j \in 1..Len(t), t[i] = t[j]
                 PROVE  i = j
      OBVIOUS
    <3>1. i + 1 \in 1..k /\ j + 1 \in 1..k /\ s[i + 1] = s[j + 1]
      BY <1>1, <1>2
    <3> QED BY <1>3, <3>1
  <2> QED
    BY <1>1, <1>3, <1>5, <1>6, <1>7, <2>1, <2>2, <2>3, <2>4, <2>5, <2>6 DEF Represents
<1> QED BY <1>1, <1>8, <1>9

LEMMA GetOnEmpty ==
    ASSUME NEW q \in Queue, Represents(q, <<>>)
    PROVE  QueueGet(q) = q /\ q.size = 0
BY DEF Represents, QueueGet

-----------------------------------------------------------------------------

\* The mutex is held exactly between a lock and the matching unlock.
Mutex ==
    /\ \A w \in Worker : mutex = w <=> pc[w] \in {"check", "get", "unlock"}
    /\ mutex = Main <=> mpc \in {"set", "unlock"}

\* pnew and pcur are set exactly while the thread works on the node.
Pointers ==
    /\ pnew # NULL <=> mpc \in {"lock", "set"}
    /\ pnew # NULL => que.pnext[pnew] = NULL
    /\ \A w \in Worker : pcur[w] # NULL => pc[w] \in {"unlock", "task"}
    /\ \A w \in Worker : pc[w] = "task" => pcur[w] # NULL

Inv == TypeOK /\ Mutex /\ Pointers /\ ListMatchesFifo /\ OneOwner

LEMMA InitInv == Init => Inv
<1> SUFFICES ASSUME Init PROVE Inv
  OBVIOUS
<1>1. que \in Queue /\ Represents(que, fifo)
  BY InitRepresents DEF Init
<1>2. TypeOK
  BY <1>1 DEF Init, TypeOK, WorkerPC, MainPC, Pointer
<1>3. Mutex /\ Pointers
  BY ThreadAssumption DEF Init, Mutex, Pointers
<1>4. OneOwner
  BY NullAssumption DEF Init, OneOwner, Queued
<1> QED BY <1>1, <1>2, <1>3, <1>4 DEF Inv, ListMatchesFifo

\* Appending adds the node to the set of queued nodes.
LEMMA QueuedAppend ==
    ASSUME NEW s \in Seq(Node), NEW n \in Node
    PROVE  {Append(s, n)[i] : i \in 1..Len(Append(s, n))}
                = {s[i] : i \in 1..Len(s)} \cup {n}
<1>1. Len(Append(s, n)) = Len(s) + 1 /\ Len(s) \in Nat
  OBVIOUS
<1>2. \A i \in 1..Len(s) : Append(s, n)[i] = s[i]
  OBVIOUS
<1>3. Append(s, n)[Len(s) + 1] = n
  OBVIOUS
<1> QED BY <1>1, <1>2, <1>3

\* Taking the head of a sequence of distinct nodes removes exactly the head.
LEMMA QueuedTail ==
    ASSUME NEW s \in Seq(Node), s # <<>>,
           \A i, j \in 1..Len(s) : s[i] = s[j] => i = j
    PROVE  {Tail(s)[i] : i \in 1..Len(Tail(s))} = {s[i] : i \in 1..Len(s)} \ {s[1]}
<1>1. Len(Tail(s)) = Len(s) - 1 /\ Len(s) \in Nat \ {0}
  OBVIOUS
<1>2. \A i \in 1..(Len(s) - 1) : Tail(s)[i] = s[i + 1]
  OBVIOUS
<1>3. \A i \in 1..Len(s) : i # 1 => s[i] = Tail(s)[i - 1] /\ i - 1 \in 1..(Len(s) - 1)
  BY <1>1, <1>2
<1> QED BY <1>1, <1>2, <1>3

LEMMA NewTaskInv == ASSUME Inv, NEW n \in Node, NewTask(n) PROVE Inv'
<1> USE DEF Inv
<1>1. que.pnext \in [Node -> Pointer] /\ pnew = NULL
  BY DEF TypeOK, Queue, NewTask, Pointers
<1>2. /\ que'.head = que.head /\ que'.tail = que.tail /\ que'.size = que.size
      /\ que'.pnext = [que.pnext EXCEPT ![n] = NULL]
  BY DEF NewTask, TypeOK, Queue
<1>3. que' \in Queue
  BY <1>1, <1>2 DEF NewTask, TypeOK, Queue, Pointer
<1>4. TypeOK'
  BY <1>3 DEF NewTask, TypeOK, MainPC, Pointer
<1>5. Mutex' /\ Pointers'
  BY <1>1, <1>2, NullAssumption, ThreadAssumption
     DEF NewTask, Mutex, Pointers, TypeOK, MainPC
<1>6. n \notin Queued
  BY DEF NewTask, OneOwner
<1>7. ListMatchesFifo'
  <2>1. \A i \in 1..Len(fifo) : que'.pnext[fifo[i]] = que.pnext[fifo[i]]
    BY <1>1, <1>2, <1>6 DEF Queued, TypeOK
  <2> QED
    BY <1>2, <2>1 DEF ListMatchesFifo, Represents, NewTask, TypeOK
<1>8. OneOwner'
  <2>1. Queued' = Queued
    BY DEF NewTask, Queued
  <2> QED BY <1>1, <1>6, <2>1 DEF OneOwner, NewTask, TypeOK
<1> QED BY <1>4, <1>5, <1>7, <1>8

LEMMA MainSetInv == ASSUME Inv, MainSet PROVE Inv'
<1> USE DEF Inv
<1>1. pnew \in Node /\ que.pnext[pnew] = NULL
  BY DEF MainSet, Pointers, TypeOK, Pointer
<1>2. pnew \notin Queued /\ \A i \in 1..Len(fifo) : fifo[i] # pnew
  BY DEF OneOwner, Queued
<1>3. que' \in Queue /\ Represents(que', fifo')
  BY <1>1, <1>2, SetAppends DEF MainSet, TypeOK, ListMatchesFifo
<1>4. TypeOK'
  BY <1>1, <1>3 DEF MainSet, TypeOK, MainPC, Pointer
<1>5. Mutex' /\ Pointers'
  BY DEF MainSet, Mutex, Pointers
<1>6. OneOwner'
  <2>1. Queued' = Queued \cup {pnew}
    BY <1>1, QueuedAppend DEF MainSet, Queued, TypeOK
  <2>2. \A w \in Worker : pcur[w] # NULL => pcur[w] \notin heap \cup Queued \cup {pnew}
    BY DEF OneOwner
  <2>3. NULL \notin heap \cup Queued \cup {pnew}
    BY <1>1, NullAssumption DEF TypeOK, Queued
  <2> QED BY <2>1, <2>2, <2>3 DEF OneOwner, MainSet, TypeOK
<1> QED BY <1>3, <1>4, <1>5, <1>6 DEF ListMatchesFifo

LEMMA GetInv == ASSUME Inv, NEW w \in Worker, Get(w) PROVE Inv'
<1> USE DEF Inv
<1>1. pcur[w] = NULL
  BY DEF Get, Pointers
<1>2. Mutex'
  BY DEF Get, Mutex, TypeOK
<1>3. CASE fifo = <<>>
  <2>1. que' = que /\ que.size = 0 /\ fifo' = fifo
    BY <1>3, GetOnEmpty DEF Get, TypeOK, ListMatchesFifo
  <2>2. pcur' = pcur
    BY <1>1, <2>1 DEF Get, TypeOK, Taken
  <2>3. TypeOK'
    BY <2>1, <2>2 DEF Get, TypeOK, WorkerPC
  <2>4. Pointers' /\ ListMatchesFifo'
    BY <1>1, <2>1, <2>2 DEF Get, Pointers, ListMatchesFifo, TypeOK
  <2>5. OneOwner'
    BY <2>1, <2>2 DEF Get, OneOwner, Queued
  <2> QED BY <1>2, <2>3, <2>4, <2>5
<1>4. CASE fifo # <<>>
  <2>1. /\ que' \in Queue /\ Represents(que', Tail(fifo))
        /\ que.head = fifo[1] /\ que.head \in Node /\ que.size > 0
    BY <1>4, GetRemoves DEF Get, TypeOK, ListMatchesFifo
  <2>2. fifo' = Tail(fifo) /\ pcur' = [pcur EXCEPT ![w] = fifo[1]]
    <3>1. que.size # 0
      BY <2>1
    <3>2. Taken(que, pcur[w]) = fifo[1]
      BY <2>1, <3>1 DEF Taken
    <3> QED BY <1>4, <3>2 DEF Get
  <2>3. que'.pnext = que.pnext
    BY DEF Get, QueueGet, TypeOK, Queue
  <2>4. TypeOK'
    BY <1>4, <2>1, <2>2 DEF Get, TypeOK, WorkerPC, Pointer
  <2>5. Pointers'
    BY <2>1, <2>2, <2>3 DEF Get, Pointers, TypeOK
  <2>6. Queued' = Queued \ {fifo[1]} /\ fifo[1] \in Queued
    <3>1. \A i, j \in 1..Len(fifo) : fifo[i] = fifo[j] => i = j
      BY DEF ListMatchesFifo, Represents
    <3>2. fifo \in Seq(Node) /\ Len(fifo) \in Nat \ {0}
      BY <1>4 DEF TypeOK
    <3>3. Queued' = {Tail(fifo)[i] : i \in 1..Len(Tail(fifo))}
      BY <2>2 DEF Queued
    <3>4. Queued' = Queued \ {fifo[1]}
      BY <1>4, <3>1, <3>2, <3>3, QueuedTail DEF Queued
    <3>5. 1 \in 1..Len(fifo)
      BY <3>2
    <3>6. fifo[1] \in Queued
      BY <3>5 DEF Queued
    <3> QED BY <3>4, <3>6
  <2>7. OneOwner'
    <3>1. heap' = heap /\ pnew' = pnew /\ fifo[1] # pnew /\ fifo[1] \notin heap
      BY <2>6 DEF Get, OneOwner
    <3>2. \A v \in Worker : pcur'[v] = IF v = w THEN fifo[1] ELSE pcur[v]
      BY <2>2 DEF TypeOK
    <3>3. \A v \in Worker : pcur[v] # NULL => pcur[v] # fifo[1]
      BY <2>6 DEF OneOwner
    <3> QED BY <1>1, <2>6, <3>1, <3>2, <3>3 DEF OneOwner
  <2> QED BY <1>2, <2>1, <2>2, <2>4, <2>5, <2>7 DEF ListMatchesFifo
<1> QED BY <1>3, <1>4

LEMMA FinishTaskInv == ASSUME Inv, NEW w \in Worker, FinishTask(w) PROVE Inv'
<1> USE DEF Inv
<1>1. pcur[w] \in Node
  BY DEF FinishTask, Pointers, TypeOK, Pointer
<1>2. TypeOK'
  BY <1>1 DEF FinishTask, TypeOK, WorkerPC, Pointer
<1>3. Mutex'
  BY DEF FinishTask, Mutex, TypeOK
<1>4. Pointers'
  BY DEF FinishTask, Pointers, TypeOK
<1>5. ListMatchesFifo'
  BY DEF FinishTask, ListMatchesFifo
<1>6. OneOwner'
  <2>1. Queued' = Queued /\ pnew' = pnew
    BY DEF FinishTask, Queued
  <2>2. \A v \in Worker : pcur'[v] = IF v = w THEN NULL ELSE pcur[v]
    BY DEF FinishTask, TypeOK
  <2>3. pcur[w] # NULL
    BY <1>1, NullAssumption
  <2>4. heap' = heap \cup {pcur[w]}
    BY DEF FinishTask
  <2> QED BY <2>1, <2>2, <2>3, <2>4 DEF OneOwner
<1> QED BY <1>2, <1>3, <1>4, <1>5, <1>6

\* The steps that move only the mutex and the program counters.
LEMMA ControlStepInv ==
    ASSUME Inv,
           \/ MainLock \/ MainUnlock \/ MainSignal
           \/ \E w \in Worker : \/ Lock(w) \/ CondWait(w) \/ SkipWait(w)
                                \/ SpuriousWakeup(w) \/ Relock(w) \/ Unlock(w)
    PROVE  Inv'
<1> USE DEF Inv
<1>1. UNCHANGED <<que, pcur, pnew, heap, fifo>>
  BY DEF MainLock, MainUnlock, MainSignal, Lock, CondWait, SkipWait,
         SpuriousWakeup, Relock, Unlock
<1>2. ListMatchesFifo' /\ OneOwner'
  BY <1>1 DEF ListMatchesFifo, OneOwner, Queued
<1>3. TypeOK' /\ Mutex' /\ Pointers'
  <2>1. CASE MainLock
    BY <2>1, ThreadAssumption DEF MainLock, TypeOK, Mutex, Pointers, MainPC
  <2>2. CASE MainUnlock
    BY <2>2, ThreadAssumption DEF MainUnlock, TypeOK, Mutex, Pointers, MainPC
  <2>3. CASE MainSignal
    <3>1. CASE Waiting = {}
      BY <2>3, <3>1 DEF MainSignal, TypeOK, Mutex, Pointers, MainPC
    <3>2. CASE Waiting # {}
      <4>1. PICK w \in Waiting : pc' = [pc EXCEPT ![w] = "relock"]
        BY <2>3, <3>2 DEF MainSignal
      <4> QED
        BY <2>3, <4>1 DEF MainSignal, TypeOK, Mutex, Pointers, MainPC, Waiting, WorkerPC
    <3> QED BY <3>1, <3>2
  <2>4. ASSUME NEW w \in Worker, Lock(w) PROVE TypeOK' /\ Mutex' /\ Pointers'
    BY <2>4, ThreadAssumption DEF Lock, TypeOK, Mutex, Pointers, WorkerPC
  <2>5. ASSUME NEW w \in Worker, CondWait(w) PROVE TypeOK' /\ Mutex' /\ Pointers'
    BY <2>5, ThreadAssumption DEF CondWait, TypeOK, Mutex, Pointers, WorkerPC
  <2>6. ASSUME NEW w \in Worker, SkipWait(w) PROVE TypeOK' /\ Mutex' /\ Pointers'
    BY <2>6 DEF SkipWait, TypeOK, Mutex, Pointers, WorkerPC
  <2>7. ASSUME NEW w \in Worker, SpuriousWakeup(w) PROVE TypeOK' /\ Mutex' /\ Pointers'
    BY <2>7 DEF SpuriousWakeup, TypeOK, Mutex, Pointers, WorkerPC
  <2>8. ASSUME NEW w \in Worker, Relock(w) PROVE TypeOK' /\ Mutex' /\ Pointers'
    BY <2>8, ThreadAssumption DEF Relock, TypeOK, Mutex, Pointers, WorkerPC
  <2>9. ASSUME NEW w \in Worker, Unlock(w) PROVE TypeOK' /\ Mutex' /\ Pointers'
    BY <2>9, ThreadAssumption DEF Unlock, TypeOK, Mutex, Pointers, WorkerPC
  <2> QED BY <2>1, <2>2, <2>3, <2>4, <2>5, <2>6, <2>7, <2>8, <2>9
<1> QED BY <1>2, <1>3

LEMMA NextInv == Inv /\ [Next]_vars => Inv'
<1> SUFFICES ASSUME Inv, [Next]_vars PROVE Inv'
  OBVIOUS
<1>1. CASE UNCHANGED vars
  BY <1>1 DEF vars, Inv, TypeOK, Mutex, Pointers, ListMatchesFifo, OneOwner, Queued
<1>2. CASE \E n \in Node : NewTask(n)
  BY <1>2, NewTaskInv
<1>3. CASE MainStep
  BY <1>3, MainSetInv, ControlStepInv DEF MainStep
<1>4. CASE \E w \in Worker : WorkerStep(w) \/ SpuriousWakeup(w) \/ FinishTask(w)
  BY <1>4, GetInv, FinishTaskInv, ControlStepInv DEF WorkerStep
<1> QED BY <1>1, <1>2, <1>3, <1>4 DEF Next

\* Where every thread of the pool stands to the mutex, the list and the nodes.
THEOREM Invariance == Spec => []Inv
BY InitInv, NextInv, PTL DEF Spec

\* The queue's pointers always spell out the tasks enqueued and not yet taken.
THEOREM ListIsFifo == Spec => []ListMatchesFifo
<1>1. Inv => ListMatchesFifo
  BY DEF Inv
<1> QED BY <1>1, Invariance, PTL

\* No node is handed out, queued, run or freed while something else owns it.
THEOREM Ownership == Spec => [](TypeOK /\ OneOwner)
<1>1. Inv => TypeOK /\ OneOwner
  BY DEF Inv
<1> QED BY <1>1, Invariance, PTL

-----------------------------------------------------------------------------
\* The wake-up argument.  Looking loses a member only when a worker blocks on
\* an empty queue or takes a node; a new node comes with SignalDue = 1; paying
\* the signal moves a sleeper into Looking.

LEMMA LookingFinite == IsFiniteSet(Looking) /\ Cardinality(Looking) \in Nat
<1>1. Looking \subseteq Worker
  BY DEF Looking
<1> QED BY <1>1, WorkerAssumption, FS_Subset, FS_CardinalityType

\* A step that shrinks neither Looking nor SignalDue and does not lengthen the
\* queue or put a worker to sleep preserves the bound.
LEMMA LookingMonotone ==
    ASSUME Inv, Inv', NoLostWakeup,
           Waiting' \subseteq Waiting, Looking \subseteq Looking',
           que'.size <= que.size, SignalDue <= SignalDue'
    PROVE  NoLostWakeup'
<1>1. IsFiniteSet(Looking')
  <2>1. Looking' \subseteq Worker
    BY DEF Looking
  <2> QED BY <2>1, WorkerAssumption, FS_Subset
<1>2. /\ Cardinality(Looking) <= Cardinality(Looking')
      /\ Cardinality(Looking) \in Nat /\ Cardinality(Looking') \in Nat
  BY <1>1, LookingFinite, FS_Subset, FS_CardinalityType
<1>3. que.size \in Nat /\ que'.size \in Nat
  BY DEF Inv, TypeOK, Queue
<1>4. SignalDue \in {0, 1} /\ SignalDue' \in {0, 1}
  BY DEF SignalDue
<1> QED BY <1>2, <1>3, <1>4 DEF NoLostWakeup

LEMMA NoLostWakeupStep == Inv /\ Inv' /\ NoLostWakeup /\ [Next]_vars => NoLostWakeup'
<1> SUFFICES ASSUME Inv, Inv', NoLostWakeup, [Next]_vars PROVE NoLostWakeup'
  OBVIOUS
<1>0. /\ pc \in [Worker -> WorkerPC] /\ pcur \in [Worker -> Pointer]
      /\ que.size \in Nat /\ que'.size \in Nat
  BY DEF Inv, TypeOK, Queue
<1>1. CASE UNCHANGED vars
  BY <1>1 DEF vars, NoLostWakeup, Waiting, Looking, SignalDue
<1>2. ASSUME NEW n \in Node, NewTask(n) PROVE NoLostWakeup'
  <2>1. UNCHANGED <<Waiting, Looking, SignalDue>> /\ que'.size = que.size
    BY <1>2 DEF NewTask, Waiting, Looking, SignalDue, Inv, TypeOK, Queue
  <2> QED BY <2>1 DEF NoLostWakeup
<1>3. CASE MainLock
  BY <1>3 DEF MainLock, NoLostWakeup, Waiting, Looking, SignalDue
<1>4. CASE MainSet
  <2>1. UNCHANGED <<Waiting, Looking>> /\ SignalDue = 0 /\ SignalDue' = 1
    BY <1>4 DEF MainSet, Waiting, Looking, SignalDue
  <2>2. que'.size = que.size + 1
    BY <1>4 DEF MainSet, QueueSet
  <2> QED BY <1>0, <2>1, <2>2, LookingFinite DEF NoLostWakeup
<1>5. CASE MainUnlock
  BY <1>5 DEF MainUnlock, NoLostWakeup, Waiting, Looking, SignalDue
<1>6. CASE MainSignal
  <2>1. CASE Waiting = {}
    BY <1>6, <2>1 DEF MainSignal, NoLostWakeup, Waiting
  <2>2. CASE Waiting # {}
    <3>1. PICK w \in Waiting : pc' = [pc EXCEPT ![w] = "relock"]
      BY <1>6, <2>2 DEF MainSignal
    <3>2. w \notin Looking /\ Looking' = Looking \cup {w}
      BY <1>0, <1>6, <3>1 DEF MainSignal, Looking, Waiting
    <3>3. Cardinality(Looking') = Cardinality(Looking) + 1
      BY <3>2, LookingFinite, FS_AddElement
    <3>4. SignalDue = 1 /\ SignalDue' = 0 /\ que' = que
      BY <1>6 DEF MainSignal, SignalDue
    <3> QED BY <1>0, <2>2, <3>3, <3>4, LookingFinite DEF NoLostWakeup
  <2> QED BY <2>1, <2>2
<1>7. ASSUME NEW w \in Worker, CondWait(w) PROVE NoLostWakeup'
  <2>1. que'.size = 0
    BY <1>7 DEF CondWait
  <2>2. Cardinality(Looking') \in Nat /\ SignalDue' \in {0, 1}
    <3>1. Looking' \subseteq Worker
      BY DEF Looking
    <3> QED BY <3>1, WorkerAssumption, FS_Subset, FS_CardinalityType DEF SignalDue
  <2> QED BY <2>1, <2>2 DEF NoLostWakeup
<1>8. ASSUME NEW w \in Worker, Get(w) PROVE NoLostWakeup'
  <2>1. UNCHANGED <<Waiting, SignalDue>>
    BY <1>0, <1>8 DEF Get, Waiting, SignalDue
  <2>2. CASE que.size = 0
    <3>1. que' = que /\ pcur' = pcur
      BY <1>0, <1>8, <2>2 DEF Get, QueueGet, Taken
    <3>2. pcur[w] = NULL
      BY <1>8 DEF Inv, Pointers, Get
    <3>3. Looking' = Looking
      BY <1>0, <1>8, <3>1, <3>2 DEF Get, Looking
    <3> QED BY <2>1, <3>1, <3>3 DEF NoLostWakeup
  <2>3. CASE que.size # 0
    <3>1. fifo # <<>>
      BY <2>3 DEF Inv, ListMatchesFifo, Represents
    <3>2. que.head # NULL /\ que'.size = que.size - 1
      BY <1>8, <3>1, GetRemoves, NullAssumption DEF Get, Inv, TypeOK, ListMatchesFifo
    <3>3. w \in Looking /\ Looking' = Looking \ {w}
      BY <1>0, <1>8, <2>3, <3>2 DEF Get, Looking, Taken
    <3>4. Cardinality(Looking') = Cardinality(Looking) - 1
      BY <3>3, LookingFinite, FS_RemoveElement
    <3>5. SignalDue \in {0, 1}
      BY DEF SignalDue
    <3> QED BY <1>0, <2>1, <3>2, <3>4, <3>5, LookingFinite DEF NoLostWakeup
  <2> QED BY <2>2, <2>3
<1>9. ASSUME NEW w \in Worker,
             Lock(w) \/ SkipWait(w) \/ SpuriousWakeup(w) \/ Relock(w)
                \/ Unlock(w) \/ FinishTask(w)
      PROVE  NoLostWakeup'
  <2>1. que' = que /\ SignalDue' = SignalDue
    BY <1>9 DEF Lock, SkipWait, SpuriousWakeup, Relock, Unlock, FinishTask, SignalDue
  <2>2. Waiting' \subseteq Waiting
    BY <1>0, <1>9 DEF Lock, SkipWait, SpuriousWakeup, Relock, Unlock, FinishTask, Waiting
  <2>3. Looking \subseteq Looking'
    BY <1>0, <1>9 DEF Lock, SkipWait, SpuriousWakeup, Relock, Unlock, FinishTask, Looking
  <2>4. que'.size <= que.size /\ SignalDue <= SignalDue'
    BY <1>0, <2>1 DEF SignalDue
  <2> QED BY <2>2, <2>3, <2>4, LookingMonotone
<1> QED
  BY <1>1, <1>2, <1>3, <1>4, <1>5, <1>6, <1>7, <1>8, <1>9
     DEF Next, MainStep, WorkerStep

\* No wake-up is lost: a worker never sleeps while a queued task has neither a
\* worker about to look at the queue nor a signal on the way.
THEOREM WakeupsSuffice == Spec => []NoLostWakeup
<1>1. Init => NoLostWakeup
  BY DEF Init, NoLostWakeup, Waiting
<1>2. Inv /\ Inv' /\ NoLostWakeup /\ [Next]_vars => NoLostWakeup'
  BY NoLostWakeupStep
<1> QED BY <1>1, <1>2, Invariance, PTL DEF Spec

-----------------------------------------------------------------------------
\* The linked list under its mutex implements the abstract pool: enqueueing is
\* Submit, a successful queue_get is Take, freeing the node is Finish, and
\* every other step of the threads is invisible.
THEOREM Implements == Spec => PoolSpec
<1>1. Init => Pool!Init
  BY DEF Init, Pool!Init
<1>2. Inv /\ [Next]_vars => [Pool!Next]_(Pool!vars)
  <2> SUFFICES ASSUME Inv, [Next]_vars PROVE [Pool!Next]_(Pool!vars)
    OBVIOUS
  <2> USE DEF Pool!vars
  <2>1. CASE UNCHANGED <<fifo, pcur>>
    BY <2>1
  <2>2. CASE MainSet
    <3>1. pnew \in Node /\ pnew # NULL
      BY <2>2, NullAssumption DEF MainSet, Inv, Pointers, TypeOK, Pointer
    <3>2. fifo \in Seq(Node) /\ DOMAIN fifo = 1..Len(fifo)
      BY DEF Inv, TypeOK
    <3>3. pnew \notin Pool!InLine
      BY <3>2 DEF Inv, OneOwner, Queued, Pool!InLine
    <3>4. \A w \in Worker : pcur[w] # pnew
      BY <3>1 DEF Inv, OneOwner
    <3>5. fifo' = Append(fifo, pnew) /\ pcur' = pcur
      BY <2>2 DEF MainSet
    <3>6. Pool!Submit(pnew)
      BY <3>3, <3>4, <3>5 DEF Pool!Submit
    <3> QED BY <3>1, <3>6 DEF Pool!Next
  <2>3. ASSUME NEW w \in Worker, Get(w) PROVE [Pool!Next]_(Pool!vars)
    <3>1. CASE fifo = <<>>
      <4>1. que.size = 0
        BY <3>1 DEF Inv, ListMatchesFifo, Represents
      <4> QED BY <2>3, <3>1, <4>1 DEF Get, Taken, Inv, TypeOK
    <3>2. CASE fifo # <<>>
      <4>1. que.head = Head(fifo) /\ que.size # 0
        BY <3>2, GetRemoves DEF Inv, TypeOK, ListMatchesFifo
      <4>2. pcur[w] = NULL
        BY <2>3 DEF Get, Inv, Pointers
      <4>3. fifo' = Tail(fifo) /\ pcur' = [pcur EXCEPT ![w] = Head(fifo)]
        BY <2>3, <3>2, <4>1 DEF Get, Taken
      <4>4. Pool!Take(w)
        BY <3>2, <4>2, <4>3 DEF Pool!Take
      <4> QED BY <4>4 DEF Pool!Next
    <3> QED BY <3>1, <3>2
  <2>4. ASSUME NEW w \in Worker, FinishTask(w) PROVE Pool!Next
    <3>1. pcur[w] # NULL
      BY <2>4 DEF FinishTask, Inv, Pointers
    <3>2. Pool!Finish(w)
      BY <2>4, <3>1 DEF FinishTask, Pool!Finish
    <3> QED BY <3>2 DEF Pool!Next
  <2> QED
    BY <2>1, <2>2, <2>3, <2>4
       DEF Next, MainStep, WorkerStep, vars, NewTask, MainLock, MainUnlock,
           MainSignal, Lock, CondWait, SkipWait, SpuriousWakeup, Relock, Unlock
<1> QED BY <1>1, <1>2, Invariance, PTL DEF Spec, PoolSpec, Pool!Spec

-----------------------------------------------------------------------------
\* The pool of processes.

Events == {<<"child", j>> : j \in Child} \cup {<<"listen">>, <<"exit">>}

PoolType ==
    /\ version \in Processes!Versions
    /\ client \in [Client -> {"away", "backlog", "open", "answered", "closed"}] /\ gone \subseteq Client
    /\ main \in {"wait", "exit", "returned", "dead"} /\ batch \in Seq(Events)
    /\ busy \in [Child -> BOOLEAN] /\ down \in [Child -> Seq(Client \cup {NULL})] /\ up \in [Child -> Nat]
    /\ child \in [Child -> {"recv", "serve", "report", "exited", "dead"}]
    /\ task \in [Child -> Client \cup {NULL}] /\ sigint \in BOOLEAN

\* No event is in a batch twice, and each is still true when its turn comes.
BatchTrue ==
    /\ \A i, k \in 1..Len(batch) : batch[i] = batch[k] => i = k
    /\ \A i \in 1..Len(batch) : batch[i] = <<"exit">> => sigint
    /\ \A i \in 1..Len(batch), j \in Child : batch[i] = <<"child", j>> => up[j] > 0 \/ child[j] = "dead"

\* How far the server is on its way out.
WayOut ==
    /\ sigint => version.exits
    /\ main \in {"exit", "returned"} => sigint
    /\ main = "returned" => \A j \in Child : child[j] \in {"exited", "dead"}
    /\ main = "dead" => Processes!Dead # {}

\* A client is on the way to the child.
Sent(j) == down[j] # <<>> /\ Head(down[j]) # NULL

\* What is on the way to a child: a client at most, and then the word to exit.
InOrder(j) == \A i \in 1..Len(down[j]) :
    \/ i = 1 /\ down[j][i] \in Client
    \/ i = Len(down[j]) /\ down[j][i] = NULL /\ main # "wait"

ChildStands(j) ==
    /\ InOrder(j) /\ up[j] <= 1
    /\ Sent(j) => task[j] = NULL /\ up[j] = 0
    /\ child[j] # "dead" => (child[j] = "serve" <=> task[j] # NULL)
    /\ child[j] \in {"serve", "report"} => up[j] = 0 /\ ~Sent(j)
    /\ child[j] = "exited" => down[j] = <<>> /\ main # "wait"
    /\ main = "wait" /\ child[j] # "dead" => (~busy[j] <=> child[j] = "recv" /\ down[j] = <<>> /\ up[j] = 0)

Holds(j, c) == task[j] = c \/ (down[j] # <<>> /\ Head(down[j]) = c)

Held == version.gets = "descriptor" /\ main # "dead" => \A c \in Client :
    /\ client[c] = "open" => \E j \in Child : Holds(j, c) /\ \A k \in Child : Holds(k, c) => k = j
    /\ client[c] # "open" => \A j \in Child : ~Holds(j, c)

ProcessInv == PoolType /\ BatchTrue /\ WayOut /\ (\A j \in Child : ChildStands(j)) /\ Held

-----------------------------------------------------------------------------
\* A set of numbers has a smallest one.
LEMMA Smallest == ASSUME NEW T, T \subseteq Nat, T # {} PROVE \E x \in T : \A y \in T : x <= y
<1> DEFINE R == OpToRel(<, Nat)
<1>1. \A x, y \in Nat : <<y, x>> \in R <=> y < x
  BY DEF OpToRel
<1>2. IsWellFoundedOn(R, Nat)
  BY NatLessThanWellFounded
<1> HIDE DEF R
<1>3. PICK x \in T : \A y \in T : ~(<<y, x>> \in R)
  BY <1>2, WFMin
<1>4. \A y \in T : y \in Nat /\ x \in Nat /\ ~(y < x)
  BY <1>1, <1>3
<1>5. \A y \in T : x <= y
  BY <1>4
<1> QED BY <1>5

LEMMA ReadyFinite ==
    Processes!PoolAssumption => /\ IsFiniteSet(Processes!Ready) /\ Cardinality(Processes!Ready) \in Nat
                                /\ Processes!Ready \subseteq Events
<1> SUFFICES ASSUME Processes!PoolAssumption
             PROVE  /\ IsFiniteSet(Processes!Ready) /\ Cardinality(Processes!Ready) \in Nat
                    /\ Processes!Ready \subseteq Events
  OBVIOUS
<1> DEFINE T == {<<"child", j>> : j \in Child}
           f == [j \in Child |-> <<"child", j>>]
<1>1. f \in Surjection(Child, T)
  BY DEF Surjection
<1>2. IsFiniteSet(T)
  <2>1. IsFiniteSet(Child)
    BY PoolFinite DEF Processes!PoolAssumption
  <2> QED BY <1>1, <2>1, FS_Surjection
<1>3. IsFiniteSet(T \cup {<<"listen">>} \cup {<<"exit">>})
  BY <1>2, FS_AddElement
<1>4. Processes!Ready \subseteq T \cup {<<"listen">>} \cup {<<"exit">>}
  BY DEF Processes!Ready, Processes!Dead
<1>5. IsFiniteSet(Processes!Ready)
  BY <1>3, <1>4, FS_Subset
<1>6. Cardinality(Processes!Ready) \in Nat
  BY <1>5, FS_CardinalityType
<1> QED BY <1>4, <1>5, <1>6 DEF Events

LEMMA Versioned == ASSUME version \in Processes!Versions
                   PROVE  /\ version.exits \in BOOLEAN /\ version.gets \in {"number", "descriptor"}
                          /\ version.exits => version.gets = "descriptor"
                          /\ version.gets = "descriptor" => version.closes
<1>1. \A m, c : /\ Processes!Version(m, c).closes = m.closes /\ Processes!Version(m, c).exits = m.exits
                /\ Processes!Version(m, c).gets = c.gets
  BY DEF Processes!Version
<1>2. Processes!main_1_0.exits = FALSE /\ Processes!child_1_0.gets = "number"
  BY DEF Processes!main_1_0, Processes!child_1_0
<1>3. \A m \in {Processes!main_2_0, Processes!main_3_0, Processes!main_4_0, Processes!main_5_0} :
          m.closes = TRUE /\ m.exits = FALSE
  BY DEF Processes!main_2_0, Processes!main_3_0, Processes!main_4_0, Processes!main_5_0
<1>4. Processes!main_revise.closes = TRUE /\ Processes!main_revise.exits = TRUE
  BY DEF Processes!main_revise
<1>5. \A c \in {Processes!child_2_0, Processes!child_3_0,
                Processes!child_4_0, Processes!child_5_0, Processes!child_revise} : c.gets = "descriptor"
  BY DEF Processes!child_2_0, Processes!child_3_0, Processes!child_4_0, Processes!child_5_0,
         Processes!child_revise
<1>6. \/ version = Processes!Version(Processes!main_1_0, Processes!child_1_0)
      \/ \E m \in {Processes!main_2_0, Processes!main_3_0, Processes!main_4_0, Processes!main_5_0},
            c \in {Processes!child_2_0, Processes!child_3_0,
                   Processes!child_4_0, Processes!child_5_0, Processes!child_revise} :
                     version = Processes!Version(m, c)
      \/ version = Processes!Version(Processes!main_revise, Processes!child_revise)
  BY DEF Processes!Versions
<1>7. CASE version = Processes!Version(Processes!main_1_0, Processes!child_1_0)
  BY <1>1, <1>2, <1>7
<1>8. CASE \E m \in {Processes!main_2_0, Processes!main_3_0, Processes!main_4_0, Processes!main_5_0},
             c \in {Processes!child_2_0, Processes!child_3_0,
                    Processes!child_4_0, Processes!child_5_0, Processes!child_revise} :
                      version = Processes!Version(m, c)
  <2>1. PICK m \in {Processes!main_2_0, Processes!main_3_0, Processes!main_4_0, Processes!main_5_0},
             c \in {Processes!child_2_0, Processes!child_3_0,
                    Processes!child_4_0, Processes!child_5_0, Processes!child_revise} :
                      version = Processes!Version(m, c)
    BY <1>8
  <2>2. version.closes = TRUE /\ version.exits = FALSE /\ version.gets = "descriptor"
    BY <1>1, <1>3, <1>5, <2>1
  <2> QED BY <2>2
<1>9. CASE version = Processes!Version(Processes!main_revise, Processes!child_revise)
  <2>1. version.closes = TRUE /\ version.exits = TRUE /\ version.gets = "descriptor"
    BY <1>1, <1>4, <1>5, <1>9
  <2> QED BY <2>1
<1> QED BY <1>6, <1>7, <1>8, <1>9

\* What stands first on the way to a child.
LEMMA First == ASSUME PoolType, NEW j \in Child, InOrder(j)
               PROVE  /\ Sent(j) => Head(down[j]) \in Client
                      /\ down[j] # <<>> => Head(down[j]) \in Client \cup {NULL}
                      /\ main = "wait" => Len(down[j]) <= 1 /\ (down[j] # <<>> => Head(down[j]) \in Client)
                      /\ Head(down[j]) = NULL /\ down[j] # <<>> /\ NULL \notin Client => Tail(down[j]) = <<>>
<1>1. down[j] \in Seq(Client \cup {NULL})
  BY DEF PoolType
<1>2. down[j] # <<>> => 1 \in 1..Len(down[j]) /\ Head(down[j]) = down[j][1]
  BY <1>1
<1>3. main = "wait" => \A i \in 1..Len(down[j]) : i = 1 /\ down[j][i] \in Client
  BY DEF InOrder
<1>4. main = "wait" => Len(down[j]) <= 1
  <2> SUFFICES ASSUME main = "wait", Len(down[j]) > 1 PROVE FALSE
    BY <1>1
  <2>1. 2 \in 1..Len(down[j])
    BY <1>1
  <2> QED BY <1>3, <2>1
<1>5. down[j] # <<>> /\ Head(down[j]) = NULL /\ NULL \notin Client => Len(down[j]) = 1
  BY <1>1, <1>2 DEF InOrder
<1>6. Len(down[j]) = 1 => Tail(down[j]) = <<>>
  <2> DEFINE s == down[j]
  <2>1. s \in Seq(Client \cup {NULL})
    BY <1>1
  <2> HIDE DEF s
  <2>2. Len(s) = 1 => Tail(s) \in Seq(Client \cup {NULL}) /\ Len(Tail(s)) = 0
    BY <2>1
  <2>3. \A q \in Seq(Client \cup {NULL}) : Len(q) = 0 => q = <<>>
    OBVIOUS
  <2>4. Len(s) = 1 => Tail(s) = <<>>
    BY <2>2, <2>3
  <2> QED BY <2>4 DEF s
<1> QED BY <1>1, <1>2, <1>3, <1>4, <1>5, <1>6 DEF Sent, InOrder

-----------------------------------------------------------------------------
LEMMA ProcessInitially == ASSUME Processes!PoolAssumption, Processes!PoolInit PROVE ProcessInv
<1>1. PoolType
  <2>1. <<>> \in Seq(Events) /\ <<>> \in Seq(Client \cup {NULL})
    OBVIOUS
  <2>2. batch \in Seq(Events) /\ down \in [Child -> Seq(Client \cup {NULL})]
    BY <2>1 DEF Processes!PoolInit
  <2>3. /\ client \in [Client -> {"away", "backlog", "open", "answered", "closed"}]
        /\ child \in [Child -> {"recv", "serve", "report", "exited", "dead"}]
        /\ busy \in [Child -> BOOLEAN] /\ up \in [Child -> Nat] /\ task \in [Child -> Client \cup {NULL}]
    BY DEF Processes!PoolInit
  <2> QED BY <2>2, <2>3 DEF Processes!PoolInit, PoolType
<1>2. \A j \in Child : down[j] = <<>> /\ up[j] = 0 /\ child[j] = "recv" /\ task[j] = NULL /\ busy[j] = FALSE
  BY DEF Processes!PoolInit
<1>3. \A j \in Child : ChildStands(j)
  BY <1>2 DEF ChildStands, InOrder, Sent
<1>4. Held
  BY <1>2 DEF Processes!PoolInit, Held, Holds, Processes!PoolAssumption
<1>5. BatchTrue /\ WayOut
  BY DEF Processes!PoolInit, BatchTrue, WayOut
<1> QED BY <1>1, <1>3, <1>4, <1>5 DEF ProcessInv

\* A child about which nothing changes.
LEMMA ChildStays ==
    ASSUME NEW j \in Child, ChildStands(j), down'[j] = down[j], up'[j] = up[j], task'[j] = task[j],
           child'[j] = child[j], busy'[j] = busy[j], main' = "wait" => main = "wait"
    PROVE  ChildStands(j)'
BY DEF ChildStands, InOrder, Sent

\* Nothing changes about who holds which client.
LEMMA HeldStays ==
    ASSUME Held, UNCHANGED <<version, down, task>>, main' # "dead" => main # "dead",
           \A c \in Client : client'[c] = "open" <=> client[c] = "open"
    PROVE  Held'
BY DEF Held, Holds

LEMMA BatchStays ==
    ASSUME BatchTrue, UNCHANGED <<batch, sigint>>,
           \A j \in Child : up[j] > 0 \/ child[j] = "dead" => up'[j] > 0 \/ child'[j] = "dead"
    PROVE  BatchTrue'
BY DEF BatchTrue

\* The first event of the batch is taken; none of the others is the same.
LEMMA BatchGoesOn ==
    ASSUME BatchTrue, NEW e, Processes!Event(e), UNCHANGED <<child, sigint>>, batch \in Seq(Events),
           \A j \in Child : e # <<"child", j>> => up'[j] = up[j]
    PROVE  BatchTrue' /\ batch' \in Seq(Events)
<1>1. batch # <<>> /\ batch' = Tail(batch) /\ batch[1] = e
  BY DEF Processes!Event
<1>2. batch' \in Seq(Events) /\ Len(batch') = Len(batch) - 1 /\ Len(batch) \in Nat \ {0}
  BY <1>1
<1>3. \A i \in 1..Len(batch') : i + 1 \in 1..Len(batch) /\ batch'[i] = batch[i + 1]
  BY <1>1, <1>2
<1>4. \A i \in 1..Len(batch') : batch'[i] # e
  <2> SUFFICES ASSUME NEW i \in 1..Len(batch'), batch'[i] = e PROVE FALSE
    OBVIOUS
  <2>1. i + 1 \in 1..Len(batch) /\ 1 \in 1..Len(batch) /\ batch[i + 1] = batch[1]
    BY <1>1, <1>2, <1>3
  <2>2. i + 1 = 1
    BY <2>1 DEF BatchTrue
  <2> QED BY <1>2, <2>2
<1>5. \A i, k \in 1..Len(batch') : batch'[i] = batch'[k] => i = k
  <2> SUFFICES ASSUME NEW i \in 1..Len(batch'), NEW k \in 1..Len(batch'), batch'[i] = batch'[k]
               PROVE  i = k
    OBVIOUS
  <2>1. i + 1 = k + 1
    BY <1>3 DEF BatchTrue
  <2> QED BY <1>2, <2>1
<1>6. \A i \in 1..Len(batch') : batch'[i] = <<"exit">> => sigint'
  BY <1>3 DEF BatchTrue
<1>7. ASSUME NEW i \in 1..Len(batch'), NEW j \in Child, batch'[i] = <<"child", j>>
      PROVE  up'[j] > 0 \/ child'[j] = "dead"
  <2>1. e # <<"child", j>>
    BY <1>4, <1>7
  <2>2. up'[j] = up[j] /\ child'[j] = child[j]
    BY <2>1
  <2>3. i + 1 \in 1..Len(batch) /\ batch[i + 1] = <<"child", j>>
    BY <1>3, <1>7
  <2>4. up[j] > 0 \/ child[j] = "dead"
    BY <2>3 DEF BatchTrue
  <2> QED BY <2>2, <2>4
<1> QED BY <1>2, <1>5, <1>6, <1>7 DEF BatchTrue

-----------------------------------------------------------------------------
LEMMA OutsideInv ==
    ASSUME ProcessInv, (\E c \in Client : Processes!Connect(c) \/ Processes!Leave(c)) \/ Processes!Sigint
    PROVE  ProcessInv'
<1>1. CASE \E c \in Client : Processes!Connect(c) \/ Processes!Leave(c)
  <2>1. UNCHANGED <<version, main, batch, busy, down, up, child, task, sigint>>
    BY <1>1 DEF Processes!Connect, Processes!Leave
  <2>2. PoolType' /\ \A c \in Client : client'[c] = "open" <=> client[c] = "open"
    BY <1>1 DEF Processes!Connect, Processes!Leave, ProcessInv, PoolType
  <2>3. Held'
    BY <2>1, <2>2, HeldStays DEF ProcessInv
  <2>4. BatchTrue'
    BY <2>1, BatchStays DEF ProcessInv
  <2>5. WayOut'
    BY <2>1 DEF ProcessInv, WayOut, Processes!Dead
  <2>6. \A j \in Child : ChildStands(j)'
    BY <2>1, ChildStays DEF ProcessInv
  <2> QED BY <2>2, <2>3, <2>4, <2>5, <2>6 DEF ProcessInv
<1>2. CASE Processes!Sigint
  <2>1. /\ UNCHANGED <<version, client, gone, main, batch, busy, down, up, task>>
        /\ sigint' = TRUE /\ version.exits
    BY <1>2 DEF Processes!Sigint
  <2>2. \A j \in Child : child'[j] = child[j] \/ (child[j] # "exited" /\ child'[j] = "dead")
    BY <1>2 DEF Processes!Sigint
  <2>3. PoolType'
    BY <1>2 DEF Processes!Sigint, ProcessInv, PoolType
  <2>4. Held'
    BY <2>1, HeldStays DEF ProcessInv
  <2>5. BatchTrue'
    BY <2>1, <2>2 DEF ProcessInv, BatchTrue
  <2>6. WayOut'
    BY <2>1, <2>2 DEF ProcessInv, WayOut, Processes!Dead
  <2>7. \A j \in Child : ChildStands(j)'
    BY <2>1, <2>2 DEF ProcessInv, ChildStands, InOrder, Sent
  <2> QED BY <2>3, <2>4, <2>5, <2>6, <2>7 DEF ProcessInv
<1> QED BY <1>1, <1>2

LEMMA PollInv == ASSUME Processes!PoolAssumption, ProcessInv, Processes!Poll PROVE ProcessInv'
<1>1. UNCHANGED <<version, client, gone, main, busy, down, up, child, task, sigint>>
  BY DEF Processes!Poll
<1>2. /\ batch' \in [1..Cardinality(Processes!Ready) -> Processes!Ready]
      /\ \A i, k \in 1..Cardinality(Processes!Ready) : i # k => batch'[i] # batch'[k]
  BY PoolSize DEF Processes!Poll, Processes!SetToSeqs
<1>3. Cardinality(Processes!Ready) \in Nat /\ Processes!Ready \subseteq Events
  BY ReadyFinite
<1>4. batch' \in Seq(Events) /\ Len(batch') = Cardinality(Processes!Ready)
  BY <1>2, <1>3
<1>5. PoolType'
  BY <1>1, <1>4 DEF ProcessInv, PoolType
<1>6. BatchTrue'
  <2>1. \A j \in Child : Len(<<"child", j>>) = 2 /\ <<"child", j>>[2] = j
    OBVIOUS
  <2>2. Len(<<"listen">>) = 1 /\ Len(<<"exit">>) = 1 /\ <<"listen">>[1] = "listen" /\ <<"exit">>[1] = "exit"
    OBVIOUS
  <2>3. \A j \in Child : <<"child", j>> \in Processes!Ready => up[j] > 0 \/ child[j] = "dead"
    BY <2>1, <2>2 DEF Processes!Ready, Processes!Dead
  <2>4. <<"exit">> \in Processes!Ready => sigint
    BY <2>1, <2>2 DEF Processes!Ready, Processes!Dead, ProcessInv, PoolType
  <2>5. \A i \in 1..Len(batch') : batch'[i] \in Processes!Ready
    BY <1>2, <1>4
  <2>6. \A i, k \in 1..Len(batch') : batch'[i] = batch'[k] => i = k
    BY <1>2, <1>4
  <2> QED BY <1>1, <2>3, <2>4, <2>5, <2>6 DEF BatchTrue
<1>7. WayOut' /\ Held'
  BY <1>1, HeldStays DEF ProcessInv, WayOut, Processes!Dead
<1>8. \A j \in Child : ChildStands(j)'
  BY <1>1, ChildStays DEF ProcessInv
<1> QED BY <1>5, <1>6, <1>7, <1>8 DEF ProcessInv

-----------------------------------------------------------------------------
LEMMA AcceptInv ==
    ASSUME Processes!PoolAssumption, ProcessInv, NEW c \in Client, Processes!Accept(c)
    PROVE  ProcessInv'
<1> DEFINE free == {k \in Child : ~busy[k]}
           least == CHOOSE k \in free : \A l \in free : k <= l
<1>1. /\ UNCHANGED <<version, gone, up, child, task, sigint>> /\ client[c] = "backlog"
      /\ Processes!Event(<<"listen">>) /\ main = "wait"
  BY DEF Processes!Accept, Processes!Event
<1>2. PoolType /\ BatchTrue /\ WayOut /\ Held /\ \A k \in Child : ChildStands(k)
  BY DEF ProcessInv
<1>3. BatchTrue' /\ batch' \in Seq(Events)
  BY <1>1, <1>2, BatchGoesOn DEF PoolType
<1>4. version.gets = "descriptor" => version.closes
  BY <1>2, Versioned DEF PoolType
<1>5. CASE free = {}
  <2>1. /\ UNCHANGED <<main, busy, down>>
        /\ client' = [client EXCEPT ![c] = IF version.closes THEN "closed" ELSE "open"]
    BY <1>5 DEF Processes!Accept
  <2>2. PoolType'
    BY <1>1, <1>2, <1>3, <2>1 DEF PoolType
  <2>3. WayOut' /\ \A k \in Child : ChildStands(k)'
    BY <1>1, <1>2, <2>1, ChildStays DEF WayOut, Processes!Dead
  <2>4. Held'
    <3>1. CASE version.gets # "descriptor"
      BY <1>1, <3>1 DEF Held
    <3>2. CASE version.gets = "descriptor"
      <4>1. \A x \in Client : client'[x] = "open" <=> client[x] = "open"
        BY <1>1, <1>2, <1>4, <2>1, <3>2 DEF PoolType
      <4> QED BY <1>1, <1>2, <2>1, <4>1, HeldStays
    <3> QED BY <3>1, <3>2
  <2> QED BY <1>3, <2>2, <2>3, <2>4 DEF ProcessInv
<1>6. CASE free # {}
  <2>1. PICK j \in free : j = least
    <3>1. free \subseteq Nat
      BY DEF Processes!PoolAssumption
    <3>2. \E k \in free : \A l \in free : k <= l
      BY <1>6, <3>1, Smallest
    <3> QED BY <3>2
  <2>2. /\ client' = [client EXCEPT ![c] = "open"]
        /\ IF j \in Processes!Dead THEN main' = "dead" /\ UNCHANGED <<busy, down>>
           ELSE /\ down' = [down EXCEPT ![j] = Append(@, c)]
                /\ busy' = [busy EXCEPT ![j] = TRUE] /\ UNCHANGED main
    BY <1>6, <2>1 DEF Processes!Accept
  <2>3. j \in Child /\ ~busy[j]
    BY <2>1
  <2>4. CASE j \in Processes!Dead
    <3>1. PoolType'
      BY <1>1, <1>2, <1>3, <2>2, <2>4 DEF PoolType
    <3>2. WayOut' /\ Held' /\ \A k \in Child : ChildStands(k)'
      BY <1>1, <1>2, <2>2, <2>4, ChildStays DEF WayOut, Processes!Dead, Held
    <3> QED BY <1>3, <3>1, <3>2 DEF ProcessInv
  <2>5. CASE j \notin Processes!Dead
    <3>1. child[j] = "recv" /\ down[j] = <<>> /\ up[j] = 0 /\ task[j] = NULL
      BY <1>1, <1>2, <2>3, <2>5 DEF ChildStands, Processes!Dead
    <3>2. /\ down'[j] = <<c>> /\ busy'[j] = TRUE /\ main' = main
          /\ \A k \in Child \ {j} : down'[k] = down[k] /\ busy'[k] = busy[k]
      BY <1>2, <2>2, <2>3, <2>5, <3>1 DEF PoolType
    <3>3. PoolType'
      <4>1. Append(down[j], c) \in Seq(Client \cup {NULL})
        BY <1>2, <2>3 DEF PoolType
      <4> QED BY <1>1, <1>2, <1>3, <2>2, <2>3, <2>5, <4>1 DEF PoolType
    <3>4. down'[j] # <<>> /\ Head(down'[j]) = c /\ Len(down'[j]) = 1 /\ down'[j][1] = c
      BY <3>2
    <3>5. ChildStands(j)'
      <4>1. InOrder(j)'
        BY <3>4 DEF InOrder
      <4>2. child'[j] = "recv" /\ up'[j] = 0 /\ task'[j] = NULL
        BY <1>1, <3>1
      <4> QED BY <3>2, <3>4, <4>1, <4>2 DEF ChildStands
    <3>6. \A k \in Child : ChildStands(k)'
      <4>1. \A k \in Child \ {j} : ChildStands(k)'
        BY <1>1, <1>2, <3>2, ChildStays
      <4> QED BY <3>5, <4>1
    <3>7. WayOut'
      BY <1>1, <1>2, <3>2 DEF WayOut, Processes!Dead
    <3>8. Held'
      <4>1. \A k \in Child : \A x : Holds(k, x)' <=> Holds(k, x) \/ (k = j /\ x = c)
        BY <1>1, <2>3, <3>1, <3>2, <3>4 DEF Holds
      <4>2. \A x \in Client : client'[x] = IF x = c THEN "open" ELSE client[x]
        BY <1>2, <2>2 DEF PoolType
      <4>3. version' = version /\ main' = main
        BY <1>1, <3>2
      <4> QED BY <1>1, <1>2, <2>3, <4>1, <4>2, <4>3 DEF Held
    <3> QED BY <1>3, <3>3, <3>6, <3>7, <3>8 DEF ProcessInv
  <2> QED BY <2>4, <2>5
<1> QED BY <1>5, <1>6

LEMMA ReportInv ==
    ASSUME Processes!PoolAssumption, ProcessInv, NEW j \in Child, Processes!Report(j)
    PROVE  ProcessInv'
<1>1. /\ UNCHANGED <<version, client, gone, down, child, task, sigint>>
      /\ Processes!Event(<<"child", j>>) /\ main = "wait" /\ busy' = [busy EXCEPT ![j] = FALSE]
      /\ up' = [up EXCEPT ![j] = IF @ > 0 THEN @ - 1 ELSE 0]
      /\ main' \in {"dead", main} /\ (main' = "dead" => j \in Processes!Dead)
  BY DEF Processes!Report, Processes!Event
<1>2. PoolType /\ BatchTrue /\ WayOut /\ Held /\ \A k \in Child : ChildStands(k)
  BY DEF ProcessInv
<1>3. \A k \in Child : <<"child", j>> # <<"child", k>> => up'[k] = up[k]
  BY <1>1, <1>2 DEF PoolType
<1>4. BatchTrue' /\ batch' \in Seq(Events)
  BY <1>1, <1>2, <1>3, BatchGoesOn DEF PoolType
<1>5. up[j] \in Nat /\ up'[j] = (IF up[j] > 0 THEN up[j] - 1 ELSE 0) /\ busy'[j] = FALSE
  BY <1>1, <1>2 DEF PoolType
<1>6. PoolType'
  BY <1>1, <1>2, <1>4, <1>5 DEF PoolType
<1>7. WayOut' /\ Held'
  BY <1>1, <1>2, HeldStays DEF WayOut, Processes!Dead
<1>8. \A k \in Child \ {j} : ChildStands(k)'
  <2>1. \A k \in Child \ {j} : up'[k] = up[k] /\ busy'[k] = busy[k]
    BY <1>1, <1>2 DEF PoolType
  <2> QED BY <1>1, <1>2, <2>1, ChildStays
<1>9. ChildStands(j)'
  <2>1. ChildStands(j) /\ InOrder(j)
    BY <1>2 DEF ChildStands
  <2>2. InOrder(j)' /\ Sent(j)' = Sent(j) /\ (Sent(j) => task'[j] = NULL /\ up'[j] = 0) /\ up'[j] <= 1
    BY <1>1, <1>5, <2>1 DEF ChildStands, InOrder, Sent
  <2>3. CASE child[j] = "dead"
    BY <1>1, <2>2, <2>3 DEF ChildStands
  <2>4. CASE child[j] # "dead"
    <3>1. batch # <<>> /\ batch \in Seq(Events) /\ batch[1] = <<"child", j>>
      BY <1>1, <1>2 DEF Processes!Event, PoolType
    <3>2. up[j] > 0
      BY <1>2, <2>4, <3>1 DEF BatchTrue
    <3>3. up[j] = 1 /\ up'[j] = 0 /\ ~Sent(j)
      BY <1>5, <2>1, <3>2 DEF ChildStands
    <3>4. child[j] = "recv"
      BY <1>1, <1>2, <2>1, <2>4, <3>3 DEF ChildStands, PoolType
    <3>5. down[j] = <<>>
      BY <1>1, <1>2, <2>1, <3>3, First DEF Sent, Processes!PoolAssumption
    <3> QED BY <1>1, <1>5, <2>1, <2>2, <3>3, <3>4, <3>5 DEF ChildStands
  <2> QED BY <2>3, <2>4
<1> QED BY <1>4, <1>6, <1>7, <1>8, <1>9 DEF ProcessInv

LEMMA ExitInv == ASSUME Processes!PoolAssumption, ProcessInv, Processes!Exit PROVE ProcessInv'
<1>1. /\ UNCHANGED <<version, client, gone, busy, up, child, task, sigint>>
      /\ Processes!Event(<<"exit">>) /\ main = "wait"
      /\ main' = (IF Processes!Dead = {} THEN "exit" ELSE "dead")
      /\ down' = [j \in Child |-> IF \A k \in Processes!Dead : j < k
                                  THEN Append(down[j], NULL) ELSE down[j]]
  BY DEF Processes!Exit, Processes!Event
<1>2. PoolType /\ BatchTrue /\ WayOut /\ Held /\ \A k \in Child : ChildStands(k)
  BY DEF ProcessInv
<1>3. BatchTrue' /\ batch' \in Seq(Events)
  BY <1>1, <1>2, BatchGoesOn DEF PoolType
<1>4. \A j \in Child : down[j] \in Seq(Client \cup {NULL})
  BY <1>2 DEF PoolType
<1>5. \A j \in Child : down'[j] = down[j] \/ down'[j] = Append(down[j], NULL)
  BY <1>1
<1>6. PoolType'
  <2>1. \A j \in Child : Append(down[j], NULL) \in Seq(Client \cup {NULL})
    BY <1>4
  <2>2. down' \in [Child -> Seq(Client \cup {NULL})]
    BY <1>1, <1>4, <2>1
  <2> QED BY <1>1, <1>2, <1>3, <2>2 DEF PoolType
<1>7. sigint
  <2>1. batch # <<>> /\ batch \in Seq(Events) /\ batch[1] = <<"exit">>
    BY <1>1, <1>2 DEF Processes!Event, PoolType
  <2> QED BY <1>2, <2>1 DEF BatchTrue
<1>8. WayOut'
  BY <1>1, <1>2, <1>7 DEF WayOut, Processes!Dead
<1>9. ASSUME NEW j \in Child
      PROVE  (Sent(j)' <=> Sent(j)) /\ (Sent(j) => Head(down'[j]) = Head(down[j])) /\ InOrder(j)'
             /\ (down'[j] # <<>> /\ ~Sent(j) => Head(down'[j]) = NULL)
  <2> DEFINE s == down[j]
             t == down'[j]
  <2>1. s \in Seq(Client \cup {NULL}) /\ (t = s \/ t = Append(s, NULL)) /\ main' # "wait"
    BY <1>1, <1>4, <1>5
  <2>2. \A i \in 1..Len(s) : i = 1 /\ s[i] \in Client
    BY <1>1, <1>2 DEF ChildStands, InOrder
  <2>3. Sent(j) <=> s # <<>> /\ Head(s) # NULL
    BY DEF Sent
  <2>4. Sent(j)' <=> t # <<>> /\ Head(t) # NULL
    BY DEF Sent
  <2>5. InOrder(j)' <=> \A i \in 1..Len(t) : \/ i = 1 /\ t[i] \in Client
                                             \/ i = Len(t) /\ t[i] = NULL /\ main' # "wait"
    BY DEF InOrder
  <2> HIDE DEF s, t
  <2>6. ASSUME t = s
        PROVE  (Sent(j)' <=> Sent(j)) /\ (Sent(j) => Head(t) = Head(s)) /\ InOrder(j)'
               /\ (t # <<>> /\ ~Sent(j) => Head(t) = NULL)
    BY <2>1, <2>2, <2>3, <2>4, <2>5, <2>6
  <2>7. ASSUME t = Append(s, NULL)
        PROVE  (Sent(j)' <=> Sent(j)) /\ (Sent(j) => Head(t) = Head(s)) /\ InOrder(j)'
               /\ (t # <<>> /\ ~Sent(j) => Head(t) = NULL)
    <3>1. Len(t) = Len(s) + 1 /\ (\A i \in 1..Len(s) : t[i] = s[i]) /\ t[Len(t)] = NULL /\ t # <<>>
      BY <2>1, <2>7
    <3>2. Len(s) \in Nat /\ t \in Seq(Client \cup {NULL})
      BY <2>1, <2>7
    <3>3. \A i \in 1..Len(t) : i \in 1..Len(s) \/ i = Len(t)
      BY <3>1, <3>2
    <3>4. InOrder(j)'
      BY <2>1, <2>2, <2>5, <3>1, <3>3
    <3>5. s = <<>> => Head(t) = NULL
      BY <2>1, <2>7, <3>1, <3>2
    <3>6. s # <<>> => Head(t) = Head(s)
      BY <2>1, <2>7, <3>1, <3>2
    <3> QED BY <2>1, <2>2, <2>3, <2>4, <3>1, <3>4, <3>5, <3>6
  <2> QED BY <2>1, <2>6, <2>7 DEF s, t
<1>10. \A j \in Child : ChildStands(j)'
  <2> SUFFICES ASSUME NEW j \in Child PROVE ChildStands(j)'
    OBVIOUS
  <2>1. ChildStands(j) /\ child[j] # "exited" /\ main' # "wait"
    BY <1>1, <1>2 DEF ChildStands
  <2> QED BY <1>1, <1>9, <2>1 DEF ChildStands
<1>11. Held'
  <2>1. \A j \in Child, c \in Client : Holds(j, c)' <=> Holds(j, c)
    <3> SUFFICES ASSUME NEW j \in Child, NEW c \in Client PROVE Holds(j, c)' <=> Holds(j, c)
      OBVIOUS
    <3>1. (down[j] # <<>> /\ Head(down[j]) = c) <=> Sent(j) /\ Head(down[j]) = c
      BY DEF Sent, Processes!PoolAssumption
    <3>2. (down'[j] # <<>> /\ Head(down'[j]) = c) <=> Sent(j)' /\ Head(down'[j]) = c
      BY DEF Sent, Processes!PoolAssumption
    <3> QED BY <1>1, <1>9, <3>1, <3>2 DEF Holds
  <2> QED BY <1>1, <1>2, <2>1 DEF Held
<1> QED BY <1>3, <1>6, <1>8, <1>10, <1>11 DEF ProcessInv

LEMMA ReturnInv == ASSUME ProcessInv, Processes!Return PROVE ProcessInv'
<1>1. /\ UNCHANGED <<version, client, gone, batch, busy, down, up, child, task, sigint>>
      /\ main = "exit" /\ main' = "returned" /\ \A j \in Child : child[j] \in {"exited", "dead"}
  BY DEF Processes!Return
<1>2. PoolType /\ BatchTrue /\ WayOut /\ Held /\ \A k \in Child : ChildStands(k)
  BY DEF ProcessInv
<1>3. PoolType' /\ BatchTrue' /\ WayOut'
  BY <1>1, <1>2 DEF PoolType, BatchTrue, WayOut
<1>4. Held'
  BY <1>1, <1>2, HeldStays
<1>5. \A j \in Child : ChildStands(j)'
  BY <1>1, <1>2, ChildStays
<1> QED BY <1>3, <1>4, <1>5 DEF ProcessInv

-----------------------------------------------------------------------------
\* One child moves and does not die, or dies: what that means for everything but itself and
\* the clients.
LEMMA ChildMoves ==
    ASSUME ProcessInv, NEW j \in Child, UNCHANGED <<version, gone, main, batch, busy, sigint>>,
           main # "returned" \/ child'[j] \in {"exited", "dead"}, up'[j] \in Nat, up'[j] >= up[j],
           child[j] # "dead",
           \A k \in Child \ {j} : /\ down'[k] = down[k] /\ up'[k] = up[k] /\ task'[k] = task[k]
                                  /\ child'[k] = child[k]
    PROVE  BatchTrue' /\ WayOut' /\ \A k \in Child \ {j} : ChildStands(k)'
<1>1. PoolType /\ BatchTrue /\ WayOut /\ \A k \in Child : ChildStands(k)
  BY DEF ProcessInv
<1>2. \A k \in Child : up[k] > 0 \/ child[k] = "dead" => up'[k] > 0 \/ child'[k] = "dead"
  <2>1. up[j] \in Nat
    BY <1>1 DEF PoolType
  <2>2. up[j] > 0 \/ child[j] = "dead" => up'[j] > 0
    BY <2>1
  <2> QED BY <2>2
<1>3. BatchTrue'
  BY <1>1, <1>2, BatchStays
<1>4. Processes!Dead # {} => Processes!Dead' # {}
  BY DEF Processes!Dead
<1>5. WayOut'
  BY <1>1, <1>4 DEF WayOut
<1>6. \A k \in Child \ {j} : ChildStands(k)'
  BY <1>1, ChildStays
<1> QED BY <1>3, <1>5, <1>6

LEMMA ReceiveInv ==
    ASSUME Processes!PoolAssumption, ProcessInv, NEW j \in Child, Processes!Receive(j)
    PROVE  ProcessInv'
<1>1. /\ UNCHANGED <<version, client, gone, main, batch, busy, up, sigint>>
      /\ child[j] = "recv" /\ down[j] # <<>> /\ down' = [down EXCEPT ![j] = Tail(@)]
      /\ IF Head(down[j]) = NULL THEN child' = [child EXCEPT ![j] = "exited"] /\ UNCHANGED task
         ELSE child' = [child EXCEPT ![j] = "serve"] /\ task' = [task EXCEPT ![j] = Head(down[j])]
  BY DEF Processes!Receive
<1>2. PoolType /\ BatchTrue /\ WayOut /\ Held /\ \A k \in Child : ChildStands(k)
  BY DEF ProcessInv
<1>3. /\ InOrder(j) /\ task[j] = NULL /\ up[j] \in Nat /\ up[j] <= 1
      /\ down[j] \in Seq(Client \cup {NULL}) /\ Head(down[j]) \in Client \cup {NULL}
  BY <1>1, <1>2, First DEF ChildStands, PoolType
<1>4. PoolType'
  <2>1. Tail(down[j]) \in Seq(Client \cup {NULL})
    BY <1>1, <1>3
  <2> QED BY <1>1, <1>2, <1>3, <2>1 DEF PoolType
<1>5. /\ down'[j] = Tail(down[j])
      /\ \A k \in Child \ {j} : /\ down'[k] = down[k] /\ up'[k] = up[k]
                                /\ task'[k] = task[k] /\ child'[k] = child[k]
  BY <1>1, <1>2 DEF PoolType
<1>6. main # "returned"
  BY <1>1, <1>2 DEF WayOut
<1>7. BatchTrue' /\ WayOut' /\ \A k \in Child \ {j} : ChildStands(k)'
  <2>1. up'[j] \in Nat /\ up'[j] >= up[j] /\ child[j] # "dead"
    BY <1>1, <1>3
  <2> QED BY <1>1, <1>5, <1>6, <2>1, ChildMoves
\* After the first there can only be the word to exit.
<1>8. InOrder(j)' /\ ~Sent(j)'
  <2> DEFINE s == down[j]
             t == down'[j]
  <2>1. s \in Seq(Client \cup {NULL}) /\ s # <<>> /\ t = Tail(s) /\ main' = main
    BY <1>1, <1>3, <1>5
  <2>2. \A i \in 1..Len(s) : (i = 1 /\ s[i] \in Client) \/ (i = Len(s) /\ s[i] = NULL /\ main # "wait")
    BY <1>3 DEF InOrder
  <2>3. Sent(j)' <=> t # <<>> /\ Head(t) # NULL
    BY DEF Sent
  <2>4. InOrder(j)' <=> \A i \in 1..Len(t) : \/ i = 1 /\ t[i] \in Client
                                             \/ i = Len(t) /\ t[i] = NULL /\ main' # "wait"
    BY DEF InOrder
  <2> HIDE DEF s, t
  <2>5. /\ t \in Seq(Client \cup {NULL}) /\ Len(t) = Len(s) - 1
        /\ \A i \in 1..Len(t) : t[i] = s[i + 1] /\ i + 1 \in 1..Len(s)
    BY <2>1
  <2>6. ASSUME NEW i \in 1..Len(t) PROVE i = Len(t) /\ t[i] = NULL /\ main # "wait"
    <3>1. i + 1 \in 1..Len(s) /\ i + 1 # 1 /\ t[i] = s[i + 1]
      BY <2>5
    <3>2. i + 1 = Len(s) /\ s[i + 1] = NULL /\ main # "wait"
      BY <2>2, <3>1
    <3>3. i = Len(t)
      <4>1. Len(s) \in Nat /\ i \in Int
        BY <2>1
      <4> QED BY <2>5, <3>2, <4>1
    <3> QED BY <3>1, <3>2, <3>3
  <2>7. t # <<>> => 1 \in 1..Len(t) /\ Head(t) = t[1]
    BY <2>5
  <2> QED BY <2>1, <2>3, <2>4, <2>6, <2>7
<1>9. CASE Head(down[j]) = NULL
  <2>1. child'[j] = "exited" /\ task' = task
    BY <1>1, <1>2, <1>9 DEF PoolType
  <2>2. down'[j] = <<>> /\ main # "wait"
    BY <1>1, <1>2, <1>3, <1>5, <1>9, First DEF Processes!PoolAssumption
  <2>3. ChildStands(j)'
    BY <1>1, <1>3, <1>8, <2>1, <2>2 DEF ChildStands
  <2>4. \A k \in Child, c \in Client : Holds(k, c)' <=> Holds(k, c)
    BY <1>1, <1>5, <1>9, <2>1, <2>2 DEF Holds, Processes!PoolAssumption
  <2>5. Held'
    BY <1>1, <1>2, <2>4 DEF Held
  <2> QED BY <1>4, <1>7, <2>3, <2>5 DEF ProcessInv
<1>10. CASE Head(down[j]) # NULL
  <2>1. child'[j] = "serve" /\ task'[j] = Head(down[j]) /\ Sent(j)
    BY <1>1, <1>2, <1>10 DEF PoolType, Sent
  <2>2. up[j] = 0
    BY <1>2, <2>1 DEF ChildStands
  <2>3. main = "wait" => busy[j]
    BY <1>1, <1>2, <2>1 DEF ChildStands
  <2>4. ChildStands(j)'
    BY <1>1, <1>8, <1>10, <2>1, <2>2, <2>3 DEF ChildStands
  <2>5. \A k \in Child, c \in Client : Holds(k, c)' <=> Holds(k, c)
    <3>1. \A c \in Client : ~(down'[j] # <<>> /\ Head(down'[j]) = c)
      BY <1>8 DEF Sent, Processes!PoolAssumption
    <3>2. \A c \in Client : Holds(j, c)' <=> Holds(j, c)
      BY <1>1, <1>3, <2>1, <3>1 DEF Holds, Processes!PoolAssumption
    <3> QED BY <1>5, <3>2 DEF Holds
  <2>6. Held'
    BY <1>1, <1>2, <2>5 DEF Held
  <2> QED BY <1>4, <1>7, <2>4, <2>6 DEF ProcessInv
<1> QED BY <1>9, <1>10

LEMMA FreeInv ==
    ASSUME Processes!PoolAssumption, ProcessInv, NEW j \in Child, Processes!Free(j)
    PROVE  ProcessInv'
<1>1. /\ UNCHANGED <<version, client, gone, main, batch, busy, down, task, sigint>>
      /\ child[j] = "report" /\ child' = [child EXCEPT ![j] = "recv"] /\ up' = [up EXCEPT ![j] = @ + 1]
  BY DEF Processes!Free
<1>2. PoolType /\ BatchTrue /\ WayOut /\ Held /\ \A k \in Child : ChildStands(k)
  BY DEF ProcessInv
<1>3. /\ up[j] = 0 /\ ~Sent(j) /\ task[j] = NULL /\ up'[j] = 1 /\ child'[j] = "recv"
      /\ (main = "wait" => busy[j])
  <2>1. ChildStands(j)
    BY <1>2
  <2>2. up[j] = 0 /\ ~Sent(j) /\ task[j] = NULL /\ (main = "wait" => busy[j])
    BY <1>1, <2>1 DEF ChildStands
  <2> QED BY <1>1, <1>2, <2>2 DEF PoolType
<1>4. PoolType'
  BY <1>1, <1>2 DEF PoolType
<1>5. \A k \in Child \ {j} : up'[k] = up[k] /\ child'[k] = child[k]
  BY <1>1, <1>2 DEF PoolType
<1>6. BatchTrue' /\ WayOut' /\ \A k \in Child \ {j} : ChildStands(k)'
  <2>1. main # "returned" /\ up'[j] \in Nat /\ up'[j] >= up[j] /\ child[j] # "dead"
    BY <1>1, <1>2, <1>3 DEF WayOut
  <2> QED BY <1>1, <1>5, <2>1, ChildMoves
<1>7. ChildStands(j)'
  <2>1. ChildStands(j)
    BY <1>2
  <2> QED BY <1>1, <1>3, <2>1 DEF ChildStands, InOrder, Sent
<1>8. Held'
  BY <1>1, <1>2, HeldStays
<1> QED BY <1>4, <1>6, <1>7, <1>8 DEF ProcessInv

\* The child has served its client, in one way or another.
LEMMA ServedInv ==
    ASSUME Processes!PoolAssumption, ProcessInv, NEW j \in Child,
           UNCHANGED <<version, gone, main, batch, busy, down, up, sigint>>,
           child[j] = "serve", task' = [task EXCEPT ![j] = NULL],
           \/ child' = [child EXCEPT ![j] = "report"]
           \/ child' = [child EXCEPT ![j] = "dead"],
           \/ version.gets # "descriptor" /\ client' = client
           \/ \E a \in {"closed", "answered"} : client' = [client EXCEPT ![task[j]] = a]
    PROVE  ProcessInv'
<1>1. PoolType /\ BatchTrue /\ WayOut /\ Held /\ \A k \in Child : ChildStands(k)
  BY DEF ProcessInv
<1>2. /\ up[j] = 0 /\ ~Sent(j) /\ task[j] # NULL /\ (main = "wait" => busy[j]) /\ InOrder(j)
  <2>1. ChildStands(j)
    BY <1>1
  <2> QED BY <2>1 DEF ChildStands
<1>3. task[j] \in Client
  BY <1>1, <1>2 DEF PoolType
<1>4. PoolType'
  BY <1>1, <1>3 DEF PoolType
<1>5. /\ task'[j] = NULL /\ child'[j] \in {"report", "dead"}
      /\ \A k \in Child \ {j} : task'[k] = task[k] /\ child'[k] = child[k]
  BY <1>1 DEF PoolType
<1>6. BatchTrue' /\ WayOut' /\ \A k \in Child \ {j} : ChildStands(k)'
  <2>1. main # "returned"
    BY <1>1 DEF WayOut
  <2>2. up'[j] \in Nat /\ up'[j] >= up[j] /\ child[j] # "dead"
    BY <1>2
  <2> QED BY <1>5, <2>1, <2>2, ChildMoves
<1>7. ChildStands(j)'
  BY <1>2, <1>5 DEF ChildStands, InOrder, Sent
<1>8. Held'
  <2>1. CASE version.gets # "descriptor"
    BY <2>1 DEF Held
  <2>2. CASE version.gets = "descriptor" /\ main # "dead"
    <3>1. \A k \in Child, c \in Client : Holds(k, c)' <=> Holds(k, c) /\ ~(k = j)
      BY <1>2, <1>5 DEF Holds, Sent, Processes!PoolAssumption
    <3>2. \A c \in Client : client'[c] = "open" <=> client[c] = "open" /\ c # task[j]
      BY <1>1, <1>3, <2>2 DEF PoolType
    <3>3. Holds(j, task[j]) /\ \A c \in Client : Holds(j, c) => c = task[j]
      BY <1>2, <1>3 DEF Holds, Sent, Processes!PoolAssumption
    <3>4. \A k \in Child : Holds(k, task[j]) => k = j
      BY <1>1, <1>3, <2>2, <3>3 DEF Held
    <3>5. \A c \in Client : /\ client[c] = "open" =>
                             \E k \in Child : Holds(k, c) /\ \A l \in Child : Holds(l, c) => l = k
                            /\ client[c] # "open" => \A k \in Child : ~Holds(k, c)
      BY <1>1, <2>2 DEF Held
    <3> QED BY <3>1, <3>2, <3>3, <3>4, <3>5 DEF Held
  <2>3. CASE main = "dead"
    BY <2>3 DEF Held
  <2> QED BY <2>1, <2>2, <2>3
<1> QED BY <1>4, <1>6, <1>7, <1>8 DEF ProcessInv

LEMMA ProcessStep ==
    Processes!PoolAssumption /\ ProcessInv /\ [Processes!PoolNext]_(Processes!poolVars) => ProcessInv'
<1> SUFFICES ASSUME Processes!PoolAssumption, ProcessInv, [Processes!PoolNext]_(Processes!poolVars)
             PROVE  ProcessInv'
  OBVIOUS
<1>1. CASE UNCHANGED Processes!poolVars
  BY <1>1 DEF Processes!poolVars, ProcessInv, PoolType, BatchTrue, WayOut, Processes!Dead,
              ChildStands, InOrder, Sent, Held, Holds
<1>2. CASE (\E c \in Client : Processes!Connect(c) \/ Processes!Leave(c)) \/ Processes!Sigint
  BY <1>2, OutsideInv
<1>3. CASE Processes!Poll
  BY <1>3, PollInv
<1>4. ASSUME NEW c \in Client, Processes!Accept(c) PROVE ProcessInv'
  BY <1>4, AcceptInv
<1>5. ASSUME NEW j \in Child, Processes!Report(j) PROVE ProcessInv'
  BY <1>5, ReportInv
<1>6. CASE Processes!Exit
  BY <1>6, ExitInv
<1>7. CASE Processes!Return
  BY <1>7, ReturnInv
<1>8. ASSUME NEW j \in Child, Processes!Receive(j) PROVE ProcessInv'
  BY <1>8, ReceiveInv
<1>9. ASSUME NEW j \in Child, Processes!ServeNothing(j) \/ Processes!Serve(j) \/ Processes!Killed(j)
      PROVE  ProcessInv'
  <2>1. /\ UNCHANGED <<version, gone, main, batch, busy, down, up, sigint>>
        /\ child[j] = "serve" /\ task' = [task EXCEPT ![j] = NULL]
        /\ \/ child' = [child EXCEPT ![j] = "report"]
           \/ child' = [child EXCEPT ![j] = "dead"]
        /\ \/ version.gets # "descriptor" /\ client' = client
           \/ \E a \in {"closed", "answered"} : client' = [client EXCEPT ![task[j]] = a]
    BY <1>9 DEF Processes!ServeNothing, Processes!Serve, Processes!Killed
  <2> QED BY <2>1, ServedInv
<1>10. ASSUME NEW j \in Child, Processes!Free(j) PROVE ProcessInv'
  BY <1>10, FreeInv
<1> QED BY <1>1, <1>2, <1>3, <1>4, <1>5, <1>6, <1>7, <1>8, <1>9, <1>10 DEF Processes!PoolNext

\* Where main, its children and the connections stand to each other.
THEOREM ProcessInvariance ==
    ASSUME Processes!PoolAssumption
    PROVE  Processes!PoolSpec => []ProcessInv
BY ProcessInitially, ProcessStep, PTL DEF Processes!PoolSpec

\* main takes exactly the free children for free.
THEOREM FreeChildren ==
    ASSUME Processes!PoolAssumption
    PROVE  Processes!PoolSpec => []Processes!FreeIsFree
<1>1. ProcessInv => Processes!FreeIsFree
  BY DEF ProcessInv, ChildStands, Processes!FreeIsFree, Processes!Dead
<1> QED BY <1>1, ProcessInvariance, PTL

\* An open connection is with one child, on the way there or being answered.
THEOREM OneChildEach ==
    ASSUME Processes!PoolAssumption
    PROVE  Processes!PoolSpec => []Processes!OneHolder
<1>1. ProcessInv => Processes!OneHolder
  <2> SUFFICES ASSUME ProcessInv, version.gets = "descriptor", main # "dead",
                      NEW c \in Client, client[c] = "open"
               PROVE  Cardinality({j \in Child : task[j] = c \/ c \in Processes!ToSet(down[j])}) = 1
    BY PoolSize DEF Processes!OneHolder
  <2>1. PoolType /\ Held /\ \A j \in Child : InOrder(j)
    BY DEF ProcessInv, ChildStands
  <2>2. ASSUME NEW j \in Child PROVE c \in Processes!ToSet(down[j]) <=> down[j] # <<>> /\ Head(down[j]) = c
    <3>1. down[j] \in Seq(Client \cup {NULL}) /\ InOrder(j)
      BY <2>1 DEF PoolType
    <3>2. c \in Processes!ToSet(down[j]) <=> \E i \in 1..Len(down[j]) : down[j][i] = c
      BY <3>1 DEF Processes!ToSet
    <3>3. down[j] # <<>> => 1 \in 1..Len(down[j]) /\ Head(down[j]) = down[j][1]
      BY <3>1
    <3>4. \A i \in 1..Len(down[j]) : down[j][i] = c => i = 1 /\ down[j] # <<>>
      BY <3>1 DEF InOrder, Processes!PoolAssumption
    <3> QED BY <3>2, <3>3, <3>4
  <2>3. PICK j \in Child : Holds(j, c) /\ \A k \in Child : Holds(k, c) => k = j
    BY <2>1 DEF Held
  <2>4. {k \in Child : task[k] = c \/ c \in Processes!ToSet(down[k])} = {j}
    BY <2>2, <2>3 DEF Holds
  <2> QED BY <2>4, FS_Singleton
<1> QED BY <1>1, ProcessInvariance, PTL

\* A server that ends by itself leaves nobody without an answer, and one that dies has lost a child.
THEOREM EndIsOrderly ==
    ASSUME Processes!PoolAssumption
    PROVE  Processes!PoolSpec => []Processes!EndsInOrder
<1>1. ProcessInv => Processes!EndsInOrder
  <2> SUFFICES ASSUME ProcessInv PROVE Processes!EndsInOrder
    OBVIOUS
  <2>1. PoolType /\ WayOut /\ Held /\ \A j \in Child : ChildStands(j)
    BY DEF ProcessInv
  <2>2. ASSUME main = "returned", Processes!Dead = {}, NEW c \in Client, client[c] = "open" PROVE FALSE
    <3>1. version.gets = "descriptor"
      BY <2>1, <2>2, Versioned DEF WayOut, PoolType
    <3>2. PICK j \in Child : Holds(j, c)
      BY <2>1, <2>2, <3>1 DEF Held
    <3>3. child[j] = "exited"
      BY <2>1, <2>2 DEF WayOut, Processes!Dead
    <3>4. down[j] = <<>> /\ task[j] = NULL
      BY <2>1, <3>3 DEF ChildStands
    <3> QED BY <3>2, <3>4 DEF Holds, Processes!PoolAssumption
  <2> QED BY <2>1, <2>2 DEF Processes!EndsInOrder, WayOut
<1> QED BY <1>1, ProcessInvariance, PTL

-----------------------------------------------------------------------------
\* The earlier pools of threads.

FactoryType ==
    /\ version \in {Threads!day32, Threads!revise}
    /\ que \in Threads!Queue
    /\ fd \in [Node -> Client \cup {NULL}]
    /\ client \in [Client -> {"away", "backlog", "taken", "served"}]
    /\ main \in {"wait", "join", "exited", "dead"}
    /\ mutex = NULL /\ quit \in BOOLEAN /\ cancel \in BOOLEAN
    /\ pc \in [Worker -> {"lock", "wait", "woken", "serve", "ended"}]
    /\ pcur \in [Worker -> Threads!Pointer]

\* The list goes on from node to node of s; where it ends only its counter says.
Linked(q, s) ==
    /\ q.size = Len(s)
    /\ \A i, j \in 1..Len(s) : s[i] = s[j] => i = j
    /\ s # <<>> => q.head = s[1] /\ q.tail = s[Len(s)]
    /\ \A i \in 1..Len(s) - 1 : q.pnext[s[i]] = s[i + 1]

In(n, s) == \E i \in 1..Len(s) : s[i] = n

\* A node is in the queue or one thread's as long as it is allocated.
Shared(s) ==
    /\ \A n \in Node : fd[n] # NULL <=> In(n, s) \/ \E t \in Worker : pcur[t] = n
    /\ \A n \in Node, t \in Worker : pcur[t] = n => ~In(n, s)
    /\ \A t, u \in Worker : pcur[t] = pcur[u] /\ pcur[t] # NULL => t = u

\* A connection that main has taken is one node's.
Owned ==
    /\ \A n \in Node : fd[n] # NULL => client[fd[n]] = "taken"
    /\ \A n, m \in Node : fd[n] = fd[m] /\ fd[n] # NULL => n = m
    /\ \A c \in Client : client[c] = "taken" => \E n \in Node : fd[n] = c

ThreadsStand ==
    /\ \A t \in Worker : /\ pc[t] \in {"lock", "wait", "woken"} => pcur[t] = NULL
                         /\ pc[t] = "serve" => pcur[t] # NULL
                         /\ pc[t] = "ended" => cancel
    /\ cancel => main # "wait"

\* Zeroed nodes end the list where the counter says.
Ends == version.zeroed => Threads!Sound /\ (que.size > 0 => que.pnext[que.tail] = NULL)

FactoryInv ==
    /\ FactoryType /\ ThreadsStand /\ Ends
    /\ Threads!Sound => Owned /\ (\E s \in Seq(Node) : Linked(que, s) /\ Shared(s)) /\ Threads!QueueIsSeen

-----------------------------------------------------------------------------
\* A new last node, whatever its link says.
LEMMA SetLinks ==
    ASSUME NEW q \in Threads!Queue, NEW s \in Seq(Node), NEW n \in Node,
           NEW link \in Threads!Pointer, Linked(q, s),
           ~In(n, s), q.size = 0 => q.head = NULL
    PROVE  LET r == Threads!QueueSet([q EXCEPT !.pnext = [@ EXCEPT ![n] = link]], n)
           IN  /\ r \in Threads!Queue /\ Linked(r, Append(s, n))
               /\ r.size > 0 /\ r.head # NULL /\ r.tail = n /\ r.pnext[n] = link
<1> DEFINE p == [q.pnext EXCEPT ![n] = link]
           q1 == [q EXCEPT !.pnext = [@ EXCEPT ![n] = link]]
           r == Threads!QueueSet(q1, n)
           t == Append(s, n)
<1>1. /\ q.head \in Threads!Pointer /\ q.tail \in Threads!Pointer /\ q.size \in Nat
      /\ q.pnext \in [Node -> Threads!Pointer]
  BY DEF Threads!Queue
<1>2. q1.head = q.head /\ q1.tail = q.tail /\ q1.size = q.size /\ q1.pnext = p
  BY DEF Threads!Queue
<1>3. p \in [Node -> Threads!Pointer] /\ p[n] = link /\ \A m \in Node \ {n} : p[m] = q.pnext[m]
  BY <1>1
<1>4. n \in Threads!Pointer /\ n # NULL
  BY Threads!NullAssumption DEF Threads!Pointer
<1>5. Len(s) \in Nat /\ t \in Seq(Node) /\ Len(t) = Len(s) + 1 /\ t[Len(t)] = n /\ t # <<>>
      /\ \A i \in 1..Len(s) : t[i] = s[i] /\ s[i] \in Node /\ s[i] # n
  BY DEF In
<1>6. q.size = Len(s)
  BY DEF Linked
<1>7. /\ r.head = (IF q.head = NULL THEN n ELSE q.head) /\ r.tail = n /\ r.size = q.size + 1
      /\ r.pnext = (IF q.head = NULL THEN p ELSE [p EXCEPT ![q.tail] = n])
      /\ r = [head |-> r.head, tail |-> r.tail, size |-> r.size, pnext |-> r.pnext]
  BY <1>2 DEF Threads!QueueSet
<1> HIDE DEF r, q1, p
<1>8. r \in Threads!Queue
  <2>1. r.head \in Threads!Pointer /\ r.tail \in Threads!Pointer /\ r.size \in Nat
    BY <1>1, <1>4, <1>7
  <2>2. r.pnext \in [Node -> Threads!Pointer]
    <3>1. [p EXCEPT ![q.tail] = n] \in [Node -> Threads!Pointer]
      BY <1>3, <1>4
    <3> QED BY <1>3, <1>7, <3>1
  <2> QED BY <1>7, <2>1, <2>2 DEF Threads!Queue
<1>9. CASE s = <<>>
  <2>1. q.head = NULL /\ q.size = 0
    BY <1>6, <1>9
  <2>2. Len(t) = 1 /\ t[1] = n
    BY <1>5, <1>9
  <2>3. Linked(r, t)
    BY <1>5, <1>7, <2>1, <2>2 DEF Linked
  <2> QED BY <1>3, <1>4, <1>7, <1>8, <2>1, <2>3 DEF r, q1
<1>10. CASE s # <<>>
  <2>1. Len(s) \in 1..Len(s)
    BY <1>5, <1>10
  <2>2. q.head = s[1] /\ q.tail = s[Len(s)] /\ q.head # NULL /\ q.tail \in Node \ {n}
    BY <1>5, <1>10, <2>1, Threads!NullAssumption DEF Linked
  <2>3. r.pnext[n] = link /\ r.pnext[s[Len(s)]] = n
    BY <1>3, <1>7, <2>2
  <2>4. \A i \in 1..Len(s) - 1 : r.pnext[s[i]] = s[i + 1]
    <3> SUFFICES ASSUME NEW i \in 1..Len(s) - 1 PROVE r.pnext[s[i]] = s[i + 1]
      OBVIOUS
    <3>1. i \in 1..Len(s) /\ i # Len(s)
      BY <1>5
    <3>2. s[i] # s[Len(s)] /\ q.pnext[s[i]] = s[i + 1]
      BY <2>1, <3>1 DEF Linked
    <3>3. s[i] \in Node \ {n}
      BY <1>5, <3>1
    <3> QED BY <1>3, <1>7, <2>2, <3>2, <3>3
  <2>5. \A i \in 1..Len(t) - 1 : r.pnext[t[i]] = t[i + 1]
    <3> SUFFICES ASSUME NEW i \in 1..Len(t) - 1 PROVE r.pnext[t[i]] = t[i + 1]
      OBVIOUS
    <3>1. i \in 1..Len(s) /\ t[i] = s[i]
      BY <1>5
    <3>2. CASE i = Len(s)
      BY <1>5, <2>3, <3>1, <3>2
    <3>3. CASE i # Len(s)
      <4>1. i \in 1..Len(s) - 1 /\ i + 1 \in 1..Len(s)
        BY <1>5, <3>1, <3>3
      <4> QED BY <1>5, <2>4, <3>1, <4>1
    <3> QED BY <3>2, <3>3
  <2>6. \A i, j \in 1..Len(t) : t[i] = t[j] => i = j
    <3>1. \A i \in 1..Len(t) : i \in 1..Len(s) \/ i = Len(t)
      BY <1>5
    <3>2. \A i, j \in 1..Len(s) : s[i] = s[j] => i = j
      BY DEF Linked
    <3> QED BY <1>5, <3>1, <3>2
  <2>7. t[1] = s[1]
    BY <1>5, <1>10
  <2>8. Linked(r, t)
    BY <1>5, <1>6, <1>7, <2>2, <2>5, <2>6, <2>7 DEF Linked
  <2>9. r.size > 0 /\ r.head # NULL /\ r.tail = n
    BY <1>1, <1>7, <2>2
  <2> QED BY <1>8, <2>3, <2>8, <2>9 DEF r, q1
<1> QED BY <1>9, <1>10

\* The first node leaves; of the last one the counter says that it was the last.
LEMMA GetUnlinks ==
    ASSUME NEW q \in Threads!Queue, NEW s \in Seq(Node), Linked(q, s), s # <<>>
    PROVE  /\ Threads!QueueGet(q) \in Threads!Queue /\ Linked(Threads!QueueGet(q), Tail(s))
           /\ q.size > 0 /\ q.head = s[1] /\ s[1] \in Node
           /\ Threads!QueueGet(q).pnext = q.pnext /\ Threads!QueueGet(q).head = q.pnext[s[1]]
           /\ Len(s) > 1 => Threads!QueueGet(q).tail = q.tail
<1> DEFINE r == Threads!QueueGet(q)
           t == Tail(s)
<1>1. /\ q.head \in Threads!Pointer /\ q.tail \in Threads!Pointer /\ q.size \in Nat
      /\ q.pnext \in [Node -> Threads!Pointer]
  BY DEF Threads!Queue
<1>2. /\ Len(s) \in Nat \ {0} /\ t \in Seq(Node) /\ Len(t) = Len(s) - 1
      /\ \A i \in 1..Len(t) : t[i] = s[i + 1] /\ i + 1 \in 1..Len(s)
      /\ \A i \in 1..Len(s) : s[i] \in Node
  OBVIOUS
<1>3. q.size = Len(s) /\ q.head = s[1] /\ q.tail = s[Len(s)] /\ q.head \in Node
  BY <1>2 DEF Linked
<1>4. q.pnext[q.head] \in Threads!Pointer
  BY <1>1, <1>3
<1>5. /\ r.head = q.pnext[q.head] /\ r.tail = (IF q.pnext[q.head] = NULL THEN NULL ELSE q.tail)
      /\ r.size = q.size - 1 /\ r.pnext = q.pnext
      /\ r = [head |-> r.head, tail |-> r.tail, size |-> r.size, pnext |-> r.pnext]
  BY <1>2, <1>3 DEF Threads!QueueGet, Threads!Queue
<1> HIDE DEF r, t
<1>6. r \in Threads!Queue
  <2>1. /\ r.head \in Threads!Pointer /\ r.tail \in Threads!Pointer /\ r.size \in Nat
        /\ r.pnext \in [Node -> Threads!Pointer]
    BY <1>1, <1>2, <1>3, <1>4, <1>5 DEF Threads!Pointer
  <2> QED BY <1>5, <2>1 DEF Threads!Queue
<1>7. Len(s) > 1 => q.pnext[s[1]] = s[2] /\ s[2] # NULL
  BY <1>2, Threads!NullAssumption DEF Linked
<1>8. Linked(r, t)
  <2>1. r.size = Len(t)
    BY <1>2, <1>3, <1>5
  <2>2. \A i, j \in 1..Len(t) : t[i] = t[j] => i = j
    <3> SUFFICES ASSUME NEW i \in 1..Len(t), NEW j \in 1..Len(t), t[i] = t[j] PROVE i = j
      OBVIOUS
    <3>1. i + 1 = j + 1
      BY <1>2 DEF Linked
    <3> QED BY <3>1
  <2>3. ASSUME t # <<>> PROVE r.head = t[1] /\ r.tail = t[Len(t)]
    <3>1. Len(t) >= 1 /\ Len(s) > 1
      BY <1>2, <2>3
    <3>2. t[1] = s[2] /\ t[Len(t)] = s[Len(s)]
      BY <1>2, <3>1
    <3> QED BY <1>3, <1>5, <1>7, <3>1, <3>2
  <2>4. ASSUME NEW i \in 1..Len(t) - 1 PROVE r.pnext[t[i]] = t[i + 1]
    <3>1. i \in 1..Len(t) /\ i + 1 \in 1..Len(t) /\ i + 1 \in 1..Len(s) - 1
      BY <1>2
    <3>2. t[i] = s[i + 1] /\ t[i + 1] = s[(i + 1) + 1]
      BY <1>2, <3>1
    <3>3. q.pnext[s[i + 1]] = s[(i + 1) + 1]
      BY <3>1 DEF Linked
    <3> QED BY <1>5, <3>2, <3>3
  <2> QED BY <2>1, <2>2, <2>3, <2>4 DEF Linked
<1> QED BY <1>2, <1>3, <1>5, <1>6, <1>7, <1>8 DEF r, t

-----------------------------------------------------------------------------
\* Following the links from the head gives the nodes of s.
LEMMA ListedIsS ==
    ASSUME NEW s \in Seq(Node), Linked(que, s)
    PROVE  Threads!Listed = {n \in Node : In(n, s)}
<1> DEFINE D == 1..que.size
           At(f) == [i \in D |-> IF i = 1 THEN que.head ELSE que.pnext[f[i - 1]]]
           at == CHOOSE f : f = At(f)
           g == [i \in D |-> s[i]]
<1>1. Threads!Listed = {at[i] : i \in D}
  BY DEF Threads!Listed
<1>2. que.size = Len(s) /\ Len(s) \in Nat /\ \A i \in D : s[i] \in Node
  BY DEF Linked
<1>3. \A i \in D : s[i] = IF i = 1 THEN que.head ELSE que.pnext[s[i - 1]]
  <2> SUFFICES ASSUME NEW i \in D PROVE s[i] = IF i = 1 THEN que.head ELSE que.pnext[s[i - 1]]
    OBVIOUS
  <2>1. CASE i = 1
    BY <1>2, <2>1 DEF Linked
  <2>2. CASE i # 1
    <3>1. i - 1 \in 1..Len(s) - 1 /\ (i - 1) + 1 = i
      BY <1>2, <2>2
    <3> QED BY <2>2, <3>1 DEF Linked
  <2> QED BY <2>1, <2>2
<1>4. g = At(g)
  <2>1. \A i \in D : i # 1 => i - 1 \in D
    BY <1>2
  <2>2. \A i \in D : g[i] = IF i = 1 THEN que.head ELSE que.pnext[g[i - 1]]
    BY <1>3, <2>1
  <2>3. g = [i \in D |-> g[i]]
    OBVIOUS
  <2> HIDE DEF g
  <2> QED BY <2>2, <2>3
<1>5. at = At(at)
  BY <1>4
<1> HIDE DEF at, g
<1>6. \A i \in D : at[i] = IF i = 1 THEN que.head ELSE que.pnext[at[i - 1]]
  BY <1>5
<1>7. \A i \in D : at[i] = s[i]
  <2> DEFINE T == {i \in D : at[i] # s[i]}
  <2>1. T \subseteq Nat
    BY <1>2
  <2>2. ASSUME T # {} PROVE FALSE
    <3>1. PICK i \in T : \A k \in T : i <= k
      BY <2>1, <2>2, Smallest
    <3>2. i \in D /\ i \in Nat /\ at[i] # s[i]
      BY <1>2
    <3>3. i # 1
      BY <1>3, <1>6, <3>2
    <3>4. i - 1 \in D /\ ~(i <= i - 1)
      BY <1>2, <3>2, <3>3
    <3>5. at[i - 1] = s[i - 1]
      BY <3>1, <3>4
    <3> QED BY <1>3, <1>6, <3>2, <3>3, <3>5
  <2> QED BY <2>2
<1> QED BY <1>1, <1>2, <1>7 DEF In

-----------------------------------------------------------------------------
LEMMA FactoryStarts == ASSUME Threads!FactoryAssumption, Threads!FactoryInit PROVE FactoryInv
<1>1. Linked(que, <<>>) /\ que \in Threads!Queue /\ Threads!Sound
  <2>1. que.size = 0 /\ que.head = NULL
    BY DEF Threads!FactoryInit, Threads!QueueInit
  <2>2. que \in Threads!Queue
    BY DEF Threads!FactoryInit, Threads!QueueInit, Threads!Queue, Threads!Pointer
  <2> QED BY <2>1, <2>2 DEF Linked, Threads!Sound
<1>2. FactoryType
  BY <1>1 DEF FactoryType, Threads!FactoryInit, Threads!Pointer
<1>3. Shared(<<>>)
  BY Threads!NullAssumption DEF Threads!FactoryInit, Shared, In
<1>4. Owned /\ ThreadsStand
  BY DEF Threads!FactoryInit, Owned, ThreadsStand
<1>5. que.size = 0
  BY DEF Threads!FactoryInit, Threads!QueueInit
<1>6. Ends /\ Threads!QueueIsSeen
  BY <1>1, <1>5 DEF Ends, Threads!QueueIsSeen
<1>7. <<>> \in Seq(Node)
  OBVIOUS
<1> QED BY <1>1, <1>2, <1>3, <1>4, <1>6, <1>7 DEF FactoryInv

\* What most actions leave alone: the queue, who has which node and which connection.
LEMMA QueueStays ==
    ASSUME FactoryInv, Threads!Sound,
           que' = que, fd' = fd, pcur' = pcur, version' = version,
           \A c \in Client : client'[c] = "taken" <=> client[c] = "taken"
    PROVE  Ends' /\ (FactoryType => Owned') /\ \E s \in Seq(Node) : Linked(que, s)' /\ Shared(s)'
<1>1. Ends'
  BY DEF FactoryInv, Ends, Threads!Sound
<1>2. ASSUME FactoryType PROVE Owned'
  <2>1. \A n \in Node : fd[n] # NULL => fd[n] \in Client
    BY <1>2 DEF FactoryType
  <2> QED BY <2>1 DEF FactoryInv, Owned
<1>3. PICK s \in Seq(Node) : Linked(que, s) /\ Shared(s)
  BY DEF FactoryInv
<1>4. Linked(que', s) /\ Shared(s)'
  BY <1>3 DEF Linked, Shared, In
<1> QED BY <1>1, <1>2, <1>3, <1>4

LEMMA AcceptStep ==
    ASSUME Threads!FactoryAssumption, FactoryInv, Threads!Sound, NEW c \in Client, NEW n \in Node,
           Threads!Accept(c, n)
    PROVE  FactoryInv'
<1>1. FactoryType /\ ThreadsStand /\ Ends /\ Owned
  BY DEF FactoryInv
<1>2. PICK s \in Seq(Node) : Linked(que, s) /\ Shared(s)
  BY DEF FactoryInv
<1>3. /\ main = "wait" /\ client[c] = "backlog" /\ fd[n] = NULL
      /\ client' = [client EXCEPT ![c] = "taken"] /\ fd' = [fd EXCEPT ![n] = c]
      /\ version' = version /\ gone' = gone /\ main' = main /\ mutex' = mutex /\ pcur' = pcur
      /\ quit' = quit /\ cancel' = cancel
  BY DEF Threads!Accept
<1>4. PICK link \in {NULL, que.pnext[n]} :
          /\ version.zeroed => link = NULL
          /\ que' = Threads!QueueSet([que EXCEPT !.pnext = [@ EXCEPT ![n] = link]], n)
  BY DEF Threads!Accept
<1>5. que \in Threads!Queue /\ link \in Threads!Pointer
  BY <1>1 DEF FactoryType, Threads!Queue, Threads!Pointer
<1>6. ~In(n, s) /\ \A t \in Worker : pcur[t] # n
  BY <1>2, <1>3 DEF Shared
<1>7. que.size = 0 => que.head = NULL
  BY DEF Threads!Sound
<1> DEFINE u == Append(s, n)
<1>8. /\ que' \in Threads!Queue /\ Linked(que', u) /\ u \in Seq(Node)
      /\ que'.size > 0 /\ que'.tail = n /\ que'.pnext[n] = link
  BY <1>2, <1>4, <1>5, <1>6, <1>7, SetLinks
<1>9. \A m \in Node : In(m, u) <=> In(m, s) \/ m = n
  <2>1. /\ Len(s) \in Nat /\ Len(u) = Len(s) + 1 /\ u[Len(s) + 1] = n
        /\ \A i \in 1..Len(s) : u[i] = s[i]
    OBVIOUS
  <2> HIDE DEF u
  <2>2. \A i \in 1..Len(u) : i \in 1..Len(s) \/ i = Len(s) + 1
    BY <2>1
  <2>3. (1..Len(s)) \subseteq 1..Len(u) /\ Len(s) + 1 \in 1..Len(u)
    BY <2>1
  <2> QED BY <2>1, <2>2, <2>3 DEF In
<1>10. Ends'
  BY <1>3, <1>4, <1>8 DEF Ends, Threads!Sound
<1>11. pc' \in [Worker -> {"lock", "wait", "woken", "serve", "ended"}]
       /\ (\A t \in Worker : pc'[t] = pc[t] \/ (pc[t] = "wait" /\ pc'[t] = "woken"))
       /\ ((\E t \in Worker : pc[t] = "wait") => \E t \in Worker : pc'[t] = "woken")
  <2>1. pc \in [Worker -> {"lock", "wait", "woken", "serve", "ended"}]
    BY <1>1 DEF FactoryType
  <2>2. CASE \E t \in Worker : pc[t] = "wait"
    <3>1. PICK t \in Worker : pc[t] = "wait" /\ pc' = [pc EXCEPT ![t] = "woken"]
      BY <2>2 DEF Threads!Accept
    <3> QED BY <2>1, <3>1
  <2>3. CASE ~\E t \in Worker : pc[t] = "wait"
    <3>1. pc' = pc
      BY <2>3 DEF Threads!Accept
    <3> QED BY <2>1, <2>3, <3>1
  <2> QED BY <2>2, <2>3
<1>12. FactoryType'
  BY <1>1, <1>3, <1>8, <1>11 DEF FactoryType
<1>13. ThreadsStand'
  BY <1>1, <1>3, <1>11 DEF ThreadsStand
<1>14. Shared(u)'
  <2> HIDE DEF u
  <2>1. \A m \in Node : fd'[m] = IF m = n THEN c ELSE fd[m]
    BY <1>1, <1>3 DEF FactoryType
  <2>2. c # NULL /\ n # NULL
    BY Threads!NullAssumption DEF Threads!FactoryAssumption
  <2> QED BY <1>2, <1>3, <1>6, <1>9, <2>1, <2>2 DEF Shared, In
<1>15. Owned'
  <2>1. \A m \in Node : fd'[m] = IF m = n THEN c ELSE fd[m]
    BY <1>1, <1>3 DEF FactoryType
  <2>2. \A d \in Client : client'[d] = IF d = c THEN "taken" ELSE client[d]
    BY <1>1, <1>3 DEF FactoryType
  <2>3. \A m \in Node : fd[m] # NULL => fd[m] \in Client /\ fd[m] # c
    BY <1>1, <1>3 DEF FactoryType, Owned
  <2>4. c # NULL
    BY DEF Threads!FactoryAssumption
  <2>5. \A m \in Node : fd'[m] # NULL => client'[fd'[m]] = "taken"
    <3> SUFFICES ASSUME NEW m \in Node, fd'[m] # NULL PROVE client'[fd'[m]] = "taken"
      OBVIOUS
    <3>1. fd'[m] \in Client /\ (m # n => fd[m] # c /\ client[fd[m]] = "taken")
      BY <1>1, <2>1, <2>3 DEF Owned
    <3> QED BY <2>1, <2>2, <3>1
  <2>6. \A m, o \in Node : fd'[m] = fd'[o] /\ fd'[m] # NULL => m = o
    BY <1>1, <2>1, <2>3, <2>4 DEF Owned
  <2>7. \A d \in Client : client'[d] = "taken" => \E m \in Node : fd'[m] = d
    <3> SUFFICES ASSUME NEW d \in Client, client'[d] = "taken" PROVE \E m \in Node : fd'[m] = d
      OBVIOUS
    <3>1. CASE d = c
      BY <2>1, <3>1
    <3>2. CASE d # c
      <4>1. PICK m \in Node : fd[m] = d
        BY <1>1, <2>2, <3>2 DEF Owned
      <4>2. m # n
        BY <1>3, <4>1 DEF Threads!FactoryAssumption
      <4> QED BY <2>1, <4>1, <4>2
    <3> QED BY <3>1, <3>2
  <2> QED BY <2>5, <2>6, <2>7 DEF Owned
<1>16. Threads!QueueIsSeen'
  <2>1. \A t \in Worker : pc[t] # "ended"
    BY <1>1, <1>3 DEF ThreadsStand
  <2>2. PICK t \in Worker : TRUE
    BY DEF Threads!FactoryAssumption
  <2>3. CASE \E w \in Worker : pc[w] = "wait"
    BY <1>11, <2>3 DEF Threads!QueueIsSeen
  <2>4. CASE \A w \in Worker : pc[w] # "wait"
    <3>1. pc'[t] \in {"lock", "woken", "serve"}
      BY <1>1, <1>11, <2>1, <2>2, <2>4 DEF FactoryType
    <3> QED BY <3>1 DEF Threads!QueueIsSeen
  <2> QED BY <2>3, <2>4
<1> HIDE DEF u
<1>17. \E w \in Seq(Node) : Linked(que, w)' /\ Shared(w)'
  BY <1>8, <1>14
<1> QED BY <1>10, <1>12, <1>13, <1>15, <1>16, <1>17 DEF FactoryInv

LEMMA GetStep ==
    ASSUME Threads!FactoryAssumption, FactoryInv, Threads!Sound, NEW t \in Worker, Threads!Get(t)
    PROVE  FactoryInv'
<1>1. FactoryType /\ ThreadsStand /\ Ends /\ Owned
  BY DEF FactoryInv
<1>2. PICK s \in Seq(Node) : Linked(que, s) /\ Shared(s)
  BY DEF FactoryInv
<1>3. /\ pc[t] \in {"lock", "woken"} /\ pcur[t] = NULL
      /\ que' = Threads!QueueGet(que) /\ pcur' = [pcur EXCEPT ![t] = Threads!Taken(que, pcur[t])]
      /\ pc' = [pc EXCEPT ![t] = IF que.size > 0 THEN "serve" ELSE "lock"]
      /\ version' = version /\ fd' = fd /\ client' = client /\ gone' = gone /\ main' = main
      /\ mutex' = mutex /\ quit' = quit /\ cancel' = cancel
  BY <1>1 DEF Threads!Get, ThreadsStand
<1>4. que \in Threads!Queue /\ pcur \in [Worker -> Threads!Pointer] /\ que.size \in Nat
  BY <1>1 DEF FactoryType, Threads!Queue
<1>5. Owned'
  BY <1>1, <1>3 DEF Owned
<1>6. CASE que.size = 0
  <2>1. que' = que
    BY <1>3, <1>6 DEF Threads!QueueGet
  <2>2. pcur' = pcur
    BY <1>3, <1>4, <1>6 DEF Threads!Taken
  <2>3. FactoryType'
    BY <1>1, <1>3, <1>6, <2>1, <2>2 DEF FactoryType
  <2>4. ThreadsStand'
    <3>1. pc' = [pc EXCEPT ![t] = "lock"]
      BY <1>3, <1>6
    <3> QED BY <1>1, <1>3, <2>2, <3>1 DEF ThreadsStand, FactoryType
  <2>5. Ends' /\ \E r \in Seq(Node) : Linked(que, r)' /\ Shared(r)'
    BY <1>3, <2>1, <2>2, QueueStays
  <2>6. Threads!QueueIsSeen'
    BY <1>6, <2>1 DEF Threads!QueueIsSeen
  <2> QED BY <1>5, <2>3, <2>4, <2>5, <2>6 DEF FactoryInv
<1>7. CASE que.size # 0
  <2>1. s # <<>> /\ que.size = Len(s) /\ Len(s) \in Nat
    BY <1>2, <1>7 DEF Linked
  <2> DEFINE u == Tail(s)
  <2>2. /\ que' \in Threads!Queue /\ Linked(que', u)
        /\ que.head = s[1] /\ s[1] \in Node
        /\ que'.pnext = que.pnext /\ que'.head = que.pnext[s[1]]
        /\ Len(s) > 1 => que'.tail = que.tail
    BY <1>2, <1>3, <1>4, <2>1, GetUnlinks
  <2>3. u \in Seq(Node) /\ Len(u) = Len(s) - 1 /\ \A i \in 1..Len(u) : u[i] = s[i + 1]
    BY <2>1
  <2>4. \A i, j \in 1..Len(s) : s[i] = s[j] => i = j
    BY <1>2 DEF Linked
  <2>5. que.tail = s[Len(s)] /\ que'.size = Len(s) - 1
    BY <1>2, <2>1, <2>2, <2>3 DEF Linked
  <2> HIDE DEF u
  <2>6. \A m \in Node : In(m, u) <=> In(m, s) /\ m # s[1]
    <3>1. ASSUME NEW m \in Node, In(m, u) PROVE In(m, s) /\ m # s[1]
      <4>1. PICK i \in 1..Len(u) : u[i] = m
        BY <3>1 DEF In
      <4>2. i + 1 \in 1..Len(s) /\ 1 \in 1..Len(s) /\ i + 1 # 1 /\ s[i + 1] = m
        BY <2>1, <2>3, <4>1
      <4> QED BY <2>4, <4>2 DEF In
    <3>2. ASSUME NEW m \in Node, In(m, s), m # s[1] PROVE In(m, u)
      <4>1. PICK i \in 1..Len(s) : s[i] = m
        BY <3>2 DEF In
      <4>2. i - 1 \in 1..Len(u) /\ (i - 1) + 1 = i
        BY <2>1, <2>3, <3>2, <4>1
      <4> QED BY <2>3, <4>1, <4>2 DEF In
    <3> QED BY <3>1, <3>2
  <2>7. pcur' = [pcur EXCEPT ![t] = s[1]] /\ pc' = [pc EXCEPT ![t] = "serve"]
    <3>1. que.size > 0
      BY <1>4, <1>7
    <3>2. Threads!Taken(que, pcur[t]) = s[1]
      BY <1>7, <2>2 DEF Threads!Taken
    <3> QED BY <1>3, <3>1, <3>2
  <2>8. s[1] \in Threads!Pointer /\ s[1] # NULL
    BY <2>2, Threads!NullAssumption DEF Threads!Pointer
  <2>9. FactoryType'
    BY <1>1, <1>3, <2>2, <2>7, <2>8 DEF FactoryType
  <2>10. ThreadsStand'
    BY <1>1, <1>3, <2>7, <2>8 DEF ThreadsStand, FactoryType
  <2>11. Ends'
    <3> SUFFICES ASSUME version.zeroed
                 PROVE  Threads!Sound' /\ (que'.size > 0 => que'.pnext[que'.tail] = NULL)
      BY <1>3 DEF Ends
    <3>1. que.pnext[s[Len(s)]] = NULL
      BY <1>1, <2>1, <2>5 DEF Ends
    <3>2. CASE Len(s) = 1
      BY <2>2, <2>5, <3>1, <3>2 DEF Threads!Sound
    <3>3. CASE Len(s) # 1
      <4>1. Len(s) > 1 /\ Len(s) - 1 # 0
        <5>1. Len(s) # 0 /\ Len(s) # 1 /\ Len(s) \in Nat
          BY <1>7, <2>1, <3>3
        <5>2. \A k \in Nat : k # 0 /\ k # 1 => k > 1 /\ k - 1 # 0
          OBVIOUS
        <5> QED BY <5>1, <5>2
      <4> QED BY <2>2, <2>5, <3>1, <4>1 DEF Threads!Sound
    <3> QED BY <3>2, <3>3
  <2>12. Shared(u)'
    <3>1. In(s[1], s)
      <4>1. 1 \in 1..Len(s)
        BY <1>7, <2>1
      <4> QED BY <4>1 DEF In
    <3>2. \A w \in Worker : pcur'[w] = IF w = t THEN s[1] ELSE pcur[w]
      BY <1>4, <2>7
    <3>3. \A n \in Node : fd'[n] # NULL <=> In(n, s) \/ \E w \in Worker : pcur[w] = n
      BY <1>2, <1>3 DEF Shared
    <3>4. \A w \in Worker : pcur[w] # s[1]
      BY <1>2, <2>2, <3>1 DEF Shared
    <3>5. \A n \in Node : (\E w \in Worker : pcur'[w] = n)
                           <=> n = s[1] \/ \E w \in Worker : pcur[w] = n
      BY <1>3, <2>8, <3>2, Threads!NullAssumption
    <3>6. \A n \in Node : fd'[n] # NULL <=> In(n, u) \/ \E w \in Worker : pcur'[w] = n
      BY <2>6, <3>1, <3>3, <3>5
    <3>7. \A n \in Node, w \in Worker : pcur'[w] = n => ~In(n, u)
      BY <1>2, <2>6, <3>2 DEF Shared
    <3>8. \A v, w \in Worker : pcur'[v] = pcur'[w] /\ pcur'[v] # NULL => v = w
      BY <1>2, <3>2, <3>4 DEF Shared
    <3> QED BY <3>6, <3>7, <3>8 DEF Shared, In
  <2>13. Threads!QueueIsSeen'
    BY <1>1, <2>7 DEF Threads!QueueIsSeen, FactoryType
  <2>14. \E r \in Seq(Node) : Linked(que, r)' /\ Shared(r)'
    BY <2>2, <2>3, <2>12
  <2> QED BY <1>5, <2>9, <2>10, <2>11, <2>13, <2>14 DEF FactoryInv
<1> QED BY <1>6, <1>7

LEMMA ServeStep ==
    ASSUME Threads!FactoryAssumption, FactoryInv, Threads!Sound, NEW t \in Worker, Threads!Serve(t)
    PROVE  FactoryInv'
<1>1. FactoryType /\ ThreadsStand /\ Ends /\ Owned
  BY DEF FactoryInv
<1>2. PICK s \in Seq(Node) : Linked(que, s) /\ Shared(s)
  BY DEF FactoryInv
<1>3. /\ pc[t] = "serve" /\ pc' = [pc EXCEPT ![t] = "lock"]
      /\ client' = [client EXCEPT ![fd[pcur[t]]] = "served"]
      /\ fd' = [fd EXCEPT ![pcur[t]] = NULL] /\ pcur' = [pcur EXCEPT ![t] = NULL]
      /\ version' = version /\ que' = que /\ gone' = gone /\ main' = main
      /\ mutex' = mutex /\ quit' = quit /\ cancel' = cancel
  BY DEF Threads!Serve
<1>4. PICK n \in Node : pcur[t] = n /\ n # NULL /\ ~In(n, s) /\ fd[n] # NULL
  <2>1. pcur[t] # NULL /\ pcur[t] \in Threads!Pointer
    BY <1>1, <1>3 DEF ThreadsStand, FactoryType
  <2>2. pcur[t] \in Node
    BY <2>1 DEF Threads!Pointer
  <2>3. ~In(pcur[t], s) /\ fd[pcur[t]] # NULL
    BY <1>2, <2>2 DEF Shared
  <2> QED BY <2>1, <2>2, <2>3
<1>5. PICK c \in Client : fd[n] = c /\ c # NULL /\ client[c] = "taken"
  BY <1>1, <1>4 DEF FactoryType, Owned
<1>6. \A m \in Node : fd'[m] = IF m = n THEN NULL ELSE fd[m]
  BY <1>1, <1>3, <1>4 DEF FactoryType
<1>7. \A d \in Client : client'[d] = IF d = c THEN "served" ELSE client[d]
  BY <1>1, <1>3, <1>4, <1>5 DEF FactoryType
<1>8. \A w \in Worker : pcur'[w] = IF w = t THEN NULL ELSE pcur[w]
  BY <1>1, <1>3 DEF FactoryType
<1>9. FactoryType'
  <2>1. client' \in [Client -> {"away", "backlog", "taken", "served"}]
    BY <1>1, <1>3, <1>4, <1>5 DEF FactoryType
  <2>2. fd' \in [Node -> Client \cup {NULL}] /\ pcur' \in [Worker -> Threads!Pointer]
    BY <1>1, <1>3 DEF FactoryType, Threads!Pointer
  <2>3. pc' \in [Worker -> {"lock", "wait", "woken", "serve", "ended"}]
    BY <1>1, <1>3 DEF FactoryType
  <2> QED BY <1>1, <1>3, <2>1, <2>2, <2>3 DEF FactoryType
<1>10. ThreadsStand'
  BY <1>1, <1>3, <1>8 DEF ThreadsStand, FactoryType
<1>11. Ends'
  BY <1>1, <1>3 DEF Ends, Threads!Sound
<1>12. Owned'
  <2>1. \A m \in Node : fd[m] = c => m = n
    BY <1>1, <1>5 DEF Owned
  <2>2. \A m \in Node : fd'[m] # NULL => fd'[m] \in Client /\ fd'[m] # c /\ m # n
    BY <1>1, <1>6, <2>1 DEF FactoryType
  <2>3. \A m \in Node : fd'[m] # NULL => client'[fd'[m]] = "taken"
    BY <1>1, <1>6, <1>7, <2>2 DEF Owned
  <2>4. \A m, o \in Node : fd'[m] = fd'[o] /\ fd'[m] # NULL => m = o
    BY <1>1, <1>6 DEF Owned
  <2>5. \A d \in Client : client'[d] = "taken" => \E m \in Node : fd'[m] = d
    <3> SUFFICES ASSUME NEW d \in Client, client'[d] = "taken" PROVE \E m \in Node : fd'[m] = d
      OBVIOUS
    <3>1. d # c /\ client[d] = "taken"
      BY <1>7
    <3>2. PICK m \in Node : fd[m] = d
      BY <1>1, <3>1 DEF Owned
    <3>3. m # n
      BY <1>5, <3>1, <3>2
    <3> QED BY <1>6, <3>2, <3>3
  <2> QED BY <2>3, <2>4, <2>5 DEF Owned
<1>13. Shared(s)'
  <2>1. \A m \in Node : m # NULL
    BY Threads!NullAssumption
  <2>2. \A m \in Node : fd'[m] # NULL <=> In(m, s) \/ \E w \in Worker : pcur'[w] = m
    <3>1. ~\E w \in Worker : pcur'[w] = n
      BY <1>2, <1>4, <1>8, <2>1 DEF Shared
    <3>2. \A m \in Node : m # n => ((\E w \in Worker : pcur'[w] = m) <=> \E w \in Worker : pcur[w] = m)
      BY <1>4, <1>8, <2>1
    <3> QED BY <1>2, <1>4, <1>6, <3>1, <3>2 DEF Shared
  <2> QED BY <1>2, <1>8, <2>1, <2>2 DEF Shared, In
<1>14. Threads!QueueIsSeen'
  BY <1>1, <1>3 DEF Threads!QueueIsSeen, FactoryType
<1>15. Linked(que, s)'
  BY <1>2, <1>3 DEF Linked
<1> QED BY <1>9, <1>10, <1>11, <1>12, <1>13, <1>14, <1>15 DEF FactoryInv

\* The threads' steps that touch neither the queue nor a connection.
LEMMA ThreadStep ==
    ASSUME Threads!FactoryAssumption, FactoryInv, Threads!Sound, NEW t \in Worker,
           Threads!Wait(t) \/ Threads!SpuriousWakeup(t) \/ Threads!Cancelled(t) \/ Threads!Broken(t)
    PROVE  FactoryInv'
<1>1. FactoryType /\ ThreadsStand /\ Owned /\ Threads!QueueIsSeen
  BY DEF FactoryInv
<1>2. /\ version' = version /\ que' = que /\ fd' = fd /\ client' = client
      /\ mutex' = mutex /\ pcur' = pcur /\ quit' = quit /\ cancel' = cancel
  BY DEF Threads!Wait, Threads!SpuriousWakeup, Threads!Cancelled, Threads!Broken
<1>3. Ends' /\ Owned' /\ \E s \in Seq(Node) : Linked(que, s)' /\ Shared(s)'
  BY <1>1, <1>2, QueueStays
<1>4. FactoryType' /\ ThreadsStand' /\ Threads!QueueIsSeen'
  <2>1. CASE Threads!Wait(t)
    <3>1. /\ main' = main /\ que.size = 0 /\ pc[t] = "lock" /\ pc' = [pc EXCEPT ![t] = "wait"]
      BY <2>1 DEF Threads!Wait
    <3>2. Threads!QueueIsSeen'
      BY <1>2, <3>1 DEF Threads!QueueIsSeen
    <3> QED BY <1>1, <1>2, <3>1, <3>2 DEF FactoryType, ThreadsStand
  <2>2. CASE Threads!SpuriousWakeup(t)
    <3>1. /\ main' = main /\ pc[t] = "wait" /\ pc' = [pc EXCEPT ![t] = "woken"]
      BY <2>2 DEF Threads!SpuriousWakeup
    <3>2. Threads!QueueIsSeen'
      BY <1>1, <3>1 DEF Threads!QueueIsSeen, FactoryType
    <3> QED BY <1>1, <1>2, <3>1, <3>2 DEF FactoryType, ThreadsStand
  <2>3. CASE Threads!Cancelled(t)
    <3>1. /\ main' = main /\ cancel /\ pc' = [pc EXCEPT ![t] = "ended"]
      BY <2>3 DEF Threads!Cancelled
    <3>2. Threads!QueueIsSeen'
      BY <1>1, <3>1 DEF Threads!QueueIsSeen, ThreadsStand
    <3> QED BY <1>1, <1>2, <3>1, <3>2 DEF FactoryType, ThreadsStand
  <2>4. CASE Threads!Broken(t)
    <3>1. main' = "dead" /\ pc' = pc
      BY <2>4 DEF Threads!Broken
    <3> QED BY <1>1, <1>2, <3>1 DEF FactoryType, ThreadsStand, Threads!QueueIsSeen
  <2> QED BY <2>1, <2>2, <2>3, <2>4
<1> QED BY <1>3, <1>4 DEF FactoryInv

\* What happens outside the threads: clients come and leave, SIGQUIT, the exit of main.
LEMMA OutsideStep ==
    ASSUME Threads!FactoryAssumption, FactoryInv, Threads!Sound,
           (\E c \in Client : Threads!Connect(c) \/ Threads!Leave(c)) \/ Threads!Quit \/ Threads!Exit \/ Threads!Joined
    PROVE  FactoryInv'
<1>1. FactoryType /\ ThreadsStand /\ Owned /\ Threads!QueueIsSeen
  BY DEF FactoryInv
<1>2. /\ version' = version /\ que' = que /\ fd' = fd /\ mutex' = mutex /\ pc' = pc /\ pcur' = pcur
  BY DEF Threads!Connect, Threads!Leave, Threads!Quit, Threads!Exit, Threads!Joined
<1>3. /\ client' \in [Client -> {"away", "backlog", "taken", "served"}]
      /\ \A c \in Client : client'[c] = "taken" <=> client[c] = "taken"
  <2>1. CASE \E c \in Client : Threads!Connect(c)
    <3>1. PICK c \in Client : client[c] = "away" /\ client' = [client EXCEPT ![c] = "backlog"]
      BY <2>1 DEF Threads!Connect
    <3> QED BY <1>1, <3>1 DEF FactoryType
  <2>2. CASE ~\E c \in Client : Threads!Connect(c)
    <3>1. client' = client
      BY <2>2 DEF Threads!Leave, Threads!Quit, Threads!Exit, Threads!Joined
    <3> QED BY <1>1, <3>1 DEF FactoryType
  <2> QED BY <2>1, <2>2
<1>4. Ends' /\ Owned' /\ \E s \in Seq(Node) : Linked(que, s)' /\ Shared(s)'
  BY <1>1, <1>2, <1>3, QueueStays
<1>5. /\ main' \in {"wait", "join", "exited", "dead"} /\ quit' \in BOOLEAN /\ cancel' \in BOOLEAN
      /\ (cancel => cancel') /\ (cancel' => main' # "wait") /\ (main' = "wait" => main = "wait")
  <2>1. CASE Threads!Exit
    BY <1>1, <2>1 DEF Threads!Exit, FactoryType, ThreadsStand
  <2>2. CASE Threads!Joined
    BY <1>1, <2>2 DEF Threads!Joined, FactoryType, ThreadsStand
  <2>3. CASE Threads!Quit
    BY <1>1, <2>3 DEF Threads!Quit, FactoryType, ThreadsStand
  <2>4. CASE \E c \in Client : Threads!Connect(c) \/ Threads!Leave(c)
    BY <1>1, <2>4 DEF Threads!Connect, Threads!Leave, FactoryType, ThreadsStand
  <2> QED BY <2>1, <2>2, <2>3, <2>4
<1>6. FactoryType' /\ ThreadsStand' /\ Threads!QueueIsSeen'
  BY <1>1, <1>2, <1>3, <1>5 DEF FactoryType, ThreadsStand, Threads!QueueIsSeen, Threads!Sound
<1> QED BY <1>4, <1>6 DEF FactoryInv

LEMMA FactoryStep ==
    ASSUME Threads!FactoryAssumption
    PROVE  FactoryInv /\ [Threads!FactoryNext]_(Threads!factoryVars) => FactoryInv'
<1> SUFFICES ASSUME FactoryInv, [Threads!FactoryNext]_(Threads!factoryVars) PROVE FactoryInv'
  OBVIOUS
<1>1. CASE Threads!FactoryNext
  <2>1. Threads!Sound
    BY <1>1 DEF Threads!FactoryNext
  <2>2. CASE \E c \in Client, n \in Node : Threads!Accept(c, n)
    BY <2>1, <2>2, AcceptStep
  <2>3. CASE (\E c \in Client : Threads!Connect(c) \/ Threads!Leave(c)) \/ Threads!Quit \/ Threads!Exit \/ Threads!Joined
    BY <2>1, <2>3, OutsideStep
  <2>4. CASE \E t \in Worker : \/ Threads!Wait(t) \/ Threads!SpuriousWakeup(t) \/ Threads!Get(t)
                               \/ Threads!Serve(t) \/ Threads!Broken(t) \/ Threads!Cancelled(t)
    BY <2>1, <2>4, GetStep, ServeStep, ThreadStep
  <2> QED BY <1>1, <2>2, <2>3, <2>4 DEF Threads!FactoryNext
<1>2. CASE UNCHANGED Threads!factoryVars
  BY <1>2 DEF Threads!factoryVars, FactoryInv, FactoryType, Ends, ThreadsStand, Owned, Linked, Shared, In,
              Threads!Sound, Threads!QueueIsSeen
<1> QED BY <1>1, <1>2

\* The invariant of the earlier thread pools.
THEOREM FactoryInvariance ==
    ASSUME Threads!FactoryAssumption
    PROVE  Threads!FactorySpec => []FactoryInv
BY FactoryStarts, FactoryStep, PTL DEF Threads!FactorySpec

LEMMA FactoryTakenOnce == ASSUME Threads!FactoryAssumption, FactoryInv PROVE Threads!TakenOnce
<1>1. version.zeroed => Threads!Sound
  BY DEF FactoryInv, Ends
<1>2. ASSUME Threads!Sound, NEW c \in Client, client[c] = "taken"
      PROVE  \E n \in Node : /\ \A m \in Node : fd[m] = c <=> m = n
                             /\ Cardinality({t \in Worker : pcur[t] = n})
                                = IF n \in Threads!Listed THEN 0 ELSE 1
  <2>1. Owned /\ c # NULL
    BY <1>2 DEF FactoryInv, Threads!FactoryAssumption
  <2>2. PICK s \in Seq(Node) : Linked(que, s) /\ Shared(s)
    BY <1>2 DEF FactoryInv
  <2>3. PICK n \in Node : fd[n] = c
    BY <1>2, <2>1 DEF Owned
  <2>4. \A m \in Node : fd[m] = c <=> m = n
    BY <2>1, <2>3 DEF Owned
  <2>5. n \in Threads!Listed <=> In(n, s)
    <3>1. Threads!Listed = {m \in Node : In(m, s)}
      BY <2>2, ListedIsS
    <3> QED BY <3>1
  <2> DEFINE H == {t \in Worker : pcur[t] = n}
  <2>6. CASE In(n, s)
    <3>1. H = {}
      BY <2>2, <2>6 DEF Shared
    <3>2. Cardinality(H) = 0
      BY <3>1, FS_EmptySet
    <3> QED BY <2>4, <2>5, <2>6, <3>2
  <2>7. CASE ~In(n, s)
    <3>1. PICK t \in Worker : pcur[t] = n
      BY <2>1, <2>2, <2>3, <2>7 DEF Shared
    <3>2. H = {t}
      BY <2>2, <3>1, Threads!NullAssumption DEF Shared
    <3>3. Cardinality(H) = 1
      BY <3>2, FS_Singleton
    <3> QED BY <2>4, <2>5, <2>7, <3>3
  <2> QED BY <2>6, <2>7
<1> QED BY <1>1, <1>2, FactorySize DEF Threads!TakenOnce

\* A connection that main has taken is one node's, and the node is in the queue or one thread's.
THEOREM FactoryServesOnce ==
    ASSUME Threads!FactoryAssumption
    PROVE  Threads!FactorySpec => []Threads!TakenOnce
BY FactoryInvariance, FactoryTakenOnce, PTL

\* A connection in the queue has somebody who is awake or about to look.
THEOREM FactoryIsAwake ==
    ASSUME Threads!FactoryAssumption
    PROVE  Threads!FactorySpec => []Threads!QueueIsSeen
<1>1. FactoryInv => Threads!QueueIsSeen
  BY DEF FactoryInv, Threads!QueueIsSeen
<1> QED BY <1>1, FactoryInvariance, PTL

\* A thread that is cancelled leaves the mutex to main, which joins the others.
THEOREM FactoryMutexIsFree ==
    ASSUME Threads!FactoryAssumption
    PROVE  Threads!FactorySpec => []Threads!MutexIsLeft
<1>1. FactoryInv => Threads!MutexIsLeft
  BY DEF FactoryInv, FactoryType, Threads!MutexIsLeft
<1> QED BY <1>1, FactoryInvariance, PTL
-----------------------------------------------------------------------------
\* How the servers send files.
CONSTANTS Sizes, OldSizes, Train, SendfileMax
VARIABLES size, tosend, net, server, part, need, buf, file, pos

Files == INSTANCE Transfer

Byte == {"length", "name", "size", "content"} \X Nat

Two(n) == <<<<"length", n>>, <<"length", n>>>>

Sendable == IF size < SendfileMax THEN size ELSE SendfileMax
Whole    == IF version.content = "trains" THEN Files!Trains(size)[0] ELSE Files!Content(1, Sendable)
SizeTold == <<<<"size", size>>>>
Told     == (IF version.size THEN Files!Message(SizeTold) ELSE <<>>) \o Whole

\* The body of the message the client is in, and what follows that message.
BodyDue == IF pc = "name" THEN <<<<"name", 0>>>>
           ELSE IF pc = "size" THEN SizeTold ELSE Files!Content(pos + 1, Files!Stop(pos, size))
Later   == IF pc = "name" THEN Told
           ELSE IF pc = "size" THEN Whole
           ELSE IF pos = size THEN <<>> ELSE Files!Trains(size)[Files!Stop(pos, size)]
Due     == (IF part = "length" THEN Files!Message(BodyDue) ELSE BodyDue) \o Later

\* What has come of the part, what is on the way and what is still to be sent is what is due.
InStep ==
    /\ Files!Receiving =>
        /\ part \in {"length", "body"} /\ need > 0
        /\ Len(buf) + need = (IF part = "length" THEN 2 ELSE Len(BodyDue))
        /\ buf \o (net \o tosend) = Due
        /\ pc = "size" => version.size
        /\ pc = "content" /\ part = "body" => pos < size
    /\ pc = "content" /\ version.content = "sendfile" =>
        /\ pos <= Sendable /\ pos < size /\ need = size - pos /\ Len(file) = size
        /\ net \o tosend = Files!Content(pos + 1, Sendable)

FileSoFar ==
    /\ pos <= size /\ pos <= Len(file) /\ (pc \in {"name", "size"} => pos = 0)
    /\ \A i \in 1..pos : file[i] = i
    /\ \A i \in (pos + 1)..Len(file) : file[i] = 0

TransferTypes ==
    /\ version \in Files!Versions /\ size \in Sizes
    /\ tosend \in Seq(Byte) /\ net \in Seq(Byte) /\ buf \in Seq(Byte) /\ file \in Seq(Nat)
    /\ need \in Nat /\ pos \in Nat
    /\ server \in {"sends", "closed", "killed"} /\ (server = "closed" => tosend = <<>>)
    /\ pc \in {"name", "size", "content", "done", "failed", "spins", "garbage"}

TransferInv == TransferTypes /\ FileSoFar /\ InStep /\ Files!FileArrives /\ Files!EndlessForAReason


LEMMA BytesJoin ==
    ASSUME NEW s \in Seq(Byte), NEW t \in Seq(Byte)
    PROVE  /\ s \o t \in Seq(Byte) /\ Len(s \o t) = Len(s) + Len(t)
           /\ s \o <<>> = s /\ <<>> \o s = s
BY ConcatProperties, ConcatEmptySeq

LEMMA BytesChain ==
    ASSUME NEW s \in Seq(Byte), NEW t \in Seq(Byte), NEW u \in Seq(Byte)
    PROVE  (s \o t) \o u = s \o (t \o u)
<1> DEFINE l == s \o (t \o u)
           r == (s \o t) \o u
<1>1. s \o t \in Seq(Byte) /\ t \o u \in Seq(Byte) /\ Len(s \o t) = Len(s) + Len(t)
  BY ConcatProperties
<1>2. l \in Seq(Byte) /\ r \in Seq(Byte) /\ Len(l) = Len(r)
  BY <1>1, ConcatProperties
<1>3. \A i \in 1..Len(l) : l[i] = r[i]
  BY <1>1, ConcatProperties
<1> HIDE DEF l, r
<1>4. l = r
  BY <1>2, <1>3, SeqEqual
<1> QED BY <1>4 DEF l, r

LEMMA BytesCancel ==
    ASSUME NEW s \in Seq(Byte), NEW t \in Seq(Byte), NEW u \in Seq(Byte), NEW v \in Seq(Byte),
           Len(s) = Len(u), s \o t = u \o v
    PROVE  s = u /\ t = v
<1>0. Len(s) \in Nat /\ Len(t) \in Nat /\ Len(u) \in Nat /\ Len(v) \in Nat
  OBVIOUS
<1>1. /\ Len(s) \in Nat /\ Len(t) \in Nat /\ Len(v) \in Nat
      /\ Len(s \o t) = Len(s) + Len(t) /\ Len(u \o v) = Len(u) + Len(v)
  BY <1>0, BytesJoin
<1>2. Len(t) = Len(v)
  BY <1>1
<1>3. ASSUME NEW i \in 1..Len(s) PROVE s[i] = u[i]
  <2>1. (s \o t)[i] = s[i] /\ (u \o v)[i] = u[i]
    BY <1>1, ConcatProperties
  <2> QED BY <2>1
<1>4. ASSUME NEW i \in 1..Len(t) PROVE t[i] = v[i]
  <2>1. Len(s) + i \in 1..Len(s) + Len(t) /\ ~(Len(s) + i <= Len(s)) /\ Len(s) + i - Len(s) = i
    BY <1>1
  <2>2. (s \o t)[Len(s) + i] = t[i] /\ (u \o v)[Len(s) + i] = v[i]
    BY <1>1, <1>2, <2>1, ConcatProperties
  <2> QED BY <2>2
<1>5. s = u
  BY <1>3, SeqEqual
<1>6. t = v
  BY <1>2, <1>4, SeqEqual
<1> QED BY <1>5, <1>6

LEMMA BytesSplit ==
    ASSUME NEW s \in Seq(Byte), NEW n \in 0..Len(s)
    PROVE  /\ SubSeq(s, 1, n) \in Seq(Byte) /\ Len(SubSeq(s, 1, n)) = n
           /\ SubSeq(s, n + 1, Len(s)) \in Seq(Byte) /\ Len(SubSeq(s, n + 1, Len(s))) = Len(s) - n
           /\ SubSeq(s, 1, n) \o SubSeq(s, n + 1, Len(s)) = s
<1>1. Len(s) \in Nat /\ 1 \in 1..Len(s) + 1 /\ n \in 1 - 1..Len(s) /\ Len(s) \in n..Len(s)
  OBVIOUS
<1>2. SubSeq(s, 1, n) \o SubSeq(s, n + 1, Len(s)) = SubSeq(s, 1, Len(s))
  BY <1>1, ConcatAdjacentSubSeq
<1>3. SubSeq(s, 1, Len(s)) = s
  BY SubSeqFull
<1>4. /\ SubSeq(s, 1, n) \in Seq(Byte) /\ SubSeq(s, n + 1, Len(s)) \in Seq(Byte)
      /\ Len(SubSeq(s, 1, n)) = n /\ Len(SubSeq(s, n + 1, Len(s))) = Len(s) - n
  OBVIOUS
<1> QED BY <1>2, <1>3, <1>4

LEMMA TwoIs == ASSUME NEW n \in Nat PROVE Two(n) \in Seq(Byte) /\ Len(Two(n)) = 2 /\ Two(n)[1][2] = n
BY DEF Two, Byte

LEMMA ContentIs ==
    ASSUME NEW a \in Nat, NEW b \in Nat, a <= b
    PROVE  /\ Files!Content(a + 1, b) \in Seq(Byte) /\ Len(Files!Content(a + 1, b)) = b - a
           /\ \A i \in 1..(b - a) : Files!Content(a + 1, b)[i] = <<"content", a + i>>
<1>1. b + 1 - (a + 1) = b - a /\ b - a \in Nat /\ \A i \in 1..(b - a) : a + 1 + i - 1 = a + i
  OBVIOUS
<1>2. Files!Content(a + 1, b) = [i \in 1..(b - a) |-> <<"content", a + i>>]
  BY <1>1 DEF Files!Content
<1>3. \A i \in 1..(b - a) : <<"content", a + i>> \in Byte
  BY DEF Byte
<1> DEFINE m == b - a
<1>4. m \in Nat /\ Files!Content(a + 1, b) \in [1..m -> Byte]
  BY <1>1, <1>2, <1>3
<1> HIDE DEF m
<1>5. Files!Content(a + 1, b) \in Seq(Byte) /\ Len(Files!Content(a + 1, b)) = m
  BY <1>4
<1> QED BY <1>2, <1>5 DEF m

LEMMA ContentJoins ==
    ASSUME NEW p \in Nat, NEW q \in Nat, NEW r \in Nat, p <= q, q <= r
    PROVE  Files!Content(p + 1, q) \o Files!Content(q + 1, r) = Files!Content(p + 1, r)
<1> DEFINE a == Files!Content(p + 1, q)
           b == Files!Content(q + 1, r)
           c == Files!Content(p + 1, r)
<1>1. /\ a \in Seq(Byte) /\ Len(a) = q - p /\ \A i \in 1..(q - p) : a[i] = <<"content", p + i>>
  BY ContentIs
<1>2. /\ b \in Seq(Byte) /\ Len(b) = r - q /\ \A i \in 1..(r - q) : b[i] = <<"content", q + i>>
  BY ContentIs
<1>3. p <= r
  OBVIOUS
<1>4. /\ c \in Seq(Byte) /\ Len(c) = r - p /\ \A i \in 1..(r - p) : c[i] = <<"content", p + i>>
  BY <1>3, ContentIs
<1> HIDE DEF a, b, c
<1>5. a \o b \in Seq(Byte) /\ Len(a \o b) = Len(a) + Len(b)
  BY <1>1, <1>2, BytesJoin
<1>6. Len(a \o b) = Len(c)
  BY <1>1, <1>2, <1>4, <1>5
<1>7. ASSUME NEW i \in 1..Len(c) PROVE (a \o b)[i] = c[i]
  <2>1. (a \o b)[i] = IF i <= Len(a) THEN a[i] ELSE b[i - Len(a)]
    BY <1>1, <1>2, <1>5, <1>6, ConcatProperties
  <2>2. i \in 1..(r - p) /\ c[i] = <<"content", p + i>>
    BY <1>4
  <2>3. CASE i <= q - p
    <3>1. i \in 1..(q - p)
      BY <2>2, <2>3
    <3> QED BY <1>1, <2>1, <2>2, <2>3, <3>1
  <2>4. CASE ~(i <= q - p)
    <3>1. i - (q - p) \in 1..(r - q) /\ q + (i - (q - p)) = p + i
      BY <2>2, <2>4
    <3> QED BY <1>1, <1>2, <2>1, <2>2, <2>4, <3>1
  <2> QED BY <2>3, <2>4
<1>8. a \o b = c
  BY <1>4, <1>5, <1>6, <1>7, SeqEqual
<1> QED BY <1>8 DEF a, b, c

LEMMA MessageIs ==
    ASSUME NEW s \in Seq(Byte)
    PROVE  Files!Message(s) \in Seq(Byte) /\ Files!Message(s) = Two(Len(s)) \o s
BY TwoIs, BytesJoin DEF Files!Message, Two
-----------------------------------------------------------------------------
TrainStates(u, a, n) ==
    u = [p \in a..n |-> Files!Message(Files!Content(p + 1, Files!Stop(p, n)))
                        \o (IF p = n THEN <<>> ELSE u[Files!Stop(p, n)])]

LEMMA StopIs ==
    ASSUME Files!TransferAssumption, NEW n \in Nat, NEW p \in 0..n
    PROVE  /\ Files!Stop(p, n) \in p..n /\ Files!Stop(p, n) \in Nat
           /\ p < n => p < Files!Stop(p, n)
           /\ p = n => Files!Stop(p, n) = n
BY DEF Files!TransferAssumption, Files!Stop

LEMMA TrainRounds ==
    ASSUME Files!TransferAssumption, NEW n \in Nat
    PROVE  \E u : TrainStates(u, 0, n)
<1> DEFINE T == {k \in 0..n : ~\E u : TrainStates(u, n - k, n)}
<1>1. ASSUME T # {} PROVE FALSE
  <2>0. T \subseteq Nat
    OBVIOUS
  <2>1. PICK k \in T : \A j \in T : k <= j
    BY <1>1, <2>0, Smallest
  <2>2. CASE k = 0
    <3>1. n - k = n
      BY <2>2
    <3> DEFINE v == [p \in n..n |-> Files!Message(Files!Content(p + 1, Files!Stop(p, n))) \o <<>>]
    <3>2. TrainStates(v, n, n)
      BY DEF TrainStates
    <3> QED BY <2>1, <3>1, <3>2
  <2>3. CASE k # 0
    <3> DEFINE a == n - k
    <3>1. k - 1 \in 0..n /\ k - 1 \notin T /\ a \in 0..n /\ a # n /\ n - (k - 1) = a + 1
      BY <2>1, <2>3
    <3>2. PICK u : TrainStates(u, a + 1, n)
      BY <3>1
    <3> HIDE DEF a
    <3> DEFINE v == [p \in a..n |-> IF p # a THEN u[p]
                                    ELSE Files!Message(Files!Content(p + 1, Files!Stop(p, n)))
                                         \o u[Files!Stop(p, n)]]
    <3>3. ASSUME NEW p \in a..n
          PROVE  v[p] = Files!Message(Files!Content(p + 1, Files!Stop(p, n)))
                        \o (IF p = n THEN <<>> ELSE v[Files!Stop(p, n)])
      <4>1. p \in 0..n /\ (p # n => Files!Stop(p, n) \in a..n /\ Files!Stop(p, n) # a)
        BY <3>1, StopIs
      <4>2. CASE p = a
        BY <3>1, <4>1, <4>2
      <4>3. CASE p # a
        <5>1. p \in (a + 1)..n
          BY <3>1, <4>3
        <5>2. v[p] = u[p] /\ (p # n => v[Files!Stop(p, n)] = u[Files!Stop(p, n)])
          BY <4>1, <4>3
        <5> QED BY <3>2, <5>1, <5>2 DEF TrainStates
      <4> QED BY <4>2, <4>3
    <3>4. TrainStates(v, a, n)
      BY <3>3 DEF TrainStates
    <3> QED BY <2>1, <3>4 DEF a
  <2> QED BY <2>2, <2>3
<1>2. n \in 0..n /\ n \notin T /\ n - n = 0
  BY <1>1
<1> QED BY <1>2

\* The trains are one message after the other, up to an empty one.
LEMMA TrainsAre ==
    ASSUME Files!TransferAssumption, NEW n \in Nat, NEW p \in 0..n
    PROVE  /\ Files!Trains(n)[p] \in Seq(Byte)
           /\ Files!Trains(n)[p] = Files!Message(Files!Content(p + 1, Files!Stop(p, n)))
                                   \o (IF p = n THEN <<>> ELSE Files!Trains(n)[Files!Stop(p, n)])
<1> DEFINE u == CHOOSE u : TrainStates(u, 0, n)
           T == {k \in 0..n : u[n - k] \notin Seq(Byte)}
<1>1. Files!Trains(n) = u
  BY DEF Files!Trains, TrainStates
<1>2. TrainStates(u, 0, n)
  BY TrainRounds
<1> HIDE DEF u
<1>3. \A q \in 0..n : u[q] = Files!Message(Files!Content(q + 1, Files!Stop(q, n)))
                             \o (IF q = n THEN <<>> ELSE u[Files!Stop(q, n)])
  BY <1>2 DEF TrainStates
<1>4. ASSUME T # {} PROVE FALSE
  <2>0. T \subseteq Nat
    OBVIOUS
  <2>1. PICK k \in T : \A j \in T : k <= j
    BY <1>4, <2>0, Smallest
  <2> DEFINE q == n - k
  <2>2. q \in 0..n /\ u[q] \notin Seq(Byte) /\ n - q = k
    BY <2>1
  <2> HIDE DEF q
  <2>3. q # n => u[Files!Stop(q, n)] \in Seq(Byte)
    <3>1. SUFFICES ASSUME q # n PROVE u[Files!Stop(q, n)] \in Seq(Byte)
      OBVIOUS
    <3>2. Files!Stop(q, n) \in q..n /\ q < Files!Stop(q, n)
      BY <2>2, <3>1, StopIs
    <3> DEFINE j == n - Files!Stop(q, n)
    <3>3. j \in 0..n /\ j < k /\ n - j = Files!Stop(q, n)
      BY <2>2, <3>2
    <3>4. j \notin T
      BY <2>1, <3>3
    <3> QED BY <3>3, <3>4
  <2>4. Files!Message(Files!Content(q + 1, Files!Stop(q, n))) \in Seq(Byte)
    <3>1. q \in Nat /\ Files!Stop(q, n) \in Nat /\ q <= Files!Stop(q, n)
      BY <2>2, StopIs
    <3> QED BY <3>1, ContentIs, MessageIs
  <2>5. CASE q = n
    <3>1. <<>> \in Seq(Byte)
      OBVIOUS
    <3> QED BY <1>3, <2>2, <2>4, <2>5, <3>1, BytesJoin
  <2>6. CASE q # n
    <3>1. PICK s, t \in Seq(Byte) : /\ s = Files!Message(Files!Content(q + 1, Files!Stop(q, n)))
                                   /\ t = u[Files!Stop(q, n)]
      BY <2>3, <2>4, <2>6
    <3>2. s \o t \in Seq(Byte)
      BY BytesJoin
    <3> QED BY <1>3, <2>2, <2>6, <3>1, <3>2
  <2> QED BY <2>5, <2>6
<1>5. n - p \in 0..n /\ n - (n - p) = p
  OBVIOUS
<1>6. n - p \notin T
  BY <1>4
<1>7. u[p] \in Seq(Byte)
  BY <1>5, <1>6
<1> QED BY <1>1, <1>3, <1>7

LEMMA VersionIs ==
    ASSUME version \in Files!Versions
    PROVE  /\ version.size \in BOOLEAN /\ version.cuts \in BOOLEAN
           /\ version.content \in {"trains", "sendfile"}
           /\ version.content = "sendfile" => version.size /\ version.recv = "gives up"
           /\ version.content = "trains" => version.recv \in {"once", "recv_n"} /\ ~version.cuts
<1>1. /\ Files!Between(Files!tran_file_3_0, Files!client_3_0)
           = [size |-> FALSE, content |-> "trains", recv |-> "once", cuts |-> FALSE]
      /\ Files!Between(Files!tran_file_4_0, Files!client_4_0)
           = [size |-> FALSE, content |-> "trains", recv |-> "recv_n", cuts |-> FALSE]
      /\ Files!Between(Files!tran_file_5_0, Files!client_5_0_size)
           = [size |-> TRUE, content |-> "trains", recv |-> "recv_n", cuts |-> FALSE]
      /\ Files!Between(Files!tran_file_5_0, Files!client_5_0_time)
           = [size |-> TRUE, content |-> "trains", recv |-> "recv_n", cuts |-> FALSE]
      /\ Files!Between(Files!tran_file_day32, Files!client_day32)
           = [size |-> TRUE, content |-> "trains", recv |-> "recv_n", cuts |-> FALSE]
      /\ Files!Between(Files!transfer_file, Files!client_revise)
           = [size |-> TRUE, content |-> "sendfile", recv |-> "gives up", cuts |-> TRUE]
  BY DEF Files!Between, Files!tran_file_3_0, Files!tran_file_4_0, Files!tran_file_5_0,
         Files!tran_file_day32, Files!transfer_file, Files!client_3_0, Files!client_4_0,
         Files!client_5_0_size, Files!client_5_0_time, Files!client_day32, Files!client_revise
<1>2. \/ version = [size |-> FALSE, content |-> "trains", recv |-> "once", cuts |-> FALSE]
      \/ version = [size |-> FALSE, content |-> "trains", recv |-> "recv_n", cuts |-> FALSE]
      \/ version = [size |-> TRUE, content |-> "trains", recv |-> "recv_n", cuts |-> FALSE]
      \/ version = [size |-> TRUE, content |-> "sendfile", recv |-> "gives up", cuts |-> TRUE]
  BY <1>1, Zenon DEF Files!Versions
<1>3. CASE version = [size |-> FALSE, content |-> "trains", recv |-> "once", cuts |-> FALSE]
  <2>1. version.size = FALSE /\ version.content = "trains" /\ version.recv = "once" /\ version.cuts = FALSE
    BY <1>3
  <2> QED BY <2>1
<1>4. CASE version = [size |-> FALSE, content |-> "trains", recv |-> "recv_n", cuts |-> FALSE]
  <2>1. version.size = FALSE /\ version.content = "trains" /\ version.recv = "recv_n" /\ version.cuts = FALSE
    BY <1>4
  <2> QED BY <2>1
<1>5. CASE version = [size |-> TRUE, content |-> "trains", recv |-> "recv_n", cuts |-> FALSE]
  <2>1. version.size = TRUE /\ version.content = "trains" /\ version.recv = "recv_n" /\ version.cuts = FALSE
    BY <1>5
  <2> QED BY <2>1
<1>6. CASE version = [size |-> TRUE, content |-> "sendfile", recv |-> "gives up", cuts |-> TRUE]
  <2>1. version.size = TRUE /\ version.content = "sendfile" /\ version.recv = "gives up" /\ version.cuts = TRUE
    BY <1>6
  <2> QED BY <2>1
<1> QED BY <1>2, <1>3, <1>4, <1>5, <1>6

LEMMA SizesAre ==
    ASSUME Files!TransferAssumption, TransferTypes
    PROVE  /\ size \in Nat /\ Sendable \in Nat /\ Sendable <= size
           /\ (size <= SendfileMax => Sendable = size)
BY DEF Files!TransferAssumption, TransferTypes, Sendable

LEMMA WholeIs ==
    ASSUME Files!TransferAssumption, TransferTypes
    PROVE  Whole \in Seq(Byte) /\ SizeTold \in Seq(Byte) /\ Len(SizeTold) = 1 /\ Told \in Seq(Byte)
<1>1. Whole \in Seq(Byte)
  <2>1. Files!Trains(size)[0] \in Seq(Byte)
    <3>1. size \in Nat /\ 0 \in 0..size
      BY SizesAre
    <3> QED BY <3>1, TrainsAre
  <2>2. Files!Content(1, Sendable) \in Seq(Byte)
    <3>1. 0 \in Nat /\ 0 + 1 = 1 /\ Sendable \in Nat /\ 0 <= Sendable
      BY SizesAre
    <3> QED BY <3>1, ContentIs
  <2> QED BY <2>1, <2>2 DEF Whole
<1>2. SizeTold \in Seq(Byte) /\ Len(SizeTold) = 1
  <2>1. <<"size", size>> \in Byte
    BY SizesAre DEF Byte
  <2> QED BY <2>1 DEF SizeTold
<1>3. Files!Message(SizeTold) \in Seq(Byte)
  BY <1>2, MessageIs
<1>4. Files!Message(SizeTold) \o Whole \in Seq(Byte) /\ <<>> \o Whole = Whole
  BY <1>1, <1>3, BytesJoin
<1> QED BY <1>1, <1>2, <1>4 DEF Told

LEMMA BodyIs ==
    ASSUME Files!TransferAssumption, TransferTypes, pos <= size
    PROVE  /\ BodyDue \in Seq(Byte) /\ Later \in Seq(Byte)
           /\ Len(BodyDue) = IF pc \in {"name", "size"} THEN 1 ELSE Files!Stop(pos, size) - pos
<1>1. /\ pos \in 0..size /\ size \in Nat /\ pos \in Nat /\ Files!Stop(pos, size) \in pos..size
      /\ Files!Stop(pos, size) \in 0..size /\ Files!Stop(pos, size) \in Nat /\ pos <= Files!Stop(pos, size)
  BY SizesAre, StopIs DEF TransferTypes
<1>2. /\ Files!Content(pos + 1, Files!Stop(pos, size)) \in Seq(Byte)
      /\ Len(Files!Content(pos + 1, Files!Stop(pos, size))) = Files!Stop(pos, size) - pos
  BY <1>1, ContentIs
<1>3. <<<<"name", 0>>>> \in Seq(Byte) /\ Len(<<<<"name", 0>>>>) = 1
  <2>1. <<"name", 0>> \in Byte
    BY DEF Byte
  <2> QED BY <2>1
<1>4. Files!Trains(size)[Files!Stop(pos, size)] \in Seq(Byte)
  BY <1>1, TrainsAre
<1>5. <<>> \in Seq(Byte)
  OBVIOUS
<1>6. BodyDue \in Seq(Byte) /\ Len(BodyDue) = IF pc \in {"name", "size"} THEN 1 ELSE Files!Stop(pos, size) - pos
  BY <1>2, <1>3, WholeIs DEF BodyDue
<1>7. Later \in Seq(Byte)
  BY <1>4, <1>5, WholeIs DEF Later
<1> QED BY <1>6, <1>7

\* The message of a body, and what a name or a train is followed by.
LEMMA NextMessage ==
    ASSUME Files!TransferAssumption, TransferTypes, pos <= size
    PROVE  /\ Files!Message(BodyDue) = Two(Len(BodyDue)) \o BodyDue
           /\ Two(Len(BodyDue)) \in Seq(Byte) /\ Len(Two(Len(BodyDue))) = 2
           /\ Two(Len(BodyDue))[1][2] = Len(BodyDue)
           /\ Told = IF version.size THEN Files!Message(SizeTold) \o Whole ELSE Whole
<1>1. BodyDue \in Seq(Byte) /\ Len(BodyDue) \in Nat
  BY BodyIs
<1>2. <<>> \o Whole = Whole
  BY WholeIs, BytesJoin
<1> QED BY <1>1, <1>2, MessageIs, TwoIs DEF Told

LEMMA SendingKeeps ==
    ASSUME TransferInv, UNCHANGED <<version, size, pc, part, need, buf, file, pos>>,
           tosend' \in Seq(Byte), net' \in Seq(Byte), server' \in {"sends", "closed", "killed"},
           server' = "closed" => tosend' = <<>>, server' = "killed" \/ server = "sends",
           net' \o tosend' = net \o tosend
    PROVE  TransferInv'
<1>1. TransferTypes' /\ FileSoFar' /\ Files!FileArrives' /\ Files!EndlessForAReason'
  BY DEF TransferInv, TransferTypes, FileSoFar, Files!FileArrives, Files!EndlessForAReason
<1>2. Due' = Due /\ BodyDue' = BodyDue /\ Sendable' = Sendable /\ Files!Receiving' = Files!Receiving
  BY DEF Due, BodyDue, Later, Told, Whole, Sendable, SizeTold, Files!Receiving
<1>3. InStep'
  BY <1>2 DEF TransferInv, InStep
<1> QED BY <1>1, <1>3 DEF TransferInv

LEMMA SendKept ==
    ASSUME Files!TransferAssumption, TransferInv, Files!Send \/ Files!Close \/ Files!Kill
    PROVE  TransferInv'
<1>0. net \in Seq(Byte) /\ tosend \in Seq(Byte)
  BY DEF TransferInv, TransferTypes
<1>1. CASE Files!Send
  <2>1. PICK n \in 1..Len(tosend) : /\ net' = net \o SubSeq(tosend, 1, n)
                                    /\ tosend' = SubSeq(tosend, n + 1, Len(tosend))
    BY <1>1 DEF Files!Send
  <2>2. n \in 0..Len(tosend)
    BY <1>0
  <2>3. PICK w, v \in Seq(Byte) : w = tosend /\ v = net
    BY <1>0
  <2> DEFINE x == SubSeq(w, 1, n)
             y == SubSeq(w, n + 1, Len(w))
  <2>4. n \in 0..Len(w)
    BY <2>2, <2>3
  <2>5. x \in Seq(Byte) /\ y \in Seq(Byte) /\ x \o y = w
    BY <2>4, BytesSplit
  <2> HIDE DEF x, y
  <2>6. v \o x \in Seq(Byte)
    BY <2>5, BytesJoin
  <2>7. (v \o x) \o y = v \o (x \o y)
    BY <2>5, BytesChain
  <2>8. net' = v \o x /\ tosend' = y
    BY <2>1, <2>3 DEF x, y
  <2> QED BY <1>1, <2>3, <2>5, <2>6, <2>7, <2>8, SendingKeeps DEF Files!Send, Files!ClientVars, TransferInv, TransferTypes
<1>2. CASE Files!Close
  BY <1>0, <1>2, SendingKeeps DEF Files!Close, Files!ClientVars
<1>3. CASE Files!Kill
  BY <1>0, <1>3, SendingKeeps DEF Files!Kill, Files!ClientVars
<1> QED BY <1>1, <1>2, <1>3

LEMMA NothingKept ==
    ASSUME Files!TransferAssumption, TransferInv, Files!RecvNothing
    PROVE  TransferInv'
<1>1. /\ pc \in {"name", "size", "content"} /\ net = <<>> /\ server # "sends"
      /\ pc' \in {"garbage", "spins", "failed"}
      /\ UNCHANGED <<version, size, tosend, net, server, part, need, buf, file, pos>>
  <2>1. version.recv \in {"once", "recv_n", "gives up"}
    BY VersionIs DEF TransferInv, TransferTypes
  <2> QED BY <2>1 DEF Files!RecvNothing
<1>2. TransferTypes' /\ FileSoFar' /\ Files!FileArrives'
  BY <1>1 DEF TransferInv, TransferTypes, FileSoFar, Files!FileArrives
<1>3. InStep'
  BY <1>1 DEF InStep, Files!Receiving
<1>4. ASSUME server # "killed" PROVE version.content = "sendfile" /\ size > SendfileMax
  <2>1. tosend = <<>> /\ net \o tosend = <<>> /\ buf \in Seq(Byte) /\ buf \o <<>> = buf
    <3>1. tosend = <<>> /\ buf \in Seq(Byte)
      BY <1>1, <1>4 DEF TransferInv, TransferTypes
    <3>2. buf \o <<>> = buf
      BY <3>1, BytesJoin
    <3>3. net \o tosend = <<>>
      BY <1>1, <3>1
    <3> QED BY <3>1, <3>2, <3>3
  <2>2. ~Files!Receiving
    <3>1. SUFFICES ASSUME Files!Receiving PROVE FALSE
      OBVIOUS
    <3>2. buf = Due /\ need > 0 /\ need \in Nat /\ part \in {"length", "body"}
          /\ Len(buf) + need = (IF part = "length" THEN 2 ELSE Len(BodyDue))
      BY <2>1, <3>1 DEF TransferInv, InStep, TransferTypes
    <3>3. pos <= size /\ TransferTypes
      BY DEF TransferInv, FileSoFar
    <3>4. BodyDue \in Seq(Byte) /\ Later \in Seq(Byte)
      BY <3>3, BodyIs
    <3>5. CASE part = "length"
      <4>1. PICK t \in Seq(Byte) : t = Two(Len(BodyDue)) /\ Len(t) = 2
        BY <3>3, NextMessage
      <4>2. t \o BodyDue \in Seq(Byte) /\ Len(t \o BodyDue) >= 2
        <5>1. Len(BodyDue) \in Nat
          BY <3>4
        <5>2. t \o BodyDue \in Seq(Byte) /\ Len(t \o BodyDue) = Len(t) + Len(BodyDue)
          BY <3>4, BytesJoin, Zenon
        <5> QED BY <4>1, <5>1, <5>2
      <4>3. Len(buf) = Len(t \o BodyDue) + Len(Later)
        BY <3>2, <3>3, <3>4, <3>5, <4>1, <4>2, NextMessage, BytesJoin DEF Due
      <4>4. Len(Later) \in Nat /\ Len(t \o BodyDue) \in Nat
        BY <3>4, <4>2
      <4> QED BY <3>2, <3>5, <4>2, <4>3, <4>4
    <3>6. CASE part = "body"
      <4>1. Len(buf) = Len(BodyDue) + Len(Later)
        BY <3>2, <3>4, <3>6, BytesJoin DEF Due
      <4>2. Len(Later) \in Nat /\ Len(BodyDue) \in Nat
        BY <3>4
      <4> QED BY <3>2, <3>6, <4>1, <4>2
    <3> QED BY <3>2, <3>5, <3>6
  <2>3. pc = "content" /\ version.content = "sendfile"
    BY <1>1, <2>2, VersionIs DEF Files!Receiving, TransferInv, TransferTypes
  <2>4. pos <= Sendable /\ pos < size /\ Files!Content(pos + 1, Sendable) = <<>>
    BY <2>1, <2>3 DEF TransferInv, InStep
  <2>5. pos \in Nat /\ Sendable \in Nat /\ size \in Nat /\ (size <= SendfileMax => Sendable = size)
        /\ SendfileMax \in Nat
    BY SizesAre DEF TransferInv, TransferTypes, Files!TransferAssumption
  <2>6. Sendable - pos = 0
    BY <2>4, <2>5, ContentIs
  <2> QED BY <2>3, <2>4, <2>5, <2>6
<1>5. Files!EndlessForAReason'
  BY <1>1, <1>4 DEF Files!EndlessForAReason
<1> QED BY <1>2, <1>3, <1>5 DEF TransferInv

\* Taking the first n bytes that are there.
LEMMA TakenFrom ==
    ASSUME TransferTypes, NEW n \in Nat, n <= Len(net), net' = SubSeq(net, n + 1, Len(net))
    PROVE  /\ SubSeq(net, 1, n) \in Seq(Byte) /\ Len(SubSeq(net, 1, n)) = n
           /\ net' \in Seq(Byte)
           /\ net \o tosend = SubSeq(net, 1, n) \o (net' \o tosend)
<1>1. PICK w, v \in Seq(Byte) : w = net /\ v = tosend
  BY DEF TransferTypes
<1> DEFINE x == SubSeq(w, 1, n)
           y == SubSeq(w, n + 1, Len(w))
<1>2. n \in 0..Len(w)
  BY <1>1
<1>3. x \in Seq(Byte) /\ y \in Seq(Byte) /\ x \o y = w /\ Len(x) = n
  BY <1>2, BytesSplit
<1> HIDE DEF x, y
<1>4. (x \o y) \o v = x \o (y \o v)
  <2>1. PICK p, q \in Seq(Byte) : p = x /\ q = y
    BY <1>3
  <2>2. (p \o q) \o v = p \o (q \o v)
    BY BytesChain
  <2> QED BY <2>1, <2>2
<1>5. x = SubSeq(net, 1, n) /\ y = net'
  BY <1>1 DEF x, y
<1> QED BY <1>1, <1>3, <1>4, <1>5

\* The bytes of a whole part are those that are due, and those after it follow.
LEMMA PartIs ==
    ASSUME Files!TransferAssumption, TransferTypes, pos <= size, part \in {"length", "body"},
           NEW s \in Seq(Byte), NEW t \in Seq(Byte), s \o t = Due,
           Len(s) = IF part = "length" THEN 2 ELSE Len(BodyDue)
    PROVE  IF part = "length" THEN s[1][2] = Len(BodyDue) /\ t = BodyDue \o Later
                              ELSE s = BodyDue /\ t = Later
<1>1. PICK b, l, h \in Seq(Byte) : b = BodyDue /\ l = Later /\ h = Two(Len(BodyDue))
  BY BodyIs, NextMessage
<1>2. CASE part = "length"
  <2>1. Due = (h \o b) \o l
    BY <1>1, <1>2, NextMessage DEF Due
  <2>2. (h \o b) \o l = h \o (b \o l)
    BY BytesChain
  <2>3. b \o l \in Seq(Byte)
    BY BytesJoin
  <2>4. Len(h) = 2 /\ h[1][2] = Len(BodyDue)
    BY <1>1, NextMessage
  <2> DEFINE r == b \o l
  <2>5. r \in Seq(Byte) /\ s \o t = h \o r /\ Len(s) = Len(h)
    BY <1>2, <2>1, <2>2, <2>3, <2>4
  <2> HIDE DEF r
  <2>6. s = h /\ t = r
    BY <2>5, BytesCancel
  <2> QED BY <1>1, <1>2, <2>4, <2>6 DEF r
<1>3. CASE part = "body"
  <2>1. s \o t = b \o l /\ Len(s) = Len(b)
    BY <1>1, <1>3 DEF Due
  <2>2. s = b /\ t = l
    BY <2>1, BytesCancel
  <2> QED BY <1>1, <1>3, <2>2
<1> QED BY <1>2, <1>3

\* A train is written where the last one ended.
LEMMA TrainWritten ==
    ASSUME Files!TransferAssumption, TransferTypes, FileSoFar, NEW to \in Nat, pos <= to, to <= size,
           file' = Files!Write(file, pos, Files!Content(pos + 1, to)), pos' = to, size' = size,
           pc' \notin {"name", "size"}
    PROVE  /\ file' \in Seq(Nat) /\ FileSoFar'
           /\ Len(file') = IF to > Len(file) THEN to ELSE Len(file)
<1> DEFINE m == IF to > Len(file) THEN to ELSE Len(file)
           bytes == Files!Content(pos + 1, to)
<1>1. /\ pos \in Nat /\ file \in Seq(Nat) /\ Len(file) \in Nat /\ pos <= Len(file)
      /\ \A i \in 1..pos : file[i] = i
      /\ \A i \in (pos + 1)..Len(file) : file[i] = 0
  BY DEF TransferTypes, FileSoFar
<1>2. /\ Len(bytes) = to - pos /\ \A i \in 1..(to - pos) : bytes[i] = <<"content", pos + i>>
  BY <1>1, ContentIs
<1>3. pos + Len(bytes) = to
  BY <1>1, <1>2
<1>4. file' = [i \in 1..m |-> IF i > pos /\ i <= to THEN bytes[i - pos][2] ELSE file[i]]
  BY <1>3 DEF Files!Write
<1> HIDE DEF bytes
<1>5. ASSUME NEW i \in 1..m
      PROVE  file'[i] \in Nat /\ (i <= to => file'[i] = i) /\ (i > to => file'[i] = 0)
  <2>1. CASE i > pos /\ i <= to
    <3>1. i - pos \in 1..(to - pos) /\ pos + (i - pos) = i
      BY <1>1, <2>1
    <3>2. bytes[i - pos] = <<"content", i>>
      BY <1>2, <3>1
    <3> QED BY <1>4, <2>1, <3>2
  <2>2. CASE ~(i > pos /\ i <= to)
    <3>1. file'[i] = file[i] /\ i \in 1..Len(file) /\ i \in Nat
      BY <1>1, <1>4, <2>2
    <3>2. CASE i <= pos
      BY <1>1, <3>1, <3>2
    <3>3. CASE i > pos
      BY <1>1, <2>2, <3>1, <3>3
    <3> QED BY <1>1, <3>1, <3>2, <3>3
  <2> QED BY <2>1, <2>2
<1>6. m \in Nat /\ m >= to
  BY <1>1
<1>7. file' \in [1..m -> Nat]
  BY <1>4, <1>5
<1> HIDE DEF m
<1>8. file' \in Seq(Nat) /\ Len(file') = m
  BY <1>6, <1>7
<1>9. FileSoFar'
  BY <1>5, <1>6, <1>8 DEF FileSoFar
<1> QED BY <1>8, <1>9 DEF m

LEMMA SpliceKept ==
    ASSUME Files!TransferAssumption, TransferInv, Files!Splice
    PROVE  TransferInv'
<1>1. PICK n \in 1..Len(net) :
        /\ net' = SubSeq(net, n + 1, Len(net)) /\ need' = need - n
        /\ file' = Files!Write(file, pos, SubSeq(net, 1, n)) /\ pos' = pos + n
        /\ pc' = IF n = need THEN "done" ELSE pc
  BY DEF Files!Splice
<1>2. /\ pc = "content" /\ version.content = "sendfile"
      /\ UNCHANGED <<version, size, tosend, server, part, buf>>
  BY DEF Files!Splice
<1>3. /\ TransferTypes /\ FileSoFar /\ pos <= Sendable /\ pos < size /\ need = size - pos
      /\ Len(file) = size /\ net \o tosend = Files!Content(pos + 1, Sendable)
  BY <1>2 DEF TransferInv, InStep
<1>4. /\ pos \in Nat /\ Sendable \in Nat /\ size \in Nat /\ Sendable <= size /\ net \in Seq(Byte)
      /\ tosend \in Seq(Byte) /\ Len(net) \in Nat /\ n \in Nat /\ n <= Len(net)
  BY <1>3, SizesAre DEF TransferTypes
<1> DEFINE x == SubSeq(net, 1, n)
           t == net' \o tosend
<1>5. x \in Seq(Byte) /\ Len(x) = n /\ net' \in Seq(Byte) /\ net \o tosend = x \o t
  BY <1>1, <1>3, <1>4, TakenFrom
<1>6. t \in Seq(Byte)
  BY <1>4, <1>5, BytesJoin
<1> HIDE DEF x, t
<1> DEFINE to == pos + n
<1>7. /\ to \in Nat /\ to <= Sendable /\ x = Files!Content(pos + 1, to) /\ t = Files!Content(to + 1, Sendable)
  <2>1. Len(t) \in Nat
    BY <1>6
  <2>2. Len(x \o t) = Len(x) + Len(t)
    BY <1>5, <1>6, BytesJoin
  <2>3. Len(x \o t) = Sendable - pos
    BY <1>3, <1>4, <1>5, ContentIs
  <2>4. to \in Nat /\ to <= Sendable /\ pos <= to /\ to - pos = n
    BY <1>4, <1>5, <2>1, <2>2, <2>3
  <2> HIDE DEF to
  <2> DEFINE a == Files!Content(pos + 1, to)
             b == Files!Content(to + 1, Sendable)
  <2>5. a \in Seq(Byte) /\ Len(a) = to - pos
    BY <1>4, <2>4, ContentIs
  <2>6. b \in Seq(Byte)
    BY <1>4, <2>4, ContentIs
  <2>7. a \o b = Files!Content(pos + 1, Sendable)
    BY <1>4, <2>4, ContentJoins
  <2> HIDE DEF a, b
  <2>8. x \o t = a \o b /\ Len(x) = Len(a)
    BY <1>3, <1>5, <2>4, <2>5, <2>7
  <2>9. x = a /\ t = b
    BY <1>5, <1>6, <2>5, <2>6, <2>8, BytesCancel
  <2> QED BY <2>4, <2>9 DEF a, b
<1>8. to <= size /\ pos <= to
  BY <1>4, <1>7
<1>9. file' \in Seq(Nat) /\ FileSoFar' /\ Len(file') = size
  <2>1. file' = Files!Write(file, pos, Files!Content(pos + 1, to)) /\ pos' = to /\ pc' \notin {"name", "size"}
    BY <1>1, <1>2, <1>7 DEF x
  <2> HIDE DEF to
  <2> QED BY <1>2, <1>3, <1>7, <1>8, <2>1, TrainWritten
<1>10. TransferTypes'
  BY <1>1, <1>2, <1>3, <1>4, <1>5, <1>7, <1>8, <1>9 DEF TransferTypes
<1>11. Sendable' = Sendable
  BY <1>2 DEF Sendable
<1>12. ASSUME pc' = "content" PROVE pos' < size /\ need' = size - pos'
  BY <1>1, <1>3, <1>4, <1>7, <1>8, <1>12
<1>13. InStep'
  BY <1>1, <1>2, <1>7, <1>9, <1>11, <1>12 DEF InStep, Files!Receiving, t
<1>14. Files!FileArrives'
  <2>1. ASSUME pc' = "done" PROVE pos' = size
    BY <1>1, <1>2, <1>3, <1>4, <2>1
  <2> QED BY <1>2, <1>4, <1>9, <2>1 DEF Files!FileArrives, FileSoFar
<1>15. Files!EndlessForAReason'
  BY <1>1, <1>2 DEF Files!EndlessForAReason
<1> QED BY <1>9, <1>10, <1>13, <1>14, <1>15 DEF TransferInv

\* A client that has begun a message waits for its length first.
LEMMA MessageBegins ==
    ASSUME Files!TransferAssumption, TransferTypes', FileSoFar', Files!Receiving',
           part' = "length", need' = 2, buf' = <<>>, pc' = "size" => version'.size,
           net' \o tosend' = (Files!Message(BodyDue) \o Later)'
    PROVE  InStep'
<1>1. buf' \o (net' \o tosend') = net' \o tosend'
  <2>1. PICK v, w \in Seq(Byte) : v = net' /\ w = tosend'
    BY DEF TransferTypes
  <2>2. v \o w \in Seq(Byte)
    BY BytesJoin
  <2>3. <<>> \o (v \o w) = v \o w
    BY <2>2, BytesJoin
  <2> QED BY <2>1, <2>3
<1>2. Due' = (Files!Message(BodyDue) \o Later)'
  BY DEF Due
<1>3. pc' = "content" => version'.content = "trains"
  BY DEF Files!Receiving
<1> QED BY <1>1, <1>2, <1>3 DEF InStep

\* What the client does after the length of a message.
LEMMA LengthKept ==
    ASSUME Files!TransferAssumption, TransferInv, Files!Receiving, part = "length",
           NEW s \in Seq(Byte), s[1][2] = Len(BodyDue), Files!Length(s),
           net' \in Seq(Byte), net' \o tosend = BodyDue \o Later,
           UNCHANGED <<version, size, tosend, server>>
    PROVE  TransferInv'
<1>1. /\ TransferTypes /\ FileSoFar /\ pos <= size /\ (pc = "size" => version.size)
      /\ pos \in 0..size /\ size \in Nat /\ pos \in Nat
  BY SizesAre DEF TransferInv, InStep, FileSoFar, TransferTypes
<1>2. /\ BodyDue \in Seq(Byte) /\ Len(BodyDue) \in Nat
      /\ Len(BodyDue) = IF pc \in {"name", "size"} THEN 1 ELSE Files!Stop(pos, size) - pos
  BY <1>1, BodyIs
<1>3. pc \in {"name", "size"} \/ (pc = "content" /\ version.content = "trains")
  BY DEF Files!Receiving
<1>4. /\ IF Len(BodyDue) = 0
         THEN pc' = "done" /\ part' = "length" /\ need' = 0 /\ buf' = <<>>
         ELSE pc' = pc /\ part' = "body" /\ need' = Len(BodyDue) /\ buf' = <<>>
      /\ UNCHANGED <<file, pos>>
  BY DEF Files!Length, Files!Goes
<1>5. pos < size => pos < Files!Stop(pos, size)
  BY <1>1, StopIs
<1>6. pos = size => Files!Stop(pos, size) = pos
  BY <1>1, StopIs
<1>7. CASE Len(BodyDue) = 0
  <2>1. pc = "content" /\ version.content = "trains" /\ pos = size
    <3>1. pc = "content" /\ version.content = "trains"
      BY <1>2, <1>3, <1>7
    <3>2. Files!Stop(pos, size) = pos
      BY <1>1, <1>2, <1>7, <3>1, StopIs
    <3> QED BY <1>1, <1>5, <3>1, <3>2
  <2>2. TransferTypes'
    <3>1. <<>> \in Seq(Byte)
      OBVIOUS
    <3> QED BY <1>1, <1>4, <1>7, <3>1 DEF TransferTypes
  <2>3. FileSoFar' /\ InStep' /\ Files!EndlessForAReason'
    BY <1>1, <1>4, <1>7 DEF FileSoFar, InStep, Files!Receiving, Files!EndlessForAReason
  <2>4. ~version.cuts
    BY <1>1, <2>1, VersionIs DEF TransferTypes
  <2>5. Files!FileArrives'
    BY <1>1, <1>4, <2>1, <2>4 DEF FileSoFar, Files!FileArrives
  <2> QED BY <2>2, <2>3, <2>5 DEF TransferInv
<1>8. CASE Len(BodyDue) # 0
  <2>1. TransferTypes'
    <3>1. <<>> \in Seq(Byte)
      OBVIOUS
    <3> QED BY <1>1, <1>2, <1>4, <1>8, <3>1 DEF TransferTypes
  <2>2. FileSoFar' /\ Files!EndlessForAReason' /\ Files!FileArrives'
    BY <1>1, <1>3, <1>4, <1>8 DEF FileSoFar, Files!EndlessForAReason, Files!FileArrives
  <2>3. Due' = BodyDue \o Later /\ BodyDue' = BodyDue /\ Files!Receiving'
    BY <1>3, <1>4, <1>8 DEF Due, BodyDue, Later, Told, Whole, Sendable, SizeTold, Files!Receiving
  <2>4. pc = "content" => pos < size
    BY <1>1, <1>2, <1>6, <1>8
  <2>5. <<>> \o (net' \o tosend) = net' \o tosend
    <3>1. PICK v, w \in Seq(Byte) : v = net' /\ w = tosend
      BY <1>1 DEF TransferTypes
    <3>2. v \o w \in Seq(Byte)
      BY BytesJoin
    <3>3. <<>> \o (v \o w) = v \o w
      BY <3>2, BytesJoin
    <3> QED BY <3>1, <3>3
  <2>6. Len(<<>>) + Len(BodyDue) = Len(BodyDue) /\ Len(BodyDue) > 0
    BY <1>2, <1>8
  <2>7. InStep'
    <3>1. ~(pc' = "content" /\ version'.content = "sendfile")
      BY <1>3, <1>4, <1>8
    <3> QED BY <1>1, <1>4, <1>8, <2>3, <2>4, <2>5, <2>6, <3>1 DEF InStep
  <2> QED BY <2>1, <2>2, <2>7 DEF TransferInv
<1> QED BY <1>7, <1>8

\* What the client does after the body of a message.
LEMMA BodyKept ==
    ASSUME Files!TransferAssumption, TransferInv, Files!Receiving, part = "body",
           Files!Body(BodyDue), net' \in Seq(Byte), net' \o tosend = Later,
           UNCHANGED <<version, size, tosend, server>>
    PROVE  TransferInv'
<1>1. /\ TransferTypes /\ FileSoFar /\ pos <= size /\ (pc = "size" => version.size)
      /\ pos \in 0..size /\ size \in Nat /\ pos \in Nat /\ (pc = "content" => pos < size)
  BY SizesAre DEF TransferInv, InStep, FileSoFar, TransferTypes
<1>2. pc \in {"name", "size"} \/ (pc = "content" /\ version.content = "trains")
  BY DEF Files!Receiving
<1>3. <<>> \in Seq(Byte)
  OBVIOUS
<1>4. /\ version.size \in BOOLEAN /\ version.content \in {"trains", "sendfile"}
      /\ version.content = "sendfile" => version.size
  BY <1>1, VersionIs DEF TransferTypes
<1>5. Whole' = Whole /\ SizeTold' = SizeTold
  BY DEF Whole, Sendable, SizeTold
<1>6. CASE pc = "name" /\ version.size
  <2>1. /\ pc' = "size" /\ part' = "length" /\ need' = 2 /\ buf' = <<>> /\ UNCHANGED <<file, pos>>
    BY <1>6 DEF Files!Body, Files!Goes
  <2>2. TransferTypes' /\ FileSoFar' /\ Files!FileArrives' /\ Files!EndlessForAReason' /\ Files!Receiving'
    BY <1>1, <1>3, <1>6, <2>1 DEF TransferTypes, FileSoFar, Files!FileArrives, Files!EndlessForAReason,
       Files!Receiving
  <2>3. net' \o tosend' = Files!Message(SizeTold) \o Whole
    BY <1>1, <1>6, NextMessage DEF Later
  <2>4. BodyDue' = SizeTold /\ Later' = Whole
    BY <1>5, <2>1 DEF BodyDue, Later
  <2>5. net' \o tosend' = (Files!Message(BodyDue) \o Later)'
    BY <2>3, <2>4 DEF Files!Message
  <2>6. InStep'
    BY <1>6, <2>1, <2>2, <2>5, MessageBegins
  <2> QED BY <2>2, <2>6 DEF TransferInv
<1>7. ASSUME version.content = "trains", pc' = "content", part' = "length", need' = 2, buf' = <<>>,
             net' \o tosend = Files!Trains(size)[pos'], pos' \in 0..size,
             file' \in Seq(Nat), FileSoFar'
      PROVE  TransferInv'
  <2>1. TransferTypes' /\ Files!FileArrives' /\ Files!EndlessForAReason' /\ Files!Receiving'
    BY <1>1, <1>3, <1>7 DEF TransferTypes, Files!FileArrives, Files!EndlessForAReason, Files!Receiving
  <2>2. /\ BodyDue' = Files!Content(pos' + 1, Files!Stop(pos', size))
        /\ Later' = IF pos' = size THEN <<>> ELSE Files!Trains(size)[Files!Stop(pos', size)]
    BY <1>7 DEF BodyDue, Later
  <2>3. Files!Trains(size)[pos'] = Files!Message(Files!Content(pos' + 1, Files!Stop(pos', size)))
                                   \o (IF pos' = size THEN <<>> ELSE Files!Trains(size)[Files!Stop(pos', size)])
    BY <1>1, <1>7, TrainsAre
  <2>4. net' \o tosend' = (Files!Message(BodyDue) \o Later)'
    BY <1>7, <2>2, <2>3 DEF Files!Message
  <2>5. InStep'
    BY <1>7, <2>1, <2>4, MessageBegins
  <2> QED BY <1>7, <2>1, <2>5 DEF TransferInv
<1>8. CASE pc = "name" /\ ~version.size
  <2>1. /\ pc' = "content" /\ part' = "length" /\ need' = 2 /\ buf' = <<>> /\ UNCHANGED <<file, pos>>
        /\ version.content = "trains"
    BY <1>4, <1>8 DEF Files!Body, Files!Goes
  <2>2. FileSoFar' /\ file' \in Seq(Nat) /\ pos' = 0
    BY <1>1, <1>8, <2>1 DEF FileSoFar, TransferTypes
  <2>3. net' \o tosend = Files!Trains(size)[0]
    BY <1>1, <1>8, <2>1, NextMessage DEF Later, Whole
  <2> QED BY <1>1, <1>7, <2>1, <2>2, <2>3
<1>9. CASE pc = "size" /\ version.content = "trains"
  <2>1. /\ pc' = "content" /\ part' = "length" /\ need' = 2 /\ buf' = <<>> /\ UNCHANGED <<file, pos>>
    BY <1>9 DEF Files!Body, Files!Goes
  <2>2. FileSoFar' /\ file' \in Seq(Nat) /\ pos' = 0
    BY <1>1, <1>9, <2>1 DEF FileSoFar, TransferTypes
  <2>3. net' \o tosend = Files!Trains(size)[0]
    BY <1>9 DEF Later, Whole
  <2> QED BY <1>1, <1>7, <1>9, <2>1, <2>2, <2>3
<1>10. CASE pc = "size" /\ version.content = "sendfile"
  <2>1. /\ IF size = 0 THEN pc' = "done" /\ part' = "length" /\ need' = 0 /\ buf' = <<>>
                       ELSE pc' = "content" /\ part' = "body" /\ need' = size /\ buf' = <<>>
        /\ file' = [i \in 1..size |-> IF i <= Len(file) THEN file[i] ELSE 0] /\ pos' = pos
    BY <1>10 DEF Files!Body, Files!Goes
  <2>2. pos = 0 /\ file \in Seq(Nat) /\ Len(file) \in Nat /\ \A i \in 1..Len(file) : file[i] = 0
    BY <1>1, <1>10 DEF FileSoFar, TransferTypes
  <2>3. ASSUME NEW i \in 1..size PROVE file'[i] = 0
    BY <2>1, <2>2, <2>3
  <2>4. file' \in [1..size -> Nat]
    BY <2>1, <2>3
  <2>5. file' \in Seq(Nat) /\ Len(file') = size
    BY <1>1, <2>4
  <2>6. FileSoFar'
    BY <1>1, <2>1, <2>2, <2>3, <2>5 DEF FileSoFar
  <2>7. TransferTypes' /\ Files!FileArrives' /\ Files!EndlessForAReason'
    <3>1. TransferTypes'
      BY <1>1, <1>3, <2>1, <2>5 DEF TransferTypes
    <3>2. Files!FileArrives'
      <4>1. pc' = "done" => size = 0
        BY <2>1
      <4> QED BY <1>1, <2>5, <4>1 DEF Files!FileArrives
    <3>3. Files!EndlessForAReason'
      BY <2>1 DEF Files!EndlessForAReason
    <3> QED BY <3>1, <3>2, <3>3
  <2>8. net' \o tosend = Files!Content(0 + 1, Sendable)
    BY <1>10 DEF Later, Whole
  <2>9. InStep'
    <3>1. Sendable' = Sendable /\ Sendable \in Nat
      BY <1>1, SizesAre DEF Sendable
    <3>2. ~Files!Receiving'
      BY <1>10, <2>1 DEF Files!Receiving
    <3> QED BY <1>1, <2>1, <2>2, <2>5, <2>8, <3>1, <3>2 DEF InStep
  <2> QED BY <2>6, <2>7, <2>9 DEF TransferInv
<1>11. CASE pc = "content" /\ version.content = "trains"
  <2> DEFINE to == Files!Stop(pos, size)
  <2>1. to \in Nat /\ pos <= to /\ to <= size /\ to \in 0..size
    <3>1. to \in pos..size /\ to \in Nat
      BY <1>1, StopIs
    <3> HIDE DEF to
    <3> QED BY <1>1, <3>1
  <2>2. /\ pc' = "content" /\ part' = "length" /\ need' = 2 /\ buf' = <<>>
        /\ file' = Files!Write(file, pos, BodyDue) /\ pos' = pos + Len(BodyDue)
    BY <1>11 DEF Files!Body, Files!Goes
  <2>3. BodyDue = Files!Content(pos + 1, to) /\ net' \o tosend = Files!Trains(size)[to]
    BY <1>1, <1>11 DEF BodyDue, Later
  <2> HIDE DEF to
  <2>4. pos' = to
    <3>1. Len(BodyDue) = to - pos
      BY <1>1, <2>1, <2>3, ContentIs
    <3> QED BY <1>1, <2>1, <2>2, <3>1
  <2>5. file' = Files!Write(file, pos, Files!Content(pos + 1, to)) /\ pc' \notin {"name", "size"}
    BY <2>2, <2>3
  <2>6. file' \in Seq(Nat) /\ FileSoFar'
    BY <1>1, <2>1, <2>4, <2>5, TrainWritten
  <2> QED BY <1>7, <1>11, <2>1, <2>2, <2>3, <2>4, <2>6
<1> QED BY <1>2, <1>4, <1>6, <1>8, <1>9, <1>10, <1>11

LEMMA RecvKept ==
    ASSUME Files!TransferAssumption, TransferInv, Files!Recv
    PROVE  TransferInv'
<1>1. PICK n \in 1..need :
        /\ n <= Len(net) /\ net' = SubSeq(net, n + 1, Len(net))
        /\ LET bytes == buf \o SubSeq(net, 1, n) IN
           IF version.recv = "once" /\ n < need
           THEN pc' = "garbage" /\ UNCHANGED <<part, need, buf, file, pos>>
           ELSE IF n < need
           THEN buf' = bytes /\ need' = need - n /\ UNCHANGED <<pc, part, file, pos>>
           ELSE IF part = "length" THEN Files!Length(bytes) ELSE Files!Body(bytes)
  BY DEF Files!Recv
<1>2. Files!Receiving /\ UNCHANGED <<version, size, tosend, server>>
  BY DEF Files!Recv
<1>2a. need \in Nat /\ TransferTypes /\ FileSoFar /\ pos <= size
  BY DEF TransferInv, FileSoFar, TransferTypes
<1>2b. n \in Nat /\ n <= need /\ n > 0
  BY <1>2a
<1>3. /\ TransferTypes /\ FileSoFar /\ pos <= size /\ n \in Nat /\ need \in Nat /\ n <= need /\ n > 0
      /\ part \in {"length", "body"}
      /\ Len(buf) + need = (IF part = "length" THEN 2 ELSE Len(BodyDue))
      /\ buf \o (net \o tosend) = Due
      /\ pc = "size" => version.size
      /\ pc = "content" /\ part = "body" => pos < size
  BY <1>2, <1>2a, <1>2b DEF TransferInv, InStep
<1>4. /\ SubSeq(net, 1, n) \in Seq(Byte) /\ Len(SubSeq(net, 1, n)) = n /\ net' \in Seq(Byte)
      /\ net \o tosend = SubSeq(net, 1, n) \o (net' \o tosend)
  BY <1>1, <1>3, TakenFrom
<1>5. PICK b, x, y, z \in Seq(Byte) : b = buf /\ x = SubSeq(net, 1, n) /\ y = net' /\ z = tosend
  BY <1>3, <1>4 DEF TransferTypes
<1> DEFINE s == b \o x
           t == y \o z
<1>6. s \in Seq(Byte) /\ Len(s) = Len(b) + Len(x)
  BY BytesJoin
<1>7. t \in Seq(Byte)
  BY BytesJoin
<1>8. (b \o x) \o t = b \o (x \o t)
  BY <1>7, BytesChain
<1>9. s \o t = Due /\ Len(s) = Len(buf) + n /\ t = net' \o tosend
  BY <1>3, <1>4, <1>5, <1>6, <1>8
<1>10. s = buf \o SubSeq(net, 1, n)
  BY <1>5
<1> HIDE DEF s, t
<1>11. CASE version.recv = "once" /\ n < need
  <2>1. pc' = "garbage" /\ UNCHANGED <<part, need, buf, file, pos>>
    BY <1>1, <1>11
  <2> QED BY <1>2, <1>3, <1>4, <2>1 DEF TransferInv, TransferTypes, FileSoFar, InStep, Files!Receiving,
             Files!FileArrives, Files!EndlessForAReason
<1>12. CASE version.recv # "once" /\ n < need
  <2>1. buf' = s /\ need' = need - n /\ UNCHANGED <<pc, part, file, pos>>
    BY <1>1, <1>10, <1>12
  <2>2. TransferTypes' /\ FileSoFar' /\ Files!FileArrives' /\ Files!EndlessForAReason'
    BY <1>2, <1>3, <1>4, <1>6, <1>12, <2>1 DEF TransferInv, TransferTypes, FileSoFar, Files!FileArrives,
       Files!EndlessForAReason
  <2>3. Due' = Due /\ BodyDue' = BodyDue /\ Files!Receiving'
    BY <1>2, <2>1 DEF Due, BodyDue, Later, Told, Whole, Sendable, SizeTold, Files!Receiving
  <2>4. need' > 0 /\ Len(buf') + need' = Len(buf) + need
    <3>1. Len(buf) \in Nat
      BY <1>3 DEF TransferTypes
    <3>2. Len(buf') = Len(buf) + n
      BY <1>9, <2>1
    <3> QED BY <1>3, <1>12, <2>1, <3>1, <3>2
  <2>5. InStep'
    <3>1. ~(pc' = "content" /\ version'.content = "sendfile")
      <4>1. ~(pc = "content" /\ version.content = "sendfile")
        BY <1>2 DEF Files!Receiving
      <4> QED BY <1>2, <2>1, <4>1
    <3> QED BY <1>2, <1>3, <1>9, <2>1, <2>3, <2>4, <3>1 DEF InStep
  <2> QED BY <2>2, <2>5 DEF TransferInv
<1>13. CASE n = need
  <2>1. IF part = "length" THEN Files!Length(s) ELSE Files!Body(s)
    BY <1>1, <1>3, <1>10, <1>13
  <2>2. Len(s) = IF part = "length" THEN 2 ELSE Len(BodyDue)
    BY <1>3, <1>9, <1>13
  <2>3. IF part = "length" THEN s[1][2] = Len(BodyDue) /\ t = BodyDue \o Later
                           ELSE s = BodyDue /\ t = Later
    BY <1>3, <1>6, <1>7, <1>9, <2>2, PartIs
  <2>4. CASE part = "length"
    BY <1>2, <1>4, <1>6, <1>9, <2>1, <2>3, <2>4, LengthKept
  <2>5. CASE part = "body"
    <3>1. Files!Body(BodyDue) /\ net' \o tosend = Later
      BY <1>9, <2>1, <2>3, <2>5
    <3> QED BY <1>2, <1>4, <2>5, <3>1, BodyKept
  <2> QED BY <1>3, <2>4, <2>5
<1> QED BY <1>3, <1>11, <1>12, <1>13

LEMMA TransferStarts ==
    ASSUME Files!TransferAssumption, Files!TransferInit
    PROVE  TransferInv
<1>1. /\ version \in Files!Versions /\ size \in Sizes /\ tosend = Files!Sent(version, size)
      /\ net = <<>> /\ server = "sends" /\ pc = "name" /\ part = "length" /\ need = 2 /\ buf = <<>> /\ pos = 0
  BY DEF Files!TransferInit
<1>2. PICK n \in OldSizes : file = [i \in 1..n |-> 0]
  BY DEF Files!TransferInit
<1>3. n \in Nat /\ size \in Nat
  BY <1>1 DEF Files!TransferAssumption
<1>4. file \in [1..n -> Nat]
  BY <1>2
<1>5. file \in Seq(Nat) /\ Len(file) = n /\ \A i \in 1..n : file[i] = 0
  BY <1>2, <1>3, <1>4
<1>6. Sendable \in Nat /\ Sendable <= size
  BY <1>3 DEF Sendable, Files!TransferAssumption
<1>7. Whole \in Seq(Byte) /\ SizeTold \in Seq(Byte)
  <2>1. Files!Trains(size)[0] \in Seq(Byte)
    <3>1. 0 \in 0..size
      BY <1>3
    <3> QED BY <1>3, <3>1, TrainsAre
  <2>2. Files!Content(0 + 1, Sendable) \in Seq(Byte)
    BY <1>6, ContentIs
  <2>3. <<"size", size>> \in Byte
    BY <1>3 DEF Byte
  <2> QED BY <2>1, <2>2, <2>3 DEF Whole, SizeTold
<1>8. PICK h, l, w \in Seq(Byte) : /\ h = Files!Message(<<<<"name", 0>>>>)
                                   /\ l = (IF version.size THEN Files!Message(SizeTold) ELSE <<>>)
                                   /\ w = Whole
  <2>1. <<"name", 0>> \in Byte
    BY DEF Byte
  <2>2. <<<<"name", 0>>>> \in Seq(Byte) /\ <<>> \in Seq(Byte)
    BY <2>1
  <2>3. Files!Message(<<<<"name", 0>>>>) \in Seq(Byte)
    BY <2>2, MessageIs
  <2>4. Files!Message(SizeTold) \in Seq(Byte)
    BY <1>7, MessageIs
  <2> QED BY <1>7, <2>2, <2>3, <2>4
<1>9. tosend = (h \o l) \o w
  BY <1>1, <1>8 DEF Files!Sent, Whole, Sendable, SizeTold
<1>10. (h \o l) \o w = h \o (l \o w)
  BY BytesChain
<1>11. l \o w \in Seq(Byte)
  BY BytesJoin
<1>12. tosend \in Seq(Byte)
  <2> DEFINE r == l \o w
  <2>1. r \in Seq(Byte)
    BY <1>11
  <2> HIDE DEF r
  <2>2. h \o r \in Seq(Byte)
    BY <2>1, BytesJoin
  <2> QED BY <1>9, <1>10, <2>2 DEF r
<1>13. <<>> \o (<<>> \o tosend) = tosend
  <2>1. <<>> \o tosend = tosend
    BY <1>12, BytesJoin
  <2> QED BY <2>1
<1>14. Due = tosend
  BY <1>1, <1>8, <1>9, <1>10 DEF Due, BodyDue, Later, Told
<1>15. InStep
  BY <1>1, <1>13, <1>14 DEF InStep
<1>16. TransferTypes /\ FileSoFar
  <2>1. <<>> \in Seq(Byte)
    OBVIOUS
  <2>2. TransferTypes
    BY <1>1, <1>5, <1>12, <2>1 DEF TransferTypes
  <2>3. FileSoFar
    BY <1>1, <1>3, <1>5 DEF FileSoFar
  <2> QED BY <2>2, <2>3
<1> QED BY <1>1, <1>15, <1>16 DEF TransferInv, Files!FileArrives, Files!EndlessForAReason

\* The invariant behind the next two.
THEOREM TransferInvariance ==
    ASSUME Files!TransferAssumption
    PROVE  Files!TransferSpec => []TransferInv
<1>1. Files!TransferInit => TransferInv
  BY TransferStarts
<1>2. ASSUME TransferInv, [Files!TransferNext]_(Files!transferVars) PROVE TransferInv'
  <2>1. CASE UNCHANGED Files!transferVars
    <3>1. UNCHANGED <<version, size, tosend, net, server, pc, part, need, buf, file, pos>>
      BY <2>1 DEF Files!transferVars
    <3>2. server' \in {"sends", "closed", "killed"} /\ tosend' \in Seq(Byte) /\ net' \in Seq(Byte)
      BY <1>2, <3>1 DEF TransferInv, TransferTypes
    <3>3. TransferTypes' /\ FileSoFar' /\ Files!FileArrives' /\ Files!EndlessForAReason'
      BY <1>2, <3>1 DEF TransferInv, TransferTypes, FileSoFar, Files!FileArrives, Files!EndlessForAReason
    <3>4. Due' = Due /\ BodyDue' = BodyDue /\ Sendable' = Sendable /\ Files!Receiving' = Files!Receiving
      BY <3>1 DEF Due, BodyDue, Later, Told, Whole, Sendable, SizeTold, Files!Receiving
    <3>5. InStep'
      BY <1>2, <3>1, <3>4 DEF TransferInv, InStep
    <3> QED BY <3>3, <3>5 DEF TransferInv
  <2>2. CASE Files!TransferNext
    BY <1>2, <2>2, SendKept, RecvKept, SpliceKept, NothingKept DEF Files!TransferNext
  <2> QED BY <1>2, <2>1, <2>2
<1> QED BY <1>1, <1>2, PTL DEF Files!TransferSpec

\* A client that has finished has the whole file in place, however the bytes came in pieces, and
\* behind it what is left of an older one, unless it cuts it off.
THEOREM FilesArrive ==
    ASSUME Files!TransferAssumption
    PROVE  Files!TransferSpec => []Files!FileArrives
<1>1. TransferInv => Files!FileArrives
  BY DEF TransferInv
<1>2. Files!TransferSpec => []TransferInv
  BY TransferInvariance
<1> QED BY <1>1, <1>2, PTL

\* A client waits for ever, or fails, only if the server was killed or the file is more than one
\* sendfile() sends.
THEOREM OnlyKilledServersHang ==
    ASSUME Files!TransferAssumption
    PROVE  Files!TransferSpec => []Files!EndlessForAReason
<1>1. TransferInv => Files!EndlessForAReason
  BY DEF TransferInv
<1>2. Files!TransferSpec => []TransferInv
  BY TransferInvariance
<1> QED BY <1>1, <1>2, PTL
====
