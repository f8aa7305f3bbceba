---- MODULE WorkQueue ----
(***************************************************************************)
(* The task queue of the thread pools: a singly linked list of heap nodes  *)
(* with a head, a tail and a counter (Queue_t, src/work_queue.c).  A queue *)
(* is a record; pnext is the link field of every heap node, kept with the  *)
(* queue because nothing else reads or writes it.                          *)
(***************************************************************************)
EXTENDS Integers, Sequences

CONSTANTS Node,   \* heap cells that can hold a Node_t
          NULL    \* the null pointer

ASSUME NullAssumption == NULL \notin Node

Pointer == Node \cup {NULL}

Queue == [head : Pointer, tail : Pointer, size : Nat, pnext : [Node -> Pointer]]

QueueInit == [head |-> NULL, tail |-> NULL, size |-> 0, pnext |-> [n \in Node |-> NULL]]

\* Mutant: forgets to advance the tail.
QueueSetTailStays(q, pnew) ==
    [head  |-> IF q.head = NULL THEN pnew ELSE q.head,
     tail  |-> IF q.head = NULL THEN pnew ELSE q.tail,
     size  |-> q.size + 1,
     pnext |-> IF q.head = NULL THEN q.pnext
                                ELSE [q.pnext EXCEPT ![q.tail] = pnew]]

\* Link pnew behind the tail.
QueueSet(q, pnew) ==
    [head  |-> IF q.head = NULL THEN pnew ELSE q.head,
     tail  |-> pnew,
     size  |-> q.size + 1,
     pnext |-> IF q.head = NULL THEN q.pnext
                                ELSE [q.pnext EXCEPT ![q.tail] = pnew]]

\* Unlink the head; the caller receives it in Taken(q, p), p being the value
\* its pointer had before the call (an empty queue leaves it alone).
QueueGet(q) ==
    IF q.size = 0 THEN q
    ELSE LET second == q.pnext[q.head]
         IN  [q EXCEPT !.head = second,
                       !.tail = IF second = NULL THEN NULL ELSE @,
                       !.size = @ - 1]

\* Mutant: hands out the newest node.
TakenNewest(q, p) == IF q.size = 0 THEN p ELSE q.tail

Taken(q, p) == IF q.size = 0 THEN p ELSE q.head

-----------------------------------------------------------------------------
\* The list stands for the sequence s of distinct nodes: following pnext from
\* head visits s in order and stops at the tail, and the counter is right.
Represents(q, s) ==
    /\ q.size = Len(s)
    /\ \A i, j \in 1..Len(s) : s[i] = s[j] => i = j
    /\ IF s = <<>>
       THEN q.head = NULL /\ q.tail = NULL
       ELSE /\ q.head = s[1]
            /\ q.tail = s[Len(s)]
            /\ \A i \in 1..(Len(s) - 1) : q.pnext[s[i]] = s[i + 1]
            /\ q.pnext[s[Len(s)]] = NULL
====
