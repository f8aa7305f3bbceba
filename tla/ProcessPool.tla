---- MODULE ProcessPool ----
(***************************************************************************)
(* The earlier servers of the network disk: a main process that accepts    *)
(* connections and hands each to a child process over a socket pair.  The  *)
(* child answers the client and reports that it is free.  Six versions.    *)
(***************************************************************************)
EXTENDS Naturals, Sequences, SequencesExt, FiniteSets

CONSTANTS Child,    \* the processes make_child() forks: 1, 2, ...
          Client, NULL

\* What main() does: closes its own descriptor of a connection; ends in order on SIGINT.
main_1_0 == [closes |-> FALSE, exits |-> FALSE]
main_2_0 == [closes |-> TRUE, exits |-> FALSE]
main_3_0 == [closes |-> TRUE, exits |-> FALSE]
main_4_0 == [closes |-> TRUE, exits |-> FALSE]
main_5_0 == [closes |-> TRUE, exits |-> FALSE]
main_revise == [closes |-> TRUE, exits |-> TRUE]

\* What a child does: gets the descriptor itself and not only its number; answers with so
\* many calls of send(), 2 for "more than one".
child_1_0 == [gets |-> "number", sends |-> 1]
child_2_0 == [gets |-> "descriptor", sends |-> 1]
child_3_0 == [gets |-> "descriptor", sends |-> 2]
child_4_0 == [gets |-> "descriptor", sends |-> 2]
child_5_0 == [gets |-> "descriptor", sends |-> 2]
child_revise == [gets |-> "descriptor", sends |-> 2]

Version(m, c) == [closes |-> m.closes, exits |-> m.exits, gets |-> c.gets, sends |-> c.sends]

Versions == {Version(main_1_0, child_1_0), Version(main_2_0, child_2_0), Version(main_3_0, child_3_0),
             Version(main_4_0, child_4_0), Version(main_5_0, child_5_0),
             Version(main_revise, child_revise)}

PoolAssumption == IsFiniteSet(Child) /\ Child \subseteq Nat /\ NULL \notin Client

VARIABLES version,
          client,  \* client -> "away", "backlog", "open", "answered" or "closed"
          gone,    \* clients that have closed their end
          main,    \* "wait", "exit" (waits for the children), "returned" or "dead"
          batch,   \* events of epoll_wait() that main has not handled yet
          busy,    \* child -> p_manage[].busy
          down,    \* child -> what main has sent it: clients, and NULL for "exit"
          up,      \* child -> reports that main has not read
          child,   \* child -> "recv", "serve", "report", "exited" or "dead"
          task,    \* child -> the client it serves, or NULL
          sigint   \* SIGINT has come

poolVars == <<version, client, gone, main, batch, busy, down, up, child, task, sigint>>

Dead == {j \in Child : child[j] = "dead"}

PoolInit ==
    /\ version \in Versions
    /\ client = [c \in Client |-> "away"] /\ gone = {}
    /\ main = "wait" /\ batch = <<>> /\ busy = [j \in Child |-> FALSE]
    /\ down = [j \in Child |-> <<>>] /\ up = [j \in Child |-> 0]
    /\ child = [j \in Child |-> "recv"] /\ task = [j \in Child |-> NULL]
    /\ sigint = FALSE
-----------------------------------------------------------------------------
Connect(c) ==
    /\ client[c] = "away" /\ client' = [client EXCEPT ![c] = "backlog"]
    /\ UNCHANGED <<version, gone, main, batch, busy, down, up, child, task, sigint>>

Leave(c) ==
    /\ client[c] # "away" /\ c \notin gone /\ gone' = gone \cup {c}
    /\ UNCHANGED <<version, client, main, batch, busy, down, up, child, task, sigint>>

\* The last version catches SIGINT in main, not in the children: from the terminal, where
\* every process gets it, it ends them, from kill it does not.
Sigint ==
    /\ version.exits /\ ~sigint /\ sigint' = TRUE
    /\ \/ UNCHANGED child
       \/ child' = [j \in Child |-> IF child[j] = "exited" THEN "exited" ELSE "dead"]
    /\ UNCHANGED <<version, client, gone, main, batch, busy, down, up, task>>
-----------------------------------------------------------------------------
\* main()

Ready == {<<"child", j>> : j \in {k \in Child : up[k] > 0} \cup Dead}
         \cup {<<"listen">> : c \in {d \in Client : client[d] = "backlog"}}
         \cup {<<"exit">> : x \in {TRUE} \cap {sigint}}

Poll ==
    /\ main = "wait" /\ batch = <<>> /\ Ready # {}
    /\ batch' \in SetToSeqs(Ready)
    /\ UNCHANGED <<version, client, gone, main, busy, down, up, child, task, sigint>>

Event(e) == main = "wait" /\ batch # <<>> /\ Head(batch) = e /\ batch' = Tail(batch)

\* As a mutant: a child that is busy gets the connection all the same.
AcceptAnyChild(c) ==
    /\ Event(<<"listen">>) /\ client[c] = "backlog"
    /\ \E j \in Child \ Dead :
         /\ down' = [down EXCEPT ![j] = Append(@, c)] /\ busy' = [busy EXCEPT ![j] = TRUE]
         /\ client' = [client EXCEPT ![c] = "open"]
    /\ UNCHANGED <<version, gone, main, up, child, task, sigint>>

\* The first child that is not busy gets the connection; without one it is closed.  Sending
\* to a dead child ends main with SIGPIPE.
Accept(c) ==
    /\ Event(<<"listen">>) /\ client[c] = "backlog"
    /\ LET free == {j \in Child : ~busy[j]}
           j    == CHOOSE k \in free : \A l \in free : k <= l
       IN  IF free = {} THEN /\ client' = [client EXCEPT ![c] = IF version.closes THEN "closed" ELSE "open"]
                             /\ UNCHANGED <<main, busy, down>>
           ELSE /\ client' = [client EXCEPT ![c] = "open"]
                /\ IF j \in Dead THEN main' = "dead" /\ UNCHANGED <<busy, down>>
                   ELSE /\ down' = [down EXCEPT ![j] = Append(@, c)]
                        /\ busy' = [busy EXCEPT ![j] = TRUE] /\ UNCHANGED main
    /\ UNCHANGED <<version, gone, up, child, task, sigint>>

\* A child reports, or its end of the socket pair is closed: main makes no difference, but
\* the last version looks at the result of read(), which fails if the child left a
\* connection unread.
Report(j) ==
    /\ Event(<<"child", j>>) /\ busy' = [busy EXCEPT ![j] = FALSE]
    /\ up' = [up EXCEPT ![j] = IF @ > 0 THEN @ - 1 ELSE 0]
    /\ main' = IF version.exits /\ j \in Dead /\ up[j] = 0 /\ down[j] # <<>> THEN "dead" ELSE main
    /\ UNCHANGED <<version, client, gone, down, child, task, sigint>>

\* Every child is told to exit, up to the first one that is dead.
Exit ==
    /\ Event(<<"exit">>)
    /\ main' = IF Dead = {} THEN "exit" ELSE "dead"
    /\ down' = [j \in Child |-> IF \A k \in Dead : j < k THEN Append(down[j], NULL) ELSE down[j]]
    /\ UNCHANGED <<version, client, gone, busy, up, child, task, sigint>>

Return ==
    /\ main = "exit" /\ \A j \in Child : child[j] \in {"exited", "dead"}
    /\ main' = "returned"
    /\ UNCHANGED <<version, client, gone, batch, busy, down, up, child, task, sigint>>
-----------------------------------------------------------------------------
\* child_handle()

Receive(j) ==
    /\ child[j] = "recv" /\ down[j] # <<>> /\ down' = [down EXCEPT ![j] = Tail(@)]
    /\ IF Head(down[j]) = NULL THEN child' = [child EXCEPT ![j] = "exited"] /\ UNCHANGED task
       ELSE child' = [child EXCEPT ![j] = "serve"] /\ task' = [task EXCEPT ![j] = Head(down[j])]
    /\ UNCHANGED <<version, client, gone, main, batch, busy, up, sigint>>

\* A number that stands for nothing in the child's table: send() fails, nobody looks.
ServeNothing(j) ==
    /\ child[j] = "serve" /\ version.gets = "number"
    /\ child' = [child EXCEPT ![j] = "report"] /\ task' = [task EXCEPT ![j] = NULL]
    /\ UNCHANGED <<version, client, gone, main, batch, busy, down, up, sigint>>

\* The client gets its answer; one that has left gets it only as far as the connection
\* stores it.
Serve(j) ==
    /\ child[j] = "serve" /\ version.gets = "descriptor"
    /\ client' = [client EXCEPT ![task[j]] = IF task[j] \in gone THEN "closed" ELSE "answered"]
    /\ child' = [child EXCEPT ![j] = "report"] /\ task' = [task EXCEPT ![j] = NULL]
    /\ UNCHANGED <<version, gone, main, batch, busy, down, up, sigint>>

\* The second send() to a client that has left: SIGPIPE.
Killed(j) ==
    /\ child[j] = "serve" /\ version.gets = "descriptor" /\ version.sends > 1 /\ task[j] \in gone
    /\ client' = [client EXCEPT ![task[j]] = "closed"]
    /\ child' = [child EXCEPT ![j] = "dead"] /\ task' = [task EXCEPT ![j] = NULL]
    /\ UNCHANGED <<version, gone, main, batch, busy, down, up, sigint>>

Free(j) ==
    /\ child[j] = "report" /\ child' = [child EXCEPT ![j] = "recv"]
    /\ up' = [up EXCEPT ![j] = @ + 1]
    /\ UNCHANGED <<version, client, gone, main, batch, busy, down, task, sigint>>

PoolNext ==
    \/ \E c \in Client : Connect(c) \/ Leave(c) \/ Accept(c)
    \/ Sigint \/ Poll \/ Exit \/ Return
    \/ \E j \in Child : Report(j) \/ Receive(j) \/ ServeNothing(j) \/ Serve(j) \/ Killed(j) \/ Free(j)

PoolSpec == PoolInit /\ [][PoolNext]_poolVars
-----------------------------------------------------------------------------
\* main takes exactly the free children for free: those without a client, with none on the way
\* to them and no report of theirs on the way.  So no child gets a second client, no report
\* stands for two, and a connection is turned away only when every child has work.
FreeIsFree == main = "wait" => \A j \in Child \ Dead :
    ~busy[j] <=> child[j] = "recv" /\ down[j] = <<>> /\ up[j] = 0

\* A connection that is open is on the way to one child or being answered by one, and by none
\* once that child is dead; where only its number is passed it stays open for ever.
OneHolder == version.gets = "descriptor" /\ main # "dead" => \A c \in Client :
    client[c] = "open" => Cardinality({j \in Child : task[j] = c \/ c \in ToSet(down[j])}) = 1

\* The server that ends has answered or closed every connection it took; it dies only of a
\* child that a client or the terminal has killed.
EndsInOrder == /\ main = "returned" /\ Dead = {} => \A c \in Client : client[c] # "open"
               /\ main = "dead" => Dead # {}
====
