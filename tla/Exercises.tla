---- MODULE Exercises ----
(***************************************************************************)
(* The exercises in synchronisation: two processes that share a buffer     *)
(* counted by System V semaphores, two that add to one number, windows     *)
(* that sell tickets, and a thread that waits for a signal.  A program is  *)
(* what each of its processes or threads does again and again.             *)
(***************************************************************************)
EXTENDS Integers, Sequences, FiniteSets, FiniteSetsExt

CONSTANTS Places,      \* places in the buffer; 10 in the code
          Tickets,    \* tickets for sale; 20
          Refill,     \* tickets the third window adds; 10
          Turns       \* how often each adds to the number; 10 or 20 million.  bound: turns of the endless loops

Actor == 1..3

P(s) == <<"P", s>>
V(s) == <<"V", s>>

\* values: the semaphores at the start; a mutex is one of them.  undo: those used with SEM_UNDO.
\* kills: a process may be killed.  sets: each is a program of its own, and the first sets the
\* values.  code: what each does; the longest part is left to printf and sleep.
Row(values, undo, kills, sets, code) ==
    [values |-> values, undo |-> undo, kills |-> kills, sets |-> sets, code |-> code]

Values(full, empty, mutex) == [full |-> full, empty |-> empty, mutex |-> mutex]

Consumer == <<P("full"), P("mutex"), V("mutex"), V("empty")>>
Producer == <<P("empty"), P("mutex"), V("mutex"), V("full")>>

producer_consumer ==
    Row(Values(Places \div 2, Places - Places \div 2, 1), {"mutex"}, TRUE, FALSE, <<Consumer, Producer>>)
pro_cus == Row(Values(0, Places, 1), {}, TRUE, FALSE,
               <<<<P("full"), V("empty")>>, <<P("empty"), V("full")>>>>)
consumer_producer ==
    Row(Values(0, Places, 1), {"full", "empty", "mutex"}, TRUE, TRUE, <<Consumer, Producer>>)

Add == <<P("mutex"), <<"load", "num">>, <<"store", "num">>, V("mutex")>>
shared_memory_pv                == Row(Values(0, 0, 1), {"mutex"}, TRUE, FALSE, <<Add, Add>>)
add1000                         == Row(Values(0, 0, 1), {"mutex"}, TRUE, FALSE, <<Add, Add>>)
pthread_mutex_lock_add          == Row(Values(0, 0, 1), {}, FALSE, FALSE, <<Add, Add>>)
pthread_mutexAttribute_lock_add == Row(Values(0, 0, 1), {}, TRUE, FALSE, <<Add, Add>>)

sale_window        == <<P("mutex"), <<"sell", "num">>, V("mutex")>>
add_adjust_window3 == <<P("mutex"), <<"wait", "sold">>, <<"refill", "num">>, V("mutex")>>
sale_tickets       == Row(Values(0, 0, 1), {}, FALSE, FALSE, <<sale_window, sale_window>>)
new_sale_tickets   ==
    Row(Values(0, 0, 1), {}, FALSE, FALSE, <<sale_window, sale_window, add_adjust_window3>>)

pthread_condition ==
    Row(Values(0, 0, 1), {}, FALSE, FALSE,
        <<<<<<"signal", "cond">>>>, <<P("mutex"), <<"wait", "signal">>, V("mutex")>>>>)

Buffers == {producer_consumer, pro_cus, consumer_producer}
Adders  == {shared_memory_pv, add1000, pthread_mutex_lock_add, pthread_mutexAttribute_lock_add}
Sales   == {sale_tickets, new_sale_tickets}

VARIABLES program,
          sem,       \* semaphore -> its value
          adj,       \* actor -> semaphore -> what is added to it when the actor dies
          state,     \* actor -> "none", "runs", "waits", "woken", "killed" or "ended"
          pc,        \* actor -> place in its code
          turn,      \* actor -> turns it has finished
          num,       \* the number added to, or the tickets left
          reg,       \* actor -> the number as it read it
          lost,      \* tickets that were left when the third window set their number
          spurious   \* a thread was woken without a signal

exerciseVars == <<program, sem, adj, state, pc, turn, num, reg, lost, spurious>>

ExerciseInit ==
    /\ program \in Buffers \cup Adders \cup Sales \cup {pthread_condition}
    /\ sem = IF program.sets THEN Values(0, 0, 0) ELSE program.values
    /\ adj = [a \in Actor |-> Values(0, 0, 0)]
    /\ state = [a \in Actor |-> IF a \in DOMAIN program.code /\ ~program.sets THEN "runs" ELSE "none"]
    /\ pc = [a \in Actor |-> 1] /\ turn = [a \in Actor |-> 0]
    /\ num = IF program \in Sales THEN Tickets ELSE 0
    /\ reg = [a \in Actor |-> 0] /\ lost = 0 /\ spurious = FALSE
-----------------------------------------------------------------------------
At(a, op) == state[a] = "runs" /\ program.code[a][pc[a]][1] = op

Arg(a) == program.code[a][pc[a]][2]

\* The windows sell until there is nothing left, the third and the signal come once.
LastTurn(a) ==
    IF program \in Buffers \cup Adders THEN turn[a] + 1 = Turns
    ELSE program.code[a] # sale_window

\* a is done with this step.
Goes(a) ==
    /\ pc' = [pc EXCEPT ![a] = IF @ = Len(program.code[a]) THEN 1 ELSE @ + 1]
    /\ turn' = [turn EXCEPT ![a] = IF pc[a] = Len(program.code[a]) THEN @ + 1 ELSE @]

Stays == UNCHANGED <<pc, turn>>

Adjusts(a, s, n) == adj' = IF s \in program.undo THEN [adj EXCEPT ![a][s] = @ + n] ELSE adj

semop_p(a) ==
    /\ At(a, "P") /\ sem[Arg(a)] > 0 /\ Goes(a)
    /\ sem' = [sem EXCEPT ![Arg(a)] = @ - 1] /\ Adjusts(a, Arg(a), 1)
    /\ UNCHANGED <<program, state, num, reg, lost, spurious>>

semop_v(a) ==
    /\ At(a, "V") /\ Goes(a)
    /\ sem' = [sem EXCEPT ![Arg(a)] = @ + 1] /\ Adjusts(a, Arg(a), -1)
    /\ state' = [state EXCEPT ![a] = IF pc[a] = Len(program.code[a]) /\ LastTurn(a) THEN "ended" ELSE @]
    /\ UNCHANGED <<program, num, reg, lost, spurious>>

\* p[0]++ reads and writes.
Load(a) ==
    /\ At(a, "load") /\ Goes(a) /\ reg' = [reg EXCEPT ![a] = num]
    /\ UNCHANGED <<program, sem, adj, state, num, lost, spurious>>

Store(a) ==
    /\ At(a, "store") /\ Goes(a) /\ num' = reg[a] + 1
    /\ UNCHANGED <<program, sem, adj, state, reg, lost, spurious>>

Waiters == {b \in Actor : state[b] = "waits"}

\* pthread_cond_signal wakes one that waits, if there is one.
Signals(st) == IF Waiters = {} THEN state' = st ELSE \E b \in Waiters : state' = [st EXCEPT ![b] = "woken"]

Sell(a) ==
    /\ At(a, "sell") /\ num > 0 /\ num' = num - 1 /\ Goes(a)
    /\ IF num = 1 /\ program = new_sale_tickets THEN Signals(state) ELSE UNCHANGED state
    /\ UNCHANGED <<program, sem, adj, reg, lost, spurious>>

\* Nothing is left: the window unlocks and closes.
SoldOut(a) ==
    /\ At(a, "sell") /\ num = 0
    /\ sem' = [sem EXCEPT !["mutex"] = @ + 1] /\ state' = [state EXCEPT ![a] = "ended"]
    /\ UNCHANGED <<program, adj, num, reg, lost, spurious>> /\ Stays

Signal(a) ==
    /\ At(a, "signal") /\ Signals([state EXCEPT ![a] = "ended"])
    /\ UNCHANGED <<program, sem, adj, num, reg, lost, spurious>> /\ Stays

\* pthread_cond_wait unlocks the mutex; the third window waits only while there are tickets.
Wait(a) ==
    /\ At(a, "wait") /\ (Arg(a) = "sold" => num > 0)
    /\ sem' = [sem EXCEPT !["mutex"] = @ + 1] /\ state' = [state EXCEPT ![a] = "waits"]
    /\ UNCHANGED <<program, adj, num, reg, lost, spurious>> /\ Stays

NoWait(a) ==
    /\ At(a, "wait") /\ Arg(a) = "sold" /\ num = 0 /\ Goes(a)
    /\ UNCHANGED <<program, sem, adj, state, num, reg, lost, spurious>>

SpuriousWakeup(a) ==
    /\ state[a] = "waits" /\ state' = [state EXCEPT ![a] = "woken"] /\ spurious' = TRUE
    /\ UNCHANGED <<program, sem, adj, num, reg, lost>> /\ Stays

\* pthread_cond_wait locks the mutex again.  The condition is not looked at again.
Relock(a) ==
    /\ state[a] = "woken" /\ sem["mutex"] > 0 /\ sem' = [sem EXCEPT !["mutex"] = @ - 1]
    /\ state' = [state EXCEPT ![a] = "runs"] /\ Goes(a)
    /\ UNCHANGED <<program, adj, num, reg, lost, spurious>>

SetTickets(a) ==
    /\ At(a, "refill") /\ num' = Refill /\ lost' = num /\ Goes(a)
    /\ UNCHANGED <<program, sem, adj, state, reg, spurious>>

\* A process is killed: the kernel undoes what it did with SEM_UNDO, but no value is below 0.
Kill(a) ==
    /\ program.kills /\ state[a] = "runs" /\ state' = [state EXCEPT ![a] = "killed"]
    /\ sem' = [s \in DOMAIN sem |-> IF sem[s] + adj[a][s] > 0 THEN sem[s] + adj[a][s] ELSE 0]
    /\ adj' = [adj EXCEPT ![a] = Values(0, 0, 0)]
    /\ UNCHANGED <<program, num, reg, lost, spurious>> /\ Stays

\* The programs are started one by one, and again.  The consumer sets the values, which
\* forgets what was to be undone.
Start(a) ==
    /\ program.sets /\ a \in DOMAIN program.code /\ state[a] \in {"none", "killed"} /\ turn[a] < Turns
    /\ state' = [state EXCEPT ![a] = "runs"] /\ pc' = [pc EXCEPT ![a] = 1]
    /\ IF a = 1 THEN sem' = program.values /\ adj' = [b \in Actor |-> Values(0, 0, 0)]
                ELSE UNCHANGED <<sem, adj>>
    /\ UNCHANGED <<program, turn, num, reg, lost, spurious>>

ExerciseNext == \E a \in Actor :
    \/ semop_p(a) \/ semop_v(a) \/ Load(a) \/ Store(a) \/ Sell(a) \/ SoldOut(a) \/ Signal(a)
    \/ Wait(a) \/ NoWait(a) \/ SpuriousWakeup(a) \/ Relock(a) \/ SetTickets(a) \/ Kill(a) \/ Start(a)

ExerciseSpec == ExerciseInit /\ [][ExerciseNext]_exerciseVars
-----------------------------------------------------------------------------
\* Whether a has locked the mutex; one that is killed stays where it was.
Inside(a) == \E i \in 1..(pc[a] - 1) : /\ program.code[a][i] = P("mutex")
                                       /\ \A j \in i..(pc[a] - 1) : program.code[a][j] # V("mutex")
                                       /\ state[a] \in {"runs", "killed"}

SumOf(S, f(_)) == FoldSet(LAMBDA a, n : f(a) + n, 0, S)

Sold == LET by(a) == turn[a] + IF pc[a] = 3 THEN 1 ELSE 0
        IN  SumOf({a \in DOMAIN program.code : program.code[a] = sale_window}, by)

\* What the semaphores, the number and the tickets say is true.  A buffer has all its places,
\* but for those in the hands of a process, also of a dead one if it did not undo; what is undone
\* is given back at least, and the mutex exactly; nobody's addition is lost; a ticket is sold
\* once or left, all of the second delivery or none, and lost only if a wake-up was spurious.
CountsHold ==
    LET undone(s) == LET f(a) == adj[a][s] IN SumOf(Actor, f)
        added     == LET f(a) == turn[a] + IF pc[a] = 4 THEN 1 ELSE 0 IN SumOf(DOMAIN program.code, f)
        refilled  == program = new_sale_tickets /\ (pc[3] = 4 \/ state[3] = "ended")
    IN  /\ program \in Buffers /\ "full" \notin program.undo =>
             sem["full"] + sem["empty"] + Cardinality({a \in DOMAIN program.code : pc[a] > 1}) = Places
        /\ program.sets /\ state[1] # "none" => \A s \in {"full", "empty"} :
             sem[s] + undone(s) >= program.values[s]
        /\ "mutex" \in program.undo /\ (program.sets => state[1] # "none") => sem["mutex"] + undone("mutex") = 1
        /\ program \in Adders => num = added
        /\ program \in Sales =>
             /\ num + Sold + lost = Tickets + (IF refilled THEN Refill ELSE 0)
             /\ lost > 0 => spurious
             /\ (\A a \in Actor : state[a] \in {"ended", "none"}) => num \in {0, Refill}

\* Two are inside only if the values were set while one was; who waits for the mutex waits
\* for one inside, killed there only if the mutex is not undone; the two of a buffer wait for
\* each other only if one was killed or has not come; a window waits only while tickets are left.
StuckForAReason ==
    LET runs    == {a \in Actor : state[a] = "runs"}
        inside  == {a \in DOMAIN program.code : Inside(a)}
        off     == {a \in runs : "mutex" \in program.undo
                                 /\ adj[a]["mutex"] # (IF a \in inside THEN 1 ELSE 0)}
        blocked == {a \in runs : At(a, "P") /\ sem[Arg(a)] = 0}
    IN  /\ Cardinality(inside \cap runs) > 1 => off # {} /\ program.sets
        /\ \A a \in blocked : Arg(a) = "mutex" =>
             \E b \in inside : b \in runs \/ "mutex" \notin program.undo
        /\ blocked # {} /\ blocked = runs =>
             \E b \in DOMAIN program.code : state[b] = "killed" \/ (program \in Buffers /\ b \notin runs)
        /\ \A a \in Waiters : program = new_sale_tickets => num > 0
====
