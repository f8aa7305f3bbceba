---- MODULE TaskPool ----
(***************************************************************************)
(* What the thread pool promises to its callers: submitted tasks wait in   *)
(* one line, an idle worker takes the oldest, every task is run by one     *)
(* worker at a time, and a task's memory is reused only after the worker   *)
(* has finished with it.                                                   *)
(***************************************************************************)
EXTENDS Sequences

CONSTANTS Worker, Task, Idle

VARIABLES line,      \* the submitted tasks nobody has taken yet, oldest first
          running    \* running[w]: the task worker w executes, or Idle

vars == <<line, running>>

InLine == {line[i] : i \in DOMAIN line}

Init == /\ line = <<>>
        /\ running = [w \in Worker |-> Idle]

Submit(t) == /\ t \notin InLine
             /\ \A w \in Worker : running[w] # t
             /\ line' = Append(line, t)
             /\ UNCHANGED running

Take(w) == /\ running[w] = Idle
           /\ line # <<>>
           /\ running' = [running EXCEPT ![w] = Head(line)]
           /\ line' = Tail(line)

Finish(w) == /\ running[w] # Idle
             /\ running' = [running EXCEPT ![w] = Idle]
             /\ UNCHANGED line

Next == \/ \E t \in Task : Submit(t)
        \/ \E w \in Worker : Take(w) \/ Finish(w)

Spec == Init /\ [][Next]_vars
====
