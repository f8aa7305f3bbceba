---- MODULE Proc ----
(***************************************************************************)
(* xv6: the process table.  fork, wait, exit and kill, the scheduler, and  *)
(* sleep and wakeup, on which every blocking call of the kernel is built.  *)
(*                                                                         *)
(* An action is one critical section.  Where a process goes to sleep it    *)
(* tests its condition under the condition's lock, and it still holds that *)
(* lock when it marks itself SLEEPING; but kill() takes no such lock, so   *)
(* the test of p->killed and the sleep are two actions.                    *)
(***************************************************************************)
EXTENDS Naturals, FiniteSets

CONSTANTS Slot,       \* the entries of proc[NPROC]
          initproc,   \* the one of the first process
          NCPU,       \* the number of CPUs
          NULL        \* no process, no lock holder, no channel

ASSUME SlotAssumption == IsFiniteSet(Slot) /\ initproc \in Slot /\ NULL \notin Slot
ASSUME CpuAssumption  == NCPU \in Nat \ {0}

VARIABLES state,     \* p->state
          chan,      \* p->chan
          killed,    \* p->killed
          parent,    \* p->parent
          pc,        \* where p is in the kernel, or "user"
          np,        \* the slot fork() is filling for p
          waitLock   \* who holds wait_lock across actions

procVars == <<state, chan, killed, parent, pc, np, waitLock>>

States == {"UNUSED", "USED", "SLEEPING", "RUNNABLE", "RUNNING", "ZOMBIE"}

Unused == {q \in Slot : state[q] = "UNUSED"}
Children(p) == {q \in Slot : parent[q] = p}
WaitChan(p) == <<"wait", p>>

At(p, s) == state[p] = "RUNNING" /\ pc[p] = s

\* Where usertrap() lets p start a system call.
Enter(p) == At(p, "user") /\ ~killed[p]

ProcInit ==
    /\ state = [p \in Slot |-> IF p = initproc THEN "RUNNABLE" ELSE "UNUSED"]
    /\ chan = [p \in Slot |-> NULL]
    /\ killed = [p \in Slot |-> FALSE]
    /\ parent = [p \in Slot |-> NULL]
    /\ pc = [p \in Slot |-> "user"]
    /\ np = [p \in Slot |-> NULL]
    /\ waitLock = NULL

-----------------------------------------------------------------------------
\* Sleep and wakeup, scheduling.

\* The states after wakeup(c).
Wakeup(c) == [q \in Slot |-> IF state[q] = "SLEEPING" /\ chan[q] = c
                             THEN "RUNNABLE" ELSE state[q]]

\* sleep(c, lk): the caller's action gives up lk in the same step, since p->lock
\* is taken first and wakeup() needs it.  p resumes at s.
SleepOn(p, c, s) ==
    /\ chan' = [chan EXCEPT ![p] = c]
    /\ state' = [state EXCEPT ![p] = "SLEEPING"]
    /\ pc' = [pc EXCEPT ![p] = s]

\* What sleep() does once p runs again: it leaves the channel.
Resume(p) == chan' = [chan EXCEPT ![p] = NULL]

\* A CPU's scheduler picks p.
Schedule(p) ==
    /\ state[p] = "RUNNABLE"
    /\ Cardinality({q \in Slot : state[q] = "RUNNING"}) < NCPU
    /\ state' = [state EXCEPT ![p] = "RUNNING"]
    /\ UNCHANGED <<chan, killed, parent, pc, np, waitLock>>

\* A timer interrupt.  While p holds a spin lock interrupts are off.
Yield(p, holds) ==
    /\ state[p] = "RUNNING" /\ ~holds
    /\ state' = [state EXCEPT ![p] = "RUNNABLE"]
    /\ UNCHANGED <<chan, killed, parent, pc, np, waitLock>>

-----------------------------------------------------------------------------
\* System calls on processes.

\* allocproc() finds q and the copy of the parent's memory succeeds.  killed is
\* left as it was in the unused entry.
ForkAlloc(p, q) ==
    /\ Enter(p)
    /\ q \in Unused
    /\ state' = [state EXCEPT ![q] = "USED"]
    /\ np' = [np EXCEPT ![p] = q]
    /\ pc' = [pc EXCEPT ![p] = "fork", ![q] = "user"]
    /\ UNCHANGED <<chan, killed, parent, waitLock>>

\* The entry was found, memory was not: freeproc() clears the entry.  Finding no
\* entry changes nothing.
ForkFail(p, q) ==
    /\ Enter(p)
    /\ q \in Unused
    /\ killed' = [killed EXCEPT ![q] = FALSE]
    /\ UNCHANGED <<state, chan, parent, pc, np, waitLock>>

\* The child gets its parent, under wait_lock, and becomes runnable.
ForkStart(p) ==
    /\ At(p, "fork") /\ waitLock = NULL
    /\ parent' = [parent EXCEPT ![np[p]] = p]
    /\ state' = [state EXCEPT ![np[p]] = "RUNNABLE"]
    /\ np' = [np EXCEPT ![p] = NULL]
    /\ pc' = [pc EXCEPT ![p] = "user"]
    /\ UNCHANGED <<chan, killed, waitLock>>

\* One pass of wait()'s loop, under wait_lock: reap a zombie (unless its status
\* cannot be copied out), give up, or decide to sleep and keep the lock.
WaitEnter(p) ==
    /\ Enter(p)
    /\ pc' = [pc EXCEPT ![p] = "wait"]
    /\ UNCHANGED <<state, chan, killed, parent, np, waitLock>>

Zombies(p) == {q \in Children(p) : state[q] = "ZOMBIE"}

Reap(p, q) ==
    /\ At(p, "wait") /\ waitLock = NULL
    /\ q \in Zombies(p)
    /\ state' = [state EXCEPT ![q] = "UNUSED"]
    /\ parent' = [parent EXCEPT ![q] = NULL]
    /\ killed' = [killed EXCEPT ![q] = FALSE]
    /\ pc' = [pc EXCEPT ![p] = "user"]
    /\ Resume(p)
    /\ UNCHANGED <<np, waitLock>>

\* -1: the zombie's status cannot be copied to the caller's address (init asks for
\* none), there are no children, or the caller was killed.
WaitFail(p) ==
    /\ At(p, "wait") /\ waitLock = NULL
    /\ (Zombies(p) # {} /\ p # initproc) \/ Children(p) = {} \/ killed[p]
    /\ pc' = [pc EXCEPT ![p] = "user"]
    /\ Resume(p)
    /\ UNCHANGED <<state, killed, parent, np, waitLock>>

\* Mutant: wait_lock is not held between the scan and the sleep.
WaitNoneUnlocked(p) ==
    /\ At(p, "wait") /\ waitLock = NULL
    /\ Zombies(p) = {} /\ Children(p) # {} /\ ~killed[p]
    /\ pc' = [pc EXCEPT ![p] = "wait_sleep"]
    /\ Resume(p)
    /\ UNCHANGED <<state, killed, parent, np, waitLock>>

WaitNone(p) ==
    /\ At(p, "wait") /\ waitLock = NULL
    /\ Zombies(p) = {} /\ Children(p) # {} /\ ~killed[p]
    /\ waitLock' = p
    /\ pc' = [pc EXCEPT ![p] = "wait_sleep"]
    /\ Resume(p)
    /\ UNCHANGED <<state, killed, parent, np>>

WaitSleep(p) ==
    /\ At(p, "wait_sleep")
    /\ SleepOn(p, WaitChan(p), "wait")
    /\ waitLock' = NULL
    /\ UNCHANGED <<killed, parent, np>>

\* Mutant: reparent() is left out of exit().
ExitProcNoReparent(p) ==
    /\ At(p, "exit") /\ waitLock = NULL
    /\ state' = [Wakeup(WaitChan(parent[p])) EXCEPT ![p] = "ZOMBIE"]
    /\ pc' = [pc EXCEPT ![p] = "user"]
    /\ UNCHANGED <<chan, killed, parent, np, waitLock>>

\* exit() once the files are closed, all under wait_lock: the children go to init,
\* which is woken; the parent is woken; p is a zombie.
ExitProc(p) ==
    /\ At(p, "exit") /\ waitLock = NULL
    /\ parent' = [q \in Slot |-> IF parent[q] = p THEN initproc ELSE parent[q]]
    /\ LET toInit == IF Children(p) # {} THEN {WaitChan(initproc)} ELSE {}
           woken  == toInit \cup {WaitChan(parent[p])}
       IN state' = [q \in Slot |->
                      CASE q = p -> "ZOMBIE"
                        [] q # p /\ state[q] = "SLEEPING" /\ chan[q] \in woken -> "RUNNABLE"
                        [] OTHER -> state[q]]
    /\ pc' = [pc EXCEPT ![p] = "user"]
    /\ UNCHANGED <<chan, killed, np, waitLock>>

\* kill(): of an entry that has a process, or, with the number 0, of an entry that
\* has none.  Nobody kills init, whose death stops the kernel.
Kill(p, q) ==
    /\ Enter(p)
    /\ q # initproc
    /\ killed' = [killed EXCEPT ![q] = TRUE]
    /\ state' = IF state[q] = "SLEEPING" THEN [state EXCEPT ![q] = "RUNNABLE"] ELSE state
    /\ UNCHANGED <<chan, parent, pc, np, waitLock>>

-----------------------------------------------------------------------------
ProcTypeOK ==
    /\ state \in [Slot -> States]
    /\ killed \in [Slot -> BOOLEAN]
    /\ parent \in [Slot -> Slot \cup {NULL}]
    /\ np \in [Slot -> Slot \cup {NULL}]
    /\ waitLock \in Slot \cup {NULL}
====
