---- MODULE Kernel ----
(***************************************************************************)
(* xv6: user processes that fork, wait, exit, kill one another and share   *)
(* pipes.  Composes Proc, FileTable and Pipe: the system calls that touch  *)
(* more than one of them, the trap entry, and the next-state relation.     *)
(***************************************************************************)
EXTENDS Pipe

vars == <<procVars, fileVars, pipeVars>>

Init == ProcInit /\ FileInit /\ PipeInit

\* Spin locks that p holds across actions; with one, interrupts are off.
HoldsSpin(p) == waitLock = p \/ \E pi \in Pipes : lock[pi] = p

Fork(p) ==
    \E q \in Slot : \/ ForkAlloc(p, q) /\ ForkFiles(p, q) /\ UNCHANGED pipeVars
                    \/ ForkFail(p, q) /\ UNCHANGED <<fileVars, pipeVars>>

\* The parts of Proc that concern processes only.
ProcStep(p) ==
    /\ \/ ForkStart(p) \/ WaitFail(p) \/ WaitNone(p) \/ WaitSleep(p) \/ ExitProc(p)
       \/ \E q \in Slot : Reap(p, q)
    /\ UNCHANGED <<fileVars, pipeVars>>

FileStep(p) == (FileClose(p) \/ CloseDone(p)) /\ UNCHANGED pipeVars

PipeStep(p) ==
    \/ PipeClose(p)
    \/ ReadBlocks(p) \/ ReadKilled(p) \/ ReadCopy(p)
    \/ WriteFails(p) \/ WriteBlocks(p) \/ WriteByte(p) \/ WriteDone(p)
    \/ Blocked(p)

\* p is in the kernel and goes on.
KernelStep(p) == ProcStep(p) \/ FileStep(p) \/ PipeStep(p)

\* A killed process gets no further than the next trap, which the timer brings.
Die(p) == killed[p] /\ ExitFiles(p) /\ UNCHANGED pipeVars

\* user/init.c starts a shell and waits for children, its own and adopted ones.  That
\* there is memory for the shell is taken for granted: without it init exits, and the
\* kernel stops.
InitProgram(p) ==
    \/ Fork(p) /\ np'[p] # NULL
    \/ Children(p) # {} /\ WaitEnter(p) /\ UNCHANGED <<fileVars, pipeVars>>

\* What any other program may do.
Program(p) ==
    \/ Fork(p)
    \/ WaitEnter(p) /\ UNCHANGED <<fileVars, pipeVars>>
    \/ ~killed[p] /\ ExitFiles(p) /\ UNCHANGED pipeVars
    \/ \E q \in Slot : Kill(p, q) /\ UNCHANGED <<fileVars, pipeVars>>
    \/ \E d \in Fd : \/ (SysDup(p, d) \/ SysClose(p, d)) /\ UNCHANGED pipeVars
                     \/ \E n \in 1..MaxCount, c \in {"read", "write"} : Start(p, d, n, c)
    \/ \E f0, f1 \in File, pi \in Pipes : SysPipe(p, f0, f1, pi)

UserStep(p) == IF p = initproc THEN InitProgram(p) ELSE Program(p)

Dispatch(p) == Schedule(p) /\ UNCHANGED <<fileVars, pipeVars>>
Preempt(p)  == Yield(p, HoldsSpin(p)) /\ UNCHANGED <<fileVars, pipeVars>>

Next == \E p \in Slot : \/ KernelStep(p) \/ Die(p) \/ UserStep(p)
                        \/ Dispatch(p) \/ Preempt(p)

Spec == Init /\ [][Next]_vars

-----------------------------------------------------------------------------
Asleep(p, c) == state[p] = "SLEEPING" /\ chan[p] = c

\* Nobody sleeps past the event it waits for.  A process asleep in wait() has a child
\* and no dead one; a writer asleep has a full pipe and a reader that may empty it; a
\* reader asleep has a writer that may still write, and that is not itself asleep
\* until the reader makes room.  (It may sleep on a pipe that is not empty: a writer
\* killed between two bytes returns without a wakeup.)
SleepersHaveReason ==
    /\ \A p \in Slot : Asleep(p, WaitChan(p)) => Children(p) # {} /\ Zombies(p) = {}
    /\ \A p \in Slot, pi \in Pipes :
         /\ Asleep(p, WriteChan(pi)) => pipe[pi].readopen /\ Full(pi)
         /\ Asleep(p, ReadChan(pi)) =>
              pipe[pi].writeopen /\ ~\E q \in Slot : Asleep(q, WriteChan(pi))

\* Every process that runs, sleeps or waits to be reaped has a parent that lives, and
\* can reap it: exit() leaves nobody behind, also while its children exit with it.
NoOrphans ==
    \A p \in Slot \ {initproc} :
      state[p] \notin {"UNUSED", "USED"} =>
        parent[p] # NULL /\ state[parent[p]] \notin {"UNUSED", "USED", "ZOMBIE"}

\* What the comment on kill() says, "Kill the process with the given pid": a process
\* begins its life not killed.
BornAlive == [][\A p \in Slot : state[p] = "UNUSED" /\ state'[p] = "USED" => ~killed'[p]]_vars
====
