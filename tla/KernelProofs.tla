---- MODULE KernelProofs ----
(***************************************************************************)
(* xv6's processes, files and pipes, for any number of them, any size of a  *)
(* pipe and any width of its counters: nobody is orphaned, references are   *)
(* counted right, ends are open while there is a file for them, unread      *)
(* bytes stay, and no process sleeps past the event it waits for.           *)
(*                                                                         *)
(* The invariant is built in layers, each proved with the help of those    *)
(* below it: ProcInv on processes, FileInv on files, UseInv on what a      *)
(* process holds while it is in the kernel, EndInv on the ends of pipes,   *)
(* DataInv on their contents, WaitInv on who waits for a child, BlockInv on*)
(* who waits for a pipe.                                                   *)
(***************************************************************************)
EXTENDS Kernel, TLAPS, FiniteSetTheorems, WellFoundedInduction

PCs == {"user", "fork", "wait", "wait_sleep", "close", "exit_close", "exit",
        "read", "read_sleep", "write", "write_sleep"}

ChanOK == chan = [p \in Slot |-> chan[p]]

\* p has a process that has begun and not exited.
Live(p) == state[p] \in {"SLEEPING", "RUNNABLE", "RUNNING"}

\* Entries of the process table: who is in the kernel is alive, an entry that is not in
\* use has no parent, and the one a fork() is filling is filled by nobody else.
ProcInv ==
    /\ ProcTypeOK /\ pc \in [Slot -> PCs] /\ ChanOK
    /\ Live(initproc) /\ pc[initproc] \notin {"exit_close", "exit"}
    /\ \A p \in Slot : ~Live(p) => pc[p] = "user"
    /\ \A p \in Slot : state[p] \in {"UNUSED", "USED"} => parent[p] = NULL
    /\ \A p \in Slot : pc[p] = "fork" => np[p] \in Slot /\ state[np[p]] = "USED"
    /\ \A p, q \in Slot : pc[p] = "fork" /\ pc[q] = "fork" /\ np[p] = np[q] => p = q
    /\ NoOrphans

Entry == [ref : Nat, writable : BOOLEAN, pipe : Pipes \cup {NULL}]

FileTypeOK ==
    /\ ftable \in [File -> Entry] /\ ff \in [Slot -> Entry]
    /\ ofile \in [Slot -> [Fd -> File \cup {NULL}]]
    /\ toClose \in [Slot -> Seq(File)]

NoFiles(p) == \A d \in Fd : ofile[p][d] = NULL

\* Files: only a process inside close(), exit() or a failing pipe() has files left to
\* close, and an entry or a process that has given up its files has no descriptors.
FileShape ==
    /\ FileTypeOK
    /\ \A f \in File : ftable[f].ref > 0 => ftable[f].pipe # NULL
    /\ \A p \in Slot : pc[p] \notin {"close", "exit_close"} => toClose[p] = <<>> /\ ff[p].pipe = NULL
    /\ \A p \in Slot : state[p] \in {"UNUSED", "ZOMBIE"} \/ pc[p] \in {"exit_close", "exit"} => NoFiles(p)

FileInv ==
    /\ FileShape
    /\ \A f \in File : IsFiniteSet(Closings(f))
    /\ RefCountsHolders

RWs == {"read", "read_sleep", "write", "write_sleep"}

\* Who is inside read() or write() has the file open.
UseInv ==
    /\ cur \in [Slot -> File \cup {NULL}] /\ left \in [Slot -> Nat]
    /\ lock \in [Pipes -> Slot \cup {NULL}]
    /\ \A p \in Slot : pc[p] \in RWs => cur[p] \in File /\ \E d \in Fd : ofile[p][d] = cur[p]

\* The claims to an end of a pipe: an open file, or a copy on its way to pipeclose().
Has(f, pi, w)    == ftable[f].ref > 0 /\ ftable[f].pipe = pi /\ ftable[f].writable = w
Copied(p, pi, w) == ff[p].pipe = pi /\ ff[p].writable = w

\* An end has one file, or one copy of the last.
OneClaim ==
    \A pi \in Pipes, w \in BOOLEAN :
      /\ \A f, g \in File : Has(f, pi, w) /\ Has(g, pi, w) => f = g
      /\ \A f \in File, p \in Slot : ~(Has(f, pi, w) /\ Copied(p, pi, w))
      /\ \A p, q \in Slot : Copied(p, pi, w) /\ Copied(q, pi, w) => p = q

Counter == 0..(UINT - 1)

Contents == [used : BOOLEAN, readopen : BOOLEAN, writeopen : BOOLEAN,
             nread : Counter, nwrite : Counter, data : [0..(PIPESIZE - 1) -> Counter]]

IsOpen(pi, w) == IF w THEN pipe[pi].writeopen ELSE pipe[pi].readopen

\* Pipes: an end has one claim at most, and is open while it has it.
EndInv ==
    /\ pipe \in [Pipes -> Contents]
    /\ OneClaim
    /\ \A pi \in Pipes, w \in BOOLEAN : IsOpen(pi, w) <=> EndIsOpen(pi, w)
    /\ \A pi \in Pipes : pipe[pi].used <=> pipe[pi].readopen \/ pipe[pi].writeopen

\* wait(): who is about to sleep holds wait_lock, under which it found that it must.
WaitInv ==
    /\ \A p \in Slot : pc[p] = "wait_sleep" => waitLock = p /\ Children(p) # {} /\ Zombies(p) = {}
    /\ \A p \in Slot : Asleep(p, WaitChan(p)) => Children(p) # {} /\ Zombies(p) = {}

\* Pipes: the same with the pipe's lock.
ReadReady(p) == /\ lock[PipeOf(p)] = p /\ Empty(PipeOf(p)) /\ pipe[PipeOf(p)].writeopen

WriteReady(p) == /\ lock[PipeOf(p)] = p /\ Full(PipeOf(p)) /\ pipe[PipeOf(p)].readopen
                 /\ ~\E q \in Slot : Asleep(q, ReadChan(PipeOf(p)))

Sleepers(pi) ==
    \A q \in Slot : /\ Asleep(q, WriteChan(pi)) => pipe[pi].readopen /\ Full(pi)
                    /\ Asleep(q, ReadChan(pi)) =>
                         pipe[pi].writeopen /\ ~\E r \in Slot : Asleep(r, WriteChan(pi))

BlockInv ==
    /\ \A p \in Slot : pc[p] = "read_sleep" => ReadReady(p)
    /\ \A p \in Slot : pc[p] = "write_sleep" => WriteReady(p)
    /\ \A pi \in Pipes : Sleepers(pi)

-----------------------------------------------------------------------------
\* Processes.

LEMMA LiveOrNot ==
    ASSUME ProcTypeOK, NEW p \in Slot
    PROVE  Live(p) <=> state[p] \notin {"UNUSED", "USED", "ZOMBIE"}
BY DEF ProcTypeOK, States, Live

\* A step that begins and ends no process, but moves some of those that are alive.
Calm ==
    /\ state' \in [Slot -> States] /\ killed' \in [Slot -> BOOLEAN]
    /\ waitLock' \in Slot \cup {NULL}
    /\ pc' \in [Slot -> PCs] /\ ChanOK'
    /\ UNCHANGED <<parent, np>>
    /\ \A q \in Slot : state'[q] = state[q] \/ (Live(q) /\ Live(q)')
    /\ \A q \in Slot : \/ pc'[q] = pc[q]
                       \/ /\ Live(q) /\ pc'[q] # "fork"
                          /\ q = initproc => pc'[q] \notin {"exit_close", "exit"}

LEMMA CalmInv == ASSUME ProcInv, Calm PROVE ProcInv'
<1>1. ProcTypeOK'
  BY DEF ProcInv, ProcTypeOK, Calm
<1>2. \A q \in Slot : Live(q)' <=> Live(q)
  BY DEF Calm, Live
<1>3. \A q \in Slot : state[q] \in {"UNUSED", "USED", "ZOMBIE"} => state'[q] = state[q]
  BY DEF Calm, Live
<1>4. \A q \in Slot : pc'[q] = "fork" => pc[q] = "fork"
  BY DEF Calm
<1>5. initproc \in Slot /\ Live(initproc)'
  BY <1>2, SlotAssumption DEF ProcInv
<1>6. pc'[initproc] \notin {"exit_close", "exit"}
  BY <1>5 DEF ProcInv, Calm
<1>7. \A p \in Slot : ~Live(p)' => pc'[p] = "user"
  BY <1>2 DEF ProcInv, Calm
<1>8. \A p \in Slot : state'[p] \in {"UNUSED", "USED"} => parent'[p] = NULL
  BY DEF ProcInv, Calm, Live
<1>9. \A p \in Slot : pc'[p] = "fork" => np'[p] \in Slot /\ state'[np'[p]] = "USED"
  BY <1>3, <1>4 DEF ProcInv, Calm
<1>10. \A p, q \in Slot : pc'[p] = "fork" /\ pc'[q] = "fork" /\ np'[p] = np'[q] => p = q
  BY <1>4 DEF ProcInv, Calm
<1>11. NoOrphans'
  <2> SUFFICES ASSUME NEW p \in Slot \ {initproc}, state'[p] \notin {"UNUSED", "USED"}
               PROVE  parent'[p] # NULL /\ state'[parent'[p]] \notin {"UNUSED", "USED", "ZOMBIE"}
    BY DEF NoOrphans
  <2>1. state[p] \notin {"UNUSED", "USED"}
    BY <1>3
  <2>2. parent[p] # NULL /\ state[parent[p]] \notin {"UNUSED", "USED", "ZOMBIE"} /\ parent[p] \in Slot
    BY <2>1 DEF ProcInv, ProcTypeOK, NoOrphans
  <2>3. Live(parent[p]) /\ parent'[p] = parent[p]
    BY <2>2, LiveOrNot DEF ProcInv, Calm
  <2>4. \A q \in Slot : Live(q) => state'[q] \in {"SLEEPING", "RUNNABLE", "RUNNING"}
    BY <1>2 DEF Live
  <2> QED BY <2>2, <2>3, <2>4
<1> QED BY <1>1, <1>5, <1>6, <1>7, <1>8, <1>9, <1>10, <1>11 DEF ProcInv, Calm

LEMMA WakeupLive ==
    ASSUME ProcTypeOK, NEW c, state' = Wakeup(c)
    PROVE  /\ state' \in [Slot -> States]
           /\ \A q \in Slot : state'[q] = state[q] \/ (Live(q) /\ Live(q)')
BY DEF ProcTypeOK, Wakeup, States, Live

LEMMA ChanStays == ChanOK /\ chan' = chan => ChanOK'
BY DEF ChanOK

\* A step of p, which runs, that at most puts it to sleep or wakes others.
LEMMA OneMoves ==
    ASSUME ProcInv, NEW p \in Slot, state[p] = "RUNNING",
           NEW s \in PCs, s # "fork", p = initproc => s \notin {"exit_close", "exit"},
           pc' = [pc EXCEPT ![p] = s], ChanOK',
           killed' \in [Slot -> BOOLEAN], waitLock' \in Slot \cup {NULL}, UNCHANGED <<parent, np>>,
           state' \in [Slot -> States], \A q \in Slot : state'[q] = state[q] \/ (Live(q) /\ Live(q)')
    PROVE  Calm
<1>1. pc \in [Slot -> PCs] /\ Live(p)
  BY DEF ProcInv, Live
<1>2. pc' \in [Slot -> PCs]
  BY <1>1
<1>3. \A q \in Slot : q # p => pc'[q] = pc[q]
  BY <1>1
<1> QED BY <1>1, <1>2, <1>3 DEF Calm

LEMMA WaitCalm ==
    ASSUME ProcInv, NEW p \in Slot,
           WaitEnter(p) \/ WaitFail(p) \/ WaitNone(p) \/ WaitSleep(p)
    PROVE  Calm
<1> USE DEF ProcInv, ProcTypeOK
<1>1. state[p] = "RUNNING" /\ UNCHANGED <<parent, np, killed>>
  BY DEF WaitEnter, WaitFail, WaitNone, WaitSleep, Enter, At
<1>2. ChanOK' /\ waitLock' \in Slot \cup {NULL}
  BY DEF ChanOK, WaitEnter, WaitFail, WaitNone, WaitSleep, Resume, SleepOn
<1>3. state' \in [Slot -> States] /\ \A q \in Slot : state'[q] = state[q] \/ (Live(q) /\ Live(q)')
  BY <1>1 DEF WaitEnter, WaitFail, WaitNone, WaitSleep, SleepOn, States, Live
<1>4. \E s \in {"wait", "user", "wait_sleep"} : pc' = [pc EXCEPT ![p] = s]
  BY DEF WaitEnter, WaitFail, WaitNone, WaitSleep, SleepOn
<1> HIDE DEF ProcInv, ProcTypeOK
<1> QED BY <1>1, <1>2, <1>3, <1>4, ChanStays, OneMoves DEF PCs, ProcInv, ProcTypeOK

LEMMA OtherProcCalm ==
    ASSUME ProcInv, NEW p \in Slot, NEW q \in Slot, NEW holds,
           ForkFail(p, q) \/ Kill(p, q) \/ Schedule(p) \/ Yield(p, holds)
    PROVE  Calm
<1> USE DEF ProcInv, ProcTypeOK
<1>1. UNCHANGED <<parent, np, pc, chan, waitLock>> /\ killed' \in [Slot -> BOOLEAN]
  BY DEF ForkFail, Kill, Schedule, Yield
<1>2. state' \in [Slot -> States] /\ \A r \in Slot : state'[r] = state[r] \/ (Live(r) /\ Live(r)')
  BY DEF ForkFail, Kill, Schedule, Yield, States, Live
<1> QED BY <1>1, <1>2, ChanStays DEF Calm

\* fork() takes an entry for a child that has yet to begin.
LEMMA ForkAllocInv ==
    ASSUME ProcInv, NEW p \in Slot, NEW q \in Slot, ForkAlloc(p, q) PROVE ProcInv'
<1>1. /\ state[p] = "RUNNING" /\ state[q] = "UNUSED" /\ pc[p] = "user"
      /\ state' = [state EXCEPT ![q] = "USED"] /\ np' = [np EXCEPT ![p] = q]
      /\ pc' = [pc EXCEPT ![p] = "fork", ![q] = "user"]
      /\ UNCHANGED <<chan, killed, parent, waitLock>>
  BY DEF ForkAlloc, Enter, At, Unused
<1>2. p # q /\ q # initproc
  BY <1>1 DEF ProcInv, Live
<1>3. /\ ProcTypeOK /\ ProcTypeOK' /\ pc \in [Slot -> PCs] /\ pc' \in [Slot -> PCs]
      /\ ChanOK'
  BY <1>1 DEF ProcInv, ProcTypeOK, ChanOK, States, PCs
<1>4. /\ state'[q] = "USED" /\ np'[p] = q /\ pc'[p] = "fork" /\ pc'[q] = "user"
      /\ \A r \in Slot : r # q => state'[r] = state[r]
      /\ \A r \in Slot : r # p => np'[r] = np[r] /\ (r # q => pc'[r] = pc[r])
  BY <1>1, <1>2, <1>3 DEF ProcTypeOK
<1>5. \A r \in Slot : pc[r] = "fork" => np[r] # q
  BY <1>1 DEF ProcInv
<1>6. Live(initproc)' /\ pc'[initproc] \notin {"exit_close", "exit"}
  BY <1>2, <1>4, SlotAssumption DEF ProcInv, Live
<1>7. \A r \in Slot : ~Live(r)' => pc'[r] = "user"
  BY <1>1, <1>2, <1>4 DEF ProcInv, Live
<1>8. \A r \in Slot : state'[r] \in {"UNUSED", "USED"} => parent'[r] = NULL
  BY <1>1, <1>4 DEF ProcInv
<1>9. \A r \in Slot : pc'[r] = "fork" => np'[r] \in Slot /\ state'[np'[r]] = "USED"
  BY <1>2, <1>4, <1>5 DEF ProcInv
<1>10. \A r, t \in Slot : pc'[r] = "fork" /\ pc'[t] = "fork" /\ np'[r] = np'[t] => r = t
  BY <1>2, <1>4, <1>5 DEF ProcInv
<1>11. NoOrphans'
  BY <1>1, <1>3, <1>4 DEF ProcInv, NoOrphans, ProcTypeOK
<1> QED BY <1>3, <1>6, <1>7, <1>8, <1>9, <1>10, <1>11 DEF ProcInv

\* fork() lets the child go: its parent is the caller, which is alive.
LEMMA ForkStartInv == ASSUME ProcInv, NEW p \in Slot, ForkStart(p) PROVE ProcInv'
<1> DEFINE q == np[p]
<1>1. /\ state[p] = "RUNNING" /\ pc[p] = "fork" /\ q \in Slot /\ state[q] = "USED"
      /\ parent' = [parent EXCEPT ![q] = p] /\ state' = [state EXCEPT ![q] = "RUNNABLE"]
      /\ np' = [np EXCEPT ![p] = NULL] /\ pc' = [pc EXCEPT ![p] = "user"]
      /\ UNCHANGED <<chan, killed, waitLock>>
  BY DEF ForkStart, At, ProcInv
<1> HIDE DEF q
<1>2. p # q /\ q # initproc
  BY <1>1 DEF ProcInv, Live
<1>3. /\ ProcTypeOK /\ ProcTypeOK' /\ pc \in [Slot -> PCs] /\ pc' \in [Slot -> PCs]
      /\ ChanOK'
  BY <1>1 DEF ProcInv, ProcTypeOK, ChanOK, States, PCs
<1>4. /\ state'[q] = "RUNNABLE" /\ pc'[p] = "user" /\ parent'[q] = p
      /\ \A r \in Slot : r # q => state'[r] = state[r] /\ parent'[r] = parent[r]
      /\ \A r \in Slot : r # p => np'[r] = np[r] /\ pc'[r] = pc[r]
  BY <1>1, <1>2, <1>3 DEF ProcTypeOK
<1>5. \A r \in Slot : pc'[r] = "fork" => pc[r] = "fork" /\ r # p /\ np[r] # q
  BY <1>1, <1>4 DEF ProcInv, q
<1>6. Live(initproc)' /\ pc'[initproc] \notin {"exit_close", "exit"}
  BY <1>2, <1>4, SlotAssumption DEF ProcInv, Live
<1>7. \A r \in Slot : ~Live(r)' => pc'[r] = "user"
  BY <1>4 DEF ProcInv, Live
<1>8. \A r \in Slot : state'[r] \in {"UNUSED", "USED"} => parent'[r] = NULL
  BY <1>4 DEF ProcInv
<1>9. \A r \in Slot : pc'[r] = "fork" => np'[r] \in Slot /\ state'[np'[r]] = "USED"
  BY <1>4, <1>5 DEF ProcInv
<1>10. \A r, t \in Slot : pc'[r] = "fork" /\ pc'[t] = "fork" /\ np'[r] = np'[t] => r = t
  BY <1>4, <1>5 DEF ProcInv
<1>11. NoOrphans'
  BY <1>1, <1>2, <1>3, <1>4, SlotAssumption DEF ProcInv, NoOrphans, ProcTypeOK
<1> QED BY <1>3, <1>6, <1>7, <1>8, <1>9, <1>10, <1>11 DEF ProcInv

\* A zombie that is reaped is nobody's parent.
LEMMA ReapInv == ASSUME ProcInv, NEW p \in Slot, NEW q \in Slot, Reap(p, q) PROVE ProcInv'
<1>1. /\ state[p] = "RUNNING" /\ pc[p] = "wait" /\ state[q] = "ZOMBIE"
      /\ state' = [state EXCEPT ![q] = "UNUSED"] /\ parent' = [parent EXCEPT ![q] = NULL]
      /\ killed' = [killed EXCEPT ![q] = FALSE] /\ pc' = [pc EXCEPT ![p] = "user"]
      /\ chan' = [chan EXCEPT ![p] = NULL] /\ UNCHANGED <<np, waitLock>>
  BY DEF Reap, At, Zombies, Resume
<1>2. p # q /\ q # initproc
  BY <1>1 DEF ProcInv, Live
<1>3. /\ ProcTypeOK /\ ProcTypeOK' /\ pc \in [Slot -> PCs] /\ pc' \in [Slot -> PCs]
      /\ ChanOK'
  BY <1>1 DEF ProcInv, ProcTypeOK, ChanOK, States, PCs
<1>4. /\ state'[q] = "UNUSED" /\ parent'[q] = NULL /\ pc'[p] = "user"
      /\ \A r \in Slot : r # q => state'[r] = state[r] /\ parent'[r] = parent[r]
      /\ \A r \in Slot : r # p => pc'[r] = pc[r]
  BY <1>1, <1>2, <1>3 DEF ProcTypeOK
<1>5. pc[q] = "user" /\ \A r \in Slot : pc'[r] = "fork" => pc[r] = "fork" /\ np[r] # q
  BY <1>1, <1>4 DEF ProcInv, Live
<1>6. Live(initproc)' /\ pc'[initproc] \notin {"exit_close", "exit"}
  BY <1>2, <1>4, SlotAssumption DEF ProcInv, Live
<1>7. \A r \in Slot : ~Live(r)' => pc'[r] = "user"
  BY <1>4, <1>5 DEF ProcInv, Live
<1>8. \A r \in Slot : state'[r] \in {"UNUSED", "USED"} => parent'[r] = NULL
  BY <1>4 DEF ProcInv
<1>9. \A r \in Slot : pc'[r] = "fork" => np'[r] \in Slot /\ state'[np'[r]] = "USED"
  BY <1>1, <1>4, <1>5 DEF ProcInv
<1>10. \A r, t \in Slot : pc'[r] = "fork" /\ pc'[t] = "fork" /\ np'[r] = np'[t] => r = t
  BY <1>1, <1>5 DEF ProcInv
<1>11. NoOrphans'
  BY <1>1, <1>3, <1>4 DEF ProcInv, NoOrphans, ProcTypeOK
<1> QED BY <1>3, <1>6, <1>7, <1>8, <1>9, <1>10, <1>11 DEF ProcInv

\* exit(): the children go to init, which never exits; the parent of the one that exits
\* is another, alive.
LEMMA ExitProcInv == ASSUME ProcInv, NEW p \in Slot, ExitProc(p) PROVE ProcInv'
<1>1. /\ state[p] = "RUNNING" /\ pc[p] = "exit" /\ p # initproc
      /\ parent' = [q \in Slot |-> IF parent[q] = p THEN initproc ELSE parent[q]]
      /\ pc' = [pc EXCEPT ![p] = "user"] /\ UNCHANGED <<chan, killed, np, waitLock>>
  BY DEF ExitProc, At, ProcInv
<1>2. /\ state' \in [Slot -> States] /\ state'[p] = "ZOMBIE"
      /\ \A q \in Slot : q # p => \/ state'[q] = state[q]
                                  \/ state[q] = "SLEEPING" /\ state'[q] = "RUNNABLE"
  <2>1. PICK W : state' = [q \in Slot |->
                  CASE q = p -> "ZOMBIE"
                    [] q # p /\ state[q] = "SLEEPING" /\ chan[q] \in W -> "RUNNABLE"
                    [] OTHER -> state[q]]
    BY DEF ExitProc
  <2>2. /\ state'[p] = "ZOMBIE"
        /\ \A q \in Slot : q # p => state'[q] = IF state[q] = "SLEEPING" /\ chan[q] \in W
                                              THEN "RUNNABLE" ELSE state[q]
    BY <2>1
  <2>3. state' \in [Slot -> States]
    <3>1. \A q \in Slot : state'[q] \in States
      BY <2>2 DEF ProcInv, ProcTypeOK, States
    <3> QED BY <2>1, <3>1
  <2>4. ASSUME NEW q \in Slot, q # p
        PROVE  \/ state'[q] = state[q]
               \/ state[q] = "SLEEPING" /\ state'[q] = "RUNNABLE"
    <3>1. CASE state[q] = "SLEEPING" /\ chan[q] \in W
      BY <2>2, <2>4, <3>1
    <3>2. CASE ~(state[q] = "SLEEPING" /\ chan[q] \in W)
      BY <2>2, <2>4, <3>2
    <3> QED BY <3>1, <3>2
  <2> QED BY <2>2, <2>3, <2>4
<1>3. /\ ProcTypeOK /\ ProcTypeOK' /\ pc \in [Slot -> PCs] /\ pc' \in [Slot -> PCs]
      /\ ChanOK'
  BY <1>1, <1>2, SlotAssumption DEF ProcInv, ProcTypeOK, ChanOK, PCs
<1>4. pc'[p] = "user" /\ \A r \in Slot : r # p => pc'[r] = pc[r]
  BY <1>1, <1>3
<1>5. \A r \in Slot : pc'[r] = "fork" => pc[r] = "fork" /\ np[r] # p
  BY <1>1, <1>4 DEF ProcInv
<1>6. Live(initproc)' /\ pc'[initproc] \notin {"exit_close", "exit"}
  BY <1>1, <1>2, <1>4, SlotAssumption DEF ProcInv, Live
<1>7. \A r \in Slot : ~Live(r)' => pc'[r] = "user"
  BY <1>2, <1>4 DEF ProcInv, Live
<1>8. \A r \in Slot : state'[r] \in {"UNUSED", "USED"} => parent'[r] = NULL
  BY <1>1, <1>2, SlotAssumption DEF ProcInv
<1>9. \A r \in Slot : pc'[r] = "fork" => np'[r] \in Slot /\ state'[np'[r]] = "USED"
  BY <1>1, <1>2, <1>5 DEF ProcInv
<1>10. \A r, t \in Slot : pc'[r] = "fork" /\ pc'[t] = "fork" /\ np'[r] = np'[t] => r = t
  BY <1>1, <1>5 DEF ProcInv
<1>11. NoOrphans'
  <2> SUFFICES ASSUME NEW q \in Slot \ {initproc}, state'[q] \notin {"UNUSED", "USED"}
               PROVE  parent'[q] # NULL /\ state'[parent'[q]] \notin {"UNUSED", "USED", "ZOMBIE"}
    BY DEF NoOrphans
  <2>1. state[q] \notin {"UNUSED", "USED"}
    BY <1>1, <1>2
  <2>2. parent[q] # NULL /\ parent[q] \in Slot /\ state[parent[q]] \notin {"UNUSED", "USED", "ZOMBIE"}
    BY <2>1 DEF ProcInv, ProcTypeOK, NoOrphans
  <2>3. CASE parent[q] = p
    BY <1>1, <1>6, <2>3, SlotAssumption DEF Live
  <2>4. CASE parent[q] # p
    BY <1>1, <1>2, <2>2, <2>4
  <2> QED BY <2>3, <2>4
<1> QED BY <1>3, <1>6, <1>7, <1>8, <1>9, <1>10, <1>11 DEF ProcInv

\* The steps of p inside the file and the pipe code, as far as processes go.
LEMMA FileCalm ==
    ASSUME ProcInv, NEW p \in Slot, NEW d \in Fd,
           SysDup(p, d) \/ SysClose(p, d) \/ ExitFiles(p) \/ FileClose(p) \/ CloseDone(p)
    PROVE  Calm
<1> USE DEF ProcInv, ProcTypeOK
<1>1. /\ state[p] = "RUNNING" /\ state' = state /\ chan' = chan
      /\ UNCHANGED <<killed, parent, np, waitLock>>
  BY DEF SysDup, SysClose, ExitFiles, FileClose, CloseDone, Enter, At, Closing, procVars
<1>2. \/ pc' = pc
      \/ pc' = [pc EXCEPT ![p] = "user"] \/ pc' = [pc EXCEPT ![p] = "close"]
      \/ p # initproc /\ (pc' = [pc EXCEPT ![p] = "exit_close"] \/ pc' = [pc EXCEPT ![p] = "exit"])
  BY DEF SysDup, SysClose, ExitFiles, FileClose, CloseDone, procVars
<1>3. CASE pc' = pc
  BY <1>1, <1>3, ChanStays DEF Calm
<1> HIDE DEF ProcInv, ProcTypeOK
<1>4. ProcInv => /\ ChanOK /\ killed \in [Slot -> BOOLEAN]
                 /\ waitLock \in Slot \cup {NULL} /\ state \in [Slot -> States]
  BY DEF ProcInv, ProcTypeOK
<1> QED BY <1>1, <1>2, <1>3, <1>4, ChanStays, OneMoves DEF PCs

LEMMA SysPipeCalm ==
    ASSUME ProcInv, NEW p \in Slot, NEW f0 \in File, NEW f1 \in File, NEW pi \in Pipes,
           SysPipe(p, f0, f1, pi)
    PROVE  Calm
<1>1. /\ state[p] = "RUNNING" /\ state' = state /\ chan' = chan
      /\ UNCHANGED <<killed, parent, np, waitLock>>
  BY DEF SysPipe, Enter, At
<1>2. pc' = pc \/ pc' = [pc EXCEPT ![p] = "close"]
  BY DEF SysPipe
<1>3. /\ ChanOK /\ killed \in [Slot -> BOOLEAN] /\ pc \in [Slot -> PCs]
      /\ waitLock \in Slot \cup {NULL} /\ state \in [Slot -> States]
  BY DEF ProcInv, ProcTypeOK
<1>4. CASE pc' = pc
  BY <1>1, <1>3, <1>4, ChanStays DEF Calm
<1> QED BY <1>1, <1>2, <1>3, <1>4, ChanStays, OneMoves DEF PCs

LEMMA StartCalm ==
    ASSUME ProcInv, NEW p \in Slot, NEW d \in Fd, NEW n, NEW c \in {"read", "write"}, Start(p, d, n, c)
    PROVE  Calm
<1>1. /\ state[p] = "RUNNING" /\ state' = state /\ chan' = chan /\ pc' = [pc EXCEPT ![p] = c]
      /\ UNCHANGED <<killed, parent, np, waitLock>>
  BY DEF Start, Enter, At
<1>2. /\ ChanOK /\ killed \in [Slot -> BOOLEAN]
      /\ waitLock \in Slot \cup {NULL} /\ state \in [Slot -> States]
  BY DEF ProcInv, ProcTypeOK
<1>3. c \in PCs /\ c # "fork" /\ c \notin {"exit_close", "exit"}
  BY DEF PCs
<1> QED BY <1>1, <1>2, <1>3, ChanStays, OneMoves

LEMMA PipeCalm ==
    ASSUME ProcInv, NEW p \in Slot, PipeStep(p)
    PROVE  Calm
<1>0. /\ ChanOK /\ killed \in [Slot -> BOOLEAN] /\ pc \in [Slot -> PCs]
      /\ waitLock \in Slot \cup {NULL} /\ state \in [Slot -> States] /\ ProcTypeOK
  BY DEF ProcInv, ProcTypeOK
<1>1. CASE PipeClose(p)
  <2>1. /\ UNCHANGED <<chan, killed, parent, pc, np, waitLock>>
        /\ \E c : state' = Wakeup(c)
    BY <1>1 DEF PipeClose
  <2> QED BY <1>0, <2>1, ChanStays, WakeupLive DEF Calm
<1>2. CASE ~PipeClose(p)
  <2>1. state[p] = "RUNNING" /\ UNCHANGED <<killed, parent, np, waitLock>>
    BY <1>2 DEF PipeStep, ReadBlocks, ReadKilled, ReadCopy, WriteFails, WriteBlocks, WriteByte,
                WriteDone, Blocked, Return, MustWait, Writing, At
  <2>2. ChanOK'
    BY <1>0, <1>2
       DEF ChanOK, PipeStep, ReadBlocks, ReadKilled, ReadCopy, WriteFails, WriteBlocks, WriteByte,
           WriteDone, Blocked, Return, MustWait, Resume, SleepOn
  <2>3. state' \in [Slot -> States] /\ \A q \in Slot : state'[q] = state[q] \/ (Live(q) /\ Live(q)')
    <3>1. \/ state' = state \/ (\E c : state' = Wakeup(c))
          \/ state' = [state EXCEPT ![p] = "SLEEPING"]
      BY <1>2 DEF PipeStep, ReadBlocks, ReadKilled, ReadCopy, WriteFails, WriteBlocks, WriteByte,
                  WriteDone, Blocked, Return, MustWait, SleepOn
    <3>2. CASE state' = state
      BY <1>0, <3>2
    <3>3. CASE \E c : state' = Wakeup(c)
      BY <1>0, <3>3, WakeupLive
    <3>4. CASE state' = [state EXCEPT ![p] = "SLEEPING"]
      BY <1>0, <2>1, <3>4 DEF States, Live
    <3> QED BY <3>1, <3>2, <3>3, <3>4
  <2>4. pc' = pc \/ \E s \in {"user", "read", "write", "read_sleep", "write_sleep"} : pc' = [pc EXCEPT ![p] = s]
    BY <1>2 DEF PipeStep, ReadBlocks, ReadKilled, ReadCopy, WriteFails, WriteBlocks, WriteByte,
                WriteDone, Blocked, Return, MustWait, SleepOn
  <2>5. CASE pc' = pc
    BY <1>0, <2>1, <2>2, <2>3, <2>5 DEF Calm
  <2> QED BY <1>0, <2>1, <2>2, <2>3, <2>4, <2>5, OneMoves DEF PCs
<1> QED BY <1>1, <1>2

-----------------------------------------------------------------------------
\* Which steps of the system there are.
LEMMA ProcSteps ==
    ASSUME ProcInv, [Next]_vars
    PROVE  \/ Calm
           \/ \E p, q \in Slot : ForkAlloc(p, q) \/ Reap(p, q)
           \/ \E p \in Slot : ForkStart(p) \/ ExitProc(p)
<1>1. CASE UNCHANGED vars
  BY <1>1, ChanStays DEF vars, procVars, Calm, ProcInv, ProcTypeOK
<1>2. ASSUME NEW p \in Slot, ProcStep(p)
      PROVE  \/ Calm \/ (\E q \in Slot : Reap(p, q)) \/ ForkStart(p) \/ ExitProc(p)
  BY <1>2, WaitCalm DEF ProcStep
<1>3. ASSUME NEW p \in Slot, FileStep(p) PROVE Calm
  BY <1>3, FdAssumption, FileCalm DEF FileStep
<1>4. ASSUME NEW p \in Slot, PipeStep(p) PROVE Calm
  BY <1>4, PipeCalm
<1>5. ASSUME NEW p \in Slot, ExitFiles(p) PROVE Calm
  BY <1>5, FdAssumption, FileCalm
<1>6. ASSUME NEW p \in Slot, Fork(p) PROVE Calm \/ \E q \in Slot : ForkAlloc(p, q)
  BY <1>6, OtherProcCalm DEF Fork
<1>7. ASSUME NEW p \in Slot, Program(p) PROVE Calm \/ \E q \in Slot : ForkAlloc(p, q)
  BY <1>5, <1>6, <1>7, WaitCalm, OtherProcCalm, FileCalm, StartCalm, SysPipeCalm DEF Program
<1>8. ASSUME NEW p \in Slot, InitProgram(p) PROVE Calm \/ \E q \in Slot : ForkAlloc(p, q)
  BY <1>6, <1>8, WaitCalm DEF InitProgram
<1>9. ASSUME NEW p \in Slot, Dispatch(p) \/ Preempt(p) PROVE Calm
  BY <1>9, OtherProcCalm DEF Dispatch, Preempt
<1> QED BY <1>1, <1>2, <1>3, <1>4, <1>5, <1>7, <1>8, <1>9 DEF Next, KernelStep, Die, UserStep

LEMMA ProcInvStep == ProcInv /\ [Next]_vars => ProcInv'
BY ProcSteps, CalmInv, ForkAllocInv, ReapInv, ForkStartInv, ExitProcInv

LEMMA ProcInvInit == Init => ProcInv
<1> SUFFICES ASSUME Init PROVE ProcInv
  OBVIOUS
<1>1. ProcTypeOK /\ pc \in [Slot -> PCs] /\ ChanOK
  BY DEF Init, ProcInit, ProcTypeOK, PCs, ChanOK, States
<1>2. Live(initproc) /\ \A p \in Slot : pc[p] = "user" /\ parent[p] = NULL /\ (p # initproc => state[p] = "UNUSED")
  BY SlotAssumption DEF Init, ProcInit, Live
<1>3. NoOrphans
  BY <1>2 DEF NoOrphans
<1> QED BY <1>1, <1>2, <1>3, SlotAssumption DEF ProcInv

\* The entries of the process table are used as allocproc(), fork(), exit() and wait() mean
\* them to be, the inductive invariant the others stand on.
THEOREM Processes == Spec => []ProcInv
BY ProcInvInit, ProcInvStep, PTL DEF Spec

\* Nobody is left behind: whoever runs, sleeps or is to be reaped has a parent that lives,
\* whatever the order in which processes fork, exit and are killed.
THEOREM NobodyOrphaned == Spec => []NoOrphans
<1>1. ProcInv => NoOrphans
  BY DEF ProcInv
<1> QED BY <1>1, Processes, PTL

-----------------------------------------------------------------------------
\* Files: the sets whose elements ref counts.

LEMMA MinOfNats ==
    ASSUME NEW S \in SUBSET Nat, S # {}
    PROVE  Min(S) \in S /\ \A x \in S : Min(S) <= x
<1>1. PICK m \in S : \A y \in S : ~(<<y, m>> \in OpToRel(<, Nat))
  BY NatLessThanWellFounded, WFMin
<1>2. \A y \in S : ~(y < m)
  BY <1>1, Zenon DEF OpToRel
<1>3. \A y \in S : m <= y
  BY <1>2
<1> QED BY <1>3 DEF Min

\* fdalloc() returns a free descriptor, if there is one.
LEMMA FreeFd ==
    ASSUME NEW S \in SUBSET Fd, S # {}
    PROVE  Min(S) \in S
BY MinOfNats, FdAssumption

LEMMA InDescriptors ==
    ASSUME NEW f, NEW h
    PROVE  h \in Descriptors(f) <=>
             \E p \in Slot, d \in Fd : h = <<p, d>> /\ ofile[p][d] = f
BY DEF Descriptors

LEMMA InClosings ==
    ASSUME NEW f, NEW h
    PROVE  h \in Closings(f) <=>
             \E p \in Slot : \E i \in DOMAIN toClose[p] : h = <<p, i>> /\ toClose[p][i] = f
BY DEF Closings

LEMMA DescriptorsFinite ==
    ASSUME NEW f
    PROVE  IsFiniteSet(Descriptors(f)) /\ Cardinality(Descriptors(f)) \in Nat
<1>1. IsFiniteSet(Slot \X Fd)
  BY SlotAssumption, FdAssumption, FS_Product
<1>2. Descriptors(f) \subseteq Slot \X Fd
  BY DEF Descriptors
<1> QED BY <1>1, <1>2, FS_Subset, FS_CardinalityType

\* Pairing the elements of a finite set with one thing keeps their number.
LEMMA Paired ==
    ASSUME NEW x, NEW S, IsFiniteSet(S)
    PROVE  IsFiniteSet({x} \X S) /\ Cardinality({x} \X S) = Cardinality(S)
<1>1. IsFiniteSet({x}) /\ Cardinality({x}) = 1
  BY FS_Singleton
<1>2. Cardinality(S) \in Nat
  BY FS_CardinalityType
<1> QED BY <1>1, <1>2, FS_Product

\* Taking some elements away, or adding others.
LEMMA CardLess ==
    ASSUME NEW S, NEW T \in SUBSET S, IsFiniteSet(S)
    PROVE  /\ IsFiniteSet(S \ T) /\ IsFiniteSet(T)
           /\ Cardinality(S) = Cardinality(S \ T) + Cardinality(T)
           /\ Cardinality(S \ T) \in Nat /\ Cardinality(T) \in Nat /\ Cardinality(S) \in Nat
<1>1. IsFiniteSet(S \ T) /\ IsFiniteSet(T)
  BY FS_Subset
<1>2. (S \ T) \cup T = S /\ (S \ T) \cap T = {}
  OBVIOUS
<1>3. Cardinality((S \ T) \cup T) = Cardinality(S \ T) + Cardinality(T) - Cardinality((S \ T) \cap T)
  BY <1>1, FS_Union
<1>4. Cardinality(S \ T) \in Nat /\ Cardinality(T) \in Nat /\ Cardinality(S) \in Nat
  BY <1>1, FS_CardinalityType
<1>5. Cardinality((S \ T) \cap T) = 0
  BY <1>2, FS_EmptySet
<1>6. Cardinality(S) = Cardinality(S \ T) + Cardinality(T)
  <2>1. Cardinality((S \ T) \cup T) = Cardinality(S)
    BY <1>2
  <2> QED BY <1>3, <1>4, <1>5, <2>1
<1> QED BY <1>1, <1>4, <1>6

LEMMA CardMore ==
    ASSUME NEW S, NEW T, IsFiniteSet(S), IsFiniteSet(T), S \cap T = {}
    PROVE  /\ IsFiniteSet(S \cup T)
           /\ Cardinality(S \cup T) = Cardinality(S) + Cardinality(T)
<1>1. Cardinality(S \cup T) = Cardinality(S) + Cardinality(T) - Cardinality(S \cap T)
  BY FS_Union
<1>2. Cardinality({}) = 0
  BY FS_EmptySet
<1>3. Cardinality(S) \in Nat /\ Cardinality(T) \in Nat
  BY FS_CardinalityType
<1> QED BY <1>1, <1>2, <1>3, FS_Union

LEMMA CardOne == ASSUME NEW x PROVE IsFiniteSet({x}) /\ Cardinality({x}) = 1
BY FS_Singleton

\* A file some descriptor or some call of fileclose() refers to is in use, and one that
\* is not in use has no references.
LEMMA RefIsCount ==
    ASSUME FileInv, NEW f \in File
    PROVE  /\ ftable[f].ref \in Nat
           /\ ftable[f].ref = Cardinality(Descriptors(f)) + Cardinality(Closings(f))
           /\ IsFiniteSet(Descriptors(f)) /\ Cardinality(Descriptors(f)) \in Nat
           /\ IsFiniteSet(Closings(f)) /\ Cardinality(Closings(f)) \in Nat
           /\ Descriptors(f) # {} \/ Closings(f) # {} => ftable[f].ref > 0
           /\ ftable[f].ref = 0 => Descriptors(f) = {} /\ Closings(f) = {}
<1>1. IsFiniteSet(Closings(f)) /\ Cardinality(Closings(f)) \in Nat
  BY FS_CardinalityType DEF FileInv, FileShape
<1>2. /\ Cardinality(Descriptors(f)) = 0 <=> Descriptors(f) = {}
      /\ Cardinality(Closings(f)) = 0 <=> Closings(f) = {}
  BY <1>1, DescriptorsFinite, FS_EmptySet
<1>3. ftable[f].ref \in Nat /\ ftable[f].ref = Cardinality(Descriptors(f)) + Cardinality(Closings(f))
  BY DEF FileInv, FileShape, FileTypeOK, Entry, RefCountsHolders
<1> QED BY <1>1, <1>2, <1>3, DescriptorsFinite

LEMMA OpenIsUsed ==
    ASSUME FileInv, NEW p \in Slot, NEW d \in Fd, ofile[p][d] # NULL
    PROVE  ofile[p][d] \in File /\ ftable[ofile[p][d]].ref > 0
<1>1. ofile[p][d] \in File
  BY DEF FileInv, FileShape, FileTypeOK
<1>2. <<p, d>> \in Descriptors(ofile[p][d])
  BY InDescriptors
<1> QED BY <1>1, <1>2, RefIsCount

-----------------------------------------------------------------------------
\* Files: what each step does to them.

\* Steps that leave files and descriptors alone: who leaves close() or exit() has nothing
\* left to close, who becomes a zombie has no descriptors.
LEMMA FilesStay ==
    ASSUME FileInv, UNCHANGED fileVars,
           \A q \in Slot : pc'[q] = pc[q] \/ (toClose[q] = <<>> /\ ff[q].pipe = NULL),
           \A q \in Slot : state'[q] \in {"UNUSED", "ZOMBIE"} \/ pc'[q] \in {"exit_close", "exit"} =>
                          state[q] \in {"UNUSED", "ZOMBIE"} \/ pc[q] \in {"exit_close", "exit"}
    PROVE  FileInv'
<1>1. FileShape'
  BY DEF FileInv, FileShape, FileTypeOK, NoFiles, fileVars
<1>2. \A f \in File : Descriptors(f)' = Descriptors(f) /\ Closings(f)' = Closings(f)
  BY DEF Descriptors, Closings, fileVars
<1> QED BY <1>1, <1>2 DEF FileInv, FileShape, RefCountsHolders, fileVars

LEMMA SysDupFiles ==
    ASSUME ProcInv, FileInv, NEW p \in Slot, NEW d \in Fd, SysDup(p, d) PROVE FileInv'
<1> DEFINE g == ofile[p][d]
           m == Min(FreeFds(p))
<1>1. /\ state[p] = "RUNNING" /\ pc[p] = "user" /\ FreeFds(p) # {} /\ g # NULL
      /\ ofile' = [ofile EXCEPT ![p][m] = g]
      /\ ftable' = [ftable EXCEPT ![g].ref = @ + 1]
      /\ UNCHANGED <<toClose, ff, state, pc>>
  BY DEF SysDup, Enter, At, Open, procVars
<1>2. g \in File /\ ftable[g].ref > 0 /\ FileTypeOK
  BY <1>1, OpenIsUsed DEF FileInv, FileShape
<1>3. m \in Fd /\ ofile[p][m] = NULL
  BY <1>1, FreeFd DEF FreeFds
<1> HIDE DEF g, m
<1>4. FileTypeOK'
  <2>1. ftable' \in [File -> Entry]
    <3>1. ftable \in [File -> Entry] /\ ftable[g].ref + 1 \in Nat
      BY <1>2 DEF FileTypeOK, Entry
    <3>2. [ftable[g] EXCEPT !.ref = @ + 1] \in Entry
      BY <1>2, <3>1 DEF Entry
    <3> QED BY <1>1, <3>1, <3>2
  <2>2. ofile' \in [Slot -> [Fd -> File \cup {NULL}]]
    BY <1>1, <1>2, <1>3 DEF FileTypeOK
  <2> QED BY <1>1, <2>1, <2>2 DEF FileInv, FileShape, FileTypeOK
<1>5. /\ ofile'[p][m] = g
      /\ \A q \in Slot, e \in Fd : <<q, e>> # <<p, m>> => ofile'[q][e] = ofile[q][e]
      /\ ftable'[g].ref = ftable[g].ref + 1 /\ ftable'[g].pipe = ftable[g].pipe
      /\ \A f \in File : f # g => ftable'[f] = ftable[f]
  BY <1>1, <1>2, <1>3 DEF FileTypeOK, Entry
<1>6. FileShape'
  <2>1. \A q \in Slot : q # p => NoFiles(q)' = NoFiles(q)
    BY <1>5 DEF NoFiles
  <2>2. \A f \in File : ftable'[f].ref > 0 => ftable'[f].pipe # NULL
    BY <1>2, <1>5 DEF FileInv, FileShape
  <2> QED BY <1>1, <1>4, <2>1, <2>2 DEF FileInv, FileShape
<1>7. \A f \in File : Closings(f)' = Closings(f)
  BY <1>1 DEF Closings
<1>8. ASSUME NEW f \in File
      PROVE  ftable'[f].ref = Cardinality(Descriptors(f)') + Cardinality(Closings(f)')
  <2>1. CASE f = g
    <3>1. Descriptors(f)' = Descriptors(f) \cup {<<p, m>>}
      BY <1>3, <1>5, <2>1 DEF Descriptors
    <3>2. <<p, m>> \notin Descriptors(f)
      BY <1>3, <1>2, <2>1, InDescriptors, FdAssumption
    <3>3. Cardinality(Descriptors(f)') = Cardinality(Descriptors(f)) + 1
      BY <3>1, <3>2, DescriptorsFinite, FS_AddElement
    <3> QED BY <1>5, <1>7, <2>1, <3>3, RefIsCount
  <2>2. CASE f # g
    <3>1. Descriptors(f)' = Descriptors(f)
      BY <1>3, <1>5, <2>2, FdAssumption DEF Descriptors
    <3> QED BY <1>5, <1>7, <2>2, <3>1, RefIsCount
  <2> QED BY <2>1, <2>2
<1>9. \A f \in File : IsFiniteSet(Closings(f)')
  BY <1>7 DEF FileInv, FileShape
<1> QED BY <1>6, <1>8, <1>9 DEF FileInv, FileShape, RefCountsHolders

LEMMA SysCloseFiles ==
    ASSUME ProcInv, FileInv, NEW p \in Slot, NEW d \in Fd, SysClose(p, d) PROVE FileInv'
<1> DEFINE g == ofile[p][d]
<1>1. /\ state[p] = "RUNNING" /\ pc[p] = "user" /\ g # NULL
      /\ ofile' = [ofile EXCEPT ![p][d] = NULL]
      /\ toClose' = [toClose EXCEPT ![p] = <<g>>]
      /\ pc' = [pc EXCEPT ![p] = "close"]
      /\ UNCHANGED <<ftable, ff, state>>
  BY DEF SysClose, Enter, At, Open
<1>2. g \in File /\ FileTypeOK /\ pc \in [Slot -> PCs] /\ toClose[p] = <<>>
  BY <1>1, OpenIsUsed DEF FileInv, FileShape, ProcInv
<1> HIDE DEF g
<1>3. FileTypeOK'
  <2>1. toClose' \in [Slot -> Seq(File)]
    BY <1>1, <1>2 DEF FileTypeOK
  <2>2. ofile' \in [Slot -> [Fd -> File \cup {NULL}]]
    BY <1>1 DEF FileInv, FileShape, FileTypeOK
  <2> QED BY <1>1, <2>1, <2>2 DEF FileInv, FileShape, FileTypeOK
<1>4. /\ ofile'[p][d] = NULL
      /\ \A q \in Slot, e \in Fd : <<q, e>> # <<p, d>> => ofile'[q][e] = ofile[q][e]
      /\ toClose'[p] = <<g>> /\ \A q \in Slot : q # p => toClose'[q] = toClose[q] /\ pc'[q] = pc[q]
      /\ pc'[p] = "close"
  BY <1>1, <1>2 DEF FileTypeOK
<1>5. FileShape'
  <2>1. \A q \in Slot : NoFiles(q) => NoFiles(q)'
    BY <1>4 DEF NoFiles
  <2> QED BY <1>1, <1>3, <1>4, <2>1 DEF FileInv, FileShape
<1>6. ASSUME NEW f \in File
      PROVE  /\ IsFiniteSet(Closings(f)')
             /\ ftable'[f].ref = Cardinality(Descriptors(f)') + Cardinality(Closings(f)')
  <2>1. CASE f = g
    <3>1. Descriptors(f)' = Descriptors(f) \ {<<p, d>>} /\ <<p, d>> \in Descriptors(f)
      BY <1>2, <1>4, <2>1, FdAssumption DEF Descriptors, g
    <3>2. Closings(f)' = Closings(f) \cup {<<p, 1>>} /\ <<p, 1>> \notin Closings(f)
      <4>1. \A h : h \in Closings(f)' <=> \E q \in Slot : \E i \in DOMAIN toClose'[q] :
                                               h = <<q, i>> /\ toClose'[q][i] = f
        BY DEF Closings
      <4>2. DOMAIN toClose[p] = {} /\ DOMAIN toClose'[p] = {1} /\ toClose'[p][1] = f
        BY <1>2, <1>4, <2>1
      <4>3. \A h : h \in Closings(f)' <=> h \in Closings(f) \/ h = <<p, 1>>
        BY <1>4, <4>1, <4>2, InClosings
      <4>4. <<p, 1>> \notin Closings(f)
        BY <4>2, InClosings
      <4> QED BY <4>3, <4>4
    <3>3. Cardinality(Descriptors(f)') = Cardinality(Descriptors(f)) - 1
      BY <3>1, DescriptorsFinite, FS_RemoveElement
    <3>4. IsFiniteSet(Closings(f)') /\ Cardinality(Closings(f)') = Cardinality(Closings(f)) + 1
      <4>1. IsFiniteSet(Closings(f))
        BY RefIsCount
      <4> QED BY <3>2, <4>1, FS_AddElement
    <3> QED BY <1>1, <3>3, <3>4, RefIsCount
  <2>2. CASE f # g
    <3>1. Descriptors(f)' = Descriptors(f)
      BY <1>4, <2>2, FdAssumption DEF Descriptors, g
    <3>2. Closings(f)' = Closings(f)
      <4>1. \A h : h \in Closings(f)' <=> \E q \in Slot : \E i \in DOMAIN toClose'[q] :
                                               h = <<q, i>> /\ toClose'[q][i] = f
        BY DEF Closings
      <4>2. DOMAIN toClose[p] = {} /\ DOMAIN toClose'[p] = {1} /\ toClose'[p][1] # f
        BY <1>2, <1>4, <2>2
      <4>3. \A h : h \in Closings(f)' <=> h \in Closings(f)
        BY <1>4, <4>1, <4>2, InClosings
      <4> QED BY <4>3
    <3> QED BY <1>1, <3>1, <3>2, RefIsCount
  <2> QED BY <2>1, <2>2
<1> QED BY <1>5, <1>6 DEF FileInv, FileShape, RefCountsHolders

\* The descriptors in increasing order are all of them, each once.
LEMMA Enumerates ==
    ASSUME NEW S \in SUBSET Fd, NEW n \in Nat, n = Cardinality(S), NEW e \in [1..n -> S],
           \A i, j \in DOMAIN e : i < j => e[i] < e[j]
    PROVE  /\ \A i, j \in 1..n : e[i] = e[j] => i = j
           /\ \A x \in S : \E i \in 1..n : e[i] = x
<1>1. \A i \in 1..n : e[i] \in Nat
  BY FdAssumption
<1>2. \A i, j \in 1..n : e[i] = e[j] => i = j
  <2> SUFFICES ASSUME NEW i \in 1..n, NEW j \in 1..n, e[i] = e[j], i # j PROVE FALSE
    OBVIOUS
  <2>1. i < j \/ j < i
    OBVIOUS
  <2> QED BY <1>1, <2>1
<1>3. IsFiniteSet(S) /\ IsFiniteSet(1..n) /\ Cardinality(1..n) = n
  <2>1. IsFiniteSet(1..n) /\ Cardinality(1..n) = IF 1 > n THEN 0 ELSE n - 1 + 1
    <3>1. 1 \in Int /\ n \in Int
      OBVIOUS
    <3> QED BY <3>1, FS_Interval, Zenon
  <2>2. IsFiniteSet(S)
    BY FdAssumption, FS_Subset
  <2> QED BY <2>1, <2>2
<1>4. e \in Injection(1..n, S)
  BY <1>2 DEF Injection, IsInjective
<1>5. e \in Surjection(1..n, S)
  BY <1>3, <1>4, FS_Injection
<1> QED BY <1>2, <1>5 DEF Surjection

\* As many elements on both sides of a one-to-one map.
LEMMA SameCard ==
    ASSUME NEW S, NEW T, IsFiniteSet(S), NEW e \in [S -> T],
           \A x, y \in S : e[x] = e[y] => x = y,
           \A z \in T : \E x \in S : e[x] = z
    PROVE  IsFiniteSet(T) /\ Cardinality(T) = Cardinality(S)
<1>1. e \in Bijection(S, T)
  BY DEF Bijection, Injection, Surjection, IsInjective
<1> QED BY <1>1, FS_Bijection DEF ExistsBijection

LEMMA ExitFilesFiles ==
    ASSUME ProcInv, FileInv, NEW p \in Slot, ExitFiles(p) PROVE FileInv'
<1> DEFINE n == Cardinality(Open(p))
<1>0. IsFiniteSet(Open(p)) /\ n \in Nat /\ Open(p) \subseteq Fd
  BY FdAssumption, FS_Subset, FS_CardinalityType DEF Open
<1>1. /\ state[p] = "RUNNING" /\ pc[p] = "user"
      /\ ofile' = [ofile EXCEPT ![p] = [d \in Fd |-> NULL]]
      /\ pc' = [pc EXCEPT ![p] = "exit_close"]
      /\ UNCHANGED <<ftable, ff, state>>
  BY DEF ExitFiles, At
<1>2. PICK fds \in [1..n -> Open(p)] :
         /\ \A i, j \in DOMAIN fds : i < j => fds[i] < fds[j]
         /\ toClose' = [toClose EXCEPT ![p] = [i \in DOMAIN fds |-> ofile[p][fds[i]]]]
  BY DEF ExitFiles
<1>3. /\ \A i, j \in 1..n : fds[i] = fds[j] => i = j
      /\ \A d \in Open(p) : \E i \in 1..n : fds[i] = d
  BY <1>0, <1>2, Enumerates
<1> HIDE DEF n
<1>4. /\ \A i \in 1..n : fds[i] \in Fd /\ ofile[p][fds[i]] \in File
      /\ FileTypeOK /\ pc \in [Slot -> PCs] /\ toClose[p] = <<>>
  <2>1. FileTypeOK /\ pc \in [Slot -> PCs] /\ toClose[p] = <<>>
    BY <1>1 DEF FileInv, FileShape, ProcInv
  <2>2. \A d \in Open(p) : d \in Fd /\ ofile[p][d] \in File
    BY <2>1 DEF Open, FileTypeOK
  <2> QED BY <2>1, <2>2
<1>5. /\ DOMAIN toClose'[p] = 1..n /\ \A i \in 1..n : toClose'[p][i] = ofile[p][fds[i]]
      /\ \A q \in Slot : q # p => toClose'[q] = toClose[q] /\ pc'[q] = pc[q] /\ ofile'[q] = ofile[q]
      /\ \A d \in Fd : ofile'[p][d] = NULL
      /\ pc'[p] = "exit_close"
  BY <1>1, <1>2, <1>4 DEF FileTypeOK
<1>6. FileTypeOK'
  <2>1. [i \in DOMAIN fds |-> ofile[p][fds[i]]] \in Seq(File)
    BY <1>0, <1>4
  <2>2. toClose' \in [Slot -> Seq(File)]
    BY <1>2, <1>4, <2>1 DEF FileTypeOK
  <2>3. ofile' \in [Slot -> [Fd -> File \cup {NULL}]]
    BY <1>1, <1>4 DEF FileTypeOK
  <2> QED BY <1>1, <1>4, <2>2, <2>3 DEF FileTypeOK
<1>7. FileShape'
  <2>1. NoFiles(p)' /\ \A q \in Slot : NoFiles(q) => NoFiles(q)'
    BY <1>5 DEF NoFiles
  <2> QED BY <1>1, <1>5, <1>6, <2>1 DEF FileInv, FileShape
<1>8. ASSUME NEW f \in File
      PROVE  /\ IsFiniteSet(Closings(f)')
             /\ ftable'[f].ref = Cardinality(Descriptors(f)') + Cardinality(Closings(f)')
  <2> DEFINE I == {i \in 1..n : ofile[p][fds[i]] = f}
             H == Held(p, f)
  <2>1. IsFiniteSet(I) /\ IsFiniteSet(H) /\ Cardinality(H) = Cardinality(I) /\ Cardinality(I) \in Nat
    <3>1. IsFiniteSet(1..n) /\ I \subseteq 1..n
      BY <1>0, FS_Interval
    <3>2. IsFiniteSet(I)
      BY <3>1, FS_Subset
    <3>3. H \subseteq Open(p)
      BY FdAssumption DEF Held, Open
    <3> DEFINE e == [i \in I |-> fds[i]]
    <3>4. e \in [I -> H]
      BY <1>4 DEF Held
    <3>5. \A i, j \in I : e[i] = e[j] => i = j
      BY <1>3
    <3>6. \A d \in H : \E i \in I : e[i] = d
      BY <1>3, <3>3 DEF Held
    <3> HIDE DEF I, H, e
    <3>7. IsFiniteSet(H) /\ Cardinality(H) = Cardinality(I)
      BY <3>2, <3>4, <3>5, <3>6, SameCard
    <3> QED BY <3>2, <3>7, FS_CardinalityType
  <2>2. Descriptors(f)' = Descriptors(f) \ ({p} \X H) /\ {p} \X H \subseteq Descriptors(f)
    <3>1. {p} \X H \subseteq Descriptors(f)
      BY InDescriptors DEF Held
    <3>2. ASSUME NEW h PROVE h \in Descriptors(f)' <=> h \in Descriptors(f) \ ({p} \X H)
      <4>1. h \in Descriptors(f)' <=> \E q \in Slot, d \in Fd : h = <<q, d>> /\ ofile'[q][d] = f
        BY DEF Descriptors
      <4>2. h \in Descriptors(f)' <=> \E q \in Slot \ {p}, d \in Fd : h = <<q, d>> /\ ofile[q][d] = f
        BY <1>5, <4>1, FdAssumption
      <4>3. h \in {p} \X H <=> \E d \in Fd : h = <<p, d>> /\ ofile[p][d] = f
        BY DEF Held
      <4> QED BY <4>2, <4>3, InDescriptors
    <3> QED BY <3>1, <3>2
  <2>3. Closings(f)' = Closings(f) \cup ({p} \X I) /\ Closings(f) \cap ({p} \X I) = {}
    <3>1. ASSUME NEW h PROVE h \in Closings(f)' <=> h \in Closings(f) \cup ({p} \X I)
      <4>1. h \in Closings(f)' <=> \E q \in Slot : \E i \in DOMAIN toClose'[q] :
                                       h = <<q, i>> /\ toClose'[q][i] = f
        BY DEF Closings
      <4>2. h \in {p} \X I <=> \E i \in DOMAIN toClose'[p] : h = <<p, i>> /\ toClose'[p][i] = f
        BY <1>5
      <4>3. h \in Closings(f) <=> \E q \in Slot \ {p} : \E i \in DOMAIN toClose'[q] :
                                       h = <<q, i>> /\ toClose'[q][i] = f
        <5>1. DOMAIN toClose[p] = {}
          BY <1>4
        <5> QED BY <1>5, <5>1, InClosings
      <4> QED BY <4>1, <4>2, <4>3
    <3>2. \A h \in Closings(f) : h \notin {p} \X I
      <4>1. DOMAIN toClose[p] = {}
        BY <1>4
      <4> QED BY <4>1, InClosings
    <3> QED BY <3>1, <3>2
  <2> HIDE DEF I, H
  <2>4. /\ IsFiniteSet({p} \X H) /\ Cardinality({p} \X H) = Cardinality(I)
        /\ IsFiniteSet({p} \X I) /\ Cardinality({p} \X I) = Cardinality(I)
    BY <2>1, Paired
  <2>5. /\ Cardinality(Descriptors(f)) = Cardinality(Descriptors(f)') + Cardinality(I)
        /\ Cardinality(Descriptors(f)') \in Nat
    <3>1. IsFiniteSet(Descriptors(f))
      BY DescriptorsFinite
    <3>2. /\ Cardinality(Descriptors(f)) = Cardinality(Descriptors(f) \ ({p} \X H)) + Cardinality({p} \X H)
          /\ Cardinality(Descriptors(f) \ ({p} \X H)) \in Nat
      BY <2>2, <3>1, CardLess
    <3> QED BY <2>2, <2>4, <3>2
  <2>6. IsFiniteSet(Closings(f)') /\ Cardinality(Closings(f)') = Cardinality(Closings(f)) + Cardinality(I)
    <3>1. IsFiniteSet(Closings(f))
      BY RefIsCount
    <3> QED BY <2>3, <2>4, <3>1, CardMore
  <2> QED BY <1>1, <2>1, <2>5, <2>6, RefIsCount
<1> QED BY <1>7, <1>8 DEF FileInv, RefCountsHolders

\* fileclose() under ftable.lock: a reference goes; with the last one the entry is free,
\* and p has a copy of it.
LEMMA FileCloseFiles ==
    ASSUME ProcInv, FileInv, NEW p \in Slot, FileClose(p) PROVE FileInv'
<1> DEFINE g == Head(toClose[p])
<1>1. /\ pc[p] \in {"close", "exit_close"} /\ ff[p].pipe = NULL /\ toClose[p] # <<>>
      /\ toClose' = [toClose EXCEPT ![p] = Tail(@)]
      /\ UNCHANGED <<ofile, pc, state>>
      /\ IF ftable[g].ref > 1
         THEN ftable' = [ftable EXCEPT ![g].ref = @ - 1] /\ ff' = ff
         ELSE ftable' = [ftable EXCEPT ![g] = FreeEntry] /\ ff' = [ff EXCEPT ![p] = ftable[g]]
  BY DEF FileClose, Closing, At, procVars
<1>2. FileTypeOK /\ toClose[p] \in Seq(File) /\ Len(toClose[p]) \in Nat \ {0}
  BY <1>1 DEF FileInv, FileShape, FileTypeOK
<1>3. /\ g = toClose[p][1] /\ g \in File /\ DOMAIN toClose[p] = 1..Len(toClose[p])
      /\ Tail(toClose[p]) \in Seq(File) /\ DOMAIN Tail(toClose[p]) = 1..(Len(toClose[p]) - 1)
      /\ \A i \in 1..(Len(toClose[p]) - 1) : Tail(toClose[p])[i] = toClose[p][i + 1]
  BY <1>1, <1>2
<1> HIDE DEF g
<1> DEFINE n == Len(toClose[p])
<1>4. <<p, 1>> \in Closings(g) /\ \A f : f # g => <<p, 1>> \notin Closings(f)
  BY <1>2, <1>3, InClosings
<1>5. ftable[g].ref > 0 /\ ftable[g] \in Entry /\ ftable[g].ref \in Nat
  BY <1>2, <1>3, <1>4, RefIsCount DEF FileTypeOK
<1>6. /\ ftable' \in [File -> Entry] /\ ff' \in [Slot -> Entry]
      /\ ftable'[g].ref = ftable[g].ref - 1
      /\ ftable'[g].ref > 0 => ftable'[g].pipe # NULL
      /\ \A f \in File : f # g => ftable'[f] = ftable[f]
      /\ \A q \in Slot : q # p => ff'[q] = ff[q]
  <2>0. ftable \in [File -> Entry] /\ ff \in [Slot -> Entry]
    BY <1>2 DEF FileTypeOK
  <2>1. CASE ftable[g].ref > 1
    <3>1. [ftable[g] EXCEPT !.ref = @ - 1] \in Entry
      BY <1>5, <2>1 DEF Entry
    <3>2. ftable' \in [File -> Entry]
      BY <1>1, <1>3, <2>0, <2>1, <3>1
    <3>3. ftable'[g].ref = ftable[g].ref - 1 /\ ftable'[g].pipe = ftable[g].pipe
      <4>1. ftable'[g] = [ftable[g] EXCEPT !.ref = @ - 1]
        BY <1>1, <1>3, <2>0, <2>1
      <4> QED BY <1>5, <4>1 DEF Entry
    <3>4. ftable[g].pipe # NULL
      BY <1>3, <1>5 DEF FileInv, FileShape
    <3> QED BY <1>1, <1>3, <2>0, <2>1, <3>2, <3>3, <3>4
  <2>2. CASE ~(ftable[g].ref > 1)
    <3>1. FreeEntry \in Entry /\ FreeEntry.ref = 0
      BY DEF FreeEntry, Entry
    <3>2. ftable[g].ref = 1
      BY <1>5, <2>2
    <3> QED BY <1>1, <1>3, <1>5, <2>0, <2>2, <3>1, <3>2
  <2> QED BY <2>1, <2>2
<1>7. toClose'[p] = Tail(toClose[p]) /\ \A q \in Slot : q # p => toClose'[q] = toClose[q]
  BY <1>1, <1>2 DEF FileTypeOK
<1>8. FileShape'
  <2>1. FileTypeOK'
    BY <1>1, <1>2, <1>3, <1>6 DEF FileTypeOK
  <2>2. \A q \in Slot : NoFiles(q)' <=> NoFiles(q)
    BY <1>1 DEF NoFiles
  <2>3. \A f \in File : ftable'[f].ref > 0 => ftable'[f].pipe # NULL
    BY <1>6 DEF FileInv, FileShape
  <2> QED BY <1>1, <1>6, <1>7, <2>1, <2>2, <2>3 DEF FileInv, FileShape
<1>9. ASSUME NEW f \in File
      PROVE  /\ IsFiniteSet(Closings(f)')
             /\ Cardinality(Closings(f)') = IF f = g THEN Cardinality(Closings(f)) - 1
                                                    ELSE Cardinality(Closings(f))
  <2> DEFINE S == Closings(f) \ {<<p, 1>>}
             T == Closings(f)'
             e == [h \in S |-> IF h[1] = p THEN <<p, h[2] - 1>> ELSE h]
  <2>1. IsFiniteSet(S) /\ Cardinality(S) = IF f = g THEN Cardinality(Closings(f)) - 1
                                                   ELSE Cardinality(Closings(f))
    <3>1. IsFiniteSet(Closings(f))
      BY RefIsCount
    <3> QED BY <1>4, <3>1, FS_RemoveElement
  <2>2. \A h : h \in T <=> \E q \in Slot : \E i \in DOMAIN toClose'[q] :
                             h = <<q, i>> /\ toClose'[q][i] = f
    BY DEF Closings
  <2>3. \A h : h \in T <=> \/ \E i \in 1..(n - 1) : h = <<p, i>> /\ toClose[p][i + 1] = f
                          \/ \E q \in Slot \ {p} : \E i \in DOMAIN toClose[q] : h = <<q, i>> /\ toClose[q][i] = f
    <3>1. DOMAIN toClose'[p] = 1..(n - 1) /\ \A i \in 1..(n - 1) : toClose'[p][i] = toClose[p][i + 1]
      BY <1>3, <1>7
    <3>2. \A h : h \in T <=> \/ \E i \in 1..(n - 1) : h = <<p, i>> /\ toClose'[p][i] = f
                            \/ \E q \in Slot \ {p} : \E i \in DOMAIN toClose'[q] : h = <<q, i>> /\ toClose'[q][i] = f
      BY <2>2, <3>1
    <3> QED BY <1>7, <3>1, <3>2
  <2>4. \A h : h \in S <=> \/ \E i \in 2..n : h = <<p, i>> /\ toClose[p][i] = f
                          \/ \E q \in Slot \ {p} : \E i \in DOMAIN toClose[q] : h = <<q, i>> /\ toClose[q][i] = f
    BY <1>2, <1>3, InClosings
  <2> HIDE DEF S, T
  <2>5. e \in [S -> T]
    <3> SUFFICES ASSUME NEW h \in S PROVE e[h] \in T
      OBVIOUS
    <3>1. CASE \E i \in 2..n : h = <<p, i>> /\ toClose[p][i] = f
      <4>1. PICK i \in 2..n : h = <<p, i>> /\ toClose[p][i] = f
        BY <3>1
      <4>2. e[h] = <<p, i - 1>> /\ i - 1 \in 1..(n - 1) /\ (i - 1) + 1 = i
        BY <1>2, <4>1
      <4> QED BY <2>3, <4>1, <4>2
    <3>2. CASE \E q \in Slot \ {p} : \E i \in DOMAIN toClose[q] : h = <<q, i>> /\ toClose[q][i] = f
      BY <2>3, <3>2
    <3> QED BY <2>4, <3>1, <3>2
  <2>6. \A x, y \in S : e[x] = e[y] => x = y
    <3> SUFFICES ASSUME NEW x \in S, NEW y \in S, e[x] = e[y] PROVE x = y
      OBVIOUS
    <3>1. \A h \in S : \/ h[1] = p /\ h[2] \in 2..n /\ h = <<h[1], h[2]>> /\ e[h] = <<p, h[2] - 1>>
                       \/ h[1] # p /\ h = <<h[1], h[2]>> /\ e[h] = h
      BY <2>4
    <3> QED BY <1>2, <3>1
  <2>7. \A z \in T : \E x \in S : e[x] = z
    <3> SUFFICES ASSUME NEW z \in T PROVE \E x \in S : e[x] = z
      OBVIOUS
    <3>1. CASE \E i \in 1..(n - 1) : z = <<p, i>> /\ toClose[p][i + 1] = f
      <4>1. PICK i \in 1..(n - 1) : z = <<p, i>> /\ toClose[p][i + 1] = f
        BY <3>1
      <4>2. <<p, i + 1>> \in S /\ (i + 1) - 1 = i
        BY <1>2, <2>4, <4>1
      <4>3. e[<<p, i + 1>>] = <<p, (i + 1) - 1>>
        BY <4>2
      <4> QED BY <4>1, <4>2, <4>3
    <3>2. CASE \E q \in Slot \ {p} : \E i \in DOMAIN toClose[q] : z = <<q, i>> /\ toClose[q][i] = f
      <4>1. z \in S /\ e[z] = z
        BY <2>4, <3>2
      <4> QED BY <4>1
    <3> QED BY <2>3, <3>1, <3>2
  <2> HIDE DEF e
  <2>8. IsFiniteSet(T) /\ Cardinality(T) = Cardinality(S)
    BY <2>1, <2>5, <2>6, <2>7, SameCard
  <2> QED BY <2>1, <2>8 DEF T
<1>10. \A f \in File : Descriptors(f)' = Descriptors(f)
  BY <1>1 DEF Descriptors
<1>11. ASSUME NEW f \in File
       PROVE  ftable'[f].ref = Cardinality(Descriptors(f)') + Cardinality(Closings(f)')
  <2>1. CASE f = g
    BY <1>6, <1>9, <1>10, <2>1, RefIsCount
  <2>2. CASE f # g
    BY <1>6, <1>9, <1>10, <2>2, RefIsCount
  <2> QED BY <2>1, <2>2
<1> QED BY <1>8, <1>9, <1>11 DEF FileInv, RefCountsHolders

LEMMA PipeCloseFiles ==
    ASSUME ProcInv, FileInv, NEW p \in Slot, PipeClose(p) PROVE FileInv'
<1>1. /\ pc[p] \in {"close", "exit_close"} /\ UNCHANGED <<ftable, ofile, toClose, pc>>
      /\ ff' = [ff EXCEPT ![p] = FreeEntry] /\ \E c : state' = Wakeup(c)
  BY DEF PipeClose, Closing, At
<1>2. FileTypeOK'
  <2>1. FreeEntry \in Entry
    BY DEF FreeEntry, Entry
  <2> QED BY <1>1, <2>1 DEF FileInv, FileShape, FileTypeOK
<1>3. \A q \in Slot : q # p => ff'[q] = ff[q]
  BY <1>1 DEF FileInv, FileShape, FileTypeOK
<1>4. \A q \in Slot : state'[q] \in {"UNUSED", "ZOMBIE"} => state[q] \in {"UNUSED", "ZOMBIE"}
  BY <1>1 DEF Wakeup
<1>5. \A q \in Slot : NoFiles(q)' <=> NoFiles(q)
  BY <1>1 DEF NoFiles
<1>6. FileShape'
  BY <1>1, <1>2, <1>3, <1>4, <1>5 DEF FileInv, FileShape
<1>7. \A f \in File : Descriptors(f)' = Descriptors(f) /\ Closings(f)' = Closings(f)
  BY <1>1 DEF Descriptors, Closings
<1> QED BY <1>1, <1>6, <1>7 DEF FileInv, RefCountsHolders

LEMMA ForkAllocFiles ==
    ASSUME ProcInv, FileInv, NEW p \in Slot, NEW q \in Slot, ForkAlloc(p, q), ForkFiles(p, q) PROVE FileInv'
<1>1. /\ state[p] = "RUNNING" /\ state[q] = "UNUSED" /\ pc[p] = "user"
      /\ state' = [state EXCEPT ![q] = "USED"]
      /\ pc' = [pc EXCEPT ![p] = "fork", ![q] = "user"]
      /\ ofile' = [ofile EXCEPT ![q] = ofile[p]]
      /\ ftable' = [f \in File |-> [ftable[f] EXCEPT !.ref = @ + Cardinality(Held(p, f))]]
      /\ UNCHANGED <<toClose, ff>>
  BY DEF ForkAlloc, ForkFiles, Enter, At, Unused
<1>2. /\ p # q /\ FileTypeOK /\ NoFiles(q) /\ pc[q] = "user"
      /\ pc \in [Slot -> PCs] /\ state \in [Slot -> States]
  BY <1>1 DEF FileInv, FileShape, ProcInv, ProcTypeOK, Live
<1>3. \A f \in File : IsFiniteSet(Held(p, f)) /\ Cardinality(Held(p, f)) \in Nat
  BY FdAssumption, FS_Subset, FS_CardinalityType DEF Held
<1>4. \A f \in File : /\ ftable[f] \in Entry /\ ftable'[f] \in Entry
                      /\ ftable'[f].ref = ftable[f].ref + Cardinality(Held(p, f))
                      /\ ftable'[f].pipe = ftable[f].pipe
  <2> SUFFICES ASSUME NEW f \in File
               PROVE  /\ ftable[f] \in Entry /\ ftable'[f] \in Entry
                      /\ ftable'[f].ref = ftable[f].ref + Cardinality(Held(p, f))
                      /\ ftable'[f].pipe = ftable[f].pipe
    OBVIOUS
  <2>1. ftable[f] \in Entry /\ ftable'[f] = [ftable[f] EXCEPT !.ref = @ + Cardinality(Held(p, f))]
    BY <1>1, <1>2 DEF FileTypeOK
  <2>2. ftable[f].ref + Cardinality(Held(p, f)) \in Nat
    BY <1>3, <2>1 DEF Entry
  <2> QED BY <2>1, <2>2 DEF Entry
<1>5. /\ \A d \in Fd : ofile'[q][d] = ofile[p][d] /\ ofile[q][d] = NULL
      /\ \A r \in Slot : r # q => ofile'[r] = ofile[r]
      /\ \A r \in Slot : r # p => pc'[r] = pc[r]
      /\ pc'[p] = "fork" /\ state'[q] = "USED" /\ \A r \in Slot : r # q => state'[r] = state[r]
  BY <1>1, <1>2 DEF FileTypeOK, NoFiles
<1>6. FileShape'
  <2>1. FileTypeOK'
    <3>1. ftable' \in [File -> Entry]
      BY <1>1, <1>4
    <3>2. ofile' \in [Slot -> [Fd -> File \cup {NULL}]]
      BY <1>1, <1>2 DEF FileTypeOK
    <3> QED BY <1>1, <1>2, <3>1, <3>2 DEF FileTypeOK
  <2>2. \A f \in File : ftable'[f].ref > 0 => ftable'[f].pipe # NULL
    <3> SUFFICES ASSUME NEW f \in File, ftable'[f].ref > 0 PROVE ftable'[f].pipe # NULL
      OBVIOUS
    <3>1. ftable[f].ref > 0
      <4>1. CASE Held(p, f) = {}
        <5>1. Cardinality(Held(p, f)) = 0
          BY <4>1, FS_EmptySet
        <5> QED BY <1>4, <5>1 DEF Entry
      <4>2. CASE Held(p, f) # {}
        BY <4>2, OpenIsUsed, FdAssumption DEF Held
      <4> QED BY <4>1, <4>2
    <3> QED BY <1>4, <3>1 DEF FileInv, FileShape
  <2>3. \A r \in Slot : r # q => (NoFiles(r)' <=> NoFiles(r))
    BY <1>5 DEF NoFiles
  <2> QED BY <1>1, <1>2, <1>5, <2>1, <2>2, <2>3 DEF FileInv, FileShape
<1>7. \A f \in File : Closings(f)' = Closings(f)
  BY <1>1 DEF Closings
<1>8. ASSUME NEW f \in File
      PROVE  ftable'[f].ref = Cardinality(Descriptors(f)') + Cardinality(Closings(f)')
  <2>1. Descriptors(f)' = Descriptors(f) \cup ({q} \X Held(p, f))
    <3> SUFFICES ASSUME NEW h PROVE h \in Descriptors(f)' <=> h \in Descriptors(f) \cup ({q} \X Held(p, f))
      OBVIOUS
    <3>1. h \in Descriptors(f)' <=> \E r \in Slot, d \in Fd : h = <<r, d>> /\ ofile'[r][d] = f
      BY DEF Descriptors
    <3>2. h \in {q} \X Held(p, f) <=> \E d \in Fd : h = <<q, d>> /\ ofile'[q][d] = f
      BY <1>5 DEF Held
    <3>3. h \in Descriptors(f) <=> \E r \in Slot \ {q}, d \in Fd : h = <<r, d>> /\ ofile'[r][d] = f
      BY <1>5, InDescriptors, FdAssumption
    <3> QED BY <3>1, <3>2, <3>3
  <2>2. Descriptors(f) \cap ({q} \X Held(p, f)) = {}
    BY <1>5, InDescriptors, FdAssumption DEF Held
  <2>3. IsFiniteSet({q} \X Held(p, f)) /\ Cardinality({q} \X Held(p, f)) = Cardinality(Held(p, f))
    BY <1>3, Paired
  <2>4. Cardinality(Descriptors(f)') = Cardinality(Descriptors(f)) + Cardinality(Held(p, f))
    BY <2>1, <2>2, <2>3, DescriptorsFinite, CardMore
  <2> QED BY <1>3, <1>4, <1>7, <2>4, RefIsCount
<1> QED BY <1>6, <1>7, <1>8 DEF FileInv, RefCountsHolders

\* Two files, for two descriptors or for the two calls of fileclose() that give them back.
LEMMA SysPipeFiles ==
    ASSUME ProcInv, FileInv, NEW p \in Slot, NEW f0 \in File, NEW f1 \in File, NEW pi \in Pipes,
           SysPipe(p, f0, f1, pi)
    PROVE  FileInv'
<1>1. /\ state[p] = "RUNNING" /\ pc[p] = "user" /\ f0 # f1
      /\ ftable[f0].ref = 0 /\ ftable[f1].ref = 0
      /\ ftable' = [ftable EXCEPT ![f0] = [ref |-> 1, writable |-> FALSE, pipe |-> pi],
                                 ![f1] = [ref |-> 1, writable |-> TRUE, pipe |-> pi]]
      /\ UNCHANGED <<ff, state>>
  BY DEF SysPipe, Enter, At, FreeFiles
<1>2. FileTypeOK /\ pc \in [Slot -> PCs] /\ toClose[p] = <<>> /\ ff[p].pipe = NULL
  BY <1>1 DEF FileInv, FileShape, ProcInv
<1>3. /\ ftable' \in [File -> Entry]
      /\ ftable'[f0] = [ref |-> 1, writable |-> FALSE, pipe |-> pi]
      /\ ftable'[f1] = [ref |-> 1, writable |-> TRUE, pipe |-> pi]
      /\ \A f \in File \ {f0, f1} : ftable'[f] = ftable[f]
  BY <1>1, <1>2 DEF FileTypeOK, Entry
<1>4. /\ \A f \in {f0, f1} : Descriptors(f) = {} /\ Closings(f) = {}
      /\ \A f \in File : /\ IsFiniteSet(Closings(f))
                          /\ ftable[f].ref = Cardinality(Descriptors(f)) + Cardinality(Closings(f))
  BY <1>1, RefIsCount
<1>5. Cardinality({}) = 0 /\ IsFiniteSet({})
  BY FS_EmptySet
<1>6. \A f \in File : ftable'[f].ref > 0 => ftable'[f].pipe # NULL
  <2>1. \A f \in {f0, f1} : ftable'[f].pipe # NULL
    BY <1>3, FdAssumption
  <2> QED BY <1>3, <2>1 DEF FileInv, FileShape
<1>7. CASE /\ Cardinality(FreeFds(p)) > 1 /\ UNCHANGED <<toClose, pc>>
           /\ ofile' = [ofile EXCEPT ![p][Min(FreeFds(p))] = f0,
                                    ![p][Min(FreeFds(p) \ {Min(FreeFds(p))})] = f1]
  <2> DEFINE d0 == Min(FreeFds(p))
             d1 == Min(FreeFds(p) \ {d0})
  <2>1. /\ d0 \in FreeFds(p) /\ d1 \in FreeFds(p) \ {d0} /\ d0 \in Fd /\ d1 \in Fd /\ d0 # d1
        /\ ofile[p][d0] = NULL /\ ofile[p][d1] = NULL
    <3>1. IsFiniteSet(FreeFds(p)) /\ FreeFds(p) \subseteq Fd
      BY FdAssumption, FS_Subset DEF FreeFds
    <3>2. FreeFds(p) # {}
      BY <1>5, <1>7
    <3>3. d0 \in FreeFds(p)
      BY <3>1, <3>2, FreeFd
    <3> HIDE DEF d0
    <3>4. Cardinality(FreeFds(p) \ {d0}) = Cardinality(FreeFds(p)) - 1 /\ Cardinality(FreeFds(p)) \in Nat
      BY <3>1, <3>3, FS_RemoveElement, FS_CardinalityType
    <3>5. FreeFds(p) \ {d0} # {}
      <4>1. Cardinality(FreeFds(p) \ {d0}) # 0
        BY <1>7, <3>4
      <4> QED BY <1>5, <4>1
    <3>6. d1 \in FreeFds(p) \ {d0}
      BY <3>1, <3>5, FreeFd
    <3> QED BY <3>1, <3>3, <3>6 DEF FreeFds
  <2> HIDE DEF d0, d1
  <2>2. /\ ofile' = [ofile EXCEPT ![p][d0] = f0, ![p][d1] = f1]
        /\ ofile' \in [Slot -> [Fd -> File \cup {NULL}]]
    <3>1. ofile' = [ofile EXCEPT ![p][d0] = f0, ![p][d1] = f1]
      BY <1>7 DEF d0, d1
    <3> QED BY <1>2, <2>1, <3>1 DEF FileTypeOK
  <2>3. /\ ofile'[p][d0] = f0 /\ ofile'[p][d1] = f1
        /\ \A q \in Slot, d \in Fd : <<q, d>> # <<p, d0>> /\ <<q, d>> # <<p, d1>> => ofile'[q][d] = ofile[q][d]
    BY <1>2, <2>1, <2>2 DEF FileTypeOK
  <2>4. FileShape'
    <3>1. FileTypeOK'
      BY <1>1, <1>2, <1>3, <1>7, <2>2 DEF FileTypeOK
    <3>2. \A q \in Slot : q # p => (NoFiles(q)' <=> NoFiles(q))
      BY <2>3 DEF NoFiles
    <3> QED BY <1>1, <1>6, <1>7, <3>1, <3>2 DEF FileInv, FileShape
  <2>5. \A f \in File : Closings(f)' = Closings(f)
    BY <1>7 DEF Closings
  <2>6. ASSUME NEW f \in File
        PROVE  ftable'[f].ref = Cardinality(Descriptors(f)') + Cardinality(Closings(f)')
    <3>1. \A h : h \in Descriptors(f)' <=> \E q \in Slot, d \in Fd : h = <<q, d>> /\ ofile'[q][d] = f
      BY DEF Descriptors
    <3>2. CASE f = f0
      <4>1. ASSUME NEW h PROVE h \in Descriptors(f)' <=> h = <<p, d0>>
        <5>1. h \notin Descriptors(f)
          BY <1>4, <3>2
        <5>2. ASSUME NEW q \in Slot, NEW d \in Fd PROVE ofile'[q][d] = f <=> q = p /\ d = d0
          <6>1. ofile[q][d] # f
            BY <1>4, <3>2, InDescriptors
          <6>2. q = p /\ d = d0 => ofile'[q][d] = f0
            BY <2>3
          <6>3. q = p /\ d = d1 => ofile'[q][d] = f1
            BY <2>3
          <6>4. ~(q = p /\ d = d0) /\ ~(q = p /\ d = d1) => ofile'[q][d] = ofile[q][d]
            BY <2>3
          <6> QED BY <1>1, <2>1, <3>2, <6>1, <6>2, <6>3, <6>4
        <5> QED BY <2>1, <3>1, <5>2
      <4>2. Descriptors(f)' = {<<p, d0>>} /\ Closings(f)' = {}
        BY <1>4, <2>5, <3>2, <4>1
      <4>3. Cardinality(Descriptors(f)') = 1 /\ Cardinality(Closings(f)') = 0
        BY <1>5, <4>2, CardOne
      <4>4. ftable'[f].ref = 1
        BY <1>3, <3>2
      <4> QED BY <4>3, <4>4
    <3>3. CASE f = f1
      <4>1. ASSUME NEW h PROVE h \in Descriptors(f)' <=> h = <<p, d1>>
        <5>1. h \notin Descriptors(f)
          BY <1>4, <3>3
        <5>2. ASSUME NEW q \in Slot, NEW d \in Fd PROVE ofile'[q][d] = f <=> q = p /\ d = d1
          <6>1. ofile[q][d] # f
            BY <1>4, <3>3, InDescriptors
          <6>2. q = p /\ d = d0 => ofile'[q][d] = f0
            BY <2>3
          <6>3. q = p /\ d = d1 => ofile'[q][d] = f1
            BY <2>3
          <6>4. ~(q = p /\ d = d0) /\ ~(q = p /\ d = d1) => ofile'[q][d] = ofile[q][d]
            BY <2>3
          <6> QED BY <1>1, <2>1, <3>3, <6>1, <6>2, <6>3, <6>4
        <5> QED BY <2>1, <3>1, <5>2
      <4>2. Descriptors(f)' = {<<p, d1>>} /\ Closings(f)' = {}
        BY <1>4, <2>5, <3>3, <4>1
      <4>3. Cardinality(Descriptors(f)') = 1 /\ Cardinality(Closings(f)') = 0
        BY <1>5, <4>2, CardOne
      <4>4. ftable'[f].ref = 1
        BY <1>3, <3>3
      <4> QED BY <4>3, <4>4
    <3>4. CASE f \notin {f0, f1}
      <4>1. \A q \in Slot, d \in Fd : ofile'[q][d] = f <=> ofile[q][d] = f
        BY <2>1, <2>3, <3>4, FdAssumption
      <4>2. \A h : h \in Descriptors(f)' <=> h \in Descriptors(f)
        BY <3>1, <4>1, InDescriptors
      <4>3. Descriptors(f)' = Descriptors(f) /\ Closings(f)' = Closings(f)
        BY <2>5, <4>2
      <4>4. ftable'[f] = ftable[f]
        BY <1>3, <3>4
      <4> QED BY <1>4, <4>3, <4>4
    <3> QED BY <3>2, <3>3, <3>4
  <2> QED BY <1>4, <2>4, <2>5, <2>6 DEF FileInv, RefCountsHolders
<1>8. CASE /\ toClose' = [toClose EXCEPT ![p] = <<f0, f1>>]
           /\ pc' = [pc EXCEPT ![p] = "close"] /\ UNCHANGED ofile
  <2>1. /\ toClose'[p] = <<f0, f1>> /\ pc'[p] = "close"
        /\ \A q \in Slot : q # p => toClose'[q] = toClose[q] /\ pc'[q] = pc[q]
        /\ toClose' \in [Slot -> Seq(File)]
    BY <1>2, <1>8 DEF FileTypeOK
  <2>2. FileShape'
    <3>1. FileTypeOK'
      BY <1>1, <1>2, <1>3, <1>8, <2>1 DEF FileTypeOK
    <3>2. \A q \in Slot : NoFiles(q)' <=> NoFiles(q)
      BY <1>8 DEF NoFiles
    <3> QED BY <1>1, <1>6, <2>1, <3>1, <3>2 DEF FileInv, FileShape
  <2>3. \A f \in File : Descriptors(f)' = Descriptors(f)
    BY <1>8 DEF Descriptors
  <2>4. /\ DOMAIN toClose[p] = {} /\ DOMAIN toClose'[p] = {1, 2}
        /\ toClose'[p][1] = f0 /\ toClose'[p][2] = f1
    BY <1>2, <2>1
  <2>5. ASSUME NEW f \in File, NEW h
        PROVE  h \in Closings(f)' <=>
                 \/ h \in Closings(f)
                 \/ h = <<p, 1>> /\ f = f0
                 \/ h = <<p, 2>> /\ f = f1
    <3>1. h \in Closings(f)' <=> \E q \in Slot : \E i \in DOMAIN toClose'[q] :
                                              h = <<q, i>> /\ toClose'[q][i] = f
      BY DEF Closings
    <3>2. (\E i \in DOMAIN toClose'[p] : h = <<p, i>> /\ toClose'[p][i] = f) <=>
                       (h = <<p, 1>> /\ f = f0) \/ (h = <<p, 2>> /\ f = f1)
      <4>1. \A i : i \in DOMAIN toClose'[p] <=> i = 1 \/ i = 2
        BY <2>4
      <4> QED BY <2>4, <4>1
    <3>3. h \in Closings(f) <=> \E q \in Slot \ {p} : \E i \in DOMAIN toClose[q] :
                                              h = <<q, i>> /\ toClose[q][i] = f
      BY <2>4, InClosings
    <3>4. h \in Closings(f)' <=>
            \/ \E i \in DOMAIN toClose'[p] : h = <<p, i>> /\ toClose'[p][i] = f
            \/ \E q \in Slot \ {p} : \E i \in DOMAIN toClose[q] : h = <<q, i>> /\ toClose[q][i] = f
      BY <2>1, <3>1
    <3> QED BY <3>2, <3>3, <3>4
  <2>6. ASSUME NEW f \in File
        PROVE  /\ IsFiniteSet(Closings(f)')
               /\ ftable'[f].ref = Cardinality(Descriptors(f)') + Cardinality(Closings(f)')
    <3>1. CASE f = f0
      <4>1. \A h : h \in Closings(f)' <=> h = <<p, 1>>
        BY <1>1, <1>4, <2>5, <3>1
      <4>2. Closings(f)' = {<<p, 1>>} /\ Descriptors(f)' = {}
        BY <1>4, <2>3, <3>1, <4>1
      <4>3. /\ Cardinality(Closings(f)') = 1 /\ IsFiniteSet(Closings(f)')
            /\ Cardinality(Descriptors(f)') = 0
        BY <1>5, <4>2, CardOne
      <4>4. ftable'[f].ref = 1
        BY <1>3, <3>1
      <4> QED BY <4>3, <4>4
    <3>2. CASE f = f1
      <4>1. \A h : h \in Closings(f)' <=> h = <<p, 2>>
        BY <1>1, <1>4, <2>5, <3>2
      <4>2. Closings(f)' = {<<p, 2>>} /\ Descriptors(f)' = {}
        BY <1>4, <2>3, <3>2, <4>1
      <4>3. /\ Cardinality(Closings(f)') = 1 /\ IsFiniteSet(Closings(f)')
            /\ Cardinality(Descriptors(f)') = 0
        BY <1>5, <4>2, CardOne
      <4>4. ftable'[f].ref = 1
        BY <1>3, <3>2
      <4> QED BY <4>3, <4>4
    <3>3. CASE f \notin {f0, f1}
      <4>1. \A h : h \in Closings(f)' <=> h \in Closings(f)
        BY <2>5, <3>3
      <4>2. Closings(f)' = Closings(f) /\ Descriptors(f)' = Descriptors(f)
        BY <2>3, <4>1
      <4>3. ftable'[f] = ftable[f]
        BY <1>3, <3>3
      <4> QED BY <1>4, <4>2, <4>3
    <3> QED BY <3>1, <3>2, <3>3
  <2> QED BY <2>2, <2>6 DEF FileInv, RefCountsHolders
<1> QED BY <1>7, <1>8 DEF SysPipe
-----------------------------------------------------------------------------
\* Files: all steps.

\* What the kernel does between the steps that open, share and close files.
LEMMA FilesQuiet ==
    ASSUME ProcInv, FileInv, UNCHANGED fileVars, NEW p \in Slot,
           \/ ProcStep(p) \/ CloseDone(p) \/ WaitEnter(p)
           \/ \E q \in Slot : ForkFail(p, q) \/ Kill(p, q)
           \/ PipeStep(p) /\ ~PipeClose(p)
           \/ \E d \in Fd, n \in 1..MaxCount, c \in {"read", "write"} : Start(p, d, n, c)
           \/ Dispatch(p) \/ Preempt(p)
    PROVE  FileInv'
<1>0. /\ pc \in [Slot -> PCs] /\ state \in [Slot -> States]
      /\ \A q \in Slot : pc[q] \notin {"close", "exit_close"} => toClose[q] = <<>> /\ ff[q].pipe = NULL
  BY DEF ProcInv, ProcTypeOK, FileInv, FileShape
<1>1. CASE CloseDone(p)
  <2>1. /\ toClose[p] = <<>> /\ ff[p].pipe = NULL /\ state' = state
        /\ pc' = [pc EXCEPT ![p] = IF pc[p] = "exit_close" THEN "exit" ELSE "user"]
    BY <1>1 DEF CloseDone
  <2> QED BY <1>0, <2>1, FilesStay
<1>2. CASE ProcStep(p)
  <2>1. CASE ExitProc(p)
    <3>1. /\ pc[p] = "exit" /\ pc' = [pc EXCEPT ![p] = "user"]
          /\ \A q \in Slot : state'[q] \in {"UNUSED", "ZOMBIE"} => state[q] \in {"UNUSED", "ZOMBIE"} \/ q = p
      BY <2>1 DEF ExitProc, At
    <3> QED BY <1>0, <3>1, FilesStay
  <2>2. CASE ForkStart(p)
    <3>1. /\ pc[p] = "fork" /\ pc' = [pc EXCEPT ![p] = "user"]
          /\ state' = [state EXCEPT ![np[p]] = "RUNNABLE"]
      BY <2>2 DEF ForkStart, At
    <3> QED BY <1>0, <3>1, FilesStay
  <2>3. CASE \E q \in Slot : Reap(p, q)
    <3>1. PICK q \in Slot : Reap(p, q)
      BY <2>3
    <3>2. /\ pc[p] = "wait" /\ pc' = [pc EXCEPT ![p] = "user"]
          /\ state[q] = "ZOMBIE" /\ state' = [state EXCEPT ![q] = "UNUSED"]
      BY <3>1 DEF Reap, At, Zombies
    <3> QED BY <1>0, <3>2, FilesStay
  <2>4. CASE WaitFail(p) \/ WaitNone(p) \/ WaitSleep(p)
    <3>1. /\ pc[p] \in {"wait", "wait_sleep"}
          /\ \E s \in {"user", "wait", "wait_sleep"} : pc' = [pc EXCEPT ![p] = s]
          /\ state' = state \/ state' = [state EXCEPT ![p] = "SLEEPING"]
      BY <2>4 DEF WaitFail, WaitNone, WaitSleep, SleepOn, At
    <3> QED BY <1>0, <3>1, FilesStay
  <2> QED BY <1>2, <2>1, <2>2, <2>3, <2>4 DEF ProcStep
<1>3. CASE \/ WaitEnter(p) \/ \E q \in Slot : ForkFail(p, q) \/ Kill(p, q)
           \/ \E d \in Fd, n \in 1..MaxCount, c \in {"read", "write"} : Start(p, d, n, c)
  <2>1. /\ pc[p] = "user"
        /\ \E s \in {"user", "wait", "read", "write"} : pc' = [pc EXCEPT ![p] = s]
        /\ state' = state \/ (\E q \in Slot : state' = [state EXCEPT ![q] = "RUNNABLE"])
    BY <1>0, <1>3 DEF WaitEnter, ForkFail, Kill, Start, Enter, At
  <2> QED BY <1>0, <2>1, FilesStay
<1>4. CASE Dispatch(p) \/ Preempt(p)
  <2>1. pc' = pc /\ \E s \in {"RUNNING", "RUNNABLE"} : state' = [state EXCEPT ![p] = s]
    BY <1>4 DEF Dispatch, Preempt, Schedule, Yield
  <2> QED BY <1>0, <2>1, FilesStay
<1>5. CASE PipeStep(p) /\ ~PipeClose(p)
  <2>1. pc[p] \in RWs
    BY <1>5 DEF PipeStep, ReadBlocks, ReadKilled, ReadCopy, WriteFails, WriteBlocks, WriteByte,
                WriteDone, Blocked, Writing, At, RWs
  <2>2. pc' = pc \/ \E s \in {"user", "read", "write", "read_sleep", "write_sleep"} : pc' = [pc EXCEPT ![p] = s]
    BY <1>5 DEF PipeStep, ReadBlocks, ReadKilled, ReadCopy, WriteFails, WriteBlocks, WriteByte,
                WriteDone, Blocked, Return, MustWait, SleepOn
  <2>3. \/ state' = state \/ (\E c : state' = Wakeup(c))
        \/ state' = [state EXCEPT ![p] = "SLEEPING"]
    BY <1>5 DEF PipeStep, ReadBlocks, ReadKilled, ReadCopy, WriteFails, WriteBlocks, WriteByte,
                WriteDone, Blocked, Return, MustWait, SleepOn
  <2>4. \A q \in Slot : state'[q] \in {"UNUSED", "ZOMBIE"} => state[q] \in {"UNUSED", "ZOMBIE"}
    BY <1>0, <2>3 DEF Wakeup
  <2> QED BY <1>0, <2>1, <2>2, <2>4, FilesStay DEF RWs
<1> QED BY <1>1, <1>2, <1>3, <1>4, <1>5

\* The steps that touch files.
FileChange ==
    \E p \in Slot :
      \/ FileClose(p) \/ PipeClose(p) \/ ExitFiles(p)
      \/ \E q \in Slot : ForkAlloc(p, q) /\ ForkFiles(p, q)
      \/ \E d \in Fd : SysDup(p, d) \/ SysClose(p, d)
      \/ \E f0, f1 \in File, pi \in Pipes : SysPipe(p, f0, f1, pi)

LEMMA FileSteps ==
    ASSUME ProcInv, FileInv, [Next]_vars PROVE FileInv' \/ FileChange
<1>1. CASE UNCHANGED vars
  BY <1>1, FilesStay DEF vars, procVars, fileVars
<1>2. ASSUME NEW p \in Slot, KernelStep(p) PROVE FileInv' \/ FileChange
  <2>1. ASSUME ProcStep(p) PROVE FileInv'
    BY <2>1, FilesQuiet DEF ProcStep
  <2>2. ASSUME CloseDone(p) PROVE FileInv'
    BY <2>2, FilesQuiet DEF CloseDone
  <2>3. ASSUME PipeStep(p), ~PipeClose(p) PROVE FileInv'
    <3>1. UNCHANGED fileVars
      BY <2>3 DEF PipeStep, ReadBlocks, ReadKilled, ReadCopy, WriteFails, WriteBlocks, WriteByte,
                  WriteDone, Blocked, Return, MustWait
    <3> QED BY <2>3, <3>1, FilesQuiet
  <2> QED BY <1>2, <2>1, <2>2, <2>3 DEF KernelStep, FileStep, FileChange
<1>3. ASSUME NEW p \in Slot, Fork(p) PROVE FileInv' \/ FileChange
  <2>1. ASSUME NEW q \in Slot, ForkFail(p, q), UNCHANGED fileVars PROVE FileInv'
    BY <2>1, FilesQuiet
  <2> QED BY <1>3, <2>1 DEF Fork, FileChange
<1>4. ASSUME NEW p \in Slot, WaitEnter(p), UNCHANGED fileVars PROVE FileInv'
  BY <1>4, FilesQuiet
<1>5. ASSUME NEW p \in Slot, Program(p) PROVE FileInv' \/ FileChange
  <2>1. ASSUME NEW q \in Slot, Kill(p, q), UNCHANGED fileVars PROVE FileInv'
    BY <2>1, FilesQuiet
  <2>2. ASSUME NEW d \in Fd, NEW n \in 1..MaxCount, NEW c \in {"read", "write"}, Start(p, d, n, c) PROVE FileInv'
    BY <2>2, FilesQuiet DEF Start
  <2> QED BY <1>3, <1>4, <1>5, <2>1, <2>2 DEF Program, FileChange
<1>6. ASSUME NEW p \in Slot, Dispatch(p) \/ Preempt(p) PROVE FileInv'
  BY <1>6, FilesQuiet DEF Dispatch, Preempt
<1> QED BY <1>1, <1>2, <1>3, <1>4, <1>5, <1>6 DEF Next, UserStep, InitProgram, Die, FileChange

LEMMA FileInvStep == ProcInv /\ FileInv /\ [Next]_vars => FileInv'
BY FileSteps, FileCloseFiles, PipeCloseFiles, ExitFilesFiles, ForkAllocFiles, SysDupFiles,
   SysCloseFiles, SysPipeFiles DEF FileChange

LEMMA FileInvInit == Init => FileInv
<1> SUFFICES ASSUME Init PROVE FileInv
  OBVIOUS
<1>1. /\ ftable = [f \in File |-> FreeEntry] /\ ff = [p \in Slot |-> FreeEntry]
      /\ ofile = [p \in Slot |-> [d \in Fd |-> NULL]] /\ toClose = [p \in Slot |-> <<>>]
      /\ FreeEntry.ref = 0 /\ FreeEntry.pipe = NULL /\ FreeEntry \in Entry
  BY DEF Init, FileInit, FreeEntry, Entry
<1>2. <<>> \in Seq(File)
  OBVIOUS
<1>3. FileTypeOK
  BY <1>1, <1>2 DEF FileTypeOK
<1>4. FileShape
  BY <1>1, <1>3 DEF FileShape, NoFiles
<1>5. ASSUME NEW f \in File PROVE Descriptors(f) = {} /\ Closings(f) = {}
  <2>1. f # NULL /\ \A p \in Slot : DOMAIN toClose[p] = {}
    BY <1>1, FdAssumption
  <2>2. \A h \in Slot \X Fd : ofile[h[1]][h[2]] = NULL
    BY <1>1
  <2> QED BY <2>1, <2>2 DEF Descriptors, Closings
<1>6. IsFiniteSet({}) /\ Cardinality({}) = 0
  BY FS_EmptySet
<1>7. ASSUME NEW f \in File
      PROVE  IsFiniteSet(Closings(f)) /\ ftable[f].ref = Cardinality(Descriptors(f)) + Cardinality(Closings(f))
  <2>1. ftable[f].ref = 0
    BY <1>1
  <2>2. IsFiniteSet(Closings(f)) /\ Cardinality(Closings(f)) = 0 /\ Cardinality(Descriptors(f)) = 0
    BY <1>5, <1>6
  <2> QED BY <2>1, <2>2
<1> QED BY <1>4, <1>7 DEF FileInv, RefCountsHolders

\* What the entries of the file table and the descriptors of the processes always satisfy:
\* the counts are right, and a call of fileclose() on its way holds an entry of its own.
THEOREM Files == Spec => []FileInv
BY ProcInvInit, ProcInvStep, FileInvInit, FileInvStep, PTL DEF Spec

\* An open file's count is that of the descriptors that refer to it and of the calls of
\* fileclose() on their way: none is closed early, none is leaked, by no program.
THEOREM ReferencesCounted == Spec => []RefCountsHolders
<1>1. FileInv => RefCountsHolders
  BY DEF FileInv
<1> QED BY <1>1, Files, PTL
-----------------------------------------------------------------------------
\* Reading and writing: the file stays open meanwhile.

\* The steps of the system, by what they touch.
QuietStep(p) ==
    /\ UNCHANGED <<fileVars, pipeVars>>
    /\ \/ ForkStart(p) \/ ExitProc(p) \/ Schedule(p) \/ Yield(p, HoldsSpin(p))
       \/ WaitEnter(p) \/ WaitFail(p) \/ WaitNone(p) \/ WaitSleep(p)
       \/ \E q \in Slot : Reap(p, q) \/ ForkFail(p, q) \/ Kill(p, q)

OpenStep(p) ==
    /\ UNCHANGED pipeVars
    /\ \/ FileClose(p) \/ CloseDone(p) \/ ExitFiles(p)
       \/ \E q \in Slot : ForkAlloc(p, q) /\ ForkFiles(p, q)
       \/ \E d \in Fd : SysDup(p, d) \/ SysClose(p, d)

ReadStep(p)  == ReadBlocks(p) \/ ReadKilled(p) \/ ReadCopy(p)
WriteStep(p) == WriteFails(p) \/ WriteBlocks(p) \/ WriteByte(p) \/ WriteDone(p)

AnyStep(p) ==
    \/ QuietStep(p) \/ OpenStep(p)
    \/ ReadStep(p) \/ WriteStep(p) \/ Blocked(p) \/ PipeClose(p)
    \/ \E d \in Fd, n \in 1..MaxCount, c \in {"read", "write"} : Start(p, d, n, c)
    \/ \E f0, f1 \in File, pi \in Pipes : SysPipe(p, f0, f1, pi)

LEMMA Steps == [Next]_vars => UNCHANGED vars \/ \E p \in Slot : AnyStep(p)
<1> SUFFICES ASSUME NEW p \in Slot,
                    KernelStep(p) \/ Die(p) \/ UserStep(p) \/ Dispatch(p) \/ Preempt(p)
             PROVE  AnyStep(p)
  BY DEF Next
<1>1. KernelStep(p) => AnyStep(p)
  BY DEF KernelStep, ProcStep, FileStep, PipeStep, AnyStep, QuietStep, OpenStep, ReadStep, WriteStep
<1>2. Fork(p) => AnyStep(p)
  BY DEF Fork, AnyStep, QuietStep, OpenStep
<1>3. Die(p) \/ Dispatch(p) \/ Preempt(p) => AnyStep(p)
  BY DEF Die, Dispatch, Preempt, AnyStep, QuietStep, OpenStep
<1>4. InitProgram(p) => AnyStep(p)
  BY <1>2 DEF InitProgram, AnyStep, QuietStep
<1>5. Program(p) => AnyStep(p)
  BY <1>2 DEF Program, AnyStep, QuietStep, OpenStep
<1> QED BY <1>1, <1>3, <1>4, <1>5 DEF UserStep

\* A file with a descriptor stands for the same end of the same pipe before and after
\* every step: fileclose() clears an entry for the last reference only.
LEMMA OpenKeeps ==
    ASSUME ProcInv, FileInv, NEW p \in Slot, AnyStep(p),
           NEW q \in Slot, NEW d \in Fd, ofile[q][d] # NULL
    PROVE  /\ ftable'[ofile[q][d]].pipe = ftable[ofile[q][d]].pipe
           /\ ftable'[ofile[q][d]].writable = ftable[ofile[q][d]].writable
<1> DEFINE f == ofile[q][d]
<1>1. f \in File /\ ftable[f].ref > 0 /\ <<q, d>> \in Descriptors(f)
  BY OpenIsUsed, InDescriptors
<1>2. FileTypeOK
  BY DEF FileInv, FileShape
<1> HIDE DEF f
<1>3. CASE FileClose(p)
  <2> DEFINE g == Head(toClose[p])
  <2>1. /\ toClose[p] # <<>> /\ toClose[p] \in Seq(File)
        /\ ftable' = IF ftable[g].ref > 1 THEN [ftable EXCEPT ![g].ref = @ - 1]
                                          ELSE [ftable EXCEPT ![g] = FreeEntry]
    BY <1>2, <1>3 DEF FileClose, FileTypeOK
  <2>2. g \in File /\ <<p, 1>> \in Closings(g)
    BY <2>1, InClosings
  <2> HIDE DEF g
  <2>3. CASE f = g
    <3>1. Cardinality(Descriptors(f)) # 0 /\ Cardinality(Closings(f)) # 0
      BY <1>1, <2>2, <2>3, RefIsCount, FS_EmptySet
    <3>2. ftable[f].ref > 1
      BY <1>1, <3>1, RefIsCount
    <3> QED BY <1>1, <1>2, <2>1, <2>3, <3>2 DEF f, FileTypeOK, Entry
  <2>4. CASE f # g
    BY <1>1, <1>2, <2>1, <2>2, <2>4 DEF f, FileTypeOK
  <2> QED BY <2>3, <2>4
<1>4. CASE \E f0, f1 \in File, pi \in Pipes : SysPipe(p, f0, f1, pi)
  <2>1. PICK f0 \in File, f1 \in File, pi \in Pipes : SysPipe(p, f0, f1, pi)
    BY <1>4
  <2>2. f # f0 /\ f # f1
    BY <1>1, <2>1 DEF SysPipe, FreeFiles
  <2>3. ftable'[f] = ftable[f]
    BY <1>1, <1>2, <2>1, <2>2 DEF SysPipe, FileTypeOK
  <2> QED BY <2>3 DEF f
<1>5. CASE \E r \in Slot : ForkAlloc(p, r) /\ ForkFiles(p, r)
  <2>1. ftable' = [g \in File |-> [ftable[g] EXCEPT !.ref = @ + Cardinality(Held(p, g))]]
    BY <1>5 DEF ForkFiles
  <2> QED BY <1>1, <1>2, <2>1 DEF f, FileTypeOK, Entry
<1>6. CASE \E e \in Fd : SysDup(p, e)
  <2>1. PICK e \in Fd : ftable' = [ftable EXCEPT ![ofile[p][e]].ref = @ + 1]
    BY <1>6 DEF SysDup
  <2> QED BY <1>1, <1>2, <2>1 DEF f, FileTypeOK, Entry
<1>7. CASE UNCHANGED ftable
  BY <1>7
<1> QED
  <2>1. QuietStep(p) => UNCHANGED ftable
    BY DEF QuietStep, fileVars
  <2>2. CloseDone(p) \/ ExitFiles(p) \/ (\E e \in Fd : SysClose(p, e)) => UNCHANGED ftable
    BY DEF CloseDone, ExitFiles, SysClose, fileVars
  <2>3. ReadStep(p) \/ WriteStep(p) \/ Blocked(p) \/ PipeClose(p) => UNCHANGED ftable
    BY DEF ReadStep, WriteStep, ReadBlocks, ReadKilled, ReadCopy, WriteFails, WriteBlocks, WriteByte,
           WriteDone, Blocked, Return, MustWait, PipeClose, fileVars
  <2>4. (\E e \in Fd, n \in 1..MaxCount, c \in {"read", "write"} : Start(p, e, n, c)) => UNCHANGED ftable
    BY DEF Start, fileVars
  <2> QED BY <1>3, <1>4, <1>5, <1>6, <1>7, <2>1, <2>2, <2>3, <2>4 DEF AnyStep, OpenStep
\* A step of one process leaves the descriptors of the others alone, but for a child's.
LEMMA OthersFiles ==
    ASSUME ProcInv, FileInv, NEW p \in Slot, AnyStep(p), NEW q \in Slot, q # p
    PROVE  pc'[q] = pc[q] /\ (pc[q] # "user" => ofile'[q] = ofile[q])
<1>1. FileTypeOK /\ pc \in [Slot -> PCs] /\ \A r \in Slot : ~Live(r) => pc[r] = "user"
  BY DEF FileInv, FileShape, ProcInv
<1>2. CASE QuietStep(p)
  <2>1. ofile' = ofile /\ \E s : pc' = [pc EXCEPT ![p] = s] \/ pc' = pc
    BY <1>2 DEF QuietStep, fileVars, ForkStart, ExitProc, Schedule, Yield, WaitEnter, WaitFail, WaitNone,
                WaitSleep, SleepOn, Reap, ForkFail, Kill
  <2> QED BY <1>1, <2>1
<1>3. CASE \E r \in Slot : ForkAlloc(p, r) /\ ForkFiles(p, r)
  <2>1. PICK r \in Slot : /\ state[r] = "UNUSED" /\ ofile' = [ofile EXCEPT ![r] = ofile[p]]
                          /\ pc' = [pc EXCEPT ![p] = "fork", ![r] = "user"]
    BY <1>3 DEF ForkAlloc, ForkFiles, Unused
  <2>2. pc[r] = "user"
    BY <1>1, <2>1 DEF Live
  <2> QED BY <1>1, <2>1, <2>2 DEF FileTypeOK
<1>4. CASE FileClose(p) \/ PipeClose(p)
  BY <1>4 DEF FileClose, PipeClose, procVars
<1>5. CASE CloseDone(p) \/ ExitFiles(p)
  BY <1>1, <1>5 DEF CloseDone, ExitFiles, fileVars, FileTypeOK
<1>6. CASE \E d \in Fd : SysDup(p, d) \/ SysClose(p, d)
  BY <1>1, <1>6 DEF SysDup, SysClose, procVars, FileTypeOK
<1>7. CASE \E d \in Fd, n \in 1..MaxCount, c \in {"read", "write"} : Start(p, d, n, c)
  BY <1>1, <1>7 DEF Start, fileVars
<1>8. CASE ReadStep(p) \/ WriteStep(p) \/ Blocked(p)
  <2>1. ofile' = ofile /\ ((\E s : pc' = [pc EXCEPT ![p] = s]) \/ pc' = pc)
    BY <1>8 DEF ReadStep, WriteStep, ReadBlocks, ReadKilled, ReadCopy, WriteFails, WriteBlocks, WriteByte,
                WriteDone, Blocked, Return, MustWait, SleepOn, fileVars
  <2> QED BY <1>1, <2>1
<1>9. CASE \E f0, f1 \in File, pi \in Pipes : SysPipe(p, f0, f1, pi)
  <2>1. PICK f0 \in File, f1 \in File, pi \in Pipes : SysPipe(p, f0, f1, pi)
    BY <1>9
  <2>2. CASE /\ ofile' = [ofile EXCEPT ![p][Min(FreeFds(p))] = f0,
                                      ![p][Min(FreeFds(p) \ {Min(FreeFds(p))})] = f1]
             /\ pc' = pc
    BY <1>1, <2>2 DEF FileTypeOK
  <2>3. CASE ofile' = ofile /\ pc' = [pc EXCEPT ![p] = "close"]
    BY <1>1, <2>3
  <2> QED BY <2>1, <2>2, <2>3 DEF SysPipe
<1> QED BY <1>2, <1>3, <1>4, <1>5, <1>6, <1>7, <1>8, <1>9 DEF AnyStep, OpenStep

\* What a step does to the process that makes it, if it is inside read() or write().
LEMMA OwnUse ==
    ASSUME ProcInv, FileInv, UseInv, NEW p \in Slot, AnyStep(p), pc'[p] \in RWs
    PROVE  cur'[p] \in File /\ \E d \in Fd : ofile'[p][d] = cur'[p]
<1>1. FileTypeOK /\ pc \in [Slot -> PCs] /\ cur \in [Slot -> File \cup {NULL}] /\ \A r \in Slot : ~Live(r) => pc[r] = "user"
  BY DEF FileInv, FileShape, ProcInv, UseInv
<1>2. CASE QuietStep(p)
  <2>1. UNCHANGED <<ofile, cur>> /\ (pc' = pc \/ \E s \in {"user", "wait", "wait_sleep"} : pc' = [pc EXCEPT ![p] = s])
    BY <1>2 DEF QuietStep, fileVars, pipeVars, ForkStart, ExitProc, Schedule, Yield, WaitEnter, WaitFail,
                WaitNone, WaitSleep, SleepOn, Reap, ForkFail, Kill
  <2>2. pc'[p] = pc[p]
    BY <1>1, <2>1 DEF RWs
  <2> QED BY <2>1, <2>2 DEF UseInv
<1>3. CASE OpenStep(p) \/ PipeClose(p)
  <2>1. \/ pc[p] \in {"user", "close", "exit_close"} /\ pc' = pc
        \/ \E s \in {"user", "close", "exit_close", "exit"} : pc' = [pc EXCEPT ![p] = s]
        \/ \E q \in Slot : pc' = [pc EXCEPT ![p] = "fork", ![q] = "user"]
    BY <1>3 DEF OpenStep, FileClose, PipeClose, CloseDone, ExitFiles, ForkAlloc, SysDup, SysClose,
                Closing, Enter, At, procVars
  <2>2. pc'[p] \notin RWs
    BY <1>1, <2>1 DEF RWs
  <2> QED BY <2>2
<1>4. CASE \E f0, f1 \in File, pi \in Pipes : SysPipe(p, f0, f1, pi)
  <2>1. pc[p] = "user" /\ (pc' = pc \/ pc' = [pc EXCEPT ![p] = "close"])
    BY <1>4 DEF SysPipe, Enter, At
  <2> QED BY <1>1, <2>1 DEF RWs
<1>5. CASE \E d \in Fd, n \in 1..MaxCount, c \in {"read", "write"} : Start(p, d, n, c)
  <2>1. PICK d \in Fd : ofile[p][d] # NULL /\ cur' = [cur EXCEPT ![p] = ofile[p][d]] /\ ofile' = ofile
    BY <1>5 DEF Start, Open, fileVars
  <2> QED BY <1>1, <2>1, OpenIsUsed
<1>6. CASE ReadStep(p) \/ WriteStep(p) \/ Blocked(p)
  <2>1. pc[p] \in RWs /\ ofile' = ofile
    BY <1>6 DEF ReadStep, WriteStep, ReadBlocks, ReadKilled, ReadCopy, WriteFails, WriteBlocks, WriteByte,
                WriteDone, Blocked, Return, MustWait, Writing, At, RWs, fileVars
  <2>2. cur' = cur \/ pc' = [pc EXCEPT ![p] = "user"]
    BY <1>6 DEF ReadStep, WriteStep, ReadBlocks, ReadKilled, ReadCopy, WriteFails, WriteBlocks, WriteByte,
                WriteDone, Blocked, Return, MustWait
  <2>3. cur' = cur
    BY <1>1, <2>2 DEF RWs
  <2> QED BY <2>1, <2>3 DEF UseInv
<1> QED BY <1>2, <1>3, <1>4, <1>5, <1>6 DEF AnyStep

LEMMA UseTypes ==
    ASSUME ProcInv, FileInv, UseInv, NEW p \in Slot, AnyStep(p)
    PROVE  /\ cur' \in [Slot -> File \cup {NULL}] /\ left' \in [Slot -> Nat]
           /\ lock' \in [Pipes -> Slot \cup {NULL}]
           /\ \A q \in Slot : q # p => cur'[q] = cur[q]
<1>1. /\ cur \in [Slot -> File \cup {NULL}] /\ left \in [Slot -> Nat]
      /\ lock \in [Pipes -> Slot \cup {NULL}]
  BY DEF UseInv
<1>2. CASE QuietStep(p) \/ OpenStep(p)
  BY <1>1, <1>2 DEF QuietStep, OpenStep, pipeVars
<1>3. CASE PipeClose(p) \/ \E f0, f1 \in File, pi \in Pipes : SysPipe(p, f0, f1, pi)
  BY <1>1, <1>3 DEF PipeClose, SysPipe
<1>4. CASE \E d \in Fd, n \in 1..MaxCount, c \in {"read", "write"} : Start(p, d, n, c)
  <2>1. PICK d \in Fd, n \in 1..MaxCount : /\ ofile[p][d] # NULL /\ cur' = [cur EXCEPT ![p] = ofile[p][d]]
                                           /\ left' = [left EXCEPT ![p] = n] /\ lock' = lock
    BY <1>4 DEF Start, Open
  <2>2. n \in Nat
    BY PipeAssumption
  <2> QED BY <1>1, <2>1, <2>2, OpenIsUsed
<1>5. CASE WriteByte(p)
  <2>1. left' = [left EXCEPT ![p] = left[p] - 1] /\ left[p] > 0 /\ cur' = cur
        /\ lock' = [lock EXCEPT ![PipeOf(p)] = p]
    BY <1>5 DEF WriteByte
  <2>2. left[p] - 1 \in Nat
    BY <1>1, <2>1
  <2>3. left' \in [Slot -> Nat]
    BY <1>1, <2>1, <2>2
  <2>4. lock' \in [Pipes -> Slot \cup {NULL}]
    BY <1>1, <2>1
  <2> QED BY <1>1, <2>1, <2>3, <2>4
<1>6. CASE ReadStep(p) \/ (WriteStep(p) /\ ~WriteByte(p)) \/ Blocked(p)
  <2>1. /\ cur' = cur \/ cur' = [cur EXCEPT ![p] = NULL]
        /\ left' = left \/ left' = [left EXCEPT ![p] = 0]
        /\ \E r \in {p, NULL} : lock' = [lock EXCEPT ![PipeOf(p)] = r]
    BY <1>6 DEF ReadStep, WriteStep, ReadBlocks, ReadKilled, ReadCopy, WriteFails, WriteBlocks,
                WriteDone, Blocked, Return, MustWait
  <2>2. left' \in [Slot -> Nat]
    BY <1>1, <2>1
  <2>3. lock' \in [Pipes -> Slot \cup {NULL}]
    <3>1. PICK r \in {p, NULL} : lock' = [lock EXCEPT ![PipeOf(p)] = r]
      BY <2>1
    <3>2. r \in Slot \cup {NULL}
      OBVIOUS
    <3> QED BY <1>1, <3>1, <3>2
  <2>4. cur' \in [Slot -> File \cup {NULL}] /\ \A q \in Slot : q # p => cur'[q] = cur[q]
    BY <1>1, <2>1
  <2> QED BY <2>2, <2>3, <2>4
<1> QED BY <1>2, <1>3, <1>4, <1>5, <1>6 DEF AnyStep

LEMMA UseInvStep == ProcInv /\ FileInv /\ UseInv /\ [Next]_vars => UseInv'
<1> SUFFICES ASSUME ProcInv, FileInv, UseInv, [Next]_vars PROVE UseInv'
  OBVIOUS
<1>1. CASE UNCHANGED vars
  BY <1>1 DEF vars, procVars, fileVars, pipeVars, UseInv
<1>2. ASSUME NEW p \in Slot, AnyStep(p) PROVE UseInv'
  <2>1. ASSUME NEW q \in Slot, pc'[q] \in RWs, q # p
        PROVE  cur'[q] \in File /\ \E d \in Fd : ofile'[q][d] = cur'[q]
    <3>1. pc'[q] = pc[q] /\ cur'[q] = cur[q] /\ (pc[q] # "user" => ofile'[q] = ofile[q])
      BY <1>2, <2>1, OthersFiles, UseTypes
    <3>2. pc[q] # "user"
      BY <2>1, <3>1 DEF RWs
    <3> QED BY <2>1, <3>1, <3>2 DEF UseInv
  <2> QED BY <1>2, <2>1, OwnUse, UseTypes DEF UseInv
<1> QED BY <1>1, <1>2, Steps
LEMMA UseInvInit == Init => UseInv
BY DEF Init, PipeInit, ProcInit, UseInv, RWs

\* The pipe somebody reads or writes.
LEMMA PipeInUse ==
    ASSUME FileInv, UseInv, NEW p \in Slot, pc[p] \in RWs
    PROVE  /\ PipeOf(p) \in Pipes /\ cur[p] \in File /\ ftable[cur[p]].ref > 0
           /\ \E d \in Fd : ofile[p][d] = cur[p] /\ ofile[p][d] # NULL
<1>1. PICK d \in Fd : ofile[p][d] = cur[p] /\ cur[p] \in File /\ cur[p] # NULL
  BY FdAssumption DEF UseInv
<1>2. ftable[cur[p]].ref > 0
  BY <1>1, OpenIsUsed
<1>3. ftable[cur[p]].pipe \in Pipes
  BY <1>1, <1>2 DEF FileInv, FileShape, FileTypeOK, Entry
<1> QED BY <1>1, <1>2, <1>3 DEF PipeOf

\* A step of another process does not change the pipe.
LEMMA PipeOfStays ==
    ASSUME ProcInv, FileInv, UseInv, NEW p \in Slot, AnyStep(p), NEW q \in Slot, pc[q] \in RWs,
           cur'[q] = cur[q]
    PROVE  PipeOf(q)' = PipeOf(q)
<1>1. PICK d \in Fd : ofile[q][d] = cur[q] /\ ofile[q][d] # NULL
  BY PipeInUse
<1> QED BY <1>1, OpenKeeps DEF PipeOf

-----------------------------------------------------------------------------
\* Remainders.

LEMMA ModSmall == \A a \in Nat, n \in Nat \ {0} : a < n => a % n = a
OBVIOUS

LEMMA ModOnce == \A a \in Nat, n \in Nat \ {0} : n <= a /\ a < 2 * n => a % n = a - n
OBVIOUS

LEMMA ModRange == \A a \in Nat, n \in Nat \ {0} : a % n \in 0..(n - 1)
OBVIOUS

LEMMA Times == \A a, n \in Nat : a >= 1 /\ n >= 1 => a * n >= n
OBVIOUS

LEMMA ModDiv == \A a \in Nat, n \in Nat \ {0} : a = n * (a \div n) + (a % n) /\ a \div n \in Nat
OBVIOUS

LEMMA Factor ==
    ASSUME NEW n \in Nat \ {0}, NEW p \in Nat, NEW q \in Nat, p < q
    PROVE  n * p + n <= n * q
<1>1. (q - p) * n >= n
  BY Times
<1>2. (q - p) * n = n * q - n * p
  OBVIOUS
<1>3. n * q \in Nat /\ n * p \in Nat
  OBVIOUS
<1> QED BY <1>1, <1>2, <1>3

LEMMA DivUnique ==
    ASSUME NEW n \in Nat \ {0}, NEW p \in Nat, NEW q \in Nat,
           NEW r \in 0..(n - 1), NEW s \in 0..(n - 1), n * p + r = n * q + s
    PROVE  r = s
<1>0. n * q \in Nat /\ n * p \in Nat
  OBVIOUS
<1>1. ~(p < q)
  BY <1>0, Factor
<1>2. ~(q < p)
  BY <1>0, Factor
<1>3. p = q
  BY <1>1, <1>2
<1> QED BY <1>0, <1>3

LEMMA ModSame ==
    ASSUME NEW a \in Nat, NEW b \in Nat, NEW n \in Nat \ {0}, a < b, b < a + n
    PROVE a % n # b % n
<1> DEFINE p == a \div n
           q == b \div n
<1>1. /\ a = n * p + (a % n) /\ p \in Nat /\ a % n \in Nat
      /\ b = n * q + (b % n) /\ q \in Nat /\ b % n \in Nat
  BY ModDiv, ModRange
<1> HIDE DEF p, q
<1> SUFFICES ASSUME a % n = b % n PROVE FALSE
  OBVIOUS
<1>2. n * q \in Nat /\ n * p \in Nat
  BY <1>1
<1>3. n * p < n * q /\ n * q < n * p + n
  BY <1>1, <1>2
<1>4. ~(p < q) /\ ~(q < p)
  BY <1>1, <1>2, <1>3, Factor
<1> QED BY <1>1, <1>3, <1>4

LEMMA Distrib == \A n, x, y \in Nat : n * (x + y) = n * x + n * y
OBVIOUS

LEMMA ModMod ==
    ASSUME NEW a \in Nat, NEW n \in Nat \ {0}, NEW m \in Nat \ {0}, m % n = 0
    PROVE  (a % m) % n = a % n
<1> DEFINE r == a % m
           h == m \div n
           d == a \div m
<1>1. m = n * h /\ h \in Nat
  BY ModDiv
<1>2. a = m * d + r /\ d \in Nat /\ r \in Nat
  BY ModDiv, ModRange
<1>3. r = n * (r \div n) + (r % n) /\ r \div n \in Nat /\ r % n \in 0..(n-1)
  BY <1>2, ModDiv, ModRange
<1>4. a = n * (a \div n) + (a % n) /\ a \div n \in Nat /\ a % n \in 0..(n-1)
  BY ModDiv, ModRange
<1> HIDE DEF r, h, d
<1>5. m * d = n * (h * d) /\ h * d \in Nat
  BY <1>1, <1>2
<1> DEFINE e == h * d
           g == r \div n
           c == a \div n
<1>6. n * (e + g) = n * e + n * g /\ e + g \in Nat
  <2>1. e \in Nat /\ g \in Nat
    BY <1>3, <1>5
  <2> HIDE DEF e, g
  <2> QED BY <2>1, Distrib
<1>6a. n * e \in Nat /\ n * g \in Nat /\ n * c \in Nat
  BY <1>3, <1>4, <1>5
<1>7. n * (e + g) + (r % n) = n * c + (a % n)
  <2> HIDE DEF e, g, c
  <2>1. a = n * e + (n * g + (r % n))
    BY <1>2, <1>3, <1>5 DEF e, g
  <2> QED BY <2>1, <1>3, <1>4, <1>6, <1>6a DEF c
<1> HIDE DEF e, g, c
<1>8. r % n = a % n
  BY <1>3, <1>4, <1>5, <1>6, <1>7, DivUnique DEF g, c
<1> QED BY <1>8 DEF r

-----------------------------------------------------------------------------
\* Ends of pipes.

LEMMA EndsMatch == EndInv => EndsMatchFiles
<1> SUFFICES ASSUME EndInv, NEW pi \in Pipes
             PROVE  /\ pipe[pi].writeopen = EndIsOpen(pi, TRUE)
                    /\ pipe[pi].readopen = EndIsOpen(pi, FALSE)
                    /\ pipe[pi].used = (pipe[pi].readopen \/ pipe[pi].writeopen)
  BY DEF EndsMatchFiles
<1>1. /\ pipe[pi].writeopen \in BOOLEAN /\ pipe[pi].readopen \in BOOLEAN
      /\ pipe[pi].used \in BOOLEAN
  BY DEF EndInv, Contents
<1>2. EndIsOpen(pi, TRUE) \in BOOLEAN /\ EndIsOpen(pi, FALSE) \in BOOLEAN
  BY DEF EndIsOpen
<1>3. /\ pipe[pi].writeopen <=> EndIsOpen(pi, TRUE)
      /\ pipe[pi].readopen <=> EndIsOpen(pi, FALSE)
      /\ pipe[pi].used <=> pipe[pi].readopen \/ pipe[pi].writeopen
  BY DEF EndInv, IsOpen
<1> QED BY <1>1, <1>2, <1>3

LEMMA EndIsClaimed ==
    ASSUME NEW pi, NEW w
    PROVE  EndIsOpen(pi, w) <=> (\E f \in File : Has(f, pi, w)) \/ (\E p \in Slot : Copied(p, pi, w))
BY DEF EndIsOpen, Has, Copied

\* An unused pipe has no claims.
LEMMA UnusedUnclaimed ==
    ASSUME EndInv, NEW pi \in Pipes, ~pipe[pi].used, NEW w \in BOOLEAN
    PROVE  (\A f \in File : ~Has(f, pi, w)) /\ (\A p \in Slot : ~Copied(p, pi, w))
<1>1. ~IsOpen(pi, w)
  BY DEF EndInv, IsOpen
<1>2. ~EndIsOpen(pi, w)
  BY <1>1 DEF EndInv
<1> QED BY <1>2, EndIsClaimed

\* Steps that neither open nor close anything.
LEMMA EndsStay ==
    ASSUME EndInv, pipe' \in [Pipes -> Contents],
           \A pi \in Pipes : /\ pipe'[pi].writeopen = pipe[pi].writeopen
                             /\ pipe'[pi].readopen = pipe[pi].readopen
                             /\ pipe'[pi].used = pipe[pi].used,
           \A f \in File, pi \in Pipes, w \in BOOLEAN : Has(f, pi, w)' <=> Has(f, pi, w),
           \A p \in Slot, pi \in Pipes, w \in BOOLEAN : Copied(p, pi, w)' <=> Copied(p, pi, w)
    PROVE  EndInv'
<1>1. OneClaim'
  BY DEF EndInv, OneClaim
<1>2. \A pi \in Pipes, w \in BOOLEAN : IsOpen(pi, w)' <=> IsOpen(pi, w)
  BY DEF IsOpen
<1>3. \A pi \in Pipes, w \in BOOLEAN :
        EndIsOpen(pi, w)' <=> (\E f \in File : Has(f, pi, w)') \/ (\E p \in Slot : Copied(p, pi, w)')
  BY DEF EndIsOpen, Has, Copied
<1>4. \A pi \in Pipes, w \in BOOLEAN : EndIsOpen(pi, w)' <=> EndIsOpen(pi, w)
  BY <1>3, EndIsClaimed
<1> QED BY <1>1, <1>2, <1>4 DEF EndInv

\* Counters stay counters.
LEMMA CounterSum == \A c \in Counter, j \in Nat : (c + j) % UINT \in Counter
<1>1. UINT \in Nat \ {0}
  BY PipeAssumption
<1> QED BY <1>1, ModRange DEF Counter

LEMMA SizeNat == ASSUME EndInv, NEW pi \in Pipes PROVE Size(pi) \in Nat /\ Size(pi) < UINT
<1>1. pipe[pi].nwrite \in Counter /\ pipe[pi].nread \in Counter
  BY DEF EndInv, Contents
<1>2. pipe[pi].nwrite + UINT - pipe[pi].nread \in Nat
  BY <1>1, PipeAssumption DEF Counter
<1>3. UINT \in Nat \ {0}
  BY PipeAssumption
<1>4. (pipe[pi].nwrite + UINT - pipe[pi].nread) % UINT \in 0..(UINT - 1)
  BY <1>2, <1>3, ModRange
<1> QED BY <1>4, <1>3 DEF Size

LEMMA ReadWritePipe ==
    ASSUME UseInv, EndInv, NEW p \in Slot, ReadStep(p) \/ WriteStep(p) \/ Blocked(p), PipeOf(p) \in Pipes
    PROVE  /\ pipe' \in [Pipes -> Contents]
           /\ \A pi \in Pipes : /\ pipe'[pi].writeopen = pipe[pi].writeopen
                                /\ pipe'[pi].readopen = pipe[pi].readopen
                                /\ pipe'[pi].used = pipe[pi].used
<1> DEFINE pi == PipeOf(p)
<1>1. pi \in Pipes /\ pipe \in [Pipes -> Contents] /\ pipe[pi] \in Contents
  BY DEF EndInv
<1>2. CASE ReadCopy(p)
  <2>1. PICK j \in 1..Min({left[p], Size(pi)}) \cup {Min({left[p], Size(pi)})} :
          pipe' = [pipe EXCEPT ![pi] = [pipe[pi] EXCEPT !.nread = (@ + j) % UINT]]
    BY <1>2 DEF ReadCopy, Return
  <2>2. j \in Nat
    <3>1. {left[p], Size(pi)} \in SUBSET Nat
      BY SizeNat DEF UseInv
    <3>2. Min({left[p], Size(pi)}) \in Nat
      BY <3>1, MinOfNats
    <3> QED BY <3>2
  <2>3. (pipe[pi].nread + j) % UINT \in Counter
    BY <1>1, <2>2, CounterSum DEF Contents
  <2> HIDE DEF pi
  <2> QED BY <1>1, <2>1, <2>3 DEF Contents
<1>3. CASE WriteByte(p)
  <2>1. pipe' = [pipe EXCEPT ![pi] = [pipe[pi] EXCEPT !.data[pipe[pi].nwrite % PIPESIZE] = pipe[pi].nwrite,
                                                     !.nwrite = (@ + 1) % UINT]]
    BY <1>1, <1>3 DEF WriteByte, Put
  <2>2. (pipe[pi].nwrite + 1) % UINT \in Counter
    BY <1>1, CounterSum DEF Contents
  <2> HIDE DEF pi
  <2> QED BY <1>1, <2>1, <2>2 DEF Contents
<1>4. CASE ~ReadCopy(p) /\ ~WriteByte(p)
  <2>1. pipe' = pipe \/ pipe' = [pipe EXCEPT ![pi] = pipe[pi]]
    BY <1>4 DEF ReadStep, WriteStep, ReadBlocks, ReadKilled, WriteFails, WriteBlocks,
                WriteDone, Blocked, Return, MustWait
  <2> HIDE DEF pi
  <2> QED BY <1>1, <2>1
<1> QED BY <1>2, <1>3, <1>4

\* Neither files nor ends change.
LEMMA QuietEnds ==
    ASSUME ProcInv, FileInv, UseInv, EndInv, NEW p \in Slot,
           QuietStep(p) \/ ReadStep(p) \/ WriteStep(p) \/ Blocked(p)
             \/ \E d \in Fd, n \in 1..MaxCount, c \in {"read", "write"} : Start(p, d, n, c)
    PROVE  EndInv'
<1>1. UNCHANGED <<ftable, ff>>
  BY DEF QuietStep, ReadStep, WriteStep, ReadBlocks, ReadKilled, ReadCopy, WriteFails, WriteBlocks, WriteByte,
         WriteDone, Blocked, Return, MustWait, Start, fileVars
<1>2. /\ \A f \in File, pi \in Pipes, w \in BOOLEAN : Has(f, pi, w)' <=> Has(f, pi, w)
      /\ \A q \in Slot, pi \in Pipes, w \in BOOLEAN : Copied(q, pi, w)' <=> Copied(q, pi, w)
  BY <1>1 DEF Has, Copied
<1>3. CASE ReadStep(p) \/ WriteStep(p) \/ Blocked(p)
  <2>1. PipeOf(p) \in Pipes
    <3>1. pc[p] \in RWs
      BY <1>3 DEF ReadStep, WriteStep, ReadBlocks, ReadKilled, ReadCopy, WriteFails, WriteBlocks, WriteByte,
                  WriteDone, Blocked, Writing, At, RWs
    <3> QED BY <3>1, PipeInUse
  <2>2. /\ pipe' \in [Pipes -> Contents]
        /\ \A pi \in Pipes : /\ pipe'[pi].writeopen = pipe[pi].writeopen
                             /\ pipe'[pi].readopen = pipe[pi].readopen
                             /\ pipe'[pi].used = pipe[pi].used
    BY <1>3, <2>1, ReadWritePipe
  <2> QED BY <1>2, <2>2, EndsStay
<1>4. CASE pipe' = pipe
  <2>1. pipe' \in [Pipes -> Contents]
    BY <1>4 DEF EndInv
  <2> QED BY <1>2, <1>4, <2>1, EndsStay
<1>5. QuietStep(p) \/ (\E d \in Fd, n \in 1..MaxCount, c \in {"read", "write"} : Start(p, d, n, c)) => pipe' = pipe
  BY DEF QuietStep, Start, pipeVars
<1> QED BY <1>3, <1>4, <1>5

\* References come and go, but for the last one of a file.
LEMMA OpenEnds ==
    ASSUME ProcInv, FileInv, EndInv, UNCHANGED pipe, UNCHANGED ff,
           \A f \in File : /\ ftable'[f].ref > 0 <=> ftable[f].ref > 0
                           /\ ftable'[f].pipe = ftable[f].pipe
                           /\ ftable'[f].writable = ftable[f].writable
    PROVE  EndInv'
<1>1. \A f \in File, pi \in Pipes, w \in BOOLEAN : Has(f, pi, w)' <=> Has(f, pi, w)
  BY DEF Has
<1>2. \A q \in Slot, pi \in Pipes, w \in BOOLEAN : Copied(q, pi, w)' <=> Copied(q, pi, w)
  BY DEF Copied
<1>3. pipe' \in [Pipes -> Contents]
  BY DEF EndInv
<1> QED BY <1>1, <1>2, <1>3, EndsStay

LEMMA ForkEnds ==
    ASSUME ProcInv, FileInv, EndInv, NEW p \in Slot, NEW q \in Slot, ForkFiles(p, q), UNCHANGED pipe
    PROVE  EndInv'
<1>1. /\ ftable' = [f \in File |-> [ftable[f] EXCEPT !.ref = @ + Cardinality(Held(p, f))]]
      /\ ff' = ff /\ FileTypeOK
  BY DEF ForkFiles, FileInv, FileShape
<1>2. ASSUME NEW f \in File
      PROVE  /\ ftable'[f].ref > 0 <=> ftable[f].ref > 0
             /\ ftable'[f].pipe = ftable[f].pipe
             /\ ftable'[f].writable = ftable[f].writable
  <2>1. /\ ftable[f] \in Entry
        /\ ftable'[f] = [ftable[f] EXCEPT !.ref = @ + Cardinality(Held(p, f))]
    BY <1>1 DEF FileTypeOK
  <2>2. IsFiniteSet(Held(p, f)) /\ Cardinality(Held(p, f)) \in Nat
    BY FdAssumption, FS_Subset, FS_CardinalityType DEF Held
  <2>3. Held(p, f) = {} => Cardinality(Held(p, f)) = 0
    BY FS_EmptySet
  <2>4. Held(p, f) # {} => ftable[f].ref > 0
    BY OpenIsUsed, FdAssumption DEF Held
  <2> QED BY <2>1, <2>2, <2>3, <2>4 DEF Entry
<1> QED BY <1>1, <1>2, OpenEnds

LEMMA SharedEnds ==
    ASSUME ProcInv, FileInv, EndInv, NEW p \in Slot,
           CloseDone(p) \/ ExitFiles(p) \/ \E d \in Fd : SysDup(p, d) \/ SysClose(p, d),
           UNCHANGED pipe
    PROVE  EndInv'
<1>1. FileTypeOK
  BY DEF FileInv, FileShape
<1>2. CASE CloseDone(p) \/ ExitFiles(p) \/ \E d \in Fd : SysClose(p, d)
  <2>1. UNCHANGED <<ftable, ff>>
    BY <1>2 DEF CloseDone, ExitFiles, SysClose, fileVars
  <2> QED BY <2>1, OpenEnds
<1>3. CASE \E d \in Fd : SysDup(p, d)
  <2>1. PICK d \in Fd : /\ ofile[p][d] # NULL /\ ff' = ff
                        /\ ftable' = [ftable EXCEPT ![ofile[p][d]].ref = @ + 1]
    BY <1>3 DEF SysDup, Open
  <2>2. ofile[p][d] \in File /\ ftable[ofile[p][d]].ref > 0
    BY <2>1, OpenIsUsed
  <2>3. \A f \in File : /\ ftable'[f].ref > 0 <=> ftable[f].ref > 0
                        /\ ftable'[f].pipe = ftable[f].pipe
                        /\ ftable'[f].writable = ftable[f].writable
    BY <1>1, <2>1, <2>2 DEF FileTypeOK, Entry
  <2> QED BY <2>1, <2>3, OpenEnds
<1> QED BY <1>2, <1>3

\* The last reference of a file turns into a copy of it.
LEMMA FileCloseEnds ==
    ASSUME ProcInv, FileInv, EndInv, NEW p \in Slot, FileClose(p), UNCHANGED pipe
    PROVE  EndInv'
<1> DEFINE g == Head(toClose[p])
<1>1. /\ toClose[p] # <<>> /\ ff[p].pipe = NULL
      /\ IF ftable[g].ref > 1
         THEN ftable' = [ftable EXCEPT ![g].ref = @ - 1] /\ ff' = ff
         ELSE ftable' = [ftable EXCEPT ![g] = FreeEntry] /\ ff' = [ff EXCEPT ![p] = ftable[g]]
  BY DEF FileClose
<1>2. FileTypeOK /\ toClose[p] \in Seq(File)
  BY DEF FileInv, FileShape, FileTypeOK
<1>3. g \in File /\ ftable[g].ref > 0
  <2>1. g \in File /\ 1 \in DOMAIN toClose[p] /\ toClose[p][1] = g
    BY <1>1, <1>2
  <2>2. <<p, 1>> \in Closings(g)
    BY <2>1, InClosings
  <2> QED BY <2>1, <2>2, RefIsCount
<1> HIDE DEF g
<1>4. CASE ftable[g].ref > 1
  <2>1. \A f \in File : /\ ftable'[f].ref > 0 <=> ftable[f].ref > 0
                        /\ ftable'[f].pipe = ftable[f].pipe
                        /\ ftable'[f].writable = ftable[f].writable
    <3>1. ftable' = [ftable EXCEPT ![g].ref = @ - 1] /\ ftable \in [File -> Entry]
      BY <1>1, <1>2, <1>4 DEF FileTypeOK
    <3>2. ftable'[g] = [ftable[g] EXCEPT !.ref = @ - 1] /\ \A f \in File \ {g} : ftable'[f] = ftable[f]
      BY <1>3, <3>1
    <3>3. ftable[g].ref \in Nat
      BY <1>3, <3>1 DEF Entry
    <3> QED BY <1>3, <1>4, <3>1, <3>2, <3>3 DEF Entry
  <2> QED BY <1>1, <1>4, <2>1, OpenEnds
<1>5. CASE ~(ftable[g].ref > 1)
  <2>1. /\ \A f \in File \ {g} : ftable'[f] = ftable[f]
        /\ ftable'[g].ref = 0 /\ ff'[p] = ftable[g]
        /\ \A q \in Slot \ {p} : ff'[q] = ff[q]
    BY <1>1, <1>2, <1>3, <1>5 DEF FileTypeOK, FreeEntry
  <2>2. /\ \A f \in File, pi \in Pipes, w \in BOOLEAN : Has(f, pi, w)' <=> f # g /\ Has(f, pi, w)
        /\ \A q \in Slot, pi \in Pipes, w \in BOOLEAN :
             Copied(q, pi, w)' <=> IF q = p THEN Has(g, pi, w) ELSE Copied(q, pi, w)
    BY <1>3, <2>1 DEF Has, Copied
  <2>3. \A pi \in Pipes, w \in BOOLEAN : ~Copied(p, pi, w)
    BY <1>1, FdAssumption DEF Copied
  <2>4. OneClaim'
    BY <1>3, <2>2 DEF OneClaim, EndInv
  <2>5. ASSUME NEW pi \in Pipes, NEW w \in BOOLEAN PROVE EndIsOpen(pi, w)' <=> EndIsOpen(pi, w)
    <3>1. EndIsOpen(pi, w)' <=> (\E f \in File : Has(f, pi, w)') \/ (\E q \in Slot : Copied(q, pi, w)')
      BY DEF EndIsOpen, Has, Copied
    <3> QED BY <1>3, <2>2, <2>3, <3>1, EndIsClaimed
  <2>6. \A pi \in Pipes, w \in BOOLEAN : IsOpen(pi, w)' <=> IsOpen(pi, w)
    BY DEF IsOpen
  <2> QED BY <2>4, <2>5, <2>6 DEF EndInv
<1> QED BY <1>4, <1>5

\* Two files for the two ends of a page that nothing points to.
LEMMA SysPipeEnds ==
    ASSUME ProcInv, FileInv, EndInv, NEW p \in Slot, NEW f0 \in File, NEW f1 \in File, NEW pi \in Pipes,
           SysPipe(p, f0, f1, pi)
    PROVE  EndInv'
<1>1. /\ f0 # f1 /\ ftable[f0].ref = 0 /\ ftable[f1].ref = 0 /\ ~pipe[pi].used
      /\ ff' = ff
      /\ ftable' = [ftable EXCEPT ![f0] = [ref |-> 1, writable |-> FALSE, pipe |-> pi],
                                 ![f1] = [ref |-> 1, writable |-> TRUE, pipe |-> pi]]
      /\ pipe' = [pipe EXCEPT ![pi] = [NoPipe EXCEPT !.used = TRUE, !.readopen = TRUE, !.writeopen = TRUE]]
  BY DEF SysPipe, FreeFiles
<1>2. FileTypeOK /\ pipe \in [Pipes -> Contents]
  BY DEF FileInv, FileShape, EndInv
<1>3. /\ pipe' \in [Pipes -> Contents]
      /\ pipe'[pi].used = TRUE /\ pipe'[pi].readopen = TRUE /\ pipe'[pi].writeopen = TRUE
      /\ \A pj \in Pipes \ {pi} : pipe'[pj] = pipe[pj]
  <2>1. 0 \in Counter
    BY PipeAssumption DEF Counter
  <2>2. [NoPipe EXCEPT !.used = TRUE, !.readopen = TRUE, !.writeopen = TRUE] \in Contents
    BY <2>1 DEF NoPipe, Contents
  <2> QED BY <1>1, <1>2, <2>2 DEF NoPipe
<1>4. \A pj \in Pipes, w \in BOOLEAN, f \in File :
        Has(f, pj, w)' <=> IF f = f0 THEN pj = pi /\ w = FALSE
                           ELSE IF f = f1 THEN pj = pi /\ w = TRUE ELSE Has(f, pj, w)
  <2>1. /\ ftable'[f0] = [ref |-> 1, writable |-> FALSE, pipe |-> pi]
        /\ ftable'[f1] = [ref |-> 1, writable |-> TRUE, pipe |-> pi]
        /\ \A f \in File \ {f0, f1} : ftable'[f] = ftable[f]
    BY <1>1, <1>2 DEF FileTypeOK
  <2>2. ASSUME NEW pj \in Pipes, NEW w \in BOOLEAN PROVE Has(f0, pj, w)' <=> pj = pi /\ w = FALSE
    <3>1. /\ ftable'[f0].ref = 1 /\ ftable'[f0].pipe = pi
          /\ ftable'[f0].writable = FALSE /\ ftable'[f0].writable \in BOOLEAN
      BY <2>1
    <3> QED BY <3>1 DEF Has
  <2>3. ASSUME NEW pj \in Pipes, NEW w \in BOOLEAN PROVE Has(f1, pj, w)' <=> pj = pi /\ w = TRUE
    <3>1. /\ ftable'[f1].ref = 1 /\ ftable'[f1].pipe = pi
          /\ ftable'[f1].writable = TRUE /\ ftable'[f1].writable \in BOOLEAN
      BY <2>1
    <3> QED BY <3>1 DEF Has
  <2>4. \A pj \in Pipes, w \in BOOLEAN, f \in File \ {f0, f1} : Has(f, pj, w)' <=> Has(f, pj, w)
    BY <2>1 DEF Has
  <2> QED BY <1>1, <2>2, <2>3, <2>4
<1>5. \A q \in Slot, pj \in Pipes, w \in BOOLEAN : Copied(q, pj, w)' <=> Copied(q, pj, w)
  BY <1>1 DEF Copied
<1>6. \A w \in BOOLEAN : (\A f \in File : ~Has(f, pi, w)) /\ (\A q \in Slot : ~Copied(q, pi, w))
  BY <1>1, UnusedUnclaimed
<1>7. \A pj \in Pipes, w \in BOOLEAN : ~Has(f0, pj, w) /\ ~Has(f1, pj, w)
  BY <1>1 DEF Has
<1>8. OneClaim'
  <2> SUFFICES ASSUME NEW pj \in Pipes, NEW w \in BOOLEAN
               PROVE  /\ \A f, g \in File : Has(f, pj, w)' /\ Has(g, pj, w)' => f = g
                      /\ \A f \in File, q \in Slot : ~(Has(f, pj, w)' /\ Copied(q, pj, w)')
                      /\ \A q, r \in Slot : Copied(q, pj, w)' /\ Copied(r, pj, w)' => q = r
    BY DEF OneClaim, Has, Copied
  <2>1. CASE pj = pi
    BY <1>1, <1>4, <1>5, <1>6, <2>1
  <2>2. CASE pj # pi
    BY <1>4, <1>5, <2>2 DEF OneClaim, EndInv
  <2> QED BY <2>1, <2>2
<1>9. ASSUME NEW pj \in Pipes, NEW w \in BOOLEAN PROVE IsOpen(pj, w)' <=> EndIsOpen(pj, w)'
  <2>1. EndIsOpen(pj, w)' <=> (\E f \in File : Has(f, pj, w)') \/ (\E q \in Slot : Copied(q, pj, w)')
    BY DEF EndIsOpen, Has, Copied
  <2>2. CASE pj = pi
    <3>1. IsOpen(pj, w)'
      BY <1>3, <2>2 DEF IsOpen
    <3>2. Has(f0, pj, w)' \/ Has(f1, pj, w)'
      BY <1>1, <1>4, <2>2
    <3> QED BY <2>1, <3>1, <3>2
  <2>3. CASE pj # pi
    <3>1. \A f \in File : Has(f, pj, w)' <=> Has(f, pj, w)
      BY <1>4, <1>7, <2>3
    <3>2. IsOpen(pj, w)' <=> IsOpen(pj, w)
      BY <1>3, <2>3 DEF IsOpen
    <3> QED BY <1>5, <2>1, <3>1, <3>2, EndIsClaimed DEF EndInv
  <2> QED BY <2>2, <2>3
<1>10. \A pj \in Pipes : pipe'[pj].used <=> pipe'[pj].readopen \/ pipe'[pj].writeopen
  BY <1>3 DEF EndInv
<1> QED BY <1>3, <1>8, <1>9, <1>10 DEF EndInv

\* The copy of a file goes, and with it the only claim to that end.
LEMMA PipeCloseEnds ==
    ASSUME ProcInv, FileInv, EndInv, NEW p \in Slot, PipeClose(p)
    PROVE  EndInv'
<1> DEFINE pi == ff[p].pipe
           end == ff[p].writable
           after == [pipe[pi] EXCEPT !.writeopen = @ /\ ~end, !.readopen = @ /\ end]
<1>1. /\ pi # NULL /\ ftable' = ftable /\ ff' = [ff EXCEPT ![p] = FreeEntry]
      /\ pipe' = [pipe EXCEPT ![pi] = IF after.readopen \/ after.writeopen THEN after ELSE NoPipe]
  BY DEF PipeClose
<1>2. /\ FileTypeOK /\ pipe \in [Pipes -> Contents] /\ pi \in Pipes /\ end \in BOOLEAN
      /\ pipe[pi] \in Contents
  <2>1. FileTypeOK /\ pipe \in [Pipes -> Contents]
    BY DEF FileInv, FileShape, EndInv
  <2> QED BY <1>1, <2>1 DEF FileTypeOK, Entry
<1>3. after \in Contents /\ after.used = pipe[pi].used
      /\ (after.writeopen <=> pipe[pi].writeopen /\ ~end) /\ (after.readopen <=> pipe[pi].readopen /\ end)
  BY <1>2 DEF Contents
<1>4. NoPipe \in Contents /\ ~NoPipe.used /\ ~NoPipe.readopen /\ ~NoPipe.writeopen
  <2>1. 0 \in Counter
    BY PipeAssumption DEF Counter
  <2> QED BY <2>1 DEF NoPipe, Contents
<1> HIDE DEF pi, end, after
<1>5. Copied(p, pi, end)
  BY DEF Copied, pi, end
<1>6. IsOpen(pi, end) /\ pipe[pi].used
  <2>1. IsOpen(pi, end)
    BY <1>2, <1>5, EndIsClaimed DEF EndInv
  <2> QED BY <1>2, <2>1 DEF IsOpen, EndInv
<1>7. /\ pipe' \in [Pipes -> Contents]
      /\ \A pj \in Pipes \ {pi} : pipe'[pj] = pipe[pj]
      /\ pipe'[pi] = IF after.readopen \/ after.writeopen THEN after ELSE NoPipe
  BY <1>1, <1>2, <1>3, <1>4
<1>8. /\ pipe'[pi].writeopen <=> pipe[pi].writeopen /\ ~end
      /\ pipe'[pi].readopen <=> pipe[pi].readopen /\ end
      /\ pipe'[pi].used <=> pipe'[pi].readopen \/ pipe'[pi].writeopen
  BY <1>3, <1>4, <1>6, <1>7
<1>9. \A pj \in Pipes, w \in BOOLEAN : IsOpen(pj, w)' <=> IsOpen(pj, w) /\ <<pj, w>> # <<pi, end>>
  BY <1>2, <1>7, <1>8 DEF IsOpen
<1>10. \A f \in File, pj \in Pipes, w \in BOOLEAN : Has(f, pj, w)' <=> Has(f, pj, w)
  BY <1>1 DEF Has
<1>11. \A q \in Slot, pj \in Pipes, w \in BOOLEAN : Copied(q, pj, w)' <=> q # p /\ Copied(q, pj, w)
  BY <1>1, <1>2, FdAssumption DEF Copied, FreeEntry, FileTypeOK
<1>12. OneClaim'
  BY <1>10, <1>11 DEF OneClaim, EndInv
<1>13. ASSUME NEW pj \in Pipes, NEW w \in BOOLEAN PROVE IsOpen(pj, w)' <=> EndIsOpen(pj, w)'
  <2>1. EndIsOpen(pj, w)' <=> (\E f \in File : Has(f, pj, w)') \/ (\E q \in Slot : Copied(q, pj, w)')
    BY DEF EndIsOpen, Has, Copied
  <2>2. CASE <<pj, w>> = <<pi, end>>
    <3>1. (\A f \in File : ~Has(f, pj, w)) /\ (\A q \in Slot : Copied(q, pj, w) => q = p)
      BY <1>5, <2>2 DEF OneClaim, EndInv
    <3> QED BY <1>9, <1>10, <1>11, <2>1, <2>2, <3>1
  <2>3. CASE <<pj, w>> # <<pi, end>>
    <3>1. ~Copied(p, pj, w)
      BY <2>3 DEF Copied, pi, end
    <3> QED BY <1>9, <1>10, <1>11, <2>1, <2>3, <3>1, EndIsClaimed DEF EndInv
  <2> QED BY <2>2, <2>3
<1>14. \A pj \in Pipes : pipe'[pj].used <=> pipe'[pj].readopen \/ pipe'[pj].writeopen
  BY <1>7, <1>8 DEF EndInv
<1> QED BY <1>7, <1>12, <1>13, <1>14 DEF EndInv

LEMMA EndInvStep == ProcInv /\ FileInv /\ UseInv /\ EndInv /\ [Next]_vars => EndInv'
<1> SUFFICES ASSUME ProcInv, FileInv, UseInv, EndInv, [Next]_vars PROVE EndInv'
  OBVIOUS
<1>1. CASE UNCHANGED vars
  <2>1. pipe' = pipe /\ ff' = ff /\ ftable' = ftable
    BY <1>1 DEF vars, fileVars, pipeVars
  <2> QED BY <2>1, OpenEnds
<1>2. ASSUME NEW p \in Slot, OpenStep(p) PROVE EndInv'
  <2>1. UNCHANGED pipe
    BY <1>2 DEF OpenStep, pipeVars
  <2> QED BY <1>2, <2>1, FileCloseEnds, SharedEnds, ForkEnds DEF OpenStep
<1>3. ASSUME NEW p \in Slot, AnyStep(p) PROVE EndInv'
  BY <1>2, <1>3, QuietEnds, SysPipeEnds, PipeCloseEnds DEF AnyStep
<1> QED BY <1>1, <1>3, Steps

LEMMA EndInvInit == Init => EndInv
<1> SUFFICES ASSUME Init PROVE EndInv
  OBVIOUS
<1>1. /\ \A f \in File : ftable[f].ref = 0
      /\ \A p \in Slot : ff[p].pipe = NULL
      /\ pipe = [pi \in Pipes |-> NoPipe]
  BY DEF Init, FileInit, PipeInit, FreeEntry
<1>2. NoPipe \in Contents /\ ~NoPipe.used /\ ~NoPipe.readopen /\ ~NoPipe.writeopen
  <2>1. 0 \in Counter
    BY PipeAssumption DEF Counter
  <2> QED BY <2>1 DEF NoPipe, Contents
<1>3. \A pi \in Pipes, w \in BOOLEAN : /\ \A f \in File : ~Has(f, pi, w)
                                       /\ \A p \in Slot : ~Copied(p, pi, w)
  BY <1>1, FdAssumption DEF Has, Copied
<1>4. \A pi \in Pipes, w \in BOOLEAN : ~EndIsOpen(pi, w) /\ ~IsOpen(pi, w)
  BY <1>1, <1>2, <1>3, EndIsClaimed DEF IsOpen
<1> QED BY <1>1, <1>2, <1>3, <1>4 DEF EndInv, OneClaim

\* What a process in piperead() or pipewrite() holds, and that each end of a pipe belongs
\* to one file, or to one fileclose() that has taken it over and will close it.
THEOREM Ends == Spec => [](UseInv /\ EndInv)
<1>1. Init => ProcInv /\ FileInv /\ UseInv /\ EndInv
  BY ProcInvInit, FileInvInit, UseInvInit, EndInvInit
<1>2. ProcInv /\ FileInv /\ UseInv /\ EndInv /\ [Next]_vars => (ProcInv /\ FileInv /\ UseInv /\ EndInv)'
  BY ProcInvStep, FileInvStep, UseInvStep, EndInvStep
<1> QED BY <1>1, <1>2, PTL DEF Spec

\* An end of a pipe is open as long as some file stands for it, and a page is in use as
\* long as an end is open: no reader waits for a writer that is gone, no file is left
\* with a page that has been given back.
THEOREM EndsOpenForFiles == Spec => []EndsMatchFiles
BY Ends, EndsMatch, PTL

-----------------------------------------------------------------------------
\* What is in a pipe.

\* UnreadIntact, of a page with contents b.
Unread(b) == (b.nwrite + UINT - b.nread) % UINT
Intact(b) ==
    /\ Unread(b) <= PIPESIZE
    /\ \A i \in 0..(Unread(b) - 1) : b.data[((b.nread + i) % UINT) % PIPESIZE] = (b.nread + i) % UINT

DataInv == \A pi \in Pipes : Intact(pipe[pi])

LEMMA DataForm == DataInv <=> UnreadIntact
BY DEF DataInv, Intact, Unread, UnreadIntact, Size

\* The counters modulo UINT, without the modulus.
LEMMA SumForm ==
    ASSUME NEW r \in Counter, NEW j \in 0..UINT
    PROVE  (r + j) % UINT = IF r + j < UINT THEN r + j ELSE r + j - UINT
<1>1. UINT \in Nat \ {0} /\ r \in Nat /\ r < UINT /\ j \in Nat /\ j <= UINT /\ r + j \in Nat
  BY PipeAssumption DEF Counter
<1>2. CASE r + j < UINT
  BY <1>1, <1>2, ModSmall
<1>3. CASE ~(r + j < UINT)
  <2> DEFINE a == r + j
  <2>1. UINT <= a /\ a < 2 * UINT /\ a \in Nat
    BY <1>1, <1>3
  <2> HIDE DEF a
  <2>2. a % UINT = a - UINT
    BY <1>1, <2>1, ModOnce
  <2> QED BY <1>1, <1>3, <2>2 DEF a
<1> QED BY <1>2, <1>3

LEMMA SizeForm ==
    ASSUME NEW r \in Counter, NEW w \in Counter
    PROVE  (w + UINT - r) % UINT = IF r <= w THEN w - r ELSE w + UINT - r
<1>1. UINT - r \in 0..UINT
  BY PipeAssumption DEF Counter
<1>2. (w + (UINT - r)) % UINT = IF w + (UINT - r) < UINT THEN w + (UINT - r) ELSE w + (UINT - r) - UINT
  BY <1>1, SumForm
<1>3. w + (UINT - r) = w + UINT - r
  BY PipeAssumption DEF Counter
<1>4. r \in Nat /\ w \in Nat /\ UINT \in Nat
  BY PipeAssumption DEF Counter
<1> QED BY <1>2, <1>3, <1>4

\* The read of j bytes.
LEMMA ReadIntact ==
    ASSUME NEW b \in Contents, Intact(b), NEW j \in 0..Unread(b)
    PROVE  Intact([b EXCEPT !.nread = (@ + j) % UINT])
<1> DEFINE r == b.nread
           w == b.nwrite
           rr == (r + j) % UINT
           c == [b EXCEPT !.nread = (@ + j) % UINT]
           u == Unread(b)
           v == Unread(c)
<1>1. r \in Counter /\ w \in Counter /\ UINT \in Nat /\ UINT > 0
  BY PipeAssumption DEF Contents
<1>2. u = IF r <= w THEN w - r ELSE w + UINT - r
  BY <1>1, SizeForm DEF Unread
<1>3. c.nread = rr /\ c.nwrite = w /\ c.data = b.data
  BY DEF Contents
<1>4. j \in 0..UINT /\ u \in 0..(UINT - 1) /\ j <= u /\ j \in Nat /\ j \in 0..u
  <2>1. j \in 0..u
    OBVIOUS
  <2> HIDE DEF r, w, u
  <2> QED BY <1>1, <1>2, <2>1 DEF Counter
<1>5. rr = IF r + j < UINT THEN r + j ELSE r + j - UINT
  BY <1>1, <1>4, SumForm
<1>6. rr \in Counter
  BY <1>1, <1>4, CounterSum
<1>7. v = IF rr <= w THEN w - rr ELSE w + UINT - rr
  BY <1>1, <1>3, <1>6, SizeForm DEF Unread
<1>8. v = u - j /\ v \in Nat
  <2> HIDE DEF r, w, u, v, rr
  <2> QED BY <1>1, <1>2, <1>4, <1>5, <1>7 DEF Counter
<1>9. ASSUME NEW i \in 0..(v - 1) PROVE (rr + i) % UINT = (r + (j + i)) % UINT /\ j + i \in 0..(u - 1)
  <2>1. i \in Nat /\ i < u - j /\ i \in 0..UINT /\ j + i \in 0..UINT /\ j + i \in 0..(u - 1)
    <3> HIDE DEF r, w, u, v, rr
    <3> QED BY <1>1, <1>4, <1>8
  <2>2. (rr + i) % UINT = IF rr + i < UINT THEN rr + i ELSE rr + i - UINT
    BY <1>6, <2>1, SumForm
  <2>3. (r + (j + i)) % UINT = IF r + (j + i) < UINT THEN r + (j + i) ELSE r + (j + i) - UINT
    BY <1>1, <2>1, SumForm
  <2> HIDE DEF r, w, u, v, rr
  <2> QED BY <1>1, <1>2, <1>4, <1>5, <2>1, <2>2, <2>3 DEF Counter
<1>10. u <= PIPESIZE /\ \A i \in 0..(u - 1) : b.data[((r + i) % UINT) % PIPESIZE] = (r + i) % UINT
  BY DEF Intact
<1>11. \A i \in 0..(v - 1) : b.data[((rr + i) % UINT) % PIPESIZE] = (rr + i) % UINT
  <2> HIDE DEF r, w, u, v, rr
  <2> QED BY <1>9, <1>10
<1>12. v <= PIPESIZE
  <2> HIDE DEF r, w, u, v, rr
  <2> QED BY <1>4, <1>8, <1>10, PipeAssumption
<1> QED BY <1>3, <1>11, <1>12 DEF Intact

\* The write of a byte to a pipe that is not full.
LEMMA WriteIntact ==
    ASSUME NEW b \in Contents, Intact(b), b.nwrite # (b.nread + PIPESIZE) % UINT
    PROVE  Intact(Put(b))
<1> DEFINE r == b.nread
           w == b.nwrite
           ww == (w + 1) % UINT
           c == Put(b)
           u == Unread(b)
           v == Unread(c)
<1>1. r \in Counter /\ w \in Counter /\ UINT \in Nat /\ PIPESIZE \in Nat /\ 0 < PIPESIZE /\ PIPESIZE < UINT
  BY PipeAssumption DEF Contents
<1>2. u = IF r <= w THEN w - r ELSE w + UINT - r
  BY <1>1, SizeForm DEF Unread
<1>3. c.nread = r /\ c.nwrite = ww /\ c.data = [b.data EXCEPT ![w % PIPESIZE] = w]
  BY DEF Contents, Put
<1>4. u <= PIPESIZE /\ u \in Nat
  <2>1. u <= PIPESIZE
    BY DEF Intact
  <2> HIDE DEF r, w, u
  <2> QED BY <1>1, <1>2, <2>1 DEF Counter
<1>5. u < PIPESIZE
  <2>1. w # (r + PIPESIZE) % UINT
    OBVIOUS
  <2>2. (r + PIPESIZE) % UINT = IF r + PIPESIZE < UINT THEN r + PIPESIZE ELSE r + PIPESIZE - UINT
    BY <1>1, SumForm
  <2> HIDE DEF r, w, u
  <2> QED BY <1>1, <1>2, <1>4, <2>1, <2>2 DEF Counter
<1>6. ww = (IF w + 1 < UINT THEN w + 1 ELSE w + 1 - UINT) /\ ww \in Counter
  BY <1>1, SumForm, CounterSum
<1>7. v = IF r <= ww THEN ww - r ELSE ww + UINT - r
  BY <1>1, <1>3, <1>6, SizeForm DEF Unread
<1>8. v = u + 1 /\ v <= PIPESIZE
  <2> HIDE DEF r, w, u, v, ww
  <2> QED BY <1>1, <1>2, <1>4, <1>5, <1>6, <1>7 DEF Counter
<1>9. w = (r + u) % UINT
  <2>1. u \in 0..UINT
    BY <1>1, <1>4, <1>5
  <2>2. (r + u) % UINT = IF r + u < UINT THEN r + u ELSE r + u - UINT
    BY <1>1, <2>1, SumForm
  <2> HIDE DEF r, w, u
  <2> QED BY <1>1, <1>2, <2>2 DEF Counter
<1>10. w % PIPESIZE \in 0..(PIPESIZE - 1) /\ w \in Nat /\ r \in Nat
  <2>1. w \in Nat /\ r \in Nat /\ PIPESIZE \in Nat \ {0}
    BY <1>1 DEF Counter
  <2> HIDE DEF w, r
  <2> QED BY <2>1, ModRange
<1>11. c.data[w % PIPESIZE] = w
  BY <1>3, <1>10 DEF Contents
<1>12. \A i \in 0..(u - 1) : b.data[((r + i) % UINT) % PIPESIZE] = (r + i) % UINT
  BY DEF Intact
<1>13. ASSUME NEW i \in 0..(v - 1) PROVE c.data[((r + i) % UINT) % PIPESIZE] = (r + i) % UINT
  <2>1. CASE i = u
    BY <1>9, <1>11, <2>1
  <2>2. CASE i # u
    <3>1. i \in Nat /\ i < u /\ i \in 0..(u - 1)
      <4> HIDE DEF r, w, u, v, ww
      <4> QED BY <1>4, <1>8, <2>2
    <3>2. r + i \in Nat /\ r + u \in Nat /\ r + i < r + u /\ r + u < r + i + PIPESIZE
      <4> HIDE DEF r, w, u, v, ww
      <4> QED BY <1>1, <1>4, <1>5, <1>10, <3>1
    <3>3. (r + i) % PIPESIZE # (r + u) % PIPESIZE
      <4> HIDE DEF r, w, u, v, ww
      <4> QED BY <1>1, <3>2, ModSame
    <3>4. ((r + i) % UINT) % PIPESIZE = (r + i) % PIPESIZE /\ ((r + u) % UINT) % PIPESIZE = (r + u) % PIPESIZE
      <4>1. UINT \in Nat \ {0} /\ PIPESIZE \in Nat \ {0} /\ UINT % PIPESIZE = 0
        BY <1>1, PipeAssumption
      <4> HIDE DEF r, w, u, v, ww
      <4> QED BY <3>2, <4>1, ModMod
    <3>5. ((r + i) % UINT) % PIPESIZE # w % PIPESIZE
      BY <1>9, <3>3, <3>4
    <3>6. c.data[((r + i) % UINT) % PIPESIZE] = b.data[((r + i) % UINT) % PIPESIZE]
      <4>1. UINT \in Nat \ {0} /\ PIPESIZE \in Nat \ {0} /\ r + i \in Nat
        BY <1>1, <3>2
      <4>2. ((r + i) % UINT) % PIPESIZE \in 0..(PIPESIZE - 1)
        <5> HIDE DEF r
        <5>1. (r + i) % UINT \in 0..(UINT - 1)
          BY <4>1, ModRange
        <5>2. (r + i) % UINT \in Nat
          BY <4>1, <5>1
        <5> QED BY <4>1, <5>2, ModRange
      <4>3. b.data \in [0..(PIPESIZE - 1) -> Counter]
        BY DEF Contents
      <4> HIDE DEF r, w, u, v, ww, c
      <4> QED BY <1>3, <3>5, <4>2, <4>3
    <3> QED BY <1>12, <3>1, <3>6
  <2> QED BY <2>1, <2>2
<1> QED BY <1>3, <1>8, <1>13 DEF Intact

\* A page just taken, or freed.
LEMMA EmptyIntact ==
    ASSUME NEW b, b.nread = 0, b.nwrite = 0
    PROVE  Intact(b)
<1>1. 0 \in Counter /\ UINT \in Nat /\ PIPESIZE \in Nat
  BY PipeAssumption DEF Counter
<1>2. Unread(b) = 0
  BY <1>1, SizeForm DEF Unread
<1> QED BY <1>1, <1>2 DEF Intact

LEMMA DataInvStep == ProcInv /\ FileInv /\ UseInv /\ EndInv /\ DataInv /\ [Next]_vars => DataInv'
<1> SUFFICES ASSUME ProcInv, FileInv, UseInv, EndInv, DataInv, [Next]_vars,
                    NEW pi \in Pipes PROVE Intact(pipe'[pi])
  BY DEF DataInv, Intact, Unread
<1>0. Intact(pipe[pi]) /\ pipe \in [Pipes -> Contents]
  BY DEF DataInv, EndInv
<1>1. CASE UNCHANGED vars
  BY <1>0, <1>1 DEF vars, pipeVars
<1>2. ASSUME NEW p \in Slot, AnyStep(p) PROVE Intact(pipe'[pi])
  <2>1. CASE ReadCopy(p)
    <3>1. PICK j \in 1..Min({left[p], Size(PipeOf(p))}) \cup {Min({left[p], Size(PipeOf(p))})} :
            pipe' = [pipe EXCEPT ![PipeOf(p)] = [pipe[PipeOf(p)] EXCEPT !.nread = (@ + j) % UINT]]
      BY <2>1 DEF ReadCopy, Return
    <3>2. PipeOf(p) \in Pipes
      BY <2>1, PipeInUse DEF ReadCopy, At, RWs
    <3>3. Size(PipeOf(p)) = Unread(pipe[PipeOf(p)]) /\ Size(PipeOf(p)) \in Nat
      BY <3>2, SizeNat DEF Size, Unread
    <3>4. Min({left[p], Size(PipeOf(p))}) \in Nat /\ Min({left[p], Size(PipeOf(p))}) <= Size(PipeOf(p))
      <4>1. {left[p], Size(PipeOf(p))} \in SUBSET Nat
        BY <3>3 DEF UseInv
      <4> QED BY <4>1, MinOfNats
    <3>5. j \in 0..Unread(pipe[PipeOf(p)])
      BY <3>3, <3>4
    <3>6. Intact([pipe[PipeOf(p)] EXCEPT !.nread = (@ + j) % UINT])
      BY <1>0, <3>2, <3>5, ReadIntact DEF DataInv
    <3> QED BY <1>0, <3>1, <3>2, <3>6
  <2>2. CASE WriteByte(p)
    <3>1. PipeOf(p) \in Pipes
      BY <2>2, PipeInUse DEF WriteByte, Writing, At, RWs
    <3>2. /\ pipe' = [pipe EXCEPT ![PipeOf(p)] = Put(pipe[PipeOf(p)])]
          /\ pipe[PipeOf(p)].nwrite # (pipe[PipeOf(p)].nread + PIPESIZE) % UINT
      BY <1>0, <2>2, <3>1 DEF WriteByte, Full
    <3>3. Intact(Put(pipe[PipeOf(p)]))
      BY <1>0, <3>1, <3>2, WriteIntact DEF DataInv
    <3> QED BY <1>0, <3>1, <3>2, <3>3
  <2>3. CASE (ReadStep(p) /\ ~ReadCopy(p)) \/ (WriteStep(p) /\ ~WriteByte(p)) \/ Blocked(p)
    <3>1. pipe' = pipe \/ pipe' = [pipe EXCEPT ![PipeOf(p)] = pipe[PipeOf(p)]]
      BY <2>3 DEF ReadStep, WriteStep, ReadBlocks, ReadKilled, WriteFails, WriteBlocks,
                  WriteDone, Blocked, Return, MustWait
    <3> QED BY <1>0, <3>1
  <2>4. CASE PipeClose(p)
    <3>1. \/ pipe' = [pipe EXCEPT ![ff[p].pipe] = NoPipe]
          \/ pipe' = [pipe EXCEPT ![ff[p].pipe] =
               [pipe[ff[p].pipe] EXCEPT !.writeopen = @ /\ ~ff[p].writable, !.readopen = @ /\ ff[p].writable]]
      BY <2>4 DEF PipeClose
    <3>2. CASE pipe'[pi] = pipe[pi] \/ pipe'[pi] = NoPipe
      BY <1>0, <3>2, EmptyIntact DEF NoPipe
    <3>3. CASE pipe'[pi] = [pipe[pi] EXCEPT !.writeopen = @ /\ ~ff[p].writable, !.readopen = @ /\ ff[p].writable]
      <4>1. /\ pipe'[pi].nread = pipe[pi].nread /\ pipe'[pi].nwrite = pipe[pi].nwrite
            /\ pipe'[pi].data = pipe[pi].data
        BY <1>0, <3>3 DEF Contents
      <4> QED BY <1>0, <4>1 DEF Intact, Unread
    <3> QED BY <1>0, <3>1, <3>2, <3>3
  <2>5. CASE \E f0, f1 \in File, pj \in Pipes : SysPipe(p, f0, f1, pj)
    <3>1. PICK pj \in Pipes : pipe' = [pipe EXCEPT ![pj] = [NoPipe EXCEPT !.used = TRUE, !.readopen = TRUE,
                                                                        !.writeopen = TRUE]]
      BY <2>5 DEF SysPipe
    <3>2. CASE pi # pj
      BY <1>0, <3>1, <3>2
    <3>3. CASE pi = pj
      <4>1. pipe'[pi].nread = 0 /\ pipe'[pi].nwrite = 0
        BY <1>0, <3>1, <3>3 DEF NoPipe
      <4> QED BY <4>1, EmptyIntact
    <3> QED BY <3>2, <3>3
  <2>6. CASE QuietStep(p) \/ OpenStep(p) \/ \E d \in Fd, n \in 1..MaxCount, c \in {"read", "write"} : Start(p, d, n, c)
    BY <1>0, <2>6 DEF QuietStep, OpenStep, Start, pipeVars
  <2> QED BY <1>2, <2>1, <2>2, <2>3, <2>4, <2>5, <2>6 DEF AnyStep, ReadStep, WriteStep
<1> QED BY <1>1, <1>2, Steps

LEMMA DataInvInit == Init => DataInv
<1> SUFFICES ASSUME Init, NEW pi \in Pipes PROVE Intact(pipe[pi])
  BY DEF DataInv
<1>1. pipe[pi].nread = 0 /\ pipe[pi].nwrite = 0
  BY DEF Init, PipeInit, NoPipe
<1> QED BY <1>1, EmptyIntact

\* The bytes between a pipe's counters are the ones its array keeps at those places, in
\* the order of pipewrite(), and never more than PIPESIZE of them.
THEOREM Contained == Spec => []DataInv
<1>1. Init => ProcInv /\ FileInv /\ UseInv /\ EndInv /\ DataInv
  BY ProcInvInit, FileInvInit, UseInvInit, EndInvInit, DataInvInit
<1>2. ProcInv /\ FileInv /\ UseInv /\ EndInv /\ DataInv /\ [Next]_vars
        => (ProcInv /\ FileInv /\ UseInv /\ EndInv /\ DataInv)'
  BY ProcInvStep, FileInvStep, UseInvStep, EndInvStep, DataInvStep
<1> QED BY <1>1, <1>2, PTL DEF Spec

\* The bytes between the counters are those that were written, in order, also when the
\* counters have wrapped, for every size of the pipe that divides the counters' range.
THEOREM NothingOverwritten == Spec => []UnreadIntact
BY Contained, DataForm, PTL

-----------------------------------------------------------------------------
\* Who sleeps.

\* Only sleep() puts a process to sleep.
LEMMA NewSleepers ==
    ASSUME ProcInv, NEW p \in Slot, AnyStep(p), NEW q \in Slot, NEW c, Asleep(q, c)'
    PROVE  \/ Asleep(q, c)
           \/ q = p /\ WaitSleep(p) /\ c = WaitChan(p)
           \/ q = p /\ Blocked(p) /\ c = IF pc[p] = "read_sleep" THEN ReadChan(PipeOf(p)) ELSE WriteChan(PipeOf(p))
<1>0. state \in [Slot -> States] /\ ChanOK
  BY DEF ProcInv, ProcTypeOK
<1>1. CASE WaitSleep(p)
  <2>1. chan' = [chan EXCEPT ![p] = WaitChan(p)] /\ state' = [state EXCEPT ![p] = "SLEEPING"]
    BY <1>1 DEF WaitSleep, SleepOn
  <2> QED BY <1>0, <1>1, <2>1 DEF Asleep, ChanOK
<1>2. CASE Blocked(p)
  <2>1. /\ state' = [state EXCEPT ![p] = "SLEEPING"]
        /\ chan' = [chan EXCEPT ![p] = IF pc[p] = "read_sleep" THEN ReadChan(PipeOf(p)) ELSE WriteChan(PipeOf(p))]
    BY <1>2 DEF Blocked, SleepOn
  <2> QED BY <1>0, <1>2, <2>1 DEF Asleep, ChanOK
<1>3. CASE ~WaitSleep(p) /\ ~Blocked(p)
  <2>1. \/ chan' = chan
        \/ chan' = [chan EXCEPT ![p] = NULL] /\ state[p] = "RUNNING"
    BY <1>3 DEF AnyStep, QuietStep, OpenStep, ReadStep, WriteStep, ForkStart, ExitProc, Schedule, Yield, WaitEnter,
                WaitFail, WaitNone, Reap, ForkFail, Kill, FileClose, CloseDone, ExitFiles, ForkAlloc, SysDup,
                SysClose, ReadBlocks, ReadKilled, ReadCopy, WriteFails, WriteBlocks, WriteByte, WriteDone,
                Writing, At, Return, MustWait, Resume, PipeClose, Start, SysPipe, procVars
  <2>2. state'[q] = "SLEEPING" => state[q] = "SLEEPING"
    <3>1. \/ state' = state \/ (\E d : state' = Wakeup(d))
          \/ \E r, t : t # "SLEEPING" /\ state' = [state EXCEPT ![r] = t]
          \/ ExitProc(p)
      BY <1>3 DEF AnyStep, QuietStep, OpenStep, ReadStep, WriteStep, ForkStart, Schedule, Yield, WaitEnter,
                  WaitFail, WaitNone, Reap, ForkFail, Kill, FileClose, CloseDone, ExitFiles, ForkAlloc, SysDup,
                  SysClose, ReadBlocks, ReadKilled, ReadCopy, WriteFails, WriteBlocks, WriteByte, WriteDone,
                  Return, MustWait, PipeClose, Start, SysPipe, procVars
    <3>2. CASE \E d : state' = Wakeup(d)
      BY <3>2 DEF Wakeup
    <3>3. CASE \E r, t : t # "SLEEPING" /\ state' = [state EXCEPT ![r] = t]
      BY <1>0, <3>3
    <3>4. CASE ExitProc(p)
      BY <3>4 DEF ExitProc
    <3> QED BY <3>1, <3>2, <3>3, <3>4
  <2> QED BY <1>0, <2>1, <2>2 DEF Asleep, ChanOK
<1> QED BY <1>1, <1>2, <1>3

LEMMA Chans ==
    ASSUME NEW p, NEW q, NEW pi, NEW pj
    PROVE  /\ WaitChan(p) = WaitChan(q) => p = q
           /\ ReadChan(pi) = ReadChan(pj) => pi = pj
           /\ WriteChan(pi) = WriteChan(pj) => pi = pj
           /\ WaitChan(p) # ReadChan(pi) /\ WaitChan(p) # WriteChan(pi) /\ ReadChan(pi) # WriteChan(pj)
<1>1. "wait" # "nread" /\ "wait" # "nwrite" /\ "nread" # "nwrite"
  OBVIOUS
<1> QED BY <1>1 DEF WaitChan, ReadChan, WriteChan

\* After a wakeup nobody sleeps on the channel.
LEMMA Woken ==
    ASSUME ProcInv, NEW c, state' = Wakeup(c), NEW p \in Slot, Asleep(p, c)', Asleep(p, c)
    PROVE  FALSE
BY DEF Wakeup, Asleep

\* Steps that change no parent, make or reap no zombie and do not touch wait_lock.
LEMMA WaitStay ==
    ASSUME ProcInv, WaitInv, NEW p \in Slot, AnyStep(p), ~WaitSleep(p),
           parent' = parent, waitLock' = waitLock,
           \A q \in Slot : state'[q] = "ZOMBIE" <=> state[q] = "ZOMBIE",
           \A q \in Slot : pc'[q] = "wait_sleep" => pc[q] = "wait_sleep"
    PROVE  WaitInv'
<1>1. \A q \in Slot : Children(q)' = Children(q) /\ Zombies(q)' = Zombies(q)
  BY DEF Children, Zombies
<1>2. ASSUME NEW q \in Slot, Asleep(q, WaitChan(q))' PROVE Asleep(q, WaitChan(q))
  <2>1. Asleep(q, WaitChan(q))'
    BY <1>2
  <2>2. \A d : Asleep(q, d)' <=> state'[q] = "SLEEPING" /\ chan'[q] = d
    BY DEF Asleep
  <2>3. WaitChan(q) # ReadChan(PipeOf(p)) /\ WaitChan(q) # WriteChan(PipeOf(p))
    BY Chans
  <2> QED BY <2>1, <2>3, NewSleepers DEF WaitChan
<1> QED BY <1>1, <1>2 DEF WaitInv, WaitChan

\* wait(), from the scan to the sleep.
LEMMA WaitNoneWaits ==
    ASSUME ProcInv, WaitInv, NEW p \in Slot, WaitNone(p) PROVE WaitInv'
<1>1. /\ waitLock = NULL /\ Zombies(p) = {} /\ Children(p) # {} /\ waitLock' = p
      /\ state[p] = "RUNNING" /\ pc' = [pc EXCEPT ![p] = "wait_sleep"] /\ chan' = [chan EXCEPT ![p] = NULL]
      /\ UNCHANGED <<state, parent>>
  BY DEF WaitNone, At, Resume
<1>2. pc \in [Slot -> PCs] /\ ChanOK /\ waitLock \notin Slot
  BY <1>1, SlotAssumption DEF ProcInv
<1>3. \A q \in Slot : Children(q)' = Children(q) /\ Zombies(q)' = Zombies(q)
  BY <1>1 DEF Children, Zombies
<1>4. \A q \in Slot : pc'[q] = "wait_sleep" => q = p
  BY <1>1, <1>2 DEF WaitInv
<1>5. \A q \in Slot : Asleep(q, WaitChan(q))' => Asleep(q, WaitChan(q))
  BY <1>1, <1>2 DEF Asleep, WaitChan, ChanOK
<1> QED BY <1>1, <1>3, <1>4, <1>5 DEF WaitInv

LEMMA WaitSleepWaits ==
    ASSUME ProcInv, WaitInv, NEW p \in Slot, WaitSleep(p) PROVE WaitInv'
<1>1. /\ state[p] = "RUNNING" /\ pc[p] = "wait_sleep" /\ pc' = [pc EXCEPT ![p] = "wait"]
      /\ chan' = [chan EXCEPT ![p] = WaitChan(p)] /\ state' = [state EXCEPT ![p] = "SLEEPING"]
      /\ parent' = parent
  BY DEF WaitSleep, At, SleepOn
<1>2. pc \in [Slot -> PCs] /\ ChanOK /\ state \in [Slot -> States]
  BY DEF ProcInv, ProcTypeOK
<1>3. \A q \in Slot : Children(q)' = Children(q) /\ Zombies(q)' = Zombies(q)
  <2>1. \A q \in Slot : state'[q] = "ZOMBIE" <=> state[q] = "ZOMBIE"
    BY <1>1, <1>2
  <2> QED BY <1>1, <2>1 DEF Children, Zombies
<1>4. \A q \in Slot : pc'[q] # "wait_sleep"
  <2>1. \A q \in Slot : q # p => pc[q] # "wait_sleep"
    BY <1>1 DEF WaitInv
  <2> QED BY <1>1, <1>2, <2>1
<1>5. \A q \in Slot : Asleep(q, WaitChan(q))' => Asleep(q, WaitChan(q)) \/ q = p
  BY <1>1, <1>2 DEF Asleep, WaitChan, ChanOK
<1>6. Children(p) # {} /\ Zombies(p) = {}
  BY <1>1 DEF WaitInv
<1> QED BY <1>3, <1>4, <1>5, <1>6 DEF WaitInv

\* The steps under wait_lock that change who is whose child.
LEMMA ForkStartWaits ==
    ASSUME ProcInv, WaitInv, NEW p \in Slot, ForkStart(p) PROVE WaitInv'
<1>1. /\ pc[p] = "fork" /\ waitLock = NULL /\ pc' = [pc EXCEPT ![p] = "user"]
      /\ parent' = [parent EXCEPT ![np[p]] = p] /\ state' = [state EXCEPT ![np[p]] = "RUNNABLE"]
      /\ chan' = chan
  BY DEF ForkStart, At
<1>2. /\ pc \in [Slot -> PCs] /\ state \in [Slot -> States] /\ parent \in [Slot -> Slot \cup {NULL}]
      /\ waitLock \notin Slot /\ np[p] \in Slot /\ state[np[p]] = "USED" /\ parent[np[p]] = NULL
      /\ NULL \notin Slot
  BY <1>1, SlotAssumption DEF ProcInv, ProcTypeOK
<1>3. ASSUME NEW q \in Slot PROVE Children(q) \subseteq Children(q)' /\ Zombies(q)' = Zombies(q)
  <2>1. \A r \in Slot : parent[r] = q => r # np[p] /\ parent'[r] = q
    BY <1>1, <1>2
  <2>2. \A r \in Slot : parent'[r] = q /\ state'[r] = "ZOMBIE" <=> parent[r] = q /\ state[r] = "ZOMBIE"
    BY <1>1, <1>2, <2>1
  <2> QED BY <2>1, <2>2 DEF Children, Zombies
<1>4. \A q \in Slot : pc'[q] # "wait_sleep"
  BY <1>1, <1>2 DEF WaitInv
<1>5. \A q \in Slot : Asleep(q, WaitChan(q))' => Asleep(q, WaitChan(q))
  BY <1>1, <1>2 DEF Asleep, WaitChan
<1> QED BY <1>3, <1>4, <1>5 DEF WaitInv

LEMMA ReapWaits ==
    ASSUME ProcInv, WaitInv, NEW p \in Slot, NEW q \in Slot, Reap(p, q) PROVE WaitInv'
<1>1. /\ state[p] = "RUNNING" /\ waitLock = NULL /\ pc' = [pc EXCEPT ![p] = "user"]
      /\ parent[q] = p /\ state[q] = "ZOMBIE"
      /\ parent' = [parent EXCEPT ![q] = NULL] /\ state' = [state EXCEPT ![q] = "UNUSED"]
      /\ chan' = [chan EXCEPT ![p] = NULL]
  BY DEF Reap, At, Resume, Zombies, Children
<1>2. /\ pc \in [Slot -> PCs] /\ state \in [Slot -> States] /\ parent \in [Slot -> Slot \cup {NULL}]
      /\ waitLock \notin Slot /\ NULL \notin Slot /\ ChanOK
  BY <1>1, SlotAssumption DEF ProcInv, ProcTypeOK
<1>3. ASSUME NEW r \in Slot, r # p PROVE Children(r)' = Children(r) /\ Zombies(r)' = Zombies(r)
  <2>1. \A t \in Slot : parent'[t] = r <=> parent[t] = r
    BY <1>1, <1>2, <1>3
  <2>2. \A t \in Slot : t # q => state'[t] = state[t]
    BY <1>1, <1>2
  <2> QED BY <1>1, <1>3, <2>1, <2>2 DEF Children, Zombies
<1>4. \A r \in Slot : pc'[r] # "wait_sleep"
  BY <1>1, <1>2 DEF WaitInv
<1>5. \A r \in Slot : Asleep(r, WaitChan(r))' => Asleep(r, WaitChan(r)) /\ r # p
  BY <1>1, <1>2 DEF Asleep, WaitChan, ChanOK
<1> QED BY <1>3, <1>4, <1>5 DEF WaitInv

\* exit() wakes its parent, and init if it has given it children.
LEMMA ExitWaits ==
    ASSUME ProcInv, WaitInv, NEW p \in Slot, ExitProc(p) PROVE WaitInv'
<1> DEFINE woken == (IF Children(p) # {} THEN {WaitChan(initproc)} ELSE {}) \cup {WaitChan(parent[p])}
<1>1. /\ state[p] = "RUNNING" /\ waitLock = NULL /\ pc' = [pc EXCEPT ![p] = "user"]
      /\ parent' = [q \in Slot |-> IF parent[q] = p THEN initproc ELSE parent[q]]
      /\ state' = [q \in Slot |->
                     CASE q = p -> "ZOMBIE"
                       [] q # p /\ state[q] = "SLEEPING" /\ chan[q] \in woken -> "RUNNABLE"
                       [] OTHER -> state[q]]
      /\ chan' = chan
  BY DEF ExitProc, At
<1>2. /\ pc \in [Slot -> PCs] /\ waitLock \notin Slot
  BY <1>1, SlotAssumption DEF ProcInv, ProcTypeOK
<1>3. \A r \in Slot : pc'[r] # "wait_sleep"
  BY <1>1, <1>2 DEF WaitInv
<1>4. ASSUME NEW r \in Slot, Asleep(r, WaitChan(r))'
      PROVE  /\ Asleep(r, WaitChan(r)) /\ r # p /\ r # parent[p]
             /\ r = initproc => Children(p) = {}
  <2>1. state'[r] = "SLEEPING" /\ chan[r] = WaitChan(r)
    BY <1>1, <1>4 DEF Asleep, WaitChan
  <2>2. r # p /\ state[r] = "SLEEPING" /\ chan[r] \notin woken
    BY <1>1, <2>1
  <2> QED BY <2>1, <2>2 DEF Asleep
<1>5. ASSUME NEW r \in Slot, Asleep(r, WaitChan(r))'
      PROVE  Children(r)' = Children(r) /\ Zombies(r)' = Zombies(r)
  <2>1. r # p /\ r # parent[p] /\ (r = initproc => Children(p) = {})
    BY <1>4, <1>5
  <2>2. \A t \in Slot : parent'[t] = r <=> parent[t] = r
    BY <1>1, <2>1 DEF Children
  <2>3. \A t \in Slot : t # p => (state'[t] = "ZOMBIE" <=> state[t] = "ZOMBIE")
    BY <1>1
  <2> QED BY <2>1, <2>2, <2>3 DEF Children, Zombies
<1> QED BY <1>3, <1>4, <1>5 DEF WaitInv

LEMMA WaitInvStep == ProcInv /\ WaitInv /\ [Next]_vars => WaitInv'
<1> SUFFICES ASSUME ProcInv, WaitInv, [Next]_vars PROVE WaitInv'
  OBVIOUS
<1>0. state \in [Slot -> States] /\ pc \in [Slot -> PCs] /\ parent \in [Slot -> Slot \cup {NULL}]
  BY DEF ProcInv, ProcTypeOK
<1>1. CASE UNCHANGED vars
  BY <1>1 DEF vars, procVars, WaitInv, Asleep, WaitChan, Children, Zombies
<1>2. ASSUME NEW p \in Slot, AnyStep(p) PROVE WaitInv'
  <2>1. CASE \/ WaitNone(p) \/ WaitSleep(p) \/ ForkStart(p) \/ ExitProc(p)
             \/ \E q \in Slot : Reap(p, q)
    BY <2>1, WaitNoneWaits, WaitSleepWaits, ForkStartWaits, ExitWaits, ReapWaits
  <2>2. CASE ~(\/ WaitNone(p) \/ WaitSleep(p) \/ ForkStart(p) \/ ExitProc(p)
               \/ \E q \in Slot : Reap(p, q))
    <3>1. parent' = parent /\ waitLock' = waitLock
      BY <1>2, <2>2
         DEF AnyStep, QuietStep, OpenStep, ReadStep, WriteStep, Schedule, Yield, WaitEnter, WaitFail,
             ForkFail, Kill, FileClose, CloseDone, ExitFiles, ForkAlloc, SysDup, SysClose, ReadBlocks,
             ReadKilled, ReadCopy, WriteFails, WriteBlocks, WriteByte, WriteDone, Return, MustWait,
             Blocked, PipeClose, Start, SysPipe, procVars
    <3>2. \/ state' = state \/ (\E d : state' = Wakeup(d))
          \/ \E r, t : t # "ZOMBIE" /\ state[r] # "ZOMBIE" /\ state' = [state EXCEPT ![r] = t]
      <4>1. CASE Schedule(p) \/ Yield(p, HoldsSpin(p)) \/ Blocked(p)
        BY <4>1 DEF Schedule, Yield, Blocked, At, SleepOn
      <4>2. CASE \E q \in Slot : Kill(p, q) \/ ForkAlloc(p, q)
        BY <4>2 DEF Kill, ForkAlloc, Unused
      <4>3. CASE PipeClose(p)
        BY <4>3 DEF PipeClose
      <4>4. CASE ReadStep(p) \/ WriteStep(p)
        BY <4>4 DEF ReadStep, WriteStep, ReadBlocks, ReadKilled, ReadCopy, WriteFails, WriteBlocks,
                    WriteByte, WriteDone, Return
      <4>5. CASE WaitEnter(p) \/ WaitFail(p) \/ \E q \in Slot : ForkFail(p, q)
        BY <4>5 DEF WaitEnter, WaitFail, ForkFail
      <4>6. CASE FileClose(p) \/ CloseDone(p) \/ ExitFiles(p) \/ \E d \in Fd : SysDup(p, d) \/ SysClose(p, d)
        BY <4>6 DEF FileClose, CloseDone, ExitFiles, SysDup, SysClose, procVars
      <4>7. CASE \/ \E d \in Fd, n \in 1..MaxCount, c \in {"read", "write"} : Start(p, d, n, c)
                 \/ \E f0, f1 \in File, pi \in Pipes : SysPipe(p, f0, f1, pi)
        BY <4>7 DEF Start, SysPipe
      <4> QED BY <1>2, <2>2, <4>1, <4>2, <4>3, <4>4, <4>5, <4>6, <4>7 DEF AnyStep, QuietStep, OpenStep
    <3>3. \A q \in Slot : state'[q] = "ZOMBIE" <=> state[q] = "ZOMBIE"
      BY <1>0, <3>2 DEF Wakeup
    <3>4. \/ pc' = pc
          \/ \E r, t : t # "wait_sleep" /\ pc' = [pc EXCEPT ![r] = t]
          \/ \E r, t : pc' = [pc EXCEPT ![r] = "fork", ![t] = "user"]
      <4>1. CASE Schedule(p) \/ Yield(p, HoldsSpin(p)) \/ WaitEnter(p) \/ WaitFail(p)
        BY <4>1 DEF Schedule, Yield, WaitEnter, WaitFail
      <4>2. CASE \E q \in Slot : Kill(p, q) \/ ForkAlloc(p, q) \/ ForkFail(p, q)
        BY <4>2 DEF Kill, ForkAlloc, ForkFail
      <4>3. CASE PipeClose(p) \/ FileClose(p) \/ \E d \in Fd : SysDup(p, d)
        BY <4>3 DEF PipeClose, FileClose, SysDup, procVars
      <4>4. CASE ReadStep(p) \/ WriteStep(p) \/ Blocked(p)
        <5>1. pc' = pc \/ \E t \in {"user", "read", "write", "read_sleep", "write_sleep"} : pc' = [pc EXCEPT ![p] = t]
          BY <4>4 DEF ReadStep, WriteStep, ReadBlocks, ReadKilled, ReadCopy, WriteFails, WriteBlocks,
                      WriteByte, WriteDone, Return, MustWait, Blocked, SleepOn
        <5> QED BY <5>1
      <4>5. CASE CloseDone(p) \/ ExitFiles(p) \/ \E d \in Fd : SysClose(p, d)
        <5>1. \E t \in {"user", "close", "exit_close", "exit"} : pc' = [pc EXCEPT ![p] = t]
          BY <4>5 DEF CloseDone, ExitFiles, SysClose
        <5> QED BY <5>1
      <4>6. CASE \/ \E d \in Fd, n \in 1..MaxCount, c \in {"read", "write"} : Start(p, d, n, c)
                 \/ \E f0, f1 \in File, pi \in Pipes : SysPipe(p, f0, f1, pi)
        <5>1. pc' = pc \/ \E t \in {"read", "write", "close"} : pc' = [pc EXCEPT ![p] = t]
          BY <4>6 DEF Start, SysPipe
        <5> QED BY <5>1
      <4> QED BY <1>2, <2>2, <4>1, <4>2, <4>3, <4>4, <4>5, <4>6 DEF AnyStep, QuietStep, OpenStep
    <3>5. \A q \in Slot : pc'[q] = "wait_sleep" => pc[q] = "wait_sleep"
      BY <1>0, <3>4
    <3> QED BY <1>2, <2>2, <3>1, <3>3, <3>5, WaitStay
  <2> QED BY <2>1, <2>2
<1> QED BY <1>1, <1>2, Steps

\* Who is about to sleep on a pipe, and holds its lock.
AboutTo(q) == pc[q] \in {"read_sleep", "write_sleep"}

\* A step that changes one pipe at most.
LEMMA BlockFrame ==
    ASSUME ProcInv, FileInv, UseInv, BlockInv, NEW pi0,
           \A pi \in Pipes : pi # pi0 => pipe'[pi] = pipe[pi] /\ lock'[pi] = lock[pi],
           \A pi \in Pipes, q \in Slot : pi # pi0 =>
             /\ Asleep(q, ReadChan(pi))' => Asleep(q, ReadChan(pi))
             /\ Asleep(q, WriteChan(pi))' => Asleep(q, WriteChan(pi)),
           \A q \in Slot : AboutTo(q)' =>
             \/ pc[q] = pc'[q] /\ PipeOf(q)' = PipeOf(q) /\ PipeOf(q) # pi0
             \/ pc'[q] = "read_sleep" /\ ReadReady(q)'
             \/ pc'[q] = "write_sleep" /\ WriteReady(q)',
           pi0 \in Pipes => Sleepers(pi0)'
    PROVE  BlockInv'
<1>1. ASSUME NEW pi \in Pipes PROVE Sleepers(pi)'
  <2>1. CASE pi = pi0
    BY <2>1 DEF Sleepers, Asleep, Full, ReadChan, WriteChan
  <2>2. CASE pi # pi0
    BY <2>2 DEF BlockInv, Sleepers, Full
  <2> QED BY <2>1, <2>2
<1>2. ASSUME NEW q \in Slot, pc'[q] = "read_sleep" PROVE ReadReady(q)'
  <2>1. CASE pc[q] = pc'[q] /\ PipeOf(q)' = PipeOf(q) /\ PipeOf(q) # pi0
    <3>1. ReadReady(q) /\ PipeOf(q) \in Pipes
      BY <1>2, <2>1, PipeInUse DEF BlockInv, RWs
    <3>2. pipe'[PipeOf(q)] = pipe[PipeOf(q)] /\ lock'[PipeOf(q)] = lock[PipeOf(q)]
      BY <2>1, <3>1
    <3> QED BY <2>1, <3>1, <3>2 DEF ReadReady, Empty
  <2> QED BY <1>2, <2>1 DEF AboutTo
<1>3. ASSUME NEW q \in Slot, pc'[q] = "write_sleep" PROVE WriteReady(q)'
  <2>1. CASE pc[q] = pc'[q] /\ PipeOf(q)' = PipeOf(q) /\ PipeOf(q) # pi0
    <3>1. WriteReady(q) /\ PipeOf(q) \in Pipes
      BY <1>3, <2>1, PipeInUse DEF BlockInv, RWs
    <3>2. pipe'[PipeOf(q)] = pipe[PipeOf(q)] /\ lock'[PipeOf(q)] = lock[PipeOf(q)]
      BY <2>1, <3>1
    <3>3. \A r \in Slot : ~Asleep(r, ReadChan(PipeOf(q)))'
      BY <2>1, <3>1 DEF WriteReady
    <3> QED BY <2>1, <3>1, <3>2, <3>3 DEF WriteReady, Full, Asleep, ReadChan
  <2> QED BY <1>3, <2>1 DEF AboutTo
<1> QED BY <1>1, <1>2, <1>3 DEF BlockInv

\* Nobody but its holder is about to sleep on a pipe that is locked, or not locked.
LEMMA OtherWaits ==
    ASSUME ProcInv, FileInv, UseInv, BlockInv, NEW p \in Slot, AnyStep(p),
           NEW q \in Slot, q # p, AboutTo(q)'
    PROVE  /\ pc[q] = pc'[q] /\ PipeOf(q)' = PipeOf(q) /\ PipeOf(q) \in Pipes
           /\ lock[PipeOf(q)] = q
<1>1. pc[q] = pc'[q] /\ cur'[q] = cur[q]
  BY OthersFiles, UseTypes
<1>2. pc[q] \in RWs
  BY <1>1 DEF AboutTo, RWs
<1>3. PipeOf(q)' = PipeOf(q) /\ PipeOf(q) \in Pipes
  BY <1>1, <1>2, PipeOfStays, PipeInUse
<1>4. lock[PipeOf(q)] = q
  BY <1>1 DEF AboutTo, BlockInv, ReadReady, WriteReady
<1> QED BY <1>1, <1>3, <1>4

LEMMA OldSleepers ==
    ASSUME ProcInv, NEW p \in Slot, AnyStep(p), ~Blocked(p), NEW q \in Slot, NEW pi
    PROVE  /\ Asleep(q, ReadChan(pi))' => Asleep(q, ReadChan(pi))
           /\ Asleep(q, WriteChan(pi))' => Asleep(q, WriteChan(pi))
<1>1. ASSUME NEW c, Asleep(q, c)', c # WaitChan(p) PROVE Asleep(q, c)
  BY <1>1, NewSleepers
<1>2. ReadChan(pi) # WaitChan(p) /\ WriteChan(pi) # WaitChan(p)
  BY Chans
<1>3. \A c : Asleep(q, c)' <=> state'[q] = "SLEEPING" /\ chan'[q] = c
  BY DEF Asleep
<1> QED BY <1>1, <1>2, <1>3 DEF ReadChan, WriteChan

\* Steps away from the pipes.
LEMMA QuietBlocks ==
    ASSUME ProcInv, FileInv, UseInv, BlockInv, NEW p \in Slot, AnyStep(p), ~Blocked(p),
           QuietStep(p) \/ OpenStep(p)
             \/ \E d \in Fd, n \in 1..MaxCount, c \in {"read", "write"} : Start(p, d, n, c)
    PROVE  BlockInv'
<1>0. pc \in [Slot -> PCs] /\ NULL \notin Pipes
  BY FdAssumption DEF ProcInv
<1>1. pipe' = pipe /\ lock' = lock
  BY DEF QuietStep, OpenStep, Start, pipeVars
<1>2. AboutTo(p)' => pc'[p] = pc[p] /\ cur'[p] = cur[p]
  <2>1. CASE QuietStep(p)
    <3>1. pc' = pc \/ \E s \in {"user", "wait", "wait_sleep"} : pc' = [pc EXCEPT ![p] = s]
      BY <2>1 DEF QuietStep, ForkStart, ExitProc, Schedule, Yield, WaitEnter, WaitFail,
                  WaitNone, WaitSleep, SleepOn, Reap, ForkFail, Kill
    <3> QED BY <1>0, <2>1, <3>1 DEF QuietStep, pipeVars, AboutTo
  <2>2. CASE OpenStep(p)
    <3>1. \/ pc' = pc \/ \E s \in {"user", "close", "exit_close", "exit"} : pc' = [pc EXCEPT ![p] = s]
          \/ \E q \in Slot : pc' = [pc EXCEPT ![p] = "fork", ![q] = "user"]
      BY <2>2 DEF OpenStep, FileClose, CloseDone, ExitFiles, ForkAlloc, SysDup, SysClose, procVars
    <3> QED BY <1>0, <2>2, <3>1 DEF OpenStep, pipeVars, AboutTo
  <2>3. CASE \E d \in Fd, n \in 1..MaxCount, c \in {"read", "write"} : Start(p, d, n, c)
    <3>1. \E c \in {"read", "write"} : pc' = [pc EXCEPT ![p] = c]
      BY <2>3 DEF Start
    <3> QED BY <1>0, <3>1 DEF AboutTo
  <2> QED BY <2>1, <2>2, <2>3
<1>3. ASSUME NEW q \in Slot, AboutTo(q)'
      PROVE  pc[q] = pc'[q] /\ PipeOf(q)' = PipeOf(q) /\ PipeOf(q) # NULL
  <2>1. CASE q = p
    <3>1. pc'[p] = pc[p] /\ cur'[p] = cur[p] /\ pc[p] \in RWs
      BY <1>2, <1>3, <2>1 DEF AboutTo, RWs
    <3> QED BY <1>0, <2>1, <3>1, PipeOfStays, PipeInUse
  <2>2. CASE q # p
    BY <1>0, <1>3, <2>2, OtherWaits
  <2> QED BY <2>1, <2>2
<1> QED BY <1>0, <1>1, <1>3, OldSleepers, BlockFrame

\* A new pipe: while its page was free nobody used it.
LEMMA SysPipeBlocks ==
    ASSUME ProcInv, FileInv, UseInv, EndInv, BlockInv, NEW p \in Slot, AnyStep(p), ~Blocked(p),
           NEW f0 \in File, NEW f1 \in File, NEW pi \in Pipes, SysPipe(p, f0, f1, pi)
    PROVE  BlockInv'
<1>1. /\ ~pipe[pi].used /\ pc[p] = "user" /\ (pc' = pc \/ pc' = [pc EXCEPT ![p] = "close"])
      /\ \E b : pipe' = [pipe EXCEPT ![pi] = b]
      /\ lock' = lock
  BY DEF SysPipe, Enter, At
<1>2. \A pj \in Pipes : pj # pi => pipe'[pj] = pipe[pj] /\ lock'[pj] = lock[pj]
  BY <1>1 DEF EndInv
<1>3. ~pipe[pi].readopen /\ ~pipe[pi].writeopen
  BY <1>1 DEF EndInv
<1>4. ASSUME NEW q \in Slot, AboutTo(q)'
      PROVE  pc[q] = pc'[q] /\ PipeOf(q)' = PipeOf(q) /\ PipeOf(q) # pi
  <2>1. q # p
    BY <1>1, <1>4 DEF AboutTo, ProcInv
  <2>2. pc[q] = pc'[q] /\ PipeOf(q)' = PipeOf(q)
    BY <1>4, <2>1, OtherWaits
  <2>3. pipe[PipeOf(q)].readopen \/ pipe[PipeOf(q)].writeopen
    BY <1>4, <2>2 DEF AboutTo, BlockInv, ReadReady, WriteReady
  <2> QED BY <1>3, <2>2, <2>3
<1>5. \A q \in Slot : ~Asleep(q, ReadChan(pi))' /\ ~Asleep(q, WriteChan(pi))'
  <2>1. \A q \in Slot : ~Asleep(q, ReadChan(pi)) /\ ~Asleep(q, WriteChan(pi))
    BY <1>3 DEF BlockInv, Sleepers
  <2> QED BY <2>1, OldSleepers
<1>6. Sleepers(pi)'
  BY <1>5 DEF Sleepers, Asleep, ReadChan, WriteChan
<1> QED BY <1>2, <1>4, <1>6, OldSleepers, BlockFrame

\* The end of a pipe closes: who waits for the other side is woken.
LEMMA PipeCloseBlocks ==
    ASSUME ProcInv, FileInv, UseInv, EndInv, BlockInv, NEW p \in Slot, AnyStep(p), ~Blocked(p), PipeClose(p)
    PROVE  BlockInv'
<1>0. PICK pi \in Pipes, end \in BOOLEAN : pi = ff[p].pipe /\ end = ff[p].writable
  <2>1. ff[p].pipe # NULL
    BY DEF PipeClose
  <2> QED BY <2>1 DEF FileInv, FileShape, FileTypeOK, Entry
<1> DEFINE after == [pipe[pi] EXCEPT !.writeopen = @ /\ ~end, !.readopen = @ /\ end]
<1>1. /\ lock[pi] = NULL /\ lock' = lock /\ pc' = pc /\ pc[p] \in {"close", "exit_close"}
      /\ pipe' = [pipe EXCEPT ![pi] = IF after.readopen \/ after.writeopen THEN after ELSE NoPipe]
      /\ state' = Wakeup(IF end THEN ReadChan(pi) ELSE WriteChan(pi))
  BY <1>0 DEF PipeClose, Closing, At
<1>2. pipe \in [Pipes -> Contents] /\ NULL \notin Slot
  BY SlotAssumption DEF EndInv
<1>3. \A pj \in Pipes : pj # pi => pipe'[pj] = pipe[pj] /\ lock'[pj] = lock[pj]
  BY <1>1, <1>2
<1>4. /\ after.nread = pipe[pi].nread /\ after.nwrite = pipe[pi].nwrite
      /\ (after.writeopen <=> pipe[pi].writeopen /\ ~end) /\ (after.readopen <=> pipe[pi].readopen /\ end)
  BY <1>2 DEF Contents
<1> HIDE DEF after
<1>5. after.readopen \/ after.writeopen => pipe'[pi] = after
  BY <1>1, <1>2
<1>6. ASSUME NEW q \in Slot, AboutTo(q)'
      PROVE  pc[q] = pc'[q] /\ PipeOf(q)' = PipeOf(q) /\ PipeOf(q) # pi
  <2>1. q # p
    BY <1>1, <1>6 DEF AboutTo
  <2> QED BY <1>1, <1>2, <1>6, <2>1, OtherWaits
<1>7. ASSUME NEW q \in Slot, Asleep(q, WriteChan(pi))'
      PROVE  Asleep(q, WriteChan(pi)) /\ end /\ pipe'[pi].readopen /\ Full(pi)'
  <2>1. Asleep(q, WriteChan(pi))
    BY <1>7, OldSleepers DEF Asleep, WriteChan
  <2>2. end
    <3>1. ~end => state' = Wakeup(WriteChan(pi))
      BY <1>1
    <3> QED BY <1>7, <2>1, <3>1 DEF Wakeup, Asleep, WriteChan
  <2>3. pipe[pi].readopen /\ Full(pi)
    BY <1>2, <2>1 DEF BlockInv, Sleepers
  <2> QED BY <1>4, <1>5, <2>1, <2>2, <2>3 DEF Full
<1>8. ASSUME NEW q \in Slot, Asleep(q, ReadChan(pi))'
      PROVE  Asleep(q, ReadChan(pi)) /\ ~end /\ pipe'[pi].writeopen
  <2>1. Asleep(q, ReadChan(pi))
    BY <1>8, OldSleepers DEF Asleep, ReadChan
  <2>2. ~end
    <3>1. end => state' = Wakeup(ReadChan(pi))
      BY <1>1
    <3> QED BY <1>8, <2>1, <3>1 DEF Wakeup, Asleep, ReadChan
  <2>3. pipe[pi].writeopen
    BY <1>2, <2>1 DEF BlockInv, Sleepers
  <2> QED BY <1>4, <1>5, <2>1, <2>2, <2>3
<1>9. Sleepers(pi)'
  BY <1>7, <1>8 DEF Sleepers, Asleep, Full, WriteChan, ReadChan
<1> QED BY <1>3, <1>6, <1>9, OldSleepers, BlockFrame

\* Reading and writing, by whoever may take or holds the pipe's lock.
LEMMA ReadWriteFrame ==
    ASSUME ProcInv, FileInv, UseInv, EndInv, BlockInv, NEW p \in Slot, AnyStep(p), ~Blocked(p),
           NEW pi \in Pipes, lock[pi] \in {NULL, p},
           \E b : pipe' = [pipe EXCEPT ![pi] = b],
           \E l : lock' = [lock EXCEPT ![pi] = l],
           AboutTo(p)' => \/ pc'[p] = "read_sleep" /\ ReadReady(p)'
                          \/ pc'[p] = "write_sleep" /\ WriteReady(p)',
           Sleepers(pi)'
    PROVE  BlockInv'
<1>1. \A pj \in Pipes : pj # pi => pipe'[pj] = pipe[pj] /\ lock'[pj] = lock[pj]
  BY DEF EndInv, UseInv
<1>2. ASSUME NEW q \in Slot, AboutTo(q)', q # p
      PROVE  pc[q] = pc'[q] /\ PipeOf(q)' = PipeOf(q) /\ PipeOf(q) # pi
  <2>1. lock[PipeOf(q)] = q /\ NULL \notin Slot /\ pc[q] = pc'[q] /\ PipeOf(q)' = PipeOf(q)
    BY <1>2, OtherWaits, SlotAssumption
  <2> QED BY <1>2, <2>1
<1> QED BY <1>1, <1>2, OldSleepers, BlockFrame

LEMMA SleepersStay ==
    ASSUME ProcInv, BlockInv, NEW p \in Slot, AnyStep(p), ~Blocked(p), NEW pi \in Pipes, pipe'[pi] = pipe[pi]
    PROVE  Sleepers(pi)'
<1>1. \A q \in Slot : /\ Asleep(q, ReadChan(pi))' => Asleep(q, ReadChan(pi))
                      /\ Asleep(q, WriteChan(pi))' => Asleep(q, WriteChan(pi))
  BY OldSleepers
<1>2. Sleepers(pi)
  BY DEF BlockInv
<1> QED BY <1>1, <1>2 DEF Sleepers, Full

LEMMA ReadBlocksOK ==
    ASSUME ProcInv, FileInv, UseInv, EndInv, BlockInv, NEW p \in Slot, AnyStep(p), ~Blocked(p), ReadStep(p)
    PROVE  BlockInv'
<1>0. PICK pi \in Pipes : pi = PipeOf(p) /\ pc[p] = "read" /\ lock[pi] = NULL
  <2>1. pc[p] = "read" /\ lock[PipeOf(p)] = NULL
    BY DEF ReadStep, ReadBlocks, ReadKilled, ReadCopy, At
  <2> QED BY <2>1, PipeInUse DEF RWs
<1>1. pc \in [Slot -> PCs] /\ pipe \in [Pipes -> Contents] /\ lock \in [Pipes -> Slot \cup {NULL}]
  BY DEF ProcInv, EndInv, UseInv
<1>2. CASE ReadBlocks(p)
  <2>1. /\ pipe' = pipe /\ lock' = [lock EXCEPT ![pi] = p] /\ pc' = [pc EXCEPT ![p] = "read_sleep"]
        /\ Empty(pi) /\ pipe[pi].writeopen /\ UNCHANGED <<cur, ftable>>
    BY <1>0, <1>2 DEF ReadBlocks, ReadWaits, MustWait, fileVars
  <2>2. PipeOf(p)' = pi
    BY <1>0, <2>1 DEF PipeOf
  <2>3. ReadReady(p)' /\ pc'[p] = "read_sleep"
    BY <1>1, <2>1, <2>2 DEF ReadReady, Empty
  <2>4. Sleepers(pi)'
    BY <2>1, SleepersStay
  <2>5. pipe' = [pipe EXCEPT ![pi] = pipe[pi]]
    BY <1>1, <2>1
  <2> QED BY <1>0, <2>1, <2>3, <2>4, <2>5, ReadWriteFrame
<1>3. CASE ReadKilled(p)
  <2>1. /\ pipe' = [pipe EXCEPT ![pi] = pipe[pi]] /\ lock' = [lock EXCEPT ![pi] = NULL]
        /\ pc' = [pc EXCEPT ![p] = "user"]
    BY <1>0, <1>3 DEF ReadKilled, Return
  <2>2. Sleepers(pi)'
    BY <1>1, <2>1, SleepersStay
  <2>3. ~AboutTo(p)'
    BY <1>1, <2>1 DEF AboutTo
  <2> QED BY <1>0, <2>1, <2>2, <2>3, ReadWriteFrame
<1>4. CASE ReadCopy(p)
  <2>1. /\ \E b : pipe' = [pipe EXCEPT ![pi] = b]
        /\ lock' = [lock EXCEPT ![pi] = NULL]
        /\ pc' = [pc EXCEPT ![p] = "user"] /\ state' = Wakeup(WriteChan(pi))
    <3>1. PICK b : Return(p, b, WriteChan(pi))
      BY <1>0, <1>4 DEF ReadCopy
    <3>2. state' = Wakeup(WriteChan(pi))
      BY <3>1, ChanAssumption DEF Return
    <3> QED BY <1>0, <3>1, <3>2 DEF Return
  <2>2. pipe'[pi].writeopen = pipe[pi].writeopen
    BY <1>0, <1>4, ReadWritePipe DEF ReadStep
  <2>3. \A q \in Slot : ~Asleep(q, WriteChan(pi))'
    <3>1. \A q \in Slot : Asleep(q, WriteChan(pi))' => Asleep(q, WriteChan(pi))
      BY OldSleepers
    <3> QED BY <2>1, <3>1 DEF Asleep, Wakeup, WriteChan
  <2>4. \A q \in Slot : Asleep(q, ReadChan(pi))' => pipe'[pi].writeopen
    BY <2>2, OldSleepers DEF BlockInv, Sleepers
  <2>5. Sleepers(pi)'
    BY <2>3, <2>4 DEF Sleepers, Asleep, WriteChan, ReadChan
  <2>6. ~AboutTo(p)'
    BY <1>1, <2>1 DEF AboutTo
  <2> QED BY <1>0, <2>1, <2>5, <2>6, ReadWriteFrame
<1> QED BY <1>2, <1>3, <1>4 DEF ReadStep

LEMMA WriteBlocksOK ==
    ASSUME ProcInv, FileInv, UseInv, EndInv, BlockInv, NEW p \in Slot, AnyStep(p), ~Blocked(p), WriteStep(p)
    PROVE  BlockInv'
<1>0. PICK pi \in Pipes : pi = PipeOf(p) /\ pc[p] = "write" /\ lock[pi] \in {NULL, p}
  <2>1. pc[p] = "write" /\ lock[PipeOf(p)] \in {NULL, p}
    BY DEF WriteStep, WriteFails, WriteBlocks, WriteByte, WriteDone, Writing, At
  <2> QED BY <2>1, PipeInUse DEF RWs
<1>1. pc \in [Slot -> PCs] /\ pipe \in [Pipes -> Contents] /\ lock \in [Pipes -> Slot \cup {NULL}]
  BY DEF ProcInv, EndInv, UseInv
<1>2. CASE WriteBlocks(p)
  <2>1. /\ pipe' = pipe /\ lock' = [lock EXCEPT ![pi] = p] /\ pc' = [pc EXCEPT ![p] = "write_sleep"]
        /\ Full(pi) /\ pipe[pi].readopen /\ UNCHANGED <<cur, ftable>> /\ state' = Wakeup(ReadChan(pi))
    BY <1>0, <1>2 DEF WriteBlocks, WriteStops, MustWait, fileVars
  <2>2. PipeOf(p)' = pi
    BY <1>0, <2>1 DEF PipeOf
  <2>3. \A q \in Slot : ~Asleep(q, ReadChan(pi))'
    <3>1. \A q \in Slot : Asleep(q, ReadChan(pi))' => Asleep(q, ReadChan(pi))
      BY OldSleepers
    <3> QED BY <2>1, <3>1 DEF Asleep, Wakeup, ReadChan
  <2>4. WriteReady(p)' /\ pc'[p] = "write_sleep"
    BY <1>1, <2>1, <2>2, <2>3 DEF WriteReady, Full, Asleep, ReadChan
  <2>5. Sleepers(pi)'
    BY <2>1, SleepersStay
  <2>6. pipe' = [pipe EXCEPT ![pi] = pipe[pi]]
    BY <1>1, <2>1
  <2> QED BY <1>0, <2>1, <2>4, <2>5, <2>6, ReadWriteFrame
<1>3. CASE WriteFails(p) \/ WriteDone(p)
  <2>1. /\ pipe' = [pipe EXCEPT ![pi] = pipe[pi]] /\ lock' = [lock EXCEPT ![pi] = NULL]
        /\ pc' = [pc EXCEPT ![p] = "user"]
    BY <1>0, <1>3 DEF WriteFails, WriteDone, Return
  <2>2. Sleepers(pi)'
    BY <1>1, <2>1, SleepersStay
  <2>3. ~AboutTo(p)'
    BY <1>1, <2>1 DEF AboutTo
  <2> QED BY <1>0, <2>1, <2>2, <2>3, ReadWriteFrame
<1>4. CASE WriteByte(p)
  <2>1. /\ pipe' = [pipe EXCEPT ![pi] = Put(pipe[pi])] /\ lock' = [lock EXCEPT ![pi] = p]
        /\ pc' = pc /\ ~Full(pi)
    BY <1>0, <1>1, <1>4 DEF WriteByte
  <2>2. pipe'[pi].writeopen = pipe[pi].writeopen
    BY <1>0, <1>4, ReadWritePipe DEF WriteStep
  <2>3. \A q \in Slot : ~Asleep(q, WriteChan(pi))'
    <3>1. \A q \in Slot : ~Asleep(q, WriteChan(pi))
      BY <2>1 DEF BlockInv, Sleepers
    <3> QED BY <3>1, OldSleepers
  <2>4. \A q \in Slot : Asleep(q, ReadChan(pi))' => pipe'[pi].writeopen
    BY <2>2, OldSleepers DEF BlockInv, Sleepers
  <2>5. Sleepers(pi)'
    BY <2>3, <2>4 DEF Sleepers, Asleep, WriteChan, ReadChan
  <2>6. ~AboutTo(p)'
    BY <1>0, <2>1 DEF AboutTo
  <2> QED BY <1>0, <2>1, <2>5, <2>6, ReadWriteFrame
<1> QED BY <1>2, <1>3, <1>4 DEF WriteStep

\* The sleep itself: the pipe has not changed since it was found empty, or full.
LEMMA BlockedOK ==
    ASSUME ProcInv, FileInv, UseInv, EndInv, BlockInv, NEW p \in Slot, AnyStep(p), Blocked(p)
    PROVE  BlockInv'
<1>0. PICK pi \in Pipes : pi = PipeOf(p) /\ AboutTo(p) /\ lock[pi] = p
  <2>1. AboutTo(p)
    BY DEF Blocked, At, AboutTo
  <2>2. PipeOf(p) \in Pipes /\ lock[PipeOf(p)] = p
    BY <2>1, PipeInUse DEF AboutTo, RWs, BlockInv, ReadReady, WriteReady
  <2> QED BY <2>1, <2>2
<1>1. pc \in [Slot -> PCs] /\ pipe \in [Pipes -> Contents] /\ lock \in [Pipes -> Slot \cup {NULL}]
  BY DEF ProcInv, EndInv, UseInv
<1>2. /\ pipe' = pipe /\ lock' = [lock EXCEPT ![pi] = NULL]
      /\ \E s \in {"read", "write"} : pc' = [pc EXCEPT ![p] = s]
  BY <1>0 DEF Blocked, SleepOn
<1>3. ASSUME NEW q \in Slot, NEW c, Asleep(q, c)'
      PROVE  Asleep(q, c) \/ (q = p /\ (c = WaitChan(p) \/ c = IF pc[p] = "read_sleep" THEN ReadChan(pi) ELSE WriteChan(pi)))
  BY <1>0, <1>3, NewSleepers
<1>4. ASSUME NEW q \in Slot, NEW pj \in Pipes
      PROVE  /\ Asleep(q, ReadChan(pj))' => Asleep(q, ReadChan(pj)) \/ (pj = pi /\ pc[p] = "read_sleep")
             /\ Asleep(q, WriteChan(pj))' => Asleep(q, WriteChan(pj)) \/ (pj = pi /\ pc[p] = "write_sleep")
  <2>1. Asleep(q, ReadChan(pj))' => Asleep(q, ReadChan(pj)) \/ (pj = pi /\ pc[p] = "read_sleep")
    <3>1. ReadChan(pj) # WaitChan(p) /\ ReadChan(pj) # WriteChan(pi) /\ (ReadChan(pj) = ReadChan(pi) => pj = pi)
      BY Chans
    <3>2. \A c : Asleep(q, c)' <=> state'[q] = "SLEEPING" /\ chan'[q] = c
      BY DEF Asleep
    <3> QED BY <1>3, <3>1, <3>2 DEF ReadChan
  <2>2. Asleep(q, WriteChan(pj))' => Asleep(q, WriteChan(pj)) \/ (pj = pi /\ pc[p] = "write_sleep")
    <3>1. WriteChan(pj) # WaitChan(p) /\ WriteChan(pj) # ReadChan(pi) /\ (WriteChan(pj) = WriteChan(pi) => pj = pi)
      BY Chans
    <3>2. \A c : Asleep(q, c)' <=> state'[q] = "SLEEPING" /\ chan'[q] = c
      BY DEF Asleep
    <3> QED BY <1>0, <1>3, <3>1, <3>2 DEF WriteChan, AboutTo
  <2> QED BY <2>1, <2>2
<1>5. \A pj \in Pipes : pj # pi => pipe'[pj] = pipe[pj] /\ lock'[pj] = lock[pj]
  BY <1>1, <1>2
<1>6. ASSUME NEW q \in Slot, AboutTo(q)'
      PROVE  pc[q] = pc'[q] /\ PipeOf(q)' = PipeOf(q) /\ PipeOf(q) # pi
  <2>1. q # p
    BY <1>1, <1>2, <1>6 DEF AboutTo
  <2> QED BY <1>0, <1>6, <2>1, OtherWaits
<1>7. Sleepers(pi)'
  <2>0. Sleepers(pi)
    BY DEF BlockInv
  <2>1. CASE pc[p] = "read_sleep"
    <3>1. Empty(pi) /\ pipe[pi].writeopen
      BY <1>0, <2>1 DEF BlockInv, ReadReady
    <3>2. ~Full(pi)
      <4>1. pipe[pi].nread \in Counter /\ PIPESIZE \in 0..UINT /\ PIPESIZE \in Nat \ {0} /\ UINT \in Nat /\ PIPESIZE < UINT
        BY <1>1, PipeAssumption DEF Contents
      <4> DEFINE r == pipe[pi].nread
      <4>2. (r + PIPESIZE) % UINT = IF r + PIPESIZE < UINT THEN r + PIPESIZE ELSE r + PIPESIZE - UINT
        BY <4>1, SumForm
      <4>3. r \in Nat
        BY <4>1 DEF Counter
      <4> HIDE DEF r
      <4>4. r # (r + PIPESIZE) % UINT
        BY <4>1, <4>2, <4>3
      <4> QED BY <3>1, <4>4 DEF r, Full, Empty
    <3>3. \A q \in Slot : ~Asleep(q, WriteChan(pi))'
      BY <1>4, <2>0, <2>1, <3>2 DEF Sleepers
    <3> QED BY <1>2, <3>1, <3>3 DEF Sleepers, Asleep, WriteChan
  <2>2. CASE pc[p] = "write_sleep"
    <3>1. /\ Full(pi) /\ pipe[pi].readopen
          /\ \A q \in Slot : ~Asleep(q, ReadChan(pi))
      BY <1>0, <2>2 DEF BlockInv, WriteReady
    <3>2. \A q \in Slot : ~Asleep(q, ReadChan(pi))'
      BY <1>4, <2>2, <3>1
    <3> QED BY <1>2, <3>1, <3>2 DEF Sleepers, Asleep, ReadChan, Full
  <2> QED BY <1>0, <2>1, <2>2 DEF AboutTo
<1> QED BY <1>4, <1>5, <1>6, <1>7, BlockFrame

LEMMA BlockInvStep == ProcInv /\ FileInv /\ UseInv /\ EndInv /\ BlockInv /\ [Next]_vars => BlockInv'
<1> SUFFICES ASSUME ProcInv, FileInv, UseInv, EndInv, BlockInv, [Next]_vars PROVE BlockInv'
  OBVIOUS
<1>1. CASE UNCHANGED vars
  BY <1>1 DEF vars, procVars, fileVars, pipeVars, BlockInv, ReadReady, WriteReady, Sleepers, Asleep,
              Full, Empty, PipeOf
<1>2. ASSUME NEW p \in Slot, AnyStep(p) PROVE BlockInv'
  <2>1. CASE Blocked(p)
    BY <1>2, <2>1, BlockedOK
  <2>2. CASE ~Blocked(p)
    BY <1>2, <2>2, QuietBlocks, ReadBlocksOK, WriteBlocksOK, PipeCloseBlocks, SysPipeBlocks DEF AnyStep
  <2> QED BY <2>1, <2>2
<1> QED BY <1>1, <1>2, Steps

LEMMA SleepInit == Init => WaitInv /\ BlockInv
<1> SUFFICES ASSUME Init PROVE WaitInv /\ BlockInv
  OBVIOUS
<1>1. \A p \in Slot : pc[p] = "user" /\ state[p] # "SLEEPING"
  BY DEF Init, ProcInit
<1> QED BY <1>1 DEF WaitInv, BlockInv, Sleepers, Asleep

LEMMA SleepForm == WaitInv /\ BlockInv => SleepersHaveReason
BY DEF WaitInv, BlockInv, Sleepers, SleepersHaveReason

\* Whoever sleeps in wait(), piperead() or pipewrite() had a reason to when it let go of
\* the lock, and the reason has not gone since without a wakeup().
THEOREM Waiting == Spec => [](WaitInv /\ BlockInv)
<1>1. Init => ProcInv /\ FileInv /\ UseInv /\ EndInv /\ WaitInv /\ BlockInv
  BY ProcInvInit, FileInvInit, UseInvInit, EndInvInit, SleepInit
<1>2. ProcInv /\ FileInv /\ UseInv /\ EndInv /\ WaitInv /\ BlockInv /\ [Next]_vars
        => (ProcInv /\ FileInv /\ UseInv /\ EndInv /\ WaitInv /\ BlockInv)'
  BY ProcInvStep, FileInvStep, UseInvStep, EndInvStep, WaitInvStep, BlockInvStep
<1> QED BY <1>1, <1>2, PTL DEF Spec

\* No wakeup is lost.  Who sleeps in wait() has a child and no dead one, who sleeps writing
\* has a full pipe that may still be read, who sleeps reading has a writer that does not
\* sleep itself, in every interleaving of any number of processes on any number of CPUs.
THEOREM NobodySleepsPast == Spec => []SleepersHaveReason
BY Waiting, SleepForm, PTL
====
