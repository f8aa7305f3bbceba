---- MODULE Disk ----
(***************************************************************************)
(* xv6: the buffer cache and the disk driver below it.  Processes get a    *)
(* block's buffer, sleep for its lock, for descriptors and for the disk,   *)
(* change it, write it and release it; the disk serves requests in any     *)
(* order and interrupts.  An action is what is done without giving up the  *)
(* spin lock: bcache.lock, the sleep lock's, or vdisk_lock.                *)
(***************************************************************************)
EXTENDS Naturals, Sequences, FiniteSets, SequencesExt, FiniteSetsExt

CONSTANTS Proc, Buf, Block,
          Changing, \* bound: the blocks that are ever changed
          MaxPinned,
          NUM,      \* the lengths that the disk's queue may have
          NULL

VARIABLES buf,      \* buffer -> block, valid, refcnt, disk (the disk has it), data
          lru,      \* the list of buffers: the first is the one released last
          locked,   \* buffer -> the process that has its sleep lock, or NULL
          pinned,   \* buffers that log_write() has pinned
          pc,       \* process -> where it is in bread(), bwrite() or brelse()
          asleep,   \* process -> the channel it sleeps on, or NULL
          b,        \* process -> the buffer it works on
          write,    \* process -> its request is a write
          free,     \* disk.free: the free descriptors
          next,     \* descriptor -> the next of its chain, or NULL
          info,     \* descriptor -> info[].b, the buffer of the request that begins there
          avail,    \* requests given to the disk
          used,     \* requests done by the disk that the driver has not seen
          disk,     \* block -> what the disk has
          latest,   \* block -> what was last put in its buffer
          panic     \* the kernel has stopped

bufVars    == <<buf, lru, locked, pinned>>
procVars   == <<pc, asleep, b, write>>
driverVars == <<free, next, info>>
deviceVars == <<avail, used, disk>>
diskVars   == <<bufVars, procVars, driverVars, deviceVars, latest, panic>>

Desc == UNION {1..k : k \in NUM}
Data == 0..1

\* Channels: a buffer's lock, a buffer at the disk, the free descriptors.
LockOf(x) == <<"lock", x>>
DoneOf(x) == <<"done", x>>
FreeDesc  == <<"free">>

\* NULL is none of the values it stands beside.
DiskAssumption ==
    /\ IsFiniteSet(Proc) /\ IsFiniteSet(Buf) /\ NUM \subseteq Nat
    /\ NULL \notin Proc /\ NULL \notin Buf /\ NULL \notin Block /\ NULL \notin Nat
    /\ NULL # FreeDesc /\ \A x \in Buf : NULL # LockOf(x) /\ NULL # DoneOf(x)

Wakeup(S) == asleep' = [p \in Proc |-> IF asleep[p] \in S THEN NULL ELSE asleep[p]]
SleepOn(p, c) == asleep' = [asleep EXCEPT ![p] = c]
At(p, s) == pc[p] = s /\ asleep[p] = NULL /\ ~panic
Goto(p, s) == pc' = [pc EXCEPT ![p] = s]

DiskInit ==
    /\ buf = [x \in Buf |-> [block |-> NULL, valid |-> FALSE, refcnt |-> 0, disk |-> FALSE, data |-> 0]]
    /\ lru = SetToSeq(Buf) /\ locked = [x \in Buf |-> NULL] /\ pinned = {}
    /\ pc = [p \in Proc |-> "idle"] /\ asleep = [p \in Proc |-> NULL]
    /\ b = [p \in Proc |-> NULL] /\ write = [p \in Proc |-> FALSE]
    /\ free \in {1..k : k \in NUM} /\ next = [i \in Desc |-> NULL] /\ info = [i \in Desc |-> NULL]
    /\ avail = {} /\ used = <<>>
    /\ disk = [k \in Block |-> 0] /\ latest = [k \in Block |-> 0] /\ panic = FALSE
-----------------------------------------------------------------------------
\* bio.c

\* bget(): the buffer that has the block, or the one unused for longest.  Without an unused
\* buffer the kernel panics, and nothing happens any more.
Unused == {x \in Buf : buf[x].refcnt = 0}
Oldest == lru[Max({i \in DOMAIN lru : lru[i] \in Unused})]

\* brelse() moves a buffer to the head of the list.
ToFront(x) == [i \in DOMAIN lru |->
    IF i = 1 THEN x ELSE IF \E j \in 1..(i - 1) : lru[j] = x THEN lru[i] ELSE lru[i - 1]]

BgetCached(p, k) ==
    /\ At(p, "idle")
    /\ \E x \in Buf : /\ buf[x].block = k
                      /\ buf' = [buf EXCEPT ![x].refcnt = @ + 1]
                      /\ b' = [b EXCEPT ![p] = x]
    /\ Goto(p, "lock")
    /\ UNCHANGED <<lru, locked, pinned, asleep, write, driverVars, deviceVars, latest, panic>>

\* As a mutant: the recycled buffer stays valid.
BgetRecyclesValid(p, k) ==
    /\ At(p, "idle") /\ \A x \in Buf : buf[x].block # k
    /\ Unused # {}
    /\ buf' = [buf EXCEPT ![Oldest] = [@ EXCEPT !.block = k, !.refcnt = 1]]
    /\ b' = [b EXCEPT ![p] = Oldest] /\ Goto(p, "lock")
    /\ UNCHANGED <<lru, locked, pinned, asleep, write, driverVars, deviceVars, latest, panic>>

BgetRecycles(p, k) ==
    /\ At(p, "idle") /\ \A x \in Buf : buf[x].block # k
    /\ Unused # {}
    /\ buf' = [buf EXCEPT ![Oldest] = [block |-> k, valid |-> FALSE, refcnt |-> 1,
                                       disk |-> @.disk, data |-> @.data]]
    /\ b' = [b EXCEPT ![p] = Oldest] /\ Goto(p, "lock")
    /\ UNCHANGED <<lru, locked, pinned, asleep, write, driverVars, deviceVars, latest, panic>>

\* acquiresleep(); then bread() reads the block if the buffer does not have it yet.
Lock(p) ==
    /\ At(p, "lock")
    /\ IF locked[b[p]] # NULL THEN SleepOn(p, LockOf(b[p])) /\ UNCHANGED <<locked, pc, write>>
       ELSE /\ locked' = [locked EXCEPT ![b[p]] = p]
            /\ IF buf[b[p]].valid THEN Goto(p, "hold") /\ UNCHANGED write
               ELSE Goto(p, "rw") /\ write' = [write EXCEPT ![p] = FALSE]
            /\ UNCHANGED asleep
    /\ UNCHANGED <<buf, lru, pinned, b, driverVars, deviceVars, latest, panic>>

\* The caller changes the block, and log_write() pins the buffer.  Bound: MaxPinned
\* buffers.
Change(p) ==
    /\ At(p, "hold") /\ buf[b[p]].block \in Changing
    /\ b[p] \in pinned \/ Cardinality(pinned) < MaxPinned
    /\ \E d \in Data \ {buf[b[p]].data} :
         /\ buf' = [buf EXCEPT ![b[p]].data = d,
                               ![b[p]].refcnt = IF b[p] \in pinned THEN @ ELSE @ + 1]
         /\ latest' = [latest EXCEPT ![buf[b[p]].block] = d]
    /\ pinned' = pinned \cup {b[p]}
    /\ UNCHANGED <<lru, locked, procVars, driverVars, deviceVars, panic>>

\* The log changes its own blocks, and writes them at once.
ChangeLog(p) ==
    /\ At(p, "hold") /\ b[p] \notin pinned /\ buf[b[p]].block \in Changing
    /\ \E d \in Data \ {buf[b[p]].data} :
         /\ buf' = [buf EXCEPT ![b[p]].data = d]
         /\ latest' = [latest EXCEPT ![buf[b[p]].block] = d]
    /\ Goto(p, "rw") /\ write' = [write EXCEPT ![p] = TRUE]
    /\ UNCHANGED <<lru, locked, pinned, asleep, b, driverVars, deviceVars, panic>>

\* install_trans() writes a pinned buffer with bwrite().
Bwrite(p) ==
    /\ At(p, "hold") /\ b[p] \in pinned
    /\ Goto(p, "rw") /\ write' = [write EXCEPT ![p] = TRUE]
    /\ UNCHANGED <<bufVars, asleep, b, driverVars, deviceVars, latest, panic>>

\* brelse(): releasesleep(), then the reference.
Unlock(p) ==
    /\ At(p, "hold") /\ Goto(p, "release")
    /\ locked' = [locked EXCEPT ![b[p]] = NULL] /\ Wakeup({LockOf(b[p])})
    /\ UNCHANGED <<buf, lru, pinned, b, write, driverVars, deviceVars, latest, panic>>

Release(p) ==
    /\ At(p, "release") /\ Goto(p, "idle")
    /\ buf' = [buf EXCEPT ![b[p]].refcnt = @ - 1]
    /\ lru' = IF buf[b[p]].refcnt = 1 THEN ToFront(b[p]) ELSE lru
    /\ b' = [b EXCEPT ![p] = NULL]
    /\ UNCHANGED <<locked, pinned, asleep, write, driverVars, deviceVars, latest, panic>>
-----------------------------------------------------------------------------
\* virtio_disk.c

\* The three lowest descriptors.
Three == LET x == Min(free) y == Min(free \ {x}) IN <<x, y, Min(free \ {x, y})>>

\* virtio_disk_rw() up to the sleep that waits for the disk.  When alloc3_desc() fails it
\* gives back what it got, and that wakes the others that wait for descriptors.
Submit(p) ==
    /\ At(p, "rw")
    /\ IF Cardinality(free) < 3
       THEN /\ asleep' = [q \in Proc |-> IF q = p THEN FreeDesc
                                         ELSE IF free # {} /\ asleep[q] = FreeDesc THEN NULL ELSE asleep[q]]
            /\ UNCHANGED <<free, next, info, buf, avail, pc>>
       ELSE LET i == Three IN
            /\ free' = free \ ToSet(i)
            /\ next' = [next EXCEPT ![i[1]] = i[2], ![i[2]] = i[3], ![i[3]] = NULL]
            /\ info' = [info EXCEPT ![i[1]] = b[p]]
            /\ buf' = [buf EXCEPT ![b[p]].disk = TRUE]
            /\ avail' = avail \cup {[id |-> i[1], write |-> write[p], block |-> buf[b[p]].block]}
            /\ SleepOn(p, DoneOf(b[p])) /\ Goto(p, "io")
    /\ UNCHANGED <<lru, locked, pinned, b, write, used, disk, latest, panic>>

\* free_chain()
Chain(i) == LET j == next[i] IN
            {i} \cup (IF j = NULL THEN {} ELSE {j} \cup (IF next[j] = NULL THEN {} ELSE {next[j]}))

\* virtio_disk_rw() after a wakeup: sleep again, or the request is done.
Done(p) ==
    /\ At(p, "io")
    /\ IF buf[b[p]].disk THEN SleepOn(p, DoneOf(b[p])) /\ UNCHANGED <<free, next, info, buf, pinned, pc, panic>>
       ELSE \E i \in Desc :
            /\ info[i] = b[p] /\ info' = [info EXCEPT ![i] = NULL]
            /\ free' = free \cup Chain(i) /\ panic' = (Chain(i) \cap free # {})
            /\ next' = [j \in Desc |-> IF j \in Chain(i) THEN NULL ELSE next[j]]
            /\ Wakeup({FreeDesc}) /\ Goto(p, "hold")
            \* After the write of a pinned buffer install_trans() unpins it, after a read it is valid.
            /\ pinned' = IF write[p] THEN pinned \ {b[p]} ELSE pinned
            /\ buf' = [buf EXCEPT ![b[p]].valid = TRUE,
                                  ![b[p]].refcnt = IF write[p] /\ b[p] \in pinned THEN @ - 1 ELSE @]
    /\ UNCHANGED <<lru, locked, b, write, deviceVars, latest>>

\* The disk serves a request, whichever it likes.
Serve ==
    \E r \in avail :
      LET x == info[r.id] IN
      /\ avail' = avail \ {r} /\ used' = Append(used, r.id)
      /\ IF r.write THEN disk' = [disk EXCEPT ![r.block] = buf[x].data] /\ UNCHANGED buf
         ELSE buf' = [buf EXCEPT ![x].data = disk[r.block]] /\ UNCHANGED disk
      /\ UNCHANGED <<lru, locked, pinned, procVars, driverVars, latest, panic>>

\* As a mutant: nobody is woken.
InterruptSilent ==
    LET xs == {info[i] : i \in ToSet(used)} IN
    /\ used # <<>> /\ used' = <<>>
    /\ buf' = [x \in Buf |-> IF x \in xs THEN [buf[x] EXCEPT !.disk = FALSE] ELSE buf[x]]
    /\ UNCHANGED <<lru, locked, pinned, procVars, driverVars, avail, disk, latest, panic>>

\* virtio_disk_intr(): all requests that are done.
Interrupt ==
    LET xs == {info[i] : i \in ToSet(used)} IN
    /\ used # <<>> /\ used' = <<>>
    /\ buf' = [x \in Buf |-> IF x \in xs THEN [buf[x] EXCEPT !.disk = FALSE] ELSE buf[x]]
    /\ Wakeup({DoneOf(x) : x \in xs})
    /\ UNCHANGED <<lru, locked, pinned, pc, b, write, driverVars, avail, disk, latest, panic>>

DiskNext ==
    \/ \E p \in Proc : \/ \E k \in Block : BgetCached(p, k) \/ BgetRecycles(p, k)
                       \/ Lock(p) \/ Change(p) \/ ChangeLog(p) \/ Bwrite(p) \/ Unlock(p) \/ Release(p)
                       \/ Submit(p) \/ Done(p)
    \/ Serve \/ Interrupt

DiskSpec == DiskInit /\ [][DiskNext]_diskVars
-----------------------------------------------------------------------------
\* Who has a buffer locked has what was last put into the block, however often the buffer
\* went to another block meanwhile; and no assertion of the two files fails.
HeldIsLatest ==
    /\ ~panic
    /\ \A p \in Proc : pc[p] = "hold" => buf[b[p]].data = latest[buf[b[p]].block]

\* No process sleeps past what it waits for: who waits for a lock, somebody has it; who
\* waits for descriptors, fewer than three are free; who waits for the disk, the disk has
\* the request, or the interrupt is still to come.
SleepersAreWoken ==
    \A p \in Proc :
      /\ asleep[p] = FreeDesc => Cardinality(free) < 3
      /\ b[p] # NULL /\ asleep[p] = LockOf(b[p]) => locked[b[p]] \notin {NULL, p}
      /\ b[p] # NULL /\ asleep[p] = DoneOf(b[p]) =>
           \E i \in Desc : info[i] = b[p] /\ (i \in ToSet(used) \/ \E r \in avail : r.id = i)
====
