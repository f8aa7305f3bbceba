---- MODULE Log ----
(***************************************************************************)
(* xv6's redo log: file-system calls between begin_op and end_op change      *)
(* blocks in the buffer cache; the last call to end writes all changed       *)
(* blocks to the log, then the header (the commit point), then the home      *)
(* locations, and clears the header.  The machine may stop between any two   *)
(* disk writes; recovery, which may be interrupted too, replays the log.     *)
(*                                                                           *)
(* One action is one critical section under log.lock, or one disk write of   *)
(* a block, which the disk does as a whole or not at all.                    *)
(***************************************************************************)
EXTENDS Integers, SequencesExt

CONSTANTS Op,           \* the processes that make file-system calls
          Block,        \* the home blocks of the file system
          Value,        \* what a block may contain
          MaxOpBlocks,  \* MAXOPBLOCKS: the blocks one call may write
          LogBlocks     \* sb->nlog - 1: the data blocks of the on-disk log

LogSize == 3 * MaxOpBlocks    \* LOGSIZE

ASSUME LogAssumption == /\ IsFiniteSet(Op)
                        /\ MaxOpBlocks \in Nat \ {0}
                        /\ LogBlocks \in Nat \ {0}

VARIABLES
    disk,         \* home locations on the disk
    logHead,      \* the header block on the disk: home block numbers
    logData,      \* the log's data blocks on the disk
    cache,        \* the home blocks' buffers
    pinned,       \* the blocks that bpin keeps in the cache
    lh,           \* log.lh: block numbers; its length is log.lh.n
    outstanding,
    committing,
    pc,           \* where each process is
    wrote,        \* wrote[p]: the blocks the call p is making has written
    tail,         \* the loop variable of write_log and install_trans
    mode          \* "boot", "install" and "clear" are recover_from_log

diskVars   == <<disk, logHead, logData>>
kernelVars == <<cache, pinned, lh, outstanding, committing, pc, wrote, tail>>
vars       == <<diskVars, kernelVars, mode>>

CommitPC == {"write_log", "write_head", "install", "clear", "finish"}
PC       == {"idle", "sleep", "begin", "op"} \cup CommitPC

Init ==
    /\ disk \in [Block -> Value]
    /\ logHead = <<>>
    /\ logData \in [1..LogBlocks -> Value]
    /\ cache = disk
    /\ pinned = {} /\ lh = <<>>
    /\ outstanding = 0 /\ committing = FALSE
    /\ pc = [p \in Op |-> "idle"]
    /\ wrote = [p \in Op |-> {}]
    /\ tail = 1
    /\ mode = "boot"

-----------------------------------------------------------------------------
\* Pieces of steps.

Up == mode = "run"

\* wakeup(&log): every sleeper goes back to the test in begin_op's loop.
Awake == [p \in Op |-> IF pc[p] = "sleep" THEN "begin" ELSE pc[p]]

\* Mutant of Full: the new call's own blocks are not counted.
FullWithoutSelf == Len(lh) + outstanding * MaxOpBlocks > LogSize

\* The new call might exhaust the space that the log reserves.
Full == Len(lh) + (outstanding + 1) * MaxOpBlocks > LogSize

\* What bread returns: an unpinned buffer may have been recycled since it was
\* written, and is read from the disk again.
Bread(b) == IF b \in pinned THEN {cache[b]} ELSE {cache[b], disk[b]}

-----------------------------------------------------------------------------
\* File-system calls.

\* Mutant of BeginOp: does not look at log.committing.
BeginOpDuringCommit(p) ==
    /\ Up /\ pc[p] \in {"idle", "begin"}
    /\ IF Full
       THEN pc' = [pc EXCEPT ![p] = "sleep"] /\ UNCHANGED outstanding
       ELSE /\ pc' = [pc EXCEPT ![p] = "op"]
            /\ outstanding' = outstanding + 1
    /\ UNCHANGED <<diskVars, cache, pinned, lh, committing, wrote, tail, mode>>

BeginOp(p) ==
    /\ Up /\ pc[p] \in {"idle", "begin"}
    /\ IF committing \/ Full
       THEN pc' = [pc EXCEPT ![p] = "sleep"] /\ UNCHANGED outstanding
       ELSE /\ pc' = [pc EXCEPT ![p] = "op"]
            /\ outstanding' = outstanding + 1
    /\ UNCHANGED <<diskVars, cache, pinned, lh, committing, wrote, tail, mode>>

\* The blocks a call may still write: at most MAXOPBLOCKS in all.
MayWrite(p) == {b \in Block : b \in wrote[p] \/ Cardinality(wrote[p]) < MaxOpBlocks}

TooBig == Len(lh) >= LogSize \/ Len(lh) >= LogBlocks

\* Mutant of LogWrite: the buffer is not pinned.
LogWriteUnpinned(p) ==
    /\ Up /\ pc[p] = "op" /\ ~TooBig
    /\ \E b \in MayWrite(p), v \in Value :
          /\ cache' = [cache EXCEPT ![b] = v]
          /\ lh' = IF b \in ToSet(lh) THEN lh ELSE Append(lh, b)
          /\ wrote' = [wrote EXCEPT ![p] = @ \cup {b}]
    /\ UNCHANGED <<diskVars, pinned, outstanding, committing, pc, tail, mode>>

\* The caller changes a buffer it has locked; log_write pins it and enters it
\* in the header, unless it is there already (absorption).
LogWrite(p) ==
    /\ Up /\ pc[p] = "op" /\ ~TooBig
    /\ \E b \in MayWrite(p), v \in Value :
          /\ cache' = [cache EXCEPT ![b] = v]
          /\ pinned' = pinned \cup {b}
          /\ lh' = IF b \in ToSet(lh) THEN lh ELSE Append(lh, b)
          /\ wrote' = [wrote EXCEPT ![p] = @ \cup {b}]
    /\ UNCHANGED <<diskVars, outstanding, committing, pc, tail, mode>>

\* log_write finds the log full: the kernel stops.
Panic(p) ==
    /\ Up /\ pc[p] = "op" /\ TooBig
    /\ MayWrite(p) # {}
    /\ mode' = "panic"
    /\ UNCHANGED <<diskVars, kernelVars>>

\* Mutant of EndOp: only the committer wakes the sleepers.
EndOpNoWakeup(p) ==
    /\ Up /\ pc[p] = "op"
    /\ outstanding' = outstanding - 1
    /\ IF outstanding = 1
       THEN /\ committing' = TRUE
            /\ pc' = [pc EXCEPT ![p] = IF lh = <<>> THEN "finish" ELSE "write_log"]
       ELSE /\ pc' = [pc EXCEPT ![p] = "idle"]
            /\ UNCHANGED committing
    /\ wrote' = [wrote EXCEPT ![p] = {}]
    /\ UNCHANGED <<diskVars, cache, pinned, lh, tail, mode>>

\* The last call to end commits for all; the others wake who waits for space.
EndOp(p) ==
    /\ Up /\ pc[p] = "op"
    /\ outstanding' = outstanding - 1
    /\ IF outstanding = 1
       THEN /\ committing' = TRUE
            /\ pc' = [pc EXCEPT ![p] = IF lh = <<>> THEN "finish" ELSE "write_log"]
       ELSE /\ pc' = [Awake EXCEPT ![p] = "idle"]
            /\ UNCHANGED committing
    /\ wrote' = [wrote EXCEPT ![p] = {}]
    /\ UNCHANGED <<diskVars, cache, pinned, lh, tail, mode>>

-----------------------------------------------------------------------------
\* commit(), made without the lock by the process whose end_op was the last.

\* One pass of the loop in write_log.
WriteLog(p) ==
    /\ Up /\ pc[p] = "write_log" /\ tail <= Len(lh)
    /\ \E v \in Bread(lh[tail]) : logData' = [logData EXCEPT ![tail] = v]
    /\ tail' = tail + 1
    /\ pc' = [pc EXCEPT ![p] = IF tail = Len(lh) THEN "write_head" ELSE @]
    /\ UNCHANGED <<disk, logHead, cache, pinned, lh, outstanding, committing, wrote, mode>>

\* The first write_head: the transaction is committed.
WriteHead(p) ==
    /\ Up /\ pc[p] = "write_head"
    /\ logHead' = lh
    /\ tail' = 1
    /\ pc' = [pc EXCEPT ![p] = "install"]
    /\ UNCHANGED <<disk, logData, cache, pinned, lh, outstanding, committing, wrote, mode>>

\* One pass of the loop in install_trans: copy a log block home, unpin it.
Install(p) ==
    /\ Up /\ pc[p] = "install" /\ tail <= Len(lh)
    /\ disk' = [disk EXCEPT ![lh[tail]] = logData[tail]]
    /\ cache' = [cache EXCEPT ![lh[tail]] = logData[tail]]
    /\ pinned' = pinned \ {lh[tail]}
    /\ tail' = tail + 1
    /\ pc' = [pc EXCEPT ![p] = IF tail = Len(lh) THEN "clear" ELSE @]
    /\ UNCHANGED <<logHead, logData, lh, outstanding, committing, wrote, mode>>

\* n = 0 and the second write_head: the log is empty again.
ClearHead(p) ==
    /\ Up /\ pc[p] = "clear"
    /\ lh' = <<>>
    /\ logHead' = <<>>
    /\ tail' = 1
    /\ pc' = [pc EXCEPT ![p] = "finish"]
    /\ UNCHANGED <<disk, logData, cache, pinned, outstanding, committing, wrote, mode>>

\* Mutant of Finish: the sleepers are not woken.
FinishNoWakeup(p) ==
    /\ Up /\ pc[p] = "finish"
    /\ committing' = FALSE
    /\ pc' = [pc EXCEPT ![p] = "idle"]
    /\ UNCHANGED <<diskVars, cache, pinned, lh, outstanding, wrote, tail, mode>>

Finish(p) ==
    /\ Up /\ pc[p] = "finish"
    /\ committing' = FALSE
    /\ pc' = [Awake EXCEPT ![p] = "idle"]
    /\ UNCHANGED <<diskVars, cache, pinned, lh, outstanding, wrote, tail, mode>>

CommitStep(p) == WriteLog(p) \/ WriteHead(p) \/ Install(p) \/ ClearHead(p) \/ Finish(p)

-----------------------------------------------------------------------------
\* Crash and recovery.

\* Power fails or the machine is reset: memory is lost, the disk stays.
Crash ==
    /\ cache' = disk
    /\ pinned' = {} /\ lh' = <<>>
    /\ outstanding' = 0 /\ committing' = FALSE
    /\ pc' = [p \in Op |-> "idle"]
    /\ wrote' = [p \in Op |-> {}]
    /\ tail' = 1
    /\ mode' = "boot"
    /\ UNCHANGED diskVars

ReadHead ==
    /\ mode = "boot"
    /\ lh' = logHead
    /\ mode' = IF logHead = <<>> THEN "clear" ELSE "install"
    /\ UNCHANGED <<diskVars, cache, pinned, outstanding, committing, pc, wrote, tail>>

RecoverInstall ==
    /\ mode = "install"
    /\ disk' = [disk EXCEPT ![lh[tail]] = logData[tail]]
    /\ cache' = [cache EXCEPT ![lh[tail]] = logData[tail]]
    /\ tail' = tail + 1
    /\ mode' = IF tail = Len(lh) THEN "clear" ELSE "install"
    /\ UNCHANGED <<logHead, logData, pinned, lh, outstanding, committing, pc, wrote>>

RecoverClear ==
    /\ mode = "clear"
    /\ lh' = <<>>
    /\ logHead' = <<>>
    /\ tail' = 1
    /\ mode' = "run"
    /\ UNCHANGED <<disk, logData, cache, pinned, outstanding, committing, pc, wrote>>

Recovery == ReadHead \/ RecoverInstall \/ RecoverClear

-----------------------------------------------------------------------------
Next == \/ \E p \in Op : \/ BeginOp(p) \/ LogWrite(p) \/ Panic(p) \/ EndOp(p)
                         \/ CommitStep(p)
        \/ Crash \/ Recovery

Spec == Init /\ [][Next]_vars

\* A call that began ends (every begin_op in the kernel is followed by its
\* end_op), and a process that is ready to run is scheduled.
Fairness == \A p \in Op : /\ WF_vars(EndOp(p))
                          /\ WF_vars(CommitStep(p))

FairSpec == Spec /\ Fairness

-----------------------------------------------------------------------------
\* Properties.

TypeOK ==
    /\ disk \in [Block -> Value] /\ cache \in [Block -> Value]
    /\ logHead \in Seq(Block) /\ lh \in Seq(Block)
    /\ logData \in [1..LogBlocks -> Value]
    /\ pinned \subseteq Block
    /\ outstanding \in Nat
    /\ committing \in BOOLEAN
    /\ pc \in [Op -> PC]
    /\ wrote \in [Op -> SUBSET Block]
    /\ tail \in Nat \ {0}
    /\ mode \in {"boot", "install", "clear", "run", "panic"}

Running == {p \in Op : pc[p] = "op"}

\* commit() reads log.lh and the cache without the lock: while it does, no call
\* is under way, so end_op never finds another commit going on (its panic), and
\* only one process commits.
CommitsAlone ==
    /\ outstanding = Cardinality(Running)
    /\ committing => Running = {}
    /\ \A p \in Op : pc[p] \in CommitPC => committing
    /\ \A p, q \in Op : pc[p] \in CommitPC /\ pc[q] \in CommitPC => p = q

\* The log entries that calls under way may still add: what is left of the blocks
\* that begin_op reserved for each.
Reserved == {r \in Running \X (1..MaxOpBlocks) : r[2] > Cardinality(wrote[r[1]])}

\* The space begin_op reserves is never overdrawn: what is in the log and what
\* the calls under way may still add fit into LOGSIZE entries, although calls
\* begin and end in any order and share blocks.
ReservationHolds == mode = "run" => Len(lh) + Cardinality(Reserved) <= LogSize

\* Whoever sleeps in begin_op has reason to: the condition it found still holds,
\* and a call or a commit is under way whose end will wake it.
SleepersMustWait ==
    \A p \in Op : pc[p] = "sleep" => /\ committing \/ Full
                                     /\ committing \/ Running # {}

\* A sleeper is woken, unless the machine crashes or the kernel panics.
SleeperIsWoken == \A p \in Op : pc[p] = "sleep" ~> (pc[p] # "sleep" \/ ~Up)

\* What a restart finds once recovery is over.
Stable ==
    [b \in Block |-> IF b \in ToSet(logHead)
                     THEN logData[CHOOSE i \in DOMAIN logHead : logHead[i] = b]
                     ELSE disk[b]]

\* Whole calls, and whole groups of calls, survive a crash or leave no trace.
Atomic == INSTANCE AtomicDisk
            WITH stable <- Stable,
                 current <- IF mode \in {"run", "panic"} THEN cache ELSE Stable,
                 running <- Running
AtomicSpec == Atomic!Spec
====
