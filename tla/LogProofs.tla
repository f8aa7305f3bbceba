---- MODULE LogProofs ----
(***************************************************************************)
(* xv6's log, for any number of processes and blocks and any length of the *)
(* log: it implements AtomicDisk, commits run alone, and whoever sleeps in *)
(* begin_op has somebody to wake it.  And the blocks of files: none is     *)
(* lost, files have no holes, and writes stay within their reservation.    *)
(***************************************************************************)
EXTENDS Log, TLAPS, FiniteSetTheorems, WellFoundedInduction

\* The blocks of files, whose writes a transaction of the log has to hold.
CONSTANTS Inode, File, IpOf, DataBlock, BPB, BSIZE, NDIRECT, NINDIRECT, Count
VARIABLES bitmap, addrs, size, off, todo, logged, panic

Files == INSTANCE Blocks WITH MAXOPBLOCKS <- MaxOpBlocks

\* A list of distinct block numbers that fits into the on-disk log.
Entries(s) == /\ Len(s) <= LogBlocks
              /\ \A i, j \in 1..Len(s) : s[i] = s[j] => i = j

Lists == Entries(lh) /\ Entries(logHead)

At(s) == \E p \in Op : pc[p] = s

\* Only the run of the system has calls, commits and pins.
Quiet == mode \in {"boot", "install", "clear"} =>
            /\ \A p \in Op : pc[p] = "idle"
            /\ pinned = {} /\ outstanding = 0 /\ committing = FALSE

\* Log block i holds the cache's version of its block, or has been copied home.
Logged(i)    == logData[i] = cache[lh[i]]
Installed(i) == disk[lh[i]] = logData[i] /\ cache[lh[i]] = logData[i]

\* The buffers differ from the disk only where lh says so.
CleanElsewhere == \A b \in Block : (\A i \in 1..Len(lh) : lh[i] # b) => cache[b] = disk[b]

\* While the system runs: how far the commit has come.
CommitProgress == mode \in {"run", "panic"} =>
    /\ CleanElsewhere
    /\ At("install") \/ At("clear") => logHead = lh
    /\ ~At("install") /\ ~At("clear") => logHead = <<>>
    /\ ~At("install") /\ ~At("clear") => pinned = {b \in Block : \E i \in 1..Len(lh) : lh[i] = b}
    /\ At("write_log") => tail <= Len(lh) /\ \A i \in 1..(tail - 1) : Logged(i)
    /\ At("write_head") => lh # <<>> /\ \A i \in 1..Len(lh) : Logged(i)
    /\ At("install") => /\ tail <= Len(lh)
                        /\ \A i \in 1..Len(lh) : Logged(i)
                        /\ \A i \in 1..(tail - 1) : Installed(i)
                        /\ pinned = {b \in Block : \E i \in tail..Len(lh) : lh[i] = b}
    /\ At("clear") => pinned = {} /\ \A i \in 1..Len(lh) : Installed(i)
    /\ At("finish") => lh = <<>>
    /\ ~At("write_log") /\ ~At("write_head") /\ ~At("install") /\ ~At("clear") => tail = 1

\* During recovery: how far the replay has come.
RecoveryProgress ==
    /\ mode = "boot" => tail = 1 /\ cache = disk
    /\ mode = "install" => /\ lh = logHead /\ tail <= Len(lh)
                           /\ \A i \in 1..(tail - 1) : Installed(i)
                           /\ cache = disk
    /\ mode = "clear" => /\ lh = logHead
                         /\ \A i \in 1..Len(lh) : Installed(i)
                         /\ cache = disk

IInv == TypeOK /\ CommitsAlone /\ Lists /\ Quiet
        /\ CommitProgress /\ RecoveryProgress

-----------------------------------------------------------------------------
\* The set of a sequence's elements, by index.
LEMMA ToSetIndex ==
    ASSUME NEW s \in Seq(Block), NEW b
    PROVE  b \in ToSet(s) <=> \E i \in 1..Len(s) : s[i] = b
BY DEF ToSet

LEMMA RunningFinite == IsFiniteSet(Running) /\ Cardinality(Running) \in Nat
<1>1. Running \subseteq Op
  BY DEF Running
<1> QED BY <1>1, LogAssumption, FS_Subset, FS_CardinalityType

LEMMA InitIInv == Init => IInv
<1> SUFFICES ASSUME Init PROVE IInv
  OBVIOUS
<1> USE DEF Init
<1>1. TypeOK
  <2>1. disk \in [Block -> Value] /\ cache \in [Block -> Value] /\ logData \in [1..LogBlocks -> Value]
    OBVIOUS
  <2>2. logHead \in Seq(Block) /\ lh \in Seq(Block)
    OBVIOUS
  <2>3. pc \in [Op -> PC] /\ wrote \in [Op -> SUBSET Block]
    BY DEF PC
  <2>4. pinned \subseteq Block /\ committing \in BOOLEAN
    OBVIOUS
  <2>5. outstanding \in Nat /\ tail \in Nat \ {0}
    OBVIOUS
  <2>6. mode \in {"boot", "install", "clear", "run", "panic"}
    OBVIOUS
  <2> HIDE DEF Init
  <2> QED BY <2>1, <2>2, <2>3, <2>4, <2>5, <2>6 DEF TypeOK
<1>2. CommitsAlone
  <2>1. Running = {}
    BY DEF Running
  <2> QED BY <2>1, FS_EmptySet DEF CommitsAlone, CommitPC
<1>3. Lists
  BY LogAssumption DEF Lists, Entries
<1>4. Quiet /\ CommitProgress /\ RecoveryProgress
  BY DEF Quiet, CommitProgress, RecoveryProgress
<1> QED BY <1>1, <1>2, <1>3, <1>4 DEF IInv

-----------------------------------------------------------------------------
\* Calls.

LEMMA BeginOpInv == ASSUME IInv, NEW p \in Op, BeginOp(p) PROVE IInv'
<1> USE DEF IInv, BeginOp, Up
<1>1. TypeOK'
  BY DEF TypeOK, PC, diskVars
<1>2. CommitsAlone'
  <2>1. CASE committing \/ Full
    <3>1. Running' = Running
      BY <2>1 DEF Running, TypeOK
    <3> QED BY <2>1, <3>1 DEF CommitsAlone, TypeOK, CommitPC
  <2>2. CASE ~(committing \/ Full)
    <3>1. Running' = Running \cup {p} /\ p \notin Running
      BY <2>2 DEF Running, TypeOK
    <3>2. Cardinality(Running') = Cardinality(Running) + 1
      BY <3>1, RunningFinite, FS_AddElement
    <3> QED BY <2>2, <3>2 DEF CommitsAlone, TypeOK, CommitPC
  <2> QED BY <2>1, <2>2
<1>3. \A s \in CommitPC : At(s)' = At(s)
  BY DEF At, TypeOK, CommitPC
<1>4. CommitProgress'
  <2>1. UNCHANGED <<disk, logHead, logData, cache, pinned, lh, tail, mode>>
    BY DEF diskVars
  <2> QED BY <1>3, <2>1 DEF CommitProgress, CleanElsewhere, Logged, Installed, CommitPC
<1>5. Lists' /\ Quiet' /\ RecoveryProgress'
  BY DEF Lists, Entries, Quiet, RecoveryProgress, diskVars
<1> QED BY <1>1, <1>2, <1>4, <1>5

LEMMA LogWriteInv == ASSUME IInv, NEW p \in Op, LogWrite(p) PROVE IInv'
<1> USE DEF IInv
<1>1. PICK b \in Block, v \in Value :
         /\ cache' = [cache EXCEPT ![b] = v]
         /\ pinned' = pinned \cup {b}
         /\ lh' = IF b \in ToSet(lh) THEN lh ELSE Append(lh, b)
         /\ wrote' = [wrote EXCEPT ![p] = @ \cup {b}]
  BY DEF LogWrite, MayWrite
<1>2. /\ mode = "run" /\ pc[p] = "op" /\ ~TooBig
      /\ UNCHANGED <<disk, logHead, logData, outstanding, committing, pc, tail, mode>>
  BY DEF LogWrite, Up, diskVars
<1>3. lh \in Seq(Block) /\ lh' \in Seq(Block)
  BY <1>1 DEF TypeOK
<1>4. TypeOK'
  BY <1>1, <1>2, <1>3 DEF TypeOK
<1>5. CommitsAlone' /\ ~committing
  BY <1>2 DEF CommitsAlone, Running
<1>6. /\ \A i \in 1..Len(lh) : lh'[i] = lh[i]
      /\ \A c : (\E i \in 1..Len(lh') : lh'[i] = c) <=> (c = b \/ \E i \in 1..Len(lh) : lh[i] = c)
      /\ Entries(lh')
  <2>1. CASE b \in ToSet(lh)
    BY <1>1, <1>3, <2>1, ToSetIndex DEF Lists
  <2>2. CASE b \notin ToSet(lh)
    <3>1. lh' = Append(lh, b) /\ \A i \in 1..Len(lh) : lh[i] # b
      BY <1>1, <1>3, <2>2, ToSetIndex
    <3>2. Len(lh') = Len(lh) + 1 /\ lh'[Len(lh) + 1] = b /\ Len(lh) \in Nat
      BY <1>3, <3>1
    <3>3. \A i \in 1..Len(lh) : lh'[i] = lh[i]
      BY <1>3, <3>1
    <3>4. Len(lh') <= LogBlocks
      BY <1>2, <3>2, LogAssumption DEF TooBig
    <3> QED BY <3>1, <3>2, <3>3, <3>4 DEF Lists, Entries
  <2> QED BY <2>1, <2>2
<1>7. ~At("write_log") /\ ~At("write_head") /\ ~At("install") /\ ~At("clear") /\ ~At("finish")
  BY <1>5 DEF CommitsAlone, At, CommitPC
<1>8. CommitProgress'
  <2>1. UNCHANGED <<At("write_log"), At("write_head"), At("install"), At("clear"), At("finish")>>
    BY <1>2 DEF At
  <2>2. CleanElsewhere'
    <3> SUFFICES ASSUME NEW c \in Block, \A i \in 1..Len(lh') : lh'[i] # c
                 PROVE  cache'[c] = disk'[c]
      BY DEF CleanElsewhere
    <3>1. c # b /\ \A i \in 1..Len(lh) : lh[i] # c
      BY <1>6
    <3>2. cache[c] = disk[c]
      BY <1>2, <3>1 DEF CommitProgress, CleanElsewhere
    <3> QED BY <1>1, <1>2, <3>1, <3>2 DEF TypeOK
  <2>3. pinned' = {c \in Block : \E i \in 1..Len(lh') : lh'[i] = c}
    BY <1>1, <1>2, <1>6, <1>7 DEF CommitProgress
  <2> QED BY <1>2, <1>7, <2>1, <2>2, <2>3 DEF CommitProgress
<1>9. Lists' /\ Quiet' /\ RecoveryProgress'
  BY <1>2, <1>6 DEF Lists, Entries, Quiet, RecoveryProgress
<1> QED BY <1>4, <1>5, <1>8, <1>9

LEMMA PanicInv == ASSUME IInv, NEW p \in Op, Panic(p) PROVE IInv'
<1> USE DEF IInv, Panic, Up, diskVars, kernelVars
<1>1. TypeOK' /\ CommitsAlone' /\ Lists'
  BY DEF TypeOK, CommitsAlone, Running, Lists, Entries
<1>2. Quiet' /\ RecoveryProgress'
  BY DEF Quiet, RecoveryProgress
<1>3. CommitProgress'
  BY DEF CommitProgress, CleanElsewhere, Logged, Installed, At
<1> QED BY <1>1, <1>2, <1>3

LEMMA EndOpInv == ASSUME IInv, NEW p \in Op, EndOp(p) PROVE IInv'
<1> USE DEF IInv
<1>1. /\ mode = "run" /\ pc[p] = "op" /\ p \in Running
      /\ outstanding' = outstanding - 1
      /\ UNCHANGED <<disk, logHead, logData, cache, pinned, lh, tail, mode>>
  BY DEF EndOp, Up, diskVars, Running
<1>2. Running' = Running \ {p}
  BY <1>1 DEF EndOp, Running, Awake, TypeOK
<1>3. /\ outstanding \in Nat \ {0} /\ outstanding' = Cardinality(Running')
      /\ outstanding = 1 <=> Running' = {}
  <2>1. outstanding = Cardinality(Running) /\ Cardinality(Running') = Cardinality(Running) - 1
    BY <1>1, <1>2, RunningFinite, FS_RemoveElement DEF CommitsAlone
  <2>2. IsFiniteSet(Running') /\ Cardinality(Running') \in Nat
    BY <1>2, RunningFinite, FS_RemoveElement, FS_CardinalityType
  <2>3. Cardinality(Running') = 0 <=> Running' = {}
    BY <2>2, FS_EmptySet
  <2> QED BY <1>1, <2>1, <2>2, <2>3 DEF TypeOK
<1>4. ~committing /\ \A q \in Op : pc[q] \notin CommitPC
  BY <1>1 DEF CommitsAlone
<1>5. pc' \in [Op -> PC] /\ TypeOK'
  <2>1. pc' \in [Op -> PC]
    BY DEF EndOp, TypeOK, PC, CommitPC, Awake
  <2>2. outstanding' \in Nat
    BY <1>1, <1>3
  <2>3. committing' \in BOOLEAN /\ wrote' \in [Op -> SUBSET Block]
    BY DEF EndOp, TypeOK
  <2> QED BY <1>1, <2>1, <2>2, <2>3 DEF TypeOK
<1>6. CASE outstanding = 1
  <2>1. /\ committing' = TRUE
        /\ pc' = [pc EXCEPT ![p] = IF lh = <<>> THEN "finish" ELSE "write_log"]
    BY <1>6 DEF EndOp
  <2>2. \A q \in Op : pc'[q] \in CommitPC => q = p
    BY <1>4, <2>1 DEF TypeOK
  <2>3. CommitsAlone'
    BY <1>3, <1>6, <2>1, <2>2 DEF CommitsAlone
  <2>4. lh # <<>> => 1 <= Len(lh)
    BY DEF TypeOK
  <2>5. /\ ~At("write_log") /\ ~At("write_head") /\ ~At("install") /\ ~At("clear")
        /\ ~At("write_head")' /\ ~At("install")' /\ ~At("clear")'
        /\ At("write_log")' => lh # <<>>
        /\ At("finish")' => lh = <<>>
    <3>1. \A q \in Op : q # p => pc'[q] \notin CommitPC
      BY <2>2
    <3>2. pc'[p] = IF lh = <<>> THEN "finish" ELSE "write_log"
      BY <2>1 DEF TypeOK
    <3> QED BY <1>4, <3>1, <3>2 DEF At, CommitPC
  <2>6. tail = 1
    BY <1>1, <2>5 DEF CommitProgress
  <2>7. CommitProgress'
    BY <1>1, <2>4, <2>5, <2>6 DEF CommitProgress, CleanElsewhere
  <2> QED BY <1>1, <1>5, <2>3, <2>7 DEF Lists, Entries, Quiet, RecoveryProgress
<1>7. CASE outstanding # 1
  <2>1. committing' = committing /\ pc' = [Awake EXCEPT ![p] = "idle"]
    BY <1>7 DEF EndOp
  <2>2. \A q \in Op : pc'[q] \notin CommitPC
    BY <1>4, <2>1 DEF Awake, TypeOK, CommitPC
  <2>3. CommitsAlone'
    BY <1>3, <1>4, <2>1, <2>2 DEF CommitsAlone
  <2>4. \A s \in CommitPC : ~At(s) /\ ~At(s)'
    BY <1>4, <2>2 DEF At
  <2>5. CommitProgress'
    BY <1>1, <2>4 DEF CommitProgress, CleanElsewhere, CommitPC
  <2> QED BY <1>1, <1>5, <2>3, <2>5 DEF Lists, Entries, Quiet, RecoveryProgress
<1> QED BY <1>6, <1>7

-----------------------------------------------------------------------------
\* The commit.

\* Only p commits: a phase is reached iff p is in it.
LEMMA OneCommitter ==
    ASSUME IInv, NEW p \in Op, pc[p] \in CommitPC
    PROVE  /\ \A q \in Op : q # p => pc[q] \notin CommitPC
           /\ \A s \in CommitPC : At(s) <=> pc[p] = s
           /\ committing /\ Running = {}
BY DEF IInv, CommitsAlone, At

\* A step of the committer that changes nothing else than where it stands.
LEMMA CommitterMoves ==
    ASSUME IInv, NEW p \in Op, pc[p] \in CommitPC, NEW s \in CommitPC,
           pc' = [pc EXCEPT ![p] = s], UNCHANGED <<outstanding, committing>>
    PROVE  /\ CommitsAlone' /\ pc' \in [Op -> PC]
           /\ \A t \in CommitPC : At(t)' <=> s = t
<1>1. pc \in [Op -> PC]
  BY DEF IInv, TypeOK
<1>2. pc' \in [Op -> PC]
  BY <1>1 DEF PC
<1>3. pc'[p] = s /\ \A q \in Op : q # p => pc'[q] = pc[q] /\ pc'[q] \notin CommitPC
  BY <1>1, OneCommitter
<1>4. Running = {} /\ Running' = {}
  BY <1>3, OneCommitter DEF Running, CommitPC
<1>5. CommitsAlone'
  BY <1>3, <1>4, OneCommitter DEF CommitsAlone, IInv
<1> QED BY <1>2, <1>3, <1>5 DEF At

LEMMA WriteLogInv == ASSUME IInv, NEW p \in Op, WriteLog(p) PROVE IInv'
<1> USE DEF IInv
<1>1. /\ mode = "run" /\ pc[p] = "write_log" /\ tail <= Len(lh)
      /\ UNCHANGED <<disk, logHead, cache, pinned, lh, outstanding, committing, wrote, mode>>
      /\ tail' = tail + 1
  BY DEF WriteLog, Up
<1>2. At("write_log") /\ ~At("install") /\ ~At("clear")
  BY <1>1, OneCommitter DEF CommitPC
<1>3. tail \in 1..Len(lh) /\ Len(lh) \in Nat /\ lh[tail] \in Block /\ tail \in 1..LogBlocks
  BY <1>1, LogAssumption DEF TypeOK, Lists, Entries
<1>4. lh[tail] \in pinned
  BY <1>1, <1>2, <1>3 DEF CommitProgress
<1>5. logData' = [logData EXCEPT ![tail] = cache[lh[tail]]]
  BY <1>4 DEF WriteLog, Bread
<1>6. \A i \in 1..tail : logData'[i] = cache[lh[i]]
  BY <1>1, <1>2, <1>3, <1>5 DEF CommitProgress, TypeOK, Logged
<1> DEFINE s == IF tail = Len(lh) THEN "write_head" ELSE "write_log"
<1>7. s \in CommitPC /\ pc' = [pc EXCEPT ![p] = s]
  BY <1>1 DEF WriteLog, CommitPC, TypeOK
<1>8. CommitsAlone' /\ pc' \in [Op -> PC] /\ \A t \in CommitPC : At(t)' <=> s = t
  BY <1>1, <1>7, CommitterMoves DEF CommitPC
<1>9. TypeOK'
  BY <1>1, <1>3, <1>5, <1>8 DEF TypeOK
<1>10. CommitProgress'
  BY <1>1, <1>2, <1>3, <1>6, <1>8 DEF CommitProgress, CleanElsewhere, Logged, CommitPC
<1> QED BY <1>1, <1>8, <1>9, <1>10 DEF Lists, Entries, Quiet, RecoveryProgress

LEMMA WriteHeadInv == ASSUME IInv, NEW p \in Op, WriteHead(p) PROVE IInv'
<1> USE DEF IInv
<1>1. /\ mode = "run" /\ pc[p] = "write_head" /\ logHead' = lh /\ tail' = 1
      /\ pc' = [pc EXCEPT ![p] = "install"]
      /\ UNCHANGED <<disk, logData, cache, pinned, lh, outstanding, committing, wrote, mode>>
  BY DEF WriteHead, Up
<1>2. /\ At("write_head") /\ ~At("write_log") /\ ~At("install") /\ ~At("clear")
      /\ ~At("finish")
  BY <1>1, OneCommitter DEF CommitPC
<1>3. CommitsAlone' /\ pc' \in [Op -> PC] /\ \A t \in CommitPC : At(t)' <=> t = "install"
  BY <1>1, CommitterMoves DEF CommitPC
<1>4. TypeOK'
  BY <1>1, <1>3 DEF TypeOK
<1>5. lh # <<>>
  BY <1>1, <1>2 DEF CommitProgress
<1>6. CommitProgress'
  <2>1. At("install")' /\ ~At("write_log")' /\ ~At("write_head")' /\ ~At("clear")' /\ ~At("finish")'
    BY <1>3 DEF CommitPC
  <2>2. /\ CleanElsewhere /\ \A i \in 1..Len(lh) : Logged(i)
        /\ pinned = {b \in Block : \E i \in 1..Len(lh) : lh[i] = b}
    BY <1>1, <1>2 DEF CommitProgress
  <2>3. 1 <= Len(lh) /\ Len(lh) \in Nat
    BY <1>5 DEF TypeOK
  <2>4. CleanElsewhere' /\ \A i \in 1..Len(lh') : Logged(i)'
    BY <1>1, <2>2 DEF CleanElsewhere, Logged
  <2> QED BY <1>1, <2>1, <2>2, <2>3, <2>4 DEF CommitProgress
<1> QED BY <1>1, <1>3, <1>4, <1>6, SMTT(60) DEF Lists, Entries, Quiet, RecoveryProgress

\* Copying log block `tail' home leaves the earlier ones, which are others', as
\* they are.
LEMMA CopyHome ==
    ASSUME TypeOK, Entries(lh), tail \in 1..Len(lh),
           disk' = [disk EXCEPT ![lh[tail]] = logData[tail]],
           cache' = [cache EXCEPT ![lh[tail]] = logData[tail]],
           UNCHANGED <<lh, logData>>,
           \A i \in 1..(tail - 1) : Installed(i)
    PROVE  /\ TypeOK => disk' \in [Block -> Value] /\ cache' \in [Block -> Value]
           /\ \A i \in 1..tail : Installed(i)'
           /\ \A b \in Block : cache[b] = disk[b] => cache'[b] = disk'[b]
           /\ (\A i \in 1..Len(lh) : Logged(i)) => cache' = cache
<1>1. /\ lh \in Seq(Block) /\ disk \in [Block -> Value] /\ cache \in [Block -> Value]
      /\ logData \in [1..LogBlocks -> Value] /\ lh[tail] \in Block /\ Len(lh) \in Nat
  BY DEF TypeOK
<1>2. tail \in 1..LogBlocks /\ logData[tail] \in Value
  BY <1>1, LogAssumption DEF Entries
<1>3. \A i \in 1..(tail - 1) : lh[i] # lh[tail] /\ lh[i] \in Block
  BY <1>1 DEF Entries
<1>4. \A i \in 1..tail : Installed(i)'
  <2> SUFFICES ASSUME NEW i \in 1..tail PROVE Installed(i)'
    OBVIOUS
  <2>1. CASE i = tail
    BY <1>1, <2>1 DEF Installed
  <2>2. CASE i # tail
    BY <1>1, <1>3, <2>2 DEF Installed
  <2> QED BY <2>1, <2>2
<1>5. (\A i \in 1..Len(lh) : Logged(i)) => cache' = cache
  BY <1>1 DEF Logged
<1> QED BY <1>1, <1>2, <1>4, <1>5

LEMMA InstallInv == ASSUME IInv, NEW p \in Op, Install(p) PROVE IInv'
<1> USE DEF IInv
<1>1. /\ mode = "run" /\ pc[p] = "install" /\ tail <= Len(lh) /\ tail' = tail + 1
      /\ disk' = [disk EXCEPT ![lh[tail]] = logData[tail]]
      /\ cache' = [cache EXCEPT ![lh[tail]] = logData[tail]]
      /\ pinned' = pinned \ {lh[tail]}
      /\ UNCHANGED <<logHead, logData, lh, outstanding, committing, wrote, mode>>
  BY DEF Install, Up
<1>2. /\ At("install") /\ ~At("write_head") /\ ~At("write_log") /\ ~At("clear")
      /\ ~At("finish")
  BY <1>1, OneCommitter DEF CommitPC
<1>3. tail \in 1..Len(lh) /\ Len(lh) \in Nat
  BY <1>1 DEF TypeOK
<1>4. /\ logHead = lh /\ CleanElsewhere
      /\ \A i \in 1..Len(lh) : Logged(i)
      /\ \A i \in 1..(tail - 1) : Installed(i)
  BY <1>1, <1>2 DEF CommitProgress
<1>5. /\ disk' \in [Block -> Value] /\ cache' = cache
      /\ \A i \in 1..tail : Installed(i)'
      /\ \A b \in Block : cache[b] = disk[b] => cache'[b] = disk'[b]
  BY <1>1, <1>3, <1>4, CopyHome DEF Lists
<1> DEFINE s == IF tail = Len(lh) THEN "clear" ELSE "install"
<1>6. s \in CommitPC /\ pc' = [pc EXCEPT ![p] = s]
  BY <1>1 DEF Install, CommitPC, TypeOK
<1>7. CommitsAlone' /\ pc' \in [Op -> PC] /\ \A t \in CommitPC : At(t)' <=> s = t
  BY <1>1, <1>6, CommitterMoves DEF CommitPC
<1>8. TypeOK'
  BY <1>1, <1>5, <1>7 DEF TypeOK
<1>9. CleanElsewhere' /\ \A i \in 1..Len(lh) : Logged(i)'
  BY <1>1, <1>4, <1>5 DEF CleanElsewhere, Logged
<1>10. pinned' = {b \in Block : \E i \in tail'..Len(lh') : lh'[i] = b}
  <2>1. pinned = {b \in Block : \E i \in tail..Len(lh) : lh[i] = b}
    BY <1>1, <1>2 DEF CommitProgress
  <2>2. \A i, j \in 1..Len(lh) : lh[i] = lh[j] => i = j
    BY DEF Lists, Entries
  <2> QED BY <1>1, <1>3, <2>1, <2>2
<1>11. CommitProgress'
  BY <1>1, <1>3, <1>4, <1>5, <1>7, <1>9, <1>10 DEF CommitProgress, CommitPC
<1> QED BY <1>1, <1>7, <1>8, <1>11 DEF Lists, Entries, Quiet, RecoveryProgress

\* Once all blocks are home, the buffers are the disk.
LEMMA AllHome ==
    ASSUME TypeOK, CleanElsewhere, \A i \in 1..Len(lh) : Installed(i)
    PROVE  cache = disk
<1>1. \A b \in Block : cache[b] = disk[b]
  BY DEF CleanElsewhere, Installed
<1> QED BY <1>1 DEF TypeOK

LEMMA ClearHeadInv == ASSUME IInv, NEW p \in Op, ClearHead(p) PROVE IInv'
<1> USE DEF IInv
<1>1. /\ mode = "run" /\ pc[p] = "clear" /\ lh' = <<>> /\ logHead' = <<>> /\ tail' = 1
      /\ pc' = [pc EXCEPT ![p] = "finish"]
      /\ UNCHANGED <<disk, logData, cache, pinned, outstanding, committing, wrote, mode>>
  BY DEF ClearHead, Up
<1>2. At("clear") /\ ~At("install")
  BY <1>1, OneCommitter DEF CommitPC
<1>3. cache = disk
  BY <1>1, <1>2, AllHome DEF CommitProgress
<1>4. CommitsAlone' /\ pc' \in [Op -> PC] /\ \A t \in CommitPC : At(t)' <=> t = "finish"
  BY <1>1, CommitterMoves DEF CommitPC
<1>5. TypeOK'
  BY <1>1, <1>4 DEF TypeOK
<1>6. pinned = {}
  BY <1>1, <1>2 DEF CommitProgress
<1>7. CommitProgress'
  BY <1>1, <1>3, <1>4, <1>6 DEF CommitProgress, CleanElsewhere, CommitPC
<1>8. Lists'
  BY <1>1, LogAssumption DEF Lists, Entries
<1> QED BY <1>1, <1>4, <1>5, <1>7, <1>8 DEF Quiet, RecoveryProgress

LEMMA FinishInv == ASSUME IInv, NEW p \in Op, Finish(p) PROVE IInv'
<1> USE DEF IInv
<1>1. /\ mode = "run" /\ pc[p] = "finish" /\ committing' = FALSE
      /\ pc' = [Awake EXCEPT ![p] = "idle"]
      /\ UNCHANGED <<disk, logHead, logData, cache, pinned, lh, outstanding, wrote, tail, mode>>
  BY DEF Finish, Up, diskVars
<1>2. Running = {} /\ \A s \in CommitPC : At(s) <=> s = "finish"
  BY <1>1, OneCommitter DEF CommitPC
<1>3. pc' \in [Op -> PC] /\ \A q \in Op : pc'[q] \notin CommitPC /\ pc'[q] # "op"
  <2>1. \A q \in Op : q # p => pc[q] \notin CommitPC
    BY <1>1, OneCommitter DEF CommitPC
  <2>2. \A q \in Op : pc[q] # "op"
    BY <1>2 DEF Running
  <2> QED BY <1>1, <2>1, <2>2 DEF Awake, TypeOK, PC, CommitPC
<1>4. CommitsAlone'
  <2>1. Running' = {}
    BY <1>3 DEF Running
  <2> QED BY <1>1, <1>2, <1>3, <2>1 DEF CommitsAlone
<1>5. \A s \in CommitPC : ~At(s)'
  BY <1>3 DEF At
<1>6. TypeOK'
  BY <1>1, <1>3 DEF TypeOK
<1>7. CommitProgress'
  BY <1>1, <1>2, <1>5 DEF CommitProgress, CleanElsewhere, CommitPC
<1> QED BY <1>1, <1>4, <1>6, <1>7 DEF Lists, Entries, Quiet, RecoveryProgress

-----------------------------------------------------------------------------
\* Crash and recovery.

LEMMA CrashInv == ASSUME IInv, Crash PROVE IInv'
<1> USE DEF IInv, Crash, diskVars
<1>1. TypeOK'
  <2>1. cache' \in [Block -> Value] /\ lh' \in Seq(Block)
    BY DEF TypeOK
  <2>2. pc' \in [Op -> PC] /\ wrote' \in [Op -> SUBSET Block]
    BY DEF PC
  <2>3. pinned' \subseteq Block /\ outstanding' \in Nat /\ tail' \in Nat \ {0}
    OBVIOUS
  <2>4. committing' \in BOOLEAN
    OBVIOUS
  <2> QED BY <2>1, <2>2, <2>3, <2>4 DEF TypeOK
<1>2. CommitsAlone'
  <2>1. Running' = {}
    BY DEF Running
  <2> QED BY <2>1, FS_EmptySet DEF CommitsAlone, CommitPC
<1>3. Lists'
  BY LogAssumption DEF Lists, Entries
<1> QED BY <1>1, <1>2, <1>3 DEF Quiet, CommitProgress, RecoveryProgress

LEMMA ReadHeadInv == ASSUME IInv, ReadHead PROVE IInv'
<1> USE DEF IInv, ReadHead, diskVars
<1>1. TypeOK' /\ Lists'
  BY DEF TypeOK, Lists, Entries
<1>2. CommitsAlone'
  BY DEF CommitsAlone, Running
<1>3. Quiet' /\ CommitProgress'
  BY DEF Quiet, CommitProgress
<1>4. RecoveryProgress'
  BY DEF RecoveryProgress, Installed, TypeOK
<1> QED BY <1>1, <1>2, <1>3, <1>4

LEMMA RecoverInstallInv == ASSUME IInv, RecoverInstall PROVE IInv'
<1> USE DEF IInv
<1>1. /\ mode = "install" /\ tail' = tail + 1
      /\ disk' = [disk EXCEPT ![lh[tail]] = logData[tail]]
      /\ cache' = [cache EXCEPT ![lh[tail]] = logData[tail]]
      /\ mode' = IF tail = Len(lh) THEN "clear" ELSE "install"
      /\ UNCHANGED <<logHead, logData, pinned, lh, outstanding, committing, pc, wrote>>
  BY DEF RecoverInstall
<1>2. /\ lh = logHead /\ tail \in 1..Len(lh) /\ Len(lh) \in Nat /\ cache = disk
      /\ \A i \in 1..(tail - 1) : Installed(i)
  BY <1>1 DEF RecoveryProgress, TypeOK
<1>3. /\ disk' \in [Block -> Value] /\ cache' \in [Block -> Value]
      /\ \A i \in 1..tail : Installed(i)'
  BY <1>1, <1>2, CopyHome DEF Lists
<1>4. TypeOK' /\ CommitsAlone' /\ Lists'
  BY <1>1, <1>3 DEF TypeOK, CommitsAlone, Running, Lists, Entries
<1>5. Quiet' /\ CommitProgress'
  BY <1>1 DEF Quiet, CommitProgress
<1>6. RecoveryProgress'
  BY <1>1, <1>2, <1>3 DEF RecoveryProgress
<1> QED BY <1>4, <1>5, <1>6

LEMMA RecoverClearInv == ASSUME IInv, RecoverClear PROVE IInv'
<1> USE DEF IInv
<1>1. /\ mode = "clear" /\ lh' = <<>> /\ logHead' = <<>> /\ tail' = 1 /\ mode' = "run"
      /\ UNCHANGED <<disk, logData, cache, pinned, outstanding, committing, pc, wrote>>
  BY DEF RecoverClear
<1>2. cache = disk /\ pinned = {} /\ \A p \in Op : pc[p] = "idle"
  BY <1>1 DEF RecoveryProgress, Quiet
<1>3. \A s \in CommitPC : ~At(s)'
  BY <1>1, <1>2 DEF At, CommitPC
<1>4. TypeOK' /\ CommitsAlone'
  BY <1>1 DEF TypeOK, CommitsAlone, Running
<1>5. Lists'
  BY <1>1, LogAssumption DEF Lists, Entries
<1>6. CommitProgress'
  BY <1>1, <1>2, <1>3 DEF CommitProgress, CleanElsewhere, CommitPC
<1> QED BY <1>1, <1>4, <1>5, <1>6 DEF Quiet, RecoveryProgress

LEMMA NextIInv == IInv /\ [Next]_vars => IInv'
<1> SUFFICES ASSUME IInv, [Next]_vars PROVE IInv'
  OBVIOUS
<1>1. CASE UNCHANGED vars
  <2> USE <1>1 DEF vars, diskVars, kernelVars, IInv
  <2>1. TypeOK' /\ CommitsAlone' /\ Lists'
    BY DEF TypeOK, CommitsAlone, Running, Lists, Entries
  <2>2. Quiet' /\ RecoveryProgress' /\ CommitProgress'
    BY DEF Quiet, RecoveryProgress, CommitProgress, CleanElsewhere, Logged, Installed, At
  <2> QED BY <2>1, <2>2
<1>2. ASSUME NEW p \in Op, BeginOp(p) \/ LogWrite(p) \/ Panic(p) \/ EndOp(p) PROVE IInv'
  BY <1>2, BeginOpInv, LogWriteInv, PanicInv, EndOpInv
<1>3. ASSUME NEW p \in Op, CommitStep(p) PROVE IInv'
  BY <1>3, WriteLogInv, WriteHeadInv, InstallInv, ClearHeadInv, FinishInv DEF CommitStep
<1>4. CASE Crash \/ Recovery
  BY <1>4, CrashInv, ReadHeadInv, RecoverInstallInv, RecoverClearInv DEF Recovery
<1> QED BY <1>1, <1>2, <1>3, <1>4 DEF Next

\* The facts the other theorems rest on hold in every reachable state.
THEOREM LogInvariance == Spec => []IInv
BY InitIInv, NextIInv, PTL DEF Spec

\* commit() has the log, the cache and the disk to itself although it holds no lock:
\* no call is under way, and nobody else commits.
THEOREM CommitIsAlone == Spec => []CommitsAlone
<1>1. IInv => CommitsAlone
  BY DEF IInv
<1> QED BY <1>1, LogInvariance, PTL

-----------------------------------------------------------------------------
\* Sleepers.

\* Between the calls the log is empty, so there is nothing a call could wait for.
EmptyBetweenCalls ==
    mode \in {"run", "panic"} /\ outstanding = 0 /\ ~committing => lh = <<>>

\* With an empty log and no call under way, begin_op admits the call.
LEMMA RoomForOne == ASSUME lh = <<>>, outstanding = 0 PROVE ~Full
BY LogAssumption DEF Full, LogSize

LEMMA MoreIsFuller ==
    ASSUME NEW a \in Nat, NEW b \in Nat, a <= b, NEW o \in Nat, NEW m \in Nat, NEW s \in Nat,
           a + (o + 1) * m > s
    PROVE  b + (o + 1) * m > s /\ b + (o + 1 + 1) * m > s
<1>1. (o + 1) * m \in Nat
  OBVIOUS
<1>2. (o + 1 + 1) * m = (o + 1) * m + m
  OBVIOUS
<1>3. b + (o + 1) * m > s
  BY <1>1
<1>4. b + ((o + 1) * m + m) > s
  BY <1>1, <1>3
<1> QED BY <1>2, <1>3, <1>4

\* One more call or one more block leaves the log full.
LEMMA FullStaysFull ==
    ASSUME TypeOK, TypeOK', Full,
           Len(lh) <= Len(lh'), outstanding' \in {outstanding, outstanding + 1}
    PROVE  Full'
<1>1. outstanding \in Nat /\ Len(lh) \in Nat /\ Len(lh') \in Nat /\ MaxOpBlocks \in Nat
  BY LogAssumption DEF TypeOK
<1>2. LogSize \in Nat /\ LogSize' = LogSize
  BY <1>1 DEF LogSize
<1>3. Len(lh) + (outstanding + 1) * MaxOpBlocks > LogSize
  BY DEF Full
<1>4. /\ Len(lh') + (outstanding + 1) * MaxOpBlocks > LogSize
      /\ Len(lh') + (outstanding + 1 + 1) * MaxOpBlocks > LogSize
  BY <1>1, <1>2, <1>3, MoreIsFuller
<1>5. Full' <=> Len(lh') + (outstanding' + 1) * MaxOpBlocks > LogSize
  BY <1>2 DEF Full
<1>6. CASE outstanding' = outstanding
  BY <1>4, <1>5, <1>6
<1>7. CASE outstanding' = outstanding + 1
  BY <1>4, <1>5, <1>7
<1> QED BY <1>6, <1>7

LEMMA SleepersStep ==
    IInv /\ IInv' /\ EmptyBetweenCalls /\ SleepersMustWait /\ [Next]_vars
        => EmptyBetweenCalls' /\ SleepersMustWait'
<1> SUFFICES ASSUME IInv, IInv', EmptyBetweenCalls, SleepersMustWait, [Next]_vars
             PROVE  EmptyBetweenCalls' /\ SleepersMustWait'
  OBVIOUS
<1>0. TypeOK /\ TypeOK' /\ CommitsAlone /\ CommitsAlone' /\ pc \in [Op -> PC]
  BY DEF IInv, TypeOK
<1>1. CASE UNCHANGED vars
  BY <1>1 DEF vars, diskVars, kernelVars, EmptyBetweenCalls, SleepersMustWait, Full, Running
<1>2. ASSUME NEW p \in Op, BeginOp(p) PROVE EmptyBetweenCalls' /\ SleepersMustWait'
  <2>1. mode = "run" /\ UNCHANGED <<lh, committing, mode>>
    BY <1>2 DEF BeginOp, Up
  <2>2. CASE committing \/ Full
    <3>1. pc' = [pc EXCEPT ![p] = "sleep"] /\ outstanding' = outstanding /\ Running' = Running
      BY <1>0, <1>2, <2>2 DEF BeginOp, Running
    <3>2. Full' = Full
      BY <2>1, <3>1 DEF Full, LogSize
    <3>3. ~committing => Running # {}
      <4>1. Running = {} => outstanding = 0
        BY <1>0, FS_EmptySet DEF CommitsAlone
      <4> QED BY <2>1, <2>2, <4>1, RoomForOne DEF EmptyBetweenCalls
    <3> QED BY <1>0, <2>1, <2>2, <3>1, <3>2, <3>3 DEF EmptyBetweenCalls, SleepersMustWait
  <2>3. CASE ~(committing \/ Full)
    <3>1. pc' = [pc EXCEPT ![p] = "op"] /\ outstanding' = outstanding + 1 /\ outstanding' # 0
      BY <1>0, <1>2, <2>3 DEF BeginOp, TypeOK
    <3>2. \A q \in Op : pc'[q] # "sleep"
      BY <1>0, <2>3, <3>1 DEF SleepersMustWait
    <3> QED BY <3>1, <3>2 DEF EmptyBetweenCalls, SleepersMustWait
  <2> QED BY <2>2, <2>3
<1>3. ASSUME NEW p \in Op, LogWrite(p) PROVE EmptyBetweenCalls' /\ SleepersMustWait'
  <2>1. /\ UNCHANGED <<pc, committing, outstanding>> /\ Running' = Running /\ p \in Running
    BY <1>3 DEF LogWrite, Running
  <2>2. Len(lh) <= Len(lh')
    BY <1>0, <1>3 DEF LogWrite, TypeOK
  <2>3. outstanding # 0
    BY <1>0, <2>1, RunningFinite, FS_EmptySet DEF CommitsAlone
  <2>4. Full => Full'
    BY <1>0, <2>1, <2>2, FullStaysFull
  <2> QED BY <2>1, <2>3, <2>4 DEF EmptyBetweenCalls, SleepersMustWait
<1>4. ASSUME NEW p \in Op, Panic(p) PROVE EmptyBetweenCalls' /\ SleepersMustWait'
  <2>1. UNCHANGED <<pc, committing, outstanding, lh>> /\ mode = "run" /\ Running' = Running
    BY <1>4 DEF Panic, Up, kernelVars, Running
  <2>2. Full' = Full
    BY <2>1 DEF Full, LogSize
  <2> QED BY <2>1, <2>2 DEF EmptyBetweenCalls, SleepersMustWait
<1>5. ASSUME NEW p \in Op, EndOp(p) PROVE EmptyBetweenCalls' /\ SleepersMustWait'
  <2>1. CASE outstanding = 1
    BY <1>5, <2>1 DEF EndOp, EmptyBetweenCalls, SleepersMustWait
  <2>2. CASE outstanding # 1
    <3>1. outstanding' = outstanding - 1 /\ outstanding' # 0
      BY <1>0, <1>5, <2>2 DEF EndOp, TypeOK
    <3>2. \A q \in Op : pc'[q] # "sleep"
      BY <1>0, <1>5, <2>2 DEF EndOp, Awake
    <3> QED BY <3>1, <3>2 DEF EmptyBetweenCalls, SleepersMustWait
  <2> QED BY <2>1, <2>2
<1>6. ASSUME NEW p \in Op,
             WriteLog(p) \/ WriteHead(p) \/ Install(p) \/ ClearHead(p)
      PROVE  EmptyBetweenCalls' /\ SleepersMustWait'
  <2>1. committing /\ committing' = committing
    BY <1>0, <1>6 DEF WriteLog, WriteHead, Install, ClearHead, CommitsAlone, CommitPC
  <2> QED BY <2>1 DEF EmptyBetweenCalls, SleepersMustWait
<1>7. ASSUME NEW p \in Op, Finish(p) PROVE EmptyBetweenCalls' /\ SleepersMustWait'
  <2>1. lh = <<>> /\ lh' = <<>>
    BY <1>7 DEF Finish, Up, IInv, CommitProgress, At
  <2>2. \A q \in Op : pc'[q] # "sleep"
    BY <1>0, <1>7 DEF Finish, Awake
  <2> QED BY <2>1, <2>2 DEF EmptyBetweenCalls, SleepersMustWait
<1>8. CASE Crash \/ Recovery
  <2>1. \A q \in Op : pc'[q] = "idle"
    BY <1>8 DEF Crash, Recovery, ReadHead, RecoverInstall, RecoverClear, IInv, Quiet
  <2>2. mode' = "run" => lh' = <<>>
    BY <1>8 DEF Crash, Recovery, ReadHead, RecoverInstall, RecoverClear
  <2>3. mode' # "panic"
    BY <1>8 DEF Crash, Recovery, ReadHead, RecoverInstall, RecoverClear
  <2> QED BY <2>1, <2>2, <2>3 DEF EmptyBetweenCalls, SleepersMustWait
<1> QED BY <1>1, <1>2, <1>3, <1>4, <1>5, <1>6, <1>7, <1>8 DEF Next, CommitStep

\* Whoever sleeps in begin_op does so for a condition that still holds, and a call or
\* a commit is under way that will call wakeup: no sleeper is forgotten, although
\* begin_op and end_op are called in any order.
THEOREM NobodyForgotten == Spec => []SleepersMustWait
<1>1. Init => EmptyBetweenCalls /\ SleepersMustWait
  BY DEF Init, EmptyBetweenCalls, SleepersMustWait
<1>2. IInv /\ IInv' /\ EmptyBetweenCalls /\ SleepersMustWait /\ [Next]_vars
          => EmptyBetweenCalls' /\ SleepersMustWait'
  BY SleepersStep
<1> QED BY <1>1, <1>2, LogInvariance, PTL DEF Spec

-----------------------------------------------------------------------------
\* The space in the log.

\* A call writes at most MAXOPBLOCKS blocks, which are in lh; who makes no call has
\* written nothing.
OwnBlocks == \A p \in Op : /\ IsFiniteSet(wrote[p]) /\ Cardinality(wrote[p]) <= MaxOpBlocks
                           /\ \A b \in wrote[p] : \E i \in 1..Len(lh) : lh[i] = b
                           /\ pc[p] # "op" => wrote[p] = {}

Space == OwnBlocks /\ ReservationHolds

\* All that is reserved is some of what the running calls were promised.
LEMMA ReservedFinite ==
    ASSUME TypeOK
    PROVE  /\ IsFiniteSet(Reserved) /\ Cardinality(Reserved) \in Nat
           /\ Cardinality(Reserved) <= Cardinality(Running) * MaxOpBlocks
<1>1. IsFiniteSet(1..MaxOpBlocks) /\ Cardinality(1..MaxOpBlocks) = MaxOpBlocks
  BY LogAssumption, FS_Interval
<1>2. /\ IsFiniteSet(Running \X (1..MaxOpBlocks))
      /\ Cardinality(Running \X (1..MaxOpBlocks)) = Cardinality(Running) * MaxOpBlocks
  BY <1>1, RunningFinite, FS_Product
<1>3. Reserved \subseteq Running \X (1..MaxOpBlocks)
  BY DEF Reserved
<1> QED BY <1>2, <1>3, FS_Subset, FS_CardinalityType

LEMMA NoBlocks == IsFiniteSet({}) /\ Cardinality({}) <= MaxOpBlocks
<1>1. IsFiniteSet({}) /\ Cardinality({}) = 0
  BY FS_EmptySet
<1> QED BY <1>1, LogAssumption

LEMMA LogWriteSpace ==
    ASSUME IInv, IInv', Space, NEW p \in Op, LogWrite(p) PROVE Space'
<1>1. PICK b \in MayWrite(p) :
         /\ lh' = IF b \in ToSet(lh) THEN lh ELSE Append(lh, b)
         /\ wrote' = [wrote EXCEPT ![p] = @ \cup {b}]
  BY DEF LogWrite
<1>2. /\ TypeOK /\ TypeOK' /\ mode = "run" /\ p \in Running /\ Running' = Running
      /\ pc' = pc /\ pc[p] = "op"
  BY DEF IInv, LogWrite, Up, Running
<1>3. /\ lh \in Seq(Block) /\ b \in Block /\ wrote \in [Op -> SUBSET Block]
      /\ Len(lh) \in Nat /\ LogSize \in Nat
  BY <1>1, <1>2, LogAssumption DEF TypeOK, MayWrite, LogSize
<1>4. wrote'[p] = wrote[p] \cup {b} /\ \A q \in Op : q # p => wrote'[q] = wrote[q]
  BY <1>1, <1>3
<1>5. /\ IsFiniteSet(wrote'[p])
      /\ Cardinality(wrote[p]) \in Nat /\ Cardinality(wrote'[p]) \in Nat
      /\ Cardinality(wrote'[p]) = IF b \in wrote[p] THEN Cardinality(wrote[p])
                                                   ELSE Cardinality(wrote[p]) + 1
  BY <1>4, FS_AddElement, FS_CardinalityType DEF Space, OwnBlocks
<1>6. b \in wrote[p] \/ Cardinality(wrote[p]) < MaxOpBlocks
  BY <1>1 DEF MayWrite
<1>7. /\ \E i \in 1..Len(lh') : lh'[i] = b
      /\ \A c : (\E i \in 1..Len(lh) : lh[i] = c) => \E i \in 1..Len(lh') : lh'[i] = c
  <2>1. CASE b \in ToSet(lh)
    BY <1>1, <1>3, <2>1, ToSetIndex
  <2>2. CASE b \notin ToSet(lh)
    <3>1. lh' = Append(lh, b) /\ Len(lh') = Len(lh) + 1 /\ lh'[Len(lh) + 1] = b
      BY <1>1, <1>3, <2>2
    <3>2. \A i \in 1..Len(lh) : i \in 1..Len(lh') /\ lh'[i] = lh[i]
      BY <1>3, <3>1
    <3>3. Len(lh) + 1 \in 1..Len(lh')
      BY <1>3, <3>1
    <3> QED BY <3>1, <3>2, <3>3
  <2> QED BY <2>1, <2>2
<1>8. OwnBlocks'
  <2> SUFFICES ASSUME NEW q \in Op
               PROVE  /\ IsFiniteSet(wrote'[q]) /\ Cardinality(wrote'[q]) <= MaxOpBlocks
                      /\ \A c \in wrote'[q] : \E i \in 1..Len(lh') : lh'[i] = c
                      /\ pc'[q] # "op" => wrote'[q] = {}
    BY DEF OwnBlocks
  <2>1. CASE q = p
    <3>1. Cardinality(wrote'[p]) <= MaxOpBlocks
      BY <1>5, <1>6, LogAssumption DEF Space, OwnBlocks
    <3>2. \A c \in wrote'[p] : \E i \in 1..Len(lh') : lh'[i] = c
      BY <1>4, <1>7 DEF Space, OwnBlocks
    <3> QED BY <1>2, <1>5, <2>1, <3>1, <3>2
  <2>2. CASE q # p
    BY <1>2, <1>4, <1>7, <2>2 DEF Space, OwnBlocks
  <2> QED BY <2>1, <2>2
<1>9. Reserved' \subseteq Reserved
  <2> SUFFICES ASSUME NEW r \in Reserved' PROVE r \in Reserved
    OBVIOUS
  <2>1. r \in Running \X (1..MaxOpBlocks) /\ r[2] > Cardinality(wrote'[r[1]])
    BY <1>2 DEF Reserved
  <2>2. r[1] \in Op /\ r[2] \in Nat
    BY <2>1, LogAssumption DEF Running
  <2>3. r[2] > Cardinality(wrote[r[1]])
    <3>1. CASE r[1] = p
      BY <1>5, <2>1, <2>2, <3>1
    <3>2. CASE r[1] # p
      BY <1>4, <2>1, <2>2, <3>2
    <3> QED BY <3>1, <3>2
  <2> QED BY <2>1, <2>3 DEF Reserved
<1>10. Cardinality(Reserved') <= Cardinality(Reserved) /\ Cardinality(Reserved') \in Nat
  BY <1>2, <1>9, ReservedFinite, FS_Subset, FS_CardinalityType
<1>11. CASE b \in ToSet(lh)
  BY <1>1, <1>2, <1>3, <1>8, <1>10, <1>11, ReservedFinite DEF Space, ReservationHolds
<1>12. CASE b \notin ToSet(lh)
  <2>1. b \notin wrote[p]
    BY <1>3, <1>12, ToSetIndex DEF Space, OwnBlocks
  <2> DEFINE slot == <<p, Cardinality(wrote[p]) + 1>>
  <2>2. slot \in Reserved /\ slot \notin Reserved'
    <3>1. slot[1] = p /\ slot[2] = Cardinality(wrote[p]) + 1 /\ slot[2] = Cardinality(wrote'[p])
      BY <1>5, <2>1
    <3>2. slot \in Running \X (1..MaxOpBlocks)
      BY <1>2, <1>5, <1>6, <2>1, LogAssumption
    <3>3. slot \in Reserved
      BY <1>5, <3>1, <3>2 DEF Reserved
    <3>4. ~(slot[2] > Cardinality(wrote'[slot[1]]))
      BY <1>5, <3>1
    <3> QED BY <3>3, <3>4 DEF Reserved
  <2>3. Reserved' \subseteq Reserved \ {slot}
    BY <1>9, <2>2
  <2>4. Cardinality(Reserved') <= Cardinality(Reserved) - 1
    <3>1. IsFiniteSet(Reserved \ {slot}) /\ Cardinality(Reserved \ {slot}) = Cardinality(Reserved) - 1
      BY <1>2, <2>2, ReservedFinite, FS_RemoveElement
    <3> QED BY <2>3, <3>1, FS_Subset
  <2>5. Len(lh') = Len(lh) + 1
    BY <1>1, <1>3, <1>12
  <2> QED BY <1>2, <1>3, <1>8, <1>10, <2>4, <2>5, ReservedFinite DEF Space, ReservationHolds
<1> QED BY <1>11, <1>12

LEMMA SpaceStep ==
    ASSUME IInv, IInv', Space, [Next]_vars PROVE Space'
<1>0. /\ TypeOK /\ TypeOK' /\ CommitsAlone /\ CommitsAlone' /\ lh \in Seq(Block)
      /\ Len(lh) \in Nat /\ LogSize \in Nat
  BY LogAssumption DEF IInv, TypeOK, LogSize
<1>1. CASE UNCHANGED vars
  BY <1>1 DEF vars, diskVars, kernelVars, Space, OwnBlocks, ReservationHolds, Reserved, Running
<1>2. ASSUME NEW p \in Op, BeginOp(p) PROVE Space'
  <2>1. UNCHANGED <<lh, wrote, mode>> /\ mode = "run" /\ pc[p] # "op"
    BY <1>2 DEF BeginOp, Up
  <2>2. CASE committing \/ Full
    <3>1. Running' = Running /\ \A q \in Op : pc'[q] # "op" => pc[q] # "op"
      BY <1>0, <1>2, <2>2 DEF BeginOp, Running, TypeOK
    <3> QED BY <2>1, <3>1 DEF Space, OwnBlocks, ReservationHolds, Reserved
  <2>3. CASE ~(committing \/ Full)
    <3>1. pc' = [pc EXCEPT ![p] = "op"] /\ outstanding' = outstanding + 1
      BY <1>2, <2>3 DEF BeginOp
    <3>2. OwnBlocks'
      BY <1>0, <2>1, <3>1 DEF Space, OwnBlocks, TypeOK
    <3>3. Len(lh) + (outstanding + 1) * MaxOpBlocks <= LogSize
      BY <1>0, <2>3, LogAssumption DEF Full, TypeOK
    <3>4. (TypeOK => /\ Cardinality(Reserved) \in Nat
                     /\ Cardinality(Reserved) <= Cardinality(Running) * MaxOpBlocks)'
      BY ReservedFinite, PTL
    <3>5. Cardinality(Reserved') \in Nat /\ Cardinality(Reserved') <= (outstanding + 1) * MaxOpBlocks
      BY <1>0, <3>1, <3>4 DEF CommitsAlone
    <3>6. (outstanding + 1) * MaxOpBlocks \in Int
      BY <1>0, LogAssumption DEF TypeOK
    <3>7. Len(lh) + Cardinality(Reserved') <= LogSize
      BY <1>0, <3>3, <3>5, <3>6
    <3> QED BY <2>1, <3>2, <3>7 DEF Space, ReservationHolds
  <2> QED BY <2>2, <2>3
<1>3. ASSUME NEW p \in Op, LogWrite(p) PROVE Space'
  BY <1>3, LogWriteSpace
<1>4. ASSUME NEW p \in Op, Panic(p) PROVE Space'
  BY <1>4 DEF Panic, Up, kernelVars, Space, OwnBlocks, ReservationHolds
<1>5. ASSUME NEW p \in Op, EndOp(p) PROVE Space'
  <2>1. /\ UNCHANGED <<lh, mode>> /\ mode = "run" /\ wrote' = [wrote EXCEPT ![p] = {}]
        /\ pc[p] = "op" /\ \A q \in Op : q # p => (pc'[q] = "op" <=> pc[q] = "op")
        /\ pc'[p] # "op"
    BY <1>0, <1>5 DEF EndOp, Up, Awake, TypeOK
  <2>2. OwnBlocks'
    <3> SUFFICES ASSUME NEW q \in Op
                 PROVE  /\ IsFiniteSet(wrote'[q]) /\ Cardinality(wrote'[q]) <= MaxOpBlocks
                        /\ \A c \in wrote'[q] : \E i \in 1..Len(lh') : lh'[i] = c
                        /\ pc'[q] # "op" => wrote'[q] = {}
      BY DEF OwnBlocks
    <3>1. CASE q = p
      BY <1>0, <2>1, <3>1, FS_EmptySet, LogAssumption DEF TypeOK
    <3>2. CASE q # p
      BY <1>0, <2>1, <3>2 DEF Space, OwnBlocks, TypeOK
    <3> QED BY <3>1, <3>2
  <2>3. Reserved' \subseteq Reserved
    BY <1>0, <2>1 DEF Reserved, Running, TypeOK
  <2>4. Cardinality(Reserved') <= Cardinality(Reserved) /\ Cardinality(Reserved') \in Nat
    BY <1>0, <2>3, ReservedFinite, FS_Subset, FS_CardinalityType
  <2> QED BY <1>0, <2>1, <2>2, <2>4, ReservedFinite DEF Space, ReservationHolds
<1>6. ASSUME NEW p \in Op, CommitStep(p) PROVE Space'
  <2>1. Running = {} /\ pc[p] \in CommitPC
    BY <1>6, OneCommitter DEF CommitStep, WriteLog, WriteHead, Install, ClearHead, Finish, CommitPC
  <2>2. /\ wrote' = wrote /\ mode' = mode /\ (lh' = lh \/ lh' = <<>>) /\ mode = "run"
    BY <1>6 DEF CommitStep, WriteLog, WriteHead, Install, ClearHead, Finish, Up
  <2>3. \A q \in Op : pc'[q] # "op"
    BY <1>0, <1>6, <2>1 DEF CommitStep, WriteLog, WriteHead, Install, ClearHead, Finish, Awake,
                           Running, TypeOK
  <2>4. \A q \in Op : wrote[q] = {}
    BY <2>1 DEF Space, OwnBlocks, Running
  <2>5. OwnBlocks'
    BY <2>2, <2>4, NoBlocks DEF OwnBlocks
  <2>6. Cardinality(Reserved) = 0 /\ Cardinality(Reserved') = 0
    <3>1. Reserved = {} /\ Reserved' = {}
      BY <2>1, <2>3 DEF Reserved, Running
    <3> QED BY <3>1, FS_EmptySet
  <2>7. Len(lh) <= LogSize
    BY <1>0, <2>2, <2>6 DEF Space, ReservationHolds
  <2>8. Len(lh') <= LogSize /\ Len(lh') \in Nat
    BY <1>0, <2>2, <2>7
  <2> QED BY <2>5, <2>6, <2>8 DEF Space, ReservationHolds
<1>7. CASE Crash \/ Recovery
  <2>1. \A q \in Op : wrote'[q] = {} /\ pc'[q] = "idle"
    <3>1. CASE Crash
      BY <3>1 DEF Crash
    <3>2. CASE Recovery
      BY <3>2 DEF Recovery, ReadHead, RecoverInstall, RecoverClear, IInv, Quiet, Space, OwnBlocks
    <3> QED BY <1>7, <3>1, <3>2
  <2>2. OwnBlocks'
    BY <2>1, NoBlocks DEF OwnBlocks
  <2>3. mode' = "run" => lh' = <<>>
    BY <1>7 DEF Crash, Recovery, ReadHead, RecoverInstall, RecoverClear
  <2>4. Cardinality(Reserved') = 0
    <3>1. Reserved' = {}
      BY <2>1 DEF Reserved, Running
    <3> QED BY <3>1, FS_EmptySet
  <2> QED BY <1>0, <2>2, <2>3, <2>4 DEF Space, ReservationHolds
<1> QED BY <1>1, <1>2, <1>3, <1>4, <1>5, <1>6, <1>7 DEF Next

\* The reservation of begin_op is never overdrawn: in whatever order calls of up to
\* MAXOPBLOCKS blocks begin, share blocks and end, LOGSIZE entries are enough for all that
\* is logged and all that may still be.
THEOREM ReservationIsEnough == Spec => []ReservationHolds
<1>1. Init => Space
  <2> SUFFICES ASSUME Init PROVE Space
    OBVIOUS
  <2>1. OwnBlocks
    BY FS_EmptySet, LogAssumption DEF Init, OwnBlocks
  <2> QED BY <2>1 DEF Init, Space, ReservationHolds
<1>2. IInv /\ IInv' /\ Space /\ [Next]_vars => Space'
  BY SpaceStep
<1>3. Space => ReservationHolds
  BY DEF Space
<1> QED BY <1>1, <1>2, <1>3, LogInvariance, PTL DEF Spec

-----------------------------------------------------------------------------
\* The refinement.

\* The disk as a restart finds it, when the header on the disk is empty, and when it
\* lists the blocks of lh.
LEMMA StableWithoutLog == TypeOK /\ logHead = <<>> => Stable = disk
BY DEF Stable, ToSet, TypeOK

LEMMA StableWithLog ==
    ASSUME TypeOK, Entries(logHead)
    PROVE  /\ \A i \in 1..Len(logHead) : Stable[logHead[i]] = logData[i]
           /\ \A b \in Block : (\A i \in 1..Len(logHead) : logHead[i] # b) => Stable[b] = disk[b]
           /\ Stable \in [Block -> Value]
<1>1. logHead \in Seq(Block) /\ DOMAIN logHead = 1..Len(logHead) /\ Len(logHead) \in Nat
  BY DEF TypeOK
<1>2. \A i \in 1..Len(logHead) : logHead[i] \in Block /\ logHead[i] \in ToSet(logHead)
  BY <1>1 DEF ToSet
<1>3. \A i \in 1..Len(logHead) :
         (CHOOSE j \in DOMAIN logHead : logHead[j] = logHead[i]) = i
  BY <1>1 DEF Entries
<1>4. \A i \in 1..Len(logHead) : Stable[logHead[i]] = logData[i]
  BY <1>2, <1>3 DEF Stable
<1>5. \A b \in Block : (\A i \in 1..Len(logHead) : logHead[i] # b) => Stable[b] = disk[b]
  BY <1>1 DEF Stable, ToSet
<1>6. \A b \in Block : Stable[b] \in Value
  <2> SUFFICES ASSUME NEW b \in Block PROVE Stable[b] \in Value
    OBVIOUS
  <2>1. CASE \A i \in 1..Len(logHead) : logHead[i] # b
    BY <1>5, <2>1 DEF TypeOK
  <2>2. ASSUME NEW i \in 1..Len(logHead), logHead[i] = b PROVE Stable[b] \in Value
    BY <1>1, <1>4, <2>2, LogAssumption DEF TypeOK, Entries
  <2> QED BY <2>1, <2>2
<1>7. Stable = [b \in Block |-> Stable[b]]
  BY DEF Stable
<1> QED BY <1>4, <1>5, <1>6, <1>7

\* A step that touches neither disk nor header leaves what a restart finds.
LEMMA StableUnchanged == ASSUME UNCHANGED diskVars PROVE Stable' = Stable
BY DEF diskVars, Stable

\* The same blocks are found before and after a copy home of a logged block.
LEMMA StableInstall ==
    ASSUME TypeOK, TypeOK', Entries(logHead), lh = logHead, tail \in 1..Len(lh),
           disk' = [disk EXCEPT ![lh[tail]] = logData[tail]],
           UNCHANGED <<logHead, logData>>
    PROVE  Stable' = Stable
<1>1. lh[tail] \in ToSet(logHead)
  BY DEF ToSet, TypeOK
<1>2. \A b \in Block : b \notin ToSet(logHead) => disk'[b] = disk[b]
  BY <1>1 DEF TypeOK
<1> QED BY <1>2 DEF Stable

\* With everything logged, the log over the disk is the cache: the commit point.
LEMMA StableIsCache ==
    TypeOK /\ Entries(logHead) /\ lh = logHead /\ CleanElsewhere
        /\ (\A i \in 1..Len(lh) : Logged(i)) => Stable = cache
<1> SUFFICES ASSUME TypeOK, Entries(logHead), lh = logHead, CleanElsewhere,
                    \A i \in 1..Len(lh) : Logged(i)
             PROVE  Stable = cache
  OBVIOUS
<1>1. \A b \in Block : Stable[b] = cache[b]
  BY StableWithLog DEF CleanElsewhere, Logged
<1>2. Stable \in [Block -> Value] /\ cache \in [Block -> Value]
  BY StableWithLog DEF TypeOK
<1> QED BY <1>1, <1>2

\* With everything copied home, the log over the disk is the disk.
LEMMA StableIsDisk ==
    ASSUME TypeOK, Entries(logHead), lh = logHead, \A i \in 1..Len(lh) : Installed(i)
    PROVE  Stable = disk
<1>1. \A b \in Block : Stable[b] = disk[b]
  BY StableWithLog DEF Installed
<1>2. Stable \in [Block -> Value] /\ disk \in [Block -> Value]
  BY StableWithLog DEF TypeOK
<1> QED BY <1>1, <1>2

\* The current contents, as the refinement mapping defines them.
Current == IF mode \in {"run", "panic"} THEN cache ELSE Stable

LEMMA CallsRefine ==
    ASSUME IInv, NEW p \in Op, BeginOp(p) \/ LogWrite(p) \/ Panic(p) \/ EndOp(p)
    PROVE  [Atomic!Next]_<<Stable, Current, Running>>
<1>1. pc \in [Op -> PC] /\ mode = "run"
  BY DEF IInv, TypeOK, BeginOp, LogWrite, Panic, EndOp, Up
<1>2. Stable' = Stable
  BY StableUnchanged DEF BeginOp, LogWrite, Panic, EndOp
<1>3. CASE BeginOp(p)
  <2>1. Current' = Current
    BY <1>1, <1>3 DEF BeginOp, Current
  <2>2. CASE committing \/ Full
    <3>1. Running' = Running
      BY <1>1, <1>3, <2>2 DEF BeginOp, Running
    <3> QED BY <1>2, <2>1, <3>1
  <2>3. CASE ~(committing \/ Full)
    <3>1. p \notin Running /\ Running' = Running \cup {p}
      BY <1>1, <1>3, <2>3 DEF BeginOp, Running
    <3>2. Atomic!Begin(p)
      BY <1>2, <2>1, <3>1 DEF Atomic!Begin, Current
    <3> QED BY <3>2 DEF Atomic!Next
  <2> QED BY <2>2, <2>3
<1>4. CASE LogWrite(p)
  <2>1. PICK b \in Block, v \in Value : cache' = [cache EXCEPT ![b] = v]
    BY <1>4 DEF LogWrite, MayWrite
  <2>2. p \in Running /\ Running' = Running /\ mode' = mode
    BY <1>4 DEF LogWrite, Running
  <2>3. Atomic!Write(p, b, v)
    BY <1>1, <1>2, <2>1, <2>2 DEF Atomic!Write
  <2> QED BY <2>3 DEF Atomic!Next
<1>5. CASE Panic(p)
  BY <1>1, <1>2, <1>5 DEF Panic, Current, Running, kernelVars
<1>6. CASE EndOp(p)
  <2>1. p \in Running /\ Running' = Running \ {p}
    BY <1>1, <1>6 DEF EndOp, Running, Awake
  <2>2. Current' = Current
    BY <1>1, <1>6 DEF EndOp, Current
  <2>3. Atomic!End(p)
    BY <1>2, <2>1, <2>2 DEF Atomic!End, Current
  <2> QED BY <2>3 DEF Atomic!Next
<1> QED BY <1>3, <1>4, <1>5, <1>6

LEMMA CommitRefines ==
    ASSUME IInv, IInv', NEW p \in Op, CommitStep(p)
    PROVE  [Atomic!Next]_<<Stable, Current, Running>>
<1>1. /\ TypeOK /\ TypeOK' /\ Lists /\ Lists' /\ mode = "run" /\ mode' = "run"
      /\ pc[p] \in CommitPC /\ CommitProgress /\ CommitProgress'
  BY DEF IInv, CommitStep, WriteLog, WriteHead, Install, ClearHead, Finish, Up, CommitPC
<1>2. Running = {} /\ \A s \in CommitPC : At(s) <=> pc[p] = s
  BY <1>1, OneCommitter
<1>3. Running' = {}
  <2>1. CASE Finish(p)
    BY <1>1, <1>2, <2>1 DEF Finish, Awake, Running, TypeOK
  <2>2. CASE ~Finish(p)
    <3>1. committing'
      BY <1>1, <2>2, OneCommitter DEF CommitStep, WriteLog, WriteHead, Install, ClearHead
    <3> QED BY <3>1 DEF IInv, CommitsAlone
  <2> QED BY <2>1, <2>2
<1>4. CASE WriteLog(p)
  <2>1. logHead = <<>> /\ logHead' = <<>> /\ disk' = disk /\ cache' = cache
    BY <1>1, <1>2, <1>4 DEF WriteLog, CommitProgress, CommitPC
  <2> QED BY <1>1, <1>2, <1>3, <2>1, StableWithoutLog DEF Current, Stable, ToSet
<1>5. CASE WriteHead(p)
  <2>1. /\ logHead' = lh /\ lh' = lh /\ cache' = cache /\ CleanElsewhere'
        /\ \A i \in 1..Len(lh) : Logged(i)'
    BY <1>1, <1>2, <1>5 DEF WriteHead, CommitProgress, CommitPC, CleanElsewhere, Logged
  <2>2. Stable' = cache
    <3>1. (TypeOK /\ Entries(logHead) /\ lh = logHead /\ CleanElsewhere
             /\ (\A i \in 1..Len(lh) : Logged(i)))'
      BY <1>1, <2>1 DEF Lists
    <3>2. (Stable = cache)'
      BY <3>1, StableIsCache, PTL
    <3> QED BY <2>1, <3>2
  <2>3. Atomic!Commit
    BY <1>1, <1>2, <1>3, <2>1, <2>2 DEF Atomic!Commit
  <2> QED BY <2>3 DEF Atomic!Next
<1>6. CASE Install(p)
  <2>1. /\ lh = logHead /\ tail \in 1..Len(lh) /\ cache' = cache
    <3>1. pc[p] = "install" /\ tail <= Len(lh)
      BY <1>6 DEF Install
    <3>2. lh = logHead /\ \A i \in 1..Len(lh) : Logged(i)
      BY <1>1, <1>2, <3>1 DEF CommitProgress, CommitPC
    <3>3. tail \in 1..Len(lh)
      BY <1>1, <3>1 DEF TypeOK
    <3> QED BY <1>1, <1>6, <3>2, <3>3 DEF Install, Logged, TypeOK
  <2>2. Stable' = Stable
    BY <1>1, <1>6, <2>1, StableInstall DEF Install, Lists
  <2> QED BY <1>1, <1>2, <1>3, <2>1, <2>2 DEF Current
<1>7. CASE ClearHead(p)
  <2>1. lh = logHead /\ \A i \in 1..Len(lh) : Installed(i)
    BY <1>1, <1>2, <1>7 DEF ClearHead, CommitProgress, CommitPC
  <2>2. Stable = disk
    BY <1>1, <2>1, StableIsDisk DEF Lists
  <2>3. logHead' = <<>> /\ disk' = disk /\ cache' = cache
    BY <1>7 DEF ClearHead
  <2>4. (TypeOK /\ logHead = <<>>)'
    BY <1>1, <2>3
  <2>5. (Stable = disk)'
    BY <2>4, StableWithoutLog, PTL
  <2> QED BY <1>1, <1>2, <1>3, <2>2, <2>3, <2>5 DEF Current
<1>8. CASE Finish(p)
  <2>1. Stable' = Stable /\ cache' = cache
    BY <1>8, StableUnchanged DEF Finish
  <2> QED BY <1>1, <1>2, <1>3, <2>1 DEF Current
<1> QED BY <1>4, <1>5, <1>6, <1>7, <1>8 DEF CommitStep

LEMMA RestartRefines ==
    ASSUME IInv, IInv', Crash \/ Recovery
    PROVE  [Atomic!Next]_<<Stable, Current, Running>>
<1>1. TypeOK /\ TypeOK' /\ Lists /\ Lists' /\ Quiet /\ RecoveryProgress
  BY DEF IInv
<1>2. Running' = {}
  BY <1>1 DEF Crash, Recovery, ReadHead, RecoverInstall, RecoverClear, Running, Quiet
<1>3. CASE Crash
  <2>1. Stable' = Stable /\ mode' = "boot"
    BY <1>3, StableUnchanged DEF Crash
  <2>2. Atomic!Crash
    BY <1>2, <2>1 DEF Atomic!Crash
  <2> QED BY <2>2 DEF Atomic!Next
<1>4. CASE ReadHead
  <2>1. Stable' = Stable /\ mode = "boot" /\ mode' \in {"install", "clear"}
    BY <1>4, StableUnchanged DEF ReadHead
  <2>2. Running = {}
    BY <1>1, <2>1 DEF Quiet, Running
  <2> QED BY <1>2, <2>1, <2>2 DEF Current
<1>5. CASE RecoverInstall
  <2>1. mode = "install" /\ mode' \in {"install", "clear"} /\ Running = {}
    BY <1>1, <1>5 DEF RecoverInstall, Quiet, Running
  <2>2. lh = logHead /\ tail \in 1..Len(lh)
    BY <1>1, <2>1 DEF RecoveryProgress, TypeOK
  <2>3. Stable' = Stable
    BY <1>1, <1>5, <2>2, StableInstall DEF RecoverInstall, Lists
  <2> QED BY <1>2, <2>1, <2>3 DEF Current
<1>6. CASE RecoverClear
  <2>1. mode = "clear" /\ mode' = "run" /\ Running = {}
    BY <1>1, <1>6 DEF RecoverClear, Quiet, Running
  <2>2. cache = disk /\ Stable = disk
    BY <1>1, <2>1, StableIsDisk DEF RecoveryProgress, Lists
  <2>3. logHead' = <<>> /\ disk' = disk /\ cache' = cache
    BY <1>6 DEF RecoverClear
  <2>4. (TypeOK /\ logHead = <<>>)'
    BY <1>1, <2>3
  <2>5. (Stable = disk)'
    BY <2>4, StableWithoutLog, PTL
  <2> QED BY <1>2, <2>1, <2>2, <2>3, <2>5 DEF Current
<1> QED BY <1>3, <1>4, <1>5, <1>6 DEF Recovery

\* The log implements the atomic disk: whatever the moment of a crash, during a commit or
\* a recovery, a restart finds the writes of whole groups of calls.
THEOREM LogIsAtomic == Spec => AtomicSpec
<1>1. Init => Atomic!Init
  <2> SUFFICES ASSUME Init PROVE Atomic!Init
    OBVIOUS
  <2>1. TypeOK /\ Entries(logHead)
    BY InitIInv DEF IInv, Lists
  <2>2. Stable = disk /\ disk \in [Block -> Value]
    BY <2>1, StableWithoutLog DEF Init
  <2>3. Running = {} /\ mode = "boot"
    BY DEF Init, Running
  <2> QED BY <2>2, <2>3 DEF Atomic!Init
<1>2. IInv /\ IInv' /\ [Next]_vars => [Atomic!Next]_(Atomic!vars)
  <2> SUFFICES ASSUME IInv, IInv', [Next]_vars
               PROVE  [Atomic!Next]_<<Stable, Current, Running>>
    BY DEF Atomic!vars, Current
  <2>1. CASE UNCHANGED vars
    <3>1. Stable' = Stable
      BY <2>1, StableUnchanged DEF vars
    <3> QED BY <2>1, <3>1 DEF vars, kernelVars, Current, Running
  <2>2. ASSUME NEW p \in Op, BeginOp(p) \/ LogWrite(p) \/ Panic(p) \/ EndOp(p)
        PROVE  [Atomic!Next]_<<Stable, Current, Running>>
    BY <2>2, CallsRefine
  <2>3. ASSUME NEW p \in Op, CommitStep(p)
        PROVE  [Atomic!Next]_<<Stable, Current, Running>>
    BY <2>3, CommitRefines
  <2>4. CASE Crash \/ Recovery
    BY <2>4, RestartRefines
  <2> QED BY <2>1, <2>2, <2>3, <2>4 DEF Next
<1> QED BY <1>1, <1>2, LogInvariance, PTL DEF Spec, AtomicSpec, Atomic!Spec

-----------------------------------------------------------------------------
\* The blocks of files.

Slot == 0..Files!MAXFILE

LogItem == {<<"inode">>} \cup ({"bitmap"} \X Nat) \cup ({"data"} \X (Nat \ {0}))

FileState == [bitmap : SUBSET DataBlock, a : [Slot -> DataBlock \cup {0}], size : Nat,
              logged : SUBSET LogItem, got : DataBlock \cup {0}, tot : Int, stop : BOOLEAN,
              panic : BOOLEAN]

\* The blocks that are marked are those of the file and the others', E; none has two places.
Sound(m, E) ==
    /\ ~m.panic
    /\ m.bitmap = E \cup ({m.a[i] : i \in Slot} \ {0})
    /\ \A i \in Slot : m.a[i] # 0 => m.a[i] \notin E
    /\ \A i, j \in Slot : m.a[i] = m.a[j] /\ m.a[i] # 0 => i = j

\* What every step of a call leaves as it is.
Keeps(m, s) ==
    /\ s.size = m.size /\ s.tot = m.tot /\ s.stop = m.stop /\ s.panic = m.panic
    /\ \A i \in Slot : m.a[i] # 0 => s.a[i] = m.a[i]

\* The slot of block bn, and whether the file has that block.
SlotOf(bn) == IF bn < NDIRECT THEN bn ELSE bn + 1
Has(a, bn) == a[SlotOf(bn)] # 0 /\ (bn >= NDIRECT => a[NDIRECT] # 0)

\* Of the blocks a transaction logs, those that are there on account of the indirect block,
\* which was z before it: its bit and itself if it is new, else itself at most.
Extra(m, z) == IF m.a[NDIRECT] # z THEN 2 ELSE IF <<"data", z>> \in m.logged THEN 1 ELSE 0

\* At most k others are logged.
Ledger(m, z, k) ==
    /\ IsFiniteSet(m.logged) /\ Cardinality(m.logged) <= k + Extra(m, z)
    /\ z # 0 => m.a[NDIRECT] = z
    /\ m.a[NDIRECT] # z => <<"data", m.a[NDIRECT]>> \in m.logged

LEMMA FilesSize == ASSUME NEW S PROVE Files!Cardinality(S) = Cardinality(S)
BY DEF Files!Cardinality, Cardinality

LEMMA FilesMin ==
    ASSUME NEW S \in SUBSET Nat, S # {}
    PROVE  Files!Min(S) \in S /\ \A y \in S : Files!Min(S) <= y
<1>1. PICK m \in S : \A y \in S : ~(<<y, m>> \in OpToRel(<, Nat))
  BY NatLessThanWellFounded, WFMin
<1>2. \A y \in S : y \in Nat /\ m \in Nat /\ ~(y < m)
  BY <1>1, Zenon DEF OpToRel
<1>3. \A y \in S : m <= y
  BY <1>2
<1> QED BY <1>1, <1>3 DEF Files!Min

\* balloc() takes a block that nobody has, or none.
LEMMA BallocTakes ==
    ASSUME Files!BlocksAssumption, NEW m \in FileState
    PROVE  \/ Files!balloc(m) = [m EXCEPT !.got = 0]
           \/ \E x \in DataBlock \ m.bitmap :
                 Files!balloc(m) = [m EXCEPT !.bitmap = @ \cup {x}, !.got = x,
                                             !.logged = @ \cup {Files!Bitmap(x), <<"data", x>>}]
<1>1. CASE DataBlock \subseteq m.bitmap
  BY <1>1 DEF Files!balloc
<1>2. CASE ~(DataBlock \subseteq m.bitmap)
  <2> DEFINE x == Files!Min(DataBlock \ m.bitmap)
  <2>1. x \in DataBlock \ m.bitmap
    BY <1>2, FilesMin DEF Files!BlocksAssumption
  <2>2. Files!balloc(m) = [m EXCEPT !.bitmap = @ \cup {x}, !.got = x,
                                    !.logged = @ \cup {Files!Bitmap(x), <<"data", x>>}]
    BY <1>2 DEF Files!balloc
  <2> QED BY <2>1, <2>2
<1> QED BY <1>1, <1>2

LEMMA NewItems ==
    ASSUME Files!BlocksAssumption, NEW x \in DataBlock
    PROVE  Files!Bitmap(x) \in LogItem /\ <<"data", x>> \in LogItem
<1>1. x \in Nat \ {0} /\ x \div BPB \in Nat
  BY DEF Files!BlocksAssumption
<1> QED BY <1>1 DEF LogItem, Files!Bitmap

\* The block in a slot, with a new one where there is none.
LEMMA SlotBlockGives ==
    ASSUME Files!BlocksAssumption, NEW m \in FileState, NEW i \in Slot, NEW E, Sound(m, E)
    PROVE  LET s == Files!SlotBlock(m, i)
           IN  /\ s \in FileState /\ Sound(s, E) /\ s.got = s.a[i] /\ Keeps(m, s)
               /\ \A j \in Slot : j # i => s.a[j] = m.a[j]
               /\ \/ s.logged = m.logged /\ s.a = m.a
                  \/ /\ m.a[i] = 0 /\ s.got \in DataBlock /\ s.got # 0
                     /\ s.logged = m.logged \cup {Files!Bitmap(s.got), <<"data", s.got>>}
<1>1. CASE m.a[i] # 0
  <2>1. Files!SlotBlock(m, i) = [m EXCEPT !.got = m.a[i]]
    BY <1>1 DEF Files!SlotBlock
  <2> QED BY <2>1 DEF FileState, Sound, Keeps
<1>2. CASE m.a[i] = 0 /\ Files!balloc(m) = [m EXCEPT !.got = 0]
  <2>1. Files!SlotBlock(m, i) = [m EXCEPT !.got = 0, !.a = [m.a EXCEPT ![i] = 0]]
    BY <1>2 DEF Files!SlotBlock, FileState
  <2>2. [m.a EXCEPT ![i] = 0] = m.a
    BY <1>2 DEF FileState
  <2>3. Files!SlotBlock(m, i) = [m EXCEPT !.got = 0]
    BY <2>1, <2>2 DEF FileState
  <2> QED BY <1>2, <2>3 DEF FileState, Sound, Keeps
<1>3. ASSUME m.a[i] = 0, NEW x \in DataBlock \ m.bitmap,
             Files!balloc(m) = [m EXCEPT !.bitmap = @ \cup {x}, !.got = x,
                                         !.logged = @ \cup {Files!Bitmap(x), <<"data", x>>}]
      PROVE  LET s == Files!SlotBlock(m, i)
             IN  /\ s \in FileState /\ Sound(s, E) /\ s.got = s.a[i] /\ Keeps(m, s)
                 /\ \A j \in Slot : j # i => s.a[j] = m.a[j]
                 /\ m.a[i] = 0 /\ s.got \in DataBlock /\ s.got # 0
                 /\ s.logged = m.logged \cup {Files!Bitmap(s.got), <<"data", s.got>>}
  <2> DEFINE s == Files!SlotBlock(m, i)
  <2>1. s = [m EXCEPT !.bitmap = @ \cup {x}, !.got = x, !.a = [m.a EXCEPT ![i] = x],
                      !.logged = @ \cup {Files!Bitmap(x), <<"data", x>>}]
    BY <1>3 DEF Files!SlotBlock, FileState
  <2> HIDE DEF s
  <2>2. x # 0 /\ {Files!Bitmap(x), <<"data", x>>} \subseteq LogItem
    BY NewItems DEF Files!BlocksAssumption
  <2>3. /\ s.bitmap = m.bitmap \cup {x} /\ s.got = x /\ s.a = [m.a EXCEPT ![i] = x]
        /\ s.logged = m.logged \cup {Files!Bitmap(x), <<"data", x>>}
        /\ s.size = m.size /\ s.tot = m.tot /\ s.stop = m.stop /\ s.panic = m.panic
    BY <2>1 DEF FileState
  <2>4. s \in FileState
    BY <2>1, <2>2 DEF FileState
  <2>5. /\ m.a \in [Slot -> DataBlock \cup {0}] /\ s.a[i] = x
        /\ \A j \in Slot : j # i => s.a[j] = m.a[j]
    BY <2>3 DEF FileState
  <2>6. Keeps(m, s)
    BY <1>3, <2>3, <2>5 DEF Keeps
  <2>7. \A j \in Slot : m.a[j] # 0 => m.a[j] \in m.bitmap /\ m.a[j] # x
    BY <1>3 DEF Sound
  <2>8. Sound(s, E)
    <3>1. x \notin E
      BY <1>3 DEF Sound
    <3>2. s.bitmap = E \cup ({s.a[j] : j \in Slot} \ {0})
      BY <1>3, <2>2, <2>3, <2>5 DEF Sound
    <3> QED BY <1>3, <2>3, <2>5, <2>7, <3>1, <3>2 DEF Sound
  <2> QED BY <1>3, <2>2, <2>3, <2>4, <2>5, <2>6, <2>8 DEF s
<1> QED BY <1>1, <1>2, <1>3, BallocTakes

-----------------------------------------------------------------------------
\* What the steps put on the ledger.

LEMMA OneMore ==
    ASSUME NEW S, IsFiniteSet(S), NEW x
    PROVE  /\ IsFiniteSet(S \cup {x}) /\ Cardinality(S) \in Nat
           /\ Cardinality(S \cup {x}) \in Nat /\ Cardinality(S \cup {x}) <= Cardinality(S) + 1
<1>1. Cardinality(S) \in Nat
  BY FS_CardinalityType
<1>2. /\ IsFiniteSet(S \cup {x})
      /\ Cardinality(S \cup {x}) = IF x \in S THEN Cardinality(S) ELSE Cardinality(S) + 1
  BY FS_AddElement
<1> QED BY <1>1, <1>2

\* A data block that is logged costs one at most, nothing if it is logged already.
LEMMA LedgerData ==
    ASSUME Files!BlocksAssumption, NEW m \in FileState, NEW s \in FileState, NEW z, NEW k \in Nat,
           Ledger(m, z, k), NEW x, s.logged = m.logged \cup {x}, s.a = m.a
    PROVE  /\ Ledger(s, z, k + 1)
           /\ x \in m.logged => Ledger(s, z, k)
<1>1. /\ IsFiniteSet(s.logged) /\ Cardinality(m.logged) \in Nat
      /\ Cardinality(s.logged) \in Nat /\ Cardinality(s.logged) <= Cardinality(m.logged) + 1
  <2>1. IsFiniteSet(m.logged)
    BY DEF Ledger
  <2>2. PICK L : L = m.logged
    OBVIOUS
  <2>3. /\ IsFiniteSet(L \cup {x}) /\ Cardinality(L) \in Nat
        /\ Cardinality(L \cup {x}) \in Nat /\ Cardinality(L \cup {x}) <= Cardinality(L) + 1
    BY <2>1, <2>2, OneMore
  <2> QED BY <2>2, <2>3
<1>2. Extra(m, z) \in Nat /\ Extra(s, z) \in Nat /\ Extra(m, z) <= Extra(s, z)
  BY DEF Extra
<1>3. Ledger(s, z, k + 1)
  BY <1>1, <1>2 DEF Ledger
<1>4. ASSUME x \in m.logged PROVE Ledger(s, z, k)
  <2>1. s.logged = m.logged
    BY <1>4
  <2>2. Extra(s, z) = Extra(m, z)
    BY <2>1 DEF Extra
  <2> QED BY <2>1, <2>2 DEF Ledger
<1> QED BY <1>3, <1>4

\* The indirect block, each time it is logged.
LEMMA LedgerIndirect ==
    ASSUME Files!BlocksAssumption, NEW m \in FileState, NEW s \in FileState, NEW z, NEW k \in Nat,
           Ledger(m, z, k), m.a[NDIRECT] # 0,
           s.logged = m.logged \cup {<<"data", m.a[NDIRECT]>>}, s.a = m.a
    PROVE  Ledger(s, z, k)
<1>1. CASE <<"data", m.a[NDIRECT]>> \in m.logged
  BY <1>1, LedgerData
<1>2. CASE <<"data", m.a[NDIRECT]>> \notin m.logged
  <2>1. m.a[NDIRECT] = z /\ <<"data", z>> \in s.logged
    BY <1>2 DEF Ledger
  <2>2. Extra(m, z) = 0 /\ Extra(s, z) = 1
    BY <1>2, <2>1 DEF Extra
  <2>3. IsFiniteSet(m.logged) /\ Cardinality(m.logged) <= k + Extra(m, z)
    BY DEF Ledger
  <2>4. Cardinality(s.logged) <= Cardinality(m.logged) + 1 /\ IsFiniteSet(s.logged)
        /\ Cardinality(m.logged) \in Nat /\ Cardinality(s.logged) \in Nat
    <3>1. PICK L, x : L = m.logged /\ x = <<"data", m.a[NDIRECT]>>
      OBVIOUS
    <3>2. /\ IsFiniteSet(L \cup {x}) /\ Cardinality(L) \in Nat
          /\ Cardinality(L \cup {x}) \in Nat /\ Cardinality(L \cup {x}) <= Cardinality(L) + 1
      BY <2>3, <3>1, OneMore
    <3> QED BY <3>1, <3>2
  <2> QED BY <2>1, <2>2, <2>3, <2>4 DEF Ledger
<1> QED BY <1>1, <1>2

\* A slot that is no indirect one.
LEMMA LedgerSlot ==
    ASSUME Files!BlocksAssumption, NEW m \in FileState, NEW i \in Slot, NEW E, Sound(m, E),
           NEW z, NEW k \in Nat, Ledger(m, z, k), i # NDIRECT
    PROVE  Ledger(Files!SlotBlock(m, i), z, k + IF m.a[i] # 0 THEN 0 ELSE 2)
<1> DEFINE s == Files!SlotBlock(m, i)
<1>1. /\ s \in FileState /\ s.a[NDIRECT] = m.a[NDIRECT]
      /\ \/ s.logged = m.logged
         \/ m.a[i] = 0 /\ s.logged = m.logged \cup {Files!Bitmap(s.got), <<"data", s.got>>}
  <2>1. NDIRECT \in Slot
    BY DEF Files!BlocksAssumption, Files!MAXFILE, Slot
  <2> QED BY <2>1, SlotBlockGives
<1> HIDE DEF s
<1>2. CASE s.logged = m.logged
  <2>1. Extra(s, z) = Extra(m, z) /\ Extra(m, z) \in Nat
    BY <1>1, <1>2 DEF Extra
  <2>2. Cardinality(m.logged) \in Nat
    BY FS_CardinalityType DEF Ledger
  <2> QED BY <1>1, <1>2, <2>1, <2>2 DEF Ledger, s
<1>3. CASE m.a[i] = 0 /\ s.logged = m.logged \cup {Files!Bitmap(s.got), <<"data", s.got>>}
  <2> DEFINE L == m.logged \cup {Files!Bitmap(s.got)}
  <2>1. IsFiniteSet(L) /\ Cardinality(L) \in Nat /\ Cardinality(m.logged) \in Nat
        /\ Cardinality(L) <= Cardinality(m.logged) + 1
    BY OneMore DEF Ledger
  <2>2. s.logged = L \cup {<<"data", s.got>>}
    BY <1>3
  <2> HIDE DEF L
  <2>3. /\ IsFiniteSet(s.logged) /\ Cardinality(s.logged) \in Nat
        /\ Cardinality(s.logged) <= Cardinality(L) + 1
    BY <2>1, <2>2, OneMore
  <2>4. Extra(s, z) \in Nat /\ Extra(m, z) \in Nat /\ Extra(m, z) <= Extra(s, z)
    BY <1>1, <1>3 DEF Extra
  <2>5. Ledger(s, z, k + 2)
    BY <1>1, <1>3, <2>1, <2>3, <2>4 DEF Ledger
  <2> QED BY <1>3, <2>5 DEF s
<1> QED BY <1>1, <1>2, <1>3

\* The indirect slot: if the block is new, both that are logged are on its account.
LEMMA LedgerIndirectSlot ==
    ASSUME Files!BlocksAssumption, NEW m \in FileState, NEW E, Sound(m, E),
           NEW z, NEW k \in Nat, Ledger(m, z, k)
    PROVE  Ledger(Files!SlotBlock(m, NDIRECT), z, k)
<1> DEFINE s == Files!SlotBlock(m, NDIRECT)
<1>0. NDIRECT \in Slot
  BY DEF Files!BlocksAssumption, Files!MAXFILE, Slot
<1>1. /\ s \in FileState /\ s.got = s.a[NDIRECT]
      /\ \/ s.logged = m.logged /\ s.a = m.a
         \/ /\ m.a[NDIRECT] = 0 /\ s.got # 0
            /\ s.logged = m.logged \cup {Files!Bitmap(s.got), <<"data", s.got>>}
  BY <1>0, SlotBlockGives
<1> HIDE DEF s
<1>2. CASE s.logged = m.logged /\ s.a = m.a
  <2>1. Extra(s, z) = Extra(m, z)
    BY <1>2 DEF Extra
  <2> QED BY <1>2, <2>1 DEF Ledger, s
<1>3. CASE /\ m.a[NDIRECT] = 0 /\ s.got # 0
           /\ s.logged = m.logged \cup {Files!Bitmap(s.got), <<"data", s.got>>}
  <2> DEFINE L == m.logged \cup {Files!Bitmap(s.got)}
  <2>1. IsFiniteSet(L) /\ Cardinality(L) \in Nat /\ Cardinality(m.logged) \in Nat
        /\ Cardinality(L) <= Cardinality(m.logged) + 1
    BY OneMore DEF Ledger
  <2>2. s.logged = L \cup {<<"data", s.got>>}
    BY <1>3
  <2> HIDE DEF L
  <2>3. /\ IsFiniteSet(s.logged) /\ Cardinality(s.logged) \in Nat
        /\ Cardinality(s.logged) <= Cardinality(L) + 1
    BY <2>1, <2>2, OneMore
  <2>4. z = 0 /\ <<"data", z>> \notin m.logged
    <3>1. z = 0
      BY <1>3 DEF Ledger
    <3>2. <<"data", 0>> \notin LogItem
      BY DEF LogItem
    <3> QED BY <3>1, <3>2 DEF FileState
  <2>5. Extra(m, z) = 0 /\ Extra(s, z) = 2
    BY <1>1, <1>3, <2>4 DEF Extra
  <2>6. <<"data", s.a[NDIRECT]>> \in s.logged
    BY <1>1, <1>3
  <2> QED BY <2>1, <2>3, <2>4, <2>5, <2>6 DEF Ledger, s
<1> QED BY <1>1, <1>2, <1>3

-----------------------------------------------------------------------------
\* The block of a file, with new ones where there is none.

LEMMA Slots ==
    ASSUME Files!BlocksAssumption
    PROVE  /\ NDIRECT \in Slot /\ Files!MAXFILE \in Nat /\ NDIRECT \in Nat
           /\ \A bn \in 0..Files!MAXFILE - 1 : SlotOf(bn) \in Slot /\ SlotOf(bn) # NDIRECT
BY DEF Files!BlocksAssumption, Files!MAXFILE, Slot, SlotOf

LEMMA KeepsTwice ==
    ASSUME NEW l, NEW m, NEW s, Keeps(l, m), Keeps(m, s)
    PROVE  Keeps(l, s)
BY DEF Keeps

LEMMA BmapGives ==
    ASSUME Files!BlocksAssumption, NEW m \in FileState, NEW bn \in 0..Files!MAXFILE - 1,
           NEW E, Sound(m, E), NEW z, NEW k \in Nat, Ledger(m, z, k)
    PROVE  LET b == Files!bmap(m, bn)
           IN  /\ b \in FileState /\ Sound(b, E) /\ Keeps(m, b)
               /\ b.got # 0 => b.got = b.a[SlotOf(bn)] /\ Has(b.a, bn)
               /\ Ledger(b, z, k + IF m.a[SlotOf(bn)] # 0 THEN 0 ELSE 2)
               /\ m.a[SlotOf(bn)] = 0 /\ b.got # 0 => <<"data", b.got>> \in b.logged
<1> DEFINE b == Files!bmap(m, bn)
           new == IF m.a[SlotOf(bn)] # 0 THEN 0 ELSE 2
<1>1. CASE bn < NDIRECT
  <2> DEFINE s == Files!SlotBlock(m, bn)
  <2>1. b = s /\ SlotOf(bn) = bn /\ bn \in Slot /\ bn # NDIRECT /\ bn \in Int
    BY <1>1, Slots DEF Files!bmap, SlotOf
  <2>2. /\ s \in FileState /\ Sound(s, E) /\ s.got = s.a[bn] /\ Keeps(m, s)
        /\ \/ s.logged = m.logged /\ s.a = m.a
           \/ /\ m.a[bn] = 0
              /\ s.logged = m.logged \cup {Files!Bitmap(s.got), <<"data", s.got>>}
    BY <2>1, SlotBlockGives
  <2>3. Ledger(s, z, k + new)
    BY <2>1, LedgerSlot
  <2> HIDE DEF s, b
  <2>4. m.a[bn] = 0 /\ s.got # 0 => <<"data", s.got>> \in s.logged
    BY <2>2
  <2>5. s.got # 0 => Has(s.a, bn)
    BY <1>1, <2>1, <2>2, Slots DEF Has
  <2>6. /\ b.got # 0 => b.got = b.a[SlotOf(bn)] /\ Has(b.a, bn)
        /\ m.a[SlotOf(bn)] = 0 /\ b.got # 0 => <<"data", b.got>> \in b.logged
    BY <2>1, <2>2, <2>4, <2>5
  <2>7. b \in FileState /\ Sound(b, E) /\ Keeps(m, b)
    BY <2>1, <2>2
  <2>8. Ledger(b, z, k + new)
    BY <2>1, <2>3
  <2> QED BY <2>6, <2>7, <2>8 DEF b, new
<1>2. CASE ~(bn < NDIRECT)
  <2> DEFINE ind == Files!SlotBlock(m, NDIRECT)
             n   == Files!SlotBlock(ind, bn + 1)
  <2>1. /\ SlotOf(bn) = bn + 1 /\ bn + 1 \in Slot /\ bn + 1 # NDIRECT /\ bn \in Int
        /\ bn >= NDIRECT /\ ~(bn >= Files!MAXFILE) /\ NDIRECT \in Slot
    BY <1>2, Slots DEF SlotOf
  <2>2. b = IF ind.got = 0 THEN ind
            ELSE IF n.got # 0 /\ m.a[bn + 1] = 0
                 THEN [n EXCEPT !.logged = @ \cup {<<"data", ind.got>>}] ELSE n
    BY <1>2, <2>1 DEF Files!bmap
  <2>3. /\ ind \in FileState /\ Sound(ind, E) /\ ind.got = ind.a[NDIRECT] /\ Keeps(m, ind)
        /\ \A j \in Slot : j # NDIRECT => ind.a[j] = m.a[j]
    BY <2>1, SlotBlockGives
  <2>4. Ledger(ind, z, k)
    BY LedgerIndirectSlot
  <2> HIDE DEF ind, b
  <2>5. ind.a[bn + 1] = m.a[bn + 1]
    BY <2>1, <2>3
  <2>6. CASE ind.got = 0
    <3>1. b = ind
      BY <2>2, <2>6
    <3>2. Ledger(ind, z, k + 2)
      <4>1. Cardinality(ind.logged) \in Nat /\ Extra(ind, z) \in Nat
        BY <2>4, FS_CardinalityType DEF Ledger, Extra
      <4> QED BY <2>4, <4>1 DEF Ledger
    <3>3. Ledger(ind, z, k + new)
      BY <2>4, <3>2
    <3> HIDE DEF new
    <3>4. /\ b \in FileState /\ Sound(b, E) /\ Keeps(m, b) /\ Ledger(b, z, k + new) /\ b.got = 0
      BY <2>3, <2>6, <3>1, <3>3
    <3> QED BY <3>4 DEF b, new
  <2>7. CASE ind.got # 0
    <3>1. /\ n \in FileState /\ Sound(n, E) /\ n.got = n.a[bn + 1] /\ Keeps(ind, n)
          /\ \A j \in Slot : j # bn + 1 => n.a[j] = ind.a[j]
          /\ \/ n.logged = ind.logged /\ n.a = ind.a
             \/ /\ ind.a[bn + 1] = 0
                /\ n.logged = ind.logged \cup {Files!Bitmap(n.got), <<"data", n.got>>}
      BY <2>1, <2>3, SlotBlockGives
    <3>2. Ledger(n, z, k + IF ind.a[bn + 1] # 0 THEN 0 ELSE 2)
      BY <2>1, <2>3, <2>4, LedgerSlot
    <3>3. Ledger(n, z, k + new)
      BY <2>1, <2>5, <3>2
    <3> HIDE DEF n
    <3>4. n.a[NDIRECT] = ind.got
      BY <2>1, <2>3, <3>1
    <3>5. n.got # 0 => Has(n.a, bn)
      BY <2>1, <2>7, <3>1, <3>4 DEF Has
    <3>6. m.a[bn + 1] = 0 /\ n.got # 0 => <<"data", n.got>> \in n.logged
      BY <2>5, <3>1
    <3>7. Keeps(m, n)
      BY <2>3, <3>1, KeepsTwice
    <3>8. CASE ~(n.got # 0 /\ m.a[bn + 1] = 0)
      <4>1. b = n
        BY <2>2, <2>7, <3>8
      <4>2. /\ b.got # 0 => b.got = b.a[SlotOf(bn)] /\ Has(b.a, bn)
            /\ m.a[SlotOf(bn)] = 0 /\ b.got # 0 => <<"data", b.got>> \in b.logged
        BY <2>1, <3>1, <3>5, <3>6, <4>1
      <4>3. b \in FileState /\ Sound(b, E) /\ Keeps(m, b)
        BY <3>1, <3>7, <4>1
      <4>4. Ledger(b, z, k + new)
        BY <3>3, <4>1
      <4> QED BY <4>2, <4>3, <4>4 DEF b, new
    <3>9. CASE n.got # 0 /\ m.a[bn + 1] = 0
      <4>1. b = [n EXCEPT !.logged = @ \cup {<<"data", ind.got>>}]
        BY <2>2, <2>7, <3>9
      <4>2. <<"data", ind.got>> \in LogItem
        BY <2>3, <2>7, NewItems DEF FileState
      <4>3. /\ b.logged = n.logged \cup {<<"data", n.a[NDIRECT]>>} /\ b.a = n.a /\ b.got = n.got
            /\ b.bitmap = n.bitmap /\ b.panic = n.panic /\ b.size = n.size /\ b.tot = n.tot
            /\ b.stop = n.stop
        BY <3>1, <3>4, <4>1 DEF FileState
      <4>4. b \in FileState
        BY <3>1, <4>1, <4>2 DEF FileState
      <4>5. Ledger(b, z, k + new)
        <5>1. k + new \in Nat
          OBVIOUS
        <5> HIDE DEF new
        <5> QED BY <2>7, <3>1, <3>3, <3>4, <4>3, <4>4, <5>1, LedgerIndirect
      <4>6. Sound(b, E)
        BY <3>1, <4>3 DEF Sound
      <4>7. Keeps(m, b)
        BY <3>7, <4>3 DEF Keeps
      <4>8. /\ b.got = b.a[SlotOf(bn)] /\ Has(b.a, bn)
            /\ <<"data", b.got>> \in b.logged
        BY <2>1, <3>1, <3>5, <3>6, <3>9, <4>3
      <4> QED BY <4>4, <4>5, <4>6, <4>7, <4>8 DEF b, new
    <3> QED BY <3>8, <3>9
  <2> QED BY <2>6, <2>7
<1> QED BY <1>1, <1>2

\* A block that the file has is found, and nothing is changed.
LEMMA BmapFinds ==
    ASSUME Files!BlocksAssumption, NEW m \in FileState, NEW bn \in 0..Files!MAXFILE - 1, Has(m.a, bn)
    PROVE  Files!bmap(m, bn) = [m EXCEPT !.got = m.a[SlotOf(bn)]]
<1>0. ~(bn >= Files!MAXFILE) /\ bn \in Int /\ NDIRECT \in Nat /\ Files!MAXFILE \in Nat
  BY Slots
<1>1. CASE bn < NDIRECT
  BY <1>0, <1>1 DEF Files!bmap, Files!SlotBlock, Has, SlotOf
<1>2. CASE ~(bn < NDIRECT)
  <2> DEFINE ind == Files!SlotBlock(m, NDIRECT)
             n   == Files!SlotBlock(ind, bn + 1)
  <2>1. m.a[NDIRECT] # 0 /\ m.a[bn + 1] # 0 /\ SlotOf(bn) = bn + 1
    BY <1>0, <1>2 DEF Has, SlotOf
  <2>2. ind = [m EXCEPT !.got = m.a[NDIRECT]]
    BY <2>1 DEF Files!SlotBlock
  <2>3. ind.a = m.a /\ ind.got # 0
    BY <2>1, <2>2 DEF FileState
  <2>4. n = [ind EXCEPT !.got = m.a[bn + 1]]
    BY <2>1, <2>3 DEF Files!SlotBlock
  <2>5. Files!bmap(m, bn) = n
    BY <1>0, <1>2, <2>1, <2>3 DEF Files!bmap
  <2> HIDE DEF n, ind
  <2> QED BY <2>1, <2>2, <2>4, <2>5 DEF FileState
<1> QED BY <1>1, <1>2

-----------------------------------------------------------------------------
\* Arithmetic of blocks.

LEMMA Divided ==
    ASSUME NEW B \in Nat \ {0}, NEW o \in Nat
    PROVE  /\ o \div B \in Nat /\ (o \div B) * B <= o /\ o < (o \div B) * B + B
           /\ o % B = o - (o \div B) * B
OBVIOUS

LEMMA Times ==
    ASSUME NEW B \in Nat \ {0}, NEW c \in Int, NEW d \in Int
    PROVE  /\ c * B \in Int /\ d * B \in Int /\ (c + 1) * B = c * B + B
           /\ c <= d => c * B <= d * B
           /\ c * B < d * B => c < d
OBVIOUS

LEMMA FilesMax ==
    ASSUME NEW x \in Int, NEW y \in Int
    PROVE  /\ Files!Max({x, y}) \in {x, y}
           /\ Files!Max({x, y}) >= x /\ Files!Max({x, y}) >= y
<1>1. \E z \in {x, y} : \A v \in {x, y} : z >= v
  OBVIOUS
<1> QED BY <1>1 DEF Files!Max

LEMMA FilesMinOfTwo ==
    ASSUME NEW x \in Int, NEW y \in Int
    PROVE  /\ Files!Min({x, y}) \in {x, y}
           /\ Files!Min({x, y}) <= x /\ Files!Min({x, y}) <= y
<1>1. \E z \in {x, y} : \A v \in {x, y} : z <= v
  OBVIOUS
<1> QED BY <1>1 DEF Files!Min

\* The blocks a call touches: they begin with that of o.
LEMMA Spans ==
    ASSUME Files!BlocksAssumption, NEW o \in Nat, NEW n \in Nat
    PROVE  /\ Files!Span(o, n) \in Nat /\ o \div BSIZE \in Nat
           /\ \A i \in 1..Files!Span(o, n) : /\ (o \div BSIZE + i - 1) * BSIZE < o + n
                                             /\ (o \div BSIZE + i) * BSIZE > o
<1> DEFINE q == o \div BSIZE
<1>1. BSIZE \in Nat \ {0}
  BY DEF Files!BlocksAssumption
<1>2. q \in Nat /\ q * BSIZE <= o /\ o < q * BSIZE + BSIZE
  BY <1>1, Divided
<1>3. CASE n = 0
  <2>1. Files!Span(o, n) = 0
    BY <1>3 DEF Files!Span
  <2> QED BY <1>2, <2>1
<1>4. CASE n # 0
  <2> DEFINE t == (o + n - 1) \div BSIZE
  <2>1. o + n - 1 \in Nat
    BY <1>4
  <2>2. t \in Nat /\ t * BSIZE <= o + n - 1 /\ o + n - 1 < t * BSIZE + BSIZE
    BY <1>1, <2>1, Divided
  <2>3. Files!Span(o, n) = t - q + 1
    BY <1>4 DEF Files!Span
  <2> HIDE DEF t, q
  <2>4. q <= t
    <3>1. q * BSIZE < (t + 1) * BSIZE
      BY <1>1, <1>2, <1>4, <2>2, Times
    <3>2. q < t + 1
      BY <1>1, <1>2, <2>2, <3>1, Times
    <3> QED BY <1>2, <2>2, <3>2
  <2>5. ASSUME NEW i \in 1..(t - q + 1) PROVE (q + i - 1) * BSIZE < o + n /\ (q + i) * BSIZE > o
    <3>1. PICK c \in Int : c = q + i - 1
      BY <1>2
    <3>2. c <= t /\ q <= c /\ q + i = c + 1
      BY <1>2, <2>2, <3>1
    <3>3. c * BSIZE <= t * BSIZE /\ q * BSIZE <= c * BSIZE /\ (c + 1) * BSIZE = c * BSIZE + BSIZE
          /\ c * BSIZE \in Int /\ q * BSIZE \in Int /\ t * BSIZE \in Int
      BY <1>1, <1>2, <2>2, <3>1, <3>2, Times
    <3>4. c * BSIZE < o + n /\ (c + 1) * BSIZE > o
      BY <1>1, <1>2, <2>2, <3>3
    <3> QED BY <3>1, <3>2, <3>4
  <2> QED BY <1>2, <2>2, <2>3, <2>4, <2>5 DEF q
<1> QED BY <1>3, <1>4

\* How many: one more than full ones, if the first is not touched from its start.
LEMMA SpanBound ==
    ASSUME Files!BlocksAssumption, NEW o \in Nat, NEW n \in Nat, NEW c \in Nat, n <= c * BSIZE
    PROVE  /\ Files!Span(o, n) <= c + 1
           /\ (o \div BSIZE) * BSIZE = o => Files!Span(o, n) <= c
<1> DEFINE q == o \div BSIZE
<1>1. BSIZE \in Nat \ {0}
  BY DEF Files!BlocksAssumption
<1>2. q \in Nat /\ q * BSIZE <= o /\ o < q * BSIZE + BSIZE
  BY <1>1, Divided
<1>3. CASE n = 0
  <2>1. Files!Span(o, n) = 0
    BY <1>3 DEF Files!Span
  <2> QED BY <2>1
<1>4. CASE n # 0
  <2> DEFINE t == (o + n - 1) \div BSIZE
  <2>1. o + n - 1 \in Nat
    BY <1>4
  <2>2. t \in Nat /\ t * BSIZE <= o + n - 1
    BY <1>1, <2>1, Divided
  <2>3. Files!Span(o, n) = t - q + 1
    BY <1>4 DEF Files!Span
  <2> HIDE DEF t, q
  <2>4. PICK d \in Int : d = q + c
    BY <1>2
  <2>5. d * BSIZE = q * BSIZE + c * BSIZE /\ q * BSIZE \in Int /\ c * BSIZE \in Int /\ t * BSIZE \in Int
    BY <1>1, <1>2, <2>2, <2>4
  <2>6. (d + 1) * BSIZE = d * BSIZE + BSIZE /\ d * BSIZE \in Int
    BY <1>1, <2>4, Times
  <2>7. t * BSIZE < (d + 1) * BSIZE
    BY <1>1, <1>2, <2>2, <2>5, <2>6
  <2>8. t < d + 1
    BY <1>1, <2>2, <2>4, <2>7, Times
  <2>9. ASSUME q * BSIZE = o PROVE t < d
    <3>1. t * BSIZE < d * BSIZE
      BY <1>1, <1>2, <2>2, <2>5, <2>9
    <3> QED BY <1>1, <2>2, <2>4, <3>1, Times
  <2> QED BY <1>2, <2>2, <2>3, <2>4, <2>8, <2>9 DEF q
<1> QED BY <1>3, <1>4

LEMMA UptoIs ==
    ASSUME Files!BlocksAssumption, NEW o \in Nat, NEW n \in Nat, NEW bn \in Nat, (bn + 1) * BSIZE > o
    PROVE  /\ Files!Upto(o, n, bn) \in Nat /\ Files!Upto(o, n, bn) <= n
           /\ o + Files!Upto(o, n, bn) <= (bn + 1) * BSIZE
<1>1. PICK u \in Int : u = (bn + 1) * BSIZE
  BY DEF Files!BlocksAssumption
<1>2. PICK t \in Int : t = u - o
  BY <1>1
<1>3. Files!Upto(o, n, bn) = Files!Min({n, t})
  BY <1>1, <1>2 DEF Files!Upto
<1>4. t >= 0 /\ u > o
  BY <1>1, <1>2
<1>5. Files!Min({n, t}) \in {n, t} /\ Files!Min({n, t}) <= n /\ Files!Min({n, t}) <= t
  BY FilesMinOfTwo
<1>6. Files!Min({n, t}) \in Nat /\ Files!Min({n, t}) <= n /\ o + Files!Min({n, t}) <= u
  BY <1>2, <1>4, <1>5
<1> QED BY <1>1, <1>3, <1>6

-----------------------------------------------------------------------------
\* A write, block by block.

FileBlock == 0..Files!MAXFILE - 1

Grown(m, s) == \A i \in Slot : m.a[i] # 0 => s.a[i] = m.a[i]

LEMMA HasStill ==
    ASSUME Files!BlocksAssumption, NEW m, NEW s, Grown(m, s), NEW c \in FileBlock, Has(m.a, c)
    PROVE  Has(s.a, c)
BY Slots DEF Has, Grown, FileBlock

LEMMA LedgerMore ==
    ASSUME NEW m, NEW z, NEW k \in Nat, NEW j \in Nat, k <= j, Ledger(m, z, k)
    PROVE  Ledger(m, z, j)
<1>1. Cardinality(m.logged) \in Nat /\ Extra(m, z) \in Nat
  BY FS_CardinalityType DEF Ledger, Extra
<1> QED BY <1>1 DEF Ledger

\* One round: the block is there and has been written, or the call stops here.
LEMMA WriteBlockGives ==
    ASSUME Files!BlocksAssumption, NEW m \in FileState, ~m.stop, NEW bn \in FileBlock,
           NEW E, Sound(m, E), NEW z, NEW k \in Nat, Ledger(m, z, k),
           NEW o \in Nat, NEW n \in Nat, NEW bad, (bn + 1) * BSIZE > o
    PROVE  LET w == Files!WriteBlock(m, o, n, bad, bn)
           IN  /\ w \in FileState /\ Sound(w, E) /\ Grown(m, w) /\ w.size = m.size
               /\ Ledger(w, z, k + IF m.a[SlotOf(bn)] # 0 THEN 1 ELSE 2)
               /\ \/ w.stop /\ w.tot = m.tot
                  \/ ~w.stop /\ Has(w.a, bn) /\ w.tot = Files!Upto(o, n, bn)
<1> DEFINE w == Files!WriteBlock(m, o, n, bad, bn)
           b == Files!bmap(m, bn)
           has == m.a[SlotOf(bn)] # 0
<1>1. /\ b \in FileState /\ Sound(b, E) /\ Keeps(m, b)
      /\ b.got # 0 => b.got = b.a[SlotOf(bn)] /\ Has(b.a, bn)
      /\ Ledger(b, z, k + IF has THEN 0 ELSE 2)
      /\ ~has /\ b.got # 0 => <<"data", b.got>> \in b.logged
  BY BmapGives DEF FileBlock
<1>2. w = IF b.got = 0 \/ bn = bad THEN [b EXCEPT !.stop = TRUE]
          ELSE [b EXCEPT !.tot = Files!Upto(o, n, bn), !.logged = @ \cup {<<"data", b.got>>}]
  BY DEF Files!WriteBlock
<1>3. bn \in Nat /\ Files!Upto(o, n, bn) \in Nat
  <2>1. bn \in Nat
    BY Slots DEF FileBlock
  <2> QED BY <2>1, UptoIs
<1>4. k + 1 \in Nat /\ k + 2 \in Nat /\ k + 0 = k
  OBVIOUS
<1> HIDE DEF w, b, has
<1>5. CASE b.got = 0 \/ bn = bad
  <2>1. w = [b EXCEPT !.stop = TRUE]
    BY <1>2, <1>5
  <2>2. /\ w \in FileState /\ w.stop /\ w.tot = m.tot /\ w.size = m.size /\ w.a = b.a
        /\ w.logged = b.logged /\ w.bitmap = b.bitmap /\ w.panic = b.panic
    BY <1>1, <2>1 DEF FileState, Keeps
  <2>3. Sound(w, E) /\ Grown(m, w)
    BY <1>1, <2>2 DEF Sound, Grown, Keeps
  <2>4. Extra(w, z) = Extra(b, z)
    BY <2>2 DEF Extra
  <2>5. Ledger(w, z, k + IF has THEN 0 ELSE 2)
    BY <1>1, <2>2, <2>4 DEF Ledger
  <2>6. Ledger(w, z, k + IF has THEN 1 ELSE 2)
    BY <1>4, <2>5, LedgerMore
  <2> QED BY <2>2, <2>3, <2>6 DEF w, has
<1>6. CASE ~(b.got = 0 \/ bn = bad)
  <2>1. w = [b EXCEPT !.tot = Files!Upto(o, n, bn), !.logged = @ \cup {<<"data", b.got>>}]
    BY <1>2, <1>6
  <2>2. b.got \in DataBlock /\ <<"data", b.got>> \in LogItem
    BY <1>1, <1>6, NewItems DEF FileState
  <2>3. /\ w \in FileState /\ w.stop = m.stop /\ w.tot = Files!Upto(o, n, bn) /\ w.size = m.size
        /\ w.a = b.a /\ w.logged = b.logged \cup {<<"data", b.got>>}
        /\ w.bitmap = b.bitmap /\ w.panic = b.panic
    <3>1. PICK t \in Int : t = Files!Upto(o, n, bn)
      BY <1>3
    <3>2. PICK L \in SUBSET LogItem : L = b.logged \cup {<<"data", b.got>>}
      BY <1>1, <2>2 DEF FileState
    <3>3. w = [b EXCEPT !.tot = t, !.logged = L]
      BY <2>1, <3>1, <3>2
    <3> QED BY <1>1, <3>1, <3>2, <3>3 DEF FileState, Keeps
  <2>4. Sound(w, E) /\ Grown(m, w)
    BY <1>1, <2>3 DEF Sound, Grown, Keeps
  <2>5. Has(w.a, bn)
    BY <1>1, <1>6, <2>3
  <2>6. Ledger(w, z, k + IF has THEN 1 ELSE 2)
    <3>1. CASE has
      <4>1. Ledger(b, z, k)
        BY <1>1, <1>4, <3>1
      <4>2. Ledger(w, z, k + 1)
        BY <1>1, <2>3, <4>1, LedgerData
      <4> QED BY <3>1, <4>2
    <3>2. CASE ~has
      <4>1. Ledger(b, z, k + 2) /\ <<"data", b.got>> \in b.logged
        BY <1>1, <1>6, <3>2
      <4>2. Ledger(w, z, k + 2)
        BY <1>1, <1>4, <2>3, <4>1, LedgerData
      <4> QED BY <3>2, <4>2
    <3> QED BY <3>1, <3>2
  <2> QED BY <2>3, <2>4, <2>5, <2>6 DEF w, has
<1> QED BY <1>5, <1>6

\* The rounds, as one function of their number.
LEMMA WriteRounds ==
    ASSUME NEW m, NEW o, NEW n, NEW bad, NEW K \in Nat
    PROVE  \E w : w = [i \in 0..K |-> IF i = 0 THEN m
                                      ELSE Files!WriteBlock(w[i - 1], o, n, bad, o \div BSIZE + i - 1)]
<1> DEFINE Round(s, i) == Files!WriteBlock(s, o, n, bad, o \div BSIZE + i - 1)
           Is(w, k) == w = [i \in 0..k |-> IF i = 0 THEN m ELSE Round(w[i - 1], i)]
           T == {k \in Nat : ~\E w : Is(w, k)}
<1>1. ASSUME T # {} PROVE FALSE
  <2>1. PICK k \in T : \A j \in T : k <= j
    <3>1. Files!Min(T) \in T /\ \A j \in T : Files!Min(T) <= j
      BY <1>1, FilesMin
    <3> QED BY <3>1
  <2> HIDE DEF Round
  <2>2. CASE k = 0
    <3>1. Is([i \in 0..0 |-> m], 0)
      OBVIOUS
    <3> QED BY <2>1, <2>2, <3>1
  <2>3. CASE k # 0
    <3>1. k - 1 \in Nat /\ k - 1 \notin T
      BY <2>1, <2>3
    <3>2. PICK w : Is(w, k - 1)
      BY <3>1
    <3> DEFINE v == [i \in 0..k |-> IF i = k THEN Round(w[k - 1], k) ELSE w[i]]
    <3>3. v = [i \in 0..k |-> IF i = 0 THEN m ELSE Round(v[i - 1], i)]
      <4>1. ASSUME NEW i \in 0..k PROVE v[i] = IF i = 0 THEN m ELSE Round(v[i - 1], i)
        <5>1. CASE i = k
          BY <2>1, <2>3, <3>1, <5>1
        <5>2. CASE i # k
          <6>1. i \in 0..k - 1 /\ v[i] = w[i] /\ i - 1 # k
            BY <2>1, <5>2
          <6>2. w[i] = IF i = 0 THEN m ELSE Round(w[i - 1], i)
            BY <3>2, <6>1
          <6>3. i # 0 => v[i - 1] = w[i - 1]
            BY <2>1, <6>1
          <6> QED BY <6>1, <6>2, <6>3
        <5> QED BY <5>1, <5>2
      <4> QED BY <4>1
    <3> QED BY <2>1, <3>3
  <2> QED BY <2>2, <2>3
<1>2. K \notin T
  BY <1>1
<1>3. PICK w : Is(w, K)
  BY <1>2
<1> QED BY <1>3

\* The file has every block that begins below x.
WholeTo(a, x) == \A c \in FileBlock : c * BSIZE < x => Has(a, c)

\* What i rounds may log: each its block and that of its bit, but the first no bit if the
\* block was there before, as it was if the write begins inside of it.
Spent(o, i) == IF i > 0 /\ (o \div BSIZE) * BSIZE # o THEN 2 * i - 1 ELSE 2 * i

Written(m, w, E, o, n, i) ==
    /\ w \in FileState /\ Sound(w, E) /\ Grown(m, w) /\ w.size = m.size
    /\ w.tot \in Nat /\ w.tot <= n
    /\ ~w.stop => \A c \in FileBlock : c < o \div BSIZE + i => Has(w.a, c)
    /\ WholeTo(w.a, m.size) /\ WholeTo(w.a, o + w.tot)
    /\ Ledger(w, m.a[NDIRECT], Spent(o, i))

\* A file with no holes, before a write of n units at o.
Writable(m, E, o, n) ==
    /\ m \in FileState /\ Sound(m, E) /\ ~m.stop /\ m.tot = 0 /\ m.logged = {}
    /\ o \in Nat /\ n \in Nat /\ o <= m.size /\ o + n <= Files!MAXFILE * BSIZE
    /\ WholeTo(m.a, m.size)

LEMMA BelowFirst ==
    ASSUME Files!BlocksAssumption, NEW o \in Nat, NEW c \in FileBlock, c < o \div BSIZE
    PROVE  c * BSIZE < o
<1> DEFINE q == o \div BSIZE
<1>1. BSIZE \in Nat \ {0} /\ c \in Int
  BY Slots DEF Files!BlocksAssumption, FileBlock
<1>2. q \in Nat /\ q * BSIZE <= o
  BY <1>1, Divided
<1> HIDE DEF q
<1>3. c + 1 <= q
  BY <1>1, <1>2 DEF q
<1>4. (c + 1) * BSIZE <= q * BSIZE /\ (c + 1) * BSIZE = c * BSIZE + BSIZE /\ c * BSIZE \in Int
      /\ q * BSIZE \in Int
  BY <1>1, <1>2, <1>3, Times
<1> QED BY <1>1, <1>2, <1>4

LEMMA NothingWritten ==
    ASSUME Files!BlocksAssumption, NEW m, NEW E, NEW o, NEW n, Writable(m, E, o, n)
    PROVE  Written(m, m, E, o, n, 0)
<1>1. /\ m \in FileState /\ Sound(m, E) /\ m.tot = 0 /\ m.logged = {} /\ o \in Nat /\ n \in Nat
      /\ o <= m.size /\ m.size \in Nat /\ WholeTo(m.a, m.size)
  BY DEF Writable, FileState
<1>2. ASSUME NEW c \in FileBlock, c < o \div BSIZE + 0 PROVE Has(m.a, c)
  <2>1. c * BSIZE < o
    <3>1. c < o \div BSIZE
      BY <1>1, <1>2, Divided DEF Files!BlocksAssumption
    <3> QED BY <1>1, <3>1, BelowFirst
  <2>2. c * BSIZE \in Int
    BY Slots DEF FileBlock, Files!BlocksAssumption
  <2> QED BY <1>1, <2>1, <2>2 DEF WholeTo
<1>3. WholeTo(m.a, o + m.tot)
  <2>1. ASSUME NEW c \in FileBlock, c * BSIZE < o + m.tot PROVE Has(m.a, c)
    <3>1. c * BSIZE \in Int
      BY Slots DEF FileBlock, Files!BlocksAssumption
    <3> QED BY <1>1, <2>1, <3>1 DEF WholeTo
  <2> QED BY <2>1 DEF WholeTo
<1>4. Ledger(m, m.a[NDIRECT], Spent(o, 0))
  <2>1. Spent(o, 0) = 0
    BY DEF Spent
  <2>2. Extra(m, m.a[NDIRECT]) = 0
    BY <1>1 DEF Extra
  <2>3. IsFiniteSet({}) /\ Cardinality({}) = 0
    BY FS_EmptySet
  <2> QED BY <1>1, <2>1, <2>2, <2>3 DEF Ledger
<1> QED BY <1>1, <1>2, <1>3, <1>4 DEF Written, Grown

LEMMA OneRoundMore ==
    ASSUME Files!BlocksAssumption, NEW m, NEW E, NEW o, NEW n, Writable(m, E, o, n), NEW bad,
           NEW i \in 1..Files!Span(o, n), NEW w, Written(m, w, E, o, n, i - 1)
    PROVE  Written(m, Files!WriteBlock(w, o, n, bad, o \div BSIZE + i - 1), E, o, n, i)
<1> DEFINE q == o \div BSIZE
           v == Files!WriteBlock(w, o, n, bad, q + i - 1)
           z == m.a[NDIRECT]
<1>1. /\ m \in FileState /\ o \in Nat /\ n \in Nat /\ o <= m.size /\ m.size \in Nat
      /\ o + n <= Files!MAXFILE * BSIZE
  BY DEF Writable, FileState
<1>2. BSIZE \in Nat \ {0} /\ q \in Nat /\ q * BSIZE <= o
  BY <1>1, Divided DEF Files!BlocksAssumption
<1>3. i \in Nat \ {0} /\ (q + i - 1) * BSIZE < o + n /\ (q + i) * BSIZE > o
  BY <1>1, Spans
<1>4. PICK bn \in Nat : bn = q + i - 1
  BY <1>2, <1>3
<1> HIDE DEF q
<1>5. bn * BSIZE < o + n /\ (bn + 1) * BSIZE > o
  <2>1. bn + 1 = q + i
    BY <1>2, <1>3, <1>4
  <2> QED BY <1>3, <1>4, <2>1
<1>6. bn \in FileBlock
  <2>1. Files!MAXFILE \in Int
    BY Slots
  <2>2. bn * BSIZE < Files!MAXFILE * BSIZE
    BY <1>1, <1>2, <1>4, <1>5, <2>1, Times
  <2>3. bn < Files!MAXFILE
    BY <1>2, <1>4, <2>1, <2>2, Times
  <2> QED BY <1>4, <2>1, <2>3 DEF FileBlock
<1>7. /\ w \in FileState /\ Sound(w, E) /\ Grown(m, w) /\ w.size = m.size
      /\ w.tot \in Nat /\ w.tot <= n
      /\ ~w.stop => \A c \in FileBlock : c < q + (i - 1) => Has(w.a, c)
      /\ WholeTo(w.a, m.size) /\ WholeTo(w.a, o + w.tot)
      /\ Ledger(w, z, Spent(o, i - 1))
  BY DEF Written, q
<1>8. Spent(o, i - 1) \in Nat /\ Spent(o, i) \in Nat /\ Spent(o, i - 1) <= Spent(o, i)
  BY <1>3 DEF Spent
<1>9. CASE w.stop
  <2>1. v = w
    BY <1>9 DEF Files!WriteBlock
  <2>2. Ledger(w, z, Spent(o, i))
    BY <1>7, <1>8, LedgerMore
  <2>3. Written(m, w, E, o, n, i)
    BY <1>7, <1>9, <2>2 DEF Written
  <2> QED BY <2>1, <2>3 DEF q
<1>10. CASE ~w.stop
  <2> DEFINE has == w.a[SlotOf(bn)] # 0
  <2>1. /\ v \in FileState /\ Sound(v, E) /\ Grown(w, v) /\ v.size = w.size
        /\ Ledger(v, z, Spent(o, i - 1) + IF has THEN 1 ELSE 2)
        /\ \/ v.stop /\ v.tot = w.tot
           \/ ~v.stop /\ Has(v.a, bn) /\ v.tot = Files!Upto(o, n, bn)
    BY <1>1, <1>4, <1>5, <1>6, <1>7, <1>8, <1>10, WriteBlockGives
  <2> HIDE DEF v, has
  <2>2. \A c \in FileBlock : Has(w.a, c) => Has(v.a, c)
    BY <2>1, HasStill
  <2>3. Grown(m, v)
    BY <1>7, <2>1 DEF Grown
  <2>4. WholeTo(v.a, m.size) /\ WholeTo(v.a, o + w.tot)
    BY <1>7, <2>2 DEF WholeTo
  <2>5. ~v.stop => \A c \in FileBlock : c < q + i => Has(v.a, c)
    <3>1. ASSUME ~v.stop, NEW c \in FileBlock, c < q + i PROVE Has(v.a, c)
      <4>1. c \in Int /\ (c < q + (i - 1) \/ c = bn)
        <5>1. c \in Int
          BY Slots DEF FileBlock
        <5> QED BY <1>2, <1>3, <1>4, <3>1, <5>1
      <4> QED BY <1>7, <1>10, <2>1, <2>2, <3>1, <4>1
    <3> QED BY <3>1
  <2>6. v.tot \in Nat /\ v.tot <= n
    BY <1>1, <1>5, <1>7, <2>1, UptoIs, SMTT(60)
  <2>7. WholeTo(v.a, o + v.tot)
    <3>1. CASE v.stop
      BY <2>1, <2>4, <3>1
    <3>2. CASE ~v.stop
      <4>1. o + v.tot <= (bn + 1) * BSIZE
        BY <1>1, <1>5, <2>1, <3>2, UptoIs
      <4>2. ASSUME NEW c \in FileBlock, c * BSIZE < o + v.tot PROVE Has(v.a, c)
        <5>1. c \in Int
          BY Slots DEF FileBlock
        <5>2. c * BSIZE < (bn + 1) * BSIZE
          BY <1>1, <1>2, <1>4, <2>6, <4>1, <4>2, <5>1, Times
        <5>3. c < bn + 1
          BY <1>2, <1>4, <5>1, <5>2, Times
        <5>4. c < q + i
          BY <1>2, <1>3, <1>4, <5>1, <5>3
        <5> QED BY <2>5, <3>2, <5>4
      <4> QED BY <4>2 DEF WholeTo
    <3> QED BY <3>1, <3>2
  <2>8. Ledger(v, z, Spent(o, i))
    <3>1. CASE i = 1 /\ q * BSIZE # o
      <4>1. bn = q /\ q * BSIZE < o /\ q * BSIZE \in Int
        BY <1>1, <1>2, <1>4, <3>1
      <4>2. Has(w.a, bn)
        BY <1>1, <1>6, <1>7, <4>1 DEF WholeTo
      <4>3. has
        BY <4>2 DEF Has, has
      <4>4. Spent(o, i - 1) = 0 /\ Spent(o, i) = 1
        BY <3>1 DEF Spent, q
      <4> QED BY <2>1, <4>3, <4>4
    <3>2. CASE ~(i = 1 /\ q * BSIZE # o)
      <4>1. Spent(o, i) = Spent(o, i - 1) + 2
        <5>1. CASE i = 1
          BY <3>2, <5>1 DEF Spent, q
        <5>2. CASE i # 1
          BY <1>3, <5>2 DEF Spent
        <5> QED BY <5>1, <5>2
      <4>2. PICK k \in Nat : k = Spent(o, i - 1) + IF has THEN 1 ELSE 2
        BY <1>8
      <4>3. k <= Spent(o, i) /\ Ledger(v, z, k)
        BY <1>8, <2>1, <4>1, <4>2
      <4> QED BY <1>8, <4>3, LedgerMore
    <3> QED BY <3>1, <3>2
  <2>9. Written(m, v, E, o, n, i)
    BY <1>7, <2>1, <2>3, <2>4, <2>5, <2>6, <2>7, <2>8 DEF Written, q
  <2> QED BY <2>9 DEF v, q
<1> QED BY <1>9, <1>10

LEMMA AllRounds ==
    ASSUME Files!BlocksAssumption, NEW m, NEW E, NEW o, NEW n, Writable(m, E, o, n), NEW bad,
           NEW w, w = [i \in 0..Files!Span(o, n) |->
                         IF i = 0 THEN m ELSE Files!WriteBlock(w[i - 1], o, n, bad, o \div BSIZE + i - 1)]
    PROVE  Written(m, w[Files!Span(o, n)], E, o, n, Files!Span(o, n))
<1> DEFINE K == Files!Span(o, n)
           T == {i \in 0..K : ~Written(m, w[i], E, o, n, i)}
<1>1. K \in Nat
  BY Spans DEF Writable
<1> HIDE DEF K
<1>2. ASSUME T # {} PROVE FALSE
  <2>1. T \in SUBSET Nat
    BY <1>1
  <2>2. PICK i \in T : \A j \in T : i <= j
    <3>1. Files!Min(T) \in T /\ \A j \in T : Files!Min(T) <= j
      BY <1>2, <2>1, FilesMin
    <3> QED BY <3>1
  <2>3. CASE i = 0
    <3>1. w[0] = m
      BY <1>1 DEF K
    <3>2. Written(m, m, E, o, n, 0)
      BY NothingWritten
    <3> QED BY <2>2, <2>3, <3>1, <3>2
  <2>4. CASE i # 0
    <3>1. i \in 1..K /\ i - 1 \in 0..K /\ i - 1 \notin T
      BY <1>1, <2>2, <2>4
    <3>2. Written(m, w[i - 1], E, o, n, i - 1)
      BY <3>1
    <3>3. w[i] = Files!WriteBlock(w[i - 1], o, n, bad, o \div BSIZE + i - 1)
      BY <2>4, <3>1 DEF K
    <3>4. i \in 1..Files!Span(o, n)
      BY <3>1 DEF K
    <3>5. Written(m, w[i], E, o, n, i)
      BY <3>2, <3>3, <3>4, OneRoundMore
    <3> QED BY <2>2, <3>5
  <2> QED BY <2>3, <2>4
<1>3. K \in 0..K
  BY <1>1
<1> QED BY <1>2, <1>3 DEF K

\* A write leaves a file without holes, whether it comes to its end or not.
LEMMA WriteiGives ==
    ASSUME Files!BlocksAssumption, NEW m, NEW E, NEW o, NEW n, Writable(m, E, o, n), NEW bad,
           m.size <= Files!MAXFILE * BSIZE
    PROVE  LET w == Files!writei(m, o, n, bad)
           IN  /\ w \in FileState /\ Sound(w, E) /\ WholeTo(w.a, w.size)
               /\ w.size <= Files!MAXFILE * BSIZE /\ w.tot \in Nat
               /\ IsFiniteSet(w.logged) /\ Cardinality(w.logged) <= Spent(o, Files!Span(o, n)) + 3
<1> DEFINE K == Files!Span(o, n)
           w == CHOOSE w : w = [i \in 0..K |->
                  IF i = 0 THEN m ELSE Files!WriteBlock(w[i - 1], o, n, bad, o \div BSIZE + i - 1)]
           d == w[K]
           r == Files!writei(m, o, n, bad)
<1>1. /\ m \in FileState /\ o \in Nat /\ n \in Nat /\ o <= m.size /\ m.size \in Nat
      /\ o + n <= Files!MAXFILE * BSIZE /\ Files!MAXFILE * BSIZE \in Int
  BY Slots DEF Writable, FileState, Files!BlocksAssumption
<1>2. K \in Nat
  BY <1>1, Spans
<1>3. w = [i \in 0..K |->
             IF i = 0 THEN m ELSE Files!WriteBlock(w[i - 1], o, n, bad, o \div BSIZE + i - 1)]
  <2> HIDE DEF K
  <2> QED BY <1>2, WriteRounds
<1>4. r = [d EXCEPT !.size = Files!Max({@, o + d.tot}), !.logged = @ \cup {<<"inode">>}]
  <2>1. ~(o > m.size \/ o + n > Files!MAXFILE * BSIZE)
    BY <1>1
  <2> QED BY <2>1 DEF Files!writei
<1>5. Written(m, d, E, o, n, K)
  <2> HIDE DEF w
  <2> QED BY <1>3, AllRounds
<1> HIDE DEF K, w, d, r
<1>6. /\ d \in FileState /\ Sound(d, E) /\ d.size = m.size /\ d.tot \in Nat /\ d.tot <= n
      /\ WholeTo(d.a, m.size) /\ WholeTo(d.a, o + d.tot) /\ Ledger(d, m.a[NDIRECT], Spent(o, K))
  BY <1>5 DEF Written
<1>7. PICK s \in Nat : s = Files!Max({d.size, o + d.tot}) /\ s \in {m.size, o + d.tot}
  <2>1. PICK x \in Nat, y \in Nat : x = d.size /\ y = o + d.tot
    BY <1>1, <1>6
  <2>2. Files!Max({x, y}) \in {x, y}
    BY FilesMax
  <2>3. Files!Max({d.size, o + d.tot}) = Files!Max({x, y}) /\ {x, y} = {m.size, o + d.tot}
    BY <1>6, <2>1
  <2>4. Files!Max({x, y}) \in Nat
    BY <2>2
  <2> QED BY <2>2, <2>3, <2>4
<1>8. s \in {m.size, o + d.tot}
  BY <1>7
<1>9. <<"inode">> \in LogItem
  BY DEF LogItem
<1>10. /\ r \in FileState /\ r.size = s /\ r.a = d.a /\ r.tot = d.tot /\ r.bitmap = d.bitmap
       /\ r.panic = d.panic /\ r.logged = d.logged \cup {<<"inode">>}
  <2>1. r = [d EXCEPT !.size = s, !.logged = @ \cup {<<"inode">>}]
    BY <1>4, <1>7
  <2> QED BY <1>6, <1>9, <2>1 DEF FileState
<1>11. Sound(r, E)
  BY <1>6, <1>10 DEF Sound
<1>12. WholeTo(r.a, r.size)
  BY <1>6, <1>8, <1>10
<1>13. r.size <= Files!MAXFILE * BSIZE
  BY <1>1, <1>6, <1>8, <1>10
<1>14. IsFiniteSet(r.logged) /\ Cardinality(r.logged) <= Spent(o, K) + 3
  <2>1. IsFiniteSet(d.logged) /\ Cardinality(d.logged) <= Spent(o, K) + Extra(d, m.a[NDIRECT])
    BY <1>6 DEF Ledger
  <2>2. Extra(d, m.a[NDIRECT]) \in 0..2
    BY DEF Extra
  <2>3. Cardinality(d.logged) \in Nat /\ Cardinality(r.logged) \in Nat /\ IsFiniteSet(r.logged)
        /\ Cardinality(r.logged) <= Cardinality(d.logged) + 1
    <3> DEFINE L == d.logged
    <3>1. r.logged = L \cup {<<"inode">>} /\ IsFiniteSet(L)
      BY <1>10, <2>1
    <3> HIDE DEF L
    <3>2. /\ IsFiniteSet(L \cup {<<"inode">>}) /\ Cardinality(L) \in Nat
          /\ Cardinality(L \cup {<<"inode">>}) \in Nat
          /\ Cardinality(L \cup {<<"inode">>}) <= Cardinality(L) + 1
      BY <3>1, OneMore
    <3> QED BY <3>1, <3>2 DEF L
  <2>4. Spent(o, K) \in Int
    BY <1>2 DEF Spent
  <2> QED BY <2>1, <2>2, <2>3, <2>4
<1> QED BY <1>6, <1>10, <1>11, <1>12, <1>13, <1>14 DEF r, K

\* What filewrite() writes in one transaction stays within what begin_op() has reserved.
LEMMA ChunkFits ==
    ASSUME Files!BlocksAssumption, NEW o \in Nat, NEW n \in Nat, n <= Files!max
    PROVE  Spent(o, Files!Span(o, n)) + 3 <= MaxOpBlocks
<1> DEFINE c == (MaxOpBlocks - 4) \div 2
<1>1. c \in Nat /\ 2 * c <= MaxOpBlocks - 4 /\ MaxOpBlocks \in Nat
  BY DEF Files!BlocksAssumption
<1>2. Files!max = c * BSIZE
  <2>1. MaxOpBlocks - 1 - 1 - 2 = MaxOpBlocks - 4
    BY <1>1
  <2> QED BY <2>1 DEF Files!max
<1> HIDE DEF c
<1>3. /\ Files!Span(o, n) \in Nat /\ Files!Span(o, n) <= c + 1
      /\ (o \div BSIZE) * BSIZE = o => Files!Span(o, n) <= c
  BY <1>1, <1>2, Spans, SpanBound
<1>4. CASE (o \div BSIZE) * BSIZE = o
  <2>1. Spent(o, Files!Span(o, n)) = 2 * Files!Span(o, n)
    BY <1>4 DEF Spent
  <2> QED BY <1>1, <1>3, <1>4, <2>1
<1>5. CASE (o \div BSIZE) * BSIZE # o
  <2>1. Spent(o, Files!Span(o, n)) <= 2 * c + 1 
    BY <1>1, <1>3, <1>5 DEF Spent
  <2>2. Spent(o, Files!Span(o, n)) \in Int
    BY <1>3 DEF Spent
  <2> QED BY <1>1, <2>1, <2>2
<1> QED BY <1>4, <1>5

-----------------------------------------------------------------------------
\* Reading finds every block it looks for, and emptying a file gives all of them back.

ReadSo(m, w, k) ==
    /\ w \in FileState /\ w.bitmap = m.bitmap /\ w.a = m.a /\ w.size = m.size /\ w.panic = m.panic
    /\ w.tot <= k

\* The states of the rounds of readi().
ReadStates(w, m, o, n, bad, K) ==
    w = [i \in 0..K |-> IF i = 0 THEN m
                        ELSE Files!ReadBlock(w[i - 1], o, n, bad, o \div BSIZE + i - 1)]

LEMMA ReadRounds ==
    ASSUME NEW m, NEW o, NEW n, NEW bad, NEW K \in Nat
    PROVE  \E w : ReadStates(w, m, o, n, bad, K)
<1> DEFINE Round(s, i) == Files!ReadBlock(s, o, n, bad, o \div BSIZE + i - 1)
           Is(w, k) == w = [i \in 0..k |-> IF i = 0 THEN m ELSE Round(w[i - 1], i)]
           T == {k \in Nat : ~\E w : Is(w, k)}
<1>1. ASSUME T # {} PROVE FALSE
  <2>1. PICK k \in T : \A j \in T : k <= j
    <3>1. Files!Min(T) \in T /\ \A j \in T : Files!Min(T) <= j
      BY <1>1, FilesMin
    <3> QED BY <3>1
  <2> HIDE DEF Round
  <2>2. CASE k = 0
    <3>1. Is([i \in 0..0 |-> m], 0)
      OBVIOUS
    <3> QED BY <2>1, <2>2, <3>1
  <2>3. CASE k # 0
    <3>1. k - 1 \in Nat /\ k - 1 \notin T
      BY <2>1, <2>3
    <3>2. PICK w : Is(w, k - 1)
      BY <3>1
    <3> DEFINE v == [i \in 0..k |-> IF i = k THEN Round(w[k - 1], k) ELSE w[i]]
    <3>3. v = [i \in 0..k |-> IF i = 0 THEN m ELSE Round(v[i - 1], i)]
      <4>1. ASSUME NEW i \in 0..k PROVE v[i] = IF i = 0 THEN m ELSE Round(v[i - 1], i)
        <5>1. CASE i = k
          BY <2>1, <2>3, <3>1, <5>1
        <5>2. CASE i # k
          <6>1. i \in 0..k - 1 /\ v[i] = w[i] /\ i - 1 # k
            BY <2>1, <5>2
          <6>2. w[i] = IF i = 0 THEN m ELSE Round(w[i - 1], i)
            BY <3>2, <6>1
          <6>3. i # 0 => v[i - 1] = w[i - 1]
            BY <2>1, <6>1
          <6> QED BY <6>1, <6>2, <6>3
        <5> QED BY <5>1, <5>2
      <4> QED BY <4>1
    <3> QED BY <2>1, <3>3
  <2> QED BY <2>2, <2>3
<1>2. K \notin T
  BY <1>1
<1>3. PICK w : Is(w, K)
  BY <1>2
<1> QED BY <1>3 DEF ReadStates

LEMMA ReadBlockGives ==
    ASSUME Files!BlocksAssumption, NEW m \in FileState, NEW w, NEW o \in Nat, NEW k \in Nat, NEW bad,
           ReadSo(m, w, k), NEW bn \in FileBlock, Has(m.a, bn), (bn + 1) * BSIZE > o
    PROVE  ReadSo(m, Files!ReadBlock(w, o, k, bad, bn), k)
<1>1. w \in FileState /\ w.a = m.a
  BY DEF ReadSo
<1>2. CASE w.stop
  BY <1>2 DEF Files!ReadBlock
<1>3. CASE ~w.stop
  <2> DEFINE g == w.a[SlotOf(bn)]
             b == Files!bmap(w, bn)
             v == Files!ReadBlock(w, o, k, bad, bn)
  <2>1. b = [w EXCEPT !.got = g]
    BY <1>1, BmapFinds DEF FileBlock
  <2>2. g \in DataBlock \cup {0} /\ g # 0 /\ bn \in Nat
    BY <1>1, Slots DEF Has, FileState, FileBlock
  <2>3. b \in FileState /\ b.got = g
    BY <1>1, <2>1, <2>2 DEF FileState
  <2>4. v = IF bn = bad THEN [b EXCEPT !.stop = TRUE, !.tot = -1]
            ELSE [b EXCEPT !.tot = Files!Upto(o, k, bn)]
    BY <1>3, <2>2, <2>3 DEF Files!ReadBlock
  <2>5. Files!Upto(o, k, bn) \in Int /\ Files!Upto(o, k, bn) <= k
    BY <2>2, UptoIs
  <2> HIDE DEF b, g, v
  <2>9. /\ b.bitmap = m.bitmap /\ b.a = m.a /\ b.size = m.size /\ b.panic = m.panic
    BY <2>1 DEF ReadSo, FileState
  <2>6. CASE bn = bad
    <3>1. PICK t \in Int : t = -1
      OBVIOUS
    <3>2. v = [b EXCEPT !.stop = TRUE, !.tot = t] /\ t <= k
      BY <2>4, <2>6, <3>1
    <3>3. /\ v \in FileState /\ v.bitmap = b.bitmap /\ v.a = b.a /\ v.size = b.size
          /\ v.panic = b.panic /\ v.tot = t
      BY <2>3, <3>2 DEF FileState
    <3> QED BY <2>9, <3>2, <3>3 DEF ReadSo, v
  <2>7. CASE bn # bad
    <3>1. PICK t \in Int : t = Files!Upto(o, k, bn)
      BY <2>5
    <3>2. v = [b EXCEPT !.tot = t] /\ t <= k
      BY <2>4, <2>5, <2>7, <3>1
    <3>3. /\ v \in FileState /\ v.bitmap = b.bitmap /\ v.a = b.a /\ v.size = b.size
          /\ v.panic = b.panic /\ v.tot = t
      BY <2>3, <3>1, <3>2 DEF FileState
    <3> QED BY <2>9, <3>2, <3>3 DEF ReadSo, v
  <2> QED BY <2>6, <2>7 DEF v
<1> QED BY <1>2, <1>3

LEMMA ReadiGives ==
    ASSUME Files!BlocksAssumption, NEW m \in FileState, NEW o \in Nat, NEW n \in Nat, NEW bad,
           m.tot = 0, m.size <= Files!MAXFILE * BSIZE, WholeTo(m.a, m.size)
    PROVE  ReadSo(m, Files!readi(m, o, n, bad), n)
<1>1. CASE o > m.size
  BY <1>1 DEF Files!readi, ReadSo
<1>2. CASE ~(o > m.size)
  <2>1. m.size \in Nat
    BY DEF FileState
  <2>2. PICK x \in Int : x = m.size - o
    BY <2>1
  <2>3. Files!Min({n, x}) \in {n, x} /\ Files!Min({n, x}) <= n /\ Files!Min({n, x}) <= x
    BY FilesMinOfTwo
  <2>4. PICK k \in Nat : k = Files!Min({n, m.size - o}) /\ k <= n /\ o + k <= m.size
    BY <1>2, <2>1, <2>2, <2>3
  <2> DEFINE K == Files!Span(o, k)
             w == CHOOSE w : ReadStates(w, m, o, k, bad, K)
  <2>5. Files!readi(m, o, n, bad) = w[K]
    BY <1>2, <2>4 DEF Files!readi, ReadStates
  <2>6. /\ K \in Nat /\ o \div BSIZE \in Nat
        /\ \A i \in 1..K : /\ (o \div BSIZE + i - 1) * BSIZE < o + k
                           /\ (o \div BSIZE + i) * BSIZE > o
    BY <2>4, Spans
  <2> HIDE DEF K
  <2>7. w = [i \in 0..K |->
               IF i = 0 THEN m ELSE Files!ReadBlock(w[i - 1], o, k, bad, o \div BSIZE + i - 1)]
    <3>1. ReadStates(w, m, o, k, bad, K)
      BY <2>6, ReadRounds
    <3> QED BY <3>1 DEF ReadStates
  <2> HIDE DEF w
  <2> DEFINE T == {i \in 0..K : ~ReadSo(m, w[i], k)}
  <2>8. ASSUME T # {} PROVE FALSE
    <3>1. T \in SUBSET Nat
      BY <2>6
    <3>2. PICK i \in T : \A j \in T : i <= j
      <4>1. Files!Min(T) \in T /\ \A j \in T : Files!Min(T) <= j
        BY <2>8, <3>1, FilesMin
      <4> QED BY <4>1
    <3>3. CASE i = 0
      <4>1. w[0] = m
        BY <2>6, <2>7
      <4>2. ReadSo(m, m, k)
        BY <2>4 DEF ReadSo
      <4> QED BY <3>2, <3>3, <4>1, <4>2
    <3>4. CASE i # 0
      <4>1. i \in 1..K /\ i - 1 \in 0..K /\ i - 1 \notin T
        BY <2>6, <3>2, <3>4
      <4>2. ReadSo(m, w[i - 1], k)
        BY <4>1
      <4>3. w[i] = Files!ReadBlock(w[i - 1], o, k, bad, o \div BSIZE + i - 1)
        BY <2>7, <3>4, <4>1
      <4>4. PICK bn \in Nat : bn = o \div BSIZE + i - 1 /\ bn + 1 = o \div BSIZE + i
        BY <2>6, <4>1
      <4>5. bn * BSIZE < o + k /\ (bn + 1) * BSIZE > o
        BY <2>6, <4>1, <4>4
      <4>6. BSIZE \in Nat \ {0} /\ Files!MAXFILE \in Int
        BY Slots DEF Files!BlocksAssumption
      <4>7. bn * BSIZE < m.size /\ bn * BSIZE < Files!MAXFILE * BSIZE
        BY <2>1, <2>4, <4>4, <4>5, <4>6, Times
      <4>8. bn \in FileBlock
        BY <4>4, <4>6, <4>7, Times DEF FileBlock
      <4>9. Has(m.a, bn)
        BY <4>7, <4>8 DEF WholeTo
      <4>10. ReadSo(m, w[i], k)
        BY <2>4, <4>2, <4>3, <4>4, <4>5, <4>8, <4>9, ReadBlockGives
      <4> QED BY <3>2, <4>10
    <3> QED BY <3>3, <3>4
  <2>9. K \in 0..K
    BY <2>6
  <2>10. ReadSo(m, w[K], k)
    BY <2>8, <2>9
  <2>11. w[K].tot \in Int
    BY <2>10 DEF ReadSo, FileState
  <2>12. ReadSo(m, w[K], n)
    BY <2>4, <2>10, <2>11 DEF ReadSo
  <2> QED BY <2>5, <2>12
<1> QED BY <1>1, <1>2

LEMMA ItruncGives ==
    ASSUME Files!BlocksAssumption, NEW m \in FileState, NEW E, Sound(m, E)
    PROVE  LET r == Files!itrunc(m)
           IN  r \in FileState /\ Sound(r, E) /\ r.size = 0 /\ \A i \in Slot : r.a[i] = 0
<1> DEFINE B == {m.a[i] : i \in Slot} \ {0}
           r == Files!itrunc(m)
<1>1. m.a \in [Slot -> DataBlock \cup {0}] /\ DOMAIN m.a = Slot
  BY DEF FileState
<1>2. B \subseteq m.bitmap /\ m.bitmap \ B = E
  BY DEF Sound
<1>3. r = [[m EXCEPT !.bitmap = @ \ B, !.panic = @ \/ ~(B \subseteq m.bitmap)]
             EXCEPT !.a = [i \in Slot |-> 0], !.size = 0]
  BY <1>1 DEF Files!itrunc, Files!bfree
<1>4. ~m.panic /\ m.panic \in BOOLEAN
  BY DEF Sound, FileState
<1> HIDE DEF B, r
<1>5. /\ r \in FileState /\ r.bitmap = E /\ ~r.panic /\ r.a = [i \in Slot |-> 0] /\ r.size = 0
  BY <1>2, <1>3, <1>4 DEF FileState
<1> QED BY <1>5 DEF Sound, r

-----------------------------------------------------------------------------
\* The files together.

BlocksType ==
    /\ bitmap \in SUBSET DataBlock /\ addrs \in [Inode -> [Slot -> DataBlock \cup {0}]]
    /\ size \in [Inode -> Nat] /\ off \in [File -> Nat] /\ todo \in [File -> Nat]
    /\ logged \in Nat /\ panic \in BOOLEAN

BlocksInv ==
    /\ BlocksType /\ Files!BlocksAccounted /\ Files!NoHoles /\ Files!WriteFitsLog
    /\ \A ip \in Inode : size[ip] <= Files!MAXFILE * BSIZE

\* The blocks of the other files.
Others(ip) == {addrs[q][i] : q \in Inode \ {ip}, i \in Slot} \ {0}

\* Files!BlocksAccounted, said with an inode and a slot in place of their pair.
Accounted ==
    /\ ~panic
    /\ bitmap = {addrs[q][i] : q \in Inode, i \in Slot} \ {0}
    /\ \A q, r \in Inode, i, j \in Slot :
          addrs[q][i] # 0 /\ addrs[q][i] = addrs[r][j] => q = r /\ i = j

LEMMA AccountedIs == Files!BlocksAccounted <=> Accounted
<1> DEFINE Pair == {addrs[s[1]][s[2]] : s \in Files!Slots}
           One  == {addrs[q][i] : q \in Inode, i \in Slot}
           Apart == \A s, t \in Files!Slots :
                       s # t /\ addrs[s[1]][s[2]] # 0 => addrs[s[1]][s[2]] # addrs[t[1]][t[2]]
           OneApart == \A q, r \in Inode, i, j \in Slot :
                          addrs[q][i] # 0 /\ addrs[q][i] = addrs[r][j] => q = r /\ i = j
<1>1. \A q \in Inode, i \in Slot : <<q, i>> \in Files!Slots /\ <<q, i>>[1] = q /\ <<q, i>>[2] = i
  BY DEF Files!Slots, Slot
<1>2. \A s \in Files!Slots : s[1] \in Inode /\ s[2] \in Slot /\ s = <<s[1], s[2]>>
  BY DEF Files!Slots, Slot
<1>3. Pair = One
  <2>1. ASSUME NEW x \in Pair PROVE x \in One
    BY <1>2
  <2>2. ASSUME NEW x \in One PROVE x \in Pair
    <3>1. PICK q \in Inode, i \in Slot : x = addrs[q][i]
      OBVIOUS
    <3>2. <<q, i>> \in Files!Slots /\ <<q, i>>[1] = q /\ <<q, i>>[2] = i
      BY <1>1
    <3>3. PICK s \in Files!Slots : s[1] = q /\ s[2] = i
      BY <3>2
    <3> QED BY <3>1, <3>3
  <2> HIDE DEF Pair, One
  <2> QED BY <2>1, <2>2
<1>4. ASSUME Apart, NEW q \in Inode, NEW r \in Inode, NEW i \in Slot, NEW j \in Slot,
             addrs[q][i] # 0, addrs[q][i] = addrs[r][j]
      PROVE  q = r /\ i = j
  <2>1. PICK s \in Files!Slots : s[1] = q /\ s[2] = i
    <3>1. <<q, i>> \in Files!Slots /\ <<q, i>>[1] = q /\ <<q, i>>[2] = i
      BY <1>1
    <3> QED BY <3>1
  <2>2. PICK t \in Files!Slots : t[1] = r /\ t[2] = j
    <3>1. <<r, j>> \in Files!Slots /\ <<r, j>>[1] = r /\ <<r, j>>[2] = j
      BY <1>1
    <3> QED BY <3>1
  <2>3. s = t
    BY <1>4, <2>1, <2>2
  <2> QED BY <2>1, <2>2, <2>3
<1>5. ASSUME OneApart, NEW s \in Files!Slots, NEW t \in Files!Slots, s # t, addrs[s[1]][s[2]] # 0
      PROVE  addrs[s[1]][s[2]] # addrs[t[1]][t[2]]
  <2>1. SUFFICES ASSUME addrs[s[1]][s[2]] = addrs[t[1]][t[2]] PROVE s = t
    BY <1>5
  <2>2. s[1] = t[1] /\ s[2] = t[2]
    BY <1>2, <1>5, <2>1
  <2> QED BY <1>2, <2>2
<1>6. Apart <=> OneApart
  BY <1>4, <1>5
<1>7. /\ Files!BlocksAccounted <=> ~panic /\ bitmap = Pair \ {0} /\ Apart
      /\ Accounted <=> ~panic /\ bitmap = One \ {0} /\ OneApart
  BY DEF Files!BlocksAccounted, Accounted
<1> HIDE DEF Pair, One, Apart, OneApart
<1> QED BY <1>3, <1>6, <1>7

\* A file has no holes, said for one inode.
LEMMA HolesOf ==
    ASSUME Files!BlocksAssumption, NEW A, NEW x \in Nat
    PROVE  WholeTo(A, x) <=> \A bn \in 0..Files!MAXFILE - 1 : bn * BSIZE < x =>
                                /\ A[IF bn < NDIRECT THEN bn ELSE bn + 1] # 0
                                /\ bn >= NDIRECT => A[NDIRECT] # 0
BY DEF WholeTo, FileBlock, Has, SlotOf

\* A call begins with a file that is as every file should be.
LEMMA FileOf ==
    ASSUME Files!BlocksAssumption, BlocksInv, NEW ip \in Inode
    PROVE  LET m == Files!State(ip)
           IN  /\ m \in FileState /\ Sound(m, Others(ip)) /\ WholeTo(m.a, m.size)
               /\ m.size <= Files!MAXFILE * BSIZE /\ m.size = size[ip] /\ m.a = addrs[ip]
               /\ ~m.stop /\ m.tot = 0 /\ m.logged = {}
               /\ m.bitmap = bitmap /\ m.panic = panic
<1> DEFINE m == Files!State(ip)
<1>1. /\ m.bitmap = bitmap /\ m.a = addrs[ip] /\ m.size = size[ip] /\ m.logged = {} /\ m.got = 0
      /\ m.tot = 0 /\ m.stop = FALSE /\ m.panic = panic
  BY DEF Files!State
<1>2. m \in FileState
  BY DEF Files!State, FileState, BlocksInv, BlocksType
<1> HIDE DEF m
<1>3. /\ ~panic /\ bitmap = {addrs[q][i] : q \in Inode, i \in Slot} \ {0}
      /\ \A q, r \in Inode, i, j \in Slot :
            addrs[q][i] # 0 /\ addrs[q][i] = addrs[r][j] => q = r /\ i = j
  BY AccountedIs DEF BlocksInv, Accounted
<1>4. Sound(m, Others(ip))
  <2>1. m.bitmap = Others(ip) \cup ({m.a[i] : i \in Slot} \ {0})
    BY <1>1, <1>3 DEF Others
  <2>2. \A i \in Slot : m.a[i] # 0 => m.a[i] \notin Others(ip)
    BY <1>1, <1>3 DEF Others
  <2>3. \A i, j \in Slot : m.a[i] = m.a[j] /\ m.a[i] # 0 => i = j
    BY <1>1, <1>3
  <2> QED BY <1>1, <1>3, <2>1, <2>2, <2>3 DEF Sound
<1>5. WholeTo(m.a, m.size) /\ m.size <= Files!MAXFILE * BSIZE
  <2>1. size[ip] \in Nat
    BY DEF BlocksInv, BlocksType
  <2> QED BY <1>1, <2>1, HolesOf DEF BlocksInv, Files!NoHoles
<1> QED BY <1>1, <1>2, <1>4, <1>5 DEF m

\* What a call has made of a file goes back, and all files are as they should be.
LEMMA PutBack ==
    ASSUME Files!BlocksAssumption, BlocksInv, NEW ip \in Inode, NEW m \in FileState,
           Sound(m, Others(ip)), WholeTo(m.a, m.size), m.size <= Files!MAXFILE * BSIZE,
           Files!Put(ip, m)
    PROVE  /\ bitmap' \in SUBSET DataBlock /\ addrs' \in [Inode -> [Slot -> DataBlock \cup {0}]]
           /\ size' \in [Inode -> Nat] /\ panic' \in BOOLEAN
           /\ Files!BlocksAccounted' /\ Files!NoHoles'
           /\ \A q \in Inode : size'[q] <= Files!MAXFILE * BSIZE
<1>1. /\ m.bitmap \in SUBSET DataBlock /\ m.a \in [Slot -> DataBlock \cup {0}] /\ m.size \in Nat
      /\ m.panic \in BOOLEAN
  BY DEF FileState
<1>2. /\ bitmap' = m.bitmap /\ panic' = m.panic
      /\ addrs' = [addrs EXCEPT ![ip] = m.a] /\ size' = [size EXCEPT ![ip] = m.size]
  BY DEF Files!Put
<1>3. /\ addrs \in [Inode -> [Slot -> DataBlock \cup {0}]] /\ size \in [Inode -> Nat]
      /\ \A q \in Inode : size[q] <= Files!MAXFILE * BSIZE
  BY DEF BlocksInv, BlocksType
<1>4. /\ addrs' \in [Inode -> [Slot -> DataBlock \cup {0}]] /\ size' \in [Inode -> Nat]
      /\ addrs'[ip] = m.a /\ size'[ip] = m.size
      /\ \A q \in Inode \ {ip} : addrs'[q] = addrs[q] /\ size'[q] = size[q]
  BY <1>1, <1>2, <1>3
<1>5. \A q, r \in Inode, i, j \in Slot :
         addrs[q][i] # 0 /\ addrs[q][i] = addrs[r][j] => q = r /\ i = j
  BY AccountedIs DEF BlocksInv, Accounted
<1>6. Files!BlocksAccounted'
  <2>1. bitmap' = {addrs'[q][i] : q \in Inode, i \in Slot} \ {0}
    <3>1. \A x : x \in Others(ip) <=> x # 0 /\ \E q \in Inode \ {ip}, i \in Slot : x = addrs'[q][i]
      BY <1>4 DEF Others
    <3>2. \A x : x \in bitmap' <=> x \in Others(ip) \/ (x # 0 /\ \E i \in Slot : x = addrs'[ip][i])
      BY <1>2, <1>4 DEF Sound
    <3> QED BY <3>1, <3>2
  <2>2. ASSUME NEW q \in Inode, NEW r \in Inode, NEW i \in Slot, NEW j \in Slot,
               addrs'[q][i] # 0, addrs'[q][i] = addrs'[r][j]
        PROVE  q = r /\ i = j
    <3>1. CASE q = ip /\ r = ip
      BY <1>4, <2>2, <3>1 DEF Sound
    <3>2. CASE q = ip /\ r # ip
      BY <1>4, <2>2, <3>2 DEF Sound, Others
    <3>3. CASE q # ip /\ r = ip
      BY <1>4, <2>2, <3>3 DEF Sound, Others
    <3>4. CASE q # ip /\ r # ip
      BY <1>4, <1>5, <2>2, <3>4
    <3> QED BY <3>1, <3>2, <3>3, <3>4
  <2>3. ~panic'
    BY <1>2 DEF Sound
  <2>4. Accounted'
    BY <2>1, <2>2, <2>3 DEF Accounted
  <2> QED BY <2>4, AccountedIs, PTL
<1>7. \A q \in Inode : WholeTo(addrs'[q], size'[q]) /\ size'[q] <= Files!MAXFILE * BSIZE
  <2>1. \A q \in Inode : size[q] \in Nat
    BY <1>3
  <2>2. \A q \in Inode : WholeTo(addrs[q], size[q])
    BY <2>1, HolesOf DEF BlocksInv, Files!NoHoles
  <2> QED BY <1>3, <1>4, <2>2
<1>8. Files!NoHoles'
  <2>1. \A q \in Inode : size'[q] \in Nat
    BY <1>4
  <2>2. ASSUME NEW q \in Inode, NEW bn \in 0..Files!MAXFILE - 1, bn * BSIZE < size'[q]
        PROVE  /\ addrs'[q][IF bn < NDIRECT THEN bn ELSE bn + 1] # 0
               /\ bn >= NDIRECT => addrs'[q][NDIRECT] # 0
    BY <1>7, <2>1, <2>2, HolesOf
  <2> QED BY <2>2 DEF Files!NoHoles
<1> QED BY <1>1, <1>2, <1>4, <1>6, <1>7, <1>8

LEMMA ChunkIsNat == ASSUME Files!BlocksAssumption PROVE Files!max \in Nat
<1>1. PICK c \in Nat : c = (MaxOpBlocks - 1 - 1 - 2) \div 2
  BY DEF Files!BlocksAssumption
<1> QED BY <1>1 DEF Files!max, Files!BlocksAssumption

\* One transaction of a write.
LEMMA WriteChunkKeeps ==
    ASSUME Files!BlocksAssumption, BlocksInv, NEW f \in File, NEW bad, Files!WriteChunk(f, bad)
    PROVE  BlocksInv'
<1> DEFINE s == Files!State(IpOf[f])
           n1 == Files!Min({todo[f], Files!max})
           m  == Files!writei(s, off[f], n1, bad)
<1>1. /\ todo[f] \in Nat /\ off[f] \in Nat /\ IpOf[f] \in Inode /\ Files!max \in Nat
      /\ off \in [File -> Nat] /\ todo \in [File -> Nat] /\ Files!MAXFILE \in Nat
  BY Slots, ChunkIsNat DEF BlocksInv, BlocksType, Files!BlocksAssumption
<1>2. n1 \in Nat /\ n1 <= todo[f] /\ n1 <= Files!max
  <2>1. PICK x \in Nat, y \in Nat : x = todo[f] /\ y = Files!max
    BY <1>1
  <2>2. Files!Min({x, y}) \in {x, y} /\ Files!Min({x, y}) <= x /\ Files!Min({x, y}) <= y
    BY FilesMinOfTwo
  <2> QED BY <2>1, <2>2
<1>3. /\ Files!Put(IpOf[f], m) /\ Files!Advance(f, m.tot) /\ logged' = Files!Cardinality(m.logged)
      /\ todo' = [todo EXCEPT ![f] = IF m.tot = n1 THEN @ - n1 ELSE 0]
  BY DEF Files!WriteChunk
<1> HIDE DEF n1
<1>4. /\ s \in FileState /\ Sound(s, Others(IpOf[f])) /\ WholeTo(s.a, s.size)
      /\ s.size <= Files!MAXFILE * BSIZE /\ ~s.stop /\ s.tot = 0 /\ s.logged = {}
  BY <1>1, FileOf
<1> HIDE DEF s
<1>5. /\ m \in FileState /\ Sound(m, Others(IpOf[f])) /\ WholeTo(m.a, m.size)
      /\ m.size <= Files!MAXFILE * BSIZE
      /\ IsFiniteSet(m.logged) /\ Cardinality(m.logged) <= MaxOpBlocks
  <2>1. CASE off[f] > s.size \/ off[f] + n1 > Files!MAXFILE * BSIZE
    <3>1. PICK t \in Int : t = -1
      OBVIOUS
    <3>2. m = [s EXCEPT !.tot = t]
      BY <2>1, <3>1 DEF Files!writei
    <3> HIDE DEF m
    <3>3. /\ m \in FileState /\ m.bitmap = s.bitmap /\ m.a = s.a /\ m.size = s.size
          /\ m.logged = {} /\ m.panic = s.panic
      BY <1>4, <3>2 DEF FileState
    <3>4. IsFiniteSet({}) /\ Cardinality({}) = 0 /\ 0 <= MaxOpBlocks
      BY FS_EmptySet DEF Files!BlocksAssumption
    <3> QED BY <1>4, <3>3, <3>4 DEF Sound
  <2>2. CASE ~(off[f] > s.size \/ off[f] + n1 > Files!MAXFILE * BSIZE)
    <3>1. PICK o \in Nat : o = off[f]
      BY <1>1
    <3>2. s.size \in Nat /\ Files!MAXFILE * BSIZE \in Int
      BY <1>1, <1>4 DEF FileState, Files!BlocksAssumption
    <3>3. Writable(s, Others(IpOf[f]), o, n1)
      BY <1>2, <1>4, <2>2, <3>1, <3>2 DEF Writable
    <3>4. /\ m \in FileState /\ Sound(m, Others(IpOf[f])) /\ WholeTo(m.a, m.size)
          /\ m.size <= Files!MAXFILE * BSIZE /\ m.tot \in Nat
          /\ IsFiniteSet(m.logged) /\ Cardinality(m.logged) <= Spent(o, Files!Span(o, n1)) + 3
      BY <1>4, <3>1, <3>3, WriteiGives
    <3>5. Spent(o, Files!Span(o, n1)) + 3 <= MaxOpBlocks
      BY <1>2, ChunkFits
    <3>6. Files!Span(o, n1) \in Nat
      BY <1>2, Spans
    <3>7. Spent(o, Files!Span(o, n1)) \in Int /\ MaxOpBlocks \in Nat /\ Cardinality(m.logged) \in Nat
      BY <3>4, <3>6, FS_CardinalityType DEF Spent, Files!BlocksAssumption
    <3> HIDE DEF m
    <3> QED BY <3>4, <3>5, <3>7
  <2> QED BY <2>1, <2>2
<1> HIDE DEF m
<1>6. /\ bitmap' \in SUBSET DataBlock /\ addrs' \in [Inode -> [Slot -> DataBlock \cup {0}]]
      /\ size' \in [Inode -> Nat] /\ panic' \in BOOLEAN
      /\ Files!BlocksAccounted' /\ Files!NoHoles'
      /\ \A q \in Inode : size'[q] <= Files!MAXFILE * BSIZE
  BY <1>1, <1>3, <1>5, PutBack
<1>7. logged' \in Nat /\ logged' <= MaxOpBlocks
  BY <1>3, <1>5, FilesSize, FS_CardinalityType
<1>8. off' \in [File -> Nat]
  <2>1. m.tot \in Int
    BY <1>5 DEF FileState
  <2>2. PICK x \in Nat : x = IF m.tot > 0 THEN off[f] + m.tot ELSE off[f]
    BY <1>1, <2>1
  <2>3. off' = [off EXCEPT ![f] = x]
    BY <1>1, <1>3, <2>2 DEF Files!Advance
  <2> QED BY <1>1, <2>3
<1>9. todo' \in [File -> Nat]
  <2>1. PICK x \in Nat : x = IF m.tot = n1 THEN todo[f] - n1 ELSE 0
    BY <1>1, <1>2
  <2>2. todo' = [todo EXCEPT ![f] = x]
    BY <1>1, <1>3, <2>1
  <2> QED BY <1>1, <2>2
<1> QED BY <1>6, <1>7, <1>8, <1>9 DEF BlocksInv, BlocksType, Files!WriteFitsLog

\* Reading, which changes no block.
LEMMA ReadKeeps ==
    ASSUME Files!BlocksAssumption, BlocksInv, NEW f \in File, NEW n \in Nat, NEW bad,
           Files!Read(f, n, bad)
    PROVE  BlocksInv'
<1> DEFINE s == Files!State(IpOf[f])
           m == Files!readi(s, off[f], n, bad)
<1>1. off[f] \in Nat /\ IpOf[f] \in Inode /\ off \in [File -> Nat]
  BY DEF BlocksInv, BlocksType, Files!BlocksAssumption
<1>2. Files!Put(IpOf[f], m) /\ Files!Advance(f, m.tot) /\ logged' = 0 /\ todo' = todo
  BY DEF Files!Read
<1>3. /\ s \in FileState /\ Sound(s, Others(IpOf[f])) /\ WholeTo(s.a, s.size)
      /\ s.size <= Files!MAXFILE * BSIZE /\ s.tot = 0
  BY <1>1, FileOf
<1> HIDE DEF s
<1>4. ReadSo(s, m, n)
  BY <1>1, <1>3, ReadiGives
<1> HIDE DEF m
<1>5. /\ m \in FileState /\ Sound(m, Others(IpOf[f])) /\ WholeTo(m.a, m.size)
      /\ m.size <= Files!MAXFILE * BSIZE
  BY <1>3, <1>4 DEF ReadSo, Sound
<1>6. /\ bitmap' \in SUBSET DataBlock /\ addrs' \in [Inode -> [Slot -> DataBlock \cup {0}]]
      /\ size' \in [Inode -> Nat] /\ panic' \in BOOLEAN
      /\ Files!BlocksAccounted' /\ Files!NoHoles'
      /\ \A q \in Inode : size'[q] <= Files!MAXFILE * BSIZE
  BY <1>1, <1>2, <1>5, PutBack
<1>7. off' \in [File -> Nat]
  <2>1. m.tot \in Int
    BY <1>5 DEF FileState
  <2>2. PICK x \in Nat : x = IF m.tot > 0 THEN off[f] + m.tot ELSE off[f]
    BY <1>1, <2>1
  <2>3. off' = [off EXCEPT ![f] = x]
    BY <1>1, <1>2, <2>2 DEF Files!Advance
  <2> QED BY <1>1, <2>3
<1>8. MaxOpBlocks \in Nat
  BY DEF Files!BlocksAssumption
<1> QED BY <1>2, <1>6, <1>7, <1>8 DEF BlocksInv, BlocksType, Files!WriteFitsLog

\* Emptying a file.
LEMMA TruncateKeeps ==
    ASSUME Files!BlocksAssumption, BlocksInv, NEW ip \in Inode, Files!Truncate(ip)
    PROVE  BlocksInv'
<1> DEFINE s == Files!State(ip)
           m == Files!itrunc(s)
<1>1. Files!Put(ip, m) /\ logged' = 0 /\ off' = off /\ todo' = todo
  BY DEF Files!Truncate
<1>2. s \in FileState /\ Sound(s, Others(ip))
  BY FileOf
<1> HIDE DEF s
<1>3. m \in FileState /\ Sound(m, Others(ip)) /\ m.size = 0
  BY <1>2, ItruncGives
<1> HIDE DEF m
<1>4. MaxOpBlocks \in Nat /\ BSIZE \in Nat /\ Files!MAXFILE \in Nat
  BY Slots DEF Files!BlocksAssumption
<1>5. m.size <= Files!MAXFILE * BSIZE /\ \A c \in FileBlock : ~(c * BSIZE < m.size)
  <2>1. \A c \in Nat : c * BSIZE \in Nat
    BY <1>4
  <2>2. FileBlock \subseteq Nat
    BY <1>4 DEF FileBlock
  <2> QED BY <1>3, <1>4, <2>1, <2>2
<1>6. WholeTo(m.a, m.size)
  BY <1>5 DEF WholeTo
<1>7. /\ bitmap' \in SUBSET DataBlock /\ addrs' \in [Inode -> [Slot -> DataBlock \cup {0}]]
      /\ size' \in [Inode -> Nat] /\ panic' \in BOOLEAN
      /\ Files!BlocksAccounted' /\ Files!NoHoles'
      /\ \A q \in Inode : size'[q] <= Files!MAXFILE * BSIZE
  BY <1>1, <1>3, <1>5, <1>6, PutBack
<1> QED BY <1>1, <1>4, <1>7 DEF BlocksInv, BlocksType, Files!WriteFitsLog

\* What leaves the blocks and the sizes as they are.
LEMMA BlocksStay ==
    ASSUME Files!BlocksAssumption, BlocksInv, UNCHANGED <<bitmap, addrs, size, panic>>,
           off' \in [File -> Nat], todo' \in [File -> Nat], logged' \in {0, logged}
    PROVE  BlocksInv'
<1>1. MaxOpBlocks \in Nat /\ bitmap' = bitmap /\ addrs' = addrs /\ size' = size /\ panic' = panic
  BY DEF Files!BlocksAssumption
<1>2. Files!BlocksAccounted' /\ Files!NoHoles'
  BY <1>1 DEF BlocksInv, Files!BlocksAccounted, Files!NoHoles
<1>3. Files!WriteFitsLog'
  BY <1>1 DEF BlocksInv, BlocksType, Files!WriteFitsLog
<1> QED BY <1>1, <1>2, <1>3 DEF BlocksInv, BlocksType

LEMMA InitBlocks == ASSUME Files!BlocksAssumption, Files!BlocksInit PROVE BlocksInv
<1>1. BlocksType
  BY DEF Files!BlocksInit, BlocksType, Slot
<1>2. /\ bitmap = {} /\ panic = FALSE /\ logged = 0 /\ \A q \in Inode : size[q] = 0
      /\ \A q \in Inode, i \in Slot : addrs[q][i] = 0
  BY DEF Files!BlocksInit, Slot
<1>3. Accounted
  BY <1>2 DEF Accounted
<1>4. Files!MAXFILE \in Nat /\ BSIZE \in Nat /\ MaxOpBlocks \in Nat
  BY Slots DEF Files!BlocksAssumption
<1>5. Files!NoHoles
  <2>1. \A c \in Nat : c * BSIZE \in Nat
    BY <1>4
  <2>2. \A c \in 0..Files!MAXFILE - 1 : ~(c * BSIZE < 0)
    BY <1>4, <2>1
  <2> QED BY <1>2, <2>2 DEF Files!NoHoles
<1>6. 0 <= Files!MAXFILE * BSIZE
  BY <1>4
<1> QED BY <1>1, <1>2, <1>3, <1>4, <1>5, <1>6, AccountedIs DEF BlocksInv, Files!WriteFitsLog

LEMMA NextBlocks ==
    ASSUME Files!BlocksAssumption, BlocksInv, [Files!BlocksNext]_(Files!blockVars)
    PROVE  BlocksInv'
<1>1. CASE UNCHANGED Files!blockVars
  BY <1>1, BlocksStay DEF Files!blockVars, BlocksInv, BlocksType
<1>2. ASSUME NEW f \in File, NEW n \in Count, Files!WriteStart(f, n) PROVE BlocksInv'
  <2>1. todo' \in [File -> Nat] /\ off' \in [File -> Nat] /\ logged' = 0
    BY <1>2 DEF Files!WriteStart, BlocksInv, BlocksType, Files!BlocksAssumption
  <2> QED BY <1>2, <2>1, BlocksStay DEF Files!WriteStart
<1>3. ASSUME NEW f \in File, Files!Reopen(f) PROVE BlocksInv'
  <2>1. todo' \in [File -> Nat] /\ off' \in [File -> Nat] /\ logged' = 0
    BY <1>3 DEF Files!Reopen, BlocksInv, BlocksType
  <2> QED BY <1>3, <2>1, BlocksStay DEF Files!Reopen
<1>4. ASSUME NEW f \in File, NEW n \in Count, NEW bad, Files!Read(f, n, bad) PROVE BlocksInv'
  BY <1>4, ReadKeeps DEF Files!BlocksAssumption
<1> QED BY <1>1, <1>2, <1>3, <1>4, WriteChunkKeeps, TruncateKeeps DEF Files!BlocksNext

-----------------------------------------------------------------------------
\* The blocks of files: the invariant, for any number of files, blocks and sizes.
THEOREM BlocksInvariance == ASSUME Files!BlocksAssumption PROVE Files!BlocksSpec => []BlocksInv
BY InitBlocks, NextBlocks, PTL DEF Files!BlocksSpec

\* Every block that the bitmap marks is in one place of one file, and every block in a file
\* is marked: balloc() and bfree() give none out twice and lose none, wherever a write
\* stops for want of blocks or of memory to copy from.
THEOREM NoBlockIsLost == ASSUME Files!BlocksAssumption PROVE Files!BlocksSpec => []Files!BlocksAccounted
<1>1. BlocksInv => Files!BlocksAccounted
  BY DEF BlocksInv
<1> QED BY <1>1, BlocksInvariance, PTL

\* A file has all blocks below its size, so that readi(), which fileread() calls outside of
\* any transaction, never allocates.
THEOREM FilesHaveNoHoles == ASSUME Files!BlocksAssumption PROVE Files!BlocksSpec => []Files!NoHoles
<1>1. BlocksInv => Files!NoHoles
  BY DEF BlocksInv
<1> QED BY <1>1, BlocksInvariance, PTL

\* What filewrite() writes at a time is never more than begin_op() has reserved, with the
\* inode, the indirect block and the bitmap counted, and wherever in a block it begins.
THEOREM WritesFitTheLog == ASSUME Files!BlocksAssumption PROVE Files!BlocksSpec => []Files!WriteFitsLog
<1>1. BlocksInv => Files!WriteFitsLog
  BY DEF BlocksInv
<1> QED BY <1>1, BlocksInvariance, PTL
====
