---- MODULE DiskProofs ----
(***************************************************************************)
(* xv6's buffer cache and disk driver, for any processes, buffers, blocks  *)
(* and lengths of the disk's queue: who has a buffer locked has what was   *)
(* last put into its block, and nobody sleeps past what he waits for.      *)
(*                                                                         *)
(* And its memory, for any number of pages and processes, any shape of the *)
(* page table and any programs: every page has exactly one use.  Each      *)
(* function of vm.c and proc.c has a lemma, named after it, on what it     *)
(* makes of a Whole state, also when it fails; the actions follow.         *)
(***************************************************************************)
EXTENDS Disk, FunctionTheorems, FiniteSetTheorems, NaturalsInduction, WellFoundedInduction, TLAPS

\* The steps at which a process has the lock of its buffer.
Working == {"hold", "rw", "io"}
Channel == {LockOf(x) : x \in Buf} \cup {DoneOf(x) : x \in Buf} \cup {FreeDesc}
Buffer  == [block : Block \cup {NULL}, valid : BOOLEAN, refcnt : Int, disk : BOOLEAN, data : Data]
Request == [id : Desc, write : BOOLEAN, block : Block]

TypesOK ==
    /\ buf \in [Buf -> Buffer] /\ locked \in [Buf -> Proc \cup {NULL}] /\ pinned \in SUBSET Buf
    /\ lru \in Seq(Buf)
    /\ pc \in [Proc -> {"idle", "lock", "release"} \cup Working]
    /\ asleep \in [Proc -> Channel \cup {NULL}] /\ b \in [Proc -> Buf \cup {NULL}]
    /\ write \in [Proc -> BOOLEAN]
    /\ free \in SUBSET Desc /\ IsFiniteSet(free)
    /\ next \in [Desc -> Desc \cup {NULL}] /\ info \in [Desc -> Buf \cup {NULL}]
    /\ avail \in SUBSET Request /\ used \in Seq(Desc)
    /\ disk \in [Block -> Data] /\ latest \in [Block -> Data] /\ panic = FALSE

\* Every buffer is in the list.
Listed == \A x \in Buf : \E i \in DOMAIN lru : lru[i] = x

\* What a process's place says about its buffer, its sleep and its request.
Stands(p) ==
    /\ pc[p] = "idle" <=> b[p] = NULL
    /\ b[p] # NULL => buf[b[p]].block \in Block
    /\ asleep[p] # NULL =>
         \/ pc[p] = "lock" /\ asleep[p] = LockOf(b[p]) /\ locked[b[p]] # NULL
         \/ pc[p] = "rw" /\ asleep[p] = FreeDesc /\ Cardinality(free) < 3
         \/ pc[p] = "io" /\ asleep[p] = DoneOf(b[p]) /\ buf[b[p]].disk
    /\ pc[p] = "hold" => buf[b[p]].valid
    /\ pc[p] \in {"rw", "io"} => (write[p] <=> buf[b[p]].valid)
Standing == \A p \in Proc : Stands(p)

\* A lock belongs to the process that works on the buffer.
Locks == \A x \in Buf, p \in Proc : locked[x] = p <=> pc[p] \in Working /\ b[p] = x

\* The reference count: the processes that have the buffer, and the pin.
Users(x) == {p \in Proc : b[p] = x}
Counts == \A x \in Buf : buf[x].refcnt = Cardinality(Users(x)) + (IF x \in pinned THEN 1 ELSE 0)

\* No block has two buffers.
Unique == \A x, y \in Buf : buf[x].block = buf[y].block /\ buf[x].block # NULL => x = y

\* A descriptor with a buffer heads the chain of the one request for it, which is with the disk
\* or done until the interrupt.
AtDisk(x) == \E i \in Desc : info[i] = x /\ (i \in ToSet(used) \/ \E r \in avail : r.id = i)
Asked(r) ==
    /\ info[r.id] # NULL /\ buf[info[r.id]].disk /\ r.block = buf[info[r.id]].block
    /\ r.id \notin ToSet(used)
    /\ \A p \in Proc : pc[p] = "io" /\ b[p] = info[r.id] => r.write = write[p]
Requests ==
    /\ \A i, j \in Desc : info[i] # NULL /\ info[i] = info[j] => i = j
    /\ \A i \in Desc : info[i] # NULL => \E p \in Proc : pc[p] = "io" /\ b[p] = info[i]
    /\ \A p \in Proc : pc[p] = "io" /\ buf[b[p]].disk => AtDisk(b[p])
    /\ \A i \in ToSet(used) : info[i] # NULL /\ buf[info[i]].disk
    /\ \A r \in avail : Asked(r)
    /\ \A r, s \in avail : r.id = s.id => r = s

\* The chains of the requests are apart from each other, and from the free descriptors.
Chains ==
    \A i \in Desc : info[i] # NULL =>
       /\ Chain(i) \cap free = {}
       /\ \A j \in Desc \ {i} : info[j] # NULL => Chain(i) \cap Chain(j) = {}

\* The disk has yet to serve a request for the buffer.
InFlight(x) == \E r \in avail : info[r.id] = x

\* The buffer is to be written, and is not yet.
Writing(x) == \E p \in Proc : /\ b[p] = x /\ pc[p] \in {"rw", "io"} /\ write[p]
                              /\ pc[p] = "io" => InFlight(x)

\* A valid buffer has what was last put there.  What the disk has of a block is older only
\* while the block's buffer is pinned or to be written.
ValidLatest == \A x \in Buf : buf[x].valid => buf[x].block \in Block /\ buf[x].data = latest[buf[x].block]
PinnedValid == \A x \in pinned : buf[x].valid
DiskLatest ==
    /\ \A k \in Block : (\A x \in Buf : buf[x].block # k) => disk[k] = latest[k]
    /\ \A x \in Buf : buf[x].block \in Block /\ x \notin pinned /\ ~Writing(x) =>
          disk[buf[x].block] = latest[buf[x].block]
ServedLatest ==
    \A p \in Proc : pc[p] = "io" /\ ~InFlight(b[p]) =>
          /\ buf[b[p]].data = latest[buf[b[p]].block]
          /\ disk[buf[b[p]].block] = latest[buf[b[p]].block]

DiskInv == /\ TypesOK /\ Listed /\ Standing /\ Locks /\ Counts /\ Unique /\ Requests /\ Chains
           /\ ValidLatest /\ PinnedValid /\ DiskLatest /\ ServedLatest

\* Channels are apart, and NULL is none.
LEMMA ChannelsApart ==
    ASSUME NEW x, NEW y
    PROVE  /\ LockOf(x) = LockOf(y) => x = y
           /\ DoneOf(x) = DoneOf(y) => x = y
           /\ LockOf(x) # DoneOf(y) /\ LockOf(x) # FreeDesc /\ DoneOf(x) # FreeDesc
BY DEF LockOf, DoneOf, FreeDesc

\* A set of numbers has a least one, a bounded set of numbers a greatest.
LEMMA LeastIs ==
    ASSUME NEW S \in SUBSET Nat, S # {} PROVE \E m \in S : \A n \in S : m <= n
<1>1. PICK m \in S : \A y \in S : ~(<<y, m>> \in OpToRel(<, Nat))
  BY NatLessThanWellFounded, WFMin
<1>2. \A y \in S : ~(y < m)
  BY <1>1, Zenon DEF OpToRel
<1> QED BY <1>2

LEMMA MinIn == ASSUME NEW S \in SUBSET Nat, S # {} PROVE Min(S) \in S
BY LeastIs DEF Min

LEMMA MaxIn ==
    ASSUME NEW n \in Nat, NEW S \in SUBSET (0..n), S # {} PROVE Max(S) \in S
<1> DEFINE T == {n - x : x \in S}
<1>1. T \in SUBSET Nat /\ T # {}
  <2>1. \A x \in S : x \in 0..n /\ n - x \in Nat
    OBVIOUS
  <2> QED BY <2>1
<1>2. PICK m \in T : \A y \in T : m <= y
  BY <1>1, LeastIs
<1>3. PICK x \in S : m = n - x
  BY <1>2
<1>4. \A y \in S : x >= y
  BY <1>2, <1>3
<1> QED BY <1>4 DEF Max

\* bget() takes a buffer that is not used.
LEMMA OldestIs == ASSUME TypesOK, Listed, Unused # {} PROVE Oldest \in Buf /\ buf[Oldest].refcnt = 0
<1> DEFINE S == {i \in DOMAIN lru : lru[i] \in Unused}
<1>1. lru \in Seq(Buf) /\ Unused \subseteq Buf
  BY DEF TypesOK, Unused
<1>2. Len(lru) \in Nat /\ S \in SUBSET (0..Len(lru))
  BY <1>1
<1>3. S # {}
  BY DEF Listed, Unused
<1>4. Max(S) \in S
  <2> HIDE DEF S
  <2> QED BY <1>2, <1>3, MaxIn
<1> QED BY <1>1, <1>4 DEF Oldest, Unused

\* The head of the list is another one, and every buffer is still in it.
LEMMA FrontListed ==
    ASSUME lru \in Seq(Buf), Listed, NEW x \in Buf
    PROVE  ToFront(x) \in Seq(Buf) /\ \A y \in Buf : \E i \in DOMAIN ToFront(x) : ToFront(x)[i] = y
<1> DEFINE l == ToFront(x)
           At1(i) == \E j \in 1..(i - 1) : lru[j] = x
<1>1. DOMAIN lru = 1..Len(lru) /\ Len(lru) \in Nat /\ DOMAIN l = 1..Len(lru)
  BY DEF ToFront
<1>2. \A i \in 1..Len(lru) : l[i] = IF i = 1 THEN x ELSE IF At1(i) THEN lru[i] ELSE lru[i - 1]
  BY <1>1 DEF ToFront
<1>3. \A i \in 1..Len(lru) : l[i] \in Buf
  BY <1>1, <1>2
<1>4. l \in Seq(Buf)
  <2>1. l \in [1..Len(lru) -> Buf]
    BY <1>1, <1>3 DEF ToFront
  <2> HIDE DEF l
  <2> QED BY <1>1, <2>1
<1>5. ASSUME NEW y \in Buf PROVE \E i \in 1..Len(lru) : l[i] = y
  <2>1. PICK i \in 1..Len(lru) : lru[i] = y
    BY <1>1 DEF Listed
  <2>2. PICK k \in 1..Len(lru) : lru[k] = x
    BY <1>1 DEF Listed
  <2>3. CASE y = x
    BY <1>2, <2>2, <2>3, <1>1
  <2>4. CASE y # x /\ At1(i)
    BY <1>2, <2>1, <2>4
  <2>5. CASE y # x /\ ~At1(i)
    <3>1. i < k
      <4>1. ~(k \in 1..(i - 1)) /\ k # i
        BY <2>1, <2>2, <2>5
      <4> HIDE DEF At1
      <4> QED BY <4>1, <1>1
    <3>2. i + 1 \in 1..Len(lru) /\ i + 1 # 1 /\ (i + 1) - 1 = i
      BY <3>1, <1>1
    <3>3. ~At1(i + 1)
      <4>1. \A j \in 1..((i + 1) - 1) : j = i \/ j \in 1..(i - 1)
        BY <1>1, <3>2
      <4> QED BY <2>1, <2>5, <4>1
    <3> HIDE DEF At1, l
    <3>4. l[i + 1] = lru[i]
      BY <1>2, <3>2, <3>3
    <3> QED BY <2>1, <3>2, <3>4
  <2> QED BY <2>3, <2>4, <2>5
<1> QED BY <1>1, <1>4, <1>5

LEMMA InitInv == ASSUME DiskAssumption, DiskInit PROVE DiskInv
<1>1. lru \in Seq(Buf) /\ Listed
  <2> DEFINE n == Cardinality(Buf)
  <2>1. n \in Nat /\ ExistsBijection(1..n, Buf)
    BY FS_CardinalityType DEF DiskAssumption
  <2>2. PICK f \in Injection(1..n, Buf) : TRUE
    BY <2>1, Zenon DEF ExistsBijection, Bijection
  <2>3. f \in [1..n -> Buf] /\ IsInjective(f)
    BY <2>2 DEF Injection
  <2>4. lru \in [1..n -> Buf] /\ IsInjective(lru)
    BY <2>3 DEF DiskInit, SetToSeq
  <2>5. lru \in Injection(1..n, Buf)
    BY <2>4 DEF Injection
  <2>6. IsFiniteSet(1..n) /\ Cardinality(1..n) = n /\ IsFiniteSet(Buf)
    BY <2>1, FS_Interval DEF DiskAssumption
  <2>7. lru \in Surjection(1..n, Buf)
    BY <2>5, <2>6, FS_Injection
  <2> QED BY <2>1, <2>4, <2>7 DEF Surjection, Listed
<1>2. TypesOK
  <2>1. \A k \in NUM : 1..k \subseteq Desc
    BY DEF Desc
  <2>2. buf \in [Buf -> Buffer]
    BY DEF DiskInit, Buffer, Data
  <2>3. /\ locked \in [Buf -> Proc \cup {NULL}] /\ pinned \in SUBSET Buf
        /\ pc \in [Proc -> {"idle", "lock", "release"} \cup Working]
        /\ asleep \in [Proc -> Channel \cup {NULL}] /\ b \in [Proc -> Buf \cup {NULL}]
        /\ write \in [Proc -> BOOLEAN]
        /\ next \in [Desc -> Desc \cup {NULL}] /\ info \in [Desc -> Buf \cup {NULL}]
        /\ avail \in SUBSET Request /\ used \in Seq(Desc) /\ panic = FALSE
    BY DEF DiskInit
  <2>4. disk \in [Block -> Data] /\ latest \in [Block -> Data]
    BY DEF DiskInit, Data
  <2>5. free \in SUBSET Desc /\ IsFiniteSet(free)
    <3>1. PICK k \in NUM : free = 1..k
      BY DEF DiskInit
    <3> QED BY <2>1, <3>1, FS_Interval DEF DiskAssumption
  <2> QED BY <1>1, <2>2, <2>3, <2>4, <2>5 DEF TypesOK
<1>3. Standing /\ Locks /\ Unique /\ Chains /\ ValidLatest /\ PinnedValid
  BY DEF DiskInit, Standing, Stands, Locks, Unique, Chains, ValidLatest, PinnedValid, Working, DiskAssumption
<1>4. Counts
  <2>1. \A x \in Buf : Users(x) = {}
    BY DEF DiskInit, Users, DiskAssumption
  <2>2. \A x \in Buf : Cardinality(Users(x)) = 0 /\ buf[x].refcnt = 0 /\ x \notin pinned
    BY <2>1, FS_EmptySet DEF DiskInit
  <2> QED BY <2>2 DEF Counts
<1>5. Requests
  BY DEF DiskInit, Requests, ToSet
<1>6. DiskLatest /\ ServedLatest
  BY DEF DiskInit, DiskLatest, ServedLatest, DiskAssumption
<1> QED BY <1>1, <1>2, <1>3, <1>4, <1>5, <1>6 DEF DiskInv

-----------------------------------------------------------------------------
\* What a step that leaves a part alone keeps of it.

\* Requests and their chains, while nobody comes to the disk or leaves it.

LEMMA UsedDesc == ASSUME TypesOK PROVE ToSet(used) \subseteq Desc
BY DEF TypesOK, ToSet

LEMMA RequestsKept ==
    ASSUME TypesOK, Requests, Chains, UNCHANGED <<driverVars, avail, used>>,
           \A p \in Proc : pc'[p] = "io" <=> pc[p] = "io",
           \A p \in Proc : pc[p] = "io" =>
              /\ b'[p] = b[p] /\ write'[p] = write[p]
              /\ buf'[b[p]].disk = buf[b[p]].disk /\ buf'[b[p]].block = buf[b[p]].block
    PROVE  Requests' /\ Chains'
<1>1. Chains'
  BY DEF Chains, Chain, driverVars
<1>2. info' = info /\ used' = used /\ avail' = avail /\ ToSet(used)' = ToSet(used)
  BY DEF driverVars, ToSet
<1>3. \A i \in Desc : info[i] # NULL => buf'[info[i]].disk = buf[info[i]].disk /\ buf'[info[i]].block = buf[info[i]].block
  BY DEF Requests
<1>4. \A p \in Proc : pc'[p] = "io" /\ buf'[b'[p]].disk => AtDisk(b[p])'
  <2> SUFFICES ASSUME NEW p \in Proc, pc'[p] = "io", buf'[b'[p]].disk PROVE AtDisk(b[p])'
    OBVIOUS
  <2>1. AtDisk(b[p]) /\ b'[p] = b[p]
    BY DEF Requests
  <2> QED BY <1>2, <2>1 DEF AtDisk
<1>5. \A i \in ToSet(used) : info[i] # NULL /\ buf'[info[i]].disk
  BY <1>3, UsedDesc DEF Requests
<1>6. \A r \in avail : Asked(r)'
  <2> SUFFICES ASSUME NEW r \in avail PROVE Asked(r)'
    OBVIOUS
  <2>1. Asked(r) /\ r.id \in Desc
    BY DEF Requests, TypesOK, Request
  <2> QED BY <1>2, <1>3, <2>1 DEF Asked
<1>7. /\ \A i, j \in Desc : info[i] # NULL /\ info[i] = info[j] => i = j
      /\ \A i \in Desc : info[i] # NULL => \E p \in Proc : pc'[p] = "io" /\ b'[p] = info[i]
      /\ \A r, s \in avail : r.id = s.id => r = s
  BY DEF Requests
<1> QED BY <1>1, <1>2, <1>4, <1>5, <1>6, <1>7 DEF Requests

\* What the buffers and the disk have, while nobody changes, reads or writes a block.
DataInv == ValidLatest /\ PinnedValid /\ DiskLatest /\ ServedLatest

LEMMA DataKept ==
    ASSUME DataInv, UNCHANGED <<info, avail, pinned, disk, latest>>,
           \A x \in Buf : /\ buf'[x].block = buf[x].block
                          /\ buf'[x].valid = buf[x].valid /\ buf'[x].data = buf[x].data,
           pinned \subseteq Buf,
           b \in [Proc -> Buf \cup {NULL}], \A p \in Proc : pc[p] = "io" => b[p] \in Buf,
           \A p \in Proc : pc'[p] = "io" => pc[p] = "io",
           \A p \in Proc : pc[p] \in {"rw", "io"} => pc'[p] = pc[p] /\ b'[p] = b[p] /\ write'[p] = write[p]
    PROVE  DataInv'
<1>1. ValidLatest' /\ PinnedValid'
  BY DEF DataInv, ValidLatest, PinnedValid
<1>2. \A x : InFlight(x)' <=> InFlight(x)
  BY DEF InFlight
<1>3. \A x \in Buf : Writing(x) => Writing(x)'
  BY <1>2 DEF Writing
<1>4. DiskLatest'
  BY <1>3 DEF DataInv, DiskLatest
<1>5. ServedLatest'
  BY <1>2 DEF DataInv, ServedLatest
<1> QED BY <1>1, <1>4, <1>5 DEF DataInv

\* A process that is not idle has a buffer with a block, which is counted.
LEMMA HasBuffer ==
    ASSUME TypesOK, Standing, NEW p \in Proc, pc[p] # "idle"
    PROVE  b[p] \in Buf /\ buf[b[p]].block \in Block
BY DEF TypesOK, Standing, Stands

LEMMA UsedIsCounted ==
    ASSUME DiskAssumption, Counts, NEW x \in Buf
    PROVE  /\ IsFiniteSet(Users(x)) /\ Cardinality(Users(x)) \in Nat
           /\ buf[x].refcnt = 0 => x \notin pinned /\ \A p \in Proc : b[p] # x
<1>1. IsFiniteSet(Users(x))
  <2>1. Users(x) \in SUBSET Proc
    BY DEF Users
  <2> QED BY <2>1, FS_Subset DEF DiskAssumption
<1>2. Cardinality(Users(x)) \in Nat /\ (Cardinality(Users(x)) = 0 <=> Users(x) = {})
  BY <1>1, FS_CardinalityType, FS_EmptySet
<1>3. buf[x].refcnt = Cardinality(Users(x)) + (IF x \in pinned THEN 1 ELSE 0)
  BY DEF Counts
<1> QED BY <1>1, <1>2, <1>3 DEF Users

\* The processes that have a buffer, when one takes or leaves it.
LEMMA UsersTake ==
    ASSUME DiskAssumption, Counts, b \in [Proc -> Buf \cup {NULL}], NEW p \in Proc, b[p] = NULL,
           NEW x \in Buf, b' = [b EXCEPT ![p] = x]
    PROVE  /\ Cardinality(Users(x)') = Cardinality(Users(x)) + 1
           /\ \A y \in Buf : y # x => Users(y)' = Users(y)
<1>1. Users(x)' = Users(x) \cup {p} /\ p \notin Users(x)
  BY DEF Users, DiskAssumption
<1>2. \A y \in Buf : y # x => Users(y)' = Users(y)
  BY DEF Users, DiskAssumption
<1>3. IsFiniteSet(Users(x)) /\ Cardinality(Users(x)) \in Nat
  BY UsedIsCounted
<1>4. Cardinality(Users(x)') = Cardinality(Users(x)) + 1
  BY <1>1, <1>3, FS_AddElement
<1> QED BY <1>2, <1>4

LEMMA UsersLeave ==
    ASSUME DiskAssumption, Counts, b \in [Proc -> Buf \cup {NULL}], NEW p \in Proc,
           NEW x \in Buf, b[p] = x, b' = [b EXCEPT ![p] = NULL]
    PROVE  /\ Cardinality(Users(x)') = Cardinality(Users(x)) - 1
           /\ \A y \in Buf : y # x => Users(y)' = Users(y)
<1>1. Users(x)' = Users(x) \ {p} /\ p \in Users(x)
  BY DEF Users, DiskAssumption
<1>2. \A y \in Buf : y # x => Users(y)' = Users(y)
  BY DEF Users, DiskAssumption
<1>3. IsFiniteSet(Users(x)) /\ Cardinality(Users(x)) \in Nat
  BY UsedIsCounted
<1>4. Cardinality(Users(x)') = Cardinality(Users(x)) - 1
  BY <1>1, <1>3, FS_RemoveElement
<1> QED BY <1>2, <1>4

-----------------------------------------------------------------------------
\* bio.c

\* A buffer with another count, or with another mark of the disk, is a buffer.
LEMMA CountType ==
    ASSUME NEW d \in Buffer, NEW k \in Int PROVE [d EXCEPT !.refcnt = k] \in Buffer
BY DEF Buffer

LEMMA MarkType ==
    ASSUME NEW d \in Buffer, NEW m \in BOOLEAN PROVE [d EXCEPT !.disk = m] \in Buffer
BY DEF Buffer

LEMMA DataType ==
    ASSUME NEW d \in Buffer, NEW m \in Data PROVE [d EXCEPT !.data = m] \in Buffer
BY DEF Buffer

LEMMA BgetCachedInv ==
    ASSUME DiskAssumption, DiskInv, NEW p \in Proc, NEW k \in Block, BgetCached(p, k) PROVE DiskInv'
<1>1. PICK x \in Buf : /\ buf[x].block = k
                       /\ buf' = [buf EXCEPT ![x].refcnt = @ + 1]
                       /\ b' = [b EXCEPT ![p] = x]
  BY DEF BgetCached
<1>2. /\ pc[p] = "idle" /\ asleep[p] = NULL /\ ~panic /\ pc' = [pc EXCEPT ![p] = "lock"]
      /\ UNCHANGED <<lru, locked, pinned, asleep, write, free, next, info, avail, used, disk, latest, panic>>
  BY DEF BgetCached, At, Goto, driverVars, deviceVars
<1>3. TypesOK /\ Standing /\ Locks /\ b[p] = NULL
  BY <1>2 DEF DiskInv, Standing, Stands
<1>4. /\ b'[p] = x /\ pc'[p] = "lock"
      /\ \A q \in Proc : q # p => b'[q] = b[q] /\ pc'[q] = pc[q]
      /\ buf'[x] = [buf[x] EXCEPT !.refcnt = @ + 1]
      /\ \A y \in Buf : y # x => buf'[y] = buf[y]
  BY <1>1, <1>2, <1>3 DEF TypesOK
<1>5. \A y \in Buf : /\ buf'[y].block = buf[y].block /\ buf'[y].valid = buf[y].valid
                     /\ buf'[y].disk = buf[y].disk /\ buf'[y].data = buf[y].data
                     /\ buf'[y].refcnt = IF y = x THEN buf[y].refcnt + 1 ELSE buf[y].refcnt
  BY <1>3, <1>4 DEF TypesOK, Buffer
<1>6. TypesOK' /\ Listed'
  <2>1. [buf[x] EXCEPT !.refcnt = @ + 1] \in Buffer
    <3>1. buf[x] \in Buffer /\ buf[x].refcnt + 1 \in Int
      BY <1>3 DEF TypesOK, Buffer
    <3> QED BY <3>1, CountType
  <2>2. buf' \in [Buf -> Buffer]
    BY <1>1, <1>3, <2>1 DEF TypesOK
  <2> QED BY <1>1, <1>2, <1>3, <2>2 DEF TypesOK, DiskInv, Listed
<1>7. Standing'
  BY <1>1, <1>2, <1>3, <1>4, <1>5 DEF Standing, Stands, DiskAssumption, TypesOK
<1>8. Locks'
  BY <1>2, <1>3, <1>4 DEF Locks, Working
<1>9. Counts'
  <2>1. Counts /\ b \in [Proc -> Buf \cup {NULL}]
    BY <1>3 DEF DiskInv, TypesOK
  <2>2. /\ Cardinality(Users(x)') = Cardinality(Users(x)) + 1
        /\ \A y \in Buf : y # x => Users(y)' = Users(y)
    BY <1>1, <1>3, <2>1, UsersTake
  <2>3. Cardinality(Users(x)) \in Nat
    BY <2>1, UsedIsCounted
  <2>4. ASSUME NEW y \in Buf
        PROVE  buf'[y].refcnt = Cardinality(Users(y)') + (IF y \in pinned THEN 1 ELSE 0)
    BY <1>5, <2>1, <2>2, <2>3 DEF Counts
  <2> QED BY <1>2, <2>4 DEF Counts
<1>10. Unique'
  BY <1>5 DEF DiskInv, Unique
<1>11. Requests' /\ Chains'
  BY <1>2, <1>3, <1>4, <1>5, HasBuffer, RequestsKept DEF DiskInv, driverVars
<1>12. DataInv'
  BY <1>2, <1>3, <1>4, <1>5, HasBuffer, DataKept DEF DiskInv, DataInv, TypesOK
<1> QED BY <1>6, <1>7, <1>8, <1>9, <1>10, <1>11, <1>12 DEF DiskInv, DataInv

LEMMA BgetRecyclesInv ==
    ASSUME DiskAssumption, DiskInv, NEW p \in Proc, NEW k \in Block, BgetRecycles(p, k) PROVE DiskInv'
<1>1. PICK x : x = Oldest
  OBVIOUS
<1>2. x \in Buf /\ buf[x].refcnt = 0
  BY <1>1, OldestIs DEF BgetRecycles, DiskInv
<1>3. /\ pc[p] = "idle" /\ asleep[p] = NULL /\ ~panic /\ pc' = [pc EXCEPT ![p] = "lock"]
      /\ \A y \in Buf : buf[y].block # k
      /\ buf' = [buf EXCEPT ![x] = [block |-> k, valid |-> FALSE, refcnt |-> 1,
                                 disk |-> @.disk, data |-> @.data]]
      /\ b' = [b EXCEPT ![p] = x]
      /\ UNCHANGED <<lru, locked, pinned, asleep, write, free, next, info, avail, used, disk, latest, panic>>
  BY <1>1 DEF BgetRecycles, At, Goto, driverVars, deviceVars
<1>4. TypesOK /\ Standing /\ Locks /\ Counts /\ b[p] = NULL
  BY <1>3 DEF DiskInv, Standing, Stands
<1>5. /\ b'[p] = x /\ pc'[p] = "lock" /\ buf[x] \in Buffer
      /\ \A q \in Proc : q # p => b'[q] = b[q] /\ pc'[q] = pc[q]
      /\ buf'[x] = [block |-> k, valid |-> FALSE, refcnt |-> 1, disk |-> buf[x].disk, data |-> buf[x].data]
      /\ \A y \in Buf : y # x => buf'[y] = buf[y]
  BY <1>2, <1>3, <1>4 DEF TypesOK
<1>6. /\ buf'[x].block = k /\ buf'[x].valid = FALSE /\ buf'[x].refcnt = 1
      /\ buf'[x].disk = buf[x].disk /\ buf'[x] \in Buffer
  BY <1>5 DEF Buffer
<1>7. x \notin pinned /\ \A q \in Proc : b[q] # x
  BY <1>2, <1>4, UsedIsCounted
<1>8. TypesOK' /\ Listed'
  <2>1. buf' \in [Buf -> Buffer]
    BY <1>2, <1>3, <1>4, <1>5, <1>6 DEF TypesOK
  <2> QED BY <1>2, <1>3, <1>4, <2>1 DEF TypesOK, DiskInv, Listed
<1>9. Standing'
  BY <1>2, <1>3, <1>4, <1>5, <1>6, <1>7 DEF Standing, Stands, DiskAssumption, TypesOK
<1>10. Locks'
  BY <1>3, <1>4, <1>5 DEF Locks, Working
<1>11. Counts'
  <2>1. b \in [Proc -> Buf \cup {NULL}]
    BY <1>4 DEF TypesOK
  <2>2. /\ Cardinality(Users(x)') = Cardinality(Users(x)) + 1
        /\ \A y \in Buf : y # x => Users(y)' = Users(y)
    BY <1>2, <1>3, <1>4, <2>1, UsersTake
  <2>3. Cardinality(Users(x)) = 0
    BY <1>2, <1>4, <1>7, UsedIsCounted DEF Counts
  <2>4. ASSUME NEW y \in Buf
        PROVE  buf'[y].refcnt = Cardinality(Users(y)') + (IF y \in pinned THEN 1 ELSE 0)
    <3>1. CASE y = x
      BY <1>6, <1>7, <2>2, <2>3, <3>1
    <3>2. CASE y # x
      BY <1>4, <1>5, <2>2, <3>2 DEF Counts
    <3> QED BY <3>1, <3>2
  <2> QED BY <1>3, <2>4 DEF Counts
<1>12. Unique'
  BY <1>3, <1>5, <1>6 DEF DiskInv, Unique
<1>13. Requests' /\ Chains'
  <2>1. \A q \in Proc : pc'[q] = "io" <=> pc[q] = "io"
    BY <1>3, <1>5
  <2>2. \A q \in Proc : pc[q] = "io" =>
              /\ b'[q] = b[q] /\ write'[q] = write[q]
              /\ buf'[b[q]].disk = buf[b[q]].disk /\ buf'[b[q]].block = buf[b[q]].block
    BY <1>3, <1>4, <1>5, <1>7, HasBuffer
  <2> QED BY <1>3, <1>4, <2>1, <2>2, RequestsKept DEF DiskInv, driverVars
<1>14. ValidLatest' /\ PinnedValid'
  BY <1>2, <1>3, <1>4, <1>5, <1>6, <1>7 DEF DiskInv, ValidLatest, PinnedValid, TypesOK
<1>15. \A y : InFlight(y)' <=> InFlight(y)
  BY <1>3 DEF InFlight
<1>16. \A y \in Buf : Writing(y)' <=> Writing(y)
  BY <1>3, <1>5, <1>15 DEF Writing
<1>17. ~Writing(x)
  BY <1>7 DEF Writing
<1>18. DiskLatest'
  <2>1. ASSUME NEW h \in Block, \A y \in Buf : buf'[y].block # h PROVE disk[h] = latest[h]
    <3>1. CASE buf[x].block = h
      BY <1>2, <1>7, <1>17, <3>1 DEF DiskInv, DiskLatest
    <3>2. CASE buf[x].block # h
      BY <1>5, <2>1, <3>2 DEF DiskInv, DiskLatest
    <3> QED BY <3>1, <3>2
  <2>2. ASSUME NEW y \in Buf, buf'[y].block \in Block, y \notin pinned, ~Writing(y)'
        PROVE  disk[buf'[y].block] = latest[buf'[y].block]
    <3>1. CASE y = x
      BY <1>3, <1>6, <3>1 DEF DiskInv, DiskLatest
    <3>2. CASE y # x
      BY <1>5, <1>16, <2>2, <3>2 DEF DiskInv, DiskLatest
    <3> QED BY <3>1, <3>2
  <2> QED BY <1>3, <2>1, <2>2 DEF DiskLatest
<1>19. ServedLatest'
  <2>1. \A q \in Proc : pc'[q] = "io" => pc[q] = "io" /\ b'[q] = b[q] /\ buf'[b[q]] = buf[b[q]]
    BY <1>3, <1>4, <1>5, <1>7, HasBuffer
  <2>2. disk' = disk /\ latest' = latest
    BY <1>3
  <2>3. ASSUME NEW q \in Proc, pc'[q] = "io", ~InFlight(b[q])'
        PROVE  /\ buf'[b'[q]].data = latest'[buf'[b'[q]].block]
               /\ disk'[buf'[b'[q]].block] = latest'[buf'[b'[q]].block]
    <3>1. pc[q] = "io" /\ b'[q] = b[q] /\ buf'[b[q]] = buf[b[q]] /\ ~InFlight(b[q])
      BY <1>15, <2>1, <2>3
    <3> QED BY <2>2, <3>1 DEF DiskInv, ServedLatest
  <2> QED BY <2>3 DEF ServedLatest
<1> QED BY <1>8, <1>9, <1>10, <1>11, <1>12, <1>13, <1>14, <1>18, <1>19 DEF DiskInv

\* A step in which a process goes on or falls asleep, and buffers, disk and driver stay as they
\* are.
LEMMA MoveInv ==
    ASSUME DiskInv, UNCHANGED <<buf, lru, pinned, b, driverVars, deviceVars, latest, panic>>,
           pc' \in [Proc -> {"idle", "lock", "release"} \cup Working],
           locked' \in [Buf -> Proc \cup {NULL}],
           asleep' \in [Proc -> Channel \cup {NULL}],
           write' \in [Proc -> BOOLEAN],
           \A p \in Proc : pc'[p] = "io" <=> pc[p] = "io",
           \A p \in Proc : pc[p] \in {"rw", "io"} => pc'[p] = pc[p] /\ write'[p] = write[p],
           Standing', Locks'
    PROVE  DiskInv'
<1>1. UNCHANGED <<buf, lru, pinned, b, free, next, info, avail, used, disk, latest, panic>>
  BY DEF driverVars, deviceVars
<1>2. TypesOK' /\ Listed'
  BY <1>1 DEF DiskInv, TypesOK, Listed
<1>3. Counts' /\ Unique'
  BY <1>1 DEF DiskInv, Counts, Users, Unique
<1>4. Requests' /\ Chains'
  BY <1>1, RequestsKept DEF DiskInv, driverVars
<1>5. DataInv'
  <2>1. /\ DataInv /\ pinned \subseteq Buf /\ b \in [Proc -> Buf \cup {NULL}]
        /\ \A p \in Proc : pc[p] = "io" => b[p] \in Buf
    BY HasBuffer DEF DiskInv, DataInv, TypesOK
  <2> QED BY <1>1, <2>1, DataKept
<1> QED BY <1>2, <1>3, <1>4, <1>5 DEF DiskInv, DataInv

LEMMA LockInv == ASSUME DiskAssumption, DiskInv, NEW p \in Proc, Lock(p) PROVE DiskInv'
<1>1. /\ pc[p] = "lock" /\ asleep[p] = NULL
      /\ UNCHANGED <<buf, lru, pinned, b, driverVars, deviceVars, latest, panic>>
  BY DEF Lock, At
<1>2. PICK x \in Buf : b[p] = x /\ buf[x].block \in Block
  BY <1>1, HasBuffer DEF DiskInv
<1>3. TypesOK /\ Standing /\ Locks
  BY DEF DiskInv
<1>4. UNCHANGED <<free, buf, b>>
  BY <1>1 DEF driverVars
<1>5. CASE locked[x] # NULL /\ SleepOn(p, LockOf(x)) /\ UNCHANGED <<locked, pc, write>>
  <2>1. /\ asleep' \in [Proc -> Channel \cup {NULL}] /\ asleep'[p] = LockOf(x)
        /\ \A q \in Proc : q # p => asleep'[q] = asleep[q]
    BY <1>3, <1>5 DEF SleepOn, TypesOK, Channel
  <2>2. Standing'
    BY <1>1, <1>2, <1>3, <1>4, <1>5, <2>1 DEF Standing, Stands
  <2>3. Locks'
    BY <1>3, <1>4, <1>5 DEF Locks
  <2> QED BY <1>1, <1>3, <1>5, <2>1, <2>2, <2>3, MoveInv DEF TypesOK
<1>6. CASE /\ locked[x] = NULL /\ locked' = [locked EXCEPT ![x] = p] /\ UNCHANGED asleep
           /\ IF buf[x].valid THEN Goto(p, "hold") /\ UNCHANGED write
              ELSE Goto(p, "rw") /\ write' = [write EXCEPT ![p] = FALSE]
  <2>1. /\ locked' \in [Buf -> Proc \cup {NULL}] /\ locked'[x] = p
        /\ \A y \in Buf : y # x => locked'[y] = locked[y]
        /\ pc' \in [Proc -> {"idle", "lock", "release"} \cup Working]
        /\ write' \in [Proc -> BOOLEAN]
    BY <1>3, <1>6 DEF Goto, TypesOK, Working
  <2>2. /\ pc'[p] = IF buf[x].valid THEN "hold" ELSE "rw"
        /\ ~buf[x].valid => ~write'[p]
        /\ \A q \in Proc : q # p => pc'[q] = pc[q] /\ write'[q] = write[q]
    BY <1>3, <1>6 DEF Goto, TypesOK
  <2>3. \A q \in Proc : Stands(q)'
    <3> SUFFICES ASSUME NEW q \in Proc PROVE Stands(q)'
      OBVIOUS
    <3>1. Stands(q) /\ NULL \notin Proc /\ NULL \notin Buf
      BY <1>3 DEF Standing, DiskAssumption
    <3>2. CASE q = p
      BY <1>1, <1>2, <1>4, <1>6, <2>2, <3>1, <3>2 DEF Stands
    <3>3. CASE q # p
      BY <1>2, <1>3, <1>4, <1>6, <2>1, <2>2, <3>1, <3>3 DEF Stands, TypesOK
    <3> QED BY <3>2, <3>3
  <2>4. Locks'
    BY <1>1, <1>2, <1>3, <1>4, <1>6, <2>1, <2>2 DEF Locks, Working, DiskAssumption
  <2> QED BY <1>1, <1>3, <1>6, <2>1, <2>2, <2>3, <2>4, MoveInv DEF TypesOK, Standing
<1> QED BY <1>2, <1>5, <1>6 DEF Lock

LEMMA BwriteInv == ASSUME DiskAssumption, DiskInv, NEW p \in Proc, Bwrite(p) PROVE DiskInv'
<1>1. /\ pc[p] = "hold" /\ asleep[p] = NULL /\ b[p] \in pinned
      /\ pc' = [pc EXCEPT ![p] = "rw"] /\ write' = [write EXCEPT ![p] = TRUE]
      /\ UNCHANGED <<buf, lru, locked, pinned, asleep, b, driverVars, deviceVars, latest, panic>>
  BY DEF Bwrite, At, Goto, bufVars
<1>2. TypesOK /\ Standing /\ Locks /\ buf[b[p]].valid
  BY <1>1 DEF DiskInv, PinnedValid
<1>3. /\ pc'[p] = "rw" /\ write'[p] = TRUE
      /\ \A q \in Proc : q # p => pc'[q] = pc[q] /\ write'[q] = write[q]
      /\ pc' \in [Proc -> {"idle", "lock", "release"} \cup Working]
      /\ write' \in [Proc -> BOOLEAN]
  BY <1>1, <1>2 DEF TypesOK, Working
<1>4. Standing'
  BY <1>1, <1>2, <1>3 DEF Standing, Stands, driverVars
<1>5. Locks'
  BY <1>1, <1>2, <1>3 DEF Locks, Working
<1> QED BY <1>1, <1>2, <1>3, <1>4, <1>5, MoveInv DEF TypesOK

LEMMA UnlockInv == ASSUME DiskAssumption, DiskInv, NEW p \in Proc, Unlock(p) PROVE DiskInv'
<1>1. /\ pc[p] = "hold" /\ asleep[p] = NULL /\ pc' = [pc EXCEPT ![p] = "release"]
      /\ locked' = [locked EXCEPT ![b[p]] = NULL] /\ Wakeup({LockOf(b[p])})
      /\ UNCHANGED <<buf, lru, pinned, b, write, driverVars, deviceVars, latest, panic>>
  BY DEF Unlock, At, Goto
<1>2. PICK x \in Buf : b[p] = x /\ buf[x].block \in Block
  BY <1>1, HasBuffer DEF DiskInv
<1>3. TypesOK /\ Standing /\ Locks /\ locked[x] = p
  BY <1>1, <1>2 DEF DiskInv, Locks, Working
<1>4. /\ pc'[p] = "release" /\ locked'[x] = NULL
      /\ \A q \in Proc : q # p => pc'[q] = pc[q]
      /\ \A y \in Buf : y # x => locked'[y] = locked[y]
      /\ pc' \in [Proc -> {"idle", "lock", "release"} \cup Working]
      /\ locked' \in [Buf -> Proc \cup {NULL}]
  BY <1>1, <1>2, <1>3 DEF TypesOK
<1>5. /\ \A q \in Proc : asleep'[q] = IF asleep[q] = LockOf(x) THEN NULL ELSE asleep[q]
      /\ asleep' \in [Proc -> Channel \cup {NULL}]
  BY <1>1, <1>2, <1>3 DEF Wakeup, TypesOK
<1>6. UNCHANGED <<free, buf, b, write>>
  BY <1>1 DEF driverVars
<1>7. \A q \in Proc : Stands(q)'
  <2> SUFFICES ASSUME NEW q \in Proc PROVE Stands(q)'
    OBVIOUS
  <2>1. Stands(q) /\ NULL \notin Proc /\ NULL \notin Buf /\ b[q] \in Buf \cup {NULL}
    BY <1>3 DEF Standing, DiskAssumption, TypesOK
  <2>2. CASE q = p
    BY <1>1, <1>2, <1>4, <1>5, <1>6, <2>1, <2>2 DEF Stands
  <2>3. CASE q # p /\ asleep[q] = LockOf(x)
    BY <1>4, <1>5, <1>6, <2>1, <2>3 DEF Stands
  <2>4. CASE q # p /\ asleep[q] # LockOf(x)
    <3>1. pc[q] = "lock" /\ asleep[q] = LockOf(b[q]) => b[q] # x
      BY <2>4
    <3>2. pc[q] = "lock" => b[q] \in Buf
      BY <2>1 DEF Stands
    <3> QED BY <1>4, <1>5, <1>6, <2>1, <2>4, <3>1, <3>2 DEF Stands
  <2> QED BY <2>2, <2>3, <2>4
<1>8. Locks'
  BY <1>1, <1>2, <1>3, <1>4, <1>6 DEF Locks, Working, DiskAssumption
<1> QED BY <1>1, <1>3, <1>4, <1>5, <1>7, <1>8, MoveInv DEF TypesOK, Standing

\* Only one process works on a buffer.
LEMMA OneWorks ==
    ASSUME Locks, NEW p \in Proc, NEW q \in Proc, NEW x \in Buf,
           pc[p] \in Working, b[p] = x, pc[q] \in Working, b[q] = x
    PROVE  q = p
BY DEF Locks

\* Change() and ChangeLog(): the buffer has the new data, and so has latest.
ChangeFrame(p, x, d) ==
    /\ \A y \in Buf : /\ buf'[y].block = buf[y].block /\ buf'[y].valid = buf[y].valid
                      /\ buf'[y].disk = buf[y].disk
                      /\ buf'[y].data = IF y = x THEN d ELSE buf[y].data
    /\ latest' = [latest EXCEPT ![buf[x].block] = d]
    /\ UNCHANGED <<lru, locked, asleep, b, driverVars, deviceVars, panic>>

LEMMA ChangeKeeps ==
    ASSUME DiskAssumption, DiskInv, NEW p \in Proc, NEW x \in Buf, NEW d \in Data,
           pc[p] = "hold", asleep[p] = NULL, b[p] = x,
           ChangeFrame(p, x, d),
           pinned \subseteq pinned', pinned' \subseteq pinned \cup {x},
           \A q \in Proc : q # p => pc'[q] = pc[q] /\ write'[q] = write[q],
           \/ pc'[p] = "hold" /\ x \in pinned'
           \/ pc'[p] = "rw" /\ write'[p] = TRUE
    PROVE  Standing' /\ Locks' /\ Unique' /\ Requests' /\ Chains' /\ DataInv'
<1> DEFINE k == buf[x].block
<1>1. TypesOK /\ Standing /\ Locks /\ Unique /\ k \in Block /\ buf[x].valid
  BY HasBuffer DEF DiskInv, Standing, Stands
<1>2. /\ UNCHANGED <<lru, locked, asleep, b, free, next, info, avail, used, disk, panic>>
      /\ \A y \in Buf : /\ buf'[y].block = buf[y].block /\ buf'[y].valid = buf[y].valid
                        /\ buf'[y].disk = buf[y].disk
                        /\ buf'[y].data = IF y = x THEN d ELSE buf[y].data
      /\ latest'[k] = d
      /\ \A h \in Block : h # k => latest'[h] = latest[h]
  BY <1>1 DEF ChangeFrame, driverVars, deviceVars, TypesOK
<1>3. \A q \in Proc : q # p /\ pc[q] \in Working => b[q] # x
  BY <1>1, OneWorks DEF Working
<1>4. \A y \in Buf : y # x => buf[y].block # k
  BY <1>1, <1>2 DEF Unique, DiskAssumption
<1> HIDE DEF k
<1>5. Standing'
  BY <1>1, <1>2 DEF Standing, Stands, TypesOK
<1>6. Locks' /\ Unique'
  BY <1>1, <1>2 DEF Locks, Unique, Working
<1>7. \A q \in Proc : pc'[q] = "io" <=> pc[q] = "io"
  OBVIOUS
<1>8. Requests' /\ Chains'
  <2>1. \A q \in Proc : pc[q] = "io" =>
              /\ b'[q] = b[q] /\ write'[q] = write[q]
              /\ buf'[b[q]].disk = buf[b[q]].disk /\ buf'[b[q]].block = buf[b[q]].block
    BY <1>1, <1>2, HasBuffer
  <2> QED BY <1>1, <1>2, <1>7, <2>1, RequestsKept DEF DiskInv, driverVars
<1>9. ValidLatest'
  <2>1. ASSUME NEW y \in Buf, buf'[y].valid
        PROVE  buf'[y].block \in Block /\ buf'[y].data = latest'[buf'[y].block]
    <3>1. CASE y = x
      BY <1>1, <1>2, <3>1 DEF k
    <3>2. CASE y # x
      <4>1. buf[y].block \in Block /\ buf[y].data = latest[buf[y].block]
        BY <1>2, <2>1 DEF DiskInv, ValidLatest
      <4> QED BY <1>2, <1>4, <3>2, <4>1
    <3> QED BY <3>1, <3>2
  <2> QED BY <2>1 DEF ValidLatest
<1>10. PinnedValid'
  BY <1>1, <1>2 DEF DiskInv, PinnedValid, TypesOK
<1>11. \A y : InFlight(y)' <=> InFlight(y)
  BY <1>2 DEF InFlight
<1>12. \A y \in Buf : Writing(y) => Writing(y)'
  BY <1>2, <1>11 DEF Writing
<1>13. x \in pinned' \/ Writing(x)'
  BY <1>2 DEF Writing
<1>14. DiskLatest'
  <2>1. ASSUME NEW h \in Block, \A y \in Buf : buf'[y].block # h PROVE disk[h] = latest'[h]
    <3>1. disk[h] = latest[h] /\ h # k
      BY <1>2, <2>1 DEF DiskInv, DiskLatest, k
    <3> QED BY <1>2, <3>1
  <2>2. ASSUME NEW y \in Buf, buf'[y].block \in Block, y \notin pinned', ~Writing(y)'
        PROVE  disk[buf'[y].block] = latest'[buf'[y].block]
    <3>1. y # x
      BY <1>13, <2>2
    <3>2. disk[buf[y].block] = latest[buf[y].block]
      BY <1>2, <1>12, <2>2 DEF DiskInv, DiskLatest
    <3> QED BY <1>2, <1>4, <2>2, <3>1, <3>2
  <2> QED BY <1>2, <2>1, <2>2 DEF DiskLatest
<1>15. ServedLatest'
  <2>1. ASSUME NEW q \in Proc, pc'[q] = "io", ~InFlight(b[q])'
        PROVE  /\ buf'[b[q]].data = latest'[buf'[b[q]].block]
               /\ disk[buf'[b[q]].block] = latest'[buf'[b[q]].block]
    <3>1. pc[q] = "io" /\ q # p
      BY <1>7, <2>1
    <3>2. b[q] \in Buf /\ b[q] # x /\ buf[b[q]].block \in Block /\ buf[b[q]].block # k
      BY <1>1, <1>3, <1>4, <3>1, HasBuffer DEF Working
    <3>3. ~InFlight(b[q])
      BY <1>2, <1>11, <2>1
    <3>4. /\ buf[b[q]].data = latest[buf[b[q]].block]
          /\ disk[buf[b[q]].block] = latest[buf[b[q]].block]
      BY <3>1, <3>3 DEF DiskInv, ServedLatest
    <3> QED BY <1>2, <3>2, <3>4
  <2> QED BY <1>2, <2>1 DEF ServedLatest
<1> QED BY <1>5, <1>6, <1>8, <1>9, <1>10, <1>14, <1>15 DEF DataInv

LEMMA ChangeInv == ASSUME DiskAssumption, DiskInv, NEW p \in Proc, Change(p) PROVE DiskInv'
<1>1. /\ pc[p] = "hold" /\ asleep[p] = NULL
      /\ UNCHANGED <<lru, locked, pc, asleep, b, write, driverVars, deviceVars, panic>>
  BY DEF Change, At, procVars
<1>2. PICK x \in Buf : b[p] = x /\ buf[x].block \in Block
  BY <1>1, HasBuffer DEF DiskInv
<1>3. PICK d \in Data :
        /\ buf' = [buf EXCEPT ![x].data = d, ![x].refcnt = IF x \in pinned THEN @ ELSE @ + 1]
        /\ latest' = [latest EXCEPT ![buf[x].block] = d] /\ pinned' = pinned \cup {x}
  BY <1>2 DEF Change
<1>4. TypesOK /\ Counts
  BY DEF DiskInv
<1>5. PICK n \in Int : n = IF x \in pinned THEN buf[x].refcnt ELSE buf[x].refcnt + 1
  <2>1. buf[x].refcnt \in Int
    BY <1>4 DEF TypesOK, Buffer
  <2>2. buf[x].refcnt + 1 \in Int
    BY <2>1
  <2> QED BY <2>1, <2>2
<1>6. /\ buf' \in [Buf -> Buffer]
      /\ \A y \in Buf : /\ buf'[y].block = buf[y].block /\ buf'[y].valid = buf[y].valid
                        /\ buf'[y].disk = buf[y].disk
                        /\ buf'[y].data = IF y = x THEN d ELSE buf[y].data
                        /\ buf'[y].refcnt = IF y = x THEN n ELSE buf[y].refcnt
  <2> DEFINE e == [buf[x] EXCEPT !.data = d]
             c == [e EXCEPT !.refcnt = n]
  <2>1. /\ e \in Buffer /\ e.data = d /\ e.block = buf[x].block /\ e.valid = buf[x].valid
        /\ e.disk = buf[x].disk /\ e.refcnt = buf[x].refcnt
    <3>1. buf[x] \in Buffer
      BY <1>4 DEF TypesOK
    <3> QED BY <3>1 DEF Buffer
  <2>2. buf' = [buf EXCEPT ![x] = [e EXCEPT !.refcnt = IF x \in pinned THEN @ ELSE @ + 1]]
    <3>1. buf' = [buf EXCEPT ![x].data = d, ![x].refcnt = IF x \in pinned THEN @ ELSE @ + 1]
      BY <1>3
    <3>2. buf \in [Buf -> Buffer]
      BY <1>4 DEF TypesOK
    <3> QED BY <3>1, <3>2
  <2>3. (IF x \in pinned THEN e.refcnt ELSE e.refcnt + 1) = n
    BY <1>4, <1>5, <2>1 DEF TypesOK, Buffer
  <2>4. buf' = [buf EXCEPT ![x] = c]
    BY <2>2, <2>3
  <2> HIDE DEF e
  <2>5. /\ c \in Buffer /\ c.data = d /\ c.block = buf[x].block /\ c.valid = buf[x].valid
        /\ c.disk = buf[x].disk /\ c.refcnt = n
    BY <2>1 DEF Buffer
  <2> HIDE DEF c
  <2> QED BY <1>4, <2>4, <2>5 DEF TypesOK
<1>7. ChangeFrame(p, x, d)
  BY <1>1, <1>3, <1>6 DEF ChangeFrame
<1>8. Standing' /\ Locks' /\ Unique' /\ Requests' /\ Chains' /\ DataInv'
  BY <1>1, <1>2, <1>3, <1>7, ChangeKeeps
<1>9. UNCHANGED <<lru, locked, pc, asleep, b, write, free, next, info, avail, used, disk, panic>>
  BY <1>1 DEF driverVars, deviceVars
<1>10. TypesOK' /\ Listed'
  <2>1. latest' \in [Block -> Data] /\ pinned' \in SUBSET Buf
    BY <1>3, <1>4 DEF TypesOK
  <2> QED BY <1>4, <1>6, <1>9, <2>1 DEF TypesOK, DiskInv, Listed
<1>11. Counts'
  <2>1. ASSUME NEW y \in Buf
        PROVE  buf'[y].refcnt = Cardinality(Users(y)) + (IF y \in pinned' THEN 1 ELSE 0)
    <3>1. Cardinality(Users(y)) \in Nat
      BY <1>4, UsedIsCounted
    <3> QED BY <1>3, <1>4, <1>5, <1>6, <3>1 DEF Counts
  <2>2. \A y \in Buf : Users(y)' = Users(y)
    BY <1>9 DEF Users
  <2> QED BY <2>1, <2>2 DEF Counts
<1> QED BY <1>8, <1>10, <1>11 DEF DiskInv, DataInv

LEMMA ChangeLogInv == ASSUME DiskAssumption, DiskInv, NEW p \in Proc, ChangeLog(p) PROVE DiskInv'
<1>1. /\ pc[p] = "hold" /\ asleep[p] = NULL
      /\ pc' = [pc EXCEPT ![p] = "rw"] /\ write' = [write EXCEPT ![p] = TRUE]
      /\ UNCHANGED <<lru, locked, pinned, asleep, b, driverVars, deviceVars, panic>>
  BY DEF ChangeLog, At, Goto
<1>2. PICK x \in Buf : b[p] = x /\ buf[x].block \in Block
  BY <1>1, HasBuffer DEF DiskInv
<1>3. PICK d \in Data : /\ buf' = [buf EXCEPT ![x].data = d]
                        /\ latest' = [latest EXCEPT ![buf[x].block] = d]
  BY <1>2 DEF ChangeLog
<1>4. TypesOK /\ Counts
  BY DEF DiskInv
<1>5. /\ buf' \in [Buf -> Buffer]
      /\ \A y \in Buf : /\ buf'[y].block = buf[y].block /\ buf'[y].valid = buf[y].valid
                        /\ buf'[y].disk = buf[y].disk /\ buf'[y].refcnt = buf[y].refcnt
                        /\ buf'[y].data = IF y = x THEN d ELSE buf[y].data
  <2> DEFINE e == [buf[x] EXCEPT !.data = d]
  <2>1. /\ e \in Buffer /\ e.data = d /\ e.block = buf[x].block /\ e.valid = buf[x].valid
        /\ e.disk = buf[x].disk /\ e.refcnt = buf[x].refcnt
    <3>1. buf[x] \in Buffer
      BY <1>4 DEF TypesOK
    <3> QED BY <3>1 DEF Buffer
  <2>2. buf' = [buf EXCEPT ![x] = e]
    BY <1>3
  <2> HIDE DEF e
  <2> QED BY <1>4, <2>1, <2>2 DEF TypesOK
<1>6. ChangeFrame(p, x, d)
  BY <1>1, <1>3, <1>5 DEF ChangeFrame
<1>7. /\ pc'[p] = "rw" /\ write'[p] = TRUE
      /\ \A q \in Proc : q # p => pc'[q] = pc[q] /\ write'[q] = write[q]
      /\ pc' \in [Proc -> {"idle", "lock", "release"} \cup Working]
      /\ write' \in [Proc -> BOOLEAN]
  BY <1>1, <1>4 DEF TypesOK, Working
<1>8. Standing' /\ Locks' /\ Unique' /\ Requests' /\ Chains' /\ DataInv'
  BY <1>1, <1>2, <1>6, <1>7, ChangeKeeps
<1>9. UNCHANGED <<lru, locked, pinned, asleep, b, free, next, info, avail, used, disk, panic>>
  BY <1>1 DEF driverVars, deviceVars
<1>10. TypesOK' /\ Listed'
  <2>1. latest' \in [Block -> Data]
    BY <1>3, <1>4 DEF TypesOK
  <2> QED BY <1>4, <1>5, <1>7, <1>9, <2>1 DEF TypesOK, DiskInv, Listed
<1>11. Counts'
  BY <1>4, <1>5, <1>9 DEF Counts, Users
<1> QED BY <1>8, <1>10, <1>11 DEF DiskInv, DataInv

LEMMA ReleaseInv == ASSUME DiskAssumption, DiskInv, NEW p \in Proc, Release(p) PROVE DiskInv'
<1>1. /\ pc[p] = "release" /\ asleep[p] = NULL /\ pc' = [pc EXCEPT ![p] = "idle"]
      /\ b' = [b EXCEPT ![p] = NULL]
      /\ UNCHANGED <<locked, pinned, asleep, write, driverVars, deviceVars, latest, panic>>
  BY DEF Release, At, Goto
<1>2. PICK x \in Buf : b[p] = x /\ buf[x].block \in Block
  BY <1>1, HasBuffer DEF DiskInv
<1>3. /\ buf' = [buf EXCEPT ![x].refcnt = @ - 1]
      /\ lru' = lru \/ lru' = ToFront(x)
  BY <1>2 DEF Release
<1>4. TypesOK /\ Standing /\ Locks /\ Counts /\ Listed
  BY DEF DiskInv
<1>5. /\ buf' \in [Buf -> Buffer]
      /\ \A y \in Buf : /\ buf'[y].block = buf[y].block /\ buf'[y].valid = buf[y].valid
                        /\ buf'[y].disk = buf[y].disk /\ buf'[y].data = buf[y].data
                        /\ buf'[y].refcnt = IF y = x THEN buf[y].refcnt - 1 ELSE buf[y].refcnt
  <2> DEFINE e == [buf[x] EXCEPT !.refcnt = @ - 1]
  <2>1. buf[x] \in Buffer /\ buf[x].refcnt - 1 \in Int
    BY <1>4 DEF TypesOK, Buffer
  <2>2. /\ e \in Buffer /\ e.data = buf[x].data /\ e.block = buf[x].block /\ e.valid = buf[x].valid
        /\ e.disk = buf[x].disk /\ e.refcnt = buf[x].refcnt - 1
    BY <2>1 DEF Buffer
  <2>3. buf' = [buf EXCEPT ![x] = e]
    BY <1>3
  <2> HIDE DEF e
  <2> QED BY <1>4, <2>2, <2>3 DEF TypesOK
<1>6. /\ pc'[p] = "idle" /\ b'[p] = NULL
      /\ \A q \in Proc : q # p => pc'[q] = pc[q] /\ b'[q] = b[q]
      /\ pc' \in [Proc -> {"idle", "lock", "release"} \cup Working]
      /\ b' \in [Proc -> Buf \cup {NULL}]
  BY <1>1, <1>4 DEF TypesOK
<1>7. UNCHANGED <<free, next, info, avail, used, disk>>
  BY <1>1 DEF driverVars, deviceVars
<1>8. TypesOK' /\ Listed'
  <2>1. lru' \in Seq(Buf) /\ \A y \in Buf : \E i \in DOMAIN lru' : lru'[i] = y
    <3>1. lru \in Seq(Buf) /\ Listed
      BY <1>4 DEF TypesOK
    <3>2. ToFront(x) \in Seq(Buf) /\ \A y \in Buf : \E i \in DOMAIN ToFront(x) : ToFront(x)[i] = y
      BY <3>1, FrontListed
    <3> QED BY <1>3, <3>1, <3>2, Zenon DEF Listed
  <2>2. lru' \in Seq(Buf) /\ Listed'
    BY <2>1, Zenon DEF Listed
  <2> QED BY <1>1, <1>4, <1>5, <1>6, <1>7, <2>2 DEF TypesOK
<1>9. Standing'
  <2> SUFFICES ASSUME NEW q \in Proc PROVE Stands(q)'
    BY DEF Standing
  <2>1. Stands(q) /\ b[q] \in Buf \cup {NULL}
    BY <1>4 DEF Standing, TypesOK
  <2>2. CASE q = p
    BY <1>1, <1>6, <2>1, <2>2 DEF Stands
  <2>3. CASE q # p
    BY <1>1, <1>5, <1>6, <1>7, <2>1, <2>3 DEF Stands
  <2> QED BY <2>2, <2>3
<1>10. Locks'
  BY <1>1, <1>4, <1>6, <1>7 DEF Locks, Working
<1>11. Counts'
  <2>1. b \in [Proc -> Buf \cup {NULL}]
    BY <1>4 DEF TypesOK
  <2>2. /\ Cardinality(Users(x)') = Cardinality(Users(x)) - 1
        /\ \A y \in Buf : y # x => Users(y)' = Users(y)
    BY <1>1, <1>2, <1>4, <2>1, UsersLeave
  <2>3. Cardinality(Users(x)) \in Nat
    BY <1>4, UsedIsCounted
  <2>4. ASSUME NEW y \in Buf
        PROVE  buf'[y].refcnt = Cardinality(Users(y)') + (IF y \in pinned THEN 1 ELSE 0)
    BY <1>4, <1>5, <2>2, <2>3 DEF Counts
  <2> QED BY <1>1, <2>4 DEF Counts
<1>12. Unique'
  BY <1>5 DEF DiskInv, Unique
<1>13. Requests' /\ Chains'
  <2>1. /\ \A q \in Proc : pc'[q] = "io" <=> pc[q] = "io"
        /\ \A q \in Proc : pc[q] = "io" =>
              /\ b'[q] = b[q] /\ write'[q] = write[q]
              /\ buf'[b[q]].disk = buf[b[q]].disk /\ buf'[b[q]].block = buf[b[q]].block
    BY <1>1, <1>4, <1>5, <1>6, HasBuffer
  <2> QED BY <1>1, <1>4, <1>7, <2>1, RequestsKept DEF DiskInv
<1>14. DataInv'
  BY <1>1, <1>4, <1>5, <1>6, <1>7, HasBuffer, DataKept DEF DiskInv, DataInv, TypesOK
<1> QED BY <1>8, <1>9, <1>10, <1>11, <1>12, <1>13, <1>14 DEF DiskInv, DataInv

-----------------------------------------------------------------------------
\* virtio_disk.c

\* With three free descriptors, alloc3_desc() gets three different ones.
LEMMA ThreeFree ==
    ASSUME DiskAssumption, TypesOK, ~(Cardinality(free) < 3)
    PROVE  \E i, j, k \in free : /\ Three = <<i, j, k>>
                                 /\ i # j /\ i # k /\ j # k
<1>1. free \in SUBSET Nat /\ IsFiniteSet(free) /\ Cardinality(free) \in Nat /\ Cardinality(free) >= 3
  <2>1. Desc \in SUBSET Nat
    BY DEF Desc, DiskAssumption
  <2>2. IsFiniteSet(free) /\ free \in SUBSET Desc
    BY DEF TypesOK
  <2> QED BY <2>1, <2>2, FS_CardinalityType
<1>2. PICK i : i = Min(free)
  OBVIOUS
<1>3. PICK F : F = free \ {i}
  OBVIOUS
<1>4. PICK j : j = Min(F)
  OBVIOUS
<1>5. PICK G : G = free \ {i, j}
  OBVIOUS
<1>6. PICK k : k = Min(G)
  OBVIOUS
<1>7. i \in free
  BY <1>1, <1>2, MinIn, FS_EmptySet
<1>8. IsFiniteSet(F) /\ Cardinality(F) >= 2 /\ Cardinality(F) \in Nat /\ F \in SUBSET Nat
  BY <1>1, <1>3, <1>7, FS_RemoveElement
<1>9. j \in F
  BY <1>4, <1>8, MinIn, FS_EmptySet
<1>10. IsFiniteSet(G) /\ Cardinality(G) >= 1 /\ G \in SUBSET Nat
  <2>1. G = F \ {j}
    BY <1>3, <1>5
  <2>2. IsFiniteSet(G) /\ Cardinality(G) = Cardinality(F) - 1
    BY <1>8, <1>9, <2>1, FS_RemoveElement
  <2>3. Cardinality(G) >= 1
    BY <1>8, <2>2
  <2>4. G \in SUBSET Nat
    BY <1>8, <2>1
  <2> QED BY <2>2, <2>3, <2>4
<1>11. k \in G
  BY <1>6, <1>10, MinIn, FS_EmptySet
<1>12. Three = <<i, j, k>>
  BY <1>2, <1>3, <1>4, <1>5, <1>6 DEF Three
<1> QED BY <1>3, <1>5, <1>7, <1>9, <1>11, <1>12

LEMMA SubmitWaits ==
    ASSUME DiskAssumption, DiskInv, NEW p \in Proc, Submit(p), Cardinality(free) < 3 PROVE DiskInv'
<1>1. /\ pc[p] = "rw" /\ asleep[p] = NULL
      /\ asleep' = [q \in Proc |-> IF q = p THEN FreeDesc
                                   ELSE IF free # {} /\ asleep[q] = FreeDesc THEN NULL ELSE asleep[q]]
      /\ UNCHANGED <<buf, lru, locked, pinned, pc, b, write, free, next, info, avail, used, disk, latest, panic>>
  BY DEF Submit, At
<1>2. TypesOK /\ Standing /\ Locks
  BY DEF DiskInv
<1>3. asleep' \in [Proc -> Channel \cup {NULL}]
  BY <1>1, <1>2 DEF TypesOK, Channel
<1>4. Standing'
  BY <1>1, <1>2 DEF Standing, Stands
<1>5. Locks'
  BY <1>1, <1>2 DEF Locks
<1> QED BY <1>1, <1>2, <1>3, <1>4, <1>5, MoveInv DEF TypesOK, driverVars, deviceVars

\* A chain whose links stay is the same chain.
LEMMA SameChain ==
    ASSUME TypesOK, NEW i \in Desc, \A j \in Chain(i) : next'[j] = next[j] PROVE Chain(i)' = Chain(i)
<1>1. i \in Chain(i) /\ (next[i] # NULL => next[i] \in Chain(i))
  BY DEF Chain
<1> QED BY <1>1 DEF Chain

LEMMA ChainType ==
    ASSUME DiskAssumption, TypesOK, NEW i \in Desc PROVE Chain(i) \subseteq Desc /\ i \in Chain(i)
BY DEF Chain, TypesOK

\* What the steps of a request do to the other requests: their heads, chains and buffers stay.
LEMMA SubmitGoes ==
    ASSUME DiskAssumption, DiskInv, NEW p \in Proc, Submit(p), ~(Cardinality(free) < 3) PROVE DiskInv'
<1>1. pc[p] = "rw" /\ asleep[p] = NULL
  BY DEF Submit, At
<1>2. PICK x \in Buf : b[p] = x /\ buf[x].block \in Block
  BY <1>1, HasBuffer DEF DiskInv
<1>3. TypesOK /\ Standing /\ Locks /\ Requests /\ Chains
  BY DEF DiskInv
<1>4. PICK i, j, k \in free : Three = <<i, j, k>> /\ i # j /\ i # k /\ j # k
  BY <1>3, ThreeFree
<1>5. PICK r0 : r0 = [id |-> i, write |-> write[p], block |-> buf[x].block]
  OBVIOUS
<1>6. /\ free' = free \ {i, j, k}
      /\ next' = [next EXCEPT ![i] = j, ![j] = k, ![k] = NULL]
      /\ info' = [info EXCEPT ![i] = x]
      /\ buf' = [buf EXCEPT ![x].disk = TRUE]
      /\ avail' = avail \cup {r0}
      /\ asleep' = [asleep EXCEPT ![p] = DoneOf(x)] /\ pc' = [pc EXCEPT ![p] = "io"]
      /\ UNCHANGED <<lru, locked, pinned, b, write, used, disk, latest, panic>>
  <2>1. ToSet(<<i, j, k>>) = {i, j, k}
    BY DEF ToSet
  <2>2. <<i, j, k>>[1] = i /\ <<i, j, k>>[2] = j /\ <<i, j, k>>[3] = k
    OBVIOUS
  <2> QED BY <1>2, <1>4, <1>5, <2>1, <2>2 DEF Submit, SleepOn, Goto
<1>7. i \in Desc /\ j \in Desc /\ k \in Desc /\ i # NULL /\ j # NULL /\ k # NULL
  BY <1>3, <1>4 DEF TypesOK, DiskAssumption, Desc
<1>8. /\ pc'[p] = "io" /\ asleep'[p] = DoneOf(x)
      /\ \A q \in Proc : q # p => pc'[q] = pc[q] /\ asleep'[q] = asleep[q]
      /\ pc' \in [Proc -> {"idle", "lock", "release"} \cup Working]
      /\ asleep' \in [Proc -> Channel \cup {NULL}]
  BY <1>3, <1>6 DEF TypesOK, Working, Channel
<1>9. /\ next' \in [Desc -> Desc \cup {NULL}] /\ info' \in [Desc -> Buf \cup {NULL}]
      /\ next'[i] = j /\ next'[j] = k /\ next'[k] = NULL
      /\ \A h \in Desc \ {i, j, k} : next'[h] = next[h]
      /\ info'[i] = x /\ \A h \in Desc : h # i => info'[h] = info[h]
  BY <1>3, <1>4, <1>6, <1>7 DEF TypesOK
<1>10. /\ buf' \in [Buf -> Buffer]
       /\ buf'[x].disk = TRUE
       /\ \A y \in Buf : y # x => buf'[y].disk = buf[y].disk
       /\ \A y \in Buf : /\ buf'[y].block = buf[y].block /\ buf'[y].valid = buf[y].valid
                         /\ buf'[y].refcnt = buf[y].refcnt /\ buf'[y].data = buf[y].data
  <2> DEFINE e == [buf[x] EXCEPT !.disk = TRUE]
  <2>1. /\ e \in Buffer /\ e.data = buf[x].data /\ e.block = buf[x].block /\ e.valid = buf[x].valid
        /\ e.disk = TRUE /\ e.refcnt = buf[x].refcnt
    <3>1. buf[x] \in Buffer
      BY <1>3 DEF TypesOK
    <3> QED BY <3>1 DEF Buffer
  <2>2. buf' = [buf EXCEPT ![x] = e]
    BY <1>6
  <2> HIDE DEF e
  <2> QED BY <1>3, <2>1, <2>2 DEF TypesOK
<1>11. r0 \in Request /\ r0.id = i /\ r0.write = write[p] /\ r0.block = buf[x].block
  BY <1>2, <1>3, <1>5, <1>7 DEF Request, TypesOK
<1>12. IsFiniteSet(free') /\ free' \in SUBSET Desc /\ (Cardinality(free) < 3 => Cardinality(free') < 3)
  <2>1. free' \in SUBSET free
    BY <1>6
  <2> QED BY <1>3, <2>1, FS_Subset DEF TypesOK
<1>13. TypesOK' /\ Listed'
  BY <1>3, <1>6, <1>8, <1>9, <1>10, <1>11, <1>12 DEF TypesOK, DiskInv, Listed
<1>14. \A q \in Proc : q # p /\ pc[q] \in Working => b[q] # x
  BY <1>1, <1>2, <1>3, OneWorks DEF Working
<1>15. Standing'
  <2> SUFFICES ASSUME NEW q \in Proc PROVE Stands(q)'
    BY DEF Standing
  <2>1. Stands(q) /\ NULL \notin Buf /\ b[q] \in Buf \cup {NULL}
    BY <1>3 DEF Standing, DiskAssumption, TypesOK
  <2>2. CASE q = p
    BY <1>1, <1>2, <1>6, <1>8, <1>10, <2>1, <2>2 DEF Stands
  <2>3. CASE q # p
    <3>1. b[q] \in Buf => (buf[b[q]].disk => buf'[b[q]].disk)
      BY <1>10
    <3>2. ~(Cardinality(free) < 3) => asleep[q] # FreeDesc \/ pc[q] # "rw"
      BY <2>1, ChannelsApart, <1>3 DEF Stands, DiskAssumption
    <3> QED BY <1>6, <1>8, <1>10, <1>12, <2>1, <2>3, <3>1, <3>2 DEF Stands
  <2> QED BY <2>2, <2>3
<1>16. Locks'
  BY <1>1, <1>3, <1>6, <1>8 DEF Locks, Working
<1>17. Counts' /\ Unique'
  BY <1>6, <1>10 DEF DiskInv, Counts, Users, Unique
<1>18. Chains'
  <2>1. \A h \in Desc : info[h] # NULL => i \notin Chain(h) /\ j \notin Chain(h) /\ k \notin Chain(h)
    BY <1>3, <1>4 DEF Chains
  <2>2. \A h \in Desc : info[h] # NULL => Chain(h)' = Chain(h)
    <3> SUFFICES ASSUME NEW h \in Desc, info[h] # NULL PROVE Chain(h)' = Chain(h)
      OBVIOUS
    <3>1. Chain(h) \subseteq Desc
      BY <1>3, ChainType
    <3>2. \A g \in Chain(h) : next'[g] = next[g]
      BY <1>9, <2>1, <3>1
    <3> QED BY <1>3, <3>2, SameChain
  <2>3. Chain(i)' = {i, j, k}
    BY <1>7, <1>9 DEF Chain
  <2>4. \A h \in Desc : info'[h] # NULL /\ h # i => info[h] # NULL
    BY <1>9
  <2>5. ASSUME NEW h \in Desc, info'[h] # NULL
        PROVE  /\ Chain(h)' \cap free' = {}
               /\ \A g \in Desc \ {h} : info'[g] # NULL => Chain(h)' \cap Chain(g)' = {}
    <3>1. CASE h = i
      BY <1>6, <2>1, <2>2, <2>3, <2>4, <3>1
    <3>2. CASE h # i
      BY <1>3, <1>6, <2>1, <2>2, <2>3, <2>4, <2>5, <3>2 DEF Chains
    <3> QED BY <3>1, <3>2
  <2> QED BY <2>5 DEF Chains
<1>19. info[i] = NULL /\ \A h \in Desc : info[h] # x
  <2>1. info[i] = NULL
    <3>1. i \in Chain(i)
      BY <1>3, <1>7, ChainType
    <3> QED BY <1>3, <1>4, <1>7, <3>1 DEF Chains
  <2>2. ASSUME NEW h \in Desc, info[h] = x PROVE FALSE
    <3>1. PICK q \in Proc : pc[q] = "io" /\ b[q] = x
      BY <1>3, <2>2 DEF Requests, DiskAssumption
    <3> QED BY <1>1, <1>14, <3>1 DEF Working
  <2> QED BY <2>1, <2>2
<1>20. Requests'
  <2>1. ToSet(used)' = ToSet(used) /\ ToSet(used) \subseteq Desc
    BY <1>3, <1>6, UsedDesc DEF ToSet
  <2>2. \A h \in Desc : info[h] # NULL =>
           /\ h # i /\ info'[h] = info[h] /\ info[h] \in Buf /\ info[h] # x
           /\ buf'[info[h]].disk = buf[info[h]].disk /\ buf'[info[h]].block = buf[info[h]].block
    BY <1>3, <1>9, <1>10, <1>19 DEF TypesOK
  <2>3. \A r \in avail : Asked(r) /\ r.id \in Desc /\ info[r.id] # NULL
    BY <1>3 DEF Requests, TypesOK, Request, Asked
  <2>4. \A g, h \in Desc : info'[g] # NULL /\ info'[g] = info'[h] => g = h
    BY <1>3, <1>9, <1>19 DEF Requests
  <2>5. \A h \in Desc : info'[h] # NULL => \E q \in Proc : pc'[q] = "io" /\ b'[q] = info'[h]
    <3> SUFFICES ASSUME NEW h \in Desc, info'[h] # NULL PROVE \E q \in Proc : pc'[q] = "io" /\ b'[q] = info'[h]
      OBVIOUS
    <3>1. CASE h = i
      BY <1>2, <1>6, <1>8, <1>9, <3>1
    <3>2. CASE h # i
      <4>1. PICK q \in Proc : pc[q] = "io" /\ b[q] = info[h]
        BY <1>3, <1>9, <3>2 DEF Requests
      <4> QED BY <1>1, <1>6, <1>8, <1>9, <3>2, <4>1
    <3> QED BY <3>1, <3>2
  <2>6. \A q \in Proc : pc'[q] = "io" /\ buf'[b'[q]].disk => AtDisk(b[q])'
    <3> SUFFICES ASSUME NEW q \in Proc, pc'[q] = "io", buf'[b'[q]].disk PROVE AtDisk(b[q])'
      OBVIOUS
    <3>1. CASE q = p
      BY <1>2, <1>6, <1>7, <1>9, <1>11, <3>1 DEF AtDisk
    <3>2. CASE q # p
      <4>1. pc[q] = "io" /\ b[q] \in Buf /\ b[q] # x /\ b'[q] = b[q]
        BY <1>3, <1>6, <1>8, <1>14, <3>2, HasBuffer DEF Working
      <4>2. AtDisk(b[q])
        BY <1>3, <1>10, <4>1 DEF Requests
      <4>3. PICK h \in Desc : info[h] = b[q] /\ (h \in ToSet(used) \/ \E r \in avail : r.id = h)
        BY <4>2 DEF AtDisk
      <4>4. info'[h] = b[q]
        BY <2>2, <4>1, <4>3 DEF DiskAssumption
      <4> QED BY <1>6, <2>1, <4>1, <4>3, <4>4 DEF AtDisk
    <3> QED BY <3>1, <3>2
  <2>7. \A h \in ToSet(used) : info'[h] # NULL /\ buf'[info'[h]].disk
    BY <1>3, <2>1, <2>2 DEF Requests
  <2>8. \A r \in avail' : Asked(r)'
    <3> SUFFICES ASSUME NEW r \in avail' PROVE Asked(r)'
      OBVIOUS
    <3>1. CASE r \in avail
      <4>1. \A q \in Proc : pc'[q] = "io" /\ b'[q] = info[r.id] => pc[q] = "io" /\ b[q] = info[r.id] /\ write'[q] = write[q]
        BY <1>2, <1>6, <1>8, <2>2, <2>3, <3>1
      <4> QED BY <2>1, <2>2, <2>3, <3>1, <4>1 DEF Asked
    <3>2. CASE r = r0
      <4>1. info'[r.id] = x /\ buf'[x].disk /\ r.block = buf'[x].block /\ x # NULL
        BY <1>9, <1>10, <1>11, <3>2 DEF DiskAssumption
      <4>2. r.id \notin ToSet(used)
        BY <1>3, <1>11, <1>19, <3>2 DEF Requests
      <4>3. \A q \in Proc : pc'[q] = "io" /\ b'[q] = x => r.write = write'[q]
        BY <1>6, <1>8, <1>11, <1>14, <3>2 DEF Working
      <4> QED BY <2>1, <4>1, <4>2, <4>3 DEF Asked
    <3> QED BY <1>6, <3>1, <3>2
  <2>9. \A r, s \in avail' : r.id = s.id => r = s
    BY <1>3, <1>6, <1>11, <1>19, <2>3 DEF Requests
  <2> QED BY <2>1, <2>4, <2>5, <2>6, <2>7, <2>8, <2>9 DEF Requests
<1>21. /\ InFlight(x)'
       /\ \A y : y # x => (InFlight(y)' <=> InFlight(y))
  <2>1. \A r \in avail : r.id \in Desc /\ r.id # i /\ info'[r.id] = info[r.id]
    BY <1>3, <1>9, <1>19 DEF Requests, TypesOK, Request, Asked
  <2> QED BY <1>6, <1>9, <1>11, <2>1 DEF InFlight
<1>22. \A y \in Buf : Writing(y) => Writing(y)'
  <2> SUFFICES ASSUME NEW y \in Buf, Writing(y) PROVE Writing(y)'
    OBVIOUS
  <2>1. PICK q \in Proc : b[q] = y /\ pc[q] \in {"rw", "io"} /\ write[q] /\ (pc[q] = "io" => InFlight(y))
    BY DEF Writing
  <2>2. b'[q] = y /\ write'[q] /\ pc'[q] \in {"rw", "io"}
    BY <1>1, <1>6, <1>8, <2>1
  <2>3. pc'[q] = "io" => InFlight(y)'
    BY <1>2, <1>8, <1>21, <2>1
  <2> QED BY <2>2, <2>3 DEF Writing
<1>23. ValidLatest' /\ PinnedValid'
  BY <1>3, <1>6, <1>10 DEF DiskInv, ValidLatest, PinnedValid, TypesOK
<1>24. DiskLatest'
  BY <1>6, <1>10, <1>22 DEF DiskInv, DiskLatest
<1>25. ServedLatest'
  <2>1. ASSUME NEW q \in Proc, pc'[q] = "io", ~InFlight(b[q])'
        PROVE  /\ buf'[b[q]].data = latest[buf'[b[q]].block]
               /\ disk[buf'[b[q]].block] = latest[buf'[b[q]].block]
    <3>1. b[q] # x
      BY <1>6, <1>21, <2>1
    <3>2. pc[q] = "io" /\ b[q] \in Buf /\ ~InFlight(b[q])
      BY <1>2, <1>3, <1>6, <1>8, <1>21, <2>1, <3>1, HasBuffer
    <3>3. /\ buf[b[q]].data = latest[buf[b[q]].block]
          /\ disk[buf[b[q]].block] = latest[buf[b[q]].block]
      BY <3>2 DEF DiskInv, ServedLatest
    <3> QED BY <1>10, <3>2, <3>3
  <2> QED BY <1>6, <2>1 DEF ServedLatest
<1> QED BY <1>13, <1>15, <1>16, <1>17, <1>18, <1>20, <1>23, <1>24, <1>25 DEF DiskInv

LEMMA ChainFinite == ASSUME NEW i \in Desc PROVE IsFiniteSet(Chain(i))
<1>1. \A x, y, z : IsFiniteSet({x}) /\ IsFiniteSet({x, y}) /\ IsFiniteSet({x, y, z})
  <2> SUFFICES ASSUME NEW x, NEW y, NEW z
               PROVE  IsFiniteSet({x}) /\ IsFiniteSet({x, y}) /\ IsFiniteSet({x, y, z})
    OBVIOUS
  <2>1. IsFiniteSet({x})
    BY FS_Singleton
  <2>2. IsFiniteSet({x} \cup {y})
    BY <2>1, FS_AddElement
  <2>3. IsFiniteSet(({x} \cup {y}) \cup {z})
    BY <2>2, FS_AddElement
  <2>4. {x, y} = {x} \cup {y} /\ {x, y, z} = ({x} \cup {y}) \cup {z}
    OBVIOUS
  <2> QED BY <2>1, <2>2, <2>3, <2>4
<1>2. \/ Chain(i) = {i} \/ Chain(i) = {i, next[i]} \/ Chain(i) = {i, next[i], next[next[i]]}
  BY DEF Chain
<1>3. PICK y, z : Chain(i) = {i} \/ Chain(i) = {i, y} \/ Chain(i) = {i, y, z}
  BY <1>2
<1>4. IsFiniteSet({i}) /\ IsFiniteSet({i, y}) /\ IsFiniteSet({i, y, z})
  BY <1>1
<1>5. CASE Chain(i) = {i}
  BY <1>4, <1>5
<1>6. CASE Chain(i) = {i, y}
  BY <1>4, <1>6
<1>7. CASE Chain(i) = {i, y, z}
  BY <1>4, <1>7
<1> QED BY <1>3, <1>5, <1>6, <1>7

LEMMA DoneWaits ==
    ASSUME DiskAssumption, DiskInv, NEW p \in Proc, Done(p), buf[b[p]].disk PROVE DiskInv'
<1>1. /\ pc[p] = "io" /\ asleep[p] = NULL /\ asleep' = [asleep EXCEPT ![p] = DoneOf(b[p])]
      /\ UNCHANGED <<buf, lru, locked, pinned, pc, b, write, free, next, info, avail, used, disk, latest, panic>>
  BY DEF Done, At, SleepOn, deviceVars
<1>2. TypesOK /\ Standing /\ Locks /\ b[p] \in Buf
  BY <1>1, HasBuffer DEF DiskInv
<1>3. asleep' \in [Proc -> Channel \cup {NULL}]
  BY <1>1, <1>2 DEF TypesOK, Channel
<1>4. Standing'
  BY <1>1, <1>2 DEF Standing, Stands, TypesOK
<1>5. Locks'
  BY <1>1, <1>2 DEF Locks
<1> QED BY <1>1, <1>2, <1>3, <1>4, <1>5, MoveInv DEF TypesOK, driverVars, deviceVars

LEMMA DoneGoes ==
    ASSUME DiskAssumption, DiskInv, NEW p \in Proc, Done(p), ~buf[b[p]].disk PROVE DiskInv'
<1>1. pc[p] = "io" /\ asleep[p] = NULL
  BY DEF Done, At
<1>2. PICK x \in Buf : b[p] = x /\ buf[x].block \in Block
  BY <1>1, HasBuffer DEF DiskInv
<1>3. TypesOK /\ Standing /\ Locks /\ Requests /\ Chains /\ Counts
  BY DEF DiskInv
<1>4. PICK i \in Desc :
        /\ info[i] = x /\ info' = [info EXCEPT ![i] = NULL]
        /\ free' = free \cup Chain(i) /\ panic' = (Chain(i) \cap free # {})
        /\ next' = [j \in Desc |-> IF j \in Chain(i) THEN NULL ELSE next[j]]
        /\ Wakeup({FreeDesc}) /\ pc' = [pc EXCEPT ![p] = "hold"]
        /\ pinned' = (IF write[p] THEN pinned \ {x} ELSE pinned)
        /\ buf' = [buf EXCEPT ![x].valid = TRUE,
                              ![x].refcnt = IF write[p] /\ x \in pinned THEN @ - 1 ELSE @]
  BY <1>2 DEF Done, Goto
<1>5. UNCHANGED <<lru, locked, b, write, avail, used, disk, latest>>
  BY DEF Done, deviceVars
<1>6. PICK C : C = Chain(i)
  OBVIOUS
<1>7. C \subseteq Desc /\ i \in C /\ C \cap free = {} /\ IsFiniteSet(C)
  BY <1>2, <1>3, <1>4, <1>6, ChainType, ChainFinite DEF Chains, DiskAssumption
<1>8. /\ info' \in [Desc -> Buf \cup {NULL}] /\ next' \in [Desc -> Desc \cup {NULL}]
      /\ info'[i] = NULL /\ \A h \in Desc : h # i => info'[h] = info[h]
      /\ \A h \in Desc \ C : next'[h] = next[h]
  BY <1>3, <1>4, <1>6 DEF TypesOK
<1>9. /\ pc'[p] = "hold" /\ \A q \in Proc : q # p => pc'[q] = pc[q]
      /\ pc' \in [Proc -> {"idle", "lock", "release"} \cup Working]
  BY <1>3, <1>4 DEF TypesOK, Working
<1>10. /\ \A q \in Proc : asleep'[q] = IF asleep[q] = FreeDesc THEN NULL ELSE asleep[q]
       /\ asleep' \in [Proc -> Channel \cup {NULL}]
  BY <1>3, <1>4 DEF Wakeup, TypesOK
<1>11. PICK n \in Int : n = IF write[p] /\ x \in pinned THEN buf[x].refcnt - 1 ELSE buf[x].refcnt
  <2>1. buf[x].refcnt \in Int
    BY <1>3 DEF TypesOK, Buffer
  <2>2. buf[x].refcnt - 1 \in Int
    BY <2>1
  <2> QED BY <2>1, <2>2
<1>12. /\ buf' \in [Buf -> Buffer]
       /\ buf'[x].valid = TRUE /\ \A y \in Buf : y # x => buf'[y].valid = buf[y].valid
       /\ \A y \in Buf : /\ buf'[y].block = buf[y].block /\ buf'[y].disk = buf[y].disk
                         /\ buf'[y].data = buf[y].data
                         /\ buf'[y].refcnt = IF y = x THEN n ELSE buf[y].refcnt
  <2> DEFINE e == [buf[x] EXCEPT !.valid = TRUE]
             c == [e EXCEPT !.refcnt = n]
  <2>1. /\ e \in Buffer /\ e.data = buf[x].data /\ e.block = buf[x].block /\ e.valid = TRUE
        /\ e.disk = buf[x].disk /\ e.refcnt = buf[x].refcnt
    <3>1. buf[x] \in Buffer
      BY <1>3 DEF TypesOK
    <3> QED BY <3>1 DEF Buffer
  <2>2. buf' = [buf EXCEPT ![x] = [e EXCEPT !.refcnt = IF write[p] /\ x \in pinned THEN @ - 1 ELSE @]]
    <3>1. buf' = [buf EXCEPT ![x].valid = TRUE,
                             ![x].refcnt = IF write[p] /\ x \in pinned THEN @ - 1 ELSE @]
      BY <1>4
    <3>2. buf \in [Buf -> Buffer]
      BY <1>3 DEF TypesOK
    <3> QED BY <3>1, <3>2
  <2>3. (IF write[p] /\ x \in pinned THEN e.refcnt - 1 ELSE e.refcnt) = n
    BY <1>11, <2>1
  <2>4. buf' = [buf EXCEPT ![x] = c]
    BY <2>2, <2>3
  <2> HIDE DEF e
  <2>5. /\ c \in Buffer /\ c.data = buf[x].data /\ c.block = buf[x].block /\ c.valid = TRUE
        /\ c.disk = buf[x].disk /\ c.refcnt = n
    BY <2>1 DEF Buffer
  <2> HIDE DEF c
  <2> QED BY <1>3, <2>4, <2>5 DEF TypesOK
<1>13. pinned' \subseteq pinned /\ pinned \ {x} \subseteq pinned' /\ (x \in pinned' <=> x \in pinned /\ ~write[p])
  BY <1>3, <1>4 DEF TypesOK
<1>14. IsFiniteSet(free') /\ free' \in SUBSET Desc
  BY <1>3, <1>4, <1>6, <1>7, FS_Union DEF TypesOK
<1>15. TypesOK' /\ Listed'
  <2>1. ~panic'
    BY <1>4, <1>6, <1>7
  <2>2. panic' = FALSE
    BY <1>4, <2>1
  <2>3. pinned' \in SUBSET Buf
    BY <1>3, <1>13 DEF TypesOK
  <2> QED BY <1>3, <1>5, <1>8, <1>9, <1>10, <1>12, <1>14, <2>2, <2>3 DEF TypesOK, DiskInv, Listed
<1>16. Standing'
  <2> SUFFICES ASSUME NEW q \in Proc PROVE Stands(q)'
    BY DEF Standing
  <2>1. Stands(q) /\ NULL \notin Buf /\ b[q] \in Buf \cup {NULL}
    BY <1>3 DEF Standing, DiskAssumption, TypesOK
  <2>2. CASE q = p
    BY <1>1, <1>2, <1>5, <1>9, <1>10, <1>12, <2>1, <2>2 DEF Stands
  <2>3. CASE q # p
    <3>1. pc[q] \in Working => b[q] # x
      BY <1>1, <1>2, <1>3, <2>3, OneWorks DEF Working
    <3>2. asleep'[q] # NULL => asleep'[q] = asleep[q] /\ asleep[q] # FreeDesc
      BY <1>10
    <3> QED BY <1>5, <1>9, <1>12, <2>1, <2>3, <3>1, <3>2 DEF Stands, Working
  <2> QED BY <2>2, <2>3
<1>17. Locks'
  BY <1>1, <1>3, <1>5, <1>9 DEF Locks, Working
<1>18. Counts'
  <2>1. ASSUME NEW y \in Buf
        PROVE  buf'[y].refcnt = Cardinality(Users(y)) + (IF y \in pinned' THEN 1 ELSE 0)
    <3>1. Cardinality(Users(y)) \in Nat
      BY <1>3, UsedIsCounted
    <3>2. buf[y].refcnt = Cardinality(Users(y)) + (IF y \in pinned THEN 1 ELSE 0)
      BY <1>3 DEF Counts
    <3>3. CASE y = x
      BY <1>11, <1>12, <1>13, <3>1, <3>2, <3>3
    <3>4. CASE y # x
      BY <1>12, <1>13, <3>2, <3>4
    <3> QED BY <3>3, <3>4
  <2>2. \A y \in Buf : Users(y)' = Users(y)
    BY <1>5 DEF Users
  <2> QED BY <2>1, <2>2 DEF Counts
<1>19. Unique'
  BY <1>12 DEF DiskInv, Unique
<1>20. Chains'
  <2>1. \A h \in Desc : info'[h] # NULL => /\ h # i /\ info[h] # NULL /\ Chain(h) \cap C = {}
    BY <1>2, <1>3, <1>4, <1>6, <1>8 DEF Chains, DiskAssumption
  <2>2. \A h \in Desc : info'[h] # NULL => Chain(h)' = Chain(h)
    <3> SUFFICES ASSUME NEW h \in Desc, info'[h] # NULL PROVE Chain(h)' = Chain(h)
      OBVIOUS
    <3>1. Chain(h) \subseteq Desc
      BY <1>3, ChainType
    <3>2. \A g \in Chain(h) : next'[g] = next[g]
      BY <1>8, <2>1, <3>1
    <3> QED BY <1>3, <3>2, SameChain
  <2>3. ASSUME NEW h \in Desc, info'[h] # NULL
        PROVE  /\ Chain(h)' \cap free' = {}
               /\ \A g \in Desc \ {h} : info'[g] # NULL => Chain(h)' \cap Chain(g)' = {}
    BY <1>3, <1>4, <1>6, <2>1, <2>2, <2>3 DEF Chains
  <2> QED BY <2>3 DEF Chains
<1>21. \A r \in avail : r.id \in Desc /\ Asked(r) /\ info[r.id] # x /\ r.id # i /\ info'[r.id] = info[r.id]
  BY <1>2, <1>3, <1>4, <1>8 DEF Requests, TypesOK, Request, Asked
<1>22. ToSet(used)' = ToSet(used) /\ ToSet(used) \subseteq Desc /\ i \notin ToSet(used)
  BY <1>2, <1>3, <1>4, <1>5, UsedDesc DEF ToSet, Requests
<1>23. Requests'
  <2>1. \A g, h \in Desc : info'[g] # NULL /\ info'[g] = info'[h] => g = h
    BY <1>3, <1>8 DEF Requests
  <2>2. \A h \in Desc : info'[h] # NULL => \E q \in Proc : pc'[q] = "io" /\ b'[q] = info'[h]
    <3> SUFFICES ASSUME NEW h \in Desc, info'[h] # NULL PROVE \E q \in Proc : pc'[q] = "io" /\ b'[q] = info'[h]
      OBVIOUS
    <3>1. PICK q \in Proc : pc[q] = "io" /\ b[q] = info[h] /\ h # i
      BY <1>3, <1>8 DEF Requests
    <3>2. info[h] # x
      BY <1>2, <1>3, <1>4, <3>1 DEF Requests, DiskAssumption
    <3> QED BY <1>2, <1>5, <1>8, <1>9, <3>1, <3>2
  <2>3. \A q \in Proc : pc'[q] = "io" /\ buf'[b'[q]].disk => AtDisk(b[q])'
    <3> SUFFICES ASSUME NEW q \in Proc, pc'[q] = "io", buf'[b'[q]].disk PROVE AtDisk(b[q])'
      OBVIOUS
    <3>1. q # p /\ pc[q] = "io" /\ b[q] \in Buf /\ b'[q] = b[q]
      BY <1>3, <1>5, <1>9, HasBuffer
    <3>2. AtDisk(b[q])
      BY <1>3, <1>12, <3>1 DEF Requests
    <3>3. PICK h \in Desc : info[h] = b[q] /\ (h \in ToSet(used) \/ \E r \in avail : r.id = h)
      BY <3>2 DEF AtDisk
    <3>4. h # i
      BY <1>21, <1>22, <3>3
    <3> QED BY <1>5, <1>8, <1>22, <3>1, <3>3, <3>4 DEF AtDisk
  <2>4. \A h \in ToSet(used) : info'[h] # NULL /\ buf'[info'[h]].disk
    <3> SUFFICES ASSUME NEW h \in ToSet(used) PROVE info'[h] # NULL /\ buf'[info'[h]].disk
      OBVIOUS
    <3>1. info[h] # NULL /\ buf[info[h]].disk /\ h # i /\ h \in Desc /\ info[h] \in Buf
      BY <1>3, <1>22 DEF Requests, TypesOK
    <3> QED BY <1>8, <1>12, <3>1
  <2>5. \A r \in avail : Asked(r)'
    <3> SUFFICES ASSUME NEW r \in avail PROVE Asked(r)'
      OBVIOUS
    <3>1. /\ info[r.id] \in Buf
          /\ buf'[info[r.id]].disk = buf[info[r.id]].disk /\ buf'[info[r.id]].block = buf[info[r.id]].block
      BY <1>3, <1>12, <1>21 DEF TypesOK, Asked
    <3>2. \A q \in Proc : pc'[q] = "io" /\ b'[q] = info[r.id] => pc[q] = "io" /\ b[q] = info[r.id] /\ write'[q] = write[q]
      BY <1>5, <1>9
    <3> QED BY <1>21, <1>22, <3>1, <3>2 DEF Asked
  <2>6. \A r, s \in avail : r.id = s.id => r = s
    BY <1>3 DEF Requests
  <2> QED BY <1>5, <1>22, <2>1, <2>2, <2>3, <2>4, <2>5, <2>6 DEF Requests
<1>24. /\ ~InFlight(x)
       /\ \A y : InFlight(y)' <=> InFlight(y)
  BY <1>5, <1>21 DEF InFlight
<1>25. buf[x].data = latest[buf[x].block] /\ disk[buf[x].block] = latest[buf[x].block]
  BY <1>1, <1>2, <1>24 DEF DiskInv, ServedLatest
<1>26. ValidLatest' /\ PinnedValid'
  <2>1. ASSUME NEW y \in Buf, buf'[y].valid
        PROVE  buf'[y].block \in Block /\ buf'[y].data = latest[buf'[y].block]
    <3>1. CASE y = x
      BY <1>2, <1>12, <1>25, <3>1
    <3>2. CASE y # x
      BY <1>12, <2>1, <3>2 DEF DiskInv, ValidLatest
    <3> QED BY <3>1, <3>2
  <2>2. PinnedValid'
    BY <1>3, <1>12, <1>13 DEF DiskInv, PinnedValid, TypesOK
  <2> QED BY <1>5, <2>1, <2>2 DEF ValidLatest
<1>27. DiskLatest'
  <2>1. \A y \in Buf : y # x /\ Writing(y) => Writing(y)'
    BY <1>2, <1>5, <1>9, <1>24 DEF Writing
  <2>2. ASSUME NEW h \in Block, \A y \in Buf : buf'[y].block # h PROVE disk[h] = latest[h]
    BY <1>12, <2>2 DEF DiskInv, DiskLatest
  <2>3. ASSUME NEW y \in Buf, buf'[y].block \in Block, y \notin pinned', ~Writing(y)'
        PROVE  disk[buf'[y].block] = latest[buf'[y].block]
    <3>1. CASE y = x
      BY <1>12, <1>25, <3>1
    <3>2. CASE y # x
      <4>1. y \notin pinned /\ ~Writing(y)
        BY <1>13, <2>1, <2>3, <3>2
      <4> QED BY <1>12, <2>3, <4>1 DEF DiskInv, DiskLatest
    <3> QED BY <3>1, <3>2
  <2> QED BY <1>5, <2>2, <2>3 DEF DiskLatest
<1>28. ServedLatest'
  <2>1. ASSUME NEW q \in Proc, pc'[q] = "io", ~InFlight(b[q])'
        PROVE  /\ buf'[b[q]].data = latest[buf'[b[q]].block]
               /\ disk[buf'[b[q]].block] = latest[buf'[b[q]].block]
    <3>1. pc[q] = "io" /\ b[q] \in Buf /\ ~InFlight(b[q])
      BY <1>3, <1>5, <1>9, <1>24, <2>1, HasBuffer
    <3>2. /\ buf[b[q]].data = latest[buf[b[q]].block]
          /\ disk[buf[b[q]].block] = latest[buf[b[q]].block]
      BY <3>1 DEF DiskInv, ServedLatest
    <3> QED BY <1>12, <3>1, <3>2
  <2> QED BY <1>5, <2>1 DEF ServedLatest
<1> QED BY <1>15, <1>16, <1>17, <1>18, <1>19, <1>20, <1>23, <1>26, <1>27, <1>28 DEF DiskInv

LEMMA AppendSet ==
    ASSUME NEW s \in Seq(Desc), NEW e \in Desc
    PROVE  Append(s, e) \in Seq(Desc) /\ ToSet(Append(s, e)) = ToSet(s) \cup {e}
<1>1. /\ Len(s) \in Nat /\ DOMAIN s = 1..Len(s)
      /\ DOMAIN Append(s, e) = 1..(Len(s) + 1)
      /\ \A i \in 1..Len(s) : Append(s, e)[i] = s[i]
      /\ Append(s, e)[Len(s) + 1] = e
  OBVIOUS
<1>2. 1..(Len(s) + 1) = 1..Len(s) \cup {Len(s) + 1}
  BY <1>1
<1> QED BY <1>1, <1>2 DEF ToSet

LEMMA ServeInv == ASSUME DiskAssumption, DiskInv, Serve PROVE DiskInv'
<1>1. PICK r \in avail :
        /\ avail' = avail \ {r} /\ used' = Append(used, r.id)
        /\ IF r.write THEN disk' = [disk EXCEPT ![r.block] = buf[info[r.id]].data] /\ UNCHANGED buf
           ELSE buf' = [buf EXCEPT ![info[r.id]].data = disk[r.block]] /\ UNCHANGED disk
        /\ UNCHANGED <<lru, locked, pinned, procVars, driverVars, latest, panic>>
  BY DEF Serve
<1>2. UNCHANGED <<lru, locked, pinned, pc, asleep, b, write, free, next, info, latest, panic>>
  BY <1>1 DEF procVars, driverVars
<1>3. TypesOK /\ Standing /\ Locks /\ Requests /\ Chains
  BY DEF DiskInv
<1>4. PICK x : x = info[r.id]
  OBVIOUS
<1>5. r.id \in Desc /\ r.write \in BOOLEAN /\ r.block \in Block /\ Asked(r)
  BY <1>3 DEF Requests, TypesOK, Request
<1>6. x \in Buf /\ buf[x].disk /\ r.block = buf[x].block /\ r.id \notin ToSet(used)
  BY <1>3, <1>4, <1>5 DEF Asked, TypesOK
<1>7. PICK p \in Proc : pc[p] = "io" /\ b[p] = x /\ r.write = write[p]
  BY <1>3, <1>4, <1>5 DEF Requests, Asked
<1>8. /\ \A q \in Proc : pc[q] \in Working /\ b[q] = x => q = p
      /\ buf[x].valid <=> r.write
  BY <1>3, <1>6, <1>7, OneWorks DEF Working, Standing, Stands
<1>9. /\ disk' \in [Block -> Data] /\ buf' \in [Buf -> Buffer]
      /\ \A h \in Block : h # r.block => disk'[h] = disk[h]
      /\ disk'[r.block] = IF r.write THEN buf[x].data ELSE disk[r.block]
      /\ \A y \in Buf : /\ buf'[y].block = buf[y].block /\ buf'[y].disk = buf[y].disk
                        /\ buf'[y].valid = buf[y].valid /\ buf'[y].refcnt = buf[y].refcnt
                        /\ buf'[y].data = IF y = x /\ ~r.write THEN disk[r.block] ELSE buf[y].data
  <2>1. CASE r.write
    BY <1>1, <1>3, <1>4, <1>5, <1>6, <2>1 DEF TypesOK, Buffer
  <2>2. CASE ~r.write
    <3> DEFINE e == [buf[x] EXCEPT !.data = disk[r.block]]
    <3>1. disk[r.block] \in Data /\ buf[x] \in Buffer
      BY <1>3, <1>5, <1>6 DEF TypesOK
    <3>2. /\ e \in Buffer /\ e.data = disk[r.block] /\ e.block = buf[x].block
          /\ e.valid = buf[x].valid /\ e.disk = buf[x].disk /\ e.refcnt = buf[x].refcnt
      BY <3>1 DEF Buffer
    <3>3. buf' = [buf EXCEPT ![x] = e] /\ disk' = disk
      BY <1>1, <1>4, <2>2
    <3> HIDE DEF e
    <3> QED BY <1>3, <1>6, <2>2, <3>2, <3>3 DEF TypesOK
  <2> QED BY <1>5, <2>1, <2>2
<1>10. ToSet(used)' = ToSet(used) \cup {r.id} /\ used' \in Seq(Desc) /\ ToSet(used) \subseteq Desc
  BY <1>1, <1>3, <1>5, AppendSet, UsedDesc DEF TypesOK
<1>11. TypesOK' /\ Listed'
  BY <1>1, <1>2, <1>3, <1>9, <1>10 DEF TypesOK, DiskInv, Listed
<1>12. Standing'
  <2> SUFFICES ASSUME NEW q \in Proc PROVE Stands(q)'
    BY DEF Standing
  <2>1. Stands(q) /\ NULL \notin Buf /\ b[q] \in Buf \cup {NULL}
    BY <1>3 DEF Standing, DiskAssumption, TypesOK
  <2>2. pc[q] \in Working \/ pc[q] = "lock" => b[q] \in Buf
    BY <2>1 DEF Stands, Working
  <2> QED BY <1>2, <1>9, <2>1, <2>2 DEF Stands, Working
<1>13. Locks' /\ Unique' /\ Counts'
  BY <1>2, <1>9 DEF DiskInv, Locks, Unique, Counts, Users
<1>14. Chains'
  BY <1>2 DEF DiskInv, Chains, Chain
<1>15. \A s \in avail : s # r => s.id # r.id /\ s.id \in Desc
  BY <1>3 DEF Requests, TypesOK, Request
<1>16. Requests'
  <2>1. \A q \in Proc : pc'[q] = "io" /\ buf'[b'[q]].disk => AtDisk(b[q])'
    <3> SUFFICES ASSUME NEW q \in Proc, pc'[q] = "io", buf'[b'[q]].disk PROVE AtDisk(b[q])'
      OBVIOUS
    <3>1. AtDisk(b[q])
      BY <1>2, <1>3, <1>9, HasBuffer DEF Requests
    <3>2. PICK h \in Desc : info[h] = b[q] /\ (h \in ToSet(used) \/ \E s \in avail : s.id = h)
      BY <3>1 DEF AtDisk
    <3> QED BY <1>1, <1>2, <1>10, <3>2 DEF AtDisk
  <2>2. \A h \in Desc : info[h] # NULL => info[h] \in Buf
    BY <1>3 DEF TypesOK
  <2>3. \A h \in ToSet(used)' : info'[h] # NULL /\ buf'[info'[h]].disk
    <3> SUFFICES ASSUME NEW h \in ToSet(used)' PROVE info[h] # NULL /\ buf'[info[h]].disk
      BY <1>2
    <3>1. h \in Desc /\ info[h] # NULL /\ buf[info[h]].disk
      BY <1>3, <1>4, <1>5, <1>6, <1>10 DEF Requests, Asked
    <3> QED BY <1>9, <2>2, <3>1
  <2>4. \A s \in avail' : Asked(s)'
    <3> SUFFICES ASSUME NEW s \in avail' PROVE Asked(s)'
      OBVIOUS
    <3>1. s \in avail /\ Asked(s) /\ s.id \in Desc /\ s.id \notin ToSet(used)'
      BY <1>1, <1>3, <1>10, <1>15 DEF Requests, Asked
    <3>2. /\ info[s.id] \in Buf
          /\ buf'[info[s.id]].disk = buf[info[s.id]].disk /\ buf'[info[s.id]].block = buf[info[s.id]].block
      BY <1>9, <2>2, <3>1 DEF Asked
    <3> QED BY <1>2, <3>1, <3>2 DEF Asked
  <2>5. \A s, t \in avail' : s.id = t.id => s = t
    BY <1>1, <1>3 DEF Requests
  <2> QED BY <1>2, <1>3, <2>1, <2>3, <2>4, <2>5 DEF Requests
<1>17. /\ ~InFlight(x)'
       /\ \A y : y # x => (InFlight(y)' <=> InFlight(y))
  <2>1. \A s \in avail : info[s.id] = x => s = r
    BY <1>3, <1>4, <1>5, <1>15 DEF Requests, Asked
  <2> QED BY <1>1, <1>2, <1>4, <2>1 DEF InFlight
<1>18. \A y \in Buf : y # x /\ Writing(y) => Writing(y)'
  BY <1>2, <1>17 DEF Writing
<1>19. /\ buf'[x].data = latest[buf[x].block] /\ disk'[buf[x].block] = latest[buf[x].block]
       /\ buf'[x].data = buf[x].data \/ ~buf[x].valid
  <2>1. CASE r.write
    <3>1. buf[x].data = latest[buf[x].block]
      BY <1>6, <1>8, <2>1 DEF DiskInv, ValidLatest
    <3> QED BY <1>6, <1>9, <2>1, <3>1
  <2>2. CASE ~r.write
    <3>1. x \notin pinned /\ ~buf[x].valid
      BY <1>8, <2>2 DEF DiskInv, PinnedValid
    <3>2. ~Writing(x)
      BY <1>7, <1>8, <2>2 DEF Writing, Working
    <3>3. disk[r.block] = latest[buf[x].block]
      BY <1>5, <1>6, <3>1, <3>2 DEF DiskInv, DiskLatest
    <3> QED BY <1>6, <1>9, <2>2, <3>1, <3>3
  <2> QED BY <1>5, <2>1, <2>2
<1>20. ValidLatest' /\ PinnedValid'
  <2>1. ASSUME NEW y \in Buf, buf'[y].valid
        PROVE  buf'[y].block \in Block /\ buf'[y].data = latest[buf'[y].block]
    <3>1. CASE y = x
      BY <1>5, <1>6, <1>9, <1>19, <3>1
    <3>2. CASE y # x
      BY <1>9, <2>1, <3>2 DEF DiskInv, ValidLatest
    <3> QED BY <3>1, <3>2
  <2>2. PinnedValid'
    BY <1>2, <1>3, <1>9 DEF DiskInv, PinnedValid, TypesOK
  <2> QED BY <1>2, <2>1, <2>2 DEF ValidLatest
<1>21. \A h \in Block : disk[h] = latest[h] => disk'[h] = latest[h]
  BY <1>6, <1>9, <1>19
<1>22. DiskLatest'
  <2>1. ASSUME NEW h \in Block, \A y \in Buf : buf'[y].block # h PROVE disk'[h] = latest[h]
    BY <1>9, <1>21, <2>1 DEF DiskInv, DiskLatest
  <2>2. ASSUME NEW y \in Buf, buf'[y].block \in Block, y \notin pinned, ~Writing(y)'
        PROVE  disk'[buf'[y].block] = latest[buf'[y].block]
    <3>1. CASE y = x
      BY <1>9, <1>19, <3>1
    <3>2. CASE y # x
      BY <1>9, <1>18, <1>21, <2>2, <3>2 DEF DiskInv, DiskLatest
    <3> QED BY <3>1, <3>2
  <2> QED BY <1>2, <2>1, <2>2 DEF DiskLatest
<1>23. ServedLatest'
  <2>1. ASSUME NEW q \in Proc, pc'[q] = "io", ~InFlight(b[q])'
        PROVE  /\ buf'[b[q]].data = latest[buf'[b[q]].block]
               /\ disk'[buf'[b[q]].block] = latest[buf'[b[q]].block]
    <3>1. pc[q] = "io" /\ b[q] \in Buf /\ buf[b[q]].block \in Block
      BY <1>2, <1>3, <2>1, HasBuffer
    <3>2. CASE b[q] = x
      BY <1>9, <1>19, <3>1, <3>2
    <3>3. CASE b[q] # x
      <4>1. ~InFlight(b[q])
        BY <1>2, <1>17, <2>1, <3>3
      <4>2. /\ buf[b[q]].data = latest[buf[b[q]].block]
            /\ disk[buf[b[q]].block] = latest[buf[b[q]].block]
        BY <3>1, <4>1 DEF DiskInv, ServedLatest
      <4> QED BY <1>9, <1>21, <3>1, <3>3, <4>2
    <3> QED BY <3>2, <3>3
  <2> QED BY <1>2, <2>1 DEF ServedLatest
<1> QED BY <1>11, <1>12, <1>13, <1>14, <1>16, <1>20, <1>22, <1>23 DEF DiskInv

LEMMA InterruptInv == ASSUME DiskAssumption, DiskInv, Interrupt PROVE DiskInv'
<1>1. PICK xs : xs = {info[i] : i \in ToSet(used)}
  OBVIOUS
<1>2. /\ used' = <<>>
      /\ buf' = [x \in Buf |-> IF x \in xs THEN [buf[x] EXCEPT !.disk = FALSE] ELSE buf[x]]
      /\ Wakeup({DoneOf(x) : x \in xs})
      /\ UNCHANGED <<lru, locked, pinned, pc, b, write, free, next, info, avail, disk, latest, panic>>
  BY <1>1 DEF Interrupt, driverVars
<1>3. TypesOK /\ Standing /\ Locks /\ Requests /\ Chains
  BY DEF DiskInv
<1>4. /\ buf' \in [Buf -> Buffer]
      /\ \A y \in Buf : /\ buf'[y].block = buf[y].block /\ buf'[y].valid = buf[y].valid
                        /\ buf'[y].refcnt = buf[y].refcnt /\ buf'[y].data = buf[y].data
                        /\ buf'[y].disk = IF y \in xs THEN FALSE ELSE buf[y].disk
  <2> SUFFICES ASSUME NEW y \in Buf
               PROVE  /\ buf'[y] \in Buffer
                      /\ buf'[y].block = buf[y].block /\ buf'[y].valid = buf[y].valid
                      /\ buf'[y].refcnt = buf[y].refcnt /\ buf'[y].data = buf[y].data
                      /\ buf'[y].disk = IF y \in xs THEN FALSE ELSE buf[y].disk
    <3>1. buf' = [y \in Buf |-> buf'[y]]
      BY <1>2
    <3> QED BY <3>1
  <2>1. buf[y] \in Buffer
    BY <1>3 DEF TypesOK
  <2>2. CASE y \in xs
    BY <1>2, <2>1, <2>2 DEF Buffer
  <2>3. CASE y \notin xs
    BY <1>2, <2>1, <2>3
  <2> QED BY <2>2, <2>3
<1>5. /\ \A q \in Proc : asleep'[q] = IF asleep[q] \in {DoneOf(x) : x \in xs} THEN NULL ELSE asleep[q]
      /\ asleep' \in [Proc -> Channel \cup {NULL}]
  BY <1>2, <1>3 DEF Wakeup, TypesOK
<1>6. ToSet(used') = {} /\ used' \in Seq(Desc)
  BY <1>2 DEF ToSet
<1>7. TypesOK' /\ Listed'
  BY <1>2, <1>3, <1>4, <1>5, <1>6 DEF TypesOK, DiskInv, Listed
<1>8. Standing'
  <2> SUFFICES ASSUME NEW q \in Proc PROVE Stands(q)'
    BY DEF Standing
  <2>1. Stands(q) /\ NULL \notin Buf /\ b[q] \in Buf \cup {NULL}
    BY <1>3 DEF Standing, DiskAssumption, TypesOK
  <2>2. pc[q] # "idle" => b[q] \in Buf
    BY <2>1 DEF Stands
  <2>3. asleep'[q] # NULL => asleep'[q] = asleep[q] /\ (asleep[q] = DoneOf(b[q]) => b[q] \notin xs)
    BY <1>5
  <2>4. /\ pc'[q] = "idle" <=> b'[q] = NULL
        /\ b'[q] # NULL => buf'[b'[q]].block \in Block
        /\ pc'[q] = "hold" => buf'[b'[q]].valid
        /\ pc'[q] \in {"rw", "io"} => (write'[q] <=> buf'[b'[q]].valid)
    BY <1>2, <1>4, <2>1, <2>2 DEF Stands
  <2>5. asleep'[q] # NULL =>
          \/ pc'[q] = "lock" /\ asleep'[q] = LockOf(b'[q]) /\ locked'[b'[q]] # NULL
          \/ pc'[q] = "rw" /\ asleep'[q] = FreeDesc /\ Cardinality(free') < 3
          \/ pc'[q] = "io" /\ asleep'[q] = DoneOf(b'[q]) /\ buf'[b'[q]].disk
    BY <1>2, <1>4, <2>1, <2>2, <2>3 DEF Stands
  <2> QED BY <2>4, <2>5 DEF Stands
<1>9. Locks' /\ Unique' /\ Counts'
  <2>1. UNCHANGED <<locked, pinned, pc, b>>
    BY <1>2
  <2>2. \A y \in Buf : buf'[y].block = buf[y].block /\ buf'[y].refcnt = buf[y].refcnt
    BY <1>4
  <2>3. Locks'
    BY <1>3, <2>1 DEF Locks
  <2>4. Unique /\ Counts
    BY DEF DiskInv
  <2>5. Unique'
    BY <2>2, <2>4 DEF Unique
  <2>6. \A y : Users(y)' = Users(y)
    BY <2>1 DEF Users
  <2>7. Counts'
    BY <2>1, <2>2, <2>4, <2>6 DEF Counts
  <2> QED BY <2>3, <2>5, <2>7
<1>10. Chains'
  <2>1. UNCHANGED <<free, next, info>>
    BY <1>2
  <2> QED BY <1>3, <2>1 DEF Chains, Chain
<1>11. Requests'
  <2>1. \A q \in Proc : pc'[q] = "io" /\ buf'[b'[q]].disk => AtDisk(b[q])'
    <3> SUFFICES ASSUME NEW q \in Proc, pc'[q] = "io", buf'[b'[q]].disk PROVE AtDisk(b[q])'
      OBVIOUS
    <3>1. b[q] \in Buf /\ b[q] \notin xs /\ AtDisk(b[q])
      BY <1>2, <1>3, <1>4, HasBuffer DEF Requests
    <3>2. PICK h \in Desc : info[h] = b[q] /\ (h \in ToSet(used) \/ \E s \in avail : s.id = h)
      BY <3>1 DEF AtDisk
    <3> QED BY <1>1, <1>2, <3>1, <3>2 DEF AtDisk
  <2>2. \A s \in avail' : Asked(s)'
    <3> SUFFICES ASSUME NEW s \in avail PROVE Asked(s)'
      BY <1>2
    <3>1. Asked(s) /\ s.id \in Desc
      BY <1>3 DEF Requests, TypesOK, Request
    <3>2. info[s.id] \in Buf /\ info[s.id] \notin xs
      <4>1. info[s.id] \in Buf /\ info[s.id] # NULL /\ s.id \notin ToSet(used)
        BY <1>3, <3>1 DEF Asked, TypesOK
      <4>2. \A h \in ToSet(used) : info[h] = info[s.id] => h = s.id
        BY <1>3, <3>1, <4>1, UsedDesc DEF Requests
      <4> QED BY <1>1, <4>1, <4>2
    <3> QED BY <1>2, <1>4, <1>6, <3>1, <3>2 DEF Asked
  <2> QED BY <1>2, <1>3, <1>6, <2>1, <2>2 DEF Requests
<1>12. DataInv'
  <2>1. /\ DataInv /\ pinned \subseteq Buf /\ b \in [Proc -> Buf \cup {NULL}]
        /\ \A p \in Proc : pc[p] = "io" => b[p] \in Buf
    BY HasBuffer DEF DiskInv, DataInv, TypesOK
  <2> QED BY <1>2, <1>4, <2>1, DataKept
<1> QED BY <1>7, <1>8, <1>9, <1>10, <1>11, <1>12 DEF DiskInv, DataInv
-----------------------------------------------------------------------------
\* Where every process, buffer, descriptor and request of the disk driver stands.
THEOREM Invariance == ASSUME DiskAssumption PROVE DiskSpec => []DiskInv
<1>1. DiskInit => DiskInv
  BY InitInv
<1>2. DiskInv /\ [DiskNext]_diskVars => DiskInv'
  <2> SUFFICES ASSUME DiskInv, [DiskNext]_diskVars PROVE DiskInv'
    OBVIOUS
  <2>1. CASE UNCHANGED diskVars
    <3>1. UNCHANGED <<buf, lru, locked, pinned, pc, asleep, b, write, free, next, info, avail, used, disk, latest, panic>>
      BY <2>1 DEF diskVars, bufVars, procVars, driverVars, deviceVars
    <3>2. Standing' /\ Locks'
      BY <3>1 DEF DiskInv, Standing, Stands, Locks
    <3> QED BY <3>1, <3>2, MoveInv DEF driverVars, deviceVars, DiskInv, TypesOK
  <2>2. ASSUME NEW p \in Proc, NEW k \in Block, BgetCached(p, k) PROVE DiskInv'
    BY <2>2, BgetCachedInv
  <2>3. ASSUME NEW p \in Proc, NEW k \in Block, BgetRecycles(p, k) PROVE DiskInv'
    BY <2>3, BgetRecyclesInv
  <2>4. ASSUME NEW p \in Proc, Lock(p) PROVE DiskInv'
    BY <2>4, LockInv
  <2>5. ASSUME NEW p \in Proc, Change(p) PROVE DiskInv'
    BY <2>5, ChangeInv
  <2>6. ASSUME NEW p \in Proc, ChangeLog(p) PROVE DiskInv'
    BY <2>6, ChangeLogInv
  <2>7. ASSUME NEW p \in Proc, Bwrite(p) PROVE DiskInv'
    BY <2>7, BwriteInv
  <2>8. ASSUME NEW p \in Proc, Unlock(p) PROVE DiskInv'
    BY <2>8, UnlockInv
  <2>9. ASSUME NEW p \in Proc, Release(p) PROVE DiskInv'
    BY <2>9, ReleaseInv
  <2>10. ASSUME NEW p \in Proc, Submit(p) PROVE DiskInv'
    BY <2>10, SubmitWaits, SubmitGoes
  <2>11. ASSUME NEW p \in Proc, Done(p) PROVE DiskInv'
    BY <2>11, DoneWaits, DoneGoes
  <2>12. CASE Serve
    BY <2>12, ServeInv
  <2>13. CASE Interrupt
    BY <2>13, InterruptInv
  <2> QED BY <2>1, <2>2, <2>3, <2>4, <2>5, <2>6, <2>7, <2>8, <2>9, <2>10, <2>11, <2>12, <2>13 DEF DiskNext
<1> QED BY <1>1, <1>2, PTL DEF DiskSpec

\* Who has a buffer locked has what was last put into its block, however often the buffer went
\* to other blocks, and no assertion of bio.c and virtio_disk.c fails.
THEOREM HoldersHaveLatest == ASSUME DiskAssumption PROVE DiskSpec => []HeldIsLatest
<1>1. DiskInv => HeldIsLatest
  <2> SUFFICES ASSUME DiskInv PROVE HeldIsLatest
    OBVIOUS
  <2>1. ~panic
    BY DEF DiskInv, TypesOK
  <2>2. ASSUME NEW p \in Proc, pc[p] = "hold" PROVE buf[b[p]].data = latest[buf[b[p]].block]
    BY <2>2, HasBuffer DEF DiskInv, ValidLatest, Standing, Stands
  <2> QED BY <2>1, <2>2 DEF HeldIsLatest
<1> QED BY <1>1, Invariance, PTL

\* Nobody sleeps past what he waits for: the lock is another's, fewer than three descriptors are
\* free, the disk has the request or its interrupt is to come.
THEOREM NobodySleepsOn == ASSUME DiskAssumption PROVE DiskSpec => []SleepersAreWoken
<1>1. DiskInv => SleepersAreWoken
  <2> SUFFICES ASSUME DiskInv, NEW p \in Proc
               PROVE  /\ asleep[p] = FreeDesc => Cardinality(free) < 3
                      /\ b[p] # NULL /\ asleep[p] = LockOf(b[p]) => locked[b[p]] \notin {NULL, p}
                      /\ b[p] # NULL /\ asleep[p] = DoneOf(b[p]) => AtDisk(b[p])
    BY DEF SleepersAreWoken, AtDisk
  <2>1. TypesOK /\ Stands(p) /\ Locks /\ Requests /\ b[p] \in Buf \cup {NULL}
    BY DEF DiskInv, Standing, TypesOK
  <2>2. ASSUME asleep[p] = FreeDesc PROVE Cardinality(free) < 3
    BY <2>1, <2>2, ChannelsApart DEF Stands, DiskAssumption
  <2>3. ASSUME b[p] # NULL, asleep[p] = LockOf(b[p]) PROVE locked[b[p]] \notin {NULL, p}
    BY <2>1, <2>3, ChannelsApart DEF Stands, DiskAssumption, Locks, Working
  <2>4. ASSUME b[p] # NULL, asleep[p] = DoneOf(b[p]) PROVE AtDisk(b[p])
    BY <2>1, <2>4, ChannelsApart DEF Stands, DiskAssumption, Requests
  <2> QED BY <2>2, <2>3, <2>4
<1> QED BY <1>1, Invariance, PTL
-----------------------------------------------------------------------------
\* The memory.
CONSTANTS initproc, Pages, PGSIZE, PTES, Program, MaxSz, MaxPipes
VARIABLES pagefree, space, alive, pipes, mempanic

Mem == INSTANCE Memory WITH free <- pagefree, panic <- mempanic

Top == {Mem!TRAPFRAME, Mem!TRAMPOLINE}

\* A page table: the nodes of its tree, and what it maps.
TableSet == UNION {[D -> Mem!Page] : D \in SUBSET Seq(Nat)}
LeafSet  == UNION {[D -> 0..Pages] : D \in SUBSET Nat}

MemSpace == [trapframe : Mem!Page \cup {NULL}, table : TableSet, leaf : LeafSet, sz : Nat]

MemState == [free : [Mem!Page -> Nat], s : MemSpace, ok : BOOLEAN, got : Mem!Page \cup {NULL},
             panic : BOOLEAN]

Tables(s) == {s.table[n] : n \in DOMAIN s.table}
User(s)   == DOMAIN s.leaf \ Top
Leaves(s) == {s.leaf[va] : va \in User(s)}
Frame(s)  == {s.trapframe} \ {NULL}

\* The pages that an address space has.
Own(s) == Tables(s) \cup Leaves(s) \cup Frame(s)

\* No page has two places in it, and every mapping has its nodes.
Good(s) ==
    /\ \A n, k \in DOMAIN s.table : s.table[n] = s.table[k] => n = k
    /\ \A v, u \in User(s) : s.leaf[v] = s.leaf[u] => v = u
    /\ \A v \in User(s) : s.leaf[v] \in Mem!Page
    /\ Tables(s) \cap Leaves(s) = {} /\ Frame(s) \cap (Tables(s) \cup Leaves(s)) = {}
    /\ \A va \in DOMAIN s.leaf : Mem!Path(va)[1] \in DOMAIN s.table /\ Mem!Path(va)[2] \in DOMAIN s.table

\* A page is free, once, if it is neither one of the address space nor of E, the others'.
Whole(m, E) ==
    /\ ~m.panic /\ Good(m.s) /\ E \subseteq Mem!Page /\ E \cap Own(m.s) = {}
    /\ \A x \in Mem!Page : m.free[x] = IF x \in E \cup Own(m.s) THEN 0 ELSE 1

LEMMA MemConstants ==
    ASSUME Mem!MemoryAssumption
    PROVE  /\ Mem!TRAPFRAME \in Nat /\ Mem!TRAMPOLINE = Mem!TRAPFRAME + 1 /\ Pages <= Mem!TRAPFRAME
           /\ Pages \in Nat /\ Mem!Page = 1..Pages /\ NULL \notin Nat /\ PGSIZE \in Nat \ {0}
           /\ Mem!trampoline = 0
<1>1. PTES \in Nat /\ PTES >= 2
  BY DEF Mem!MemoryAssumption
<1>2. \A a, d \in Nat : d >= 2 => a * d \in Nat /\ a * d >= a
  OBVIOUS
<1>3. PTES * PTES \in Nat /\ PTES * PTES >= 2
  BY <1>1, <1>2
<1>4. PICK x \in Nat : x = PTES * PTES /\ x >= 2
  BY <1>3
<1>5. x * PTES \in Nat /\ x * PTES >= x
  BY <1>1, <1>2, <1>4
<1>6. PTES * PTES * PTES \in Nat /\ PTES * PTES * PTES >= 2
  BY <1>4, <1>5
<1> QED BY <1>6 DEF Mem!MemoryAssumption, Mem!TRAPFRAME, Mem!TRAMPOLINE, Mem!MAXVA, Mem!Page, Mem!trampoline

LEMMA TableIs ==
    ASSUME NEW t
    PROVE  t \in TableSet <=> DOMAIN t \subseteq Seq(Nat) /\ t \in [DOMAIN t -> Mem!Page]
<1>1. ASSUME t \in TableSet PROVE DOMAIN t \subseteq Seq(Nat) /\ t \in [DOMAIN t -> Mem!Page]
  <2>1. PICK D \in SUBSET Seq(Nat) : t \in [D -> Mem!Page]
    BY <1>1 DEF TableSet
  <2> QED BY <2>1
<1>2. ASSUME DOMAIN t \subseteq Seq(Nat), t \in [DOMAIN t -> Mem!Page] PROVE t \in TableSet
  BY <1>2 DEF TableSet
<1> QED BY <1>1, <1>2

LEMMA LeafIs ==
    ASSUME NEW l
    PROVE  l \in LeafSet <=> DOMAIN l \subseteq Nat /\ l \in [DOMAIN l -> 0..Pages]
<1>1. ASSUME l \in LeafSet PROVE DOMAIN l \subseteq Nat /\ l \in [DOMAIN l -> 0..Pages]
  <2>1. PICK D \in SUBSET Nat : l \in [D -> 0..Pages]
    BY <1>1 DEF LeafSet
  <2> QED BY <2>1
<1>2. ASSUME DOMAIN l \subseteq Nat, l \in [DOMAIN l -> 0..Pages] PROVE l \in LeafSet
  BY <1>2 DEF LeafSet
<1> QED BY <1>1, <1>2

LEMMA Divided ==
    ASSUME NEW B \in Nat \ {0}, NEW o \in Nat
    PROVE  /\ o \div B \in Nat /\ (o \div B) * B <= o /\ o < (o \div B) * B + B
           /\ o % B = o - (o \div B) * B
OBVIOUS

LEMMA LeastOfPages ==
    ASSUME NEW S \in SUBSET Nat, S # {}
    PROVE  \E p \in S : \A q \in S : p <= q
<1>1. PICK p \in S : \A q \in S : ~(<<q, p>> \in OpToRel(<, Nat))
  BY NatLessThanWellFounded, WFMin
<1>2. \A q \in S : q \in Nat /\ p \in Nat /\ ~(q < p)
  BY <1>1, Zenon DEF OpToRel
<1>3. \A q \in S : p <= q
  BY <1>2
<1> QED BY <1>3

LEMMA KallocGives ==
    ASSUME Mem!MemoryAssumption, NEW m \in MemState, NEW E, Whole(m, E), m.ok
    PROVE  LET r == Mem!kalloc(m)
           IN  \/ r = [m EXCEPT !.ok = FALSE]
               \/ /\ r \in MemState /\ r.s = m.s /\ r.ok /\ r.got \in Mem!Page
                  /\ r.got \notin E \cup Own(m.s) /\ Whole(r, E \cup {r.got})
<1>1. CASE Mem!FreePages(m) = {}
  BY <1>1 DEF Mem!kalloc, Mem!Failed
<1>2. CASE Mem!FreePages(m) # {}
  <2> DEFINE x == Mem!Lowest(Mem!FreePages(m))
             r == Mem!kalloc(m)
  <2>1. x \in Mem!FreePages(m)
    <3>1. Mem!FreePages(m) \subseteq Nat
      BY MemConstants DEF Mem!FreePages
    <3>2. \E p \in Mem!FreePages(m) : \A q \in Mem!FreePages(m) : p <= q
      BY <1>2, <3>1, LeastOfPages
    <3> QED BY <3>2 DEF Mem!Lowest
  <2>2. r = [m EXCEPT !.got = x, !.free[x] = @ - 1]
    BY <1>2 DEF Mem!kalloc
  <2> HIDE DEF x, r
  <2>3. x \in Mem!Page /\ m.free[x] > 0 /\ m.free \in [Mem!Page -> Nat]
    BY <2>1 DEF Mem!FreePages, MemState
  <2>4. x \notin E \cup Own(m.s) /\ m.free[x] = 1
    BY <2>3 DEF Whole
  <2>5. PICK f : f = [m.free EXCEPT ![x] = 0]
    OBVIOUS
  <2>6. r = [m EXCEPT !.got = x, !.free = f]
    BY <2>2, <2>3, <2>4, <2>5 DEF MemState
  <2>7. f \in [Mem!Page -> Nat] /\ f[x] = 0 /\ \A y \in Mem!Page : y # x => f[y] = m.free[y]
    BY <2>3, <2>5
  <2>8. /\ r \in MemState /\ r.s = m.s /\ r.ok = m.ok /\ r.got = x /\ r.free = f /\ r.panic = m.panic
    BY <2>3, <2>6, <2>7 DEF MemState
  <2>9. Whole(r, E \cup {x})
    BY <2>3, <2>4, <2>7, <2>8 DEF Whole
  <2> QED BY <2>3, <2>4, <2>8, <2>9 DEF r
<1> QED BY <1>1, <1>2

\* A node of the tree, with a new page for it if there is none.
LEMMA AddTableGives ==
    ASSUME Mem!MemoryAssumption, NEW m \in MemState, NEW E, Whole(m, E), NEW node \in Seq(Nat)
    PROVE  LET r == Mem!AddTable(m, node)
           IN  /\ r \in MemState /\ Whole(r, E) /\ r.s.leaf = m.s.leaf /\ r.s.sz = m.s.sz
               /\ r.s.trapframe = m.s.trapframe /\ DOMAIN m.s.table \subseteq DOMAIN r.s.table
               /\ DOMAIN r.s.table \subseteq DOMAIN m.s.table \cup {node}
               /\ r.ok => m.ok /\ node \in DOMAIN r.s.table
               /\ ~r.ok => r.s = m.s
<1> DEFINE r == Mem!AddTable(m, node)
<1>1. CASE ~m.ok \/ node \in DOMAIN m.s.table
  BY <1>1 DEF Mem!AddTable
<1>2. CASE m.ok /\ node \notin DOMAIN m.s.table
  <2> DEFINE n == Mem!kalloc(m)
  <2>1. r = IF n.ok THEN [n EXCEPT !.s.table = Mem!Entry(@, node, n.got)] ELSE n
    BY <1>2 DEF Mem!AddTable
  <2>2. \/ n = [m EXCEPT !.ok = FALSE]
        \/ /\ n \in MemState /\ n.s = m.s /\ n.ok /\ n.got \in Mem!Page
           /\ n.got \notin E \cup Own(m.s) /\ Whole(n, E \cup {n.got})
    BY <1>2, KallocGives
  <2> HIDE DEF n, r
  <2>3. CASE n = [m EXCEPT !.ok = FALSE]
    <3>1. r = n /\ r \in MemState /\ ~r.ok /\ r.s = m.s /\ r.free = m.free /\ r.panic = m.panic
      BY <2>1, <2>3 DEF MemState
    <3>2. Whole(r, E)
      BY <3>1 DEF Whole
    <3> QED BY <3>1, <3>2 DEF r
  <2>4. CASE /\ n \in MemState /\ n.s = m.s /\ n.ok /\ n.got \in Mem!Page
             /\ n.got \notin E \cup Own(m.s) /\ Whole(n, E \cup {n.got})
    <3>1. PICK x \in Mem!Page : x = n.got
      BY <2>4
    <3>2. PICK t : t = Mem!Entry(m.s.table, node, x)
      OBVIOUS
    <3>3. r = [n EXCEPT !.s.table = t]
      BY <2>1, <2>4, <3>1, <3>2
    <3>4. /\ m.s.table \in [DOMAIN m.s.table -> Mem!Page] /\ DOMAIN m.s.table \subseteq Seq(Nat)
      BY TableIs DEF MemState, MemSpace
    <3>5. /\ DOMAIN t = DOMAIN m.s.table \cup {node} /\ t[node] = x
          /\ \A z \in DOMAIN m.s.table \ {node} : t[z] = m.s.table[z]
          /\ t \in [DOMAIN t -> Mem!Page]
      <4>1. /\ DOMAIN t = DOMAIN m.s.table \cup {node} /\ t[node] = x
            /\ \A z \in DOMAIN m.s.table \ {node} : t[z] = m.s.table[z]
        BY <3>2 DEF Mem!Entry
      <4>2. t = [z \in DOMAIN t |-> t[z]]
        BY <3>2 DEF Mem!Entry
      <4>3. \A z \in DOMAIN t : t[z] \in Mem!Page
        BY <3>1, <3>4, <4>1
      <4> QED BY <4>1, <4>2, <4>3
    <3>6. t \in TableSet
      BY <3>4, <3>5, TableIs
    <3>7. /\ r \in MemState /\ r.s.table = t /\ r.s.leaf = m.s.leaf /\ r.s.sz = m.s.sz
          /\ r.s.trapframe = m.s.trapframe /\ r.ok /\ r.panic = n.panic /\ r.free = n.free
      BY <2>4, <3>3, <3>6 DEF MemState, MemSpace
    <3>8. /\ Tables(r.s) = Tables(m.s) \cup {x} /\ User(r.s) = User(m.s)
          /\ Leaves(r.s) = Leaves(m.s) /\ Frame(r.s) = Frame(m.s)
      <4>1. Tables(r.s) = Tables(m.s) \cup {x}
        <5>1. Tables(r.s) = {t[z] : z \in DOMAIN m.s.table \cup {node}}
          BY <3>5, <3>7 DEF Tables
        <5>2. \A z \in DOMAIN m.s.table : t[z] = m.s.table[z]
          BY <1>2, <3>5
        <5>3. Tables(m.s) = {t[z] : z \in DOMAIN m.s.table}
          BY <5>2 DEF Tables
        <5> QED BY <3>5, <5>1, <5>3
      <4> QED BY <3>7, <4>1 DEF User, Leaves, Frame
    <3>9. x \notin Own(m.s) /\ x \notin E
      BY <2>4, <3>1
    <3>10. Good(r.s)
      <4>1. Good(m.s)
        BY DEF Whole
      <4>2. \A a, d \in DOMAIN t : t[a] = t[d] => a = d
        <5>1. \A a \in DOMAIN m.s.table : t[a] = m.s.table[a] /\ t[a] # x
          BY <1>2, <3>5, <3>9 DEF Own, Tables
        <5>2. \A a, d \in DOMAIN m.s.table : t[a] = t[d] => a = d
          BY <4>1, <5>1 DEF Good
        <5> QED BY <3>5, <5>1, <5>2
      <4>3. \A v, u \in User(r.s) : r.s.leaf[v] = r.s.leaf[u] => v = u
        BY <3>7, <3>8, <4>1 DEF Good
      <4>4. \A v \in User(r.s) : r.s.leaf[v] \in Mem!Page
        BY <3>7, <3>8, <4>1 DEF Good
      <4>5. Tables(r.s) \cap Leaves(r.s) = {} /\ Frame(r.s) \cap (Tables(r.s) \cup Leaves(r.s)) = {}
        BY <3>8, <3>9, <4>1 DEF Good, Own
      <4>6. \A va \in DOMAIN r.s.leaf :
               Mem!Path(va)[1] \in DOMAIN r.s.table /\ Mem!Path(va)[2] \in DOMAIN r.s.table
        BY <3>5, <3>7, <4>1 DEF Good
      <4> QED BY <3>7, <4>2, <4>3, <4>4, <4>5, <4>6 DEF Good
    <3>11. Own(r.s) = Own(m.s) \cup {x}
      BY <3>8 DEF Own
    <3>12. Whole(r, E)
      <4>1. /\ ~n.panic /\ E \subseteq Mem!Page /\ E \cap Own(m.s) = {}
            /\ \A y \in Mem!Page : n.free[y] = IF y \in (E \cup {x}) \cup Own(m.s) THEN 0 ELSE 1
        BY <2>4, <3>1 DEF Whole
      <4> QED BY <3>7, <3>9, <3>10, <3>11, <4>1 DEF Whole
    <3> QED BY <1>2, <3>5, <3>7, <3>12 DEF r
  <2> QED BY <2>2, <2>3, <2>4
<1> QED BY <1>1, <1>2

LEMMA PathIs ==
    ASSUME Mem!MemoryAssumption, NEW va \in Nat
    PROVE  Mem!Path(va)[1] \in Seq(Nat) /\ Mem!Path(va)[2] \in Seq(Nat)
<1>1. PTES \in Nat \ {0} /\ PTES * PTES \in Nat \ {0}
  <2>1. PTES \in Nat /\ PTES >= 1
    BY DEF Mem!MemoryAssumption
  <2>2. \A a, d \in Nat : a >= 1 /\ d >= 1 => a * d \in Nat /\ a * d >= 1
    OBVIOUS
  <2> QED BY <2>1, <2>2
<1>2. \A a \in Nat, d \in Nat \ {0} : a \div d \in Nat /\ a % d \in Nat
  OBVIOUS
<1>3. va \div (PTES * PTES) \in Nat /\ va \div PTES \in Nat
  BY <1>1, <1>2
<1>4. (va \div PTES) % PTES \in Nat
  BY <1>1, <1>2, <1>3
<1>5. PICK a \in Nat, d \in Nat : a = va \div (PTES * PTES) /\ d = (va \div PTES) % PTES
  BY <1>3, <1>4
<1>6. Mem!Path(va) = <<<<a>>, <<a, d>>>>
  BY <1>5 DEF Mem!Path
<1> QED BY <1>6

LEMMA WalkGives ==
    ASSUME Mem!MemoryAssumption, NEW m \in MemState, NEW E, Whole(m, E), NEW va \in Nat
    PROVE  LET r == Mem!walk(m, va)
           IN  /\ r \in MemState /\ Whole(r, E) /\ r.s.leaf = m.s.leaf /\ r.s.sz = m.s.sz
               /\ r.s.trapframe = m.s.trapframe
               /\ r.ok => m.ok /\ Mem!Path(va)[1] \in DOMAIN r.s.table /\ Mem!Path(va)[2] \in DOMAIN r.s.table
<1> DEFINE q == Mem!AddTable(m, Mem!Path(va)[1])
           r == Mem!AddTable(q, Mem!Path(va)[2])
<1>0. PICK a \in Seq(Nat), d \in Seq(Nat) : a = Mem!Path(va)[1] /\ d = Mem!Path(va)[2]
  BY PathIs
<1>1. /\ q \in MemState /\ Whole(q, E) /\ q.s.leaf = m.s.leaf /\ q.s.sz = m.s.sz
      /\ q.s.trapframe = m.s.trapframe
      /\ q.ok => m.ok /\ a \in DOMAIN q.s.table
  BY <1>0, AddTableGives
<1> HIDE DEF q
<1>2. /\ r \in MemState /\ Whole(r, E) /\ r.s.leaf = q.s.leaf /\ r.s.sz = q.s.sz
      /\ r.s.trapframe = q.s.trapframe /\ DOMAIN q.s.table \subseteq DOMAIN r.s.table
      /\ r.ok => q.ok /\ d \in DOMAIN r.s.table
  BY <1>0, <1>1, AddTableGives
<1> HIDE DEF r
<1>3. Mem!walk(m, va) = r
  BY DEF Mem!walk, q, r
<1> QED BY <1>0, <1>1, <1>2, <1>3

\* The page pa in hand has become the user's at va, or is still in hand.
UserMapped(m, r, E, va, pa) ==
    /\ r \in MemState /\ r.s.sz = m.s.sz /\ r.s.trapframe = m.s.trapframe
    /\ r.ok => m.ok /\ Whole(r, E) /\ DOMAIN r.s.leaf = DOMAIN m.s.leaf \cup {va}
    /\ ~r.ok => Whole(r, E \cup {pa}) /\ DOMAIN r.s.leaf = DOMAIN m.s.leaf

LEMMA MapUser ==
    ASSUME Mem!MemoryAssumption, NEW m \in MemState, NEW E, NEW pa \in Mem!Page, pa \notin E,
           Whole(m, E \cup {pa}), NEW va \in Nat, va \notin DOMAIN m.s.leaf, va \notin Top
    PROVE  UserMapped(m, Mem!mappages(m, va, pa), E, va, pa)
<1> DEFINE w == Mem!walk(m, va)
           r == Mem!mappages(m, va, pa)
<1>1. /\ w \in MemState /\ Whole(w, E \cup {pa}) /\ w.s.leaf = m.s.leaf /\ w.s.sz = m.s.sz
      /\ w.s.trapframe = m.s.trapframe
      /\ w.ok => m.ok /\ Mem!Path(va)[1] \in DOMAIN w.s.table /\ Mem!Path(va)[2] \in DOMAIN w.s.table
  BY WalkGives
<1>2. r = IF ~w.ok THEN w
          ELSE IF va \in DOMAIN w.s.leaf THEN Mem!Panic(w)
          ELSE [w EXCEPT !.s.leaf = Mem!Entry(@, va, pa)]
  BY DEF Mem!mappages
<1> HIDE DEF w, r
<1>3. CASE ~w.ok
  <2>1. r = w
    BY <1>2, <1>3
  <2> QED BY <1>1, <1>3, <2>1 DEF r, UserMapped
<1>4. CASE w.ok
  <2>1. PICK l : l = Mem!Entry(m.s.leaf, va, pa)
    OBVIOUS
  <2>2. r = [w EXCEPT !.s.leaf = l]
    BY <1>1, <1>2, <1>4, <2>1
  <2>3. m.s.leaf \in [DOMAIN m.s.leaf -> 0..Pages] /\ DOMAIN m.s.leaf \subseteq Nat
    BY LeafIs DEF MemState, MemSpace
  <2>4. pa \in 0..Pages
    BY MemConstants
  <2>5. /\ DOMAIN l = DOMAIN m.s.leaf \cup {va} /\ l[va] = pa
        /\ \A z \in DOMAIN m.s.leaf : l[z] = m.s.leaf[z]
    BY <2>1 DEF Mem!Entry
  <2>6. l \in LeafSet
    <3>1. l = [z \in DOMAIN l |-> l[z]]
      BY <2>1 DEF Mem!Entry
    <3>2. \A z \in DOMAIN l : l[z] \in 0..Pages
      BY <2>3, <2>4, <2>5
    <3> QED BY <2>3, <2>5, <3>1, <3>2, LeafIs
  <2>7. /\ r \in MemState /\ r.s.leaf = l /\ r.s.table = w.s.table /\ r.s.sz = m.s.sz
        /\ r.s.trapframe = m.s.trapframe /\ r.ok /\ r.panic = w.panic /\ r.free = w.free
    BY <1>1, <1>4, <2>2, <2>6 DEF MemState, MemSpace
  <2>8. User(r.s) = User(w.s) \cup {va} /\ va \notin User(w.s)
    BY <1>1, <2>5, <2>7 DEF User
  <2>9. \A v \in User(w.s) : r.s.leaf[v] = w.s.leaf[v]
    BY <1>1, <2>5, <2>7 DEF User
  <2>10. r.s.leaf[va] = pa
    BY <2>5, <2>7
  <2>11. /\ Tables(r.s) = Tables(w.s) /\ Leaves(r.s) = Leaves(w.s) \cup {pa}
         /\ Frame(r.s) = Frame(w.s)
    <3>1. Leaves(r.s) = {r.s.leaf[v] : v \in User(w.s) \cup {va}}
      BY <2>8 DEF Leaves
    <3>2. Leaves(w.s) = {r.s.leaf[v] : v \in User(w.s)}
      BY <2>9 DEF Leaves
    <3>3. Leaves(r.s) = Leaves(w.s) \cup {pa}
      BY <2>10, <3>1, <3>2
    <3> QED BY <1>1, <2>7, <3>3 DEF Tables, Frame
  <2>12. Own(r.s) = Own(w.s) \cup {pa} /\ pa \notin Own(w.s)
    BY <1>1, <2>11 DEF Own, Whole
  <2>13. Good(r.s)
    <3>1. Good(w.s)
      BY <1>1 DEF Whole
    <3>2. \A v, u \in User(r.s) : r.s.leaf[v] = r.s.leaf[u] => v = u
      <4>1. \A v \in User(w.s) : r.s.leaf[v] # pa
        BY <2>9, <2>12 DEF Own, Leaves
      <4>2. \A v, u \in User(w.s) : r.s.leaf[v] = r.s.leaf[u] => v = u
        BY <2>9, <3>1 DEF Good
      <4> QED BY <2>8, <2>10, <4>1, <4>2
    <3>3. \A v \in User(r.s) : r.s.leaf[v] \in Mem!Page
      BY <2>8, <2>9, <2>10, <3>1 DEF Good
    <3>4. Tables(r.s) \cap Leaves(r.s) = {} /\ Frame(r.s) \cap (Tables(r.s) \cup Leaves(r.s)) = {}
      BY <2>11, <2>12, <3>1 DEF Good, Own
    <3>5. \A v \in DOMAIN r.s.leaf :
             Mem!Path(v)[1] \in DOMAIN r.s.table /\ Mem!Path(v)[2] \in DOMAIN r.s.table
      BY <1>1, <1>4, <2>5, <2>7, <3>1 DEF Good
    <3>6. \A n, k \in DOMAIN r.s.table : r.s.table[n] = r.s.table[k] => n = k
      BY <2>7, <3>1 DEF Good
    <3> QED BY <3>2, <3>3, <3>4, <3>5, <3>6 DEF Good
  <2>14. Whole(r, E)
    BY <1>1, <2>7, <2>12, <2>13 DEF Whole
  <2> QED BY <1>1, <1>4, <2>5, <2>7, <2>14 DEF r, UserMapped
<1> QED BY <1>3, <1>4

\* The two pages at the top, which the kernel has.
LEMMA MapTop ==
    ASSUME Mem!MemoryAssumption, NEW m \in MemState, NEW E, Whole(m, E), NEW va \in Top,
           va \notin DOMAIN m.s.leaf, NEW pa \in 0..Pages
    PROVE  LET r == Mem!mappages(m, va, pa)
           IN  /\ r \in MemState /\ r.s.sz = m.s.sz /\ r.s.trapframe = m.s.trapframe /\ Whole(r, E)
               /\ r.ok => m.ok /\ DOMAIN r.s.leaf = DOMAIN m.s.leaf \cup {va}
               /\ ~r.ok => DOMAIN r.s.leaf = DOMAIN m.s.leaf
<1> DEFINE w == Mem!walk(m, va)
           r == Mem!mappages(m, va, pa)
<1>0. va \in Nat
  BY MemConstants DEF Top
<1>1. /\ w \in MemState /\ Whole(w, E) /\ w.s.leaf = m.s.leaf /\ w.s.sz = m.s.sz
      /\ w.s.trapframe = m.s.trapframe
      /\ w.ok => m.ok /\ Mem!Path(va)[1] \in DOMAIN w.s.table /\ Mem!Path(va)[2] \in DOMAIN w.s.table
  BY <1>0, WalkGives
<1>2. r = IF ~w.ok THEN w
          ELSE IF va \in DOMAIN w.s.leaf THEN Mem!Panic(w)
          ELSE [w EXCEPT !.s.leaf = Mem!Entry(@, va, pa)]
  BY DEF Mem!mappages
<1> HIDE DEF w, r
<1>3. CASE ~w.ok
  <2>1. r = w
    BY <1>2, <1>3
  <2> QED BY <1>1, <1>3, <2>1 DEF r
<1>4. CASE w.ok
  <2>1. PICK l : l = Mem!Entry(m.s.leaf, va, pa)
    OBVIOUS
  <2>2. r = [w EXCEPT !.s.leaf = l]
    BY <1>1, <1>2, <1>4, <2>1
  <2>3. m.s.leaf \in [DOMAIN m.s.leaf -> 0..Pages] /\ DOMAIN m.s.leaf \subseteq Nat
    BY LeafIs DEF MemState, MemSpace
  <2>5. /\ DOMAIN l = DOMAIN m.s.leaf \cup {va} /\ l[va] = pa
        /\ \A z \in DOMAIN m.s.leaf : l[z] = m.s.leaf[z]
    BY <2>1 DEF Mem!Entry
  <2>6. l \in LeafSet
    <3>1. l = [z \in DOMAIN l |-> l[z]]
      BY <2>1 DEF Mem!Entry
    <3>2. \A z \in DOMAIN l : l[z] \in 0..Pages
      BY <2>3, <2>5
    <3> QED BY <1>0, <2>3, <2>5, <3>1, <3>2, LeafIs
  <2>7. /\ r \in MemState /\ r.s.leaf = l /\ r.s.table = w.s.table /\ r.s.sz = m.s.sz
        /\ r.s.trapframe = m.s.trapframe /\ r.ok /\ r.panic = w.panic /\ r.free = w.free
    BY <1>1, <1>4, <2>2, <2>6 DEF MemState, MemSpace
  <2>8. User(r.s) = User(w.s) /\ \A v \in User(w.s) : r.s.leaf[v] = w.s.leaf[v]
    BY <1>1, <2>5, <2>7 DEF User
  <2>11. /\ Tables(r.s) = Tables(w.s) /\ Leaves(r.s) = Leaves(w.s) /\ Frame(r.s) = Frame(w.s)
    <3>1. Leaves(r.s) = Leaves(w.s)
      BY <2>8 DEF Leaves
    <3> QED BY <1>1, <2>7, <3>1 DEF Tables, Frame
  <2>12. Own(r.s) = Own(w.s)
    BY <2>11 DEF Own
  <2>13. Good(r.s)
    <3>1. Good(w.s)
      BY <1>1 DEF Whole
    <3>2. \A v, u \in User(r.s) : r.s.leaf[v] = r.s.leaf[u] => v = u
      BY <2>8, <3>1 DEF Good
    <3>3. \A v \in User(r.s) : r.s.leaf[v] \in Mem!Page
      BY <2>8, <3>1 DEF Good
    <3>4. Tables(r.s) \cap Leaves(r.s) = {} /\ Frame(r.s) \cap (Tables(r.s) \cup Leaves(r.s)) = {}
      BY <2>11, <3>1 DEF Good
    <3>5. \A v \in DOMAIN r.s.leaf :
             Mem!Path(v)[1] \in DOMAIN r.s.table /\ Mem!Path(v)[2] \in DOMAIN r.s.table
      BY <1>1, <1>4, <2>5, <2>7, <3>1 DEF Good
    <3>6. \A n, k \in DOMAIN r.s.table : r.s.table[n] = r.s.table[k] => n = k
      BY <2>7, <3>1 DEF Good
    <3> QED BY <3>2, <3>3, <3>4, <3>5, <3>6 DEF Good
  <2>14. Whole(r, E)
    BY <1>1, <2>7, <2>12, <2>13 DEF Whole
  <2> QED BY <1>1, <1>4, <2>5, <2>7, <2>14 DEF r
<1> QED BY <1>3, <1>4

-----------------------------------------------------------------------------
\* An address space with k pages of the user's, from 0 on.
Ready(s, k) == k \in Nat /\ k <= Mem!TRAPFRAME /\ DOMAIN s.leaf = (0..k - 1) \cup Top

\* What a call leaves as it is.
SameHead(m, r) == r.s.sz = m.s.sz /\ r.s.trapframe = m.s.trapframe

LEMMA UserIs ==
    ASSUME Mem!MemoryAssumption, NEW s, NEW k, Ready(s, k)
    PROVE  User(s) = 0..k - 1 /\ \A v \in 0..k - 1 : v \in Nat /\ v \notin Top
BY MemConstants DEF Ready, User, Top

\* As long as there is a page that the user has not, the next address is not at the top.
LEMMA Room ==
    ASSUME Mem!MemoryAssumption, NEW m \in MemState, NEW E, Whole(m, E), NEW k, Ready(m.s, k),
           NEW x \in Mem!Page, x \notin Own(m.s)
    PROVE  k < Mem!TRAPFRAME
<1>1. SUFFICES ASSUME ~(k < Mem!TRAPFRAME) PROVE FALSE
  OBVIOUS
<1>2. k \in Nat /\ Pages \in Nat /\ Pages <= k /\ Mem!Page = 1..Pages
  BY <1>1, MemConstants DEF Ready
<1> DEFINE S == 0..k - 1
           T == Mem!Page \ {x}
           f == [v \in S |-> m.s.leaf[v]]
<1>3. IsFiniteSet(S) /\ Cardinality(S) = k
  <2>1. 0 \in Int /\ k - 1 \in Int
    BY <1>2
  <2>2. IsFiniteSet(0..k - 1) /\ Cardinality(0..k - 1) = IF 0 > k - 1 THEN 0 ELSE (k - 1) - 0 + 1
    BY <2>1, FS_Interval
  <2> QED BY <1>2, <2>2
<1>4. IsFiniteSet(T) /\ Cardinality(T) = Pages - 1
  <2>1. IsFiniteSet(1..Pages) /\ Cardinality(1..Pages) = IF 1 > Pages THEN 0 ELSE Pages - 1 + 1
    BY <1>2, FS_Interval
  <2>2. x \in 1..Pages
    BY <1>2
  <2>3. /\ IsFiniteSet((1..Pages) \ {x})
        /\ Cardinality((1..Pages) \ {x}) = Cardinality(1..Pages) - 1
    BY <2>1, <2>2, FS_RemoveElement
  <2> QED BY <1>2, <2>1, <2>2, <2>3
<1>5. User(m.s) = S
  BY UserIs
<1>6. Good(m.s)
  BY DEF Whole
<1>7. f \in [S -> T]
  <2>1. \A v \in S : m.s.leaf[v] \in Mem!Page /\ m.s.leaf[v] # x
    BY <1>5, <1>6 DEF Good, Own, Leaves
  <2> QED BY <2>1
<1>8. \A u, v \in S : f[u] = f[v] => u = v
  BY <1>5, <1>6 DEF Good
<1>9. Cardinality(T) < Cardinality(S)
  BY <1>2, <1>3, <1>4
<1> HIDE DEF S, T, f
<1> QED BY <1>3, <1>4, <1>7, <1>8, <1>9, FS_PigeonHole

\* The page in hand goes back.
LEMMA KfreeGives ==
    ASSUME NEW w \in MemState, NEW E, NEW p \in Mem!Page, p \notin E, Whole(w, E \cup {p})
    PROVE  LET r == Mem!kfree(w, p)
           IN  /\ r \in MemState /\ r.s = w.s /\ r.ok = w.ok /\ Whole(r, E)
<1> DEFINE r == Mem!kfree(w, p)
<1>1. PICK f : f = [w.free EXCEPT ![p] = @ + 1]
  OBVIOUS
<1>2. w.free \in [Mem!Page -> Nat]
  BY DEF MemState
<1>3. f \in [Mem!Page -> Nat] /\ f[p] = w.free[p] + 1 /\ \A y \in Mem!Page : y # p => f[y] = w.free[y]
  BY <1>1, <1>2
<1>4. r = [w EXCEPT !.free = f]
  BY <1>1 DEF Mem!kfree
<1> HIDE DEF r
<1>5. r \in MemState /\ r.s = w.s /\ r.ok = w.ok /\ r.free = f /\ r.panic = w.panic
  BY <1>3, <1>4 DEF MemState
<1>6. Whole(r, E)
  <2>1. w.free[p] = 0 /\ p \notin Own(w.s)
    BY DEF Whole
  <2>2. f[p] = 1
    BY <1>3, <2>1
  <2> QED BY <1>3, <1>5, <2>1, <2>2 DEF Whole
<1> QED BY <1>5, <1>6 DEF r

LEMMA NewPageGives ==
    ASSUME Mem!MemoryAssumption, NEW m \in MemState, NEW E, Whole(m, E), m.ok, NEW k, Ready(m.s, k)
    PROVE  LET r == Mem!NewPage(m, k)
           IN  /\ r \in MemState /\ Whole(r, E) /\ SameHead(m, r)
               /\ Ready(r.s, IF r.ok THEN k + 1 ELSE k)
<1> DEFINE n == Mem!kalloc(m)
           w == Mem!mappages(n, k, n.got)
           r == Mem!NewPage(m, k)
<1>1. r = IF n.ok THEN (IF w.ok THEN w ELSE Mem!kfree(w, n.got)) ELSE n
  BY DEF Mem!NewPage
<1>2. \/ n = [m EXCEPT !.ok = FALSE]
      \/ /\ n \in MemState /\ n.s = m.s /\ n.ok /\ n.got \in Mem!Page
         /\ n.got \notin E \cup Own(m.s) /\ Whole(n, E \cup {n.got})
  BY KallocGives
<1> HIDE DEF n
<1>3. CASE n = [m EXCEPT !.ok = FALSE]
  <2> HIDE DEF w, r
  <2>1. n \in MemState /\ ~n.ok /\ n.s = m.s /\ n.free = m.free /\ n.panic = m.panic
    BY <1>3 DEF MemState
  <2>2. Whole(n, E)
    BY <2>1 DEF Whole
  <2> QED BY <1>1, <2>1, <2>2 DEF r, SameHead
<1>4. CASE /\ n \in MemState /\ n.s = m.s /\ n.ok /\ n.got \in Mem!Page
           /\ n.got \notin E \cup Own(m.s) /\ Whole(n, E \cup {n.got})
  <2>1. PICK p \in Mem!Page : p = n.got
    BY <1>4
  <2>2. k < Mem!TRAPFRAME
    BY <1>4, Room
  <2>3. k \in Nat /\ k \notin Top /\ k \notin DOMAIN n.s.leaf /\ k + 1 <= Mem!TRAPFRAME
    BY <1>4, <2>2, MemConstants DEF Ready, Top
  <2>4. p \notin E /\ Whole(n, E \cup {p})
    BY <1>4, <2>1
  <2>5. /\ w \in MemState /\ w.s.sz = n.s.sz /\ w.s.trapframe = n.s.trapframe
        /\ w.ok => n.ok /\ Whole(w, E) /\ DOMAIN w.s.leaf = DOMAIN n.s.leaf \cup {k}
        /\ ~w.ok => Whole(w, E \cup {p}) /\ DOMAIN w.s.leaf = DOMAIN n.s.leaf
    <3>1. w = Mem!mappages(n, k, p)
      BY <2>1
    <3>2. n \in MemState
      BY <1>4
    <3>3. UserMapped(n, Mem!mappages(n, k, p), E, k, p)
      BY <2>3, <2>4, <3>2, MapUser, Zenon
    <3> HIDE DEF w
    <3> QED BY <3>1, <3>3 DEF UserMapped
  <2> HIDE DEF w, r
  <2>6. CASE w.ok
    <3>1. r = w
      BY <1>1, <1>4, <2>6
    <3>2. (0..k - 1) \cup {k} = 0..(k + 1) - 1
      BY <2>3
    <3>3. Ready(w.s, k + 1)
      BY <1>4, <2>3, <2>5, <2>6, <3>2 DEF Ready
    <3> QED BY <1>4, <2>5, <2>6, <3>1, <3>3 DEF r, SameHead
  <2>7. CASE ~w.ok
    <3>1. r = Mem!kfree(w, p)
      BY <1>1, <1>4, <2>1, <2>7
    <3>2. r \in MemState /\ r.s = w.s /\ r.ok = w.ok /\ Whole(r, E)
      BY <2>4, <2>5, <2>7, <3>1, KfreeGives
    <3>3. Ready(r.s, k)
      BY <1>4, <2>5, <2>7, <3>2 DEF Ready
    <3> QED BY <1>4, <2>5, <2>7, <3>2, <3>3 DEF r, SameHead
  <2> QED BY <2>6, <2>7
<1> QED BY <1>2, <1>3, <1>4

\* Pages of the user's are taken away.
LEMMA UnmapUser ==
    ASSUME Mem!MemoryAssumption, NEW m \in MemState, NEW E, Whole(m, E), NEW vas, vas \subseteq User(m.s)
    PROVE  LET r == Mem!uvmunmap(m, vas, TRUE)
           IN  /\ r \in MemState /\ Whole(r, E) /\ SameHead(m, r) /\ r.ok = m.ok
               /\ DOMAIN r.s.leaf = DOMAIN m.s.leaf \ vas /\ r.s.table = m.s.table
<1> DEFINE pas == {m.s.leaf[va] : va \in vas}
           r == Mem!uvmunmap(m, vas, TRUE)
<1>1. vas \subseteq DOMAIN m.s.leaf /\ Good(m.s) /\ ~m.panic
  BY DEF User, Whole
<1>2. \A va \in vas : Mem!Reached(m, va)
  BY <1>1 DEF Good, Mem!Reached
<1>3. PICK l : l = [va \in DOMAIN m.s.leaf \ vas |-> m.s.leaf[va]]
  OBVIOUS
<1>4. PICK f : f = [p \in Mem!Page |-> m.free[p] + IF p \in pas THEN 1 ELSE 0]
  OBVIOUS
<1>5. r = [m EXCEPT !.s.leaf = l, !.panic = FALSE, !.free = f]
  <2>1. vas \cap DOMAIN m.s.leaf = vas
    BY <1>1
  <2>2. pas = {m.s.leaf[va] : va \in vas \cap DOMAIN m.s.leaf}
    BY <2>1
  <2>3. PICK n : n = [m EXCEPT !.s.leaf = l, !.panic = FALSE]
    OBVIOUS
  <2>4. n = [m EXCEPT !.s.leaf = [va \in DOMAIN @ \ vas |-> @[va]],
                      !.panic = @ \/ ~(vas \subseteq DOMAIN m.s.leaf)
                                  \/ \E va \in vas : ~Mem!Reached(m, va)]
    <3>1. (m.panic \/ ~(vas \subseteq DOMAIN m.s.leaf) \/ \E va \in vas : ~Mem!Reached(m, va)) = FALSE
      BY <1>1, <1>2
    <3> QED BY <1>3, <2>3, <3>1
  <2>5. r = Mem!kfreeAll(n, pas)
    BY <2>2, <2>4 DEF Mem!uvmunmap
  <2>6. n.free = m.free
    BY <2>3 DEF MemState
  <2> QED BY <1>4, <2>3, <2>5, <2>6 DEF Mem!kfreeAll, MemState
<1> HIDE DEF r
<1>6. m.s.leaf \in [DOMAIN m.s.leaf -> 0..Pages] /\ DOMAIN m.s.leaf \subseteq Nat
  BY LeafIs DEF MemState, MemSpace
<1>7. l \in LeafSet /\ DOMAIN l = DOMAIN m.s.leaf \ vas /\ \A v \in DOMAIN l : l[v] = m.s.leaf[v]
  BY <1>3, <1>6, LeafIs
<1>8. m.free \in [Mem!Page -> Nat]
  BY DEF MemState
<1>9. f \in [Mem!Page -> Nat] /\ \A p \in Mem!Page : f[p] = m.free[p] + IF p \in pas THEN 1 ELSE 0
  BY <1>4, <1>8
<1>10. /\ r \in MemState /\ r.s.leaf = l /\ r.s.table = m.s.table /\ r.s.sz = m.s.sz /\ r.ok = m.ok
       /\ r.s.trapframe = m.s.trapframe /\ ~r.panic /\ r.free = f
  BY <1>5, <1>7, <1>9 DEF MemState, MemSpace
<1>11. User(r.s) = User(m.s) \ vas /\ \A v \in User(r.s) : r.s.leaf[v] = m.s.leaf[v]
  BY <1>7, <1>10 DEF User
<1>12. Leaves(r.s) = Leaves(m.s) \ pas /\ pas \subseteq Leaves(m.s)
  <2>1. \A u \in vas, v \in User(r.s) : m.s.leaf[u] # m.s.leaf[v]
    BY <1>1, <1>11 DEF Good
  <2>2. pas \subseteq Leaves(m.s)
    BY DEF Leaves
  <2>3. \A x \in Leaves(r.s) : x \in Leaves(m.s) /\ x \notin pas
    BY <1>11, <2>1 DEF Leaves
  <2>4. \A x \in Leaves(m.s) : x \notin pas => x \in Leaves(r.s)
    <3>1. \A v \in User(m.s) : m.s.leaf[v] \notin pas => v \in User(r.s)
      BY <1>11
    <3> QED BY <1>11, <3>1 DEF Leaves
  <2> HIDE DEF pas
  <2> QED BY <2>2, <2>3, <2>4
<1>13. Tables(r.s) = Tables(m.s) /\ Frame(r.s) = Frame(m.s)
  BY <1>10 DEF Tables, Frame
<1>14. Good(r.s)
  BY <1>1, <1>7, <1>10, <1>11, <1>12, <1>13 DEF Good
<1>15. Own(r.s) = Own(m.s) \ pas /\ pas \subseteq Own(m.s)
  BY <1>1, <1>12, <1>13 DEF Own, Good
<1> HIDE DEF pas
<1>16. Whole(r, E)
  <2>1. E \subseteq Mem!Page /\ E \cap Own(m.s) = {} /\ E \cap Own(r.s) = {}
    BY <1>15 DEF Whole
  <2>2. \A x \in Mem!Page : r.free[x] = IF x \in E \cup Own(r.s) THEN 0 ELSE 1
    BY <1>9, <1>10, <1>15, <2>1 DEF Whole
  <2> QED BY <1>10, <1>14, <2>1, <2>2 DEF Whole
<1> QED BY <1>7, <1>10, <1>16 DEF r, SameHead

\* Those at the top are not freed.
LEMMA UnmapTop ==
    ASSUME Mem!MemoryAssumption, NEW m \in MemState, NEW E, Whole(m, E), NEW vas, vas \subseteq Top,
           vas \subseteq DOMAIN m.s.leaf
    PROVE  LET r == Mem!uvmunmap(m, vas, FALSE)
           IN  /\ r \in MemState /\ Whole(r, E) /\ SameHead(m, r) /\ r.ok = m.ok /\ Own(r.s) = Own(m.s)
               /\ DOMAIN r.s.leaf = DOMAIN m.s.leaf \ vas /\ r.s.table = m.s.table
<1> DEFINE r == Mem!uvmunmap(m, vas, FALSE)
<1>1. Good(m.s) /\ ~m.panic
  BY DEF Whole
<1>2. \A va \in vas : Mem!Reached(m, va)
  BY <1>1 DEF Good, Mem!Reached
<1>3. PICK l : l = [va \in DOMAIN m.s.leaf \ vas |-> m.s.leaf[va]]
  OBVIOUS
<1>5. r = [m EXCEPT !.s.leaf = l, !.panic = FALSE]
  <2>1. (m.panic \/ ~(vas \subseteq DOMAIN m.s.leaf) \/ \E va \in vas : ~Mem!Reached(m, va)) = FALSE
    BY <1>1, <1>2
  <2> QED BY <1>3, <2>1 DEF Mem!uvmunmap
<1> HIDE DEF r
<1>6. m.s.leaf \in [DOMAIN m.s.leaf -> 0..Pages] /\ DOMAIN m.s.leaf \subseteq Nat
  BY LeafIs DEF MemState, MemSpace
<1>7. l \in LeafSet /\ DOMAIN l = DOMAIN m.s.leaf \ vas /\ \A v \in DOMAIN l : l[v] = m.s.leaf[v]
  BY <1>3, <1>6, LeafIs
<1>10. /\ r \in MemState /\ r.s.leaf = l /\ r.s.table = m.s.table /\ r.s.sz = m.s.sz /\ r.ok = m.ok
       /\ r.s.trapframe = m.s.trapframe /\ ~r.panic /\ r.free = m.free
  BY <1>5, <1>7 DEF MemState, MemSpace
<1>11. User(r.s) = User(m.s) /\ \A v \in User(r.s) : r.s.leaf[v] = m.s.leaf[v]
  BY <1>7, <1>10 DEF User
<1>12. Leaves(r.s) = Leaves(m.s)
  BY <1>11 DEF Leaves
<1>13. Tables(r.s) = Tables(m.s) /\ Frame(r.s) = Frame(m.s)
  BY <1>10 DEF Tables, Frame
<1>14. Good(r.s)
  BY <1>1, <1>7, <1>10, <1>11, <1>12, <1>13 DEF Good
<1>15. Own(r.s) = Own(m.s)
  BY <1>12, <1>13 DEF Own
<1>16. Whole(r, E)
  BY <1>10, <1>14, <1>15 DEF Whole
<1> QED BY <1>7, <1>10, <1>15, <1>16 DEF r, SameHead

-----------------------------------------------------------------------------
\* Sizes, in pages.
LEMMA Rounded ==
    ASSUME Mem!MemoryAssumption, NEW a \in Nat
    PROVE  /\ Mem!PGROUNDUP(a) \in Nat /\ a <= Mem!PGROUNDUP(a) * PGSIZE
           /\ Mem!PGROUNDUP(a) * PGSIZE < a + PGSIZE
<1>1. PICK B \in Nat \ {0} : B = PGSIZE
  BY MemConstants
<1>2. PICK x \in Nat : x = a + B - 1
  BY <1>1
<1>3. x \div B \in Nat /\ (x \div B) * B <= x /\ x < (x \div B) * B + B
  BY <1>1, Divided
<1>4. PICK q \in Nat : q = x \div B
  BY <1>3
<1>5. PICK c \in Nat : c = q * B
  BY <1>1, <1>4
<1>6. Mem!PGROUNDUP(a) = q
  BY <1>1, <1>2, <1>4 DEF Mem!PGROUNDUP
<1>7. c <= x /\ x < c + B
  BY <1>3, <1>4, <1>5
<1>8. a <= c /\ c < a + B
  BY <1>2, <1>7
<1> QED BY <1>1, <1>4, <1>5, <1>6, <1>8

\* Only one number of pages is right.
LEMMA RoundedIs ==
    ASSUME Mem!MemoryAssumption, NEW a \in Nat, NEW q \in Nat, a <= q * PGSIZE, q * PGSIZE < a + PGSIZE
    PROVE  Mem!PGROUNDUP(a) = q
<1>1. PICK B \in Nat \ {0} : B = PGSIZE
  BY MemConstants
<1>2. PICK x \in Nat : x = Mem!PGROUNDUP(a)
  BY Rounded
<1>3. a <= x * B /\ x * B < a + B /\ a <= q * B /\ q * B < a + B
  BY <1>1, <1>2, Rounded
<1>4. \A u, v \in Nat : u < v => u * B + B <= v * B
  <2>1. SUFFICES ASSUME NEW u \in Nat, NEW v \in Nat, u < v PROVE u * B + B <= v * B
    OBVIOUS
  <2>2. PICK d \in Nat : v = u + 1 + d
    <3>1. v - u - 1 \in Nat /\ v = u + 1 + (v - u - 1)
      BY <2>1
    <3> QED BY <3>1
  <2>3. v * B = u * B + B + d * B /\ d * B \in Nat /\ u * B \in Nat
    BY <1>1, <2>2
  <2> QED BY <1>1, <2>3
<1>5. x * B \in Nat /\ q * B \in Nat
  BY <1>1, <1>2
<1>6. ~(x < q)
  BY <1>1, <1>2, <1>3, <1>4, <1>5
<1>7. ~(q < x)
  BY <1>1, <1>2, <1>3, <1>4, <1>5
<1> QED BY <1>2, <1>6, <1>7

LEMMA RoundedMore ==
    ASSUME Mem!MemoryAssumption, NEW a \in Nat, NEW c \in Nat, a <= c
    PROVE  Mem!PGROUNDUP(a) <= Mem!PGROUNDUP(c)
<1>1. PICK B \in Nat \ {0} : B = PGSIZE
  BY MemConstants
<1>2. PICK x \in Nat, y \in Nat : x = Mem!PGROUNDUP(a) /\ y = Mem!PGROUNDUP(c)
  BY Rounded
<1>3. x * B < a + B /\ c <= y * B
  BY <1>1, <1>2, Rounded
<1>4. SUFFICES ASSUME y < x PROVE FALSE
  BY <1>2
<1>5. PICK d \in Nat : x = y + 1 + d
  <2>1. x - y - 1 \in Nat /\ x = y + 1 + (x - y - 1)
    BY <1>2, <1>4
  <2> QED BY <2>1
<1>6. x * B = y * B + B + d * B /\ d * B \in Nat /\ y * B \in Nat
  BY <1>1, <1>5
<1> QED BY <1>1, <1>3, <1>6

LEMMA RoundedSome ==
    ASSUME Mem!MemoryAssumption
    PROVE  /\ Mem!PGROUNDUP(0) = 0 /\ Mem!PGROUNDUP(PGSIZE) = 1
           /\ \A q \in Nat : /\ q * PGSIZE \in Nat /\ Mem!PGROUNDUP(q * PGSIZE) = q
                             /\ Mem!PGROUNDUP(q * PGSIZE + 2 * PGSIZE) = q + 2
<1>1. PGSIZE \in Nat \ {0}
  BY MemConstants
<1>2. \A q \in Nat : q * PGSIZE \in Nat /\ (q + 2) * PGSIZE = q * PGSIZE + 2 * PGSIZE
  BY <1>1
<1>3. ASSUME NEW q \in Nat PROVE Mem!PGROUNDUP(q * PGSIZE) = q
  <2>1. PICK a \in Nat : a = q * PGSIZE
    BY <1>2
  <2>2. a <= q * PGSIZE /\ q * PGSIZE < a + PGSIZE
    BY <1>1, <2>1
  <2> QED BY <2>1, <2>2, RoundedIs
<1>4. ASSUME NEW q \in Nat PROVE Mem!PGROUNDUP(q * PGSIZE + 2 * PGSIZE) = q + 2
  <2>1. (q + 2) * PGSIZE = q * PGSIZE + 2 * PGSIZE /\ q + 2 \in Nat
    BY <1>2
  <2>2. Mem!PGROUNDUP((q + 2) * PGSIZE) = q + 2
    BY <1>3, <2>1
  <2> QED BY <2>1, <2>2
<1>5. 0 * PGSIZE = 0 /\ 1 * PGSIZE = PGSIZE
  BY <1>1
<1>6. Mem!PGROUNDUP(0 * PGSIZE) = 0 /\ Mem!PGROUNDUP(1 * PGSIZE) = 1
  BY <1>3
<1> QED BY <1>2, <1>3, <1>4, <1>5, <1>6

-----------------------------------------------------------------------------
\* r has b pages of the user's if all went well, else as many as before, a.
Grew(m, r, E, a, c) ==
    r \in MemState /\ Whole(r, E) /\ SameHead(m, r) /\ Ready(r.s, IF r.ok THEN c ELSE a)

LEMMA OneMorePageGives ==
    ASSUME Mem!MemoryAssumption, NEW m, NEW w, NEW E, NEW a \in Nat, NEW i \in Nat \ {0},
           Grew(m, w, E, a, a + i - 1)
    PROVE  Grew(m, Mem!OneMorePage(w, a, i), E, a, a + i)
<1> DEFINE r == Mem!OneMorePage(w, a, i)
<1>0. w \in MemState /\ Whole(w, E) /\ SameHead(m, w) /\ Ready(w.s, IF w.ok THEN a + i - 1 ELSE a)
  BY DEF Grew
<1>1. CASE ~w.ok
  BY <1>0, <1>1 DEF Mem!OneMorePage, Grew
<1>2. CASE w.ok
  <2>1. PICK k \in Nat : k = a + i - 1 /\ k + 1 = a + i
    OBVIOUS
  <2> DEFINE n == Mem!NewPage(w, k)
  <2>2. r = IF n.ok THEN n ELSE Mem!uvmunmap(n, Mem!From(a, k), TRUE)
    BY <1>2, <2>1 DEF Mem!OneMorePage
  <2>3. /\ n \in MemState /\ Whole(n, E) /\ SameHead(w, n) /\ Ready(n.s, IF n.ok THEN k + 1 ELSE k)
    BY <1>0, <1>2, <2>1, NewPageGives
  <2> HIDE DEF n, r
  <2>4. SameHead(m, n)
    BY <1>0, <2>3 DEF SameHead
  <2>5. CASE n.ok
    BY <2>1, <2>2, <2>3, <2>4, <2>5 DEF Grew, r
  <2>6. CASE ~n.ok
    <3>1. Ready(n.s, k)
      BY <2>3, <2>6
    <3>2. PICK vas : vas = Mem!From(a, k)
      OBVIOUS
    <3>3. vas = a..k - 1 /\ a <= k
      BY <2>1, <3>2 DEF Mem!From
    <3>4. vas \subseteq User(n.s)
      BY <2>1, <3>1, <3>3, UserIs
    <3>5. r = Mem!uvmunmap(n, vas, TRUE)
      BY <2>2, <2>6, <3>2
    <3>6. /\ r \in MemState /\ Whole(r, E) /\ SameHead(n, r) /\ r.ok = n.ok
          /\ DOMAIN r.s.leaf = DOMAIN n.s.leaf \ vas
      BY <2>3, <3>4, <3>5, UnmapUser
    <3>7. Ready(r.s, a)
      <4>1. \A v \in a..k - 1 : v \notin Top
        BY <2>1, <3>1, UserIs
      <4>2. ((0..k - 1) \cup Top) \ (a..k - 1) = (0..a - 1) \cup Top
        BY <2>1, <3>3, <4>1
      <4>3. a <= Mem!TRAPFRAME
        BY <2>1, <3>1, <3>3, MemConstants DEF Ready
      <4> QED BY <3>1, <3>3, <3>6, <4>2, <4>3 DEF Ready
    <3>8. SameHead(m, r)
      BY <2>4, <3>6 DEF SameHead
    <3> QED BY <2>6, <3>6, <3>7, <3>8 DEF Grew, r
  <2> QED BY <2>5, <2>6
<1> QED BY <1>1, <1>2

\* The states of the rounds.
PageStates(n, m, first, K) ==
    n = [i \in 0..K |-> IF i = 0 THEN m ELSE Mem!OneMorePage(n[i - 1], first, i)]

LEMMA PageRounds ==
    ASSUME NEW m, NEW first, NEW K \in Nat
    PROVE  \E n : PageStates(n, m, first, K)
<1> DEFINE Round(s, i) == Mem!OneMorePage(s, first, i)
           Is(n, k) == n = [i \in 0..k |-> IF i = 0 THEN m ELSE Round(n[i - 1], i)]
           T == {k \in Nat : ~\E n : Is(n, k)}
<1>1. ASSUME T # {} PROVE FALSE
  <2>1. PICK k \in T : \A j \in T : k <= j
    BY <1>1, LeastOfPages
  <2> HIDE DEF Round
  <2>2. CASE k = 0
    <3>1. Is([i \in 0..0 |-> m], 0)
      OBVIOUS
    <3> QED BY <2>1, <2>2, <3>1
  <2>3. CASE k # 0
    <3>1. k - 1 \in Nat /\ k - 1 \notin T
      BY <2>1, <2>3
    <3>2. PICK n : Is(n, k - 1)
      BY <3>1
    <3> DEFINE v == [i \in 0..k |-> IF i = k THEN Round(n[k - 1], k) ELSE n[i]]
    <3>3. Is(v, k)
      BY <2>3, <3>2
    <3> QED BY <2>1, <3>3
  <2> QED BY <2>2, <2>3
<1>2. K \notin T
  BY <1>1
<1>3. PICK n : Is(n, K)
  BY <1>2
<1> QED BY <1>3 DEF PageStates

LEMMA NewPagesGive ==
    ASSUME Mem!MemoryAssumption, NEW m, NEW E, NEW a \in Nat, NEW count \in Nat, Grew(m, m, E, a, a), m.ok
    PROVE  Grew(m, Mem!NewPages(m, a, count), E, a, a + count)
<1> DEFINE n == CHOOSE n : PageStates(n, m, a, count)
           T == {i \in 0..count : ~Grew(m, n[i], E, a, a + i)}
<1>1. Mem!NewPages(m, a, count) = n[count]
  BY DEF Mem!NewPages, PageStates
<1>2. n = [i \in 0..count |-> IF i = 0 THEN m ELSE Mem!OneMorePage(n[i - 1], a, i)]
  <2>1. PageStates(n, m, a, count)
    BY PageRounds
  <2> QED BY <2>1 DEF PageStates
<1> HIDE DEF n
<1>3. ASSUME T # {} PROVE FALSE
  <2>1. T \in SUBSET Nat
    OBVIOUS
  <2>2. PICK i \in T : \A j \in T : i <= j
    BY <1>3, <2>1, LeastOfPages
  <2>3. CASE i = 0
    <3>1. n[0] = m
      BY <1>2
    <3>2. a + 0 = a
      OBVIOUS
    <3> QED BY <2>2, <2>3, <3>1, <3>2
  <2>4. CASE i # 0
    <3>1. i \in Nat \ {0} /\ i \in 0..count /\ i - 1 \in 0..count /\ i - 1 \notin T
      BY <2>2, <2>4
    <3>2. Grew(m, n[i - 1], E, a, a + (i - 1)) /\ a + (i - 1) = a + i - 1
      BY <3>1
    <3>3. n[i] = Mem!OneMorePage(n[i - 1], a, i)
      BY <1>2, <2>4, <3>1
    <3>4. PICK w : w = n[i - 1] /\ Grew(m, w, E, a, a + i - 1)
      BY <3>2
    <3>5. Grew(m, Mem!OneMorePage(w, a, i), E, a, a + i)
      BY <3>1, <3>4, OneMorePageGives
    <3> QED BY <2>2, <3>3, <3>4, <3>5
  <2> QED BY <2>3, <2>4
<1>4. count \in 0..count /\ count \notin T
  BY <1>3
<1> QED BY <1>1, <1>4

LEMMA UvmallocGives ==
    ASSUME Mem!MemoryAssumption, NEW m \in MemState, NEW E, Whole(m, E), m.ok, NEW a \in Nat, NEW c \in Nat,
           Ready(m.s, Mem!PGROUNDUP(a))
    PROVE  Grew(m, Mem!uvmalloc(m, a, c), E, Mem!PGROUNDUP(a), Mem!PGROUNDUP(IF c < a THEN a ELSE c))
<1>0. Grew(m, m, E, Mem!PGROUNDUP(a), Mem!PGROUNDUP(a))
  BY DEF Grew, SameHead
<1>1. CASE c < a
  <2>1. Mem!uvmalloc(m, a, c) = m
    BY <1>1 DEF Mem!uvmalloc
  <2> QED BY <1>0, <1>1, <2>1
<1>2. CASE ~(c < a)
  <2>1. PICK x \in Nat, y \in Nat : x = Mem!PGROUNDUP(a) /\ y = Mem!PGROUNDUP(c) /\ x <= y
    BY <1>2, Rounded, RoundedMore
  <2>2. PICK d \in Nat : d = y - x /\ x + d = y
    BY <2>1
  <2>3. Mem!uvmalloc(m, a, c) = Mem!NewPages(m, x, d)
    BY <1>2, <2>1, <2>2 DEF Mem!uvmalloc
  <2>4. Grew(m, Mem!NewPages(m, x, d), E, x, x + d)
    BY <1>0, <2>1, NewPagesGive
  <2> QED BY <1>2, <2>1, <2>2, <2>3, <2>4
<1> QED BY <1>1, <1>2

LEMMA UvmdeallocGives ==
    ASSUME Mem!MemoryAssumption, NEW m \in MemState, NEW E, Whole(m, E), NEW a \in Nat, NEW c \in Nat, c <= a,
           Ready(m.s, Mem!PGROUNDUP(a))
    PROVE  LET r == Mem!uvmdealloc(m, a, c)
           IN  /\ r \in MemState /\ Whole(r, E) /\ SameHead(m, r) /\ Ready(r.s, Mem!PGROUNDUP(c))
<1> DEFINE r == Mem!uvmdealloc(m, a, c)
<1>1. PICK x \in Nat, y \in Nat : x = Mem!PGROUNDUP(a) /\ y = Mem!PGROUNDUP(c) /\ y <= x
  BY Rounded, RoundedMore
<1>2. CASE c >= a
  <2>1. c = a /\ r = m
    BY <1>2 DEF Mem!uvmdealloc
  <2> QED BY <2>1 DEF SameHead
<1>3. CASE ~(c >= a)
  <2>1. PICK vas : vas = Mem!From(y, x)
    OBVIOUS
  <2>2. vas = y..x - 1
    BY <1>1, <2>1 DEF Mem!From
  <2>3. r = Mem!uvmunmap(m, vas, TRUE)
    BY <1>1, <1>3, <2>1 DEF Mem!uvmdealloc
  <2> HIDE DEF r
  <2>4. Ready(m.s, x)
    BY <1>1
  <2>5. vas \subseteq User(m.s)
    BY <1>1, <2>2, <2>4, UserIs
  <2>6. /\ r \in MemState /\ Whole(r, E) /\ SameHead(m, r)
        /\ DOMAIN r.s.leaf = DOMAIN m.s.leaf \ vas
    BY <2>3, <2>5, UnmapUser
  <2>7. Ready(r.s, y)
    <3>1. \A v \in y..x - 1 : v \notin Top
      BY <1>1, <2>4, UserIs
    <3>2. ((0..x - 1) \cup Top) \ (y..x - 1) = (0..y - 1) \cup Top
      BY <1>1, <3>1
    <3>3. y <= Mem!TRAPFRAME
      BY <1>1, <2>4, MemConstants DEF Ready
    <3> QED BY <1>1, <2>2, <2>4, <2>6, <3>2, <3>3 DEF Ready
  <2> QED BY <1>1, <2>6, <2>7 DEF r
<1> QED BY <1>2, <1>3

LEMMA UvmcopyGives ==
    ASSUME Mem!MemoryAssumption, NEW m \in MemState, NEW E, Whole(m, E), m.ok, Ready(m.s, 0),
           NEW old, NEW sz \in Nat, Ready(old, Mem!PGROUNDUP(sz))
    PROVE  Grew(m, Mem!uvmcopy(m, old, sz), E, 0, Mem!PGROUNDUP(sz))
<1>1. PICK x \in Nat : x = Mem!PGROUNDUP(sz)
  BY Rounded
<1>2. Mem!From(0, x) \subseteq DOMAIN old.leaf
  BY <1>1 DEF Mem!From, Ready
<1>3. Mem!uvmcopy(m, old, sz) = Mem!NewPages(m, 0, x)
  BY <1>1, <1>2 DEF Mem!uvmcopy
<1>4. Grew(m, m, E, 0, 0)
  BY DEF Grew, SameHead
<1>5. Grew(m, Mem!NewPages(m, 0, x), E, 0, 0 + x)
  BY <1>4, NewPagesGive
<1>6. 0 + x = x
  OBVIOUS
<1> QED BY <1>1, <1>3, <1>5, <1>6

\* The page table is gone.
Freed(m, r, E) ==
    /\ r \in MemState /\ Whole(r, E) /\ SameHead(m, r) /\ r.ok = m.ok
    /\ r.s.table = Mem!Nothing /\ r.s.leaf = Mem!Nothing

LEMMA NothingIs ==
    /\ DOMAIN Mem!Nothing = {} /\ Mem!Nothing \in TableSet /\ Mem!Nothing \in LeafSet
    /\ \A t \in TableSet : DOMAIN t = {} => t = Mem!Nothing
    /\ \A l \in LeafSet : DOMAIN l = {} => l = Mem!Nothing
<1>1. DOMAIN Mem!Nothing = {} /\ Mem!Nothing = [x \in {} |-> x]
  BY DEF Mem!Nothing
<1>2. Mem!Nothing \in [DOMAIN Mem!Nothing -> Mem!Page] /\ Mem!Nothing \in [DOMAIN Mem!Nothing -> 0..Pages]
  BY <1>1
<1>3. Mem!Nothing \in TableSet /\ Mem!Nothing \in LeafSet
  BY <1>1, <1>2, TableIs, LeafIs
<1>4. ASSUME NEW t \in TableSet, DOMAIN t = {} PROVE t = Mem!Nothing
  <2>1. t \in [{} -> Mem!Page]
    BY <1>4, TableIs
  <2> QED BY <1>1, <2>1
<1>5. ASSUME NEW t \in LeafSet, DOMAIN t = {} PROVE t = Mem!Nothing
  <2>1. t \in [{} -> 0..Pages]
    BY <1>5, LeafIs
  <2> QED BY <1>1, <2>1
<1> QED BY <1>1, <1>3, <1>4, <1>5

LEMMA FreewalkGives ==
    ASSUME Mem!MemoryAssumption, NEW m \in MemState, NEW E, Whole(m, E), DOMAIN m.s.leaf = {}
    PROVE  Freed(m, Mem!freewalk(m), E)
<1> DEFINE r == Mem!freewalk(m)
<1>1. PICK f : f = [p \in Mem!Page |-> m.free[p] + IF p \in Tables(m.s) THEN 1 ELSE 0]
  OBVIOUS
<1>2. m.free \in [Mem!Page -> Nat] /\ ~m.panic /\ Good(m.s)
  BY DEF MemState, Whole
<1>3. f \in [Mem!Page -> Nat] /\ \A p \in Mem!Page : f[p] = m.free[p] + IF p \in Tables(m.s) THEN 1 ELSE 0
  BY <1>1, <1>2
<1>4. r = [m EXCEPT !.free = f, !.s.table = Mem!Nothing, !.panic = FALSE]
  <2>1. (m.panic \/ DOMAIN m.s.leaf # {}) = FALSE
    BY <1>2
  <2>2. PICK n : n = Mem!kfreeAll(m, {m.s.table[i] : i \in DOMAIN m.s.table})
    OBVIOUS
  <2>3. n = [m EXCEPT !.free = f]
    BY <1>1, <2>2 DEF Mem!kfreeAll, Tables, MemState
  <2>4. n.panic = m.panic /\ n.s = m.s
    BY <2>3 DEF MemState
  <2>5. r = [n EXCEPT !.s.table = Mem!Nothing, !.panic = @ \/ DOMAIN m.s.leaf # {}]
    BY <2>2 DEF Mem!freewalk
  <2> QED BY <2>1, <2>3, <2>4, <2>5 DEF MemState
<1> HIDE DEF r
<1>5. /\ r \in MemState /\ r.s.table = Mem!Nothing /\ r.s.leaf = m.s.leaf /\ r.s.sz = m.s.sz
      /\ r.s.trapframe = m.s.trapframe /\ r.ok = m.ok /\ ~r.panic /\ r.free = f
  BY <1>3, <1>4, NothingIs DEF MemState, MemSpace
<1>6. r.s.leaf = Mem!Nothing
  BY <1>5, NothingIs DEF MemState, MemSpace
<1>7. /\ Tables(r.s) = {} /\ User(r.s) = {} /\ Leaves(r.s) = {} /\ Frame(r.s) = Frame(m.s)
      /\ User(m.s) = {} /\ Leaves(m.s) = {}
  BY <1>5, NothingIs DEF Tables, User, Leaves, Frame
<1>8. Good(r.s)
  BY <1>5, <1>6, <1>7, NothingIs DEF Good
<1>9. /\ Own(r.s) = Own(m.s) \ Tables(m.s) /\ Tables(m.s) \subseteq Own(m.s)
  BY <1>2, <1>7 DEF Own, Good
<1>10. Whole(r, E)
  <2>1. E \subseteq Mem!Page /\ E \cap Own(m.s) = {} /\ E \cap Own(r.s) = {}
    BY <1>9 DEF Whole
  <2>2. \A x \in Mem!Page : r.free[x] = IF x \in E \cup Own(r.s) THEN 0 ELSE 1
    BY <1>3, <1>5, <1>9, <2>1 DEF Whole
  <2> QED BY <1>5, <1>8, <2>1, <2>2 DEF Whole
<1> QED BY <1>5, <1>6, <1>10 DEF Freed, SameHead, r

LEMMA UvmfreeGives ==
    ASSUME Mem!MemoryAssumption, NEW m \in MemState, NEW E, Whole(m, E), NEW sz \in Nat,
           NEW k, k = Mem!PGROUNDUP(sz), k <= Mem!TRAPFRAME, DOMAIN m.s.leaf = 0..k - 1
    PROVE  Freed(m, Mem!uvmfree(m, sz), E)
<1>1. k \in Nat
  BY Rounded
<1>2. CASE sz = 0
  <2>1. k = 0
    BY <1>2, RoundedSome
  <2>2. Mem!uvmfree(m, sz) = Mem!freewalk(m) /\ DOMAIN m.s.leaf = {}
    BY <1>2, <2>1 DEF Mem!uvmfree
  <2> QED BY <2>2, FreewalkGives
<1>3. CASE sz # 0
  <2>1. PICK vas : vas = Mem!From(0, k)
    OBVIOUS
  <2>2. vas = 0..k - 1
    BY <1>1, <2>1 DEF Mem!From
  <2>3. PICK n : n = Mem!uvmunmap(m, vas, TRUE)
    OBVIOUS
  <2>4. Mem!uvmfree(m, sz) = Mem!freewalk(n)
    <3>1. sz > 0
      BY <1>3
    <3>2. vas = Mem!From(0, Mem!PGROUNDUP(sz))
      BY <2>1
    <3> QED BY <2>3, <3>1, <3>2 DEF Mem!uvmfree
  <2>5. vas \subseteq User(m.s)
    BY <1>1, <2>2, MemConstants DEF User, Top
  <2>6. /\ n \in MemState /\ Whole(n, E) /\ SameHead(m, n) /\ n.ok = m.ok
        /\ DOMAIN n.s.leaf = DOMAIN m.s.leaf \ vas
    BY <2>3, <2>5, UnmapUser
  <2>7. DOMAIN n.s.leaf = {}
    BY <2>2, <2>6
  <2>8. Freed(n, Mem!freewalk(n), E)
    BY <2>6, <2>7, FreewalkGives
  <2> QED BY <2>4, <2>6, <2>8 DEF Freed, SameHead
<1> QED BY <1>2, <1>3

LEMMA FreePagetableGives ==
    ASSUME Mem!MemoryAssumption, NEW m \in MemState, NEW E, Whole(m, E), NEW sz \in Nat,
           Ready(m.s, Mem!PGROUNDUP(sz))
    PROVE  Freed(m, Mem!proc_freepagetable(m, sz), E)
<1>0. PICK k \in Nat : k = Mem!PGROUNDUP(sz) /\ k <= Mem!TRAPFRAME /\ DOMAIN m.s.leaf = (0..k - 1) \cup Top
  BY Rounded DEF Ready
<1>1. PICK n : n = Mem!uvmunmap(m, {Mem!TRAMPOLINE}, FALSE)
  OBVIOUS
<1>2. /\ n \in MemState /\ Whole(n, E) /\ SameHead(m, n) /\ n.ok = m.ok
      /\ DOMAIN n.s.leaf = DOMAIN m.s.leaf \ {Mem!TRAMPOLINE}
  <2>1. {Mem!TRAMPOLINE} \subseteq Top /\ {Mem!TRAMPOLINE} \subseteq DOMAIN m.s.leaf
    BY <1>0 DEF Top
  <2> QED BY <1>1, <2>1, UnmapTop
<1>3. PICK t : t = Mem!uvmunmap(n, {Mem!TRAPFRAME}, FALSE)
  OBVIOUS
<1>4. /\ t \in MemState /\ Whole(t, E) /\ SameHead(n, t) /\ t.ok = n.ok
      /\ DOMAIN t.s.leaf = DOMAIN n.s.leaf \ {Mem!TRAPFRAME}
  <2>1. {Mem!TRAPFRAME} \subseteq Top /\ {Mem!TRAPFRAME} \subseteq DOMAIN n.s.leaf
    BY <1>0, <1>2, MemConstants DEF Top
  <2> QED BY <1>2, <1>3, <2>1, UnmapTop
<1>5. DOMAIN t.s.leaf = 0..k - 1
  BY <1>0, <1>2, <1>4, MemConstants DEF Top
<1>6. Mem!proc_freepagetable(m, sz) = Mem!uvmfree(t, sz)
  BY <1>1, <1>3 DEF Mem!proc_freepagetable
<1>7. Freed(t, Mem!uvmfree(t, sz), E)
  BY <1>0, <1>4, <1>5, UvmfreeGives
<1> QED BY <1>2, <1>4, <1>6, <1>7 DEF Freed, SameHead

-----------------------------------------------------------------------------
\* A page table with the two pages at the top only, or none.
Tabled(m, r, E) ==
    /\ r \in MemState /\ Whole(r, E) /\ SameHead(m, r)
    /\ r.ok => Ready(r.s, 0)
    /\ ~r.ok => r.s.table = Mem!Nothing /\ r.s.leaf = Mem!Nothing

LEMMA ProcPagetableGives ==
    ASSUME Mem!MemoryAssumption, NEW m \in MemState, NEW E, Whole(m, E), m.s.trapframe \in Mem!Page,
           m.s.table = Mem!Nothing, m.s.leaf = Mem!Nothing
    PROVE  Tabled(m, Mem!proc_pagetable(m), E)
<1> DEFINE e == Mem!AddTable(m, <<>>)
           t == Mem!mappages(e, Mem!TRAMPOLINE, Mem!trampoline)
           f == Mem!mappages(t, Mem!TRAPFRAME, t.s.trapframe)
           u == Mem!uvmunmap(f, {Mem!TRAMPOLINE}, FALSE)
           r == Mem!proc_pagetable(m)
<1>0. /\ DOMAIN Mem!Nothing = {} /\ Mem!PGROUNDUP(0) = 0 /\ 0 \in 0..Pages /\ Mem!Page \subseteq 0..Pages
      /\ Mem!trampoline = 0 /\ Mem!TRAPFRAME \in Nat /\ Mem!TRAMPOLINE = Mem!TRAPFRAME + 1
  BY NothingIs, RoundedSome, MemConstants
<1>1. r = IF e.ok THEN IF t.ok THEN IF f.ok THEN f ELSE Mem!uvmfree(u, 0) ELSE Mem!uvmfree(t, 0) ELSE e
  BY DEF Mem!proc_pagetable, Mem!uvmcreate
<1>2. /\ e \in MemState /\ Whole(e, E) /\ e.s.leaf = m.s.leaf /\ SameHead(m, e)
      /\ ~e.ok => e.s = m.s
  <2>1. PICK root \in Seq(Nat) : root = <<>>
    <3>1. <<>> \in Seq(Nat)
      OBVIOUS
    <3> QED BY <3>1
  <2> DEFINE q == Mem!AddTable(m, root)
  <2>3. /\ q \in MemState /\ Whole(q, E) /\ q.s.leaf = m.s.leaf /\ q.s.sz = m.s.sz
        /\ q.s.trapframe = m.s.trapframe
        /\ ~q.ok => q.s = m.s
    BY AddTableGives
  <2>4. e = q
    BY <2>1
  <2> HIDE DEF q
  <2>2. /\ e \in MemState /\ Whole(e, E) /\ e.s.leaf = m.s.leaf /\ e.s.sz = m.s.sz
        /\ e.s.trapframe = m.s.trapframe
        /\ ~e.ok => e.s = m.s
    BY <2>3, <2>4
  <2> HIDE DEF e
  <2> QED BY <2>2 DEF SameHead
<1> HIDE DEF e
<1>3. CASE ~e.ok
  <2>1. r = e
    BY <1>1, <1>3
  <2> QED BY <1>2, <1>3, <2>1 DEF Tabled
<1>4. CASE e.ok
  <2>1. Mem!TRAMPOLINE \in Top /\ Mem!TRAMPOLINE \notin DOMAIN e.s.leaf /\ Mem!trampoline \in 0..Pages
    BY <1>0, <1>2 DEF Top
  <2>2. /\ t \in MemState /\ SameHead(m, t) /\ Whole(t, E)
        /\ DOMAIN t.s.leaf = IF t.ok THEN {Mem!TRAMPOLINE} ELSE {}
    <3>1. /\ t \in MemState /\ t.s.sz = e.s.sz /\ t.s.trapframe = e.s.trapframe /\ Whole(t, E)
          /\ t.ok => DOMAIN t.s.leaf = DOMAIN e.s.leaf \cup {Mem!TRAMPOLINE}
          /\ ~t.ok => DOMAIN t.s.leaf = DOMAIN e.s.leaf
      BY <1>2, <2>1, MapTop
    <3> HIDE DEF t
    <3> QED BY <1>0, <1>2, <3>1 DEF SameHead
  <2> HIDE DEF t
  <2>3. CASE ~t.ok
    <3>1. r = Mem!uvmfree(t, 0)
      BY <1>1, <1>4, <2>3
    <3>2. DOMAIN t.s.leaf = 0..0 - 1 /\ 0 <= Mem!TRAPFRAME
      BY <1>0, <2>2, <2>3
    <3>3. Freed(t, r, E)
      BY <1>0, <2>2, <3>1, <3>2, UvmfreeGives
    <3> QED BY <2>2, <2>3, <3>3 DEF Freed, Tabled, SameHead
  <2>4. CASE t.ok
    <3>1. Mem!TRAPFRAME \in Top /\ Mem!TRAPFRAME \notin DOMAIN t.s.leaf /\ t.s.trapframe \in 0..Pages
      <4>1. Mem!TRAPFRAME # Mem!TRAMPOLINE
        BY <1>0
      <4>2. DOMAIN t.s.leaf = {Mem!TRAMPOLINE}
        BY <2>2, <2>4
      <4>3. t.s.trapframe \in 0..Pages
        BY <1>0, <2>2 DEF SameHead
      <4> QED BY <4>1, <4>2, <4>3 DEF Top
    <3>2. /\ f \in MemState /\ SameHead(m, f) /\ Whole(f, E)
          /\ DOMAIN f.s.leaf = IF f.ok THEN {Mem!TRAMPOLINE, Mem!TRAPFRAME} ELSE {Mem!TRAMPOLINE}
      <4>1. PICK pa \in 0..Pages : pa = t.s.trapframe
        BY <3>1
      <4>2. /\ f \in MemState /\ f.s.sz = t.s.sz /\ f.s.trapframe = t.s.trapframe /\ Whole(f, E)
            /\ f.ok => DOMAIN f.s.leaf = DOMAIN t.s.leaf \cup {Mem!TRAPFRAME}
            /\ ~f.ok => DOMAIN f.s.leaf = DOMAIN t.s.leaf
        BY <2>2, <3>1, <4>1, MapTop
      <4> HIDE DEF f
      <4> QED BY <2>2, <2>4, <4>2 DEF SameHead
    <3> HIDE DEF f
    <3>3. CASE f.ok
      <4>1. r = f
        BY <1>1, <1>4, <2>4, <3>3
      <4>2. Ready(f.s, 0)
        BY <1>0, <3>2, <3>3 DEF Ready, Top
      <4> QED BY <3>2, <3>3, <4>1, <4>2 DEF Tabled
    <3>4. CASE ~f.ok
      <4>1. {Mem!TRAMPOLINE} \subseteq Top /\ {Mem!TRAMPOLINE} \subseteq DOMAIN f.s.leaf
        BY <3>2, <3>4 DEF Top
      <4>2. /\ u \in MemState /\ Whole(u, E) /\ SameHead(f, u) /\ u.ok = f.ok /\ DOMAIN u.s.leaf = {}
        <5>1. /\ u \in MemState /\ Whole(u, E) /\ SameHead(f, u) /\ u.ok = f.ok
              /\ DOMAIN u.s.leaf = DOMAIN f.s.leaf \ {Mem!TRAMPOLINE}
          BY <3>2, <4>1, UnmapTop
        <5> HIDE DEF u
        <5> QED BY <3>2, <3>4, <5>1
      <4> HIDE DEF u
      <4>3. r = Mem!uvmfree(u, 0)
        BY <1>1, <1>4, <2>4, <3>4
      <4>4. DOMAIN u.s.leaf = 0..0 - 1 /\ 0 <= Mem!TRAPFRAME
        BY <1>0, <4>2
      <4>5. Freed(u, r, E)
        BY <1>0, <4>2, <4>3, <4>4, UvmfreeGives
      <4> QED BY <3>2, <3>4, <4>2, <4>5 DEF Freed, Tabled, SameHead
    <3> QED BY <3>3, <3>4
  <2> QED BY <2>3, <2>4
<1> QED BY <1>3, <1>4

\* All of a process's memory is gone.
Emptied(m, r, E) ==
    r \in MemState /\ Whole(r, E) /\ r.s = Mem!NoSpace /\ r.ok = m.ok

LEMMA FreeprocGives ==
    ASSUME Mem!MemoryAssumption, NEW m \in MemState, NEW E, Whole(m, E),
           \/ m.s.table = Mem!Nothing /\ m.s.leaf = Mem!Nothing
           \/ Ready(m.s, Mem!PGROUNDUP(m.s.sz))
    PROVE  Emptied(m, Mem!freeproc(m), E)
<1> DEFINE f == IF m.s.trapframe = NULL THEN m ELSE [Mem!kfree(m, m.s.trapframe) EXCEPT !.s.trapframe = NULL]
           t == IF f.s.table = Mem!Nothing THEN f ELSE Mem!proc_freepagetable(f, f.s.sz)
           r == Mem!freeproc(m)
<1>1. r = [t EXCEPT !.s.sz = 0]
  BY DEF Mem!freeproc
<1>2. /\ f \in MemState /\ Whole(f, E) /\ f.s.trapframe = NULL /\ f.s.sz = m.s.sz /\ f.ok = m.ok
      /\ f.s.table = m.s.table /\ f.s.leaf = m.s.leaf
  <2>1. CASE m.s.trapframe = NULL
    BY <2>1
  <2>2. CASE m.s.trapframe # NULL
    <3>1. PICK p \in Mem!Page : p = m.s.trapframe
      BY <2>2 DEF MemState, MemSpace
    <3>2. f = [Mem!kfree(m, p) EXCEPT !.s.trapframe = NULL]
      BY <2>2, <3>1
    <3>3. PICK g : g = [m.free EXCEPT ![p] = @ + 1]
      OBVIOUS
    <3>4. m.free \in [Mem!Page -> Nat]
      BY DEF MemState
    <3>5. g \in [Mem!Page -> Nat] /\ g[p] = m.free[p] + 1 /\ \A y \in Mem!Page : y # p => g[y] = m.free[y]
      BY <3>3, <3>4
    <3>6. f = [m EXCEPT !.free = g, !.s.trapframe = NULL]
      BY <3>2, <3>3 DEF Mem!kfree
    <3> HIDE DEF f
    <3>7. /\ f \in MemState /\ f.s.trapframe = NULL /\ f.s.sz = m.s.sz /\ f.ok = m.ok /\ f.free = g
          /\ f.s.table = m.s.table /\ f.s.leaf = m.s.leaf /\ f.panic = m.panic
      BY <3>5, <3>6 DEF MemState, MemSpace
    <3>8. /\ Tables(f.s) = Tables(m.s) /\ User(f.s) = User(m.s) /\ Leaves(f.s) = Leaves(m.s)
          /\ Frame(f.s) = {} /\ Frame(m.s) = {p}
      <4>1. p # NULL
        BY <2>2, <3>1
      <4> QED BY <3>1, <3>7, <4>1 DEF Tables, User, Leaves, Frame
    <3>9. Good(m.s) /\ Good(f.s)
      BY <3>7, <3>8 DEF Good, Whole
    <3>10. Own(f.s) = Own(m.s) \ {p} /\ p \in Own(m.s)
      BY <3>8, <3>9 DEF Own, Good
    <3>11. Whole(f, E)
      <4>1. m.free[p] = 0 /\ p \notin E
        BY <3>10 DEF Whole
      <4>2. g[p] = 1
        BY <3>5, <4>1
      <4> QED BY <3>5, <3>7, <3>9, <3>10, <4>1, <4>2 DEF Whole
    <3> QED BY <3>7, <3>11
  <2> QED BY <2>1, <2>2
<1> HIDE DEF f
<1>3. /\ t \in MemState /\ Whole(t, E) /\ t.s.trapframe = NULL /\ t.ok = m.ok
      /\ t.s.table = Mem!Nothing /\ t.s.leaf = Mem!Nothing
  <2>1. CASE f.s.table = Mem!Nothing
    <3>1. t = f
      BY <2>1
    <3>2. f.s.leaf = Mem!Nothing
      <4>1. SUFFICES ASSUME f.s.leaf # Mem!Nothing PROVE FALSE
        OBVIOUS
      <4>2. f.s.leaf \in LeafSet
        BY <1>2 DEF MemState, MemSpace
      <4>3. PICK va : va \in DOMAIN f.s.leaf
        BY <4>1, <4>2, NothingIs
      <4>4. Mem!Path(va)[1] \in DOMAIN f.s.table
        BY <1>2, <4>3 DEF Whole, Good
      <4> QED BY <2>1, <4>4, NothingIs
    <3> QED BY <1>2, <2>1, <3>1, <3>2
  <2>2. CASE f.s.table # Mem!Nothing
    <3>1. Ready(f.s, Mem!PGROUNDUP(f.s.sz)) /\ f.s.sz \in Nat
      BY <1>2, <2>2 DEF Ready, MemState, MemSpace
    <3>2. Freed(f, Mem!proc_freepagetable(f, f.s.sz), E)
      BY <1>2, <3>1, FreePagetableGives
    <3> QED BY <1>2, <2>2, <3>2 DEF Freed, SameHead
  <2> QED BY <2>1, <2>2
<1> HIDE DEF t
<1>4. r.s = Mem!NoSpace
  <2>1. t.s \in MemSpace
    BY <1>3 DEF MemState
  <2>2. r.s = [t.s EXCEPT !.sz = 0]
    BY <1>1, <1>3 DEF MemState
  <2> QED BY <1>3, <2>1, <2>2 DEF MemSpace, Mem!NoSpace
<1>5. r \in MemState /\ r.ok = m.ok /\ r.free = t.free /\ r.panic = t.panic /\ r.s.table = t.s.table
      /\ r.s.leaf = t.s.leaf /\ r.s.trapframe = t.s.trapframe
  BY <1>1, <1>3 DEF MemState, MemSpace
<1> HIDE DEF r
<1>6. /\ Tables(r.s) = Tables(t.s) /\ User(r.s) = User(t.s) /\ Leaves(r.s) = Leaves(t.s)
      /\ Frame(r.s) = Frame(t.s)
  BY <1>5 DEF Tables, User, Leaves, Frame
<1>7. Good(r.s) /\ Own(r.s) = Own(t.s)
  BY <1>3, <1>5, <1>6 DEF Whole, Good, Own
<1>8. Whole(r, E)
  BY <1>3, <1>5, <1>7 DEF Whole
<1> QED BY <1>4, <1>5, <1>8 DEF Emptied, r

\* Only the size is another.
LEMMA SizeGives ==
    ASSUME NEW m \in MemState, NEW E, Whole(m, E), NEW n \in Nat
    PROVE  LET r == [m EXCEPT !.s.sz = n]
           IN  /\ r \in MemState /\ Whole(r, E) /\ r.ok = m.ok /\ r.s.sz = n /\ r.s.trapframe = m.s.trapframe
               /\ r.s.leaf = m.s.leaf /\ r.s.table = m.s.table /\ Own(r.s) = Own(m.s)
<1>1. PICK r : r = [m EXCEPT !.s.sz = n]
  OBVIOUS
<1>2. /\ r \in MemState /\ r.ok = m.ok /\ r.free = m.free /\ r.panic = m.panic /\ r.s.table = m.s.table
      /\ r.s.leaf = m.s.leaf /\ r.s.trapframe = m.s.trapframe /\ r.s.sz = n
  BY <1>1 DEF MemState, MemSpace
<1>3. /\ Tables(r.s) = Tables(m.s) /\ User(r.s) = User(m.s) /\ Leaves(r.s) = Leaves(m.s)
      /\ Frame(r.s) = Frame(m.s)
  BY <1>2 DEF Tables, User, Leaves, Frame
<1>4. Good(r.s) /\ Own(r.s) = Own(m.s)
  BY <1>2, <1>3 DEF Whole, Good, Own
<1>5. Whole(r, E)
  BY <1>2, <1>4 DEF Whole
<1> QED BY <1>1, <1>2, <1>4, <1>5

\* The memory of a process in use: its pages from 0 on are those that its size asks for.
Complete(s) == s.trapframe \in Mem!Page /\ Ready(s, Mem!PGROUNDUP(s.sz))

\* A new process, or nothing.
Born(r, E) ==
    /\ r \in MemState /\ Whole(r, E)
    /\ r.ok => Complete(r.s)
    /\ ~r.ok => r.s = Mem!NoSpace

LEMMA AllocprocGives ==
    ASSUME Mem!MemoryAssumption, NEW m \in MemState, NEW E, Whole(m, E), m.ok, m.s = Mem!NoSpace
    PROVE  LET r == Mem!allocproc(m)
           IN  Born(r, E) /\ (r.ok => r.s.sz = 0)
<1> DEFINE n == Mem!kalloc(m)
           t == [n EXCEPT !.s.trapframe = n.got]
           g == IF n.ok THEN Mem!proc_pagetable(t) ELSE n
           r == Mem!allocproc(m)
<1>1. r = IF g.ok THEN g ELSE Mem!freeproc(g)
  BY DEF Mem!allocproc
<1>2. \/ n = [m EXCEPT !.ok = FALSE]
      \/ /\ n \in MemState /\ n.s = m.s /\ n.ok /\ n.got \in Mem!Page
         /\ n.got \notin E \cup Own(m.s) /\ Whole(n, E \cup {n.got})
  BY KallocGives
<1> HIDE DEF n, r
<1>0. /\ m.s.trapframe = NULL /\ m.s.table = Mem!Nothing /\ m.s.leaf = Mem!Nothing /\ m.s.sz = 0
  BY DEF Mem!NoSpace
<1>3. CASE n = [m EXCEPT !.ok = FALSE]
  <2>1. n \in MemState /\ ~n.ok /\ n.s = m.s /\ n.free = m.free /\ n.panic = m.panic
    BY <1>3 DEF MemState
  <2>2. Whole(n, E)
    BY <2>1 DEF Whole
  <2>3. g = n /\ r = Mem!freeproc(n)
    BY <1>1, <2>1
  <2>4. Emptied(n, r, E)
    BY <1>0, <2>1, <2>2, <2>3, FreeprocGives
  <2> QED BY <2>1, <2>4 DEF Emptied, Born, r
<1>4. CASE /\ n \in MemState /\ n.s = m.s /\ n.ok /\ n.got \in Mem!Page
           /\ n.got \notin E \cup Own(m.s) /\ Whole(n, E \cup {n.got})
  <2>1. PICK x \in Mem!Page : x = n.got
    BY <1>4
  <2>2. t = [n EXCEPT !.s.trapframe = x]
    BY <2>1
  <2> HIDE DEF t
  <2>3. /\ t \in MemState /\ t.s.trapframe = x /\ t.s.sz = 0 /\ t.ok /\ t.free = n.free /\ t.panic = n.panic
        /\ t.s.table = Mem!Nothing /\ t.s.leaf = Mem!Nothing
    BY <1>0, <1>4, <2>2 DEF MemState, MemSpace
  <2>4. x # NULL
    BY MemConstants
  <2>5. /\ Tables(t.s) = {} /\ User(t.s) = {} /\ Leaves(t.s) = {} /\ Frame(t.s) = {x}
        /\ Own(n.s) = {} /\ Own(t.s) = {x}
    BY <1>0, <1>4, <2>3, <2>4, NothingIs DEF Tables, User, Leaves, Frame, Own
  <2>6. Good(t.s)
    BY <2>3, <2>5, NothingIs DEF Good
  <2>7. Whole(t, E)
    <3>1. /\ ~n.panic /\ E \subseteq Mem!Page /\ x \notin E
          /\ \A y \in Mem!Page : n.free[y] = IF y \in (E \cup {x}) \cup Own(n.s) THEN 0 ELSE 1
      BY <1>4, <2>1 DEF Whole
    <3>2. \A y \in Mem!Page : t.free[y] = IF y \in E \cup Own(t.s) THEN 0 ELSE 1
      BY <2>3, <2>5, <3>1
    <3> QED BY <2>3, <2>5, <2>6, <3>1, <3>2 DEF Whole
  <2>8. g = Mem!proc_pagetable(t)
    BY <1>4
  <2>9. Tabled(t, g, E)
    BY <2>3, <2>7, <2>8, ProcPagetableGives
  <2> HIDE DEF g
  <2>10. CASE g.ok
    <3>1. r = g
      BY <1>1, <2>10
    <3>2. g.s.sz = 0 /\ g.s.trapframe = x /\ Ready(g.s, Mem!PGROUNDUP(g.s.sz))
      BY <2>3, <2>9, <2>10, RoundedSome DEF Tabled, SameHead
    <3> QED BY <2>9, <2>10, <3>1, <3>2 DEF Tabled, Born, Complete, r
  <2>11. CASE ~g.ok
    <3>1. r = Mem!freeproc(g)
      BY <1>1, <2>11
    <3>2. Emptied(g, r, E)
      BY <2>9, <2>11, <3>1, FreeprocGives DEF Tabled
    <3> QED BY <2>11, <3>2 DEF Emptied, Born, r
  <2> QED BY <2>10, <2>11
<1> QED BY <1>2, <1>3, <1>4

LEMMA ForkMemoryGives ==
    ASSUME Mem!MemoryAssumption, NEW m \in MemState, NEW E, Whole(m, E), m.ok, m.s = Mem!NoSpace,
           NEW old, old.sz \in Nat, Complete(old)
    PROVE  Born(Mem!ForkMemory(m, old), E)
<1> DEFINE a == Mem!allocproc(m)
           c == Mem!uvmcopy(a, old, old.sz)
           r == Mem!ForkMemory(m, old)
<1>1. r = IF a.ok THEN IF c.ok THEN [c EXCEPT !.s.sz = old.sz] ELSE Mem!freeproc(c) ELSE a
  BY DEF Mem!ForkMemory
<1>2. Born(a, E) /\ (a.ok => a.s.sz = 0)
  BY AllocprocGives
<1> HIDE DEF a, r
<1>3. CASE ~a.ok
  BY <1>1, <1>2, <1>3 DEF r
<1>4. CASE a.ok
  <2>1. PICK sz \in Nat : sz = old.sz
    OBVIOUS
  <2>2. Grew(a, c, E, 0, Mem!PGROUNDUP(sz))
    <3>1. Ready(a.s, 0) /\ a \in MemState /\ Whole(a, E)
      BY <1>2, <1>4, RoundedSome DEF Born, Complete
    <3>2. Ready(old, Mem!PGROUNDUP(sz))
      BY <2>1 DEF Complete
    <3>3. Grew(a, Mem!uvmcopy(a, old, sz), E, 0, Mem!PGROUNDUP(sz))
      BY <1>4, <3>1, <3>2, UvmcopyGives
    <3> QED BY <2>1, <3>3
  <2> HIDE DEF c
  <2>3. CASE c.ok
    <3>1. PICK w : w = [c EXCEPT !.s.sz = sz]
      OBVIOUS
    <3>2. c \in MemState /\ Whole(c, E)
      BY <2>2 DEF Grew
    <3>3. /\ w \in MemState /\ Whole(w, E) /\ w.ok = c.ok /\ w.s.sz = sz /\ w.s.trapframe = c.s.trapframe
          /\ w.s.leaf = c.s.leaf
      BY <3>1, <3>2, SizeGives
    <3>4. r = w
      BY <1>1, <1>4, <2>1, <2>3, <3>1
    <3>5. w.s.trapframe \in Mem!Page
      BY <1>2, <1>4, <2>2, <3>3 DEF Born, Complete, Grew, SameHead
    <3>6. Ready(w.s, Mem!PGROUNDUP(w.s.sz))
      BY <2>2, <2>3, <3>3 DEF Grew, Ready
    <3> QED BY <2>3, <3>3, <3>4, <3>5, <3>6 DEF Born, Complete, r
  <2>4. CASE ~c.ok
    <3>1. r = Mem!freeproc(c)
      BY <1>1, <1>4, <2>4
    <3>2. Ready(c.s, Mem!PGROUNDUP(c.s.sz))
      BY <1>2, <1>4, <2>2, <2>4, RoundedSome DEF Grew, SameHead
    <3>3. Emptied(c, r, E)
      BY <2>2, <3>1, <3>2, FreeprocGives DEF Grew
    <3> QED BY <2>4, <3>3 DEF Emptied, Born, r
  <2> QED BY <2>3, <2>4
<1> QED BY <1>3, <1>4

-----------------------------------------------------------------------------
\* An address space in the making, or one that could not be made larger.
Loaded(m, r, E) ==
    /\ r \in MemState /\ Whole(r, E) /\ r.s.trapframe = m.s.trapframe
    /\ Ready(r.s, Mem!PGROUNDUP(r.s.sz))

LEMMA SegmentGives ==
    ASSUME Mem!MemoryAssumption, NEW m, NEW w, NEW E, NEW end \in Nat, Loaded(m, w, E)
    PROVE  Loaded(m, Mem!Segment(w, end), E)
<1> DEFINE a == Mem!uvmalloc(w, w.s.sz, end)
           r == Mem!Segment(w, end)
<1>1. CASE ~w.ok
  BY <1>1 DEF Mem!Segment
<1>2. CASE w.ok
  <2>0. w \in MemState /\ Whole(w, E) /\ w.s.trapframe = m.s.trapframe /\ Ready(w.s, Mem!PGROUNDUP(w.s.sz))
    BY DEF Loaded
  <2>1. PICK sz \in Nat : sz = w.s.sz
    BY <2>0 DEF MemState, MemSpace
  <2>2. PICK top \in Nat : top = IF end < sz THEN sz ELSE end
    OBVIOUS
  <2>3. Grew(w, a, E, Mem!PGROUNDUP(sz), Mem!PGROUNDUP(top))
    <3>1. Grew(w, Mem!uvmalloc(w, sz, end), E, Mem!PGROUNDUP(sz), Mem!PGROUNDUP(IF end < sz THEN sz ELSE end))
      BY <1>2, <2>0, <2>1, UvmallocGives
    <3> QED BY <2>1, <2>2, <3>1
  <2>4. r = IF ~a.ok \/ (end = 0 /\ a.s.sz = 0) THEN Mem!Failed(a)
            ELSE [a EXCEPT !.s.sz = IF end < @ THEN @ ELSE end]
    BY <1>2 DEF Mem!Segment
  <2> HIDE DEF a, r
  <2>5. a \in MemState /\ Whole(a, E) /\ a.s.sz = sz /\ a.s.trapframe = m.s.trapframe
    BY <2>0, <2>1, <2>3 DEF Grew, SameHead
  <2>6. CASE ~a.ok \/ (end = 0 /\ a.s.sz = 0)
    <3>1. r = [a EXCEPT !.ok = FALSE]
      BY <2>4, <2>6 DEF Mem!Failed
    <3>2. /\ r \in MemState /\ r.s = a.s /\ r.free = a.free /\ r.panic = a.panic
      BY <2>5, <3>1 DEF MemState
    <3>3. Whole(r, E)
      BY <2>5, <3>2 DEF Whole
    <3>4. Ready(a.s, Mem!PGROUNDUP(sz))
      <4>1. CASE ~a.ok
        BY <2>3, <4>1 DEF Grew
      <4>2. CASE a.ok
        <5>1. top = sz
          BY <2>2, <2>5, <2>6, <4>2
        <5> QED BY <2>3, <4>2, <5>1 DEF Grew
      <4> QED BY <4>1, <4>2
    <3> QED BY <2>5, <3>2, <3>3, <3>4 DEF Loaded, r
  <2>7. CASE ~(~a.ok \/ (end = 0 /\ a.s.sz = 0))
    <3>1. PICK v : v = [a EXCEPT !.s.sz = top]
      OBVIOUS
    <3>2. r = v
      BY <2>2, <2>4, <2>5, <2>7, <3>1
    <3>3. /\ v \in MemState /\ Whole(v, E) /\ v.s.sz = top /\ v.s.trapframe = a.s.trapframe
          /\ v.s.leaf = a.s.leaf
      BY <2>5, <3>1, SizeGives
    <3>4. Ready(v.s, Mem!PGROUNDUP(v.s.sz))
      BY <2>3, <2>7, <3>3 DEF Grew, Ready
    <3> QED BY <2>5, <3>2, <3>3, <3>4 DEF Loaded, r
  <2> QED BY <2>6, <2>7
<1> QED BY <1>1, <1>2

\* The states of the rounds.
SegmentStates(n, m, prog, K) ==
    n = [i \in 0..K |-> IF i = 0 THEN m ELSE Mem!Segment(n[i - 1], prog[i])]

LEMMA SegmentRounds ==
    ASSUME NEW m, NEW prog, NEW K \in Nat
    PROVE  \E n : SegmentStates(n, m, prog, K)
<1> DEFINE Round(s, i) == Mem!Segment(s, prog[i])
           Is(n, k) == n = [i \in 0..k |-> IF i = 0 THEN m ELSE Round(n[i - 1], i)]
           T == {k \in Nat : ~\E n : Is(n, k)}
<1>1. ASSUME T # {} PROVE FALSE
  <2>1. PICK k \in T : \A j \in T : k <= j
    BY <1>1, LeastOfPages
  <2> HIDE DEF Round
  <2>2. CASE k = 0
    <3>1. Is([i \in 0..0 |-> m], 0)
      OBVIOUS
    <3> QED BY <2>2, <3>1
  <2>3. CASE k # 0
    <3>1. k - 1 \in Nat /\ k - 1 \notin T
      BY <2>1, <2>3
    <3>2. PICK n : Is(n, k - 1)
      BY <3>1
    <3> DEFINE q == [i \in 0..k |-> IF i = k THEN Round(n[k - 1], k) ELSE n[i]]
    <3>3. Is(q, k)
      BY <2>3, <3>2
    <3> QED BY <3>3
  <2> QED BY <2>2, <2>3
<1>2. K \notin T
  BY <1>1
<1>3. PICK n : Is(n, K)
  BY <1>2
<1> QED BY <1>3 DEF SegmentStates

LEMMA SegmentsGive ==
    ASSUME Mem!MemoryAssumption, NEW m, NEW E, NEW prog \in Seq(Nat), Loaded(m, m, E)
    PROVE  Loaded(m, Mem!Segments(m, prog), E)
<1> DEFINE K == Len(prog)
           n == CHOOSE n : SegmentStates(n, m, prog, K)
           T == {i \in 0..K : ~Loaded(m, n[i], E)}
<1>0. K \in Nat /\ \A i \in 1..K : prog[i] \in Nat
  OBVIOUS
<1>1. Mem!Segments(m, prog) = n[K]
  BY DEF Mem!Segments, SegmentStates
<1>2. n = [i \in 0..K |-> IF i = 0 THEN m ELSE Mem!Segment(n[i - 1], prog[i])]
  <2>1. SegmentStates(n, m, prog, K)
    BY <1>0, SegmentRounds
  <2> QED BY <2>1 DEF SegmentStates
<1> HIDE DEF n, K
<1>3. ASSUME T # {} PROVE FALSE
  <2>1. T \in SUBSET Nat
    OBVIOUS
  <2>2. PICK i \in T : \A j \in T : i <= j
    BY <1>3, <2>1, LeastOfPages
  <2>3. CASE i = 0
    BY <1>0, <1>2, <2>2, <2>3
  <2>4. CASE i # 0
    <3>1. i \in 1..K /\ i - 1 \in 0..K /\ i - 1 \notin T
      BY <1>0, <2>2, <2>4
    <3>2. Loaded(m, n[i - 1], E) /\ prog[i] \in Nat
      BY <1>0, <3>1
    <3>3. Loaded(m, Mem!Segment(n[i - 1], prog[i]), E)
      BY <3>2, SegmentGives
    <3>4. n[i] = Mem!Segment(n[i - 1], prog[i])
      BY <1>2, <3>1
    <3> QED BY <2>2, <3>3, <3>4
  <2> QED BY <2>3, <2>4
<1>4. K \in 0..K /\ K \notin T
  BY <1>0, <1>3
<1> QED BY <1>1, <1>4

LEMMA StackGives ==
    ASSUME Mem!MemoryAssumption, NEW m, NEW w, NEW E, Loaded(m, w, E), w.ok
    PROVE  Loaded(m, Mem!Stack(w), E)
<1>0. w \in MemState /\ Whole(w, E) /\ w.s.trapframe = m.s.trapframe /\ Ready(w.s, Mem!PGROUNDUP(w.s.sz))
  BY DEF Loaded
<1>1. PICK q \in Nat : q = Mem!PGROUNDUP(w.s.sz)
  BY <1>0 DEF Ready
<1>2. PICK sz \in Nat : sz = q * PGSIZE
  BY RoundedSome
<1>3. PICK top \in Nat : top = sz + 2 * PGSIZE
  BY MemConstants
<1>4. Mem!PGROUNDUP(sz) = q /\ Mem!PGROUNDUP(top) = q + 2 /\ ~(top < sz)
  <2>1. Mem!PGROUNDUP(sz) = q /\ Mem!PGROUNDUP(top) = q + 2
    BY <1>2, <1>3, RoundedSome
  <2> QED BY <1>3, <2>1, MemConstants
<1>5. PICK u : u = [w EXCEPT !.s.sz = sz]
  OBVIOUS
<1>6. /\ u \in MemState /\ Whole(u, E) /\ u.ok = w.ok /\ u.s.sz = sz /\ u.s.trapframe = w.s.trapframe
      /\ u.s.leaf = w.s.leaf
  BY <1>0, <1>5, SizeGives
<1>7. PICK a : a = Mem!uvmalloc(u, sz, top)
  OBVIOUS
<1>8. Grew(u, a, E, q, q + 2)
  <2>1. Ready(u.s, Mem!PGROUNDUP(sz))
    BY <1>0, <1>1, <1>4, <1>6 DEF Ready
  <2>2. Grew(u, Mem!uvmalloc(u, sz, top), E, Mem!PGROUNDUP(sz), Mem!PGROUNDUP(IF top < sz THEN sz ELSE top))
    BY <1>6, <2>1, UvmallocGives
  <2> QED BY <1>4, <1>7, <2>2
<1>9. Mem!Stack(w) = IF a.ok THEN [a EXCEPT !.s.sz = top] ELSE a
  BY <1>1, <1>2, <1>3, <1>5, <1>7 DEF Mem!Stack
<1>10. a \in MemState /\ Whole(a, E) /\ a.s.sz = sz /\ a.s.trapframe = m.s.trapframe
  BY <1>0, <1>6, <1>8 DEF Grew, SameHead
<1>11. CASE ~a.ok
  BY <1>4, <1>8, <1>9, <1>10, <1>11 DEF Grew, Loaded
<1>12. CASE a.ok
  <2>1. PICK v : v = [a EXCEPT !.s.sz = top]
    OBVIOUS
  <2>2. /\ v \in MemState /\ Whole(v, E) /\ v.s.sz = top /\ v.s.trapframe = a.s.trapframe
        /\ v.s.leaf = a.s.leaf
    BY <1>10, <2>1, SizeGives
  <2>3. Ready(v.s, Mem!PGROUNDUP(v.s.sz))
    BY <1>4, <1>8, <1>12, <2>2 DEF Grew, Ready
  <2> QED BY <1>9, <1>10, <1>12, <2>1, <2>2, <2>3 DEF Loaded
<1> QED BY <1>11, <1>12

-----------------------------------------------------------------------------
\* A process changes its address space for another with the same trapframe, whose pages
\* the free list so far took for somebody else's.
LEMMA SwapGives ==
    ASSUME NEW m \in MemState, NEW E, NEW s \in MemSpace, Whole(m, E \cup Tables(s) \cup Leaves(s)),
           s.trapframe = m.s.trapframe, Good(s), E \cap Own(s) = {}
    PROVE  LET r == [m EXCEPT !.s = s]
           IN  /\ r \in MemState /\ r.s = s /\ r.ok = m.ok
               /\ Whole(r, E \cup Tables(m.s) \cup Leaves(m.s))
<1>1. PICK r : r = [m EXCEPT !.s = s]
  OBVIOUS
<1>2. r \in MemState /\ r.s = s /\ r.ok = m.ok /\ r.free = m.free /\ r.panic = m.panic
  BY <1>1 DEF MemState
<1> DEFINE A == Tables(m.s) \cup Leaves(m.s)
           B == Tables(s) \cup Leaves(s)
           F == Frame(s)
<1>3. Frame(m.s) = F /\ Own(m.s) = A \cup F /\ Own(s) = B \cup F
  BY DEF Frame, Own
<1>4. Whole(m, E \cup B)
  <2>1. E \cup Tables(s) \cup Leaves(s) = E \cup B
    OBVIOUS
  <2> QED BY <2>1
<1>5. SUFFICES Whole(r, E \cup A)
  <2>1. E \cup Tables(m.s) \cup Leaves(m.s) = E \cup A
    OBVIOUS
  <2> QED BY <1>1, <1>2, <2>1
<1>6. A \cap F = {}
  BY <1>3, <1>4 DEF Whole, Good
<1> HIDE DEF A, B, F
<1>7. /\ ~m.panic /\ E \cup B \subseteq Mem!Page /\ (E \cup B) \cap (A \cup F) = {}
      /\ \A x \in Mem!Page : m.free[x] = IF x \in (E \cup B) \cup (A \cup F) THEN 0 ELSE 1
  BY <1>3, <1>4 DEF Whole
<1>8. A \subseteq Mem!Page
  <2>1. Tables(m.s) \subseteq Mem!Page
    BY TableIs DEF Tables, MemState, MemSpace
  <2>2. Leaves(m.s) \subseteq Mem!Page
    BY <1>4 DEF Leaves, Whole, Good
  <2> QED BY <2>1, <2>2 DEF A
<1>9. (E \cup A) \cap (B \cup F) = {}
  BY <1>3, <1>6, <1>7
<1>10. \A x \in Mem!Page : r.free[x] = IF x \in (E \cup A) \cup Own(r.s) THEN 0 ELSE 1
  BY <1>2, <1>3, <1>7
<1> QED BY <1>2, <1>3, <1>7, <1>8, <1>9, <1>10 DEF Whole

\* exec() that frees the new page table, or the old one.
LEMMA ReplacedGives ==
    ASSUME Mem!MemoryAssumption, NEW n \in MemState, NEW E, NEW s \in MemSpace,
           Whole(n, E \cup Tables(s) \cup Leaves(s)), s.trapframe = n.s.trapframe, Good(s),
           E \cap Own(s) = {}, Ready(n.s, Mem!PGROUNDUP(n.s.sz))
    PROVE  LET r == [Mem!proc_freepagetable(n, n.s.sz) EXCEPT !.s = s]
           IN  r \in MemState /\ r.s = s /\ Whole(r, E)
<1>1. PICK f : f = Mem!proc_freepagetable(n, n.s.sz)
  OBVIOUS
<1>2. PICK sz \in Nat : sz = n.s.sz
  BY DEF MemState, MemSpace
<1>3. Freed(n, f, E \cup Tables(s) \cup Leaves(s))
  BY <1>1, <1>2, FreePagetableGives
<1>4. f \in MemState /\ s.trapframe = f.s.trapframe /\ Whole(f, E \cup Tables(s) \cup Leaves(s))
  BY <1>3 DEF Freed, SameHead
<1>5. Tables(f.s) = {} /\ Leaves(f.s) = {}
  BY <1>3, NothingIs DEF Freed, Tables, User, Leaves
<1>6. PICK r : r = [f EXCEPT !.s = s]
  OBVIOUS
<1>7. r \in MemState /\ r.s = s /\ Whole(r, E \cup Tables(f.s) \cup Leaves(f.s))
  BY <1>4, <1>6, SwapGives
<1>8. E \cup Tables(f.s) \cup Leaves(f.s) = E
  BY <1>5
<1> QED BY <1>1, <1>6, <1>7, <1>8

\* A process with all its memory.
Kept(r, E) == r \in MemState /\ Whole(r, E) /\ Complete(r.s)

LEMMA ExecMemoryGives ==
    ASSUME Mem!MemoryAssumption, NEW m \in MemState, NEW E, Whole(m, E), m.ok, Complete(m.s),
           NEW prog \in Program, NEW fault
    PROVE  Kept(Mem!ExecMemory(m, m.s, prog, fault), E)
<1>1. PICK old \in MemSpace : old = m.s
  BY DEF MemState
<1>2. prog \in Seq(Nat) /\ old.trapframe \in Mem!Page
  BY <1>1 DEF Mem!MemoryAssumption, Complete
<1> DEFINE O == E \cup Tables(old) \cup Leaves(old)
           blank == [Mem!NoSpace EXCEPT !.trapframe = old.trapframe]
<1>3. PICK h : h = [m EXCEPT !.s = blank]
  OBVIOUS
<1>4. blank \in MemSpace /\ blank.trapframe = old.trapframe /\ blank.table = Mem!Nothing
      /\ blank.leaf = Mem!Nothing /\ blank.sz = 0
  BY <1>1, <1>2, NothingIs DEF MemSpace, Mem!NoSpace
<1> HIDE DEF blank
<1>5. Tables(blank) = {} /\ Leaves(blank) = {} /\ User(blank) = {} /\ Frame(blank) = Frame(old)
  BY <1>4, NothingIs DEF Tables, User, Leaves, Frame
<1>6. Good(old) /\ E \cap Own(old) = {} /\ Good(blank) /\ E \cap Own(blank) = {}
  <2>1. Good(old) /\ E \cap Own(old) = {}
    BY <1>1 DEF Whole
  <2>2. Good(blank)
    BY <1>4, <1>5, NothingIs DEF Good
  <2> QED BY <1>5, <2>1, <2>2 DEF Own
<1>7. h \in MemState /\ h.s = blank /\ h.ok /\ Whole(h, O)
  <2>1. Whole(m, E \cup Tables(blank) \cup Leaves(blank))
    <3>1. E \cup Tables(blank) \cup Leaves(blank) = E
      BY <1>5
    <3> QED BY <3>1
  <2>2. PICK c \in MemSpace : c = blank
    BY <1>4
  <2>3. /\ [m EXCEPT !.s = c] \in MemState /\ [m EXCEPT !.s = c].s = c /\ [m EXCEPT !.s = c].ok = m.ok
        /\ Whole([m EXCEPT !.s = c], E \cup Tables(m.s) \cup Leaves(m.s))
    <3>1. /\ Whole(m, E \cup Tables(c) \cup Leaves(c)) /\ c.trapframe = m.s.trapframe /\ Good(c)
          /\ E \cap Own(c) = {}
      BY <1>1, <1>4, <1>6, <2>1, <2>2
    <3> QED BY <3>1, SwapGives, Zenon
  <2>4. h = [m EXCEPT !.s = c]
    BY <1>3, <2>2
  <2>5. h \in MemState /\ h.s = c /\ h.ok = m.ok /\ Whole(h, E \cup Tables(old) \cup Leaves(old))
    BY <1>1, <2>3, <2>4
  <2> QED BY <2>2, <2>5
<1>8. PICK n : n = Mem!proc_pagetable(h)
  OBVIOUS
<1>9. Tabled(h, n, O)
  BY <1>2, <1>4, <1>7, <1>8, ProcPagetableGives
<1>10. n \in MemState /\ Whole(n, O) /\ n.s.trapframe = old.trapframe /\ n.s.sz = 0
  BY <1>4, <1>7, <1>9 DEF Tabled, SameHead
<1> DEFINE Bad(x)    == [Mem!proc_freepagetable(x, x.s.sz) EXCEPT !.s = old, !.ok = FALSE]
           Commit(x) == [Mem!proc_freepagetable([x EXCEPT !.s = old], old.sz) EXCEPT !.s = x.s]
           Args(x)   == IF x.ok /\ fault # "args" THEN Commit(x) ELSE Bad(x)
           Load(x)   == IF x.ok /\ fault # "read" THEN Args(Mem!Stack(x)) ELSE Bad(x)
           r         == Mem!ExecMemory(m, old, prog, fault)
<1>11. r = IF n.ok THEN Load(Mem!Segments(n, prog)) ELSE [n EXCEPT !.s = old]
  BY <1>3, <1>8 DEF Mem!ExecMemory, blank
<1>12. ASSUME NEW x, Loaded(n, x, O) PROVE Kept(Bad(x), E)
  <2>1. PICK f : f = [Mem!proc_freepagetable(x, x.s.sz) EXCEPT !.s = old]
    OBVIOUS
  <2>2. x \in MemState /\ Whole(x, O) /\ old.trapframe = x.s.trapframe /\ Ready(x.s, Mem!PGROUNDUP(x.s.sz))
    BY <1>10, <1>12 DEF Loaded
  <2>3. f \in MemState /\ f.s = old /\ Whole(f, E)
    BY <1>6, <2>1, <2>2, ReplacedGives
  <2>4. PICK g : g = [f EXCEPT !.ok = FALSE]
    OBVIOUS
  <2>5. Bad(x) = g
    BY <2>1, <2>4
  <2>6. g \in MemState /\ g.s = f.s /\ g.free = f.free /\ g.panic = f.panic
    BY <2>3, <2>4 DEF MemState
  <2>7. Whole(g, E)
    BY <2>3, <2>6 DEF Whole
  <2> HIDE DEF Bad
  <2> QED BY <1>1, <2>3, <2>5, <2>6, <2>7 DEF Kept
<1>13. ASSUME NEW x, Loaded(n, x, O) PROVE Kept(Commit(x), E)
  <2>1. PICK new \in MemSpace : new = x.s
    BY <1>13 DEF Loaded, MemState
  <2>2. x \in MemState /\ Whole(x, O) /\ old.trapframe = x.s.trapframe /\ Complete(new)
    BY <1>2, <1>10, <1>13, <2>1 DEF Loaded, Complete
  <2>3. PICK u : u = [x EXCEPT !.s = old]
    OBVIOUS
  <2>4. u \in MemState /\ u.s = old /\ Whole(u, E \cup Tables(new) \cup Leaves(new))
    <3>1. Whole(x, E \cup Tables(old) \cup Leaves(old))
      BY <2>2
    <3>2. x \in MemState /\ old.trapframe = x.s.trapframe /\ Good(old) /\ E \cap Own(old) = {}
      BY <1>6, <2>2
    <3>3. LET q == [x EXCEPT !.s = old]
          IN  /\ q \in MemState /\ q.s = old /\ q.ok = x.ok
              /\ Whole(q, E \cup Tables(x.s) \cup Leaves(x.s))
      BY <3>1, <3>2, SwapGives, Zenon
    <3> QED BY <2>1, <2>3, <3>3
  <2>5. Good(new) /\ E \cap Own(new) = {} /\ new.trapframe = u.s.trapframe
    BY <2>1, <2>2, <2>4 DEF Whole
  <2>6. Ready(u.s, Mem!PGROUNDUP(u.s.sz))
    BY <1>1, <2>4 DEF Complete
  <2>7. PICK f : f = [Mem!proc_freepagetable(u, u.s.sz) EXCEPT !.s = new]
    OBVIOUS
  <2>8. f \in MemState /\ f.s = new /\ Whole(f, E)
    BY <2>4, <2>5, <2>6, <2>7, ReplacedGives
  <2>9. Commit(x) = f
    BY <2>1, <2>3, <2>4, <2>7
  <2> HIDE DEF Commit
  <2> QED BY <2>2, <2>8, <2>9 DEF Kept
<1>14. CASE ~n.ok
  <2>1. PICK g : g = [n EXCEPT !.s = old]
    OBVIOUS
  <2>2. g \in MemState /\ g.s = old /\ Whole(g, E \cup Tables(n.s) \cup Leaves(n.s))
    <3>1. /\ n \in MemState /\ Whole(n, E \cup Tables(old) \cup Leaves(old)) /\ old.trapframe = n.s.trapframe
          /\ Good(old) /\ E \cap Own(old) = {}
      BY <1>6, <1>10
    <3>2. LET q == [n EXCEPT !.s = old]
          IN  /\ q \in MemState /\ q.s = old /\ q.ok = n.ok
              /\ Whole(q, E \cup Tables(n.s) \cup Leaves(n.s))
      BY <3>1, SwapGives, Zenon
    <3> QED BY <2>1, <3>2
  <2>3. Tables(n.s) = {} /\ Leaves(n.s) = {}
    BY <1>9, <1>14, NothingIs DEF Tabled, Tables, User, Leaves
  <2>4. E \cup Tables(n.s) \cup Leaves(n.s) = E
    BY <2>3
  <2>5. r = g
    BY <1>11, <1>14, <2>1
  <2> HIDE DEF r
  <2> QED BY <1>1, <2>2, <2>4, <2>5 DEF Kept, r
<1>15. CASE n.ok
  <2>1. Loaded(n, n, O)
    BY <1>9, <1>10, <1>15, RoundedSome DEF Tabled, Loaded
  <2>2. PICK l : l = Mem!Segments(n, prog)
    OBVIOUS
  <2>3. Loaded(n, l, O)
    BY <1>2, <2>1, <2>2, SegmentsGive
  <2>4. r = Load(l)
    BY <1>11, <1>15, <2>2
  <2> HIDE DEF r, Bad, Commit
  <2>5. CASE ~(l.ok /\ fault # "read")
    BY <1>1, <1>12, <2>3, <2>4, <2>5 DEF r
  <2>6. CASE l.ok /\ fault # "read"
    <3>1. Loaded(n, Mem!Stack(l), O)
      BY <2>3, <2>6, StackGives
    <3>2. r = Commit(Mem!Stack(l)) \/ r = Bad(Mem!Stack(l))
      BY <2>4, <2>6
    <3> QED BY <1>1, <1>12, <1>13, <3>1, <3>2 DEF r
  <2> QED BY <2>5, <2>6
<1> QED BY <1>14, <1>15

-----------------------------------------------------------------------------
\* The pages that a process must not take: the other processes' and the pipes'.
Others(p) == pipes \cup UNION {Own(space[q]) : q \in Proc \ {p}}

\* The inductive invariant: a process has a whole address space or nothing, no two of them
\* and no pipe have a page in common, and the free list has what is left, once.
MemInv ==
    /\ pagefree \in [Mem!Page -> Nat] /\ space \in [Proc -> MemSpace] /\ alive \subseteq Proc
    /\ pipes \subseteq Mem!Page /\ mempanic = FALSE
    /\ \A p \in alive : Complete(space[p])
    /\ \A p \in Proc \ alive : space[p] = Mem!NoSpace
    /\ \A p \in Proc : Good(space[p]) /\ Own(space[p]) \cap pipes = {}
    /\ \A p, q \in Proc : p # q => Own(space[p]) \cap Own(space[q]) = {}
    /\ \A x \in Mem!Page :
           pagefree[x] = IF x \in pipes \cup UNION {Own(space[p]) : p \in Proc} THEN 0 ELSE 1

LEMMA OwnPages ==
    ASSUME Mem!MemoryAssumption, NEW s \in MemSpace, Good(s)
    PROVE  Own(s) \subseteq Mem!Page
<1>1. Tables(s) \subseteq Mem!Page
  BY TableIs DEF Tables, MemSpace
<1>2. Leaves(s) \subseteq Mem!Page
  BY DEF Leaves, Good
<1>3. Frame(s) \subseteq Mem!Page
  BY DEF Frame, MemSpace
<1> QED BY <1>1, <1>2, <1>3 DEF Own

LEMMA NoSpaceIs ==
    /\ Mem!NoSpace \in MemSpace /\ Good(Mem!NoSpace) /\ Own(Mem!NoSpace) = {}
    /\ Mem!NoSpace.trapframe = NULL /\ Mem!NoSpace.table = Mem!Nothing /\ Mem!NoSpace.leaf = Mem!Nothing
<1>1. /\ Mem!NoSpace \in MemSpace /\ Mem!NoSpace.trapframe = NULL /\ Mem!NoSpace.table = Mem!Nothing
      /\ Mem!NoSpace.leaf = Mem!Nothing
  BY NothingIs DEF Mem!NoSpace, MemSpace
<1>2. PICK s \in MemSpace : s = Mem!NoSpace
  BY <1>1
<1>3. Tables(s) = {} /\ Leaves(s) = {} /\ Frame(s) = {} /\ User(s) = {}
  BY <1>1, <1>2, NothingIs DEF Tables, Leaves, Frame, User
<1>4. Good(s) /\ Own(s) = {}
  BY <1>1, <1>2, <1>3, NothingIs DEF Good, Own
<1> QED BY <1>1, <1>2, <1>4

\* What a system call finds.
LEMMA StateGives ==
    ASSUME Mem!MemoryAssumption, MemInv, NEW p \in Proc
    PROVE  /\ Mem!State(p) \in MemState /\ Mem!State(p).s = space[p] /\ Mem!State(p).ok
           /\ Whole(Mem!State(p), Others(p))
<1>1. PICK m : m = Mem!State(p)
  OBVIOUS
<1>2. /\ m \in MemState /\ m.s = space[p] /\ m.ok /\ m.free = pagefree /\ m.panic = FALSE
  <2>1. m = [free |-> pagefree, s |-> space[p], ok |-> TRUE, got |-> NULL, panic |-> FALSE]
    BY <1>1 DEF Mem!State
  <2> QED BY <2>1 DEF MemInv, MemState
<1>3. Others(p) \subseteq Mem!Page
  <2>1. \A q \in Proc : Own(space[q]) \subseteq Mem!Page
    BY OwnPages DEF MemInv
  <2> QED BY <2>1 DEF Others, MemInv
<1>4. Others(p) \cap Own(space[p]) = {}
  BY DEF Others, MemInv
<1>5. Others(p) \cup Own(space[p]) = pipes \cup UNION {Own(space[q]) : q \in Proc}
  BY DEF Others
<1>6. Whole(m, Others(p))
  BY <1>2, <1>3, <1>4, <1>5 DEF Whole, MemInv
<1> QED BY <1>1, <1>2, <1>6

\* What it leaves.
LEMMA PutGives ==
    ASSUME Mem!MemoryAssumption, MemInv, NEW p \in Proc, NEW m \in MemState, Whole(m, Others(p)),
           Mem!Put(p, m), UNCHANGED pipes, alive' \subseteq Proc, p \in alive' => Complete(m.s),
           p \notin alive' => m.s = Mem!NoSpace, \A q \in Proc \ {p} : q \in alive' <=> q \in alive
    PROVE  MemInv'
<1>1. PICK s \in MemSpace : s = m.s
  BY DEF MemState
<1>2. /\ pagefree' = m.free /\ space' = [space EXCEPT ![p] = s] /\ mempanic' = m.panic
  BY <1>1 DEF Mem!Put
<1>3. /\ space' \in [Proc -> MemSpace] /\ space'[p] = s /\ \A q \in Proc \ {p} : space'[q] = space[q]
  BY <1>2 DEF MemInv
<1>4. Good(s) /\ Others(p) \cap Own(s) = {} /\ ~m.panic /\ m.panic \in BOOLEAN /\ m.free \in [Mem!Page -> Nat]
  BY <1>1 DEF Whole, MemState
<1>5. pagefree' \in [Mem!Page -> Nat] /\ pipes' \subseteq Mem!Page /\ mempanic' = FALSE
  BY <1>2, <1>4 DEF MemInv
<1>6. \A q \in alive' : Complete(space'[q])
  BY <1>1, <1>3 DEF MemInv
<1>7. \A q \in Proc \ alive' : space'[q] = Mem!NoSpace
  BY <1>1, <1>3 DEF MemInv
<1>8. \A q \in Proc : Good(space'[q]) /\ Own(space'[q]) \cap pipes' = {}
  BY <1>3, <1>4 DEF MemInv, Others
<1>9. \A q \in Proc \ {p} : Own(space'[q]) \cap Own(s) = {}
  BY <1>3, <1>4 DEF Others
<1>10. \A q, u \in Proc : q # u => Own(space'[q]) \cap Own(space'[u]) = {}
  BY <1>3, <1>9 DEF MemInv
<1>11. Others(p) \cup Own(s) = pipes' \cup UNION {Own(space'[q]) : q \in Proc}
  <2>1. (UNION {Own(space'[q]) : q \in Proc}) = Own(s) \cup UNION {Own(space[q]) : q \in Proc \ {p}}
    <3>1. \A q \in Proc \ {p} : Own(space'[q]) = Own(space[q])
      BY <1>3
    <3>2. Own(space'[p]) = Own(s)
      BY <1>3
    <3> QED BY <3>1, <3>2
  <2> QED BY <2>1 DEF Others
<1>12. \A x \in Mem!Page :
           pagefree'[x] = IF x \in pipes' \cup UNION {Own(space'[q]) : q \in Proc} THEN 0 ELSE 1
  BY <1>1, <1>2, <1>11 DEF Whole
<1> QED BY <1>3, <1>5, <1>6, <1>7, <1>8, <1>10, <1>12 DEF MemInv

LEMMA ForkKeeps ==
    ASSUME Mem!MemoryAssumption, MemInv, NEW p \in Proc, NEW q \in Proc, Mem!Fork(p, q)
    PROVE  MemInv'
<1>1. PICK old : old = space[p]
  OBVIOUS
<1>2. PICK m : m = Mem!ForkMemory(Mem!State(q), old)
  OBVIOUS
<1>3. /\ p \in alive /\ q \notin alive /\ Mem!Put(q, m) /\ UNCHANGED pipes
      /\ alive' = IF m.ok THEN alive \cup {q} ELSE alive
  BY <1>1, <1>2 DEF Mem!Fork
<1>4. old.sz \in Nat /\ Complete(old)
  <2>1. old \in MemSpace
    BY <1>1 DEF MemInv
  <2> QED BY <1>1, <1>3, <2>1 DEF MemInv, MemSpace
<1>5. Mem!State(q).s = Mem!NoSpace
  BY <1>3, StateGives DEF MemInv
<1>6. Born(m, Others(q))
  BY <1>2, <1>4, <1>5, StateGives, ForkMemoryGives
<1>7. alive' \subseteq Proc /\ \A u \in Proc \ {q} : u \in alive' <=> u \in alive
  BY <1>3 DEF MemInv
<1>8. (q \in alive' => Complete(m.s)) /\ (q \notin alive' => m.s = Mem!NoSpace)
  BY <1>3, <1>6 DEF Born
<1> QED BY <1>3, <1>6, <1>7, <1>8, PutGives DEF Born

LEMMA WaitKeeps ==
    ASSUME Mem!MemoryAssumption, MemInv, NEW q \in Proc, Mem!Wait(q)
    PROVE  MemInv'
<1>1. PICK m : m = Mem!freeproc(Mem!State(q))
  OBVIOUS
<1>2. q \in alive /\ Mem!Put(q, m) /\ UNCHANGED pipes /\ alive' = alive \ {q}
  BY <1>1 DEF Mem!Wait
<1>3. Ready(Mem!State(q).s, Mem!PGROUNDUP(Mem!State(q).s.sz))
  BY <1>2, StateGives DEF MemInv, Complete
<1>4. Emptied(Mem!State(q), m, Others(q))
  BY <1>1, <1>3, StateGives, FreeprocGives
<1>5. alive' \subseteq Proc /\ q \notin alive' /\ \A u \in Proc \ {q} : u \in alive' <=> u \in alive
  BY <1>2 DEF MemInv
<1> QED BY <1>2, <1>4, <1>5, PutGives DEF Emptied

\* A process in use that stays so.
LEMMA StaysGives ==
    ASSUME Mem!MemoryAssumption, MemInv, NEW p \in alive, NEW m, Kept(m, Others(p)), Mem!Put(p, m),
           UNCHANGED <<alive, pipes>>
    PROVE  MemInv'
<1>1. p \in Proc /\ alive' = alive /\ alive' \subseteq Proc /\ p \in alive' /\ pipes' = pipes
  BY DEF MemInv
<1>2. m \in MemState /\ Whole(m, Others(p)) /\ Complete(m.s)
  BY DEF Kept
<1> QED BY <1>1, <1>2, PutGives

LEMMA ExecKeeps ==
    ASSUME Mem!MemoryAssumption, MemInv, NEW p \in Proc, NEW prog \in Program, NEW fault,
           Mem!Exec(p, prog, fault)
    PROVE  MemInv'
<1>1. PICK s : s = Mem!State(p)
  OBVIOUS
<1>2. PICK m : m = Mem!ExecMemory(s, s.s, prog, fault)
  OBVIOUS
<1>3. s \in MemState /\ s.s = space[p] /\ s.ok /\ Whole(s, Others(p))
  BY <1>1, StateGives
<1>4. p \in alive /\ Mem!Put(p, m) /\ UNCHANGED <<alive, pipes>>
  BY <1>1, <1>2, <1>3 DEF Mem!Exec
<1>5. Complete(s.s)
  BY <1>3, <1>4 DEF MemInv
<1>6. Kept(m, Others(p))
  BY <1>2, <1>3, <1>5, ExecMemoryGives
<1> QED BY <1>4, <1>6, StaysGives

LEMMA GrowKeeps ==
    ASSUME Mem!MemoryAssumption, MemInv, NEW p \in Proc, NEW n \in Nat, Mem!Grow(p, n)
    PROVE  MemInv'
<1>1. PICK s : s = Mem!State(p)
  OBVIOUS
<1>2. s \in MemState /\ s.s = space[p] /\ s.ok /\ Whole(s, Others(p))
  BY <1>1, StateGives
<1>3. PICK sz \in Nat : sz = space[p].sz
  BY <1>2 DEF MemState, MemSpace
<1>4. PICK top \in Nat : top = sz + n /\ ~(top < sz)
  <2>1. sz + n \in Nat /\ ~(sz + n < sz)
    OBVIOUS
  <2> QED BY <2>1
<1>5. PICK a : a = Mem!uvmalloc(s, sz, top)
  OBVIOUS
<1>6. PICK m : m = IF a.ok THEN [a EXCEPT !.s.sz = @ + n] ELSE a
  OBVIOUS
<1>7. p \in alive /\ Mem!Put(p, m) /\ UNCHANGED <<alive, pipes>>
  BY <1>1, <1>3, <1>4, <1>5, <1>6 DEF Mem!Grow
<1>8. space[p].trapframe \in Mem!Page /\ Ready(s.s, Mem!PGROUNDUP(sz))
  BY <1>2, <1>3, <1>7 DEF MemInv, Complete
<1>9. Grew(s, a, Others(p), Mem!PGROUNDUP(sz), Mem!PGROUNDUP(top))
  <2>1. Grew(s, Mem!uvmalloc(s, sz, top), Others(p), Mem!PGROUNDUP(sz),
             Mem!PGROUNDUP(IF top < sz THEN sz ELSE top))
    BY <1>2, <1>8, UvmallocGives
  <2> QED BY <1>4, <1>5, <2>1
<1>10. a \in MemState /\ Whole(a, Others(p)) /\ a.s.sz = sz /\ a.s.trapframe \in Mem!Page
  BY <1>2, <1>3, <1>8, <1>9 DEF Grew, SameHead
<1>11. Kept(m, Others(p))
  <2>1. CASE ~a.ok
    BY <1>6, <1>9, <1>10, <2>1 DEF Kept, Complete, Grew
  <2>2. CASE a.ok
    <3>1. m = [a EXCEPT !.s.sz = top]
      BY <1>4, <1>6, <1>10, <2>2
    <3>2. /\ m \in MemState /\ Whole(m, Others(p)) /\ m.s.sz = top /\ m.s.trapframe = a.s.trapframe
          /\ m.s.leaf = a.s.leaf
      BY <1>10, <3>1, SizeGives
    <3>3. Ready(m.s, Mem!PGROUNDUP(m.s.sz))
      BY <1>9, <2>2, <3>2 DEF Grew, Ready
    <3> QED BY <1>10, <3>2, <3>3 DEF Kept, Complete
  <2> QED BY <2>1, <2>2
<1> QED BY <1>7, <1>11, StaysGives

LEMMA ShrinkKeeps ==
    ASSUME Mem!MemoryAssumption, MemInv, NEW p \in Proc, NEW n \in Nat, Mem!Shrink(p, n)
    PROVE  MemInv'
<1>1. PICK s : s = Mem!State(p)
  OBVIOUS
<1>2. s \in MemState /\ s.s = space[p] /\ s.ok /\ Whole(s, Others(p))
  BY <1>1, StateGives
<1>3. PICK sz \in Nat : sz = space[p].sz
  BY <1>2 DEF MemState, MemSpace
<1>4. p \in alive /\ n <= sz /\ UNCHANGED <<alive, pipes>>
  BY <1>3 DEF Mem!Shrink
<1>5. PICK low \in Nat : low = sz - n /\ low <= sz
  <2>1. sz - n \in Nat /\ sz - n <= sz
    BY <1>4
  <2> QED BY <2>1
<1>6. PICK a : a = Mem!uvmdealloc(s, sz, low)
  OBVIOUS
<1>7. PICK m : m = [a EXCEPT !.s.sz = low]
  OBVIOUS
<1>8. Mem!Put(p, m)
  BY <1>1, <1>3, <1>5, <1>6, <1>7 DEF Mem!Shrink
<1>9. space[p].trapframe \in Mem!Page /\ Ready(s.s, Mem!PGROUNDUP(sz))
  BY <1>2, <1>3, <1>4 DEF MemInv, Complete
<1>10. a \in MemState /\ Whole(a, Others(p)) /\ SameHead(s, a) /\ Ready(a.s, Mem!PGROUNDUP(low))
  BY <1>2, <1>5, <1>6, <1>9, UvmdeallocGives
<1>11. /\ m \in MemState /\ Whole(m, Others(p)) /\ m.s.sz = low /\ m.s.trapframe = a.s.trapframe
       /\ m.s.leaf = a.s.leaf
  BY <1>7, <1>10, SizeGives
<1>12. Kept(m, Others(p))
  BY <1>2, <1>9, <1>10, <1>11 DEF Kept, Complete, Ready, SameHead
<1> QED BY <1>4, <1>8, <1>12, StaysGives

\* All pages that have a user.
Used == pipes \cup UNION {Own(space[p]) : p \in Proc}

LEMMA UsedIs ==
    ASSUME Mem!MemoryAssumption, MemInv
    PROVE  /\ Used \subseteq Mem!Page /\ pagefree \in [Mem!Page -> Nat]
           /\ \A x \in Mem!Page : pagefree[x] = IF x \in Used THEN 0 ELSE 1
<1>1. \A q \in Proc : Own(space[q]) \subseteq Mem!Page
  BY OwnPages DEF MemInv
<1> QED BY <1>1 DEF Used, MemInv

\* A process's memory may stay while a pipe's page comes or goes.
LEMMA PipesGive ==
    ASSUME Mem!MemoryAssumption, MemInv, UNCHANGED <<space, alive, mempanic>>,
           pagefree' \in [Mem!Page -> Nat], pipes' \subseteq Mem!Page, pipes' \cap (Used \ pipes) = {},
           \A x \in Mem!Page : pagefree'[x] = IF x \in pipes' \cup (Used \ pipes) THEN 0 ELSE 1
    PROVE  MemInv'
<1>1. \A p \in Proc : Own(space[p]) \subseteq Used /\ Own(space[p]) \cap pipes = {}
  BY DEF Used, MemInv
<1>2. \A p \in Proc : Own(space[p]) \cap pipes' = {}
  BY <1>1
<1>3. Used \ pipes = UNION {Own(space[p]) : p \in Proc}
  BY <1>1 DEF Used
<1>4. \A x \in Mem!Page :
          pagefree'[x] = IF x \in pipes' \cup UNION {Own(space[p]) : p \in Proc} THEN 0 ELSE 1
  BY <1>3
<1>5. space' = space /\ alive' = alive /\ mempanic' = mempanic
  OBVIOUS
<1> QED BY <1>2, <1>4, <1>5 DEF MemInv

LEMMA PipeAllocKeeps ==
    ASSUME Mem!MemoryAssumption, MemInv, Mem!PipeAlloc
    PROVE  MemInv'
<1>1. PICK m : m = [Mem!Full EXCEPT !.free = pagefree]
  OBVIOUS
<1>2. PICK r : r = Mem!kalloc(m)
  OBVIOUS
<1>3. /\ pagefree' = r.free /\ pipes' = (IF r.ok THEN pipes \cup {r.got} ELSE pipes)
      /\ UNCHANGED <<space, alive, mempanic>>
  BY <1>1, <1>2 DEF Mem!PipeAlloc
<1>4. m \in MemState /\ m.s = Mem!NoSpace /\ m.ok /\ m.free = pagefree /\ m.panic = FALSE
  <2>1. m = [free |-> pagefree, s |-> Mem!NoSpace, ok |-> TRUE, got |-> NULL, panic |-> FALSE]
    BY <1>1 DEF Mem!Full
  <2> QED BY <2>1, UsedIs, NoSpaceIs DEF MemState
<1>5. Whole(m, Used)
  BY <1>4, UsedIs, NoSpaceIs DEF Whole
<1>6. \/ r = [m EXCEPT !.ok = FALSE]
      \/ /\ r \in MemState /\ r.s = m.s /\ r.ok /\ r.got \in Mem!Page
         /\ r.got \notin Used \cup Own(m.s) /\ Whole(r, Used \cup {r.got})
  BY <1>2, <1>4, <1>5, KallocGives
<1>7. pipes \subseteq Used /\ pipes \cup (Used \ pipes) = Used
  BY DEF Used
<1>8. CASE r = [m EXCEPT !.ok = FALSE]
  <2>1. ~r.ok /\ r.free = pagefree
    BY <1>4, <1>8 DEF MemState
  <2> QED BY <1>3, <1>7, <2>1, UsedIs, PipesGive
<1>9. CASE /\ r \in MemState /\ r.s = m.s /\ r.ok /\ r.got \in Mem!Page
           /\ r.got \notin Used \cup Own(m.s) /\ Whole(r, Used \cup {r.got})
  <2>1. PICK x \in Mem!Page : x = r.got
    BY <1>9
  <2>2. pipes' = pipes \cup {x} /\ x \notin Used
    BY <1>3, <1>9, <2>1
  <2>3. pagefree' \in [Mem!Page -> Nat]
    BY <1>3, <1>9 DEF MemState
  <2>4. pipes' \cup (Used \ pipes) = Used \cup {x} /\ pipes' \cap (Used \ pipes) = {}
    BY <1>7, <2>2
  <2>5. \A y \in Mem!Page : pagefree'[y] = IF y \in Used \cup {x} THEN 0 ELSE 1
    <3>1. Own(r.s) = {}
      BY <1>4, <1>9, NoSpaceIs
    <3> QED BY <1>3, <1>9, <2>1, <3>1 DEF Whole
  <2>6. pipes' \subseteq Mem!Page
    BY <2>2 DEF MemInv
  <2> QED BY <1>3, <2>3, <2>4, <2>5, <2>6, PipesGive
<1> QED BY <1>6, <1>8, <1>9

LEMMA PipeFreeKeeps ==
    ASSUME Mem!MemoryAssumption, MemInv, NEW x \in pipes, Mem!PipeFree(x)
    PROVE  MemInv'
<1>1. /\ pipes' = pipes \ {x} /\ pagefree' = [pagefree EXCEPT ![x] = @ + 1]
      /\ UNCHANGED <<space, alive, mempanic>>
  BY DEF Mem!PipeFree
<1>2. x \in Mem!Page /\ x \in Used /\ pagefree[x] = 0
  BY UsedIs DEF Used
<1>3. /\ pagefree' \in [Mem!Page -> Nat] /\ pagefree'[x] = 1
      /\ \A y \in Mem!Page : y # x => pagefree'[y] = pagefree[y]
  BY <1>1, <1>2, UsedIs
<1>4. pipes' \cup (Used \ pipes) = Used \ {x} /\ pipes' \cap (Used \ pipes) = {} /\ pipes' \subseteq Mem!Page
  BY <1>1, UsedIs DEF Used
<1>5. \A y \in Mem!Page : pagefree'[y] = IF y \in Used \ {x} THEN 0 ELSE 1
  BY <1>2, <1>3, UsedIs
<1> QED BY <1>1, <1>3, <1>4, <1>5, PipesGive

LEMMA MemInitGives ==
    ASSUME Mem!MemoryAssumption, Mem!MemInit
    PROVE  MemInv
<1>1. PICK h : h = Mem!Full
  OBVIOUS
<1>2. h \in MemState /\ h.s = Mem!NoSpace /\ h.ok /\ h.panic = FALSE /\ \A x \in Mem!Page : h.free[x] = 1
  BY <1>1, NoSpaceIs DEF Mem!Full, MemState
<1>3. Whole(h, {})
  BY <1>2, NoSpaceIs DEF Whole
<1>4. PICK a : a = Mem!allocproc(h)
  OBVIOUS
<1>5. PICK u : u = Mem!NewPage(a, 0)
  OBVIOUS
<1>6. a.ok /\ u.ok /\ u = Mem!userinit
  BY <1>1, <1>4, <1>5 DEF Mem!MemoryAssumption, Mem!userinit
<1>7. Born(a, {}) /\ a.s.sz = 0
  BY <1>2, <1>3, <1>4, <1>6, AllocprocGives
<1>8. a \in MemState /\ Whole(a, {}) /\ a.s.trapframe \in Mem!Page /\ Ready(a.s, 0)
  BY <1>6, <1>7, RoundedSome DEF Born, Complete
<1>9. u \in MemState /\ Whole(u, {}) /\ SameHead(a, u) /\ Ready(u.s, 1)
  <2>1. u \in MemState /\ Whole(u, {}) /\ SameHead(a, u) /\ Ready(u.s, IF u.ok THEN 0 + 1 ELSE 0)
    BY <1>5, <1>6, <1>8, NewPageGives
  <2> QED BY <1>6, <2>1
<1>10. PICK v : v = [u EXCEPT !.s.sz = PGSIZE]
  OBVIOUS
<1>11. PICK s : s = [u.s EXCEPT !.sz = PGSIZE]
  OBVIOUS
<1>12. /\ v \in MemState /\ Whole(v, {}) /\ v.s.sz = PGSIZE /\ v.s.trapframe = u.s.trapframe
       /\ v.s.leaf = u.s.leaf
  <2>1. PGSIZE \in Nat
    BY MemConstants
  <2> QED BY <1>9, <1>10, <2>1, SizeGives
<1>13. v.s = s /\ v.free = u.free /\ v.panic = u.panic
  BY <1>9, <1>10, <1>11 DEF MemState
<1>14. s \in MemSpace /\ Complete(s) /\ Good(s)
  BY <1>8, <1>9, <1>12, <1>13, RoundedSome DEF Complete, SameHead, Ready, Whole, MemState
<1>15. /\ pagefree = u.free /\ mempanic = u.panic /\ pipes = {} /\ alive = {initproc}
       /\ space = [p \in Proc |-> IF p = initproc THEN s ELSE Mem!NoSpace]
  BY <1>6, <1>11 DEF Mem!MemInit
<1>16. initproc \in Proc
  BY DEF Mem!MemoryAssumption
<1>17. /\ space \in [Proc -> MemSpace] /\ space[initproc] = s
       /\ \A p \in Proc \ {initproc} : space[p] = Mem!NoSpace
  BY <1>14, <1>15, <1>16, NoSpaceIs
<1>18. \A p \in Proc : Good(space[p]) /\ Own(space[p]) = IF p = initproc THEN Own(s) ELSE {}
  BY <1>14, <1>17, NoSpaceIs
<1>19. pipes \cup UNION {Own(space[p]) : p \in Proc} = Own(s)
  BY <1>15, <1>16, <1>18
<1>20. \A x \in Mem!Page : pagefree[x] = IF x \in Own(s) THEN 0 ELSE 1
  BY <1>12, <1>13, <1>15 DEF Whole
<1>21. pagefree \in [Mem!Page -> Nat] /\ mempanic = FALSE
  BY <1>9, <1>15 DEF MemState, Whole
<1> QED BY <1>14, <1>15, <1>16, <1>17, <1>18, <1>19, <1>20, <1>21 DEF MemInv

-----------------------------------------------------------------------------
\* The pages of the user's are those below the trapframe.
LEMMA UserBelow ==
    ASSUME Mem!MemoryAssumption, MemInv, NEW p \in Proc
    PROVE  Mem!From(0, Mem!TRAPFRAME) \cap DOMAIN space[p].leaf = User(space[p])
<1>1. PICK s : s = space[p]
  OBVIOUS
<1>2. CASE p \in alive
  <2>1. PICK k \in Nat : k <= Mem!TRAPFRAME /\ DOMAIN s.leaf = (0..k - 1) \cup Top
    BY <1>1, <1>2 DEF MemInv, Complete, Ready
  <2> QED BY <1>1, <2>1, MemConstants DEF User, Top, Mem!From
<1>3. CASE p \notin alive
  <2>1. DOMAIN s.leaf = {}
    BY <1>1, <1>3, NoSpaceIs, NothingIs DEF MemInv
  <2> QED BY <1>1, <2>1 DEF User
<1> QED BY <1>2, <1>3

\* u is a use of page x in s, the memory of process p.
UseIn(s, p, x, u) ==
    \/ s.trapframe = x /\ u = <<"trapframe", p>>
    \/ \E n \in DOMAIN s.table : s.table[n] = x /\ u = <<"table", p, n>>
    \/ \E va \in User(s) : s.leaf[va] = x /\ u = <<"leaf", p, va>>

LEMMA UsesAre ==
    ASSUME Mem!MemoryAssumption, MemInv, NEW x \in Mem!Page, NEW u
    PROVE  u \in Mem!Uses(x) <=>
              \/ \E i \in 1..pagefree[x] : u = <<"free", i>>
              \/ x \in pipes /\ u = <<"pipe", x>>
              \/ \E p \in Proc : UseIn(space[p], p, x, u)
<1> DEFINE R == {"trapframe"} \X {p \in Proc : space[p].trapframe = x}
           T(p) == {<<"table", p, n>> : n \in {n \in DOMAIN space[p].table : space[p].table[n] = x}}
           L(p) == {<<"leaf", p, va>> : va \in {va \in Mem!From(0, Mem!TRAPFRAME) \cap DOMAIN space[p].leaf :
                                                  space[p].leaf[va] = x}}
<1>1. PICK F : F = {"free"} \X (1..pagefree[x])
  OBVIOUS
<1>2. PICK P : P = {"pipe"} \X ({x} \cap pipes)
  OBVIOUS
<1>3. u \in F <=> \E i \in 1..pagefree[x] : u = <<"free", i>>
  BY <1>1
<1>4. u \in P <=> x \in pipes /\ u = <<"pipe", x>>
  BY <1>2
<1>5. u \in R <=> \E p \in Proc : space[p].trapframe = x /\ u = <<"trapframe", p>>
  OBVIOUS
<1>6. ASSUME NEW p \in Proc
      PROVE  u \in L(p) <=> \E va \in User(space[p]) : space[p].leaf[va] = x /\ u = <<"leaf", p, va>>
  BY UserBelow
<1>7. ASSUME NEW p \in Proc
      PROVE  u \in T(p) <=> \E n \in DOMAIN space[p].table : space[p].table[n] = x /\ u = <<"table", p, n>>
  OBVIOUS
<1>8. Mem!Uses(x) = F \cup P \cup R \cup (UNION {T(p) : p \in Proc}) \cup (UNION {L(p) : p \in Proc})
  BY <1>1, <1>2 DEF Mem!Uses
<1> HIDE DEF R, T, L
<1>9. u \in Mem!Uses(x) <=> u \in F \/ u \in P \/ u \in R \/ \E p \in Proc : u \in T(p) \/ u \in L(p)
  <2>1. u \in (UNION {T(p) : p \in Proc}) <=> \E p \in Proc : u \in T(p)
    OBVIOUS
  <2>2. u \in (UNION {L(p) : p \in Proc}) <=> \E p \in Proc : u \in L(p)
    OBVIOUS
  <2>3. PICK A, B : A = (UNION {T(p) : p \in Proc}) /\ B = (UNION {L(p) : p \in Proc})
    OBVIOUS
  <2>4. u \in Mem!Uses(x) <=> u \in F \/ u \in P \/ u \in R \/ u \in A \/ u \in B
    BY <1>8, <2>3
  <2> QED BY <2>1, <2>2, <2>3, <2>4
<1>10. (u \in R \/ \E p \in Proc : u \in T(p) \/ u \in L(p)) <=> \E p \in Proc : UseIn(space[p], p, x, u)
  BY <1>5, <1>6, <1>7 DEF UseIn
<1> QED BY <1>3, <1>4, <1>9, <1>10, Zenon

LEMMA OneUse ==
    ASSUME Mem!MemoryAssumption, MemInv, NEW x \in Mem!Page
    PROVE  \E w : \A u : u \in Mem!Uses(x) <=> u = w
<1>0. x \in Nat /\ x # NULL
  BY MemConstants
<1>1. ASSUME NEW s, NEW p, NEW u, UseIn(s, p, x, u)
      PROVE  \/ x \in Frame(s) /\ u = <<"trapframe", p>>
             \/ x \in Tables(s) /\ \E n \in DOMAIN s.table : s.table[n] = x /\ u = <<"table", p, n>>
             \/ x \in Leaves(s) /\ \E va \in User(s) : s.leaf[va] = x /\ u = <<"leaf", p, va>>
  BY <1>0, <1>1 DEF UseIn, Frame, Tables, Leaves
<1>2. ASSUME NEW p \in Proc, x \notin Own(space[p]), NEW u PROVE ~UseIn(space[p], p, x, u)
  BY <1>1, <1>2 DEF Own
<1>3. CASE x \notin Used
  <2>1. pagefree[x] = 1 /\ x \notin pipes /\ \A p \in Proc : x \notin Own(space[p])
    BY <1>3, UsedIs DEF Used
  <2>2. 1..pagefree[x] = {1}
    BY <2>1
  <2>3. ASSUME NEW u PROVE u \in Mem!Uses(x) <=> u = <<"free", 1>>
    BY <1>2, <2>1, <2>2, UsesAre
  <2>4. PICK w : w = <<"free", 1>>
    OBVIOUS
  <2> WITNESS w
  <2> QED BY <2>3, <2>4
<1>4. CASE x \in pipes
  <2>1. pagefree[x] = 0 /\ \A p \in Proc : x \notin Own(space[p])
    BY <1>4, UsedIs DEF Used, MemInv
  <2>2. 1..pagefree[x] = {}
    BY <2>1
  <2>3. ASSUME NEW u PROVE u \in Mem!Uses(x) <=> u = <<"pipe", x>>
    BY <1>2, <1>4, <2>1, <2>2, UsesAre
  <2>5. PICK w : w = <<"pipe", x>>
    OBVIOUS
  <2> WITNESS w
  <2> QED BY <2>3, <2>5
<1>5. CASE \E p \in Proc : x \in Own(space[p])
  <2>1. PICK p \in Proc : x \in Own(space[p])
    BY <1>5
  <2>2. x \notin pipes /\ pagefree[x] = 0 /\ \A q \in Proc \ {p} : x \notin Own(space[q])
    BY <2>1, UsedIs DEF Used, MemInv
  <2>3. 1..pagefree[x] = {}
    BY <2>2
  <2>4. PICK s : s = space[p] /\ Good(s)
    BY DEF MemInv
  <2>5. ASSUME NEW u PROVE u \in Mem!Uses(x) <=> UseIn(s, p, x, u)
    BY <1>2, <2>2, <2>3, <2>4, UsesAre
  <2>6. SUFFICES \E w : \A u : UseIn(s, p, x, u) <=> u = w
    BY <2>5
  <2>7. CASE x \in Frame(s)
    <3>1. s.trapframe = x /\ x \notin Tables(s) /\ x \notin Leaves(s)
      BY <2>4, <2>7 DEF Frame, Good
    <3>2. ASSUME NEW u PROVE UseIn(s, p, x, u) <=> u = <<"trapframe", p>>
      <4>1. u = <<"trapframe", p>> => UseIn(s, p, x, u)
        BY <3>1 DEF UseIn
      <4> QED BY <1>1, <3>1, <4>1
    <3>5. PICK w : w = <<"trapframe", p>>
      OBVIOUS
    <3> WITNESS w
    <3> QED BY <3>2, <3>5
  <2>8. CASE x \in Tables(s)
    <3>1. x \notin Frame(s) /\ x \notin Leaves(s)
      BY <2>4, <2>8 DEF Good
    <3>2. PICK n \in DOMAIN s.table : s.table[n] = x
      BY <2>8 DEF Tables
    <3>3. \A k \in DOMAIN s.table : s.table[k] = x => k = n
      BY <2>4, <3>2 DEF Good
    <3>4. ASSUME NEW u PROVE UseIn(s, p, x, u) <=> u = <<"table", p, n>>
      <4>1. u = <<"table", p, n>> => UseIn(s, p, x, u)
        BY <3>2 DEF UseIn
      <4> QED BY <1>1, <3>1, <3>3, <4>1
    <3>5. PICK w : w = <<"table", p, n>>
      OBVIOUS
    <3> WITNESS w
    <3> QED BY <3>4, <3>5
  <2>9. CASE x \in Leaves(s)
    <3>1. x \notin Frame(s) /\ x \notin Tables(s)
      BY <2>4, <2>9 DEF Good
    <3>2. PICK va \in User(s) : s.leaf[va] = x
      BY <2>9 DEF Leaves
    <3>3. \A v \in User(s) : s.leaf[v] = x => v = va
      BY <2>4, <3>2 DEF Good
    <3>4. ASSUME NEW u PROVE UseIn(s, p, x, u) <=> u = <<"leaf", p, va>>
      <4>1. u = <<"leaf", p, va>> => UseIn(s, p, x, u)
        BY <3>2 DEF UseIn
      <4> QED BY <1>1, <3>1, <3>3, <4>1
    <3>5. PICK w : w = <<"leaf", p, va>>
      OBVIOUS
    <3> WITNESS w
    <3> QED BY <3>4, <3>5
  <2> QED BY <2>1, <2>4, <2>7, <2>8, <2>9 DEF Own
<1> QED BY <1>3, <1>4, <1>5 DEF Used

LEMMA MemInvKept ==
    ASSUME Mem!MemoryAssumption, MemInv, [Mem!MemNext]_(Mem!memVars)
    PROVE  MemInv'
<1>1. CASE UNCHANGED Mem!memVars
  BY <1>1 DEF Mem!memVars, MemInv
<1>2. ASSUME NEW p \in Proc, NEW q \in Proc, Mem!Fork(p, q) PROVE MemInv'
  BY <1>2, ForkKeeps
<1>3. ASSUME NEW p \in Proc, Mem!Wait(p) PROVE MemInv'
  BY <1>3, WaitKeeps
<1>4. ASSUME NEW p \in Proc, NEW prog \in Program, NEW fault, Mem!Exec(p, prog, fault) PROVE MemInv'
  BY <1>4, ExecKeeps
<1>5. ASSUME NEW p \in Proc, NEW n \in Nat, Mem!Grow(p, n) PROVE MemInv'
  BY <1>5, GrowKeeps
<1>6. ASSUME NEW p \in Proc, NEW n \in Nat, Mem!Shrink(p, n) PROVE MemInv'
  BY <1>6, ShrinkKeeps
<1>7. CASE Mem!PipeAlloc
  BY <1>7, PipeAllocKeeps
<1>8. ASSUME NEW x \in pipes, Mem!PipeFree(x) PROVE MemInv'
  BY <1>8, PipeFreeKeeps
<1>9. 1..PGSIZE \subseteq Nat /\ 1..MaxSz \subseteq Nat
  BY DEF Mem!MemoryAssumption
<1>10. CASE Mem!MemNext
  BY <1>2, <1>3, <1>4, <1>5, <1>6, <1>7, <1>8, <1>9, <1>10 DEF Mem!MemNext
<1> QED BY <1>1, <1>10

\* The invariant behind the next one: an address space is complete or empty, those of
\* different processes have no page in common, nor with a pipe, and what is left is free.
THEOREM MemInvariance ==
    ASSUME Mem!MemoryAssumption
    PROVE  Mem!MemSpec => []MemInv
<1>1. Mem!MemInit => MemInv
  BY MemInitGives
<1>2. MemInv /\ [Mem!MemNext]_(Mem!memVars) => MemInv'
  BY MemInvKept
<1> QED BY <1>1, <1>2, PTL DEF Mem!MemSpec

\* fork(), exec(), sbrk(), exit() and wait() and the pipes lose no page and give none to two,
\* whatever fails half-way, and no assertion of vm.c is hit.
THEOREM EveryPageHasOneUse ==
    ASSUME Mem!MemoryAssumption
    PROVE  Mem!MemSpec => []Mem!PagesAccounted
<1>1. MemInv => Mem!PagesAccounted
  <2>1. ASSUME MemInv, NEW x \in Mem!Page PROVE Mem!Cardinality(Mem!Uses(x)) = 1
    <3>1. PICK w : \A u : u \in Mem!Uses(x) <=> u = w
      BY <2>1, OneUse
    <3>2. Mem!Uses(x) = {w}
      BY <3>1
    <3>3. Cardinality({w}) = 1
      BY FS_Singleton
    <3>4. Mem!Cardinality({w}) = Cardinality({w})
      BY DEF Mem!Cardinality, Cardinality
    <3> QED BY <3>2, <3>3, <3>4
  <2>2. MemInv => \A p \in Proc \ alive : space[p] = Mem!NoSpace
    BY DEF MemInv
  <2>3. MemInv => ~mempanic
    BY DEF MemInv
  <2> QED BY <2>1, <2>2, <2>3 DEF Mem!PagesAccounted
<1>2. Mem!MemSpec => []MemInv
  BY MemInvariance
<1> QED BY <1>1, <1>2, PTL
====
