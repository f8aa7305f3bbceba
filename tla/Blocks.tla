---- MODULE Blocks ----
(***************************************************************************)
(* xv6: the blocks of files.  The bitmap, the direct and indirect blocks   *)
(* of an inode, reading and writing at an open file's offset, truncation,  *)
(* and how many blocks one transaction of a write puts in the log.         *)
(*                                                                         *)
(* A call of writei(), readi() or itrunc() is one action: it holds the     *)
(* inode's lock, and shares with other inodes only the bitmap, whose block *)
(* is locked while a bit is looked up and set.  What transactions are for, *)
(* Log shows.                                                              *)
(***************************************************************************)
EXTENDS Integers, FiniteSets, FiniteSetsExt

CONSTANTS Inode, File,
          IpOf,          \* the inode that each open file has
          DataBlock,     \* the numbers of the data blocks
          BPB,           \* bits in a block of the bitmap
          BSIZE,         \* units of data in a block
          NDIRECT, NINDIRECT, MAXOPBLOCKS,
          Count          \* bound: the units a call asks for

BlocksAssumption ==
    /\ BSIZE \in Nat \ {0} /\ BPB \in Nat \ {0} /\ NDIRECT \in Nat /\ NINDIRECT \in Nat
    /\ MAXOPBLOCKS \in Nat /\ MAXOPBLOCKS >= 6
    /\ DataBlock \subseteq Nat \ {0} /\ Count \subseteq Nat /\ IpOf \in [File -> Inode]

MAXFILE == NDIRECT + NINDIRECT

\* What filewrite() writes in one transaction: without the inode, the indirect block, and
\* two blocks for a write that is not aligned, half of the rest is for the bitmap.
max == ((MAXOPBLOCKS - 1 - 1 - 2) \div 2) * BSIZE

VARIABLES bitmap,    \* the blocks that are marked
          addrs,     \* inode -> slot -> block; slot NDIRECT is the indirect block, the next
                     \* ones are what that block contains
          size,      \* inode -> ip->size
          off,       \* file -> f->off
          todo,      \* file -> units that filewrite() has still to write
          logged,    \* how many blocks the transaction of a write that has just ended put in the log
          panic      \* the kernel has stopped

blockVars == <<bitmap, addrs, size, off, todo, logged, panic>>
-----------------------------------------------------------------------------
\* The functions of fs.c as changes of a state m: the bitmap, the slots a and the size of
\* one inode, and the set of logged blocks.  got is the block a function returns, or 0.

Bitmap(b) == <<"bitmap", b \div BPB>>

balloc(m) ==
    IF DataBlock \subseteq m.bitmap THEN [m EXCEPT !.got = 0]
    ELSE LET b == Min(DataBlock \ m.bitmap)
         IN  [m EXCEPT !.bitmap = @ \cup {b}, !.got = b,
                       !.logged = @ \cup {Bitmap(b), <<"data", b>>}]

\* Every block of B is given back; bfree() asserts that it was marked.
bfree(m, B) == [m EXCEPT !.bitmap = @ \ B, !.panic = @ \/ ~(B \subseteq m.bitmap)]

\* The block in slot i; where there is none a new one.
SlotBlock(m, i) ==
    IF m.a[i] # 0 THEN [m EXCEPT !.got = m.a[i]]
    ELSE LET n == balloc(m) IN [n EXCEPT !.a[i] = n.got]

bmap(m, bn) ==
    IF bn < NDIRECT THEN SlotBlock(m, bn)
    ELSE IF bn >= MAXFILE THEN [m EXCEPT !.panic = TRUE, !.got = 0]
    ELSE LET ind == SlotBlock(m, NDIRECT)
             n   == SlotBlock(ind, bn + 1)
         IN  IF ind.got = 0 THEN ind
             ELSE IF n.got # 0 /\ m.a[bn + 1] = 0
                  THEN [n EXCEPT !.logged = @ \cup {<<"data", ind.got>>}] ELSE n

\* How many blocks n units at offset o touch, and which; the units before the end of block bn.
Span(o, n) == IF n = 0 THEN 0 ELSE (o + n - 1) \div BSIZE - o \div BSIZE + 1
Touched(o, n) == {o \div BSIZE + i - 1 : i \in 1..Span(o, n)}
Upto(o, n, bn) == Min({n, (bn + 1) * BSIZE - o})

\* As a mutant: what could not be copied counts as written.
WriteBlockCounts(w, o, n, bad, bn) ==
    IF w.stop THEN w
    ELSE LET b == bmap(w, bn) IN
         IF b.got = 0 THEN [b EXCEPT !.stop = TRUE, !.tot = Upto(o, n, bn)]
         ELSE [b EXCEPT !.tot = Upto(o, n, bn), !.logged = @ \cup {<<"data", b.got>>}]

\* One round of writei(): it is the last when the disk is full, or when the block is bad, the
\* one that cannot be copied from the user.
WriteBlock(w, o, n, bad, bn) ==
    IF w.stop THEN w
    ELSE LET b == bmap(w, bn) IN
         IF b.got = 0 \/ bn = bad THEN [b EXCEPT !.stop = TRUE]
         ELSE [b EXCEPT !.tot = Upto(o, n, bn), !.logged = @ \cup {<<"data", b.got>>}]

writei(m, o, n, bad) ==
    LET w[i \in 0..Span(o, n)] ==
          IF i = 0 THEN m ELSE WriteBlock(w[i - 1], o, n, bad, o \div BSIZE + i - 1)
        done == w[Span(o, n)]
    IN  IF o > m.size \/ o + n > MAXFILE * BSIZE THEN [m EXCEPT !.tot = -1]
        ELSE [done EXCEPT !.size = Max({@, o + done.tot}), !.logged = @ \cup {<<"inode">>}]

\* One round of readi().  It calls bmap(), too.
ReadBlock(w, o, n, bad, bn) ==
    IF w.stop THEN w
    ELSE LET b == bmap(w, bn) IN
         IF b.got = 0 THEN [b EXCEPT !.stop = TRUE]
         ELSE IF bn = bad THEN [b EXCEPT !.stop = TRUE, !.tot = -1]
         ELSE [b EXCEPT !.tot = Upto(o, n, bn)]

\* readi() of at most n units.
readi(m, o, n, bad) ==
    LET k == Min({n, m.size - o})
        w[i \in 0..Span(o, k)] ==
          IF i = 0 THEN m ELSE ReadBlock(w[i - 1], o, k, bad, o \div BSIZE + i - 1)
    IN  IF o > m.size THEN m ELSE w[Span(o, k)]

itrunc(m) ==
    [bfree(m, {m.a[i] : i \in DOMAIN m.a} \ {0})
        EXCEPT !.a = [i \in DOMAIN m.a |-> 0], !.size = 0]
-----------------------------------------------------------------------------
State(ip) == [bitmap |-> bitmap, a |-> addrs[ip], size |-> size[ip], logged |-> {},
              got |-> 0, tot |-> 0, stop |-> FALSE, panic |-> panic]

Put(ip, m) ==
    /\ bitmap' = m.bitmap /\ panic' = m.panic
    /\ addrs' = [addrs EXCEPT ![ip] = m.a] /\ size' = [size EXCEPT ![ip] = m.size]

Advance(f, tot) == off' = [off EXCEPT ![f] = IF tot > 0 THEN @ + tot ELSE @]

BlocksInit ==
    /\ bitmap = {} /\ panic = FALSE /\ logged = 0
    /\ addrs = [ip \in Inode |-> [i \in 0..MAXFILE |-> 0]] /\ size = [ip \in Inode |-> 0]
    /\ off = [f \in File |-> 0] /\ todo = [f \in File |-> 0]

WriteStart(f, n) ==
    /\ todo[f] = 0 /\ todo' = [todo EXCEPT ![f] = n]
    /\ logged' = 0 /\ UNCHANGED <<bitmap, addrs, size, off, panic>>

\* One transaction of filewrite(), which goes on only if all of it was written.
WriteChunk(f, bad) ==
    /\ todo[f] > 0
    /\ LET n1 == Min({todo[f], max})
           m  == writei(State(IpOf[f]), off[f], n1, bad)
       IN  /\ Put(IpOf[f], m) /\ Advance(f, m.tot) /\ logged' = Cardinality(m.logged)
           /\ todo' = [todo EXCEPT ![f] = IF m.tot = n1 THEN @ - n1 ELSE 0]

\* fileread(), outside any transaction.
Read(f, n, bad) ==
    /\ todo[f] = 0
    /\ LET m == readi(State(IpOf[f]), off[f], n, bad)
       IN  Put(IpOf[f], m) /\ Advance(f, m.tot)
    /\ logged' = 0 /\ UNCHANGED todo

\* open() with O_TRUNC; the other open files of ip keep their offsets.
Truncate(ip) ==
    /\ Put(ip, itrunc(State(ip)))
    /\ logged' = 0 /\ UNCHANGED <<off, todo>>

\* The file is opened anew, or the last link of its inode removed and the inode used again.
Reopen(f) ==
    /\ todo[f] = 0 /\ off[f] > 0 /\ off' = [off EXCEPT ![f] = 0]
    /\ logged' = 0 /\ UNCHANGED <<bitmap, addrs, size, todo, panic>>

\* The block that the process has no memory for, or -1.
Bad(f, n) == {-1} \cup Touched(off[f], n)

BlocksNext ==
    /\ ~panic
    /\ \/ \E f \in File, n \in Count : WriteStart(f, n)
       \/ \E f \in File : \E bad \in Bad(f, todo[f]) : WriteChunk(f, bad)
       \/ \E f \in File, n \in Count : \E bad \in Bad(f, n) : Read(f, n, bad)
       \/ \E f \in File : Reopen(f)
       \/ \E ip \in Inode : Truncate(ip)

BlocksSpec == BlocksInit /\ [][BlocksNext]_blockVars
-----------------------------------------------------------------------------
Slots == Inode \X (0..MAXFILE)

\* Every marked block is in one place of one file, and every block in a file is marked:
\* none is lost when a write fails half-way, none belongs to two files.
BlocksAccounted ==
    /\ ~panic
    /\ bitmap = {addrs[s[1]][s[2]] : s \in Slots} \ {0}
    /\ \A s, t \in Slots : s # t /\ addrs[s[1]][s[2]] # 0 => addrs[s[1]][s[2]] # addrs[t[1]][t[2]]

\* A file has all blocks below its size, so that reading, which is done outside of
\* transactions, never has to allocate one.
NoHoles == \A ip \in Inode, bn \in 0..MAXFILE - 1 : bn * BSIZE < size[ip] =>
    /\ addrs[ip][IF bn < NDIRECT THEN bn ELSE bn + 1] # 0
    /\ bn >= NDIRECT => addrs[ip][NDIRECT] # 0

\* A transaction of a write stays within what begin_op() has reserved for it, however the
\* write lies and however many blocks the bitmap has.
WriteFitsLog == logged <= MAXOPBLOCKS
====
