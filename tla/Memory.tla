---- MODULE Memory ----
(***************************************************************************)
(* xv6: pages and page tables.  Who has each physical page, through fork,  *)
(* exec, sbrk, exit and wait, pipes, and every way in which these can run  *)
(* out of memory or fail half-way.                                         *)
(*                                                                         *)
(* A system call is one action: processes share the free list only, each   *)
(* kalloc() and kfree() is atomic under kmem.lock, and that another CPU    *)
(* takes pages meanwhile shows as a kalloc() that fails.                   *)
(***************************************************************************)
EXTENDS Naturals, Sequences, FiniteSets

CONSTANTS Proc,      \* the entries of proc[NPROC]
          initproc,
          Pages,     \* how many pages kinit() frees
          PGSIZE,    \* units of memory in a page
          PTES,      \* entries of a page-table page
          Program,   \* the programs exec() finds: sequences of ends of their segments
          MaxSz,     \* bound: the largest size a process asks for
          MaxPipes,  \* bound: pages in use by pipes
          NULL

Page == 1..Pages
MAXVA      == PTES * PTES * PTES     \* in pages; the code uses the lower half only
TRAMPOLINE == MAXVA - 1
TRAPFRAME  == MAXVA - 2
trampoline == 0                      \* the kernel's own page: no page of kinit()

VARIABLES free,   \* page -> how often it is on the free list
          space,  \* process -> its memory, see NoSpace
          alive,  \* processes that fork() has made and wait() has not yet freed
          pipes,  \* pages that hold a struct pipe
          panic   \* the kernel has stopped

memVars == <<free, space, alive, pipes, panic>>

\* trapframe: its page; table: the tree of page-table pages, an inner node being the path
\* of the entries that lead to it; leaf: virtual -> physical page; sz: p->sz.
Nothing == [x \in {} |-> x]
NoSpace == [trapframe |-> NULL, table |-> Nothing, leaf |-> Nothing, sz |-> 0]

\* The map f with an entry for x.
Entry(f, x, y) == [z \in DOMAIN f \cup {x} |-> IF z = x THEN y ELSE f[z]]

PGROUNDUP(sz) == (sz + PGSIZE - 1) \div PGSIZE      \* in pages
-----------------------------------------------------------------------------
\* The functions of kalloc.c and vm.c, as changes of a state m: the free pages, one
\* address space s, and whether the call has succeeded so far (ok), or hit a panic.

Lowest(S) == CHOOSE p \in S : \A q \in S : p <= q
FreePages(m) == {p \in Page : m.free[p] > 0}

kfree(m, p) == [m EXCEPT !.free[p] = @ + 1]
kfreeAll(m, S) == [m EXCEPT !.free = [p \in Page |-> @[p] + IF p \in S THEN 1 ELSE 0]]
Failed(m) == [m EXCEPT !.ok = FALSE]
Panic(m)  == [m EXCEPT !.panic = TRUE]

\* The page is in got.
kalloc(m) ==
    IF FreePages(m) = {} THEN Failed(m)
    ELSE [m EXCEPT !.got = Lowest(FreePages(m)), !.free[Lowest(FreePages(m))] = @ - 1]

AddTable(m, node) ==
    LET Add(n) == IF n.ok THEN [n EXCEPT !.s.table = Entry(@, node, n.got)] ELSE n
    IN  IF ~m.ok \/ node \in DOMAIN m.s.table THEN m ELSE Add(kalloc(m))

\* The inner nodes on the way to virtual page va.
Path(va) == <<<<va \div (PTES * PTES)>>, <<va \div (PTES * PTES), (va \div PTES) % PTES>>>>

\* walk() with alloc.
walk(m, va) == AddTable(AddTable(m, Path(va)[1]), Path(va)[2])

Reached(m, va) == {Path(va)[1], Path(va)[2]} \subseteq DOMAIN m.s.table

\* mappages() of one page.
mappages(m, va, pa) ==
    LET Map(w) == IF ~w.ok THEN w
                  ELSE IF va \in DOMAIN w.s.leaf THEN Panic(w)
                  ELSE [w EXCEPT !.s.leaf = Entry(@, va, pa)]
    IN  Map(walk(m, va))

uvmunmap(m, vas, do_free) ==
    LET pas == {m.s.leaf[va] : va \in vas \cap DOMAIN m.s.leaf}
        n   == [m EXCEPT !.s.leaf = [va \in DOMAIN @ \ vas |-> @[va]],
                         !.panic = @ \/ ~(vas \subseteq DOMAIN m.s.leaf)
                                     \/ \E va \in vas : ~Reached(m, va)]
    IN  IF do_free THEN kfreeAll(n, pas) ELSE n

From(a, b) == IF a < b THEN a .. b - 1 ELSE {}

\* uvmdealloc(): the sizes are unsigned, a size below 0 is larger than any.
uvmdealloc(m, oldsz, newsz) ==
    IF newsz >= oldsz THEN m ELSE uvmunmap(m, From(PGROUNDUP(newsz), PGROUNDUP(oldsz)), TRUE)

\* A new page at va, or nothing.
NewPage(m, va) ==
    LET OrFree(w, p) == IF w.ok THEN w ELSE kfree(w, p)
        Map(n)       == IF n.ok THEN OrFree(mappages(n, va, n.got), n.got) ELSE n
    IN  Map(kalloc(m))

\* The i-th of several new pages from first on; if there is none, the earlier ones are undone.
OneMorePage(m, first, i) ==
    LET OrUndo(w) == IF w.ok THEN w ELSE uvmunmap(w, From(first, first + i - 1), TRUE)
    IN  IF m.ok THEN OrUndo(NewPage(m, first + i - 1)) ELSE m

NewPages(m, first, count) ==
    LET n[i \in 0..count] == IF i = 0 THEN m ELSE OneMorePage(n[i - 1], first, i)
    IN  n[count]

uvmalloc(m, oldsz, newsz) ==
    IF newsz < oldsz THEN m
    ELSE NewPages(m, PGROUNDUP(oldsz), PGROUNDUP(newsz) - PGROUNDUP(oldsz))

\* uvmcopy(): the copies are made of the pages that old has.
uvmcopy(m, old, sz) ==
    LET Copied(n) == IF From(0, PGROUNDUP(sz)) \subseteq DOMAIN old.leaf THEN n ELSE Panic(n)
    IN  Copied(NewPages(m, 0, PGROUNDUP(sz)))

\* freewalk(): all page-table pages; no leaf may be left.
freewalk(m) ==
    [kfreeAll(m, {m.s.table[n] : n \in DOMAIN m.s.table})
        EXCEPT !.s.table = Nothing, !.panic = @ \/ DOMAIN m.s.leaf # {}]

uvmfree(m, sz) == freewalk(IF sz > 0 THEN uvmunmap(m, From(0, PGROUNDUP(sz)), TRUE) ELSE m)
-----------------------------------------------------------------------------
\* The functions of proc.c on a process's memory.

uvmcreate(m) == AddTable(m, <<>>)

proc_pagetable(m) ==
    LET Framed(f) == IF f.ok THEN f ELSE uvmfree(uvmunmap(f, {TRAMPOLINE}, FALSE), 0)
        Tramp(t)  == IF t.ok THEN Framed(mappages(t, TRAPFRAME, t.s.trapframe)) ELSE uvmfree(t, 0)
        Root(r)   == IF r.ok THEN Tramp(mappages(r, TRAMPOLINE, trampoline)) ELSE r
    IN  Root(uvmcreate(m))

proc_freepagetable(m, sz) ==
    uvmfree(uvmunmap(uvmunmap(m, {TRAMPOLINE}, FALSE), {TRAPFRAME}, FALSE), sz)

freeproc(m) ==
    LET Frame == IF m.s.trapframe = NULL THEN m
                 ELSE [kfree(m, m.s.trapframe) EXCEPT !.s.trapframe = NULL]
        Table(t) == IF t.s.table = Nothing THEN t ELSE proc_freepagetable(t, t.s.sz)
    IN  [Table(Frame) EXCEPT !.s.sz = 0]

allocproc(m) ==
    LET OrFree(n) == IF n.ok THEN n ELSE freeproc(n)
        Frame(t)  == IF t.ok THEN proc_pagetable([t EXCEPT !.s.trapframe = t.got]) ELSE t
    IN  OrFree(Frame(kalloc(m)))

\* As a mutant: fork() forgets the new process when there is no memory for the copy.
ForkMemoryForgets(m, old) ==
    LET Copied(c) == IF c.ok THEN [c EXCEPT !.s.sz = old.sz] ELSE c
        Copy(a)   == IF a.ok THEN Copied(uvmcopy(a, old, old.sz)) ELSE a
    IN  Copy(allocproc(m))

\* fork()
ForkMemory(m, old) ==
    LET Copied(c) == IF c.ok THEN [c EXCEPT !.s.sz = old.sz] ELSE freeproc(c)
        Copy(a)   == IF a.ok THEN Copied(uvmcopy(a, old, old.sz)) ELSE a
    IN  Copy(allocproc(m))

\* A segment that ends at end; uvmalloc() returns the new size, which is 0 also if it fails.
Segment(m, end) ==
    LET Load(a) == IF ~a.ok \/ (end = 0 /\ a.s.sz = 0) THEN Failed(a)
                   ELSE [a EXCEPT !.s.sz = IF end < @ THEN @ ELSE end]
    IN  IF m.ok THEN Load(uvmalloc(m, m.s.sz, end)) ELSE m

\* The segments of a program, up to the one that fails to load.
Segments(m, prog) ==
    LET n[i \in 0..Len(prog)] == IF i = 0 THEN m ELSE Segment(n[i - 1], prog[i])
    IN  n[Len(prog)]

\* Two pages of stack, the first of them the guard.
Stack(m) == LET sz     == PGROUNDUP(m.s.sz) * PGSIZE
                Got(a) == IF a.ok THEN [a EXCEPT !.s.sz = sz + 2 * PGSIZE] ELSE a
            IN  Got(uvmalloc([m EXCEPT !.s.sz = sz], sz, sz + 2 * PGSIZE))

\* exec(): the new page table is built beside the old one, and freed if anything fails.
\* fault: a part of the file that cannot be read, or arguments that do not fit.
ExecMemory(m, old, prog, fault) ==
    LET Bad(n)    == [proc_freepagetable(n, n.s.sz) EXCEPT !.s = old, !.ok = FALSE]
        Commit(n) == [proc_freepagetable([n EXCEPT !.s = old], old.sz) EXCEPT !.s = n.s]
        Args(n)   == IF n.ok /\ fault # "args" THEN Commit(n) ELSE Bad(n)
        Load(n)   == IF n.ok /\ fault # "read" THEN Args(Stack(n)) ELSE Bad(n)
        New(n)    == IF n.ok THEN Load(Segments(n, prog)) ELSE [n EXCEPT !.s = old]
    IN  New(proc_pagetable([m EXCEPT !.s = [NoSpace EXCEPT !.trapframe = old.trapframe]]))
-----------------------------------------------------------------------------
State(p)  == [free |-> free, s |-> space[p], ok |-> TRUE, got |-> NULL, panic |-> FALSE]
Put(p, m) == free' = m.free /\ space' = [space EXCEPT ![p] = m.s] /\ panic' = m.panic

Full == [free |-> [p \in Page |-> 1], s |-> NoSpace, ok |-> TRUE, got |-> NULL, panic |-> FALSE]

\* userinit(), with the page of initcode.
userinit == NewPage(allocproc(Full), 0)

\* There is less memory than virtual addresses, and enough for the first process.
MemoryAssumption ==
    /\ Pages \in Nat /\ PGSIZE \in Nat \ {0} /\ PTES \in Nat \ {0, 1} /\ Pages <= TRAPFRAME
    /\ MaxSz \in Nat /\ NULL \notin Nat /\ initproc \in Proc /\ Program \subseteq Seq(Nat)
    /\ allocproc(Full).ok /\ userinit.ok

MemInit ==
    LET First(m) ==
          /\ free = m.free /\ panic = m.panic
          /\ space = [p \in Proc |-> IF p = initproc THEN [m.s EXCEPT !.sz = PGSIZE] ELSE NoSpace]
    IN  First(userinit) /\ pipes = {} /\ alive = {initproc}

Fork(p, q) ==
    /\ p \in alive /\ q \notin alive
    /\ LET Made(m) == Put(q, m) /\ alive' = IF m.ok THEN alive \cup {q} ELSE alive
       IN  Made(ForkMemory(State(q), space[p]))
    /\ UNCHANGED pipes

\* exit() leaves the memory to wait(), which calls freeproc().
Wait(q) ==
    /\ q \in alive \ {initproc}
    /\ Put(q, freeproc(State(q))) /\ alive' = alive \ {q}
    /\ UNCHANGED pipes

Exec(p, prog, fault) ==
    /\ p \in alive
    /\ Put(p, ExecMemory(State(p), space[p], prog, fault))
    /\ UNCHANGED <<alive, pipes>>

\* growproc() of n more units.
Grow(p, n) ==
    /\ p \in alive /\ space[p].sz + n <= MaxSz
    /\ LET Grown(m) == Put(p, IF m.ok THEN [m EXCEPT !.s.sz = @ + n] ELSE m)
       IN  Grown(uvmalloc(State(p), space[p].sz, space[p].sz + n))
    /\ UNCHANGED <<alive, pipes>>

\* growproc() of n fewer units; of more than there are, it does nothing.
Shrink(p, n) ==
    /\ p \in alive /\ n <= space[p].sz
    /\ LET sz == space[p].sz - n
       IN  Put(p, [uvmdealloc(State(p), space[p].sz, sz) EXCEPT !.s.sz = sz])
    /\ UNCHANGED <<alive, pipes>>

\* pipealloc(), and the last pipeclose() of a pipe.
PipeAlloc ==
    /\ Cardinality(pipes) < MaxPipes
    /\ LET m == kalloc([Full EXCEPT !.free = free])
       IN  free' = m.free /\ pipes' = IF m.ok THEN pipes \cup {m.got} ELSE pipes
    /\ UNCHANGED <<space, alive, panic>>

PipeFree(p) ==
    /\ p \in pipes /\ pipes' = pipes \ {p}
    /\ free' = [free EXCEPT ![p] = @ + 1]
    /\ UNCHANGED <<space, alive, panic>>

MemNext ==
    /\ ~panic
    /\ \/ \E p \in Proc : \/ \E q \in Proc : Fork(p, q)
                          \/ Wait(p)
                          \/ \E prog \in Program, fault \in {"none", "read", "args"} : Exec(p, prog, fault)
                          \/ \E n \in 1..PGSIZE : Grow(p, n)
                          \/ \E n \in 1..MaxSz : Shrink(p, n)
       \/ PipeAlloc \/ \E p \in pipes : PipeFree(p)

MemSpec == MemInit /\ [][MemNext]_memVars
-----------------------------------------------------------------------------
\* What page x is used for: on the free list, by a pipe, or in the memory of a process.
Uses(x) ==
    ({"free"} \X (1..free[x])) \cup ({"pipe"} \X ({x} \cap pipes))
    \cup ({"trapframe"} \X {p \in Proc : space[p].trapframe = x})
    \cup (UNION {{<<"table", p, n>> : n \in {n \in DOMAIN space[p].table : space[p].table[n] = x}} : p \in Proc})
    \cup (UNION {{<<"leaf", p, va>> : va \in {va \in From(0, TRAPFRAME) \cap DOMAIN space[p].leaf :
                                                space[p].leaf[va] = x}} : p \in Proc})

\* Every page has exactly one use: none is lost when a call fails half-way, none is free
\* while somebody uses it, none belongs to two.  The assertions of vm.c hold, and what is
\* not a process has no memory.
PagesAccounted ==
    /\ ~panic
    /\ \A x \in Page : Cardinality(Uses(x)) = 1
    /\ \A p \in Proc \ alive : space[p] = NoSpace
====
