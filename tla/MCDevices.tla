---- MODULE MCDevices ----
(***************************************************************************)
(* What lies between the programs and the hardware, each on a small        *)
(* instance: the kernel modules of the board (Drivers), the way of the     *)
(* key's presses to the programs (Key), and of xv6 the pages (Memory), the *)
(* blocks of files (Blocks), buffers and disk (Disk), console (Console).   *)
(* They have nothing to do with each other: side says which of them a      *)
(* behaviour is about, and v1, v2, ... are the variables of that one.      *)
(***************************************************************************)
EXTENDS Drivers
CONSTANT Proc
VARIABLES side, v1, v2, v3, v4, v5, v6, v7, v8, v9, v10, v11, v12, v13, v14, v15, v16

Keys == INSTANCE Key WITH
    Reader <- Proc, way <- v1, down <- v2, timer <- v3, key_value <- v4, key_status <- v5,
    pc <- v6, value <- v7, sigio <- v8, press <- v9

\* 14 pages, one of them for a pipe, page tables of three entries; an empty program
\* and two of two segments, one with the second below the first.
Pages == INSTANCE Memory WITH
    Proc <- {1, 2}, initproc <- 1, Pages <- 14, PGSIZE <- 2, PTES <- 3,
    Program <- {<<0>>, <<2, 4>>, <<3, 1>>}, MaxSz <- 5, MaxPipes <- 1,
    free <- v1, space <- v2, alive <- v3, pipes <- v4, panic <- v5

ASSUME PagesAssumption == Pages!MemoryAssumption

\* Two files, a direct block or two and as many behind the indirect one; each block of the
\* bitmap has one bit, the worst case for the log.
Files == INSTANCE Blocks WITH
    Inode <- {1, 2}, File <- {1, 2}, IpOf <- <<1, 2>>, DataBlock <- 1..5, BPB <- 1, BSIZE <- 2,
    NDIRECT <- 2, NINDIRECT <- 2, MAXOPBLOCKS <- 10, Count <- {1, 8},
    bitmap <- v1, addrs <- v2, size <- v3, off <- v4, todo <- v5, logged <- v6, panic <- v7

ASSUME FilesAssumption == Files!BlocksAssumption

\* With 5 descriptors one request is at the disk, with 8 as many as there are buffers.
Disks == INSTANCE Disk WITH
    NUM <- {5, 8}, Buf <- {1, 2}, Block <- {1, 2, 3}, Changing <- {1}, MaxPinned <- 1,
    buf <- v1, lru <- v2, locked <- v3, pinned <- v4, pc <- v5, asleep <- v6, b <- v7,
    write <- v8, free <- v9, next <- v10, info <- v11, avail <- v12, used <- v13, disk <- v14,
    latest <- v15, panic <- v16

ASSUME DisksAssumption == Disks!DiskAssumption

Terminal == INSTANCE Console WITH
    INPUT_BUF_SIZE <- 2, UART_TX_BUF_SIZE <- 1, UINT <- 4, Proc <- {1, 2},
    Calls <- {<<"read", 2>>, <<"write", 1>>},
    cbuf <- v1, r <- v2, w <- v3, e <- v4, line <- v5, lines <- v6, tx <- v7, busy <- v8,
    irq <- v9, pc <- v10, target <- v11, n <- v12, asleep <- v13, killed <- v14

ASSUME TerminalAssumption == Terminal!ConsoleAssumption

\* The variables from the sixth, the eighth, ... that a side has no use for.
From15 == <<v15, v16>>
From10 == <<v10, v11, v12, v13, v14, From15>>
From8  == <<v8, v9, From10>>
From6  == <<v6, v7, From8>>
From1  == <<v1, v2, v3, v4, v5, From6>>
None15 == v15 = NULL /\ v16 = NULL
None10 == v10 = NULL /\ v11 = NULL /\ v12 = NULL /\ v13 = NULL /\ v14 = NULL /\ None15
None8  == v8 = NULL /\ v9 = NULL /\ None10
None6  == v6 = NULL /\ v7 = NULL /\ None8
None1  == v1 = NULL /\ v2 = NULL /\ v3 = NULL /\ v4 = NULL /\ v5 = NULL /\ None6

DevicesInit ==
    /\ Init
    /\ \/ side = "board"   /\ None1
       \/ side = "key"     /\ Keys!KeyInit /\ None10
       \/ side = "memory"  /\ Pages!MemInit /\ None6
       \/ side = "files"   /\ Files!BlocksInit /\ None8
       \/ side = "disk"    /\ Disks!DiskInit
       \/ side = "console" /\ Terminal!ConsoleInit /\ None15
    /\ side # "board" => name = [s \in Slot |-> NULL]

DevicesNext ==
    /\ UNCHANGED side
    /\ \/ side = "board"   /\ Next                  /\ UNCHANGED From1
       \/ side = "key"     /\ Keys!KeyNext          /\ UNCHANGED <<vars, From10>>
       \/ side = "memory"  /\ Pages!MemNext         /\ UNCHANGED <<vars, From6>>
       \/ side = "files"   /\ Files!BlocksNext      /\ UNCHANGED <<vars, From8>>
       \/ side = "disk"    /\ Disks!DiskNext        /\ UNCHANGED vars
       \/ side = "console" /\ Terminal!ConsoleNext  /\ UNCHANGED <<vars, From15>>

DevicesSpec == DevicesInit /\ [][DevicesNext]_<<side, vars, From1>>

Symmetry == Permutations(Slot) \cup Permutations(Proc)

\* Bound: with 8 descriptors two processes at a time use the disk; the second file has at
\* most one unit before it is written or emptied.
Bound == /\ side = "disk" /\ 8 \in v9 => Cardinality({p \in Proc : v5[p] # "idle"}) <= 2
         /\ side = "files" => v3[2] <= 1

\* Every page of memory has exactly one use.
PagesAccounted == side = "memory" => Pages!PagesAccounted

\* Every block of the disk is free or in one file, files have no holes, and a write stays
\* within the log.
BlocksSound == side = "files" => Files!BlocksAccounted /\ Files!NoHoles /\ Files!WriteFitsLog

\* Nobody sleeps past what he waits for: a reader of the key a press that is noted (one that
\* was wiped with the note of an earlier one is not), a process the disk, a descriptor, a
\* buffer's lock, typed characters or room to write.
NobodySleepsPast == /\ side = "key"     => Keys!PressIsSeen
                    /\ side = "disk"    => Disks!SleepersAreWoken
                    /\ side = "console" => Terminal!ConsoleGoesOn

\* What is in a buffer is what belongs there: the block as it was last changed, and the
\* typed lines in order.
BuffersExact == /\ side = "disk"    => Disks!HeldIsLatest
                /\ side = "console" => Terminal!LinesIntact
====
