# Verification of the network disk, of xv6 and of the servers and drivers beside them

This directory holds TLA+ models of the concurrent programs of this repository, the TLC
configurations that check them on small instances, and TLAPS proofs for instances of every size. The
main subject is the network disk (`LinuxC网盘小项目`), the author's own client/server system. The
second is the annotated xv6 kernel (`mit-xv6-code注释版`). Beside them stand the earlier servers and
exercises (`C/`), the reactor (`C++/SimpleReactor`) and the board's kernel modules (`linux-drivers`).

Paths below are relative to the repository; `ND/` stands for `LinuxC网盘小项目/`, `X/` for
`mit-xv6-code注释版/kernel/`.

    tlc -workers 2 -config MCThreadPool.cfg MCThreadPool    # one run
    tlapm PoolProofs.tla                                    # the proofs of a module

## 1. The system

### 1.1 Network disk

| part | files | state | operations |
|---|---|---|---|
| thread pool and task queue | `ND/src/thread_pool.c`, `ND/src/work_queue.c` | linked list with head, tail and size; a mutex; a condition variable; heap nodes | the main thread enqueues and signals; `THREAD_NUM` workers wait, dequeue, run the transfer, free the node |
| server main loop | `ND/server/main.c` | epoll set, `maxevents`, the events of the last `epoll_wait` | accept; register/login; token and hand-over; command; hang-up; idle second |
| client list and timeout roulette | `ND/src/link_list.c` | list of logged-in clients; `TIMEOUT_DISCONNECT_SECOND` lists of descriptors and a current index | insert, delete, move to the current list, turn the wheel and drop |
| commands and virtual file system | `ND/src/operation.c`, `ND/src/mysql_op.c` | tables `UserFile` and `FilePool`; every client's `code` and `path` | ls, cd, pwd, mkdir, rm; puts and gets |
| file pool and transfer | `ND/src/transfer_file.c` | the pool directory, files named by MD5; `recv_n`, `send_n`, `mmap`/`sendfile` | `recv_file`, `send_file` |
| client | `ND/client/main.c`, `ND/src/client_op.c` | session socket, token, local files, `<name>.download` | login, commands, one thread per gets or puts, resumption |
| accounts and log | `ND/src/operation.c`, `ND/src/md5sum.c` | tables `User` and `OperationLog` | register, login; a row per command |

The parts interact as follows. A client's main thread opens a **session**: it logs in, receives a
token, and sends commands over the same connection. The server's main thread handles every command
itself. For a gets or puts the client starts a thread, which opens a **transfer** connection, sends
the token and its request; the server's main thread turns it into a heap node with a pointer to the
session's client node (`p_client_info`), appends it to the queue and signals a worker, which runs
`do_gets` or `do_puts` against the database and the pool directory and closes the socket. Shared state
therefore exists in four places: the queue (under its mutex), the client list (written by the main
thread, read by workers through `p_client_info`, with no lock), the database (every call opens a
connection of its own, every statement commits by itself) and the pool directory. Descriptors are
shared by number: the client list, the wheel, epoll and the workers all name a connection by a number
the kernel gives out again as soon as it is closed.

What makes it hard:

- interleaving of the main thread with workers, and of workers with each other, over all four of these;
- events of one `epoll_wait` batch that are handled after earlier events of the batch have closed and
  reused descriptors; any client's event may turn the wheel and drop other clients;
- look-then-act windows between SQL statements; statements that fail half-way through a recursive rm;
- peers that hang up in the middle of a message, an upload or a download; downloads that are resumed;
- blocking reads in an event loop: progress depends on what peers send.

What makes each part correct: the queue neither loses nor repeats a task, no node has two owners, no
wake-up is lost; a descriptor has one user, epoll and the client list agree, a client is dropped only for
a reason, and is dropped if it has one; a path is the directory it names, rm removes a subtree and
nothing else, a file one can see can be downloaded; a download that is reported as successful is whole.

### 1.2 xv6

| part | files | state | what is hard, and what is right |
|---|---|---|---|
| log | `X/log.c` | disk, log header, `lh`, `outstanding`, `committing` | a crash between any two disk writes, recovery included; sleepers that wait on one channel for two things; work without the lock. Groups of calls are durable as a whole or leave no trace |
| processes | `X/proc.c`, `X/trap.c` | process table, `wait_lock`, a lock per process | sleep and wakeup across two locks; exit, wait and kill at the same time. Nobody sleeps past his event, nobody is left without a parent |
| open files, pipes | `X/file.c`, `X/pipe.c`, `X/sysfile.c` | `ftable`, `ofile`, counters of each pipe | an entry is reused while its last user still closes it; closing wakes both sides. What is unread is there, in order |
| inodes, directories | `X/fs.c`, `X/sysfile.c` | inode table, disk inodes, sleep locks | locks of two inodes at a time; inodes freed while others look for them; counts taken ahead of names. No name without an inode, no circle of locks |
| blocks of files | `X/fs.c`, `X/file.c` | bitmap, direct and indirect blocks | a write in pieces that fails in one; the bound on a transaction. A block has one use |
| buffers and disk | `X/bio.c`, `X/virtio_disk.c`, `X/sleeplock.c` | list of buffers, descriptor chains, rings | three reasons to sleep, one interrupt. Who has a buffer has the newest content |
| pages | `X/vm.c`, `X/kalloc.c`, `X/exec.c`, `X/proc.c` | free list, page tables | memory that ends half-way through fork, exec, sbrk. A page has one use |
| console | `X/console.c`, `X/uart.c` | line buffer with three counters, transmit ring | interrupt against readers and writers. Lines arrive whole, nobody sleeps while there is something to do |

### 1.3 Servers and exercises in C and C++

- `C/revise/process_pool` and its versions 1.0 to 5.0 (`C/day30`, `C/day31`): the main process passes accepted
  descriptors to free children over socket pairs, and learns over the same pairs when they are free again.
- `C/revise/thread_pool`, `C/day32/thread_pool`: earlier thread pools with the network disk's queue; the former has
  an exit by signal that cancels and joins the threads.
- Their file transfers, in five versions: length and content ("trains"), whole or in parts, `send`, `mmap`,
  `sendfile`, and clients that receive with one `recv`, a loop, or `splice`.
- `C++/SimpleReactor`: a calculator behind a one-threaded dispatcher, with level- and edge-triggered events.
- The chat programs of `C/day19`, `day28`, `day29` and `C/revise`: one server for one client, or a room that relays.
- The exercises in synchronisation of `C/day22`, `day25`, `day26` and `C/revise/test`: semaphores with and without
  `SEM_UNDO`, mutexes across threads and processes, ticket windows with a condition variable.

Hard in all of them: events that are handled after they are stale, peers that leave at any point, messages that come
in pieces or joined, processes that die with a lock or a task. Right: a client is served once and whole, and waits
only for what will come.

### 1.4 linux-drivers

25 kernel modules for one board. Each takes resources when it is loaded (a device number, a class, pins, interrupts,
memory), has file operations, an interrupt handler or a timer that run meanwhile, and gives everything back when a step
fails or it is removed. Two modules may want the same pin. Drivers 11 to 14 bring the presses of one key to programs,
in four ways.

### 1.5 Everything else

Sequential programs, examples, circuits, notebooks and scripts; see section 6. `PROJECT.json` lists all parts with their
status, and the hazards with the line where each bites.

## 2. Modules

    WorkQueue ── ThreadPool ──(implements)── TaskPool
        └── FactoryPool    └ PoolProofs ── FactoryPool, ProcessPool, Transfer
    Log ──(implements)── AtomicDisk        Proc ── FileTable ── Pipe ── Kernel ── KernelProofs
     └ LogProofs ── Blocks                  Fs ── FsProofs    Disk, Memory ── DiskProofs
    Server, Reactor, Chat ── ServerProofs   Drivers, Key, Console ── DevicesProofs
    FileStore, Download ── FileStoreProofs
    Exercises

    MCThreadPool  MCServer  MCFileStore  MCDownload  MCLog  MCKernel  MCFs       one module each
    MCFiles    FileStore or Download
    MCServers  Server, ProcessPool, FactoryPool, Transfer, Reactor, Chat or Exercises
    MCDevices  Drivers, Key, Memory, Blocks, Disk or Console

Components that have nothing to do with each other share a run: `MCFiles`, `MCServers` and `MCDevices` have a variable
`side` that says which of them a behaviour is about; it never changes, and the others do not move. The instances use
common variables `v1`, `v2`, ... (the variables of one side are substituted for them), so that the state stays small.
The composite properties there (`ServedOnce`, `NobodySleepsPast` and so on) are conjunctions `side = ... => M!Property`, and
each conjunct is a property of its module, with its comment there.

Definitions marked "mutant" are deliberately wrong versions of the definition that follows. No action uses them: each
shows a mistake that one property would catch.

### WorkQueue, TaskPool, ThreadPool

`WorkQueue` translates `queue_init`, `queue_set` and `queue_get` as operators on a record `[head, tail, size,
pnext]`, with `pnext` the link field of all heap nodes. `Represents(q, s)` says that the pointers spell out
the sequence `s`. `Taken` keeps the detail that `queue_get` leaves the caller's pointer alone when the queue
is empty.

`ThreadPool` has one action per point where another thread can look: in `main()` calloc, lock, `queue_set`,
unlock, signal (main.c:159-168); in `thread_handle` lock, the `if (size == 0)`, the wait, its return with the
mutex, `queue_get`, `cleanup`, the end of the transfer with close and free. `pthread_cond_signal` wakes one of
the waiting threads, whichever; spurious returns are allowed, and after either the size is not tested
again, as in the code. `heap` is what calloc may return; a freed node may be handed out at once.
`fifo` is a history variable, the nodes enqueued and not yet taken; with it "the list is right" can be stated.

`TaskPool` is the promise: one line of tasks, the oldest is taken by an idle worker, a task is run
once. `PoolSpec` in `ThreadPool` is the refinement, `line <- fifo`, `running <- pcur`.

### Server

One action is one event, one message or one pool task. Because each `recv` blocks, a read is an action
enabled once its message is there or the peer has hung up; until then the main thread is stuck, which is the
code's behaviour. `mode` is where the main thread stands, `batch` the events not yet handled, `table` and
`sfd` the descriptor table with reuse of the lowest free number, `roulette`/`index` the wheel. Whether a
second has passed when the wheel is checked is nondeterministic (`RouletteCheck`). `idle` is a history
variable: how far the wheel has turned since a client was last heard of. `tasks` holds `p_client_info` as
the client it points to. Death of `main()` (a failed `recv_n` returns from it: main.c:69 and others) and
of the process (SIGPIPE is not handled) is `mode = "dead"`. `DescriptorsAgree` is the conjunction of `FdsHaveOneUser`
(no number is leaked or shared) and `WatchedAreListed` (epoll watches exactly the listed clients).

Correspondences that need a word. `link_list_delete_node` (`DeleteClients`) takes the first node with the descriptor out of
`clients` and leaves the others in order, said as an increasing choice of the places that stay.
main.c:114 and :234 pass -1 as the epoll descriptor, so `epoll_ctl` fails and it is the `close` that unregisters a dropped client; same effect. main.c:237 reads `p->next` after
`link_list_delete_node` freed `p`; the model takes the usual outcome, that the field is still there. Login and
registration are one outcome each; tokens are unique.

### FileStore

One action is one SQL statement, or one file operation between two. The main thread executes commands one
at a time, rm statement by statement. `rmTodo` is the stack of the recursion in
`delete_folders_recursively`, for each call its row and the result of its query: `RmList` asks for all entries of the
top directory at once, `RmFetch` takes the next of them and goes down into it, `RmDelete` deletes the top when none is
left. Workers run `do_puts` and `do_gets` at the same time. `UserFile` is a set of
rows with `id_code` and `precode`; `FilePool` counts rows per content (size and MD5); `disk` says whether the
pool file is absent, partial or whole. `recv_file` truncates the file to full size first, so it may look whole
and not be. `do_puts` reads the session's `code` three times: to check the name, to format the insert
statement, and the statement runs later still. Failures: any statement of a task may fail, any
statement of an rm may fail (after which the outer levels use a closed connection: their statements fail or
the process dies), an upload may be cut.

Names and paths are sequences of separators and of the strings between them, since nothing keeps a '/' out of
a name: `client/main.c:178-237` only asks that there is a name, `do_mkdir` inserts what it gets (its test for a
final separator looks at the terminating zero, operation.c:295), and `do_cd` strips one final separator and looks
for the rest as one name. `CdDir` appends the whole name to the path, `CdUp` goes to the parent in the table and
cuts the path at its last separator (`Cut`, the `strrchr` of operation.c:222): these are not the same if the name
had a separator in it, and then the path shown is not that of the directory. `PathMatchesCode` says what is left. The number
`code` never comes to mean a file or another user's directory, for any session. For a session whose user is logged in once it
means a directory that is there, with all above it, and the path is "/" just in the root. While the names entered
since the session was last in the root are plain (`plain`, a history variable) the path spells the names of these
directories. With two sessions of a user one may remove what the other stands in, and the path may then be cut down to
nothing: there only the first part holds.

Abstracted: `cd` strips a final backslash as it does '/', the database compares names without regard to case, and a quote or
backslash in a name changes the statement; names differ here just if they are different sequences. The path has 64 bytes
(`include/common.h:67`) and `strcat` no bound; here it may be of any length.

Taken as given: MD5 has no collisions; the query of a `cd` succeeds (operation.c:229 uses an uninitialised
number if it fails); sessions do not end here (that is `Server`).

### Download

The client's GETS thread against the server's `send_file`, in blocks: the name check, the size of
`<name>.download` taken as the offset, the request, open, `ftruncate` to full size, blocks, rename. Several
threads of a client may download the same name; connections break, the client dies, the owner replaces the
file on the server. Files are inodes, because the rename acts on the name, and writers hold the inode. A content has a
block at least: `recv_file` cannot map a file of size 0, so an empty file never gets into the pool.

Because the rename acts on the name, what a thread reports as successful need not be what the name gets. A thread that has
found the unfinished file of another and its full size receives nothing, renames that file and is done; a third then
finds no unfinished file and makes a new one; and now the first, which has written its file whole, renames the third's
empty one over it and reports success (client_op.c:164). `FreshIsWhole` therefore says two things of a download that started from nothing:
its own file has the whole content, always; and the name has this file, unless another thread has ended since it was opened. The
second part needs to know that, hence the history field `overtaken`, which `Finish` sets in the jobs of the others.

### AtomicDisk, Log

`AtomicDisk` is the promise: `stable` (what a restart finds) changes only to what `current` is when no call is
under way; a crash sets `current` back. `Log` has one action per critical section under `log.lock` and one
per disk write: `BeginOp` (the test and the sleep of the loop), `LogWrite` (change, pin, enter or absorb),
`Panic`, `EndOp`, the passes of `write_log` and `install_trans`, the two header writes, `Finish`; `Crash`; and
recovery as `ReadHead`, `RecoverInstall`, `RecoverClear`. `Bread` lets an unpinned buffer be recycled, so that
pinning matters. Refinement: `stable` is the disk with the committed log laid over it, `current` the cache.
A disk write of one block is taken to be atomic, and complete when `bwrite` returns (`Disk` shows how). The buffer's
sleep lock is held from the change to `log_write`, so both are one action. A call writes at most MAXOPBLOCKS
different blocks, as `X/param.h:9` says; `Blocks` shows that the largest kind of call, a write, keeps to it. The length of
the log on disk (`sb->nlog`) comes from a tool that is not in the repository, hence the constant `LogBlocks`.

### Proc, FileTable, Pipe, Kernel

`Proc` is the process table: `ForkAlloc` (`allocproc()` and the copying), `ForkFail`, `ForkStart`, `WaitEnter` and what `wait()`
finds, `ExitProc` (reparent, wakeup, ZOMBIE under `wait_lock`), `Kill`, the scheduler and `yield`. An action is a critical
section. `sleep()` takes `p->lock` before it gives up the condition's lock: so the test of the condition and the
sleep are only separated where the code separates them, and that is from `kill()`, which takes `p->lock` alone: hence two
actions (`WaitNone` or `WaitFail`, then `WaitSleep`; `ReadBlocks`, then `Blocked`). `FileTable` adds descriptors and the reference
counts; `fileclose()` is `FileClose`, which frees the entry and keeps the copy `ff`, and `PipeClose` or `CloseDone`, which use the copy
after the entry may have gone to another. `Pipe` adds the pipes: `copyin` and `copyout` may fail at any byte, the counters wrap
at `UINT`, which PIPESIZE divides. `Kernel` composes them: which user programs do what, the trap entry where a killed process
ends, interrupts off while a spin lock is held. init forks and waits, and is not killed.

### Fs

One action is what a call does from one point where it may wait for an inode's lock to the next. `namex()` is `Walk`,
element by element, with the reference and the lock of the directory it is in; `create()` is `CreateLookup`, `CreateExists`,
`CreateFill`; `unlink` is `UnlinkParent` and `UnlinkChild`; link is `LinkOld`, `LinkNew`, `LinkUndo`. `iput()` is `Iput`, `IputFree`, `IputDone`,
because it drops the table's lock to take the inode's and frees it afterwards. The inode table is one place per inode
number: when and where an entry is recycled makes no difference except that `valid` is lost with the last reference.
Every call is a transaction (module `Log`); a crash happens when no call runs, which is what `Log` proves every crash looks
like. `DotDot` says whether programs use "..": see section 4.

### Memory, Blocks, Disk, Console

`Memory` runs `uvmalloc`, `mappages`, `walk`, `uvmcopy`, `proc_pagetable`, `exec`, `growproc`, `freeproc` and the rest as operators on a
record of the free list, the process's memory and what has failed (the loops over pages and segments are the functions in `NewPages` and `Segments`), with `kalloc()` failing wherever memory runs out or
another CPU may have taken it. A system call is one action, since address spaces are private and the free list is locked
for each page alone. Page tables are kept as the pages they need, so that a page of a table that is forgotten shows.

`Blocks` has `bmap`, `itrunc`, `writei`, `readi` and the loop of `filewrite()`, one transaction an action, with `copyin` or `copyout` failing
at any block; `logged` counts the blocks a transaction writes.

`Disk` is `bget`, `bread`, `bwrite`, `brelse`, `bpin` and the sleep lock over `alloc3_desc`, `virtio_disk_rw` and `virtio_disk_intr`; the disk is an
actor that serves requests in any order. `latest` is a history variable: what was last put into each block's buffer.

`Console` is `consoleintr` with its five kinds of characters, `consoleread`, `consolewrite`, `uartputc`, `uartstart` and `uartintr`. `line` and `lines`
are what the three counters stand for.

### Drivers, Key

`Drivers` describes each module by the list of its load's steps, each with what it gives back if it fails, the list of its
exit, and what its file operations, handler and timer need; a small interpreter loads, fails, removes and enters two modules at
a time. So the 25 modules are 25 definitions of a few lines. `Key` has the steps of `read()` and of the timer function on
`key_value` and `key_status`, and a definition `Ways` that tells the four drivers apart; 13 is used with and without
`O_NONBLOCK`.

Not every press reaches a program. It is noted in `key_status`, and the note goes in two ways before anybody is given the
press: the key is let go before a reader has looked, and the timer function writes "release" over it; or a reader that is being
given an earlier press clears the note, whatever it says by then (blocking_IO.c:171 looks, the clear follows after the copy). A press that came between is wiped,
nobody is given it, and readers may go to sleep past it. The history variable `press` says what became of the last press:
`PressIsSeen` says that while it is "owed" its note stands, and that while a note stands no program rests. With one program that waits the
second loss needs a press within the few instructions from look to clear; the model has no time and allows it.

### ProcessPool, FactoryPool, Transfer, Reactor, Chat, Exercises

Each has a table of the versions it covers; a behaviour begins by choosing one, and the actions follow its columns.

`ProcessPool`: `Poll` takes a batch of events in the order of the loop, `Accept` gives a connection to the first child that is
not busy or closes it, `Report` clears the flag; the child receives, serves and writes its report. `down` and `up` are the two
directions of the socket pair. `FactoryPool` uses `WorkQueue`; memory from `malloc` has any link, and when that makes the list
unsound nothing more is modelled (`Sound`). Cancellation acts only at cancellation points, and in `pthread_cond_wait` only with
the mutex, which the cleanup handler gives back. `Transfer` sends the bytes of one file, in trains with their lengths, over a
connection that delivers any number at a time, to each kind of client. `Reactor` has the dispatcher's loop with its batch,
the epoll flags and edges of each descriptor, and the buffers `m_in` and `m_out`; half a calculation may arrive. `Chat` has
`select` and `epoll` loops, the order in which they look at descriptors, and SIGPIPE. `Exercises` runs each program as the list of
its operations, with System V undo adjustments, processes that are killed and started again, and spurious wake-ups.

## 3. Runs

Deadlock is checked in `pool` and `log`. In the others something really may stop: `main()` has returned, a process was
killed, a program has finished, a kernel waits for input that need not come, or a bound is reached.

| run | instance | properties | distinct states |
|---|---|---|---|
| `pool` | 3 workers, 3 nodes | ListMatchesFifo, OneOwner, NoLostWakeup, QueuedIsTaken, PoolSpec | 50,502 |
| `server` | `MCServers`: each server by itself, see below | DescriptorsAgree, RouletteAge, ForgottenForAReason, ServedOnce, NobodyWaitsInVain | 1,005,062 |
| `server_live` | 2 sessions, 1 transfer, any two of the three connect, 2 timeout lists | ReadableIsServed, SilentIsDropped | 12,118 |
| `server_dangling` | 2 sessions, 1 transfer | TaskClientListed: **violated** | |
| `server_misled` | 3 sessions | ReadsWhatEpollReported: **violated** | |
| `files` | server: 3 sessions, two of them of one of 2 users, 2 workers, 2 contents, 4 rows; client: 3 threads, a content of 3 blocks, 3 inodes | PoolRowsWhole, FilesInPool, PathMatchesCode, TreeRooted, RmStaysInside, FreshIsWhole | 96,506 |
| `store_orphan` | 1 session, 1 worker | NothingLeftBehind: **violated** | |
| `download_resume` | 1 thread, 3 blocks | ResumedIsWhole: **violated** | |
| `log` | 3 processes, 2 blocks, 2 values, calls of 1 block, log of 2 | CommitsAlone, ReservationHolds, SleepersMustWait, SleeperIsWoken, AtomicSpec | 50,312 |
| `kernel` | 3 processes, init among them, 2 CPUs, 2 files, 2 descriptors each, 1 pipe of 1 byte | RefCountsHolders, UnreadIntact, EndsMatchFiles, SleepersHaveReason, NoOrphans | 684,586 |
| `fs` | 2 processes, 3 inodes, 2 names, paths of 1 element | NoDanglingEntry, RefCountsPointers, NoPanic, NoDeadlock, FreeWontBlock | 692,659 |
| `devices` | `MCDevices`: each part by itself, see below | FreesOwn, GivesBack, EntriesBacked, PagesAccounted, BlocksSound, NobodySleepsPast, BuffersExact | 363,339 |

The type invariants of `ThreadPool` and `Log` are part of the inductive invariants of section 5 and proved there; the
others are stated in their modules and not run, since whatever breaks one breaks a property beside it.

The composite properties are made of these:

| property | side | conjuncts |
|---|---|---|
| ServedOnce | processes | `FreeIsFree` (the busy flags say exactly who is free, so a connection is turned away only if all have work), `OneHolder` |
| | threads | `TakenOnce` (a taken connection is one node's, in the queue or one thread's; the list is always sound with calloc) |
| | reactor | `ResultsInOrder` (each calculation's result once and in order, in whichever pieces) |
| | files | `FileArrives` (whole, in place) |
| | chat | `TalkInOrder` (everybody gets what the others say, in the order the server heard it, once) |
| | sync | `CountsHold` (buffers keep their places, no addition is lost, a ticket is sold once) |
| NobodyWaitsInVain | processes | `EndsInOrder` |
| | threads | `MutexIsLeft` (main can join), `QueueIsSeen` |
| | reactor | `SilentForAReason` |
| | files | `EndlessForAReason` |
| | chat | `UnheardForAReason` |
| | sync | `StuckForAReason` (mutual exclusion, no circle of two that wait, no lost wake-up) |
| BlocksSound | files | `BlocksAccounted`, `NoHoles`, `WriteFitsLog` |
| NobodySleepsPast | key, disk, console | `PressIsSeen`, `SleepersAreWoken`, `ConsoleGoesOn` |
| BuffersExact | disk, console | `HeldIsLatest`, `LinesIntact` |

The "for a reason" properties say when exactly a program does wait or fail for ever: each reason is a case the code
lets happen (section 4), and the property is that there are no others.

Why these bounds are enough for what is asked:

- **pool.** Three workers let one sleep, one steal a wake-up and one be busy; three nodes make a queue with a
  head, a middle and a tail and force reuse of freed nodes. The theorems of section 5 remove the bounds for all
  but `QueuedIsTaken`.
- **server, the disk's side.** Three descriptors are one per connection, so a closed number is reused by the next login.
  Three lists make "the list after the current one" differ from "the list before". One message in flight per connection
  (`MaxInbox`) and the hang-ups give every order of events in a batch. Two sessions show a client that is dropped by another's
  event. `MaxConns` bounds how many connections are made in all. Symmetry is sound: no connection is compared with another
  except for equality, and no liveness is checked there.
- **server, the other sides.** Two children or threads and three clients: a client more than can be served, and batches with
  a report and a connection in both orders. The reactor has two connections with two calculations each, received at most
  three half-calculations at a time. Files are empty, of one and of one and a half trains, over none or a longer old file; what
  one `sendfile` sends at most is smaller than the largest. Chats have two clients of two lines, one line typed at the server,
  and `select` looks at one or two connections. Exercises have 2 places, 3 tickets, 2 more, 3 turns. The clients' and sessions' names double as those of nodes,
  threads and connections, so that one symmetry serves all.
- **server_live.** Two lists, and no more than two connections; among them a session with its transfer, and two sessions.
  With two sessions `Misled` cannot occur (`server_misled` needs three), so here it excludes nothing.
- **files.** On the server (`Bound` of `MCFileStore`) either two workers race on one content, or on two, for one user with two
  rows; or nothing is uploaded, and there are two rows of any of the two users, one of whom is logged in twice, or four rows of the one who is
  logged in once. Four rows are a directory in a directory with entries, two are a directory and one that a second session removes
  under the first. Names are `a`, `a/`, `a/a` and `a//`; of four rows one at most has a name that is not plain, and paths are no longer than that of
  four plain names. On the client three threads: one that started from nothing, one
  that has resumed, and one that renames under both. Three blocks have a first, a middle and a last. A fresh download is whole
  even then: that is not obvious from the code, since all write to the same file; it holds because each writes the same bytes at
  the same place, which is why there is one content: overlapping downloads of a name whose content is replaced in
  between would mix.
- **log.** Log of two data blocks with a reservation of three: the sizes keep the ratio of a log of LOGSIZE blocks
  with the header included, so `Panic` is reached too. Three processes are needed for a reservation to run out. A
  group of two calls is a transaction of two blocks, torn by a crash at every point; crashes in recovery, and
  repeated ones, are included.
- **kernel.** init, a parent and a child, or two siblings, on two CPUs: each race of section 1.2 needs two that run and
  one that sleeps. A pipe of one byte is full and empty after every byte; the counters wrap at 3. Bounds: one process at a time
  is killed and not reaped, one waits for a CPU.
- **fs.** Three inodes are the root, a directory and a file, or the root and two files; with two processes every inode of a call
  can be the other's. Bounds in `MCFs`: one open file or changed directory, one directory below the root, two links of an inode,
  `mknod` (whose steps are those of open) runs alone.
- **devices.** Every module alone and every two that want the same pin, interrupt or class. Three programs read the key.
  14 pages of two units with page tables of three entries make tables of three levels appear and disappear with the pages; memory
  runs out at every point, before the addresses meet the trapframe, as on the machine (`MemoryAssumption`). Blocks: one direct block or two, as many indirect, a bitmap block for each bit, which is the worst
  case for the log, and there the bound of 10 is met exactly. The disk has two buffers for three blocks, with 5 descriptors
  (one request) or 8 (two). The console has lines of two characters and a ring of one.

### Fairness

`pool`: weak fairness of the main thread between two requests and of each worker outside of a transfer. Runnable
threads are scheduled by the kernel; nothing is assumed of new requests, spurious wake-ups, or the end of a
transfer, hence the escape "or all workers are busy" in `QueuedIsTaken`.

`server_live`: weak fairness of the main thread (its system calls return when they can), strong fairness of `Tick`
(each time the loop checks the clock a second may have passed, and it checks again and again, at least every
second), and weak fairness of the messages the client program sends without waiting for its user: login, token,
request. A peer that connects and is silent would stop the loop, and every other client with it: a behaviour of the
code, not of the model, since main.c:68 is a blocking read.

`log`: every call that begins also ends (in the kernel each `begin_op` has its `end_op`), and a process in
`commit` goes on. No fairness for `BeginOp`: spin locks are not fair, so a sleeper is woken but may be
overtaken; the property only promises the former. Crashes may always happen and are an escape.

The other runs state what liveness rests on as invariants instead: whoever sleeps has somebody who will wake him
(`SleepersHaveReason`, `SleepersAreWoken`, `ConsoleGoesOn`, `PressIsSeen`, `QueueIsSeen`). They need no fairness, and they are what can go wrong.

## 4. What the runs show

The network disk's queue and its locking are right, in spite of `if` instead of `while` and of the signal after the unlock: a
worker that comes back with nothing starts over (thread_pool.c:47), and each missing wake-up is made up for by a
worker that has yet to look. The bookkeeping of client list, wheel, epoll and descriptors is right through all
three ways of leaving. A file in the pool is whole whenever a row says it is there.

xv6's log is atomic. Nobody sleeps past an event, through `sleep`, pipes, disk, buffers and console; references, pages and blocks are
counted right through every failure half-way; the transaction of a write meets its bound exactly.

Four expectations of the project's own documents are not met (`findings` in `PROJECT.json`, each with its run):

1. `server_dangling`: a client hangs up, or times out, while its transfer is queued or running; the worker goes on
   with a pointer to the freed client node (main.c:162, 205; link_list.c:115).
2. `server_misled`: the first event of a batch drops a client, a second one accepts a new client that gets the same
   descriptor, the third one, meant for the old client, is taken for the new one, and the loop blocks in `recv`.
3. `store_orphan`: rm of the directory an upload is about to insert into; the row stays for ever, out of reach.
4. `download_resume`: after an interruption the unfinished file already has full size (`ftruncate` in recv_file), the
   client asks for nothing more, renames a file with a hole and reports success.

Seen while modelling, without a run of their own. Where a property has an exception, this is what the exception names.

**Network disk.** Two uploads of one content insert two `FilePool` rows, and two of one name two `UserFile` rows
(operation.c:325: the look and the insert are two statements on two connections). With two sessions of one account one may remove
the directory the other is in, and `cd ..` twice from there cuts a path that has no '/' (strrchr returns NULL; `up` becomes
FALSE in the model). After `mkdir x/y`, `cd x/y`, `mkdir z`, `cd z`, `cd ..`, `pwd` shows the right path; but after `mkdir d`, `cd d`, `mkdir x/y`, `cd x/y`, `cd ..`
it shows `/d/x` in the directory `d`, where the next `cd` appends to it: from then on no path is right until the root. `mkdir a/` makes a directory
that only `cd a//` enters. If the query of a cd fails, an uninitialised
number becomes the current directory (operation.c:229). `maxevents` grows with each
login and is never reduced or compared with the array it bounds (config.h:19). A peer that hangs up in the middle of a message
ends the server (main.c:69). The resumed offset counts blocks of whatever content the name had before (client_op.c:162). A second,
overlapping gets may replace a complete file by a new, empty one that another thread is still filling (`FreshIsWhole`).

**xv6.** `kill(0)` marks unused entries, and the next process forked there is born killed (proc.c:611; `BornAlive` in `Kernel` is the
property it breaks). A writer of a pipe that is killed between two bytes returns without waking the reader (pipe.c:88), the reader
sleeps on until the next byte or close. `unlink()` may remove a directory while another call is about to enter a name there
(sysfile.c:283); the name goes with it and the count stays. A process whose current directory was removed finds a free inode behind
".." and `ilock()` panics (fs.c:663), which is why `NoPanic` is checked with `DotDot = FALSE`. `log_write` panics one block before the reservation of
`begin_op` ends, if the log on disk is LOGSIZE blocks with its header (log.c:227). More than NBUF processes that read at the same time
stop the kernel ("bget: no buffers"); in `Disk` there are as many buffers as that needs. A failed copy in `writei()` may leave a cached
buffer changed and not logged. A process for which `alloc3_desc` fails half-way gives back what it took and so wakes others to no use.

**Process pools.** If every child is busy the connection is closed unanswered. Version 1.0 passes the descriptor's number only: the
child's `send` fails with EBADF and the connection stays open for ever. A client that leaves may kill its child by SIGPIPE, and the main process
dies when it next sends to that child. Ctrl-C reaches the children too.

**Thread pools.** `C/revise/thread_pool` allocates with malloc and leaves `pnext` unset; it never closes a connection; a client that leaves kills
the process.

**Transfers.** Clients with one plain `recv` per piece mis-frame; the `recv_n` of 4.0, 5.0 and day32 spins when the server dies, the `splice` loop
spins at the end of file; one `sendfile` sends less than 2 GiB; without `O_TRUNC` the tail of a longer old file stays.

**Reactor.** The dispatcher takes the descriptor of the first event for all of the batch (Reactor.hpp:81). Flags are compared with `==`, so that
IN with OUT, or an error, is nobody's. One edge-triggered `recv` misses what does not fit, and the end. `operator[]` makes an
empty entry that a later `insert` keeps: a descriptor nobody listens to. `errorer` uses the entry it has erased. SIGPIPE is not handled.

**Chats.** The room takes what comes with the first line for part of the name; it looks at the first 10 (or 11) descriptors only; a
member that resets its connection ends it, one that is gone may kill it. The servers for one client ignore all but the latest, who may keep the
loop busy. `again_epoll_LT` accepts once for each of two events and blocks. `epoll_ET` takes a reset for "no more data".
`again_tcp` looks at an uninitialised descriptor before the first client.

**Exercises.** `add_adjust_window3` waits with `if`: a spurious wake-up overwrites tickets that are left (new_sale_tickets.c:62), and if both
windows have closed when the delivery comes, nobody sells it. `pthread_condition` waits without a condition: a signal that comes first is lost, as its comment
warns. In `producer_consumer` and `pro_cus` a process killed between its two operations takes a place of the buffer with it; with
`SEM_UNDO` on all (`producer`, `consumer`) killing gives more back than there are places, as the number of products cannot fall below 0, and
a consumer started again resets the mutex while the producer may be inside.

**Drivers.** Six modules free a pin that was refused to them, whoever has it (`FreesRefused`). Several leave their device or
their mapped registers behind when a later step fails (`LeavesBehind`). Handlers are requested, and nodes visible, before what they
use is there, and some timers are not stopped on removal (`Premature`). `input_key` frees its input device twice. The read of 13 without
O_NONBLOCK sleeps without looking at the key. The variant of 08 with an atomic counter, not compiled, can stay busy for ever.

## 5. What is proved

A proof module has the theorems of one component, and of those of the same kind it takes in by INSTANCE; a theorem about such
a one has its assumption as a hypothesis, and the MC module evaluates the same assumption on its instance.

### Thread pools and process pools

`PoolProofs`, of `ThreadPool` and `WorkQueue`, from `NullAssumption`, `WorkerAssumption` (finitely many workers) and
`ThreadAssumption` (the names differ), for any number of workers and nodes:

| theorem | says |
|---|---|
| `Invariance` | `Spec => []Inv` |
| `ListIsFifo` | `Spec => []ListMatchesFifo` |
| `Ownership` | `Spec => []OneOwner` |
| `WakeupsSuffice` | `Spec => []NoLostWakeup` |
| `Implements` | `Spec => PoolSpec` |

The argument. `SetAppends`, `GetRemoves` and `GetOnEmpty` show that `queue_set` and `queue_get` act on the
represented sequence as append, tail and nothing; they need that a node enters with a null link and is not in the
list already. That is why the inductive invariant `Inv` is the conjunction of type correctness, `Mutex` (who holds
the mutex is where the program counters say, so nobody edits the list at the same time), `Pointers` (`pnew` and
`pcur` are set exactly while their thread works on the node, and `pnew`'s link is null), `ListMatchesFifo` and
`OneOwner`: the list is right because nobody else owns a node in it, and ownership is kept because the list is
right. Actions that touch neither the list nor the heap are dealt with in one lemma, `ControlStepInv`.

`NoLostWakeup` is inductive relative to `Inv`. It bounds the queue's size by the number of workers that will still
look plus the signal that is due. Each step that lowers the right side either finds the queue empty (the worker then
sleeps, and the bound is on an empty queue), takes a task, or goes with a worker that starts looking; cardinalities
of the worker sets change by at most one, which finite-set lemmas justify.

`Implements` maps `NewTask` and all control steps to stutters, `MainSet` to `Submit`, a `Get` that finds a node to
`Take` and `FinishTask` to `Finish`; that a submitted task is not running already is `OneOwner`.

Of `FactoryPool`, the two earlier pools, from `FactoryAssumption` (there is a thread, `NULL` is no client), for any number of
threads and clients:

| theorem | says |
|---|---|
| `FactoryInvariance` | `FactorySpec => []FactoryInv` |
| `FactoryServesOnce` | `FactorySpec => []TakenOnce` |
| `FactoryIsAwake` | `FactorySpec => []QueueIsSeen` |
| `FactoryMutexIsFree` | `FactorySpec => []MutexIsLeft` |

The argument is not that of `ThreadPool`, since a node from `malloc` has any link: where the list ends only its counter says.
So `Linked` speaks of the first `size` nodes, `Shared` says that an allocated node is among them or one thread's, `Owned` that
each connection taken is one node's, and all of it is claimed as long as the list is `Sound`; `Ends` is the claim that with
zeroed nodes it always is. Cancellation adds `ThreadsStand`: a thread ends only after main has stopped waiting for
connections, and it does so in the wait, which takes the mutex first and gives it back, or with a node in hand and no mutex.

Of `ProcessPool`, from `PoolAssumption` (finitely many children, which are numbers, since main looks for the first that is free; `NULL` is no client), for
any number of clients and children and each of the six versions:

| theorem | says |
|---|---|
| `ProcessInvariance` | `PoolSpec => []ProcessInv` |
| `FreeChildren` | `PoolSpec => []FreeIsFree` |
| `OneChildEach` | `PoolSpec => []OneHolder` |
| `EndIsOrderly` | `PoolSpec => []EndsInOrder` |

The argument. `BatchTrue` says that no event is in a batch twice and that each is still true when its turn comes: a report is not
read before, since only its own event reads it. `ChildStands` follows one child: at most one connection is on the way to
it, and after it the word to exit; a connection is on the way only while it has none and owes no report; and its flag says
whether it is free, as long as main waits. Those make each other true: a connection goes only to a child whose flag is clear, the
flag is cleared only by the report, and the report comes only when the child is done. `Held` is the same seen from
the connection: an open one has exactly one child. `WayOut` says how far the end has come, which `EndsInOrder` needs.

Of `Transfer`, from `TransferAssumption` (a train has room for a byte), for files of any size, old files of any size, and each pairing
of a server and a client:

| theorem | says |
|---|---|
| `TransferInvariance` | `TransferSpec => []TransferInv` |
| `FilesArrive` | `TransferSpec => []FileArrives` |
| `OnlyKilledServersHang` | `TransferSpec => []EndlessForAReason` |

The argument. `InStep` says that what the client has of a part, what is on the way and what the server has still to send are
together what is due at the client's place: the rest of the part, and whatever the protocol has after it. So it does not matter in which
portions the bytes leave and arrive. The trains are a function of the place in the file, from its end backwards; the client needs only that what is
due at a place is the train that begins there and then what is due at its end (`TrainsAre`). `FileSoFar` says that the file is right up to `pos`, and as
it was behind. If nothing is on the way and the server has closed by itself, then nothing is due, so whoever still waits waits for
what one `sendfile()` did not send.

### xv6's log

`LogProofs`, from `LogAssumption` (finitely many processes), for any number of processes, blocks and values and any size
of the log:

| theorem | says |
|---|---|
| `LogInvariance` | `Spec => []IInv` |
| `CommitIsAlone` | `Spec => []CommitsAlone` |
| `NobodyForgotten` | `Spec => []SleepersMustWait` |
| `LogIsAtomic` | `Spec => AtomicSpec` |
| `ReservationIsEnough` | `Spec => []ReservationHolds` |

The argument. That the log is atomic says nothing of where a commit stands, so it is far from inductive; `IInv` adds
that. `CommitsAlone` makes the commit sequential: no call runs beside it, and one process is in it. `Lists` says that
`lh` and the header on disk name distinct blocks and fit into the log. `CommitProgress` follows the commit: in
`write_log` the log blocks below `tail` hold what the cache holds; at `write_head` all do; from there on the header
is `lh`, and in `install_trans` the home blocks below `tail` are written and unpinned; everywhere else the header is
empty, the pinned blocks are those of `lh`, and every other buffer equals its disk block (so that recycling it loses
nothing). `RecoveryProgress` says the same of the recovery, where the cache is the disk, and `Quiet` that a machine
that restarts has no calls. A crash in any phase leaves the header, the log blocks and the home blocks as `Crash`
needs them: the replay from the first entry writes the same blocks again.

For `LogIsAtomic`, `WriteHead` is `Commit`, `LogWrite` is `Write`, `BeginOp` and `EndOp` are `Begin` and `End`, `Crash`
is `Crash`, and the other steps stutter; that the copies home and the clearing of the header do not change what a
restart would find is where `CommitProgress` is used. `NobodyForgotten` needs one more invariant, `EmptyBetweenCalls`:
when no call is under way and nobody commits, `lh` is empty, so that nobody can be asleep for want of space.

For `ReservationIsEnough` the argument is a count. `log_write` turns one reserved entry of its call into at most one
entry of `lh` (none, if another call has the block already), `end_op` gives up what is left, and `begin_op` adds
`MaxOpBlocks` entries under the bound it tested, which counts `MaxOpBlocks` for each running call and so at least what the
calls still have. While a commit works nobody runs, and nothing is reserved.

Of `Blocks`, from `BlocksAssumption` (a block holds something, `MAXOPBLOCKS` is at least 6, or `filewrite()` could write nothing at a
time, no data block has the number 0), for any number of files, open files and blocks, and any numbers of direct and indirect
blocks:

| theorem | says |
|---|---|
| `BlocksInvariance` | `BlocksSpec => []BlocksInv` |
| `NoBlockIsLost` | `BlocksSpec => []BlocksAccounted` |
| `FilesHaveNoHoles` | `BlocksSpec => []NoHoles` |
| `WritesFitTheLog` | `BlocksSpec => []WriteFitsLog` |

The argument. A call works on one file, so the invariant is said of one file at a time: `Sound(m, E)` is that the marked blocks are
those in the slots of `m` and those of the others, `E`, and that no block has two places. `SlotBlockGives` shows it of `balloc()`,
and that a slot that has a block keeps it; `BmapGives` and `WriteBlockGives` carry it through `bmap()` and a round of `writei()`,
also one that finds the disk full with the indirect block allocated and the data block not. The rounds are
a recursive function; `OneRoundMore` is the step and `AllRounds` takes the least round that would go wrong.
`Written` says how far a write has come: all blocks up to the round's are there, and so are those below the old size and
below `off + tot`, whichever round was the last. So the new size is covered; and below it `readi()` finds each block (`BmapFinds`), allocates
none and changes nothing. A write that starts beyond the size is refused, which is why offsets left over from before a truncation make no hole.

`WritesFitTheLog` is a count, and a close one. A round logs its data block and, if that is new, a block of the bitmap, so `i` rounds
log `2 * i`; but when a write begins inside of a block, that block is below the size and so there already, because of `NoHoles`, and `i` rounds
log one fewer (`Spent`). The indirect block adds two if it is new (itself and its bit), one if it was there, however
many rounds change it (`Extra`), and the inode adds one. `n` units in `max` are at most `(MAXOPBLOCKS - 4) \div 2` blocks, and one more if not
aligned: at most `MAXOPBLOCKS` (`ChunkFits`). This is the assumption that `Log` makes of its calls, for the largest kind of call.

### xv6's processes, files and pipes

`KernelProofs`, from `SlotAssumption` (finitely many processes, `init` among them), `CpuAssumption`, `FdAssumption`,
`PipeAssumption` (`PIPESIZE` divides the counters' range and is smaller, as 512 and 2^32) and `ChanAssumption`, for any number
of processes, CPUs, files, descriptors and pipes:

| theorem | says |
|---|---|
| `NobodyOrphaned` | `Spec => []NoOrphans` |
| `ReferencesCounted` | `Spec => []RefCountsHolders` |
| `EndsOpenForFiles` | `Spec => []EndsMatchFiles` |
| `NothingOverwritten` | `Spec => []UnreadIntact` |
| `NobodySleepsPast` | `Spec => []SleepersHaveReason` |

The argument. The invariant is built in layers, each inductive with the help of those below, since processes, files and
pipes lean on each other in that order. `ProcInv`: who is inside the kernel is alive, an entry that is not in use has no parent,
and the entry one `fork()` fills is filled by no other, or two parents would start one child; with these `NoOrphans` is
inductive. `FileInv`: only a process inside `close`, `exit` or a `pipe()` that fails has files left to close, and one that has
given up its files has no descriptors; then each of `filedup`, `fileclose`, `fork` and `exit` changes the count and the set of
references by the same. `UseInv`: who is inside `read` or `write` has the file open, which a single-threaded process cannot close
meanwhile. `EndInv`: of the files with a count and the copies that `fileclose` works on there is at most one for each end of a
pipe; that is what makes "the end is open while there is one" inductive, because the one that closes the end is then the last.
`DataInv` is `UnreadIntact` with the ranges of the counters; that `n % PIPESIZE` tells the bytes of a full pipe apart, also where
the counter wraps, is `UINT % PIPESIZE = 0`. `WaitInv` and `BlockInv` carry what a process found before it sleeps to the moment
it does: it holds `wait_lock`, or the pipe's lock, from the test on, and every step that could make the test false needs that
lock, or wakes the sleepers in the same critical section. In `BlockInv` reader and writer are never both asleep: a writer
wakes the readers before it sleeps, and `WriteReady` keeps that until it does.

### The network disk's server

`ServerProofs`, from `ServerAssumption` (at least two timeout lists, sessions and transfers differ, and no name of a session is also
a kind of message), for any number of sessions, transfers, descriptors and lists:

| theorem | says |
|---|---|
| `ServerInvariance` | `Spec => []ServerInv` |
| `ListsAgree` | `Spec => []DescriptorsAgree` |
| `WheelCounts` | `Spec => []RouletteAge` |
| `NobodyForgotten` | `Spec => ForgottenForAReason` |

The argument. The main loop has four structures about one connection (the descriptor table, the client list, the epoll set and
the wheel) and no lock, so `ServerInv` says where they may disagree: nowhere but for the connection `cur` that was accepted and
has not said yet what it is. `Waiting` says that a connection in the backlog has no descriptor yet, `Handling` where in its batch
the loop stands and that an accept finds somebody, `OneTask` that no two transfers share a connection, `OneName` that a descriptor in use
is the one its connection goes by; without it a number reused within the batch could be dropped for its former user.
`Deletes` is the lemma on `link_list_delete_node` for many clients at once: what stays is exactly the others, each once. The
wheel is arithmetic modulo `Slots`: a client silent for `a` ticks is on the list `Home(index, a)`, `Home` is injective on
`0..(Slots - 1)`, one tick moves every client one away, and the list that becomes current is that of those silent for a full turn.
`ForgottenForAReason` follows from `RouletteAge`: whom the roulette drops is on that list, and only a hang-up drops others.

### The reactor and the chat programs

Also in `ServerProofs`. Of `Reactor`, from `ReactorAssumption` (finitely many descriptors, the listening socket is none of those of
connections), for any number of connections and requests:

| theorem | says |
|---|---|
| `ReactorInvariance` | `ReactorSpec => []ReactorInv` |
| `ResultsComeInOrder` | `ReactorSpec => []ResultsInOrder` |
| `ReactorLooks` | `ReactorSpec => []SilentForAReason` |

The argument. `Taken` counts in halves of a calculation what has been read from a connection: an odd one is in `m_in_buffer`, and what has been
told and what is in `m_out_buffer` are together the results of the whole ones. `Results` is a fold, so that the results of two
parts are the parts' results one after the other (`ResultsJoin`) is proved by the least number for which it would fail. `Watched` says that a
descriptor with news of an edge is still to be reported, or in the batch, or among those whose event was spent on another (`missed`); and that
whoever has results is watched for writing.

Of `Chat`, from `ChatAssumption` (finitely many clients), for any number of clients and lines and each of the programs:

| theorem | says |
|---|---|
| `ChatInvariance` | `ChatSpec => []ChatInv` |
| `TalkComesInOrder` | `ChatSpec => []TalkInOrder` |
| `ChatLooks` | `ChatSpec => []UnheardForAReason` |

The argument. `Follows` says of one client that what he has read and what is on the way to him are together what he is due: what the others
said, in the order it was heard, since he came (`Due`, a fold of `log`, which each line that is heard makes longer at its end: `DueGrows`). `Unmet`
and `HeardSaid` say that nobody is heard before he comes, nor for more than he has said. `Noticed` says that of a client who has said something or left an edge is
still to be reported, or he is in the batch; `Accepts` that an `accept()` finds somebody, since `select()` or `epoll_wait()` has reported him and only
this event accepts. The exceptions are those that `UnheardForAReason` names.

### The network disk's files

`FileStoreProofs`, of `FileStore`, from `StoreAssumption`, for any number of users, rows, names, contents and workers:

| theorem | says |
|---|---|
| `Store` | `Spec => []StoreInv` |
| `PoolIsWhole` | `Spec => []PoolRowsWhole` |
| `FilesBacked` | `Spec => []FilesInPool` |
| `RmChain` | `Spec => []RmInv` |
| `RmIsInside` | `Spec => []RmStaysInside` |
| `Owners` | `Spec => []OwnInv` |
| `Tree` | `Spec => []TreeInv` |
| `TreeIsRooted` | `Spec => []TreeRooted` |
| `PathIsRight` | `Spec => []PathMatchesCode` |

The argument. `StoreInv` adds where each worker stands: one that has received a file, or found a row of FilePool, has the whole
content on disk, and one that will enter a row for a user has a row of FilePool. A worker between two statements keeps what it
stands on although others receive into the same pool file: `recv_file` opens it without truncating it, sets the size it has and
writes the same bytes again, so a whole file stays whole; and nothing takes a row out of FilePool.

The tree is what the rows of a table say, so that each property of it is one of chains of rows. `RmInv` says that a row is
younger than its directory (`RowsInOrder`) and that the stack of rm is a chain: each row lies in the one below it, and what a
call has still to fetch lies in its row (`InHandStands`). Numbers rise along a chain; this replaces induction over its length, since of several
numbers one is least. Hence `RmIsInside`: whatever is deleted is reached from what rm was given.

`OwnInv` says that a number which stands in a session, a row or an upload under way means a directory of that user's, or nothing:
the next number has never stood anywhere, so a row that comes changes no number's meaning, and one that goes only takes it away.

What the last three say beyond that is about users who are logged in once (`OnlyOnce`), because of what section 4 says: with two
sessions one may remove the directory the other is in. Users who are logged in twice may do so beside them. `TreeInv` adds where a client
stands (`StandsAt`): there is a chain of directories from the root to `code`, and for each of them a separator of the path, all two places apart
or more (`Marks`), so `cd ..` finds a separator as long as there is a directory to go up to, wherever it cuts; and if the names
were plain, the path is theirs (`Written`). The marks are what makes "`path` is "/" just in the root" inductive: names with separators add more of them
than directories, never fewer. That a directory's number is no less than its depth bounds the length of the chain. rm works in the directory its
client is in (`AtHome`), and so on younger rows than any on the chain, and on none of them. `NoneMissed` is for `TreeRooted`: each directory inside
one that is being deleted is on the list of it, or in hand; a directory is created by the main thread only, which is busy with the rm, so none
is created behind the query. (A file may be, by an upload: `store_orphan`.)

Of `Download`, for any number of threads, local files and blocks: `FreshDownload`, that is `DownloadAssumption, OneContent => (Spec => FreshIsWhole)`.
`OneContent` says that the name has one content, or none is put in its place: with two, overlapping downloads mix them, and TLC
finds that. The invariant says that all transfers under way ask for this content, and that one that began at 0 has it in
all blocks up to where it is; a block once right stays so, because others write the same at the same place, and since
`ftruncate` gives the file the size it has. A file stays the unfinished one until somebody ends: so one that nobody has overtaken is renamed
by the thread that opened it.

### xv6's inodes and directories

`FsProofs`, from `FsAssumption` (finitely many processes, inodes and names, the root's number among those of the inodes), for any
of them and paths of any length:

| theorem | says |
|---|---|
| `Placement` | `Spec => []PlaceInv` |
| `References` | `Spec => []RefCountsPointers` |
| `FreeingFindsUnlocked` | `Spec => []FreeWontBlock` |
| `NoDangling` | `Spec => []NoDanglingEntry`, if `DotDot = FALSE` |
| `NothingPanics` | `Spec => []NoPanic`, if `DotDot = FALSE` |
| `NoCircles` | `Spec => []NoDeadlock`, if `DotDot = FALSE` |

The hypothesis of the last three is what section 4 says of "..": with it `ilock()` does panic, so they are theorems about
programs that stay clear of it. The first three hold with "..", too.

The argument goes in layers again. `PlaceInv`: which pointers a process has at each point of its call, and what it still has to
give up. With it every step changes `ref` by what the process gains or loses (`RefMoves`), which is `References`; all other
processes stand as they did. `LockInv`: a lock that is held from one step to the next belongs to `unlink()`, `create()` or `iput()`,
and whoever has one has a pointer to the inode; a valid copy is the inode on the disk. Hence who has the last reference finds
no lock.

`LinkInv` is about what is on the disk while calls are under way. Steps fall into eight kinds by what they do there (`DiskSteps`:
count, take back, enter, remove, allocate, fill, free, or nothing), and each part is proved kind by kind. `FreshInv`: nobody has
a pointer to a free inode but who has just freed it, so `ialloc()` may hand it out although its entry in the table is still there; and
the inode that `create()` is about to fill is known to nobody else. `CallInv`: what `unlink()`, `create()` and the second half of
`link()` have seen in a directory is still so when they act on it, since they hold its lock or a reference. `TreeInv`: the links that
there are, and those that `link()` has counted and not entered, are no more than `nlink`; a directory is entered once, where its ".."
says; and directories have ranks that fall from a directory to those in it. References only come from the root, current directories,
entries and `ialloc()` (`Takes`), so an inode without links gets none, which closes `FreshInv`. Ranks give `NoCircles`: only `unlink()` and
`create()` wait while they hold a lock; the inode `create()` waits for is its own, and who is waited for by `unlink()` holds a directory
below. When a directory is entered it gets the rank 0 and all others one more, and no step moves a directory.

### xv6's buffers and disk

`DiskProofs`, from `DiskAssumption` (finitely many processes and buffers, `NULL` apart from the values it stands beside; `MCDevices`
evaluates it on its instance), for any number of processes, buffers and blocks and any lengths of the queue:

| theorem | says |
|---|---|
| `Invariance` | `DiskSpec => []DiskInv` |
| `HoldersHaveLatest` | `DiskSpec => []HeldIsLatest` |
| `NobodySleepsOn` | `DiskSpec => []SleepersAreWoken` |

These are the two parts of `BuffersExact` and `NobodySleepsPast` that speak of the disk. The argument: `Locks` makes a process
that works on a buffer the only one, from `acquiresleep` until `releasesleep`, also while it sleeps for the disk. `Counts` says that the count is that of
the processes that have the buffer and of its pin, so one that `bget` recycles is neither in use nor pinned. `Requests` ties
a descriptor in use to the one process that waits for its buffer, and its request to exactly one place: with the disk, done
and not yet seen, or seen (`b->disk` is 0); hence the disk never serves a buffer that has gone to somebody else. `Chains`
keeps the descriptors of different requests apart, which is why `free_desc` never panics. For the data, `DiskLatest` is the
key: what the disk has of a block is the latest unless its buffer is pinned or a write of it is under way. So a buffer may be
recycled, and a read, whenever it is served, finds the latest; `ServedLatest` carries that to the moment the process wakes up.

### xv6's physical pages

Also in `DiskProofs`, from `MemoryAssumption`, for any number of processes and pages, any sizes of a page and of a page table,
and any programs:

| theorem | says |
|---|---|
| `MemInvariance` | `MemSpec => []MemInv` |
| `EveryPageHasOneUse` | `MemSpec => []PagesAccounted` |

The assumption is that a page table has two entries at least, that there are fewer pages than addresses below the trapframe, and that
the first process can be made. The second matters: `exec()` and `sbrk()` do not compare sizes with the trapframe's address, and it is
only because memory runs out before that `mappages()` never finds it mapped (xv6 has 2^15 pages and 2^26 such addresses). TLC evaluates
the assumption on the instance of `MCDevices`.

The argument. `PagesAccounted` is far from inductive: a call runs through states in which pages are in hand, or belong to a table that
is not a process's yet. `Whole(m, E)` describes those: `E` is what others have, and a page is free, once, exactly if it is neither in `E` nor
anywhere in the address space under work; there it has one place, and whatever is mapped has its two inner nodes (`Good`).
Each function of `vm.c` and `proc.c` has a lemma, named after it, that says which `Whole` state it leaves, when it succeeds and when it fails: `mappages`
that fails leaves the nodes it has made and the page in hand (`UserMapped`); a growth that fails leaves exactly the old pages (`NewPagesGive`), so that
the callers' undoing by the old size is right; `proc_pagetable` that fails leaves nothing; `freewalk` finds no leaf since
the user's pages are those from 0 up to the size, and the two at the top were unmapped before. The loops over pages and segments are
functions on an interval, so they are proved by the least round that goes wrong (`PageRounds`, `SegmentRounds`). `Room` counts: while
some page is not the user's, the next address is below the trapframe. `exec()` has two address spaces with one trapframe, and
`SwapGives` changes which of them is under work. `MemInv` says that for each process (`Complete`) and that what they and the pipes have is
disjoint; then `Uses(x)` has one element (`OneUse`).

### Drivers, key and console

`DevicesProofs`. Of `Drivers`, for any number of modules side by side, from `NullAssumption` (`NULL` names no module) and
`ListsAssumption`, which says of each of the 25 modules that its lists have a certain discipline: data of the model that TLC evaluates,
module by module.

| theorem | says |
|---|---|
| `DriversInvariance` | `Spec => []DriversInv` |
| `FreeingIsOwn` | `Spec => []FreesOwn` |
| `LittleIsLeft` | `Spec => []GivesBack` |
| `WhatRunsIsBacked` | `Spec => []EntriesBacked` |

The argument. `After(load, i, K)` is what the steps before `i` take and leave; it is the measure of a module under way. `HoldsMust` says that
a module has what the steps it has done took, but for what others rob it of; `HoldsMay` that it has no more;
`BacksOwn` that what it will give back is its own; `NodeLast`, `HandlerBacked` and `TimerStopped` tie what may run to these. The
discipline of the lists is what makes the interpreter's steps keep them: nothing is taken twice, what a failure gives back was
taken before, the node comes last, and so on, with the exceptions the code has by name. The proof showed that `FreesOwn` was
wrong for three modules at a time, which no run had: one that frees a pin refused to it robs a second, and what the second frees later
is then a third's. `Meddled` is that exception now.

Of `Key`, for any number of programs: `NotedPressIsSeen`, that is `KeySpec => []PressIsSeen`. The invariant adds what a program that
has looked at an old `key_value` knows when it goes on: if the press came since, then a signal is due to it. The theorem is about
presses whose note stands, and says for how long it does; which presses are lost is said with `Key` in section 2.

Of `Console`, from `ConsoleAssumption` (both buffers have room, and the counters' range is a multiple of the buffer's size, as 2^32 is of 128), for
any number of processes and any sizes:

| theorem | says |
|---|---|
| `ConsoleInvariance` | `ConsoleSpec => []ConsoleInv` |
| `LinesArriveWhole` | `ConsoleSpec => []LinesIntact` |
| `ConsoleWakes` | `ConsoleSpec => []ConsoleGoesOn` |

The argument is arithmetic. `Spelled` says that the places from `r` on, modulo the buffer, have the characters of `lines` and then those of `line`, which
together fit into it. Places less than a buffer apart differ, also across the wrap of the counters, since the size divides their range: so a new character overwrites
none. control-U stops at the counter `w` or after a line's end; there is none in `line`, so it erases exactly that. `consoleread` that has
read control-D in the middle of a line takes its counter back by one, and what it gives back is still there.

With `DiskProofs` and `LogProofs` all conjuncts of `NobodySleepsPast`, `BuffersExact`, `PagesAccounted` and `BlocksSound` are proved, and with `PoolProofs` and `ServerProofs`
those of `ServedOnce` and `NobodyWaitsInVain`, but for the exercises.

### Only model-checked

- Liveness (`QueuedIsTaken`, `ReadableIsServed`, `SilentIsDropped`, `SleeperIsWoken`), which is out of the prover's reach.
- The properties of `Exercises`, that is the last conjuncts of `ServedOnce` and `NobodyWaitsInVain`.

## 6. Not modelled, and why

- Network disk: `ls`, `pwd`, the operation log and the client's interface read, print, or write what nobody reads. Passwords,
  MD5 and the database server itself are external, and used through one outcome, uniqueness and one transaction per statement.
- xv6: registers and context switches, page-table entries' permission bits, the kernel's own page table, `printf`, start-up, the
  shell and the test programs. What user programs do enters the models as the calls they may make. `sleep()` for ticks is `sleep` and
  `wakeup` once more. `namei` of ".", permissions and device numbers change no state that the properties speak of.
- Drivers: reading and writing of registers and sensors, and the RAM disk's blocks: data without protocol.
- Chats: the two UDP programs (no connection, no state), lines cut at the end of a full buffer, names longer than the room's field.
  Transfers: a `recv_n` that returns -1 after a reset. Process pools: what children do once the main process has died.
- The other exercises in C, data structures and SQL, the C++ employee system and the lexer: sequential, one call or algorithm each.
  Design patterns, circuits, notebooks and scripts: examples.

## 7. Plan

In this order:

1. Sorting and list routines of `C/`, against a reference definition; `sh.c`'s parser.
