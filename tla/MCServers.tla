---- MODULE MCServers ----
(***************************************************************************)
(* The servers on small instances: the network disk's main thread (Server) *)
(* and the earlier ones, a pool of processes (ProcessPool), pools of       *)
(* threads (FactoryPool), how these send files (Transfer), the reactor     *)
(* (Reactor), the chat programs (Chat) and the exercises (Exercises).      *)
(* side says which of them a behaviour is about; v1, v2, ... are the       *)
(* variables of that one.                                                  *)
(***************************************************************************)
EXTENDS Server, TLC
CONSTANT Client
VARIABLES side, v1, v2, v3, v4, v5, v6, v7, v8, v9, v10, v11, v12, v13, v14, v15, v16, v17

Processes == INSTANCE ProcessPool WITH
    Child <- {1, 2}, NULL <- None, version <- v1, client <- v2, gone <- v3, main <- v4,
    batch <- v5, busy <- v6, down <- v7, up <- v8, child <- v9, task <- v10, sigint <- v11

ASSUME PoolAssumption == Processes!PoolAssumption

\* A node for each client; nodes may be taken in any order, so the names are only names.
Threads == INSTANCE FactoryPool WITH
    Thread <- Session, Node <- Client, NULL <- None, version <- v1, que <- v2, fd <- v3, client <- v4, gone <- v5, main <- v6,
    mutex <- v7, pc <- v8, pcur <- v9, quit <- v10, cancel <- v11

ASSUME FactoryAssumption == Threads!FactoryAssumption

\* Two calculations of each client, the second without a result.
Calculator == INSTANCE Reactor WITH
    Conn <- Session, Bad <- {2}, MaxReq <- 2, MaxClients <- 2, RecvMax <- 3,
    clients <- v1, backlog <- v2, open <- v3, peer <- v4, sent <- v5, input <- v6, m_in <- v7,
    m_out <- v8, told <- v9, item <- v10, flags <- v11, et <- v12, edge <- v13, batch <- v14,
    first <- v15, missed <- v16, alive <- v17

ASSUME ReactorAssumption == Calculator!ReactorAssumption

\* An empty file, one of a train and a half, over none or a longer one.
Files == INSTANCE Transfer WITH
    Sizes <- {0, 2, 3}, OldSizes <- {0, 4}, Train <- 2, SendfileMax <- 2,
    version <- v1, size <- v2, tosend <- v3, net <- v4, server <- v5, pc <- v6, part <- v7,
    need <- v8, buf <- v9, file <- v10, pos <- v11

ASSUME TransferAssumption == Files!TransferAssumption

Talk == INSTANCE Chat WITH
    Client <- Session, NULL <- None, MaxLines <- 2, MaxSaid <- 1, SelectMax <- {1, 2},
    version <- v1, server <- v2, client <- v3, peer <- v4, fd <- v5, watched <- v6, edge <- v7,
    latest <- v8, batch <- v9, sent <- v10, said <- v11, log <- v12, joined <- v13, down <- v14,
    told <- v15

ASSUME ChatAssumption == Talk!ChatAssumption

Sync == INSTANCE Exercises WITH
    Places <- 2, Tickets <- 3, Refill <- 2, Turns <- 3,
    program <- v1, sem <- v2, adj <- v3, state <- v4, pc <- v5, turn <- v6, num <- v7, reg <- v8,
    lost <- v9, spurious <- v10

From12 == <<v12, v13, v14, v15, v16, v17>>
From1  == <<v1, v2, v3, v4, v5, v6, v7, v8, v9, v10, v11, From12>>
None16 == v16 = None /\ v17 = None
None12 == v12 = None /\ v13 = None /\ v14 = None /\ v15 = None /\ v16 = None /\ v17 = None
None1  == v1 = None /\ v2 = None /\ v3 = None /\ v4 = None /\ v5 = None /\ v6 = None /\ v7 = None
          /\ v8 = None /\ v9 = None /\ v10 = None /\ v11 = None /\ None12

ServersInit ==
    /\ Init
    /\ \/ side = "disk"      /\ None1
       \/ side = "processes" /\ Processes!PoolInit   /\ None12
       \/ side = "threads"   /\ Threads!FactoryInit  /\ None12
       \/ side = "reactor"   /\ Calculator!ReactorInit
       \/ side = "files"     /\ Files!TransferInit   /\ None12
       \/ side = "chat"      /\ Talk!ChatInit        /\ None16
       \/ side = "sync"      /\ Sync!ExerciseInit    /\ v11 = None /\ None12

ServersNext ==
    /\ UNCHANGED side
    /\ \/ side = "disk"      /\ Next                   /\ UNCHANGED From1
       \/ side = "processes" /\ Processes!PoolNext     /\ UNCHANGED <<vars, From12>>
       \/ side = "threads"   /\ Threads!FactoryNext    /\ UNCHANGED <<vars, From12>>
       \/ side = "reactor"   /\ Calculator!ReactorNext /\ UNCHANGED vars
       \/ side = "files"     /\ Files!TransferNext     /\ UNCHANGED <<vars, From12>>
       \/ side = "chat"      /\ Talk!ChatNext          /\ UNCHANGED <<vars, v16, v17>>
       \/ side = "sync"      /\ Sync!ExerciseNext      /\ UNCHANGED <<vars, v11, From12>>

ServersSpec == ServersInit /\ [][ServersNext]_<<side, vars, From1>>

Symmetry == Permutations(Session) \cup Permutations(Client)

\* A client is served once, whole and in order: its connection is one process's or one
\* thread's, its results, its file and the talk come as they are, and what several processes
\* take, add or sell is counted once.
ServedOnce ==
    /\ side = "processes" => Processes!FreeIsFree /\ Processes!OneHolder
    /\ side = "threads"   => Threads!TakenOnce
    /\ side = "reactor"   => Calculator!ResultsInOrder
    /\ side = "files"     => Files!FileArrives
    /\ side = "chat"      => Talk!TalkInOrder
    /\ side = "sync"      => Sync!CountsHold

\* Nobody waits for what will not come, but where the code is known to let him: an end with
\* connections unanswered, threads that cannot be joined, a queue nobody looks into, an
\* event nobody handles, a recv() without an end.
NobodyWaitsInVain ==
    /\ side = "processes" => Processes!EndsInOrder
    /\ side = "threads"   => Threads!MutexIsLeft /\ Threads!QueueIsSeen
    /\ side = "reactor"   => Calculator!SilentForAReason
    /\ side = "files"     => Files!EndlessForAReason
    /\ side = "chat"      => Talk!UnheardForAReason
    /\ side = "sync"      => Sync!StuckForAReason
====
