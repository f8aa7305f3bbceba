---- MODULE Server ----
(***************************************************************************)
(* The network disk server's main thread: one epoll loop that accepts       *)
(* connections, authenticates them, reads commands, hands transfers to the  *)
(* thread pool, and drops idle clients with a roulette of timeout lists.    *)
(*                                                                          *)
(* Every recv blocks, so a read is one action that is enabled once the peer *)
(* has sent the message or hung up; while it is disabled the main thread    *)
(* stands still.  One action is one message, one event or one pool task.    *)
(***************************************************************************)
EXTENDS Integers, SequencesExt

CONSTANTS Session,       \* connections of clients' main threads: login, then commands
          Transfer,      \* connections of clients' transfer threads: token, then gets/puts
          MaxFd,         \* bound on descriptors open for connections
          Slots,         \* TIMEOUT_DISCONNECT_SECOND
          MaxInbox,      \* bound on messages sent and not yet read, per connection
          MaxConns,      \* bound on connections made
          Listen,        \* the listening socket
          None

Conn == Session \cup Transfer
Fd   == 1..MaxFd
Slot == 0..(Slots - 1)

ASSUME ServerAssumption ==
    /\ MaxFd \in Nat \ {0} /\ Slots \in Nat \ {0, 1}
    /\ MaxInbox \in Nat \ {0} /\ MaxConns \in Nat
    /\ Session \cap Transfer = {} /\ None \notin Conn /\ Listen \notin Fd
    /\ Session \cap {"login", "cmd", "task", "other", "cut"} = {}

VARIABLES
    peer,       \* peer[c]: the client's end is "new", "open" or "closed"
    inbox,      \* inbox[c]: what the client sent and the server has not read
    backlog,    \* connections waiting for accept
    sfd,        \* sfd[c]: the descriptor accept returned for c
    table,      \* table[f]: the connection descriptor f refers to, or None
    epollSet,   \* descriptors registered with epoll besides the listening one
    clients,    \* clientInfo_linkList: the logged-in sessions, newest first
    roulette,   \* roulette[k]: the descriptors in timeout list k
    index,      \* the current timeout list
    maxevents,
    batch,      \* the events of the last epoll_wait still to be handled
    mode,       \* where the main thread is
    cur,        \* the connection just accepted, while it is being served
    auth,       \* the client node whose token matched, while mode = "task"
    tasks,      \* transfers queued or running: the connection and p_client_info
    idle        \* history: ticks since a session was last moved to the current list

vars == <<peer, inbox, backlog, sfd, table, epollSet, clients, roulette, index,
          maxevents, batch, mode, cur, auth, tasks, idle>>

clientVars == <<peer, backlog>>
listVars   == <<table, epollSet, clients, roulette, index, idle>>

\* "epoll": in epoll_wait; "event": handling batch; "first": in the recv of a
\* new connection's first message; "task": in the recv of GETS or PUTS;
\* "dead": main() has returned or the process was killed by SIGPIPE.
Mode == {"epoll", "event", "first", "task", "dead"}

\* "cut" is a message whose sender hung up before its body was complete.
Message == {"login", "cmd", "task", "other", "cut"} \cup Session

Listed == ToSet(clients)
LiveFds == {sfd[c] : c \in Listed}

Init ==
    /\ peer = [c \in Conn |-> "new"]
    /\ inbox = [c \in Conn |-> <<>>]
    /\ backlog = <<>>
    /\ sfd = [c \in Conn |-> 0]
    /\ table = [f \in Fd |-> None]
    /\ epollSet = {}
    /\ clients = <<>>
    /\ roulette = [k \in Slot |-> {}]
    /\ index = 0
    /\ maxevents = 1
    /\ batch = <<>>
    /\ mode = "epoll"
    /\ cur = None
    /\ auth = None
    /\ tasks = {}
    /\ idle = [c \in Session |-> 0]

-----------------------------------------------------------------------------
\* The clients.

Connect(c) ==
    /\ mode # "dead"
    /\ peer[c] = "new" /\ Cardinality({d \in Conn : peer[d] # "new"}) < MaxConns
    /\ peer' = [peer EXCEPT ![c] = "open"]
    /\ backlog' = Append(backlog, c)
    /\ UNCHANGED <<inbox, sfd, listVars, maxevents, batch, mode, cur, auth, tasks>>

Deliver(c, m) ==
    /\ mode # "dead"
    /\ peer[c] = "open"
    /\ inbox' = [inbox EXCEPT ![c] = Append(@, m)]
    /\ UNCHANGED <<clientVars, sfd, listVars, maxevents, batch, mode, cur, auth, tasks>>

\* A session logs in and, once logged in, sends commands; it may have several
\* under way, because cd, rm and mkdir have no reply.
SendSession(c) ==
    \/ /\ (sfd[c] = 0 \/ cur = c)
       /\ inbox[c] = <<>>
       /\ (\E m \in {"login", "other"} : Deliver(c, m))
    \/ /\ c \in Listed
       /\ Len(inbox[c]) < MaxInbox
       /\ Deliver(c, "cmd")

\* A transfer thread sends the token its session was given; it asks for GETS
\* or PUTS after the token was accepted.
SendTransfer(c) ==
    /\ inbox[c] = <<>>
    /\ \/ /\ (sfd[c] = 0 \/ (cur = c /\ mode = "first"))
          /\ \E s \in Session : sfd[s] # 0 /\ Deliver(c, s)
       \/ /\ cur = c /\ mode = "task"
          /\ \E m \in {"task", "other"} : Deliver(c, m)

\* The client's end is closed or lost, possibly in the middle of a message.
HangUp(c) ==
    /\ mode # "dead"
    /\ peer[c] = "open"
    /\ peer' = [peer EXCEPT ![c] = "closed"]
    /\ \/ inbox' = inbox
       \/ /\ Len(inbox[c]) < MaxInbox
          /\ inbox' = [inbox EXCEPT ![c] = Append(@, "cut")]
    /\ UNCHANGED <<backlog, sfd, listVars, maxevents, batch, mode, cur, auth, tasks>>

-----------------------------------------------------------------------------
\* Pieces of the main thread's steps.

Readable(c) == inbox[c] # <<>> \/ peer[c] = "closed"
Gone(c)     == \/ inbox[c] = <<>> /\ peer[c] = "closed"
               \/ inbox[c] # <<>> /\ Head(inbox[c]) = "cut"

Read(c) == inbox' = [inbox EXCEPT ![c] = Tail(@)]

\* A recv that must succeed failed: SELFFUNC_ERR_CHECK returns from main().
Die == /\ mode' = "dead"
       /\ UNCHANGED <<clientVars, inbox, sfd, listVars, maxevents, batch, cur, auth, tasks>>

\* Done with one event of the batch.
NextEvent ==
    /\ batch' = Tail(batch)
    /\ mode' = IF Tail(batch) = <<>> THEN "epoll" ELSE "event"

\* Mutant: inserts without deleting the old entry.
TouchKeepsOld(f) == [roulette EXCEPT ![index] = @ \cup {f}]

\* roulette_link_list_delete_node from every list, then head insert into the
\* current one.
Touch(f) == [k \in Slot |-> IF k = index THEN roulette[k] \cup {f} ELSE roulette[k] \ {f}]

\* link_list_delete_node for each descriptor in out: the first node with it is freed, the
\* others keep their order.
DeleteClients(listed, out) ==
    LET kept == {i \in DOMAIN listed : \/ sfd[listed[i]] \notin out
                                      \/ \E j \in 1..(i - 1) : sfd[listed[j]] = sfd[listed[i]]}
    IN  \E at \in [1..Cardinality(kept) -> kept] :
          /\ \A i, j \in DOMAIN at : i < j => at[i] < at[j]
          /\ clients' = [i \in DOMAIN at |-> listed[at[i]]]

\* Mutant: drops the list it leaves instead of the one it reaches.
RouletteDropsOld(lists, listed, registered, open, age) ==
    \/ /\ roulette' = lists /\ clients' = listed /\ epollSet' = registered
       /\ table' = open /\ idle' = age
       /\ UNCHANGED index
    \/ /\ index' = (index + 1) % Slots
       /\ LET out == lists[index]
          IN  /\ roulette' = [lists EXCEPT ![index] = {}]
              /\ DeleteClients(listed, out)
              /\ epollSet' = registered \ out
              /\ table' = [f \in Fd |-> IF f \in out THEN None ELSE open[f]]
       /\ idle' = [c \in Session |-> IF c \in ToSet(clients') THEN age[c] + 1 ELSE 0]

\* The end of roulette_update_and_check: less than a second has passed, or the
\* wheel moves one list on and the clients in that list are dropped: freed from
\* the client list and closed, which also unregisters them where the caller
\* passes -1 for epfd.
RouletteCheck(lists, listed, registered, open, age) ==
    \/ /\ roulette' = lists /\ clients' = listed /\ epollSet' = registered
       /\ table' = open /\ idle' = age
       /\ UNCHANGED index
    \/ /\ index' = (index + 1) % Slots
       /\ LET out == lists[index']
          IN  /\ roulette' = [lists EXCEPT ![index'] = {}]
              /\ DeleteClients(listed, out)
              /\ epollSet' = registered \ out
              /\ table' = [f \in Fd |-> IF f \in out THEN None ELSE open[f]]
       /\ idle' = [c \in Session |-> IF c \in ToSet(clients') THEN age[c] + 1 ELSE 0]

Close(f) == table' = [table EXCEPT ![f] = None]

-----------------------------------------------------------------------------
\* epoll_wait.

Ready == {f \in epollSet : Readable(table[f])}
            \cup (IF backlog # <<>> THEN {Listen} ELSE {})

\* Everything that is ready, in any order, as far as maxevents allows.
EpollWait ==
    /\ mode = "epoll"
    /\ Ready # {}
    /\ \E S \in SUBSET Ready :
          /\ IF Cardinality(Ready) <= maxevents THEN S = Ready ELSE Cardinality(S) = maxevents
          /\ batch' \in SetToSeqs(S)
    /\ mode' = "event"
    /\ UNCHANGED <<clientVars, inbox, sfd, listVars, maxevents, cur, auth, tasks>>

\* Mutant: looks at the clock only when there were events.
EpollTimeoutNoCheck ==
    /\ mode = "epoll"
    /\ Ready = {}
    /\ UNCHANGED vars

\* Nothing happened for a second.
EpollTimeout ==
    /\ mode = "epoll"
    /\ Ready = {}
    /\ RouletteCheck(roulette, clients, epollSet, table, idle)
    /\ UNCHANGED <<clientVars, inbox, sfd, maxevents, batch, mode, cur, auth, tasks>>

-----------------------------------------------------------------------------
\* A new connection.

FreeFds == {f \in Fd : table[f] = None}

\* accept returns the lowest free descriptor.
Accept ==
    /\ mode = "event" /\ Head(batch) = Listen
    /\ \E f \in FreeFds :
          /\ \A g \in FreeFds : f <= g
          /\ table' = [table EXCEPT ![f] = Head(backlog)]
          /\ sfd' = [sfd EXCEPT ![Head(backlog)] = f]
    /\ cur' = Head(backlog)
    /\ backlog' = Tail(backlog)
    /\ mode' = "first"
    /\ UNCHANGED <<peer, inbox, epollSet, clients, roulette, index, idle,
                   maxevents, batch, auth, tasks>>

\* Registration or login succeeded: send the token, put the client at the head
\* of the list, register it, and place it in the current timeout list.
LoginOk ==
    /\ mode = "first" /\ inbox[cur] # <<>> /\ Head(inbox[cur]) = "login"
    /\ Read(cur)
    /\ maxevents' = maxevents + 1
    /\ RouletteCheck(Touch(sfd[cur]), <<cur>> \o clients, epollSet \cup {sfd[cur]},
                     table, [idle EXCEPT ![cur] = 0])
    /\ NextEvent
    /\ cur' = None
    /\ UNCHANGED <<clientVars, sfd, auth, tasks>>

\* Mutant: forgets close(new_fd).
RefuseLeaks ==
    /\ mode = "first" /\ inbox[cur] # <<>>
    /\ Head(inbox[cur]) \notin Listed \cup {"cut"}
    /\ Read(cur)
    /\ NextEvent
    /\ cur' = None
    /\ UNCHANGED <<clientVars, sfd, listVars, maxevents, auth, tasks>>

\* Registration or login failed, the token is unknown, or the first message is
\* something else: the connection is closed.
Refuse ==
    /\ mode = "first" /\ inbox[cur] # <<>>
    /\ Head(inbox[cur]) \notin Listed \cup {"cut"}
    /\ Read(cur)
    /\ Close(sfd[cur])
    /\ NextEvent
    /\ cur' = None
    /\ UNCHANGED <<clientVars, sfd, epollSet, clients, roulette, index, idle,
                   maxevents, auth, tasks>>

\* The list is searched for the token; p is left pointing at the client's node.
TokenOk ==
    /\ mode = "first" /\ inbox[cur] # <<>> /\ Head(inbox[cur]) \in Listed
    /\ Read(cur)
    /\ auth' = Head(inbox[cur])
    /\ mode' = "task"
    /\ UNCHANGED <<clientVars, sfd, listVars, maxevents, batch, cur, tasks>>

\* GETS or PUTS becomes a pool task that keeps a pointer into the client list.
Enqueue ==
    /\ mode = "task" /\ inbox[cur] # <<>> /\ Head(inbox[cur]) = "task"
    /\ Read(cur)
    /\ tasks' = tasks \cup {[conn |-> cur, client |-> auth]}
    /\ NextEvent
    /\ cur' = None /\ auth' = None
    /\ UNCHANGED <<clientVars, sfd, listVars, maxevents>>

NotATask ==
    /\ mode = "task" /\ inbox[cur] # <<>> /\ Head(inbox[cur]) = "other"
    /\ Read(cur)
    /\ Close(sfd[cur])
    /\ NextEvent
    /\ cur' = None /\ auth' = None
    /\ UNCHANGED <<clientVars, sfd, epollSet, clients, roulette, index, idle,
                   maxevents, tasks>>

\* The new peer hung up before its message was complete.
LostDuringHandshake ==
    /\ mode \in {"first", "task"}
    /\ Gone(cur)
    /\ Die

-----------------------------------------------------------------------------
\* An event of a logged-in client.

Matching == {c \in Listed : sfd[c] = Head(batch)}

\* Whoever the descriptor belonged to has been dropped since epoll_wait.
StaleEvent ==
    /\ mode = "event" /\ Head(batch) # Listen
    /\ Matching = {}
    /\ NextEvent
    /\ UNCHANGED <<clientVars, inbox, sfd, listVars, maxevents, cur, auth, tasks>>

\* ls, cd, rm, pwd, mkdir or anything else, then the timeout is renewed.
Command ==
    /\ mode = "event" /\ Head(batch) # Listen
    /\ \E c \in Matching :
          /\ inbox[c] # <<>> /\ Head(inbox[c]) = "cmd"
          /\ Read(c)
          /\ RouletteCheck(Touch(sfd[c]), clients, epollSet, table, [idle EXCEPT ![c] = 0])
    /\ NextEvent
    /\ UNCHANGED <<clientVars, sfd, maxevents, cur, auth, tasks>>

\* Mutant: gives up on the client without removing it from any list.
DisconnectIgnored ==
    /\ mode = "event" /\ Head(batch) # Listen
    /\ \E c \in Matching : inbox[c] = <<>> /\ peer[c] = "closed"
    /\ NextEvent
    /\ UNCHANGED <<clientVars, inbox, sfd, listVars, maxevents, cur, auth, tasks>>

\* The header recv returned 0: forget the client.
Disconnect ==
    /\ mode = "event" /\ Head(batch) # Listen
    /\ \E c \in Matching :
          /\ inbox[c] = <<>> /\ peer[c] = "closed"
          /\ roulette' = [k \in Slot |-> roulette[k] \ {sfd[c]}]
          /\ epollSet' = epollSet \ {sfd[c]}
          /\ Close(sfd[c])
          /\ DeleteClients(clients, {sfd[c]})
          /\ idle' = [idle EXCEPT ![c] = 0]
    /\ NextEvent
    /\ UNCHANGED <<clientVars, inbox, sfd, index, maxevents, cur, auth, tasks>>

LostDuringCommand ==
    /\ mode = "event" /\ Head(batch) # Listen
    /\ \E c \in Matching : inbox[c] # <<>> /\ Head(inbox[c]) = "cut"
    /\ Die

-----------------------------------------------------------------------------
\* The pool: a worker has finished with a task and closes its socket.
TaskDone(t) ==
    /\ mode # "dead"
    /\ tasks' = tasks \ {t}
    /\ Close(sfd[t.conn])
    /\ UNCHANGED <<clientVars, inbox, sfd, epollSet, clients, roulette, index, idle,
                   maxevents, batch, mode, cur, auth>>

\* send to a peer that has hung up: SIGPIPE is not handled.
Sigpipe ==
    /\ mode # "dead"
    /\ \/ \E t \in tasks : peer[t.conn] = "closed"
       \/ mode = "first" /\ inbox[cur] # <<>> /\ peer[cur] = "closed"
       \/ /\ mode = "event" /\ Head(batch) # Listen
          /\ \E c \in Matching : inbox[c] # <<>> /\ peer[c] = "closed"
    /\ Die

-----------------------------------------------------------------------------
MainStep == \/ EpollWait \/ EpollTimeout \/ Accept \/ LoginOk \/ Refuse \/ TokenOk
            \/ Enqueue \/ NotATask \/ LostDuringHandshake
            \/ StaleEvent \/ Command \/ Disconnect \/ LostDuringCommand

Next == \/ \E c \in Conn : Connect(c) \/ HangUp(c)
        \/ \E c \in Session : SendSession(c)
        \/ \E c \in Transfer : SendTransfer(c)
        \/ MainStep
        \/ \E t \in tasks : TaskDone(t)
        \/ Sigpipe

Spec == Init /\ [][Next]_vars

\* The wheel moves: a check found that a second had passed.
Tick == MainStep /\ index' # index

\* The main thread runs whenever its system call can return; while it keeps
\* checking the clock, seconds pass.  Clients that connect follow the protocol
\* of client/main.c and client_op.c up to the point where a user types: they
\* send the login or the token at once, and the request after the token.
\* Commands, hang-ups and the end of a transfer are never assumed.
Fairness ==
    /\ WF_vars(MainStep)
    /\ SF_vars(Tick)
    /\ \A c \in Session : WF_vars(c \notin Listed /\ SendSession(c))
    /\ \A c \in Transfer : WF_vars(SendTransfer(c))

FairSpec == Spec /\ Fairness

-----------------------------------------------------------------------------
\* Properties.

Serving == IF mode \in {"first", "task"} THEN {cur} ELSE {}

\* Descriptors are reused as soon as they are closed, by the main thread and by
\* the workers.  Still, the open descriptors are exactly those of the logged-in
\* clients, of the connection being served and of the transfers; none is leaked,
\* and none is closed while somebody else's connection lives under its number.
FdsHaveOneUser ==
    mode # "dead" =>
        LET users == Listed \cup Serving \cup {t.conn : t \in tasks}
        IN  /\ \A c \in users : sfd[c] \in Fd /\ table[sfd[c]] = c
            /\ \A f \in Fd : table[f] # None => table[f] \in users

\* epoll watches exactly the logged-in clients, each once in the list, and
\* there is room for an event of each and of the listening socket.
WatchedAreListed ==
    /\ epollSet = LiveFds
    /\ \A i, j \in DOMAIN clients : clients[i] = clients[j] => i = j
    /\ Len(clients) < maxevents

\* Descriptors, list and epoll agree, whichever door a client left through.
DescriptorsAgree == FdsHaveOneUser /\ WatchedAreListed

\* The roulette: a logged-in client is in exactly one timeout list, the one that
\* was current when it was last heard of, and no list names anybody else; so the
\* list the wheel moves to holds those that were silent for a full turn.
RouletteAge ==
    /\ \A c \in Listed : /\ idle[c] < Slots
                         /\ {k \in Slot : sfd[c] \in roulette[k]}
                                = {(index - idle[c]) % Slots}
    /\ \A k \in Slot : roulette[k] \subseteq LiveFds

\* A client is forgotten only when it hung up or was silent for a full turn of
\* the wheel, whoever's event made the wheel move.
ForgottenForAReason ==
    [][\A c \in Listed :
          c \notin ToSet(clients') => peer[c] = "closed" \/ idle[c] = Slots - 1]_vars

\* The one recv nobody may ever answer: an event left over from a descriptor
\* that was dropped and reused within the same batch.
Misled == mode = "event" /\ Head(batch) # Listen /\ \E c \in Matching : ~Readable(c)

\* While the server lives and is not misled, a command or a hang-up of a
\* logged-in client is handled, whatever the other clients do.
ReadableIsServed ==
    \A c \in Session :
        (c \in Listed /\ Readable(c))
            ~> (c \notin Listed \/ ~Readable(c) \/ mode = "dead" \/ Misled)

\* A client that stays silent is dropped, however busy the others are.
SilentIsDropped ==
    \A c \in Session :
        c \in Listed ~> (c \notin Listed \/ Readable(c) \/ mode = "dead" \/ Misled)

-----------------------------------------------------------------------------
\* Expectations the code does not meet.

\* ReadMe.md:5: the token keeps a client's connection for its transfers, so a
\* transfer's p_client_info must point at a node of the client list.
TaskClientListed == mode # "dead" => \A t \in tasks : t.client \in Listed

\* ReadMe.md:5: the requests epoll reports are read and answered, so the command
\* main.c:194 reads is there.
ReadsWhatEpollReported == ~Misled
====
