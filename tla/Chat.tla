---- MODULE Chat ----
(***************************************************************************)
(* The chat programs: a server talks with one client, the latest of them,  *)
(* or relays what each says to all others; with select() or epoll, over    *)
(* TCP or two FIFOs.  A line is a number; recv() takes one or several.     *)
(***************************************************************************)
EXTENDS Integers, Sequences, SequencesExt, FiniteSets

CONSTANTS Client, NULL,
          MaxLines,   \* bound: lines a client types
          MaxSaid,    \* bound: lines typed at the server
          SelectMax   \* how many connections select() looks at, the first of them; 6 in the chat room

ChatAssumption ==
    /\ IsFiniteSet(Client) /\ NULL \notin Client /\ Client \cap {"accept", "type"} = {}
    /\ SelectMax \subseteq Nat

\* always: it goes on accepting.  epoll: it uses epoll.  room: it relays.  fifo: what carries
\* the lines breaks as soon as one end is closed.  error: what it does if recv() fails.  checks:
\* it ends if send() fails.  bye: what it does with a client that has left.
Row(always, epoll, room, fifo, error, checks, bye) ==
    [always |-> always, epoll |-> epoll, room |-> room, fifo |-> fifo,
     error |-> error, checks |-> checks, bye |-> bye, select |-> 0]

chat1           == Row(FALSE, FALSE, FALSE, TRUE, "ends", FALSE, "ends")
tcp_chat_server == Row(FALSE, FALSE, FALSE, FALSE, "ends", FALSE, "ends")
again_tcp       == Row(TRUE, FALSE, FALSE, FALSE, "ends", FALSE, "forgets")
again_epoll_LT  == Row(TRUE, TRUE, FALSE, FALSE, "goes on", FALSE, "closes")
epoll_ET        == Row(FALSE, TRUE, FALSE, FALSE, "drained", FALSE, "ends")
epoll_server    == Row(FALSE, TRUE, FALSE, FALSE, "ends", TRUE, "ends")
ChatRoom_server == Row(TRUE, FALSE, TRUE, FALSE, "ends", TRUE, "closes")

VARIABLES version,
          server,   \* "runs", "ended" or "killed"
          client,   \* client -> "away", "backlog", "open" or "closed", by the server
          peer,     \* client -> "here", "closed", "reset" or "broken": sending to it is SIGPIPE
          fd,       \* client -> number of its descriptor, from 1
          watched,  \* clients whose descriptors select() or epoll looks at
          edge,     \* clients with news since epoll_wait() reported them
          latest,   \* the client new_sfd is about
          batch,    \* what the server is about to look at: "accept", "type" or a client
          sent,     \* client -> lines it has typed; for the chat room, the first is its name
          said,     \* lines typed at the server
          log,      \* what the server has heard and said: who, what, first and last line
          joined,   \* client -> length of the log when it was accepted
          down,     \* client -> what is on the way to it
          told      \* client -> what it has got

chatVars == <<version, server, client, peer, fd, watched, edge, latest, batch, sent, said, log,
              joined, down, told>>

conns == <<client, fd, watched, latest, joined>>

ChatInit ==
    /\ version \in {again_epoll_LT, epoll_ET, epoll_server} \cup
         {[r EXCEPT !.select = n] : n \in SelectMax,
                                    r \in {chat1, tcp_chat_server, again_tcp, ChatRoom_server}}
    /\ server = "runs" /\ batch = IF version.always THEN <<>> ELSE <<"accept">>
    /\ client = [c \in Client |-> "away"] /\ peer = [c \in Client |-> "here"]
    /\ fd = [c \in Client |-> 0] /\ watched = {} /\ edge = {} /\ latest = NULL
    /\ sent = [c \in Client |-> 0] /\ said = 0 /\ log = <<>> /\ joined = [c \in Client |-> 0]
    /\ down = [c \in Client |-> <<>>] /\ told = [c \in Client |-> <<>>]
-----------------------------------------------------------------------------
\* The clients.

Connect(c) ==
    /\ client[c] = "away" /\ client' = [client EXCEPT ![c] = "backlog"]
    /\ UNCHANGED <<version, server, peer, fd, watched, edge, latest, batch, sent, said, log, joined, down, told>>

Type(c) ==
    /\ client[c] \in {"backlog", "open"} /\ peer[c] = "here" /\ sent[c] < MaxLines
    /\ sent' = [sent EXCEPT ![c] = @ + 1] /\ edge' = edge \cup {c}
    /\ UNCHANGED <<version, server, conns, peer, batch, said, log, down, told>>

Read(c) ==
    /\ peer[c] = "here" /\ down[c] # <<>> /\ down' = [down EXCEPT ![c] = <<>>]
    /\ told' = [told EXCEPT ![c] = @ \o down[c]]
    /\ UNCHANGED <<version, server, conns, peer, edge, batch, sent, said, log>>

\* To leave with lines unread resets the connection.
Leave(c) ==
    /\ client[c] \in {"backlog", "open"} /\ peer[c] = "here" /\ edge' = edge \cup {c}
    /\ peer' = [peer EXCEPT ![c] = IF version.fifo THEN "broken"
                                   ELSE IF down[c] = <<>> THEN "closed" ELSE "reset"]
    /\ UNCHANGED <<version, server, conns, batch, sent, said, log, down, told>>
tcp_chat_client(c) == Connect(c) \/ Type(c) \/ Read(c) \/ Leave(c)
-----------------------------------------------------------------------------
\* The server.

Open    == {c \in Client : client[c] = "open"}
Backlog == {c \in Client : client[c] = "backlog"}

Heard(c) == LET to == {log[i][4] : i \in {j \in DOMAIN log : log[j][1] = c}}
            IN  CHOOSE n \in to \cup {0} : \A k \in to : k <= n

Unread(c) == sent[c] - Heard(c)

\* A connection whose client has left takes one more send(); one that was reset fails, and
\* after that there is SIGPIPE.
Fails(c) == peer[c] = "broken" \/ (peer[c] = "reset" /\ version.checks)

\* send() to each of S in the order of the descriptors, up to one that fails.
SendAll(S, item) ==
    LET to == {c \in S : \A d \in S : Fails(d) => fd[c] < fd[d]}
    IN  /\ log' = Append(log, item)
        /\ down' = [c \in Client |-> IF c \in to /\ peer[c] = "here" THEN Append(down[c], item) ELSE down[c]]
        /\ peer' = [c \in Client |-> IF c \in to /\ peer[c] # "here" THEN "broken" ELSE peer[c]]
        /\ server' = IF to = S THEN "runs"
                     ELSE IF \E c \in S : peer[c] = "broken" THEN "killed" ELSE "ended"

Ready == {c \in Open \cap watched : /\ Unread(c) > 0 \/ peer[c] # "here"
                                    /\ version.epoll \/ fd[c] <= version.select
                                    /\ version.error = "drained" => c \in edge}

Reported == (IF version.always /\ Backlog # {} THEN {"accept"} ELSE {}) \cup Ready

Place(e) == CASE e = "accept" -> -1 [] e = "type" -> 0 [] OTHER -> fd[e]

\* What the loop looks at.  With select(): everything that is ready, in the order of the
\* descriptors.  With epoll: at most two events in any order; the server that goes on accepting
\* asks whether the first is a connection, and if so accepts before each.
Looks(S) ==
    IF ~version.epoll
    THEN {s \in SetToSeqs(S) : \A i, j \in DOMAIN s : i < j => Place(s[i]) < Place(s[j])}
    ELSE LET events == {U \in SUBSET S : Cardinality(U) = IF Cardinality(S) > 2 THEN 2 ELSE Cardinality(S)}
         IN  {IF s[1] = "accept" THEN <<"accept">> \o IF Len(s) = 2 THEN <<"accept", s[2]>> ELSE <<>>
              ELSE IF s[Len(s)] = "accept" THEN <<s[1]>> ELSE s : s \in UNION {SetToSeqs(T) : T \in events}}

Wait ==
    /\ server = "runs" /\ batch = <<>>
    /\ \E typed \in {{}} \cup IF said < MaxSaid THEN {{"type"}} ELSE {} :
         /\ Reported \cup typed # {} /\ batch' \in Looks(Reported \cup typed)
    /\ edge' = edge \ ToSet(batch')
    /\ UNCHANGED <<version, server, conns, peer, sent, said, log, down, told>>

Event(e) == server = "runs" /\ batch # <<>> /\ Head(batch) = e /\ batch' = Tail(batch)

\* accept() waits if there is no connection after all.
Accept(c) ==
    /\ Event("accept") /\ c \in Backlog /\ client' = [client EXCEPT ![c] = "open"]
    /\ LET used == {fd[d] : d \in Open}
       IN  fd' = [fd EXCEPT ![c] = CHOOSE n \in 1..Cardinality(Client) :
                                     n \notin used /\ \A k \in 1..(n - 1) : k \in used]
    /\ watched' = watched \cup {c} /\ latest' = c /\ joined' = [joined EXCEPT ![c] = Len(log)]
    /\ UNCHANGED <<version, server, peer, edge, sent, said, log, down, told>>

\* A line typed at the server.
Say ==
    /\ Event("type") /\ said' = said + 1
    /\ SendAll(IF version.room THEN Open ELSE Open \cap {latest}, <<NULL, "says", said + 1, said + 1>>)
    /\ UNCHANGED <<version, conns, edge, sent, told>>

\* The end of what is typed ends the server.  So may a line before the first client has come:
\* new_sfd has no value yet, and may be taken for a descriptor that is ready.
End ==
    /\ Event("type") /\ server' = "ended" /\ said' = said + 1
    /\ UNCHANGED <<version, conns, peer, edge, sent, log, down, told>>

\* A server for one client at a time looks at the latest only.
Minds(c) == version.room \/ c = latest

Ignore(c) ==
    /\ Event(c) /\ ~Minds(c)
    /\ UNCHANGED <<version, server, conns, peer, edge, sent, said, log, down, told>>

\* recv() takes some of the lines; edge-triggered, the server goes on until there are no more.
\* The first a member of the room says is its name, with what came along.
Hear(c) ==
    /\ server = "runs" /\ batch # <<>> /\ Head(batch) = c /\ Minds(c)
    /\ batch' = IF version.error = "drained" THEN batch ELSE Tail(batch)
    /\ \E n \in 1..Unread(c) :
         SendAll(IF version.room THEN Open \ {c} ELSE {},
                 <<c, IF version.room /\ Heard(c) = 0 THEN "enters" ELSE "says", Heard(c) + 1, Heard(c) + n>>)
    /\ UNCHANGED <<version, conns, edge, sent, said, told>>

\* recv() fails: there is nothing, or the connection was reset.
Error(c) ==
    /\ Event(c) /\ Minds(c) /\ Unread(c) = 0 /\ peer[c] \in {"here", "reset"}
    /\ peer' = [peer EXCEPT ![c] = IF @ = "reset" THEN "broken" ELSE @]
    /\ server' = IF version.error = "ends" THEN "ended" ELSE "runs"
    /\ UNCHANGED <<version, conns, edge, sent, said, log, down, told>>

\* recv() returns 0.  The server that closes the connection leaves the rest of the events.
Bye(c) ==
    /\ server = "runs" /\ batch # <<>> /\ Head(batch) = c /\ Minds(c)
    /\ Unread(c) = 0 /\ peer[c] \in {"closed", "broken"}
    /\ batch' = IF version.epoll THEN <<>> ELSE Tail(batch)
    /\ watched' = watched \ {c} /\ UNCHANGED <<fd, latest, joined>>
    /\ client' = [client EXCEPT ![c] = IF version.bye = "forgets" THEN "open" ELSE "closed"]
    /\ IF version.bye = "ends" THEN server' = "ended" /\ UNCHANGED <<log, down, peer>>
       ELSE IF version.room THEN SendAll(Open \ {c}, <<c, "leaves", sent[c], sent[c]>>)
       ELSE UNCHANGED <<server, log, down, peer>>
    /\ UNCHANGED <<version, edge, sent, said, told>>

ChatNext ==
    \/ \E c \in Client : tcp_chat_client(c) \/ Accept(c) \/ Ignore(c) \/ Hear(c) \/ Error(c) \/ Bye(c)
    \/ Wait \/ Say \/ End

ChatSpec == ChatInit /\ [][ChatNext]_chatVars
-----------------------------------------------------------------------------
\* What c is to be told of the log, from when he came.
Concerns(c, e) == IF version.room THEN e[1] # c ELSE e[1] = NULL
Due(c) ==
    LET upto[k \in joined[c]..Len(log)] == IF k = joined[c] THEN <<>>
                                           ELSE IF Concerns(c, log[k]) THEN Append(upto[k - 1], log[k])
                                           ELSE upto[k - 1]
    IN  upto[Len(log)]

\* Everybody is told what the others say, in the order the server heard it, each line once, from
\* when he came; a server for one client tells what is typed, until it turns to the next.
TalkInOrder == \A c \in Open : peer[c] = "here" /\ server = "runs" =>
    LET talk == told[c] \o down[c]
    IN  IF Minds(c) THEN talk = Due(c) ELSE IsPrefix(talk, Due(c))

\* Who has said something or left is noticed at the next look, unless the server has turned to
\* another, looks at fewer descriptors, has noticed it before, or takes a reset for no more data.
\* It waits for a connection only as the first thing, or where it accepts once for two events.
UnheardForAReason == server = "runs" =>
    /\ batch = <<>> => \A c \in Open : Minds(c) /\ (Unread(c) > 0 \/ peer[c] # "here") =>
         \/ c \in Ready \/ (~version.epoll /\ fd[c] > version.select)
         \/ c \notin watched /\ version.bye = "forgets" /\ Unread(c) = 0
         \/ peer[c] = "broken" /\ version.error = "drained"
    /\ batch # <<>> /\ Head(batch) = "accept" /\ Backlog = {} =>
         (~version.always /\ latest = NULL) \/ version = again_epoll_LT
====
