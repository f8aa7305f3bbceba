---- MODULE Reactor ----
(***************************************************************************)
(* SimpleReactor: a server with one thread that dispatches the events of   *)
(* epoll to the handlers of each descriptor: it accepts connections,       *)
(* receives calculations, x op y and a blank, and sends the results.       *)
(***************************************************************************)
EXTENDS Naturals, Sequences, SequencesExt, FiniteSets

CONSTANTS Conn,      \* descriptors for connections
          Listen,    \* the listening socket
          Bad,       \* calculations without a result: division by zero, no operator
          MaxReq,    \* bound: calculations of a client
          MaxClients,\* bound: clients that connect
          RecvMax    \* how much one recv() takes: of a calculation, "x op y" and the blank
                     \* come one by one

Fd == Conn \cup {Listen}

ReactorAssumption == IsFiniteSet(Conn) /\ Listen \notin Conn /\ RecvMax \in Nat

VARIABLES clients,  \* how many clients have connected
          backlog,  \* how many of them wait for accept()
          open,     \* descriptors in use
          peer,     \* connection -> "here", "closed" or "reset", what its client did
          sent,     \* connection -> how much its client has sent
          input,    \* connection -> how much of it is in the socket
          m_in,     \* connection -> how much is in m_in_buffer
          m_out,    \* connection -> the results in m_out_buffer
          told,     \* connection -> the results its client has got
          item,     \* m_event_items: "none", "handlers", or "empty", made by operator[]
          flags,    \* descriptor -> what epoll watches it for
          et,       \* descriptor -> edge-triggered
          edge,     \* edge-triggered descriptors with news
          batch,    \* events that dispatcher() has not handled yet
          first,    \* the descriptor of the first event of the batch
          missed,   \* descriptors that had an event which their handlers have not seen
          alive     \* the server runs

reactorVars == <<clients, backlog, open, peer, sent, input, m_in, m_out, told, item, flags, et,
                 edge, batch, first, missed, alive>>

net   == <<clients, backlog, peer, sent>>
bytes == <<m_in, m_out, told>>
watch == <<item, flags, et>>

ReactorInit ==
    /\ clients = 0 /\ backlog = 0 /\ open = {Listen} /\ peer = [c \in Conn |-> "here"]
    /\ sent = [c \in Conn |-> 0] /\ input = [c \in Conn |-> 0]
    /\ m_in = [c \in Conn |-> 0] /\ m_out = [c \in Conn |-> <<>>] /\ told = [c \in Conn |-> <<>>]
    /\ item = [f \in Fd |-> IF f = Listen THEN "handlers" ELSE "none"]
    /\ flags = [f \in Fd |-> {"in"}] /\ et = [f \in Fd |-> TRUE]
    /\ edge = {} /\ batch = <<>> /\ first = Listen /\ missed = {} /\ alive = TRUE
-----------------------------------------------------------------------------
\* The clients.

Connect ==
    /\ clients < MaxClients /\ backlog + Cardinality(open) <= Cardinality(Conn)
    /\ clients' = clients + 1 /\ backlog' = backlog + 1 /\ edge' = edge \cup {Listen}
    /\ UNCHANGED <<open, peer, sent, input, bytes, watch, batch, first, missed, alive>>

Send(c) ==
    /\ c \in open /\ peer[c] = "here" /\ sent[c] < 2 * MaxReq
    /\ sent' = [sent EXCEPT ![c] = @ + 1] /\ input' = [input EXCEPT ![c] = @ + 1]
    /\ edge' = IF et[c] THEN edge \cup {c} ELSE edge
    /\ UNCHANGED <<clients, backlog, open, peer, bytes, watch, batch, first, missed, alive>>

Leave(c, how) ==
    /\ c \in open /\ peer[c] = "here" /\ peer' = [peer EXCEPT ![c] = how]
    /\ edge' = IF et[c] THEN edge \cup {c} ELSE edge
    /\ UNCHANGED <<clients, backlog, open, sent, input, bytes, watch, batch, first, missed, alive>>
-----------------------------------------------------------------------------
\* dispatcher()

Readable(f) == IF f = Listen THEN backlog > 0 ELSE input[f] > 0 \/ peer[f] # "here"
Errors(f)   == IF f \in Conn /\ peer[f] = "reset" THEN {"error"} ELSE {}

\* What epoll_wait() says of f; a connection can be written to or its buffer is full.
Events(f) == LET in == IF Readable(f) THEN flags[f] \cap {"in"} ELSE {}
             IN  {in \cup out \cup Errors(f) : out \in {{}, flags[f] \cap {"out"}}}

Reported(f) == /\ f \in open /\ et[f] => f \in edge
               /\ Readable(f) \/ "out" \in flags[f]

epoll_wait ==
    /\ alive /\ batch = <<>>
    /\ \E S \in SUBSET {f \in Fd : Reported(f)} :
         /\ S # {} /\ \A f \in Fd \ S : Reported(f) => ~et[f] /\ ~Readable(f)
         /\ \E order \in SetToSeqs(S) : \E ev \in [S -> UNION {Events(f) : f \in S}] :
              /\ \A f \in S : ev[f] \in Events(f) \ {{}}
              /\ batch' = [i \in 1..Len(order) |-> <<order[i], ev[order[i]]>>]
              /\ first' = order[1]
         /\ edge' = edge \ S
    /\ UNCHANGED <<net, open, input, bytes, watch, missed, alive>>

\* The handler is that of the first descriptor of the batch, and runs for exactly "in" or
\* exactly "out".  f has it if it is not the handler of another.
Event(h, what) ==
    /\ alive /\ batch # <<>> /\ batch' = Tail(batch) /\ first' = first
    /\ h = first /\ Head(batch)[2] = {what} /\ item[h] = "handlers"

Spent == {f \in {Head(batch)[1]} : et[f]}

Passed(h, also) == missed' = ((missed \cup Spent) \ {h}) \cup also

\* Nobody is called; operator[] makes an entry for a descriptor that is no longer there.
Ignored ==
    /\ alive /\ batch # <<>> /\ batch' = Tail(batch) /\ first' = first
    /\ LET ev == Head(batch)[2]
       IN  /\ \/ ev \notin {{"in"}, {"out"}} \/ item[first] # "handlers"
              \/ first = Listen /\ ev = {"out"}
           /\ item' = IF ev \in {{"in"}, {"out"}} /\ item[first] = "none"
                      THEN [item EXCEPT ![first] = "empty"] ELSE item
    /\ missed' = missed \cup Spent
    /\ UNCHANGED <<net, open, input, bytes, flags, et, edge, alive>>

\* accepter(): everything that waits gets a descriptor; insert() leaves an entry that is
\* there as it is.
Accepter ==
    /\ Event(Listen, "in") /\ Passed(Listen, {})
    /\ \E S \in SUBSET (Conn \ open) :
         /\ Cardinality(S) = backlog /\ open' = open \cup S
         /\ peer' = [c \in Conn |-> IF c \in S THEN "here" ELSE peer[c]]
         /\ sent' = [c \in Conn |-> IF c \in S THEN 0 ELSE sent[c]]
         /\ item' = [f \in Fd |-> IF f \in S /\ item[f] = "none" THEN "handlers" ELSE item[f]]
         /\ flags' = [f \in Fd |-> IF f \in S THEN {"in"} ELSE flags[f]]
         /\ et' = [f \in Fd |-> f \in S \/ et[f]]
    /\ backlog' = 0
    /\ UNCHANGED <<clients, input, bytes, edge, alive>>

\* The results of the calculations after the from-th, up to the to-th.
Results(from, to) ==
    LET upto[k \in from..to] == IF k = from THEN <<>>
                                ELSE IF k \in Bad THEN upto[k - 1] ELSE Append(upto[k - 1], k)
    IN  upto[to]

\* recver(): what comes before the last blank is calculated.
Recver(c) ==
    /\ Event(c, "in") /\ (input[c] > 0 \/ peer[c] = "here")
    /\ LET n    == IF input[c] < RecvMax THEN input[c] ELSE RecvMax
           done == sent[c] - input[c] - m_in[c]
           new  == Results(done \div 2, (done + m_in[c] + n) \div 2)
       IN  /\ input' = [input EXCEPT ![c] = @ - n] /\ m_in' = [m_in EXCEPT ![c] = (@ + n) % 2]
           /\ m_out' = [m_out EXCEPT ![c] = @ \o new]
           /\ IF new = <<>> THEN UNCHANGED <<flags, et>>
              ELSE flags' = [flags EXCEPT ![c] = {"in", "out"}] /\ et' = [et EXCEPT ![c] = FALSE]
           /\ Passed(c, IF et'[c] /\ (input'[c] > 0 \/ peer[c] # "here") THEN {c} ELSE {})
    /\ UNCHANGED <<net, open, told, item, edge, alive>>

\* recver() of a connection whose client has left: errorer() takes its entry and closes it.
Errorer(c) ==
    /\ Event(c, "in") /\ ((input[c] = 0 /\ peer[c] = "closed") \/ peer[c] = "reset") /\ Passed(c, {})
    /\ open' = open \ {c} /\ item' = [item EXCEPT ![c] = "none"] /\ edge' = edge \ {c}
    /\ input' = [input EXCEPT ![c] = 0] /\ m_in' = [m_in EXCEPT ![c] = 0]
    /\ m_out' = [m_out EXCEPT ![c] = <<>>] /\ told' = [told EXCEPT ![c] = <<>>]
    /\ sent' = [sent EXCEPT ![c] = 0]
    /\ UNCHANGED <<clients, backlog, peer, flags, et, alive>>

\* sender(): all results, or as many as there is room for.
Sender(c) ==
    /\ Event(c, "out") /\ Passed(c, {})
    /\ \E n \in 0..Len(m_out[c]) :
         /\ told' = [told EXCEPT ![c] = @ \o SubSeq(m_out[c], 1, n)]
         /\ m_out' = [m_out EXCEPT ![c] = SubSeq(@, n + 1, Len(@))]
         /\ flags' = [flags EXCEPT ![c] = IF m_out'[c] = <<>> THEN {"in"} ELSE {"in", "out"}]
    /\ et' = [et EXCEPT ![c] = FALSE]
    /\ UNCHANGED <<net, open, input, m_in, item, edge, alive>>

\* send() to a client that has left ends the server: SIGPIPE.
Killed(c) ==
    /\ Event(c, "out") /\ peer[c] # "here" /\ m_out[c] # <<>> /\ Passed(c, {})
    /\ alive' = FALSE
    /\ UNCHANGED <<net, open, input, bytes, watch, edge>>

ReactorNext ==
    \/ Connect \/ epoll_wait \/ Ignored \/ Accepter
    \/ \E c \in Conn : \/ Send(c) \/ Leave(c, "closed") \/ Leave(c, "reset")
                       \/ Recver(c) \/ Errorer(c) \/ Sender(c) \/ Killed(c)

ReactorSpec == ReactorInit /\ [][ReactorNext]_reactorVars
-----------------------------------------------------------------------------
\* The results a client has got and those on the way to it are those of the calculations the
\* server has taken from its connection, in order and each once, whichever way they came in
\* pieces and went out in pieces.
ResultsInOrder == \A c \in Conn \cap open :
    told[c] \o m_out[c] = Results(0, (sent[c] - input[c]) \div 2)

\* Results that wait are watched for.  What a client or the backlog waits with will be
\* reported, unless an event of it was spent on the handlers of another descriptor, on nobody,
\* or on the first part of what there was: recv() is called once.
SilentForAReason == alive /\ batch = <<>> =>
    /\ \A c \in Conn \cap open : m_out[c] # <<>> => "out" \in flags[c]
    /\ \A f \in open \ missed : Readable(f) => IF et[f] THEN f \in edge ELSE "in" \in flags[f]
====
