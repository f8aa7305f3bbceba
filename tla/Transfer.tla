---- MODULE Transfer ----
(***************************************************************************)
(* How the earlier servers send a file and their clients receive it: each  *)
(* message is a train, its length and then so many bytes; TCP delivers the *)
(* bytes in order, and each recv() takes as many as are there or fewer.    *)
(***************************************************************************)
EXTENDS Naturals, Sequences

CONSTANTS Sizes,      \* sizes of the file
          OldSizes,   \* sizes of the file that the client has under that name
          Train,      \* bytes of content in a train
          SendfileMax \* what one sendfile() sends; 0x7ffff000 bytes

TransferAssumption ==
    /\ Sizes \subseteq Nat /\ OldSizes \subseteq Nat /\ Train \in Nat \ {0} /\ SendfileMax \in Nat

\* How the server sends: size, whether it sends the size; content, as trains with an empty one
\* at the end or as it is with one sendfile().
tran_file_3_0 == [size |-> FALSE, content |-> "trains"]
tran_file_4_0 == [size |-> FALSE, content |-> "trains"]
tran_file_5_0 == [size |-> TRUE, content |-> "trains"]
tran_file_day32 == [size |-> TRUE, content |-> "trains"]
transfer_file == [size |-> TRUE, content |-> "sendfile"]

\* How the client receives: with one recv() per part, with recv_n(), which calls it until all is
\* there, or with one that gives up when the server has closed; it cuts the file to its size.
client_3_0 == [recv |-> "once", cuts |-> FALSE]
client_4_0 == [recv |-> "recv_n", cuts |-> FALSE]
client_5_0_size == [recv |-> "recv_n", cuts |-> FALSE]
client_5_0_time == [recv |-> "recv_n", cuts |-> FALSE]
client_day32 == [recv |-> "recv_n", cuts |-> FALSE]
client_revise == [recv |-> "gives up", cuts |-> TRUE]

Between(s, c) == [size |-> s.size, content |-> s.content, recv |-> c.recv, cuts |-> c.cuts]

Versions == {Between(tran_file_3_0, client_3_0), Between(tran_file_4_0, client_4_0),
             Between(tran_file_5_0, client_5_0_size), Between(tran_file_5_0, client_5_0_time),
             Between(tran_file_day32, client_day32), Between(transfer_file, client_revise)}

VARIABLES version, size,
          tosend, \* bytes the server has still to send
          net,    \* bytes on the way
          server, \* "sends", "closed" or "killed"
          pc,     \* what the client receives: "name", "size", "content", or "done", "failed",
                  \* "spins" or "garbage"
          part,   \* the part of the message: "length" or "body"
          need,   \* how many bytes that part has
          buf,    \* the bytes of it that have come
          file,   \* content of the client's file: a byte of the server's, or 0 of the old one
          pos     \* how much of it has been written

transferVars == <<version, size, tosend, net, server, pc, part, need, buf, file, pos>>

\* A message: a length of two bytes, and the body.  A byte of a length stands for its value.
Message(body) == <<<<"length", Len(body)>>, <<"length", Len(body)>>>> \o body
Content(from, to) == [i \in 1..(to + 1 - from) |-> <<"content", from + i - 1>>]

\* How far the train goes that begins after p of n bytes, and the trains from there on.
Stop(p, n) == IF p + Train < n THEN p + Train ELSE n
Trains(n) ==
    LET rest[p \in 0..n] == Message(Content(p + 1, Stop(p, n)))
                            \o (IF p = n THEN <<>> ELSE rest[Stop(p, n)])
    IN  rest

Sent(v, n) == Message(<<<<"name", 0>>>>)
              \o (IF v.size THEN Message(<<<<"size", n>>>>) ELSE <<>>)
              \o (IF v.content = "trains" THEN Trains(n)[0]
                  ELSE Content(1, IF n < SendfileMax THEN n ELSE SendfileMax))

TransferInit ==
    /\ version \in Versions /\ size \in Sizes /\ tosend = Sent(version, size)
    /\ net = <<>> /\ server = "sends"
    /\ pc = "name" /\ part = "length" /\ need = 2 /\ buf = <<>> /\ pos = 0
    /\ \E n \in OldSizes : file = [i \in 1..n |-> 0]
-----------------------------------------------------------------------------
ClientVars == <<pc, part, need, buf, file, pos>>

\* send(): the bytes leave in any portions.
Send ==
    /\ server = "sends" /\ tosend # <<>>
    /\ \E n \in 1..Len(tosend) : /\ net' = net \o SubSeq(tosend, 1, n)
                                 /\ tosend' = SubSeq(tosend, n + 1, Len(tosend))
    /\ UNCHANGED <<version, size, server, ClientVars>>

Close ==
    /\ server = "sends" /\ tosend = <<>> /\ server' = "closed"
    /\ UNCHANGED <<version, size, tosend, net, ClientVars>>

Kill ==
    /\ server = "sends" /\ server' = "killed"
    /\ UNCHANGED <<version, size, tosend, net, ClientVars>>
-----------------------------------------------------------------------------
Write(old, at, bytes) ==
    [i \in 1..(IF at + Len(bytes) > Len(old) THEN at + Len(bytes) ELSE Len(old)) |->
        IF i > at /\ i <= at + Len(bytes) THEN bytes[i - at][2] ELSE old[i]]

\* What the client does next, with n bytes to come.
Goes(to, p, n) == pc' = to /\ part' = p /\ need' = n /\ buf' = <<>>

\* The client waits in recv(); or, for content that is not in trains, in splice().
Receiving == pc \in {"name", "size"} \/ (pc = "content" /\ version.content = "trains")

\* A part is there: all of it in bytes.
Length(bytes) ==
    LET n == bytes[1][2] IN
    /\ IF n = 0 THEN Goes("done", "length", 0) ELSE Goes(pc, "body", n)
    /\ UNCHANGED <<file, pos>>

Body(bytes) ==
    \/ /\ pc = "name" /\ Goes(IF version.size THEN "size" ELSE "content", "length", 2)
       /\ UNCHANGED <<file, pos>>
    \/ /\ pc = "size" /\ version.content = "trains" /\ Goes("content", "length", 2)
       /\ UNCHANGED <<file, pos>>
    \/ \* ftruncate(), then the content as it comes
       /\ pc = "size" /\ version.content = "sendfile"
       /\ IF size = 0 THEN Goes("done", "length", 0) ELSE Goes("content", "body", size)
       /\ file' = [i \in 1..size |-> IF i <= Len(file) THEN file[i] ELSE 0] /\ pos' = pos
    \/ /\ pc = "content"
       /\ Goes("content", "length", 2)
       /\ file' = Write(file, pos, bytes) /\ pos' = pos + Len(bytes)

\* recv(): with fewer bytes than the part has, recv_n() goes on.  Without it, what follows is
\* taken for something else.
Recv ==
    /\ Receiving /\ net # <<>>
    /\ \E n \in 1..need :
         /\ n <= Len(net) /\ net' = SubSeq(net, n + 1, Len(net))
         /\ LET bytes == buf \o SubSeq(net, 1, n) IN
            IF version.recv = "once" /\ n < need
            THEN pc' = "garbage" /\ UNCHANGED <<part, need, buf, file, pos>>
            ELSE IF n < need
            THEN buf' = bytes /\ need' = need - n /\ UNCHANGED <<pc, part, file, pos>>
            ELSE IF part = "length" THEN Length(bytes) ELSE Body(bytes)
    /\ UNCHANGED <<version, size, tosend, server>>

\* splice() of n bytes, to a pipe and from there to the file.
Splice ==
    /\ pc = "content" /\ version.content = "sendfile" /\ net # <<>>
    /\ \E n \in 1..Len(net) :
         /\ net' = SubSeq(net, n + 1, Len(net)) /\ need' = need - n
         /\ file' = Write(file, pos, SubSeq(net, 1, n)) /\ pos' = pos + n
         /\ pc' = IF n = need THEN "done" ELSE pc
    /\ UNCHANGED <<version, size, tosend, server, part, buf>>

\* recv() returns 0: the plain client goes on with the length it has, recv_n() calls it again
\* for ever, and so does the loop around splice(); the later recv_n() reports it.
RecvNothing ==
    /\ pc \in {"name", "size", "content"} /\ net = <<>> /\ server # "sends"
    /\ pc' = CASE version.recv = "once" -> "garbage"
               [] version.recv = "recv_n" -> "spins"
               [] version.recv = "gives up" -> IF pc = "content" THEN "spins" ELSE "failed"
    /\ UNCHANGED <<version, size, tosend, net, server, part, need, buf, file, pos>>

TransferNext == Send \/ Close \/ Kill \/ Recv \/ Splice \/ RecvNothing

TransferSpec == TransferInit /\ [][TransferNext]_transferVars
-----------------------------------------------------------------------------
\* A client that has finished has the file, and behind it what is left of an older one that was
\* longer, unless it cuts it off.
FileArrives == pc = "done" =>
    /\ Len(file) >= size /\ \A i \in 1..size : file[i] = i
    /\ \A i \in (size + 1)..Len(file) : file[i] = 0
    /\ version.cuts => Len(file) = size

\* It waits for ever or fails only for a server that was killed, or a file that one sendfile()
\* does not send.
EndlessForAReason == pc \in {"spins", "failed"} =>
    server = "killed" \/ (version.content = "sendfile" /\ size > SendfileMax)
====
