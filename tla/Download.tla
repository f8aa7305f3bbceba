---- MODULE Download ----
(***************************************************************************)
(* A client's downloads of one name, with the resumption the network disk   *)
(* offers: child_pthread_func and recv_file on the client, do_gets and      *)
(* send_file on the server.  Content is counted in blocks; a block received *)
(* is named by the content it belongs to.  Each gets command is a thread of *)
(* its own in the client process, so downloads of a name may overlap.       *)
(***************************************************************************)
EXTENDS Integers, Sequences

CONSTANTS Thread, Content,
          Size,          \* Size[c]: blocks of content c; what is empty never gets into
                         \*   the pool, for recv_file cannot map it
          MaxInode,      \* bound on the files ever created
          MayBreak,      \* whether connections and the client may break
          MayReplace,    \* whether the name may get other content on the server
          Hole, None

Inode == 1..MaxInode

DownloadAssumption ==
    /\ MaxInode \in Nat /\ None \notin Inode /\ None \notin Content
    /\ Size \in [Content -> Nat \ {0}]

VARIABLES
    remote,      \* the content the name has on the network disk, or None
    data,        \* the local files created so far, by inode
    part,        \* the inode named <filename>.download, or None
    file,        \* the inode named <filename>, or None
    job          \* job[t]: what thread t is doing

vars == <<remote, data, part, file, job>>

\* overtaken is history: since the thread opened its file, another has ended and renamed.
Idle == [at |-> "idle", offset |-> 0, content |-> None, inode |-> None, pos |-> 0,
         overtaken |-> FALSE]

Init ==
    /\ remote \in Content
    /\ data = <<>>
    /\ part = None /\ file = None
    /\ job = [t \in Thread |-> Idle]

Whole(inode, c) == data[inode] = [i \in 1..Size[c] |-> c]

\* ftruncate: what is added reads as zeros.
Resized(d, n) == [i \in 1..n |-> IF i \in DOMAIN d THEN d[i] ELSE Hole]

-----------------------------------------------------------------------------
\* gets is refused if a local file has the name.
Begin(t) ==
    /\ job[t] = Idle /\ file = None
    /\ job' = [job EXCEPT ![t].at = "stat"]
    /\ UNCHANGED <<remote, data, part, file>>

\* The size of an unfinished file is taken for the part already received.
Stat(t) ==
    /\ job[t].at = "stat"
    /\ job' = [job EXCEPT ![t].at = "ask",
                          ![t].offset = IF part = None THEN 0 ELSE Len(data[part])]
    /\ UNCHANGED <<remote, data, part, file>>

\* The server looks the name up, opens the pool file and announces its size.
Ask(t) ==
    /\ job[t].at = "ask"
    /\ job' = [job EXCEPT ![t] = IF remote = None THEN Idle
                                 ELSE [@ EXCEPT !.at = "open", !.content = remote]]
    /\ UNCHANGED <<remote, data, part, file>>

Open(t) ==
    /\ job[t].at = "open"
    /\ IF part # None
       THEN /\ job' = [job EXCEPT ![t].at = "resize", ![t].inode = part]
            /\ UNCHANGED <<data, part>>
       ELSE /\ Len(data) < MaxInode
            /\ data' = Append(data, <<>>)
            /\ part' = Len(data')
            /\ job' = [job EXCEPT ![t].at = "resize", ![t].inode = part']
    /\ UNCHANGED <<remote, file>>

\* Mutant of Resize: the file is emptied first (O_TRUNC).
ResizeEmptied(t) ==
    /\ job[t].at = "resize"
    /\ data' = [data EXCEPT ![job[t].inode] = Resized(<<>>, Size[job[t].content])]
    /\ job' = [job EXCEPT ![t].at = "recv", ![t].pos = job[t].offset]
    /\ UNCHANGED <<remote, part, file>>

\* The whole size is given to the file before the first block comes.
Resize(t) ==
    /\ job[t].at = "resize"
    /\ data' = [data EXCEPT ![job[t].inode] = Resized(@, Size[job[t].content])]
    /\ job' = [job EXCEPT ![t].at = "recv", ![t].pos = job[t].offset]
    /\ UNCHANGED <<remote, part, file>>

RecvBlock(t) ==
    /\ job[t].at = "recv" /\ job[t].pos < Size[job[t].content]
    /\ job[t].pos < Len(data[job[t].inode])
    /\ data' = [data EXCEPT ![job[t].inode][job[t].pos + 1] = job[t].content]
    /\ job' = [job EXCEPT ![t].pos = @ + 1]
    /\ UNCHANGED <<remote, part, file>>

\* The file is renamed, whichever inode has the name by now; a failing rename
\* goes unnoticed.  The user is told that the download succeeded.
Finish(t) ==
    /\ job[t].at = "recv" /\ job[t].pos >= Size[job[t].content]
    /\ part' = None
    /\ file' = IF part = None THEN file ELSE part
    /\ job' = [u \in Thread |-> IF u = t THEN Idle
                               ELSE IF job[u].at \in {"resize", "recv"}
                               THEN [job[u] EXCEPT !.overtaken = TRUE] ELSE job[u]]
    /\ UNCHANGED <<remote, data>>

\* recv_n fails: the thread returns and leaves everything as it is.
ConnectionLost(t) ==
    /\ MayBreak /\ job[t] # Idle
    /\ job' = [job EXCEPT ![t] = Idle]
    /\ UNCHANGED <<remote, data, part, file>>

\* The client is closed, or another thread has cut the mapped file short of
\* where a block is to go (SIGBUS).  Its files stay.
ClientDies ==
    /\ job # [t \in Thread |-> Idle]
    /\ \/ MayBreak
       \/ \E t \in Thread : /\ job[t].at = "recv" /\ job[t].pos < Size[job[t].content]
                            /\ job[t].pos >= Len(data[job[t].inode])
    /\ job' = [t \in Thread |-> Idle]
    /\ UNCHANGED <<remote, data, part, file>>

\* The owner's rm and puts.
Replace ==
    /\ MayReplace
    /\ remote' \in (Content \cup {None}) \ {remote}
    /\ UNCHANGED <<data, part, file, job>>

Next == \/ \E t \in Thread : \/ Begin(t) \/ Stat(t) \/ Ask(t) \/ Open(t) \/ Resize(t)
                             \/ RecvBlock(t) \/ Finish(t) \/ ConnectionLost(t)
        \/ ClientDies \/ Replace

Spec == Init /\ [][Next]_vars

-----------------------------------------------------------------------------
\* The name has never another content: it is not replaced, or only by the same one.
OneContent == ~MayReplace \/ \A c, d \in Content : c = d

\* A download that starts from nothing and is reported as successful has written the whole
\* content, whatever other downloads of the name do to the same local file meanwhile. The
\* name then has this file, unless another thread has ended since this one opened it: then
\* the name may get the unfinished file of a third. (If the name has one content on the
\* server; of two, the file may get a mixture.)
FreshIsWhole ==
    [][\A t \in Thread :
          Finish(t) /\ job[t].offset = 0 =>
              /\ Whole(job[t].inode, job[t].content)
              /\ ~job[t].overtaken => file' = job[t].inode]_vars

\* ReadMe.md:5 offers resumption: a download that the client reports as
\* successful after an interruption has the complete content.
ResumedIsWhole ==
    [][\A t \in Thread :
          Finish(t) /\ part # None => Whole(part, job[t].content)]_vars
====
