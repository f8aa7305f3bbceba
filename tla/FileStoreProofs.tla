---- MODULE FileStoreProofs ----
(***************************************************************************)
(* The network disk's files, for any number of clients, workers, names and *)
(* contents.  The pool: a row of FilePool is there only for a whole file,  *)
(* and every file a user can see or is being sent has such a row, whatever *)
(* uploads are refused, interrupted or run into the same pool file.  The   *)
(* tree: a recursive rm keeps to what it was given; the number a client    *)
(* keeps never comes to mean a file or another user's directory; and for   *)
(* each user logged in once, every directory hangs in one that exists, and *)
(* the path shown leads to the directory worked in while the names entered *)
(* are plain.  A download that starts from nothing and succeeds has        *)
(* written its content whole, and has the name, if it had it to itself.    *)
(***************************************************************************)
EXTENDS FileStore, SequenceTheorems, WellFoundedInduction, TLAPS

\* A client's downloads, with variables of their own.
CONSTANTS Thread, Size, MaxInode, MayBreak, MayReplace, Hole
VARIABLES remote, data, part, file, download
Client == INSTANCE Download WITH job <- download

\* cdVars only shortens lists of variables.
USE DEF cdVars

\* How far an upload or a download has come.  A worker that knows a content has it from its
\* request or from a row; it enters a row into FilePool after the whole file, and one into
\* UserFile after that.
JobStands(j) ==
    /\ j.at \notin {"idle", "find"} => j.content \in Content
    /\ j.at \in {"addpool", "prepare", "insert", "send"} => disk[j.content] = "whole"
    /\ j.at \in {"prepare", "insert"} => filePool[j.content] > 0

RowStands(r) ==
    /\ r.id \in Id /\ r.precode \in Dir
    /\ r.type = "f" => r.content \in Content /\ filePool[r.content] > 0

StoreInv ==
    /\ filePool \in [Content -> Nat]
    /\ disk \in [Content -> {"absent", "partial", "whole"}]
    /\ job \in [Worker -> Job]
    /\ code \in [Session -> Dir]
    /\ PoolRowsWhole
    /\ \A r \in userFile : RowStands(r)
    /\ \A w \in Worker : JobStands(job[w])

LEMMA StoreForm == StoreInv => PoolRowsWhole /\ FilesInPool
BY DEF StoreInv, FilesInPool, RowStands, JobStands

LEMMA StoreInit == Init => StoreInv
BY StoreAssumption DEF Init, StoreInv, PoolRowsWhole, RowStands, JobStands, Job, Idle, Dir

\* Files and contents keep their state, and rows of UserFile are only taken away: what a
\* worker that has not moved stood on, it still stands on.
LEMMA NothingLost ==
    ASSUME StoreInv,
           UNCHANGED poolVars,
           code' = code \/ code' \in [Session -> Dir],
           userFile' \subseteq userFile,
           job' \in [Worker -> Job],
           \A w \in Worker : job'[w] = job[w] \/ JobStands(job'[w])
    PROVE  StoreInv'
BY DEF StoreInv, PoolRowsWhole, RowStands, JobStands, poolVars

\* A worker's next job, when it is one of those that can be.
LEMMA JobType ==
    ASSUME StoreInv, NEW w \in Worker, NEW j \in Job, job' = [job EXCEPT ![w] = j]
    PROVE  /\ job' \in [Worker -> Job]
           /\ job'[w] = j
           /\ \A v \in Worker : v # w => job'[v] = job[v]
BY DEF StoreInv

\* A worker that goes to its next step keeps the rest of its job.
LEMMA GotoType ==
    ASSUME StoreInv, NEW w \in Worker, job[w].at # "idle",
           NEW step \in {"check", "pool", "open", "recv", "addpool", "prepare", "insert", "find", "send"},
           Goto(w, step)
    PROVE  /\ job' \in [Worker -> Job]
           /\ job'[w].at = step /\ job'[w].content = job[w].content
           /\ \A v \in Worker : v # w => job'[v] = job[v]
<1>1. job[w] \in [at : {"check", "pool", "open", "recv", "addpool", "prepare", "insert", "find", "send"},
                  s : Session, name : Name, content : Content \cup {None}, dir : Dir]
  BY DEF StoreInv, Job, Idle
<1>2. job' = [job EXCEPT ![w] = [job[w] EXCEPT !.at = step]]
  BY DEF Goto
<1>3. [job[w] EXCEPT !.at = step] \in Job
  BY <1>1 DEF Job
<1>4. [job[w] EXCEPT !.at = step].at = step /\ [job[w] EXCEPT !.at = step].content = job[w].content
  BY <1>1
<1> QED BY <1>2, <1>3, <1>4, JobType

\* A worker that is done stands on nothing.
LEMMA EndType ==
    ASSUME StoreInv, NEW w \in Worker, End(w)
    PROVE  /\ job' \in [Worker -> Job]
           /\ job'[w].at = "idle"
           /\ \A v \in Worker : v # w => job'[v] = job[v]
BY JobType DEF End, Job, Idle

\* A cd takes its directory from a row.
LEMMA CodesAreDirs ==
    ASSUME StoreInv, NEW rows, rows \subseteq userFile, NEW f \in {"id", "precode"}
    PROVE  CodesFrom(rows, f) \subseteq Dir
<1>1. \A r \in rows : r[f] \in Dir
  BY DEF StoreInv, RowStands, Id, Dir
<1>2. -1 \in Dir
  BY DEF Dir
<1> QED BY <1>1, <1>2 DEF CodesFrom

\* A cd only changes where its client is.
LEMMA CdInv ==
    ASSUME StoreInv, NEW s \in Session, CdRoot(s) \/ CdUp(s) \/ (\E n \in Name : CdDir(s, n))
    PROVE  StoreInv'
<1>1. UNCHANGED <<poolVars, userFile, job>>
  BY DEF CdRoot, CdUp, CdDir
<1>2. PICK dir \in Dir : code' = [code EXCEPT ![s] = dir]
  <2>1. CASE CdRoot(s)
    <3>1. 0 \in Dir
      BY StoreAssumption DEF Dir
    <3> QED BY <2>1, <3>1 DEF CdRoot
  <2>2. CASE CdUp(s)
    BY <2>2, CodesAreDirs DEF CdUp
  <2>3. ASSUME NEW n \in Name, CdDir(s, n) PROVE \E dir \in Dir : code' = [code EXCEPT ![s] = dir]
    BY <2>3, CodesAreDirs DEF CdDir, Named, Entries
  <2> QED BY <2>1, <2>2, <2>3
<1>3. code' \in [Session -> Dir]
  BY <1>2 DEF StoreInv
<1> QED BY <1>1, <1>3, NothingLost DEF StoreInv

\* The main thread's commands and statements do not touch files, and a mkdir's row is that
\* of a directory.
LEMMA MainStepInv == ASSUME StoreInv, MainCommand \/ RmStep PROVE StoreInv'
<1>1. CASE \E s \in Session, n \in Name : Mkdir(s, n)
  <2>1. PICK s \in Session, n \in Name : Mkdir(s, n)
    BY <1>1
  <2> DEFINE new == [id |-> nextId, precode |-> code[s], name |-> n, type |-> "d",
                     owner |-> UserOf[s], content |-> None]
  <2>2. userFile' = userFile \cup {new} /\ nextId \in Id
    BY <2>1 DEF Mkdir, Insert
  <2>3. RowStands(new)
    BY <2>2 DEF RowStands, StoreInv
  <2> HIDE DEF new
  <2>4. UNCHANGED <<filePool, disk, job, code>>
    BY <2>1 DEF Mkdir, poolVars
  <2> QED BY <2>2, <2>3, <2>4 DEF StoreInv, PoolRowsWhole, RowStands, JobStands
<1>2. CASE \E s \in Session, n \in Name : Rm(s, n)
  <2>1. UNCHANGED <<poolVars, userFile, job, code>>
    BY <1>2 DEF Rm
  <2> QED BY <2>1, NothingLost DEF StoreInv
<1>3. CASE RmStep
  <2>1. userFile' \subseteq userFile /\ UNCHANGED <<poolVars, job, code>>
    BY <1>3 DEF RmStep, RmList, RmFetch, RmDelete, RmFails
  <2> QED BY <2>1, NothingLost DEF StoreInv
<1> QED BY <1>1, <1>2, <1>3, CdInv DEF MainCommand

\* A request begins a job that knows at most the content it asks to upload.
LEMMA RequestInv == ASSUME StoreInv, NEW w \in Worker, Request(w) PROVE StoreInv'
<1>1. PICK s \in Session, n \in Name : StartGets(w, s, n) \/ (\E c \in Content : StartPuts(w, s, n, c))
  BY DEF Request
<1>2. UNCHANGED <<poolVars, userFile, code>>
  BY <1>1 DEF StartGets, StartPuts
<1>3. PICK j \in Job : job' = [job EXCEPT ![w] = j] /\ JobStands(j)
  <2>1. CASE StartGets(w, s, n)
    <3> DEFINE j == [at |-> "find", s |-> s, name |-> n, content |-> None, dir |-> -1]
    <3>1. j \in Job /\ JobStands(j)
      BY DEF Job, JobStands, Dir
    <3>2. job' = [job EXCEPT ![w] = j]
      BY <2>1 DEF StartGets, Start
    <3> QED BY <3>1, <3>2
  <2>2. ASSUME NEW c \in Content, StartPuts(w, s, n, c)
        PROVE  \E j \in Job : job' = [job EXCEPT ![w] = j] /\ JobStands(j)
    <3> DEFINE j == [at |-> "check", s |-> s, name |-> n, content |-> c, dir |-> -1]
    <3>1. j \in Job /\ JobStands(j)
      BY DEF Job, JobStands, Dir
    <3>2. job' = [job EXCEPT ![w] = j]
      BY <2>2 DEF StartPuts, Start
    <3> QED BY <3>1, <3>2
  <2> QED BY <1>1, <2>1, <2>2
<1> QED BY <1>2, <1>3, JobType, NothingLost

\* A worker that ends its job, for whatever reason, leaves the pool as it is.
LEMMA EndInv ==
    ASSUME StoreInv, NEW w \in Worker, End(w), UNCHANGED <<userFile, poolVars, code>>
    PROVE  StoreInv'
<1>1. JobStands(job'[w])
  BY EndType DEF JobStands
<1> QED BY <1>1, EndType, NothingLost

\* A worker that goes on to a step it stands on already.
LEMMA GotoInv ==
    ASSUME StoreInv, NEW w \in Worker, job[w].at # "idle", UNCHANGED <<userFile, poolVars, code>>,
           NEW step \in {"check", "pool", "open", "recv", "addpool", "prepare", "insert", "find", "send"},
           Goto(w, step), JobStands([job[w] EXCEPT !.at = step])
    PROVE  StoreInv'
<1>1. job'[w].at = step /\ job'[w].content = job[w].content
  BY GotoType
<1>2. JobStands(job'[w])
  <2>1. job[w] \in [at : {"check", "pool", "open", "recv", "addpool", "prepare", "insert", "find", "send"},
                  s : Session, name : Name, content : Content \cup {None}, dir : Dir]
    BY DEF StoreInv, Job, Idle
  <2>2. [job[w] EXCEPT !.at = step].at = step /\ [job[w] EXCEPT !.at = step].content = job[w].content
    BY <2>1
  <2> QED BY <1>1, <2>2 DEF JobStands
<1> QED BY <1>2, GotoType, NothingLost

\* The worker's job while it has one.
LEMMA AtWork ==
    ASSUME StoreInv, NEW w \in Worker, job[w].at # "idle"
    PROVE  job[w] \in [at : {"check", "pool", "open", "recv", "addpool", "prepare", "insert", "find", "send"},
                       s : Session, name : Name, content : Content \cup {None}, dir : Dir]
BY DEF StoreInv, Job, Idle

\* The checks before an upload: of the name, and of the pool, whose row means that the
\* whole file is there.
LEMMA ChecksInv == ASSUME StoreInv, NEW w \in Worker, CheckName(w) \/ SelectPool(w) PROVE StoreInv'
<1>1. UNCHANGED <<userFile, poolVars, code>> /\ job[w].at # "idle"
  BY DEF CheckName, SelectPool, At
<1>2. CASE End(w)
  BY <1>1, <1>2, EndInv
<1>3. CASE CheckName(w) /\ Goto(w, "pool")
  <2>1. JobStands([job[w] EXCEPT !.at = "pool"])
    BY <1>3, AtWork DEF CheckName, At, StoreInv, JobStands
  <2> QED BY <1>1, <1>3, <2>1, GotoInv
<1>4. CASE SelectPool(w)
  <2>1. PICK step \in {"prepare", "open"} : /\ Goto(w, step)
                                            /\ step = "prepare" => filePool[job[w].content] > 0
    BY <1>4 DEF SelectPool
  <2>2. JobStands(job[w]) /\ job[w].at = "pool" /\ PoolRowsWhole
    BY <1>4 DEF SelectPool, At, StoreInv
  <2>3. JobStands([job[w] EXCEPT !.at = step])
    BY <2>1, <2>2, <1>1, AtWork DEF JobStands, PoolRowsWhole
  <2> QED BY <1>1, <2>1, <2>3, GotoInv
<1> QED BY <1>2, <1>3, <1>4 DEF CheckName

\* The pool file is opened where there is none, and written to the end: no file that is
\* whole stops being so, also when two workers receive the same content.
LEMMA ReceiveInv == ASSUME StoreInv, NEW w \in Worker, OpenPool(w) \/ Received(w) PROVE StoreInv'
<1>1. job[w].content \in Content /\ job[w].at \in {"open", "recv"}
  BY DEF OpenPool, Received, At, StoreInv, JobStands
<1>2. /\ disk' \in [Content -> {"absent", "partial", "whole"}]
      /\ \A c \in Content : disk[c] = "whole" => disk'[c] = "whole"
      /\ Received(w) => disk'[job[w].content] = "whole"
  BY <1>1 DEF OpenPool, Received, StoreInv
<1>3. PICK step \in {"recv", "addpool"} : Goto(w, step) /\ (step = "addpool" => Received(w))
  BY DEF OpenPool, Received
<1>4. /\ job' \in [Worker -> Job]
      /\ job'[w].at = step /\ job'[w].content = job[w].content
      /\ \A v \in Worker : v # w => job'[v] = job[v]
  BY <1>1, <1>3, GotoType
<1>5. UNCHANGED <<filePool, userFile, code>>
  BY DEF OpenPool, Received
<1>6. PoolRowsWhole'
  BY <1>2, <1>5 DEF StoreInv, PoolRowsWhole
<1>7. ASSUME NEW v \in Worker PROVE JobStands(job[v])'
  <2>1. CASE v = w
    BY <1>1, <1>2, <1>3, <1>4, <1>5, <2>1 DEF JobStands
  <2>2. CASE v # w
    BY <1>2, <1>4, <1>5, <2>2 DEF JobStands, StoreInv
  <2> QED BY <2>1, <2>2
<1> QED BY <1>2, <1>4, <1>5, <1>6, <1>7 DEF StoreInv, RowStands

\* A row of FilePool is added for the whole file of the worker that adds it.
LEMMA InsertPoolInv == ASSUME StoreInv, NEW w \in Worker, InsertPool(w) PROVE StoreInv'
<1>1. job[w].content \in Content /\ job[w].at = "addpool" /\ disk[job[w].content] = "whole"
  BY DEF InsertPool, At, StoreInv, JobStands
<1>2. /\ filePool' \in [Content -> Nat]
      /\ filePool'[job[w].content] > 0
      /\ \A c \in Content : filePool[c] > 0 => filePool'[c] > 0
      /\ \A c \in Content : c # job[w].content => filePool'[c] = filePool[c]
  BY <1>1 DEF InsertPool, StoreInv
<1>3. UNCHANGED <<disk, userFile, code>> /\ Goto(w, "prepare")
  BY DEF InsertPool
<1>4. /\ job' \in [Worker -> Job]
      /\ job'[w].at = "prepare" /\ job'[w].content = job[w].content
      /\ \A v \in Worker : v # w => job'[v] = job[v]
  BY <1>1, <1>3, GotoType
<1>5. PoolRowsWhole'
  BY <1>1, <1>2, <1>3 DEF StoreInv, PoolRowsWhole
<1>6. ASSUME NEW v \in Worker PROVE JobStands(job[v])'
  <2>1. CASE v = w
    BY <1>1, <1>2, <1>3, <1>4, <2>1 DEF JobStands
  <2>2. CASE v # w
    BY <1>2, <1>3, <1>4, <2>2 DEF JobStands, StoreInv
  <2> QED BY <2>1, <2>2
<1>7. \A r \in userFile' : RowStands(r)'
  BY <1>2, <1>3 DEF StoreInv, RowStands
<1> QED BY <1>2, <1>3, <1>4, <1>5, <1>6, <1>7 DEF StoreInv

\* The row of UserFile: prepared in the directory of one moment, inserted in another.
LEMMA PrepareFileInv == ASSUME StoreInv, NEW w \in Worker, PrepareFile(w) PROVE StoreInv'
<1>1. job[w].at = "prepare" /\ UNCHANGED <<userFile, poolVars, code>>
  BY DEF PrepareFile, At
<1> DEFINE j == [job[w] EXCEPT !.at = "insert", !.dir = code[job[w].s]]
<1>2. j \in Job /\ j.at = "insert" /\ j.content = job[w].content
  BY <1>1, AtWork DEF Job, StoreInv
<1>3. job' = [job EXCEPT ![w] = j]
  BY DEF PrepareFile
<1>4. JobStands(j)
  BY <1>1, <1>2 DEF JobStands, StoreInv
<1> HIDE DEF j
<1> QED BY <1>1, <1>2, <1>3, <1>4, JobType, NothingLost

LEMMA InsertFileInv == ASSUME StoreInv, NEW w \in Worker, InsertFile(w) PROVE StoreInv'
<1>1. job[w].content \in Content /\ filePool[job[w].content] > 0
  BY DEF InsertFile, At, StoreInv, JobStands
<1>2. UNCHANGED <<poolVars, code>> /\ End(w)
  BY DEF InsertFile
<1> DEFINE r == [id |-> nextId, precode |-> job[w].dir, name |-> job[w].name, type |-> "f",
                 owner |-> UserOf[job[w].s], content |-> job[w].content]
<1>3. userFile' = userFile \cup {r} /\ nextId \in Id
  BY DEF InsertFile, Insert
<1>4. job[w].dir \in Dir
  BY AtWork DEF InsertFile, At
<1>5. RowStands(r)
  BY <1>1, <1>3, <1>4 DEF RowStands
<1> HIDE DEF r
<1>6. /\ job' \in [Worker -> Job]
      /\ job'[w].at = "idle"
      /\ \A v \in Worker : v # w => job'[v] = job[v]
  BY <1>2, EndType
<1>7. \A q \in userFile' : RowStands(q)'
  BY <1>2, <1>3, <1>5 DEF StoreInv, RowStands, poolVars
<1>8. \A v \in Worker : JobStands(job[v])'
  BY <1>2, <1>6 DEF StoreInv, JobStands, poolVars
<1> QED BY <1>2, <1>6, <1>7, <1>8 DEF StoreInv, PoolRowsWhole, poolVars

\* A download takes its content from a row, and keeps it when the row goes.
LEMMA FindFileInv == ASSUME StoreInv, NEW w \in Worker, FindFile(w) PROVE StoreInv'
<1>1. job[w].at = "find" /\ UNCHANGED <<userFile, poolVars, code>>
  BY DEF FindFile, At
<1>2. CASE End(w)
  BY <1>1, <1>2, EndInv
<1>3. CASE \E r \in FilesNamed(job[w].s, job[w].name) :
              job' = [job EXCEPT ![w].at = "send", ![w].content = r.content]
  <2>1. PICK r \in FilesNamed(job[w].s, job[w].name) :
              job' = [job EXCEPT ![w].at = "send", ![w].content = r.content]
    BY <1>3
  <2>2. r \in userFile /\ r.type = "f"
    BY DEF FilesNamed, Named, Entries
  <2>3. r.content \in Content /\ disk[r.content] = "whole"
    BY <2>2 DEF StoreInv, RowStands, PoolRowsWhole
  <2> DEFINE j == [job[w] EXCEPT !.at = "send", !.content = r.content]
  <2>4. j \in Job /\ j.at = "send" /\ j.content = r.content
    BY <1>1, <2>3, AtWork DEF Job
  <2>5. job' = [job EXCEPT ![w] = j]
    BY <2>1
  <2>6. JobStands(j)
    BY <2>3, <2>4 DEF JobStands
  <2> HIDE DEF j
  <2> QED BY <1>1, <2>4, <2>5, <2>6, JobType, NothingLost
<1> QED BY <1>2, <1>3 DEF FindFile

\* All of a worker's steps, those that fail included.
LEMMA WorkerInv == ASSUME StoreInv, NEW w \in Worker, WorkerStep(w) \/ RecvLost(w) \/ SqlFails(w) PROVE StoreInv'
<1>1. CASE SendFile(w) \/ RecvLost(w) \/ SqlFails(w)
  BY <1>1, EndInv DEF SendFile, RecvLost, SqlFails
<1> QED BY <1>1, ChecksInv, ReceiveInv, InsertPoolInv, PrepareFileInv, InsertFileInv, FindFileInv
        DEF WorkerStep

LEMMA StoreStep == StoreInv /\ [Next]_vars => StoreInv'
<1>1. ASSUME StoreInv, UNCHANGED vars PROVE StoreInv'
  BY <1>1, NothingLost DEF vars, StoreInv, poolVars
<1> QED BY <1>1, MainStepInv, RequestInv, WorkerInv DEF Next

\* How far each upload and download has come, and what it has entered so far.
THEOREM Store == Spec => []StoreInv
BY StoreInit, StoreStep, PTL DEF Spec

\* A FilePool row, by which the next upload of the same content is instant, is only there
\* for a file that is wholly in the pool.
THEOREM PoolIsWhole == Spec => []PoolRowsWhole
<1>1. StoreInv => PoolRowsWhole
  BY StoreForm
<1> QED BY <1>1, Store, PTL

\* Every file that can be seen has its content in the pool, and what a download sends is
\* whole, even when its row is removed meanwhile.
THEOREM FilesBacked == Spec => []FilesInPool
<1>1. StoreInv => FilesInPool
  BY StoreForm
<1> QED BY <1>1, Store, PTL

-----------------------------------------------------------------------------
\* The tree.  What holds however many clients of a user there are comes first.

Row == [id : Id, precode : Dir, name : Name, type : {"d", "f"}, owner : User, content : Content \cup {None}]

\* Numbers are given once, and a row's directory is older than the row.
RowsInOrder ==
    /\ userFile \subseteq Row /\ nextId \in Nat /\ 0 < nextId
    /\ \A r \in userFile : r.id < nextId /\ r.precode < r.id
    /\ \A r, q \in userFile : r.id = q.id => r = q
    /\ \A s \in Session : code[s] < nextId
    /\ \A w \in Worker : job[w].dir < nextId

\* The rows rm has in hand lie one in the other, and what is left of each lies in it.
InHandStands ==
    /\ rmTodo \in Seq([row : Row, listed : BOOLEAN, left : SUBSET Row])
    /\ \A i \in 1..Len(rmTodo) :
        /\ rmTodo[i].row \in userFile /\ rmTodo[i].row.owner = rmUser
        /\ \A r \in rmTodo[i].left :
               r \in userFile /\ r.owner = rmUser /\ r.precode = rmTodo[i].row.id
        /\ i < Len(rmTodo) => /\ rmTodo[i].listed /\ rmTodo[i + 1].row.precode = rmTodo[i].row.id
                              /\ rmTodo[i + 1].row \notin rmTodo[i].left

RmInv == RowsInOrder /\ InHandStands

-----------------------------------------------------------------------------
\* A nonempty set of numbers has a least one.
LEMMA Smallest == ASSUME NEW T, T \subseteq Nat, T # {} PROVE \E x \in T : \A y \in T : x <= y
<1> DEFINE R == OpToRel(<, Nat)
<1>1. \A x, y \in Nat : <<y, x>> \in R <=> y < x
  BY DEF OpToRel
<1>2. IsWellFoundedOn(R, Nat)
  BY NatLessThanWellFounded
<1> HIDE DEF R
<1>3. PICK x \in T : \A y \in T : ~(<<y, x>> \in R)
  BY <1>2, WFMin
<1>4. \A y \in T : y \in Nat /\ x \in Nat /\ ~(y < x)
  BY <1>1, <1>3
<1>5. \A y \in T : x <= y
  BY <1>4
<1> QED BY <1>5

\* Numbers each of which is less than the next.
LEMMA Ascends ==
    ASSUME NEW n \in Nat, NEW f, \A i \in 1..n : f[i] \in Int, \A i \in 1..n - 1 : f[i] < f[i + 1]
    PROVE  \A i, j \in 1..n : i < j => f[i] < f[j]
<1> DEFINE T == {j \in 1..n : \E i \in 1..n : i < j /\ ~(f[i] < f[j])}
<1>1. ASSUME T # {} PROVE FALSE
  <2>1. T \subseteq Nat
    OBVIOUS
  <2>2. PICK j \in T : \A k \in T : j <= k
    BY <1>1, <2>1, Smallest
  <2>3. PICK i \in 1..n : i < j /\ ~(f[i] < f[j])
    OBVIOUS
  <2>4. j \in 1..n /\ j - 1 \in 1..n - 1 /\ j - 1 \in 1..n /\ (j - 1) + 1 = j
    BY <2>3
  <2>5. f[j - 1] < f[j] /\ f[j - 1] \in Int /\ f[j] \in Int /\ f[i] \in Int
    BY <2>3, <2>4
  <2>6. i # j - 1
    BY <2>3, <2>5
  <2>7. j - 1 \notin T
    BY <2>2, <2>4
  <2>8. i < j - 1
    BY <2>3, <2>4, <2>6
  <2>9. f[i] < f[j - 1]
    BY <2>3, <2>4, <2>7, <2>8
  <2> QED BY <2>3, <2>5, <2>9
<1> QED BY <1>1

\* The stack and its top.
LEMMA StackTop ==
    ASSUME NEW S, NEW q \in Seq(S), q # <<>>
    PROVE  /\ Len(q) \in Nat \ {0} /\ Last(q) = q[Len(q)] /\ Last(q) \in S
           /\ Front(q) \in Seq(S) /\ Len(Front(q)) = Len(q) - 1
           /\ \A i \in 1..Len(q) - 1 : Front(q)[i] = q[i]
<1>1. Len(q) \in Nat \ {0} /\ Len(q) \in 1..Len(q)
  OBVIOUS
<1>2. Last(q) = q[Len(q)] /\ Last(q) \in S
  BY <1>1 DEF Last
<1>3. Front(q) = SubSeq(q, 1, Len(q) - 1)
  BY DEF Front
<1>4. /\ SubSeq(q, 1, Len(q) - 1) \in Seq(S)
      /\ Len(SubSeq(q, 1, Len(q) - 1)) = Len(q) - 1
      /\ \A i \in 1..Len(q) - 1 : SubSeq(q, 1, Len(q) - 1)[i] = q[i]
  <2> DEFINE n == Len(q) - 1
  <2>1. n \in Int /\ 1 \in Int /\ \A i \in 1..n : q[i] \in S
    BY <1>1
  <2>2. n >= 0 /\ (n - 1) + 1 = n /\ \A i \in 1..n : (1 + i) - 1 = i
    BY <1>1
  <2> HIDE DEF n
  <2>3. /\ SubSeq(q, 1, n) \in Seq(S)
        /\ Len(SubSeq(q, 1, n)) = IF 1 <= n THEN (n - 1) + 1 ELSE 0
        /\ \A i \in 1..(n - 1) + 1 : SubSeq(q, 1, n)[i] = q[(1 + i) - 1]
    BY <2>1, SubSeqProperties
  <2>4. SubSeq(q, 1, n) \in Seq(S) /\ Len(SubSeq(q, 1, n)) = n
    BY <2>1, <2>2, <2>3
  <2>5. \A i \in 1..n : SubSeq(q, 1, n)[i] = q[i]
    BY <2>1, <2>2, <2>3
  <2> QED BY <2>4, <2>5 DEF n
<1> QED BY <1>1, <1>2, <1>3, <1>4

-----------------------------------------------------------------------------
\* What rm has in hand lies beneath the row it was given.
LEMMA InsideForm == RmInv => RmStaysInside
<1> SUFFICES ASSUME RmInv, NEW i \in DOMAIN rmTodo, NEW r \in {rmTodo[i].row} \cup rmTodo[i].left
             PROVE  r \in Subtree(rmTodo[1].row) /\ r.owner = rmUser
  BY DEF RmStaysInside
<1>1. /\ DOMAIN rmTodo = 1..Len(rmTodo) /\ Len(rmTodo) \in Nat
      /\ \A k \in 1..Len(rmTodo) : rmTodo[k].row \in userFile
      /\ \A k \in 1..Len(rmTodo) : k < Len(rmTodo) => rmTodo[k + 1].row.precode = rmTodo[k].row.id
  BY DEF RmInv, InHandStands
<1>2. r \in userFile /\ r.owner = rmUser /\ (r # rmTodo[i].row => r.precode = rmTodo[i].row.id)
  BY <1>1 DEF RmInv, InHandStands
<1>3. ASSUME NEW rows \in SUBSET userFile, rmTodo[1].row \in rows,
             \A x \in userFile : (\E d \in rows : x.precode = d.id) => x \in rows
      PROVE  r \in rows
  <2> DEFINE T == {k \in 1..Len(rmTodo) : rmTodo[k].row \notin rows}
  <2>1. T \subseteq Nat
    BY <1>1
  <2>2. ASSUME T # {} PROVE FALSE
    <3>1. PICK k \in T : \A l \in T : k <= l
      BY <2>1, <2>2, Smallest
    <3>2. k \in 1..Len(rmTodo) /\ k # 1 /\ rmTodo[k].row \notin rows
      BY <1>3
    <3>3. k - 1 \in 1..Len(rmTodo) /\ k - 1 < Len(rmTodo) /\ (k - 1) + 1 = k /\ ~(k <= k - 1)
      BY <1>1, <3>2
    <3>4. rmTodo[k - 1].row \in rows
      BY <3>1, <3>3
    <3>5. rmTodo[k].row.precode = rmTodo[k - 1].row.id /\ rmTodo[k].row \in userFile
      BY <1>1, <3>2, <3>3
    <3> QED BY <1>3, <3>2, <3>4, <3>5
  <2>3. rmTodo[i].row \in rows
    BY <1>1, <2>2
  <2> QED BY <1>2, <1>3, <2>3
<1> QED BY <1>2, <1>3 DEF Subtree

\* The numbers of the rows in hand rise: no row is there twice.
LEMMA InHandRises ==
    ASSUME RmInv
    PROVE  \A i, j \in 1..Len(rmTodo) : i < j => rmTodo[i].row.id < rmTodo[j].row.id
<1> DEFINE n == Len(rmTodo)
           f == [i \in 1..n |-> rmTodo[i].row.id]
<1>1. n \in Nat /\ \A i \in 1..n : rmTodo[i].row \in userFile
  BY DEF RmInv, InHandStands
<1>2. \A r \in userFile : r.id \in Int /\ r.precode \in Int /\ r.precode < r.id
  BY StoreAssumption DEF RmInv, RowsInOrder, Row, Id, Dir
<1>3. \A i \in 1..n - 1 : i \in 1..n /\ i + 1 \in 1..n /\ i < n
  BY <1>1
<1>4. \A i \in 1..n : f[i] \in Int
  BY <1>1, <1>2
<1>5. \A i \in 1..n - 1 : f[i] < f[i + 1]
  <2> SUFFICES ASSUME NEW i \in 1..n - 1 PROVE f[i] < f[i + 1]
    OBVIOUS
  <2>1. rmTodo[i + 1].row.precode = rmTodo[i].row.id
    BY <1>3 DEF RmInv, InHandStands
  <2> QED BY <1>1, <1>2, <1>3, <2>1
<1> HIDE DEF f
<1>6. \A i, j \in 1..n : i < j => f[i] < f[j]
  BY <1>1, <1>4, <1>5, Ascends
<1> QED BY <1>6 DEF f

-----------------------------------------------------------------------------
\* Rows that are taken away take nothing from the order of the others.
LEMMA RowsStay ==
    ASSUME RowsInOrder, userFile' \subseteq userFile, nextId' = nextId,
           \A s \in Session : code'[s] < nextId, \A w \in Worker : job'[w].dir < nextId
    PROVE  RowsInOrder'
BY DEF RowsInOrder

\* A new row has a number nobody has had.
LEMMA RowComes ==
    ASSUME RowsInOrder, NEW r \in Row, r.id = nextId, r.precode < nextId,
           userFile' = userFile \cup {r}, nextId' = nextId + 1, code' = code,
           \A w \in Worker : job'[w].dir < nextId, code \in [Session -> Dir], job' \in [Worker -> Job]
    PROVE  RowsInOrder' /\ r \notin userFile
<1>1. \A q \in userFile : q.id < nextId /\ q.id \in Int /\ q.precode \in Int
  BY DEF RowsInOrder, Row, Id, Dir
<1>2. nextId \in Nat /\ nextId < nextId + 1 /\ \A i \in Int : i < nextId => i < nextId + 1 /\ i # nextId
  BY DEF RowsInOrder
<1>3. r \notin userFile /\ \A q \in userFile : q.id # r.id
  BY <1>1, <1>2
<1>4. \A s \in Session : code'[s] < nextId'
  <2>1. \A s \in Session : code[s] \in Int /\ code[s] < nextId
    BY DEF RowsInOrder, Dir
  <2> QED BY <1>2, <2>1
<1>5. \A w \in Worker : job'[w].dir < nextId'
  <2>1. \A w \in Worker : job'[w].dir \in Int
    BY DEF Job, Idle, Dir
  <2> QED BY <1>2, <2>1
<1>6. userFile' \subseteq Row /\ nextId' \in Nat /\ 0 < nextId'
  BY <1>2 DEF RowsInOrder
<1>7. \A q \in userFile' : q.id < nextId' /\ q.precode < q.id
  BY <1>1, <1>2 DEF RowsInOrder
<1>8. \A q, p \in userFile' : q.id = p.id => q = p
  BY <1>3 DEF RowsInOrder
<1> QED BY <1>3, <1>4, <1>5, <1>6, <1>7, <1>8 DEF RowsInOrder

\* The directory a job remembers is older than the rows to come.
LEMMA JobDirs ==
    ASSUME StoreInv, RowsInOrder, NEW w \in Worker,
           Request(w) \/ WorkerStep(w) \/ RecvLost(w) \/ SqlFails(w)
    PROVE  \A v \in Worker : job'[v].dir < nextId
<1>1. -1 < nextId /\ job \in [Worker -> Job] /\ job[w].dir < nextId
  BY DEF RowsInOrder, StoreInv
<1>2. SUFFICES \E j : job' = [job EXCEPT ![w] = j] /\ j.dir < nextId
  BY DEF RowsInOrder, StoreInv
<1>3. CASE End(w)
  <2>1. Idle.dir = -1 /\ job' = [job EXCEPT ![w] = Idle]
    BY <1>3 DEF Idle, End
  <2> QED BY <1>1, <2>1
<1>4. ASSUME NEW step, Goto(w, step), job[w].at # "idle"
      PROVE  \E j : job' = [job EXCEPT ![w] = j] /\ j.dir < nextId
  <2>1. [job[w] EXCEPT !.at = step].dir = job[w].dir
    BY <1>4, AtWork
  <2>2. job' = [job EXCEPT ![w] = [job[w] EXCEPT !.at = step]]
    BY <1>4 DEF Goto
  <2> QED BY <1>1, <2>1, <2>2
<1>5. ASSUME NEW step, NEW s, NEW n, NEW c, Start(w, step, s, n, c)
      PROVE  \E j : job' = [job EXCEPT ![w] = j] /\ j.dir < nextId
  <2> DEFINE j == [at |-> step, s |-> s, name |-> n, content |-> c, dir |-> -1]
  <2>1. job' = [job EXCEPT ![w] = j] /\ j.dir = -1
    BY <1>5 DEF Start
  <2> QED BY <1>1, <2>1
<1>6. CASE PrepareFile(w)
  <2> DEFINE j == [job[w] EXCEPT !.at = "insert", !.dir = code[job[w].s]]
  <2>1. job[w].s \in Session /\ j.dir = code[job[w].s] /\ job' = [job EXCEPT ![w] = j]
    BY <1>6, AtWork DEF PrepareFile, At
  <2>2. code[job[w].s] < nextId
    BY <2>1 DEF RowsInOrder
  <2> QED BY <2>1, <2>2
<1>7. ASSUME NEW c, job' = [job EXCEPT ![w].at = "send", ![w].content = c], job[w].at # "idle"
      PROVE  \E j : job' = [job EXCEPT ![w] = j] /\ j.dir < nextId
  <2> DEFINE j == [job[w] EXCEPT !.at = "send", !.content = c]
  <2>1. j.dir = job[w].dir /\ job' = [job EXCEPT ![w] = j]
    BY <1>7, AtWork
  <2> QED BY <1>1, <2>1
<1>8. CASE Request(w)
  BY <1>5, <1>8 DEF Request, StartGets, StartPuts
<1>9. CASE FindFile(w)
  BY <1>3, <1>7, <1>9 DEF FindFile, At
<1>10. CASE CheckName(w) \/ SelectPool(w) \/ OpenPool(w) \/ Received(w) \/ InsertPool(w)
  <2>1. job[w].at # "idle" /\ (End(w) \/ \E step : Goto(w, step))
    BY <1>10 DEF CheckName, SelectPool, OpenPool, Received, InsertPool, At
  <2> QED BY <1>3, <1>4, <2>1
<1>11. CASE InsertFile(w) \/ SendFile(w) \/ RecvLost(w) \/ SqlFails(w)
  BY <1>3, <1>11 DEF InsertFile, SendFile, RecvLost, SqlFails
<1> QED BY <1>6, <1>8, <1>9, <1>10, <1>11 DEF WorkerStep

\* The row an upload enters is that of a file.
LEMMA FileRow ==
    ASSUME StoreInv, RowsInOrder, NEW w \in Worker, InsertFile(w)
    PROVE  \E r \in Row : /\ r.type = "f" /\ r.id = nextId /\ r.precode < nextId
                          /\ r.precode = job[w].dir /\ r.owner = UserOf[job[w].s]
                          /\ userFile' = userFile \cup {r} /\ nextId' = nextId + 1
<1> DEFINE r == [id |-> nextId, precode |-> job[w].dir, name |-> job[w].name, type |-> "f",
                 owner |-> UserOf[job[w].s], content |-> job[w].content]
<1>1. job[w].at = "insert"
  BY DEF InsertFile, At
<1>2. /\ job[w].dir \in Dir /\ job[w].name \in Name /\ job[w].s \in Session
      /\ job[w].content \in Content \cup {None}
  BY <1>1, AtWork
<1>3. nextId \in Id /\ userFile' = userFile \cup {r} /\ nextId' = nextId + 1
  BY DEF InsertFile, Insert
<1>4. r \in Row
  BY <1>2, <1>3, StoreAssumption DEF Row
<1>5. r.precode < nextId
  BY DEF RowsInOrder
<1> QED BY <1>3, <1>4, <1>5

\* The row of a new directory.
LEMMA DirectoryRow ==
    ASSUME StoreInv, RowsInOrder, NEW s \in Session, NEW n \in Name, Mkdir(s, n)
    PROVE  \E r \in Row : /\ r.type = "d" /\ r.id = nextId /\ r.precode = code[s] /\ r.owner = UserOf[s]
                          /\ userFile' = userFile \cup {r} /\ nextId' = nextId + 1
<1> DEFINE r == [id |-> nextId, precode |-> code[s], name |-> n, type |-> "d",
                 owner |-> UserOf[s], content |-> None]
<1>1. nextId \in Id /\ userFile' = userFile \cup {r} /\ nextId' = nextId + 1
  BY DEF Mkdir, Insert
<1>2. r \in Row
  BY <1>1, StoreAssumption DEF Row, StoreInv
<1> QED BY <1>1, <1>2

\* Clients move between directories that there are.
LEMMA CdOrder ==
    ASSUME StoreInv, RowsInOrder, NEW s \in Session, CdRoot(s) \/ CdUp(s) \/ \E n \in Name : CdDir(s, n)
    PROVE  \A v \in Session : code'[v] < nextId
<1>1. 0 < nextId /\ -1 < nextId /\ code \in [Session -> Dir] /\ \A v \in Session : code[v] < nextId
  BY DEF RowsInOrder, StoreInv
<1>2. \A r \in userFile : r.id < nextId /\ r.precode < nextId
  <2>1. \A r \in userFile : r.id \in Int /\ r.precode \in Int /\ r.id < nextId /\ r.precode < r.id
    BY DEF RowsInOrder, Row, Id, Dir
  <2>2. nextId \in Int
    BY DEF RowsInOrder
  <2> QED BY <2>1, <2>2
<1>3. ASSUME NEW rows, rows \subseteq userFile, NEW dir,
             dir \in CodesFrom(rows, "id") \/ dir \in CodesFrom(rows, "precode")
      PROVE  dir < nextId
  BY <1>1, <1>2, <1>3 DEF CodesFrom
<1>4. PICK dir : dir < nextId /\ code' = [code EXCEPT ![s] = dir]
  <2>1. CASE CdRoot(s)
    BY <1>1, <2>1 DEF CdRoot
  <2>2. CASE CdUp(s)
    <3> DEFINE rows == {r \in userFile : r.owner = UserOf[s] /\ r.id = code[s]}
    <3>1. PICK dir \in CodesFrom(rows, "precode") : code' = [code EXCEPT ![s] = dir]
      BY <2>2 DEF CdUp
    <3>2. rows \subseteq userFile
      OBVIOUS
    <3> HIDE DEF rows
    <3> QED BY <1>3, <3>1, <3>2
  <2>3. CASE \E n \in Name : CdDir(s, n)
    <3>1. PICK n \in Name : CdDir(s, n)
      BY <2>3
    <3> DEFINE rows == Named(UserOf[s], code[s], Strip(n))
    <3>2. PICK dir \in CodesFrom(rows, "id") : code' = [code EXCEPT ![s] = dir]
      BY <3>1 DEF CdDir
    <3>3. rows \subseteq userFile
      BY DEF Named, Entries
    <3> HIDE DEF rows
    <3> QED BY <1>3, <3>2, <3>3
  <2> QED BY <2>1, <2>2, <2>3
<1> QED BY <1>1, <1>4

-----------------------------------------------------------------------------
Frame == [row : Row, listed : BOOLEAN, left : SUBSET Row]

\* One row of the stack, as it stands in it.
Stands(q, i) ==
    /\ q[i].row \in userFile /\ q[i].row.owner = rmUser
    /\ \A r \in q[i].left : r \in userFile /\ r.owner = rmUser /\ r.precode = q[i].row.id
    /\ i < Len(q) => /\ q[i].listed /\ q[i + 1].row.precode = q[i].row.id
                     /\ q[i + 1].row \notin q[i].left

LEMMA InHandForm ==
    InHandStands <=> rmTodo \in Seq(Frame) /\ \A i \in 1..Len(rmTodo) : Stands(rmTodo, i)
BY DEF InHandStands, Stands, Frame

\* Rows come while rm is at work; none of those in hand goes.
LEMMA InHandStays ==
    ASSUME InHandStands, userFile \subseteq userFile', UNCHANGED rmVars
    PROVE  InHandStands'
BY DEF InHandStands, rmVars

LEMMA InHandRow ==
    ASSUME NEW r \in Row
    PROVE  /\ InHand(r) \in Frame /\ InHand(r).row = r /\ InHand(r).left = {}
           /\ InHand(r).listed = (r.type # "d")
BY DEF InHand, Frame

\* A statement starts rm's work, or goes on with it.
LEMMA RmStarts ==
    ASSUME RmInv, NEW s \in Session, NEW n \in Name, Rm(s, n)
    PROVE  /\ InHandStands' /\ UNCHANGED <<userFile, nextId, cdVars, job>>
           /\ \E r \in userFile : /\ r.owner = UserOf[s] /\ r.precode = code[s]
                                  /\ rmUser' = UserOf[s] /\ rmTodo' = <<InHand(r)>>
<1>1. PICK r \in Named(UserOf[s], code[s], n) : rmUser' = UserOf[s] /\ rmTodo' = <<InHand(r)>>
  BY DEF Rm
<1>2. UNCHANGED <<userFile, nextId, cdVars, job>>
  BY DEF Rm
<1>3. r \in userFile /\ r.owner = UserOf[s] /\ r.precode = code[s]
  BY DEF Named, Entries
<1>4. r \in Row
  BY <1>3 DEF RmInv, RowsInOrder
<1>5. /\ rmTodo' \in Seq(Frame) /\ Len(rmTodo') = 1 /\ rmTodo'[1].row = r /\ rmTodo'[1].left = {}
  BY <1>1, <1>4, InHandRow
<1>6. InHandStands'
  BY <1>1, <1>2, <1>3, <1>5 DEF InHandStands, Frame
<1> QED BY <1>1, <1>2, <1>3, <1>6

LEMMA ListStands ==
    ASSUME RmInv, RmList
    PROVE  /\ InHandStands' /\ UNCHANGED <<userFile, nextId, cdVars, job, rmUser>>
           /\ rmTodo # <<>> /\ Len(rmTodo') = Len(rmTodo)
           /\ \A i \in 1..Len(rmTodo) : rmTodo'[i].row = rmTodo[i].row
           /\ \A i \in 1..Len(rmTodo) : i < Len(rmTodo) => rmTodo'[i] = rmTodo[i]
           /\ rmTodo'[Len(rmTodo)].left = Entries(rmUser, rmTodo[Len(rmTodo)].row.id)
<1> DEFINE k == Len(rmTodo)
           new == [row |-> rmTodo[k].row, listed |-> TRUE, left |-> Entries(rmUser, rmTodo[k].row.id)]
<1>1. rmTodo # <<>> /\ UNCHANGED <<userFile, nextId, cdVars, job, rmUser>>
  BY DEF RmList
<1>2. rmTodo \in Seq(Frame) /\ \A i \in 1..Len(rmTodo) : Stands(rmTodo, i)
  BY InHandForm DEF RmInv
<1>3. /\ k \in Nat \ {0} /\ Last(rmTodo) = rmTodo[k] /\ rmTodo[k] \in Frame
      /\ Front(rmTodo) \in Seq(Frame) /\ Len(Front(rmTodo)) = k - 1
      /\ \A i \in 1..k - 1 : Front(rmTodo)[i] = rmTodo[i]
  BY <1>1, <1>2, StackTop
<1>4. rmTodo' = Append(Front(rmTodo), new)
  BY <1>3 DEF RmList, RmTop
<1>5. new \in Frame /\ new.row = rmTodo[k].row /\ new.left = Entries(rmUser, rmTodo[k].row.id)
  <2>1. Entries(rmUser, rmTodo[k].row.id) \subseteq Row
    BY DEF Entries, RmInv, RowsInOrder
  <2> QED BY <1>3, <2>1 DEF Frame
<1> HIDE DEF new
<1>6. /\ rmTodo' \in Seq(Frame) /\ Len(rmTodo') = k /\ rmTodo'[k] = new
      /\ \A i \in 1..k - 1 : rmTodo'[i] = rmTodo[i]
  BY <1>3, <1>4, <1>5
<1>7. \A i \in 1..k : (i < k => i \in 1..k - 1) /\ (i = k \/ i < k)
  BY <1>3
<1>8. \A i \in 1..k : rmTodo'[i].row = rmTodo[i].row
  BY <1>5, <1>6, <1>7
<1> HIDE DEF k
<1>9. ASSUME NEW i \in 1..k PROVE Stands(rmTodo, i)'
  <2>1. CASE i < k
    <3>1. i + 1 \in 1..k /\ rmTodo'[i] = rmTodo[i] /\ rmTodo'[i + 1].row = rmTodo[i + 1].row
      BY <1>3, <1>6, <1>7, <1>8, <2>1
    <3>2. Stands(rmTodo, i) /\ Len(rmTodo) = k
      BY <1>2 DEF k
    <3> QED BY <1>1, <1>6, <2>1, <3>1, <3>2 DEF Stands
  <2>2. CASE i = k
    <3>1. Stands(rmTodo, k) /\ rmTodo'[k] = new
      BY <1>2, <1>6, <2>2 DEF k
    <3>2. \A r \in new.left : r \in userFile /\ r.owner = rmUser /\ r.precode = rmTodo[k].row.id
      BY <1>5 DEF Entries
    <3>3. ~(k < k)
      BY <1>3
    <3> QED BY <1>1, <1>5, <1>6, <2>2, <3>1, <3>2, <3>3 DEF Stands
  <2> QED BY <1>7, <2>1, <2>2
<1>10. InHandStands'
  <2>1. InHandStands' <=> (rmTodo' \in Seq(Frame) /\ \A i \in 1..Len(rmTodo') : Stands(rmTodo, i)')
    BY InHandForm DEF InHandStands, Stands, Frame
  <2> QED BY <1>6, <1>9, <2>1
<1> QED BY <1>1, <1>5, <1>6, <1>7, <1>8, <1>10 DEF k

\* Two elements put behind a sequence.
LEMMA TwoMore ==
    ASSUME NEW S, NEW q \in Seq(S), NEW a \in S, NEW b \in S
    PROVE  /\ q \o <<a, b>> \in Seq(S) /\ Len(q \o <<a, b>>) = Len(q) + 2
           /\ (q \o <<a, b>>)[Len(q) + 1] = a /\ (q \o <<a, b>>)[Len(q) + 2] = b
           /\ \A i \in 1..Len(q) : (q \o <<a, b>>)[i] = q[i]
<1>1. <<a, b>> \in Seq(S) /\ Len(<<a, b>>) = 2 /\ <<a, b>>[1] = a /\ <<a, b>>[2] = b
  OBVIOUS
<1>2. Len(q) \in Nat
  OBVIOUS
<1> DEFINE p == <<a, b>>
<1>3. p \in Seq(S) /\ Len(p) = 2 /\ p[1] = a /\ p[2] = b
  BY <1>1
<1> HIDE DEF p
<1>4. /\ q \o p \in Seq(S) /\ Len(q \o p) = Len(q) + Len(p)
      /\ \A i \in 1..Len(q) + Len(p) : (q \o p)[i] = IF i <= Len(q) THEN q[i] ELSE p[i - Len(q)]
  BY <1>3, ConcatProperties
<1>5. (q \o p)[Len(q) + 1] = a /\ (q \o p)[Len(q) + 2] = b
  BY <1>2, <1>3, <1>4
<1>6. \A i \in 1..Len(q) : (q \o p)[i] = q[i]
  BY <1>2, <1>3, <1>4
<1> QED BY <1>3, <1>4, <1>5, <1>6 DEF p

\* The next entry is fetched: it comes on top of the directory it was left in.
LEMMA FetchStands ==
    ASSUME RmInv, RmFetch
    PROVE  /\ InHandStands' /\ UNCHANGED <<userFile, nextId, cdVars, job, rmUser>>
           /\ rmTodo # <<>> /\ Len(rmTodo') = Len(rmTodo) + 1
           /\ \A i \in 1..Len(rmTodo) : rmTodo'[i].row = rmTodo[i].row
           /\ \A i \in 1..Len(rmTodo) : i < Len(rmTodo) => rmTodo'[i] = rmTodo[i]
           /\ \E r \in rmTodo[Len(rmTodo)].left :
                 /\ rmTodo[Len(rmTodo)].listed
                 /\ rmTodo'[Len(rmTodo)].left = rmTodo[Len(rmTodo)].left \ {r}
                 /\ rmTodo'[Len(rmTodo) + 1] = InHand(r)
<1> DEFINE k == Len(rmTodo)
<1>1. rmTodo # <<>> /\ UNCHANGED <<userFile, nextId, cdVars, job, rmUser>>
  BY DEF RmFetch
<1>2. rmTodo \in Seq(Frame) /\ \A i \in 1..Len(rmTodo) : Stands(rmTodo, i)
  BY InHandForm DEF RmInv
<1>3. /\ k \in Nat \ {0} /\ Last(rmTodo) = rmTodo[k] /\ rmTodo[k] \in Frame
      /\ Front(rmTodo) \in Seq(Frame) /\ Len(Front(rmTodo)) = k - 1
      /\ \A i \in 1..k - 1 : Front(rmTodo)[i] = rmTodo[i]
  BY <1>1, <1>2, StackTop
<1>4. PICK r \in rmTodo[k].left :
          rmTodo' = Front(rmTodo) \o <<[rmTodo[k] EXCEPT !.left = @ \ {r}], InHand(r)>>
  BY <1>3 DEF RmFetch, RmTop
<1>5. rmTodo[k].listed
  BY <1>3 DEF RmFetch, RmTop
<1> DEFINE new == [rmTodo[k] EXCEPT !.left = @ \ {r}]
<1>6. /\ new \in Frame /\ new.row = rmTodo[k].row /\ new.listed
      /\ new.left = rmTodo[k].left \ {r}
  BY <1>3, <1>5 DEF Frame
<1>7. Stands(rmTodo, k)
  BY <1>2, <1>3
<1>8. r \in userFile /\ r.owner = rmUser /\ r.precode = rmTodo[k].row.id /\ r \in Row
  BY <1>7 DEF Stands, RmInv, RowsInOrder
<1>9. InHand(r) \in Frame /\ InHand(r).row = r /\ InHand(r).left = {}
  BY <1>8, InHandRow
<1> HIDE DEF new
<1>10. /\ rmTodo' \in Seq(Frame) /\ Len(rmTodo') = k + 1
       /\ rmTodo'[k] = new /\ rmTodo'[k + 1] = InHand(r)
       /\ \A i \in 1..k - 1 : rmTodo'[i] = rmTodo[i]
  <2>1. rmTodo' = Front(rmTodo) \o <<new, InHand(r)>>
    BY <1>4 DEF new
  <2> HIDE DEF k
  <2> DEFINE q == Front(rmTodo)
  <2>2. q \in Seq(Frame) /\ Len(q) = k - 1 /\ \A i \in 1..k - 1 : q[i] = rmTodo[i]
    BY <1>3
  <2>3. rmTodo' = q \o <<new, InHand(r)>>
    BY <2>1
  <2> HIDE DEF q
  <2>4. /\ rmTodo' \in Seq(Frame) /\ Len(rmTodo') = Len(q) + 2
        /\ rmTodo'[Len(q) + 1] = new /\ rmTodo'[Len(q) + 2] = InHand(r)
        /\ \A i \in 1..Len(q) : rmTodo'[i] = q[i]
    BY <1>6, <1>9, <2>2, <2>3, TwoMore
  <2>5. Len(q) + 1 = k /\ Len(q) + 2 = k + 1
    BY <1>3, <2>2
  <2> QED BY <2>2, <2>4, <2>5
<1>11. \A i \in 1..k : (i < k => i \in 1..k - 1) /\ (i = k \/ i < k)
  BY <1>3
<1>12. \A i \in 1..k : rmTodo'[i].row = rmTodo[i].row
  BY <1>6, <1>10, <1>11
<1> HIDE DEF k
<1>13. ASSUME NEW i \in 1..k + 1 PROVE Stands(rmTodo, i)'
  <2>1. CASE i < k
    <3>1. i \in 1..k /\ i + 1 \in 1..k /\ rmTodo'[i] = rmTodo[i] /\ rmTodo'[i + 1].row = rmTodo[i + 1].row
      BY <1>3, <1>10, <1>11, <1>12, <2>1
    <3>2. Stands(rmTodo, i) /\ Len(rmTodo) = k
      BY <1>2, <3>1 DEF k
    <3> QED BY <1>1, <1>10, <2>1, <3>1, <3>2 DEF Stands
  <2>2. CASE i = k
    <3>1. r \notin new.left /\ new.left \subseteq rmTodo[k].left
      BY <1>6
    <3> QED BY <1>1, <1>6, <1>7, <1>8, <1>9, <1>10, <2>2, <3>1 DEF Stands
  <2>3. CASE i = k + 1
    <3>1. ~(k + 1 < k + 1)
      BY <1>3
    <3> QED BY <1>1, <1>8, <1>9, <1>10, <2>3, <3>1 DEF Stands
  <2>4. i < k \/ i = k \/ i = k + 1
    BY <1>3
  <2> QED BY <2>1, <2>2, <2>3, <2>4
<1>14. InHandStands'
  <2>1. InHandStands' <=> (rmTodo' \in Seq(Frame) /\ \A i \in 1..Len(rmTodo') : Stands(rmTodo, i)')
    BY InHandForm DEF InHandStands, Stands, Frame
  <2> QED BY <1>10, <1>13, <2>1
<1> QED BY <1>1, <1>5, <1>6, <1>10, <1>11, <1>12, <1>14 DEF k

\* The row on top goes, and nothing else.
LEMMA DeleteStands ==
    ASSUME RmInv, RmDelete
    PROVE  /\ InHandStands' /\ UNCHANGED <<nextId, cdVars, job>>
           /\ rmTodo # <<>> /\ rmTodo[Len(rmTodo)].listed /\ rmTodo[Len(rmTodo)].left = {}
           /\ userFile' = userFile \ {rmTodo[Len(rmTodo)].row}
           /\ Len(rmTodo') = Len(rmTodo) - 1 /\ \A i \in 1..Len(rmTodo) - 1 : rmTodo'[i] = rmTodo[i]
           /\ rmTodo' # <<>> => rmUser' = rmUser
<1> DEFINE k == Len(rmTodo)
<1>1. rmTodo # <<>> /\ UNCHANGED <<nextId, cdVars, job>>
  BY DEF RmDelete
<1>2. rmTodo \in Seq(Frame) /\ \A i \in 1..Len(rmTodo) : Stands(rmTodo, i)
  BY InHandForm DEF RmInv
<1>3. /\ k \in Nat \ {0} /\ Last(rmTodo) = rmTodo[k] /\ rmTodo[k] \in Frame
      /\ Front(rmTodo) \in Seq(Frame) /\ Len(Front(rmTodo)) = k - 1
      /\ \A i \in 1..k - 1 : Front(rmTodo)[i] = rmTodo[i]
  BY <1>1, <1>2, StackTop
<1>4. /\ rmTodo[k].listed /\ rmTodo[k].left = {} /\ rmTodo' = Front(rmTodo)
      /\ userFile' = {r \in userFile : r.owner = rmUser => r.id # rmTodo[k].row.id}
      /\ rmTodo' # <<>> => rmUser' = rmUser
  BY <1>3 DEF RmDelete, RmTop
<1>5. rmTodo[k].row \in userFile /\ rmTodo[k].row.owner = rmUser
  BY <1>2, <1>3 DEF Stands
<1>6. userFile' = userFile \ {rmTodo[k].row}
  BY <1>4, <1>5 DEF RmInv, RowsInOrder
<1>7. \A i, j \in 1..k : i < j => rmTodo[i].row.id < rmTodo[j].row.id
  BY InHandRises
<1>8. \A i \in 1..k - 1 : i \in 1..k /\ i < k /\ i + 1 \in 1..k
  BY <1>3
<1>9. \A i \in 1..k : rmTodo[i].row.id \in Int
  BY <1>2 DEF Stands, RmInv, RowsInOrder, Row, Id
<1>10. ASSUME NEW i \in 1..k - 1
       PROVE  rmTodo[i].row # rmTodo[k].row /\ rmTodo[k].row \notin rmTodo[i].left
  <2>1. rmTodo[i].row.id < rmTodo[k].row.id
    BY <1>3, <1>7, <1>8
  <2>2. rmTodo[i].row # rmTodo[k].row
    BY <1>8, <1>9, <2>1
  <2>3. Stands(rmTodo, i)
    BY <1>2, <1>8
  <2>4. ASSUME rmTodo[k].row \in rmTodo[i].left PROVE FALSE
    <3>1. k - 1 \in 1..k /\ k - 1 < k /\ (k - 1) + 1 = k
      BY <1>3, <1>8
    <3>2. Stands(rmTodo, k - 1)
      BY <1>2, <3>1
    <3>3. rmTodo[k].row.precode = rmTodo[k - 1].row.id /\ rmTodo[k].row \notin rmTodo[k - 1].left
      BY <3>1, <3>2 DEF Stands
    <3>4. rmTodo[i].row.id = rmTodo[k - 1].row.id
      BY <2>3, <2>4, <3>3 DEF Stands
    <3>5. i # k - 1 /\ i <= k - 1
      BY <2>4, <3>3, <1>3
    <3>6. i < k - 1
      BY <1>3, <3>5
    <3>7. rmTodo[i].row.id < rmTodo[k - 1].row.id
      BY <1>7, <1>8, <3>1, <3>6
    <3> QED BY <1>8, <1>9, <3>1, <3>4, <3>7
  <2> QED BY <2>2, <2>4
<1>11. Len(rmTodo') = k - 1 /\ rmTodo' \in Seq(Frame) /\ \A i \in 1..k - 1 : rmTodo'[i] = rmTodo[i]
  BY <1>3, <1>4
<1> HIDE DEF k
<1>12. ASSUME NEW i \in 1..k - 1 PROVE Stands(rmTodo, i)'
  <2>1. Stands(rmTodo, i) /\ Len(rmTodo) = k /\ rmTodo'[i] = rmTodo[i]
    BY <1>2, <1>8, <1>11 DEF k
  <2>2. rmTodo' # <<>>
    <3>1. Len(rmTodo') # 0
      BY <1>3, <1>11
    <3> QED BY <3>1
  <2>3. rmUser' = rmUser /\ \A r \in userFile : r # rmTodo[k].row => r \in userFile'
    BY <1>4, <1>6, <2>2
  <2>4. i < k - 1 => i + 1 \in 1..k - 1 /\ rmTodo'[i + 1] = rmTodo[i + 1]
    BY <1>3, <1>11
  <2> QED BY <1>8, <1>10, <1>11, <2>1, <2>3, <2>4 DEF Stands
<1>13. InHandStands'
  <2>1. InHandStands' <=> (rmTodo' \in Seq(Frame) /\ \A i \in 1..Len(rmTodo') : Stands(rmTodo, i)')
    BY InHandForm DEF InHandStands, Stands, Frame
  <2> QED BY <1>11, <1>12, <2>1
<1> QED BY <1>1, <1>4, <1>6, <1>11, <1>13 DEF k

\* What stops or has not begun has nothing in hand.
LEMMA NothingInHand == ASSUME rmTodo' = <<>> PROVE InHandStands'
BY DEF InHandStands

\* The main thread's commands.
LEMMA CommandKeeps ==
    ASSUME StoreInv, StoreInv', RmInv, MainCommand
    PROVE  RmInv'
<1>1. PICK s \in Session : CdRoot(s) \/ CdUp(s) \/ \E n \in Name : CdDir(s, n) \/ Mkdir(s, n) \/ Rm(s, n)
  BY DEF MainCommand
<1>2. CASE CdRoot(s) \/ CdUp(s) \/ \E n \in Name : CdDir(s, n)
  <2>1. UNCHANGED <<userFile, nextId, rmVars, job>>
    BY <1>2 DEF CdRoot, CdUp, CdDir, rmVars
  <2>2. \A v \in Session : code'[v] < nextId
    BY <1>2, CdOrder DEF RmInv
  <2>3. RowsInOrder'
    BY <2>1, <2>2, RowsStay DEF RmInv, RowsInOrder
  <2> QED BY <2>1, <2>3, InHandStays DEF RmInv
<1>3. ASSUME NEW n \in Name, Mkdir(s, n) PROVE RmInv'
  <2>1. PICK r \in Row : /\ r.id = nextId /\ r.precode = code[s]
                         /\ userFile' = userFile \cup {r} /\ nextId' = nextId + 1
    BY <1>3, DirectoryRow DEF RmInv
  <2>2. r.precode < nextId /\ UNCHANGED <<code, job, rmVars>>
    BY <1>3, <2>1 DEF RmInv, RowsInOrder, Mkdir
  <2>3. \A w \in Worker : job'[w].dir < nextId
    BY <2>2 DEF RmInv, RowsInOrder
  <2>4. code \in [Session -> Dir] /\ job' \in [Worker -> Job]
    BY DEF StoreInv
  <2>5. RowsInOrder'
    BY <2>1, <2>2, <2>3, <2>4, RowComes DEF RmInv
  <2>6. InHandStands'
    BY <2>1, <2>2, InHandStays DEF RmInv
  <2> QED BY <2>5, <2>6 DEF RmInv
<1>4. ASSUME NEW n \in Name, Rm(s, n) PROVE RmInv'
  <2>1. InHandStands' /\ UNCHANGED <<userFile, nextId, code, job>>
    BY <1>4, RmStarts
  <2>2. RowsInOrder'
    BY <2>1, RowsStay DEF RmInv, RowsInOrder
  <2> QED BY <2>1, <2>2 DEF RmInv
<1> QED BY <1>1, <1>2, <1>3, <1>4

\* The steps of an rm under way.
LEMMA RmKeeps == ASSUME RmInv, RmStep PROVE RmInv'
<1>1. ASSUME InHandStands', userFile' \subseteq userFile, UNCHANGED <<nextId, code, job>>
      PROVE  RmInv'
  BY <1>1, RowsStay DEF RmInv, RowsInOrder
<1>2. CASE RmList
  BY <1>1, <1>2, ListStands
<1>3. CASE RmFetch
  BY <1>1, <1>3, FetchStands
<1>4. CASE RmDelete
  BY <1>1, <1>4, DeleteStands
<1>5. CASE RmFails
  <2>1. InHandStands'
    BY <1>5, NothingInHand DEF RmFails
  <2> QED BY <1>1, <1>5, <2>1 DEF RmFails
<1> QED BY <1>2, <1>3, <1>4, <1>5 DEF RmStep

\* What the workers do meanwhile: at most a row of a file comes.
LEMMA WorkersOnlyAdd ==
    ASSUME NEW w \in Worker, Request(w) \/ WorkerStep(w) \/ RecvLost(w) \/ SqlFails(w)
    PROVE  UNCHANGED <<cdVars, rmVars, up>> /\ (InsertFile(w) \/ UNCHANGED <<userFile, nextId>>)
<1>1. CASE Request(w)
  BY <1>1 DEF Request, StartGets, StartPuts
<1>2. CASE WorkerStep(w)
  BY <1>2 DEF WorkerStep, CheckName, SelectPool, OpenPool, Received, InsertPool, PrepareFile, InsertFile,
              FindFile, SendFile
<1>3. CASE RecvLost(w) \/ SqlFails(w)
  BY <1>3 DEF RecvLost, SqlFails
<1> QED BY <1>1, <1>2, <1>3

LEMMA WorkersKeep ==
    ASSUME StoreInv, StoreInv', RmInv, NEW w \in Worker,
           Request(w) \/ WorkerStep(w) \/ RecvLost(w) \/ SqlFails(w)
    PROVE  RmInv'
<1>1. UNCHANGED <<code, rmVars>> /\ (InsertFile(w) \/ UNCHANGED <<userFile, nextId>>)
  BY WorkersOnlyAdd
<1>2. \A v \in Worker : job'[v].dir < nextId
  BY JobDirs DEF RmInv
<1>3. CASE InsertFile(w)
  <2>1. PICK r \in Row : /\ r.id = nextId /\ r.precode < nextId
                         /\ userFile' = userFile \cup {r} /\ nextId' = nextId + 1
    BY <1>3, FileRow DEF RmInv
  <2>2. code \in [Session -> Dir] /\ job' \in [Worker -> Job]
    BY DEF StoreInv
  <2>3. RowsInOrder'
    BY <1>1, <1>2, <2>1, <2>2, RowComes DEF RmInv
  <2>4. InHandStands'
    BY <1>1, <2>1, InHandStays DEF RmInv
  <2> QED BY <2>3, <2>4 DEF RmInv
<1>4. CASE UNCHANGED <<userFile, nextId>>
  <2>1. RowsInOrder'
    BY <1>1, <1>2, <1>4, RowsStay DEF RmInv, RowsInOrder
  <2> QED BY <1>1, <1>4, <2>1, InHandStays DEF RmInv
<1> QED BY <1>1, <1>3, <1>4

LEMMA RmInit == Init => RmInv
<1> SUFFICES ASSUME Init PROVE RmInv
  OBVIOUS
<1>1. userFile = {} /\ nextId = 1 /\ rmTodo = <<>>
  BY DEF Init
<1>2. \A s \in Session : code[s] < 1
  BY DEF Init
<1>3. \A w \in Worker : job[w].dir < 1
  BY DEF Init, Idle
<1> QED BY <1>1, <1>2, <1>3 DEF RmInv, RowsInOrder, InHandStands

LEMMA RmInvStep == StoreInv /\ StoreInv' /\ RmInv /\ [Next]_vars => RmInv'
<1>1. ASSUME RmInv, UNCHANGED vars PROVE RmInv'
  BY <1>1 DEF vars, RmInv, RowsInOrder, InHandStands
<1> QED BY <1>1, CommandKeeps, RmKeeps, WorkersKeep DEF Next

\* Numbers are given once, directories are older than what is in them, and what rm has in
\* hand is a chain of rows each of which lies in the one before.
THEOREM RmChain == Spec => []RmInv
BY Store, RmInit, RmInvStep, PTL DEF Spec

\* A recursive rm touches nothing beside what it was given, nor another user's rows, however
\* deep the tree and whatever is uploaded into it meanwhile.
THEOREM RmIsInside == Spec => []RmStaysInside
BY InsideForm, RmChain, PTL

-----------------------------------------------------------------------------
\* Whose a directory's number is.  Numbers are not given twice: one that stands in a session,
\* a row or a job means a directory of that user's, as long as it means anything.
Own(u, c) == \A r \in userFile : r.id = c => IsDir(r, u)

OwnInv ==
    /\ \A s \in Session : Own(UserOf[s], code[s])
    /\ \A r \in userFile : Own(r.owner, r.precode)
    /\ \A w \in Worker : job[w].at = "insert" => Own(UserOf[job[w].s], job[w].dir)

\* Numbers, as the order of the rows compares them.
LEMMA RowNumbers ==
    ASSUME RowsInOrder
    PROVE  /\ \A r \in userFile : /\ r.id \in Nat \ {0} /\ r.precode \in Int
                                  /\ r.precode < r.id /\ r.id < nextId /\ r.owner \in User /\ r.name \in Name
           /\ \A r, q \in userFile : r.id = q.id => r = q
           /\ nextId \in Nat
BY StoreAssumption DEF RowsInOrder, Row, Id, Dir

\* A number keeps its meaning, or loses it, when rows go, and keeps it when one comes.
LEMMA OwnShrinks ==
    ASSUME userFile' \subseteq userFile
    PROVE  \A u, c : Own(u, c) => Own(u, c)'
BY DEF Own

LEMMA OwnGrows ==
    ASSUME RowsInOrder, NEW r \in Row, r.id = nextId, userFile' = userFile \cup {r}
    PROVE  \A u : \A c \in Int : c < nextId /\ Own(u, c) => Own(u, c)'
<1>1. nextId \in Nat
  BY DEF RowsInOrder
<1>2. \A c \in Int : c < nextId => r.id # c
  BY <1>1
<1> QED BY <1>2 DEF Own

\* No row has the number of the root, or none.
LEMMA OwnNone == ASSUME RowsInOrder, NEW u PROVE Own(u, 0) /\ Own(u, -1)
<1>1. \A r \in userFile : r.id # 0 /\ r.id # -1
  BY RowNumbers
<1> QED BY <1>1 DEF Own

\* What cd takes from a row of the user.
LEMMA OwnFrom ==
    ASSUME RowsInOrder, OwnInv, NEW u, NEW rows, rows \subseteq userFile, \A r \in rows : r.owner = u,
           NEW dir, dir \in CodesFrom(rows, "id") \/ dir \in CodesFrom(rows, "precode")
    PROVE  Own(u, dir)
<1>1. CASE dir = -1
  BY <1>1, OwnNone
<1>2. ASSUME NEW r \in rows, r.type = "d", dir = r.id \/ dir = r.precode PROVE Own(u, dir)
  <2>1. r \in userFile /\ r.owner = u
    BY <1>2
  <2>2. CASE dir = r.precode
    BY <2>1, <2>2 DEF OwnInv
  <2>3. CASE dir = r.id
    BY <1>2, <2>1, <2>3, RowNumbers DEF Own, IsDir
  <2> QED BY <1>2, <2>2, <2>3
<1>3. dir = -1 \/ \E r \in rows : r.type = "d" /\ (dir = r.id \/ dir = r.precode)
  BY DEF CodesFrom
<1> QED BY <1>1, <1>2, <1>3

LEMMA OwnCommand ==
    ASSUME StoreInv, RowsInOrder, OwnInv, MainCommand
    PROVE  OwnInv'
<1>1. PICK s \in Session : CdRoot(s) \/ CdUp(s) \/ \E n \in Name : CdDir(s, n) \/ Mkdir(s, n) \/ Rm(s, n)
  BY DEF MainCommand
<1>2. ASSUME UNCHANGED <<userFile, job>>, NEW dir, code' = [code EXCEPT ![s] = dir], Own(UserOf[s], dir)
      PROVE  OwnInv'
  <2>1. \A v \in Session : Own(UserOf[v], code'[v])
    BY <1>2 DEF StoreInv, OwnInv
  <2> QED BY <1>2, <2>1 DEF OwnInv, Own
<1>3. CASE CdRoot(s)
  BY <1>2, <1>3, OwnNone DEF CdRoot
<1>4. CASE CdUp(s)
  <2> DEFINE rows == {r \in userFile : r.owner = UserOf[s] /\ r.id = code[s]}
  <2>1. PICK dir \in CodesFrom(rows, "precode") : code' = [code EXCEPT ![s] = dir]
    BY <1>4 DEF CdUp
  <2>2. UNCHANGED <<userFile, job>>
    BY <1>4 DEF CdUp
  <2>3. rows \subseteq userFile /\ \A r \in rows : r.owner = UserOf[s]
    OBVIOUS
  <2> HIDE DEF rows
  <2>4. Own(UserOf[s], dir)
    BY <2>1, <2>3, OwnFrom
  <2> QED BY <1>2, <2>1, <2>2, <2>4
<1>5. ASSUME NEW n \in Name, CdDir(s, n) PROVE OwnInv'
  <2> DEFINE rows == Named(UserOf[s], code[s], Strip(n))
  <2>1. PICK dir \in CodesFrom(rows, "id") : code' = [code EXCEPT ![s] = dir]
    BY <1>5 DEF CdDir
  <2>2. UNCHANGED <<userFile, job>>
    BY <1>5 DEF CdDir
  <2>3. rows \subseteq userFile /\ \A r \in rows : r.owner = UserOf[s]
    BY DEF Named, Entries
  <2> HIDE DEF rows
  <2>4. Own(UserOf[s], dir)
    BY <2>1, <2>3, OwnFrom
  <2> QED BY <1>2, <2>1, <2>2, <2>4
<1>6. ASSUME NEW n \in Name, Mkdir(s, n) PROVE OwnInv'
  <2>1. PICK r \in Row : /\ r.id = nextId /\ r.precode = code[s] /\ r.owner = UserOf[s]
                         /\ userFile' = userFile \cup {r}
    BY <1>6, DirectoryRow
  <2>2. UNCHANGED <<code, job>>
    BY <1>6 DEF Mkdir
  <2>3. \A u : \A c \in Int : c < nextId /\ Own(u, c) => Own(u, c)'
    BY <2>1, OwnGrows
  <2>4. \A v \in Session : code[v] \in Int /\ code[v] < nextId
    BY DEF StoreInv, RowsInOrder, Dir
  <2>5. \A q \in userFile : q.precode \in Int /\ q.precode < nextId
    BY RowNumbers
  <2>6. \A w \in Worker : job[w].dir \in Int /\ job[w].dir < nextId
    BY DEF StoreInv, RowsInOrder, Job, Idle, Dir
  <2>7. \A v \in Session : Own(UserOf[v], code[v])'
    BY <2>2, <2>3, <2>4 DEF OwnInv
  <2>8. \A q \in userFile' : Own(q.owner, q.precode)'
    BY <2>1, <2>3, <2>4, <2>5 DEF OwnInv
  <2>9. \A w \in Worker : job'[w].at = "insert" => Own(UserOf[job[w].s], job[w].dir)'
    BY <2>2, <2>3, <2>6 DEF OwnInv
  <2> QED BY <2>7, <2>8, <2>9 DEF OwnInv
<1>7. ASSUME NEW n \in Name, Rm(s, n) PROVE OwnInv'
  BY <1>7 DEF Rm, OwnInv, Own
<1> QED BY <1>1, <1>3, <1>4, <1>5, <1>6, <1>7

\* A job that is about to enter a row has the number of a directory its client was in.
LEMMA OwnJobs ==
    ASSUME StoreInv, OwnInv, NEW w \in Worker,
           Request(w) \/ WorkerStep(w) \/ RecvLost(w) \/ SqlFails(w)
    PROVE  \A v \in Worker : job'[v].at = "insert" => Own(UserOf[job'[v].s], job'[v].dir)
<1> DEFINE Fine(j) == job' = [job EXCEPT ![w] = j] /\ (j.at = "insert" => Own(UserOf[j.s], j.dir))
<1>1. SUFFICES \E j : Fine(j)
  BY DEF StoreInv, OwnInv
<1>2. CASE End(w)
  <2>1. Idle.at # "insert" /\ job' = [job EXCEPT ![w] = Idle]
    BY <1>2 DEF Idle, End
  <2> QED BY <2>1
<1>3. ASSUME NEW step, step # "insert", Goto(w, step), job[w].at # "idle" PROVE \E j : Fine(j)
  <2>1. [job[w] EXCEPT !.at = step].at # "insert"
    BY <1>3, AtWork
  <2>2. job' = [job EXCEPT ![w] = [job[w] EXCEPT !.at = step]]
    BY <1>3 DEF Goto
  <2> QED BY <2>1, <2>2
<1>4. ASSUME NEW step, step # "insert", NEW s, NEW n, NEW c, Start(w, step, s, n, c) PROVE \E j : Fine(j)
  <2> DEFINE j == [at |-> step, s |-> s, name |-> n, content |-> c, dir |-> -1]
  <2>1. job' = [job EXCEPT ![w] = j] /\ j.at # "insert"
    BY <1>4 DEF Start
  <2> QED BY <2>1
<1>5. CASE PrepareFile(w)
  <2> DEFINE j == [job[w] EXCEPT !.at = "insert", !.dir = code[job[w].s]]
  <2>1. /\ job[w].s \in Session /\ j.dir = code[job[w].s] /\ j.s = job[w].s
        /\ job' = [job EXCEPT ![w] = j]
    BY <1>5, AtWork DEF PrepareFile, At
  <2>2. Own(UserOf[j.s], j.dir)
    BY <2>1 DEF OwnInv
  <2> QED BY <2>1, <2>2
<1>6. ASSUME NEW c, job' = [job EXCEPT ![w].at = "send", ![w].content = c], job[w].at # "idle"
      PROVE  \E j : Fine(j)
  <2> DEFINE j == [job[w] EXCEPT !.at = "send", !.content = c]
  <2>1. j.at # "insert" /\ job' = [job EXCEPT ![w] = j]
    BY <1>6, AtWork
  <2> QED BY <2>1
<1> HIDE DEF Fine
<1>7. CASE Request(w)
  BY <1>4, <1>7 DEF Request, StartGets, StartPuts
<1>8. CASE FindFile(w)
  BY <1>2, <1>6, <1>8 DEF FindFile, At
<1>9. CASE CheckName(w) \/ SelectPool(w) \/ OpenPool(w) \/ Received(w) \/ InsertPool(w)
  <2>1. job[w].at # "idle" /\ (End(w) \/ \E step : step # "insert" /\ Goto(w, step))
    BY <1>9 DEF CheckName, SelectPool, OpenPool, Received, InsertPool, At
  <2> QED BY <1>2, <1>3, <2>1
<1>10. CASE InsertFile(w) \/ SendFile(w) \/ RecvLost(w) \/ SqlFails(w)
  BY <1>2, <1>10 DEF InsertFile, SendFile, RecvLost, SqlFails
<1> QED BY <1>5, <1>7, <1>8, <1>9, <1>10 DEF WorkerStep

\* The workers' jobs, and the row of one of them.
LEMMA OwnWorkers ==
    ASSUME StoreInv, StoreInv', RowsInOrder, OwnInv, NEW w \in Worker,
           Request(w) \/ WorkerStep(w) \/ RecvLost(w) \/ SqlFails(w)
    PROVE  OwnInv'
<1>1. code' = code /\ (InsertFile(w) \/ userFile' = userFile)
  BY WorkersOnlyAdd
<1>2. \A v \in Worker : job'[v].at = "insert" => Own(UserOf[job'[v].s], job'[v].dir)
  BY OwnJobs
<1>3. CASE userFile' = userFile
  BY <1>1, <1>2, <1>3 DEF OwnInv, Own
<1>4. CASE InsertFile(w)
  <2>1. PICK r \in Row : /\ r.id = nextId /\ r.precode = job[w].dir /\ r.owner = UserOf[job[w].s]
                         /\ userFile' = userFile \cup {r}
    BY <1>4, FileRow
  <2>2. \A u : \A c \in Int : c < nextId /\ Own(u, c) => Own(u, c)'
    BY <2>1, OwnGrows
  <2>3. \A v \in Session : code[v] \in Int /\ code[v] < nextId
    BY DEF StoreInv, RowsInOrder, Dir
  <2>4. \A q \in userFile : q.precode \in Int /\ q.precode < nextId
    BY RowNumbers
  <2>5. \A v \in Worker : job'[v].dir \in Int /\ job'[v].dir < nextId
    <3>1. \A v \in Worker : job'[v].dir \in Int
      BY DEF StoreInv, Job, Idle, Dir
    <3> QED BY <3>1, JobDirs
  <2>6. job[w].dir \in Int /\ job[w].dir < nextId /\ Own(UserOf[job[w].s], job[w].dir)
    <3>1. job[w].at = "insert" /\ job[w].dir < nextId /\ job[w].dir \in Int
      BY <1>4, AtWork DEF InsertFile, At, RowsInOrder, Dir
    <3> QED BY <3>1 DEF OwnInv
  <2>7. \A v \in Session : Own(UserOf[v], code[v])'
    BY <1>1, <2>2, <2>3 DEF OwnInv
  <2>8. \A q \in userFile' : Own(q.owner, q.precode)'
    BY <2>1, <2>2, <2>4, <2>6 DEF OwnInv
  <2>9. \A v \in Worker : job'[v].at = "insert" => Own(UserOf[job[v].s], job[v].dir)'
    BY <1>2, <2>2, <2>5
  <2> QED BY <2>7, <2>8, <2>9 DEF OwnInv
<1> QED BY <1>1, <1>3, <1>4

LEMMA OwnInit == Init => OwnInv
BY DEF Init, OwnInv, Own, Idle

LEMMA OwnStep == StoreInv /\ StoreInv' /\ RmInv /\ OwnInv /\ [Next]_vars => OwnInv'
<1>1. ASSUME OwnInv, UNCHANGED vars PROVE OwnInv'
  BY <1>1 DEF vars, OwnInv, Own
<1>2. ASSUME OwnInv, RmInv, RmStep PROVE OwnInv'
  <2>1. userFile' \subseteq userFile /\ UNCHANGED <<code, job>>
    BY <1>2 DEF RmStep, RmList, RmFetch, RmDelete, RmFails
  <2> QED BY <1>2, <2>1, OwnShrinks DEF OwnInv
<1> QED BY <1>1, <1>2, OwnCommand, OwnWorkers DEF Next, RmInv

\* A number a client, a row or a job keeps never comes to mean another's row, or a file.
THEOREM Owners == Spec => []OwnInv
BY Store, RmChain, OwnInit, OwnStep, PTL DEF Spec

-----------------------------------------------------------------------------
\* The tree as those users see it who are logged in once.  A second client of a user can leave
\* the first in a directory that is gone.

\* The number of a path's separators that were there when its client entered a directory.  A
\* name may have more of them, but cd .. cuts at one only.
Marks(p, k, f) ==
    /\ \A i \in 1..k : f[i] \in 1..Len(p) - 1 /\ p[f[i]] = Sep
    /\ \A i, j \in 1..k : i < j => f[i] + 1 < f[j]

\* The directories ds from the root to the current one.
Chain(ds, k, u, d) ==
    /\ \A i \in 1..k : /\ IsDir(ds[i], u) /\ i <= ds[i].id
                       /\ ds[i].precode = IF i = 1 THEN 0 ELSE ds[i - 1].id
    /\ ds[k].id = d

\* Plain names, one after the other.
Written(p, k, ds) ==
    /\ Len(p) = 2 * k
    /\ \A i \in 1..k : p[2 * i - 1] = Sep /\ p[2 * i] # Sep /\ ds[i].name = <<p[2 * i]>>

StandsAt(s) ==
    IF path[s] = Slash THEN code[s] = 0
    ELSE \E k \in Id : \E ds \in [1..k -> userFile], f \in [1..k -> Nat] :
            /\ Chain(ds, k, UserOf[s], code[s]) /\ Marks(path[s], k, f)
            /\ plain[s] = TRUE => Written(path[s], k, ds)

Standing == \A s \in Session : OnlyOnce(UserOf[s]) => StandsAt(s)

Text == Seq(Base \cup {Sep})

PathType == path \in [Session -> Text] /\ plain \in [Session -> BOOLEAN]

\* rm is at work in the directory its user is in.
AtHome == \A s \in Session : rmTodo # <<>> /\ UserOf[s] = rmUser /\ OnlyOnce(rmUser) =>
                                 rmTodo[1].row.precode = code[s]

\* Every directory beneath a row in hand has been fetched from it, or will be: it is on the
\* list, or it is the one in hand.
NoneMissed ==
    \A i \in 1..Len(rmTodo) : \A r \in userFile :
        rmTodo[i].listed /\ r.type = "d" /\ r.owner = rmUser /\ r.precode = rmTodo[i].row.id =>
            r \in rmTodo[i].left \/ (i < Len(rmTodo) /\ r = rmTodo[i + 1].row)

TreeInv == PathType /\ AtHome /\ NoneMissed /\ TreeRooted /\ Standing

LEMMA ChainLeads ==
    ASSUME NEW k \in Id, NEW ds \in [1..k -> userFile], NEW u, NEW d, Chain(ds, k, u, d)
    PROVE  LeadsTo(ds, u, d)
<1>1. k \in Nat \ {0}
  BY StoreAssumption DEF Id
<1>2. DOMAIN ds = 1..k /\ ds \in Seq(userFile) /\ Len(ds) = k
  BY <1>1
<1>3. ds # <<>>
  BY <1>1, <1>2
<1> QED BY <1>2, <1>3 DEF LeadsTo, Chain

LEMMA PathForm == OwnInv /\ RowsInOrder /\ Standing => PathMatchesCode
<1> SUFFICES ASSUME OwnInv, RowsInOrder, Standing, NEW s \in Session, OnlyOnce(UserOf[s])
             PROVE  /\ path[s] = Slash <=> code[s] = 0
                    /\ code[s] # 0 =>
                          \E k \in Id : \E ds \in [1..k -> userFile] :
                              LeadsTo(ds, UserOf[s], code[s]) /\ (plain[s] => Spells(path[s], ds))
  BY DEF PathMatchesCode, OwnInv, Own
<1>1. StandsAt(s)
  BY DEF Standing
<1>2. CASE path[s] = Slash
  BY <1>1, <1>2 DEF StandsAt
<1>3. CASE path[s] # Slash
  <2>1a. PICK k \in Id : \E ds \in [1..k -> userFile] :
            Chain(ds, k, UserOf[s], code[s]) /\ (plain[s] = TRUE => Written(path[s], k, ds))
    BY <1>1, <1>3 DEF StandsAt
  <2>1. PICK ds \in [1..k -> userFile] :
            Chain(ds, k, UserOf[s], code[s]) /\ (plain[s] = TRUE => Written(path[s], k, ds))
    BY <2>1a
  <2>2. k \in Nat \ {0}
    BY StoreAssumption DEF Id
  <2>3. code[s] # 0
    <3>1. k \in 1..k
      BY <2>2
    <3> QED BY <2>1, <3>1, RowNumbers DEF Chain
  <2>4. plain[s] => Spells(path[s], ds)
    <3>1. DOMAIN ds = 1..k /\ ds \in Seq(userFile) /\ Len(ds) = k
      BY <2>2
    <3>2. Written(path[s], k, ds) => Spells(path[s], ds)
      BY <3>1 DEF Written, Spells
    <3> QED BY <2>1, <3>2
  <2> QED BY <1>3, <2>1, <2>3, <2>4, ChainLeads
<1> QED BY <1>2, <1>3

\* From the root to the current directory the numbers rise.
LEMMA ChainRises ==
    ASSUME RowsInOrder, NEW k \in Id, NEW ds \in [1..k -> userFile], NEW u, NEW d, Chain(ds, k, u, d)
    PROVE  \A i \in 1..k : ds[i].id <= d
<1> DEFINE f == [i \in 1..k |-> ds[i].id]
<1>1. k \in Nat /\ k \in 1..k /\ \A i \in 1..k : ds[i] \in userFile
  BY StoreAssumption DEF Id
<1>2. \A i \in 1..k : f[i] \in Int
  BY <1>1, RowNumbers
<1>3. ASSUME NEW i \in 1..k - 1 PROVE f[i] < f[i + 1]
  <2>1. i \in 1..k /\ i + 1 \in 1..k /\ i + 1 # 1 /\ (i + 1) - 1 = i
    BY <1>1
  <2>2. ds[i + 1].precode = ds[i].id
    BY <2>1 DEF Chain
  <2> QED BY <1>1, <2>1, <2>2, RowNumbers
<1>4. \A i \in 1..k : f[i] = ds[i].id
  OBVIOUS
<1> HIDE DEF f
<1>5. \A i, j \in 1..k : i < j => f[i] < f[j]
  BY <1>1, <1>2, <1>3, Ascends
<1>6. ds[k].id = d
  BY DEF Chain
<1>7. ASSUME NEW i \in 1..k PROVE f[i] <= f[k]
  BY <1>1, <1>2, <1>5
<1> QED BY <1>1, <1>4, <1>6, <1>7

\* A client that has not moved still stands where it stood, if no directory that is as old
\* as its own has gone.
LEMMA StaysPut ==
    ASSUME RowsInOrder, NEW s \in Session, StandsAt(s),
           path'[s] = path[s], code'[s] = code[s], plain'[s] = plain[s],
           \A r \in userFile : r.type = "d" /\ r.owner = UserOf[s] /\ r.id <= code[s] => r \in userFile'
    PROVE  StandsAt(s)'
<1>1. CASE path[s] = Slash
  BY <1>1 DEF StandsAt, Slash
<1>2. CASE path[s] # Slash
  <2>1a. PICK k \in Id : \E ds \in [1..k -> userFile], f \in [1..k -> Nat] :
            /\ Chain(ds, k, UserOf[s], code[s]) /\ Marks(path[s], k, f)
            /\ plain[s] = TRUE => Written(path[s], k, ds)
    BY <1>2 DEF StandsAt
  <2>1. PICK ds \in [1..k -> userFile], f \in [1..k -> Nat] :
            /\ Chain(ds, k, UserOf[s], code[s]) /\ Marks(path[s], k, f)
            /\ plain[s] = TRUE => Written(path[s], k, ds)
    BY <2>1a
  <2>2. \A i \in 1..k : ds[i].id <= code[s]
    BY <2>1, ChainRises
  <2>3. \A i \in 1..k : ds[i].type = "d" /\ ds[i].owner = UserOf[s]
    BY <2>1 DEF Chain, IsDir
  <2>4. ds \in [1..k -> userFile']
    BY <2>2, <2>3
  <2> QED BY <1>2, <2>1, <2>4 DEF StandsAt, Slash
<1> QED BY <1>1, <1>2

\* Where a client stands there is a directory of its user's, or the root.
LEMMA HereIsADir ==
    ASSUME NEW s \in Session, StandsAt(s)
    PROVE  code[s] = 0 \/ \E d \in userFile : d.id = code[s] /\ IsDir(d, UserOf[s])
<1>1. CASE path[s] # Slash
  <2>1a. PICK k \in Id : \E ds \in [1..k -> userFile] : Chain(ds, k, UserOf[s], code[s])
    BY <1>1 DEF StandsAt
  <2>1. PICK ds \in [1..k -> userFile] : Chain(ds, k, UserOf[s], code[s])
    BY <2>1a
  <2>2. k \in 1..k
    BY StoreAssumption DEF Id
  <2> QED BY <2>1, <2>2 DEF Chain
<1> QED BY <1>1 DEF StandsAt

-----------------------------------------------------------------------------
\* Rows come, and nobody moves.
LEMMA GrowsWell ==
    ASSUME RowsInOrder, PathType, Standing, TreeRooted, userFile \subseteq userFile', UNCHANGED cdVars,
           \A r \in userFile' \ userFile : r.type = "d" /\ OnlyOnce(r.owner) => Rooted(r)'
    PROVE  PathType' /\ TreeRooted' /\ Standing'
<1>1. PathType'
  BY DEF PathType
<1>2. TreeRooted'
  BY DEF TreeRooted, Rooted
<1>3. Standing'
  BY StaysPut DEF Standing
<1> QED BY <1>1, <1>2, <1>3

\* An upload's row.
LEMMA WorkersTree ==
    ASSUME StoreInv, RmInv, TreeInv, NEW w \in Worker,
           Request(w) \/ WorkerStep(w) \/ RecvLost(w) \/ SqlFails(w)
    PROVE  TreeInv'
<1>1. UNCHANGED <<cdVars, rmVars>> /\ (InsertFile(w) \/ UNCHANGED <<userFile, nextId>>)
  BY WorkersOnlyAdd
<1>2. userFile \subseteq userFile' /\ \A r \in userFile' \ userFile : r.type # "d"
  BY <1>1, FileRow DEF RmInv
<1>3. AtHome' /\ NoneMissed'
  BY <1>1, <1>2 DEF TreeInv, AtHome, NoneMissed, rmVars
<1> QED BY <1>1, <1>2, <1>3, GrowsWell DEF TreeInv, RmInv

\* A mkdir's row hangs in the directory its client stands in.
LEMMA MkdirTree ==
    ASSUME StoreInv, RmInv, TreeInv, NEW s \in Session, NEW n \in Name, Mkdir(s, n)
    PROVE  TreeInv'
<1>1. PICK r \in Row : /\ r.precode = code[s] /\ r.owner = UserOf[s]
                       /\ userFile' = userFile \cup {r}
  BY DirectoryRow DEF RmInv
<1>2. rmTodo' = <<>> /\ UNCHANGED cdVars
  BY DEF Mkdir, MainFree, rmVars
<1>3. OnlyOnce(UserOf[s]) => StandsAt(s)
  BY DEF TreeInv, Standing
<1>4. OnlyOnce(r.owner) => Rooted(r)'
  BY <1>1, <1>3, HereIsADir DEF TreeInv, Rooted, IsDir
<1>5. AtHome' /\ NoneMissed'
  BY <1>2 DEF AtHome, NoneMissed
<1> QED BY <1>1, <1>2, <1>4, <1>5, GrowsWell DEF TreeInv, RmInv

-----------------------------------------------------------------------------
\* The three ways of cd.

\* A client moves, and the tables stay.
LEMMA MovesWell ==
    ASSUME RmInv, TreeInv, NEW s \in Session, NEW dir, NEW p \in Text, NEW b \in BOOLEAN,
           rmTodo = <<>>, UNCHANGED <<userFile, rmVars>>, code \in [Session -> Dir],
           code' = [code EXCEPT ![s] = dir], path' = [path EXCEPT ![s] = p],
           plain' = [plain EXCEPT ![s] = b], OnlyOnce(UserOf[s]) => StandsAt(s)'
    PROVE  TreeInv'
<1>1. PathType' /\ TreeRooted'
  BY DEF TreeInv, PathType, TreeRooted, Rooted
<1>2. AtHome' /\ NoneMissed'
  BY DEF AtHome, NoneMissed, rmVars
<1>3. ASSUME NEW t \in Session, t # s, OnlyOnce(UserOf[t]) PROVE StandsAt(t)'
  <2>1. path'[t] = path[t] /\ code'[t] = code[t] /\ plain'[t] = plain[t] /\ StandsAt(t)
    BY <1>3 DEF TreeInv, PathType, Standing
  <2> QED BY <2>1, StaysPut DEF RmInv
<1>4. Standing'
  BY <1>3 DEF Standing
<1> QED BY <1>1, <1>2, <1>4 DEF TreeInv

\* The one row with a directory's number.
LEMMA UpFrom ==
    ASSUME RowsInOrder, NEW r \in userFile, r.type = "d", NEW dir,
           dir \in CodesFrom({q \in userFile : q.owner = r.owner /\ q.id = r.id}, "precode")
    PROVE  dir = r.precode
<1> DEFINE rows == {q \in userFile : q.owner = r.owner /\ q.id = r.id}
<1>1. r \in rows /\ \A q \in rows : q = r
  BY RowNumbers
<1>2. rows # {} /\ dir \in {IF q.type = "d" THEN q["precode"] ELSE -1 : q \in rows}
  BY <1>1 DEF CodesFrom
<1> HIDE DEF rows
<1>3. PICK q \in rows : dir = IF q.type = "d" THEN q["precode"] ELSE -1
  BY <1>2
<1> QED BY <1>1, <1>3

LEMMA CdRootTree ==
    ASSUME StoreInv, RmInv, TreeInv, NEW s \in Session, CdRoot(s)
    PROVE  TreeInv'
<1>1. /\ rmTodo = <<>> /\ UNCHANGED <<userFile, rmVars>>
      /\ code' = [code EXCEPT ![s] = 0] /\ path' = [path EXCEPT ![s] = Slash]
      /\ plain' = [plain EXCEPT ![s] = TRUE]
  BY DEF CdRoot, MainFree
<1>2. code \in [Session -> Dir] /\ Slash \in Text
  BY DEF StoreInv, Slash, Text
<1>3. path'[s] = Slash /\ code'[s] = 0
  BY <1>1, <1>2 DEF TreeInv, PathType
<1>4. StandsAt(s)'
  BY <1>3 DEF StandsAt, Slash
<1> QED BY <1>1, <1>2, <1>4, MovesWell

\* A path and its last separator.
LEMMA CutIs ==
    ASSUME NEW p \in Text, Separators(p) # {}
    PROVE  \E i \in 1..Len(p) : /\ p[i] = Sep /\ \A j \in 1..Len(p) : p[j] = Sep => j <= i
                                /\ Cut(p) \in Text /\ Len(Cut(p)) = i - 1
                                /\ \A j \in 1..i - 1 : Cut(p)[j] = p[j]
<1> DEFINE n == Len(p)
           T == {n - i : i \in Separators(p)}
<1>1. n \in Nat /\ Separators(p) \subseteq 1..n
  BY DEF Separators, Text
<1>2. \A i \in Separators(p) : n - i \in Nat
  BY <1>1
<1>3. T \subseteq Nat /\ T # {}
  BY <1>2
<1>4. PICK x \in T : \A y \in T : x <= y
  BY <1>3, Smallest
<1>5. PICK i \in Separators(p) : x = n - i
  OBVIOUS
<1>6. ASSUME NEW j \in Separators(p) PROVE j <= i
  <2>1. n - j \in T
    OBVIOUS
  <2> HIDE DEF T
  <2>2. x <= n - j
    BY <1>4, <2>1
  <2> HIDE DEF n
  <2>3. i \in Int /\ j \in Int /\ n \in Int
    BY <1>1
  <2> QED BY <1>5, <2>2, <2>3
<1>7. PICK m : m = CHOOSE i_1 \in Separators(p) : \A j \in Separators(p) : j <= i_1
  OBVIOUS
<1>8. m \in Separators(p) /\ (\A j \in Separators(p) : j <= m) /\ Cut(p) = SubSeq(p, 1, m - 1)
  BY <1>5, <1>6, <1>7 DEF Cut
<1>9. m \in 1..n /\ p[m] = Sep /\ \A j \in 1..n : p[j] = Sep => j <= m
  BY <1>8 DEF Separators, Text
<1>10. /\ Cut(p) \in Text /\ Len(Cut(p)) = m - 1
       /\ \A j \in 1..m - 1 : Cut(p)[j] = p[j]
  <2> DEFINE k == m - 1
  <2>1. k \in Int /\ 1 \in Int /\ \A j \in 1..k : p[j] \in Base \cup {Sep}
    BY <1>1, <1>9 DEF Text
  <2>2. k >= 0 /\ (k - 1) + 1 = k /\ \A j \in 1..k : (1 + j) - 1 = j
    BY <1>1, <1>9
  <2> HIDE DEF k
  <2>3. /\ SubSeq(p, 1, k) \in Seq(Base \cup {Sep})
        /\ Len(SubSeq(p, 1, k)) = IF 1 <= k THEN (k - 1) + 1 ELSE 0
        /\ \A j \in 1..(k - 1) + 1 : SubSeq(p, 1, k)[j] = p[(1 + j) - 1]
    BY <2>1, SubSeqProperties
  <2>4. SubSeq(p, 1, k) \in Text /\ Len(SubSeq(p, 1, k)) = k
    BY <2>1, <2>2, <2>3 DEF Text
  <2>5. \A j \in 1..k : SubSeq(p, 1, k)[j] = p[j]
    BY <2>1, <2>2, <2>3
  <2> QED BY <1>8, <2>4, <2>5 DEF k
<1> QED BY <1>9, <1>10

\* A client that goes up from a directory beneath another: the path is cut behind a separator
\* that was there when it entered the directory it leaves, and it entered others before.
LEMMA UpStands ==
    ASSUME RowsInOrder, NEW k \in Id, k # 1, NEW ds \in [1..k -> userFile], NEW f \in [1..k -> Nat],
           NEW u, NEW d, Chain(ds, k, u, d), NEW p \in Text, Marks(p, k, f)
    PROVE  /\ Separators(p) # {} /\ ds[k].precode # 0
           /\ \E l \in Id : \E es \in [1..l -> userFile], g \in [1..l -> Nat] :
                 /\ Chain(es, l, u, ds[k].precode) /\ Marks(Cut(p), l, g)
                 /\ Written(p, k, ds) => Written(Cut(p), l, es)
           /\ Cut(p) \in Text /\ Cut(p) # Slash
<1>1. /\ k \in Nat /\ k - 1 \in Id /\ k \in 1..k /\ k - 1 \in 1..k /\ k - 1 \in 1..k - 1 /\ k - 1 < k
      /\ 1 \in 1..k - 1
      /\ \A i \in 1..k - 1 : i \in 1..k /\ (i # 1 => i - 1 \in 1..k - 1) /\ i \in Nat /\ (i = k - 1 \/ i < k - 1)
  BY StoreAssumption DEF Id
<1>2. Len(p) \in Nat /\ \A i \in 1..k : f[i] \in 1..Len(p) - 1 /\ f[i] \in 1..Len(p) /\ p[f[i]] = Sep
  BY DEF Marks, Text
<1>3. Separators(p) # {}
  <2>1. f[k] \in DOMAIN p
    BY <1>1, <1>2 DEF Text
  <2> QED BY <1>1, <1>2, <2>1 DEF Separators
<1>4. ds[k].precode = ds[k - 1].id /\ ds[k - 1].id # 0
  BY <1>1, RowNumbers DEF Chain
<1>5. PICK i \in 1..Len(p) : /\ p[i] = Sep /\ \A j \in 1..Len(p) : p[j] = Sep => j <= i
                             /\ Cut(p) \in Text /\ Len(Cut(p)) = i - 1
                             /\ \A j \in 1..i - 1 : Cut(p)[j] = p[j]
  BY <1>3, CutIs
<1>6. PICK q, es, g : q = Cut(p) /\ es = [j \in 1..k - 1 |-> ds[j]] /\ g = [j \in 1..k - 1 |-> f[j]]
  OBVIOUS
<1>7. es \in [1..k - 1 -> userFile] /\ g \in [1..k - 1 -> Nat]
      /\ \A j \in 1..k - 1 : es[j] = ds[j] /\ g[j] = f[j]
  BY <1>1, <1>6
<1>8. Chain(es, k - 1, u, ds[k].precode)
  BY <1>1, <1>4, <1>7 DEF Chain
<1>9. Marks(q, k - 1, g)
  <2>1. f[k] <= i
    BY <1>1, <1>2, <1>5
  <2>2. ASSUME NEW j \in 1..k - 1 PROVE f[j] \in 1..i - 2
    <3>1. j \in 1..k /\ j < k
      BY <1>1
    <3>2. f[j] + 1 < f[k] /\ f[j] \in 1..Len(p) /\ f[k] \in 1..Len(p)
      BY <1>1, <1>2, <3>1 DEF Marks
    <3> QED BY <2>1, <3>2
  <2>3. ASSUME NEW j \in 1..k - 1 PROVE g[j] \in 1..Len(q) - 1 /\ q[g[j]] = Sep
    <3>1. f[j] \in 1..Len(q) - 1 /\ f[j] \in 1..i - 1
      BY <1>2, <1>5, <1>6, <2>2
    <3>2. j \in 1..k
      BY <1>1
    <3> QED BY <1>2, <1>5, <1>6, <1>7, <3>1, <3>2
  <2>4. \A a, b \in 1..k - 1 : a < b => g[a] + 1 < g[b]
    BY <1>1, <1>7 DEF Marks
  <2> QED BY <2>3, <2>4 DEF Marks
<1>10. ASSUME Written(p, k, ds) PROVE Written(q, k - 1, es)
  <2>1. Len(p) = 2 * k /\ p[2 * k - 1] = Sep /\ p[2 * k] # Sep
    BY <1>1, <1>10 DEF Written
  <2>2. i # 2 * k /\ 2 * k - 1 <= i
    <3>1. 2 * k - 1 \in 1..Len(p)
      BY <1>1, <2>1
    <3> QED BY <1>5, <2>1, <3>1
  <2>3. i = 2 * k - 1
    BY <1>1, <1>5, <2>1, <2>2
  <2>4. Len(q) = 2 * (k - 1)
    BY <1>1, <1>5, <1>6, <2>3
  <2>5. \A j \in 1..k - 1 : 2 * j - 1 \in 1..i - 1 /\ 2 * j \in 1..i - 1
    BY <1>1, <2>3
  <2>6. \A j \in 1..k - 1 : q[2 * j - 1] = p[2 * j - 1] /\ q[2 * j] = p[2 * j]
    BY <1>5, <1>6, <2>5
  <2> QED BY <1>1, <1>7, <1>10, <2>4, <2>6 DEF Written
<1>11. q # Slash
  <2>1. g[1] \in 1..Len(q) - 1
    BY <1>1, <1>9 DEF Marks
  <2>2. Len(q) # 1
    <3>1. PICK l \in Nat : l = Len(q)
      BY <1>5, <1>6 DEF Text
    <3>2. g[1] \in 1..l - 1
      BY <2>1, <3>1
    <3>3. l # 1
      BY <3>2
    <3> QED BY <3>1, <3>3
  <2> QED BY <2>2 DEF Slash
<1> QED BY <1>1, <1>3, <1>4, <1>5, <1>6, <1>7, <1>8, <1>9, <1>10, <1>11

LEMMA CdUpTree ==
    ASSUME StoreInv, RmInv, TreeInv, NEW s \in Session, CdUp(s)
    PROVE  TreeInv'
<1> DEFINE u == UserOf[s]
<1>1. PICK dir \in CodesFrom({r \in userFile : r.owner = u /\ r.id = code[s]}, "precode") :
         /\ code' = [code EXCEPT ![s] = dir]
         /\ path' = [path EXCEPT ![s] = IF dir = 0 THEN Slash
                                        ELSE IF Separators(@) = {} THEN @ ELSE Cut(@)]
         /\ plain' = [plain EXCEPT ![s] = @ \/ dir = 0]
  BY DEF CdUp
<1>2. rmTodo = <<>> /\ UNCHANGED <<userFile, rmVars>> /\ (path[s] # Slash \/ code[s] # 0)
  BY DEF CdUp, MainFree
<1>3. path[s] \in Text /\ plain[s] \in BOOLEAN /\ code \in [Session -> Dir] /\ Slash \in Text
  BY DEF TreeInv, PathType, StoreInv, Text, Slash
<1>4. PICK p, b : /\ p = (IF dir = 0 THEN Slash ELSE IF Separators(path[s]) = {} THEN path[s] ELSE Cut(path[s]))
                  /\ b = (plain[s] \/ dir = 0)
  OBVIOUS
<1>5. p \in Text /\ b \in BOOLEAN
  BY <1>3, <1>4, CutIs
<1>6. path' = [path EXCEPT ![s] = p] /\ plain' = [plain EXCEPT ![s] = b]
  BY <1>1, <1>4
<1>7. path'[s] = p /\ code'[s] = dir /\ plain'[s] = b
  BY <1>1, <1>3, <1>6 DEF TreeInv, PathType
<1>8. ASSUME OnlyOnce(u) PROVE StandsAt(s)'
  <2>1. StandsAt(s)
    BY <1>8 DEF TreeInv, Standing
  <2>2. path[s] # Slash
    BY <1>2, <2>1 DEF StandsAt
  <2>3a. PICK k \in Id : \E ds \in [1..k -> userFile], f \in [1..k -> Nat] :
            /\ Chain(ds, k, u, code[s]) /\ Marks(path[s], k, f)
            /\ plain[s] = TRUE => Written(path[s], k, ds)
    BY <2>1, <2>2 DEF StandsAt
  <2>3. PICK ds \in [1..k -> userFile], f \in [1..k -> Nat] :
            /\ Chain(ds, k, u, code[s]) /\ Marks(path[s], k, f)
            /\ plain[s] = TRUE => Written(path[s], k, ds)
    BY <2>3a
  <2>4. /\ k \in 1..k /\ ds[k] \in userFile /\ IsDir(ds[k], u) /\ ds[k].id = code[s]
        /\ k = 1 => ds[k].precode = 0
    <3>1. k \in 1..k
      BY StoreAssumption DEF Id
    <3> QED BY <2>3, <3>1 DEF Chain
  <2>5. dir = ds[k].precode
    BY <1>1, <2>4, UpFrom DEF RmInv, IsDir
  <2>6. CASE k = 1
    BY <1>4, <1>7, <2>4, <2>5, <2>6 DEF StandsAt, Slash
  <2>7. CASE k # 1
    <3>1. /\ Separators(path[s]) # {} /\ dir # 0 /\ Cut(path[s]) # Slash
          /\ \E l \in Id : \E es \in [1..l -> userFile], g \in [1..l -> Nat] :
                 /\ Chain(es, l, u, dir) /\ Marks(Cut(path[s]), l, g)
                 /\ Written(path[s], k, ds) => Written(Cut(path[s]), l, es)
      BY <1>3, <2>3, <2>5, <2>7, UpStands DEF RmInv
    <3>2. p = Cut(path[s]) /\ p # Slash /\ b = plain[s]
      BY <1>3, <1>4, <3>1
    <3>3a. PICK l \in Id : \E es \in [1..l -> userFile], g \in [1..l -> Nat] :
             /\ Chain(es, l, u, dir) /\ Marks(p, l, g)
             /\ b = TRUE => Written(p, l, es)
      BY <2>3, <3>1, <3>2
    <3>3. PICK es \in [1..l -> userFile], g \in [1..l -> Nat] :
             /\ Chain(es, l, u, dir) /\ Marks(p, l, g)
             /\ b = TRUE => Written(p, l, es)
      BY <3>3a
    <3>4. es \in [1..l -> userFile']
      BY <1>2, <3>3
    <3> QED BY <1>7, <3>2, <3>3, <3>4 DEF StandsAt, Slash
  <2> QED BY <2>6, <2>7
<1> QED BY <1>1, <1>2, <1>3, <1>5, <1>6, <1>8, MovesWell

\* A client that enters a directory of the one it is in: the number of directories grows by
\* one, and the separator before the new name joins those cd .. will cut at.
LEMMA EntersWell ==
    ASSUME RowsInOrder, NEW k \in Nat, NEW ds \in [1..k -> userFile], NEW f \in [1..k -> Nat],
           NEW u, NEW r \in userFile, IsDir(r, u), k = 0 => r.precode = 0,
           k # 0 => Chain(ds, k, u, r.precode),
           NEW l \in Nat, NEW p \in Text, l + 1 < Len(p), p[l + 1] = Sep,
           \A i \in 1..k : f[i] \in 1..l - 1 /\ p[f[i]] = Sep,
           \A i, j \in 1..k : i < j => f[i] + 1 < f[j],
           NEW c, c = TRUE => /\ l = 2 * k /\ Len(p) = l + 2 /\ p[l + 2] # Sep /\ r.name = <<p[l + 2]>>
                              /\ \A i \in 1..k : /\ p[2 * i - 1] = Sep /\ p[2 * i] # Sep
                                                 /\ ds[i].name = <<p[2 * i]>>
    PROVE  /\ k + 1 \in Id
           /\ \E es \in [1..k + 1 -> userFile], g \in [1..k + 1 -> Nat] :
                 /\ Chain(es, k + 1, u, r.id) /\ Marks(p, k + 1, g)
                 /\ c = TRUE => Written(p, k + 1, es)
<1>1. /\ k + 1 \in 1..k + 1 /\ (k # 0 => k \in 1..k) /\ k + 1 # 0
      /\ \A i \in 1..k + 1 : i = k + 1 \/ (i \in 1..k /\ i # k + 1 /\ (i # 1 => i - 1 \in 1..k))
      /\ \A i \in 1..k : i \in 1..k + 1 /\ i # k + 1 /\ i \in Nat
  OBVIOUS
<1>2. Len(p) \in Nat
  BY DEF Text
<1>3. k + 1 <= r.id /\ k + 1 \in Id
  <2>1. r.id \in Nat \ {0} /\ r.precode \in Int /\ r.precode < r.id /\ r.id <= MaxId
    BY RowNumbers, StoreAssumption DEF RowsInOrder, Row, Id
  <2>2. k # 0 => k <= r.precode
    BY <1>1 DEF Chain
  <2> QED BY <2>1, <2>2, StoreAssumption DEF Id
<1>4. PICK es, g : /\ es = [i \in 1..k + 1 |-> IF i = k + 1 THEN r ELSE ds[i]]
                   /\ g = [i \in 1..k + 1 |-> IF i = k + 1 THEN l + 1 ELSE f[i]]
  OBVIOUS
<1>5. /\ es[k + 1] = r /\ g[k + 1] = l + 1 /\ \A i \in 1..k : es[i] = ds[i] /\ g[i] = f[i]
      /\ es \in [1..k + 1 -> userFile] /\ g \in [1..k + 1 -> Nat]
  <2>1. es[k + 1] = r /\ g[k + 1] = l + 1 /\ \A i \in 1..k : es[i] = ds[i] /\ g[i] = f[i]
    BY <1>1, <1>4
  <2>2. ASSUME NEW i \in 1..k + 1 PROVE es[i] \in userFile /\ g[i] \in Nat
    <3>1. CASE i = k + 1
      BY <2>1, <3>1
    <3>2. CASE i \in 1..k
      BY <2>1, <3>2
    <3> QED BY <1>1, <3>1, <3>2
  <2> QED BY <1>4, <2>1, <2>2
<1>6. Chain(es, k + 1, u, r.id)
  <2>1. ASSUME NEW i \in 1..k
        PROVE  IsDir(es[i], u) /\ i <= es[i].id /\ es[i].precode = IF i = 1 THEN 0 ELSE es[i - 1].id
    <3>1. Chain(ds, k, u, r.precode) /\ (i # 1 => i - 1 \in 1..k)
      BY <1>1
    <3> QED BY <1>5, <3>1 DEF Chain
  <2>2. IsDir(r, u) /\ k + 1 <= r.id /\ r.precode = IF k + 1 = 1 THEN 0 ELSE es[k].id
    <3>1. CASE k = 0
      BY <1>3, <3>1
    <3>2. CASE k # 0
      <4>1. es[k] = ds[k] /\ k + 1 # 1
        BY <1>1, <1>5, <3>2
      <4>2. ds[k].id = r.precode
        BY <3>2 DEF Chain
      <4> QED BY <1>3, <4>1, <4>2
    <3> QED BY <3>1, <3>2
  <2>3. (k + 1) - 1 = k
    OBVIOUS
  <2>4. ASSUME NEW i \in 1..k + 1
        PROVE  IsDir(es[i], u) /\ i <= es[i].id /\ es[i].precode = IF i = 1 THEN 0 ELSE es[i - 1].id
    BY <1>1, <1>5, <2>1, <2>2, <2>3
  <2> QED BY <1>5, <2>4 DEF Chain
<1>7. Marks(p, k + 1, g)
  <2>1. \A i \in 1..k + 1 : g[i] \in 1..Len(p) - 1 /\ p[g[i]] = Sep
    <3>1. l + 1 \in 1..Len(p) - 1
      BY <1>2
    <3>2. ASSUME NEW i \in 1..k PROVE f[i] \in 1..Len(p) - 1
      <4>1. PICK n \in Nat : n = Len(p)
        BY <1>2
      <4>2. f[i] \in 1..l - 1 /\ l + 1 < n
        BY <4>1
      <4>3. f[i] \in 1..n - 1
        BY <4>2
      <4> QED BY <4>1, <4>3
    <3> QED BY <1>1, <1>5, <3>1, <3>2
  <2>2. ASSUME NEW i \in 1..k + 1, NEW j \in 1..k + 1, i < j PROVE g[i] + 1 < g[j]
    <3>1. i \in 1..k
      BY <2>2
    <3>2. CASE j = k + 1
      <4>1. f[i] \in 1..l - 1
        BY <3>1
      <4> QED BY <1>5, <3>1, <3>2, <4>1
    <3>3. CASE j \in 1..k
      BY <1>5, <2>2, <3>1, <3>3
    <3> QED BY <1>1, <3>2, <3>3
  <2> QED BY <2>1, <2>2 DEF Marks
<1>8. ASSUME c = TRUE PROVE Written(p, k + 1, es)
  <2>1. 2 * (k + 1) = l + 2 /\ 2 * (k + 1) - 1 = l + 1
    BY <1>8
  <2>2. Len(p) = 2 * (k + 1)
    BY <1>8, <2>1
  <2>3. ASSUME NEW i \in 1..k + 1
        PROVE  p[2 * i - 1] = Sep /\ p[2 * i] # Sep /\ es[i].name = <<p[2 * i]>>
    <3>1. CASE i = k + 1
      BY <1>5, <1>8, <2>1, <3>1
    <3>2. CASE i \in 1..k
      BY <1>5, <1>8, <3>2
    <3> QED BY <1>1, <3>1, <3>2
  <2> QED BY <2>2, <2>3 DEF Written
<1> QED BY <1>3, <1>5, <1>6, <1>7, <1>8

LEMMA CdDirTree ==
    ASSUME StoreInv, RmInv, TreeInv, NEW s \in Session, NEW n \in Name, CdDir(s, n)
    PROVE  TreeInv'
<1>1. PICK u, q, m, c, d : /\ u = UserOf[s] /\ q = path[s] /\ m = Strip(n)
                           /\ c = (plain[s] /\ Plain(m)) /\ d = code[s]
  OBVIOUS
<1>2. PICK dir \in CodesFrom(Named(u, d, m), "id") :
         /\ dir # -1 /\ code' = [code EXCEPT ![s] = dir]
         /\ path' = [path EXCEPT ![s] = (IF @ = Slash THEN @ ELSE @ \o Slash) \o m]
         /\ plain' = [plain EXCEPT ![s] = @ /\ Plain(m)]
  BY <1>1 DEF CdDir
<1>3. rmTodo = <<>> /\ UNCHANGED <<userFile, rmVars>>
  BY DEF CdDir, MainFree
<1>4. q \in Text /\ plain[s] \in BOOLEAN /\ code \in [Session -> Dir]
  BY <1>1 DEF TreeInv, PathType, StoreInv
<1>5. PICK r \in Named(u, d, m) : dir = (IF r.type = "d" THEN r["id"] ELSE -1)
  BY <1>2 DEF CodesFrom
<1>6. r \in userFile /\ IsDir(r, u) /\ r.id = dir /\ r.name = m /\ r.precode = d
  BY <1>2, <1>5 DEF Named, Entries, IsDir
<1>7. m \in Text /\ Len(m) \in Nat \ {0} /\ (Plain(m) => Len(m) = 1 /\ m = <<m[1]>> /\ m[1] # Sep)
  <2>1. m \in Name
    BY <1>6, RowNumbers DEF RmInv
  <2>2. m \in Text /\ m # <<>> /\ (Plain(m) => Len(m) = 1)
    BY <2>1, StoreAssumption DEF Text
  <2>3. Len(m) = 1 => m = <<m[1]>> /\ 1 \in DOMAIN m
    BY <2>2 DEF Text
  <2>4. Len(m) \in Nat \ {0}
    BY <2>2 DEF Text
  <2> QED BY <2>2, <2>3, <2>4 DEF Plain
<1>8. PICK b : b = IF q = Slash THEN q ELSE q \o Slash
  OBVIOUS
<1>9. PICK l \in Nat : /\ b \in Text /\ Len(b) = l + 1 /\ b[l + 1] = Sep
                       /\ (q = Slash => l = 0)
                       /\ (q # Slash => l = Len(q) /\ \A i \in 1..l : b[i] = q[i])
  <2>1. CASE q = Slash
    <3>1. b \in Text /\ Len(b) = 0 + 1 /\ b[0 + 1] = Sep
      BY <1>8, <2>1 DEF Slash, Text
    <3> QED BY <2>1, <3>1
  <2>2. CASE q # Slash
    <3>1. b = q \o <<Sep>> /\ Len(q) \in Nat
      BY <1>4, <1>8, <2>2 DEF Slash, Text
    <3>2. b \in Text /\ Len(b) = Len(q) + 1 /\ b[Len(q) + 1] = Sep /\ \A i \in 1..Len(q) : b[i] = q[i]
      BY <1>4, <3>1 DEF Text
    <3> QED BY <2>2, <3>1, <3>2
  <2> QED BY <2>1, <2>2
<1>10. PICK p : p = b \o m
  OBVIOUS
<1>11. /\ p \in Text /\ Len(p) = (l + 1) + Len(m)
       /\ \A i \in 1..l + 1 : p[i] = b[i]
       /\ p[(l + 1) + 1] = m[1]
  <2>1. /\ p \in Text /\ Len(p) = Len(b) + Len(m)
        /\ \A i \in 1..Len(b) + Len(m) : p[i] = IF i <= Len(b) THEN b[i] ELSE m[i - Len(b)]
    <3>1. b \in Seq(Base \cup {Sep}) /\ m \in Seq(Base \cup {Sep})
      BY <1>7, <1>9 DEF Text
    <3>2. /\ b \o m \in Seq(Base \cup {Sep}) /\ Len(b \o m) = Len(b) + Len(m)
          /\ \A i \in 1..Len(b) + Len(m) : (b \o m)[i] = IF i <= Len(b) THEN b[i] ELSE m[i - Len(b)]
      BY ONLY <3>1, ConcatProperties
    <3> QED BY ONLY <1>10, <3>2 DEF Text
  <2>2. Len(b) = l + 1
    BY <1>9
  <2>3. (l + 1) + 1 \in 1..(l + 1) + Len(m) /\ ~((l + 1) + 1 <= l + 1) /\ ((l + 1) + 1) - (l + 1) = 1
        /\ \A i \in 1..l + 1 : i \in 1..(l + 1) + Len(m) /\ i <= l + 1
    BY <1>7
  <2>4. Len(p) = (l + 1) + Len(m)
    BY <2>1, <2>2
  <2>5. \A i \in 1..(l + 1) + Len(m) : p[i] = IF i <= l + 1 THEN b[i] ELSE m[i - (l + 1)]
    BY <2>1, <2>2
  <2>6. \A i \in 1..l + 1 : p[i] = b[i]
    BY <2>3, <2>5
  <2>7. p[(l + 1) + 1] = m[1]
    BY <2>3, <2>5
  <2> QED BY <2>1, <2>4, <2>6, <2>7
<1>12. l + 1 < Len(p) /\ p # Slash /\ p[l + 1] = Sep /\ (l + 1) + 1 = l + 2
  <2>1. l + 1 < Len(p) /\ l + 1 \in 1..l + 1 /\ Len(p) # 1
    BY <1>7, <1>11
  <2> QED BY <1>9, <1>11, <2>1 DEF Slash
<1>13. c \in BOOLEAN /\ path' = [path EXCEPT ![s] = p] /\ plain' = [plain EXCEPT ![s] = c]
  BY <1>1, <1>2, <1>4, <1>8, <1>10 DEF Plain
<1>14. path'[s] = p /\ plain'[s] = c /\ code'[s] = dir
  BY <1>2, <1>4, <1>13 DEF TreeInv, PathType
<1>15. ASSUME NEW k \in Nat, NEW ds \in [1..k -> userFile], NEW f \in [1..k -> Nat],
              k = 0 => d = 0 /\ l = 0, k # 0 => Chain(ds, k, u, d) /\ Marks(q, k, f) /\ q # Slash,
              k # 0 /\ plain[s] = TRUE => Written(q, k, ds)
       PROVE  StandsAt(s)'
  <2>1. \A i \in 1..k : k # 0 /\ q # Slash /\ i \in Nat
    BY <1>15
  <2>2. (k = 0 => r.precode = 0) /\ (k # 0 => Chain(ds, k, u, r.precode))
    BY <1>6, <1>15
  <2>3. \A i \in 1..k : f[i] \in 1..l - 1 /\ p[f[i]] = Sep
    <3> SUFFICES ASSUME NEW i \in 1..k PROVE f[i] \in 1..l - 1 /\ p[f[i]] = Sep
      OBVIOUS
    <3>1. f[i] \in 1..l - 1 /\ q[f[i]] = Sep
      BY <1>9, <1>15, <2>1 DEF Marks
    <3>2. f[i] \in 1..l /\ f[i] \in 1..l + 1
      BY <3>1
    <3> QED BY <1>9, <1>11, <2>1, <3>1, <3>2
  <2>4. \A i, j \in 1..k : i < j => f[i] + 1 < f[j]
    BY <1>15, <2>1 DEF Marks
  <2>5. ASSUME c = TRUE
        PROVE  /\ l = 2 * k /\ Len(p) = l + 2 /\ p[l + 2] # Sep /\ r.name = <<p[l + 2]>>
               /\ \A i \in 1..k : /\ p[2 * i - 1] = Sep /\ p[2 * i] # Sep
                                  /\ ds[i].name = <<p[2 * i]>>
    <3>1. plain[s] = TRUE /\ Plain(m)
      BY <1>1, <1>4, <2>5
    <3>2. l = 2 * k
      BY <1>9, <1>15, <3>1 DEF Written
    <3>3. Len(p) = l + 2 /\ p[l + 2] # Sep /\ r.name = <<p[l + 2]>>
      BY <1>6, <1>7, <1>11, <1>12, <3>1
    <3>4. ASSUME NEW i \in 1..k
          PROVE  p[2 * i - 1] = Sep /\ p[2 * i] # Sep /\ ds[i].name = <<p[2 * i]>>
      <4>1. /\ 2 * i - 1 \in 1..l /\ 2 * i \in 1..l
            /\ 2 * i - 1 \in 1..l + 1 /\ 2 * i \in 1..l + 1
        BY <3>2
      <4>2. p[2 * i - 1] = q[2 * i - 1] /\ p[2 * i] = q[2 * i]
        BY <1>9, <1>11, <2>1, <4>1
      <4>3. q[2 * i - 1] = Sep /\ q[2 * i] # Sep /\ ds[i].name = <<q[2 * i]>>
        BY <1>15, <2>1, <3>1 DEF Written
      <4> QED BY <4>2, <4>3
    <3> QED BY <3>2, <3>3, <3>4
  <2>6. /\ k + 1 \in Id
        /\ \E es \in [1..k + 1 -> userFile], g \in [1..k + 1 -> Nat] :
              /\ Chain(es, k + 1, u, r.id) /\ Marks(p, k + 1, g)
              /\ c = TRUE => Written(p, k + 1, es)
    <3>1. RowsInOrder /\ r \in userFile /\ IsDir(r, u)
      BY <1>6 DEF RmInv
    <3>2. p \in Text /\ l + 1 < Len(p) /\ p[l + 1] = Sep
      BY <1>11, <1>12
    <3> QED BY ONLY <2>2, <2>3, <2>4, <2>5, <3>1, <3>2, EntersWell, k \in Nat, l \in Nat,
               ds \in [1..k -> userFile], f \in [1..k -> Nat], Zenon
  <2>7. PICK es \in [1..k + 1 -> userFile], g \in [1..k + 1 -> Nat] :
              /\ Chain(es, k + 1, u, dir) /\ Marks(p, k + 1, g)
              /\ c = TRUE => Written(p, k + 1, es)
    BY <1>6, <2>6
  <2>8. es \in [1..k + 1 -> userFile']
    BY <1>3
  <2> QED BY <1>1, <1>12, <1>14, <2>6, <2>7, <2>8 DEF StandsAt, Slash
<1>16. ASSUME OnlyOnce(u) PROVE StandsAt(s)'
  <2>1. StandsAt(s)
    BY <1>1, <1>16 DEF TreeInv, Standing
  <2>2. CASE q = Slash
    <3>1. d = 0 /\ l = 0
      BY <1>1, <1>9, <2>1, <2>2 DEF StandsAt
    <3>2. [i \in 1..0 |-> r] \in [1..0 -> userFile] /\ [i \in 1..0 |-> 0] \in [1..0 -> Nat]
      OBVIOUS
    <3> QED BY <1>15, <3>1, <3>2
  <2>3. CASE q # Slash
    <3>1a. PICK k \in Id : \E ds \in [1..k -> userFile], f \in [1..k -> Nat] :
              /\ Chain(ds, k, u, d) /\ Marks(q, k, f)
              /\ plain[s] = TRUE => Written(q, k, ds)
      BY <1>1, <2>1, <2>3 DEF StandsAt
    <3>1. PICK ds \in [1..k -> userFile], f \in [1..k -> Nat] :
              /\ Chain(ds, k, u, d) /\ Marks(q, k, f)
              /\ plain[s] = TRUE => Written(q, k, ds)
      BY <3>1a
    <3>2. k \in Nat /\ k # 0
      BY StoreAssumption DEF Id
    <3> QED BY <1>15, <2>3, <3>1, <3>2
  <2> QED BY <2>2, <2>3
<1> QED BY <1>1, <1>2, <1>3, <1>4, <1>11, <1>13, <1>16, MovesWell

-----------------------------------------------------------------------------
\* rm in the tree.

\* Nothing hangs in a file.
LEMMA FilesAreLeaves ==
    ASSUME OwnInv, NEW r \in userFile, r.type # "d", NEW q \in userFile
    PROVE  q.precode # r.id
BY DEF OwnInv, Own, IsDir

\* A statement of rm that takes no row away.
LEMMA RmReads ==
    ASSUME RmInv, TreeInv, UNCHANGED <<userFile, cdVars>>, AtHome', NoneMissed'
    PROVE  TreeInv'
BY GrowsWell DEF TreeInv, RmInv

LEMMA RmTree ==
    ASSUME RmInv, OwnInv, TreeInv, NEW s \in Session, NEW n \in Name, Rm(s, n)
    PROVE  TreeInv'
<1>1. PICK r \in userFile : /\ r.owner = UserOf[s] /\ r.precode = code[s]
                            /\ rmUser' = UserOf[s] /\ rmTodo' = <<InHand(r)>>
  BY RmStarts
<1>2. UNCHANGED <<userFile, cdVars>>
  BY RmStarts
<1>3. InHand(r).row = r /\ InHand(r).left = {} /\ InHand(r).listed = (r.type # "d")
  BY InHandRow DEF RmInv, RowsInOrder
<1>4. Len(rmTodo') = 1 /\ rmTodo'[1] = InHand(r)
  BY <1>1
<1>5. AtHome'
  BY <1>1, <1>2, <1>3, <1>4 DEF AtHome, OnlyOnce
<1>6. \A i \in 1..Len(rmTodo') : i = 1
  BY <1>4
<1>7. \A q \in userFile : InHand(r).listed /\ q.type = "d" => q.precode # r.id
  BY <1>3, FilesAreLeaves
<1>8. NoneMissed'
  BY <1>2, <1>3, <1>4, <1>6, <1>7 DEF NoneMissed
<1> QED BY <1>2, <1>5, <1>8, RmReads

LEMMA ListTree == ASSUME RmInv, TreeInv, RmList PROVE TreeInv'
<1> DEFINE k == Len(rmTodo)
<1>1. /\ UNCHANGED <<userFile, cdVars, rmUser>>
      /\ rmTodo # <<>> /\ Len(rmTodo') = k
      /\ \A i \in 1..k : rmTodo'[i].row = rmTodo[i].row
      /\ \A i \in 1..k : i < k => rmTodo'[i] = rmTodo[i]
      /\ rmTodo'[k].left = Entries(rmUser, rmTodo[k].row.id)
  BY ListStands
<1>2. k \in Nat \ {0}
  BY <1>1 DEF RmInv, InHandStands
<1> HIDE DEF k
<1>3. 1 \in 1..k /\ k \in 1..k /\ \A i \in 1..k : i = k \/ (i < k /\ i + 1 \in 1..k)
  BY <1>2
<1>4. AtHome'
  BY <1>1, <1>3 DEF AtHome, TreeInv
<1>5. ASSUME NEW i \in 1..k, NEW q \in userFile, rmTodo'[i].listed, q.type = "d", q.owner = rmUser,
             q.precode = rmTodo'[i].row.id
      PROVE  q \in rmTodo'[i].left \/ (i < k /\ q = rmTodo'[i + 1].row)
  <2>1. CASE i = k
    BY <1>1, <1>5, <2>1 DEF Entries
  <2>2. CASE i < k /\ i + 1 \in 1..k
    <3>1. rmTodo'[i] = rmTodo[i] /\ rmTodo'[i + 1].row = rmTodo[i + 1].row /\ Len(rmTodo) = k
      BY <1>1, <2>2 DEF k
    <3> QED BY <1>5, <3>1 DEF TreeInv, NoneMissed
  <2> QED BY <1>3, <2>1, <2>2
<1>6. NoneMissed'
  BY <1>1, <1>5 DEF NoneMissed
<1> QED BY <1>1, <1>4, <1>6, RmReads

LEMMA FetchTree == ASSUME RmInv, OwnInv, TreeInv, RmFetch PROVE TreeInv'
<1> DEFINE k == Len(rmTodo)
<1>1. /\ UNCHANGED <<userFile, cdVars, rmUser>>
      /\ rmTodo # <<>> /\ Len(rmTodo') = k + 1
      /\ \A i \in 1..k : rmTodo'[i].row = rmTodo[i].row
      /\ \A i \in 1..k : i < k => rmTodo'[i] = rmTodo[i]
  BY FetchStands
<1>2. PICK r \in rmTodo[k].left : /\ rmTodo[k].listed
                                  /\ rmTodo'[k].left = rmTodo[k].left \ {r}
                                  /\ rmTodo'[k + 1] = InHand(r)
  BY FetchStands
<1>3. k \in Nat \ {0}
  BY <1>1 DEF RmInv, InHandStands
<1>4. r \in userFile
  BY <1>3 DEF RmInv, InHandStands
<1>5. InHand(r).row = r /\ InHand(r).left = {} /\ InHand(r).listed = (r.type # "d")
  BY <1>4, InHandRow DEF RmInv, RowsInOrder
<1>6. \A i \in 1..k, q \in userFile :
          rmTodo[i].listed /\ q.type = "d" /\ q.owner = rmUser /\ q.precode = rmTodo[i].row.id =>
            q \in rmTodo[i].left \/ (i < k /\ q = rmTodo[i + 1].row)
  BY DEF TreeInv, NoneMissed
<1>7. AtHome'
  <2>1. 1 \in 1..k
    BY <1>3
  <2> QED BY <1>1, <2>1 DEF AtHome, TreeInv
<1> HIDE DEF k
<1>8. k \in 1..k /\ k < k + 1 /\ ~(k < k)
      /\ \A i \in 1..k + 1 : i = k + 1 \/ i = k \/ (i < k /\ i < k + 1 /\ i \in 1..k /\ i + 1 \in 1..k)
  BY <1>3
<1>9. ASSUME NEW i \in 1..k + 1, NEW q \in userFile, rmTodo'[i].listed, q.type = "d", q.owner = rmUser,
             q.precode = rmTodo'[i].row.id
      PROVE  q \in rmTodo'[i].left \/ (i < k + 1 /\ q = rmTodo'[i + 1].row)
  <2>1. CASE i = k + 1
    BY <1>2, <1>4, <1>5, <1>9, <2>1, FilesAreLeaves
  <2>2. CASE i = k
    <3>1. q \in rmTodo[k].left
      BY <1>1, <1>2, <1>6, <1>8, <1>9, <2>2
    <3>2. q \in rmTodo'[k].left \/ q = rmTodo'[k + 1].row
      BY <1>2, <1>5, <3>1
    <3> QED BY <1>8, <2>2, <3>2
  <2>3. CASE i < k /\ i < k + 1 /\ i \in 1..k /\ i + 1 \in 1..k
    BY <1>1, <1>6, <1>9, <2>3
  <2> QED BY <1>8, <2>1, <2>2, <2>3
<1>10. NoneMissed'
  BY <1>1, <1>9 DEF NoneMissed
<1> QED BY <1>1, <1>7, <1>10, RmReads

\* The row that goes has no directory left in it, and is no directory anybody stands in.
LEMMA DeleteTree == ASSUME RmInv, TreeInv, RmDelete PROVE TreeInv'
<1> DEFINE k == Len(rmTodo)
           x == rmTodo[k].row
<1>1. /\ UNCHANGED cdVars /\ rmTodo # <<>> /\ rmTodo[k].listed /\ rmTodo[k].left = {}
      /\ userFile' = userFile \ {x}
      /\ Len(rmTodo') = k - 1 /\ \A i \in 1..k - 1 : rmTodo'[i] = rmTodo[i]
      /\ rmTodo' # <<>> => rmUser' = rmUser
  BY DeleteStands
<1>2. k \in Nat \ {0}
  BY <1>1 DEF RmInv, InHandStands
<1>3. 1 \in 1..k /\ k \in 1..k /\ \A i \in 1..k - 1 : i \in 1..k /\ i + 1 \in 1..k /\ i < k /\ 1 \in 1..k - 1
  <2> HIDE DEF k
  <2> QED BY <1>2
<1>4. x \in userFile /\ x.owner = rmUser /\ rmTodo[1].row \in userFile
  BY <1>3 DEF RmInv, InHandStands
<1>5. \A i \in 1..k, q \in userFile :
          rmTodo[i].listed /\ q.type = "d" /\ q.owner = rmUser /\ q.precode = rmTodo[i].row.id =>
            q \in rmTodo[i].left \/ (i < k /\ q = rmTodo[i + 1].row)
  BY DEF TreeInv, NoneMissed
<1>6. rmTodo[1].row.id <= x.id
  <2>1. \A i, j \in 1..k : i < j => rmTodo[i].row.id < rmTodo[j].row.id
    BY InHandRises
  <2>2. rmTodo[1].row.id \in Int /\ x.id \in Int
    BY <1>4, RowNumbers DEF RmInv
  <2> HIDE DEF k, x
  <2>3. k = 1 \/ 1 < k
    BY <1>2
  <2>4. k = 1 => rmTodo[1].row.id = x.id
    BY DEF x
  <2>5. 1 < k => rmTodo[1].row.id < x.id
    BY <1>3, <2>1 DEF x
  <2> QED BY <2>2, <2>3, <2>4, <2>5
<1> HIDE DEF k
<1>7. ASSUME NEW s \in Session, OnlyOnce(UserOf[s]) PROVE StandsAt(s)'
  <2>1. StandsAt(s) /\ path'[s] = path[s] /\ code'[s] = code[s] /\ plain'[s] = plain[s]
    BY <1>1, <1>7 DEF TreeInv, Standing
  <2>2. ASSUME NEW q \in userFile, q.owner = UserOf[s], q.id <= code[s], q = x PROVE FALSE
    <3>1. UserOf[s] = rmUser
      BY <1>4, <2>2
    <3>2. rmTodo[1].row.precode = code[s]
      BY <1>1, <1>7, <3>1 DEF TreeInv, AtHome
    <3>3. rmTodo[1].row.precode < rmTodo[1].row.id
      BY <1>4, RowNumbers DEF RmInv
    <3>4. /\ q.id \in Int /\ rmTodo[1].row.precode \in Int /\ rmTodo[1].row.id \in Int /\ q.id = x.id
          /\ q.id <= rmTodo[1].row.precode
      BY <1>4, <2>2, <3>2, RowNumbers DEF RmInv
    <3> QED BY <1>6, <3>3, <3>4
  <2>3. \A q \in userFile : q.type = "d" /\ q.owner = UserOf[s] /\ q.id <= code[s] => q \in userFile'
    BY <1>1, <2>2
  <2> QED BY <2>1, <2>3, StaysPut DEF RmInv, TreeInv
<1>8. Standing'
  BY <1>7 DEF Standing
<1>9. ASSUME NEW q \in userFile, q.type = "d", Rooted(q) PROVE Rooted(q)'
  <2>1. CASE q.precode = 0
    BY <2>1 DEF Rooted
  <2>2. ASSUME NEW d \in userFile, d.id = q.precode, d.type = "d", d.owner = q.owner PROVE Rooted(q)'
    <3>1. d # x
      BY <1>1, <1>3, <1>4, <1>5, <1>9, <2>2
    <3> QED BY <1>1, <2>2, <3>1 DEF Rooted
  <2> QED BY <1>9, <2>1, <2>2 DEF Rooted
<1>10. TreeRooted'
  BY <1>1, <1>9 DEF TreeInv, TreeRooted
<1>11. AtHome'
  <2>1. CASE rmTodo' = <<>>
    BY <2>1 DEF AtHome
  <2>2. CASE rmTodo' # <<>>
    <3>1. rmTodo' \in Seq(Frame)
      BY DeleteStands DEF InHandStands, Frame
    <3>2. Len(rmTodo') # 0
      BY <2>2, <3>1
    <3>3. 1 \in 1..k - 1
      BY <1>1, <1>2, <3>2
    <3>4. rmTodo'[1] = rmTodo[1] /\ rmUser' = rmUser
      BY <1>1, <2>2, <3>3
    <3> QED BY <1>1, <3>4 DEF TreeInv, AtHome
  <2> QED BY <2>1, <2>2
<1>12. ASSUME NEW i \in 1..k - 1, NEW q \in userFile', rmTodo'[i].listed, q.type = "d", q.owner = rmUser',
              q.precode = rmTodo'[i].row.id
       PROVE  q \in rmTodo'[i].left \/ (i < k - 1 /\ q = rmTodo'[i + 1].row)
  <2>1. rmTodo' # <<>>
    <3>1. Len(rmTodo') # 0
      BY <1>1, <1>2
    <3> QED BY <3>1
  <2>2. q \in userFile /\ q # x /\ q.owner = rmUser
    BY <1>1, <1>12, <2>1
  <2>3. rmTodo'[i] = rmTodo[i] /\ i \in 1..k
    BY <1>1, <1>3
  <2>4. q \in rmTodo[i].left \/ (i < k /\ q = rmTodo[i + 1].row)
    BY <1>5, <1>12, <2>2, <2>3
  <2>5. CASE q = rmTodo[i + 1].row
    <3>1. i + 1 # k
      BY <2>2, <2>5
    <3>2. i < k - 1 /\ i + 1 \in 1..k - 1
      BY <1>2, <3>1
    <3> QED BY <1>1, <2>5, <3>2
  <2> QED BY <2>3, <2>4, <2>5
<1>13. NoneMissed'
  BY <1>1, <1>12 DEF NoneMissed
<1> QED BY <1>1, <1>8, <1>10, <1>11, <1>13 DEF TreeInv, PathType

LEMMA RmStepTree == ASSUME RmInv, OwnInv, TreeInv, RmStep PROVE TreeInv'
<1>1. CASE RmFails
  <2>1. rmTodo' = <<>> /\ UNCHANGED <<userFile, cdVars>>
    BY <1>1 DEF RmFails
  <2>2. AtHome' /\ NoneMissed'
    BY <2>1 DEF AtHome, NoneMissed
  <2> QED BY <2>1, <2>2, RmReads
<1> QED BY <1>1, ListTree, FetchTree, DeleteTree DEF RmStep

-----------------------------------------------------------------------------
LEMMA TreeInit == Init => TreeInv
<1> SUFFICES ASSUME Init PROVE TreeInv
  OBVIOUS
<1>1. path = [s \in Session |-> Slash] /\ Slash \in Text
  BY DEF Init, Slash, Text
<1>2. PathType /\ Standing
  BY <1>1 DEF PathType, Standing, StandsAt, Init
<1>3. AtHome /\ NoneMissed /\ TreeRooted
  BY DEF Init, AtHome, NoneMissed, TreeRooted
<1> QED BY <1>2, <1>3 DEF TreeInv

LEMMA TreeStep == StoreInv /\ RmInv /\ OwnInv /\ TreeInv /\ [Next]_vars => TreeInv'
<1>1. ASSUME RmInv, TreeInv, UNCHANGED vars PROVE TreeInv'
  <2>1. AtHome' /\ NoneMissed'
    BY <1>1 DEF vars, rmVars, TreeInv, AtHome, NoneMissed
  <2>2. UNCHANGED <<userFile, cdVars>>
    BY <1>1 DEF vars
  <2> QED BY <1>1, <2>1, <2>2, RmReads
<1>2. ASSUME StoreInv, RmInv, OwnInv, TreeInv, MainCommand PROVE TreeInv'
  BY <1>2, CdRootTree, CdUpTree, CdDirTree, MkdirTree, RmTree DEF MainCommand
<1> QED BY <1>1, <1>2, RmStepTree, WorkersTree DEF Next

\* The tree and the current directory of every user who is logged in once, whatever those do
\* who are logged in more than once.
THEOREM Tree == Spec => []TreeInv
BY Store, RmChain, Owners, TreeInit, TreeStep, PTL DEF Spec

\* rm leaves no directory of such a user behind whose own is gone, not when it stops half-way,
\* and not when files are uploaded into what it removes.
THEOREM TreeIsRooted == Spec => []TreeRooted
<1>1. TreeInv => TreeRooted
  BY DEF TreeInv
<1> QED BY <1>1, Tree, PTL

\* The number a client keeps never means a file or another user's directory; that of a user
\* logged in once means one that is there up to the root; and while the names it has entered
\* since the root are plain, what pwd shows are those names in that order.
THEOREM PathIsRight == Spec => []PathMatchesCode
<1>1. RmInv /\ OwnInv /\ TreeInv => PathMatchesCode
  BY PathForm DEF RmInv, TreeInv
<1> QED BY <1>1, RmChain, Owners, Tree, PTL

-----------------------------------------------------------------------------
\* Downloads.

Blocks == Seq(Content \cup {Hole})
Fetch  == [at : {"idle", "stat", "ask", "open", "resize", "recv"},
           offset : Nat, content : Content \cup {None}, inode : Nat \cup {None}, pos : Nat,
           overtaken : BOOLEAN]

\* How far a download of c has come: the file has its full size, and the blocks received so
\* far; and, as long as no other has ended, it is still the unfinished one by its name.
Fetching(f, c) ==
    /\ f.at \in {"open", "resize", "recv"} => f.content = c
    /\ f.at \in {"resize", "recv"} => f.inode \in 1..Len(data)
    /\ f.at \in {"resize", "recv"} /\ f.overtaken = FALSE => part = f.inode
    /\ f.at = "recv" => Len(data[f.inode]) = Size[c]
    /\ f.at = "recv" /\ f.offset = 0 => /\ f.pos <= Size[c]
                                        /\ \A i \in 1..f.pos : data[f.inode][i] = c

Downloading(c) ==
    /\ remote \in {c, None}
    /\ data \in Seq(Blocks) /\ Len(data) <= MaxInode
    /\ part \in {None} \cup 1..Len(data)
    /\ download \in [Thread -> Fetch]
    /\ \A t \in Thread : Fetching(download[t], c)

DownloadInv == \E c \in Content : Downloading(c)

LEMMA DownloadInitially == ASSUME Client!DownloadAssumption, Client!Init PROVE DownloadInv
<1>1. Client!Idle \in Fetch /\ \A c : Fetching(Client!Idle, c)
  <2>1. Client!Idle \in Fetch
    BY DEF Client!Idle, Fetch
  <2>2. Client!Idle.at = "idle"
    BY DEF Client!Idle
  <2> QED BY <2>1, <2>2 DEF Fetching
<1>2. download \in [Thread -> Fetch] /\ \A t \in Thread : download[t] = Client!Idle
  BY <1>1 DEF Client!Init
<1>3. data \in Seq(Blocks) /\ Len(data) = 0 /\ 0 <= MaxInode /\ remote \in Content /\ part = None
  BY DEF Client!Init, Client!DownloadAssumption
<1>4. Downloading(remote)
  BY <1>1, <1>2, <1>3 DEF Downloading
<1> QED BY <1>3, <1>4 DEF DownloadInv

\* ftruncate() to the size a file has leaves it as it is.
LEMMA ResizedIs ==
    ASSUME NEW d \in Blocks, NEW k \in Nat
    PROVE  /\ Client!Resized(d, k) \in Blocks /\ Len(Client!Resized(d, k)) = k
           /\ \A i \in 1..k : i \in 1..Len(d) => Client!Resized(d, k)[i] = d[i]
<1> DEFINE z == [i \in 1..k |-> IF i \in 1..Len(d) THEN d[i] ELSE Hole]
<1>1. DOMAIN d = 1..Len(d)
  BY DEF Blocks
<1>2. Client!Resized(d, k) = z
  BY <1>1 DEF Client!Resized
<1>3. \A i \in 1..k : z[i] \in Content \cup {Hole}
  BY DEF Blocks
<1>4. z \in Seq(Content \cup {Hole}) /\ Len(z) = k
  BY <1>3
<1> QED BY <1>2, <1>4 DEF Blocks

\* A file that is there is given its size, or a block of c is written to it.
LEMMA FileChanges ==
    ASSUME NEW c \in Content, data \in Seq(Blocks), NEW n \in 1..Len(data), NEW z \in Blocks,
           data' = [data EXCEPT ![n] = z], part' = part,
           Len(data[n]) = Size[c] => Len(z) = Size[c],
           \A i \in 1..Len(z) : i \in 1..Len(data[n]) => z[i] = data[n][i] \/ z[i] = c,
           Size[c] \in Nat, NEW f \in Fetch, Fetching(f, c)
    PROVE  data' \in Seq(Blocks) /\ Len(data') = Len(data) /\ Fetching(f, c)'
<1>1. /\ data' \in Seq(Blocks) /\ Len(data') = Len(data)
      /\ \A m \in 1..Len(data) : data'[m] = IF m = n THEN z ELSE data[m]
  <2>1. /\ [data EXCEPT ![n] = z] \in Seq(Blocks) /\ Len([data EXCEPT ![n] = z]) = Len(data)
        /\ \A m \in 1..Len(data) : [data EXCEPT ![n] = z][m] = IF m = n THEN z ELSE data[m]
    BY ExceptSeq
  <2> QED BY <2>1
<1>2. CASE f.at = "recv" /\ f.inode = n
  <2>1. Len(data[n]) = Size[c] /\ Len(z) = Size[c] /\ data'[n] = z
    BY <1>1, <1>2 DEF Fetching
  <2>2. ASSUME f.offset = 0, NEW i \in 1..f.pos PROVE z[i] = c
    <3>1. f.pos \in Nat /\ f.pos <= Size[c] /\ data[n][i] = c
      BY <1>2, <2>2 DEF Fetching, Fetch
    <3>2. i \in 1..Size[c]
      BY <3>1
    <3> QED BY <2>1, <3>1, <3>2
  <2> QED BY <1>1, <1>2, <2>1, <2>2 DEF Fetching
<1>3. CASE ~(f.at = "recv" /\ f.inode = n)
  BY <1>1, <1>3 DEF Fetching
<1> QED BY <1>1, <1>2, <1>3

\* Steps that leave the local files as they are, or add an empty one.
LEMMA FilesGrow ==
    ASSUME NEW c \in Content, data \in Seq(Blocks), NEW f \in Fetch, Fetching(f, c),
           data' = data \/ data' = Append(data, <<>>),
           part' = part \/ part \notin 1..Len(data)
    PROVE  Fetching(f, c)'
<1>1. <<>> \in Blocks
  BY DEF Blocks
<1>2. /\ Len(data') >= Len(data) /\ Len(data) \in Nat /\ Len(data') \in Nat
      /\ \A m \in 1..Len(data) : data'[m] = data[m]
  BY <1>1, AppendProperties
<1>3. f.at \in {"resize", "recv"} => f.inode \in 1..Len(data) /\ f.inode \in 1..Len(data')
  BY <1>2 DEF Fetching
<1> QED BY <1>2, <1>3 DEF Fetching

\* One download takes a step.
LEMMA OneMoves ==
    ASSUME NEW c \in Content, Downloading(c), NEW t \in Thread, NEW g \in Fetch,
           download' = [download EXCEPT ![t] = g], Fetching(g, c)',
           remote' = remote, data' \in Seq(Blocks), Len(data') <= MaxInode,
           part' \in {None} \cup 1..Len(data'),
           \A f \in Fetch : Fetching(f, c) => Fetching(f, c)'
    PROVE  Downloading(c)'
<1>1. download' \in [Thread -> Fetch]
  BY DEF Downloading
<1>2. ASSUME NEW u \in Thread PROVE Fetching(download[u], c)'
  <2>1. CASE u = t
    BY <2>1 DEF Downloading
  <2>2. CASE u # t
    <3>1. download'[u] = download[u]
      BY <2>2 DEF Downloading
    <3>2. PICK f \in Fetch : f = download[u] /\ Fetching(f, c)
      BY DEF Downloading
    <3>3. Fetching(f, c)'
      BY <3>2
    <3> QED BY <3>1, <3>2, <3>3
  <2> QED BY <2>1, <2>2
<1> QED BY <1>1, <1>2 DEF Downloading

\* A download ends: the unfinished file loses its name, and those that still write are overtaken.
LEMMA FinishMoves ==
    ASSUME NEW c \in Content, Downloading(c), NEW t \in Thread, Client!Finish(t)
    PROVE  Downloading(c)'
<1>1. /\ UNCHANGED <<remote, data>> /\ part' = None
      /\ \A u \in Thread :
            download'[u] = IF u = t THEN Client!Idle
                           ELSE IF download[u].at \in {"resize", "recv"}
                           THEN [download[u] EXCEPT !.overtaken = TRUE] ELSE download[u]
  BY DEF Client!Finish
<1>2. ASSUME NEW u \in Thread PROVE download'[u] \in Fetch /\ Fetching(download[u], c)'
  <2>1. PICK f \in Fetch : f = download[u] /\ Fetching(f, c)
    BY DEF Downloading
  <2>2. CASE u = t
    <3>1. PICK g : g = Client!Idle
      OBVIOUS
    <3>2. g \in Fetch /\ g.at = "idle"
      BY <3>1 DEF Client!Idle, Fetch
    <3>3. download'[u] = g
      BY <1>1, <2>2, <3>1
    <3>4. Fetching(g, c)'
      BY <3>2 DEF Fetching
    <3> QED BY <3>2, <3>3, <3>4
  <2>3. CASE u # t /\ f.at \in {"resize", "recv"}
    <3>1. PICK g : g = [f EXCEPT !.overtaken = TRUE]
      OBVIOUS
    <3>2. /\ g \in Fetch /\ g.at = f.at /\ g.content = f.content /\ g.inode = f.inode
          /\ g.pos = f.pos /\ g.offset = f.offset /\ g.overtaken = TRUE
      BY <3>1 DEF Fetch
    <3>3. download'[u] = g
      BY <1>1, <2>1, <2>3, <3>1
    <3>4. Fetching(g, c)'
      BY <1>1, <2>1, <3>2 DEF Fetching
    <3> QED BY <3>2, <3>3, <3>4
  <2>4. CASE u # t /\ f.at \notin {"resize", "recv"}
    <3>1. download'[u] = f
      BY <1>1, <2>1, <2>4
    <3>2. Fetching(f, c)'
      BY <1>1, <2>1, <2>4 DEF Fetching
    <3> QED BY <3>1, <3>2
  <2> QED BY <2>2, <2>3, <2>4
<1>3. DOMAIN download' = Thread /\ download' = [u \in Thread |-> download'[u]]
  BY DEF Client!Finish
<1>4. download' \in [Thread -> Fetch]
  BY <1>2, <1>3
<1> QED BY <1>1, <1>2, <1>4 DEF Downloading

LEMMA DownloadMoves ==
    ASSUME Client!DownloadAssumption, NEW c \in Content, Downloading(c), NEW t \in Thread,
           \/ Client!Begin(t) \/ Client!Stat(t) \/ Client!Ask(t) \/ Client!Open(t)
           \/ Client!Resize(t) \/ Client!RecvBlock(t) \/ Client!Finish(t) \/ Client!ConnectionLost(t)
    PROVE  Downloading(c)'
<1>1. PICK f \in Fetch : f = download[t] /\ Fetching(f, c)
  BY DEF Downloading
<1>2. /\ data \in Seq(Blocks) /\ Len(data) \in Nat /\ Len(data) <= MaxInode /\ Size[c] \in Nat
      /\ part \in {None} \cup 1..Len(data) /\ MaxInode \in Nat /\ remote \in {c, None}
      /\ None \notin 1..Len(data)
  <2>1. None \notin 1..MaxInode /\ MaxInode \in Nat /\ Size[c] \in Nat
    BY DEF Client!DownloadAssumption, Client!Inode
  <2> QED BY <2>1 DEF Downloading
<1>3. Client!Idle \in Fetch /\ \A d : Fetching(Client!Idle, d) /\ Fetching(Client!Idle, d)'
  <2>1. Client!Idle \in Fetch
    BY DEF Client!Idle, Fetch
  <2>2. Client!Idle.at = "idle"
    BY DEF Client!Idle
  <2> QED BY <2>1, <2>2 DEF Fetching
\* Steps of a download that touch no file.
<1>4. ASSUME UNCHANGED <<remote, data, part>>,
             NEW g \in Fetch, download' = [download EXCEPT ![t] = g], Fetching(g, c)
      PROVE  Downloading(c)'
  <2>1. Fetching(g, c)' /\ \A h \in Fetch : Fetching(h, c) => Fetching(h, c)'
    BY <1>2, <1>4, FilesGrow
  <2>2. remote' = remote /\ data' \in Seq(Blocks) /\ Len(data') <= MaxInode /\ part' \in {None} \cup 1..Len(data')
    BY <1>2, <1>4
  <2> QED BY <1>4, <2>1, <2>2, OneMoves
<1>5. CASE Client!Begin(t)
  <2>1. PICK g : g = [f EXCEPT !.at = "stat"]
    OBVIOUS
  <2>2. g \in Fetch /\ Fetching(g, c)
    BY <2>1 DEF Fetch, Fetching
  <2>3. /\ UNCHANGED <<remote, data, part>>
        /\ download' = [download EXCEPT ![t] = g]
    BY <1>1, <1>2, <1>5, <2>1 DEF Client!Begin, Downloading
  <2> QED BY <1>4, <2>2, <2>3
<1>6. CASE Client!Stat(t)
  <2>1. PICK k : k = IF part = None THEN 0 ELSE Len(data[part])
    OBVIOUS
  <2>2. k \in Nat
    BY <1>2, <2>1 DEF Blocks
  <2>3. PICK g : g = [f EXCEPT !.at = "ask", !.offset = k]
    OBVIOUS
  <2>4. g \in Fetch /\ Fetching(g, c)
    BY <2>2, <2>3 DEF Fetch, Fetching
  <2>5. /\ UNCHANGED <<remote, data, part>>
        /\ download' = [download EXCEPT ![t] = g]
    BY <1>1, <1>2, <1>6, <2>1, <2>3 DEF Client!Stat, Downloading
  <2> QED BY <1>4, <2>4, <2>5
<1>7. CASE Client!Ask(t)
  <2>1. PICK g : g = IF remote = None THEN Client!Idle ELSE [f EXCEPT !.at = "open", !.content = remote]
    OBVIOUS
  <2>2. g \in Fetch /\ Fetching(g, c)
    BY <1>2, <1>3, <2>1 DEF Fetch, Fetching
  <2>3. /\ UNCHANGED <<remote, data, part>>
        /\ download' = [download EXCEPT ![t] = g]
    BY <1>1, <1>2, <1>7, <2>1 DEF Client!Ask, Downloading
  <2> QED BY <1>4, <2>2, <2>3
<1>8. CASE Client!ConnectionLost(t)
  <2>1. PICK g : g = Client!Idle
    OBVIOUS
  <2>2. g \in Fetch /\ Fetching(g, c)
    BY <1>3, <2>1
  <2>3. /\ UNCHANGED <<remote, data, part>>
        /\ download' = [download EXCEPT ![t] = g]
    BY <1>8, <2>1 DEF Client!ConnectionLost
  <2> QED BY <1>4, <2>2, <2>3
<1>9. CASE Client!Open(t)
  <2>1. f.at = "open" /\ f.content = c
    BY <1>1, <1>9 DEF Client!Open, Fetching
  <2>2. CASE part # None
    <3>1. PICK g : g = [f EXCEPT !.at = "resize", !.inode = part]
      OBVIOUS
    <3>2. g \in Fetch /\ Fetching(g, c)
      <4>1. part \in 1..Len(data) /\ part \in Nat
        BY <1>2, <2>2
      <4>2. g \in Fetch /\ g.at = "resize" /\ g.content = c /\ g.inode = part
        BY <2>1, <3>1, <4>1 DEF Fetch
      <4> QED BY <4>1, <4>2 DEF Fetching
    <3>3. /\ UNCHANGED <<remote, data, part>>
          /\ download' = [download EXCEPT ![t] = g]
      BY <1>1, <1>2, <1>9, <2>2, <3>1 DEF Client!Open, Downloading
    <3> QED BY <1>4, <3>2, <3>3
  <2>3. CASE part = None
    <3>1. Len(data) < MaxInode /\ data' = Append(data, <<>>) /\ part' = Len(data') /\ remote' = remote
      BY <1>9, <2>3 DEF Client!Open
    <3>2. PICK n : n = part'
      OBVIOUS
    <3>3. /\ data' \in Seq(Blocks) /\ Len(data') = Len(data) + 1
      <4>1. <<>> \in Blocks
        BY DEF Blocks
      <4> QED BY <1>2, <3>1, <4>1, AppendProperties
    <3>4. n \in Nat /\ n \in 1..Len(data') /\ Len(data') <= MaxInode
      BY <1>2, <3>1, <3>2, <3>3
    <3>5. PICK g : g = [f EXCEPT !.at = "resize", !.inode = n]
      OBVIOUS
    <3>6. g \in Fetch /\ g.at = "resize" /\ g.content = c /\ g.inode = n
      BY <2>1, <3>4, <3>5 DEF Fetch
    <3>7. Fetching(g, c)'
      BY <3>2, <3>4, <3>6 DEF Fetching
    <3>8. download' = [download EXCEPT ![t] = g]
      BY <1>1, <1>9, <2>3, <3>2, <3>5 DEF Client!Open, Downloading
    <3>9. \A h \in Fetch : Fetching(h, c) => Fetching(h, c)'
      BY <1>2, <2>3, <3>1, FilesGrow
    <3>10. part' \in {None} \cup 1..Len(data')
      BY <3>2, <3>4
    <3> QED BY <3>1, <3>3, <3>4, <3>6, <3>7, <3>8, <3>9, <3>10, OneMoves
  <2> QED BY <2>2, <2>3
<1>10. CASE Client!Resize(t)
  <2>1. /\ f.at = "resize" /\ f.content = c /\ f.inode \in 1..Len(data)
        /\ remote' = remote /\ part' = part
        /\ data' = [data EXCEPT ![f.inode] = Client!Resized(data[f.inode], Size[c])]
    BY <1>1, <1>10 DEF Client!Resize, Fetching
  <2>0. PICK n \in 1..Len(data) : n = f.inode
    BY <2>1
  <2>2. PICK z : n = f.inode /\ z = Client!Resized(data[n], Size[c])
    BY <2>0
  <2>3. z \in Blocks /\ Len(z) = Size[c] /\ \A i \in 1..Size[c] : i \in 1..Len(data[n]) => z[i] = data[n][i]
    <3>1. data[n] \in Blocks
      BY <1>2
    <3> QED BY <1>2, <2>2, <3>1, ResizedIs
  <2>4. data' = [data EXCEPT ![n] = z]
    BY <2>1, <2>2
  <2>5. /\ data' \in Seq(Blocks) /\ Len(data') = Len(data)
        /\ \A h \in Fetch : Fetching(h, c) => Fetching(h, c)'
    <3>1. (Len(data[n]) = Size[c] => Len(z) = Size[c]) /\ part' = part
      BY <2>1, <2>3
    <3>2. \A i \in 1..Len(z) : i \in 1..Len(data[n]) => z[i] = data[n][i] \/ z[i] = c
      BY <2>1, <2>3
    <3> QED BY <1>1, <1>2, <2>3, <2>4, <3>1, <3>2, FileChanges
  <2>6. PICK g : g = [f EXCEPT !.at = "recv", !.pos = f.offset]
    OBVIOUS
  <2>7. /\ g \in Fetch /\ g.at = "recv" /\ g.content = c /\ g.inode = n /\ g.pos = g.offset
        /\ g.overtaken = f.overtaken
    BY <2>1, <2>2, <2>6 DEF Fetch
  <2>8. data'[n] = z
    BY <1>2, <2>4
  <2>9. Fetching(g, c)'
    <3>1. g.overtaken = FALSE => part' = g.inode
      BY <1>1, <2>1, <2>2, <2>7 DEF Fetching
    <3> QED BY <1>2, <2>3, <2>5, <2>7, <2>8, <3>1 DEF Fetching
  <2>10. download' = [download EXCEPT ![t] = g]
    BY <1>1, <1>10, <2>6 DEF Client!Resize, Downloading
  <2>11. Len(data') <= MaxInode /\ part' \in {None} \cup 1..Len(data')
    BY <1>2, <2>1, <2>5
  <2> QED BY <2>1, <2>5, <2>7, <2>9, <2>10, <2>11, OneMoves
<1>11. CASE Client!RecvBlock(t)
  <2>1. /\ f.at = "recv" /\ f.content = c /\ f.inode \in 1..Len(data)
        /\ remote' = remote /\ part' = part
        /\ f.pos < Size[c] /\ f.pos < Len(data[f.inode]) /\ Len(data[f.inode]) = Size[c]
        /\ data' = [data EXCEPT ![f.inode] = [data[f.inode] EXCEPT ![f.pos + 1] = c]]
    BY <1>1, <1>11 DEF Client!RecvBlock, Fetching
  <2>0. PICK n \in 1..Len(data) : n = f.inode
    BY <2>1
  <2>2. PICK j, z : n = f.inode /\ j = f.pos + 1 /\ z = [data[n] EXCEPT ![j] = c]
    BY <2>0
  <2>3. f.pos \in Nat /\ j \in 1..Len(data[n]) /\ data[n] \in Seq(Content \cup {Hole}) /\ c \in Content \cup {Hole}
    BY <1>2, <2>1, <2>2 DEF Blocks, Fetch
  <2>4. /\ z \in Blocks /\ Len(z) = Len(data[n]) /\ z[j] = c
        /\ \A i \in 1..Len(z) : i \in 1..Len(data[n]) => z[i] = data[n][i] \/ z[i] = c
    <3>1. PICK s : s = data[n]
      OBVIOUS
    <3>2. /\ [s EXCEPT ![j] = c] \in Seq(Content \cup {Hole}) /\ Len([s EXCEPT ![j] = c]) = Len(s)
          /\ \A i \in 1..Len(s) : [s EXCEPT ![j] = c][i] = IF i = j THEN c ELSE s[i]
      BY <2>3, <3>1, ExceptSeq
    <3> QED BY <2>2, <2>3, <3>1, <3>2 DEF Blocks
  <2>5. data' = [data EXCEPT ![n] = z]
    BY <2>1, <2>2
  <2>6. /\ data' \in Seq(Blocks) /\ Len(data') = Len(data)
        /\ \A h \in Fetch : Fetching(h, c) => Fetching(h, c)'
    <3>1. (Len(data[n]) = Size[c] => Len(z) = Size[c]) /\ part' = part
      BY <2>1, <2>4
    <3>2. \A i \in 1..Len(z) : i \in 1..Len(data[n]) => z[i] = data[n][i] \/ z[i] = c
      BY <2>4
    <3> QED BY <1>1, <1>2, <2>4, <2>5, <3>1, <3>2, FileChanges
  <2>7. PICK g : g = [f EXCEPT !.pos = @ + 1]
    OBVIOUS
  <2>8. /\ g \in Fetch /\ g.at = "recv" /\ g.content = c /\ g.inode = n
        /\ g.pos = j /\ g.offset = f.offset /\ g.overtaken = f.overtaken
    <3>1. g = [f EXCEPT !.pos = j]
      BY <2>2, <2>7
    <3>2. j \in Nat
      BY <2>2, <2>3
    <3> QED BY <2>1, <2>2, <3>1, <3>2 DEF Fetch
  <2>9. Fetching(f, c)' /\ data'[n] = z
    BY <1>1, <1>2, <2>5, <2>6
  <2>10. \A i \in 1..j : i = j \/ i \in 1..f.pos
    BY <2>2, <2>3
  <2>11. Fetching(g, c)'
    <3>1. Len(data'[n]) = Size[c] /\ n \in 1..Len(data')
      BY <2>1, <2>2, <2>4, <2>6, <2>9
    <3>2. g.offset = 0 => \A i \in 1..j : data'[n][i] = c
      BY <2>1, <2>2, <2>4, <2>8, <2>9, <2>10 DEF Fetching
    <3>3. j <= Size[c]
      BY <1>2, <2>1, <2>2, <2>3
    <3>4. g.overtaken = FALSE => part' = n
      BY <1>1, <2>1, <2>2, <2>8 DEF Fetching
    <3> QED BY <2>8, <3>1, <3>2, <3>3, <3>4 DEF Fetching
  <2>12. download' = [download EXCEPT ![t] = g]
    BY <1>1, <1>11, <2>7 DEF Client!RecvBlock, Downloading
  <2>13. Len(data') <= MaxInode /\ part' \in {None} \cup 1..Len(data')
    BY <1>2, <2>1, <2>6
  <2> QED BY <2>1, <2>6, <2>8, <2>11, <2>12, <2>13, OneMoves
<1> QED BY <1>5, <1>6, <1>7, <1>8, <1>9, <1>10, <1>11, FinishMoves

LEMMA DownloadStep ==
    ASSUME Client!DownloadAssumption, Client!OneContent
    PROVE  DownloadInv /\ [Client!Next]_(Client!vars) => DownloadInv'
<1> SUFFICES ASSUME DownloadInv, [Client!Next]_(Client!vars) PROVE DownloadInv'
  OBVIOUS
<1>1. PICK c \in Content : Downloading(c)
  BY DEF DownloadInv
<1>2. \A f \in Fetch : Fetching(f, c) /\ data' = data /\ part' = part => Fetching(f, c)'
  BY <1>1, FilesGrow DEF Downloading
<1>3. ASSUME UNCHANGED <<data, part, file>>, download' = download \/ download' = [t \in Thread |-> Client!Idle],
             remote' \in {c, None}
      PROVE  Downloading(c)'
  <2>1. CASE download' = download
    <3>1. ASSUME NEW t \in Thread PROVE Fetching(download[t], c)'
      <4>1. PICK f \in Fetch : f = download[t] /\ Fetching(f, c)
        BY <1>1 DEF Downloading
      <4>2. Fetching(f, c)'
        BY <1>2, <1>3, <4>1
      <4> QED BY <2>1, <4>1, <4>2
    <3> QED BY <1>1, <1>3, <2>1, <3>1 DEF Downloading
  <2>2. CASE download' = [t \in Thread |-> Client!Idle]
    <3>1. Client!Idle \in Fetch
      BY DEF Client!Idle, Fetch
    <3>2. Client!Idle.at = "idle"
      BY DEF Client!Idle
    <3>3. \A t \in Thread : Fetching(download[t], c)'
      BY <2>2, <3>2 DEF Fetching
    <3> QED BY <1>1, <1>3, <2>2, <3>1, <3>3 DEF Downloading
  <2> QED BY <1>3, <2>1, <2>2
<1>4. CASE UNCHANGED Client!vars
  <2>1. UNCHANGED <<data, part, file>> /\ download' = download /\ remote' \in {c, None}
    BY <1>1, <1>4 DEF Client!vars, Downloading
  <2> QED BY <1>3, <2>1 DEF DownloadInv
<1>5. ASSUME NEW t \in Thread,
             \/ Client!Begin(t) \/ Client!Stat(t) \/ Client!Ask(t) \/ Client!Open(t)
             \/ Client!Resize(t) \/ Client!RecvBlock(t) \/ Client!Finish(t) \/ Client!ConnectionLost(t)
      PROVE  DownloadInv'
  BY <1>1, <1>5, DownloadMoves DEF DownloadInv
<1>6. CASE Client!ClientDies
  <2>1. UNCHANGED <<data, part, file>> /\ download' = [t \in Thread |-> Client!Idle] /\ remote' \in {c, None}
    BY <1>1, <1>6 DEF Client!ClientDies, Downloading
  <2> QED BY <1>3, <2>1 DEF DownloadInv
<1>7. CASE Client!Replace
  <2>1. UNCHANGED <<data, part, file>> /\ download' = download /\ remote' \in {c, None}
    BY <1>7 DEF Client!Replace, Client!OneContent
  <2> QED BY <1>3, <2>1 DEF DownloadInv
<1> QED BY <1>4, <1>5, <1>6, <1>7 DEF Client!Next

\* A download that starts from nothing and is reported as successful has written the whole
\* content, however many others of the name write to the same local file, break off or rename
\* it meanwhile; and if none of them has ended since it opened the file, the name has it then.
THEOREM FreshDownload ==
    ASSUME Client!DownloadAssumption, Client!OneContent
    PROVE  Client!Spec => Client!FreshIsWhole
<1>1. ASSUME DownloadInv, NEW t \in Thread, Client!Finish(t), download[t].offset = 0
      PROVE  /\ Client!Whole(download[t].inode, download[t].content)
             /\ ~download[t].overtaken => file' = download[t].inode
  <2>1. PICK c \in Content : Downloading(c)
    BY <1>1 DEF DownloadInv
  <2>2. PICK f \in Fetch, n \in 1..Len(data) :
          /\ f = download[t] /\ n = f.inode /\ f.content = c /\ f.pos >= Size[c] /\ Len(data[n]) = Size[c]
          /\ f.pos <= Size[c] /\ \A i \in 1..f.pos : data[n][i] = c
          /\ f.overtaken = FALSE => part = n
    BY <1>1, <2>1 DEF Downloading, Fetching, Client!Finish
  <2>3. Size[c] \in Nat /\ f.pos \in Nat /\ f.pos = Size[c]
    BY <2>2 DEF Client!DownloadAssumption, Fetch
  <2>4. data[n] \in Seq(Content \cup {Hole})
    BY <2>1 DEF Downloading, Blocks
  <2>5. data[n] = [i \in 1..Size[c] |-> c]
    BY <2>2, <2>3, <2>4
  <2>6. None # n
    <3>1. None \notin 1..MaxInode /\ MaxInode \in Nat /\ Len(data) \in Nat /\ Len(data) <= MaxInode
      BY <2>1 DEF Downloading, Client!DownloadAssumption, Client!Inode
    <3> QED BY <3>1
  <2>7. f.overtaken \in BOOLEAN
    BY DEF Fetch
  <2>8. f.overtaken = FALSE => file' = n
    BY <1>1, <2>2, <2>6 DEF Client!Finish
  <2> QED BY <2>2, <2>5, <2>7, <2>8 DEF Client!Whole
<1>2. DownloadInv =>
        [\A t \in Thread : Client!Finish(t) /\ download[t].offset = 0 =>
                             /\ Client!Whole(download[t].inode, download[t].content)
                             /\ ~download[t].overtaken => file' = download[t].inode]_(Client!vars)
  BY <1>1
<1> QED BY <1>2, DownloadInitially, DownloadStep, PTL DEF Client!Spec, Client!FreshIsWhole
====
