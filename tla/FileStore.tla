---- MODULE FileStore ----
(***************************************************************************)
(* The network disk's virtual file system: the tables UserFile and          *)
(* FilePool, the pool directory, and the current directory of every         *)
(* logged-in client.  The main thread runs one command at a time; pool      *)
(* workers run do_puts and do_gets at the same time.  Each SQL statement is *)
(* a transaction of its own on a connection of its own, so one action is    *)
(* one statement, or one file operation between two statements.             *)
(***************************************************************************)
EXTENDS Integers, SequencesExt

CONSTANTS Session,       \* logged-in clients
          User,
          UserOf,        \* UserOf[s]: whom s logged in as
          Worker,
          Base,          \* the strings between separators; "." and ".." are commands
          Sep,           \* the separator '/'
          Name,          \* what users type as names: sequences of Base and Sep
          Content,       \* file contents, each with its size and MD5
          MaxId,         \* bound on rows ever inserted into UserFile
          None

Id   == 1..MaxId
Dir  == 0..MaxId \cup {-1}   \* a directory's id_code, 0 the root, -1 none

\* The root's path, and a name of nothing but a separator.
Slash == <<Sep>>

\* A name with no separator in it.
Plain(n) == \A i \in DOMAIN n : n[i] # Sep

ASSUME StoreAssumption ==
    /\ UserOf \in [Session -> User]
    /\ Sep \notin Base /\ Name \subseteq Seq(Base \cup {Sep})
    /\ \A n \in Name : n # <<>> /\ (Plain(n) => Len(n) = 1)
    /\ MaxId \in Nat \ {0}
    /\ None \notin Content \cup Name

VARIABLES
    userFile,    \* UserFile: the rows
    nextId,      \* UserFile's AUTO_INCREMENT
    filePool,    \* filePool[c]: how many FilePool rows have c's size and MD5
    disk,        \* disk[c]: the pool file named by c's MD5
    code,        \* client_info.code: id_code of the current directory, 0 the root
    path,        \* client_info.path
    plain,       \* history: since s was last in the root, it has only entered
                 \*   directories with plain names
    rmUser,      \* the user whose rm the main thread is executing, or None
    rmTodo,      \* the rows it has in hand
    job,         \* job[w]: the task worker w runs
    up           \* the server process is alive

vars == <<userFile, nextId, filePool, disk, code, path, plain, rmUser, rmTodo, job, up>>

rmVars   == <<rmUser, rmTodo>>
cdVars   == <<code, path, plain>>
poolVars == <<filePool, disk>>

\* A job stands before the step `at'; dir is the directory a row goes to.
Idle == [at |-> "idle", s |-> None, name |-> None, content |-> None, dir |-> -1]
Job  == {Idle} \cup [at : {"check", "pool", "open", "recv", "addpool", "prepare",
                           "insert", "find", "send"},
                     s : Session, name : Name, content : Content \cup {None}, dir : Dir]

Init ==
    /\ userFile = {}
    /\ nextId = 1
    /\ filePool = [c \in Content |-> 0]
    /\ disk = [c \in Content |-> "absent"]
    /\ code = [s \in Session |-> 0]
    /\ path = [s \in Session |-> Slash]
    /\ plain = [s \in Session |-> TRUE]
    /\ rmUser = None
    /\ rmTodo = <<>>
    /\ job = [w \in Worker |-> Idle]
    /\ up = TRUE

-----------------------------------------------------------------------------
\* Queries.  A result set has no order, so the row fetched first is any row.

\* Mutant of Entries: the directory is not asked for.
EntriesOfUser(u, dir) == {r \in userFile : r.owner = u /\ (dir = 0 => r.precode = 0)}

Entries(u, dir) == {r \in userFile : r.owner = u /\ r.precode = dir}
Named(u, dir, n) == {r \in Entries(u, dir) : r.name = n}

\* The code a cd gets from the row fetched: field `f' of a directory, -1 for a
\* file or no row.  The query is assumed to succeed: do_cd does not look, and
\* would go on with a variable nobody has set.
CodesFrom(rows, f) ==
    IF rows = {} THEN {-1} ELSE {IF r.type = "d" THEN r[f] ELSE -1 : r \in rows}

\* A row in rm's hands; a file has no entries to look for.
InHand(r) == [row |-> r, listed |-> r.type # "d", left |-> {}]

\* One final separator is cut from a longer name.
Strip(n) == IF Len(n) > 1 /\ Last(n) = Sep THEN Front(n) ELSE n

\* The path up to its last separator.
Separators(p) == {i \in DOMAIN p : p[i] = Sep}
Cut(p) == LET i == CHOOSE i \in Separators(p) : \A j \in Separators(p) : j <= i
          IN  SubSeq(p, 1, i - 1)

Insert(s, dir, n, type, c) ==
    /\ nextId \in Id
    /\ userFile' = userFile \cup {[id |-> nextId, precode |-> dir, name |-> n,
                                   type |-> type, owner |-> UserOf[s], content |-> c]}
    /\ nextId' = nextId + 1

\* The main thread is free to take the next command.
MainFree == up /\ rmTodo = <<>>

-----------------------------------------------------------------------------
\* cd.  "cd ." changes nothing; "cd //" is "cd /".

CdRoot(s) ==
    /\ MainFree
    /\ code' = [code EXCEPT ![s] = 0]
    /\ path' = [path EXCEPT ![s] = Slash]
    /\ plain' = [plain EXCEPT ![s] = TRUE]
    /\ UNCHANGED <<userFile, nextId, poolVars, rmVars, job, up>>

\* Mutant of CdUp: the path is not cut.
CdUpOnlyCode(s) ==
    /\ MainFree
    /\ path[s] # Slash \/ code[s] # 0
    /\ \E dir \in CodesFrom({r \in userFile : r.owner = UserOf[s] /\ r.id = code[s]},
                           "precode") :
           /\ code' = [code EXCEPT ![s] = dir]
           /\ path' = [path EXCEPT ![s] = IF dir = 0 THEN Slash ELSE @]
           /\ plain' = [plain EXCEPT ![s] = @ \/ dir = 0]
    /\ UNCHANGED <<userFile, nextId, poolVars, rmVars, job, up>>

\* cd .. looks up the parent; a current directory whose row is gone has none.
\* The path loses what follows its last separator, which is not the whole name
\* if that has one in it; in a path without any, strrchr returns NULL.
CdUp(s) ==
    /\ MainFree
    /\ path[s] # Slash \/ code[s] # 0
    /\ \E dir \in CodesFrom({r \in userFile : r.owner = UserOf[s] /\ r.id = code[s]},
                           "precode") :
           /\ code' = [code EXCEPT ![s] = dir]
           /\ path' = [path EXCEPT ![s] = IF dir = 0 THEN Slash
                                          ELSE IF Separators(@) = {} THEN @ ELSE Cut(@)]
           /\ plain' = [plain EXCEPT ![s] = @ \/ dir = 0]
           /\ up' = (dir = 0 \/ Separators(path[s]) # {})
    /\ UNCHANGED <<userFile, nextId, poolVars, rmVars, job>>

CdDir(s, n) ==
    /\ MainFree /\ Strip(n) # Slash
    /\ \E dir \in CodesFrom(Named(UserOf[s], code[s], Strip(n)), "id") :
          /\ dir # -1
          /\ code' = [code EXCEPT ![s] = dir]
    /\ path' = [path EXCEPT ![s] = (IF @ = Slash THEN @ ELSE @ \o Slash) \o Strip(n)]
    /\ plain' = [plain EXCEPT ![s] = @ /\ Plain(Strip(n))]
    /\ UNCHANGED <<userFile, nextId, poolVars, rmVars, job, up>>

\* mkdir inserts what it was given, separators and all: the test for a final one
\* looks at the terminating zero, and nothing asks whether the name is taken.
Mkdir(s, n) ==
    /\ MainFree /\ n # Slash
    /\ Insert(s, code[s], n, "d", None)
    /\ UNCHANGED <<poolVars, cdVars, rmVars, job, up>>

-----------------------------------------------------------------------------
\* rm.  delete_mysql_for_rm works on one row, and delete_folders_recursively on those of a
\* directory; rmTodo is the stack of rows they have in hand, with what each call still has to fetch.

Rm(s, n) ==
    /\ MainFree
    /\ \E r \in Named(UserOf[s], code[s], n) :
          /\ rmUser' = UserOf[s]
          /\ rmTodo' = <<InHand(r)>>
    /\ UNCHANGED <<userFile, nextId, poolVars, cdVars, job, up>>

RmTop == Last(rmTodo)

\* The row in hand is a directory: its entries are selected, all at once.
RmList ==
    /\ up /\ rmTodo # <<>> /\ ~RmTop.listed
    /\ rmTodo' = Append(Front(rmTodo), [row |-> RmTop.row, listed |-> TRUE,
                                        left |-> Entries(rmUser, RmTop.row.id)])
    /\ UNCHANGED <<userFile, nextId, poolVars, cdVars, rmUser, job, up>>

RmFetch ==
    /\ up /\ rmTodo # <<>> /\ RmTop.listed
    /\ \E r \in RmTop.left :
          rmTodo' = Front(rmTodo) \o <<[RmTop EXCEPT !.left = @ \ {r}], InHand(r)>>
    /\ UNCHANGED <<userFile, nextId, poolVars, cdVars, rmUser, job, up>>

\* A statement fails.  The recursion then closes the connection of its callers,
\* who go on using it: their statements fail too, or the process dies.
RmFails ==
    /\ up /\ rmTodo # <<>> /\ (RmTop.listed => RmTop.left = {})
    /\ rmTodo' = <<>> /\ rmUser' = None
    /\ up' \in IF Len(rmTodo) = 1 /\ RmTop.listed THEN {TRUE} ELSE BOOLEAN
    /\ UNCHANGED <<userFile, nextId, poolVars, cdVars, job>>

\* Mutant of RmDelete: a directory goes before its entries.
RmDeleteTopFirst ==
    /\ up /\ rmTodo # <<>> /\ RmTop.listed
    /\ userFile' = {r \in userFile : r.owner = rmUser => r.id # RmTop.row.id}
    /\ IF RmTop.left = {} THEN rmTodo' = Front(rmTodo) ELSE UNCHANGED rmTodo
    /\ rmUser' = IF rmTodo' = <<>> THEN None ELSE rmUser
    /\ UNCHANGED <<nextId, poolVars, cdVars, job, up>>

RmDelete ==
    /\ up /\ rmTodo # <<>> /\ RmTop.listed /\ RmTop.left = {}
    /\ userFile' = {r \in userFile : r.owner = rmUser => r.id # RmTop.row.id}
    /\ rmTodo' = Front(rmTodo)
    /\ rmUser' = IF rmTodo' = <<>> THEN None ELSE rmUser
    /\ UNCHANGED <<nextId, poolVars, cdVars, job, up>>

-----------------------------------------------------------------------------
\* do_puts.  The task holds a pointer to the client, so every use of code[s]
\* reads the directory the client is in at that moment.

At(w, step)   == up /\ job[w].at = step
Goto(w, step) == job' = [job EXCEPT ![w].at = step]
End(w)        == job' = [job EXCEPT ![w] = Idle]
Start(w, step, s, n, c) ==
    /\ up /\ job[w] = Idle
    /\ job' = [job EXCEPT ![w] =
                 [at |-> step, s |-> s, name |-> n, content |-> c, dir |-> -1]]

StartPuts(w, s, n, c) ==
    /\ Start(w, "check", s, n, c)
    /\ UNCHANGED <<userFile, nextId, poolVars, cdVars, rmVars, up>>

FilesNamed(s, n) == {r \in Named(UserOf[s], code[s], n) : r.type = "f"}

\* A file of that name in the current directory refuses the upload.
CheckName(w) ==
    /\ At(w, "check")
    /\ IF FilesNamed(job[w].s, job[w].name) # {} THEN End(w) ELSE Goto(w, "pool")
    /\ UNCHANGED <<userFile, nextId, poolVars, cdVars, rmVars, up>>

\* A FilePool row with this size and MD5 makes the upload instant.
SelectPool(w) ==
    /\ At(w, "pool")
    /\ Goto(w, IF filePool[job[w].content] > 0 THEN "prepare" ELSE "open")
    /\ UNCHANGED <<userFile, nextId, poolVars, cdVars, rmVars, up>>

\* recv_file opens the pool file and sets its size before the content comes.
OpenPool(w) ==
    /\ At(w, "open")
    /\ disk' = [disk EXCEPT ![job[w].content] = IF @ = "absent" THEN "partial" ELSE @]
    /\ Goto(w, "recv")
    /\ UNCHANGED <<userFile, nextId, filePool, cdVars, rmVars, up>>

\* Mutant of Received: the file gets no FilePool row.
ReceivedSkipsPool(w) ==
    /\ At(w, "recv")
    /\ disk' = [disk EXCEPT ![job[w].content] = "whole"]
    /\ Goto(w, "prepare")
    /\ UNCHANGED <<userFile, nextId, filePool, cdVars, rmVars, up>>

Received(w) ==
    /\ At(w, "recv")
    /\ disk' = [disk EXCEPT ![job[w].content] = "whole"]
    /\ Goto(w, "addpool")
    /\ UNCHANGED <<userFile, nextId, filePool, cdVars, rmVars, up>>

\* Mutant of RecvLost: the result of recv_file is not looked at.
RecvLostGoesOn(w) ==
    /\ At(w, "recv")
    /\ Goto(w, "addpool")
    /\ UNCHANGED <<userFile, nextId, poolVars, cdVars, rmVars, up>>

\* The sender is gone: recv_file returns -1 and the task ends.
RecvLost(w) ==
    /\ At(w, "recv")
    /\ End(w)
    /\ UNCHANGED <<userFile, nextId, poolVars, cdVars, rmVars, up>>

InsertPool(w) ==
    /\ At(w, "addpool")
    /\ filePool' = [filePool EXCEPT ![job[w].content] = @ + 1]
    /\ Goto(w, "prepare")
    /\ UNCHANGED <<userFile, nextId, disk, cdVars, rmVars, up>>

\* The statement is written with the directory of this moment ...
PrepareFile(w) ==
    /\ At(w, "prepare")
    /\ job' = [job EXCEPT ![w].at = "insert", ![w].dir = code[job[w].s]]
    /\ UNCHANGED <<userFile, nextId, poolVars, cdVars, rmVars, up>>

\* ... and runs later.
InsertFile(w) ==
    /\ At(w, "insert")
    /\ LET j == job[w] IN Insert(j.s, j.dir, j.name, "f", j.content)
    /\ End(w)
    /\ UNCHANGED <<poolVars, cdVars, rmVars, up>>

\* A statement fails: the checks after it end the task.  do_gets has no check,
\* and takes the file for missing.
SqlFails(w) ==
    /\ \E step \in {"check", "pool", "addpool", "insert", "find"} : At(w, step)
    /\ End(w)
    /\ UNCHANGED <<userFile, nextId, poolVars, cdVars, rmVars, up>>

-----------------------------------------------------------------------------
\* do_gets.

StartGets(w, s, n) ==
    /\ Start(w, "find", s, n, None)
    /\ UNCHANGED <<userFile, nextId, poolVars, cdVars, rmVars, up>>

FindFile(w) ==
    /\ At(w, "find")
    /\ LET rows == FilesNamed(job[w].s, job[w].name)
       IN  IF rows = {} THEN End(w)
           ELSE \E r \in rows :
                   job' = [job EXCEPT ![w].at = "send", ![w].content = r.content]
    /\ UNCHANGED <<userFile, nextId, poolVars, cdVars, rmVars, up>>

\* send_file: the pool file is sent, or the peer is lost on the way.
SendFile(w) ==
    /\ At(w, "send")
    /\ End(w)
    /\ UNCHANGED <<userFile, nextId, poolVars, cdVars, rmVars, up>>

-----------------------------------------------------------------------------
MainCommand == \E s \in Session :
                  \/ CdRoot(s) \/ CdUp(s)
                  \/ \E n \in Name : CdDir(s, n) \/ Mkdir(s, n) \/ Rm(s, n)

RmStep == RmList \/ RmFetch \/ RmDelete \/ RmFails

WorkerStep(w) == \/ CheckName(w) \/ SelectPool(w) \/ OpenPool(w) \/ Received(w)
                 \/ InsertPool(w) \/ PrepareFile(w) \/ InsertFile(w) \/ FindFile(w) \/ SendFile(w)

Request(w) == \E s \in Session, n \in Name :
                 \/ StartGets(w, s, n)
                 \/ \E c \in Content : StartPuts(w, s, n, c)

Next == \/ MainCommand \/ RmStep
        \/ \E w \in Worker : \/ Request(w) \/ WorkerStep(w)
                             \/ RecvLost(w) \/ SqlFails(w)

Spec == Init /\ [][Next]_vars

-----------------------------------------------------------------------------
\* Properties.

\* A FilePool row, which makes later uploads instant, is there only when the
\* whole content is in the pool directory, whatever uploads were interrupted or
\* ran side by side into the same file.
PoolRowsWhole == \A c \in Content : filePool[c] > 0 => disk[c] = "whole"

\* A file a user can see has its content in the pool, so a download that found
\* its name sends the whole file, even if the row is removed meanwhile.
FilesInPool ==
    /\ \A r \in userFile : r.type = "f" => filePool[r.content] > 0
    /\ \A w \in Worker :
          job[w].at = "send" => disk[job[w].content] = "whole"

IsDir(d, u) == d.type = "d" /\ d.owner = u

\* The directories ds lead from the root to the directory d of u.
LeadsTo(ds, u, d) ==
    /\ \A i \in DOMAIN ds : /\ IsDir(ds[i], u)
                            /\ ds[i].precode = IF i = 1 THEN 0 ELSE ds[i - 1].id
    /\ ds # <<>> /\ ds[Len(ds)].id = d

\* The path p is written with their names.
Spells(p, ds) ==
    /\ Len(p) = 2 * Len(ds)
    /\ \A i \in DOMAIN ds : p[2 * i - 1] = Sep /\ ds[i].name = <<p[2 * i]>>

\* The user u is logged in once at most.
OnlyOnce(u) == \A s, t \in Session : UserOf[s] = u /\ UserOf[t] = u => s = t

\* Whatever other sessions of the user remove, the number a client keeps never comes to
\* mean a file or another user's directory.  The directory of a client whose user is logged
\* in once is there, up to the root; and pwd shows it, "/" just in the root, and else, if the
\* names entered since then were plain, one after the other.  (With a separator in one of
\* them, cd .. leaves a path that is not that of the directory it goes to.)
PathMatchesCode ==
    \A s \in Session :
        /\ \A r \in userFile : r.id = code[s] => IsDir(r, UserOf[s])
        /\ OnlyOnce(UserOf[s]) =>
              /\ path[s] = Slash <=> code[s] = 0
              /\ code[s] # 0 =>
                    \E k \in Id : \E ds \in [1..k -> userFile] :
                        /\ LeadsTo(ds, UserOf[s], code[s])
                        /\ plain[s] => Spells(path[s], ds)

Rooted(r) == r.precode = 0 \/ \E d \in userFile :
                                 d.id = r.precode /\ d.type = "d" /\ d.owner = r.owner

\* Every directory of a user who is logged in once hangs in one of his that exists: rm leaves
\* none behind, not even half-way or while files are uploaded.
TreeRooted == \A r \in userFile : r.type = "d" /\ OnlyOnce(r.owner) => Rooted(r)

\* A recursive rm deletes only what lies beneath the entry it was given: never
\* a row beside it, nor another user's.
Subtree(top) ==
    {r \in userFile : \A rows \in SUBSET userFile :
        top \in rows /\ (\A x \in userFile : (\E d \in rows : x.precode = d.id) => x \in rows)
        => r \in rows}

RmStaysInside ==
    \A i \in DOMAIN rmTodo : \A r \in {rmTodo[i].row} \cup rmTodo[i].left :
        r \in Subtree(rmTodo[1].row) /\ r.owner = rmUser

-----------------------------------------------------------------------------
\* Expectations the code does not meet.

\* ReadMe.md:12: rm of a directory removes all files in it.  Once rm is over
\* and no upload is under way, nothing hangs in a directory that is gone.
NothingLeftBehind ==
    rmTodo = <<>> /\ (\A w \in Worker : job[w] = Idle) =>
        \A r \in userFile : Rooted(r)
====
