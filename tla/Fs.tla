---- MODULE Fs ----
(***************************************************************************)
(* xv6: inodes, directories and the system calls on names (kernel/fs.c,    *)
(* kernel/sysfile.c).                                                      *)
(*                                                                         *)
(* An action is what a call does while it holds the sleep locks of its     *)
(* inodes, from one place where it may wait to the next.  Every call is a  *)
(* transaction of the log, which reaches the disk when no call is running  *)
(* (module Log); a crash goes back to the last such moment, which is the   *)
(* same as crashing at that moment.                                        *)
(*                                                                         *)
(* A directory is a function from names to inode numbers; that adding an   *)
(* entry may need a block, and fail, is a choice.                          *)
(***************************************************************************)
EXTENDS Naturals, Sequences, FiniteSets, TLC, SequencesExt, FiniteSetsExt

CONSTANTS Proc,
          Inum,      \* the inode numbers: 1, the root, up to ninodes - 1
          Name,      \* names of entries other than "." and ".."
          PATHLEN,   \* bound: the elements of a path
          DotDot,    \* whether programs go through ".."
          NULL

ROOTINO == 1

ASSUME FsAssumption ==
    /\ IsFiniteSet(Proc) /\ IsFiniteSet(Inum) /\ IsFiniteSet(Name)
    /\ ROOTINO \in Inum /\ Inum \subseteq Nat \ {0}
    /\ ".." \notin Name
    /\ NULL \notin Inum /\ NULL \notin Proc /\ NULL \notin {"link", "link2"}
    /\ PATHLEN \in Nat /\ DotDot \in BOOLEAN

VARIABLES dinode,    \* the inodes on disk, as the buffer cache has them
          mem,       \* the copies in the inode table
          valid,     \* ip->valid
          ref,       \* ip->ref
          lock,      \* who holds ip->lock
          cwd,       \* p->cwd
          file,      \* the inode of p's open file, or NULL
          pc,        \* where p is in its call, "user" outside
          call,      \* the system call
          path,      \* its path
          pos,       \* the element of the path that is looked up next
          new,       \* link(): the path of the new name
          ip,        \* the inode p works on
          other,     \* the inode besides ip: the one being linked, removed or created
          puts       \* the inodes p is about to pass to iput()

table  == <<mem, valid, ref, lock>>
locals == <<pc, call, path, pos, new, ip, other>>
vars   == <<dinode, table, cwd, file, locals, puts>>

Free  == [type |-> "none", nlink |-> 0, ents |-> [n \in Name \cup {".."} |-> 0]]
Root  == [Free EXCEPT !.type = "dir", !.nlink = 1, !.ents[".."] = ROOTINO]
Paths == SeqOf(Name \cup IF DotDot THEN {".."} ELSE {}, PATHLEN) \ {<<>>}
Calls == {"open", "create", "mkdir", "mknod", "unlink", "link", "chdir"}

\* No call runs, every process is in the root and has no file.
Idle ==
    /\ mem = [i \in Inum |-> Free]
    /\ valid = [i \in Inum |-> FALSE]
    /\ ref = [i \in Inum |-> IF i = ROOTINO THEN Cardinality(Proc) ELSE 0]
    /\ lock = [i \in Inum |-> NULL]
    /\ cwd = [p \in Proc |-> ROOTINO]
    /\ file = [p \in Proc |-> NULL]
    /\ pc = [p \in Proc |-> "user"]
    /\ call = [p \in Proc |-> NULL]
    /\ path = [p \in Proc |-> <<>>]
    /\ pos = [p \in Proc |-> 1]
    /\ new = [p \in Proc |-> NULL]
    /\ ip = [p \in Proc |-> NULL]
    /\ other = [p \in Proc |-> NULL]
    /\ puts = [p \in Proc |-> <<>>]

Init == Idle /\ dinode = [i \in Inum |-> IF i = ROOTINO THEN Root ELSE Free]

-----------------------------------------------------------------------------
\* Locking and the inode table.

\* What ilock() shows of i: it reads the inode in unless the copy is valid.
Look(i) == IF valid[i] THEN mem[i] ELSE dinode[i]

\* p is at s and can lock i.
At(p, s, i) == /\ pc[p] = s /\ puts[p] = <<>>
               /\ lock[i] = NULL /\ Look(i).type # "none"

\* The locked inode i becomes d, and j e: in the table, and by iupdate() and writei()
\* on the disk.
Update2(i, d, j, e) ==
    /\ mem' = [mem EXCEPT ![i] = d, ![j] = e]
    /\ dinode' = [dinode EXCEPT ![i] = d, ![j] = e]
    /\ valid' = [valid EXCEPT ![i] = TRUE, ![j] = TRUE]
Update(i, d) == Update2(i, d, i, d)
Reads(i) == Update(i, Look(i))

\* iget() and idup().
Hold(i) == ref' = [ref EXCEPT ![i] = @ + 1]

Goto(p, s) == pc' = [pc EXCEPT ![p] = s] /\ UNCHANGED <<call, path, pos, new, ip, other>>

\* The call is over, but for the references it gives up.
Finish(p, s) ==
    /\ puts' = [puts EXCEPT ![p] = s]
    /\ pc' = [pc EXCEPT ![p] = "user"]
    /\ call' = [call EXCEPT ![p] = NULL]
    /\ path' = [path EXCEPT ![p] = <<>>]
    /\ pos' = [pos EXCEPT ![p] = 1]
    /\ new' = [new EXCEPT ![p] = NULL]
    /\ ip' = [ip EXCEPT ![p] = NULL]
    /\ other' = [other EXCEPT ![p] = NULL]

-----------------------------------------------------------------------------
\* Path names.

Elem(p) == path[p][pos[p]]
IsLast(p) == pos[p] = Len(path[p])

\* nameiparent() rather than namei().
WantsParent(p) == call[p] \notin {"open", "chdir", "link"}

Begin(p, c, s, t, start) ==
    /\ pc[p] = "user" /\ puts[p] = <<>>
    /\ start \in {ROOTINO, cwd[p]}
    /\ call' = [call EXCEPT ![p] = c]
    /\ path' = [path EXCEPT ![p] = s]
    /\ new' = [new EXCEPT ![p] = t]
    /\ ip' = [ip EXCEPT ![p] = start]
    /\ pc' = [pc EXCEPT ![p] = IF s = <<>> THEN "found" ELSE "walk"]
    /\ Hold(start)
    /\ UNCHANGED <<dinode, mem, valid, lock, cwd, file, pos, other, puts>>

\* link() takes back the count of the inode, and gives up i.
Undo(p, i) ==
    /\ puts' = [puts EXCEPT ![p] = <<i>>]
    /\ pc' = [pc EXCEPT ![p] = "undo"]
    /\ ip' = [ip EXCEPT ![p] = NULL]
    /\ UNCHANGED <<call, path, pos, new, other>>

\* One pass of the loop of namex().
Walk(p) ==
    LET i    == ip[p]
        dp   == Look(i)
        stop == IsLast(p) /\ WantsParent(p)
        next == dp.ents[Elem(p)]
    IN /\ At(p, "walk", i)
       /\ Reads(i)
       /\ \/ /\ dp.type # "dir" \/ (next = 0 /\ ~stop)
             /\ IF call[p] = "link2"
                THEN Undo(p, i)
                ELSE Finish(p, <<i>>)
             /\ UNCHANGED ref
          \/ /\ dp.type = "dir" /\ stop
             /\ Goto(p, "parent")
             /\ UNCHANGED <<ref, puts>>
          \/ /\ dp.type = "dir" /\ next # 0 /\ ~stop
             /\ Hold(next)
             /\ puts' = [puts EXCEPT ![p] = <<i>>]
             /\ ip' = [ip EXCEPT ![p] = next]
             /\ pos' = [pos EXCEPT ![p] = IF IsLast(p) THEN @ ELSE @ + 1]
             /\ pc' = [pc EXCEPT ![p] = IF IsLast(p) THEN "found" ELSE "walk"]
             /\ UNCHANGED <<call, path, new, other>>
       /\ UNCHANGED <<lock, cwd, file>>

-----------------------------------------------------------------------------
\* open(), without O_CREATE, chdir() and close().

\* The end of open() with i and the references in first still to give up: there may
\* be no file or no descriptor left.
OpenFile(p, i, first) ==
    IF file[p] = NULL
    THEN file' = [file EXCEPT ![p] = i] /\ Finish(p, first)
    ELSE Finish(p, first \o <<i>>) /\ UNCHANGED file

Open(p) ==
    /\ call[p] = "open"
    /\ At(p, "found", ip[p])
    /\ Reads(ip[p])
    /\ OpenFile(p, ip[p], <<>>)
    /\ UNCHANGED <<ref, lock, cwd>>

Chdir(p) ==
    /\ call[p] = "chdir"
    /\ At(p, "found", ip[p])
    /\ Reads(ip[p])
    /\ IF Look(ip[p]).type = "dir"
       THEN Finish(p, <<cwd[p]>>) /\ cwd' = [cwd EXCEPT ![p] = ip[p]]
       ELSE Finish(p, <<ip[p]>>) /\ UNCHANGED cwd
    /\ UNCHANGED <<ref, lock, file>>

Close(p) ==
    /\ pc[p] = "user" /\ puts[p] = <<>>
    /\ file[p] # NULL
    /\ puts' = [puts EXCEPT ![p] = <<file[p]>>]
    /\ file' = [file EXCEPT ![p] = NULL]
    /\ UNCHANGED <<dinode, table, cwd, locals>>

-----------------------------------------------------------------------------
\* Mutant: link() enters a name that is not counted.
LinkOldUncounted(p, start) ==
    LET i == ip[p]
    IN /\ call[p] = "link"
       /\ At(p, "found", i)
       /\ start \in {ROOTINO, cwd[p]}
       /\ \/ /\ Look(i).type = "dir"
             /\ Reads(i)
             /\ Finish(p, <<i>>)
             /\ UNCHANGED ref
          \/ /\ Look(i).type # "dir"
             /\ Update(i, [Look(i) EXCEPT !.nlink = @])
             /\ call' = [call EXCEPT ![p] = "link2"]
             /\ path' = [path EXCEPT ![p] = new[p]]
             /\ pos' = [pos EXCEPT ![p] = 1]
             /\ new' = [new EXCEPT ![p] = NULL]
             /\ other' = [other EXCEPT ![p] = i]
             /\ ip' = [ip EXCEPT ![p] = start]
             /\ pc' = [pc EXCEPT ![p] = "walk"]
             /\ Hold(start)
             /\ UNCHANGED puts
       /\ UNCHANGED <<lock, cwd, file>>

\* link(): the count first, then the walk to the directory of the new name.
LinkOld(p, start) ==
    LET i == ip[p]
    IN /\ call[p] = "link"
       /\ At(p, "found", i)
       /\ start \in {ROOTINO, cwd[p]}
       /\ \/ /\ Look(i).type = "dir"
             /\ Reads(i)
             /\ Finish(p, <<i>>)
             /\ UNCHANGED ref
          \/ /\ Look(i).type # "dir"
             /\ Update(i, [Look(i) EXCEPT !.nlink = @ + 1])
             /\ call' = [call EXCEPT ![p] = "link2"]
             /\ path' = [path EXCEPT ![p] = new[p]]
             /\ pos' = [pos EXCEPT ![p] = 1]
             /\ new' = [new EXCEPT ![p] = NULL]
             /\ other' = [other EXCEPT ![p] = i]
             /\ ip' = [ip EXCEPT ![p] = start]
             /\ pc' = [pc EXCEPT ![p] = "walk"]
             /\ Hold(start)
             /\ UNCHANGED puts
       /\ UNCHANGED <<lock, cwd, file>>

\* dirlink(): the name exists, or there is no block for it, or it is entered.
LinkNew(p) ==
    LET dp == ip[p]
        n  == Elem(p)
    IN /\ call[p] = "link2"
       /\ At(p, "parent", dp)
       /\ \/ /\ Reads(dp)
             /\ Undo(p, dp)
          \/ /\ Look(dp).ents[n] = 0
             /\ Update(dp, [Look(dp) EXCEPT !.ents[n] = other[p]])
             /\ Finish(p, <<dp, other[p]>>)
       /\ UNCHANGED <<ref, lock, cwd, file>>

LinkUndo(p) ==
    LET i == other[p]
    IN /\ At(p, "undo", i)
       /\ Update(i, [Look(i) EXCEPT !.nlink = @ - 1])
       /\ Finish(p, <<i>>)
       /\ UNCHANGED <<ref, lock, cwd, file>>

-----------------------------------------------------------------------------
\* Mutant: ".." can be removed.
UnlinkParentDotDot(p) ==
    LET dp == ip[p]
        n  == Elem(p)
        i  == Look(dp).ents[n]
    IN /\ call[p] = "unlink"
       /\ At(p, "parent", dp)
       /\ Reads(dp)
       /\ \/ /\ i = 0
             /\ Finish(p, <<dp>>)
             /\ UNCHANGED <<ref, lock>>
          \/ /\ i # 0
             /\ Hold(i)
             /\ lock' = [lock EXCEPT ![dp] = p]
             /\ other' = [other EXCEPT ![p] = i]
             /\ pc' = [pc EXCEPT ![p] = "child"]
             /\ UNCHANGED <<call, path, pos, new, ip, puts>>
       /\ UNCHANGED <<cwd, file>>

\* unlink(): the directory stays locked while the inode of the entry is locked.
UnlinkParent(p) ==
    LET dp == ip[p]
        n  == Elem(p)
        i  == Look(dp).ents[n]
    IN /\ call[p] = "unlink"
       /\ At(p, "parent", dp)
       /\ Reads(dp)
       /\ \/ /\ n = ".." \/ i = 0
             /\ Finish(p, <<dp>>)
             /\ UNCHANGED <<ref, lock>>
          \/ /\ n # ".." /\ i # 0
             /\ Hold(i)
             /\ lock' = [lock EXCEPT ![dp] = p]
             /\ other' = [other EXCEPT ![p] = i]
             /\ pc' = [pc EXCEPT ![p] = "child"]
             /\ UNCHANGED <<call, path, pos, new, ip, puts>>
       /\ UNCHANGED <<cwd, file>>

IsDirEmpty(d) == \A n \in Name : d.ents[n] = 0

UnlinkChild(p) ==
    LET dp    == ip[p]
        i     == other[p]
        d     == Look(i)
        isdir == IF d.type = "dir" THEN 1 ELSE 0
    IN /\ At(p, "child", i)
       /\ d.nlink > 0
       /\ lock' = [lock EXCEPT ![dp] = NULL]
       /\ \/ /\ d.type = "dir" /\ ~IsDirEmpty(d)
             /\ Reads(i)
             /\ Finish(p, <<i, dp>>)
          \/ /\ d.type # "dir" \/ IsDirEmpty(d)
             /\ Update2(dp, [mem[dp] EXCEPT !.ents[Elem(p)] = 0, !.nlink = @ - isdir],
                        i, [d EXCEPT !.nlink = @ - 1])
             /\ Finish(p, <<dp, i>>)
       /\ UNCHANGED <<ref, cwd, file>>

-----------------------------------------------------------------------------
\* create(), for open with O_CREATE, mkdir and mknod; a device is a file here.

FreeInodes == {i \in Inum : dinode[i].type = "none"}

\* ialloc(): the first free inode; the table may still have an entry for it, which
\* whoever freed the inode is about to give up.
CreateLookup(p) ==
    LET dp    == ip[p]
        found == Look(dp).ents[Elem(p)]
        i     == Min(FreeInodes)
        type  == IF call[p] = "mkdir" THEN "dir" ELSE "file"
    IN /\ call[p] \in {"create", "mkdir", "mknod"}
       /\ At(p, "parent", dp)
       /\ \/ /\ found # 0
             /\ Reads(dp)
             /\ Hold(found)
             /\ puts' = [puts EXCEPT ![p] = <<dp>>]
             /\ ip' = [ip EXCEPT ![p] = found]
             /\ pc' = [pc EXCEPT ![p] = "exists"]
             /\ UNCHANGED <<lock, call, path, pos, new, other>>
          \/ /\ found = 0 /\ FreeInodes = {}
             /\ Reads(dp)
             /\ Finish(p, <<dp>>)
             /\ UNCHANGED <<ref, lock>>
          \/ /\ found = 0 /\ FreeInodes # {}
             /\ dinode' = [dinode EXCEPT ![i] = [Free EXCEPT !.type = type]]
             /\ mem' = [mem EXCEPT ![dp] = Look(dp)]
             /\ valid' = [valid EXCEPT ![dp] = TRUE]
             /\ Hold(i)
             /\ lock' = [lock EXCEPT ![dp] = p]
             /\ other' = [other EXCEPT ![p] = i]
             /\ pc' = [pc EXCEPT ![p] = "fill"]
             /\ UNCHANGED <<call, path, pos, new, ip, puts>>
       /\ UNCHANGED <<cwd, file>>
\* Mutant: the reference to a name that exists already is kept.
CreateExistsKeeps(p) ==
    LET i == ip[p]
    IN /\ At(p, "exists", i)
       /\ Reads(i)
       /\ IF call[p] = "create" /\ Look(i).type = "file"
          THEN OpenFile(p, i, <<>>)
          ELSE Finish(p, <<>>) /\ UNCHANGED file
       /\ UNCHANGED <<ref, lock, cwd>>


CreateExists(p) ==
    LET i == ip[p]
    IN /\ At(p, "exists", i)
       /\ Reads(i)
       /\ IF call[p] = "create" /\ Look(i).type = "file"
          THEN OpenFile(p, i, <<>>)
          ELSE Finish(p, <<i>>) /\ UNCHANGED file
       /\ UNCHANGED <<ref, lock, cwd>>

\* The new inode gets its fields and its entry; or a block is missing for that, and
\* it is given back.
CreateFill(p) ==
    LET dp    == ip[p]
        i     == other[p]
        d     == Look(i)
        isdir == IF d.type = "dir" THEN 1 ELSE 0
    IN /\ At(p, "fill", i)
       /\ lock' = [lock EXCEPT ![dp] = NULL]
       /\ \/ /\ Reads(i)
             /\ Finish(p, <<i, dp>>)
             /\ UNCHANGED file
          \/ /\ Update2(dp, [mem[dp] EXCEPT !.ents[Elem(p)] = i, !.nlink = @ + isdir],
                        i, [d EXCEPT !.nlink = 1, !.ents[".."] = isdir * dp])
             /\ IF call[p] = "create"
                THEN OpenFile(p, i, <<dp>>)
                ELSE Finish(p, <<dp, i>>) /\ UNCHANGED file
       /\ UNCHANGED <<ref, cwd>>

-----------------------------------------------------------------------------
\* iput(): an inode without links that p has the last reference to is truncated and
\* freed, under its own lock and not that of the table.  An entry nobody refers to
\* is as good as recycled.
Putting(p) == puts[p] # <<>>

\* Mutant: an inode without links is freed whoever else refers to it.
IsAnyPut(i) == valid[i] /\ mem[i].nlink = 0

IsLastPut(i) == ref[i] = 1 /\ valid[i] /\ mem[i].nlink = 0

Iput(p) ==
    LET i == Head(puts[p])
    IN /\ Putting(p) /\ lock[i] # p /\ ~IsLastPut(i)
       /\ ref' = [ref EXCEPT ![i] = @ - 1]
       /\ valid' = [valid EXCEPT ![i] = @ /\ ref[i] > 1]
       /\ mem' = [mem EXCEPT ![i] = IF ref[i] > 1 THEN @ ELSE Free]
       /\ puts' = [puts EXCEPT ![p] = Tail(@)]
       /\ UNCHANGED <<dinode, lock, cwd, file, locals>>

IputFree(p) ==
    LET i == Head(puts[p])
    IN /\ Putting(p) /\ lock[i] = NULL /\ IsLastPut(i)
       /\ lock' = [lock EXCEPT ![i] = p]
       /\ dinode' = [dinode EXCEPT ![i] = Free]
       /\ mem' = [mem EXCEPT ![i] = Free]
       /\ UNCHANGED <<valid, ref, cwd, file, locals, puts>>
\* Mutant: the copy of a freed inode stays valid for whoever has got the entry meanwhile.
IputDoneValid(p) ==
    LET i == Head(puts[p])
    IN /\ Putting(p) /\ lock[i] = p
       /\ valid' = [valid EXCEPT ![i] = ref[i] > 1]
       /\ lock' = [lock EXCEPT ![i] = NULL]
       /\ ref' = [ref EXCEPT ![i] = @ - 1]
       /\ puts' = [puts EXCEPT ![p] = Tail(@)]
       /\ UNCHANGED <<dinode, mem, cwd, file, locals>>


IputDone(p) ==
    LET i == Head(puts[p])
    IN /\ Putting(p) /\ lock[i] = p
       /\ valid' = [valid EXCEPT ![i] = FALSE]
       /\ lock' = [lock EXCEPT ![i] = NULL]
       /\ ref' = [ref EXCEPT ![i] = @ - 1]
       /\ puts' = [puts EXCEPT ![p] = Tail(@)]
       /\ UNCHANGED <<dinode, mem, cwd, file, locals>>

-----------------------------------------------------------------------------
\* The inode p is about to lock for its call.
Wanted(p) == CASE pc[p] \in {"walk", "found", "parent", "exists"} -> ip[p]
               [] pc[p] \in {"child", "fill", "undo"}             -> other[p]
               [] OTHER                                           -> NULL
Locking(p) == puts[p] = <<>> /\ Wanted(p) # NULL

\* "ilock: no type", and "unlink: nlink < 1".
Panics(p) ==
    LET i == Wanted(p)
    IN /\ Locking(p) /\ lock[i] = NULL
       /\ Look(i).type = "none" \/ (pc[p] = "child" /\ Look(i).nlink < 1)

Quiescent == \A p \in Proc : pc[p] = "user" /\ puts[p] = <<>>

Crash ==
    /\ Quiescent
    /\ UNCHANGED dinode
    /\ mem' = [i \in Inum |-> Free]
    /\ valid' = [i \in Inum |-> FALSE]
    /\ ref' = [i \in Inum |-> IF i = ROOTINO THEN Cardinality(Proc) ELSE 0]
    /\ lock' = [i \in Inum |-> NULL]
    /\ cwd' = [p \in Proc |-> ROOTINO]
    /\ file' = [p \in Proc |-> NULL]
    /\ pc' = [p \in Proc |-> "user"]
    /\ call' = [p \in Proc |-> NULL]
    /\ path' = [p \in Proc |-> <<>>]
    /\ pos' = [p \in Proc |-> 1]
    /\ new' = [p \in Proc |-> NULL]
    /\ ip' = [p \in Proc |-> NULL]
    /\ other' = [p \in Proc |-> NULL]
    /\ puts' = [p \in Proc |-> <<>>]

SysCall(p) ==
    \/ \E c \in Calls, start \in {ROOTINO, cwd[p]} :
         \E s \in Paths \cup IF c = "unlink" THEN {<<"..">>} ELSE {},
            t \in IF c = "link" THEN Paths ELSE {NULL} : Begin(p, c, s, t, start)
    \/ Begin(p, "chdir", <<>>, NULL, ROOTINO)

Next ==
    \/ \E p \in Proc :
         \/ SysCall(p)
         \/ Walk(p) \/ Open(p) \/ Chdir(p) \/ Close(p)
         \/ \E start \in {ROOTINO, cwd[p]} : LinkOld(p, start)
         \/ LinkNew(p) \/ LinkUndo(p) \/ UnlinkParent(p) \/ UnlinkChild(p)
         \/ CreateLookup(p) \/ CreateExists(p) \/ CreateFill(p)
         \/ Iput(p) \/ IputFree(p) \/ IputDone(p)
    \/ Crash

Spec == Init /\ [][Next]_vars

-----------------------------------------------------------------------------
\* The entries for i in all directories and, for a directory, the ".." of the
\* directories that are themselves entered somewhere, or the root.
Entries(i) == {h \in Inum \X Name : dinode[h[1]].ents[h[2]] = i}
Links(i) ==
    Cardinality(Entries(i))
    + Cardinality({j \in Inum : dinode[j].ents[".."] = i /\ (j = ROOTINO \/ Entries(j) # {})})

\* No entry points to a free inode, and none will when the counted links are gone;
\* between calls this is also what a crash leaves on the disk.
NoDanglingEntry ==
    \A i \in Inum : /\ Entries(i) # {} => dinode[i].type # "none"
                    /\ Links(i) <= dinode[i].nlink

\* ip->ref counts the pointers to an entry: current directories, open files and those
\* of running calls.
Pointers(i) ==
    Cardinality({p \in Proc : cwd[p] = i}) + Cardinality({p \in Proc : file[p] = i})
    + Cardinality({p \in Proc : ip[p] = i}) + Cardinality({p \in Proc : other[p] = i})
    + Cardinality({p \in Proc : Len(puts[p]) > 0 /\ puts[p][1] = i})
    + Cardinality({p \in Proc : Len(puts[p]) > 1 /\ puts[p][2] = i})
RefCountsPointers == \A i \in Inum : ref[i] = Pointers(i)

\* No call comes to lock an inode that is free, or to remove a name of one without
\* links: what ilock() and unlink() assert.
NoPanic == \A p \in Proc : ~Panics(p)

\* Processes never wait for one another's inodes in a circle.
NoDeadlock ==
    \A S \in (SUBSET Proc) \ {{}} :
      \E p \in S : ~(Locking(p) /\ lock[Wanted(p)] \in S)

\* What iput() relies on: "no other process can have ip locked, so this
\* acquiresleep() won't block".
FreeWontBlock ==
    \A p \in Proc : Putting(p) /\ IsLastPut(Head(puts[p])) => lock[Head(puts[p])] \in {NULL, p}
====
