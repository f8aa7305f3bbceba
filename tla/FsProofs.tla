---- MODULE FsProofs ----
(***************************************************************************)
(* xv6's inodes and directories, for any number of processes, inodes and   *)
(* names: references are counted right, iput() finds the inode it frees    *)
(* unlocked, and, as long as no program goes through "..", no name leads   *)
(* to a freed inode, the assertions of ilock() and unlink() hold and no    *)
(* circle of locks arises.                                                 *)
(*                                                                         *)
(* The invariant is built in layers, each proved with the help of those    *)
(* above it: PlaceInv on where a process stands in its call, RefInv on     *)
(* references, locks and cached copies, LinkInv on entries and links.      *)
(***************************************************************************)
EXTENDS Fs, TLAPS, FiniteSetTheorems, SequenceTheorems, WellFoundedInduction

Elems == Name \cup {".."}
Inode == [type : {"none", "dir", "file"}, nlink : Int, ents : [Elems -> Inum \cup {0}]]

PCs     == {"user", "walk", "found", "parent", "exists", "undo", "child", "fill"}
Inside  == {"walk", "found", "parent", "exists", "child", "fill"}
Holding == {"child", "fill"}

TypesOK ==
    /\ dinode \in [Inum -> Inode] /\ mem \in [Inum -> Inode]
    /\ valid \in [Inum -> BOOLEAN] /\ ref \in [Inum -> Int]
    /\ lock \in [Inum -> Proc \cup {NULL}]
    /\ cwd \in [Proc -> Inum] /\ file \in [Proc -> Inum \cup {NULL}]
    /\ pc \in [Proc -> PCs] /\ call \in [Proc -> Calls \cup {"link2", NULL}]
    /\ path \in [Proc -> Seq(Elems)] /\ pos \in [Proc -> Nat \ {0}]
    /\ new \in [Proc -> Seq(Elems) \cup {NULL}]
    /\ ip \in [Proc -> Inum \cup {NULL}] /\ other \in [Proc -> Inum \cup {NULL}]
    /\ puts \in [Proc -> Seq(Inum)]

\* Where p stands in its call: what it has looked up, and what it has yet to do.
Stands(p) ==
    /\ pc[p] = "user" => call[p] = NULL /\ ip[p] = NULL /\ pos[p] = 1
    /\ pc[p] \in Inside => ip[p] \in Inum
    /\ pc[p] \in {"walk", "parent", "child", "fill"} => pos[p] \in 1..Len(path[p])
    /\ pc[p] = "undo" => call[p] = "link2" /\ ip[p] = NULL
    /\ other[p] # NULL <=> pc[p] \in Holding \/ call[p] = "link2"
    /\ call[p] = "link2" => pc[p] \in {"walk", "parent", "undo"}
    /\ call[p] = "link" => new[p] \in Seq(Elems) \ {<<>>}
    /\ pc[p] \in Holding => puts[p] = <<>>
    /\ Len(puts[p]) <= 2

PlaceInv == TypesOK /\ \A p \in Proc : Stands(p)

\* p is between the two halves of iput(): the inode is freed, its lock held.
Freeing(p, i) == puts[p] # <<>> /\ puts[p][1] = i /\ lock[i] = p

\* Locks are held across actions in unlink(), create() and iput() only; a valid copy is
\* the inode on the disk, but for one that is just being freed.
LockInv ==
    /\ \A i \in Inum, p \in Proc : lock[i] = p => Freeing(p, i) \/ (pc[p] \in Holding /\ ip[p] = i)
    /\ \A p \in Proc : pc[p] \in Holding => lock[ip[p]] = p /\ valid[ip[p]]
    /\ \A i \in Inum : valid[i] => \/ mem[i] = dinode[i] /\ dinode[i].type # "none"
                                   \/ \E p \in Proc : Freeing(p, i)

RefInv == RefCountsPointers /\ LockInv

-----------------------------------------------------------------------------
\* Where processes stand.

Same(q) == /\ cwd'[q] = cwd[q] /\ file'[q] = file[q] /\ pc'[q] = pc[q] /\ call'[q] = call[q]
           /\ path'[q] = path[q] /\ pos'[q] = pos[q] /\ new'[q] = new[q]
           /\ ip'[q] = ip[q] /\ other'[q] = other[q] /\ puts'[q] = puts[q]
MovesOnly(p) == \A q \in Proc : q # p => Same(q)

\* A step of p leaves everybody well placed if it leaves p so.
Places(p) == TypesOK' /\ Stands(p)' /\ MovesOnly(p)

LEMMA PlacesInv == ASSUME PlaceInv, NEW p \in Proc, Places(p) PROVE PlaceInv'
<1>1. ASSUME NEW q \in Proc, q # p PROVE Stands(q)'
  <2>1. Stands(q) /\ Same(q)
    BY <1>1 DEF PlaceInv, Places, MovesOnly
  <2> QED BY <2>1 DEF Stands, Same
<1> QED BY <1>1 DEF PlaceInv, Places

TreeTypes == /\ dinode \in [Inum -> Inode] /\ mem \in [Inum -> Inode]
             /\ valid \in [Inum -> BOOLEAN] /\ ref \in [Inum -> Int]
             /\ lock \in [Inum -> Proc \cup {NULL}]
CallTypes == /\ pc \in [Proc -> PCs] /\ call \in [Proc -> Calls \cup {"link2", NULL}]
             /\ path \in [Proc -> Seq(Elems)] /\ pos \in [Proc -> Nat \ {0}]
             /\ new \in [Proc -> Seq(Elems) \cup {NULL}]
             /\ ip \in [Proc -> Inum \cup {NULL}] /\ other \in [Proc -> Inum \cup {NULL}]

LEMMA Typed == TypesOK <=> /\ TreeTypes /\ CallTypes
                           /\ cwd \in [Proc -> Inum] /\ file \in [Proc -> Inum \cup {NULL}]
                           /\ puts \in [Proc -> Seq(Inum)]
BY Zenon DEF TypesOK, TreeTypes, CallTypes

LEMMA LookType == ASSUME TreeTypes, NEW i \in Inum PROVE Look(i) \in Inode
BY DEF TreeTypes, Look

LEMMA Update2Type ==
    ASSUME TreeTypes, NEW i \in Inum, NEW j \in Inum, NEW d \in Inode, NEW e \in Inode,
           Update2(i, d, j, e)
    PROVE  /\ dinode' \in [Inum -> Inode] /\ mem' \in [Inum -> Inode]
           /\ valid' \in [Inum -> BOOLEAN]
BY DEF TreeTypes, Update2

LEMMA ReadsType ==
    ASSUME TreeTypes, NEW i \in Inum, Reads(i)
    PROVE  /\ dinode' \in [Inum -> Inode] /\ mem' \in [Inum -> Inode]
           /\ valid' \in [Inum -> BOOLEAN]
BY LookType, Update2Type DEF Reads, Update

LEMMA FinishType ==
    ASSUME PlaceInv, NEW p \in Proc, NEW s \in Seq(Inum), Len(s) <= 2, Finish(p, s)
    PROVE  /\ CallTypes' /\ puts' \in [Proc -> Seq(Inum)]
           /\ Stands(p)'
           /\ puts'[p] = s
           /\ pc'[p] = "user" /\ call'[p] = NULL /\ path'[p] = <<>> /\ pos'[p] = 1
           /\ new'[p] = NULL /\ ip'[p] = NULL /\ other'[p] = NULL
           /\ \A q \in Proc : q # p =>
                 /\ pc'[q] = pc[q] /\ call'[q] = call[q] /\ path'[q] = path[q]
                 /\ pos'[q] = pos[q] /\ new'[q] = new[q] /\ ip'[q] = ip[q]
                 /\ other'[q] = other[q] /\ puts'[q] = puts[q]
<1>1. CallTypes /\ puts \in [Proc -> Seq(Inum)]
  BY Typed DEF PlaceInv
<1>2. /\ puts'[p] = s
      /\ pc'[p] = "user" /\ call'[p] = NULL /\ path'[p] = <<>> /\ pos'[p] = 1
      /\ new'[p] = NULL /\ ip'[p] = NULL /\ other'[p] = NULL
  BY <1>1 DEF Finish, CallTypes
<1>3. CallTypes' /\ puts' \in [Proc -> Seq(Inum)]
  BY <1>1 DEF Finish, CallTypes, PCs
<1>4. Stands(p)'
  BY <1>2, FsAssumption DEF Stands, Inside, Holding, Calls
<1>5. \A q \in Proc : q # p =>
         /\ pc'[q] = pc[q] /\ call'[q] = call[q] /\ path'[q] = path[q]
         /\ pos'[q] = pos[q] /\ new'[q] = new[q] /\ ip'[q] = ip[q]
         /\ other'[q] = other[q] /\ puts'[q] = puts[q]
  BY <1>1 DEF Finish, CallTypes
<1> QED BY <1>2, <1>3, <1>4, <1>5

LEMMA PathsAre == Paths \subseteq Seq(Elems) \ {<<>>} /\ <<"..">> \in Seq(Elems) \ {<<>>}
<1>1. ASSUME NEW s \in Paths PROVE s \in Seq(Elems) /\ s # <<>>
  <2>1. PICK m \in 0..PATHLEN : s \in [1..m -> Name \cup IF DotDot THEN {".."} ELSE {}]
    BY <1>1 DEF Paths, SeqOf
  <2>2. m \in Nat /\ s \in [1..m -> Elems]
    BY <2>1, FsAssumption DEF Elems
  <2> QED BY <1>1, <2>2 DEF Paths
<1> QED BY <1>1 DEF Elems

LEMMA BeginPlaces ==
    ASSUME PlaceInv, NEW p \in Proc, NEW c \in Calls,
           NEW s \in Seq(Elems), NEW t \in Seq(Elems) \cup {NULL}, NEW start,
           s = <<>> => c = "chdir", c = "link" => t \in Seq(Elems) \ {<<>>},
           Begin(p, c, s, t, start)
    PROVE  Places(p)
<1>1. TypesOK /\ Stands(p)
  BY DEF PlaceInv
<1>2. start \in Inum
  BY <1>1, FsAssumption DEF Begin, TypesOK
<1>3. TypesOK'
  BY <1>1, <1>2 DEF Begin, Hold, TypesOK, PCs
<1>4. /\ pc'[p] = IF s = <<>> THEN "found" ELSE "walk"
      /\ call'[p] = c /\ path'[p] = s /\ new'[p] = t /\ ip'[p] = start
      /\ pos'[p] = 1 /\ other'[p] = other[p] /\ puts'[p] = <<>>
  BY <1>1 DEF Begin, Hold, TypesOK, Stands
<1>5. other[p] = NULL
  BY <1>1, FsAssumption DEF Begin, Stands, Holding
<1>6. c # "link2" /\ Len(<<>>) = 0 /\ (s # <<>> => 1 \in 1..Len(s))
  BY DEF Calls
<1>7. Stands(p)'
  BY <1>2, <1>4, <1>5, <1>6 DEF Stands, Inside, Holding
<1>8. MovesOnly(p)
  BY <1>1 DEF Begin, TypesOK, MovesOnly, Same
<1> QED BY <1>3, <1>7, <1>8 DEF Places

LEMMA SysCallPlaces == ASSUME PlaceInv, NEW p \in Proc, SysCall(p) PROVE Places(p)
<1>1. CASE Begin(p, "chdir", <<>>, NULL, ROOTINO)
  <2>1. /\ "chdir" \in Calls /\ <<>> \in Seq(Elems)
        /\ "chdir" = "link" => NULL \in Seq(Elems) \ {<<>>}
    BY DEF Calls
  <2> QED BY <1>1, <2>1, BeginPlaces
<1>2. ASSUME NEW c \in Calls, NEW start,
             NEW s \in Paths \cup IF c = "unlink" THEN {<<"..">>} ELSE {},
             NEW t \in IF c = "link" THEN Paths ELSE {NULL}, Begin(p, c, s, t, start)
      PROVE  Places(p)
  <2>1. s \in Seq(Elems) /\ s # <<>>
    BY PathsAre
  <2>2. t \in Seq(Elems) \cup {NULL} /\ (c = "link" => t \in Seq(Elems) \ {<<>>})
    BY PathsAre
  <2> QED BY <1>2, <2>1, <2>2, BeginPlaces
<1> QED BY <1>1, <1>2 DEF SysCall

\* A step that ends p's call, with the references s still to give up.
LEMMA FinishPlaces ==
    ASSUME PlaceInv, NEW p \in Proc, NEW s \in Seq(Inum), Len(s) <= 2, Finish(p, s),
           TreeTypes',
           cwd' \in [Proc -> Inum], file' \in [Proc -> Inum \cup {NULL}],
           \A q \in Proc : q # p => cwd'[q] = cwd[q] /\ file'[q] = file[q]
    PROVE  Places(p)
<1>1. TypesOK' <=> /\ TreeTypes' /\ CallTypes'
                   /\ (cwd \in [Proc -> Inum])' /\ (file \in [Proc -> Inum \cup {NULL}])'
                   /\ (puts \in [Proc -> Seq(Inum)])'
  BY Typed, PTL
<1> QED BY <1>1, FinishType DEF Places, MovesOnly, Same

\* The same when what files and current directories there are stays as it is.
LEMMA EndPlaces ==
    ASSUME PlaceInv, NEW p \in Proc, NEW s \in Seq(Inum), Len(s) <= 2, Finish(p, s),
           TreeTypes', UNCHANGED <<cwd, file>>
    PROVE  Places(p)
<1>1. cwd \in [Proc -> Inum] /\ file \in [Proc -> Inum \cup {NULL}]
  BY DEF PlaceInv, TypesOK
<1> QED BY <1>1, FinishPlaces

LEMMA Lengths ==
    ASSUME NEW i \in Inum, NEW j \in Inum
    PROVE  /\ <<>> \in Seq(Inum) /\ Len(<<>>) = 0
           /\ <<i>> \in Seq(Inum) /\ Len(<<i>>) = 1 /\ <<i>> # <<>> /\ <<i>>[1] = i
           /\ <<i, j>> \in Seq(Inum) /\ Len(<<i, j>>) = 2 /\ <<i, j>> # <<>>
           /\ <<i, j>>[1] = i /\ <<i, j>>[2] = j
OBVIOUS

LEMMA Appends ==
    ASSUME NEW i \in Inum, NEW j \in Inum
    PROVE  <<>> \o <<i>> = <<i>> /\ <<i>> \o <<j>> = <<i, j>>
<1>1. <<>> \o <<i>> = <<i>>
  BY Lengths, ConcatEmptySeq
<1>2. <<i>> \o <<j>> = <<i, j>>
  <2> DEFINE s == <<i>>
             t == <<j>>
  <2>1. s \in Seq(Inum) /\ t \in Seq(Inum) /\ Len(s) = 1 /\ Len(t) = 1 /\ s[1] = i /\ t[1] = j
    BY Lengths, Zenon
  <2> HIDE DEF s, t
  <2>2. Len(s \o t) = 2 /\ (s \o t)[1] = i /\ (s \o t)[2] = j /\ s \o t \in Seq(Inum)
    BY <2>1, ConcatProperties
  <2> DEFINE u == s \o t
             v == <<i, j>>
  <2>4. v \in Seq(Inum) /\ Len(v) = 2 /\ v[1] = i /\ v[2] = j
    OBVIOUS
  <2>5. u \in Seq(Inum) /\ Len(u) = 2 /\ u[1] = i /\ u[2] = j
    BY <2>2
  <2> HIDE DEF u, v
  <2>6. u = v
    BY <2>4, <2>5, SeqEqual
  <2>3. s \o t = <<i, j>>
    BY <2>6 DEF u, v
  <2> QED BY <2>3 DEF s, t
<1> QED BY <1>1, <1>2

\* What an inode keeps of its type when it is looked at, or held once more.
LEMMA HoldType == ASSUME TreeTypes, NEW i \in Inum, Hold(i) PROVE ref' \in [Inum -> Int]
BY DEF TreeTypes, Hold

LEMMA ElemType == ASSUME TypesOK, NEW p \in Proc, pos[p] \in 1..Len(path[p]) PROVE Elem(p) \in Elems
BY DEF TypesOK, Elem

LEMMA EntType == ASSUME TreeTypes, NEW i \in Inum, NEW n \in Elems PROVE Look(i).ents[n] \in Inum \cup {0}
BY LookType DEF Inode

\* link() turns to taking back the count.
LEMMA UndoPlaces ==
    ASSUME PlaceInv, NEW p \in Proc, NEW i \in Inum, Undo(p, i), call[p] = "link2",
           TreeTypes', UNCHANGED <<cwd, file>>
    PROVE  Places(p)
<1>1. TypesOK /\ Stands(p)
  BY DEF PlaceInv
<1>2. TypesOK'
  BY <1>1 DEF Undo, TypesOK, TreeTypes, PCs
<1>3. /\ puts'[p] = <<i>> /\ pc'[p] = "undo" /\ ip'[p] = NULL
      /\ call'[p] = call[p] /\ new'[p] = new[p] /\ other'[p] = other[p]
  BY <1>1 DEF Undo, TypesOK
<1>4. Stands(p)'
  BY <1>1, <1>3, Lengths DEF Stands, Inside, Holding
<1>5. MovesOnly(p)
  BY <1>1 DEF Undo, TypesOK, MovesOnly, Same
<1> QED BY <1>2, <1>4, <1>5 DEF Places

\* p goes to another place of its call without looking elsewhere.
LEMMA GotoPlaces ==
    ASSUME PlaceInv, NEW p \in Proc, pc[p] = "walk", Goto(p, "parent"),
           TreeTypes', UNCHANGED <<cwd, file, puts>>
    PROVE  Places(p)
<1>1. TypesOK /\ Stands(p)
  BY DEF PlaceInv
<1>2. TypesOK'
  BY <1>1 DEF Goto, TypesOK, TreeTypes, PCs
<1>3. pc'[p] = "parent"
  BY <1>1 DEF Goto, TypesOK
<1>4. Stands(p)'
  BY <1>1, <1>3 DEF Stands, Inside, Holding, Goto
<1>5. MovesOnly(p)
  BY <1>1 DEF Goto, TypesOK, MovesOnly, Same
<1> QED BY <1>2, <1>4, <1>5 DEF Places

LEMMA WalkPlaces == ASSUME PlaceInv, NEW p \in Proc, Walk(p) PROVE Places(p)
<1> DEFINE i == ip[p]
           n == Look(i).ents[Elem(p)]
<1>1. TypesOK /\ TreeTypes /\ Stands(p)
  BY Typed DEF PlaceInv
<1>2. pc[p] = "walk" /\ puts[p] = <<>> /\ i \in Inum /\ pos[p] \in 1..Len(path[p])
  BY <1>1 DEF Walk, At, Stands, Inside
<1>3. n \in Inum \cup {0} /\ (n # 0 => n \in Inum)
  BY <1>1, <1>2, ElemType, EntType
<1>4. Reads(i) /\ UNCHANGED <<lock, cwd, file>>
  BY DEF Walk
<1>5. /\ dinode' \in [Inum -> Inode] /\ mem' \in [Inum -> Inode] /\ valid' \in [Inum -> BOOLEAN]
      /\ lock' \in [Inum -> Proc \cup {NULL}]
  BY <1>1, <1>2, <1>4, ReadsType DEF TreeTypes
<1>6. ref' \in [Inum -> Int] => TreeTypes'
  BY <1>5 DEF TreeTypes
<1>7. CASE /\ IF call[p] = "link2" THEN Undo(p, i) ELSE Finish(p, <<i>>)
           /\ UNCHANGED ref
  <2>1. TreeTypes'
    BY <1>1, <1>6, <1>7 DEF TreeTypes
  <2>2. CASE call[p] = "link2"
    BY <1>2, <1>4, <1>7, <2>1, <2>2, UndoPlaces
  <2>3. CASE call[p] # "link2"
    <3>1. <<i>> \in Seq(Inum) /\ Len(<<i>>) <= 2 /\ Finish(p, <<i>>)
      BY <1>2, <1>7, <2>3
    <3> QED BY <1>4, <2>1, <3>1, EndPlaces
  <2> QED BY <2>2, <2>3
<1>8. CASE Goto(p, "parent") /\ UNCHANGED <<ref, puts>>
  <2>1. TreeTypes'
    BY <1>1, <1>6, <1>8 DEF TreeTypes
  <2> QED BY <1>2, <1>4, <1>8, <2>1, GotoPlaces
<1>9. CASE /\ n # 0
           /\ Hold(n)
           /\ puts' = [puts EXCEPT ![p] = <<i>>]
           /\ ip' = [ip EXCEPT ![p] = n]
           /\ pos' = [pos EXCEPT ![p] = IF IsLast(p) THEN @ ELSE @ + 1]
           /\ pc' = [pc EXCEPT ![p] = IF IsLast(p) THEN "found" ELSE "walk"]
           /\ UNCHANGED <<call, path, new, other>>
           /\ ~(IsLast(p) /\ WantsParent(p))
  <2>1. TreeTypes'
    BY <1>1, <1>3, <1>6, <1>9, HoldType
  <2> HIDE DEF n, i
  <2>2. n \in Inum /\ i \in Inum
    BY <1>2, <1>3, <1>9
  <2>3. TypesOK'
    BY <1>1, <1>4, <1>9, <2>1, <2>2, Lengths DEF TypesOK, TreeTypes, PCs
  <2>4. /\ puts'[p] = <<i>> /\ ip'[p] = n /\ pos'[p] = IF IsLast(p) THEN pos[p] ELSE pos[p] + 1
        /\ pc'[p] = IF IsLast(p) THEN "found" ELSE "walk"
        /\ call'[p] = call[p] /\ path'[p] = path[p] /\ new'[p] = new[p] /\ other'[p] = other[p]
    BY <1>1, <1>9 DEF TypesOK
  <2>5. Len(path[p]) \in Nat /\ pos[p] \in Nat /\ (~IsLast(p) => pos[p] + 1 \in 1..Len(path[p]))
    BY <1>1, <1>2 DEF TypesOK, IsLast
  <2>6. IsLast(p) => call[p] # "link2"
    BY <1>9 DEF WantsParent
  <2>7. Stands(p)'
    BY <1>1, <1>2, <2>2, <2>4, <2>5, <2>6, Lengths DEF Stands, Inside, Holding
  <2>8. MovesOnly(p)
    BY <1>1, <1>4, <1>9 DEF TypesOK, MovesOnly, Same
  <2> QED BY <2>3, <2>7, <2>8 DEF Places
<1> QED BY <1>7, <1>8, <1>9 DEF Walk

LEMMA OpenFilePlaces ==
    ASSUME PlaceInv, NEW p \in Proc, NEW i \in Inum, NEW s \in Seq(Inum), Len(s) <= 1,
           s \o <<i>> \in Seq(Inum), Len(s \o <<i>>) <= 2,
           OpenFile(p, i, s), TreeTypes', UNCHANGED cwd
    PROVE  Places(p)
<1>1. TypesOK
  BY DEF PlaceInv
<1>2. CASE file' = [file EXCEPT ![p] = i] /\ Finish(p, s)
  <2>1. /\ cwd' \in [Proc -> Inum] /\ file' \in [Proc -> Inum \cup {NULL}]
        /\ \A q \in Proc : q # p => cwd'[q] = cwd[q] /\ file'[q] = file[q]
    BY <1>1, <1>2 DEF TypesOK
  <2>2. Len(s) <= 2
    OBVIOUS
  <2> QED BY <1>2, <2>1, <2>2, FinishPlaces
<1>3. CASE Finish(p, s \o <<i>>) /\ UNCHANGED file
  <2> DEFINE t == s \o <<i>>
  <2>1. t \in Seq(Inum) /\ Len(t) <= 2 /\ Finish(p, t)
    BY <1>3
  <2> HIDE DEF t
  <2> QED BY <1>3, <2>1, EndPlaces
<1> QED BY <1>2, <1>3 DEF OpenFile

\* What p's lookup of the inode it works on leaves of the types.
LEMMA AtType ==
    ASSUME PlaceInv, NEW p \in Proc
    PROVE  /\ TypesOK /\ TreeTypes /\ Stands(p)
           /\ pc[p] \in Inside => ip[p] \in Inum
           /\ pc[p] \in Holding \cup {"undo"} => other[p] \in Inum
<1>1. TypesOK /\ Stands(p) /\ TreeTypes
  BY Typed DEF PlaceInv
<1>2. other[p] # NULL => other[p] \in Inum
  BY <1>1 DEF TypesOK
<1> QED BY <1>1, <1>2 DEF Stands, Holding

LEMMA ReadsTree ==
    ASSUME TreeTypes, NEW i \in Inum, Reads(i), UNCHANGED <<ref, lock>> PROVE TreeTypes'
BY ReadsType DEF TreeTypes

LEMMA UpdateTree ==
    ASSUME TreeTypes, NEW i \in Inum, NEW d \in Inode, Update(i, d), ref' \in [Inum -> Int], UNCHANGED lock
    PROVE  TreeTypes'
BY Update2Type DEF TreeTypes, Update

LEMMA OpenPlaces == ASSUME PlaceInv, NEW p \in Proc, Open(p) PROVE Places(p)
<1>1. ip[p] \in Inum /\ TreeTypes
  BY AtType DEF Open, At, Inside
<1>2. TreeTypes'
  BY <1>1, ReadsTree DEF Open
<1>3. <<>> \in Seq(Inum) /\ Len(<<>>) <= 1 /\ <<>> \o <<ip[p]>> \in Seq(Inum) /\ Len(<<>> \o <<ip[p]>>) <= 2
  BY <1>1, Lengths, Appends
<1> QED BY <1>1, <1>2, <1>3, OpenFilePlaces DEF Open

LEMMA CreateExistsPlaces == ASSUME PlaceInv, NEW p \in Proc, CreateExists(p) PROVE Places(p)
<1>1. ip[p] \in Inum /\ TreeTypes
  BY AtType DEF CreateExists, At, Inside
<1>2. TreeTypes' /\ UNCHANGED cwd
  BY <1>1, ReadsTree DEF CreateExists
<1>3. <<>> \in Seq(Inum) /\ Len(<<>>) <= 1 /\ <<>> \o <<ip[p]>> \in Seq(Inum) /\ Len(<<>> \o <<ip[p]>>) <= 2
  BY <1>1, Lengths, Appends
<1>4. CASE OpenFile(p, ip[p], <<>>)
  BY <1>1, <1>2, <1>3, <1>4, OpenFilePlaces
<1>5. CASE Finish(p, <<ip[p]>>) /\ UNCHANGED file
  <2>1. <<ip[p]>> \in Seq(Inum) /\ Len(<<ip[p]>>) <= 2
    BY <1>1
  <2> QED BY <1>2, <1>5, <2>1, EndPlaces
<1> QED BY <1>4, <1>5 DEF CreateExists

LEMMA ChdirPlaces == ASSUME PlaceInv, NEW p \in Proc, Chdir(p) PROVE Places(p)
<1>1. ip[p] \in Inum /\ TreeTypes /\ TypesOK
  BY AtType DEF Chdir, At, Inside
<1>2. TreeTypes'
  BY <1>1, ReadsTree DEF Chdir
<1>3. cwd[p] \in Inum
  BY <1>1 DEF TypesOK
<1>4. CASE Finish(p, <<cwd[p]>>) /\ cwd' = [cwd EXCEPT ![p] = ip[p]]
  <2>1. <<cwd[p]>> \in Seq(Inum) /\ Len(<<cwd[p]>>) <= 2
    BY <1>3
  <2>2. UNCHANGED file
    BY DEF Chdir
  <2>3. /\ cwd' \in [Proc -> Inum] /\ file' \in [Proc -> Inum \cup {NULL}]
        /\ \A q \in Proc : q # p => cwd'[q] = cwd[q] /\ file'[q] = file[q]
    BY <1>1, <1>4, <2>2 DEF TypesOK
  <2> QED BY <1>2, <1>4, <2>1, <2>3, FinishPlaces
<1>5. CASE Finish(p, <<ip[p]>>) /\ UNCHANGED cwd
  <2>1. <<ip[p]>> \in Seq(Inum) /\ Len(<<ip[p]>>) <= 2 /\ UNCHANGED file
    BY <1>1 DEF Chdir
  <2> QED BY <1>2, <1>5, <2>1, EndPlaces
<1> QED BY <1>4, <1>5 DEF Chdir

LEMMA ClosePlaces == ASSUME PlaceInv, NEW p \in Proc, Close(p) PROVE Places(p)
<1>1. TypesOK /\ TreeTypes /\ Stands(p)
  BY AtType
<1>2. file[p] \in Inum
  BY <1>1 DEF TypesOK, Close
<1>3. TypesOK'
  BY <1>1, <1>2 DEF TypesOK, Close, table, locals
<1>4. puts'[p] = <<file[p]>> /\ pc[p] = "user"
  BY <1>1 DEF TypesOK, Close
<1>5. Stands(p)'
  BY <1>1, <1>4 DEF Stands, Close, locals, Holding
<1>6. MovesOnly(p)
  BY <1>1 DEF TypesOK, Close, locals, MovesOnly, Same
<1> QED BY <1>3, <1>5, <1>6 DEF Places

\* An inode that differs in its count, or in a name.
LEMMA CountType == ASSUME NEW d \in Inode, NEW k \in Int PROVE [d EXCEPT !.nlink = k] \in Inode
BY DEF Inode

LEMMA EntsType ==
    ASSUME NEW d \in Inode, NEW n \in Elems, NEW i \in Inum \cup {0}
    PROVE  [d EXCEPT !.ents[n] = i] \in Inode
BY DEF Inode

\* A directory in which a name changes with the count.
LEMMA BothType ==
    ASSUME NEW d \in Inode, NEW n \in Elems, NEW i \in Inum \cup {0}, NEW k \in Int
    PROVE  /\ [d EXCEPT !.ents[n] = i, !.nlink = @ + k] \in Inode
           /\ [d EXCEPT !.ents[n] = i, !.nlink = @ - k] \in Inode
<1> DEFINE e == [d EXCEPT !.ents[n] = i]
<1>1. e \in Inode /\ e.nlink + k \in Int /\ e.nlink - k \in Int
  BY EntsType DEF Inode
<1>2. [e EXCEPT !.nlink = e.nlink + k] \in Inode /\ [e EXCEPT !.nlink = e.nlink - k] \in Inode
  BY <1>1, CountType
<1>3. /\ [d EXCEPT !.ents[n] = i, !.nlink = @ + k] = [e EXCEPT !.nlink = e.nlink + k]
      /\ [d EXCEPT !.ents[n] = i, !.nlink = @ - k] = [e EXCEPT !.nlink = e.nlink - k]
  OBVIOUS
<1> QED BY <1>2, <1>3

LEMMA LinkOldPlaces ==
    ASSUME PlaceInv, NEW p \in Proc, NEW start, LinkOld(p, start) PROVE Places(p)
<1> DEFINE i == ip[p]
<1>1. /\ TypesOK /\ TreeTypes /\ Stands(p) /\ i \in Inum
      /\ call[p] = "link" /\ pc[p] = "found" /\ puts[p] = <<>>
  BY AtType DEF LinkOld, At, Inside
<1>2. UNCHANGED <<lock, cwd, file>>
  BY DEF LinkOld
<1>3. CASE Reads(i) /\ Finish(p, <<i>>) /\ UNCHANGED ref
  <2>1. <<i>> \in Seq(Inum) /\ Len(<<i>>) <= 2
    BY <1>1
  <2>2. TreeTypes'
    BY <1>1, <1>2, <1>3, ReadsTree
  <2> QED BY <1>2, <1>3, <2>1, <2>2, EndPlaces
<1>4. CASE /\ Update(i, [Look(i) EXCEPT !.nlink = @ + 1])
           /\ call' = [call EXCEPT ![p] = "link2"]
           /\ path' = [path EXCEPT ![p] = new[p]]
           /\ pos' = [pos EXCEPT ![p] = 1]
           /\ new' = [new EXCEPT ![p] = NULL]
           /\ other' = [other EXCEPT ![p] = i]
           /\ ip' = [ip EXCEPT ![p] = start]
           /\ pc' = [pc EXCEPT ![p] = "walk"]
           /\ Hold(start)
           /\ UNCHANGED puts
  <2>1. start \in Inum
    BY <1>1, FsAssumption DEF LinkOld, TypesOK
  <2>2. [Look(i) EXCEPT !.nlink = @ + 1] \in Inode
    BY <1>1, LookType, CountType DEF Inode
  <2>3. TreeTypes'
    BY <1>1, <1>2, <1>4, <2>1, <2>2, UpdateTree, HoldType
  <2> HIDE DEF i
  <2>4. new[p] \in Seq(Elems) /\ new[p] # <<>> /\ i \in Inum
    BY <1>1 DEF Stands
  <2>5. TypesOK'
    BY <1>1, <1>2, <1>4, <2>1, <2>3, <2>4 DEF TypesOK, TreeTypes, PCs
  <2>6. /\ call'[p] = "link2" /\ path'[p] = new[p] /\ pos'[p] = 1 /\ new'[p] = NULL
        /\ other'[p] = i /\ ip'[p] = start /\ pc'[p] = "walk" /\ puts'[p] = <<>>
    BY <1>1, <1>4 DEF TypesOK
  <2>7. 1 \in 1..Len(new[p]) /\ other'[p] # NULL /\ Len(<<>>) = 0
    BY <2>4, <2>6, FsAssumption
  <2>8. Stands(p)'
    BY <2>1, <2>6, <2>7 DEF Stands, Inside, Holding
  <2>9. MovesOnly(p)
    BY <1>1, <1>2, <1>4 DEF TypesOK, MovesOnly, Same
  <2> QED BY <2>5, <2>8, <2>9 DEF Places
<1> QED BY <1>3, <1>4 DEF LinkOld

LEMMA LinkNewPlaces == ASSUME PlaceInv, NEW p \in Proc, LinkNew(p) PROVE Places(p)
<1> DEFINE dp == ip[p]
           n  == Elem(p)
<1>1. /\ TypesOK /\ TreeTypes /\ Stands(p) /\ dp \in Inum /\ other[p] \in Inum
      /\ call[p] = "link2" /\ pc[p] = "parent"
  <2>1. other[p] # NULL
    BY AtType DEF LinkNew, At, Stands
  <2> QED BY <2>1, AtType DEF LinkNew, At, Inside, TypesOK
<1>2. UNCHANGED <<ref, lock, cwd, file>> /\ n \in Elems
  BY <1>1, ElemType DEF LinkNew, Stands
<1>3. CASE Reads(dp) /\ Undo(p, dp)
  BY <1>1, <1>2, <1>3, ReadsTree, UndoPlaces
<1>4. CASE /\ Update(dp, [Look(dp) EXCEPT !.ents[n] = other[p]])
           /\ Finish(p, <<dp, other[p]>>)
  <2>1. <<dp, other[p]>> \in Seq(Inum) /\ Len(<<dp, other[p]>>) <= 2
    BY <1>1, Lengths
  <2>2. TreeTypes'
    <3>1. [Look(dp) EXCEPT !.ents[n] = other[p]] \in Inode
      BY <1>1, <1>2, LookType, EntsType
    <3>2. ref' \in [Inum -> Int]
      BY <1>1, <1>2 DEF TreeTypes
    <3> QED BY <1>1, <1>2, <1>4, <3>1, <3>2, UpdateTree
  <2> QED BY <1>2, <1>4, <2>1, <2>2, EndPlaces
<1> QED BY <1>3, <1>4 DEF LinkNew

LEMMA LinkUndoPlaces == ASSUME PlaceInv, NEW p \in Proc, LinkUndo(p) PROVE Places(p)
<1> DEFINE i == other[p]
<1>1. TypesOK /\ TreeTypes /\ Stands(p) /\ i \in Inum
  BY AtType DEF LinkUndo, At
<1>2. /\ UNCHANGED <<ref, lock, cwd, file>> /\ Update(i, [Look(i) EXCEPT !.nlink = @ - 1])
      /\ Finish(p, <<i>>)
  BY DEF LinkUndo
<1>3. <<i>> \in Seq(Inum) /\ Len(<<i>>) <= 2
  BY <1>1
<1>4. TreeTypes'
  <2>1. [Look(i) EXCEPT !.nlink = @ - 1] \in Inode
    BY <1>1, LookType, CountType DEF Inode
  <2>2. ref' \in [Inum -> Int]
    BY <1>1, <1>2 DEF TreeTypes
  <2> QED BY <1>1, <1>2, <2>1, <2>2, UpdateTree
<1> QED BY <1>2, <1>3, <1>4, EndPlaces

\* unlink() and create() keep the directory locked and go on to the inode in it.
LEMMA HoldsPlaces ==
    ASSUME PlaceInv, NEW p \in Proc, pc[p] = "parent", puts[p] = <<>>, call[p] # "link2", call[p] # "link",
           NEW i \in Inum, NEW s \in Holding,
           TreeTypes',
           other' = [other EXCEPT ![p] = i],
           pc' = [pc EXCEPT ![p] = s],
           UNCHANGED <<call, path, pos, new, ip, puts, cwd, file>>
    PROVE  Places(p)
<1>1. TypesOK /\ Stands(p)
  BY DEF PlaceInv
<1>2. TypesOK'
  BY <1>1 DEF TypesOK, TreeTypes, PCs, Holding
<1>3. pc'[p] = s /\ other'[p] = i /\ i # NULL
  BY <1>1, FsAssumption DEF TypesOK
<1>4. Stands(p)'
  BY <1>1, <1>3 DEF Stands, Inside, Holding
<1>5. MovesOnly(p)
  BY <1>1 DEF TypesOK, MovesOnly, Same
<1> QED BY <1>2, <1>4, <1>5 DEF Places

\* A set of numbers has a least one.
LEMMA LeastIs ==
    ASSUME NEW S \in SUBSET Nat, S # {} PROVE \E m \in S : \A n \in S : m <= n
<1>1. PICK m \in S : \A y \in S : ~(<<y, m>> \in OpToRel(<, Nat))
  BY NatLessThanWellFounded, WFMin
<1>2. \A y \in S : ~(y < m)
  BY <1>1, Zenon DEF OpToRel
<1> QED BY <1>2

LEMMA MinIn == ASSUME NEW S \in SUBSET Nat, S # {} PROVE Min(S) \in S
BY LeastIs DEF Min

LEMMA UnlinkParentPlaces == ASSUME PlaceInv, NEW p \in Proc, UnlinkParent(p) PROVE Places(p)
<1> DEFINE dp == ip[p]
           n  == Elem(p)
           i  == Look(dp).ents[n]
<1>1. /\ TypesOK /\ TreeTypes /\ Stands(p) /\ dp \in Inum
      /\ call[p] = "unlink" /\ pc[p] = "parent" /\ puts[p] = <<>>
  BY AtType DEF UnlinkParent, At, Inside
<1>2. i \in Inum \cup {0} /\ (i # 0 => i \in Inum)
  BY <1>1, ElemType, EntType DEF Stands
<1>3. UNCHANGED <<cwd, file>> /\ Reads(dp)
  BY DEF UnlinkParent
<1>4. /\ dinode' \in [Inum -> Inode] /\ mem' \in [Inum -> Inode] /\ valid' \in [Inum -> BOOLEAN]
  BY <1>1, <1>3, ReadsType
<1>5. CASE Finish(p, <<dp>>) /\ UNCHANGED <<ref, lock>>
  <2>1. <<dp>> \in Seq(Inum) /\ Len(<<dp>>) <= 2
    BY <1>1
  <2>2. TreeTypes'
    BY <1>1, <1>4, <1>5 DEF TreeTypes
  <2> QED BY <1>3, <1>5, <2>1, <2>2, EndPlaces
<1>6. CASE /\ i # 0
           /\ Hold(i)
           /\ lock' = [lock EXCEPT ![dp] = p]
           /\ other' = [other EXCEPT ![p] = i]
           /\ pc' = [pc EXCEPT ![p] = "child"]
           /\ UNCHANGED <<call, path, pos, new, ip, puts>>
  <2> HIDE DEF i, dp
  <2>1. TreeTypes'
    BY <1>1, <1>2, <1>4, <1>6, HoldType DEF TreeTypes
  <2>2. "child" \in Holding /\ i \in Inum /\ call[p] # "link2" /\ call[p] # "link"
    BY <1>1, <1>2, <1>6 DEF Holding
  <2> QED BY <1>1, <1>3, <1>6, <2>1, <2>2, HoldsPlaces
<1> QED BY <1>5, <1>6 DEF UnlinkParent

LEMMA UnlinkChildPlaces == ASSUME PlaceInv, NEW p \in Proc, UnlinkChild(p) PROVE Places(p)
<1> DEFINE dp    == ip[p]
           i     == other[p]
           d     == Look(i)
           isdir == IF d.type = "dir" THEN 1 ELSE 0
<1>1. /\ TypesOK /\ TreeTypes /\ Stands(p) /\ dp \in Inum /\ i \in Inum /\ Elem(p) \in Elems
      /\ pc[p] = "child"
  BY AtType, ElemType DEF UnlinkChild, At, Inside, Holding, Stands
<1>2. UNCHANGED <<ref, cwd, file>> /\ lock' = [lock EXCEPT ![dp] = NULL]
  BY DEF UnlinkChild
<1>3. /\ <<i, dp>> \in Seq(Inum) /\ Len(<<i, dp>>) <= 2
      /\ <<dp, i>> \in Seq(Inum) /\ Len(<<dp, i>>) <= 2
  BY <1>1, Lengths
<1>4. lock' \in [Inum -> Proc \cup {NULL}] /\ ref' \in [Inum -> Int]
  BY <1>1, <1>2 DEF TreeTypes
<1>5. CASE Reads(i) /\ Finish(p, <<i, dp>>)
  <2>1. TreeTypes'
    BY <1>1, <1>4, <1>5, ReadsType DEF TreeTypes
  <2> QED BY <1>2, <1>3, <1>5, <2>1, EndPlaces
<1>6. CASE /\ Update2(dp, [mem[dp] EXCEPT !.ents[Elem(p)] = 0, !.nlink = @ - isdir],
                      i, [d EXCEPT !.nlink = @ - 1])
           /\ Finish(p, <<dp, i>>)
  <2>1. d \in Inode /\ mem[dp] \in Inode /\ isdir \in Int
    BY <1>1, LookType DEF TreeTypes
  <2> HIDE DEF isdir, d
  <2>2. [d EXCEPT !.nlink = @ - 1] \in Inode
    BY <2>1, CountType DEF Inode
  <2>3. [mem[dp] EXCEPT !.ents[Elem(p)] = 0, !.nlink = @ - isdir] \in Inode
    BY <1>1, <2>1, BothType
  <2>4. TreeTypes'
    BY <1>1, <1>4, <1>6, <2>2, <2>3, Update2Type DEF TreeTypes
  <2> QED BY <1>2, <1>3, <1>6, <2>4, EndPlaces
<1> QED BY <1>5, <1>6 DEF UnlinkChild

LEMMA CreateLookupPlaces == ASSUME PlaceInv, NEW p \in Proc, CreateLookup(p) PROVE Places(p)
<1> DEFINE dp    == ip[p]
           found == Look(dp).ents[Elem(p)]
           i     == Min(FreeInodes)
           type  == IF call[p] = "mkdir" THEN "dir" ELSE "file"
<1>1. /\ TypesOK /\ TreeTypes /\ Stands(p) /\ dp \in Inum
      /\ call[p] \in {"create", "mkdir", "mknod"} /\ pc[p] = "parent" /\ puts[p] = <<>>
  BY AtType DEF CreateLookup, At, Inside
<1>2. found \in Inum \cup {0} /\ (found # 0 => found \in Inum)
  BY <1>1, ElemType, EntType DEF Stands
<1>3. UNCHANGED <<cwd, file>>
  BY DEF CreateLookup
<1>4. CASE /\ found # 0
           /\ Reads(dp)
           /\ Hold(found)
           /\ puts' = [puts EXCEPT ![p] = <<dp>>]
           /\ ip' = [ip EXCEPT ![p] = found]
           /\ pc' = [pc EXCEPT ![p] = "exists"]
           /\ UNCHANGED <<lock, call, path, pos, new, other>>
  <2> HIDE DEF found, dp
  <2>1. TreeTypes'
    BY <1>1, <1>2, <1>4, ReadsType, HoldType DEF TreeTypes
  <2>2. TypesOK'
    BY <1>1, <1>2, <1>3, <1>4, <2>1, Lengths DEF TypesOK, TreeTypes, PCs
  <2>3. puts'[p] = <<dp>> /\ ip'[p] = found /\ pc'[p] = "exists"
    BY <1>1, <1>4 DEF TypesOK
  <2>4. Stands(p)'
    BY <1>1, <1>2, <1>4, <2>3, Lengths DEF Stands, Inside, Holding
  <2>5. MovesOnly(p)
    BY <1>1, <1>3, <1>4 DEF TypesOK, MovesOnly, Same
  <2> QED BY <2>2, <2>4, <2>5 DEF Places
<1>5. CASE Reads(dp) /\ Finish(p, <<dp>>) /\ UNCHANGED <<ref, lock>>
  <2>1. <<dp>> \in Seq(Inum) /\ Len(<<dp>>) <= 2
    BY <1>1
  <2>2. TreeTypes'
    BY <1>1, <1>5, ReadsTree
  <2> QED BY <1>3, <1>5, <2>1, <2>2, EndPlaces
<1>6. CASE /\ FreeInodes # {}
           /\ dinode' = [dinode EXCEPT ![i] = [Free EXCEPT !.type = type]]
           /\ mem' = [mem EXCEPT ![dp] = Look(dp)]
           /\ valid' = [valid EXCEPT ![dp] = TRUE]
           /\ Hold(i)
           /\ lock' = [lock EXCEPT ![dp] = p]
           /\ other' = [other EXCEPT ![p] = i]
           /\ pc' = [pc EXCEPT ![p] = "fill"]
           /\ UNCHANGED <<call, path, pos, new, ip, puts>>
  <2>1. i \in Inum
    BY <1>6, MinIn, FsAssumption DEF FreeInodes
  <2>2. [Free EXCEPT !.type = type] \in Inode
    BY DEF Free, Inode, Elems
  <2>3. Look(dp) \in Inode
    BY <1>1, LookType
  <2> HIDE DEF i, dp, type
  <2>4. ref' \in [Inum -> Int]
    BY <1>1, <1>6, <2>1, HoldType
  <2>5. TreeTypes'
    BY <1>1, <1>6, <2>2, <2>3, <2>4 DEF TreeTypes
  <2>6. "fill" \in Holding /\ call[p] # "link2" /\ call[p] # "link"
    BY <1>1 DEF Holding
  <2> QED BY <1>1, <1>3, <1>6, <2>1, <2>5, <2>6, HoldsPlaces
<1> QED BY <1>4, <1>5, <1>6 DEF CreateLookup

LEMMA Times == ASSUME NEW x \in Nat PROVE 0 * x = 0 /\ 1 * x = x
OBVIOUS

LEMMA CreateFillPlaces == ASSUME PlaceInv, NEW p \in Proc, CreateFill(p) PROVE Places(p)
<1> DEFINE dp    == ip[p]
           i     == other[p]
           d     == Look(i)
           isdir == IF d.type = "dir" THEN 1 ELSE 0
<1>1. /\ TypesOK /\ TreeTypes /\ Stands(p) /\ dp \in Inum /\ i \in Inum /\ Elem(p) \in Elems
      /\ pc[p] = "fill"
  BY AtType, ElemType DEF CreateFill, At, Inside, Holding, Stands
<1>2. UNCHANGED <<ref, cwd>> /\ lock' = [lock EXCEPT ![dp] = NULL]
  BY DEF CreateFill
<1>3. lock' \in [Inum -> Proc \cup {NULL}] /\ ref' \in [Inum -> Int]
  BY <1>1, <1>2 DEF TreeTypes
<1>4. CASE Reads(i) /\ Finish(p, <<i, dp>>) /\ UNCHANGED file
  <2>1. TreeTypes'
    BY <1>1, <1>3, <1>4, ReadsType DEF TreeTypes
  <2>2. <<i, dp>> \in Seq(Inum) /\ Len(<<i, dp>>) <= 2
    BY <1>1, Lengths
  <2> QED BY <1>2, <1>4, <2>1, <2>2, EndPlaces
<1>5. CASE /\ Update2(dp, [mem[dp] EXCEPT !.ents[Elem(p)] = i, !.nlink = @ + isdir],
                      i, [d EXCEPT !.nlink = 1, !.ents[".."] = isdir * dp])
           /\ IF call[p] = "create"
              THEN OpenFile(p, i, <<dp>>)
              ELSE Finish(p, <<dp, i>>) /\ UNCHANGED file
  <2>8. d \in Inode /\ mem[dp] \in Inode
    BY <1>1, LookType DEF TreeTypes
  <2>9. 0 * dp = 0 /\ 1 * dp = dp
    <3>1. dp \in Nat
      BY <1>1, FsAssumption
    <3> QED BY <3>1, Times
  <2>1. d \in Inode /\ mem[dp] \in Inode /\ isdir \in Int /\ isdir * dp \in Inum \cup {0}
    BY <1>1, <2>8, <2>9
  <2>2. ".." \in Elems
    BY DEF Elems
  <2> HIDE DEF isdir, d
  <2>3. [d EXCEPT !.nlink = 1, !.ents[".."] = isdir * dp] \in Inode
    <3> DEFINE e == [d EXCEPT !.nlink = 1]
    <3>1. e \in Inode
      BY <2>1, CountType
    <3>2. [e EXCEPT !.ents[".."] = isdir * dp] \in Inode
      BY <2>1, <2>2, <3>1, EntsType
    <3>3. [d EXCEPT !.nlink = 1, !.ents[".."] = isdir * dp] = [e EXCEPT !.ents[".."] = isdir * dp]
      OBVIOUS
    <3> QED BY <3>2, <3>3
  <2>4. [mem[dp] EXCEPT !.ents[Elem(p)] = i, !.nlink = @ + isdir] \in Inode
    BY <1>1, <2>1, BothType
  <2>5. TreeTypes'
    BY <1>1, <1>3, <1>5, <2>3, <2>4, Update2Type DEF TreeTypes
  <2>6. CASE OpenFile(p, i, <<dp>>)
    <3>1. /\ <<dp>> \in Seq(Inum) /\ Len(<<dp>>) <= 1
          /\ <<dp>> \o <<i>> \in Seq(Inum) /\ Len(<<dp>> \o <<i>>) <= 2
      BY <1>1, Lengths, Appends
    <3> QED BY <1>1, <1>2, <2>5, <2>6, <3>1, OpenFilePlaces
  <2>7. CASE Finish(p, <<dp, i>>) /\ UNCHANGED file
    <3>1. <<dp, i>> \in Seq(Inum) /\ Len(<<dp, i>>) <= 2
      BY <1>1, Lengths
    <3> QED BY <1>2, <2>5, <2>7, <3>1, EndPlaces
  <2> QED BY <1>5, <2>6, <2>7
<1> QED BY <1>4, <1>5 DEF CreateFill

\* What is put next, and what remains.
LEMMA HeadOf ==
    ASSUME TypesOK, NEW p \in Proc, Putting(p), Len(puts[p]) <= 2
    PROVE  /\ Head(puts[p]) = puts[p][1] /\ puts[p][1] \in Inum
           /\ Tail(puts[p]) \in Seq(Inum) /\ Len(Tail(puts[p])) = Len(puts[p]) - 1
           /\ Len(puts[p]) \in 1..2
           /\ Len(puts[p]) = 2 => Tail(puts[p])[1] = puts[p][2]
<1> DEFINE s == puts[p]
<1>1. s \in Seq(Inum) /\ s # <<>> /\ Len(s) <= 2
  BY DEF TypesOK, Putting
<1> HIDE DEF s
<1>2. /\ Head(s) = s[1] /\ s[1] \in Inum
      /\ Tail(s) \in Seq(Inum) /\ Len(Tail(s)) = Len(s) - 1
      /\ Len(s) \in 1..2
  <2>1. Len(s) \in Nat /\ Len(s) # 0
    BY <1>1, EmptySeq
  <2>2. Len(s) \in 1..2
    <3>1. \A k \in Nat : k # 0 /\ k <= 2 => k \in 1..2
      OBVIOUS
    <3> QED BY <1>1, <2>1, <3>1
  <2>3. Head(s) = s[1] /\ s[1] \in Inum
    BY <1>1, <2>2
  <2> QED BY <1>1, <2>2, <2>3, HeadTailProperties
<1>3. Len(s) = 2 => Tail(s)[1] = s[2]
  <2>1. Len(s) = 2 => Len(Tail(s)) = 1 /\ 1 \in 1..1 /\ 1 + 1 = 2
    BY <1>2
  <2> QED BY <1>1, <2>1, HeadTailProperties
<1> QED BY <1>2, <1>3 DEF s

LEMMA PutPlaces ==
    ASSUME PlaceInv, NEW p \in Proc, Putting(p), TreeTypes',
           puts' = [puts EXCEPT ![p] = Tail(@)] \/ UNCHANGED puts,
           UNCHANGED <<cwd, file, locals>>
    PROVE  Places(p)
<1>1. TypesOK /\ Stands(p) /\ Len(puts[p]) <= 2
  BY DEF PlaceInv, Stands
<1>7. puts' \in [Proc -> Seq(Inum)]
  <2>1. Tail(puts[p]) \in Seq(Inum)
    BY <1>1, HeadOf
  <2>2. puts \in [Proc -> Seq(Inum)]
    BY <1>1 DEF TypesOK
  <2> QED BY <2>1, <2>2
<1>2. TypesOK'
  BY <1>1, <1>7 DEF TypesOK, TreeTypes, locals
<1>3. (puts'[p] = puts[p] \/ puts'[p] = Tail(puts[p])) /\ puts[p] # <<>>
  BY <1>1 DEF TypesOK, Putting
<1>8. Len(Tail(puts[p])) <= 2
  BY <1>1, HeadOf
<1>4. Len(puts'[p]) <= 2 /\ pc[p] \notin Holding
  BY <1>1, <1>3, <1>8 DEF Stands
<1>5. Stands(p)'
  BY <1>1, <1>4 DEF Stands, locals
<1>6. MovesOnly(p)
  BY <1>1 DEF TypesOK, locals, MovesOnly, Same
<1> QED BY <1>2, <1>5, <1>6 DEF Places

LEMMA IputPlaces ==
    ASSUME PlaceInv, NEW p \in Proc, Iput(p) \/ IputFree(p) \/ IputDone(p) PROVE Places(p)
<1> DEFINE i == puts[p][1]
<1>1. TypesOK /\ TreeTypes /\ Stands(p) /\ Putting(p) /\ i \in Inum /\ Head(puts[p]) = i
  BY AtType, HeadOf DEF Iput, IputFree, IputDone, Stands
<1>2. Free \in Inode
  BY DEF Free, Inode, Elems
<1>3. TreeTypes'
  <2>1. CASE Iput(p)
    BY <1>1, <1>2, <2>1 DEF Iput, TreeTypes
  <2>2. CASE IputFree(p)
    BY <1>1, <1>2, <2>2 DEF IputFree, TreeTypes
  <2>3. CASE IputDone(p)
    BY <1>1, <1>2, <2>3 DEF IputDone, TreeTypes
  <2> QED BY <2>1, <2>2, <2>3
<1>4. /\ puts' = [puts EXCEPT ![p] = Tail(@)] \/ UNCHANGED puts
      /\ UNCHANGED <<cwd, file, locals>>
  BY DEF Iput, IputFree, IputDone
<1> QED BY <1>1, <1>3, <1>4, PutPlaces

\* Before the first call, and again after a crash, nobody is inside a call.
LEMMA IdleCounts == Cardinality(Proc) \in Int
BY FS_CardinalityType, FsAssumption

LEMMA IdlePlace == Idle /\ dinode \in [Inum -> Inode] => PlaceInv
<1> SUFFICES ASSUME Idle, dinode \in [Inum -> Inode] PROVE PlaceInv
  OBVIOUS
<1>1. Free \in Inode
  BY DEF Free, Inode, Elems
<1>2. <<>> \in Seq(Elems) /\ <<>> \in Seq(Inum) /\ Len(<<>>) <= 2
  OBVIOUS
<1>3. TreeTypes
  BY <1>1, IdleCounts DEF Idle, TreeTypes
<1>4. CallTypes
  BY <1>2 DEF Idle, CallTypes, PCs
<1>5. cwd \in [Proc -> Inum] /\ file \in [Proc -> Inum \cup {NULL}] /\ puts \in [Proc -> Seq(Inum)]
  BY <1>2, FsAssumption DEF Idle
<1>6. TypesOK
  BY <1>3, <1>4, <1>5, Typed
<1>7. ASSUME NEW p \in Proc PROVE Stands(p)
  BY <1>2, <1>7, FsAssumption DEF Idle, Stands, Inside, Holding
<1> QED BY <1>6, <1>7 DEF PlaceInv

LEMMA CrashIdle == Crash => Idle' /\ UNCHANGED dinode
BY DEF Crash, Idle

LEMMA PlaceInit == Init => PlaceInv
<1>1. Init => dinode \in [Inum -> Inode]
  <2>1. Free \in Inode /\ Root \in Inode
    <3>1. Free \in Inode
      BY DEF Free, Inode, Elems
    <3> DEFINE e == [Free EXCEPT !.type = "dir"]
               f == [e EXCEPT !.nlink = 1]
    <3>2. e \in Inode
      BY DEF Free, Inode, Elems
    <3>3. f \in Inode
      <4> HIDE DEF e
      <4> QED BY <3>2, CountType
    <3>4. [f EXCEPT !.ents[".."] = ROOTINO] \in Inode
      BY <3>3, EntsType, FsAssumption DEF Elems
    <3>5. Root = [f EXCEPT !.ents[".."] = ROOTINO]
      BY DEF Root
    <3> QED BY <3>1, <3>4, <3>5
  <2> QED BY <2>1 DEF Init
<1> QED BY <1>1, IdlePlace DEF Init

\* What each step of one process is.
Step(p) == \/ SysCall(p)
           \/ Walk(p) \/ Open(p) \/ Chdir(p) \/ Close(p)
           \/ \E start \in {ROOTINO, cwd[p]} : LinkOld(p, start)
           \/ LinkNew(p) \/ LinkUndo(p) \/ UnlinkParent(p) \/ UnlinkChild(p)
           \/ CreateLookup(p) \/ CreateExists(p) \/ CreateFill(p)
           \/ Iput(p) \/ IputFree(p) \/ IputDone(p)

LEMMA StepPlaces == ASSUME PlaceInv, NEW p \in Proc, Step(p) PROVE Places(p)
BY SysCallPlaces, WalkPlaces, OpenPlaces, ChdirPlaces, ClosePlaces, LinkOldPlaces, LinkNewPlaces,
   LinkUndoPlaces, UnlinkParentPlaces, UnlinkChildPlaces, CreateLookupPlaces, CreateExistsPlaces,
   CreateFillPlaces, IputPlaces DEF Step

LEMMA NextIs == Next <=> Crash \/ \E p \in Proc : Step(p)
BY Zenon DEF Next, Step

LEMMA PlaceStep == PlaceInv /\ [Next]_vars => PlaceInv'
<1> SUFFICES ASSUME PlaceInv, [Next]_vars PROVE PlaceInv'
  OBVIOUS
<1>1. CASE Crash
  <2>1. Idle' /\ (dinode \in [Inum -> Inode])'
    BY <1>1, CrashIdle DEF PlaceInv, TypesOK
  <2>2. Idle' /\ (dinode \in [Inum -> Inode])' => PlaceInv'
    BY IdlePlace, PTL
  <2> QED BY <2>1, <2>2
<1>2. ASSUME NEW p \in Proc, Step(p) PROVE PlaceInv'
  BY <1>2, StepPlaces, PlacesInv
<1>3. CASE UNCHANGED vars
  BY <1>3 DEF PlaceInv, TypesOK, Stands, vars, table, locals
<1> QED BY <1>1, <1>2, <1>3, NextIs

\* Where processes stand in their calls.
THEOREM Placement == Spec => []PlaceInv
BY PlaceInit, PlaceStep, PTL DEF Spec

-----------------------------------------------------------------------------
\* References.

Mark(b) == IF b THEN 1 ELSE 0
Occ(s, i) == Mark(Len(s) > 0 /\ s[1] = i) + Mark(Len(s) > 1 /\ s[2] = i)

\* How often p points to i.
Own(p, i) == Mark(cwd[p] = i) + Mark(file[p] = i) + Mark(ip[p] = i) + Mark(other[p] = i)
             + Occ(puts[p], i)

\* A step of p changes ref as it changes p's pointers.
RefMoves(p) == \A i \in Inum : ref'[i] = ref[i] + Own(p, i)' - Own(p, i)

LEMMA MarkType == ASSUME NEW b \in BOOLEAN PROVE Mark(b) \in 0..1
BY DEF Mark

LEMMA OccType == ASSUME NEW s, NEW i PROVE Occ(s, i) \in 0..2
BY DEF Occ, Mark

LEMMA OwnType == ASSUME NEW p \in Proc, NEW i PROVE Own(p, i) \in Nat
BY OccType DEF Own, Mark

LEMMA OccForms ==
    ASSUME NEW i \in Inum, NEW j \in Inum, NEW k \in Inum
    PROVE  /\ Occ(<<>>, i) = 0 /\ Occ(<<j>>, i) = Mark(j = i)
           /\ Occ(<<j, k>>, i) = Mark(j = i) + Mark(k = i)
<1>1. Occ(<<>>, i) = 0
  BY DEF Occ, Mark
<1>2. Occ(<<j>>, i) = Mark(j = i)
  BY DEF Occ, Mark
<1>3. Occ(<<j, k>>, i) = Mark(j = i) + Mark(k = i)
  BY DEF Occ, Mark
<1> QED BY <1>1, <1>2, <1>3

\* A set that changes in p only.
LEMMA CountMoves ==
    ASSUME NEW S \in SUBSET Proc, NEW T \in SUBSET Proc, NEW p \in Proc,
           \A q \in Proc : q # p => (q \in S <=> q \in T)
    PROVE  /\ Cardinality(S) \in Nat /\ Cardinality(T) \in Nat
           /\ Cardinality(T) = Cardinality(S) + Mark(p \in T) - Mark(p \in S)
<1> DEFINE R == S \ {p}
<1>1. IsFiniteSet(S) /\ IsFiniteSet(T) /\ IsFiniteSet(R)
  BY FS_Subset, FsAssumption
<1>2. Cardinality(S) \in Nat /\ Cardinality(T) \in Nat /\ Cardinality(R) \in Nat
  BY <1>1, FS_CardinalityType
<1>3. Cardinality(R \cup {p}) = Cardinality(R) + 1
  BY <1>1, FS_AddElement
<1>4. S = IF p \in S THEN R \cup {p} ELSE R
  OBVIOUS
<1>5. T = IF p \in T THEN R \cup {p} ELSE R
  OBVIOUS
<1> HIDE DEF R
<1>6. Cardinality(S) = Cardinality(R) + Mark(p \in S)
  BY <1>2, <1>3, <1>4 DEF Mark
<1>7. Cardinality(T) = Cardinality(R) + Mark(p \in T)
  BY <1>2, <1>3, <1>5 DEF Mark
<1> QED BY <1>2, <1>6, <1>7 DEF Mark

\* A set has at least the two elements that are known to be in it.
LEMMA CountTwo ==
    ASSUME NEW S \in SUBSET Proc, NEW p \in Proc, NEW q \in Proc, p # q
    PROVE  /\ Cardinality(S) \in Nat
           /\ Mark(p \in S) + Mark(q \in S) <= Cardinality(S)
<1>1. IsFiniteSet(S) /\ Cardinality(S) \in Nat
  BY FS_Subset, FsAssumption, FS_CardinalityType
<1> DEFINE R == S \ {p}
           Q == R \ {q}
<1>2. IsFiniteSet(R) /\ IsFiniteSet(Q) /\ Cardinality(R) \in Nat /\ Cardinality(Q) \in Nat
  BY <1>1, FS_Subset, FS_CardinalityType
<1>3. Cardinality(R) = IF p \in S THEN Cardinality(S) - 1 ELSE Cardinality(S)
  BY <1>1, FS_RemoveElement
<1>4. Cardinality(Q) = IF q \in R THEN Cardinality(R) - 1 ELSE Cardinality(R)
  BY <1>2, FS_RemoveElement
<1>5. q \in R <=> q \in S
  OBVIOUS
<1> HIDE DEF R, Q
<1> QED BY <1>1, <1>2, <1>3, <1>4, <1>5 DEF Mark

\* The processes that point to i, by the kind of pointer.
CwdAt(i)   == {p \in Proc : cwd[p] = i}
FileAt(i)  == {p \in Proc : file[p] = i}
IpAt(i)    == {p \in Proc : ip[p] = i}
OtherAt(i) == {p \in Proc : other[p] = i}
PutAt(i)   == {p \in Proc : Len(puts[p]) > 0 /\ puts[p][1] = i}
Put2At(i)  == {p \in Proc : Len(puts[p]) > 1 /\ puts[p][2] = i}

LEMMA PointersAre ==
    ASSUME NEW i
    PROVE  Pointers(i) = Cardinality(CwdAt(i)) + Cardinality(FileAt(i)) + Cardinality(IpAt(i))
                         + Cardinality(OtherAt(i)) + Cardinality(PutAt(i)) + Cardinality(Put2At(i))
BY DEF Pointers, CwdAt, FileAt, IpAt, OtherAt, PutAt, Put2At

LEMMA OwnIs ==
    ASSUME NEW i, NEW p \in Proc
    PROVE  Own(p, i) = Mark(p \in CwdAt(i)) + Mark(p \in FileAt(i)) + Mark(p \in IpAt(i))
                       + Mark(p \in OtherAt(i)) + (Mark(p \in PutAt(i)) + Mark(p \in Put2At(i)))
BY DEF Own, Occ, Mark, CwdAt, FileAt, IpAt, OtherAt, PutAt, Put2At

LEMMA RefStep ==
    ASSUME RefCountsPointers, NEW p \in Proc, MovesOnly(p), RefMoves(p)
    PROVE  RefCountsPointers'
<1> SUFFICES ASSUME NEW i \in Inum PROVE ref'[i] = Pointers(i)'
  BY DEF RefCountsPointers
<1>1. \A q \in Proc : q # p =>
        /\ (q \in CwdAt(i) <=> q \in CwdAt(i)') /\ (q \in FileAt(i) <=> q \in FileAt(i)')
        /\ (q \in IpAt(i) <=> q \in IpAt(i)') /\ (q \in OtherAt(i) <=> q \in OtherAt(i)')
        /\ (q \in PutAt(i) <=> q \in PutAt(i)') /\ (q \in Put2At(i) <=> q \in Put2At(i)')
  BY DEF MovesOnly, Same, CwdAt, FileAt, IpAt, OtherAt, PutAt, Put2At
<1> DEFINE Moved(S, T) == /\ Cardinality(S) \in Nat /\ Cardinality(T) \in Nat
                          /\ Cardinality(T) = Cardinality(S) + Mark(p \in T) - Mark(p \in S)
<1>2. /\ CwdAt(i) \subseteq Proc /\ FileAt(i) \subseteq Proc /\ IpAt(i) \subseteq Proc
      /\ OtherAt(i) \subseteq Proc /\ PutAt(i) \subseteq Proc /\ Put2At(i) \subseteq Proc
      /\ CwdAt(i)' \subseteq Proc /\ FileAt(i)' \subseteq Proc /\ IpAt(i)' \subseteq Proc
      /\ OtherAt(i)' \subseteq Proc /\ PutAt(i)' \subseteq Proc /\ Put2At(i)' \subseteq Proc
  BY DEF CwdAt, FileAt, IpAt, OtherAt, PutAt, Put2At
<1>3. /\ Moved(CwdAt(i), CwdAt(i)') /\ Moved(FileAt(i), FileAt(i)') /\ Moved(IpAt(i), IpAt(i)')
      /\ Moved(OtherAt(i), OtherAt(i)') /\ Moved(PutAt(i), PutAt(i)') /\ Moved(Put2At(i), Put2At(i)')
  <2>1. Moved(CwdAt(i), CwdAt(i)')
    BY <1>1, <1>2, CountMoves
  <2>2. Moved(FileAt(i), FileAt(i)')
    BY <1>1, <1>2, CountMoves
  <2>3. Moved(IpAt(i), IpAt(i)')
    BY <1>1, <1>2, CountMoves
  <2>4. Moved(OtherAt(i), OtherAt(i)')
    BY <1>1, <1>2, CountMoves
  <2>5. Moved(PutAt(i), PutAt(i)')
    BY <1>1, <1>2, CountMoves
  <2>6. Moved(Put2At(i), Put2At(i)')
    BY <1>1, <1>2, CountMoves
  <2> QED BY <2>1, <2>2, <2>3, <2>4, <2>5, <2>6
<1>4. Pointers(i) = Cardinality(CwdAt(i)) + Cardinality(FileAt(i)) + Cardinality(IpAt(i))
                    + Cardinality(OtherAt(i)) + Cardinality(PutAt(i)) + Cardinality(Put2At(i))
  BY PointersAre
<1>5. Pointers(i)' = Cardinality(CwdAt(i)') + Cardinality(FileAt(i)') + Cardinality(IpAt(i)')
                     + Cardinality(OtherAt(i)') + Cardinality(PutAt(i)') + Cardinality(Put2At(i)')
  BY DEF Pointers, CwdAt, FileAt, IpAt, OtherAt, PutAt, Put2At
<1>6. Own(p, i) = Mark(p \in CwdAt(i)) + Mark(p \in FileAt(i)) + Mark(p \in IpAt(i))
                  + Mark(p \in OtherAt(i)) + (Mark(p \in PutAt(i)) + Mark(p \in Put2At(i)))
  BY OwnIs
<1>7. Own(p, i)' = Mark(p \in CwdAt(i)') + Mark(p \in FileAt(i)') + Mark(p \in IpAt(i)')
                   + Mark(p \in OtherAt(i)') + (Mark(p \in PutAt(i)') + Mark(p \in Put2At(i)'))
  BY DEF Own, Occ, Mark, CwdAt, FileAt, IpAt, OtherAt, PutAt, Put2At
<1>8. ref[i] = Pointers(i) /\ ref'[i] = ref[i] + Own(p, i)' - Own(p, i)
  BY DEF RefCountsPointers, RefMoves
<1>9. /\ Mark(p \in CwdAt(i)) \in Int /\ Mark(p \in FileAt(i)) \in Int /\ Mark(p \in IpAt(i)) \in Int
      /\ Mark(p \in OtherAt(i)) \in Int /\ Mark(p \in PutAt(i)) \in Int /\ Mark(p \in Put2At(i)) \in Int
      /\ Mark(p \in CwdAt(i)') \in Int /\ Mark(p \in FileAt(i)') \in Int /\ Mark(p \in IpAt(i)') \in Int
      /\ Mark(p \in OtherAt(i)') \in Int /\ Mark(p \in PutAt(i)') \in Int /\ Mark(p \in Put2At(i)') \in Int
  BY DEF Mark
<1> QED BY <1>3, <1>4, <1>5, <1>6, <1>7, <1>8, <1>9

\* Two processes that point to i.
LEMMA TwoPoint ==
    ASSUME RefCountsPointers, NEW i \in Inum, NEW p \in Proc, NEW q \in Proc, p # q
    PROVE  Own(p, i) + Own(q, i) <= ref[i]
<1> DEFINE Two(S) == Cardinality(S) \in Nat /\ Mark(p \in S) + Mark(q \in S) <= Cardinality(S)
<1>1. /\ CwdAt(i) \subseteq Proc /\ FileAt(i) \subseteq Proc /\ IpAt(i) \subseteq Proc
      /\ OtherAt(i) \subseteq Proc /\ PutAt(i) \subseteq Proc /\ Put2At(i) \subseteq Proc
  BY DEF CwdAt, FileAt, IpAt, OtherAt, PutAt, Put2At
<1>2. Two(CwdAt(i)) /\ Two(FileAt(i)) /\ Two(IpAt(i)) /\ Two(OtherAt(i)) /\ Two(PutAt(i)) /\ Two(Put2At(i))
  BY <1>1, CountTwo
<1>3. \A r \in {p, q} :
        /\ Mark(r \in CwdAt(i)) \in Int /\ Mark(r \in FileAt(i)) \in Int /\ Mark(r \in IpAt(i)) \in Int
        /\ Mark(r \in OtherAt(i)) \in Int /\ Mark(r \in PutAt(i)) \in Int /\ Mark(r \in Put2At(i)) \in Int
  BY DEF Mark
<1>4. ref[i] = Pointers(i)
  BY DEF RefCountsPointers
<1> QED BY <1>2, <1>3, <1>4, PointersAre, OwnIs

\* Every pointer of a process is counted.
LEMMA OwnCounted ==
    ASSUME RefCountsPointers, NEW i \in Inum, NEW p \in Proc
    PROVE  Own(p, i) <= ref[i] /\ ref[i] \in Nat
<1> DEFINE One(S) == Cardinality(S) \in Nat /\ Mark(p \in S) <= Cardinality(S)
<1>1. /\ CwdAt(i) \subseteq Proc /\ FileAt(i) \subseteq Proc /\ IpAt(i) \subseteq Proc
      /\ OtherAt(i) \subseteq Proc /\ PutAt(i) \subseteq Proc /\ Put2At(i) \subseteq Proc
  BY DEF CwdAt, FileAt, IpAt, OtherAt, PutAt, Put2At
<1>2. ASSUME NEW S \in SUBSET Proc PROVE One(S)
  <2>1. IsFiniteSet(S) /\ Cardinality(S) \in Nat
    BY FS_Subset, FsAssumption, FS_CardinalityType
  <2>2. p \in S => Cardinality(S) # 0
    BY <2>1, FS_EmptySet
  <2> QED BY <2>1, <2>2 DEF Mark
<1>3. One(CwdAt(i)) /\ One(FileAt(i)) /\ One(IpAt(i)) /\ One(OtherAt(i)) /\ One(PutAt(i)) /\ One(Put2At(i))
  BY <1>1, <1>2
<1>4. /\ Mark(p \in CwdAt(i)) \in Int /\ Mark(p \in FileAt(i)) \in Int /\ Mark(p \in IpAt(i)) \in Int
      /\ Mark(p \in OtherAt(i)) \in Int /\ Mark(p \in PutAt(i)) \in Int /\ Mark(p \in Put2At(i)) \in Int
  BY DEF Mark
<1>5. ref[i] = Pointers(i)
  BY DEF RefCountsPointers
<1> QED BY <1>3, <1>4, <1>5, PointersAre, OwnIs

\* What a process points to when it is about to lock an inode for its call.
LEMMA OwnAt ==
    ASSUME PlaceInv, NEW p \in Proc, puts[p] = <<>>, NEW x \in Inum
    PROVE  Own(p, x) = Mark(cwd[p] = x) + Mark(file[p] = x) + Mark(ip[p] = x) + Mark(other[p] = x)
<1>1. Occ(puts[p], x) = 0
  BY DEF Occ, Mark
<1> QED BY <1>1 DEF Own, Mark

LEMMA FinishOwn ==
    ASSUME PlaceInv, NEW p \in Proc, NEW s \in Seq(Inum), Len(s) <= 2, Finish(p, s), NEW x \in Inum
    PROVE  Own(p, x)' = Mark(cwd'[p] = x) + Mark(file'[p] = x) + Occ(s, x)
<1>1. ip'[p] = NULL /\ other'[p] = NULL /\ puts'[p] = s /\ x # NULL
  BY FinishType, FsAssumption
<1>2. Own(p, x)' = Mark(cwd'[p] = x) + Mark(file'[p] = x) + Mark(ip'[p] = x) + Mark(other'[p] = x)
                   + Occ(puts'[p], x)
  BY DEF Own, Occ, Mark
<1>3. Occ(puts'[p], x) = Occ(s, x) /\ Mark(ip'[p] = x) = 0 /\ Mark(other'[p] = x) = 0
  BY <1>1 DEF Mark
<1> QED BY <1>2, <1>3, OccType DEF Mark

\* A call ends with giving up what it had looked up.
LEMMA EndRef ==
    ASSUME PlaceInv, NEW p \in Proc, puts[p] = <<>>,
           NEW s \in Seq(Inum), Len(s) <= 2, Finish(p, s),
           UNCHANGED <<ref, cwd, file>>,
           \A x \in Inum : Occ(s, x) = Mark(ip[p] = x) + Mark(other[p] = x)
    PROVE  RefMoves(p)
<1> SUFFICES ASSUME NEW x \in Inum PROVE ref'[x] = ref[x] + Own(p, x)' - Own(p, x)
  BY DEF RefMoves
<1>1. Own(p, x)' = Mark(cwd[p] = x) + Mark(file[p] = x) + Occ(s, x)
  BY FinishOwn
<1>2. Own(p, x) = Mark(cwd[p] = x) + Mark(file[p] = x) + Mark(ip[p] = x) + Mark(other[p] = x)
  BY OwnAt
<1>3. Own(p, x)' = Own(p, x) /\ Own(p, x) \in Int
  BY <1>1, <1>2 DEF Mark
<1>4. ref[x] \in Int /\ ref'[x] = ref[x]
  BY DEF PlaceInv, TypesOK
<1> QED BY <1>3, <1>4

LEMMA OpenFileRef ==
    ASSUME PlaceInv, NEW p \in Proc, puts[p] = <<>>, NEW i \in Inum,
           NEW s \in Seq(Inum), Len(s) <= 1,
           s \o <<i>> \in Seq(Inum), Len(s \o <<i>>) <= 2,
           OpenFile(p, i, s), UNCHANGED <<ref, cwd>>,
           \A x \in Inum : Occ(s \o <<i>>, x) = Occ(s, x) + Mark(i = x),
           \A x \in Inum : Occ(s, x) + Mark(i = x) = Mark(ip[p] = x) + Mark(other[p] = x)
    PROVE  RefMoves(p)
<1>1. CASE file[p] = NULL /\ file' = [file EXCEPT ![p] = i] /\ Finish(p, s)
  <2> SUFFICES ASSUME NEW x \in Inum PROVE ref'[x] = ref[x] + Own(p, x)' - Own(p, x)
    BY DEF RefMoves
  <2>1. file'[p] = i /\ file[p] # x /\ Len(s) <= 2 /\ cwd'[p] = cwd[p] /\ ref'[x] = ref[x] /\ ref[x] \in Int
    BY <1>1, FsAssumption DEF PlaceInv, TypesOK
  <2>2. Own(p, x)' = Mark(cwd[p] = x) + Mark(i = x) + Occ(s, x)
    BY <1>1, <2>1, FinishOwn
  <2>3. Own(p, x) = Mark(cwd[p] = x) + 0 + Mark(ip[p] = x) + Mark(other[p] = x)
    BY <2>1, OwnAt DEF Mark
  <2>5. Occ(s, x) + Mark(i = x) = Mark(ip[p] = x) + Mark(other[p] = x)
    OBVIOUS
  <2>6. /\ Mark(cwd[p] = x) \in Int /\ Mark(i = x) \in Int /\ Mark(ip[p] = x) \in Int
        /\ Mark(other[p] = x) \in Int /\ Occ(s, x) \in Int
    BY OccType DEF Mark
  <2>4. Own(p, x)' = Own(p, x) /\ Own(p, x) \in Int
    <3> DEFINE a == Mark(cwd[p] = x)
               b == Mark(i = x)
               c == Occ(s, x)
               d == Mark(ip[p] = x)
               e == Mark(other[p] = x)
    <3>1. a \in Int /\ b \in Int /\ c \in Int /\ d \in Int /\ e \in Int /\ c + b = d + e
      BY <2>5, <2>6
    <3>2. Own(p, x)' = a + b + c /\ Own(p, x) = a + 0 + d + e
      BY <2>2, <2>3
    <3> HIDE DEF a, b, c, d, e
    <3> QED BY <3>1, <3>2
  <2> QED BY <2>1, <2>4
<1>2. CASE Finish(p, s \o <<i>>) /\ UNCHANGED file
  <2> DEFINE t == s \o <<i>>
  <2>1. t \in Seq(Inum) /\ Len(t) <= 2 /\ Finish(p, t)
        /\ \A x \in Inum : Occ(t, x) = Mark(ip[p] = x) + Mark(other[p] = x)
    BY <1>2
  <2> HIDE DEF t
  <2> QED BY <1>2, <2>1, EndRef
<1> QED BY <1>1, <1>2 DEF OpenFile

\* A step that adds i to what p points to, and keeps the rest; one of the places may
\* take over from another.
LEMMA TakesRef ==
    ASSUME PlaceInv, NEW p \in Proc, NEW i \in Inum, Hold(i),
           \A x \in Inum : Own(p, x)' = Own(p, x) + Mark(i = x)
    PROVE  RefMoves(p)
<1> SUFFICES ASSUME NEW x \in Inum PROVE ref'[x] = ref[x] + Own(p, x)' - Own(p, x)
  BY DEF RefMoves
<1>1. ref'[x] = ref[x] + Mark(i = x) /\ ref[x] \in Int
  BY DEF Hold, Mark, PlaceInv, TypesOK
<1>2. Own(p, x)' = Own(p, x) + Mark(i = x) /\ Own(p, x) \in Nat
  BY OwnType
<1> QED BY <1>1, <1>2 DEF Mark

LEMMA BeginRef ==
    ASSUME PlaceInv, NEW p \in Proc, NEW c \in Calls, NEW s, NEW t, NEW start, Begin(p, c, s, t, start)
    PROVE  RefMoves(p)
<1>1. TypesOK /\ Stands(p) /\ pc[p] = "user"
  BY DEF PlaceInv, Begin
<1>2. start \in Inum
  BY <1>1, FsAssumption DEF Begin, TypesOK
<1>3. /\ ip[p] = NULL /\ ip'[p] = start /\ other' = other /\ puts' = puts /\ cwd' = cwd /\ file' = file
      /\ Hold(start)
  BY <1>1 DEF Begin, Stands, TypesOK
<1>4. ASSUME NEW x \in Inum PROVE Own(p, x)' = Own(p, x) + Mark(start = x)
  <2>1. x # NULL
    BY FsAssumption
  <2> QED BY <1>3, <2>1, OccType DEF Own, Mark
<1> QED BY <1>2, <1>3, <1>4, TakesRef

LEMMA SysCallRef == ASSUME PlaceInv, NEW p \in Proc, SysCall(p) PROVE RefMoves(p)
<1>1. CASE Begin(p, "chdir", <<>>, NULL, ROOTINO)
  <2>1. "chdir" \in Calls
    BY DEF Calls
  <2> QED BY <1>1, <2>1, BeginRef
<1>2. ASSUME NEW c \in Calls, NEW s, NEW t, NEW start, Begin(p, c, s, t, start) PROVE RefMoves(p)
  BY <1>2, BeginRef
<1> QED BY <1>1, <1>2 DEF SysCall

LEMMA WalkRef == ASSUME PlaceInv, NEW p \in Proc, Walk(p) PROVE RefMoves(p)
<1> DEFINE i == ip[p]
           n == Look(i).ents[Elem(p)]
<1>1. TypesOK /\ TreeTypes /\ Stands(p)
  BY Typed DEF PlaceInv
<1>2. pc[p] = "walk" /\ puts[p] = <<>> /\ i \in Inum /\ pos[p] \in 1..Len(path[p])
  BY <1>1 DEF Walk, At, Stands, Inside
<1>3. n \in Inum \cup {0} /\ (n # 0 => n \in Inum)
  BY <1>1, <1>2, ElemType, EntType
<1>4. UNCHANGED <<cwd, file>>
  BY DEF Walk
<1>5. CASE Undo(p, i) /\ UNCHANGED ref
  <2> SUFFICES ASSUME NEW x \in Inum PROVE ref'[x] = ref[x] + Own(p, x)' - Own(p, x)
    BY DEF RefMoves
  <2>1. puts'[p] = <<i>> /\ ip'[p] = NULL /\ other'[p] = other[p] /\ x # NULL
    BY <1>1, <1>5, FsAssumption DEF Undo, TypesOK
  <2>2. Occ(puts'[p], x) = Mark(i = x) /\ Occ(puts[p], x) = 0
    BY <1>2, <2>1 DEF Occ, Mark
  <2>3. Own(p, x)' = Own(p, x)
    <3>1. Own(p, x)' = Mark(cwd'[p] = x) + Mark(file'[p] = x) + Mark(ip'[p] = x) + Mark(other'[p] = x)
                       + Occ(puts'[p], x)
      BY DEF Own, Occ, Mark
    <3> QED BY <1>4, <2>1, <2>2, <3>1 DEF Own, Mark
  <2> QED BY <1>1, <1>5, <2>3, OwnType DEF TypesOK
<1>6. CASE call[p] # "link2" /\ Finish(p, <<i>>) /\ UNCHANGED ref
  <2>1. other[p] = NULL
    BY <1>1, <1>2, <1>6 DEF Stands, Holding
  <2>2. \A x \in Inum : Occ(<<i>>, x) = Mark(ip[p] = x) + Mark(other[p] = x)
    BY <1>2, <2>1, FsAssumption DEF Occ, Mark
  <2>3. <<i>> \in Seq(Inum) /\ Len(<<i>>) <= 2
    BY <1>2
  <2> QED BY <1>2, <1>4, <1>6, <2>2, <2>3, EndRef
<1>7. CASE Goto(p, "parent") /\ UNCHANGED <<ref, puts>>
  <2> SUFFICES ASSUME NEW x \in Inum PROVE ref'[x] = ref[x] + Own(p, x)' - Own(p, x)
    BY DEF RefMoves
  <2>1. Own(p, x)' = Own(p, x)
    BY <1>4, <1>7 DEF Goto, Own
  <2> QED BY <1>1, <1>7, <2>1, OwnType DEF TypesOK
<1>8. CASE /\ n # 0
           /\ Hold(n)
           /\ puts' = [puts EXCEPT ![p] = <<i>>]
           /\ ip' = [ip EXCEPT ![p] = n]
           /\ UNCHANGED <<call, path, new, other>>
  <2> HIDE DEF n, i
  <2>1. n \in Inum /\ i \in Inum /\ ip'[p] = n /\ puts'[p] = <<i>> /\ other'[p] = other[p]
    BY <1>1, <1>2, <1>3, <1>8 DEF TypesOK
  <2>2. ASSUME NEW x \in Inum PROVE Own(p, x)' = Own(p, x) + Mark(n = x)
    <3>1. Own(p, x)' = Mark(cwd'[p] = x) + Mark(file'[p] = x) + Mark(ip'[p] = x) + Mark(other'[p] = x)
                       + Occ(puts'[p], x)
      BY DEF Own, Occ, Mark
    <3>2. Occ(puts'[p], x) = Mark(i = x)
      BY <2>1 DEF Occ, Mark
    <3>3. Own(p, x) = Mark(cwd[p] = x) + Mark(file[p] = x) + Mark(i = x) + Mark(other[p] = x)
      BY <1>2, OwnAt DEF i
    <3> QED BY <1>4, <2>1, <3>1, <3>2, <3>3 DEF Mark
  <2> QED BY <1>8, <2>1, <2>2, TakesRef
<1> QED BY <1>5, <1>6, <1>7, <1>8 DEF Walk

LEMMA OpenIpRef ==
    ASSUME PlaceInv, NEW p \in Proc, puts[p] = <<>>, ip[p] \in Inum, other[p] = NULL,
           OpenFile(p, ip[p], <<>>), UNCHANGED <<ref, cwd>>
    PROVE  RefMoves(p)
<1> DEFINE s == <<>>
           i == ip[p]
<1>1. s \o <<i>> = <<i>> /\ <<i>> \in Seq(Inum) /\ Len(<<i>>) <= 2
  BY Appends
<1>2. s \in Seq(Inum) /\ Len(s) <= 1
  OBVIOUS
<1>3. s \o <<i>> \in Seq(Inum) /\ Len(s \o <<i>>) <= 2
  BY <1>1
<1>4. ASSUME NEW x \in Inum
      PROVE  /\ Occ(s, x) = 0 /\ Occ(<<i>>, x) = Mark(i = x)
             /\ Mark(other[p] = x) = 0 /\ Mark(i = x) \in Int
  BY FsAssumption DEF Occ, Mark
<1>5. \A x \in Inum : Occ(s \o <<i>>, x) = Occ(s, x) + Mark(i = x)
  BY <1>1, <1>4
<1>6. \A x \in Inum : Occ(s, x) + Mark(i = x) = Mark(ip[p] = x) + Mark(other[p] = x)
  BY <1>4
<1>7. OpenFile(p, i, s) /\ i \in Inum
  OBVIOUS
<1> HIDE DEF s, i
<1> QED BY <1>2, <1>3, <1>5, <1>6, <1>7, OpenFileRef

LEMMA OpenRef == ASSUME PlaceInv, NEW p \in Proc, Open(p) PROVE RefMoves(p)
<1>1. ip[p] \in Inum /\ Stands(p) /\ pc[p] = "found" /\ call[p] = "open" /\ puts[p] = <<>>
  BY AtType DEF Open, At, Inside
<1>2. other[p] = NULL
  BY <1>1 DEF Stands, Holding
<1>3. OpenFile(p, ip[p], <<>>) /\ UNCHANGED <<ref, cwd>>
  BY DEF Open
<1> QED BY <1>1, <1>2, <1>3, OpenIpRef

LEMMA CreateExistsRef == ASSUME PlaceInv, NEW p \in Proc, CreateExists(p) PROVE RefMoves(p)
<1>1. ip[p] \in Inum /\ Stands(p) /\ pc[p] = "exists" /\ puts[p] = <<>>
  BY AtType DEF CreateExists, At, Inside
<1>2. other[p] = NULL
  BY <1>1 DEF Stands, Holding
<1>3. UNCHANGED <<ref, cwd>>
  BY DEF CreateExists
<1>4. CASE OpenFile(p, ip[p], <<>>)
  BY <1>1, <1>2, <1>3, <1>4, OpenIpRef
<1>5. CASE Finish(p, <<ip[p]>>) /\ UNCHANGED file
  <2>1. <<ip[p]>> \in Seq(Inum) /\ Len(<<ip[p]>>) <= 2
    BY <1>1
  <2>2. \A x \in Inum : Occ(<<ip[p]>>, x) = Mark(ip[p] = x) + Mark(other[p] = x)
    BY <1>1, <1>2, FsAssumption DEF Occ, Mark
  <2> QED BY <1>1, <1>3, <1>5, <2>1, <2>2, EndRef
<1> QED BY <1>4, <1>5 DEF CreateExists

LEMMA ChdirRef == ASSUME PlaceInv, NEW p \in Proc, Chdir(p) PROVE RefMoves(p)
<1>1. /\ ip[p] \in Inum /\ Stands(p) /\ TypesOK
      /\ pc[p] = "found" /\ call[p] = "chdir" /\ puts[p] = <<>>
  BY AtType DEF Chdir, At, Inside
<1>2. other[p] = NULL /\ cwd[p] \in Inum
  BY <1>1 DEF Stands, Holding, TypesOK
<1>3. UNCHANGED <<ref, file>>
  BY DEF Chdir
<1>4. CASE Finish(p, <<cwd[p]>>) /\ cwd' = [cwd EXCEPT ![p] = ip[p]]
  <2> SUFFICES ASSUME NEW x \in Inum PROVE ref'[x] = ref[x] + Own(p, x)' - Own(p, x)
    BY DEF RefMoves
  <2>1. cwd'[p] = ip[p] /\ <<cwd[p]>> \in Seq(Inum) /\ Len(<<cwd[p]>>) <= 2 /\ x # NULL
    BY <1>1, <1>2, <1>4, FsAssumption DEF TypesOK
  <2>2. Occ(<<cwd[p]>>, x) = Mark(cwd[p] = x)
    BY <1>2 DEF Occ, Mark
  <2>3. Own(p, x)' = Mark(ip[p] = x) + Mark(file[p] = x) + Mark(cwd[p] = x)
    <3>1. Own(p, x)' = Mark(cwd'[p] = x) + Mark(file'[p] = x) + Occ(<<cwd[p]>>, x)
      BY <1>4, <2>1, FinishOwn
    <3>2. cwd'[p] = ip[p] /\ file'[p] = file[p]
      BY <1>3, <2>1
    <3> QED BY <2>2, <3>1, <3>2
  <2>4. Own(p, x) = Mark(cwd[p] = x) + Mark(file[p] = x) + Mark(ip[p] = x)
    BY <1>1, <1>2, <2>1, OwnAt DEF Mark
  <2>5. Own(p, x)' = Own(p, x)
    BY <2>3, <2>4 DEF Mark
  <2> QED BY <1>1, <1>3, <2>5, OwnType DEF TypesOK
<1>5. CASE Finish(p, <<ip[p]>>) /\ UNCHANGED cwd
  <2>1. <<ip[p]>> \in Seq(Inum) /\ Len(<<ip[p]>>) <= 2
    BY <1>1
  <2>2. \A x \in Inum : Occ(<<ip[p]>>, x) = Mark(ip[p] = x) + Mark(other[p] = x)
    BY <1>1, <1>2, FsAssumption DEF Occ, Mark
  <2> QED BY <1>1, <1>3, <1>5, <2>1, <2>2, EndRef
<1> QED BY <1>4, <1>5 DEF Chdir

LEMMA CloseRef == ASSUME PlaceInv, NEW p \in Proc, Close(p) PROVE RefMoves(p)
<1> SUFFICES ASSUME NEW x \in Inum PROVE ref'[x] = ref[x] + Own(p, x)' - Own(p, x)
  BY DEF RefMoves
<1>1. TypesOK /\ puts[p] = <<>> /\ file[p] \in Inum
  BY DEF PlaceInv, TypesOK, Close
<1>2. /\ puts'[p] = <<file[p]>> /\ file'[p] = NULL /\ x # NULL
      /\ UNCHANGED <<ref, cwd, ip, other>>
  BY <1>1, FsAssumption DEF Close, TypesOK, table, locals
<1>3. Occ(puts'[p], x) = Mark(file[p] = x)
  BY <1>1, <1>2 DEF Occ, Mark
<1>4. Own(p, x)' = Mark(cwd'[p] = x) + Mark(file'[p] = x) + Mark(ip'[p] = x) + Mark(other'[p] = x)
                   + Occ(puts'[p], x)
  BY DEF Own, Occ, Mark
<1>5. Own(p, x) = Mark(cwd[p] = x) + Mark(file[p] = x) + Mark(ip[p] = x) + Mark(other[p] = x)
  BY <1>1, OwnAt
<1>6. Own(p, x)' = Own(p, x)
  BY <1>2, <1>3, <1>4, <1>5 DEF Mark
<1> QED BY <1>1, <1>2, <1>6, OwnType DEF TypesOK

LEMMA LinkOldRef ==
    ASSUME PlaceInv, NEW p \in Proc, NEW start, LinkOld(p, start) PROVE RefMoves(p)
<1> DEFINE i == ip[p]
<1>1. /\ TypesOK /\ Stands(p) /\ i \in Inum
      /\ call[p] = "link" /\ pc[p] = "found" /\ puts[p] = <<>>
  BY AtType DEF LinkOld, At, Inside
<1>2. other[p] = NULL /\ start \in Inum /\ UNCHANGED <<cwd, file>>
  BY <1>1, FsAssumption DEF Stands, Holding, LinkOld, TypesOK
<1>3. CASE Finish(p, <<i>>) /\ UNCHANGED ref
  <2>1. <<i>> \in Seq(Inum) /\ Len(<<i>>) <= 2
    BY <1>1
  <2>2. \A x \in Inum : Occ(<<i>>, x) = Mark(ip[p] = x) + Mark(other[p] = x)
    BY <1>1, <1>2, FsAssumption DEF Occ, Mark
  <2> QED BY <1>1, <1>2, <1>3, <2>1, <2>2, EndRef
<1>4. CASE /\ other' = [other EXCEPT ![p] = i]
           /\ ip' = [ip EXCEPT ![p] = start]
           /\ Hold(start)
           /\ UNCHANGED puts
  <2>1. other'[p] = i /\ ip'[p] = start /\ puts'[p] = <<>>
    BY <1>1, <1>4 DEF TypesOK
  <2>2. ASSUME NEW x \in Inum PROVE Own(p, x)' = Own(p, x) + Mark(start = x)
    <3>1. Own(p, x)' = Mark(cwd'[p] = x) + Mark(file'[p] = x) + Mark(ip'[p] = x) + Mark(other'[p] = x)
                       + Occ(puts'[p], x)
      BY DEF Own, Occ, Mark
    <3>2. Occ(puts'[p], x) = 0
      BY <2>1 DEF Occ, Mark
    <3>3. Own(p, x) = Mark(cwd[p] = x) + Mark(file[p] = x) + Mark(i = x) + Mark(other[p] = x)
      BY <1>1, OwnAt
    <3>4. Mark(other[p] = x) = 0
      BY <1>2, FsAssumption DEF Mark
    <3> QED BY <1>2, <2>1, <3>1, <3>2, <3>3, <3>4 DEF Mark
  <2> QED BY <1>2, <1>4, <2>2, TakesRef
<1> QED BY <1>3, <1>4 DEF LinkOld

\* link() turns to taking back the count, giving up the directory.
LEMMA UndoRef ==
    ASSUME PlaceInv, NEW p \in Proc, puts[p] = <<>>, ip[p] \in Inum, Undo(p, ip[p]),
           UNCHANGED <<ref, cwd, file>>
    PROVE  RefMoves(p)
<1> SUFFICES ASSUME NEW x \in Inum PROVE ref'[x] = ref[x] + Own(p, x)' - Own(p, x)
  BY DEF RefMoves
<1>1. TypesOK
  BY DEF PlaceInv
<1>2. puts'[p] = <<ip[p]>> /\ ip'[p] = NULL /\ other'[p] = other[p] /\ x # NULL
  BY <1>1, FsAssumption DEF Undo, TypesOK
<1>3. Occ(puts'[p], x) = Mark(ip[p] = x)
  BY <1>2 DEF Occ, Mark
<1>4. Own(p, x)' = Mark(cwd'[p] = x) + Mark(file'[p] = x) + Mark(ip'[p] = x) + Mark(other'[p] = x)
                   + Occ(puts'[p], x)
  BY DEF Own, Occ, Mark
<1>5. Own(p, x) = Mark(cwd[p] = x) + Mark(file[p] = x) + Mark(ip[p] = x) + Mark(other[p] = x)
  BY OwnAt
<1>6. Own(p, x)' = Own(p, x)
  BY <1>2, <1>3, <1>4, <1>5 DEF Mark
<1> QED BY <1>1, <1>6, OwnType DEF TypesOK

LEMMA LinkNewRef == ASSUME PlaceInv, NEW p \in Proc, LinkNew(p) PROVE RefMoves(p)
<1> DEFINE dp == ip[p]
<1>1. /\ TypesOK /\ Stands(p) /\ dp \in Inum /\ call[p] = "link2" /\ pc[p] = "parent" /\ puts[p] = <<>>
  BY AtType DEF LinkNew, At, Inside
<1>2. other[p] \in Inum /\ UNCHANGED <<ref, cwd, file>>
  BY <1>1 DEF Stands, TypesOK, LinkNew
<1>3. CASE Undo(p, dp)
  BY <1>1, <1>2, <1>3, UndoRef
<1>4. CASE Finish(p, <<dp, other[p]>>)
  <2>1. <<dp, other[p]>> \in Seq(Inum) /\ Len(<<dp, other[p]>>) <= 2
    BY <1>1, <1>2, Lengths
  <2>2. \A x \in Inum : Occ(<<dp, other[p]>>, x) = Mark(ip[p] = x) + Mark(other[p] = x)
    BY <1>1, <1>2 DEF Occ, Mark
  <2> QED BY <1>1, <1>2, <1>4, <2>1, <2>2, EndRef
<1> QED BY <1>3, <1>4 DEF LinkNew

LEMMA LinkUndoRef == ASSUME PlaceInv, NEW p \in Proc, LinkUndo(p) PROVE RefMoves(p)
<1> DEFINE i == other[p]
<1>1. TypesOK /\ Stands(p) /\ i \in Inum /\ pc[p] = "undo" /\ puts[p] = <<>>
  BY AtType DEF LinkUndo, At
<1>2. UNCHANGED <<ref, cwd, file>> /\ Finish(p, <<i>>) /\ ip[p] = NULL
  BY <1>1 DEF LinkUndo, Stands
<1>3. <<i>> \in Seq(Inum) /\ Len(<<i>>) <= 2
  BY <1>1
<1>4. \A x \in Inum : Occ(<<i>>, x) = Mark(ip[p] = x) + Mark(other[p] = x)
  BY <1>1, <1>2, FsAssumption DEF Occ, Mark
<1> QED BY <1>1, <1>2, <1>3, <1>4, EndRef

\* unlink() and create() take the inode of the entry.
LEMMA HoldsRef ==
    ASSUME PlaceInv, NEW p \in Proc, puts[p] = <<>>, other[p] = NULL, NEW i \in Inum, Hold(i),
           other' = [other EXCEPT ![p] = i], UNCHANGED <<ip, puts, cwd, file>>
    PROVE  RefMoves(p)
<1>1. other'[p] = i
  BY DEF PlaceInv, TypesOK
<1>2. ASSUME NEW x \in Inum PROVE Own(p, x)' = Own(p, x) + Mark(i = x)
  <2>1. Mark(other[p] = x) = 0 /\ Mark(other'[p] = x) = Mark(i = x)
    BY <1>1, FsAssumption DEF Mark
  <2>2. Own(p, x)' = Mark(cwd[p] = x) + Mark(file[p] = x) + Mark(ip[p] = x) + Mark(other'[p] = x)
                     + Occ(puts[p], x)
    BY DEF Own
  <2> QED BY <2>1, <2>2, OccType DEF Own, Mark
<1> QED BY <1>2, TakesRef

LEMMA UnlinkParentRef == ASSUME PlaceInv, NEW p \in Proc, UnlinkParent(p) PROVE RefMoves(p)
<1> DEFINE dp == ip[p]
           i  == Look(dp).ents[Elem(p)]
<1>1. /\ TypesOK /\ TreeTypes /\ Stands(p) /\ dp \in Inum
      /\ call[p] = "unlink" /\ pc[p] = "parent" /\ puts[p] = <<>>
  BY AtType DEF UnlinkParent, At, Inside
<1>2. i \in Inum \cup {0} /\ other[p] = NULL /\ UNCHANGED <<cwd, file>>
  BY <1>1, ElemType, EntType DEF Stands, Holding, UnlinkParent
<1>3. CASE Finish(p, <<dp>>) /\ UNCHANGED ref
  <2>1. <<dp>> \in Seq(Inum) /\ Len(<<dp>>) <= 2
    BY <1>1
  <2>2. \A x \in Inum : Occ(<<dp>>, x) = Mark(ip[p] = x) + Mark(other[p] = x)
    BY <1>1, <1>2, FsAssumption DEF Occ, Mark
  <2> QED BY <1>1, <1>2, <1>3, <2>1, <2>2, EndRef
<1>4. CASE i # 0 /\ Hold(i) /\ other' = [other EXCEPT ![p] = i] /\ UNCHANGED <<ip, puts>>
  <2>1. i \in Inum
    BY <1>2, <1>4
  <2> HIDE DEF i
  <2> QED BY <1>1, <1>2, <1>4, <2>1, HoldsRef
<1> QED BY <1>3, <1>4 DEF UnlinkParent

LEMMA UnlinkChildRef == ASSUME PlaceInv, NEW p \in Proc, UnlinkChild(p) PROVE RefMoves(p)
<1> DEFINE dp == ip[p]
           i  == other[p]
<1>1. TypesOK /\ Stands(p) /\ dp \in Inum /\ i \in Inum /\ pc[p] = "child" /\ puts[p] = <<>>
  BY AtType DEF UnlinkChild, At, Inside, Holding, Stands
<1>2. UNCHANGED <<ref, cwd, file>>
  BY DEF UnlinkChild
<1>3. /\ <<i, dp>> \in Seq(Inum) /\ Len(<<i, dp>>) <= 2
      /\ <<dp, i>> \in Seq(Inum) /\ Len(<<dp, i>>) <= 2
  BY <1>1, Lengths
<1>4. /\ \A x \in Inum : Occ(<<i, dp>>, x) = Mark(ip[p] = x) + Mark(other[p] = x)
      /\ \A x \in Inum : Occ(<<dp, i>>, x) = Mark(ip[p] = x) + Mark(other[p] = x)
  BY <1>1 DEF Occ, Mark
<1>5. CASE Finish(p, <<i, dp>>)
  BY <1>1, <1>2, <1>3, <1>4, <1>5, EndRef
<1>6. CASE Finish(p, <<dp, i>>)
  BY <1>1, <1>2, <1>3, <1>4, <1>6, EndRef
<1> QED BY <1>5, <1>6 DEF UnlinkChild

LEMMA CreateLookupRef == ASSUME PlaceInv, NEW p \in Proc, CreateLookup(p) PROVE RefMoves(p)
<1> DEFINE dp    == ip[p]
           found == Look(dp).ents[Elem(p)]
           i     == Min(FreeInodes)
<1>1. /\ TypesOK /\ TreeTypes /\ Stands(p) /\ dp \in Inum
      /\ call[p] \in {"create", "mkdir", "mknod"} /\ pc[p] = "parent" /\ puts[p] = <<>>
  BY AtType DEF CreateLookup, At, Inside
<1>2. found \in Inum \cup {0} /\ other[p] = NULL /\ UNCHANGED <<cwd, file>>
  BY <1>1, ElemType, EntType DEF Stands, Holding, CreateLookup
<1>3. CASE /\ found # 0
           /\ Hold(found)
           /\ puts' = [puts EXCEPT ![p] = <<dp>>]
           /\ ip' = [ip EXCEPT ![p] = found]
           /\ UNCHANGED other
  <2>1. found \in Inum
    BY <1>2, <1>3
  <2> HIDE DEF found
  <2>2. puts'[p] = <<dp>> /\ ip'[p] = found /\ other'[p] = other[p]
    BY <1>1, <1>3 DEF TypesOK
  <2>3. ASSUME NEW x \in Inum PROVE Own(p, x)' = Own(p, x) + Mark(found = x)
    <3>1. Own(p, x)' = Mark(cwd'[p] = x) + Mark(file'[p] = x) + Mark(ip'[p] = x) + Mark(other'[p] = x)
                       + Occ(puts'[p], x)
      BY DEF Own, Occ, Mark
    <3>2. Occ(puts'[p], x) = Mark(dp = x)
      BY <2>2 DEF Occ, Mark
    <3>3. Own(p, x) = Mark(cwd[p] = x) + Mark(file[p] = x) + Mark(dp = x) + Mark(other[p] = x)
      BY <1>1, OwnAt
    <3> QED BY <1>2, <2>2, <3>1, <3>2, <3>3 DEF Mark
  <2> QED BY <1>3, <2>1, <2>3, TakesRef
<1>4. CASE Finish(p, <<dp>>) /\ UNCHANGED ref
  <2>1. <<dp>> \in Seq(Inum) /\ Len(<<dp>>) <= 2
    BY <1>1
  <2>2. \A x \in Inum : Occ(<<dp>>, x) = Mark(ip[p] = x) + Mark(other[p] = x)
    BY <1>1, <1>2, FsAssumption DEF Occ, Mark
  <2> QED BY <1>1, <1>2, <1>4, <2>1, <2>2, EndRef
<1>5. CASE FreeInodes # {} /\ Hold(i) /\ other' = [other EXCEPT ![p] = i] /\ UNCHANGED <<ip, puts>>
  <2>1. i \in Inum
    BY <1>5, MinIn, FsAssumption DEF FreeInodes
  <2> HIDE DEF i
  <2> QED BY <1>1, <1>2, <1>5, <2>1, HoldsRef
<1> QED BY <1>3, <1>4, <1>5 DEF CreateLookup

LEMMA CreateFillRef == ASSUME PlaceInv, NEW p \in Proc, CreateFill(p) PROVE RefMoves(p)
<1> DEFINE dp == ip[p]
           i  == other[p]
<1>1. TypesOK /\ Stands(p) /\ dp \in Inum /\ i \in Inum /\ pc[p] = "fill" /\ puts[p] = <<>>
  BY AtType DEF CreateFill, At, Inside, Holding, Stands
<1>2. UNCHANGED <<ref, cwd>>
  BY DEF CreateFill
<1>3. /\ <<i, dp>> \in Seq(Inum) /\ Len(<<i, dp>>) <= 2
      /\ <<dp, i>> \in Seq(Inum) /\ Len(<<dp, i>>) <= 2
  BY <1>1, Lengths
<1>4. /\ \A x \in Inum : Occ(<<i, dp>>, x) = Mark(ip[p] = x) + Mark(other[p] = x)
      /\ \A x \in Inum : Occ(<<dp, i>>, x) = Mark(ip[p] = x) + Mark(other[p] = x)
  BY <1>1 DEF Occ, Mark
<1>5. CASE Finish(p, <<i, dp>>) /\ UNCHANGED file
  BY <1>1, <1>2, <1>3, <1>4, <1>5, EndRef
<1>6. CASE Finish(p, <<dp, i>>) /\ UNCHANGED file
  BY <1>1, <1>2, <1>3, <1>4, <1>6, EndRef
<1>7. CASE OpenFile(p, i, <<dp>>)
  <2> DEFINE s == <<dp>>
  <2>1. s \in Seq(Inum) /\ Len(s) <= 1
    BY <1>1
  <2>2. s \o <<i>> = <<dp, i>>
    BY <1>1, Appends
  <2>3. s \o <<i>> \in Seq(Inum) /\ Len(s \o <<i>>) <= 2
    BY <1>3, <2>2
  <2>4. /\ \A x \in Inum : Occ(<<dp, i>>, x) = Occ(s, x) + Mark(i = x)
        /\ \A x \in Inum : Occ(s, x) + Mark(i = x) = Mark(ip[p] = x) + Mark(other[p] = x)
    BY <1>1 DEF Occ, Mark
  <2>5. \A x \in Inum : Occ(s \o <<i>>, x) = Occ(s, x) + Mark(i = x)
    BY <2>2, <2>4
  <2>6. OpenFile(p, i, s)
    BY <1>7
  <2> HIDE DEF s, i
  <2>7. i \in Inum
    BY <1>1
  <2> QED BY <1>1, <1>2, <2>1, <2>3, <2>4, <2>5, <2>6, <2>7, OpenFileRef
<1> QED BY <1>5, <1>6, <1>7 DEF CreateFill

\* iput() gives up the first of the references that are left to give up.
LEMMA IputRef ==
    ASSUME PlaceInv, NEW p \in Proc, Iput(p) \/ IputDone(p) PROVE RefMoves(p)
<1> DEFINE s == puts[p]
           t == Tail(puts[p])
           i == puts[p][1]
<1>1. TypesOK /\ Stands(p) /\ Putting(p)
  BY DEF PlaceInv, Iput, IputDone
<1>2. /\ i \in Inum /\ Head(s) = i /\ Len(s) \in 1..2 /\ Len(t) = Len(s) - 1
      /\ Len(s) = 2 => t[1] = s[2]
  BY <1>1, HeadOf DEF Stands
<1>3. /\ ref' = [ref EXCEPT ![i] = @ - 1]
      /\ puts'[p] = t
      /\ UNCHANGED <<cwd, file, ip, other>>
  BY <1>1, <1>2 DEF Iput, IputDone, locals, TypesOK
<1> SUFFICES ASSUME NEW x \in Inum PROVE ref'[x] = ref[x] + Own(p, x)' - Own(p, x)
  BY DEF RefMoves
<1>4. Occ(t, x) = Occ(s, x) - Mark(i = x)
  <2>1. /\ i = s[1] /\ Len(s) \in 1..2 /\ Len(t) = Len(s) - 1
        /\ Len(s) = 2 => t[1] = s[2]
    BY <1>2
  <2> HIDE DEF s, t, i
  <2>2. CASE Len(s) = 1
    BY <2>1, <2>2 DEF Occ, Mark
  <2>3. CASE Len(s) = 2
    BY <2>1, <2>3 DEF Occ, Mark
  <2> QED BY <2>1, <2>2, <2>3
<1>5. Own(p, x)' = Mark(cwd[p] = x) + Mark(file[p] = x) + Mark(ip[p] = x) + Mark(other[p] = x) + Occ(t, x)
  BY <1>3 DEF Own
<1>6. Own(p, x)' = Own(p, x) - Mark(i = x)
  BY <1>4, <1>5, OccType DEF Own, Mark
<1>7. ref'[x] = ref[x] - Mark(i = x) /\ ref[x] \in Int
  BY <1>1, <1>2, <1>3 DEF TypesOK, Mark
<1> QED BY <1>6, <1>7, OwnType DEF Mark

LEMMA IputFreeRef == ASSUME PlaceInv, NEW p \in Proc, IputFree(p) PROVE RefMoves(p)
<1> SUFFICES ASSUME NEW x \in Inum PROVE ref'[x] = ref[x] + Own(p, x)' - Own(p, x)
  BY DEF RefMoves
<1>1. UNCHANGED <<ref, cwd, file, ip, other, puts>>
  BY DEF IputFree, locals
<1>2. Own(p, x)' = Own(p, x)
  BY <1>1 DEF Own
<1> QED BY <1>1, <1>2, OwnType DEF PlaceInv, TypesOK

LEMMA StepRef == ASSUME PlaceInv, NEW p \in Proc, Step(p) PROVE RefMoves(p)
BY SysCallRef, WalkRef, OpenRef, ChdirRef, CloseRef, LinkOldRef, LinkNewRef, LinkUndoRef,
   UnlinkParentRef, UnlinkChildRef, CreateLookupRef, CreateExistsRef, CreateFillRef, IputRef,
   IputFreeRef DEF Step

\* At the start and after a crash the only pointers are the current directories.
LEMMA IdleRef == Idle => RefCountsPointers
<1> SUFFICES ASSUME Idle, NEW i \in Inum PROVE ref[i] = Pointers(i)
  BY DEF RefCountsPointers
<1>1. CwdAt(i) = IF i = ROOTINO THEN Proc ELSE {}
  BY FsAssumption DEF CwdAt, Idle
<1>2. FileAt(i) = {} /\ IpAt(i) = {} /\ OtherAt(i) = {} /\ PutAt(i) = {} /\ Put2At(i) = {}
  BY FsAssumption DEF FileAt, IpAt, OtherAt, PutAt, Put2At, Idle
<1>3. Cardinality({}) = 0 /\ Cardinality(Proc) \in Nat
  BY FS_EmptySet, FS_CardinalityType, FsAssumption
<1>4. ref[i] = IF i = ROOTINO THEN Cardinality(Proc) ELSE 0
  BY DEF Idle
<1>5. Pointers(i) = Cardinality(CwdAt(i)) + 0 + 0 + 0 + 0 + 0
  BY <1>2, <1>3, PointersAre
<1> QED BY <1>1, <1>3, <1>4, <1>5

LEMMA CountStep == PlaceInv /\ RefCountsPointers /\ [Next]_vars => RefCountsPointers'
<1> SUFFICES ASSUME PlaceInv, RefCountsPointers, [Next]_vars PROVE RefCountsPointers'
  OBVIOUS
<1>1. CASE Crash
  <2>1. Idle'
    BY <1>1, CrashIdle
  <2>2. Idle' => RefCountsPointers'
    BY IdleRef, PTL
  <2> QED BY <2>1, <2>2
<1>2. ASSUME NEW p \in Proc, Step(p) PROVE RefCountsPointers'
  BY <1>2, StepRef, StepPlaces, RefStep DEF Places
<1>3. CASE UNCHANGED vars
  BY <1>3 DEF RefCountsPointers, Pointers, vars, table, locals
<1> QED BY <1>1, <1>2, <1>3, NextIs

\* Every inode's count of references is the number of pointers to it.
THEOREM References == Spec => []RefCountsPointers
<1>1. Init => RefCountsPointers
  BY IdleRef DEF Init
<1> QED BY <1>1, Placement, CountStep, PTL DEF Spec

-----------------------------------------------------------------------------
\* Locks and the copies in the inode table.

LEMMA OwnOf ==
    ASSUME TypesOK, NEW p \in Proc, NEW i \in Inum,
           \/ cwd[p] = i \/ file[p] = i \/ ip[p] = i \/ other[p] = i
           \/ puts[p] # <<>> /\ puts[p][1] = i
    PROVE  Own(p, i) >= 1
<1>1. Occ(puts[p], i) \in 0..2
  BY OccType
<1>2. puts[p] # <<>> /\ puts[p][1] = i => Occ(puts[p], i) >= 1
  <2>1. puts[p] \in Seq(Inum)
    BY DEF TypesOK
  <2>2. puts[p] # <<>> => Len(puts[p]) > 0
    BY <2>1, EmptySeq
  <2> QED BY <2>2 DEF Occ, Mark
<1> QED BY <1>1, <1>2 DEF Own, Mark

\* Whoever else points to i keeps it from being recycled.
LEMMA NotAlone ==
    ASSUME PlaceInv, RefCountsPointers, NEW p \in Proc, NEW q \in Proc, p # q, NEW i \in Inum,
           Own(p, i) >= 1, Own(q, i) >= 1
    PROVE  ref[i] > 1
<1>1. Own(p, i) + Own(q, i) <= ref[i] /\ Own(p, i) \in Nat /\ Own(q, i) \in Nat
  BY TwoPoint, OwnType
<1>2. ref[i] \in Int
  BY DEF PlaceInv, TypesOK
<1> QED BY <1>1, <1>2

\* What is locked for a step is seen as it is on the disk.
LEMMA Unlocked == ASSUME LockInv, NEW i \in Inum, lock[i] = NULL PROVE Look(i) = dinode[i]
<1>1. \A p \in Proc : ~Freeing(p, i)
  BY FsAssumption DEF Freeing
<1> QED BY <1>1 DEF LockInv, Look

LEMMA Locked ==
    ASSUME PlaceInv, LockInv, NEW p \in Proc, pc[p] \in Holding
    PROVE  /\ lock[ip[p]] = p /\ valid[ip[p]] /\ ip[p] \in Inum
           /\ mem[ip[p]] = dinode[ip[p]] /\ dinode[ip[p]].type # "none"
<1>1. ip[p] \in Inum /\ puts[p] = <<>>
  BY DEF PlaceInv, Stands, Inside, Holding
<1>2. lock[ip[p]] = p /\ valid[ip[p]]
  BY DEF LockInv
<1>3. \A q \in Proc : ~Freeing(q, ip[p])
  BY <1>1, <1>2 DEF Freeing
<1> QED BY <1>1, <1>2, <1>3 DEF LockInv

\* What a step does to the table and the disk leaves valid copies exact.
Clean ==
    /\ \A i \in Inum : valid[i] => valid'[i]
    /\ \A i \in Inum : valid'[i] =>
         \/ mem'[i] = dinode'[i] /\ dinode'[i].type # "none"
         \/ valid[i] /\ mem'[i] = mem[i] /\ dinode'[i] = dinode[i]
         \/ \E q \in Proc : Freeing(q, i)

LEMMA Update2Clean ==
    ASSUME TreeTypes, NEW i \in Inum, NEW j \in Inum, NEW d, NEW e, Update2(i, d, j, e),
           d.type # "none", e.type # "none"
    PROVE  Clean
BY DEF TreeTypes, Update2, Clean

LEMMA ReadsClean ==
    ASSUME TreeTypes, NEW i \in Inum, Reads(i), Look(i).type # "none" PROVE Clean
BY Update2Clean DEF Reads, Update

\* A step of p in a call may lock and unlock for itself, but never what another one has locked.
LEMMA LockStep ==
    ASSUME PlaceInv, LockInv, NEW p \in Proc, MovesOnly(p), puts[p] = <<>>, Clean,
           \A i \in Inum : lock'[i] = lock[i] \/ (lock[i] \in {NULL, p} /\ lock'[i] \in {NULL, p}),
           \A i \in Inum : lock'[i] = p => pc'[p] \in Holding /\ ip'[p] = i,
           pc'[p] \in Holding => lock'[ip'[p]] = p /\ valid'[ip'[p]]
    PROVE  LockInv'
<1>1. \A q \in Proc : q # p => Same(q)
  BY DEF MovesOnly
<1>2. \A i \in Inum : ~Freeing(p, i)
  BY DEF Freeing
<1>3. \A i \in Inum, q \in Proc : q # p => (lock'[i] = q <=> lock[i] = q)
  BY FsAssumption
<1>4. \A i \in Inum, q \in Proc : q # p => (Freeing(q, i)' <=> Freeing(q, i))
  BY <1>1, <1>3 DEF Freeing, Same
<1>5. ASSUME NEW i \in Inum, NEW q \in Proc, lock'[i] = q
      PROVE  Freeing(q, i)' \/ (pc'[q] \in Holding /\ ip'[q] = i)
  <2>1. CASE q # p
    <3>1. lock[i] = q
      BY <1>3, <1>5, <2>1
    <3>2. Freeing(q, i) \/ (pc[q] \in Holding /\ ip[q] = i)
      BY <3>1 DEF LockInv
    <3> QED BY <1>1, <1>4, <2>1, <3>2 DEF Same
  <2> QED BY <1>5, <2>1
<1>6. ASSUME NEW q \in Proc, pc'[q] \in Holding PROVE lock'[ip'[q]] = q /\ valid'[ip'[q]]
  <2>1. CASE q # p
    <3>1. pc[q] \in Holding /\ ip'[q] = ip[q]
      BY <1>1, <1>6, <2>1 DEF Same
    <3>2. lock[ip[q]] = q /\ valid[ip[q]] /\ ip[q] \in Inum
      BY <3>1, Locked
    <3> QED BY <1>3, <2>1, <3>1, <3>2 DEF Clean
  <2> QED BY <1>6, <2>1
<1>7. ASSUME NEW i \in Inum, valid'[i]
      PROVE  \/ mem'[i] = dinode'[i] /\ dinode'[i].type # "none"
             \/ \E q \in Proc : Freeing(q, i)'
  <2>1. \/ mem'[i] = dinode'[i] /\ dinode'[i].type # "none"
        \/ \E q \in Proc : Freeing(q, i)
    BY <1>7 DEF Clean, LockInv
  <2> QED BY <1>2, <1>4, <2>1
<1> QED BY <1>5, <1>6, <1>7 DEF LockInv

\* Outside the two calls that keep a lock, p locks and unlocks within the step.
LEMMA LocksNothing ==
    ASSUME PlaceInv, LockInv, NEW p \in Proc, MovesOnly(p), puts[p] = <<>>, Clean,
           UNCHANGED lock, pc[p] \notin Holding, pc'[p] \notin Holding
    PROVE  LockInv'
<1>1. \A i \in Inum : lock[i] # p
  BY DEF LockInv, Freeing
<1>2. \A i \in Inum : lock'[i] = lock[i] \/ (lock[i] \in {NULL, p} /\ lock'[i] \in {NULL, p})
  OBVIOUS
<1>3. \A i \in Inum : lock'[i] = p => pc'[p] \in Holding /\ ip'[p] = i
  BY <1>1
<1> QED BY <1>2, <1>3, LockStep

\* p keeps its directory locked from here.
LEMMA Locks ==
    ASSUME PlaceInv, LockInv, NEW p \in Proc, MovesOnly(p), puts[p] = <<>>, Clean,
           pc[p] \notin Holding, ip[p] \in Inum, lock[ip[p]] = NULL,
           lock' = [lock EXCEPT ![ip[p]] = p],
           pc'[p] \in Holding, ip'[p] = ip[p], valid'[ip[p]]
    PROVE  LockInv'
<1>1. \A i \in Inum : lock[i] # p
  BY DEF LockInv, Freeing
<1>2. \A i \in Inum : lock'[i] = IF i = ip[p] THEN p ELSE lock[i]
  BY DEF PlaceInv, TypesOK
<1>3. \A i \in Inum : lock'[i] = lock[i] \/ (lock[i] \in {NULL, p} /\ lock'[i] \in {NULL, p})
  BY <1>2
<1>4. \A i \in Inum : lock'[i] = p => pc'[p] \in Holding /\ ip'[p] = i
  BY <1>1, <1>2
<1>5. pc'[p] \in Holding => lock'[ip'[p]] = p /\ valid'[ip'[p]]
  BY <1>2
<1> QED BY <1>3, <1>4, <1>5, LockStep

\* p is done with its directory.
LEMMA Unlocks ==
    ASSUME PlaceInv, LockInv, NEW p \in Proc, MovesOnly(p), Clean,
           pc[p] \in Holding, lock' = [lock EXCEPT ![ip[p]] = NULL], pc'[p] \notin Holding
    PROVE  LockInv'
<1>1. lock[ip[p]] = p /\ ip[p] \in Inum /\ puts[p] = <<>>
  BY Locked DEF PlaceInv, Stands
<1>2. \A i \in Inum : lock'[i] = IF i = ip[p] THEN NULL ELSE lock[i]
  BY DEF PlaceInv, TypesOK
<1>3. \A i \in Inum : lock[i] = p => i = ip[p]
  BY <1>1 DEF LockInv, Freeing
<1>4. \A i \in Inum : lock'[i] = lock[i] \/ (lock[i] \in {NULL, p} /\ lock'[i] \in {NULL, p})
  BY <1>1, <1>2
<1>5. \A i \in Inum : lock'[i] = p => pc'[p] \in Holding /\ ip'[p] = i
  BY <1>2, <1>3, FsAssumption
<1> QED BY <1>1, <1>4, <1>5, LockStep

\* The end of a call, whatever is left to give up.
LEMMA EndPc == ASSUME PlaceInv, NEW p \in Proc, NEW s, Finish(p, s) PROVE pc'[p] = "user"
BY DEF PlaceInv, TypesOK, Finish

LEMMA OpenFilePc == ASSUME PlaceInv, NEW p \in Proc, NEW i, NEW s, OpenFile(p, i, s) PROVE pc'[p] = "user"
BY EndPc DEF OpenFile

\* Steps that lock one inode, for themselves.
LEMMA BriefLocks ==
    ASSUME PlaceInv, LockInv, NEW p \in Proc,
           \/ Walk(p) \/ Open(p) \/ Chdir(p) \/ CreateExists(p) \/ LinkNew(p) \/ LinkUndo(p)
           \/ \E start : LinkOld(p, start)
    PROVE  Clean /\ UNCHANGED lock /\ puts[p] = <<>> /\ pc[p] \notin Holding /\ pc'[p] \notin Holding
<1>1. TypesOK /\ TreeTypes
  BY Typed DEF PlaceInv
<1>2. CASE Walk(p)
  <2>1. pc'[p] \in {"user", "parent", "found", "walk", "undo"}
    BY <1>1, <1>2, EndPc DEF Walk, Undo, Goto, TypesOK
  <2>2. /\ ip[p] \in Inum /\ Look(ip[p]).type # "none" /\ Reads(ip[p]) /\ UNCHANGED lock
        /\ pc[p] = "walk" /\ puts[p] = <<>>
    BY <1>2, AtType DEF Walk, At, Inside
  <2> QED BY <1>1, <2>1, <2>2, ReadsClean DEF Holding
<1>3. CASE Open(p)
  <2>1. /\ ip[p] \in Inum /\ Look(ip[p]).type # "none" /\ Reads(ip[p]) /\ UNCHANGED lock
        /\ pc[p] = "found" /\ puts[p] = <<>>
    BY <1>3, AtType DEF Open, At, Inside
  <2>2. pc'[p] = "user"
    BY <1>3, OpenFilePc DEF Open
  <2> QED BY <1>1, <2>1, <2>2, ReadsClean DEF Holding
<1>4. CASE Chdir(p)
  <2>1. /\ ip[p] \in Inum /\ Look(ip[p]).type # "none" /\ Reads(ip[p]) /\ UNCHANGED lock
        /\ pc[p] = "found" /\ puts[p] = <<>>
    BY <1>4, AtType DEF Chdir, At, Inside
  <2>2. pc'[p] = "user"
    BY <1>4, EndPc DEF Chdir
  <2> QED BY <1>1, <2>1, <2>2, ReadsClean DEF Holding
<1>5. CASE CreateExists(p)
  <2>1. /\ ip[p] \in Inum /\ Look(ip[p]).type # "none" /\ Reads(ip[p]) /\ UNCHANGED lock
        /\ pc[p] = "exists" /\ puts[p] = <<>>
    BY <1>5, AtType DEF CreateExists, At, Inside
  <2>2. pc'[p] = "user"
    BY <1>5, OpenFilePc, EndPc DEF CreateExists
  <2> QED BY <1>1, <2>1, <2>2, ReadsClean DEF Holding
<1>6. CASE LinkNew(p)
  <2>1. ip[p] \in Inum /\ Look(ip[p]).type # "none" /\ pc[p] = "parent" /\ puts[p] = <<>>
    BY <1>6, AtType DEF LinkNew, At, Inside
  <2>2. pc'[p] \in {"user", "undo"}
    BY <1>1, <1>6, EndPc DEF LinkNew, Undo, TypesOK
  <2>3. Clean
    <3>1. CASE Reads(ip[p])
      BY <1>1, <2>1, <3>1, ReadsClean
    <3>2. CASE Update(ip[p], [Look(ip[p]) EXCEPT !.ents[Elem(p)] = other[p]])
      <4> DEFINE d == Look(ip[p])
                 e == [d EXCEPT !.ents[Elem(p)] = other[p]]
      <4>1. d \in Inode
        BY <1>1, <2>1, LookType
      <4>2. e.type # "none"
        BY <2>1, <4>1 DEF Inode
      <4>3. Update2(ip[p], e, ip[p], e)
        BY <3>2 DEF Update
      <4> HIDE DEF e
      <4> QED BY <1>1, <2>1, <4>2, <4>3, Update2Clean
    <3> QED BY <1>6, <3>1, <3>2 DEF LinkNew
  <2> QED BY <1>6, <2>1, <2>2, <2>3 DEF LinkNew, Holding
<1>7. CASE LinkUndo(p)
  <2>1. other[p] \in Inum /\ Look(other[p]).type # "none" /\ pc[p] = "undo" /\ puts[p] = <<>>
    BY <1>7, AtType DEF LinkUndo, At
  <2>2. pc'[p] = "user"
    BY <1>7, EndPc DEF LinkUndo
  <2>3. Clean
    <3> DEFINE d == Look(other[p])
               e == [d EXCEPT !.nlink = @ - 1]
    <3>1. d \in Inode
      BY <1>1, <2>1, LookType
    <3>2. e.type # "none"
      BY <2>1, <3>1 DEF Inode
    <3>3. Update2(other[p], e, other[p], e)
      BY <1>7 DEF LinkUndo, Update
    <3> HIDE DEF e
    <3> QED BY <1>1, <2>1, <3>2, <3>3, Update2Clean
  <2> QED BY <1>7, <2>1, <2>2, <2>3 DEF LinkUndo, Holding
<1>8. ASSUME NEW start, LinkOld(p, start)
      PROVE  Clean /\ UNCHANGED lock /\ puts[p] = <<>> /\ pc[p] \notin Holding /\ pc'[p] \notin Holding
  <2>1. ip[p] \in Inum /\ Look(ip[p]).type # "none" /\ pc[p] = "found" /\ puts[p] = <<>>
    BY <1>8, AtType DEF LinkOld, At, Inside
  <2>2. pc'[p] \in {"user", "walk"}
    BY <1>1, <1>8, EndPc DEF LinkOld, TypesOK
  <2>3. Clean
    <3>1. CASE Reads(ip[p])
      BY <1>1, <2>1, <3>1, ReadsClean
    <3>2. CASE Update(ip[p], [Look(ip[p]) EXCEPT !.nlink = @ + 1])
      <4> DEFINE d == Look(ip[p])
                 e == [d EXCEPT !.nlink = @ + 1]
      <4>1. d \in Inode
        BY <1>1, <2>1, LookType
      <4>2. e.type # "none"
        BY <2>1, <4>1 DEF Inode
      <4>3. Update2(ip[p], e, ip[p], e)
        BY <3>2 DEF Update
      <4> HIDE DEF e
      <4> QED BY <1>1, <2>1, <4>2, <4>3, Update2Clean
    <3> QED BY <1>8, <3>1, <3>2 DEF LinkOld
  <2> QED BY <1>8, <2>1, <2>2, <2>3 DEF LinkOld, Holding
<1> QED BY <1>2, <1>3, <1>4, <1>5, <1>6, <1>7, <1>8

\* Steps that lock no inode at all.
LEMMA NoLocks ==
    ASSUME PlaceInv, NEW p \in Proc, SysCall(p) \/ Close(p)
    PROVE  /\ Clean /\ UNCHANGED lock /\ puts[p] = <<>> /\ pc[p] \notin Holding /\ pc'[p] \notin Holding
<1>1. pc[p] = "user" /\ puts[p] = <<>> /\ UNCHANGED <<dinode, mem, valid, lock>>
  BY DEF SysCall, Begin, Close, table
<1>2. pc'[p] \in {"user", "found", "walk"}
  BY DEF PlaceInv, TypesOK, SysCall, Begin, Close, locals
<1> QED BY <1>1, <1>2 DEF Clean, Holding

LEMMA UnlinkParentLock ==
    ASSUME PlaceInv, LockInv, NEW p \in Proc, UnlinkParent(p) PROVE LockInv'
<1> DEFINE dp == ip[p]
           i  == Look(dp).ents[Elem(p)]
<1>1. /\ TypesOK /\ TreeTypes /\ dp \in Inum /\ lock[dp] = NULL /\ Look(dp).type # "none"
      /\ pc[p] = "parent" /\ puts[p] = <<>> /\ pc[p] \notin Holding
  BY AtType DEF UnlinkParent, At, Inside, Holding
<1>2. MovesOnly(p)
  BY UnlinkParentPlaces DEF Places
<1>3. Reads(dp)
  BY DEF UnlinkParent
<1>4. Clean /\ valid'[dp]
  <2>1. valid'[dp]
    BY <1>1, <1>3 DEF Reads, Update, Update2, TreeTypes
  <2> QED BY <1>1, <1>3, <2>1, ReadsClean
<1>5. CASE Finish(p, <<dp>>) /\ UNCHANGED lock
  <2>1. pc'[p] \notin Holding
    BY <1>5, EndPc DEF Holding
  <2> QED BY <1>1, <1>2, <1>4, <1>5, <2>1, LocksNothing
<1>6. CASE lock' = [lock EXCEPT ![dp] = p] /\ pc' = [pc EXCEPT ![p] = "child"] /\ UNCHANGED ip
  <2>1. pc'[p] \in Holding /\ ip'[p] = ip[p]
    BY <1>1, <1>6 DEF TypesOK, Holding
  <2> QED BY <1>1, <1>2, <1>4, <1>6, <2>1, Locks
<1> QED BY <1>5, <1>6 DEF UnlinkParent

LEMMA UnlinkChildLock ==
    ASSUME PlaceInv, LockInv, NEW p \in Proc, UnlinkChild(p) PROVE LockInv'
<1> DEFINE dp    == ip[p]
           i     == other[p]
           d     == Look(i)
           isdir == IF d.type = "dir" THEN 1 ELSE 0
<1>1. /\ TypesOK /\ TreeTypes /\ i \in Inum /\ d.type # "none" /\ pc[p] \in Holding
  BY AtType, Typed DEF UnlinkChild, At, Holding
<1>2. /\ mem[dp] \in Inode /\ mem[dp].type # "none" /\ d \in Inode /\ dp \in Inum
  BY <1>1, Locked, LookType DEF TreeTypes
<1>3. MovesOnly(p) /\ lock' = [lock EXCEPT ![dp] = NULL]
  BY UnlinkChildPlaces DEF Places, UnlinkChild
<1>4. pc'[p] \notin Holding
  BY EndPc DEF UnlinkChild, Holding
<1>5. Clean
  <2>1. CASE Reads(i)
    BY <1>1, <2>1, ReadsClean
  <2>2. CASE Update2(dp, [mem[dp] EXCEPT !.ents[Elem(p)] = 0, !.nlink = @ - isdir],
                     i, [d EXCEPT !.nlink = @ - 1])
    <3> DEFINE e == [mem[dp] EXCEPT !.ents[Elem(p)] = 0, !.nlink = @ - isdir]
               f == [d EXCEPT !.nlink = @ - 1]
    <3>1. e.type # "none" /\ f.type # "none"
      BY <1>1, <1>2 DEF Inode
    <3>2. Update2(dp, e, i, f)
      BY <2>2
    <3> HIDE DEF e, f
    <3> QED BY <1>1, <1>2, <3>1, <3>2, Update2Clean
  <2> QED BY <2>1, <2>2 DEF UnlinkChild
<1> QED BY <1>1, <1>3, <1>4, <1>5, Unlocks

LEMMA CreateFillLock ==
    ASSUME PlaceInv, LockInv, NEW p \in Proc, CreateFill(p) PROVE LockInv'
<1> DEFINE dp    == ip[p]
           i     == other[p]
           d     == Look(i)
           isdir == IF d.type = "dir" THEN 1 ELSE 0
<1>1. /\ TypesOK /\ TreeTypes /\ i \in Inum /\ d.type # "none" /\ pc[p] \in Holding
  BY AtType, Typed DEF CreateFill, At, Holding
<1>2. /\ mem[dp] \in Inode /\ mem[dp].type # "none" /\ d \in Inode /\ dp \in Inum
  BY <1>1, Locked, LookType DEF TreeTypes
<1>3. MovesOnly(p) /\ lock' = [lock EXCEPT ![dp] = NULL]
  BY CreateFillPlaces DEF Places, CreateFill
<1>4. pc'[p] \notin Holding
  BY EndPc, OpenFilePc DEF CreateFill, Holding
<1>5. Clean
  <2>1. CASE Reads(i)
    BY <1>1, <2>1, ReadsClean
  <2>2. CASE Update2(dp, [mem[dp] EXCEPT !.ents[Elem(p)] = i, !.nlink = @ + isdir],
                     i, [d EXCEPT !.nlink = 1, !.ents[".."] = isdir * dp])
    <3> DEFINE e == [mem[dp] EXCEPT !.ents[Elem(p)] = i, !.nlink = @ + isdir]
               f == [d EXCEPT !.nlink = 1, !.ents[".."] = isdir * dp]
    <3>1. e.type # "none" /\ f.type # "none"
      BY <1>1, <1>2 DEF Inode
    <3>2. Update2(dp, e, i, f)
      BY <2>2
    <3> HIDE DEF e, f
    <3> QED BY <1>1, <1>2, <3>1, <3>2, Update2Clean
  <2> QED BY <2>1, <2>2 DEF CreateFill
<1> QED BY <1>1, <1>3, <1>4, <1>5, Unlocks

LEMMA CreateLookupLock ==
    ASSUME PlaceInv, LockInv, NEW p \in Proc, CreateLookup(p) PROVE LockInv'
<1> DEFINE dp    == ip[p]
           i     == Min(FreeInodes)
           type  == IF call[p] = "mkdir" THEN "dir" ELSE "file"
<1>1. /\ TypesOK /\ TreeTypes /\ dp \in Inum /\ lock[dp] = NULL /\ Look(dp).type # "none"
      /\ pc[p] = "parent" /\ puts[p] = <<>> /\ pc[p] \notin Holding
  BY AtType DEF CreateLookup, At, Inside, Holding
<1>2. MovesOnly(p) /\ Look(dp) = dinode[dp]
  BY <1>1, CreateLookupPlaces, Unlocked DEF Places
<1>3. CASE Reads(dp) /\ UNCHANGED lock /\ pc' = [pc EXCEPT ![p] = "exists"]
  <2>1. pc'[p] \notin Holding
    BY <1>1, <1>3 DEF TypesOK, Holding
  <2> QED BY <1>1, <1>2, <1>3, <2>1, ReadsClean, LocksNothing
<1>4. CASE Reads(dp) /\ UNCHANGED lock /\ Finish(p, <<dp>>)
  <2>1. pc'[p] \notin Holding
    BY <1>4, EndPc DEF Holding
  <2> QED BY <1>1, <1>2, <1>4, <2>1, ReadsClean, LocksNothing
<1>5. CASE /\ FreeInodes # {}
           /\ dinode' = [dinode EXCEPT ![i] = [Free EXCEPT !.type = type]]
           /\ mem' = [mem EXCEPT ![dp] = Look(dp)]
           /\ valid' = [valid EXCEPT ![dp] = TRUE]
           /\ lock' = [lock EXCEPT ![dp] = p]
           /\ pc' = [pc EXCEPT ![p] = "fill"]
           /\ UNCHANGED ip
  <2>1. i \in Inum /\ dinode[i].type = "none"
    <3>1. FreeInodes \in SUBSET Nat
      BY FsAssumption DEF FreeInodes
    <3>2. i \in FreeInodes
      BY <1>5, <3>1, MinIn
    <3> QED BY <3>2 DEF FreeInodes
  <2> HIDE DEF i, type
  <2>2. i # dp
    BY <1>1, <1>2, <2>1
  <2>3. Clean
    <3>1. \A j \in Inum : valid'[j] <=> (j = dp \/ valid[j])
      BY <1>1, <1>5 DEF TreeTypes
    <3>2. mem'[dp] = dinode'[dp] /\ dinode'[dp].type # "none"
      BY <1>1, <1>2, <1>5, <2>2 DEF TreeTypes
    <3>3. \A j \in Inum : j # dp => mem'[j] = mem[j] /\ (j # i => dinode'[j] = dinode[j])
      BY <1>1, <1>5 DEF TreeTypes
    <3>4. valid[i] => \E q \in Proc : Freeing(q, i)
      BY <2>1 DEF LockInv
    <3> QED BY <3>1, <3>2, <3>3, <3>4 DEF Clean
  <2>4. pc'[p] \in Holding /\ ip'[p] = ip[p] /\ valid'[ip[p]]
    BY <1>1, <1>5 DEF TypesOK, Holding
  <2> QED BY <1>1, <1>2, <1>5, <2>3, <2>4, Locks
<1> QED BY <1>3, <1>4, <1>5 DEF CreateLookup

LEMMA IputLock ==
    ASSUME PlaceInv, RefInv, NEW p \in Proc, Iput(p) \/ IputFree(p) \/ IputDone(p) PROVE LockInv'
<1> DEFINE i == puts[p][1]
<1>1. /\ TypesOK /\ TreeTypes /\ Stands(p) /\ puts[p] # <<>> /\ i \in Inum /\ Head(puts[p]) = i
      /\ LockInv /\ RefCountsPointers /\ ref[i] \in Int
  <2>1. TypesOK /\ TreeTypes /\ Stands(p) /\ Putting(p)
    BY Typed DEF PlaceInv, Iput, IputFree, IputDone
  <2>2. i \in Inum /\ Head(puts[p]) = i
    BY <2>1, HeadOf DEF Stands
  <2> QED BY <2>1, <2>2 DEF Putting, RefInv, TreeTypes
<1>2. pc[p] \notin Holding /\ pc'[p] \notin Holding
  BY <1>1 DEF Stands, Iput, IputFree, IputDone, locals
<1>3. \A j \in Inum : lock[j] = p => j = i
  BY <1>2, <1>1 DEF LockInv, Freeing
<1>4. \A q \in Proc : q # p => Same(q)
  BY IputPlaces DEF Places, MovesOnly
<1>5. \A q \in Proc, j \in Inum : q # p =>
        /\ lock'[j] = q <=> lock[j] = q
        /\ Freeing(q, j)' <=> Freeing(q, j)
  <2>1. \A q \in Proc, j \in Inum : q # p => (lock'[j] = q <=> lock[j] = q)
    BY <1>1, FsAssumption DEF TreeTypes, Iput, IputFree, IputDone
  <2> QED BY <1>4, <2>1 DEF Freeing, Same
<1>6. ASSUME NEW q \in Proc, pc'[q] \in Holding PROVE lock'[ip'[q]] = q /\ valid'[ip'[q]]
  <2>1. q # p /\ pc[q] \in Holding /\ ip'[q] = ip[q]
    BY <1>2, <1>4, <1>6 DEF Same
  <2>2. lock[ip[q]] = q /\ valid[ip[q]] /\ ip[q] \in Inum
    BY <1>1, <2>1, Locked
  <2>3. ip[q] = i => ref[i] > 1
    <3> SUFFICES ASSUME ip[q] = i PROVE ref[i] > 1
      OBVIOUS
    <3>1. Own(p, i) >= 1 /\ Own(q, i) >= 1
      BY <1>1, OwnOf
    <3> QED BY <1>1, <2>1, <3>1, NotAlone
  <2>4. lock'[ip[q]] = q
    BY <1>5, <2>1, <2>2
  <2>5. CASE Iput(p)
    BY <1>1, <2>1, <2>2, <2>3, <2>4, <2>5 DEF Iput, TreeTypes
  <2>6. CASE IputFree(p)
    BY <2>1, <2>2, <2>4, <2>6 DEF IputFree
  <2>7. CASE IputDone(p)
    <3>1. ip[q] # i
      BY <1>1, <2>1, <2>2, <2>7 DEF IputDone
    <3> QED BY <1>1, <2>1, <2>2, <2>4, <2>7, <3>1 DEF IputDone, TreeTypes
  <2> QED BY <2>5, <2>6, <2>7
<1>7. ASSUME NEW j \in Inum, lock'[j] = p PROVE Freeing(p, j)'
  <2>1. CASE Iput(p)
    BY <1>1, <1>3, <1>7, <2>1 DEF Iput
  <2>2. CASE IputFree(p)
    <3>1. j = i /\ puts' = puts
      BY <1>1, <1>3, <1>7, <2>2 DEF IputFree, TreeTypes
    <3> QED BY <1>1, <1>7, <3>1 DEF Freeing
  <2>3. CASE IputDone(p)
    BY <1>1, <1>3, <1>7, <2>3, FsAssumption DEF IputDone, TreeTypes
  <2> QED BY <2>1, <2>2, <2>3
<1>8. ASSUME NEW j \in Inum, NEW q \in Proc, lock'[j] = q
      PROVE  Freeing(q, j)' \/ (pc'[q] \in Holding /\ ip'[q] = j)
  <2>1. CASE q # p
    <3>1. Freeing(q, j) \/ (pc[q] \in Holding /\ ip[q] = j)
      BY <1>1, <1>5, <1>8, <2>1 DEF LockInv
    <3> QED BY <1>4, <1>5, <2>1, <3>1 DEF Same
  <2> QED BY <1>7, <1>8, <2>1
<1>9. ASSUME NEW j \in Inum, valid'[j]
      PROVE  \/ mem'[j] = dinode'[j] /\ dinode'[j].type # "none"
             \/ \E q \in Proc : Freeing(q, j)'
  <2>1. ASSUME valid[j], mem'[j] = mem[j], dinode'[j] = dinode[j], ~Freeing(p, j)
        PROVE  \/ mem'[j] = dinode'[j] /\ dinode'[j].type # "none"
               \/ \E q \in Proc : Freeing(q, j)'
    <3>1. \/ mem[j] = dinode[j] /\ dinode[j].type # "none"
          \/ \E q \in Proc : Freeing(q, j)
      BY <1>1, <2>1 DEF LockInv
    <3> QED BY <1>5, <2>1, <3>1
  <2>2. CASE Iput(p)
    <3>1. lock[i] # p /\ ~Freeing(p, j)
      BY <1>1, <1>3, <2>2 DEF Iput, Freeing
    <3>2. valid[j] /\ (j = i => ref[i] > 1)
      BY <1>1, <1>9, <2>2 DEF Iput, TreeTypes
    <3>3. mem'[j] = mem[j] /\ dinode'[j] = dinode[j]
      BY <1>1, <2>2, <3>2 DEF Iput, TreeTypes
    <3> QED BY <2>1, <3>1, <3>2, <3>3
  <2>3. CASE IputFree(p)
    <3>1. CASE j = i
      <4>1. lock'[i] = p /\ puts' = puts
        BY <1>1, <2>3 DEF IputFree, TreeTypes
      <4> QED BY <1>1, <3>1, <4>1 DEF Freeing
    <3>2. CASE j # i
      <4>1. valid[j] /\ mem'[j] = mem[j] /\ dinode'[j] = dinode[j] /\ ~Freeing(p, j)
        BY <1>1, <1>9, <2>3, <3>2 DEF IputFree, TreeTypes, Freeing
      <4> QED BY <2>1, <4>1
    <3> QED BY <3>1, <3>2
  <2>4. CASE IputDone(p)
    <3>1. j # i /\ valid[j] /\ mem'[j] = mem[j] /\ dinode'[j] = dinode[j]
      BY <1>1, <1>9, <2>4 DEF IputDone, TreeTypes
    <3> QED BY <2>1, <3>1 DEF Freeing
  <2> QED BY <2>2, <2>3, <2>4
<1> QED BY <1>6, <1>8, <1>9 DEF LockInv

LEMMA IdleLocks == Idle => LockInv
BY FsAssumption DEF Idle, LockInv, Holding

LEMMA LockKept == PlaceInv /\ RefInv /\ [Next]_vars => LockInv'
<1> SUFFICES ASSUME PlaceInv, RefInv, [Next]_vars PROVE LockInv'
  OBVIOUS
<1>1. CASE Crash
  <2>1. Idle'
    BY <1>1, CrashIdle
  <2>2. Idle' => LockInv'
    BY IdleLocks, PTL
  <2> QED BY <2>1, <2>2
<1>2. ASSUME NEW p \in Proc, Step(p) PROVE LockInv'
  <2>1. LockInv /\ MovesOnly(p)
    BY <1>2, StepPlaces DEF RefInv, Places
  <2>2. CASE \/ Walk(p) \/ Open(p) \/ Chdir(p) \/ CreateExists(p) \/ LinkNew(p) \/ LinkUndo(p)
             \/ \E start : LinkOld(p, start)
    BY <2>1, <2>2, BriefLocks, LocksNothing
  <2>3. CASE SysCall(p) \/ Close(p)
    BY <2>1, <2>3, NoLocks, LocksNothing
  <2>4. CASE UnlinkParent(p) \/ UnlinkChild(p) \/ CreateLookup(p) \/ CreateFill(p)
    BY <2>1, <2>4, UnlinkParentLock, UnlinkChildLock, CreateLookupLock, CreateFillLock
  <2>5. CASE Iput(p) \/ IputFree(p) \/ IputDone(p)
    BY <2>5, IputLock
  <2> QED BY <1>2, <2>2, <2>3, <2>4, <2>5 DEF Step
<1>3. CASE UNCHANGED vars
  BY <1>3 DEF RefInv, LockInv, Freeing, vars, table, locals
<1> QED BY <1>1, <1>2, <1>3, NextIs

LEMMA RefInvStep == PlaceInv /\ RefInv /\ [Next]_vars => RefInv'
BY CountStep, LockKept DEF RefInv

LEMMA RefInvHolds == Spec => [](PlaceInv /\ RefInv)
<1>1. Init => RefInv
  BY IdleRef, IdleLocks DEF Init, RefInv
<1> QED BY <1>1, Placement, RefInvStep, PTL DEF Spec

\* Whoever has i locked points to it, so the one who frees it, having the only reference,
\* finds it unlocked.
THEOREM FreeingFindsUnlocked == Spec => []FreeWontBlock
<1>1. PlaceInv /\ RefInv => FreeWontBlock
  <2> SUFFICES ASSUME PlaceInv, RefInv, NEW p \in Proc, Putting(p), IsLastPut(Head(puts[p])),
                      lock[Head(puts[p])] \notin {NULL, p}
               PROVE  FALSE
    BY DEF FreeWontBlock
  <2> DEFINE i == puts[p][1]
             q == lock[i]
  <2>1. TypesOK /\ Stands(p) /\ RefCountsPointers /\ LockInv
    BY DEF PlaceInv, RefInv
  <2>2. i \in Inum /\ Head(puts[p]) = i /\ puts[p] # <<>>
    BY <2>1, HeadOf DEF Stands, Putting
  <2>3. q \in Proc /\ q # p /\ ref[i] = 1
    BY <2>1, <2>2 DEF TypesOK, IsLastPut
  <2>4. Freeing(q, i) \/ ip[q] = i
    BY <2>1, <2>2, <2>3 DEF LockInv
  <2>5. Own(p, i) >= 1 /\ Own(q, i) >= 1
    <3> HIDE DEF q
    <3> QED BY <2>1, <2>2, <2>3, <2>4, OwnOf DEF Freeing
  <2>6. ref[i] > 1
    <3> HIDE DEF q, i
    <3> QED BY <2>1, <2>2, <2>3, <2>5, NotAlone
  <2> QED BY <2>3, <2>6
<1> QED BY <1>1, RefInvHolds, PTL

-----------------------------------------------------------------------------
\* Names and links, as long as no program goes through "..".

IsDir(i) == dinode[i].type = "dir"

\* q does not have i, or is about to give it back, freed.
Gone(q, i) == Own(q, i) = 0 \/ (Freeing(q, i) /\ Own(q, i) = 1)

\* A free inode has no users, and one that is being created only the process that does it.
FreeUnused ==
    \A i \in Inum : dinode[i].type = "none" => dinode[i] = Free /\ \A q \in Proc : Gone(q, i)
FillsFresh(p) ==
    pc[p] = "fill" =>
      /\ dinode[other[p]].type # "none"
      /\ dinode[other[p]] = [Free EXCEPT !.type = dinode[other[p]].type]
      /\ Own(p, other[p]) = 1
      /\ \A q \in Proc : q # p => Gone(q, other[p])
FreshInv == FreeUnused /\ \A p \in Proc : FillsFresh(p)

\* Every name that is looked up is one of Name, but for the last of unlink().
NamesOf(s, c) ==
    \A k \in 1..Len(s) : s[k] \in Name \/ (c = "unlink" /\ k = Len(s))
Names(p) == /\ NamesOf(path[p], call[p])
            /\ call[p] = "link" => NamesOf(new[p], "link2")
            /\ pc[p] \in Holding => Elem(p) \in Name

\* The names that link() has counted and not entered yet.
Pending(i) == {p \in Proc : call[p] = "link2" /\ other[p] = i}

\* What p has seen of its directory, and of the inode it links, removes or creates, is
\* still so.
Sees(p) ==
    /\ pc[p] \in {"parent", "child", "fill"} => IsDir(ip[p])
    /\ call[p] = "link2" => ~IsDir(other[p])
    /\ pc[p] = "child" => dinode[ip[p]].ents[Elem(p)] = other[p]
    /\ pc[p] = "fill" => dinode[ip[p]].ents[Elem(p)] = 0
DirsOnly ==
    /\ IsDir(ROOTINO) /\ dinode[ROOTINO].ents[".."] = ROOTINO
    /\ \A i \in Inum : ~IsDir(i) => \A n \in Elems : dinode[i].ents[n] = 0

CallInv == \A p \in Proc : Names(p) /\ Sees(p)

\* A directory is entered once, in the one that its ".." names; directories form no circle.
TreeShape ==
    \A i \in Inum, j \in Inum, n \in Name : IsDir(i) /\ dinode[j].ents[n] = i =>
        dinode[i].ents[".."] = j /\ \A k \in Inum, m \in Name : dinode[k].ents[m] = i => k = j /\ m = n
Falls(r) ==
    \A j \in Inum, n \in Name, i \in Inum : dinode[j].ents[n] = i /\ IsDir(i) => r[i] < r[j]
Ranked == \E r \in [Inum -> Nat] : Falls(r)

LinksCounted ==
    \A i \in Inum : Links(i) + Cardinality(Pending(i)) <= dinode[i].nlink

TreeInv == DirsOnly /\ TreeShape /\ Ranked /\ LinksCounted
LinkInv == FreshInv /\ CallInv /\ TreeInv

\* Who is gone from i has no pointer to it but the one it is giving back.
LEMMA GoneOff ==
    ASSUME TypesOK, NEW q \in Proc, NEW i \in Inum, Gone(q, i)
    PROVE  /\ cwd[q] # i /\ file[q] # i /\ ip[q] # i /\ other[q] # i
           /\ puts[q] = <<>> => Own(q, i) = 0
<1>1. Occ(puts[q], i) \in 0..2
  BY OccType
<1>2. Own(q, i) # 0 => puts[q] # <<>> /\ Occ(puts[q], i) >= 1
  <2> SUFFICES ASSUME Freeing(q, i) PROVE puts[q] # <<>> /\ Occ(puts[q], i) >= 1
    BY DEF Gone
  <2>1. puts[q] # <<>> /\ puts[q][1] = i
    BY DEF Freeing
  <2>2. puts[q] \in Seq(Inum)
    BY DEF TypesOK
  <2>3. Len(puts[q]) > 0
    BY <2>1, <2>2, EmptySeq
  <2> QED BY <2>1, <2>3 DEF Occ, Mark
<1>3. Own(q, i) <= 1
  BY DEF Gone
<1>4. /\ Mark(cwd[q] = i) \in 0..1 /\ Mark(file[q] = i) \in 0..1 /\ Mark(ip[q] = i) \in 0..1
      /\ Mark(other[q] = i) \in 0..1
  BY DEF Mark
<1>5. Own(q, i) = Mark(cwd[q] = i) + Mark(file[q] = i) + Mark(ip[q] = i) + Mark(other[q] = i)
                  + Occ(puts[q], i)
  BY DEF Own
<1>6. /\ Mark(cwd[q] = i) = 0 /\ Mark(file[q] = i) = 0 /\ Mark(ip[q] = i) = 0
      /\ Mark(other[q] = i) = 0
  <2> DEFINE a == Mark(cwd[q] = i)
             b == Mark(file[q] = i)
             c == Mark(ip[q] = i)
             d == Mark(other[q] = i)
             e == Occ(puts[q], i)
             o == Own(q, i)
  <2>1. /\ a \in 0..1 /\ b \in 0..1 /\ c \in 0..1 /\ d \in 0..1 /\ e \in 0..2
        /\ o = a + b + c + d + e /\ o <= 1 /\ (o # 0 => e >= 1)
    BY <1>1, <1>2, <1>3, <1>4, <1>5
  <2> HIDE DEF a, b, c, d, e, o
  <2>2. a = 0 /\ b = 0 /\ c = 0 /\ d = 0
    BY <2>1
  <2> QED BY <2>2 DEF a, b, c, d
<1> QED BY <1>2, <1>6 DEF Mark

\* p does not touch the locks of others.
LEMMA OthersLocks ==
    ASSUME PlaceInv, LockInv, NEW p \in Proc, Step(p), NEW i \in Inum, NEW q \in Proc, q # p,
           lock[i] = q
    PROVE  lock'[i] = q
<1>1. TypesOK /\ TreeTypes /\ q # NULL
  BY Typed, FsAssumption DEF PlaceInv
<1>2. CASE UNCHANGED lock
  BY <1>2
<1>3. CASE ip[p] \in Inum /\ lock[ip[p]] \in {NULL, p}
           /\ \E x : lock' = [lock EXCEPT ![ip[p]] = x]
  BY <1>1, <1>3 DEF TreeTypes
<1>4. CASE /\ Head(puts[p]) \in Inum /\ lock[Head(puts[p])] \in {NULL, p}
           /\ \E x : lock' = [lock EXCEPT ![Head(puts[p])] = x]
  BY <1>1, <1>4 DEF TreeTypes
<1>5. CASE UnlinkParent(p) \/ CreateLookup(p)
  <2>1. ip[p] \in Inum /\ lock[ip[p]] = NULL
    BY <1>5, AtType DEF UnlinkParent, CreateLookup, At, Inside
  <2> QED BY <1>2, <1>3, <1>5, <2>1 DEF UnlinkParent, CreateLookup
<1>6. CASE UnlinkChild(p) \/ CreateFill(p)
  <2>1. ip[p] \in Inum /\ lock[ip[p]] = p
    BY <1>6, Locked DEF UnlinkChild, CreateFill, At, Holding
  <2> QED BY <1>3, <1>6, <2>1 DEF UnlinkChild, CreateFill
<1>7. CASE Iput(p) \/ IputFree(p) \/ IputDone(p)
  <2>1. Stands(p) /\ Putting(p)
    BY <1>7 DEF PlaceInv, Iput, IputFree, IputDone
  <2>2. Head(puts[p]) \in Inum
    BY <1>1, <2>1, HeadOf DEF Stands
  <2> QED BY <1>2, <1>4, <1>7, <2>2 DEF Iput, IputFree, IputDone
<1>8. CASE SysCall(p) \/ Close(p)
  BY <1>2, <1>8, NoLocks
<1>9. CASE \/ Walk(p) \/ Open(p) \/ Chdir(p) \/ CreateExists(p) \/ LinkNew(p) \/ LinkUndo(p)
           \/ \E start : LinkOld(p, start)
  BY <1>2, <1>9, BriefLocks
<1> QED BY <1>5, <1>6, <1>7, <1>8, <1>9 DEF Step

\* p leaves everybody else gone who is gone.
LEMMA GoneOthers ==
    ASSUME PlaceInv, LockInv, NEW p \in Proc, Step(p), NEW i \in Inum,
           NEW q \in Proc, q # p, Gone(q, i)
    PROVE  Gone(q, i)' /\ Own(q, i)' = Own(q, i)
<1>1. MovesOnly(p)
  BY StepPlaces DEF Places
<1>2. Own(q, i)' = Own(q, i)
  BY <1>1 DEF MovesOnly, Same, Own, Occ, Mark
<1>3. Freeing(q, i) => Freeing(q, i)'
  BY <1>1, OthersLocks DEF MovesOnly, Same, Freeing
<1> QED BY <1>2, <1>3 DEF Gone

\* A step that takes no reference to i leaves gone who is gone from it.
LEMMA GoneStep ==
    ASSUME PlaceInv, LockInv, NEW p \in Proc, Step(p), NEW i \in Inum, ref'[i] <= ref[i],
           NEW q \in Proc, Gone(q, i)
    PROVE  Gone(q, i)'
<1>1. TypesOK /\ TypesOK' /\ MovesOnly(p) /\ RefMoves(p)
  BY StepPlaces, StepRef DEF PlaceInv, Places
<1>2. CASE q # p
  BY <1>2, GoneOthers
<1>3. CASE q = p
  <2>1. /\ ref'[i] = ref[i] + Own(p, i)' - Own(p, i) /\ ref[i] \in Int /\ ref'[i] \in Int
        /\ Own(p, i) \in Nat
    BY <1>1, OwnType DEF RefMoves, TypesOK
  <2>2. Own(p, i)' \in Nat
    BY OccType DEF Own, Mark
  <2>3. CASE Own(p, i) = 0
    BY <1>3, <2>1, <2>2, <2>3 DEF Gone
  <2>4. CASE Freeing(p, i) /\ Own(p, i) = 1
    <3>1. Stands(p) /\ Putting(p)
      BY <2>4 DEF PlaceInv, Putting, Freeing
    <3>2. Head(puts[p]) = i /\ lock[i] = p /\ p # NULL
      BY <1>1, <2>4, <3>1, HeadOf, FsAssumption DEF Stands, Freeing
    <3>3. IputDone(p)
      <4>1. ~SysCall(p) /\ ~Close(p)
        BY <3>1, NoLocks DEF Putting
      <4>2. ~(\/ Walk(p) \/ Open(p) \/ Chdir(p) \/ CreateExists(p) \/ LinkNew(p) \/ LinkUndo(p)
              \/ \E start : LinkOld(p, start))
        BY <3>1, BriefLocks DEF Putting
      <4>3. ~UnlinkParent(p) /\ ~UnlinkChild(p) /\ ~CreateLookup(p) /\ ~CreateFill(p)
        BY <3>1 DEF UnlinkParent, UnlinkChild, CreateLookup, CreateFill, At, Putting
      <4>4. ~Iput(p) /\ ~IputFree(p)
        BY <3>2 DEF Iput, IputFree
      <4> QED BY <4>1, <4>2, <4>3, <4>4 DEF Step
    <3>4. ref'[i] = ref[i] - 1
      BY <1>1, <3>2, <3>3 DEF IputDone, TypesOK
    <3> QED BY <1>3, <2>1, <2>2, <2>4, <3>4 DEF Gone
  <2> QED BY <1>3, <2>3, <2>4 DEF Gone
<1> QED BY <1>2, <1>3

-----------------------------------------------------------------------------
\* What steps do to the disk.

Others(S) == \A x \in Inum \ S : dinode'[x] = dinode[x]
SameType(i) == dinode'[i].type = dinode[i].type
NoPending(p) == \A x \in Inum : p \notin Pending(x)'

\* Nothing: p looks at inodes, ends its call or gives up references.
Quiet(p) ==
    /\ dinode' = dinode /\ pc'[p] # "fill"
    /\ \A x \in Inum : p \in Pending(x)' => p \in Pending(x)

\* link() counts the new name in the inode, or takes the count back.
Recounted(i, k) ==
    /\ i \in Inum /\ lock[i] = NULL /\ Others({i})
    /\ SameType(i) /\ dinode'[i].ents = dinode[i].ents /\ dinode'[i].nlink = dinode[i].nlink + k
Counts(p) ==
    /\ Recounted(ip[p], 1) /\ ~IsDir(ip[p]) /\ call[p] = "link" /\ pc'[p] # "fill" /\ puts[p] = <<>>
    /\ \A x \in Inum : p \in Pending(x)' => x = ip[p]
Uncounts(p) ==
    /\ Recounted(other[p], 0-1) /\ call[p] = "link2" /\ pc'[p] # "fill" /\ puts[p] = <<>>
    /\ NoPending(p)

\* An entry n of the directory dp becomes i.
Entered(dp, n, i) ==
    /\ dp \in Inum /\ IsDir(dp) /\ n \in Name /\ SameType(dp)
    /\ \A m \in Elems : dinode'[dp].ents[m] = IF m = n THEN i ELSE dinode[dp].ents[m]

\* link() enters what it has counted.
Enters(p) ==
    /\ Entered(ip[p], Elem(p), other[p]) /\ Others({ip[p]}) /\ lock[ip[p]] = NULL
    /\ dinode'[ip[p]].nlink = dinode[ip[p]].nlink
    /\ other[p] \in Inum /\ dinode[ip[p]].ents[Elem(p)] = 0
    /\ call[p] = "link2" /\ pc'[p] # "fill" /\ puts[p] = <<>>
    /\ NoPending(p)

\* unlink() removes an entry.
Removes(p) ==
    LET dp == ip[p]
        i  == other[p]
    IN /\ Entered(dp, Elem(p), 0) /\ Others({dp, i}) /\ i \in Inum /\ dp # i
       /\ lock[dp] = p /\ lock[i] = NULL /\ pc[p] = "child"
       /\ dinode'[dp].nlink = dinode[dp].nlink - Mark(IsDir(i))
       /\ SameType(i) /\ dinode'[i].ents = dinode[i].ents /\ dinode'[i].nlink = dinode[i].nlink - 1
       /\ pc'[p] # "fill" /\ puts[p] = <<>>
       /\ NoPending(p)

\* create() takes a free inode, and gives it its fields and its entry.
Allocs(p) ==
    LET i == other'[p]
    IN /\ i \in Inum /\ dinode[i].type = "none" /\ Others({i})
       /\ dinode'[i].type # "none" /\ dinode'[i] = [Free EXCEPT !.type = dinode'[i].type]
       /\ pc'[p] = "fill" /\ ip'[p] = ip[p] /\ puts[p] = <<>>
       /\ \A x \in Inum : ref'[x] = ref[x] + Mark(x = i)
       /\ NoPending(p)
Fills(p) ==
    LET dp == ip[p]
        i  == other[p]
    IN /\ Entered(dp, Elem(p), i) /\ Others({dp, i}) /\ i \in Inum /\ dp # i
       /\ lock[dp] = p /\ lock[i] = NULL /\ pc[p] = "fill"
       /\ dinode'[dp].nlink = dinode[dp].nlink + Mark(IsDir(i))
       /\ SameType(i) /\ dinode'[i].nlink = 1
       /\ \A m \in Elems : dinode'[i].ents[m] =
            IF m = ".." THEN (IF IsDir(i) THEN dp ELSE 0) ELSE dinode[i].ents[m]
       /\ pc'[p] # "fill" /\ puts[p] = <<>>
       /\ NoPending(p)

\* iput() frees an inode without links.
Drops(p) ==
    LET i == puts[p][1]
    IN /\ i \in Inum /\ puts[p] # <<>> /\ lock[i] = NULL /\ ref[i] = 1 /\ dinode[i].nlink = 0
       /\ Others({i}) /\ dinode'[i] = Free
       /\ lock'[i] = p /\ UNCHANGED <<ref, locals, cwd, file, puts>>
       /\ pc[p] # "fill" /\ puts[p][1] = i

DiskSteps(p) ==
    Quiet(p) \/ Counts(p) \/ Uncounts(p) \/ Enters(p) \/ Removes(p) \/ Allocs(p) \/ Fills(p) \/ Drops(p)

LEMMA ReadsDisk ==
    ASSUME TypesOK, LockInv, NEW i \in Inum, lock[i] = NULL, Reads(i) PROVE dinode' = dinode
BY Unlocked DEF TypesOK, Reads, Update, Update2

\* The end of p's call.
LEMMA EndLocals ==
    ASSUME TypesOK, NEW p \in Proc, NEW s, Finish(p, s)
    PROVE  pc'[p] # "fill" /\ NoPending(p)
<1>1. pc'[p] = "user" /\ call'[p] = NULL
  BY DEF TypesOK, Finish
<1> QED BY <1>1, FsAssumption DEF NoPending, Pending

LEMMA OpenFileLocals ==
    ASSUME TypesOK, NEW p \in Proc, NEW i, NEW s, OpenFile(p, i, s)
    PROVE  pc'[p] # "fill" /\ NoPending(p)
BY EndLocals DEF OpenFile

LEMMA QuietEnd ==
    ASSUME dinode' = dinode, NEW p \in Proc, pc'[p] # "fill", NoPending(p) PROVE Quiet(p)
BY DEF Quiet, NoPending

LEMMA QuietGoes ==
    ASSUME dinode' = dinode, NEW p \in Proc, pc'[p] # "fill",
           call'[p] = call[p], other'[p] = other[p]
    PROVE  Quiet(p)
BY DEF Quiet, Pending

LEMMA WalkDisk == ASSUME PlaceInv, LockInv, NEW p \in Proc, Walk(p) PROVE Quiet(p)
<1>1. TypesOK /\ ip[p] \in Inum /\ lock[ip[p]] = NULL /\ Reads(ip[p])
  BY AtType DEF Walk, At, Inside
<1>2. dinode' = dinode
  BY <1>1, ReadsDisk
<1>3. CASE Finish(p, <<ip[p]>>)
  BY <1>1, <1>2, <1>3, EndLocals, QuietEnd
<1>4. CASE pc'[p] # "fill" /\ UNCHANGED <<call, other>>
  BY <1>2, <1>4, QuietGoes
<1>5. pc' = [pc EXCEPT ![p] = "undo"] \/ pc' = [pc EXCEPT ![p] = "parent"]
      \/ pc' = [pc EXCEPT ![p] = "found"] \/ pc' = [pc EXCEPT ![p] = "walk"]
      => pc'[p] # "fill"
  BY <1>1 DEF TypesOK
<1> QED BY <1>3, <1>4, <1>5 DEF Walk, Undo, Goto

LEMMA QuietDisk ==
    ASSUME PlaceInv, LockInv, NEW p \in Proc,
           SysCall(p) \/ Open(p) \/ Chdir(p) \/ Close(p) \/ CreateExists(p) \/ Iput(p) \/ IputDone(p)
    PROVE  Quiet(p)
<1>1. TypesOK
  BY DEF PlaceInv
<1>2. CASE SysCall(p)
  <2>1. ASSUME NEW c \in Calls, NEW s, NEW u, NEW start, Begin(p, c, s, u, start) PROVE Quiet(p)
    <3>1. /\ call'[p] = c /\ c # "link2" /\ (pc'[p] = "found" \/ pc'[p] = "walk")
          /\ UNCHANGED dinode
      BY <1>1, <2>1 DEF Begin, TypesOK, Calls
    <3> QED BY <3>1 DEF Quiet, Pending
  <2>2. "chdir" \in Calls
    BY DEF Calls
  <2> QED BY <1>2, <2>1, <2>2 DEF SysCall
<1>3. CASE Open(p)
  <2>1. ip[p] \in Inum /\ lock[ip[p]] = NULL /\ Reads(ip[p]) /\ OpenFile(p, ip[p], <<>>)
    BY <1>3, AtType DEF Open, At, Inside
  <2> QED BY <1>1, <2>1, ReadsDisk, OpenFileLocals, QuietEnd
<1>4. CASE Chdir(p)
  <2>1. /\ ip[p] \in Inum /\ lock[ip[p]] = NULL /\ Reads(ip[p])
        /\ Finish(p, <<cwd[p]>>) \/ Finish(p, <<ip[p]>>)
    BY <1>4, AtType DEF Chdir, At, Inside
  <2> QED BY <1>1, <2>1, ReadsDisk, EndLocals, QuietEnd
<1>5. CASE CreateExists(p)
  <2>1. /\ ip[p] \in Inum /\ lock[ip[p]] = NULL /\ Reads(ip[p])
        /\ OpenFile(p, ip[p], <<>>) \/ Finish(p, <<ip[p]>>)
    BY <1>5, AtType DEF CreateExists, At, Inside
  <2> QED BY <1>1, <2>1, ReadsDisk, OpenFileLocals, EndLocals, QuietEnd
<1>6. CASE Close(p)
  BY <1>1, <1>6, QuietGoes DEF Close, locals
<1>7. CASE Iput(p) \/ IputDone(p)
  <2>1. pc[p] # "fill" /\ UNCHANGED <<dinode, pc, call, other>>
    BY <1>7 DEF PlaceInv, Stands, Holding, Iput, IputDone, Putting, locals
  <2> QED BY <2>1, QuietGoes
<1> QED BY <1>2, <1>3, <1>4, <1>5, <1>6, <1>7

LEMMA RecountIs ==
    ASSUME TypesOK, NEW i \in Inum, NEW d \in Inode, d = dinode[i], NEW k \in Int,
           Update(i, [d EXCEPT !.nlink = k])
    PROVE  /\ Others({i}) /\ SameType(i) /\ dinode'[i].ents = dinode[i].ents /\ dinode'[i].nlink = k
<1>1. dinode' = [dinode EXCEPT ![i] = [d EXCEPT !.nlink = k], ![i] = [d EXCEPT !.nlink = k]]
  BY DEF Update, Update2
<1>2. dinode'[i] = [d EXCEPT !.nlink = k]
  BY <1>1 DEF TypesOK
<1>3. Others({i})
  BY <1>1 DEF TypesOK, Others
<1> QED BY <1>2, <1>3 DEF SameType, Inode

LEMMA LinkOldDisk ==
    ASSUME PlaceInv, LockInv, NEW p \in Proc, NEW start, LinkOld(p, start)
    PROVE  Quiet(p) \/ Counts(p)
<1> DEFINE i == ip[p]
<1>1. /\ TypesOK /\ TreeTypes /\ i \in Inum /\ lock[i] = NULL /\ call[p] = "link" /\ puts[p] = <<>>
  BY AtType DEF LinkOld, At, Inside
<1>2. Look(i) = dinode[i] /\ Look(i) \in Inode
  BY <1>1, Unlocked, LookType
<1>3. CASE Reads(i) /\ Finish(p, <<i>>)
  BY <1>1, <1>3, ReadsDisk, EndLocals, QuietEnd
<1>4. CASE /\ Look(i).type # "dir"
           /\ Update(i, [Look(i) EXCEPT !.nlink = @ + 1])
           /\ other' = [other EXCEPT ![p] = i]
           /\ pc' = [pc EXCEPT ![p] = "walk"]
  <2> DEFINE d == Look(i)
             k == dinode[i].nlink + 1
  <2>1. Update(i, [d EXCEPT !.nlink = k]) /\ d \in Inode /\ d = dinode[i] /\ k \in Int
    BY <1>2, <1>4 DEF Inode
  <2> HIDE DEF d, k
  <2>2. Others({i}) /\ SameType(i) /\ dinode'[i].ents = dinode[i].ents /\ dinode'[i].nlink = k
    BY <1>1, <2>1, RecountIs
  <2>3. other'[p] = i /\ pc'[p] = "walk"
    BY <1>1, <1>4 DEF TypesOK
  <2>4. Recounted(i, 1)
    BY <1>1, <2>2 DEF Recounted, k
  <2>5. ~IsDir(i)
    BY <1>2, <1>4 DEF IsDir
  <2> QED BY <1>1, <2>3, <2>4, <2>5 DEF Counts, Pending
<1> QED BY <1>3, <1>4 DEF LinkOld

LEMMA LinkUndoDisk == ASSUME PlaceInv, LockInv, NEW p \in Proc, LinkUndo(p) PROVE Uncounts(p)
<1> DEFINE i == other[p]
<1>1. /\ TypesOK /\ TreeTypes /\ i \in Inum /\ lock[i] = NULL /\ call[p] = "link2" /\ puts[p] = <<>>
  BY AtType DEF LinkUndo, At, Stands
<1>2. Look(i) = dinode[i] /\ Look(i) \in Inode
  BY <1>1, Unlocked, LookType
<1> DEFINE d == Look(i)
           k == dinode[i].nlink - 1
<1>3. Update(i, [d EXCEPT !.nlink = k]) /\ d \in Inode /\ d = dinode[i] /\ k \in Int
  BY <1>2 DEF LinkUndo, Inode
<1>6. Look(i) = dinode[i] /\ dinode[i].nlink \in Int
  BY <1>2 DEF Inode
<1> HIDE DEF d, k
<1>4. Others({i}) /\ SameType(i) /\ dinode'[i].ents = dinode[i].ents /\ dinode'[i].nlink = k
  BY <1>1, <1>3, RecountIs
<1>5. pc'[p] # "fill" /\ NoPending(p)
  BY <1>1, EndLocals DEF LinkUndo
<1>7. Recounted(i, 0-1)
  BY <1>1, <1>4, <1>6 DEF Recounted, k
<1> QED BY <1>1, <1>5, <1>7 DEF Uncounts

\* The element looked up before the last of unlink() is one of Name.
LEMMA ElemName ==
    ASSUME TypesOK, NEW p \in Proc, Names(p), pos[p] \in 1..Len(path[p]), call[p] # "unlink"
    PROVE  Elem(p) \in Name
BY DEF Names, NamesOf, Elem

LEMMA LinkNewDisk ==
    ASSUME PlaceInv, LockInv, NEW p \in Proc, Names(p), Sees(p), LinkNew(p)
    PROVE  Quiet(p) \/ Enters(p)
<1> DEFINE dp == ip[p]
           n  == Elem(p)
           i  == other[p]
<1>1. /\ TypesOK /\ TreeTypes /\ Stands(p) /\ dp \in Inum /\ lock[dp] = NULL
      /\ call[p] = "link2" /\ pc[p] = "parent" /\ puts[p] = <<>>
  BY AtType DEF LinkNew, At, Inside
<1>2. i \in Inum /\ n \in Name /\ IsDir(dp)
  BY <1>1, ElemName DEF Stands, TypesOK, Sees
<1>3. Look(dp) = dinode[dp] /\ Look(dp) \in Inode
  BY <1>1, Unlocked, LookType
<1>4. CASE Reads(dp) /\ Undo(p, dp)
  <2>1. pc'[p] # "fill" /\ call' = call /\ other' = other
    BY <1>1, <1>4 DEF Undo, TypesOK
  <2> QED BY <1>1, <1>4, <2>1, ReadsDisk, QuietGoes
<1>5. CASE /\ Look(dp).ents[n] = 0
           /\ Update(dp, [Look(dp) EXCEPT !.ents[n] = i])
           /\ Finish(p, <<dp, i>>)
  <2> DEFINE d == Look(dp)
             e == [d EXCEPT !.ents[n] = i]
  <2>1. e.type = d.type /\ e.nlink = d.nlink /\ \A m \in Elems : e.ents[m] = IF m = n THEN i ELSE d.ents[m]
    BY <1>2, <1>3 DEF Inode, Elems
  <2>2. d = dinode[dp] /\ Update(dp, e)
    BY <1>3, <1>5
  <2> HIDE DEF d, e
  <2>3. dinode'[dp] = e /\ Others({dp})
    BY <1>1, <2>2 DEF Update, Update2, TypesOK, Others
  <2>4. Entered(dp, n, i) /\ dinode'[dp].nlink = dinode[dp].nlink
    BY <1>1, <1>2, <2>1, <2>2, <2>3 DEF Entered, SameType
  <2>5. pc'[p] # "fill" /\ NoPending(p)
    BY <1>1, <1>5, EndLocals
  <2>6. dinode[dp].ents[n] = 0
    BY <1>3, <1>5
  <2> QED BY <1>1, <1>2, <2>3, <2>4, <2>5, <2>6 DEF Enters
<1> QED BY <1>4, <1>5 DEF LinkNew

LEMMA UnlinkParentDisk ==
    ASSUME PlaceInv, LockInv, NEW p \in Proc, UnlinkParent(p) PROVE Quiet(p)
<1>1. /\ TypesOK /\ ip[p] \in Inum /\ lock[ip[p]] = NULL /\ Reads(ip[p]) /\ call[p] = "unlink"
  BY AtType DEF UnlinkParent, At, Inside
<1>2. dinode' = dinode
  BY <1>1, ReadsDisk
<1>3. CASE Finish(p, <<ip[p]>>)
  BY <1>1, <1>2, <1>3, EndLocals, QuietEnd
<1>4. CASE pc' = [pc EXCEPT ![p] = "child"] /\ UNCHANGED call
  <2>1. pc'[p] # "fill" /\ call'[p] # "link2"
    BY <1>1, <1>4 DEF TypesOK
  <2> QED BY <1>2, <2>1 DEF Quiet, Pending
<1> QED BY <1>3, <1>4 DEF UnlinkParent

LEMMA UnlinkChildDisk ==
    ASSUME PlaceInv, LockInv, NEW p \in Proc, Names(p), Sees(p), UnlinkChild(p)
    PROVE  Quiet(p) \/ Removes(p)
<1> DEFINE dp    == ip[p]
           n     == Elem(p)
           i     == other[p]
           d     == Look(i)
           isdir == IF d.type = "dir" THEN 1 ELSE 0
<1>1. /\ TypesOK /\ TreeTypes /\ i \in Inum /\ lock[i] = NULL /\ pc[p] = "child" /\ pc[p] \in Holding
      /\ puts[p] = <<>>
  BY AtType, Typed DEF UnlinkChild, At, Holding
<1>2. /\ dp \in Inum /\ lock[dp] = p /\ mem[dp] = dinode[dp] /\ dinode[dp] \in Inode
      /\ n \in Name /\ IsDir(dp) /\ dp # i
  <2>1. dp \in Inum /\ lock[dp] = p /\ mem[dp] = dinode[dp]
    BY <1>1, Locked
  <2>2. n \in Name /\ IsDir(dp)
    BY <1>1 DEF Names, Sees
  <2> QED BY <1>1, <2>1, <2>2, FsAssumption DEF TypesOK
<1>3. d = dinode[i] /\ d \in Inode
  BY <1>1, Unlocked, LookType
<1>4. pc'[p] # "fill" /\ NoPending(p)
  BY <1>1, EndLocals DEF UnlinkChild
<1>5. CASE Reads(i)
  BY <1>1, <1>4, <1>5, ReadsDisk, QuietEnd
<1>6. CASE Update2(dp, [mem[dp] EXCEPT !.ents[n] = 0, !.nlink = @ - isdir],
                   i, [d EXCEPT !.nlink = @ - 1])
  <2> DEFINE b == mem[dp]
             e == [b EXCEPT !.ents[n] = 0, !.nlink = @ - isdir]
             f == [d EXCEPT !.nlink = @ - 1]
  <2>1. isdir = Mark(IsDir(i)) /\ isdir \in Int
    BY <1>3 DEF Mark, IsDir
  <2>7. b = dinode[dp] /\ b \in Inode /\ Update2(dp, e, i, f)
    BY <1>2, <1>6
  <2> HIDE DEF b, d, isdir
  <2>2. /\ e.type = b.type /\ e.nlink = b.nlink - isdir
        /\ \A m \in Elems : e.ents[m] = IF m = n THEN 0 ELSE b.ents[m]
    BY <1>2, <2>1, <2>7 DEF Inode, Elems
  <2>3. f.type = d.type /\ f.ents = d.ents /\ f.nlink = d.nlink - 1
    BY <1>3 DEF Inode
  <2> HIDE DEF e, f
  <2>4. dinode'[dp] = e /\ dinode'[i] = f /\ Others({dp, i})
    BY <1>1, <1>2, <2>7 DEF Update2, TypesOK, Others
  <2>5. Entered(dp, n, 0) /\ dinode'[dp].nlink = dinode[dp].nlink - Mark(IsDir(i))
    BY <1>2, <2>1, <2>2, <2>4, <2>7 DEF Entered, SameType
  <2>6. SameType(i) /\ dinode'[i].ents = dinode[i].ents /\ dinode'[i].nlink = dinode[i].nlink - 1
    BY <1>3, <2>3, <2>4 DEF SameType
  <2> QED BY <1>1, <1>2, <1>4, <2>4, <2>5, <2>6 DEF Removes
<1> QED BY <1>5, <1>6 DEF UnlinkChild

LEMMA CreateLookupDisk ==
    ASSUME PlaceInv, LockInv, NEW p \in Proc, CreateLookup(p)
    PROVE  Quiet(p) \/ Allocs(p)
<1> DEFINE dp   == ip[p]
           i    == Min(FreeInodes)
           type == IF call[p] = "mkdir" THEN "dir" ELSE "file"
<1>1. /\ TypesOK /\ dp \in Inum /\ lock[dp] = NULL /\ puts[p] = <<>>
      /\ call[p] \in {"create", "mkdir", "mknod"}
  BY AtType DEF CreateLookup, At, Inside
<1>2. CASE Reads(dp) /\ pc' = [pc EXCEPT ![p] = "exists"] /\ UNCHANGED <<call, other>>
  <2>1. pc'[p] # "fill"
    BY <1>1, <1>2 DEF TypesOK
  <2> QED BY <1>1, <1>2, <2>1, ReadsDisk, QuietGoes
<1>3. CASE Reads(dp) /\ Finish(p, <<dp>>)
  BY <1>1, <1>3, ReadsDisk, EndLocals, QuietEnd
<1>4. CASE /\ FreeInodes # {}
           /\ dinode' = [dinode EXCEPT ![i] = [Free EXCEPT !.type = type]]
           /\ Hold(i)
           /\ other' = [other EXCEPT ![p] = i]
           /\ pc' = [pc EXCEPT ![p] = "fill"]
           /\ UNCHANGED <<call, ip>>
  <2>1. i \in Inum /\ dinode[i].type = "none"
    <3>1. FreeInodes \in SUBSET Nat
      BY FsAssumption DEF FreeInodes
    <3>2. i \in FreeInodes
      BY <1>4, <3>1, MinIn
    <3> QED BY <3>2 DEF FreeInodes
  <2>2. type \in {"dir", "file"}
    OBVIOUS
  <2> HIDE DEF i, type
  <2>3. other'[p] = i /\ pc'[p] = "fill" /\ Others({i}) /\ dinode'[i] = [Free EXCEPT !.type = type]
    BY <1>1, <1>4, <2>1 DEF TypesOK, Others
  <2>4. dinode'[i].type = type
    BY <2>3 DEF Free
  <2>5. \A x \in Inum : ref'[x] = ref[x] + Mark(x = i)
    BY <1>1, <1>4, <2>1 DEF Hold, TypesOK, Mark
  <2>6. NoPending(p)
    BY <1>1, <1>4 DEF NoPending, Pending
  <2> QED BY <1>1, <1>4, <2>1, <2>2, <2>3, <2>4, <2>5, <2>6 DEF Allocs
<1> QED BY <1>2, <1>3, <1>4 DEF CreateLookup

LEMMA CreateFillDisk ==
    ASSUME PlaceInv, LockInv, NEW p \in Proc, Names(p), Sees(p), CreateFill(p)
    PROVE  Quiet(p) \/ Fills(p)
<1> DEFINE dp    == ip[p]
           n     == Elem(p)
           i     == other[p]
           d     == Look(i)
           isdir == IF d.type = "dir" THEN 1 ELSE 0
<1>1. /\ TypesOK /\ TreeTypes /\ i \in Inum /\ lock[i] = NULL /\ pc[p] = "fill" /\ pc[p] \in Holding
      /\ puts[p] = <<>>
  BY AtType, Typed DEF CreateFill, At, Holding
<1>2. /\ dp \in Inum /\ lock[dp] = p /\ mem[dp] = dinode[dp] /\ dinode[dp] \in Inode
      /\ n \in Name /\ IsDir(dp) /\ dp # i
  <2>1. dp \in Inum /\ lock[dp] = p /\ mem[dp] = dinode[dp]
    BY <1>1, Locked
  <2>2. n \in Name /\ IsDir(dp)
    BY <1>1 DEF Names, Sees
  <2> QED BY <1>1, <2>1, <2>2, FsAssumption DEF TypesOK
<1>3. d = dinode[i] /\ d \in Inode
  BY <1>1, Unlocked, LookType
<1>4. pc'[p] # "fill" /\ NoPending(p)
  BY <1>1, EndLocals, OpenFileLocals DEF CreateFill
<1>5. CASE Reads(i)
  BY <1>1, <1>4, <1>5, ReadsDisk, QuietEnd
<1>6. CASE Update2(dp, [mem[dp] EXCEPT !.ents[n] = i, !.nlink = @ + isdir],
                   i, [d EXCEPT !.nlink = 1, !.ents[".."] = isdir * dp])
  <2> DEFINE b == mem[dp]
             u == isdir * dp
             e == [b EXCEPT !.ents[n] = i, !.nlink = @ + isdir]
             f == [d EXCEPT !.nlink = 1, !.ents[".."] = u]
  <2>1. isdir = Mark(IsDir(i)) /\ isdir \in Int
    BY <1>3 DEF Mark, IsDir
  <2>8. u = IF IsDir(i) THEN dp ELSE 0
    <3>1. dp \in Nat
      BY <1>2, FsAssumption
    <3>2. 0 * dp = 0 /\ 1 * dp = dp
      BY <3>1, Times
    <3> QED BY <1>3, <3>2 DEF IsDir
  <2>7. b = dinode[dp] /\ b \in Inode /\ Update2(dp, e, i, f)
    BY <1>2, <1>6
  <2> HIDE DEF b, d, isdir, u
  <2>2. /\ e.type = b.type /\ e.nlink = b.nlink + isdir
        /\ \A m \in Elems : e.ents[m] = IF m = n THEN i ELSE b.ents[m]
    BY <1>2, <2>1, <2>7 DEF Inode, Elems
  <2>3. f.type = d.type /\ f.nlink = 1 /\ \A m \in Elems : f.ents[m] = IF m = ".." THEN u ELSE d.ents[m]
    BY <1>3 DEF Inode, Elems
  <2> HIDE DEF e, f
  <2>4. dinode'[dp] = e /\ dinode'[i] = f /\ Others({dp, i})
    BY <1>1, <1>2, <2>7 DEF Update2, TypesOK, Others
  <2>5. Entered(dp, n, i) /\ dinode'[dp].nlink = dinode[dp].nlink + Mark(IsDir(i))
    BY <1>2, <2>1, <2>2, <2>4, <2>7 DEF Entered, SameType
  <2>6. /\ SameType(i) /\ dinode'[i].nlink = 1
        /\ \A m \in Elems : dinode'[i].ents[m] =
             IF m = ".." THEN (IF IsDir(i) THEN dp ELSE 0) ELSE dinode[i].ents[m]
    BY <1>3, <2>3, <2>4, <2>8 DEF SameType
  <2> QED BY <1>1, <1>2, <1>4, <2>4, <2>5, <2>6 DEF Fills
<1> QED BY <1>5, <1>6 DEF CreateFill

LEMMA IputFreeDisk == ASSUME PlaceInv, LockInv, NEW p \in Proc, IputFree(p) PROVE Drops(p)
<1> DEFINE i == puts[p][1]
<1>1. TypesOK /\ Stands(p) /\ Putting(p)
  BY DEF PlaceInv, IputFree
<1>2. i \in Inum /\ Head(puts[p]) = i /\ puts[p] # <<>> /\ pc[p] # "fill"
  BY <1>1, HeadOf DEF Stands, Holding, Putting
<1>3. /\ lock[i] = NULL /\ ref[i] = 1 /\ valid[i] /\ mem[i].nlink = 0
  BY <1>2 DEF IputFree, IsLastPut
<1>4. dinode[i].nlink = 0
  BY <1>2, <1>3, Unlocked DEF Look
<1>5. dinode'[i] = Free /\ Others({i}) /\ lock'[i] = p
  BY <1>1, <1>2 DEF IputFree, TypesOK, Others
<1> QED BY <1>2, <1>3, <1>4, <1>5 DEF IputFree, Drops

\* What the steps of a process do to the disk.
LEMMA StepDisk ==
    ASSUME PlaceInv, LockInv, NEW p \in Proc, Names(p), Sees(p), Step(p) PROVE DiskSteps(p)
BY WalkDisk, QuietDisk, LinkOldDisk, LinkNewDisk, LinkUndoDisk, UnlinkParentDisk, UnlinkChildDisk,
   CreateLookupDisk, CreateFillDisk, IputFreeDisk DEF Step, DiskSteps

-----------------------------------------------------------------------------
\* Links.

\* The directories whose ".." counts for i.
Backs(i) == {j \in Inum : dinode[j].ents[".."] = i /\ (j = ROOTINO \/ Entries(j) # {})}

LEMMA LinksAre == ASSUME NEW i PROVE Links(i) = Cardinality(Entries(i)) + Cardinality(Backs(i))
BY DEF Links, Backs

\* A set that loses elements, gains one at most, or loses a given one.
LEMMA Cards ==
    ASSUME NEW B, IsFiniteSet(B), NEW S \in SUBSET B, NEW T \in SUBSET B
    PROVE  /\ Cardinality(S) \in Nat /\ Cardinality(T) \in Nat
           /\ T \subseteq S => Cardinality(T) <= Cardinality(S)
           /\ \A h : T \subseteq S \cup {h} => Cardinality(T) <= Cardinality(S) + 1
           /\ \A h \in S : T \subseteq S \ {h} => Cardinality(T) <= Cardinality(S) - 1
<1>1. IsFiniteSet(S) /\ IsFiniteSet(T)
  BY FS_Subset
<1>2. Cardinality(S) \in Nat /\ Cardinality(T) \in Nat
  BY <1>1, FS_CardinalityType
<1>3. T \subseteq S => Cardinality(T) <= Cardinality(S)
  BY <1>1, FS_Subset
<1>4. ASSUME NEW h, T \subseteq S \cup {h} PROVE Cardinality(T) <= Cardinality(S) + 1
  <2>1. /\ IsFiniteSet(S \cup {h})
        /\ Cardinality(S \cup {h}) = IF h \in S THEN Cardinality(S) ELSE Cardinality(S) + 1
    BY <1>1, FS_AddElement
  <2>2. Cardinality(T) <= Cardinality(S \cup {h})
    BY <1>4, <2>1, FS_Subset
  <2> QED BY <1>2, <2>1, <2>2
<1>5. ASSUME NEW h \in S, T \subseteq S \ {h} PROVE Cardinality(T) <= Cardinality(S) - 1
  <2>1. IsFiniteSet(S \ {h}) /\ Cardinality(S \ {h}) = Cardinality(S) - 1
    BY <1>1, FS_RemoveElement
  <2>2. Cardinality(T) <= Cardinality(S \ {h})
    BY <1>5, <2>1, FS_Subset
  <2> QED BY <1>2, <2>1, <2>2
<1> QED BY <1>2, <1>3, <1>4, <1>5

LEMMA FiniteBases == IsFiniteSet(Inum \X Name) /\ IsFiniteSet(Inum) /\ IsFiniteSet(Proc)
BY FS_Product, FsAssumption

LEMMA LinkSets ==
    ASSUME NEW i
    PROVE  /\ Entries(i) \in SUBSET (Inum \X Name) /\ Entries(i)' \in SUBSET (Inum \X Name)
           /\ Backs(i) \in SUBSET Inum /\ Backs(i)' \in SUBSET Inum
           /\ Pending(i) \in SUBSET Proc /\ Pending(i)' \in SUBSET Proc
BY DEF Entries, Backs, Pending

LEMMA EntryIs ==
    ASSUME NEW i, NEW j \in Inum, NEW n \in Name
    PROVE  /\ <<j, n>> \in Entries(i) <=> dinode[j].ents[n] = i
           /\ <<j, n>> \in Entries(i)' <=> dinode'[j].ents[n] = i
BY DEF Entries

\* The entries of i, seen through a set of pairs.
LEMMA EntriesWithin ==
    ASSUME NEW i, NEW T,
           \A j \in Inum, n \in Name : dinode'[j].ents[n] = i => <<j, n>> \in T
    PROVE  Entries(i)' \subseteq T
<1> SUFFICES ASSUME NEW h \in Entries(i)' PROVE h \in T
  OBVIOUS
<1>1. h \in Inum \X Name /\ dinode'[h[1]].ents[h[2]] = i
  BY DEF Entries
<1> QED BY <1>1

\* The count of i holds after a step that changes its three parts by a, b and c.
LEMMA CountedBy ==
    ASSUME TypesOK, TypesOK', LinksCounted, NEW i \in Inum, NEW a \in Int, NEW b \in Int, NEW c \in Int,
           Cardinality(Entries(i)') <= Cardinality(Entries(i)) + a,
           Cardinality(Backs(i)') <= Cardinality(Backs(i)) + b,
           Cardinality(Pending(i)') <= Cardinality(Pending(i)) + c,
           dinode'[i].nlink >= dinode[i].nlink + (a + b + c)
    PROVE  Links(i)' + Cardinality(Pending(i)') <= dinode'[i].nlink
<1>1. /\ Cardinality(Entries(i)) \in Nat /\ Cardinality(Entries(i)') \in Nat
      /\ Cardinality(Backs(i)) \in Nat /\ Cardinality(Backs(i)') \in Nat
      /\ Cardinality(Pending(i)) \in Nat /\ Cardinality(Pending(i)') \in Nat
  BY LinkSets, FiniteBases, FS_Subset, FS_CardinalityType
<1>2. dinode[i].nlink \in Int /\ dinode'[i].nlink \in Int
  BY DEF TypesOK, Inode
<1>3. Links(i)' = Cardinality(Entries(i)') + Cardinality(Backs(i)')
  BY DEF Links, Backs
<1>4. Links(i) + Cardinality(Pending(i)) <= dinode[i].nlink
  BY DEF LinksCounted
<1> QED BY <1>1, <1>2, <1>3, <1>4, LinksAre

\* An inode without links is not entered anywhere, nor about to be.
LEMMA Unlinked ==
    ASSUME TypesOK, LinksCounted, NEW i \in Inum, dinode[i].nlink <= 0
    PROVE  Entries(i) = {} /\ Backs(i) = {} /\ Pending(i) = {}
<1>1. /\ IsFiniteSet(Entries(i)) /\ IsFiniteSet(Backs(i)) /\ IsFiniteSet(Pending(i))
      /\ Cardinality(Entries(i)) \in Nat /\ Cardinality(Backs(i)) \in Nat /\ Cardinality(Pending(i)) \in Nat
  BY LinkSets, FiniteBases, FS_Subset, FS_CardinalityType
<1>2. Links(i) + Cardinality(Pending(i)) <= dinode[i].nlink /\ dinode[i].nlink \in Int
  BY DEF LinksCounted, TypesOK, Inode
<1>3. Cardinality(Entries(i)) = 0 /\ Cardinality(Backs(i)) = 0 /\ Cardinality(Pending(i)) = 0
  BY <1>1, <1>2, LinksAre
<1> QED BY <1>1, <1>3, FS_EmptySet

\* Where nothing is added and nothing taken from the count.
LEMMA CountedStill ==
    ASSUME TypesOK, TypesOK', LinksCounted, NEW i \in Inum,
           Entries(i)' \subseteq Entries(i), Backs(i)' \subseteq Backs(i), Pending(i)' \subseteq Pending(i),
           dinode'[i].nlink >= dinode[i].nlink
    PROVE  Links(i)' + Cardinality(Pending(i)') <= dinode'[i].nlink
<1>1. /\ Cardinality(Entries(i)') <= Cardinality(Entries(i))
      /\ Cardinality(Backs(i)') <= Cardinality(Backs(i))
      /\ Cardinality(Pending(i)') <= Cardinality(Pending(i))
  BY LinkSets, FiniteBases, Cards
<1>2. /\ Cardinality(Entries(i)) \in Nat /\ Cardinality(Backs(i)) \in Nat /\ Cardinality(Pending(i)) \in Nat
      /\ Cardinality(Entries(i)') \in Nat /\ Cardinality(Backs(i)') \in Nat /\ Cardinality(Pending(i)') \in Nat
      /\ dinode[i].nlink \in Int
  BY LinkSets, FiniteBases, FS_Subset, FS_CardinalityType DEF TypesOK, Inode
<1>3. /\ Cardinality(Entries(i)') <= Cardinality(Entries(i)) + 0
      /\ Cardinality(Backs(i)') <= Cardinality(Backs(i)) + 0
      /\ Cardinality(Pending(i)') <= Cardinality(Pending(i)) + 0
      /\ dinode'[i].nlink >= dinode[i].nlink + (0 + 0 + 0)
  BY <1>1, <1>2
<1> QED BY <1>3, CountedBy

-----------------------------------------------------------------------------
\* The tree.

LEMMA PendingMoves ==
    ASSUME NEW p \in Proc, MovesOnly(p), NEW i
    PROVE  /\ Pending(i)' \subseteq Pending(i) \cup {p}
           /\ p \notin Pending(i)' => Pending(i)' \subseteq Pending(i) \ {p}
           /\ (p \in Pending(i)' => p \in Pending(i)) => Pending(i)' \subseteq Pending(i)
<1>1. \A q \in Proc : q # p => (q \in Pending(i)' <=> q \in Pending(i))
  BY DEF MovesOnly, Same, Pending
<1>2. Pending(i)' \subseteq Proc
  BY DEF Pending
<1> QED BY <1>1, <1>2

\* A step that changes neither types nor entries.
SameTree == \A x \in Inum : SameType(x) /\ dinode'[x].ents = dinode[x].ents

LEMMA SameTreeKeeps ==
    ASSUME TreeInv, SameTree
    PROVE  /\ DirsOnly' /\ TreeShape' /\ Ranked'
           /\ \A x \in Inum : Entries(x)' = Entries(x) /\ Backs(x)' = Backs(x)
<1>1. DirsOnly'
  BY FsAssumption DEF TreeInv, DirsOnly, IsDir, SameTree, SameType
<1>2. TreeShape'
  BY DEF TreeInv, TreeShape, IsDir, SameTree, SameType
<1>3. Ranked'
  <2>1. PICK r \in [Inum -> Nat] : Falls(r)
    BY DEF TreeInv, Ranked
  <2>2. Falls(r)'
    BY <2>1 DEF Falls, IsDir, SameTree, SameType
  <2> QED BY <2>2 DEF Ranked
<1>4. ASSUME NEW x PROVE Entries(x)' = Entries(x)
  <2>1. \A h \in Inum \X Name : dinode'[h[1]].ents[h[2]] = dinode[h[1]].ents[h[2]]
    BY DEF SameTree
  <2> QED BY <2>1 DEF Entries
<1>5. \A x \in Inum : Backs(x)' = Backs(x)
  BY <1>4 DEF Backs, SameTree
<1> QED BY <1>1, <1>2, <1>3, <1>4, <1>5

LEMMA RecountTree == ASSUME NEW i, NEW k, Recounted(i, k) PROVE SameTree
BY DEF Recounted, Others, SameTree, SameType

LEMMA QuietTree ==
    ASSUME TypesOK, TypesOK', TreeInv, NEW p \in Proc, MovesOnly(p), Quiet(p) PROVE TreeInv'
<1>1. SameTree
  BY DEF Quiet, SameTree, SameType
<1>2. ASSUME NEW i \in Inum PROVE Links(i)' + Cardinality(Pending(i)') <= dinode'[i].nlink
  <2>1. Entries(i)' \subseteq Entries(i) /\ Backs(i)' \subseteq Backs(i)
    BY <1>1, SameTreeKeeps
  <2>2. Pending(i)' \subseteq Pending(i)
    BY PendingMoves DEF Quiet
  <2>3. dinode'[i].nlink >= dinode[i].nlink
    BY DEF Quiet, TypesOK, Inode
  <2>4. LinksCounted
    BY DEF TreeInv
  <2> QED BY <2>1, <2>2, <2>3, <2>4, CountedStill
<1>3. LinksCounted'
  BY <1>2 DEF LinksCounted
<1> QED BY <1>1, <1>3, SameTreeKeeps DEF TreeInv

LEMMA CountsTree ==
    ASSUME TypesOK, TypesOK', TreeInv, NEW p \in Proc, MovesOnly(p), Counts(p) PROVE TreeInv'
<1>1. SameTree /\ LinksCounted /\ Recounted(ip[p], 1)
  BY RecountTree DEF Counts, TreeInv
<1>2. ASSUME NEW i \in Inum PROVE Links(i)' + Cardinality(Pending(i)') <= dinode'[i].nlink
  <2>1. Entries(i)' \subseteq Entries(i) /\ Backs(i)' \subseteq Backs(i)
    BY <1>1, SameTreeKeeps
  <2>2. dinode[i].nlink \in Int
    BY DEF TypesOK, Inode
  <2>3. CASE i # ip[p]
    <3>1. Pending(i)' \subseteq Pending(i)
      BY <2>3, PendingMoves DEF Counts
    <3>2. dinode'[i].nlink >= dinode[i].nlink
      BY <1>1, <2>2, <2>3 DEF Recounted, Others
    <3> QED BY <1>1, <2>1, <3>1, <3>2, CountedStill
  <2>4. CASE i = ip[p]
    <3>1. Pending(i)' \subseteq Pending(i) \cup {p}
      BY PendingMoves
    <3>2. Cardinality(Pending(i)') <= Cardinality(Pending(i)) + 1
      BY <3>1, LinkSets, FiniteBases, Cards
    <3>3. /\ Cardinality(Entries(i)') <= Cardinality(Entries(i)) + 0
          /\ Cardinality(Backs(i)') <= Cardinality(Backs(i)) + 0
      <4>1. /\ Cardinality(Entries(i)') <= Cardinality(Entries(i))
            /\ Cardinality(Entries(i)) \in Nat
        BY <2>1, LinkSets, FiniteBases, Cards
      <4>2. /\ Cardinality(Backs(i)') <= Cardinality(Backs(i))
            /\ Cardinality(Backs(i)) \in Nat
        BY <2>1, LinkSets, FiniteBases, Cards
      <4> QED BY <4>1, <4>2
    <3>4. dinode'[i].nlink >= dinode[i].nlink + (0 + 0 + 1)
      BY <1>1, <2>2, <2>4 DEF Recounted
    <3> QED BY <1>1, <3>2, <3>3, <3>4, CountedBy
  <2> QED BY <2>3, <2>4
<1>3. LinksCounted'
  BY <1>2 DEF LinksCounted
<1> QED BY <1>1, <1>3, SameTreeKeeps DEF TreeInv

LEMMA UncountsTree ==
    ASSUME TypesOK, TypesOK', TreeInv, NEW p \in Proc, MovesOnly(p), Uncounts(p) PROVE TreeInv'
<1>1. SameTree /\ LinksCounted /\ Recounted(other[p], 0-1)
  BY RecountTree DEF Uncounts, TreeInv
<1>2. ASSUME NEW i \in Inum PROVE Links(i)' + Cardinality(Pending(i)') <= dinode'[i].nlink
  <2>1. Entries(i)' \subseteq Entries(i) /\ Backs(i)' \subseteq Backs(i)
    BY <1>1, SameTreeKeeps
  <2>2. dinode[i].nlink \in Int
    BY DEF TypesOK, Inode
  <2>3. Pending(i)' \subseteq Pending(i) \ {p}
    BY PendingMoves DEF Uncounts, NoPending
  <2>4. CASE i # other[p]
    <3>1. dinode'[i].nlink >= dinode[i].nlink
      BY <1>1, <2>2, <2>4 DEF Recounted, Others
    <3> QED BY <1>1, <2>1, <2>3, <3>1, CountedStill
  <2>5. CASE i = other[p]
    <3>1. p \in Pending(i)
      BY <2>5 DEF Uncounts, Pending
    <3>2. Cardinality(Pending(i)') <= Cardinality(Pending(i)) - 1 /\ Cardinality(Pending(i)) \in Nat
      BY <2>3, <3>1, LinkSets, FiniteBases, Cards
    <3>5. Cardinality(Pending(i)') <= Cardinality(Pending(i)) + (0-1)
      BY <3>2
    <3>3. /\ Cardinality(Entries(i)') <= Cardinality(Entries(i)) + 0
          /\ Cardinality(Backs(i)') <= Cardinality(Backs(i)) + 0
      <4>1. /\ Cardinality(Entries(i)') <= Cardinality(Entries(i))
            /\ Cardinality(Entries(i)) \in Nat
        BY <2>1, LinkSets, FiniteBases, Cards
      <4>2. /\ Cardinality(Backs(i)') <= Cardinality(Backs(i))
            /\ Cardinality(Backs(i)) \in Nat
        BY <2>1, LinkSets, FiniteBases, Cards
      <4> QED BY <4>1, <4>2
    <3>4. dinode'[i].nlink >= dinode[i].nlink + (0 + 0 + (0-1))
      BY <1>1, <2>2, <2>5 DEF Recounted
    <3>6. 0 \in Int /\ 0-1 \in Int
      OBVIOUS
    <3> QED BY <1>1, <3>3, <3>4, <3>5, <3>6, CountedBy
  <2> QED BY <2>4, <2>5
<1>3. LinksCounted'
  BY <1>2 DEF LinksCounted
<1> QED BY <1>1, <1>3, SameTreeKeeps DEF TreeInv

LEMMA Kept ==
    ASSUME NEW B, IsFiniteSet(B), NEW S \in SUBSET B, NEW T \in SUBSET B, T \subseteq S
    PROVE  Cardinality(T) <= Cardinality(S) + 0
<1>1. Cardinality(T) <= Cardinality(S) /\ Cardinality(S) \in Nat
  BY Cards
<1> QED BY <1>1

\* What changes the one entry n of dp changes no "..".
LEMMA EnteredDots ==
    ASSUME NEW dp, NEW n, NEW i, Entered(dp, n, i) PROVE dinode'[dp].ents[".."] = dinode[dp].ents[".."]
BY FsAssumption DEF Entered, Elems

LEMMA EntersTree ==
    ASSUME TypesOK, TypesOK', TreeInv, NEW p \in Proc, MovesOnly(p), Sees(p), Enters(p) PROVE TreeInv'
<1> DEFINE dp == ip[p]
           n  == Elem(p)
           i  == other[p]
<1>1. /\ Entered(dp, n, i) /\ Others({dp}) /\ dinode'[dp].nlink = dinode[dp].nlink
      /\ i \in Inum /\ dinode[dp].ents[n] = 0 /\ ~IsDir(i) /\ p \in Pending(i)
      /\ LinksCounted /\ DirsOnly /\ TreeShape /\ Ranked
  BY DEF Enters, Sees, Pending, TreeInv
<1>2. dp \in Inum /\ n \in Name /\ IsDir(dp) /\ i # dp
  BY <1>1 DEF Entered
<1>3. \A x \in Inum : SameType(x) /\ dinode'[x].ents[".."] = dinode[x].ents[".."]
  BY <1>1, EnteredDots DEF Entered, Others, SameType
<1>4. \A x \in Inum, m \in Name :
        dinode'[x].ents[m] = IF x = dp /\ m = n THEN i ELSE dinode[x].ents[m]
  BY <1>1 DEF Entered, Others, Elems
<1> HIDE DEF dp, n, i
<1>5. DirsOnly'
  <2>1. \A x \in Inum : ~IsDir(x) => dinode'[x] = dinode[x]
    BY <1>1, <1>2 DEF Others
  <2> QED BY <1>1, <1>3, <2>1, FsAssumption DEF DirsOnly, IsDir, SameType
<1>6. \A x \in Inum, y \in Inum, m \in Name :
        IsDir(x)' /\ dinode'[y].ents[m] = x => IsDir(x) /\ dinode[y].ents[m] = x
  BY <1>1, <1>3, <1>4 DEF IsDir, SameType
<1>7. TreeShape'
  BY <1>1, <1>3, <1>6 DEF TreeShape
<1>8. Ranked'
  <2>1. PICK r \in [Inum -> Nat] : Falls(r)
    BY <1>1 DEF Ranked
  <2>2. Falls(r)'
    BY <1>6, <2>1 DEF Falls
  <2> QED BY <2>2 DEF Ranked
<1>9. ASSUME NEW x \in Inum PROVE Links(x)' + Cardinality(Pending(x)') <= dinode'[x].nlink
  <2>1. /\ Entries(x)' \subseteq Entries(x) \cup {<<dp, n>>}
        /\ x # i => Entries(x)' \subseteq Entries(x)
    <3>1. \A y \in Inum, m \in Name : dinode'[y].ents[m] = x =>
            \/ y = dp /\ m = n /\ x = i
            \/ <<y, m>> \in Entries(x)
      BY <1>4, EntryIs
    <3>2. \A y \in Inum, m \in Name : dinode'[y].ents[m] = x => <<y, m>> \in Entries(x) \cup {<<dp, n>>}
      BY <3>1
    <3>3. x # i => \A y \in Inum, m \in Name : dinode'[y].ents[m] = x => <<y, m>> \in Entries(x)
      BY <3>1
    <3> QED BY <3>2, <3>3, EntriesWithin
  <2>2. Backs(x)' \subseteq Backs(x)
    <3> SUFFICES ASSUME NEW y \in Inum, dinode'[y].ents[".."] = x, y = ROOTINO \/ Entries(y)' # {}
                 PROVE  dinode[y].ents[".."] = x /\ (y = ROOTINO \/ Entries(y) # {})
      BY DEF Backs
    <3>1. dinode[y].ents[".."] = x /\ x # 0
      BY <1>3, FsAssumption
    <3>2. y # i
      BY <1>1, <3>1 DEF DirsOnly, Elems
    <3>3. Entries(y)' \subseteq Entries(y)
      <4>1. \A z \in Inum, m \in Name : dinode'[z].ents[m] = y => <<z, m>> \in Entries(y)
        BY <1>4, <3>2, EntryIs
      <4> QED BY <4>1, EntriesWithin
    <3> QED BY <3>1, <3>3
  <2>3. Pending(x)' \subseteq Pending(x) \ {p}
    BY PendingMoves DEF Enters, NoPending
  <2>4. dinode'[x].nlink = dinode[x].nlink /\ dinode[x].nlink \in Int
    BY <1>1 DEF Others, TypesOK, Inode
  <2>5. CASE x # i
    <3>1. dinode'[x].nlink >= dinode[x].nlink
      BY <2>4
    <3> QED BY <1>1, <2>1, <2>2, <2>3, <2>5, <3>1, CountedStill
  <2>6. CASE x = i
    <3>1. Cardinality(Entries(x)') <= Cardinality(Entries(x)) + 1
      BY <2>1, LinkSets, FiniteBases, Cards
    <3>2. Cardinality(Backs(x)') <= Cardinality(Backs(x)) + 0
      BY <2>2, LinkSets, FiniteBases, Kept
    <3>3. Cardinality(Pending(x)') <= Cardinality(Pending(x)) - 1 /\ Cardinality(Pending(x)) \in Nat
      BY <1>1, <2>3, <2>6, LinkSets, FiniteBases, Cards
    <3>4. Cardinality(Pending(x)') <= Cardinality(Pending(x)) + (0-1)
      BY <3>3
    <3>5. dinode'[x].nlink >= dinode[x].nlink + (1 + 0 + (0-1)) /\ 0-1 \in Int /\ 1 \in Int /\ 0 \in Int
      BY <2>4
    <3> QED BY <1>1, <3>1, <3>2, <3>4, <3>5, CountedBy
  <2> QED BY <2>5, <2>6
<1>10. LinksCounted'
  BY <1>9 DEF LinksCounted
<1> QED BY <1>5, <1>7, <1>8, <1>10 DEF TreeInv

LEMMA RemovesTree ==
    ASSUME TypesOK, TypesOK', TreeInv, NEW p \in Proc, MovesOnly(p), Sees(p), Removes(p) PROVE TreeInv'
<1>0. PICK dp \in Inum, i \in Inum : dp = ip[p] /\ i = other[p]
  BY DEF Removes, Entered
<1> DEFINE n == Elem(p)
<1>1. /\ Entered(dp, n, 0) /\ Others({dp, i}) /\ i \in Inum /\ dp # i
      /\ dinode'[dp].nlink = dinode[dp].nlink - Mark(IsDir(i))
      /\ SameType(i) /\ dinode'[i].ents = dinode[i].ents /\ dinode'[i].nlink = dinode[i].nlink - 1
      /\ dinode[dp].ents[n] = i
      /\ LinksCounted /\ DirsOnly /\ TreeShape /\ Ranked
  BY <1>0 DEF Removes, Sees, TreeInv
<1>2. dp \in Inum /\ n \in Name /\ IsDir(dp)
  BY <1>1 DEF Entered
<1>3. \A x \in Inum : SameType(x) /\ dinode'[x].ents[".."] = dinode[x].ents[".."]
  BY <1>1, EnteredDots DEF Entered, Others, SameType
<1>4. \A x \in Inum, m \in Name :
        dinode'[x].ents[m] = IF x = dp /\ m = n THEN 0 ELSE dinode[x].ents[m]
  BY <1>1 DEF Entered, Others, Elems
<1> HIDE DEF n
<1>5. DirsOnly'
  <2>1. \A x \in Inum : ~IsDir(x) => dinode'[x].ents = dinode[x].ents
    BY <1>1, <1>2 DEF Others
  <2>2. IsDir(ROOTINO)' /\ dinode'[ROOTINO].ents[".."] = ROOTINO
    BY <1>1, <1>3, FsAssumption DEF DirsOnly, IsDir, SameType
  <2>3. ASSUME NEW x \in Inum, dinode'[x].type # "dir", NEW m \in Elems PROVE dinode'[x].ents[m] = 0
    <3>1. ~IsDir(x)
      BY <1>3, <2>3 DEF IsDir, SameType
    <3> QED BY <1>1, <2>1, <3>1 DEF DirsOnly
  <2> QED BY <2>2, <2>3 DEF DirsOnly, IsDir
<1>6. \A x \in Inum, y \in Inum, m \in Name :
        dinode'[y].ents[m] = x => dinode[y].ents[m] = x /\ ~(y = dp /\ m = n)
  BY <1>4, FsAssumption
<1>7. TreeShape'
  BY <1>1, <1>3, <1>6 DEF TreeShape, IsDir, SameType
<1>8. Ranked'
  <2>1. PICK r \in [Inum -> Nat] : Falls(r)
    BY <1>1 DEF Ranked
  <2>2. Falls(r)'
    BY <1>3, <1>6, <2>1 DEF Falls, IsDir, SameType
  <2> QED BY <2>2 DEF Ranked
<1>9. ASSUME NEW x \in Inum
      PROVE  /\ Entries(x)' \subseteq Entries(x) \ {<<dp, n>>}
             /\ Backs(x)' \subseteq Backs(x)
  <2>1. ASSUME NEW y \in Inum PROVE Entries(y)' \subseteq Entries(y) \ {<<dp, n>>}
    <3>1. \A z \in Inum, m \in Name : dinode'[z].ents[m] = y => <<z, m>> \in Entries(y) \ {<<dp, n>>}
      BY <1>6, EntryIs
    <3> QED BY <3>1, EntriesWithin
  <2> QED BY <1>3, <2>1 DEF Backs
<1>10. IsDir(i) => i \in Backs(dp) /\ i \notin Backs(dp)'
  <2> SUFFICES ASSUME IsDir(i) PROVE i \in Backs(dp) /\ i \notin Backs(dp)'
    OBVIOUS
  <2>1. dinode[i].ents[".."] = dp /\ \A k \in Inum, m \in Name : dinode[k].ents[m] = i => k = dp /\ m = n
    BY <1>1, <1>2 DEF TreeShape
  <2>2. <<dp, n>> \in Entries(i)
    BY <1>1, <1>2, EntryIs
  <2>3. Entries(i)' = {}
    <3>1. \A z \in Inum, m \in Name : dinode'[z].ents[m] # i
      BY <1>1, <1>6, <2>1
    <3> QED BY <3>1 DEF Entries
  <2>4. i # ROOTINO
    <3>1. PICK r \in [Inum -> Nat] : Falls(r)
      BY <1>1 DEF Ranked
    <3>2. r[i] < r[dp]
      BY <1>1, <1>2, <3>1 DEF Falls
    <3> QED BY <1>1, <2>1 DEF DirsOnly
  <2> QED BY <1>1, <2>1, <2>2, <2>3, <2>4 DEF Backs
<1>11. ASSUME NEW x \in Inum PROVE Links(x)' + Cardinality(Pending(x)') <= dinode'[x].nlink
  <2>1. Entries(x)' \subseteq Entries(x) /\ Backs(x)' \subseteq Backs(x)
    BY <1>9
  <2>2. Pending(x)' \subseteq Pending(x)
    BY PendingMoves DEF Removes, NoPending
  <2>3. dinode[x].nlink \in Int
    BY DEF TypesOK, Inode
  <2>4. CASE x # i /\ (x # dp \/ ~IsDir(i))
    <3>1. dinode'[x].nlink >= dinode[x].nlink
      BY <1>1, <2>3, <2>4 DEF Others, Mark
    <3> QED BY <1>1, <2>1, <2>2, <3>1, CountedStill
  <2>5. /\ Cardinality(Entries(x)') <= Cardinality(Entries(x)) + 0
        /\ Cardinality(Backs(x)') <= Cardinality(Backs(x)) + 0
        /\ Cardinality(Pending(x)') <= Cardinality(Pending(x)) + 0
    <3>1. Cardinality(Entries(x)') <= Cardinality(Entries(x)) + 0
      BY <2>1, LinkSets, FiniteBases, Kept
    <3>2. Cardinality(Backs(x)') <= Cardinality(Backs(x)) + 0
      BY <2>1, LinkSets, FiniteBases, Kept
    <3>3. Cardinality(Pending(x)') <= Cardinality(Pending(x)) + 0
      BY <2>2, LinkSets, FiniteBases, Kept
    <3> QED BY <3>1, <3>2, <3>3
  <2>6. 0 \in Int /\ 0-1 \in Int
    OBVIOUS
  <2>7. CASE x = i
    <3>1. <<dp, n>> \in Entries(x)
      BY <1>1, <1>2, <2>7, EntryIs
    <3>2. Cardinality(Entries(x)') <= Cardinality(Entries(x)) - 1 /\ Cardinality(Entries(x)) \in Nat
      BY <1>9, <3>1, LinkSets, FiniteBases, Cards
    <3>3. Cardinality(Entries(x)') <= Cardinality(Entries(x)) + (0-1)
      BY <3>2
    <3>4. dinode'[x].nlink >= dinode[x].nlink + ((0-1) + 0 + 0)
      BY <1>1, <2>3, <2>7
    <3> QED BY <1>1, <2>5, <2>6, <3>3, <3>4, CountedBy
  <2>8. CASE x = dp /\ IsDir(i)
    <3>1. i \in Backs(x) /\ Backs(x)' \subseteq Backs(x) \ {i}
      BY <1>10, <2>1, <2>8
    <3>2. Cardinality(Backs(x)') <= Cardinality(Backs(x)) - 1 /\ Cardinality(Backs(x)) \in Nat
      BY <3>1, LinkSets, FiniteBases, Cards
    <3>3. Cardinality(Backs(x)') <= Cardinality(Backs(x)) + (0-1)
      BY <3>2
    <3>4. dinode'[x].nlink >= dinode[x].nlink + (0 + (0-1) + 0)
      BY <1>1, <2>3, <2>8 DEF Mark
    <3> QED BY <1>1, <2>5, <2>6, <3>3, <3>4, CountedBy
  <2> QED BY <2>4, <2>7, <2>8
<1>12. LinksCounted'
  BY <1>11 DEF LinksCounted
<1> QED BY <1>5, <1>7, <1>8, <1>12 DEF TreeInv

LEMMA FreeFields ==
    ASSUME NEW t, NEW d, d = [Free EXCEPT !.type = t]
    PROVE  d.type = t /\ d.nlink = 0 /\ d.ents = Free.ents /\ \A m \in Elems : d.ents[m] = 0
BY DEF Free, Elems

LEMMA FreeIs == Free.type = "none" /\ Free.nlink = 0 /\ \A m \in Elems : Free.ents[m] = 0
BY DEF Free, Elems

LEMMA AllocsTree ==
    ASSUME TypesOK, TypesOK', TreeInv, FreeUnused, NEW p \in Proc, MovesOnly(p), Allocs(p)
    PROVE  TreeInv'
<1>0. PICK i \in Inum : i = other'[p]
  BY DEF Allocs
<1>1. /\ dinode[i] = Free /\ Others({i}) /\ dinode'[i] = [Free EXCEPT !.type = dinode'[i].type]
      /\ NoPending(p) /\ LinksCounted /\ DirsOnly /\ TreeShape /\ Ranked
  BY <1>0 DEF Allocs, FreeUnused, TreeInv
<1>2. /\ dinode'[i].nlink = 0 /\ dinode'[i].ents = dinode[i].ents /\ dinode[i].nlink = 0 /\ ~IsDir(i)
      /\ \A m \in Elems : dinode[i].ents[m] = 0
  <2> DEFINE d == dinode'[i]
             u == dinode'[i].type
  <2>1. d = [Free EXCEPT !.type = u]
    BY <1>1
  <2>2. dinode'[i].nlink = 0 /\ dinode'[i].ents = Free.ents
    <3> HIDE DEF d, u
    <3>1. d.nlink = 0 /\ d.ents = Free.ents
      BY <2>1, FreeFields
    <3> QED BY <3>1 DEF d
  <2> QED BY <1>1, <2>2, FreeIs DEF IsDir
<1>3. \A x \in Inum : dinode'[x].ents = dinode[x].ents /\ dinode'[x].nlink = dinode[x].nlink
  BY <1>1, <1>2 DEF Others
<1>4. \A x \in Inum : x # i => dinode'[x].type = dinode[x].type
  BY <1>1 DEF Others
<1>5. \A y \in Inum, m \in Name : dinode[y].ents[m] # i
  <2>1. Entries(i) = {}
    BY <1>1, <1>2, Unlinked
  <2> QED BY <2>1, EntryIs
<1>6. DirsOnly'
  <2>1. IsDir(ROOTINO)' /\ dinode'[ROOTINO].ents[".."] = ROOTINO
    BY <1>1, <1>2, <1>3, <1>4, FsAssumption DEF DirsOnly, IsDir
  <2>2. ASSUME NEW x \in Inum, dinode'[x].type # "dir", NEW m \in Elems PROVE dinode'[x].ents[m] = 0
    BY <1>1, <1>2, <1>3, <1>4, <2>2 DEF DirsOnly, IsDir
  <2> QED BY <2>1, <2>2 DEF DirsOnly, IsDir
<1>7. \A x \in Inum, y \in Inum, m \in Name :
        IsDir(x)' /\ dinode'[y].ents[m] = x => IsDir(x) /\ dinode[y].ents[m] = x
  BY <1>3, <1>4, <1>5 DEF IsDir
<1>8. TreeShape'
  <2>1. SUFFICES ASSUME NEW x \in Inum, NEW y \in Inum, NEW m \in Name, IsDir(x)', dinode'[y].ents[m] = x
                 PROVE  /\ dinode'[x].ents[".."] = y
                        /\ \A k \in Inum, l \in Name : dinode'[k].ents[l] = x => k = y /\ l = m
    BY DEF TreeShape
  <2>2. IsDir(x) /\ dinode[y].ents[m] = x
    BY <1>7, <2>1
  <2> QED BY <1>1, <1>3, <2>2 DEF TreeShape
<1>9. Ranked'
  <2>1. PICK r \in [Inum -> Nat] : Falls(r)
    BY <1>1 DEF Ranked
  <2>2. Falls(r)'
    BY <1>7, <2>1 DEF Falls
  <2> QED BY <2>2 DEF Ranked
<1>10. ASSUME NEW x \in Inum PROVE Links(x)' + Cardinality(Pending(x)') <= dinode'[x].nlink
  <2>1. ASSUME NEW y PROVE Entries(y)' = Entries(y)
    BY <1>3 DEF Entries
  <2>2. Backs(x)' \subseteq Backs(x)
    BY <1>3, <2>1 DEF Backs
  <2>3. Pending(x)' \subseteq Pending(x)
    BY <1>1, PendingMoves DEF NoPending
  <2>4. dinode'[x].nlink >= dinode[x].nlink
    BY <1>3 DEF TypesOK, Inode
  <2> QED BY <1>1, <2>1, <2>2, <2>3, <2>4, CountedStill
<1>11. LinksCounted'
  BY <1>10 DEF LinksCounted
<1> QED BY <1>6, <1>8, <1>9, <1>11 DEF TreeInv

LEMMA FillsTree ==
    ASSUME TypesOK, TypesOK', TreeInv, NEW p \in Proc, MovesOnly(p), FillsFresh(p), Sees(p), Fills(p)
    PROVE  TreeInv'
<1>0. PICK dp \in Inum, i \in Inum : dp = ip[p] /\ i = other[p]
  BY DEF Fills, Entered
<1> DEFINE n == Elem(p)
<1>1. /\ Entered(dp, n, i) /\ Others({dp, i}) /\ dp # i
      /\ dinode'[dp].nlink = dinode[dp].nlink + Mark(IsDir(i))
      /\ SameType(i) /\ dinode'[i].nlink = 1
      /\ \A m \in Elems : dinode'[i].ents[m] =
           IF m = ".." THEN (IF IsDir(i) THEN dp ELSE 0) ELSE dinode[i].ents[m]
      /\ dinode[dp].ents[n] = 0 /\ NoPending(p)
      /\ LinksCounted /\ DirsOnly /\ TreeShape /\ Ranked
  BY <1>0 DEF Fills, Sees, TreeInv
<1>2. n \in Name /\ IsDir(dp)
  BY <1>1 DEF Entered
<1>3. dinode[i].nlink = 0 /\ \A m \in Elems : dinode[i].ents[m] = 0
  <2> DEFINE d == dinode[i]
             u == dinode[i].type
  <2>1. d = [Free EXCEPT !.type = u]
    BY <1>0 DEF Fills, FillsFresh
  <2> HIDE DEF d, u
  <2>2. d.nlink = 0 /\ \A m \in Elems : d.ents[m] = 0
    BY <2>1, FreeFields, Zenon
  <2> QED BY <2>2 DEF d
<1>4. i # ROOTINO
  BY <1>1, <1>3, FsAssumption DEF DirsOnly, Elems
<1>5. \A y \in Inum, m \in Name : dinode[y].ents[m] # i
  <2>1. Entries(i) = {}
    BY <1>1, <1>3, Unlinked
  <2> QED BY <2>1, EntryIs
<1>6. \A x \in Inum, m \in Name :
        dinode'[x].ents[m] = IF x = dp /\ m = n THEN i ELSE dinode[x].ents[m]
  BY <1>1, FsAssumption DEF Entered, Others, Elems
<1>7. /\ \A x \in Inum : x # i => dinode'[x].ents[".."] = dinode[x].ents[".."]
      /\ dinode'[i].ents[".."] = IF IsDir(i) THEN dp ELSE 0
  BY <1>1, EnteredDots DEF Others, Elems
<1>8. \A x \in Inum : dinode'[x].type = dinode[x].type
  BY <1>1 DEF Entered, Others, SameType
<1> HIDE DEF n
<1>9. DirsOnly'
  <2>1. IsDir(ROOTINO)' /\ dinode'[ROOTINO].ents[".."] = ROOTINO
    BY <1>1, <1>4, <1>7, <1>8, FsAssumption DEF DirsOnly, IsDir
  <2>2. ASSUME NEW x \in Inum, dinode'[x].type # "dir", NEW m \in Elems PROVE dinode'[x].ents[m] = 0
    <3>1. ~IsDir(x) /\ x # dp
      BY <1>2, <1>8, <2>2 DEF IsDir
    <3>2. CASE m = ".."
      BY <1>1, <1>7, <3>1, <3>2 DEF DirsOnly
    <3>3. CASE m \in Name
      BY <1>1, <1>6, <3>1, <3>3 DEF DirsOnly
    <3> QED BY <3>2, <3>3 DEF Elems
  <2> QED BY <2>1, <2>2 DEF DirsOnly, IsDir
<1>10. TreeShape'
  <2>1. SUFFICES ASSUME NEW x \in Inum, NEW y \in Inum, NEW m \in Name, IsDir(x)', dinode'[y].ents[m] = x
                 PROVE  /\ dinode'[x].ents[".."] = y
                        /\ \A k \in Inum, l \in Name : dinode'[k].ents[l] = x => k = y /\ l = m
    BY DEF TreeShape
  <2>2. IsDir(x)
    BY <1>8, <2>1 DEF IsDir
  <2>3. CASE x = i
    BY <1>5, <1>6, <1>7, <2>1, <2>2, <2>3
  <2>4. CASE x # i
    <3>1. dinode[y].ents[m] = x /\ \A k \in Inum, l \in Name : dinode'[k].ents[l] = x => dinode[k].ents[l] = x
      BY <1>6, <2>1, <2>4
    <3> QED BY <1>1, <1>7, <2>2, <2>4, <3>1 DEF TreeShape
  <2> QED BY <2>3, <2>4
<1>11. Ranked'
  <2>1. PICK r \in [Inum -> Nat] : Falls(r)
    BY <1>1 DEF Ranked
  <2> DEFINE s == [x \in Inum |-> IF x = i THEN 0 ELSE r[x] + 1]
  <2>2. s \in [Inum -> Nat] /\ \A x \in Inum : s[x] = IF x = i THEN 0 ELSE r[x] + 1
    OBVIOUS
  <2> HIDE DEF s
  <2>3. ASSUME NEW y \in Inum, NEW m \in Name, NEW x \in Inum, dinode'[y].ents[m] = x, IsDir(x)'
        PROVE  s[x] < s[y]
    <3>1. IsDir(x) /\ r[x] \in Nat /\ r[y] \in Nat
      BY <1>8, <2>3 DEF IsDir
    <3>2. CASE y = dp /\ m = n
      BY <1>1, <1>6, <2>2, <2>3, <3>1, <3>2
    <3>3. CASE ~(y = dp /\ m = n)
      <4>1. dinode[y].ents[m] = x /\ x # i
        BY <1>5, <1>6, <2>3, <3>3
      <4>2. y # i
        BY <1>3, <4>1, FsAssumption DEF Elems
      <4>3. r[x] < r[y]
        BY <2>1, <3>1, <4>1 DEF Falls
      <4> QED BY <2>2, <3>1, <4>1, <4>2, <4>3
    <3> QED BY <3>2, <3>3
  <2>4. Falls(s)'
    <3>1. \A y \in Inum, m \in Name, x \in Inum : dinode'[y].ents[m] = x /\ dinode'[x].type = "dir" => s[x] < s[y]
      BY <2>3 DEF IsDir
    <3> QED BY <3>1 DEF Falls, IsDir, s
  <2>5. \E q \in [Inum -> Nat] : Falls(q)'
    BY <2>2, <2>4 DEF s
  <2> QED BY <2>5 DEF Ranked
<1>12. ASSUME NEW x \in Inum PROVE Links(x)' + Cardinality(Pending(x)') <= dinode'[x].nlink
  <2>1. ASSUME NEW y \in Inum
        PROVE  /\ Entries(y)' \subseteq Entries(y) \cup {<<dp, n>>}
               /\ y # i => Entries(y)' \subseteq Entries(y)
    <3>1. \A z \in Inum, m \in Name : dinode'[z].ents[m] = y =>
            \/ z = dp /\ m = n /\ y = i
            \/ <<z, m>> \in Entries(y)
      BY <1>6, EntryIs
    <3>2. \A z \in Inum, m \in Name : dinode'[z].ents[m] = y => <<z, m>> \in Entries(y) \cup {<<dp, n>>}
      BY <3>1
    <3>3. y # i => \A z \in Inum, m \in Name : dinode'[z].ents[m] = y => <<z, m>> \in Entries(y)
      BY <3>1
    <3> QED BY <3>2, <3>3, EntriesWithin
  <2>2. /\ Backs(x)' \subseteq Backs(x) \cup {i}
        /\ ~(x = dp /\ IsDir(i)) => Backs(x)' \subseteq Backs(x)
    <3>1. ASSUME NEW y \in Inum, dinode'[y].ents[".."] = x, y = ROOTINO \/ Entries(y)' # {}, y # i
          PROVE  dinode[y].ents[".."] = x /\ (y = ROOTINO \/ Entries(y) # {})
      BY <1>7, <2>1, <3>1
    <3>2. ASSUME dinode'[i].ents[".."] = x PROVE x = dp /\ IsDir(i)
      BY <1>7, <3>2, FsAssumption
    <3> QED BY <3>1, <3>2 DEF Backs
  <2>3. Pending(x)' \subseteq Pending(x)
    BY <1>1, PendingMoves DEF NoPending
  <2>4. dinode[x].nlink \in Int
    BY DEF TypesOK, Inode
  <2>5. Cardinality(Pending(x)') <= Cardinality(Pending(x)) + 0
    BY <2>3, LinkSets, FiniteBases, Kept
  <2>6. CASE x # i /\ ~(x = dp /\ IsDir(i))
    <3>1. dinode'[x].nlink >= dinode[x].nlink
      BY <1>1, <2>4, <2>6 DEF Others, Mark
    <3> QED BY <1>1, <2>1, <2>2, <2>3, <2>6, <3>1, CountedStill
  <2>7. CASE x = dp /\ IsDir(i)
    <3>1. Cardinality(Entries(x)') <= Cardinality(Entries(x)) + 0
      BY <1>1, <2>1, <2>7, LinkSets, FiniteBases, Kept
    <3>2. Cardinality(Backs(x)') <= Cardinality(Backs(x)) + 1
      BY <2>2, LinkSets, FiniteBases, Cards
    <3>3. dinode'[x].nlink >= dinode[x].nlink + (0 + 1 + 0)
      BY <1>1, <2>4, <2>7 DEF Mark
    <3> QED BY <1>1, <2>5, <3>1, <3>2, <3>3, CountedBy
  <2>8. CASE x = i
    <3>1. Cardinality(Entries(x)') <= Cardinality(Entries(x)) + 1
      BY <2>1, LinkSets, FiniteBases, Cards
    <3>2. Cardinality(Backs(x)') <= Cardinality(Backs(x)) + 0
      BY <1>1, <2>2, <2>8, LinkSets, FiniteBases, Kept
    <3>3. dinode'[x].nlink >= dinode[x].nlink + (1 + 0 + 0)
      BY <1>1, <1>3, <2>8
    <3> QED BY <1>1, <2>5, <3>1, <3>2, <3>3, CountedBy
  <2> QED BY <2>6, <2>7, <2>8
<1>13. LinksCounted'
  BY <1>12 DEF LinksCounted
<1> QED BY <1>9, <1>10, <1>11, <1>13 DEF TreeInv

LEMMA DropsTree ==
    ASSUME TypesOK, TypesOK', TreeInv, NEW p \in Proc, Drops(p) PROVE TreeInv'
<1>0. PICK i \in Inum : i = puts[p][1]
  BY DEF Drops
<1>1. /\ dinode[i].nlink = 0 /\ Others({i}) /\ dinode'[i] = Free /\ UNCHANGED <<call, other>>
      /\ LinksCounted /\ DirsOnly /\ TreeShape /\ Ranked
  BY <1>0 DEF Drops, TreeInv, locals
<1>2. i # ROOTINO
  <2>1. ROOTINO \in Backs(ROOTINO)
    BY <1>1, FsAssumption DEF Backs, DirsOnly
  <2>2. Backs(i) = {}
    BY <1>1, Unlinked
  <2> QED BY <2>1, <2>2
<1>3. /\ \A m \in Elems : dinode'[i].ents[m] = 0
      /\ dinode'[i].type # "dir" /\ dinode'[i].nlink = 0
      /\ \A x \in Inum : x # i => dinode'[x] = dinode[x]
  BY <1>1, FreeIs DEF Others
<1>4. \A x \in Inum, y \in Inum, m \in Elems : dinode'[y].ents[m] = x => dinode[y].ents[m] = x
  BY <1>3, FsAssumption
<1>5. \A x \in Inum : IsDir(x)' => IsDir(x) /\ x # i /\ dinode'[x] = dinode[x]
  BY <1>3 DEF IsDir
<1>6. DirsOnly'
  <2>1. IsDir(ROOTINO)' /\ dinode'[ROOTINO].ents[".."] = ROOTINO
    BY <1>1, <1>2, <1>3, FsAssumption DEF DirsOnly, IsDir
  <2>2. ASSUME NEW x \in Inum, dinode'[x].type # "dir", NEW m \in Elems PROVE dinode'[x].ents[m] = 0
    BY <1>1, <1>3, <2>2 DEF DirsOnly, IsDir
  <2> QED BY <2>1, <2>2 DEF DirsOnly, IsDir
<1>7. TreeShape'
  <2>1. SUFFICES ASSUME NEW x \in Inum, NEW y \in Inum, NEW m \in Name, IsDir(x)', dinode'[y].ents[m] = x
                 PROVE  /\ dinode'[x].ents[".."] = y
                        /\ \A k \in Inum, l \in Name : dinode'[k].ents[l] = x => k = y /\ l = m
    BY DEF TreeShape
  <2>2. IsDir(x) /\ dinode'[x] = dinode[x] /\ dinode[y].ents[m] = x
    BY <1>4, <1>5, <2>1 DEF Elems
  <2>3. \A k \in Inum, l \in Name : dinode'[k].ents[l] = x => dinode[k].ents[l] = x
    BY <1>4 DEF Elems
  <2> QED BY <1>1, <2>2, <2>3 DEF TreeShape
<1>8. Ranked'
  <2>1. PICK r \in [Inum -> Nat] : Falls(r)
    BY <1>1 DEF Ranked
  <2>2. Falls(r)'
    BY <1>4, <1>5, <2>1 DEF Falls, Elems
  <2> QED BY <2>2 DEF Ranked
<1>9. ASSUME NEW x \in Inum PROVE Links(x)' + Cardinality(Pending(x)') <= dinode'[x].nlink
  <2>1. ASSUME NEW y \in Inum PROVE Entries(y)' \subseteq Entries(y)
    <3>1. \A z \in Inum, m \in Name : dinode'[z].ents[m] = y => <<z, m>> \in Entries(y)
      BY <1>4, EntryIs DEF Elems
    <3> QED BY <3>1, EntriesWithin
  <2>2. Backs(x)' \subseteq Backs(x)
    BY <1>4, <2>1 DEF Backs, Elems
  <2>3. Pending(x)' \subseteq Pending(x)
    BY <1>1 DEF Pending
  <2>4. dinode'[x].nlink >= dinode[x].nlink
    <3>1. dinode[x].nlink \in Int
      BY DEF TypesOK, Inode
    <3>2. CASE x = i
      BY <1>1, <1>3, <3>2
    <3>3. CASE x # i
      BY <1>3, <3>1, <3>3
    <3> QED BY <3>2, <3>3
  <2> QED BY <1>1, <2>1, <2>2, <2>3, <2>4, CountedStill
<1>10. LinksCounted'
  BY <1>9 DEF LinksCounted
<1> QED BY <1>6, <1>7, <1>8, <1>10 DEF TreeInv

LEMMA StepTree ==
    ASSUME TypesOK, TypesOK', LinkInv, NEW p \in Proc, MovesOnly(p), DiskSteps(p) PROVE TreeInv'
<1>1. TreeInv /\ FreeUnused /\ FillsFresh(p) /\ Sees(p)
  BY DEF LinkInv, FreshInv, CallInv
<1> QED BY <1>1, QuietTree, CountsTree, UncountsTree, EntersTree, RemovesTree, AllocsTree, FillsTree,
        DropsTree DEF DiskSteps

-----------------------------------------------------------------------------
\* Free inodes and new ones.

\* Where a reference comes from: the root, the current directory, an entry or ialloc().
LEMMA Takes ==
    ASSUME PlaceInv, LockInv, NEW p \in Proc, Names(p), Sees(p), Step(p), NEW x \in Inum, ref'[x] > ref[x]
    PROVE  \/ x = ROOTINO \/ cwd[p] = x \/ Entries(x) # {}
           \/ Allocs(p) /\ x = other'[p]
<1>0. TypesOK /\ Stands(p)
  BY DEF PlaceInv
<1>1. TypesOK /\ TreeTypes /\ Stands(p) /\ ref[x] \in Int /\ ref' # ref
  <2>1. TreeTypes
    BY <1>0, Typed
  <2>2. ref[x] \in Int
    BY <1>0 DEF TypesOK
  <2>3. ref' # ref
    BY <2>2
  <2> QED BY <1>0, <2>1, <2>2, <2>3
<1>2. \A y \in Inum : Hold(y) => x = y
  BY <1>1 DEF Hold, TreeTypes
<1>3. ASSUME NEW n \in Name, ip[p] \in Inum, lock[ip[p]] = NULL, Look(ip[p]).ents[n] \in Inum,
             Hold(Look(ip[p]).ents[n])
      PROVE  Entries(x) # {}
  <2>1. dinode[ip[p]].ents[n] = x
    BY <1>2, <1>3, Unlocked
  <2> QED BY <1>3, <2>1, EntryIs
<1>4. CASE SysCall(p)
  <2>1. \E start \in {ROOTINO, cwd[p]} : Hold(start)
    BY <1>4 DEF SysCall, Begin
  <2> QED BY <1>1, <1>2, <2>1, FsAssumption DEF TypesOK
<1>5. CASE \E start \in {ROOTINO, cwd[p]} : LinkOld(p, start)
  <2>1. \E start \in {ROOTINO, cwd[p]} : Hold(start)
    BY <1>1, <1>5 DEF LinkOld
  <2> QED BY <1>1, <1>2, <2>1, FsAssumption DEF TypesOK
<1>6. CASE Walk(p)
  <2> DEFINE i == ip[p]
             n == Elem(p)
  <2>1. /\ i \in Inum /\ lock[i] = NULL /\ pc[p] = "walk" /\ pos[p] \in 1..Len(path[p])
    BY <1>6, AtType DEF Walk, At, Inside, Stands
  <2>2. Hold(Look(i).ents[n]) /\ Look(i).ents[n] # 0 /\ ~(IsLast(p) /\ WantsParent(p))
    BY <1>1, <1>6 DEF Walk
  <2>3. n \in Name
    <3>1. call[p] = "unlink" => pos[p] # Len(path[p])
      BY <2>2 DEF IsLast, WantsParent
    <3> QED BY <2>1, <3>1 DEF Names, NamesOf, Elem
  <2>4. Look(i).ents[n] \in Inum
    BY <1>1, <2>1, <2>2, <2>3, EntType DEF Elems
  <2> QED BY <1>3, <2>1, <2>2, <2>3, <2>4
<1>7. CASE UnlinkParent(p)
  <2> DEFINE i == ip[p]
             n == Elem(p)
  <2>1. /\ i \in Inum /\ lock[i] = NULL /\ pc[p] = "parent" /\ pos[p] \in 1..Len(path[p])
    BY <1>7, AtType DEF UnlinkParent, At, Inside, Stands
  <2>2. Hold(Look(i).ents[n]) /\ Look(i).ents[n] # 0 /\ n # ".."
    BY <1>1, <1>7 DEF UnlinkParent
  <2>3. n \in Name
    BY <1>1, <2>1, <2>2, ElemType DEF Elems
  <2>4. Look(i).ents[n] \in Inum
    BY <1>1, <2>1, <2>2, <2>3, EntType DEF Elems
  <2> QED BY <1>3, <2>1, <2>2, <2>3, <2>4
<1>8. CASE CreateLookup(p)
  <2> DEFINE i == ip[p]
             n == Elem(p)
  <2>1. /\ i \in Inum /\ lock[i] = NULL /\ pc[p] = "parent" /\ pos[p] \in 1..Len(path[p])
        /\ call[p] # "unlink"
    BY <1>8, AtType DEF CreateLookup, At, Inside, Stands
  <2>2. n \in Name
    BY <1>1, <2>1, ElemName
  <2>3. CASE Look(i).ents[n] # 0
    <3>1. Hold(Look(i).ents[n])
      BY <1>8, <2>3 DEF CreateLookup
    <3>2. Look(i).ents[n] \in Inum
      BY <1>1, <2>1, <2>2, <2>3, EntType DEF Elems
    <3> QED BY <1>3, <2>1, <2>2, <3>1, <3>2
  <2>4. CASE Look(i).ents[n] = 0
    <3>1. Quiet(p) \/ Allocs(p)
      BY <1>8, CreateLookupDisk
    <3>2. pc'[p] = "fill"
      BY <1>1, <1>8, <2>4 DEF CreateLookup, TypesOK
    <3>3. Allocs(p)
      BY <3>1, <3>2 DEF Quiet
    <3> QED BY <1>1, <3>3 DEF Allocs, Mark
  <2> QED BY <2>3, <2>4
<1>9. CASE Iput(p) \/ IputFree(p) \/ IputDone(p)
  <2>1. Putting(p)
    BY <1>9 DEF Iput, IputFree, IputDone
  <2>2. PICK i \in Inum : i = Head(puts[p])
    BY <1>1, <2>1, HeadOf DEF Stands
  <2>3. ref' = ref \/ ref' = [ref EXCEPT ![i] = ref[i] - 1]
    BY <1>9, <2>2 DEF Iput, IputFree, IputDone
  <2>4. ref \in [Inum -> Int] /\ ref[i] \in Int
    BY <1>1 DEF TypesOK
  <2>5. ref'[x] \in {ref[x], ref[x] - 1}
    BY <2>3, <2>4
  <2> QED BY <1>1, <2>5
<1>10. CASE \/ Open(p) \/ Chdir(p) \/ Close(p) \/ LinkNew(p) \/ LinkUndo(p) \/ UnlinkChild(p)
            \/ CreateExists(p) \/ CreateFill(p)
  BY <1>1, <1>10 DEF Open, Chdir, Close, LinkNew, LinkUndo, UnlinkChild, CreateExists, CreateFill, table
<1> QED BY <1>4, <1>5, <1>6, <1>7, <1>8, <1>9, <1>10 DEF Step

\* What only others than p may have at hand is left alone on the disk.
LEMMA OffStays ==
    ASSUME TypesOK, NEW p \in Proc, DiskSteps(p), NEW x \in Inum, ip[p] # x, other[p] # x
    PROVE  \/ dinode'[x] = dinode[x]
           \/ Allocs(p) /\ other'[p] = x
           \/ Drops(p) /\ puts[p][1] = x
<1>1. \A i \in Inum : Others({i}) /\ i # x => dinode'[x] = dinode[x]
  BY DEF Others
<1>2. \A i \in Inum, j \in Inum : Others({i, j}) /\ i # x /\ j # x => dinode'[x] = dinode[x]
  BY DEF Others
<1>3. CASE Quiet(p)
  BY <1>3 DEF Quiet
<1>4. CASE Counts(p)
  BY <1>1, <1>4 DEF Counts, Recounted
<1>5. CASE Uncounts(p)
  BY <1>1, <1>5 DEF Uncounts, Recounted
<1>6. CASE Enters(p)
  BY <1>1, <1>6 DEF Enters, Entered
<1>7. CASE Removes(p)
  BY <1>2, <1>7 DEF Removes, Entered
<1>8. CASE Allocs(p)
  BY <1>1, <1>8 DEF Allocs
<1>9. CASE Fills(p)
  BY <1>2, <1>9 DEF Fills, Entered
<1>10. CASE Drops(p)
  BY <1>1, <1>10 DEF Drops
<1> QED BY <1>3, <1>4, <1>5, <1>6, <1>7, <1>8, <1>9, <1>10 DEF DiskSteps

\* Only iput() changes the type of an inode that has one.
LEMMA TypeStays ==
    ASSUME TypesOK, NEW p \in Proc, DiskSteps(p), NEW x \in Inum, dinode[x].type # "none"
    PROVE  dinode'[x].type = dinode[x].type \/ (Drops(p) /\ puts[p][1] = x)
<1>1. CASE Quiet(p)
  BY <1>1 DEF Quiet
<1>2. CASE Counts(p) \/ Uncounts(p)
  BY <1>2 DEF Counts, Uncounts, Recounted, SameType, Others
<1>3. CASE Enters(p)
  BY <1>3 DEF Enters, Entered, SameType, Others
<1>4. CASE Removes(p)
  BY <1>4 DEF Removes, Entered, SameType, Others
<1>5. CASE Allocs(p)
  BY <1>5 DEF Allocs, Others
<1>6. CASE Fills(p)
  BY <1>6 DEF Fills, Entered, SameType, Others
<1>7. CASE Drops(p)
  BY <1>7 DEF Drops, Others
<1> QED BY <1>1, <1>2, <1>3, <1>4, <1>5, <1>6, <1>7 DEF DiskSteps

\* An inode without links and off p's hands gets no reference from p.
LEMMA NotTaken ==
    ASSUME PlaceInv, LockInv, TreeInv, NEW p \in Proc, Names(p), Sees(p), Step(p), NEW x \in Inum,
           dinode[x].nlink <= 0, dinode[x].ents[".."] = 0, Gone(p, x),
           ~(Allocs(p) /\ other'[p] = x)
    PROVE  ref'[x] <= ref[x]
<1>1. TypesOK /\ TypesOK' /\ LinksCounted /\ DirsOnly
  BY StepPlaces DEF PlaceInv, Places, TreeInv
<1>2. Entries(x) = {} /\ cwd[p] # x
  BY <1>1, Unlinked, GoneOff
<1>3. x # ROOTINO
  BY <1>1, FsAssumption DEF DirsOnly
<1>4. ~(ref'[x] > ref[x])
  BY <1>2, <1>3, Takes
<1> QED BY <1>1, <1>4 DEF TypesOK

\* The last reference is the one of whoever frees the inode.
LEMMA LastHolder ==
    ASSUME PlaceInv, RefInv, NEW p \in Proc, Drops(p), NEW i \in Inum, i = puts[p][1]
    PROVE  /\ Own(p, i) = 1
           /\ \A q \in Proc : q # p => Own(q, i) = 0
           /\ \A q \in Proc : Own(q, i)' = Own(q, i)
           /\ Freeing(p, i)'
<1>2. TypesOK /\ RefCountsPointers /\ ref[i] = 1 /\ puts[p] # <<>>
      /\ lock'[i] = p /\ UNCHANGED <<cwd, file, ip, other, puts>>
  BY DEF Drops, PlaceInv, RefInv, locals
<1>3. Own(p, i) = 1
  <2>1. Own(p, i) >= 1 /\ Own(p, i) <= 1 /\ Own(p, i) \in Nat
    BY <1>2, OwnOf, OwnCounted, OwnType
  <2> QED BY <2>1
<1>4. ASSUME NEW q \in Proc, q # p PROVE Own(q, i) = 0
  <2>1. Own(p, i) + Own(q, i) <= 1 /\ Own(q, i) \in Nat
    BY <1>2, <1>4, TwoPoint, OwnType
  <2> QED BY <1>3, <2>1
<1>5. \A q \in Proc : Own(q, i)' = Own(q, i)
  BY <1>2 DEF Own, Occ, Mark
<1>6. Freeing(p, i)'
  BY <1>2 DEF Freeing
<1> QED BY <1>3, <1>4, <1>5, <1>6

LEMMA FreeUnusedStep ==
    ASSUME PlaceInv, RefInv, LinkInv, NEW p \in Proc, Step(p) PROVE FreeUnused'
<1>1. /\ TypesOK /\ TypesOK' /\ LockInv /\ TreeInv /\ Names(p) /\ Sees(p) /\ FreeUnused
      /\ LinksCounted
  BY StepPlaces DEF PlaceInv, Places, RefInv, LinkInv, CallInv, FreshInv, TreeInv
<1>2. DiskSteps(p)
  BY <1>1, StepDisk
<1>3. ASSUME NEW x \in Inum, dinode'[x].type = "none"
      PROVE  dinode'[x] = Free /\ \A q \in Proc : Gone(q, x)'
  <2>1. CASE dinode[x].type = "none"
    <3>1. dinode[x] = Free /\ \A q \in Proc : Gone(q, x)
      BY <1>1, <2>1 DEF FreeUnused
    <3>2. dinode[x].nlink <= 0 /\ dinode[x].ents[".."] = 0
      BY <3>1, FreeIs DEF Elems
    <3>3. ip[p] # x /\ other[p] # x
      BY <1>1, <3>1, GoneOff
    <3>4. ~(Allocs(p) /\ other'[p] = x)
      BY <1>3 DEF Allocs
    <3>5. dinode'[x] = Free
      <4>1. dinode'[x] = dinode[x] \/ (Drops(p) /\ puts[p][1] = x)
        BY <1>1, <1>2, <3>3, <3>4, OffStays
      <4> QED BY <3>1, <4>1 DEF Drops
    <3>6. ref'[x] <= ref[x]
      BY <1>1, <3>1, <3>2, <3>4, NotTaken
    <3>7. \A q \in Proc : Gone(q, x)'
      BY <1>1, <3>1, <3>6, GoneStep
    <3> QED BY <3>5, <3>7
  <2>2. CASE dinode[x].type # "none"
    <3>1. Drops(p) /\ puts[p][1] = x
      BY <1>1, <1>2, <1>3, <2>2, TypeStays
    <3>2. \A q \in Proc : Gone(q, x)'
      <4>1. ASSUME NEW q \in Proc, q # p PROVE Gone(q, x)'
        BY <3>1, <4>1, LastHolder DEF Gone
      <4>2. Gone(p, x)'
        BY <3>1, LastHolder DEF Gone
      <4> QED BY <4>1, <4>2
    <3> QED BY <3>1, <3>2 DEF Drops
  <2> QED BY <2>1, <2>2
<1> QED BY <1>3 DEF FreeUnused

LEMMA FillsFreshStep ==
    ASSUME PlaceInv, RefInv, LinkInv, NEW p \in Proc, Step(p), NEW q \in Proc PROVE FillsFresh(q)'
<1>1. /\ TypesOK /\ TypesOK' /\ LockInv /\ TreeInv /\ Names(p) /\ Sees(p) /\ FreeUnused
      /\ LinksCounted /\ RefCountsPointers /\ MovesOnly(p) /\ RefMoves(p) /\ FillsFresh(q)
  BY StepPlaces, StepRef DEF PlaceInv, Places, RefInv, LinkInv, CallInv, FreshInv, TreeInv
<1>2. DiskSteps(p)
  BY <1>1, StepDisk
<1> SUFFICES ASSUME pc'[q] = "fill" PROVE FillsFresh(q)'
  BY DEF FillsFresh
<1>3. CASE q # p
  <2>1. Same(q) /\ pc[q] = "fill"
    BY <1>1, <1>3 DEF MovesOnly, Same
  <2>2. PICK i \in Inum : i = other[q]
    BY <2>1, AtType DEF Holding
  <2>3. /\ dinode[i].type # "none" /\ dinode[i] = [Free EXCEPT !.type = dinode[i].type]
        /\ Own(q, i) = 1 /\ \A r \in Proc : r # q => Gone(r, i)
    BY <1>1, <2>1, <2>2 DEF FillsFresh
  <2>4. dinode[i].nlink <= 0 /\ dinode[i].ents[".."] = 0
    BY <2>3, FreeFields DEF Elems
  <2>5. Gone(p, i) /\ ip[p] # i /\ other[p] # i
    BY <1>1, <1>3, <2>3, GoneOff
  <2>6. ~(Allocs(p) /\ other'[p] = i)
    BY <2>3 DEF Allocs
  <2>7. ~(Drops(p) /\ puts[p][1] = i)
    BY <1>3, <2>3, LastHolder
  <2>8. dinode'[i] = dinode[i]
    BY <1>1, <1>2, <2>5, <2>6, <2>7, OffStays
  <2>9. ref'[i] <= ref[i]
    BY <1>1, <2>4, <2>5, <2>6, NotTaken
  <2>10. \A r \in Proc : r # q => Gone(r, i)'
    BY <1>1, <2>3, <2>9, GoneStep
  <2>11. Own(q, i)' = 1
    BY <2>1, <2>3 DEF Same, Own, Occ, Mark
  <2>12. other'[q] = i
    BY <2>1, <2>2 DEF Same
  <2> QED BY <2>3, <2>8, <2>10, <2>11, <2>12 DEF FillsFresh
<1>4. CASE q = p
  <2>1. Allocs(p)
    <3>1. ~Drops(p)
      BY <1>4 DEF Drops, locals
    <3> QED BY <1>2, <1>4, <3>1 DEF DiskSteps, Quiet, Counts, Uncounts, Enters, Removes, Fills
  <2>2. PICK i \in Inum : i = other'[p]
    BY <2>1 DEF Allocs
  <2>3. /\ dinode[i].type = "none" /\ dinode'[i].type # "none" /\ puts[p] = <<>>
        /\ dinode'[i] = [Free EXCEPT !.type = dinode'[i].type]
        /\ ref'[i] = ref[i] + 1
    BY <2>1, <2>2 DEF Allocs, Mark
  <2>4. \A r \in Proc : Gone(r, i)
    BY <1>1, <2>3 DEF FreeUnused
  <2>5. Own(p, i) = 0
    BY <1>1, <2>3, <2>4, GoneOff
  <2>6. ref'[i] = ref[i] + Own(p, i)' - Own(p, i) /\ ref[i] \in Int
    BY <1>1 DEF RefMoves, TypesOK
  <2>7. Own(p, i)' \in Nat
    BY OccType DEF Own, Mark
  <2>8. Own(p, i)' = 1
    BY <2>3, <2>5, <2>6, <2>7
  <2>9. \A r \in Proc : r # p => Gone(r, i)'
    BY <1>1, <2>4, GoneOthers
  <2> QED BY <1>4, <2>2, <2>3, <2>8, <2>9 DEF FillsFresh
<1> QED BY <1>3, <1>4

LEMMA FreshStep == ASSUME PlaceInv, RefInv, LinkInv, NEW p \in Proc, Step(p) PROVE FreshInv'
BY FreeUnusedStep, FillsFreshStep DEF FreshInv

-----------------------------------------------------------------------------
\* What processes have looked up.

LEMMA PathNames ==
    ASSUME DotDot = FALSE, NEW s \in Paths PROVE \A k \in 1..Len(s) : s[k] \in Name
<1>1. s \in SeqOf(Name, PATHLEN)
  BY DEF Paths
<1> QED BY <1>1 DEF SeqOf

\* The end of a call, and a step that keeps what p looks up.
LEMMA EndNames == ASSUME TypesOK, NEW p \in Proc, NEW s, Finish(p, s) PROVE Names(p)'
<1>1. pc'[p] = "user" /\ call'[p] = NULL /\ path'[p] = <<>>
  BY DEF Finish, TypesOK
<1> QED BY <1>1, FsAssumption DEF Names, NamesOf, Holding

LEMMA OpenFileNames == ASSUME TypesOK, NEW p \in Proc, NEW i, NEW s, OpenFile(p, i, s) PROVE Names(p)'
BY EndNames DEF OpenFile

LEMMA SameNames ==
    ASSUME NEW p \in Proc, Names(p), call'[p] = call[p], path'[p] = path[p], new'[p] = new[p],
           pc'[p] \notin Holding
    PROVE  Names(p)'
BY DEF Names

LEMMA BeginNames ==
    ASSUME DotDot = FALSE, TypesOK, NEW p \in Proc, SysCall(p) PROVE Names(p)'
<1>1. ASSUME NEW c \in Calls, NEW s, s \in Paths \/ (c = "unlink" /\ s = <<"..">>),
             NEW t, c = "link" => t \in Paths, NEW start, Begin(p, c, s, t, start)
      PROVE  Names(p)'
  <2>1. call'[p] = c /\ path'[p] = s /\ new'[p] = t /\ pc'[p] \in {"found", "walk"}
    BY <1>1 DEF TypesOK, Begin
  <2>2. NamesOf(s, c)
    <3>1. CASE s \in Paths
      BY <3>1, PathNames DEF NamesOf
    <3>2. CASE c = "unlink" /\ s = <<"..">>
      <4>1. Len(s) = 1
        BY <3>2
      <4> QED BY <3>2, <4>1 DEF NamesOf
    <3> QED BY <1>1, <3>1, <3>2
  <2>3. c = "link" => NamesOf(t, "link2")
    BY <1>1, PathNames DEF NamesOf
  <2> QED BY <2>1, <2>2, <2>3 DEF Names, Holding
<1>2. CASE Begin(p, "chdir", <<>>, NULL, ROOTINO)
  <2>1. call'[p] = "chdir" /\ path'[p] = <<>> /\ new'[p] = NULL /\ pc'[p] \in {"found", "walk"}
    BY <1>2 DEF TypesOK, Begin
  <2> QED BY <2>1 DEF Names, NamesOf, Holding
<1>3. CASE \E c \in Calls, start \in {ROOTINO, cwd[p]} :
             \E s \in Paths \cup IF c = "unlink" THEN {<<"..">>} ELSE {},
                t \in IF c = "link" THEN Paths ELSE {NULL} : Begin(p, c, s, t, start)
  BY <1>1, <1>3
<1> QED BY <1>2, <1>3 DEF SysCall

LEMMA NamesStep ==
    ASSUME DotDot = FALSE, PlaceInv, LockInv, NEW p \in Proc, Names(p), Step(p) PROVE Names(p)'
<1>1. TypesOK /\ Stands(p)
  BY DEF PlaceInv
<1>2. CASE SysCall(p)
  BY <1>1, <1>2, BeginNames
<1>3. CASE Walk(p)
  <2>1. CASE \E i \in Inum : Undo(p, i)
    <3>1. call'[p] = call[p] /\ path'[p] = path[p] /\ new'[p] = new[p] /\ pc'[p] = "undo"
      BY <1>1, <2>1 DEF Undo, TypesOK
    <3> QED BY <3>1, SameNames DEF Holding
  <2>2. CASE \E s : Finish(p, s)
    BY <1>1, <2>2, EndNames
  <2>3. CASE /\ UNCHANGED <<call, path, new>>
             /\ \E s \in {"found", "walk", "parent"} : pc' = [pc EXCEPT ![p] = s]
    <3>1. pc'[p] \in {"found", "walk", "parent"}
      BY <1>1, <2>3 DEF TypesOK
    <3> QED BY <2>3, <3>1, SameNames DEF Holding
  <2>4. ip[p] \in Inum
    BY <1>3, AtType DEF Walk, At, Inside
  <2> QED BY <1>3, <2>1, <2>2, <2>3, <2>4 DEF Walk, Goto
<1>4. CASE Open(p) \/ Chdir(p) \/ LinkUndo(p) \/ UnlinkChild(p) \/ CreateExists(p) \/ CreateFill(p)
  BY <1>1, <1>4, EndNames, OpenFileNames
     DEF Open, Chdir, LinkUndo, UnlinkChild, CreateExists, CreateFill
<1>5. CASE Close(p) \/ Iput(p) \/ IputFree(p) \/ IputDone(p)
  BY <1>5 DEF Close, Iput, IputFree, IputDone, locals, Names, Elem
<1>6. ASSUME NEW start, LinkOld(p, start) PROVE Names(p)'
  <2>1. CASE \E s : Finish(p, s)
    BY <1>1, <2>1, EndNames
  <2>2. CASE /\ call' = [call EXCEPT ![p] = "link2"]
             /\ path' = [path EXCEPT ![p] = new[p]]
             /\ pc' = [pc EXCEPT ![p] = "walk"]
    <3>1. call'[p] = "link2" /\ path'[p] = new[p] /\ pc'[p] = "walk" /\ call[p] = "link"
      BY <1>1, <1>6, <2>2 DEF TypesOK, LinkOld
    <3> QED BY <3>1 DEF Names, Holding
  <2> QED BY <1>6, <2>1, <2>2 DEF LinkOld
<1>7. CASE LinkNew(p)
  <2>1. CASE \E i \in Inum : Undo(p, i)
    <3>1. call'[p] = call[p] /\ path'[p] = path[p] /\ new'[p] = new[p] /\ pc'[p] = "undo"
      BY <1>1, <2>1 DEF Undo, TypesOK
    <3> QED BY <3>1, SameNames DEF Holding
  <2>2. CASE \E s : Finish(p, s)
    BY <1>1, <2>2, EndNames
  <2>3. ip[p] \in Inum
    BY <1>7, AtType DEF LinkNew, At, Inside
  <2> QED BY <1>7, <2>1, <2>2, <2>3 DEF LinkNew
<1>8. CASE UnlinkParent(p)
  <2>1. CASE \E s : Finish(p, s)
    BY <1>1, <2>1, EndNames
  <2>2. CASE Elem(p) # ".." /\ UNCHANGED <<call, path, pos, new>>
    <3>1. pos[p] \in 1..Len(path[p]) /\ call[p] = "unlink"
      BY <1>1, <1>8 DEF UnlinkParent, At, Stands
    <3>2. Elem(p) \in Name
      BY <1>1, <2>2, <3>1, ElemType DEF Elems
    <3> QED BY <2>2, <3>2 DEF Names, Elem
  <2> QED BY <1>8, <2>1, <2>2 DEF UnlinkParent
<1>9. CASE CreateLookup(p)
  <2>1. CASE \E s : Finish(p, s)
    BY <1>1, <2>1, EndNames
  <2>2. CASE UNCHANGED <<call, path, pos, new>>
    <3>1. pos[p] \in 1..Len(path[p]) /\ call[p] # "unlink"
      BY <1>1, <1>9 DEF CreateLookup, At, Stands
    <3>2. Elem(p) \in Name
      BY <1>1, <3>1, ElemName
    <3> QED BY <2>2, <3>2 DEF Names, Elem
  <2>3. CASE UNCHANGED <<call, path, new>> /\ pc' = [pc EXCEPT ![p] = "exists"]
    <3>1. pc'[p] = "exists"
      BY <1>1, <2>3 DEF TypesOK
    <3> QED BY <2>3, <3>1, SameNames DEF Holding
  <2> QED BY <1>9, <2>1, <2>2, <2>3 DEF CreateLookup
<1> QED BY <1>2, <1>3, <1>4, <1>5, <1>6, <1>7, <1>8, <1>9 DEF Step

\* What q has locked, nobody else changes.
LEMMA LockedStays ==
    ASSUME TypesOK, NEW p \in Proc, DiskSteps(p), NEW x \in Inum, NEW q \in Proc, q # p, lock[x] = q,
           dinode[x].type # "none"
    PROVE  dinode'[x] = dinode[x]
<1>1. q # NULL
  BY FsAssumption
<1>2. CASE Quiet(p)
  BY <1>2 DEF Quiet
<1>3. CASE Counts(p) \/ Uncounts(p)
  BY <1>1, <1>3 DEF Counts, Uncounts, Recounted, Others
<1>4. CASE Enters(p)
  BY <1>1, <1>4 DEF Enters, Others
<1>5. CASE Removes(p)
  BY <1>1, <1>5 DEF Removes, Others
<1>6. CASE Allocs(p)
  BY <1>6 DEF Allocs, Others
<1>7. CASE Fills(p)
  BY <1>1, <1>7 DEF Fills, Others
<1>8. CASE Drops(p)
  BY <1>1, <1>8 DEF Drops, Others
<1> QED BY <1>2, <1>3, <1>4, <1>5, <1>6, <1>7, <1>8 DEF DiskSteps

\* An inode somebody else points to keeps its type.
LEMMA HeldStays ==
    ASSUME PlaceInv, RefInv, LinkInv, NEW p \in Proc, DiskSteps(p), NEW x \in Inum,
           NEW q \in Proc, q # p, ip[q] = x \/ other[q] = x
    PROVE  dinode'[x].type = dinode[x].type
<1>1. TypesOK /\ FreeUnused
  BY DEF PlaceInv, LinkInv, FreshInv
<1>2. dinode[x].type # "none"
  BY <1>1, GoneOff DEF FreeUnused
<1>3. ~(Drops(p) /\ puts[p][1] = x)
  <2> SUFFICES ASSUME Drops(p), puts[p][1] = x PROVE FALSE
    OBVIOUS
  <2>1. Own(q, x) = 0
    BY LastHolder
  <2>2. Own(q, x) >= 1
    BY <1>1, OwnOf
  <2> QED BY <2>1, <2>2
<1> QED BY <1>1, <1>2, <1>3, TypeStays

LEMMA SeesOthers ==
    ASSUME PlaceInv, RefInv, LinkInv, NEW p \in Proc, DiskSteps(p), MovesOnly(p),
           NEW q \in Proc, q # p, Sees(q)
    PROVE  Sees(q)'
<1>1. TypesOK /\ LockInv /\ Stands(q)
  BY DEF PlaceInv, RefInv
<1>2. Same(q)
  BY DEF MovesOnly
<1>3. ASSUME pc[q] \in {"parent", "child", "fill"} PROVE IsDir(ip[q])'
  <2>1. ip[q] \in Inum /\ IsDir(ip[q])
    BY <1>1, <1>3 DEF Stands, Inside, Sees
  <2>2. dinode'[ip[q]].type = dinode[ip[q]].type
    BY <2>1, HeldStays
  <2> QED BY <1>2, <2>1, <2>2 DEF IsDir, Same
<1>4. ASSUME call[q] = "link2" PROVE ~IsDir(other[q])'
  <2>1. other[q] \in Inum /\ ~IsDir(other[q])
    BY <1>1, <1>4 DEF Stands, Sees, TypesOK
  <2>2. dinode'[other[q]].type = dinode[other[q]].type
    BY <2>1, HeldStays
  <2> QED BY <1>2, <2>1, <2>2 DEF IsDir, Same
<1>5. ASSUME pc[q] \in Holding PROVE dinode'[ip[q]] = dinode[ip[q]]
  <2>1. ip[q] \in Inum /\ lock[ip[q]] = q /\ dinode[ip[q]].type # "none"
    BY <1>1, <1>5, Locked
  <2> QED BY <1>1, <2>1, LockedStays
<1>6. pc'[q] = "child" => dinode'[ip'[q]].ents[Elem(q)'] = other'[q]
  BY <1>2, <1>5 DEF Same, Sees, Holding, Elem
<1>7. pc'[q] = "fill" => dinode'[ip'[q]].ents[Elem(q)'] = 0
  BY <1>2, <1>5 DEF Same, Sees, Holding, Elem
<1>8. pc'[q] = pc[q] /\ call'[q] = call[q]
  BY <1>2 DEF Same
<1> QED BY <1>3, <1>4, <1>6, <1>7, <1>8 DEF Sees

LEMMA EndSees == ASSUME TypesOK, NEW p \in Proc, NEW s, Finish(p, s) PROVE Sees(p)'
<1>1. pc'[p] = "user" /\ call'[p] = NULL
  BY DEF Finish, TypesOK
<1> QED BY <1>1, FsAssumption DEF Sees

LEMMA OpenFileSees == ASSUME TypesOK, NEW p \in Proc, NEW i, NEW s, OpenFile(p, i, s) PROVE Sees(p)'
BY EndSees DEF OpenFile

\* p goes on where it sees nothing of a directory, with the inode it links, if any.
LEMMA GoesSees ==
    ASSUME NEW p \in Proc, Sees(p), pc'[p] \notin {"parent", "child", "fill"},
           call'[p] = call[p], other'[p] = other[p],
           \A x : IsDir(x)' => IsDir(x)
    PROVE  Sees(p)'
BY DEF Sees, IsDir

LEMMA WalkSees == ASSUME PlaceInv, LockInv, NEW p \in Proc, Sees(p), Walk(p) PROVE Sees(p)'
<1>1. TypesOK /\ dinode' = dinode
  BY WalkDisk DEF PlaceInv, Quiet
<1>2. \A x : IsDir(x)' => IsDir(x)
  BY <1>1 DEF IsDir
<1>3. CASE \E s : Finish(p, s)
  BY <1>1, <1>3, EndSees
<1>4. CASE /\ UNCHANGED <<call, other>>
           /\ \E s \in {"found", "walk", "undo"} : pc' = [pc EXCEPT ![p] = s]
  <2>1. pc'[p] \notin {"parent", "child", "fill"}
    BY <1>1, <1>4 DEF TypesOK
  <2> QED BY <1>2, <1>4, <2>1, GoesSees
<1>5. CASE Look(ip[p]).type = "dir" /\ Goto(p, "parent")
  <2>1. ip[p] \in Inum /\ lock[ip[p]] = NULL
    BY AtType DEF Walk, At, Inside
  <2>2. IsDir(ip[p])
    BY <1>5, <2>1, Unlocked DEF IsDir
  <2>3. pc'[p] = "parent" /\ UNCHANGED <<call, ip, other>>
    BY <1>1, <1>5 DEF Goto, TypesOK
  <2> QED BY <1>1, <2>2, <2>3 DEF Sees, IsDir
<1> QED BY <1>3, <1>4, <1>5 DEF Walk, Undo

LEMMA LinkOldSees == ASSUME PlaceInv, LockInv, NEW p \in Proc, NEW start, LinkOld(p, start) PROVE Sees(p)'
<1>1. TypesOK
  BY DEF PlaceInv
<1>2. CASE \E s : Finish(p, s)
  BY <1>1, <1>2, EndSees
<1>3. CASE /\ Look(ip[p]).type # "dir"
           /\ other' = [other EXCEPT ![p] = ip[p]]
           /\ pc' = [pc EXCEPT ![p] = "walk"]
  <2>1. ip[p] \in Inum /\ lock[ip[p]] = NULL
    BY AtType DEF LinkOld, At, Inside
  <2>2. ~IsDir(ip[p])
    BY <1>3, <2>1, Unlocked DEF IsDir
  <2>3. dinode'[ip[p]].type = dinode[ip[p]].type
    BY LinkOldDisk DEF Quiet, Counts, Recounted, SameType
  <2>4. other'[p] = ip[p] /\ pc'[p] = "walk"
    BY <1>1, <1>3 DEF TypesOK
  <2> QED BY <2>2, <2>3, <2>4 DEF Sees, IsDir
<1> QED BY <1>2, <1>3 DEF LinkOld

LEMMA LinkNewSees ==
    ASSUME PlaceInv, LockInv, NEW p \in Proc, Names(p), Sees(p), LinkNew(p) PROVE Sees(p)'
<1>1. TypesOK
  BY DEF PlaceInv
<1>2. CASE \E s : Finish(p, s)
  BY <1>1, <1>2, EndSees
<1>3. CASE Reads(ip[p]) /\ Undo(p, ip[p])
  <2>1. ip[p] \in Inum /\ lock[ip[p]] = NULL
    BY AtType DEF LinkNew, At, Inside
  <2>2. dinode' = dinode
    BY <1>1, <1>3, <2>1, ReadsDisk
  <2>3. pc'[p] = "undo" /\ UNCHANGED <<call, other>>
    BY <1>1, <1>3 DEF Undo, TypesOK
  <2>4. \A x : IsDir(x)' => IsDir(x)
    BY <2>2 DEF IsDir
  <2> QED BY <2>3, <2>4, GoesSees
<1> QED BY <1>2, <1>3 DEF LinkNew

LEMMA UnlinkParentSees ==
    ASSUME PlaceInv, LockInv, NEW p \in Proc, Sees(p), UnlinkParent(p) PROVE Sees(p)'
<1>1. TypesOK /\ dinode' = dinode
  BY UnlinkParentDisk DEF PlaceInv, Quiet
<1>2. CASE \E s : Finish(p, s)
  BY <1>1, <1>2, EndSees
<1>3. CASE /\ other' = [other EXCEPT ![p] = Look(ip[p]).ents[Elem(p)]]
           /\ pc' = [pc EXCEPT ![p] = "child"]
           /\ UNCHANGED <<call, path, pos, ip>>
  <2>1. ip[p] \in Inum /\ lock[ip[p]] = NULL /\ call[p] = "unlink" /\ IsDir(ip[p])
    BY AtType DEF UnlinkParent, At, Inside, Sees
  <2>2. dinode[ip[p]].ents[Elem(p)] = other'[p] /\ pc'[p] = "child"
    BY <1>1, <1>3, <2>1, Unlocked DEF TypesOK
  <2> QED BY <1>1, <1>3, <2>1, <2>2 DEF Sees, IsDir, Elem
<1> QED BY <1>2, <1>3 DEF UnlinkParent

LEMMA CreateLookupSees ==
    ASSUME PlaceInv, LockInv, NEW p \in Proc, Sees(p), CreateLookup(p) PROVE Sees(p)'
<1>1. TypesOK /\ call[p] # "link2"
  BY DEF PlaceInv, CreateLookup
<1>2. CASE \E s : Finish(p, s)
  BY <1>1, <1>2, EndSees
<1>3. CASE pc' = [pc EXCEPT ![p] = "exists"] /\ UNCHANGED call
  <2>1. pc'[p] = "exists"
    BY <1>1, <1>3 DEF TypesOK
  <2> QED BY <1>1, <1>3, <2>1 DEF Sees
<1>4. CASE /\ Look(ip[p]).ents[Elem(p)] = 0
           /\ pc' = [pc EXCEPT ![p] = "fill"]
           /\ UNCHANGED <<call, path, pos, ip>>
  <2>1. ip[p] \in Inum /\ lock[ip[p]] = NULL /\ IsDir(ip[p])
    BY AtType DEF CreateLookup, At, Inside, Sees
  <2>2. pc'[p] = "fill"
    BY <1>1, <1>4 DEF TypesOK
  <2>3. Allocs(p)
    BY <2>2, CreateLookupDisk DEF Quiet
  <2>4. dinode'[ip[p]] = dinode[ip[p]]
    BY <2>1, <2>3 DEF Allocs, Others, IsDir
  <2>5. dinode[ip[p]].ents[Elem(p)] = 0
    BY <1>4, <2>1, Unlocked
  <2> QED BY <1>1, <1>4, <2>1, <2>2, <2>4, <2>5 DEF Sees, IsDir, Elem
<1> QED BY <1>2, <1>3, <1>4 DEF CreateLookup

\* Whoever works on the inode it gives up points to it twice.
LEMMA OwnTwice ==
    ASSUME TypesOK, NEW p \in Proc, NEW i \in Inum, ip[p] = i, puts[p] # <<>>, puts[p][1] = i
    PROVE  Own(p, i) >= 2
<1>1. puts[p] \in Seq(Inum)
  BY DEF TypesOK
<1>2. Len(puts[p]) > 0
  BY <1>1, EmptySeq
<1>3. /\ Mark(cwd[p] = i) \in 0..1 /\ Mark(file[p] = i) \in 0..1 /\ Mark(ip[p] = i) = 1
      /\ Mark(other[p] = i) \in 0..1 /\ Mark(Len(puts[p]) > 0 /\ puts[p][1] = i) = 1
      /\ Mark(Len(puts[p]) > 1 /\ puts[p][2] = i) \in 0..1
  BY <1>2 DEF Mark
<1> QED BY <1>3 DEF Own, Occ

LEMMA IputSees ==
    ASSUME PlaceInv, RefInv, LinkInv, NEW p \in Proc, Iput(p) \/ IputFree(p) \/ IputDone(p)
    PROVE  Sees(p)'
<1>1. /\ TypesOK /\ LockInv /\ Stands(p) /\ Sees(p) /\ UNCHANGED locals /\ puts[p] # <<>>
  BY DEF PlaceInv, RefInv, LinkInv, CallInv, Iput, IputFree, IputDone, Putting
<1>2. pc[p] \notin Holding
  BY <1>1 DEF Stands
<1>3. CASE Iput(p) \/ IputDone(p)
  <2>1. dinode' = dinode
    BY <1>3 DEF Iput, IputDone
  <2> QED BY <1>1, <2>1 DEF locals, Sees, IsDir, Elem
<1>4. CASE IputFree(p)
  <2>1. Drops(p)
    BY <1>1, <1>4, IputFreeDisk DEF PlaceInv
  <2>2. PICK i \in Inum : i = puts[p][1]
    BY <2>1 DEF Drops
  <2>3. Own(p, i) = 1
    BY <2>1, <2>2, LastHolder
  <2>4. ip[p] # i
    <3> SUFFICES ASSUME ip[p] = i PROVE FALSE
      OBVIOUS
    <3>1. Own(p, i) >= 2
      BY <1>1, <2>2, OwnTwice
    <3> QED BY <2>3, <3>1
  <2>5. /\ dinode'[i].type = "none"
        /\ \A x \in Inum : x # i => dinode'[x] = dinode[x]
    BY <2>1, <2>2, FreeIs DEF Drops, Others
  <2>6. pc[p] = "parent" => IsDir(ip[p])'
    <3> SUFFICES ASSUME pc[p] = "parent" PROVE IsDir(ip[p])'
      OBVIOUS
    <3>1. ip[p] \in Inum /\ IsDir(ip[p]) /\ ip'[p] = ip[p]
      BY <1>1 DEF Stands, Inside, Sees, locals
    <3> QED BY <2>4, <2>5, <3>1 DEF IsDir
  <2>7. call[p] = "link2" => ~IsDir(other[p])'
    <3> SUFFICES ASSUME call[p] = "link2" PROVE ~IsDir(other[p])'
      OBVIOUS
    <3>1. other[p] \in Inum /\ ~IsDir(other[p]) /\ other'[p] = other[p]
      BY <1>1 DEF Stands, Sees, locals, TypesOK
    <3> QED BY <2>5, <3>1 DEF IsDir
  <2> QED BY <1>1, <1>2, <2>6, <2>7 DEF Sees, locals, Holding
<1> QED BY <1>3, <1>4

LEMMA SeesOwn ==
    ASSUME PlaceInv, RefInv, LinkInv, NEW p \in Proc, Step(p) PROVE Sees(p)'
<1>1. TypesOK /\ LockInv /\ Names(p) /\ Sees(p)
  BY DEF PlaceInv, RefInv, LinkInv, CallInv
<1>2. CASE SysCall(p)
  <2>1. pc'[p] \in {"found", "walk"} /\ call'[p] # "link2"
    BY <1>1, <1>2 DEF SysCall, Begin, TypesOK, Calls
  <2> QED BY <2>1 DEF Sees
<1>3. CASE Close(p)
  BY <1>1, <1>3 DEF Close, locals, Sees, IsDir, Elem
<1>4. CASE Open(p) \/ Chdir(p) \/ LinkUndo(p) \/ UnlinkChild(p) \/ CreateExists(p) \/ CreateFill(p)
  BY <1>1, <1>4, EndSees, OpenFileSees
     DEF Open, Chdir, LinkUndo, UnlinkChild, CreateExists, CreateFill
<1>5. CASE Iput(p) \/ IputFree(p) \/ IputDone(p)
  BY <1>5, IputSees
<1> QED BY <1>1, <1>2, <1>3, <1>4, <1>5, WalkSees, LinkOldSees, LinkNewSees, UnlinkParentSees,
        CreateLookupSees DEF Step

LEMMA CallStep ==
    ASSUME DotDot = FALSE, PlaceInv, RefInv, LinkInv, NEW p \in Proc, Step(p) PROVE CallInv'
<1>1. TypesOK /\ LockInv /\ CallInv /\ MovesOnly(p)
  BY StepPlaces DEF PlaceInv, RefInv, LinkInv, Places
<1>2. DiskSteps(p)
  BY <1>1, StepDisk DEF CallInv
<1>3. ASSUME NEW q \in Proc, q # p PROVE Names(q)' /\ Sees(q)'
  <2>1. Same(q) /\ Names(q) /\ Sees(q)
    BY <1>1, <1>3 DEF MovesOnly, CallInv
  <2>2. Names(q)'
    BY <2>1 DEF Same, Names, Elem
  <2> QED BY <1>1, <1>2, <1>3, <2>1, <2>2, SeesOthers
<1>4. Names(p)' /\ Sees(p)'
  BY <1>1, NamesStep, SeesOwn DEF CallInv
<1> QED BY <1>3, <1>4 DEF CallInv

-----------------------------------------------------------------------------
\* The invariant of the links.

LEMMA LinkStep ==
    ASSUME DotDot = FALSE, PlaceInv, RefInv, LinkInv, NEW p \in Proc, Step(p) PROVE LinkInv'
<1>1. TypesOK /\ TypesOK' /\ LockInv /\ CallInv /\ MovesOnly(p)
  BY StepPlaces DEF PlaceInv, RefInv, LinkInv, Places
<1>2. DiskSteps(p)
  BY <1>1, StepDisk DEF CallInv
<1> QED BY <1>1, <1>2, FreshStep, CallStep, StepTree DEF LinkInv

\* Outside all calls, what is not on the disk is in order.
DiskFresh == IsDir(ROOTINO) /\ \A i \in Inum : dinode[i].type = "none" => dinode[i] = Free

LEMMA IdleFresh == Idle /\ DiskFresh => FreshInv /\ CallInv /\ \A i \in Inum : Pending(i) = {}
<1> SUFFICES ASSUME Idle, DiskFresh PROVE FreshInv /\ CallInv /\ \A i \in Inum : Pending(i) = {}
  OBVIOUS
<1>1. \A q \in Proc : /\ cwd[q] = ROOTINO /\ file[q] = NULL /\ ip[q] = NULL /\ other[q] = NULL
                      /\ puts[q] = <<>> /\ pc[q] = "user" /\ call[q] = NULL /\ path[q] = <<>>
  BY DEF Idle
<1>2. ASSUME NEW i \in Inum, dinode[i].type = "none", NEW q \in Proc PROVE Gone(q, i)
  <2>1. i # ROOTINO /\ i # NULL
    BY <1>2, FsAssumption DEF DiskFresh, IsDir
  <2>2. Own(q, i) = 0
    BY <1>1, <2>1 DEF Own, Occ, Mark
  <2> QED BY <2>2 DEF Gone
<1>3. FreshInv
  BY <1>1, <1>2 DEF FreshInv, FreeUnused, FillsFresh, DiskFresh
<1>4. CallInv
  BY <1>1, FsAssumption DEF CallInv, Names, NamesOf, Sees, Holding
<1>5. \A i \in Inum : Pending(i) = {}
  BY <1>1, FsAssumption DEF Pending
<1> QED BY <1>3, <1>4, <1>5

LEMMA LinkInit == Init => LinkInv
<1> SUFFICES ASSUME Init PROVE LinkInv
  OBVIOUS
<1>1. Idle /\ TypesOK
  BY PlaceInit DEF Init, PlaceInv
<1>2. /\ dinode[ROOTINO].type = "dir" /\ dinode[ROOTINO].nlink = 1
      /\ dinode[ROOTINO].ents[".."] = ROOTINO /\ \A n \in Name : dinode[ROOTINO].ents[n] = 0
  BY FsAssumption DEF Init, Root, Free
<1>3. \A i \in Inum : i # ROOTINO => dinode[i] = Free
  BY DEF Init
<1>4. FreshInv /\ CallInv /\ \A i \in Inum : Pending(i) = {}
  BY <1>1, <1>2, <1>3, IdleFresh DEF DiskFresh, IsDir
<1>5. DirsOnly
  BY <1>2, <1>3, FreeIs DEF DirsOnly, IsDir
<1>6. \A i \in Inum, j \in Inum, n \in Name : dinode[j].ents[n] # i
  BY <1>2, <1>3, FreeIs, FsAssumption DEF Elems
<1>7. TreeShape
  BY <1>6 DEF TreeShape
<1>8. Ranked
  <2>1. [i \in Inum |-> 0] \in [Inum -> Nat] /\ Falls([i \in Inum |-> 0])
    BY <1>6 DEF Falls
  <2> QED BY <2>1 DEF Ranked
<1>9. ASSUME NEW i \in Inum PROVE Links(i) + Cardinality(Pending(i)) <= dinode[i].nlink
  <2>1. \A j \in Inum : Entries(j) = {}
    BY <1>6 DEF Entries
  <2>2. Cardinality(Entries(i)) = 0 /\ Cardinality(Pending(i)) = 0
    BY <1>4, <2>1, FS_EmptySet
  <2>3. CASE i = ROOTINO
    <3>1. Backs(i) = {ROOTINO}
      BY <1>2, <2>1, <2>3, FsAssumption DEF Backs
    <3>2. Cardinality(Backs(i)) = 1
      BY <3>1, FS_Singleton
    <3> QED BY <1>2, <2>2, <2>3, <3>2, LinksAre
  <2>4. CASE i # ROOTINO
    <3>1. Backs(i) = {}
      BY <1>2, <2>1, <2>4 DEF Backs
    <3>2. Cardinality(Backs(i)) = 0
      BY <3>1, FS_EmptySet
    <3>3. dinode[i].nlink = 0
      BY <1>3, <2>4, FreeIs
    <3> QED BY <2>2, <3>2, <3>3, LinksAre
  <2> QED BY <2>3, <2>4
<1> QED BY <1>4, <1>5, <1>7, <1>8, <1>9 DEF LinkInv, TreeInv, LinksCounted

LEMMA LinkCrash == ASSUME TypesOK, TypesOK', LinkInv, Crash PROVE LinkInv'
<1>1. Idle' /\ dinode' = dinode /\ TreeInv /\ FreeUnused
  BY CrashIdle DEF LinkInv, FreshInv
<1>2. DiskFresh'
  BY <1>1 DEF DiskFresh, TreeInv, DirsOnly, FreeUnused, IsDir
<1>3. Idle' /\ DiskFresh' => FreshInv' /\ CallInv' /\ (\A i \in Inum : Pending(i) = {})'
  BY IdleFresh, PTL
<1>4. SameTree
  BY <1>1 DEF SameTree, SameType
<1>5. DirsOnly' /\ TreeShape' /\ Ranked' /\ \A x \in Inum : Entries(x)' = Entries(x) /\ Backs(x)' = Backs(x)
  BY <1>1, <1>4, SameTreeKeeps
<1>6. ASSUME NEW x \in Inum PROVE Links(x)' + Cardinality(Pending(x)') <= dinode'[x].nlink
  <2>1. Pending(x)' \subseteq Pending(x)
    BY <1>1, <1>2, <1>3
  <2>2. dinode'[x].nlink >= dinode[x].nlink
    <3>1. dinode[x].nlink \in Int
      BY DEF TypesOK, Inode
    <3> QED BY <1>1, <3>1
  <2> QED BY <1>1, <1>5, <2>1, <2>2, CountedStill DEF TreeInv
<1>7. TreeInv'
  BY <1>5, <1>6 DEF TreeInv, LinksCounted
<1> QED BY <1>1, <1>2, <1>3, <1>7 DEF LinkInv

LEMMA LinkNext == ASSUME DotDot = FALSE PROVE PlaceInv /\ RefInv /\ LinkInv /\ [Next]_vars => LinkInv'
<1> SUFFICES ASSUME PlaceInv, RefInv, LinkInv, [Next]_vars PROVE LinkInv'
  OBVIOUS
<1>1. TypesOK /\ TypesOK'
  BY PlaceStep DEF PlaceInv
<1>2. CASE Crash
  BY <1>1, <1>2, LinkCrash
<1>3. ASSUME NEW p \in Proc, Step(p) PROVE LinkInv'
  BY <1>3, LinkStep
<1>4. CASE UNCHANGED vars
  <2>1. UNCHANGED <<dinode, ref, lock, cwd, file, pc, call, path, pos, new, ip, other, puts>>
    BY <1>4 DEF vars, table, locals
  <2>2. FreshInv'
    BY <2>1 DEF LinkInv, FreshInv, FreeUnused, FillsFresh, Gone, Freeing, Own, Occ, Mark
  <2>3. CallInv'
    BY <2>1 DEF LinkInv, CallInv, Names, NamesOf, Sees, Elem, IsDir
  <2>4. TreeInv'
    BY <2>1 DEF LinkInv, TreeInv, DirsOnly, TreeShape, Ranked, Falls, LinksCounted, Links, Entries,
                Pending, IsDir
  <2> QED BY <2>2, <2>3, <2>4 DEF LinkInv
<1> QED BY <1>2, <1>3, <1>4, NextIs

LEMMA LinkInvHolds == ASSUME DotDot = FALSE PROVE Spec => [](PlaceInv /\ RefInv /\ LinkInv)
<1>1. PlaceInv /\ RefInv /\ LinkInv /\ [Next]_vars => LinkInv'
  BY LinkNext
<1> QED BY <1>1, LinkInit, RefInvHolds, PTL DEF Spec

\* No entry points to a free inode, and no more entries and links under way point to one
\* than it counts.
THEOREM NoDangling == ASSUME DotDot = FALSE PROVE Spec => []NoDanglingEntry
<1>1. PlaceInv /\ RefInv /\ LinkInv => NoDanglingEntry
  <2> SUFFICES ASSUME PlaceInv, RefInv, LinkInv, NEW i \in Inum
               PROVE  /\ Entries(i) # {} => dinode[i].type # "none"
                      /\ Links(i) <= dinode[i].nlink
    BY DEF NoDanglingEntry
  <2>1. TypesOK /\ LinksCounted /\ FreeUnused
    BY DEF PlaceInv, LinkInv, TreeInv, FreshInv
  <2>2. dinode[i].type = "none" => Entries(i) = {}
    BY <2>1, FreeIs, Unlinked DEF FreeUnused
  <2>3. Links(i) <= dinode[i].nlink
    <3>1. Links(i) + Cardinality(Pending(i)) <= dinode[i].nlink /\ dinode[i].nlink \in Int
      BY <2>1 DEF LinksCounted, TypesOK, Inode
    <3>2. Cardinality(Pending(i)) \in Nat /\ Cardinality(Entries(i)) \in Nat /\ Cardinality(Backs(i)) \in Nat
      BY FiniteBases, LinkSets, Cards
    <3>3. Links(i) \in Int
      BY <3>2, LinksAre
    <3> QED BY <3>1, <3>2, <3>3
  <2> QED BY <2>2, <2>3
<1> QED BY <1>1, LinkInvHolds, PTL

\* No call comes to lock an inode that has been freed, or to remove the name of one
\* without links.
THEOREM NothingPanics == ASSUME DotDot = FALSE PROVE Spec => []NoPanic
<1>1. PlaceInv /\ RefInv /\ LinkInv => NoPanic
  <2> SUFFICES ASSUME PlaceInv, RefInv, LinkInv, NEW p \in Proc, Panics(p) PROVE FALSE
    BY DEF NoPanic
  <2>1. TypesOK /\ LockInv /\ LinksCounted /\ FreeUnused /\ Names(p) /\ Sees(p)
    BY DEF PlaceInv, RefInv, LinkInv, TreeInv, FreshInv, CallInv
  <2>2. Wanted(p) \in {ip[p], other[p]} /\ Wanted(p) # NULL /\ (pc[p] = "child" => Wanted(p) = other[p])
    BY DEF Panics, Locking, Wanted
  <2>3. PICK i \in Inum : i = Wanted(p)
    BY <2>1, <2>2 DEF TypesOK
  <2>4. /\ lock[i] = NULL
        /\ Look(i).type = "none" \/ (pc[p] = "child" /\ Look(i).nlink < 1)
    BY <2>3 DEF Panics
  <2>5. dinode[i].type # "none"
    BY <2>1, <2>2, <2>3, GoneOff DEF FreeUnused
  <2>6. pc[p] = "child" /\ dinode[i].nlink < 1
    BY <2>1, <2>4, <2>5, Unlocked
  <2>7. ip[p] \in Inum /\ Elem(p) \in Name /\ dinode[ip[p]].ents[Elem(p)] = i
    BY <2>1, <2>2, <2>3, <2>6 DEF PlaceInv, Stands, Inside, Names, Sees, Holding
  <2>8. dinode[i].nlink <= 0
    BY <2>1, <2>6 DEF TypesOK, Inode
  <2>9. Entries(i) = {}
    BY <2>1, <2>8, Unlinked
  <2> QED BY <2>7, <2>9, EntryIs
<1> QED BY <1>1, LinkInvHolds, PTL

LEMMA WorksTwice ==
    ASSUME TypesOK, NEW p \in Proc, NEW i \in Inum, ip[p] = i, other[p] = i PROVE Own(p, i) >= 2
<1>1. /\ Mark(cwd[p] = i) \in 0..1 /\ Mark(file[p] = i) \in 0..1 /\ Mark(ip[p] = i) = 1
      /\ Mark(other[p] = i) = 1 /\ Mark(Len(puts[p]) > 0 /\ puts[p][1] = i) \in 0..1
      /\ Mark(Len(puts[p]) > 1 /\ puts[p][2] = i) \in 0..1
  BY DEF Mark
<1> QED BY <1>1 DEF Own, Occ

\* Who waits for an inode that another one has locked in the middle of a call: it removes a
\* directory from the one it has locked itself, so the other works further down.
LEMMA WaitsBelow ==
    ASSUME PlaceInv, RefInv, LinkInv, NEW r \in [Inum -> Nat], Falls(r),
           NEW p \in Proc, NEW q \in Proc, pc[p] \in Holding, pc[q] \in Holding, ip[q] = other[p]
    PROVE  r[ip[q]] < r[ip[p]]
<1>1. TypesOK /\ Names(p) /\ Sees(p) /\ Sees(q) /\ FillsFresh(p)
  BY DEF PlaceInv, LinkInv, CallInv, FreshInv
<1>2. ip[p] \in Inum /\ ip[q] \in Inum /\ other[p] \in Inum
  BY AtType DEF Holding, Inside
<1>3. pc[p] # "fill"
  <2> SUFFICES ASSUME pc[p] = "fill" PROVE FALSE
    OBVIOUS
  <2>1. Own(p, other[p]) = 1 /\ (q # p => Gone(q, other[p]))
    BY <1>1 DEF FillsFresh
  <2>2. q = p
    BY <1>1, <1>2, <2>1, GoneOff
  <2>3. Own(p, other[p]) >= 2
    BY <1>1, <1>2, <2>2, WorksTwice
  <2> QED BY <2>1, <2>3
<1>4. /\ dinode[ip[p]].ents[Elem(p)] = ip[q] /\ Elem(p) \in Name /\ IsDir(ip[q])
  BY <1>1, <1>3 DEF Sees, Names, Holding
<1> QED BY <1>2, <1>4 DEF Falls

\* Processes never wait for one another's inodes in a circle: whoever is waited for in it
\* works further down than who waits, and the one furthest down waits for nobody.
THEOREM NoCircles == ASSUME DotDot = FALSE PROVE Spec => []NoDeadlock
<1>1. PlaceInv /\ RefInv /\ LinkInv => NoDeadlock
  <2> SUFFICES ASSUME PlaceInv, RefInv, LinkInv, NEW S \in SUBSET Proc, S # {},
                      ~\E p \in S : ~(Locking(p) /\ lock[Wanted(p)] \in S)
               PROVE  FALSE
    BY DEF NoDeadlock
  <2>1. TypesOK /\ LockInv /\ Ranked
    BY DEF PlaceInv, RefInv, LinkInv, TreeInv
  <2>2. ASSUME NEW p \in S
        PROVE  \E q \in S : pc[q] \in Holding /\ ip[q] = Wanted(p)
    <3>1. PICK q \in S : q = lock[Wanted(p)]
      OBVIOUS
    <3>2. Wanted(p) \in {ip[p], other[p], NULL} /\ Wanted(p) # NULL
      BY DEF Locking, Wanted
    <3>3. Wanted(p) \in Inum /\ q \in Proc
      BY <2>1, <3>2 DEF TypesOK
    <3>4. ~Freeing(q, Wanted(p))
      BY DEF Freeing, Locking
    <3> QED BY <2>1, <3>1, <3>3, <3>4 DEF LockInv
  <2>3. PICK r \in [Inum -> Nat] : Falls(r)
    BY <2>1 DEF Ranked
  <2> DEFINE T == {q \in S : pc[q] \in Holding}
             R == {r[ip[q]] : q \in T}
  <2>4. \A q \in T : q \in Proc /\ ip[q] \in Inum /\ Wanted(q) = other[q]
    BY AtType DEF Holding, Inside, Wanted
  <2>5. T # {}
    BY <2>2
  <2>6. R \in SUBSET Nat /\ R # {}
    BY <2>3, <2>4, <2>5
  <2>7. PICK m \in R : \A n \in R : m <= n
    <3> HIDE DEF R
    <3> QED BY <2>6, LeastIs
  <2>8. PICK p \in T : m = r[ip[p]]
    BY <2>7
  <2>9. PICK q \in T : ip[q] = other[p]
    BY <2>2, <2>4, <2>8
  <2>10. r[ip[q]] < r[ip[p]]
    BY <2>3, <2>4, <2>9, WaitsBelow
  <2>11. m <= r[ip[q]] /\ m \in Nat /\ r[ip[q]] \in Nat
    BY <2>3, <2>4, <2>6, <2>7, <2>9
  <2> QED BY <2>8, <2>10, <2>11
<1> QED BY <1>1, LinkInvHolds, PTL
====
