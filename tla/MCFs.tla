---- MODULE MCFs ----
EXTENDS Fs
Symmetry == Permutations(Proc) \cup Permutations(Name)

\* Bound: programs use relative names, except for the new name of link(); one open file or
\* changed current directory, one directory below the root, and two links of an inode that
\* is not the root (a directory that is removed while a name is entered into it takes the
\* name with it, and leaves the count).  mknod(), whose steps are those of open(), runs alone.
Bound == /\ Cardinality({p \in Proc : file[p] # NULL}) + Cardinality({p \in Proc : cwd[p] # ROOTINO}) <= 1
         /\ Cardinality({i \in Inum : dinode[i].type = "dir"}) <= 2
         /\ \A p \in Proc : pc[p] = "walk" /\ call[p] # "link2" => ip[p] = cwd[p]
         /\ \A p, q \in Proc : call[p] = "mknod" /\ q # p => pc[q] = "user"
         /\ \A i \in Inum \ {ROOTINO} : dinode[i].nlink <= 2
====
