---- MODULE FileTable ----
(***************************************************************************)
(* xv6: the table of open files (kernel/file.c) and the descriptors of the *)
(* processes (kernel/sysfile.c), for files that are ends of pipes.         *)
(*                                                                         *)
(* fileclose() first drops the reference under ftable.lock and, if it was  *)
(* the last one, frees the entry; only then, without the lock, does it     *)
(* close what the file stood for, from a copy.  By then another process    *)
(* may have been given the entry.                                          *)
(***************************************************************************)
EXTENDS Proc, Sequences, SequencesExt, FiniteSetsExt

CONSTANTS File,       \* the entries of ftable.file[NFILE]
          Fd,         \* the indices of p->ofile[NOFILE], numbers from 0
          Pipes       \* the pages a pipe may be kept in

ASSUME FdAssumption == /\ Fd # {} /\ IsFiniteSet(Fd) /\ Fd \subseteq Nat
                       /\ NULL \notin File /\ NULL \notin Pipes

VARIABLES ftable,    \* ftable[f]: ref, and while it is not 0: writable, pipe
          ofile,     \* ofile[p][fd]: a file or NULL
          toClose,   \* the files p is about to pass to fileclose()
          ff         \* fileclose()'s copy of a file whose pipe end p must close

fileVars == <<ftable, ofile, toClose, ff>>

FreeEntry == [ref |-> 0, writable |-> FALSE, pipe |-> NULL]

FileInit ==
    /\ ftable = [f \in File |-> FreeEntry]
    /\ ofile = [p \in Slot |-> [d \in Fd |-> NULL]]
    /\ toClose = [p \in Slot |-> <<>>]
    /\ ff = [p \in Slot |-> FreeEntry]

FreeFiles == {f \in File : ftable[f].ref = 0}
FreeFds(p) == {d \in Fd : ofile[p][d] = NULL}
Open(p) == {d \in Fd : ofile[p][d] # NULL}

\* The references p's descriptors hold to f.
Held(p, f) == {d \in Fd : ofile[p][d] = f}

-----------------------------------------------------------------------------
\* Mutant: filedup() is forgotten.
SysDupNoRef(p, d) ==
    /\ Enter(p)
    /\ d \in Open(p)
    /\ FreeFds(p) # {}
    /\ ofile' = [ofile EXCEPT ![p][Min(FreeFds(p))] = ofile[p][d]]
    /\ UNCHANGED <<ftable, toClose, ff>>
    /\ UNCHANGED procVars

\* fdalloc() takes the lowest free descriptor.
SysDup(p, d) ==
    /\ Enter(p)
    /\ d \in Open(p)
    /\ FreeFds(p) # {}
    /\ ofile' = [ofile EXCEPT ![p][Min(FreeFds(p))] = ofile[p][d]]
    /\ ftable' = [ftable EXCEPT ![ofile[p][d]].ref = @ + 1]
    /\ UNCHANGED <<toClose, ff>>
    /\ UNCHANGED procVars

\* The descriptor is given up first.
SysClose(p, d) ==
    /\ Enter(p)
    /\ d \in Open(p)
    /\ ofile' = [ofile EXCEPT ![p][d] = NULL]
    /\ toClose' = [toClose EXCEPT ![p] = <<ofile[p][d]>>]
    /\ pc' = [pc EXCEPT ![p] = "close"]
    /\ UNCHANGED <<ftable, ff, state, chan, killed, parent, np, waitLock>>

\* The parent's descriptors, duplicated for the child q.
ForkFiles(p, q) ==
    /\ ofile' = [ofile EXCEPT ![q] = ofile[p]]
    /\ ftable' = [f \in File |-> [ftable[f] EXCEPT !.ref = @ + Cardinality(Held(p, f))]]
    /\ UNCHANGED <<toClose, ff>>

\* usertrap() finds p killed, or p calls exit(): all descriptors, in order.  (The
\* table p->ofile is p's own; that it is emptied one by one cannot be seen.)
ExitFiles(p) ==
    /\ At(p, "user") /\ p # initproc
    /\ \E fds \in [1..Cardinality(Open(p)) -> Open(p)] :
         /\ \A i, j \in DOMAIN fds : i < j => fds[i] < fds[j]
         /\ toClose' = [toClose EXCEPT ![p] = [i \in DOMAIN fds |-> ofile[p][fds[i]]]]
    /\ ofile' = [ofile EXCEPT ![p] = [d \in Fd |-> NULL]]
    /\ pc' = [pc EXCEPT ![p] = "exit_close"]
    /\ UNCHANGED <<ftable, ff, state, chan, killed, parent, np, waitLock>>

Closing(p) == At(p, "close") \/ At(p, "exit_close")

\* Mutant: the pipe's end is closed with the first reference that goes.
FileCloseEarly(p) ==
    /\ Closing(p)
    /\ ff[p].pipe = NULL /\ toClose[p] # <<>>
    /\ LET f == Head(toClose[p]) IN
         /\ ftable' = [ftable EXCEPT ![f] = IF @.ref > 1 THEN [@ EXCEPT !.ref = @ - 1]
                                                        ELSE FreeEntry]
         /\ ff' = [ff EXCEPT ![p] = ftable[f]]
    /\ toClose' = [toClose EXCEPT ![p] = Tail(@)]
    /\ UNCHANGED ofile
    /\ UNCHANGED procVars

\* fileclose(), the part under ftable.lock.
FileClose(p) ==
    /\ Closing(p)
    /\ ff[p].pipe = NULL /\ toClose[p] # <<>>
    /\ LET f == Head(toClose[p]) IN
         IF ftable[f].ref > 1
         THEN /\ ftable' = [ftable EXCEPT ![f].ref = @ - 1]
              /\ UNCHANGED ff
         ELSE /\ ftable' = [ftable EXCEPT ![f] = FreeEntry]
              /\ ff' = [ff EXCEPT ![p] = ftable[f]]
    /\ toClose' = [toClose EXCEPT ![p] = Tail(@)]
    /\ UNCHANGED ofile
    /\ UNCHANGED procVars

\* All is closed: back to the program, or on with exit().
CloseDone(p) ==
    /\ Closing(p)
    /\ ff[p].pipe = NULL /\ toClose[p] = <<>>
    /\ pc' = [pc EXCEPT ![p] = IF pc[p] = "exit_close" THEN "exit" ELSE "user"]
    /\ UNCHANGED fileVars
    /\ UNCHANGED <<state, chan, killed, parent, np, waitLock>>

-----------------------------------------------------------------------------
\* The references to f: descriptors of all processes, and calls of fileclose that
\* have yet to drop theirs.
Descriptors(f) == {h \in Slot \X Fd : ofile[h[1]][h[2]] = f}
Closings(f)    == {h \in UNION {{p} \X DOMAIN toClose[p] : p \in Slot} : toClose[h[1]][h[2]] = f}

\* ref counts exactly the references, so that a file is closed when the last of
\* them goes and not before, whoever forks, duplicates, closes, is killed or exits.
RefCountsHolders ==
    \A f \in File : ftable[f].ref = Cardinality(Descriptors(f)) + Cardinality(Closings(f))
====
