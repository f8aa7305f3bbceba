---- MODULE Pipe ----
(***************************************************************************)
(* xv6: pipes.  One lock per pipe; a reader sleeps on the address of nread *)
(* while the pipe is empty, a writer on that of nwrite while it is full,   *)
(* and whoever closes an end wakes the other side.                         *)
(*                                                                         *)
(* The counters wrap (uint); PIPESIZE divides the modulus.  The byte with  *)
(* number i is written as i: what a pipe does with a byte does not depend  *)
(* on its value.                                                           *)
(***************************************************************************)
EXTENDS FileTable

CONSTANTS PIPESIZE,
          UINT,      \* the modulus of the counters, 2^32
          MaxCount   \* bound: the bytes asked for in one read or write

ASSUME PipeAssumption == /\ PIPESIZE \in Nat \ {0} /\ UINT \in Nat
                         /\ UINT > PIPESIZE /\ UINT % PIPESIZE = 0
                         /\ MaxCount \in Nat

VARIABLES pipe,      \* pipe[pi]: used, readopen, writeopen, nread, nwrite, data
          lock,      \* lock[pi]: who holds pi->lock across actions
          cur,       \* cur[p]: the file p reads or writes
          left       \* left[p]: the bytes p has yet to read or write

pipeVars == <<pipe, lock, cur, left>>

NoPipe == [used |-> FALSE, readopen |-> FALSE, writeopen |-> FALSE,
           nread |-> 0, nwrite |-> 0, data |-> [i \in 0..(PIPESIZE - 1) |-> 0]]

PipeInit ==
    /\ pipe = [pi \in Pipes |-> NoPipe]
    /\ lock = [pi \in Pipes |-> NULL]
    /\ cur = [p \in Slot |-> NULL]
    /\ left = [p \in Slot |-> 0]

ReadChan(pi)  == <<"nread", pi>>
WriteChan(pi) == <<"nwrite", pi>>

\* The address of a field is not 0.
ASSUME ChanAssumption == \A pi \in Pipes : NULL \notin {ReadChan(pi), WriteChan(pi)}

Empty(pi) == pipe[pi].nread = pipe[pi].nwrite

\* Mutant: a pipe is full one byte late.
FullLate(pi) == pipe[pi].nwrite = (pipe[pi].nread + PIPESIZE + 1) % UINT

Full(pi)  == pipe[pi].nwrite = (pipe[pi].nread + PIPESIZE) % UINT

\* The bytes between the counters.
Size(pi) == (pipe[pi].nwrite + UINT - pipe[pi].nread) % UINT

\* The pipe a read or a write of p works on.
PipeOf(p) == ftable[cur[p]].pipe

-----------------------------------------------------------------------------
\* sys_pipe(): two files, a page, two descriptors.  If the descriptors run out, or
\* their numbers cannot be copied to the caller, the files are closed again.
SysPipe(p, f0, f1, pi) ==
    /\ Enter(p)
    /\ {f0, f1} \subseteq FreeFiles /\ f0 # f1
    /\ ~pipe[pi].used
    /\ pipe' = [pipe EXCEPT ![pi] = [NoPipe EXCEPT !.used = TRUE, !.readopen = TRUE,
                                                   !.writeopen = TRUE]]
    /\ ftable' = [ftable EXCEPT ![f0] = [ref |-> 1, writable |-> FALSE, pipe |-> pi],
                                ![f1] = [ref |-> 1, writable |-> TRUE, pipe |-> pi]]
    /\ \/ /\ Cardinality(FreeFds(p)) > 1
          /\ LET fd0 == Min(FreeFds(p))
                 fd1 == Min(FreeFds(p) \ {fd0})
             IN ofile' = [ofile EXCEPT ![p][fd0] = f0, ![p][fd1] = f1]
          /\ UNCHANGED <<toClose, pc>>
       \/ /\ toClose' = [toClose EXCEPT ![p] = <<f0, f1>>]
          /\ pc' = [pc EXCEPT ![p] = "close"]
          /\ UNCHANGED ofile
    /\ UNCHANGED <<ff, lock, cur, left, state, chan, killed, parent, np, waitLock>>

\* pipeclose(), of the end that fileclose() copied; the second one frees the page.
PipeClose(p) ==
    LET pi    == ff[p].pipe
        end   == ff[p].writable
        after == [pipe[pi] EXCEPT !.writeopen = @ /\ ~end, !.readopen = @ /\ end]
    IN /\ Closing(p)
       /\ pi # NULL /\ lock[pi] = NULL
       /\ pipe' = [pipe EXCEPT ![pi] = IF after.readopen \/ after.writeopen
                                       THEN after ELSE NoPipe]
       /\ state' = Wakeup(IF end THEN ReadChan(pi) ELSE WriteChan(pi))
       /\ ff' = [ff EXCEPT ![p] = FreeEntry]
       /\ UNCHANGED <<ftable, ofile, toClose, lock, cur, left, chan, killed, parent, pc, np, waitLock>>

-----------------------------------------------------------------------------
\* piperead(), pipewrite(), entered through a descriptor of the right kind.
Start(p, d, n, call) ==
    /\ Enter(p)
    /\ d \in Open(p)
    /\ ftable[ofile[p][d]].writable = (call = "write")
    /\ cur' = [cur EXCEPT ![p] = ofile[p][d]]
    /\ left' = [left EXCEPT ![p] = n]
    /\ pc' = [pc EXCEPT ![p] = call]
    /\ UNCHANGED <<pipe, lock, state, chan, killed, parent, np, waitLock>>
    /\ UNCHANGED fileVars

\* p returns from the call with the pipe as b, waking the sleepers on c.
Return(p, b, c) ==
    /\ pipe' = [pipe EXCEPT ![PipeOf(p)] = b]
    /\ lock' = [lock EXCEPT ![PipeOf(p)] = NULL]
    /\ cur' = [cur EXCEPT ![p] = NULL]
    /\ left' = [left EXCEPT ![p] = 0]
    /\ pc' = [pc EXCEPT ![p] = "user"]
    /\ state' = IF c = NULL THEN state ELSE Wakeup(c)
    /\ Resume(p)
    /\ UNCHANGED <<killed, parent, np, waitLock>>
    /\ UNCHANGED fileVars

\* p has found that it must wait; it keeps pi->lock up to the sleep.
MustWait(p, s) ==
    /\ lock' = [lock EXCEPT ![PipeOf(p)] = p]
    /\ pc' = [pc EXCEPT ![p] = s]
    /\ Resume(p)
    /\ UNCHANGED <<pipe, cur, left, killed, parent, np, waitLock>>
    /\ UNCHANGED fileVars

ReadWaits(p) == Empty(PipeOf(p)) /\ pipe[PipeOf(p)].writeopen

ReadBlocks(p) ==
    /\ At(p, "read") /\ lock[PipeOf(p)] = NULL
    /\ ReadWaits(p) /\ ~killed[p]
    /\ MustWait(p, "read_sleep")
    /\ UNCHANGED state

ReadKilled(p) ==
    /\ At(p, "read") /\ lock[PipeOf(p)] = NULL
    /\ ReadWaits(p) /\ killed[p]
    /\ Return(p, pipe[PipeOf(p)], NULL)

\* All bytes there are, up to the number asked for; or fewer, if one of them cannot
\* be copied out: that one is lost.
ReadCopy(p) ==
    LET pi == PipeOf(p)
        k  == Min({left[p], Size(pi)})
    IN /\ At(p, "read") /\ lock[pi] = NULL
       /\ ~ReadWaits(p)
       /\ \E j \in 1..k \cup {k} :
            Return(p, [pipe[pi] EXCEPT !.nread = (@ + j) % UINT], WriteChan(pi))

\* The loop of pipewrite() holds pi->lock from byte to byte.
Writing(p) == At(p, "write") /\ lock[PipeOf(p)] \in {NULL, p}

WriteStops(p) == ~pipe[PipeOf(p)].readopen \/ killed[p]

WriteFails(p) ==
    /\ Writing(p) /\ left[p] > 0
    /\ WriteStops(p)
    /\ Return(p, pipe[PipeOf(p)], NULL)

WriteBlocks(p) ==
    /\ Writing(p) /\ left[p] > 0
    /\ ~WriteStops(p) /\ Full(PipeOf(p))
    /\ MustWait(p, "write_sleep")
    /\ state' = Wakeup(ReadChan(PipeOf(p)))

Put(b) == [b EXCEPT !.data[b.nwrite % PIPESIZE] = b.nwrite, !.nwrite = (@ + 1) % UINT]

WriteByte(p) ==
    /\ Writing(p) /\ left[p] > 0
    /\ ~WriteStops(p) /\ ~Full(PipeOf(p))
    /\ pipe' = [pipe EXCEPT ![PipeOf(p)] = Put(@)]
    /\ lock' = [lock EXCEPT ![PipeOf(p)] = p]
    /\ left' = [left EXCEPT ![p] = @ - 1]
    /\ Resume(p)
    /\ UNCHANGED <<cur, state, killed, parent, pc, np, waitLock>>
    /\ UNCHANGED fileVars

\* All is written, or a byte cannot be copied in.
WriteDone(p) ==
    /\ Writing(p)
    /\ \/ left[p] = 0
       \/ ~WriteStops(p) /\ ~Full(PipeOf(p))
    /\ Return(p, pipe[PipeOf(p)], ReadChan(PipeOf(p)))

Blocked(p) ==
    /\ At(p, "read_sleep") \/ At(p, "write_sleep")
    /\ IF pc[p] = "read_sleep" THEN SleepOn(p, ReadChan(PipeOf(p)), "read")
                               ELSE SleepOn(p, WriteChan(PipeOf(p)), "write")
    /\ lock' = [lock EXCEPT ![PipeOf(p)] = NULL]
    /\ UNCHANGED <<pipe, cur, left, killed, parent, np, waitLock>>
    /\ UNCHANGED fileVars

-----------------------------------------------------------------------------
\* What is unread is there, in the order in which it was written: a full pipe is not
\* overwritten, also when the counters wrap.
UnreadIntact ==
    \A pi \in Pipes : /\ Size(pi) <= PIPESIZE
                      /\ \A i \in 0..(Size(pi) - 1) :
                           LET n == (pipe[pi].nread + i) % UINT
                           IN pipe[pi].data[n % PIPESIZE] = n

\* An end is open exactly as long as there is a file for it, or the last one is being
\* closed: neither does a reader wait for a writer that is gone, nor is the page
\* given back while a file still points to it.
EndIsOpen(pi, w) == \/ \E f \in File : ftable[f].ref > 0 /\ ftable[f].pipe = pi
                                        /\ ftable[f].writable = w
                    \/ \E p \in Slot : ff[p].pipe = pi /\ ff[p].writable = w

EndsMatchFiles ==
    \A pi \in Pipes : /\ pipe[pi].writeopen = EndIsOpen(pi, TRUE)
                      /\ pipe[pi].readopen = EndIsOpen(pi, FALSE)
                      /\ pipe[pi].used = (pipe[pi].readopen \/ pipe[pi].writeopen)
====
