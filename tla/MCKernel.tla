---- MODULE MCKernel ----
EXTENDS Kernel, TLC

Symmetry == Permutations(Slot \ {initproc}) \cup Permutations(File)

\* Bound: at most one process at a time is killed and not yet reaped, and at most one
\* waits for a CPU.
Bound == /\ Cardinality({p \in Slot : killed[p]}) <= 1
         /\ Cardinality({p \in Slot : state[p] = "RUNNABLE"}) <= 1
====
