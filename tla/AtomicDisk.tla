---- MODULE AtomicDisk ----
(***************************************************************************)
(* What xv6's log promises its file-system calls: whatever the machine does, *)
(* the disk holds the blocks as they were at a moment when no call was under *)
(* way.  A call's writes are seen by the others at once and reach the disk   *)
(* together, or not at all.                                                  *)
(***************************************************************************)
CONSTANTS Op, Block, Value

VARIABLES stable,    \* what a restart finds
          current,   \* what a call reads
          running    \* the calls under way

vars == <<stable, current, running>>

Init ==
    /\ stable \in [Block -> Value]
    /\ current = stable
    /\ running = {}

Begin(p) ==
    /\ p \notin running
    /\ running' = running \cup {p}
    /\ UNCHANGED <<stable, current>>

Write(p, b, v) ==
    /\ p \in running
    /\ current' = [current EXCEPT ![b] = v]
    /\ UNCHANGED <<stable, running>>

End(p) ==
    /\ p \in running
    /\ running' = running \ {p}
    /\ UNCHANGED <<stable, current>>

\* The writes of all calls that ended become durable together.
Commit ==
    /\ running = {}
    /\ stable' = current
    /\ UNCHANGED <<current, running>>

Crash ==
    /\ current' = stable
    /\ running' = {}
    /\ UNCHANGED stable

Next == \/ \E p \in Op : Begin(p) \/ End(p) \/ \E b \in Block, v \in Value : Write(p, b, v)
        \/ Commit \/ Crash

Spec == Init /\ [][Next]_vars
====
