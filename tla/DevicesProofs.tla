---- MODULE DevicesProofs ----
(***************************************************************************)
(* The kernel modules of the board give back what they hold, leave behind  *)
(* what LeavesBehind says, and what runs of them finds what it uses, for   *)
(* any number of modules at a time.  No program rests past a press of the  *)
(* key that is noted, for any number of them.  xv6's console keeps the     *)
(* lines, and nobody sleeps past them, for any processes and buffer sizes. *)
(***************************************************************************)
EXTENDS Drivers, SequenceTheorems, WellFoundedInduction, TLAPS

\* The key and the console, a behaviour of each with variables of its own.
CONSTANTS Reader, Proc, INPUT_BUF_SIZE, UART_TX_BUF_SIZE, UINT, Calls
VARIABLES way, down, ticking, key_value, key_status, pc, value, sigio, press,
          cbuf, rpos, wpos, epos, line, lines, tx, busy, irq, target, missing, asleep, killed

Keys == INSTANCE Key WITH timer <- ticking
Terminal == INSTANCE Console WITH r <- rpos, w <- wpos, e <- epos, n <- missing

\* The provers do not know that a literal is a member of STRING.
Resource == STRING \cup Shared \cup {NULL}

DriversType ==
    /\ name \in [Slot -> Module \cup {NULL}]
    /\ mode \in [Slot -> {"out", "init", "undo", "in", "exit"}]
    /\ step \in [Slot -> Nat]
    /\ todo \in [Slot -> Seq(STRING)]
    /\ held \in [Slot -> SUBSET Resource]
    /\ owner \in [Shared -> Slot \cup {NULL}]
    /\ leaked \in [Slot -> SUBSET Resource]
    /\ opened \subseteq Slot
    /\ armed \in [Slot -> {"no", "armed", "running"}]

Owned(s) == {r \in Shared : owner[r] = s}
Mine(s)  == held[s] \cup Owned(s)

\* What a module has taken it has, except for a pin that somebody may have freed.
Has(s, r) == r \in Mine(s) \/ (r \in Pins /\ Meddled(r))

Running(s) == mode[s] \in {"init", "in"}
Ending(s)  == mode[s] \in {"undo", "exit"}

Where(s) ==
    /\ mode[s] = "out"  => step[s] = 1 /\ held[s] = {}
    /\ mode[s] = "init" => step[s] \in 1..End(name[s])
    /\ mode[s] = "in"   => step[s] = End(name[s])
    /\ name[s] = NULL   => /\ mode[s] = "out" /\ Mine(s) = {} /\ leaked[s] = {}
                           /\ s \notin opened /\ armed[s] = "no"
    /\ held[s] \cap Shared = {}

HoldsMust(s) == Running(s) => \A r \in Must(name[s], step[s]) : Has(s, r)

\* What is on the list to be given back is there to be given back.
BacksOwn(s) == Ending(s) => \A k \in 1..Len(todo[s]) :
    \/ <<name[s], todo[s][k]>> \in FreesAnyway
    \/ /\ todo[s][k] \in Pins /\ Meddled(todo[s][k])
    \/ /\ todo[s][k] \in Mine(s)
       /\ \A j \in 1..Len(todo[s]) : todo[s][j] = todo[s][k] => j = k

\* What is held is on the list to be given back, or is left behind.
HoldsMay(s) ==
    /\ Running(s) => /\ held[s] \subseteq May(name[s], step[s])
                     /\ Owned(s) \subseteq May(name[s], step[s]) \cup LeavesBehind(name[s])
    /\ Ending(s) => \A r \in Mine(s) : \/ r \in LeavesBehind(name[s]) \cup Static
                                       \/ \E k \in 1..Len(todo[s]) : todo[s][k] = r
    /\ mode[s] = "out" => Mine(s) \subseteq LeavesBehind(name[s])
    /\ leaked[s] \subseteq LeavesBehind(name[s])

NodeLast(s) == <<name[s], "file">> \notin Premature =>
    /\ s \in opened => Running(s) /\ step[s] = End(name[s]) /\ D(s).node # {}
    /\ mode[s] = "undo" /\ D(s).node # {} => ~(D(s).node \subseteq held[s])

HandlerBacked(s) == <<name[s], "irq">> \notin Premature /\ D(s).irq # {} /\ Ending(s) =>
    \A src \in Sources \cap Mine(s) :
        /\ D(s).irq \subseteq held[s]
        /\ \A k \in 1..Len(todo[s]) : todo[s][k] \in D(s).irq => \E j \in 1..k - 1 : todo[s][j] = src

\* The timer will be stopped after the handler that starts it.
TimerStopped(s) == <<name[s], "timer">> \notin Premature =>
    /\ armed[s] # "running"
    /\ armed[s] # "no" => "timer" \in D(s).irq /\ mode[s] # "out"
    /\ Running(s) /\ armed[s] # "no" => Sources \cap Mine(s) # {}
    /\ Ending(s) /\ "timer" \in D(s).irq /\ (armed[s] # "no" \/ Sources \cap Mine(s) # {}) =>
         \E k \in 1..Len(todo[s]) : todo[s][k] = "timer" /\ AfterSources(todo[s], k, Mine(s))

SlotInv(s) ==
    /\ Where(s)
    /\ name[s] # NULL => /\ HoldsMust(s) /\ BacksOwn(s) /\ HoldsMay(s)
                         /\ NodeLast(s) /\ HandlerBacked(s) /\ TimerStopped(s)

DriversInv == DriversType /\ \A s \in Slot : SlotInv(s)

-----------------------------------------------------------------------------
\* What the steps before step i take, from one step to the next.

LEMMA AfterStart == ASSUME NEW load, NEW K PROVE After(load, 1, K) = {}
BY DEF After

LEMMA AfterStep ==
    ASSUME NEW load, NEW K, "put" \notin K, NEW i \in Nat \ {0}
    PROVE  /\ After(load, i + 1, K) \subseteq After(load, i, K) \cup {load[i].r}
           /\ load[i].kind \notin K => After(load, i + 1, K) \subseteq After(load, i, K)
           /\ load[i].kind = "put" => load[i].r \notin After(load, i + 1, K)
           /\ load[i].kind \in K => load[i].r \in After(load, i + 1, K)
           /\ load[i].kind # "put" => After(load, i, K) \subseteq After(load, i + 1, K)
           /\ After(load, i, K) \ {load[i].r} \subseteq After(load, i + 1, K)
<1> DEFINE Stays(k, n) == \A l \in k + 1..n - 1 : load[l].kind = "put" => load[l].r # load[k].r
<1>1. \A n \in Nat : \A r : r \in After(load, n, K) <=>
        \E k \in 1..n - 1 : load[k].kind \in K /\ Stays(k, n) /\ r = load[k].r
  BY DEF After
<1>2. \A k \in 1..i - 1 : Stays(k, i + 1) => Stays(k, i)
  OBVIOUS
<1>3. \A k \in 1..i - 1 : Stays(k, i) /\ (load[i].kind # "put" \/ load[k].r # load[i].r) => Stays(k, i + 1)
  OBVIOUS
<1>4. \A k \in 1..i - 1 : Stays(k, i + 1) /\ load[i].kind = "put" => load[k].r # load[i].r
  OBVIOUS
<1>5. Stays(i, i + 1) /\ i \in 1..(i + 1) - 1
  OBVIOUS
<1>6. \A k \in 1..(i + 1) - 1 : k \in 1..i - 1 \/ k = i
  OBVIOUS
<1>7. \A k \in 1..i - 1 : k \in 1..(i + 1) - 1
  OBVIOUS
<1>8. i + 1 \in Nat /\ i \in Nat
  OBVIOUS
<1> HIDE DEF Stays
<1>9. \A r : r \in After(load, i + 1, K) <=>
        \E k \in 1..(i + 1) - 1 : load[k].kind \in K /\ Stays(k, i + 1) /\ r = load[k].r
  BY <1>1, <1>8
<1>10. \A r : r \in After(load, i, K) <=>
         \E k \in 1..i - 1 : load[k].kind \in K /\ Stays(k, i) /\ r = load[k].r
  BY <1>1, <1>8
<1>11. /\ After(load, i + 1, K) \subseteq After(load, i, K) \cup {load[i].r}
       /\ load[i].kind \notin K => After(load, i + 1, K) \subseteq After(load, i, K)
  BY <1>2, <1>6, <1>9, <1>10
<1>12. load[i].kind = "put" => load[i].r \notin After(load, i + 1, K)
  BY <1>4, <1>6, <1>9
<1>13. load[i].kind \in K => load[i].r \in After(load, i + 1, K)
  BY <1>5, <1>9
<1>14. /\ load[i].kind # "put" => After(load, i, K) \subseteq After(load, i + 1, K)
       /\ After(load, i, K) \ {load[i].r} \subseteq After(load, i + 1, K)
  BY <1>3, <1>7, <1>9, <1>10
<1> QED BY <1>11, <1>12, <1>13, <1>14

-----------------------------------------------------------------------------
\* How taking and giving back change what the modules hold.

LEMMA TakeMoves ==
    ASSUME DriversType, NEW s \in Slot, NEW r \in Resource, Take(s, r), r \in Shared => owner[r] = NULL,
           held[s] \cap Shared = {}
    PROVE  /\ Mine(s)' = Mine(s) \cup {r} /\ held'[s] \cap Shared = {}
           /\ held'[s] \subseteq held[s] \cup {r} /\ Owned(s)' \subseteq Owned(s) \cup {r}
           /\ \A t \in Slot \ {s} : held'[t] = held[t] /\ Owned(t)' = Owned(t)
           /\ held' \in [Slot -> SUBSET Resource] /\ owner' \in [Shared -> Slot \cup {NULL}]
<1>1. CASE r \in Shared
  <2>1. owner' = [owner EXCEPT ![r] = s] /\ held' = held
    BY <1>1 DEF Take
  <2> QED BY <1>1, <2>1, NullAssumption DEF DriversType, Mine, Owned
<1>2. CASE r \notin Shared
  <2>1. held' = [held EXCEPT ![s] = @ \cup {r}] /\ owner' = owner
    BY <1>2 DEF Take
  <2> QED BY <1>2, <2>1 DEF DriversType, Mine, Owned
<1> QED BY <1>1, <1>2

LEMMA GiveBackMoves ==
    ASSUME DriversType, NEW s \in Slot, NEW r, GiveBack(s, r), held[s] \cap Shared = {}
    PROVE  /\ Mine(s)' = Mine(s) \ {r} /\ held'[s] \subseteq held[s] /\ Owned(s)' \subseteq Owned(s)
           /\ r \notin Shared => held'[s] = held[s] \ {r}
           /\ r \in Shared => held'[s] = held[s]
           /\ \A t \in Slot \ {s} : /\ held'[t] = held[t] /\ Owned(t)' \subseteq Owned(t)
                                    /\ \A x \in Owned(t) \ Owned(t)' : x = r /\ r \in Pins /\ r \notin Mine(s)
           /\ held' \in [Slot -> SUBSET Resource] /\ owner' \in [Shared -> Slot \cup {NULL}]
<1>1. CASE r \in Shared
  <2>1. held' = held /\ owner' = IF r \in Pins \/ owner[r] = s THEN [owner EXCEPT ![r] = NULL] ELSE owner
    BY <1>1 DEF GiveBack
  <2>2. \A t \in Slot : t # NULL
    BY NullAssumption
  <2>3. held' \in [Slot -> SUBSET Resource] /\ owner' \in [Shared -> Slot \cup {NULL}]
    BY <1>1, <2>1 DEF DriversType
  <2>4. \A x \in Shared : owner'[x] = IF x = r /\ (r \in Pins \/ owner[r] = s) THEN NULL ELSE owner[x]
    BY <1>1, <2>1 DEF DriversType
  <2>5. Owned(s)' = Owned(s) \ {r}
    BY <1>1, <2>2, <2>4 DEF Owned
  <2>6. Mine(s)' = Mine(s) \ {r}
    BY <1>1, <2>1, <2>5 DEF Mine
  <2>7. ASSUME NEW t \in Slot \ {s}
        PROVE  /\ Owned(t)' \subseteq Owned(t)
               /\ \A x \in Owned(t) \ Owned(t)' : x = r /\ r \in Pins /\ r \notin Mine(s)
    <3>1. Owned(t)' \subseteq Owned(t)
      BY <2>2, <2>4 DEF Owned
    <3>2. ASSUME NEW x \in Owned(t) \ Owned(t)' PROVE x = r /\ r \in Pins /\ owner[r] = t
      BY <2>4, <3>2 DEF Owned
    <3> QED BY <1>1, <3>1, <3>2 DEF Mine, Owned
  <2> QED BY <1>1, <2>1, <2>3, <2>5, <2>6, <2>7
<1>2. CASE r \notin Shared
  <2>1. held' = [held EXCEPT ![s] = @ \ {r}] /\ owner' = owner
    BY <1>2 DEF GiveBack
  <2> QED BY <1>2, <2>1 DEF DriversType, Mine, Owned
<1> QED BY <1>1, <1>2

\* What another module loses is a pin that was meddled with: then everything said of it stays true.
LEMMA Frame ==
    ASSUME NEW t \in Slot, SlotInv(t), UNCHANGED name,
           mode'[t] = mode[t], step'[t] = step[t], todo'[t] = todo[t], held'[t] = held[t],
           leaked'[t] = leaked[t], t \in opened' <=> t \in opened, armed'[t] = armed[t],
           Owned(t)' \subseteq Owned(t),
           \A x \in Owned(t) \ Owned(t)' : x \in Pins /\ Meddled(x)
    PROVE  SlotInv(t)'
<1>1. /\ Mine(t)' \subseteq Mine(t) /\ \A x \in Mine(t) \ Mine(t)' : x \in Pins /\ Meddled(x)
      /\ Sources \cap Mine(t)' = Sources \cap Mine(t)
  BY DEF Mine, Pins, Sources
<1>2. \A x : Meddled(x)' <=> Meddled(x)
  BY DEF Meddled
<1>3. name'[t] = name[t] /\ D(t)' = D(t)
  BY DEF D
<1>4. Running(t)' = Running(t) /\ Ending(t)' = Ending(t)
  BY DEF Running, Ending
<1>5. Where(t)'
  BY <1>1, <1>3 DEF SlotInv, Where
<1> SUFFICES ASSUME name[t] # NULL
             PROVE  /\ HoldsMust(t)' /\ BacksOwn(t)' /\ HoldsMay(t)'
                    /\ NodeLast(t)' /\ HandlerBacked(t)' /\ TimerStopped(t)'
  BY <1>3, <1>5 DEF SlotInv
<1>6. /\ HoldsMust(t) /\ BacksOwn(t) /\ HoldsMay(t)
      /\ NodeLast(t) /\ HandlerBacked(t) /\ TimerStopped(t)
  BY DEF SlotInv
<1>7. \A r : Has(t, r) => Has(t, r)'
  BY <1>1, <1>2 DEF Has
<1>8. HoldsMust(t)'
  BY <1>3, <1>4, <1>6, <1>7 DEF HoldsMust
<1>9. BacksOwn(t)'
  BY <1>1, <1>2, <1>3, <1>4, <1>6 DEF BacksOwn
<1>10. HoldsMay(t)'
  BY <1>1, <1>3, <1>4, <1>6 DEF HoldsMay
<1>11. NodeLast(t)'
  BY <1>3, <1>4, <1>6 DEF NodeLast
<1>12. HandlerBacked(t)'
  BY <1>1, <1>3, <1>4, <1>6 DEF HandlerBacked
<1>13. \A k : AfterSources(todo[t], k, Mine(t))' <=> AfterSources(todo[t], k, Mine(t))
  BY <1>1 DEF AfterSources
<1>14. TimerStopped(t)'
  BY <1>1, <1>3, <1>4, <1>6, <1>13 DEF TimerStopped
<1> QED BY <1>8, <1>9, <1>10, <1>11, <1>12, <1>14

-----------------------------------------------------------------------------
\* The lists of a module.

LEMMA Lists ==
    ASSUME NEW d \in Module
    PROVE  /\ Len(Drivers[d].load) \in Nat /\ End(d) = Len(Drivers[d].load) + 1
           /\ GivesBackInOrder(d, End(d), Drivers[d].exit)
           /\ May(d, 1) = {} /\ Must(d, 1) = {}
<1>1. Disciplined(d)
  BY ListsAssumption
<1>2. May(d, 1) = {} /\ Must(d, 1) = {}
  BY AfterStart DEF May, Must
<1> QED BY <1>1, <1>2 DEF Disciplined, End

LEMMA Step ==
    ASSUME NEW d \in Module, NEW i \in 1..Len(Drivers[d].load)
    PROVE  LET st == Drivers[d].load[i] IN
           /\ st.kind \in {"get", "check", "try", "sure", "put"} /\ st.r \in Resource
           /\ st.kind \in {"get", "check"} => GivesBackInOrder(d, i, st.undo)
           /\ st.kind = "sure" => st.r \notin Shared
           /\ st.kind = "put"  => st.r \notin Shared \cup Sources
           /\ Must(d, i + 1) \subseteq Must(d, i) \cup {st.r}
           /\ st.kind \notin {"get", "sure"} => Must(d, i + 1) \subseteq Must(d, i)
           /\ st.kind = "put" => st.r \notin Must(d, i + 1)
           /\ st.kind \in Takings => st.r \in May(d, i + 1)
           /\ st.kind # "put" => May(d, i) \subseteq May(d, i + 1)
           /\ May(d, i) \ {st.r} \subseteq May(d, i + 1)
           /\ i \in Nat \ {0} /\ i + 1 \in 1..End(d)
<1> DEFINE load == Drivers[d].load
           st   == load[i]
<1>1. Disciplined(d)
  BY ListsAssumption
<1>2. /\ Len(load) \in Nat /\ End(d) = Len(load) + 1
      /\ load \in Seq([kind : {"get", "check", "try", "sure", "put"}, r : STRING \cup {NULL},
                       undo : Seq(STRING)])
      /\ st.kind \in {"get", "check"} => GivesBackInOrder(d, i, st.undo)
      /\ st.kind = "sure" => st.r \notin Shared
      /\ st.kind = "put"  => st.r \notin Shared \cup Sources
  BY <1>1, Lists DEF Disciplined
<1>3. st.kind \in {"get", "check", "try", "sure", "put"} /\ st.r \in Resource
  <2>1. st \in [kind : {"get", "check", "try", "sure", "put"}, r : STRING \cup {NULL}, undo : Seq(STRING)]
    <3> DEFINE S == [kind : {"get", "check", "try", "sure", "put"}, r : STRING \cup {NULL}, undo : Seq(STRING)]
    <3>1. load \in Seq(S) /\ i \in 1..Len(load)
      BY <1>2
    <3> HIDE DEF load, S
    <3>2. load[i] \in S
      BY <3>1
    <3> QED BY <3>2 DEF S
  <2> HIDE DEF st
  <2> QED BY <2>1 DEF Resource
<1>4. i \in Nat \ {0} /\ i + 1 \in 1..End(d)
  BY <1>2
<1> HIDE DEF load
<1>5. "put" \notin {"get", "sure"} /\ "put" \notin Takings
  BY DEF Takings
<1>6. /\ Must(d, i + 1) \subseteq Must(d, i) \cup {st.r}
      /\ st.kind \notin {"get", "sure"} => Must(d, i + 1) \subseteq Must(d, i)
      /\ st.kind = "put" => st.r \notin Must(d, i + 1)
  <2> DEFINE K == {"get", "sure"}
  <2>1. Must(d, i) = After(load, i, K) /\ Must(d, i + 1) = After(load, i + 1, K)
    BY DEF Must, load
  <2>2. st.kind \notin {"get", "sure"} <=> st.kind \notin K
    OBVIOUS
  <2>3. "put" \notin K
    OBVIOUS
  <2> HIDE DEF K
  <2>4. /\ After(load, i + 1, K) \subseteq After(load, i, K) \cup {load[i].r}
        /\ load[i].kind \notin K => After(load, i + 1, K) \subseteq After(load, i, K)
        /\ load[i].kind = "put" => load[i].r \notin After(load, i + 1, K)
    BY <1>4, <2>3, AfterStep
  <2> QED BY <2>1, <2>2, <2>4
<1>7. /\ st.kind \in Takings => st.r \in May(d, i + 1)
      /\ st.kind # "put" => May(d, i) \subseteq May(d, i + 1)
      /\ May(d, i) \ {st.r} \subseteq May(d, i + 1)
  <2>1. May(d, i) = After(load, i, Takings) /\ May(d, i + 1) = After(load, i + 1, Takings)
    BY DEF May, load
  <2> QED BY <1>4, <1>5, <2>1, AfterStep
<1> QED BY <1>2, <1>3, <1>4, <1>6, <1>7 DEF load

\* A module that begins to give back: what it holds and what the list says belong together.
LEMMA EndingBegins ==
    ASSUME DriversType, NEW s \in Slot, NEW d \in Module, name[s] = d, NEW i, NEW list,
           GivesBackInOrder(d, i, list), Running(s), step[s] = i,
           i \in 1..End(d),
           HoldsMust(s), HoldsMay(s), TimerStopped(s),
           name' = name, mode'[s] \in {"undo", "exit"}, todo'[s] = list,
           UNCHANGED <<held, owner, leaked, armed>>
    PROVE  BacksOwn(s)' /\ HoldsMay(s)' /\ HandlerBacked(s)' /\ TimerStopped(s)' /\ HoldsMust(s)'
<1>1. Mine(s)' = Mine(s) /\ Owned(s)' = Owned(s) /\ D(s)' = D(s) /\ name'[s] = d /\ D(s) = Drivers[d]
  BY DEF Mine, Owned, D
<1>2. ~Running(s)' /\ Ending(s)'
  BY DEF Running, Ending
<1>3. \A r : Meddled(r)' <=> Meddled(r)
  BY DEF Meddled
<1>4. HoldsMust(s)'
  BY <1>2 DEF HoldsMust
<1>5. BacksOwn(s)'
  <2>1. \A r \in Must(d, i) : r \in Mine(s) \/ (r \in Pins /\ Meddled(r))
    BY DEF HoldsMust, Has
  <2>2. \A r : r \in Takes(d) /\ d \in FreesRefused => Meddled(r)
    BY DEF Meddled
  <2>3. \A k \in 1..Len(list) :
          \/ <<d, list[k]>> \in FreesAnyway
          \/ /\ list[k] \in Pins \cap Takes(d) /\ d \in FreesRefused
          \/ /\ list[k] \in Must(d, i) /\ \A j \in 1..Len(list) : list[j] = list[k] => j = k
    BY DEF GivesBackInOrder
  <2>4. \A k \in 1..Len(list) :
          \/ <<d, list[k]>> \in FreesAnyway
          \/ /\ list[k] \in Pins /\ Meddled(list[k])
          \/ /\ list[k] \in Mine(s) /\ \A j \in 1..Len(list) : list[j] = list[k] => j = k
    BY <2>1, <2>2, <2>3
  <2> QED BY <1>1, <1>3, <2>4 DEF BacksOwn
<1>6. Mine(s) \subseteq May(d, i) \cup LeavesBehind(d)
  BY DEF HoldsMay, Mine
<1>7. HoldsMay(s)'
  <2>1. \A r \in May(d, i) : r \in LeavesBehind(d) \cup Static \/ (\E k \in 1..Len(list) : list[k] = r)
    BY DEF GivesBackInOrder
  <2>2. \A r \in Mine(s) : r \in LeavesBehind(d) \cup Static \/ (\E k \in 1..Len(list) : list[k] = r)
    BY <1>6, <2>1
  <2>3. leaked'[s] \subseteq LeavesBehind(d)
    BY DEF HoldsMay
  <2> QED BY <1>1, <1>2, <2>2, <2>3 DEF HoldsMay, Ending
<1>8. Disciplined(d)
  BY ListsAssumption
<1>9. HandlerBacked(s)'
  <2> SUFFICES ASSUME <<d, "irq">> \notin Premature, Drivers[d].irq # {}, NEW src \in Sources \cap Mine(s)
               PROVE  /\ Drivers[d].irq \subseteq held[s]
                      /\ \A k \in 1..Len(list) : list[k] \in Drivers[d].irq =>
                            \E j \in 1..k - 1 : list[j] = src
    BY <1>1 DEF HandlerBacked
  <2>1. /\ LeavesBehind(d) \cap Sources = {}
        /\ \A n \in 1..End(d) : May(d, n) \cap Sources # {} => Drivers[d].irq \subseteq Must(d, n) \ Shared
    BY <1>8 DEF Disciplined
  <2>2. src \in May(d, i) \cap Sources
    BY <1>6, <2>1
  <2>3. Drivers[d].irq \subseteq held[s]
    <3>1. Drivers[d].irq \subseteq Must(d, i) \ Shared
      BY <2>1, <2>2
    <3>2. \A r \in Must(d, i) : r \in Mine(s) \/ r \in Pins
      BY DEF HoldsMust, Has
    <3> QED BY <3>1, <3>2 DEF Mine, Owned, Shared
  <2>4. \A k \in 1..Len(list) : list[k] \in Drivers[d].irq => AfterSources(list, k, May(d, i))
    BY DEF GivesBackInOrder
  <2> QED BY <2>2, <2>3, <2>4 DEF AfterSources
<1>10. TimerStopped(s)'
  <2> SUFFICES ASSUME <<d, "timer">> \notin Premature PROVE TimerStopped(s)'
    BY <1>1 DEF TimerStopped
  <2>1. /\ "timer" \in Drivers[d].irq => LeavesBehind(d) \cap Sources = {}
        /\ armed[s] # "running" /\ armed[s] # "no" => "timer" \in Drivers[d].irq
        /\ armed[s] # "no" => Sources \cap Mine(s) # {}
    BY <1>1, <1>8 DEF Disciplined, TimerStopped
  <2>2. ASSUME "timer" \in Drivers[d].irq, armed[s] # "no" \/ Sources \cap Mine(s) # {}
        PROVE  \E k \in 1..Len(list) : list[k] = "timer" /\ AfterSources(list, k, Mine(s))
    <3>1. Sources \cap Mine(s) # {} /\ Mine(s) \cap Sources \subseteq May(d, i) \cap Sources
      BY <1>6, <2>1, <2>2
    <3>2. PICK k \in 1..Len(list) : list[k] = "timer" /\ AfterSources(list, k, May(d, i))
      BY <2>2, <3>1 DEF GivesBackInOrder
    <3>3. AfterSources(list, k, Mine(s))
      BY <3>1, <3>2 DEF AfterSources
    <3> QED BY <3>2, <3>3
  <2>3. AfterSources(todo[s], 1, Mine(s))' <=> AfterSources(list, 1, Mine(s))
    BY <1>1 DEF AfterSources
  <2>4. \A k : AfterSources(todo[s], k, Mine(s))' <=> AfterSources(list, k, Mine(s))
    BY <1>1 DEF AfterSources
  <2>5. Running(s)' => FALSE
    BY <1>2
  <2>6. /\ armed'[s] = armed[s] /\ todo'[s] = list /\ mode'[s] # "out" /\ D(s)' = Drivers[d]
        /\ armed[s] # "running" /\ (armed[s] # "no" => "timer" \in Drivers[d].irq)
    BY <1>1, <2>1 DEF TimerStopped
  <2> QED BY <1>1, <2>2, <2>4, <2>5, <2>6 DEF TimerStopped
<1> QED BY <1>4, <1>5, <1>7, <1>9, <1>10

-----------------------------------------------------------------------------
\* What each step does to the module that takes it.

LEMMA InsmodSlot ==
    ASSUME DriversType, NEW s \in Slot, SlotInv(s), Insmod(s) PROVE SlotInv(s)'
<1>1. PICK d \in Module : name[s] = d
  BY DEF Insmod, DriversType
<1>2. /\ name' = name /\ step'[s] = step[s] /\ todo'[s] = todo[s] /\ held' = held /\ owner' = owner
      /\ leaked' = leaked /\ opened' = opened /\ armed' = armed
      /\ mode[s] = "out" /\ mode'[s] = "init" /\ armed[s] = "no" /\ s \notin opened /\ d # NULL
  BY <1>1, NullAssumption DEF Insmod, DriversType
<1>3. step[s] = 1 /\ held[s] = {} /\ Mine(s) \subseteq LeavesBehind(d) /\ leaked[s] \subseteq LeavesBehind(d)
  BY <1>1, <1>2 DEF SlotInv, Where, HoldsMay
<1>4. Mine(s)' = Mine(s) /\ Owned(s)' = Owned(s) /\ Owned(s) \subseteq Mine(s) /\ Running(s)' /\ ~Ending(s)'
  BY <1>2 DEF Mine, Owned, Running, Ending
<1>5. 1 \in 1..End(d) /\ May(d, 1) = {} /\ Must(d, 1) = {}
  BY Lists
<1>6. Where(s)'
  BY <1>1, <1>2, <1>3, <1>5 DEF Where
<1>7. HoldsMust(s)' /\ BacksOwn(s)'
  BY <1>1, <1>2, <1>3, <1>4, <1>5 DEF HoldsMust, BacksOwn
<1>8. HoldsMay(s)'
  BY <1>1, <1>2, <1>3, <1>4 DEF HoldsMay
<1>9. NodeLast(s)' /\ HandlerBacked(s)' /\ TimerStopped(s)'
  BY <1>2, <1>4 DEF NodeLast, HandlerBacked, TimerStopped
<1> QED BY <1>6, <1>7, <1>8, <1>9 DEF SlotInv

\* The module whose step of loading succeeds, or is ignored, holds at most what the step takes
\* more, and what the step certainly takes.
LEMMA StepSlot ==
    ASSUME DriversType, NEW s \in Slot, SlotInv(s), Loading(s), step'[s] = step[s] + 1,
           UNCHANGED <<name, mode, todo, leaked, opened, armed>>,
           held'[s] \cap Shared = {},
           LET st == NextStep(s) IN
           \/ /\ st.kind = "put" /\ Mine(s)' = Mine(s) \ {st.r} /\ held'[s] = held[s] \ {st.r}
              /\ Owned(s)' \subseteq Owned(s)
           \/ /\ st.kind # "put" /\ Mine(s)' = Mine(s) /\ held'[s] = held[s] /\ Owned(s)' = Owned(s)
              /\ st.kind \notin {"get", "sure"}
           \/ /\ st.kind \in Takings /\ Mine(s)' = Mine(s) \cup {st.r}
              /\ held'[s] \subseteq held[s] \cup {st.r} /\ Owned(s)' \subseteq Owned(s) \cup {st.r}
    PROVE  SlotInv(s)'
<1>1. mode[s] = "init" /\ name[s] # NULL
  BY DEF Loading, SlotInv, Where
<1>2. PICK d \in Module : name[s] = d
  BY <1>1 DEF DriversType
<1>3. PICK i \in Nat : step[s] = i
  BY DEF DriversType
<1>4. i \in 1..Len(Drivers[d].load)
  BY <1>1, <1>2, <1>3, Lists DEF Loading, D, SlotInv, Where
<1> DEFINE st == Drivers[d].load[i]
<1>5. NextStep(s) = st
  BY <1>2, <1>3 DEF NextStep, D
<1>6. /\ name'[s] = d /\ step'[s] = i + 1 /\ mode'[s] = "init" /\ leaked'[s] = leaked[s]
      /\ armed'[s] = armed[s] /\ (s \in opened' <=> s \in opened) /\ D(s)' = Drivers[d] /\ D(s) = Drivers[d]
      /\ Running(s)' /\ Running(s) /\ ~Ending(s)'
  BY <1>1, <1>2, <1>3 DEF D, Running, Ending
<1>7. /\ st.kind \in {"get", "check", "try", "sure", "put"}
      /\ st.kind = "put"  => st.r \notin Shared \cup Sources
      /\ Must(d, i + 1) \subseteq Must(d, i) \cup {st.r}
      /\ st.kind \notin {"get", "sure"} => Must(d, i + 1) \subseteq Must(d, i)
      /\ st.kind = "put" => st.r \notin Must(d, i + 1)
      /\ st.kind \in Takings => st.r \in May(d, i + 1)
      /\ st.kind # "put" => May(d, i) \subseteq May(d, i + 1)
      /\ May(d, i) \ {st.r} \subseteq May(d, i + 1)
      /\ i + 1 \in 1..End(d)
  BY <1>4, Step
<1>8. \/ /\ st.kind = "put" /\ Mine(s)' = Mine(s) \ {st.r} /\ held'[s] = held[s] \ {st.r}
         /\ Owned(s)' \subseteq Owned(s)
      \/ /\ st.kind # "put" /\ Mine(s)' = Mine(s) /\ held'[s] = held[s] /\ Owned(s)' = Owned(s)
         /\ st.kind \notin {"get", "sure"}
      \/ /\ st.kind \in Takings /\ Mine(s)' = Mine(s) \cup {st.r}
         /\ held'[s] \subseteq held[s] \cup {st.r} /\ Owned(s)' \subseteq Owned(s) \cup {st.r}
  BY <1>5
<1> HIDE DEF st
<1>9. /\ HoldsMust(s) /\ HoldsMay(s) /\ NodeLast(s) /\ TimerStopped(s)
  BY <1>1 DEF SlotInv
<1>10. Where(s)'
  BY <1>2, <1>6, <1>7, NullAssumption DEF Where
<1>11. HoldsMust(s)'
  <2>1. \A r : Meddled(r)' <=> Meddled(r)
    BY DEF Meddled
  <2>2. \A r \in Must(d, i) : Has(s, r)
    BY <1>2, <1>3, <1>6, <1>9 DEF HoldsMust
  <2>3. st.kind = "put" => st.r \notin Pins
    BY <1>7 DEF Shared
  <2> SUFFICES ASSUME NEW r \in Must(d, i + 1) PROVE Has(s, r)'
    BY <1>6 DEF HoldsMust
  <2>4. CASE st.kind = "put"
    <3>1. r \in Must(d, i) /\ r # st.r
      BY <1>7, <2>4
    <3> QED BY <1>8, <2>1, <2>2, <2>4, <3>1 DEF Has, Takings
  <2>5. CASE st.kind # "put"
    BY <1>7, <1>8, <2>1, <2>2, <2>5 DEF Has
  <2> QED BY <2>4, <2>5
<1>12. HoldsMay(s)'
  <2>1. /\ held[s] \subseteq May(d, i) /\ Owned(s) \subseteq May(d, i) \cup LeavesBehind(d)
        /\ leaked[s] \subseteq LeavesBehind(d)
    BY <1>2, <1>3, <1>6, <1>9 DEF HoldsMay
  <2>2. held'[s] \subseteq May(d, i + 1) /\ Owned(s)' \subseteq May(d, i + 1) \cup LeavesBehind(d)
    <3>1. CASE st.kind = "put"
      <4>1. st.r \notin Owned(s)
        BY <1>7, <3>1 DEF Owned
      <4> QED BY <1>7, <1>8, <2>1, <3>1, <4>1 DEF Takings
    <3>2. CASE st.kind # "put"
      BY <1>7, <1>8, <2>1, <3>2
    <3> QED BY <3>1, <3>2
  <2> QED BY <1>6, <2>1, <2>2 DEF HoldsMay
<1>13. NodeLast(s)'
  <2>1. i # End(d)
    BY <1>4, Lists
  <2> QED BY <1>2, <1>3, <1>6, <1>9, <2>1 DEF NodeLast
<1>14. HandlerBacked(s)' /\ BacksOwn(s)'
  BY <1>6 DEF HandlerBacked, BacksOwn
<1>15. TimerStopped(s)'
  <2>1. Sources \cap Mine(s) \subseteq Sources \cap Mine(s)'
    BY <1>7, <1>8
  <2> QED BY <1>2, <1>6, <1>9, <2>1 DEF TimerStopped
<1> QED BY <1>10, <1>11, <1>12, <1>13, <1>14, <1>15 DEF SlotInv

LEMMA LoadedSlot ==
    ASSUME DriversType, NEW s \in Slot, SlotInv(s), Loaded(s) PROVE SlotInv(s)'
<1>1. name[s] # NULL
  BY DEF Loaded, SlotInv, Where
<1>2. PICK d \in Module : name[s] = d
  BY <1>1 DEF DriversType
<1>3. /\ name' = name /\ step' = step /\ todo' = todo /\ held' = held /\ owner' = owner
      /\ leaked' = leaked /\ opened' = opened /\ armed' = armed
      /\ mode[s] = "init" /\ mode'[s] = "in" /\ step[s] > Len(D(s).load)
  BY DEF Loaded, DriversType
<1>4. step[s] = End(d)
  BY <1>2, <1>3, Lists DEF SlotInv, Where, D, DriversType
<1>5. /\ Mine(s)' = Mine(s) /\ Owned(s)' = Owned(s) /\ D(s)' = D(s)
      /\ Running(s) /\ Running(s)' /\ ~Ending(s)' /\ mode'[s] \notin {"undo", "out"}
      /\ \A r : Has(s, r)' <=> Has(s, r)
  BY <1>3 DEF Mine, Owned, D, Running, Ending, Has, Meddled
<1>6. HoldsMust(s) /\ HoldsMay(s) /\ NodeLast(s) /\ TimerStopped(s) /\ Where(s)
  BY <1>1 DEF SlotInv
<1>7. Where(s)'
  BY <1>1, <1>2, <1>3, <1>4, <1>6 DEF Where
<1>8. HoldsMust(s)'
  BY <1>3, <1>5, <1>6 DEF HoldsMust
<1>9. HoldsMay(s)'
  BY <1>3, <1>5, <1>6 DEF HoldsMay
<1>10. NodeLast(s)' /\ HandlerBacked(s)' /\ BacksOwn(s)'
  BY <1>3, <1>5, <1>6 DEF NodeLast, HandlerBacked, BacksOwn
<1>11. TimerStopped(s)'
  BY <1>3, <1>5, <1>6 DEF TimerStopped
<1> QED BY <1>7, <1>8, <1>9, <1>10, <1>11 DEF SlotInv

LEMMA StepFailsSlot ==
    ASSUME DriversType, NEW s \in Slot, SlotInv(s), StepFails(s) PROVE SlotInv(s)'
<1>1. mode[s] = "init" /\ name[s] # NULL
  BY DEF StepFails, Loading, SlotInv, Where
<1>2. PICK d \in Module : name[s] = d
  BY <1>1 DEF DriversType
<1>3. PICK i \in Nat : step[s] = i
  BY DEF DriversType
<1>4. i \in 1..Len(Drivers[d].load) /\ i \in 1..End(d)
  BY <1>1, <1>2, <1>3, Lists DEF StepFails, Loading, D, SlotInv, Where
<1> DEFINE st == Drivers[d].load[i]
<1>5. NextStep(s) = st
  BY <1>2, <1>3 DEF NextStep, D
<1>6. /\ name' = name /\ step' = step /\ mode'[s] = "undo" /\ todo'[s] = st.undo
      /\ held' = held /\ owner' = owner /\ leaked' = leaked /\ opened' = opened /\ armed' = armed
      /\ st.kind \in {"get", "check"}
  BY <1>5 DEF StepFails, DriversType
<1>7. GivesBackInOrder(d, i, st.undo)
  BY <1>4, <1>6, Step
<1>8. HoldsMust(s) /\ HoldsMay(s) /\ NodeLast(s) /\ TimerStopped(s) /\ Where(s) /\ Running(s)
  BY <1>1 DEF SlotInv, Running
<1>9. BacksOwn(s)' /\ HoldsMay(s)' /\ HandlerBacked(s)' /\ TimerStopped(s)' /\ HoldsMust(s)'
  <2> HIDE DEF st
  <2> DEFINE list == st.undo
  <2>1. GivesBackInOrder(d, i, list) /\ mode'[s] \in {"undo", "exit"} /\ todo'[s] = list
    BY <1>6, <1>7
  <2> HIDE DEF list
  <2> QED BY <1>2, <1>3, <1>4, <1>6, <1>8, <2>1, EndingBegins
<1>10. Where(s)'
  BY <1>1, <1>6, <1>8 DEF Where
<1>11. NodeLast(s)'
  <2> SUFFICES ASSUME <<d, "file">> \notin Premature PROVE NodeLast(s)'
    BY <1>2, <1>6 DEF NodeLast
  <2>1. s \notin opened
    BY <1>2, <1>3, <1>4, <1>8, Lists DEF NodeLast
  <2>2. Disciplined(d)
    BY ListsAssumption
  <2>3. Drivers[d].node # {} => ~(Drivers[d].node \subseteq May(d, i))
    BY <1>4, <2>2 DEF Disciplined
  <2>4. held[s] \subseteq May(d, i)
    BY <1>2, <1>3, <1>8 DEF HoldsMay
  <2>5. D(s)' = Drivers[d] /\ held'[s] = held[s] /\ s \notin opened'
    BY <1>2, <1>6, <2>1 DEF D
  <2> QED BY <2>3, <2>4, <2>5 DEF NodeLast
<1> QED BY <1>9, <1>10, <1>11 DEF SlotInv

LEMMA RmmodSlot ==
    ASSUME DriversType, NEW s \in Slot, SlotInv(s), Rmmod(s) PROVE SlotInv(s)'
<1>1. mode[s] = "in" /\ name[s] # NULL
  BY DEF Rmmod, SlotInv, Where
<1>2. PICK d \in Module : name[s] = d
  BY <1>1 DEF DriversType
<1> DEFINE list == Drivers[d].exit
           i    == End(d)
<1>3. /\ name' = name /\ step' = step /\ mode'[s] = "exit" /\ todo'[s] = list /\ s \notin opened
      /\ held' = held /\ owner' = owner /\ leaked' = leaked /\ opened' = opened /\ armed' = armed
  BY <1>2 DEF Rmmod, DriversType, D
<1>4. HoldsMust(s) /\ HoldsMay(s) /\ NodeLast(s) /\ TimerStopped(s) /\ Where(s) /\ Running(s) /\ step[s] = i
  BY <1>1, <1>2 DEF SlotInv, Running, Where
<1>5. GivesBackInOrder(d, i, list) /\ i \in 1..End(d)
  BY Lists
<1>6. BacksOwn(s)' /\ HoldsMay(s)' /\ HandlerBacked(s)' /\ TimerStopped(s)' /\ HoldsMust(s)'
  <2>1. mode'[s] \in {"undo", "exit"}
    BY <1>3
  <2> HIDE DEF list, i
  <2> QED BY <1>2, <1>3, <1>4, <1>5, <2>1, EndingBegins
<1>7. Where(s)'
  BY <1>1, <1>3, <1>4 DEF Where
<1>8. NodeLast(s)'
  BY <1>3 DEF NodeLast
<1> QED BY <1>6, <1>7, <1>8 DEF SlotInv

LEMMA ReleaseSlot ==
    ASSUME DriversType, NEW s \in Slot, SlotInv(s), Release(s),
           Mine(s)' = Mine(s) \ {Head(todo[s])}, held'[s] \subseteq held[s], Owned(s)' \subseteq Owned(s),
           Head(todo[s]) \notin Shared => held'[s] = held[s] \ {Head(todo[s])},
           Head(todo[s]) \in Shared => held'[s] = held[s]
    PROVE  SlotInv(s)'
<1> DEFINE list == todo[s]
           r    == Head(list)
           rest == Tail(list)
<1>1. mode[s] \in {"undo", "exit"} /\ name[s] # NULL
  BY DEF Release, SlotInv, Where
<1>2. PICK d \in Module : name[s] = d
  BY <1>1 DEF DriversType
<1>3. /\ name' = name /\ step' = step /\ mode' = mode /\ todo'[s] = rest /\ leaked' = leaked /\ opened' = opened
      /\ list # <<>> /\ list \in Seq(STRING)
      /\ armed'[s] = IF r = "timer" /\ armed[s] = "armed" THEN "no" ELSE armed[s]
  BY DEF Release, DriversType
<1>4. /\ Len(list) \in Nat \ {0} /\ Len(rest) = Len(list) - 1 /\ r = list[1]
      /\ \A k \in 1..Len(rest) : rest[k] = list[k + 1] /\ k + 1 \in 1..Len(list) /\ k + 1 # 1
  BY <1>3
<1>5. \A k \in 1..Len(list) : k # 1 => k - 1 \in 1..Len(rest) /\ rest[k - 1] = list[k]
  BY <1>4
<1> HIDE DEF list, rest, r
<1>6. /\ ~Running(s) /\ Ending(s) /\ ~Running(s)' /\ Ending(s)' /\ D(s)' = D(s) /\ D(s) = Drivers[d]
      /\ mode'[s] = mode[s] /\ mode[s] # "out" /\ name'[s] = d
  BY <1>1, <1>2, <1>3 DEF Running, Ending, D
<1>7. /\ Where(s) /\ BacksOwn(s) /\ HoldsMay(s) /\ NodeLast(s) /\ HandlerBacked(s) /\ TimerStopped(s)
  BY <1>1 DEF SlotInv
<1>8. Mine(s)' = Mine(s) \ {r} /\ (r \notin Shared => held'[s] = held[s] \ {r}) /\ (r \in Shared => held'[s] = held[s])
  BY DEF r, list
<1>9. Where(s)'
  BY <1>1, <1>3, <1>6, <1>7 DEF Where
<1>10. HoldsMust(s)'
  BY <1>6 DEF HoldsMust
<1>11. BacksOwn(s)'
  <2>1. \A k \in 1..Len(list) :
          \/ <<d, list[k]>> \in FreesAnyway
          \/ /\ list[k] \in Pins /\ Meddled(list[k])
          \/ /\ list[k] \in Mine(s) /\ \A j \in 1..Len(list) : list[j] = list[k] => j = k
    BY <1>2, <1>6, <1>7 DEF BacksOwn, list
  <2>2. \A x : Meddled(x)' <=> Meddled(x)
    BY <1>3 DEF Meddled
  <2>3. ASSUME NEW k \in 1..Len(rest)
        PROVE  \/ <<d, rest[k]>> \in FreesAnyway
               \/ /\ rest[k] \in Pins /\ Meddled(rest[k])
               \/ /\ rest[k] \in Mine(s)' /\ \A j \in 1..Len(rest) : rest[j] = rest[k] => j = k
    <3>1. rest[k] = list[k + 1] /\ k + 1 \in 1..Len(list) /\ 1 \in 1..Len(list) /\ k + 1 # 1
      BY <1>4
    <3>2. \/ <<d, rest[k]>> \in FreesAnyway
          \/ /\ rest[k] \in Pins /\ Meddled(rest[k])
          \/ /\ rest[k] \in Mine(s) /\ \A j \in 1..Len(list) : list[j] = rest[k] => j = k + 1
      BY <2>1, <3>1
    <3>3. ASSUME rest[k] \in Mine(s), \A j \in 1..Len(list) : list[j] = rest[k] => j = k + 1
          PROVE  rest[k] \in Mine(s)' /\ \A j \in 1..Len(rest) : rest[j] = rest[k] => j = k
      <4>1. rest[k] # r
        BY <1>4, <3>1, <3>3
      <4>2. \A j \in 1..Len(rest) : rest[j] = rest[k] => j = k
        BY <1>4, <3>1, <3>3
      <4> QED BY <1>8, <3>3, <4>1, <4>2
    <3> QED BY <3>2, <3>3
  <2> QED BY <1>3, <1>6, <2>2, <2>3 DEF BacksOwn
<1>12. HoldsMay(s)'
  <2>1. \A x \in Mine(s) : x \in LeavesBehind(d) \cup Static \/ \E k \in 1..Len(list) : list[k] = x
    BY <1>2, <1>6, <1>7 DEF HoldsMay, list
  <2>2. ASSUME NEW x \in Mine(s)'
        PROVE  x \in LeavesBehind(d) \cup Static \/ \E k \in 1..Len(rest) : rest[k] = x
    <3>1. x \in Mine(s) /\ x # r
      BY <1>8
    <3>2. ASSUME NEW k \in 1..Len(list), list[k] = x PROVE \E j \in 1..Len(rest) : rest[j] = x
      BY <1>4, <1>5, <3>1, <3>2
    <3> QED BY <2>1, <3>1, <3>2
  <2>3. leaked[s] \subseteq LeavesBehind(d)
    BY <1>2, <1>7 DEF HoldsMay
  <2> QED BY <1>3, <1>6, <2>2, <2>3 DEF HoldsMay
<1>13. NodeLast(s)'
  BY <1>2, <1>3, <1>6, <1>7 DEF NodeLast
<1>14. HandlerBacked(s)'
  <2> SUFFICES ASSUME <<d, "irq">> \notin Premature, Drivers[d].irq # {}, NEW src \in Sources, src \in Mine(s)'
               PROVE  /\ Drivers[d].irq \subseteq held'[s]
                      /\ \A k \in 1..Len(rest) : rest[k] \in Drivers[d].irq => \E j \in 1..k - 1 : rest[j] = src
    BY <1>3, <1>6 DEF HandlerBacked
  <2>1. src \in Mine(s) /\ src # r
    BY <1>8
  <2>2. /\ Drivers[d].irq \subseteq held[s]
        /\ \A k \in 1..Len(list) : list[k] \in Drivers[d].irq => \E j \in 1..k - 1 : list[j] = src
    BY <1>2, <1>6, <1>7, <2>1 DEF HandlerBacked, list
  <2>3. r \notin Drivers[d].irq
    BY <1>4, <2>2
  <2>4. ASSUME NEW k \in 1..Len(rest), rest[k] \in Drivers[d].irq PROVE \E j \in 1..k - 1 : rest[j] = src
    <3>1. PICK j \in 1..(k + 1) - 1 : list[j] = src
      BY <1>4, <2>2, <2>4
    <3>2. j # 1
      BY <1>4, <2>1, <3>1
    <3>3. j \in 1..Len(list) /\ j - 1 \in 1..k - 1
      BY <1>4, <3>1, <3>2
    <3> QED BY <1>5, <3>1, <3>2, <3>3
  <2> QED BY <1>8, <2>2, <2>3, <2>4
<1>15. TimerStopped(s)'
  <2> SUFFICES ASSUME <<d, "timer">> \notin Premature PROVE TimerStopped(s)'
    BY <1>6 DEF TimerStopped
  <2>1. /\ armed[s] # "running" /\ (armed[s] # "no" => "timer" \in Drivers[d].irq)
        /\ "timer" \in Drivers[d].irq /\ (armed[s] # "no" \/ Sources \cap Mine(s) # {}) =>
             \E k \in 1..Len(list) : list[k] = "timer" /\ AfterSources(list, k, Mine(s))
    BY <1>2, <1>6, <1>7 DEF TimerStopped, list
  <2>2. armed[s] \in {"no", "armed", "running"}
    BY DEF DriversType
  <2>3. ASSUME "timer" \in Drivers[d].irq, armed'[s] # "no" \/ Sources \cap Mine(s)' # {}
        PROVE  \E k \in 1..Len(rest) : rest[k] = "timer" /\ AfterSources(rest, k, Mine(s)')
    <3>1. armed[s] # "no" \/ Sources \cap Mine(s) # {}
      BY <1>3, <1>8, <2>3
    <3>2. PICK k \in 1..Len(list) : list[k] = "timer" /\ AfterSources(list, k, Mine(s))
      BY <2>1, <2>3, <3>1
    <3>3. k # 1
      <4> SUFFICES ASSUME k = 1 PROVE FALSE
        OBVIOUS
      <4>1. Mine(s) \cap Sources = {}
        BY <3>2 DEF AfterSources
      <4>2. r = "timer" /\ armed'[s] = "no"
        BY <1>3, <1>4, <2>1, <2>2, <3>2
      <4> QED BY <1>8, <2>3, <4>1, <4>2
    <3>4. k - 1 \in 1..Len(rest) /\ rest[k - 1] = "timer"
      BY <1>5, <3>2, <3>3
    <3>5. AfterSources(rest, k - 1, Mine(s)')
      <4> SUFFICES ASSUME NEW src \in Sources, src \in Mine(s)' PROVE \E j \in 1..(k - 1) - 1 : rest[j] = src
        BY DEF AfterSources
      <4>1. src \in Mine(s) /\ src # r
        BY <1>8
      <4>2. PICK j \in 1..k - 1 : list[j] = src
        BY <3>2, <4>1 DEF AfterSources
      <4>3. j # 1
        BY <1>4, <4>1, <4>2
      <4>4. j \in 1..Len(list) /\ j - 1 \in 1..(k - 1) - 1
        BY <1>4, <3>2, <4>2, <4>3
      <4> QED BY <1>5, <4>2, <4>3, <4>4
    <3> QED BY <3>4, <3>5
  <2>4. \A k : AfterSources(todo[s], k, Mine(s))' <=> AfterSources(rest, k, Mine(s)')
    BY <1>3 DEF AfterSources
  <2>5. armed'[s] # "running" /\ (armed'[s] # "no" => armed[s] # "no")
    BY <1>3, <2>1
  <2> QED BY <1>3, <1>6, <2>1, <2>3, <2>4, <2>5 DEF TimerStopped
<1> QED BY <1>9, <1>10, <1>11, <1>12, <1>13, <1>14, <1>15 DEF SlotInv

LEMMA GoneSlot ==
    ASSUME DriversType, NEW s \in Slot, SlotInv(s), Gone(s) PROVE SlotInv(s)'
<1>1. mode[s] \in {"undo", "exit"} /\ name[s] # NULL /\ todo[s] = <<>>
  BY DEF Gone, SlotInv, Where
<1>2. PICK d \in Module : name[s] = d
  BY <1>1 DEF DriversType
<1>3. /\ name' = name /\ step'[s] = 1 /\ mode'[s] = "out" /\ todo' = todo /\ held'[s] = {} /\ owner' = owner
      /\ leaked'[s] = leaked[s] \cup (Holds(s) \ (Static \cup {"code"})) /\ opened' = opened /\ armed' = armed
  BY DEF Gone, DriversType
<1>4. /\ ~Running(s) /\ Ending(s) /\ ~Running(s)' /\ ~Ending(s)' /\ D(s)' = D(s) /\ D(s) = Drivers[d]
      /\ Owned(s)' = Owned(s) /\ Mine(s)' = Owned(s) /\ Owned(s) \subseteq Mine(s)
  BY <1>1, <1>2, <1>3 DEF Running, Ending, D, Mine, Owned
<1>5. /\ Where(s) /\ HoldsMay(s) /\ NodeLast(s) /\ HandlerBacked(s) /\ TimerStopped(s)
  BY <1>1 DEF SlotInv
<1>6. Where(s)'
  BY <1>1, <1>3, <1>5 DEF Where
<1>7. HoldsMust(s)' /\ BacksOwn(s)' /\ HandlerBacked(s)'
  BY <1>4 DEF HoldsMust, BacksOwn, HandlerBacked
<1>8. HoldsMay(s)'
  <2>1. 1..Len(todo[s]) = {}
    BY <1>1
  <2>2. Mine(s) \subseteq LeavesBehind(d) \cup Static
    BY <1>2, <1>4, <1>5, <2>1 DEF HoldsMay
  <2>3. Holds(s) \subseteq Mine(s) \cup {"code"}
    BY DEF Holds, Mine, Owned
  <2>4. Owned(s) \cap Static = {}
    BY DEF Owned, Shared, Pins, Classes, Static
  <2>5. leaked[s] \subseteq LeavesBehind(d)
    BY <1>2, <1>5 DEF HoldsMay
  <2>6. leaked'[s] \subseteq LeavesBehind(d) /\ Mine(s)' \subseteq LeavesBehind(d)
    BY <1>3, <1>4, <2>2, <2>3, <2>4, <2>5
  <2> QED BY <1>2, <1>3, <1>4, <2>6 DEF HoldsMay
<1>9. NodeLast(s)'
  BY <1>2, <1>3, <1>4, <1>5 DEF NodeLast
<1>10. TimerStopped(s)'
  <2> SUFFICES ASSUME <<d, "timer">> \notin Premature PROVE TimerStopped(s)'
    BY <1>2, <1>3 DEF TimerStopped
  <2>1. 1..Len(todo[s]) = {}
    BY <1>1
  <2>2. armed[s] = "no"
    BY <1>2, <1>4, <1>5, <2>1 DEF TimerStopped
  <2> QED BY <1>3, <1>4, <2>2 DEF TimerStopped
<1> QED BY <1>6, <1>7, <1>8, <1>9, <1>10 DEF SlotInv

\* A node that can be seen belongs to a module that is ready, except where Premature says so.
LEMMA VisibleIsReady ==
    ASSUME DriversType, NEW s \in Slot, SlotInv(s), name[s] # NULL, <<name[s], "file">> \notin Premature,
           CanRun(s, "file")
    PROVE  Running(s) /\ step[s] = End(name[s]) /\ D(s).node # {}
<1>1. PICK d \in Module : name[s] = d
  BY DEF DriversType
<1>2. D(s) = Drivers[d] /\ NodeLast(s) /\ HoldsMay(s) /\ Where(s)
  BY <1>1 DEF D, SlotInv
<1>3. CASE s \in opened
  BY <1>2, <1>3 DEF NodeLast
<1>4. CASE s \notin opened
  <2>1. Drivers[d].node \subseteq held[s] /\ Drivers[d].node # {} /\ mode[s] \in {"init", "undo", "in"}
    BY <1>2, <1>4 DEF CanRun
  <2>2. mode[s] # "undo"
    BY <1>2, <2>1 DEF NodeLast
  <2>3. Running(s)
    BY <2>1, <2>2 DEF Running
  <2>4. CASE mode[s] = "in"
    BY <1>1, <1>2, <2>1, <2>3, <2>4 DEF Where
  <2>5. CASE mode[s] = "init"
    <3>1. PICK i \in 1..End(d) : step[s] = i
      BY <1>1, <1>2, <2>5 DEF Where
    <3>2. Drivers[d].node \subseteq May(d, i)
      BY <1>1, <1>2, <2>1, <2>3, <3>1 DEF HoldsMay
    <3>3. i \notin 1..Len(Drivers[d].load)
      <4>1. Disciplined(d)
        BY ListsAssumption
      <4> QED BY <1>1, <2>1, <3>2, <4>1 DEF Disciplined
    <3>4. i = End(d)
      BY <3>1, <3>3, Lists
    <3> QED BY <1>1, <1>2, <2>1, <2>3, <3>1, <3>4
  <2> QED BY <2>1, <2>2, <2>4, <2>5
<1> QED BY <1>3, <1>4

LEMMA OpenSlot ==
    ASSUME DriversType, NEW s \in Slot, SlotInv(s), Open(s) \/ Close(s) PROVE SlotInv(s)'
<1>1. /\ name' = name /\ mode' = mode /\ step' = step /\ todo' = todo /\ held' = held /\ owner' = owner
      /\ leaked' = leaked /\ armed' = armed /\ name[s] # NULL
      /\ s \in opened' => CanRun(s, "file")
  BY DEF Open, Close, Runs, CanRun
<1>2. /\ Mine(s)' = Mine(s) /\ Owned(s)' = Owned(s) /\ D(s)' = D(s)
      /\ (Running(s)' <=> Running(s)) /\ (Ending(s)' <=> Ending(s)) /\ (\A r : Has(s, r)' <=> Has(s, r))
      /\ \A r : Meddled(r)' <=> Meddled(r)
  BY <1>1 DEF Mine, Owned, D, Running, Ending, Has, Meddled
<1>3. /\ Where(s) /\ HoldsMust(s) /\ BacksOwn(s) /\ HoldsMay(s)
      /\ NodeLast(s) /\ HandlerBacked(s) /\ TimerStopped(s)
  BY <1>1 DEF SlotInv
<1>4. Where(s)'
  BY <1>1, <1>2, <1>3 DEF Where
<1>5. HoldsMust(s)' /\ BacksOwn(s)'
  BY <1>1, <1>2, <1>3 DEF HoldsMust, BacksOwn
<1>6. HoldsMay(s)'
  BY <1>1, <1>2, <1>3 DEF HoldsMay
<1>7. HandlerBacked(s)'
  BY <1>1, <1>2, <1>3 DEF HandlerBacked
<1>8. TimerStopped(s)'
  <2>1. \A k : AfterSources(todo[s], k, Mine(s))' <=> AfterSources(todo[s], k, Mine(s))
    BY <1>1, <1>2 DEF AfterSources
  <2> QED BY <1>1, <1>2, <1>3, <2>1 DEF TimerStopped
<1>9. NodeLast(s)'
  <2>1. <<name[s], "file">> \notin Premature /\ s \in opened' =>
           Running(s) /\ step[s] = End(name[s]) /\ D(s).node # {}
    BY <1>1, VisibleIsReady
  <2> QED BY <1>1, <1>2, <1>3, <2>1 DEF NodeLast
<1> QED BY <1>4, <1>5, <1>6, <1>7, <1>8, <1>9 DEF SlotInv

\* Who may run a handler that starts the timer holds the interrupt and the timer.
LEMMA TimerSlot ==
    ASSUME DriversType, NEW s \in Slot, SlotInv(s), Press(s) \/ Ioctl(s) \/ Fire(s) \/ Rearm(s)
    PROVE  SlotInv(s)'
<1>1. /\ name' = name /\ mode' = mode /\ step' = step /\ todo' = todo /\ held' = held /\ owner' = owner
      /\ leaked' = leaked /\ opened' = opened /\ name[s] # NULL
  BY DEF Press, Ioctl, Fire, Rearm, Runs, CanRun
<1>2. /\ Mine(s)' = Mine(s) /\ Owned(s)' = Owned(s) /\ D(s)' = D(s)
      /\ (Running(s)' <=> Running(s)) /\ (Ending(s)' <=> Ending(s)) /\ (\A r : Has(s, r)' <=> Has(s, r))
      /\ \A r : Meddled(r)' <=> Meddled(r)
  BY <1>1 DEF Mine, Owned, D, Running, Ending, Has, Meddled
<1>3. /\ Where(s) /\ HoldsMust(s) /\ BacksOwn(s) /\ HoldsMay(s)
      /\ NodeLast(s) /\ HandlerBacked(s) /\ TimerStopped(s)
  BY <1>1 DEF SlotInv
<1>4. Where(s)'
  BY <1>1, <1>2, <1>3 DEF Where
<1>5. HoldsMust(s)' /\ BacksOwn(s)'
  BY <1>1, <1>2, <1>3 DEF HoldsMust, BacksOwn
<1>6. HoldsMay(s)'
  BY <1>1, <1>2, <1>3 DEF HoldsMay
<1>7. HandlerBacked(s)' /\ NodeLast(s)'
  BY <1>1, <1>2, <1>3 DEF HandlerBacked, NodeLast
<1>8. TimerStopped(s)'
  <2> SUFFICES ASSUME <<name[s], "timer">> \notin Premature PROVE TimerStopped(s)'
    BY <1>1 DEF TimerStopped
  <2>1. PICK d \in Module : name[s] = d
    BY <1>1 DEF DriversType
  <2>2. \A k : AfterSources(todo[s], k, Mine(s))' <=> AfterSources(todo[s], k, Mine(s))
    BY <1>1, <1>2 DEF AfterSources
  <2>3. Disciplined(d) /\ D(s) = Drivers[d]
    BY <2>1, ListsAssumption DEF D
  <2>4. d # "timer" /\ armed[s] # "running"
    BY <1>3, <2>1, <2>3 DEF Disciplined, TimerStopped
  <2>5. CASE Press(s)
    <3>1. /\ "timer" \in D(s).irq /\ armed'[s] = "armed" /\ Sources \cap Mine(s) # {}
      BY <2>5 DEF Press, Runs, CanRun, DriversType, Mine, Owned, Sources, Shared
    <3>2. mode[s] # "out"
      <4> SUFFICES ASSUME mode[s] = "out" PROVE FALSE
        OBVIOUS
      <4>1. Mine(s) \subseteq LeavesBehind(d)
        BY <1>3, <2>1 DEF HoldsMay
      <4>2. LeavesBehind(d) \cap Sources = {}
        BY <2>1, <2>3, <3>1 DEF Disciplined
      <4> QED BY <3>1, <4>1, <4>2
    <3> QED BY <1>1, <1>2, <1>3, <2>2, <3>1, <3>2 DEF TimerStopped
  <2>6. CASE Fire(s)
    <3>1. armed[s] = "armed" /\ armed'[s] = "no"
      BY <2>1, <2>4, <2>6 DEF Fire, DriversType
    <3> QED BY <1>1, <1>2, <1>3, <2>2, <3>1 DEF TimerStopped
  <2>7. ~Ioctl(s) /\ ~Rearm(s)
    BY <2>1, <2>4 DEF Ioctl, Rearm
  <2> QED BY <2>5, <2>6, <2>7
<1> QED BY <1>4, <1>5, <1>6, <1>7, <1>8 DEF SlotInv

-----------------------------------------------------------------------------
\* The invariant.

LEMMA DriversInitially == Init => DriversInv
<1> SUFFICES ASSUME Init PROVE DriversInv
  OBVIOUS
<1>1. name \in [Slot -> Module \cup {NULL}]
  BY DEF Init
<1>2. /\ mode = [s \in Slot |-> "out"] /\ step = [s \in Slot |-> 1]
      /\ todo = [s \in Slot |-> <<>>] /\ held = [s \in Slot |-> {}]
      /\ owner = [r \in Shared |-> NULL] /\ leaked = [s \in Slot |-> {}]
      /\ opened = {} /\ armed = [s \in Slot |-> "no"]
  BY DEF Init
<1>3. DriversType
  BY <1>1, <1>2 DEF DriversType
<1>4. ASSUME NEW s \in Slot PROVE SlotInv(s)
  <2>1. /\ mode[s] = "out" /\ step[s] = 1 /\ held[s] = {} /\ leaked[s] = {} /\ s \notin opened /\ armed[s] = "no"
        /\ Owned(s) = {} /\ Mine(s) = {}
    BY <1>2, NullAssumption DEF Owned, Mine
  <2>2. ~Running(s) /\ ~Ending(s)
    BY <2>1 DEF Running, Ending
  <2>3. Where(s)
    BY <2>1 DEF Where
  <2>4. HoldsMust(s) /\ BacksOwn(s) /\ HoldsMay(s) /\ NodeLast(s) /\ HandlerBacked(s) /\ TimerStopped(s)
    BY <2>1, <2>2 DEF HoldsMust, BacksOwn, HoldsMay, NodeLast, HandlerBacked, TimerStopped
  <2> QED BY <2>3, <2>4 DEF SlotInv
<1> QED BY <1>3, <1>4 DEF DriversInv

\* A step of one module that takes nothing from the others keeps what is said of them.
LEMMA OthersStay ==
    ASSUME DriversInv, NEW s \in Slot, UNCHANGED name, SlotInv(s)',
           \A t \in Slot \ {s} :
              /\ mode'[t] = mode[t] /\ step'[t] = step[t] /\ todo'[t] = todo[t] /\ held'[t] = held[t]
              /\ leaked'[t] = leaked[t] /\ (t \in opened' <=> t \in opened) /\ armed'[t] = armed[t]
              /\ Owned(t)' \subseteq Owned(t)
              /\ \A x \in Owned(t) \ Owned(t)' : x \in Pins /\ Meddled(x),
           DriversType'
    PROVE  DriversInv'
<1>1. ASSUME NEW t \in Slot \ {s} PROVE SlotInv(t)'
  <2>1. SlotInv(t)
    BY DEF DriversInv
  <2>2. /\ mode'[t] = mode[t] /\ step'[t] = step[t] /\ todo'[t] = todo[t] /\ held'[t] = held[t]
        /\ leaked'[t] = leaked[t] /\ (t \in opened' <=> t \in opened) /\ armed'[t] = armed[t]
        /\ Owned(t)' \subseteq Owned(t)
        /\ \A x \in Owned(t) \ Owned(t)' : x \in Pins /\ Meddled(x)
    OBVIOUS
  <2> QED BY <2>1, <2>2, Frame
<1> QED BY <1>1 DEF DriversInv

\* Insmod, Loaded, StepFails, Rmmod, Open, Close and the timer's steps move nothing that is held.
LEMMA NothingMovesInv ==
    ASSUME DriversInv, NEW s \in Slot,
           \/ Insmod(s) \/ StepFails(s) \/ Loaded(s) \/ Rmmod(s)
           \/ Open(s) \/ Close(s) \/ Press(s) \/ Ioctl(s) \/ Fire(s) \/ Rearm(s)
    PROVE  DriversInv'
<1>1. DriversType /\ SlotInv(s)
  BY DEF DriversInv
<1>2. SlotInv(s)'
  BY <1>1, InsmodSlot, StepFailsSlot, LoadedSlot, RmmodSlot, OpenSlot, TimerSlot
<1>3. UNCHANGED <<name, step, held, owner, leaked>>
  BY DEF Insmod, StepFails, Loaded, Rmmod, Open, Close, Press, Ioctl, Fire, Rearm
<1>4. \A t \in Slot \ {s} : /\ mode'[t] = mode[t] /\ todo'[t] = todo[t]
                            /\ (t \in opened' <=> t \in opened) /\ armed'[t] = armed[t]
  BY <1>1 DEF Insmod, StepFails, Loaded, Rmmod, Open, Close, Press, Ioctl, Fire, Rearm, DriversType
<1>5. \A t : Owned(t)' = Owned(t)
  BY <1>3 DEF Owned
<1>6. DriversType'
  <2>1. CASE Insmod(s) \/ Loaded(s)
    BY <1>1, <2>1 DEF DriversType, Insmod, Loaded
  <2>2. CASE StepFails(s)
    <3>1. name[s] # NULL /\ mode[s] = "init"
      BY <1>1, <2>2 DEF StepFails, Loading, SlotInv, Where
    <3>2. PICK d \in Module : name[s] = d
      BY <1>1, <3>1 DEF DriversType
    <3>3. PICK i \in Nat : step[s] = i
      BY <1>1 DEF DriversType
    <3>4. i \in 1..Len(Drivers[d].load) /\ NextStep(s) = Drivers[d].load[i]
      BY <1>1, <2>2, <3>1, <3>2, <3>3, Lists DEF StepFails, Loading, D, SlotInv, Where, NextStep
    <3>5. GivesBackInOrder(d, i, Drivers[d].load[i].undo)
      BY <2>2, <3>4, Step DEF StepFails
    <3>6. NextStep(s).undo \in Seq(STRING)
      BY <3>4, <3>5 DEF GivesBackInOrder
    <3> QED BY <1>1, <2>2, <3>6 DEF DriversType, StepFails
  <2>3. CASE Rmmod(s)
    <3>1. name[s] # NULL
      BY <1>1, <2>3 DEF Rmmod, SlotInv, Where
    <3>2. PICK d \in Module : name[s] = d
      BY <1>1, <3>1 DEF DriversType
    <3>3. D(s).exit \in Seq(STRING)
      BY <3>2, Lists DEF D, GivesBackInOrder
    <3> QED BY <1>1, <2>3, <3>3 DEF DriversType, Rmmod
  <2>4. CASE Open(s) \/ Close(s)
    BY <1>1, <2>4 DEF DriversType, Open, Close
  <2>5. CASE Press(s) \/ Ioctl(s) \/ Fire(s) \/ Rearm(s)
    BY <1>1, <2>5 DEF DriversType, Press, Ioctl, Fire, Rearm
  <2> QED BY <2>1, <2>2, <2>3, <2>4, <2>5
<1> QED BY <1>2, <1>3, <1>4, <1>5, <1>6, OthersStay

LEMMA GoneInv == ASSUME DriversInv, NEW s \in Slot, Gone(s) PROVE DriversInv'
<1>1. DriversType /\ SlotInv(s)
  BY DEF DriversInv
<1>2. SlotInv(s)'
  BY <1>1, GoneSlot
<1>3. /\ name' = name /\ todo' = todo /\ owner' = owner /\ opened' = opened /\ armed' = armed
      /\ mode' = [mode EXCEPT ![s] = "out"] /\ step' = [step EXCEPT ![s] = 1]
      /\ leaked' = [leaked EXCEPT ![s] = @ \cup (Holds(s) \ (Static \cup {"code"}))]
      /\ held' = [held EXCEPT ![s] = {}]
  BY DEF Gone
<1>4. Holds(s) \ (Static \cup {"code"}) \subseteq Resource
  <2>1. held[s] \subseteq Resource /\ Shared \subseteq Resource
    BY <1>1 DEF DriversType, Resource
  <2> QED BY <2>1 DEF Holds
<1>5. DriversType'
  BY <1>1, <1>3, <1>4 DEF DriversType
<1>6. \A t : Owned(t)' = Owned(t)
  BY <1>3 DEF Owned
<1>7. \A t \in Slot \ {s} : mode'[t] = mode[t] /\ step'[t] = step[t] /\ held'[t] = held[t] /\ leaked'[t] = leaked[t]
  BY <1>1, <1>3 DEF DriversType
<1> QED BY <1>2, <1>3, <1>5, <1>6, <1>7, OthersStay

LEMMA ReleaseInv == ASSUME DriversInv, NEW s \in Slot, Release(s) PROVE DriversInv'
<1> DEFINE r == Head(todo[s])
<1>1. DriversType /\ SlotInv(s) /\ held[s] \cap Shared = {} /\ GiveBack(s, r)
  BY DEF DriversInv, SlotInv, Where, Release
<1>2. /\ Mine(s)' = Mine(s) \ {r} /\ held'[s] \subseteq held[s] /\ Owned(s)' \subseteq Owned(s)
      /\ r \notin Shared => held'[s] = held[s] \ {r}
      /\ r \in Shared => held'[s] = held[s]
      /\ \A t \in Slot \ {s} : /\ held'[t] = held[t] /\ Owned(t)' \subseteq Owned(t)
                               /\ \A x \in Owned(t) \ Owned(t)' : x = r /\ r \in Pins /\ r \notin Mine(s)
      /\ held' \in [Slot -> SUBSET Resource] /\ owner' \in [Shared -> Slot \cup {NULL}]
  BY <1>1, GiveBackMoves
<1>3. SlotInv(s)'
  BY <1>1, <1>2, ReleaseSlot
<1>4. r \in Pins => r \in Mine(s) \/ Meddled(r)
  <2>1. BacksOwn(s) /\ Ending(s) /\ todo[s] # <<>> /\ todo[s] \in Seq(STRING)
    BY <1>1 DEF Release, SlotInv, Where, Ending, DriversType
  <2>2. 1 \in 1..Len(todo[s]) /\ todo[s][1] = r
    BY <2>1
  <2>3. <<name[s], r>> \in FreesAnyway => r \notin Pins
    BY DEF FreesAnyway, Pins
  <2> HIDE DEF r
  <2> QED BY <2>1, <2>2, <2>3 DEF BacksOwn
<1>5. /\ name' = name /\ mode' = mode /\ step' = step /\ leaked' = leaked /\ opened' = opened
      /\ todo' = [todo EXCEPT ![s] = Tail(@)] /\ todo[s] # <<>>
      /\ armed' = [armed EXCEPT ![s] = "no"] \/ armed' = armed
  BY DEF Release
<1>6. Tail(todo[s]) \in Seq(STRING)
  BY <1>1, <1>5 DEF DriversType
<1>7. DriversType'
  BY <1>1, <1>2, <1>5, <1>6 DEF DriversType
<1>8. \A t \in Slot \ {s} : todo'[t] = todo[t] /\ armed'[t] = armed[t]
  BY <1>1, <1>5 DEF DriversType
<1> HIDE DEF r
<1>9. \A t \in Slot \ {s} : \A x \in Owned(t) \ Owned(t)' : x \in Pins /\ Meddled(x)
  BY <1>2, <1>4
<1> QED BY <1>2, <1>3, <1>5, <1>7, <1>8, <1>9, OthersStay

LEMMA StepInv ==
    ASSUME DriversInv, NEW s \in Slot, StepSucceeds(s) \/ StepIgnored(s) PROVE DriversInv'
<1> DEFINE st == NextStep(s)
<1>1. DriversType /\ SlotInv(s) /\ held[s] \cap Shared = {} /\ Loading(s)
  BY DEF DriversInv, SlotInv, Where, StepSucceeds, StepIgnored
<1>2. /\ UNCHANGED <<name, mode, todo, leaked, opened, armed>>
      /\ step' = [step EXCEPT ![s] = @ + 1]
  BY DEF StepSucceeds, StepIgnored
<1>3. PICK d \in Module : name[s] = d
  BY <1>1 DEF DriversType, Loading, SlotInv, Where
<1>4. PICK i \in 1..Len(Drivers[d].load) : step[s] = i
  BY <1>1, <1>3, Lists DEF Loading, D, SlotInv, Where
<1>5. st = Drivers[d].load[i]
  BY <1>3, <1>4 DEF NextStep, D
<1>6. /\ st.kind \in {"get", "check", "try", "sure", "put"} /\ st.r \in Resource
      /\ st.kind = "sure" => st.r \notin Shared
      /\ st.kind = "put"  => st.r \notin Shared \cup Sources
  BY <1>5, Step
<1>7. \/ /\ st.kind \in {"get", "try"} /\ Available(s, st.r) /\ Take(s, st.r)
      \/ /\ st.kind = "sure" /\ Take(s, st.r)
      \/ /\ st.kind = "put" /\ GiveBack(s, st.r)
      \/ /\ st.kind = "check" /\ UNCHANGED <<held, owner>>
      \/ /\ st.kind = "try" /\ UNCHANGED <<held, owner>>
  BY <1>6 DEF StepSucceeds, StepIgnored
<1> HIDE DEF st
<1>8. /\ \/ /\ st.kind = "put" /\ Mine(s)' = Mine(s) \ {st.r} /\ held'[s] = held[s] \ {st.r}
            /\ Owned(s)' \subseteq Owned(s)
         \/ /\ st.kind # "put" /\ Mine(s)' = Mine(s) /\ held'[s] = held[s] /\ Owned(s)' = Owned(s)
            /\ st.kind \notin {"get", "sure"}
         \/ /\ st.kind \in Takings /\ Mine(s)' = Mine(s) \cup {st.r}
            /\ held'[s] \subseteq held[s] \cup {st.r} /\ Owned(s)' \subseteq Owned(s) \cup {st.r}
      /\ held'[s] \cap Shared = {}
      /\ \A t \in Slot \ {s} : held'[t] = held[t] /\ Owned(t)' = Owned(t)
      /\ held' \in [Slot -> SUBSET Resource] /\ owner' \in [Shared -> Slot \cup {NULL}]
  <2>1. CASE st.kind \in Takings /\ (st.r \in Shared => owner[st.r] = NULL) /\ Take(s, st.r)
    BY <1>1, <1>6, <2>1, TakeMoves
  <2>2. CASE st.kind = "put" /\ GiveBack(s, st.r)
    <3>1. st.r \notin Pins
      BY <1>6, <2>2 DEF Shared
    <3>2. /\ Mine(s)' = Mine(s) \ {st.r} /\ held'[s] \subseteq held[s] /\ Owned(s)' \subseteq Owned(s)
          /\ st.r \notin Shared => held'[s] = held[s] \ {st.r}
          /\ \A t \in Slot \ {s} : /\ held'[t] = held[t] /\ Owned(t)' \subseteq Owned(t)
                                   /\ \A x \in Owned(t) \ Owned(t)' : x = st.r /\ st.r \in Pins /\ st.r \notin Mine(s)
          /\ held' \in [Slot -> SUBSET Resource] /\ owner' \in [Shared -> Slot \cup {NULL}]
      BY <1>1, <2>2, GiveBackMoves
    <3>3. \A t \in Slot \ {s} : held'[t] = held[t] /\ Owned(t)' = Owned(t)
      BY <3>1, <3>2
    <3> QED BY <1>1, <1>6, <2>2, <3>2, <3>3
  <2>3. CASE st.kind \in {"check", "try"} /\ UNCHANGED <<held, owner>>
    BY <1>1, <2>3 DEF Mine, Owned, DriversType
  <2>4. \/ /\ st.kind \in Takings /\ (st.r \in Shared => owner[st.r] = NULL) /\ Take(s, st.r)
        \/ /\ st.kind = "put" /\ GiveBack(s, st.r)
        \/ /\ st.kind \in {"check", "try"} /\ UNCHANGED <<held, owner>>
    BY <1>6, <1>7 DEF Takings, Available
  <2> QED BY <2>1, <2>2, <2>3, <2>4
<1>9. SlotInv(s)'
  <2>1. step'[s] = step[s] + 1
    BY <1>1, <1>2 DEF DriversType
  <2> QED BY <1>1, <1>2, <1>8, <2>1, StepSlot DEF st
<1>10. DriversType'
  <2>1. step' \in [Slot -> Nat]
    BY <1>1, <1>2 DEF DriversType
  <2>2. held' \in [Slot -> SUBSET Resource] /\ owner' \in [Shared -> Slot \cup {NULL}]
    BY <1>8
  <2> QED BY <1>1, <1>2, <2>1, <2>2 DEF DriversType
<1>11. \A t \in Slot \ {s} : step'[t] = step[t]
  BY <1>1, <1>2 DEF DriversType
<1> QED BY <1>2, <1>8, <1>9, <1>10, <1>11, OthersStay

LEMMA DriversStep == DriversInv /\ [Next]_vars => DriversInv'
<1> SUFFICES ASSUME DriversInv, [Next]_vars PROVE DriversInv'
  OBVIOUS
<1>1. CASE UNCHANGED vars
  <2>1. DriversType'
    BY <1>1 DEF vars, DriversInv, DriversType
  <2>2. ASSUME NEW t \in Slot PROVE SlotInv(t)'
    <3>1. SlotInv(t) /\ UNCHANGED name
      BY <1>1 DEF vars, DriversInv
    <3>2. /\ mode'[t] = mode[t] /\ step'[t] = step[t] /\ todo'[t] = todo[t] /\ held'[t] = held[t]
          /\ leaked'[t] = leaked[t] /\ (t \in opened' <=> t \in opened) /\ armed'[t] = armed[t]
      BY <1>1 DEF vars
    <3>3. Owned(t)' = Owned(t)
      BY <1>1 DEF vars, Owned
    <3>4. Owned(t)' \subseteq Owned(t) /\ \A x \in Owned(t) \ Owned(t)' : x \in Pins /\ Meddled(x)
      BY <3>3
    <3> QED BY <3>1, <3>2, <3>4, Frame
  <2> QED BY <2>1, <2>2 DEF DriversInv
<1>2. ASSUME NEW s \in Slot, StepSucceeds(s) \/ StepIgnored(s) PROVE DriversInv'
  BY <1>2, StepInv
<1>3. ASSUME NEW s \in Slot, Release(s) PROVE DriversInv'
  BY <1>3, ReleaseInv
<1>4. ASSUME NEW s \in Slot, Gone(s) PROVE DriversInv'
  BY <1>4, GoneInv
<1>5. ASSUME NEW s \in Slot,
             \/ Insmod(s) \/ StepFails(s) \/ Loaded(s) \/ Rmmod(s)
             \/ Open(s) \/ Close(s) \/ Press(s) \/ Ioctl(s) \/ Fire(s) \/ Rearm(s)
      PROVE  DriversInv'
  BY <1>5, NothingMovesInv
<1> QED BY <1>1, <1>2, <1>3, <1>4, <1>5 DEF Next

\* Where every module of the board stands: what it holds, what it must hold, and what of it may run.
THEOREM DriversInvariance == Spec => []DriversInv
BY DriversInitially, DriversStep, PTL DEF Spec

\* Nobody gives back what is another's or what he has given back already.
THEOREM FreeingIsOwn == Spec => []FreesOwn
<1>1. DriversInv => FreesOwn
  <2> SUFFICES ASSUME DriversInv, NEW s \in Slot, Ending(s), todo[s] # <<>>
               PROVE  LET r == Head(todo[s])
                      IN  r \in Holds(s) \/ <<name[s], r>> \in FreesAnyway \/ (r \in Pins /\ Meddled(r))
    BY DEF FreesOwn, Ending
  <2>1. name[s] # NULL /\ BacksOwn(s) /\ todo[s] \in Seq(STRING)
    BY DEF DriversInv, DriversType, SlotInv, Where, Ending
  <2>2. 1 \in 1..Len(todo[s]) /\ todo[s][1] = Head(todo[s])
    BY <2>1
  <2>3. Mine(s) \subseteq Holds(s)
    BY DEF Mine, Owned, Holds
  <2> QED BY <2>1, <2>2, <2>3 DEF BacksOwn
<1> QED BY <1>1, DriversInvariance, PTL

\* What a module leaves behind when it is gone is at most what LeavesBehind names.
THEOREM LittleIsLeft == Spec => []GivesBack
<1>1. DriversInv => GivesBack
  BY DEF DriversInv, GivesBack, SlotInv, Where, HoldsMay
<1> QED BY <1>1, DriversInvariance, PTL

\* File operations, handlers and timers find what they use, but where Premature says otherwise.
THEOREM WhatRunsIsBacked == Spec => []EntriesBacked
<1>1. DriversInv => EntriesBacked
  <2> SUFFICES ASSUME DriversInv, NEW s \in Slot, NEW entry \in {"file", "irq", "timer"},
                      CanRun(s, entry), <<name[s], entry>> \notin Premature
               PROVE  Backed(s, entry)
    BY DEF EntriesBacked
  <2>1. DriversType /\ SlotInv(s) /\ name[s] # NULL
    BY DEF DriversInv, CanRun
  <2>2. PICK d \in Module : name[s] = d
    BY <2>1 DEF DriversType
  <2>3. D(s) = Drivers[d] /\ Disciplined(d) /\ Where(s) /\ HoldsMust(s) /\ HoldsMay(s) /\ HandlerBacked(s) /\ TimerStopped(s)
    BY <2>1, <2>2, ListsAssumption DEF D, SlotInv
  <2>4. \A r \in Mine(s) : r \in Holds(s)
    BY DEF Mine, Owned, Holds
  <2>6. CASE entry = "file"
    <3>1. Running(s) /\ step[s] = End(d) /\ Drivers[d].node # {}
      BY <2>1, <2>2, <2>3, <2>6, VisibleIsReady
    <3>2. Drivers[d].file \ {"code"} \subseteq Must(d, End(d)) \ Shared
      BY <2>2, <2>3, <2>6, <3>1 DEF Disciplined
    <3>3. \A r \in Must(d, End(d)) : Has(s, r)
      BY <2>2, <2>3, <3>1 DEF HoldsMust
    <3>4. \A r : Has(s, r) /\ r \notin Shared => r \in Mine(s)
      BY DEF Has, Shared
    <3>5. "code" \in Holds(s)
      BY <3>1 DEF Running, Holds
    <3> QED BY <2>3, <2>4, <2>6, <3>2, <3>3, <3>4, <3>5 DEF Backed
  <2>7. CASE entry = "irq"
    <3>1. Drivers[d].irq # {} /\ ("irq" \in held[s] \/ owner["key0 irq"] = s)
      BY <2>3, <2>7 DEF CanRun
    <3>2. PICK src \in Sources : src \in Mine(s)
      BY <3>1 DEF Sources, Mine, Owned, Shared
    <3>3. /\ LeavesBehind(d) \cap Sources = {}
          /\ \A i \in 1..End(d) : May(d, i) \cap Sources # {} => Drivers[d].irq \subseteq Must(d, i) \ Shared
      BY <2>2, <2>3, <2>7, <3>1 DEF Disciplined
    <3>4. CASE Running(s)
      <4>1. PICK i \in 1..End(d) : step[s] = i
        <5>1. End(d) \in 1..End(d)
          BY Lists
        <5> QED BY <2>2, <2>3, <3>4, <5>1 DEF Where, Running
      <4>2. src \in May(d, i) \cap Sources
        BY <2>2, <2>3, <3>2, <3>3, <3>4, <4>1 DEF HoldsMay, Mine
      <4>3. Drivers[d].irq \subseteq Must(d, i) \ Shared
        BY <3>3, <4>2
      <4>4. \A r \in Must(d, i) : r \in Mine(s) \/ r \in Pins
        BY <2>2, <2>3, <3>4, <4>1 DEF HoldsMust, Has
      <4> QED BY <2>3, <2>4, <2>7, <4>3, <4>4 DEF Backed, Shared
    <3>5. CASE Ending(s)
      <4>1. Drivers[d].irq \subseteq held[s]
        BY <2>2, <2>3, <2>7, <3>1, <3>2, <3>5 DEF HandlerBacked
      <4> QED BY <2>3, <2>4, <2>7, <4>1 DEF Backed, Mine
    <3>6. mode[s] # "out"
      BY <2>2, <2>3, <3>2, <3>3 DEF HoldsMay
    <3> QED BY <2>1, <3>4, <3>5, <3>6 DEF Running, Ending, DriversType
  <2>8. CASE entry = "timer"
    <3>1. armed[s] # "no"
      BY <2>8 DEF CanRun
    <3>2. mode[s] # "out" /\ "timer" \in Drivers[d].irq
      BY <2>2, <2>3, <2>8, <3>1 DEF TimerStopped
    <3>3. Drivers[d].timer \subseteq {"code"}
      BY <2>2, <2>3, <2>8, <3>2 DEF Disciplined
    <3>4. "code" \in Holds(s)
      BY <3>2 DEF Holds
    <3> QED BY <2>3, <2>8, <3>3, <3>4 DEF Backed
  <2> QED BY <2>6, <2>7, <2>8
<1> QED BY <1>1, DriversInvariance, PTL

-----------------------------------------------------------------------------
\* The key.

\* A program that may rest while a press is noted has been told of it.
KeyInv ==
    /\ way \in Keys!Ways /\ pc \in [Reader -> {"user", "asleep", "value", "status", "clear"}]
    /\ value \in [Reader -> {"push", "release", NULL}]
    /\ key_value \in {"push", "release"} /\ key_status \in {"push", "release", "read"}
    /\ key_status = "push" => key_value = "push"
    /\ \A r \in Reader : pc[r] = "asleep" => way \in {"block", "select", "yield"}
    /\ way = "signal" /\ key_status = "push" =>
         \A r \in Reader : pc[r] = "status" /\ value[r] # "push" => r \in sigio
    /\ Keys!PressIsSeen

LEMMA KeyInitially == Keys!KeyInit => KeyInv
BY DEF Keys!KeyInit, KeyInv, Keys!Ways, Keys!PressIsSeen, Keys!Rests

LEMMA KeyStep == KeyInv /\ [Keys!KeyNext]_(Keys!keyVars) => KeyInv'
<1> SUFFICES ASSUME KeyInv, [Keys!KeyNext]_(Keys!keyVars) PROVE KeyInv'
  OBVIOUS
<1> USE DEF KeyInv, Keys!PressIsSeen, Keys!Rests
<1>1. CASE UNCHANGED Keys!keyVars
  BY <1>1 DEF Keys!keyVars
<1>2. CASE Keys!Edge
  BY <1>2 DEF Keys!Edge
<1>3. CASE Keys!TimerFunc
  <2>1. CASE down
    <3>1. /\ key_value' = "push" /\ key_status' = "push" /\ press' = "owed" /\ UNCHANGED <<way, down, value>>
          /\ \/ way = "ask" /\ UNCHANGED <<pc, sigio>>
             \/ way \in {"block", "select", "yield"} /\ pc' = Keys!Awake /\ UNCHANGED sigio
             \/ way = "signal" /\ sigio' = Reader /\ UNCHANGED pc
      BY <1>3, <2>1 DEF Keys!TimerFunc, Keys!Pushed
    <3>2. CASE way = "ask" /\ UNCHANGED <<pc, sigio>>
      BY <3>1, <3>2
    <3>3. CASE way \in {"block", "select", "yield"} /\ pc' = Keys!Awake /\ UNCHANGED sigio
      <4>1. /\ pc' \in [Reader -> {"user", "asleep", "value", "status", "clear"}]
            /\ \A r \in Reader : pc'[r] # "asleep"
        BY <3>3 DEF Keys!Awake
      <4> QED BY <3>1, <3>3, <4>1
    <3>4. CASE way = "signal" /\ sigio' = Reader /\ UNCHANGED pc
      BY <3>1, <3>4
    <3> QED BY <3>1, <3>2, <3>3, <3>4
  <2>2. CASE ~down
    BY <1>3, <2>2 DEF Keys!TimerFunc, Keys!Released
  <2> QED BY <2>1, <2>2
<1>4. ASSUME NEW r \in Reader,
             \/ Keys!ReadNow(r) \/ Keys!ReadWaits(r) \/ Keys!Select(r) \/ Keys!SelectTimeout(r)
             \/ Keys!ReadYields(r) \/ Keys!Signalled(r)
             \/ Keys!ReadValue(r) \/ Keys!ReadStatus(r) \/ Keys!ReadClear(r)
      PROVE  KeyInv'
  <2> USE DEF Keys!Goto
  <2>1. CASE Keys!ReadNow(r)
    BY <2>1 DEF Keys!ReadNow
  <2>2. CASE Keys!ReadWaits(r)
    BY <2>2 DEF Keys!ReadWaits
  <2>3. CASE Keys!Select(r)
    BY <2>3 DEF Keys!Select
  <2>4. CASE Keys!SelectTimeout(r)
    BY <2>4 DEF Keys!SelectTimeout
  <2>5. CASE Keys!ReadYields(r)
    BY <2>5 DEF Keys!ReadYields
  <2>6. CASE Keys!Signalled(r)
    BY <2>6 DEF Keys!Signalled
  <2>7. CASE Keys!ReadValue(r)
    BY <2>7 DEF Keys!ReadValue
  <2>8. CASE Keys!ReadStatus(r)
    BY <2>8 DEF Keys!ReadStatus
  <2>9. CASE Keys!ReadClear(r)
    BY <2>9 DEF Keys!ReadClear
  <2> QED BY <1>4, <2>1, <2>2, <2>3, <2>4, <2>5, <2>6, <2>7, <2>8, <2>9
<1> QED BY <1>1, <1>2, <1>3, <1>4 DEF Keys!KeyNext

\* While a press of the key is noted no program rests, and the note of one that nobody has been
\* given stays until the key is let go or a reader clears the note of an earlier press with it.
THEOREM NotedPressIsSeen == Keys!KeySpec => []Keys!PressIsSeen
<1>1. KeyInv => Keys!PressIsSeen
  BY DEF KeyInv
<1> QED BY <1>1, KeyInitially, KeyStep, PTL DEF Keys!KeySpec

-----------------------------------------------------------------------------
\* The console: what its variables are, and who sleeps.

Counter == 0..(UINT - 1)

ConsoleType ==
    /\ cbuf \in [0..(INPUT_BUF_SIZE - 1) -> Terminal!Typed]
    /\ rpos \in Counter /\ wpos \in Counter /\ epos \in Counter
    /\ line \in Seq({"a"}) /\ lines \in Seq(Terminal!Typed)
    /\ tx \in Seq({"a"}) /\ busy \in BOOLEAN /\ irq \in BOOLEAN
    /\ pc \in [Proc -> {"idle", "read", "write"}]
    /\ target \in [Proc -> Nat] /\ missing \in [Proc -> Nat] /\ asleep \in [Proc -> BOOLEAN]

\* Who has asked for characters lacks some; who sleeps has asked, and has reason to.
UsersStand ==
    /\ \A p \in Proc : pc[p] # "idle" => missing[p] >= 1
    /\ \A p \in Proc : asleep[p] => \/ pc[p] = "read" /\ rpos = wpos
                                    \/ pc[p] = "write" /\ Len(tx) = UART_TX_BUF_SIZE
    /\ tx # <<>> => busy \/ irq

LEMMA UsersGoOn == ASSUME UsersStand PROVE Terminal!ConsoleGoesOn
BY DEF UsersStand, Terminal!ConsoleGoesOn

LEMMA TailShrinks == \A q \in Seq({"a"}) : q # <<>> => Tail(q) \in Seq({"a"})
OBVIOUS

LEMMA AppendOne == \A q \in Seq({"a"}) : Append(q, "a") \in Seq({"a"}) /\ Append(q, "a") # <<>>
OBVIOUS

\* Whoever is woken does not sleep, and nobody falls asleep.
LEMMA WakeupStands ==
    ASSUME ConsoleType, NEW s, Terminal!Wakeup(s)
    PROVE  /\ asleep' \in [Proc -> BOOLEAN]
           /\ \A p \in Proc : asleep'[p] => asleep[p] /\ pc[p] # s
BY DEF ConsoleType, Terminal!Wakeup

\* uartstart() with the ring q, when nobody sleeps although q has room.
LEMMA StartStands ==
    ASSUME ConsoleType, NEW q \in Seq({"a"}), Terminal!uartstart(q),
           \A p \in Proc : asleep[p] /\ pc[p] = "write" => Len(q) = UART_TX_BUF_SIZE
    PROVE  /\ tx' \in Seq({"a"}) /\ busy' \in BOOLEAN /\ asleep' \in [Proc -> BOOLEAN]
           /\ tx' # <<>> => busy'
           /\ \A p \in Proc : asleep'[p] => /\ asleep[p]
                                            /\ pc[p] = "write" => Len(tx') = UART_TX_BUF_SIZE
<1>1. CASE q = <<>> \/ busy
  BY <1>1 DEF Terminal!uartstart, ConsoleType
<1>2. CASE ~(q = <<>> \/ busy)
  <2>1. tx' = Tail(q) /\ busy' = TRUE /\ Terminal!Wakeup("write")
    BY <1>2 DEF Terminal!uartstart
  <2>2. tx' \in Seq({"a"})
    BY <1>2, <2>1, TailShrinks
  <2> QED BY <2>1, <2>2, WakeupStands
<1> QED BY <1>1, <1>2

\* The end of a call.
LEMMA ReturnStands ==
    ASSUME ConsoleType, NEW p \in Proc, Terminal!Return(p)
    PROVE  /\ pc' \in [Proc -> {"idle", "read", "write"}]
           /\ target' \in [Proc -> Nat] /\ missing' \in [Proc -> Nat]
           /\ pc'[p] = "idle"
           /\ \A q \in Proc \ {p} : pc'[q] = pc[q] /\ missing'[q] = missing[q]
BY DEF ConsoleType, Terminal!Return

LEMMA UsersInitially ==
    ASSUME Terminal!ConsoleAssumption, Terminal!ConsoleInit PROVE ConsoleType /\ UsersStand
<1> USE DEF Terminal!ConsoleInit
<1>1. 0 \in Counter
  BY DEF Terminal!ConsoleAssumption, Counter
<1>2. cbuf \in [0..(INPUT_BUF_SIZE - 1) -> Terminal!Typed]
  BY DEF Terminal!Typed
<1>3. /\ pc \in [Proc -> {"idle", "read", "write"}]
      /\ target \in [Proc -> Nat] /\ missing \in [Proc -> Nat] /\ asleep \in [Proc -> BOOLEAN]
  OBVIOUS
<1>4. rpos \in Counter /\ wpos \in Counter /\ epos \in Counter
  BY <1>1
<1>5. /\ line \in Seq({"a"}) /\ lines \in Seq(Terminal!Typed) /\ tx \in Seq({"a"})
      /\ busy \in BOOLEAN /\ irq \in BOOLEAN
  <2>1. line = <<>> /\ lines = <<>> /\ tx = <<>> /\ busy = FALSE /\ irq = FALSE
    OBVIOUS
  <2>2. <<>> \in Seq({"a"}) /\ <<>> \in Seq(Terminal!Typed)
    OBVIOUS
  <2> QED BY <2>1, <2>2
<1>6. ConsoleType
  BY <1>2, <1>3, <1>4, <1>5 DEF ConsoleType
<1> QED BY <1>6 DEF UsersStand

-----------------------------------------------------------------------------
\* Remainders.

LEMMA ModSmall == \A a \in Nat, n \in Nat \ {0} : a < n => a % n = a
OBVIOUS

LEMMA ModOnce == \A a \in Nat, n \in Nat \ {0} : n <= a /\ a < 2 * n => a % n = a - n
OBVIOUS

LEMMA ModRange == \A a \in Nat, n \in Nat \ {0} : a % n \in 0..(n - 1)
OBVIOUS

LEMMA Times == \A a, n \in Nat : a >= 1 /\ n >= 1 => a * n >= n
OBVIOUS

LEMMA ModDiv == \A a \in Nat, n \in Nat \ {0} : a = n * (a \div n) + (a % n) /\ a \div n \in Nat
OBVIOUS

LEMMA Factor ==
    ASSUME NEW n \in Nat \ {0}, NEW p \in Nat, NEW q \in Nat, p < q
    PROVE  n * p + n <= n * q
<1>1. (q - p) * n >= n
  BY Times
<1>2. (q - p) * n = n * q - n * p
  OBVIOUS
<1>3. n * q \in Nat /\ n * p \in Nat
  OBVIOUS
<1> QED BY <1>1, <1>2, <1>3

LEMMA DivUnique ==
    ASSUME NEW n \in Nat \ {0}, NEW p \in Nat, NEW q \in Nat,
           NEW r \in 0..(n - 1), NEW s \in 0..(n - 1), n * p + r = n * q + s
    PROVE  r = s
<1>0. n * q \in Nat /\ n * p \in Nat
  OBVIOUS
<1>1. ~(p < q)
  BY <1>0, Factor
<1>2. ~(q < p)
  BY <1>0, Factor
<1>3. p = q
  BY <1>1, <1>2
<1> QED BY <1>0, <1>3

LEMMA ModSame ==
    ASSUME NEW a \in Nat, NEW b \in Nat, NEW n \in Nat \ {0}, a < b, b < a + n
    PROVE a % n # b % n
<1> DEFINE p == a \div n
           q == b \div n
<1>1. /\ a = n * p + (a % n) /\ p \in Nat /\ a % n \in Nat
      /\ b = n * q + (b % n) /\ q \in Nat /\ b % n \in Nat
  BY ModDiv, ModRange
<1> HIDE DEF p, q
<1> SUFFICES ASSUME a % n = b % n PROVE FALSE
  OBVIOUS
<1>2. n * q \in Nat /\ n * p \in Nat
  BY <1>1
<1>3. n * p < n * q /\ n * q < n * p + n
  BY <1>1, <1>2
<1>4. ~(p < q) /\ ~(q < p)
  BY <1>1, <1>2, <1>3, Factor
<1> QED BY <1>1, <1>3, <1>4

LEMMA Distrib == \A n, x, y \in Nat : n * (x + y) = n * x + n * y
OBVIOUS

LEMMA ModMod ==
    ASSUME NEW a \in Nat, NEW n \in Nat \ {0}, NEW m \in Nat \ {0}, m % n = 0
    PROVE  (a % m) % n = a % n
<1> DEFINE r == a % m
           h == m \div n
           d == a \div m
<1>1. m = n * h /\ h \in Nat
  BY ModDiv
<1>2. a = m * d + r /\ d \in Nat /\ r \in Nat
  BY ModDiv, ModRange
<1>3. r = n * (r \div n) + (r % n) /\ r \div n \in Nat /\ r % n \in 0..(n-1)
  BY <1>2, ModDiv, ModRange
<1>4. a = n * (a \div n) + (a % n) /\ a \div n \in Nat /\ a % n \in 0..(n-1)
  BY ModDiv, ModRange
<1> HIDE DEF r, h, d
<1>5. m * d = n * (h * d) /\ h * d \in Nat
  BY <1>1, <1>2
<1> DEFINE e == h * d
           g == r \div n
           c == a \div n
<1>6. n * (e + g) = n * e + n * g /\ e + g \in Nat
  <2>1. e \in Nat /\ g \in Nat
    BY <1>3, <1>5
  <2> HIDE DEF e, g
  <2> QED BY <2>1, Distrib
<1>6a. n * e \in Nat /\ n * g \in Nat /\ n * c \in Nat
  BY <1>3, <1>4, <1>5
<1>7. n * (e + g) + (r % n) = n * c + (a % n)
  <2> HIDE DEF e, g, c
  <2>1. a = n * e + (n * g + (r % n))
    BY <1>2, <1>3, <1>5 DEF e, g
  <2> QED BY <2>1, <1>3, <1>4, <1>6, <1>6a DEF c
<1> HIDE DEF e, g, c
<1>8. r % n = a % n
  BY <1>3, <1>4, <1>5, <1>6, <1>7, DivUnique DEF g, c
<1> QED BY <1>8 DEF r

LEMMA ModNegative == \A a \in Int, n \in Nat \ {0} : a < 0 /\ 0 <= a + n => a % n = a + n
OBVIOUS

\* The counters of the console, without the modulus.
LEMMA PlusForm ==
    ASSUME Terminal!ConsoleAssumption, NEW c \in Counter, NEW j \in 0..UINT
    PROVE  Terminal!Plus(c, j) = IF c + j < UINT THEN c + j ELSE c + j - UINT
<1> DEFINE a == c + j
<1>1. UINT \in Nat \ {0} /\ c \in Nat /\ c < UINT /\ j \in Nat /\ j <= UINT /\ a \in Nat /\ a < 2 * UINT
  BY DEF Terminal!ConsoleAssumption, Counter
<1>2. Terminal!Plus(c, j) = a % UINT
  BY DEF Terminal!Plus
<1> HIDE DEF a
<1>3. a < UINT => a % UINT = a
  BY <1>1, ModSmall
<1>4. a >= UINT => a % UINT = a - UINT
  BY <1>1, ModOnce
<1>5. a % UINT = IF a < UINT THEN a ELSE a - UINT
  BY <1>1, <1>3, <1>4
<1> QED BY <1>1, <1>2, <1>5 DEF a

LEMMA MinusForm ==
    ASSUME Terminal!ConsoleAssumption, NEW c \in Counter, NEW j \in 0..UINT
    PROVE  Terminal!Plus(c, -j) = IF j <= c THEN c - j ELSE c - j + UINT
<1> DEFINE a == c + (-j)
<1>1. UINT \in Nat \ {0} /\ c \in Nat /\ c < UINT /\ j \in Nat /\ j <= UINT /\ a \in Int /\ a = c - j
  BY DEF Terminal!ConsoleAssumption, Counter
<1>2. Terminal!Plus(c, -j) = a % UINT
  BY DEF Terminal!Plus
<1> HIDE DEF a
<1>3. a % UINT = IF a >= 0 THEN a ELSE a + UINT
  BY <1>1, ModSmall, ModNegative
<1> QED BY <1>1, <1>2, <1>3

LEMMA UsedForm ==
    ASSUME Terminal!ConsoleAssumption, NEW c \in Counter, NEW d \in Counter
    PROVE  Terminal!Used(d, c) = IF c <= d THEN d - c ELSE d - c + UINT
<1> DEFINE a == d - c
<1>1. UINT \in Nat \ {0} /\ c \in Nat /\ c < UINT /\ d \in Nat /\ d < UINT /\ a \in Int
  BY DEF Terminal!ConsoleAssumption, Counter
<1>2. Terminal!Used(d, c) = a % UINT /\ (c <= d <=> a >= 0) /\ a < UINT /\ a + UINT >= 0
  BY <1>1 DEF Terminal!Used
<1> HIDE DEF a
<1>3. a >= 0 => a % UINT = a
  BY <1>1, <1>2, ModSmall
<1>4. a < 0 => a % UINT = a + UINT
  BY <1>1, <1>2, ModNegative
<1>5. a % UINT = IF a >= 0 THEN a ELSE a + UINT
  BY <1>1, <1>3, <1>4
<1> QED BY <1>2, <1>5 DEF a

\* Counters that are at most a buffer apart.
LEMMA PlusIn ==
    ASSUME Terminal!ConsoleAssumption, NEW c \in Counter, NEW j \in 0..INPUT_BUF_SIZE
    PROVE  Terminal!Plus(c, j) \in Counter /\ j \in 0..UINT
<1>1. j \in 0..UINT /\ UINT \in Nat
  BY DEF Terminal!ConsoleAssumption
<1>2. Terminal!Plus(c, j) = IF c + j < UINT THEN c + j ELSE c + j - UINT
  BY <1>1, PlusForm
<1> QED BY <1>1, <1>2 DEF Counter

LEMMA PlusPlus ==
    ASSUME Terminal!ConsoleAssumption, NEW c \in Counter,
           NEW i \in Nat, NEW j \in Nat, i + j <= INPUT_BUF_SIZE
    PROVE  Terminal!Plus(Terminal!Plus(c, i), j) = Terminal!Plus(c, i + j)
<1>0. i \in 0..INPUT_BUF_SIZE /\ j \in 0..INPUT_BUF_SIZE /\ i + j \in 0..INPUT_BUF_SIZE /\ INPUT_BUF_SIZE \in Nat
  BY DEF Terminal!ConsoleAssumption
<1> DEFINE d == Terminal!Plus(c, i)
<1>1. d \in Counter /\ i \in 0..UINT /\ j \in 0..UINT /\ i + j \in 0..UINT
  BY <1>0, PlusIn
<1>2. d = IF c + i < UINT THEN c + i ELSE c + i - UINT
  BY <1>1, PlusForm
<1>3. Terminal!Plus(c, i + j) = IF c + (i + j) < UINT THEN c + (i + j) ELSE c + (i + j) - UINT
  BY <1>1, PlusForm
<1> HIDE DEF d
<1>4. Terminal!Plus(d, j) = IF d + j < UINT THEN d + j ELSE d + j - UINT
  BY <1>1, PlusForm
<1>5. i + j < UINT /\ UINT \in Nat
  BY <1>0 DEF Terminal!ConsoleAssumption
<1>6. Terminal!Plus(d, j) = Terminal!Plus(c, i + j)
  BY <1>1, <1>2, <1>3, <1>4, <1>5 DEF Counter
<1> QED BY <1>6 DEF d

LEMMA UsedBetween ==
    ASSUME Terminal!ConsoleAssumption, NEW c \in Counter,
           NEW i \in Nat, NEW j \in Nat, i <= j, j <= INPUT_BUF_SIZE
    PROVE  Terminal!Used(Terminal!Plus(c, j), Terminal!Plus(c, i)) = j - i
<1>0. i \in 0..INPUT_BUF_SIZE /\ j \in 0..INPUT_BUF_SIZE /\ INPUT_BUF_SIZE \in Nat
  BY DEF Terminal!ConsoleAssumption
<1> DEFINE d == Terminal!Plus(c, i)
           f == Terminal!Plus(c, j)
<1>1. d \in Counter /\ f \in Counter /\ i \in 0..UINT /\ j \in 0..UINT
  BY <1>0, PlusIn
<1>2. /\ d = IF c + i < UINT THEN c + i ELSE c + i - UINT
      /\ f = IF c + j < UINT THEN c + j ELSE c + j - UINT
  BY <1>1, PlusForm
<1> HIDE DEF d, f
<1>3. Terminal!Used(f, d) = IF d <= f THEN f - d ELSE f - d + UINT
  BY <1>1, UsedForm
<1>4. i < UINT /\ j < UINT /\ UINT \in Nat
  BY <1>0 DEF Terminal!ConsoleAssumption
<1>5. Terminal!Used(f, d) = j - i
  BY <1>1, <1>2, <1>3, <1>4 DEF Counter
<1> QED BY <1>5 DEF d, f

LEMMA PlusMinus ==
    ASSUME Terminal!ConsoleAssumption, NEW c \in Counter,
           NEW i \in Nat, NEW j \in Nat, i <= j, j <= INPUT_BUF_SIZE
    PROVE  Terminal!Plus(Terminal!Plus(c, j), -i) = Terminal!Plus(c, j - i)
<1>0. i \in 0..INPUT_BUF_SIZE /\ j \in 0..INPUT_BUF_SIZE /\ j - i \in 0..INPUT_BUF_SIZE /\ INPUT_BUF_SIZE \in Nat
  BY DEF Terminal!ConsoleAssumption
<1> DEFINE f == Terminal!Plus(c, j)
           h == j - i
<1>1. f \in Counter /\ i \in 0..UINT /\ j \in 0..UINT /\ h \in 0..UINT
  BY <1>0, PlusIn
<1>2. f = IF c + j < UINT THEN c + j ELSE c + j - UINT
  BY <1>1, PlusForm
<1>3. Terminal!Plus(c, h) = IF c + h < UINT THEN c + h ELSE c + h - UINT
  <2> HIDE DEF h
  <2> QED BY <1>1, PlusForm
<1> HIDE DEF f
<1>4. Terminal!Plus(f, -i) = IF i <= f THEN f - i ELSE f - i + UINT
  BY <1>1, MinusForm
<1>5. i < UINT /\ j < UINT /\ UINT \in Nat
  BY <1>0 DEF Terminal!ConsoleAssumption
<1>6. Terminal!Plus(f, -i) = Terminal!Plus(c, h)
  BY <1>1, <1>2, <1>3, <1>4, <1>5 DEF Counter
<1> QED BY <1>6 DEF f, h

LEMMA IndexForm ==
    ASSUME Terminal!ConsoleAssumption, NEW c \in Counter, NEW i \in 0..INPUT_BUF_SIZE
    PROVE  /\ Terminal!Index(Terminal!Plus(c, i)) = (c + i) % INPUT_BUF_SIZE
           /\ Terminal!Index(Terminal!Plus(c, i)) \in 0..(INPUT_BUF_SIZE - 1)
<1> DEFINE a == c + i
<1>1. /\ a \in Nat /\ UINT \in Nat \ {0} /\ INPUT_BUF_SIZE \in Nat \ {0} /\ UINT % INPUT_BUF_SIZE = 0
  BY DEF Terminal!ConsoleAssumption, Counter
<1>2. Terminal!Index(Terminal!Plus(c, i)) = (a % UINT) % INPUT_BUF_SIZE
  BY DEF Terminal!Index, Terminal!Plus
<1> HIDE DEF a
<1>3. (a % UINT) % INPUT_BUF_SIZE = a % INPUT_BUF_SIZE
  BY <1>1, ModMod
<1>4. a % INPUT_BUF_SIZE \in 0..(INPUT_BUF_SIZE - 1)
  BY <1>1, ModRange
<1> QED BY <1>2, <1>3, <1>4 DEF a

LEMMA IndexDiffers ==
    ASSUME Terminal!ConsoleAssumption, NEW c \in Counter,
           NEW i \in Nat, NEW j \in Nat, i < j, j < INPUT_BUF_SIZE
    PROVE  Terminal!Index(Terminal!Plus(c, i)) # Terminal!Index(Terminal!Plus(c, j))
<1>1. i \in 0..INPUT_BUF_SIZE /\ j \in 0..INPUT_BUF_SIZE
  BY DEF Terminal!ConsoleAssumption
<1>2. /\ Terminal!Index(Terminal!Plus(c, i)) = (c + i) % INPUT_BUF_SIZE
      /\ Terminal!Index(Terminal!Plus(c, j)) = (c + j) % INPUT_BUF_SIZE
  BY <1>1, IndexForm
<1> DEFINE a == c + i
           d == c + j
<1>3. a \in Nat /\ d \in Nat /\ INPUT_BUF_SIZE \in Nat \ {0} /\ a < d /\ d < a + INPUT_BUF_SIZE
  BY DEF Terminal!ConsoleAssumption, Counter
<1> HIDE DEF a, d
<1>4. a % INPUT_BUF_SIZE # d % INPUT_BUF_SIZE
  BY <1>3, ModSame
<1> QED BY <1>2, <1>4 DEF a, d

LEMMA PlusZero == ASSUME Terminal!ConsoleAssumption, NEW c \in Counter PROVE Terminal!Plus(c, 0) = c
<1>1. 0 \in 0..UINT /\ c + 0 < UINT /\ c + 0 = c
  BY DEF Terminal!ConsoleAssumption, Counter
<1> QED BY <1>1, PlusForm

-----------------------------------------------------------------------------
\* The console: what is in the line buffer.

Character(s, t, i) == IF i <= Len(s) THEN s[i] ELSE t[i - Len(s)]

\* From the counter c on the buffer has the characters of s, up to w, and those of t, up to d.
Spelled(buffer, c, w, d, s, t) ==
    /\ Len(s) + Len(t) <= INPUT_BUF_SIZE
    /\ w = Terminal!Plus(c, Len(s)) /\ d = Terminal!Plus(c, Len(s) + Len(t))
    /\ \A i \in 1..(Len(s) + Len(t)) :
         buffer[Terminal!Index(Terminal!Plus(c, i - 1))] = Character(s, t, i)

LinesStand == Spelled(cbuf, rpos, wpos, epos, lines, line)

LEMMA SpelledIsIntact ==
    ASSUME Terminal!ConsoleAssumption, ConsoleType, LinesStand PROVE Terminal!LinesIntact
<1> DEFINE L == Len(lines)
           K == Len(line)
<1>1. /\ L \in Nat /\ K \in Nat /\ rpos \in Counter
      /\ L + K <= INPUT_BUF_SIZE /\ wpos = Terminal!Plus(rpos, L) /\ epos = Terminal!Plus(rpos, L + K)
      /\ \A i \in 1..(L + K) : cbuf[Terminal!Index(Terminal!Plus(rpos, i - 1))] = Character(lines, line, i)
  BY DEF ConsoleType, LinesStand, Spelled
<1>2. lines = [i \in 1..L |-> lines[i]] /\ line = [i \in 1..K |-> line[i]]
  BY DEF ConsoleType
<1>3. \A i \in 1..L : Character(lines, line, i) = lines[i]
  BY DEF Character
<1>4. \A i \in 1..K : Character(lines, line, L + i) = line[i]
  <2> SUFFICES ASSUME NEW i \in 1..K PROVE Character(lines, line, L + i) = line[i]
    OBVIOUS
  <2>1. ~(L + i <= L) /\ L + i - L = i
    BY <1>1
  <2> QED BY <2>1 DEF Character
<1> HIDE DEF L, K
<1>5. rpos = Terminal!Plus(rpos, 0) /\ INPUT_BUF_SIZE \in Nat
  BY <1>1, PlusZero DEF Terminal!ConsoleAssumption
<1>6. Terminal!Used(wpos, rpos) = L
  <2>1. 0 \in Nat /\ 0 <= L /\ L <= INPUT_BUF_SIZE /\ L - 0 = L
    BY <1>1, <1>5
  <2> QED BY <1>1, <1>5, <2>1, UsedBetween
<1>7. Terminal!Used(epos, wpos) = K
  <2>1. L \in Nat /\ L + K \in Nat /\ L <= L + K /\ L + K - L = K
    BY <1>1
  <2> QED BY <1>1, <2>1, UsedBetween
<1>8. \A i \in 1..L : cbuf[Terminal!Index(Terminal!Plus(rpos, i - 1))] = lines[i]
  <2> SUFFICES ASSUME NEW i \in 1..L PROVE cbuf[Terminal!Index(Terminal!Plus(rpos, i - 1))] = lines[i]
    OBVIOUS
  <2>1. i \in 1..(L + K)
    BY <1>1
  <2> QED BY <1>1, <1>3, <2>1
<1>9. \A i \in 1..K : cbuf[Terminal!Index(Terminal!Plus(wpos, i - 1))] = line[i]
  <2> SUFFICES ASSUME NEW i \in 1..K PROVE cbuf[Terminal!Index(Terminal!Plus(wpos, i - 1))] = line[i]
    OBVIOUS
  <2>1. /\ i - 1 \in Nat /\ L + (i - 1) <= INPUT_BUF_SIZE /\ L + i \in 1..(L + K)
        /\ L + (i - 1) = (L + i) - 1
    BY <1>1, <1>5
  <2>2. Terminal!Plus(wpos, i - 1) = Terminal!Plus(rpos, L + (i - 1))
    BY <1>1, <2>1, PlusPlus
  <2> QED BY <1>1, <1>4, <2>1, <2>2
<1>10. [i \in 1..Terminal!Used(wpos, rpos) |-> cbuf[Terminal!Index(Terminal!Plus(rpos, i - 1))]] = lines
  BY <1>2, <1>6, <1>8
<1>11. [i \in 1..Terminal!Used(epos, wpos) |-> cbuf[Terminal!Index(Terminal!Plus(wpos, i - 1))]] = line
  BY <1>2, <1>7, <1>9
<1> QED BY <1>10, <1>11 DEF Terminal!LinesIntact, Terminal!Between

\* A character is added at the end; it completes the line or not.
LEMMA SpelledInsert ==
    ASSUME Terminal!ConsoleAssumption, NEW buffer \in [0..(INPUT_BUF_SIZE - 1) -> Terminal!Typed],
           NEW c \in Counter, NEW w, NEW d, NEW s \in Seq(Terminal!Typed), NEW t \in Seq({"a"}),
           Spelled(buffer, c, w, d, s, t), Len(s) + Len(t) < INPUT_BUF_SIZE,
           NEW x \in Terminal!Typed, NEW s2 \in Seq(Terminal!Typed), NEW t2 \in Seq({"a"}), NEW w2,
           Len(s2) + Len(t2) = Len(s) + Len(t) + 1, w2 = Terminal!Plus(c, Len(s2)),
           \A i \in 1..(Len(s) + Len(t)) : Character(s2, t2, i) = Character(s, t, i),
           Character(s2, t2, Len(s) + Len(t) + 1) = x
    PROVE  Spelled([buffer EXCEPT ![Terminal!Index(d)] = x], c, w2, Terminal!Plus(d, 1), s2, t2)
<1> DEFINE u == Len(s) + Len(t)
           b2 == [buffer EXCEPT ![Terminal!Index(d)] = x]
<1>1. /\ u \in Nat /\ d = Terminal!Plus(c, u) /\ INPUT_BUF_SIZE \in Nat /\ u < INPUT_BUF_SIZE
      /\ Len(s2) + Len(t2) = u + 1
      /\ \A i \in 1..u : buffer[Terminal!Index(Terminal!Plus(c, i - 1))] = Character(s, t, i)
      /\ \A i \in 1..u : Character(s2, t2, i) = Character(s, t, i)
      /\ Character(s2, t2, u + 1) = x
  <2>1. INPUT_BUF_SIZE \in Nat /\ u \in Nat
    BY DEF Terminal!ConsoleAssumption
  <2>2. /\ d = Terminal!Plus(c, u)
        /\ \A i \in 1..u : buffer[Terminal!Index(Terminal!Plus(c, i - 1))] = Character(s, t, i)
    BY DEF Spelled
  <2> QED BY <2>1, <2>2
<1> HIDE DEF u
<1>2. u \in 0..INPUT_BUF_SIZE /\ 1 \in Nat /\ u + 1 <= INPUT_BUF_SIZE
  BY <1>1
<1>3. Terminal!Plus(d, 1) = Terminal!Plus(c, u + 1)
  BY <1>1, <1>2, PlusPlus
<1>4. Terminal!Index(d) \in 0..(INPUT_BUF_SIZE - 1)
  BY <1>1, <1>2, IndexForm
<1>5. ASSUME NEW i \in 1..(u + 1)
      PROVE  b2[Terminal!Index(Terminal!Plus(c, i - 1))] = Character(s2, t2, i)
  <2>1. CASE i = u + 1
    <3>1. i - 1 = u
      BY <1>1, <2>1
    <3> QED BY <1>1, <1>4, <2>1, <3>1
  <2>2. CASE i # u + 1
    <3>1. i \in 1..u /\ i - 1 \in Nat /\ i - 1 < u /\ i - 1 \in 0..INPUT_BUF_SIZE
      BY <1>1, <2>2
    <3>2. Terminal!Index(Terminal!Plus(c, i - 1)) # Terminal!Index(Terminal!Plus(c, u))
      BY <1>1, <3>1, IndexDiffers
    <3>3. Terminal!Index(Terminal!Plus(c, i - 1)) \in 0..(INPUT_BUF_SIZE - 1)
      BY <3>1, IndexForm
    <3>4. b2[Terminal!Index(Terminal!Plus(c, i - 1))] = buffer[Terminal!Index(Terminal!Plus(c, i - 1))]
      BY <1>1, <3>2, <3>3
    <3> QED BY <1>1, <3>1, <3>4
  <2> QED BY <2>1, <2>2
<1> HIDE DEF b2
<1>6. Spelled(b2, c, w2, Terminal!Plus(d, 1), s2, t2)
  BY <1>1, <1>2, <1>3, <1>5 DEF Spelled
<1> QED BY <1>6 DEF b2

LEMMA MinIsLeast ==
    ASSUME NEW S \in SUBSET Nat, S # {}
    PROVE  Terminal!Min(S) \in S /\ \A y \in S : Terminal!Min(S) <= y
<1>1. PICK m \in S : \A y \in S : ~(<<y, m>> \in OpToRel(<, Nat))
  BY NatLessThanWellFounded, WFMin
<1>2. \A y \in S : y \in Nat /\ m \in Nat /\ ~(y < m)
  BY <1>1, Zenon DEF OpToRel
<1>3. \A y \in S : m <= y
  BY <1>2
<1> QED BY <1>1, <1>3 DEF Terminal!Min

\* The first characters are read.
LEMMA SpelledTake ==
    ASSUME Terminal!ConsoleAssumption, NEW buffer, NEW c \in Counter, NEW w, NEW d,
           NEW s \in Seq(Terminal!Typed), NEW t \in Seq({"a"}),
           Spelled(buffer, c, w, d, s, t), NEW k \in 0..Len(s)
    PROVE  /\ SubSeq(s, k + 1, Len(s)) \in Seq(Terminal!Typed)
           /\ Spelled(buffer, Terminal!Plus(c, k), w, d, SubSeq(s, k + 1, Len(s)), t)
           /\ Terminal!Plus(c, k) \in Counter
<1> DEFINE L == Len(s)
           K == Len(t)
           z == SubSeq(s, k + 1, Len(s))
           f == Terminal!Plus(c, k)
<1>1. /\ L \in Nat /\ K \in Nat /\ k \in Nat /\ k <= L /\ L + K <= INPUT_BUF_SIZE /\ INPUT_BUF_SIZE \in Nat
      /\ w = Terminal!Plus(c, L) /\ d = Terminal!Plus(c, L + K)
      /\ \A i \in 1..(L + K) : buffer[Terminal!Index(Terminal!Plus(c, i - 1))] = Character(s, t, i)
  BY DEF Spelled, Terminal!ConsoleAssumption
<1>2. /\ z \in Seq(Terminal!Typed) /\ Len(z) = L - k
      /\ \A i \in 1..(L - k) : z[i] = s[k + i]
  <2>1. k + 1 \in Int /\ L \in Int /\ \A i \in (k + 1)..L : s[i] \in Terminal!Typed
    BY <1>1
  <2> HIDE DEF L
  <2>2. /\ SubSeq(s, k + 1, L) \in Seq(Terminal!Typed)
        /\ Len(SubSeq(s, k + 1, L)) = IF k + 1 <= L THEN L - (k + 1) + 1 ELSE 0
        /\ \A i \in 1..(L - (k + 1) + 1) : SubSeq(s, k + 1, L)[i] = s[k + 1 + i - 1]
    BY <2>1, SubSeqProperties
  <2>3. z = SubSeq(s, k + 1, L)
    BY DEF L
  <2> HIDE DEF z
  <2>4. L - (k + 1) + 1 = L - k /\ \A i \in 1..(L - k) : k + 1 + i - 1 = k + i
    BY <1>1
  <2>5. Len(z) = L - k
    BY <1>1, <2>2, <2>3
  <2> QED BY <2>2, <2>3, <2>4, <2>5
<1> HIDE DEF L, K, z
<1>3. k \in 0..INPUT_BUF_SIZE /\ f \in Counter
  BY <1>1, PlusIn
<1>4. w = Terminal!Plus(f, Len(z)) /\ d = Terminal!Plus(f, Len(z) + K) /\ Len(z) + K <= INPUT_BUF_SIZE
  <2>1. /\ L - k \in Nat /\ k + (L - k) = L /\ L - k + K \in Nat /\ k + (L - k + K) = L + K
        /\ k + (L - k) <= INPUT_BUF_SIZE /\ L - k + K <= INPUT_BUF_SIZE
    BY <1>1
  <2>2. Terminal!Plus(f, L - k) = Terminal!Plus(c, k + (L - k))
    BY <1>1, <2>1, PlusPlus
  <2>3. Terminal!Plus(f, L - k + K) = Terminal!Plus(c, k + (L - k + K))
    BY <1>1, <2>1, PlusPlus
  <2> QED BY <1>1, <1>2, <2>1, <2>2, <2>3
<1>5. ASSUME NEW i \in 1..(Len(z) + K)
      PROVE  buffer[Terminal!Index(Terminal!Plus(f, i - 1))] = Character(z, t, i)
  <2>1. /\ i - 1 \in Nat /\ k + (i - 1) = (k + i) - 1 /\ k + i \in 1..(L + K) /\ k + (i - 1) <= INPUT_BUF_SIZE
    <3>1. i \in 1..(L - k + K)
      BY <1>2
    <3>2. L \in Nat /\ K \in Nat /\ k \in Nat /\ k <= L /\ L + K <= INPUT_BUF_SIZE /\ INPUT_BUF_SIZE \in Nat
      BY <1>1
    <3> QED BY <3>1, <3>2
  <2>2. Terminal!Plus(f, i - 1) = Terminal!Plus(c, (k + i) - 1)
    BY <1>1, <2>1, PlusPlus
  <2>3. Character(z, t, i) = Character(s, t, k + i)
    <3>1. (i <= Len(z) <=> k + i <= Len(s)) /\ i - Len(z) = k + i - Len(s) /\ (i <= Len(z) => i \in 1..(L - k))
      BY <1>1, <1>2 DEF L
    <3> QED BY <1>2, <3>1 DEF Character
  <2> QED BY <1>1, <2>1, <2>2, <2>3
<1> QED BY <1>2, <1>3, <1>4, <1>5 DEF Spelled, z, L, K

-----------------------------------------------------------------------------
\* The console's steps.

ConsoleInv == ConsoleType /\ UsersStand /\ LinesStand

LEMMA LinesLengths ==
    ASSUME Terminal!ConsoleAssumption, ConsoleInv
    PROVE  /\ Len(lines) \in Nat /\ Len(line) \in Nat /\ INPUT_BUF_SIZE \in Nat
           /\ Len(lines) + Len(line) <= INPUT_BUF_SIZE
           /\ wpos = Terminal!Plus(rpos, Len(lines))
           /\ epos = Terminal!Plus(rpos, Len(lines) + Len(line))
           /\ Terminal!Used(wpos, rpos) = Len(lines)
           /\ Terminal!Used(epos, rpos) = Len(lines) + Len(line)
<1> DEFINE L == Len(lines)
           K == Len(line)
<1>1. /\ L \in Nat /\ K \in Nat /\ rpos \in Counter /\ INPUT_BUF_SIZE \in Nat
      /\ L + K <= INPUT_BUF_SIZE /\ wpos = Terminal!Plus(rpos, L) /\ epos = Terminal!Plus(rpos, L + K)
  BY DEF ConsoleInv, ConsoleType, LinesStand, Spelled, Terminal!ConsoleAssumption
<1> HIDE DEF L, K
<1>2. rpos = Terminal!Plus(rpos, 0)
  BY <1>1, PlusZero
<1>3. /\ 0 \in Nat /\ 0 <= L /\ L <= INPUT_BUF_SIZE /\ L - 0 = L
      /\ L + K \in Nat /\ 0 <= L + K /\ L + K - 0 = L + K
  BY <1>1
<1>4. Terminal!Used(wpos, rpos) = L /\ Terminal!Used(epos, rpos) = L + K
  BY <1>1, <1>2, <1>3, UsedBetween
<1> QED BY <1>1, <1>4 DEF L, K

\* The completed line, as one sequence with those before.
LEMMA Completed ==
    ASSUME NEW s \in Seq(Terminal!Typed), NEW t \in Seq({"a"}), NEW x \in Terminal!Typed
    PROVE  /\ s \o t \o <<x>> \in Seq(Terminal!Typed)
           /\ Len(s \o t \o <<x>>) = Len(s) + Len(t) + 1
           /\ \A i \in 1..(Len(s) + Len(t)) :
                Character(s \o t \o <<x>>, <<>>, i) = Character(s, t, i)
           /\ Character(s \o t \o <<x>>, <<>>, Len(s) + Len(t) + 1) = x
<1>1. t \in Seq(Terminal!Typed) /\ <<x>> \in Seq(Terminal!Typed) /\ Len(<<x>>) = 1 /\ <<x>>[1] = x
  BY DEF Terminal!Typed
<1> DEFINE y == s \o t
           z == y \o <<x>>
<1>2. /\ y \in Seq(Terminal!Typed) /\ Len(y) = Len(s) + Len(t)
      /\ \A i \in 1..(Len(s) + Len(t)) : y[i] = IF i <= Len(s) THEN s[i] ELSE t[i - Len(s)]
  BY <1>1, ConcatProperties
<1> HIDE DEF y
<1>3. /\ z \in Seq(Terminal!Typed) /\ Len(z) = Len(y) + Len(<<x>>)
      /\ \A i \in 1..(Len(y) + Len(<<x>>)) : z[i] = IF i <= Len(y) THEN y[i] ELSE <<x>>[i - Len(y)]
  BY <1>1, <1>2, ConcatProperties
<1> HIDE DEF z
<1> DEFINE u == Len(s) + Len(t)
<1>4. u \in Nat
  OBVIOUS
<1>5. Len(y) = u /\ Len(z) = u + 1
  BY <1>1, <1>2, <1>3
<1>6. \A i \in 1..u : Character(s, t, i) = y[i]
  BY <1>2 DEF Character
<1> HIDE DEF u
<1>7. \A i \in 1..u : i <= u /\ i \in 1..(u + 1) /\ i <= u + 1
  BY <1>4
<1>8. \A i \in 1..u : z[i] = y[i]
  BY <1>1, <1>3, <1>5, <1>7
<1>9. u + 1 \in 1..(u + 1) /\ ~(u + 1 <= u) /\ u + 1 - u = 1
  BY <1>4
<1>10. z[u + 1] = x
  BY <1>1, <1>3, <1>5, <1>9
<1>11. \A i \in 1..(u + 1) : Character(z, <<>>, i) = z[i]
  BY <1>5, <1>7, <1>9 DEF Character
<1>12. \A i \in 1..u : Character(z, <<>>, i) = Character(s, t, i)
  BY <1>6, <1>7, <1>8, <1>11
<1>13. Character(z, <<>>, u + 1) = x
  BY <1>9, <1>10, <1>11
<1> QED BY <1>3, <1>5, <1>12, <1>13 DEF y, z, u

LEMMA InsertConsole ==
    ASSUME Terminal!ConsoleAssumption, ConsoleInv, NEW x \in Terminal!Typed, Terminal!Insert(x)
    PROVE  ConsoleInv'
<1> DEFINE u == Len(lines) + Len(line)
<1>1. /\ u \in Nat /\ INPUT_BUF_SIZE \in Nat /\ u <= INPUT_BUF_SIZE /\ Terminal!Used(epos, rpos) = u
      /\ epos = Terminal!Plus(rpos, u) /\ wpos = Terminal!Plus(rpos, Len(lines))
  BY LinesLengths
<1>2. /\ x \in {"a", "\n", "^D"} /\ Terminal!Used(epos, rpos) < INPUT_BUF_SIZE
      /\ busy' = TRUE /\ UNCHANGED <<tx, irq, rpos, pc, target, missing, killed>>
      /\ cbuf' = [cbuf EXCEPT ![Terminal!Index(epos)] = x] /\ epos' = Terminal!Plus(epos, 1)
      /\ IF x \in {"\n", "^D"} \/ Terminal!Used(epos', rpos) = INPUT_BUF_SIZE
         THEN /\ wpos' = epos' /\ Terminal!Wakeup("read")
              /\ lines' = lines \o line \o <<x>> /\ line' = <<>>
         ELSE line' = Append(line, x) /\ UNCHANGED <<wpos, lines, asleep>>
  BY DEF Terminal!Insert, Terminal!Echo
<1>3. /\ cbuf \in [0..(INPUT_BUF_SIZE - 1) -> Terminal!Typed] /\ rpos \in Counter
      /\ lines \in Seq(Terminal!Typed) /\ line \in Seq({"a"})
      /\ Spelled(cbuf, rpos, wpos, epos, lines, line)
  BY DEF ConsoleInv, ConsoleType, LinesStand
<1>4. u < INPUT_BUF_SIZE /\ u + 1 \in 0..INPUT_BUF_SIZE /\ u \in 0..INPUT_BUF_SIZE /\ u + 1 <= INPUT_BUF_SIZE /\ 1 \in Nat
  BY <1>1, <1>2
<1>5. epos' = Terminal!Plus(rpos, u + 1) /\ epos' \in Counter
  <2> HIDE DEF u
  <2> QED BY <1>1, <1>2, <1>3, <1>4, PlusPlus, PlusIn
<1>6. cbuf' \in [0..(INPUT_BUF_SIZE - 1) -> Terminal!Typed]
  BY <1>2, <1>3
<1>7. CASE x \in {"\n", "^D"} \/ Terminal!Used(epos', rpos) = INPUT_BUF_SIZE
  <2>1. wpos' = epos' /\ Terminal!Wakeup("read") /\ lines' = lines \o line \o <<x>> /\ line' = <<>>
    BY <1>2, <1>7
  <2>2. /\ lines' \in Seq(Terminal!Typed) /\ Len(lines') = Len(lines) + Len(line) + 1
        /\ \A i \in 1..(Len(lines) + Len(line)) : Character(lines', <<>>, i) = Character(lines, line, i)
        /\ Character(lines', <<>>, Len(lines) + Len(line) + 1) = x
    BY <1>3, <2>1, Completed
  <2>3. line' \in Seq({"a"}) /\ Len(line') = 0 /\ Len(lines') + Len(line') = Len(lines) + Len(line) + 1
    BY <1>3, <2>1, <2>2
  <2>4. wpos' = Terminal!Plus(rpos, Len(lines'))
    BY <1>5, <2>1, <2>2
  <2>5. Spelled(cbuf', rpos, wpos', epos', lines', line')
    <3>1. PICK s2, t2, w2 : s2 = lines' /\ t2 = line' /\ w2 = wpos'
      OBVIOUS
    <3>2. /\ s2 \in Seq(Terminal!Typed) /\ t2 \in Seq({"a"}) /\ Len(s2) + Len(t2) = Len(lines) + Len(line) + 1
          /\ w2 = Terminal!Plus(rpos, Len(s2)) /\ Len(lines) + Len(line) < INPUT_BUF_SIZE
          /\ \A i \in 1..(Len(lines) + Len(line)) : Character(s2, t2, i) = Character(lines, line, i)
          /\ Character(s2, t2, Len(lines) + Len(line) + 1) = x
      BY <1>4, <2>1, <2>2, <2>3, <2>4, <3>1
    <3>3. Spelled([cbuf EXCEPT ![Terminal!Index(epos)] = x], rpos, w2, Terminal!Plus(epos, 1), s2, t2)
      BY <1>3, <3>2, SpelledInsert
    <3> QED BY <1>2, <3>1, <3>3
  <2>6. asleep' \in [Proc -> BOOLEAN] /\ \A p \in Proc : asleep'[p] => asleep[p] /\ pc[p] # "read"
    BY <2>1, WakeupStands DEF ConsoleInv
  <2>7. ConsoleType'
    BY <1>2, <1>5, <1>6, <2>1, <2>2, <2>3, <2>6 DEF ConsoleInv, ConsoleType
  <2>8. UsersStand'
    BY <1>2, <2>6 DEF ConsoleInv, UsersStand
  <2> QED BY <1>2, <2>5, <2>7, <2>8 DEF ConsoleInv, LinesStand
<1>8. CASE ~(x \in {"\n", "^D"} \/ Terminal!Used(epos', rpos) = INPUT_BUF_SIZE)
  <2>1. line' = Append(line, x) /\ UNCHANGED <<wpos, lines, asleep>> /\ x = "a"
    BY <1>2, <1>8
  <2>2. line' \in Seq({"a"}) /\ Len(line') = Len(line) + 1
        /\ (\A i \in 1..Len(line) : line'[i] = line[i]) /\ line'[Len(line) + 1] = x
    BY <1>3, <2>1
  <2>3. /\ \A i \in 1..(Len(lines) + Len(line)) : Character(lines, line', i) = Character(lines, line, i)
        /\ Character(lines, line', Len(lines) + Len(line) + 1) = x
    <3> DEFINE L == Len(lines)
               K == Len(line)
    <3>1. L \in Nat /\ K \in Nat
      BY <1>3
    <3> HIDE DEF L, K
    <3>2. \A i \in 1..(L + K) : ~(i <= L) => i - L \in 1..K
      BY <3>1
    <3>3. ~(L + K + 1 <= L) /\ L + K + 1 - L = K + 1
      BY <3>1
    <3> QED BY <2>2, <3>2, <3>3 DEF L, K, Character
  <2>4. Spelled(cbuf', rpos, wpos, epos', lines, line')
    <3>1. PICK t2 : t2 = line'
      OBVIOUS
    <3>2. /\ t2 \in Seq({"a"}) /\ Len(lines) + Len(t2) = Len(lines) + Len(line) + 1
          /\ Len(lines) + Len(line) < INPUT_BUF_SIZE
          /\ \A i \in 1..(Len(lines) + Len(line)) : Character(lines, t2, i) = Character(lines, line, i)
          /\ Character(lines, t2, Len(lines) + Len(line) + 1) = x
      <4>1. Len(lines) \in Nat /\ Len(line) \in Nat
        BY <1>3
      <4>2. Len(t2) = Len(line) + 1 /\ t2 \in Seq({"a"})
        BY <2>2, <3>1
      <4>3. Len(lines) + Len(t2) = Len(lines) + Len(line) + 1
        BY <4>1, <4>2
      <4> QED BY <1>4, <2>3, <3>1, <4>2, <4>3
    <3>3. Spelled([cbuf EXCEPT ![Terminal!Index(epos)] = x], rpos, wpos, Terminal!Plus(epos, 1), lines, t2)
      BY <1>1, <1>3, <3>2, SpelledInsert
    <3> QED BY <1>2, <3>1, <3>3
  <2>5. ConsoleType'
    BY <1>2, <1>5, <1>6, <2>1, <2>2 DEF ConsoleInv, ConsoleType
  <2>6. UsersStand'
    BY <1>2, <2>1 DEF ConsoleInv, UsersStand
  <2> QED BY <1>2, <2>1, <2>4, <2>5, <2>6 DEF ConsoleInv, LinesStand
<1> QED BY <1>7, <1>8

\* The line is cut; all its characters are alike.
LEMMA CutConsole ==
    ASSUME Terminal!ConsoleAssumption, ConsoleInv, NEW k \in 0..Len(line), line' \in Seq({"a"}), Len(line') = k,
           epos' = Terminal!Plus(epos, -(Len(line) - k)), Terminal!Echo,
           UNCHANGED <<cbuf, rpos, wpos, lines, pc, target, missing, asleep, killed>>
    PROVE  ConsoleInv'
<1> DEFINE L == Len(lines)
           K == Len(line)
<1>1. /\ L \in Nat /\ K \in Nat /\ k \in Nat /\ k <= K /\ INPUT_BUF_SIZE \in Nat /\ L + K <= INPUT_BUF_SIZE
      /\ epos = Terminal!Plus(rpos, L + K) /\ rpos \in Counter
  BY LinesLengths DEF ConsoleInv, ConsoleType
<1>2. epos' = Terminal!Plus(rpos, L + k)
  <2> HIDE DEF L, K
  <2>1. PICK m : m = K - k
    OBVIOUS
  <2>2. m \in Nat /\ L + K \in Nat /\ m <= L + K /\ L + K - m = L + k
    BY <1>1, <2>1
  <2>3. Terminal!Plus(epos, -m) = Terminal!Plus(rpos, L + K - m)
    BY <1>1, <2>2, PlusMinus
  <2>4. epos' = Terminal!Plus(epos, -m)
    BY <2>1 DEF K
  <2> QED BY <2>2, <2>3, <2>4
<1>3. epos' \in Counter
  <2>1. L + k \in 0..INPUT_BUF_SIZE
    BY <1>1
  <2> QED BY <1>1, <1>2, <2>1, PlusIn
<1>4. tx' = tx /\ irq' = irq /\ busy' = TRUE
  BY DEF Terminal!Echo
<1>5. ConsoleType'
  BY <1>3, <1>4 DEF ConsoleInv, ConsoleType
<1>6. UsersStand'
  BY <1>4 DEF ConsoleInv, UsersStand
<1>7. Spelled(cbuf, rpos, wpos, epos', lines, line')
  <2>1. PICK t : t = line'
    OBVIOUS
  <2>2. /\ L + K <= INPUT_BUF_SIZE /\ wpos = Terminal!Plus(rpos, L)
        /\ \A i \in 1..(L + K) : cbuf[Terminal!Index(Terminal!Plus(rpos, i - 1))] = Character(lines, line, i)
    BY DEF ConsoleInv, LinesStand, Spelled
  <2>3. ASSUME NEW i \in 1..(L + k) PROVE i \in 1..(L + K) /\ Character(lines, line, i) = Character(lines, t, i)
    <3> DEFINE j == i - L
    <3>1. i \in 1..(L + K) /\ (~(i <= L) => j \in 1..K /\ j \in 1..k)
      BY <1>1
    <3>2. t \in Seq({"a"}) /\ Len(t) = k /\ line \in Seq({"a"})
      BY <2>1 DEF ConsoleInv, ConsoleType
    <3> HIDE DEF j
    <3>3. ~(i <= L) => line[j] = t[j]
      BY <3>1, <3>2
    <3> QED BY <3>1, <3>3 DEF Character, j
  <2>4. /\ Len(t) = k /\ L + k <= INPUT_BUF_SIZE
        /\ \A i \in 1..(L + k) : cbuf[Terminal!Index(Terminal!Plus(rpos, i - 1))] = Character(lines, t, i)
    BY <1>1, <2>1, <2>2, <2>3
  <2> QED BY <1>2, <2>1, <2>2, <2>4 DEF Spelled
<1> QED BY <1>5, <1>6, <1>7 DEF ConsoleInv, LinesStand

LEMMA BackspaceConsole ==
    ASSUME Terminal!ConsoleAssumption, ConsoleInv, Terminal!Backspace
    PROVE  ConsoleInv'
<1> DEFINE K == Len(line)
<1>1. /\ epos # wpos /\ Terminal!Echo /\ epos' = Terminal!Plus(epos, -1)
      /\ line' = SubSeq(line, 1, K - 1)
      /\ UNCHANGED <<cbuf, rpos, wpos, lines, pc, target, missing, asleep, killed>>
  BY DEF Terminal!Backspace, Terminal!Front, Terminal!userVars
<1>2. K \in Nat /\ line \in Seq({"a"})
  BY DEF ConsoleInv, ConsoleType
<1>3. K # 0
  <2> SUFFICES ASSUME K = 0 PROVE FALSE
    OBVIOUS
  <2>1. Len(lines) + Len(line) = Len(lines)
    BY LinesLengths
  <2> QED BY <1>1, <2>1, LinesLengths
<1>4. line' \in Seq({"a"}) /\ Len(line') = K - 1
  <2>1. 1 \in Int /\ K - 1 \in Int /\ \A i \in 1..(K - 1) : line[i] \in {"a"}
    BY <1>2
  <2> HIDE DEF K
  <2>2. /\ SubSeq(line, 1, K - 1) \in Seq({"a"})
        /\ Len(SubSeq(line, 1, K - 1)) = IF 1 <= K - 1 THEN K - 1 - 1 + 1 ELSE 0
    BY <2>1, SubSeqProperties
  <2>3. (IF 1 <= K - 1 THEN K - 1 - 1 + 1 ELSE 0) = K - 1
    BY <1>2, <1>3
  <2> QED BY <1>1, <2>2, <2>3
<1>5. K - 1 \in 0..K /\ -(K - (K - 1)) = -1
  BY <1>2, <1>3
<1> QED BY <1>1, <1>4, <1>5, CutConsole

\* The last character of which control-U has still to be told is the first of the line.
LEMMA KillFindsLine ==
    ASSUME Terminal!ConsoleAssumption, ConsoleInv, NEW k \in 0..Len(line)
    PROVE  \/ Terminal!Plus(epos, -k) = wpos
           \/ cbuf[Terminal!Index(Terminal!Plus(epos, -k - 1))] = "\n"
           <=> k = Len(line)
<1> DEFINE L == Len(lines)
           K == Len(line)
<1>1. /\ L \in Nat /\ K \in Nat /\ k \in Nat /\ k <= K /\ INPUT_BUF_SIZE \in Nat /\ L + K <= INPUT_BUF_SIZE
      /\ epos = Terminal!Plus(rpos, L + K) /\ wpos = Terminal!Plus(rpos, L) /\ rpos \in Counter
      /\ \A i \in 1..(L + K) : cbuf[Terminal!Index(Terminal!Plus(rpos, i - 1))] = Character(lines, line, i)
  BY LinesLengths DEF ConsoleInv, ConsoleType, LinesStand, Spelled
<1> HIDE DEF L, K
<1>2. Terminal!Plus(epos, -k) = Terminal!Plus(rpos, L + K - k)
  <2>1. L + K \in Nat /\ k <= L + K
    BY <1>1
  <2> QED BY <1>1, <2>1, PlusMinus
<1>3. CASE k = K
  <2>1. L + K - k = L
    BY <1>1, <1>3
  <2> QED BY <1>1, <1>2, <1>3, <2>1 DEF K
<1>4. CASE k # K
  <2>1. /\ k < K /\ L + K - k \in Nat /\ L <= L + K - k /\ L <= L /\ L <= INPUT_BUF_SIZE
        /\ L + K - k <= INPUT_BUF_SIZE /\ L - L = 0
    BY <1>1, <1>4
  <2>2. Terminal!Plus(epos, -k) # wpos
    <3>1. Terminal!Used(Terminal!Plus(rpos, L + K - k), Terminal!Plus(rpos, L)) = L + K - k - L
      BY <1>1, <2>1, UsedBetween
    <3>2. Terminal!Used(Terminal!Plus(rpos, L), Terminal!Plus(rpos, L)) = L - L
      BY <1>1, <2>1, UsedBetween
    <3>3. L + K - k - L # L - L
      BY <1>1, <2>1
    <3> QED BY <1>1, <1>2, <3>1, <3>2, <3>3
  <2>3. cbuf[Terminal!Index(Terminal!Plus(epos, -k - 1))] = "a"
    <3>0. PICK m : m = k + 1
      OBVIOUS
    <3>1. /\ m \in Nat /\ L + K \in Nat /\ m <= L + K /\ -k - 1 = -m
          /\ L + K - m = (L + K - k) - 1 /\ L + K - k \in 1..(L + K)
          /\ ~(L + K - k <= L) /\ L + K - k - L \in 1..K
      BY <1>1, <2>1, <3>0
    <3>2. Terminal!Plus(epos, -m) = Terminal!Plus(rpos, L + K - m)
      BY <1>1, <3>1, PlusMinus
    <3>3. cbuf[Terminal!Index(Terminal!Plus(epos, -k - 1))] = Character(lines, line, L + K - k)
      BY <1>1, <3>1, <3>2
    <3>4. line \in Seq({"a"})
      BY DEF ConsoleInv, ConsoleType
    <3>5. line[L + K - k - L] = "a"
      BY <3>1, <3>4 DEF K
    <3>6. Character(lines, line, L + K - k) = line[L + K - k - L]
      <4>1. PICK j : j = L + K - k
        OBVIOUS
      <4>2. ~(j <= L)
        BY <3>1, <4>1
      <4>3. Character(lines, line, j) = line[j - L]
        BY <4>2 DEF Character, L
      <4> QED BY <1>1, <4>1, <4>3
    <3> QED BY <3>3, <3>5, <3>6
  <2> QED BY <1>4, <2>2, <2>3 DEF K
<1> QED BY <1>3, <1>4

LEMMA KillConsole ==
    ASSUME Terminal!ConsoleAssumption, ConsoleInv, Terminal!Kill
    PROVE  ConsoleInv'
<1> DEFINE Stop(k) == \/ Terminal!Plus(epos, -k) = wpos
                      \/ cbuf[Terminal!Index(Terminal!Plus(epos, -k - 1))] = "\n"
           G == {k \in 0..INPUT_BUF_SIZE : Stop(k)}
           gone == Terminal!Min(G)
           K == Len(line)
<1>1. /\ Terminal!Echo /\ epos' = Terminal!Plus(epos, -gone) /\ line' = <<>>
      /\ UNCHANGED <<cbuf, rpos, wpos, lines, pc, target, missing, asleep, killed>>
  BY DEF Terminal!Kill, Terminal!userVars
<1>2. K \in Nat /\ K \in 0..INPUT_BUF_SIZE /\ K \in 0..K /\ INPUT_BUF_SIZE \in Nat
  BY LinesLengths
<1>3. \A k \in 0..K : Stop(k) <=> k = K
  BY KillFindsLine
<1> HIDE DEF Stop, K
<1>4. K \in G /\ G \in SUBSET Nat
  BY <1>2, <1>3
<1> HIDE DEF G
<1>5. gone \in G /\ gone <= K
  BY <1>4, MinIsLeast
<1>6. gone = K
  <2>1. gone \in 0..K /\ Stop(gone)
    BY <1>2, <1>5 DEF G
  <2> QED BY <1>3, <2>1
<1>7. /\ 0 \in 0..Len(line) /\ line' \in Seq({"a"}) /\ Len(line') = 0
      /\ epos' = Terminal!Plus(epos, -(Len(line) - 0))
  <2>1. Len(line) \in Nat /\ Len(line) - 0 = Len(line)
    BY <1>2 DEF K
  <2> HIDE DEF gone
  <2> QED BY <1>1, <1>6, <2>1 DEF K
<1> QED BY <1>1, <1>7, CutConsole

LEMMA TakesConsole ==
    ASSUME Terminal!ConsoleAssumption, ConsoleInv, NEW p \in Proc, Terminal!ReadTakes(p)
    PROVE  ConsoleInv'
<1> DEFINE unread == [i \in 1..Terminal!Used(wpos, rpos) |->
                        cbuf[Terminal!Index(Terminal!Plus(rpos, i - 1))]]
           ends   == {i \in DOMAIN unread : unread[i] \in {"\n", "^D"}}
           k      == Terminal!Min(ends \cup {missing[p], Len(unread)})
           eof    == unread[k] = "^D"
           kept   == eof /\ missing[p] - (k - 1) < target[p]
           taken  == IF kept THEN k - 1 ELSE k
           L      == Len(lines)
<1>1. /\ pc[p] = "read" /\ ~asleep[p] /\ rpos # wpos
      /\ rpos' = Terminal!Plus(rpos, taken) /\ lines' = SubSeq(lines, taken + 1, L)
      /\ IF k \in ends \/ k = missing[p] THEN Terminal!Return(p)
         ELSE missing' = [missing EXCEPT ![p] = @ - k] /\ UNCHANGED <<pc, target, killed>>
      /\ UNCHANGED <<cbuf, wpos, epos, line, tx, busy, irq, asleep>>
  BY DEF Terminal!ReadTakes, Terminal!Reading, Terminal!uartVars
<1>2. unread = lines
  BY SpelledIsIntact DEF ConsoleInv, Terminal!LinesIntact, Terminal!Between
<1>3. /\ lines \in Seq(Terminal!Typed) /\ L \in Nat /\ missing[p] \in Nat /\ missing[p] >= 1
      /\ missing \in [Proc -> Nat] /\ rpos \in Counter /\ line \in Seq({"a"})
  <2>1. /\ lines \in Seq(Terminal!Typed) /\ missing \in [Proc -> Nat] /\ rpos \in Counter
        /\ line \in Seq({"a"})
    BY DEF ConsoleInv, ConsoleType
  <2>2. missing[p] >= 1
    BY <1>1 DEF ConsoleInv, UsersStand
  <2> QED BY <2>1, <2>2
<1>4. L >= 1
  <2> SUFFICES ASSUME L = 0 PROVE FALSE
    BY <1>3
  <2>1. wpos = Terminal!Plus(rpos, 0)
    BY LinesLengths
  <2> QED BY <1>1, <1>3, <2>1, PlusZero
<1> DEFINE G == ends \cup {missing[p], Len(unread)}
<1>5. /\ G \in SUBSET Nat /\ missing[p] \in G /\ L \in G /\ \A y \in G : y >= 1
  <2> HIDE DEF unread, k
  <2>1. DOMAIN unread = 1..L
    BY <1>2, <1>3
  <2> QED BY <1>2, <1>3, <1>4, <2>1
<1>6. k \in 1..L /\ k <= missing[p]
  <2> HIDE DEF ends, unread
  <2>1. k \in G /\ \A y \in G : k <= y
    BY <1>5, MinIsLeast
  <2> HIDE DEF G, k
  <2> QED BY <1>3, <1>5, <2>1
<1> HIDE DEF k, ends, unread, G
<1>7. taken \in 0..L
  BY <1>3, <1>6
<1>8. kept => k \in ends
  <2>1. k \in DOMAIN unread
    BY <1>2, <1>3, <1>6
  <2> QED BY <2>1 DEF ends
<1> HIDE DEF taken
<1>9. /\ lines' \in Seq(Terminal!Typed) /\ rpos' \in Counter
      /\ Spelled(cbuf, rpos', wpos, epos, lines', line)
  <2>1. Spelled(cbuf, rpos, wpos, epos, lines, line)
    BY DEF ConsoleInv, LinesStand
  <2> QED BY <1>1, <1>3, <1>7, <2>1, SpelledTake
<1>10. LinesStand'
  BY <1>1, <1>9 DEF LinesStand
<1>11. /\ pc' \in [Proc -> {"idle", "read", "write"}]
       /\ target' \in [Proc -> Nat] /\ missing' \in [Proc -> Nat]
       /\ \A q \in Proc : pc'[q] # "idle" => missing'[q] >= 1
       /\ \A q \in Proc \ {p} : pc'[q] = pc[q]
  <2>1. CASE k \in ends \/ k = missing[p]
    <3>1. Terminal!Return(p)
      BY <1>1, <2>1
    <3> QED BY <3>1, ReturnStands DEF ConsoleInv, UsersStand
  <2>2. CASE ~(k \in ends \/ k = missing[p])
    <3>1. missing' = [missing EXCEPT ![p] = @ - k] /\ UNCHANGED <<pc, target>>
      BY <1>1, <2>2
    <3>2. missing[p] - k \in Nat /\ missing[p] - k >= 1
      BY <1>3, <1>6, <2>2
    <3> QED BY <1>3, <3>1, <3>2 DEF ConsoleInv, ConsoleType, UsersStand
  <2> QED BY <2>1, <2>2
<1>12. ConsoleType'
  BY <1>1, <1>9, <1>11 DEF ConsoleInv, ConsoleType
<1>13. UsersStand'
  <2>1. \A q \in Proc : asleep'[q] => q # p /\ pc[q] = "write" /\ Len(tx) = UART_TX_BUF_SIZE
    BY <1>1 DEF ConsoleInv, UsersStand
  <2>2. \A q \in Proc : asleep'[q] => pc'[q] = "write" /\ Len(tx') = UART_TX_BUF_SIZE
    BY <1>1, <1>11, <2>1
  <2>3. tx' # <<>> => busy' \/ irq'
    BY <1>1 DEF ConsoleInv, UsersStand
  <2> QED BY <1>11, <2>2, <2>3 DEF UsersStand
<1> QED BY <1>10, <1>12, <1>13 DEF ConsoleInv

\* The line buffer stays.
LEMMA LinesStay ==
    ASSUME LinesStand, UNCHANGED <<cbuf, rpos, wpos, epos, lines, line>> PROVE LinesStand'
BY DEF LinesStand, Spelled, Character

LEMMA WriteConsole ==
    ASSUME ConsoleInv, NEW p \in Proc, Terminal!Write(p)
    PROVE  ConsoleInv'
<1>1. /\ pc[p] = "write" /\ ~asleep[p] /\ UNCHANGED <<cbuf, rpos, wpos, epos, line, lines, irq>>
      /\ tx \in Seq({"a"}) /\ missing \in [Proc -> Nat] /\ missing[p] >= 1
  BY DEF Terminal!Write, Terminal!consVars, ConsoleInv, ConsoleType, UsersStand
<1>2. LinesStand'
  BY <1>1, LinesStay DEF ConsoleInv
<1>3. CASE Len(tx) = UART_TX_BUF_SIZE
  <2>1. asleep' = [asleep EXCEPT ![p] = TRUE] /\ UNCHANGED <<tx, busy, pc, target, missing, killed>>
    BY <1>3 DEF Terminal!Write
  <2>2. asleep' \in [Proc -> BOOLEAN] /\ \A q \in Proc \ {p} : asleep'[q] = asleep[q]
    BY <2>1 DEF ConsoleInv, ConsoleType
  <2>3. ConsoleType'
    BY <1>1, <2>1, <2>2 DEF ConsoleInv, ConsoleType
  <2>4. UsersStand'
    BY <1>1, <1>3, <2>1, <2>2 DEF ConsoleInv, UsersStand
  <2> QED BY <1>2, <2>3, <2>4 DEF ConsoleInv
<1>4. CASE Len(tx) # UART_TX_BUF_SIZE
  <2>1. /\ Terminal!uartstart(Append(tx, "a"))
        /\ IF missing[p] = 1 THEN Terminal!Return(p)
           ELSE missing' = [missing EXCEPT ![p] = @ - 1] /\ UNCHANGED <<pc, target, killed>>
    BY <1>4 DEF Terminal!Write
  <2>2. \A q \in Proc : asleep[q] => pc[q] # "write"
    BY <1>4 DEF ConsoleInv, UsersStand
  <2>3. /\ tx' \in Seq({"a"}) /\ busy' \in BOOLEAN /\ asleep' \in [Proc -> BOOLEAN]
        /\ tx' # <<>> => busy'
        /\ \A q \in Proc : asleep'[q] => asleep[q]
    <3>1. Append(tx, "a") \in Seq({"a"}) /\ ConsoleType
      BY <1>1, AppendOne DEF ConsoleInv
    <3> QED BY <2>1, <2>2, <3>1, StartStands
  <2>4. /\ pc' \in [Proc -> {"idle", "read", "write"}]
        /\ target' \in [Proc -> Nat] /\ missing' \in [Proc -> Nat]
        /\ \A q \in Proc : pc'[q] # "idle" => missing'[q] >= 1
        /\ \A q \in Proc \ {p} : pc'[q] = pc[q]
    <3>1. CASE missing[p] = 1
      <4>1. Terminal!Return(p)
        BY <2>1, <3>1
      <4> QED BY <4>1, ReturnStands DEF ConsoleInv, UsersStand
    <3>2. CASE missing[p] # 1
      <4>1. missing' = [missing EXCEPT ![p] = @ - 1] /\ UNCHANGED <<pc, target>>
        BY <2>1, <3>2
      <4>2. missing[p] - 1 \in Nat /\ missing[p] - 1 >= 1
        BY <1>1, <3>2
      <4> QED BY <1>1, <4>1, <4>2 DEF ConsoleInv, ConsoleType, UsersStand
    <3> QED BY <3>1, <3>2
  <2>5. ConsoleType'
    BY <1>1, <2>3, <2>4 DEF ConsoleInv, ConsoleType
  <2>6. UsersStand'
    <3>1. \A q \in Proc : asleep'[q] => q # p /\ pc[q] = "read" /\ rpos = wpos
      BY <1>1, <2>2, <2>3 DEF ConsoleInv, UsersStand
    <3> QED BY <1>1, <2>3, <2>4, <3>1 DEF UsersStand
  <2> QED BY <1>2, <2>5, <2>6 DEF ConsoleInv
<1> QED BY <1>3, <1>4

\* The other steps of programs and of the UART.
LEMMA OtherConsole ==
    ASSUME Terminal!ConsoleAssumption, ConsoleInv,
           \/ \E p \in Proc : \/ \E c \in Calls : Terminal!Start(p, c[1], c[2])
                              \/ Terminal!ReadWaits(p) \/ Terminal!Killed(p)
           \/ Terminal!TxDone \/ Terminal!uartintr
    PROVE  ConsoleInv'
<1> USE DEF Terminal!consVars, Terminal!uartVars, Terminal!userVars
<1>1. UNCHANGED <<cbuf, rpos, wpos, epos, lines, line>>
  BY DEF Terminal!Start, Terminal!ReadWaits, Terminal!Killed, Terminal!TxDone, Terminal!uartintr
<1>2. LinesStand'
  BY <1>1, LinesStay DEF ConsoleInv
<1>3. ASSUME NEW p \in Proc, NEW c \in Calls, Terminal!Start(p, c[1], c[2])
      PROVE  ConsoleType' /\ UsersStand'
  <2>1. c[1] \in {"read", "write"} /\ c[2] \in Nat /\ c[2] >= 1
    BY DEF Terminal!ConsoleAssumption
  <2>2. /\ pc[p] = "idle" /\ pc' = [pc EXCEPT ![p] = c[1]]
        /\ target' = [target EXCEPT ![p] = c[2]] /\ missing' = [missing EXCEPT ![p] = c[2]]
        /\ UNCHANGED <<tx, busy, irq, asleep, killed>>
    BY <1>3 DEF Terminal!Start
  <2>3. /\ pc' \in [Proc -> {"idle", "read", "write"}]
        /\ target' \in [Proc -> Nat] /\ missing' \in [Proc -> Nat]
    BY <2>1, <2>2 DEF ConsoleInv, ConsoleType
  <2>4. ConsoleType'
    BY <1>1, <2>2, <2>3 DEF ConsoleInv, ConsoleType
  <2>5. ~asleep[p]
    BY <2>2 DEF ConsoleInv, UsersStand
  <2>6. \A q \in Proc \ {p} : pc'[q] = pc[q] /\ missing'[q] = missing[q]
    BY <2>2 DEF ConsoleInv, ConsoleType
  <2>7. missing'[p] = c[2]
    BY <2>2 DEF ConsoleInv, ConsoleType
  <2> QED BY <1>1, <2>1, <2>2, <2>4, <2>5, <2>6, <2>7 DEF ConsoleInv, UsersStand
<1>4. ASSUME NEW p \in Proc, Terminal!ReadWaits(p) PROVE ConsoleType' /\ UsersStand'
  <2>1. pc[p] = "read" /\ ~asleep[p] /\ rpos = wpos /\ UNCHANGED <<tx, busy, irq>>
    BY <1>4 DEF Terminal!ReadWaits, Terminal!Reading
  <2>2. CASE p \in killed
    <3>1. Terminal!Return(p) /\ UNCHANGED asleep
      BY <1>4, <2>2 DEF Terminal!ReadWaits
    <3>2. /\ pc' \in [Proc -> {"idle", "read", "write"}]
          /\ target' \in [Proc -> Nat] /\ missing' \in [Proc -> Nat] /\ pc'[p] = "idle"
          /\ \A q \in Proc \ {p} : pc'[q] = pc[q] /\ missing'[q] = missing[q]
      BY <3>1, ReturnStands DEF ConsoleInv
    <3>3. ConsoleType'
      BY <1>1, <2>1, <3>1, <3>2 DEF ConsoleInv, ConsoleType
    <3> QED BY <1>1, <2>1, <3>1, <3>2, <3>3 DEF ConsoleInv, UsersStand
  <2>3. CASE p \notin killed
    <3>1. asleep' = [asleep EXCEPT ![p] = TRUE] /\ UNCHANGED <<pc, target, missing, killed>>
      BY <1>4, <2>3 DEF Terminal!ReadWaits
    <3>2. asleep' \in [Proc -> BOOLEAN] /\ \A q \in Proc \ {p} : asleep'[q] = asleep[q]
      BY <3>1 DEF ConsoleInv, ConsoleType
    <3>3. ConsoleType'
      BY <1>1, <2>1, <3>1, <3>2 DEF ConsoleInv, ConsoleType
    <3> QED BY <1>1, <2>1, <3>1, <3>2, <3>3 DEF ConsoleInv, UsersStand
  <2> QED BY <2>2, <2>3
<1>5. ASSUME NEW p \in Proc, Terminal!Killed(p) PROVE ConsoleType' /\ UsersStand'
  <2>1. asleep' = [asleep EXCEPT ![p] = FALSE] /\ UNCHANGED <<tx, busy, irq, pc, target, missing>>
    BY <1>5 DEF Terminal!Killed
  <2>2. asleep' \in [Proc -> BOOLEAN] /\ \A q \in Proc : asleep'[q] => asleep[q]
    BY <2>1 DEF ConsoleInv, ConsoleType
  <2> QED BY <1>1, <2>1, <2>2 DEF ConsoleInv, ConsoleType, UsersStand
<1>6. CASE Terminal!TxDone
  <2>1. busy' = FALSE /\ irq' = TRUE /\ UNCHANGED <<tx, pc, target, missing, asleep>>
    BY <1>6 DEF Terminal!TxDone
  <2>2. ConsoleType'
    BY <1>1, <2>1 DEF ConsoleInv, ConsoleType
  <2>3. UsersStand'
    BY <1>1, <2>1 DEF ConsoleInv, UsersStand
  <2> QED BY <1>2, <2>2, <2>3 DEF ConsoleInv
<1>7. CASE Terminal!uartintr
  <2>1. irq' = FALSE /\ Terminal!uartstart(tx) /\ UNCHANGED <<pc, target, missing>>
    BY <1>7 DEF Terminal!uartintr
  <2>2. /\ ConsoleType /\ tx \in Seq({"a"})
        /\ \A q \in Proc : asleep[q] /\ pc[q] = "write" => Len(tx) = UART_TX_BUF_SIZE
    BY DEF ConsoleInv, ConsoleType, UsersStand
  <2>3. /\ tx' \in Seq({"a"}) /\ busy' \in BOOLEAN /\ asleep' \in [Proc -> BOOLEAN]
        /\ tx' # <<>> => busy'
        /\ \A q \in Proc : asleep'[q] => /\ asleep[q]
                                         /\ pc[q] = "write" => Len(tx') = UART_TX_BUF_SIZE
    BY <2>1, <2>2, StartStands
  <2>4. ConsoleType'
    BY <1>1, <2>1, <2>2, <2>3 DEF ConsoleType
  <2>5. \A q \in Proc : asleep'[q] => \/ pc'[q] = "read" /\ rpos' = wpos'
                                      \/ pc'[q] = "write" /\ Len(tx') = UART_TX_BUF_SIZE
    BY <1>1, <2>1, <2>3 DEF ConsoleInv, UsersStand
  <2>6. \A q \in Proc : pc'[q] # "idle" => missing'[q] >= 1
    BY <2>1 DEF ConsoleInv, UsersStand
  <2>7. UsersStand'
    BY <2>3, <2>5, <2>6 DEF UsersStand
  <2> QED BY <1>2, <2>4, <2>7 DEF ConsoleInv
<1> QED BY <1>2, <1>3, <1>4, <1>5, <1>6, <1>7 DEF ConsoleInv

LEMMA ConsoleInitially ==
    ASSUME Terminal!ConsoleAssumption, Terminal!ConsoleInit PROVE ConsoleInv
<1>1. ConsoleType /\ UsersStand
  BY UsersInitially
<1>2. rpos = 0 /\ wpos = 0 /\ epos = 0 /\ Len(lines) = 0 /\ Len(line) = 0 /\ 0 <= INPUT_BUF_SIZE
  BY DEF Terminal!ConsoleInit, Terminal!ConsoleAssumption
<1>3. Terminal!Plus(0, 0) = 0
  BY <1>1, <1>2, PlusZero DEF ConsoleType
<1>4. Spelled(cbuf, rpos, wpos, epos, lines, line)
  BY <1>2, <1>3 DEF Spelled
<1> QED BY <1>1, <1>4 DEF ConsoleInv, LinesStand

LEMMA ConsoleStep ==
    ASSUME Terminal!ConsoleAssumption
    PROVE  ConsoleInv /\ [Terminal!ConsoleNext]_(Terminal!consoleVars) => ConsoleInv'
<1> SUFFICES ASSUME ConsoleInv, [Terminal!ConsoleNext]_(Terminal!consoleVars) PROVE ConsoleInv'
  OBVIOUS
<1>1. CASE UNCHANGED Terminal!consoleVars
  <2>1. UNCHANGED <<cbuf, rpos, wpos, epos, line, lines, tx, busy, irq, pc, target, missing, asleep>>
    BY <1>1 DEF Terminal!consoleVars, Terminal!consVars, Terminal!uartVars, Terminal!userVars
  <2>2. LinesStand'
    BY <2>1, LinesStay DEF ConsoleInv
  <2>3. ConsoleType'
    BY <2>1 DEF ConsoleInv, ConsoleType
  <2>4. UsersStand'
    BY <2>1 DEF ConsoleInv, UsersStand
  <2> QED BY <2>2, <2>3, <2>4 DEF ConsoleInv
<1>2. ASSUME NEW c \in Terminal!Typed, Terminal!consoleintr(c) PROVE ConsoleInv'
  BY <1>2, InsertConsole, BackspaceConsole, KillConsole DEF Terminal!consoleintr
<1>3. ASSUME NEW p \in Proc, Terminal!ReadTakes(p) PROVE ConsoleInv'
  BY <1>3, TakesConsole
<1>4. ASSUME NEW p \in Proc, Terminal!Write(p) PROVE ConsoleInv'
  BY <1>4, WriteConsole
<1>5. CASE \/ \E p \in Proc : \/ \E c \in Calls : Terminal!Start(p, c[1], c[2])
                              \/ Terminal!ReadWaits(p) \/ Terminal!Killed(p)
           \/ Terminal!TxDone \/ Terminal!uartintr
  BY <1>5, OtherConsole
<1> QED BY <1>1, <1>2, <1>3, <1>4, <1>5 DEF Terminal!ConsoleNext

\* Where the counters of the console, its lines and the programs that use it stand.
THEOREM ConsoleInvariance ==
    ASSUME Terminal!ConsoleAssumption PROVE Terminal!ConsoleSpec => []ConsoleInv
BY ConsoleInitially, ConsoleStep, PTL DEF Terminal!ConsoleSpec

\* The three counters delimit what was typed, in order and whole, also where they wrap around.
THEOREM LinesArriveWhole ==
    ASSUME Terminal!ConsoleAssumption PROVE Terminal!ConsoleSpec => []Terminal!LinesIntact
<1>1. ConsoleInv => Terminal!LinesIntact
  BY SpelledIsIntact DEF ConsoleInv
<1> QED BY <1>1, ConsoleInvariance, PTL

\* Nobody sleeps at the console while there is something to read or room to write.
THEOREM ConsoleWakes ==
    ASSUME Terminal!ConsoleAssumption PROVE Terminal!ConsoleSpec => []Terminal!ConsoleGoesOn
<1>1. ConsoleInv => Terminal!ConsoleGoesOn
  BY UsersGoOn DEF ConsoleInv
<1> QED BY <1>1, ConsoleInvariance, PTL
====
