---- MODULE ServerProofs ----
(*****************************************************************************)
(* The network disk's main thread, for any number of connections,            *)
(* descriptors and timeout lists: descriptors, the client list, epoll and    *)
(* the wheel agree after every step, whichever door a client leaves through, *)
(* and nobody is dropped who was not silent for a full turn.  And earlier    *)
(* servers, for any number of connections and clients: the reactor gives     *)
(* results in order, the chat programs tell everybody what was said in the   *)
(* order it was heard, and neither overlooks anybody but for a named reason. *)
(*****************************************************************************)
EXTENDS Server, TLAPS, FiniteSetTheorems, FunctionTheorems, SequenceTheorems,
        WellFoundedInduction

Conns == {t.conn : t \in tasks}

\* A session sends logins and commands, a transfer tokens and requests; either may be cut.
Sends(c) == IF c \in Session THEN {"login", "cmd", "other", "cut"}
                             ELSE Session \cup {"task", "other", "cut"}

TypesOK ==
    /\ peer \in [Conn -> {"new", "open", "closed"}]
    /\ inbox \in [Conn -> Seq(Message)] /\ \A c \in Conn : inbox[c] \in Seq(Sends(c))
    /\ backlog \in Seq(Conn)
    /\ sfd \in [Conn -> Nat]
    /\ table \in [Fd -> Conn \cup {None}]
    /\ clients \in Seq(Session)
    /\ roulette \in [Slot -> SUBSET Int]
    /\ index \in Slot
    /\ maxevents \in Nat
    /\ batch \in Seq(Fd \cup {Listen})
    /\ mode \in Mode
    /\ \A t \in tasks : t.conn \in Conn /\ t.conn \notin Session
    /\ idle \in [Session -> Nat]

\* A connection waits for accept() once, and has no descriptor before that.
Waiting ==
    /\ \A i, j \in DOMAIN backlog : backlog[i] = backlog[j] => i = j
    /\ \A i \in DOMAIN backlog : sfd[backlog[i]] = 0 /\ peer[backlog[i]] # "new"
    /\ \A c \in Conn : peer[c] = "new" => sfd[c] = 0

\* Where the main thread stands in its batch.  The listening socket is in it at most once,
\* and then there is somebody to accept.
Handling ==
    /\ mode \in {"event", "first", "task"} => batch # <<>>
    /\ \A i, j \in DOMAIN batch : batch[i] = batch[j] => i = j
    /\ \A i \in DOMAIN batch : batch[i] = Listen /\ (mode = "event" \/ i # 1) => backlog # <<>>
    /\ mode \in {"first", "task"} =>
          /\ batch[1] = Listen
          /\ cur \in Conn /\ cur \notin Listed /\ cur \notin Conns
    /\ mode = "task" => cur \notin Session

OneTask == \A t, u \in tasks : t.conn = u.conn => t = u

\* An open descriptor is the one its connection is known by.
OneName == \A f \in Fd : table[f] # None => sfd[table[f]] = f

ServerInv == TypesOK /\ Waiting /\ Handling /\ OneTask /\ OneName /\ DescriptorsAgree /\ RouletteAge

-----------------------------------------------------------------------------
\* Arithmetic of the wheel.

\* The timeout list of a client last heard of a ticks ago, when the current one is i.
Home(i, a) == IF i >= a THEN i - a ELSE i - a + Slots
NextSlot(i) == IF i + 1 = Slots THEN 0 ELSE i + 1

LEMMA SmallMod == \A a \in Nat, n \in Nat \ {0} : a < n => a % n = a
OBVIOUS

LEMMA MinusMod == \A a \in Int, n \in Nat \ {0} : (a < 0 /\ -n <= a) => a % n = a + n
OBVIOUS

LEMMA SelfMod == \A n \in Nat \ {0} : n % n = 0
OBVIOUS

LEMMA HomeForm == \A i \in Slot, a \in Slot : (i - a) % Slots = Home(i, a) /\ Home(i, a) \in Slot
<1> SUFFICES ASSUME NEW i \in Slot, NEW a \in Slot
             PROVE  (i - a) % Slots = Home(i, a) /\ Home(i, a) \in Slot
  OBVIOUS
<1>1. Slots \in Nat \ {0} /\ i \in Nat /\ a \in Nat /\ i < Slots /\ a < Slots
  BY ServerAssumption DEF Slot
<1>2. CASE i >= a
  <2>1. i - a \in Nat /\ i - a < Slots
    BY <1>1, <1>2
  <2> QED BY <1>1, <1>2, <2>1, SmallMod DEF Home, Slot
<1>3. CASE i < a
  <2>1. i - a \in Int /\ i - a < 0 /\ -Slots <= i - a
    BY <1>1, <1>3
  <2>2. (i - a) % Slots = i - a + Slots
    BY <1>1, <2>1, MinusMod
  <2> QED BY <1>1, <1>3, <2>2 DEF Home, Slot
<1> QED BY <1>1, <1>2, <1>3

LEMMA NextForm == \A i \in Slot : (i + 1) % Slots = NextSlot(i) /\ NextSlot(i) \in Slot /\ NextSlot(i) # i
<1> SUFFICES ASSUME NEW i \in Slot
             PROVE  (i + 1) % Slots = NextSlot(i) /\ NextSlot(i) \in Slot /\ NextSlot(i) # i
  OBVIOUS
<1>1. Slots \in Nat \ {0} /\ Slots # 1 /\ i \in Nat /\ i < Slots
  BY ServerAssumption DEF Slot
<1>2. CASE i + 1 = Slots
  BY <1>1, <1>2, SelfMod DEF NextSlot, Slot
<1>3. CASE i + 1 < Slots
  <2>1. (i + 1) % Slots = i + 1
    BY <1>1, <1>3, SmallMod
  <2> QED BY <1>1, <1>3, <2>1 DEF NextSlot, Slot
<1> QED BY <1>1, <1>2, <1>3

\* The wheel turns: a client's list stays the one it is in, and the list that is reached is
\* that of the clients silent for a full turn.
LEMMA HomeTurns ==
    \A i \in Slot, a \in Slot :
        /\ Home(i, 0) = i
        /\ Home(i, a) = NextSlot(i) <=> a = Slots - 1
        /\ a # Slots - 1 => Home(NextSlot(i), a + 1) = Home(i, a) /\ a + 1 \in Slot
BY ServerAssumption DEF Home, NextSlot, Slot

-----------------------------------------------------------------------------
\* The client list.

LEMMA InListed == \A L, c : c \in ToSet(L) <=> \E i \in DOMAIN L : L[i] = c
BY DEF ToSet

LEMMA HeadInsert ==
    ASSUME NEW L \in Seq(Session), NEW c \in Session, c \notin ToSet(L),
           \A i, j \in DOMAIN L : L[i] = L[j] => i = j
    PROVE  /\ <<c>> \o L \in Seq(Session)
           /\ Len(<<c>> \o L) = Len(L) + 1
           /\ ToSet(<<c>> \o L) = {c} \cup ToSet(L)
           /\ \A i, j \in DOMAIN (<<c>> \o L) : (<<c>> \o L)[i] = (<<c>> \o L)[j] => i = j
<1> DEFINE M == <<c>> \o L
<1>1. /\ M \in Seq(Session) /\ Len(M) = Len(L) + 1 /\ Len(L) \in Nat
      /\ M[1] = c
      /\ \A i \in 2..Len(M) : M[i] = L[i - 1]
      /\ DOMAIN M = 1..Len(M) /\ DOMAIN L = 1..Len(L)
  OBVIOUS
<1> HIDE DEF M
<1>2. \A i \in DOMAIN M : i = 1 \/ (i \in 2..Len(M) /\ i - 1 \in DOMAIN L)
  BY <1>1
<1>3. \A i \in DOMAIN L : i + 1 \in 2..Len(M) /\ (i + 1) - 1 = i
  BY <1>1
<1>4. ToSet(M) = {c} \cup ToSet(L)
  <2>1. \A d : d \in ToSet(M) => d \in {c} \cup ToSet(L)
    BY <1>1, <1>2, InListed
  <2>2. c \in ToSet(M)
    BY <1>1, InListed
  <2>3. ASSUME NEW d \in ToSet(L) PROVE d \in ToSet(M)
    <3>1. PICK i \in DOMAIN L : L[i] = d
      BY InListed
    <3>2. i + 1 \in DOMAIN M /\ M[i + 1] = d
      BY <1>1, <1>3, <3>1
    <3> QED BY <3>2, InListed
  <2> QED BY <2>1, <2>2, <2>3
<1>5. ASSUME NEW i \in DOMAIN M, NEW j \in DOMAIN M, M[i] = M[j] PROVE i = j
  <2>1. CASE i = 1 /\ j = 1
    BY <2>1
  <2>2. CASE i # 1 /\ j # 1
    <3>1. i - 1 \in DOMAIN L /\ j - 1 \in DOMAIN L /\ L[i - 1] = L[j - 1]
      BY <1>1, <1>2, <1>5, <2>2
    <3>2. i - 1 = j - 1
      BY <3>1
    <3> QED BY <1>1, <3>2
  <2>3. CASE (i = 1 /\ j # 1) \/ (i # 1 /\ j = 1)
    BY <1>1, <1>2, <1>5, <2>3, InListed
  <2> QED BY <2>1, <2>2, <2>3
<1> QED BY <1>1, <1>4, <1>5 DEF M

LEMMA PlacesFinite == \A n \in Nat : IsFiniteSet(1..n) /\ Cardinality(1..n) = n
<1> SUFFICES ASSUME NEW n \in Nat PROVE IsFiniteSet(1..n) /\ Cardinality(1..n) = n
  OBVIOUS
<1>1. IsFiniteSet(1..n) /\ Cardinality(1..n) = IF 1 > n THEN 0 ELSE n - 1 + 1
  <2>1. 1 \in Int /\ n \in Int
    OBVIOUS
  <2> QED BY <2>1, FS_Interval, Zenon
<1> QED BY <1>1

\* Numbers taken in increasing order from a finite set are all of them, each once.
LEMMA Enumerates ==
    ASSUME NEW S \in SUBSET Nat, IsFiniteSet(S), NEW m \in Nat, m = Cardinality(S), NEW e \in [1..m -> S],
           \A i, j \in 1..m : i < j => e[i] < e[j]
    PROVE  /\ \A i, j \in 1..m : e[i] = e[j] => i = j
           /\ \A x \in S : \E i \in 1..m : e[i] = x
<1>1. \A i \in 1..m : e[i] \in Nat
  OBVIOUS
<1>2. \A i, j \in 1..m : e[i] = e[j] => i = j
  <2> SUFFICES ASSUME NEW i \in 1..m, NEW j \in 1..m, e[i] = e[j], i # j PROVE FALSE
    OBVIOUS
  <2>1. i < j \/ j < i
    OBVIOUS
  <2> QED BY <1>1, <2>1
<1>3. IsFiniteSet(1..m) /\ Cardinality(1..m) = m
  BY PlacesFinite
<1>4. e \in Injection(1..m, S)
  BY <1>2 DEF Injection, IsInjective
<1>5. e \in Surjection(1..m, S)
  BY <1>3, <1>4, FS_Injection
<1> QED BY <1>2, <1>5 DEF Surjection

\* Deleting the nodes of descriptors: the others remain, each once.
LEMMA Deletes ==
    ASSUME NEW L \in Seq(Session), NEW out,
           \A i, j \in DOMAIN L : sfd[L[i]] = sfd[L[j]] => i = j,
           DeleteClients(L, out)
    PROVE  /\ clients' \in Seq(Session)
           /\ Len(clients') \in Nat /\ Len(clients') <= Len(L)
           /\ ToSet(clients') = {c \in ToSet(L) : sfd[c] \notin out}
           /\ \A i, j \in DOMAIN clients' : clients'[i] = clients'[j] => i = j
<1> DEFINE kept == {i \in DOMAIN L : \/ sfd[L[i]] \notin out
                                     \/ \E j \in 1..(i - 1) : sfd[L[j]] = sfd[L[i]]}
           n == Len(L)
           m == Cardinality(kept)
<1>1. n \in Nat /\ DOMAIN L = 1..n /\ \A i \in 1..n : L[i] \in Session
  OBVIOUS
<1>2. kept \in SUBSET (1..n)
  BY <1>1
<1>3. PICK at \in [1..m -> kept] : /\ \A i, j \in DOMAIN at : i < j => at[i] < at[j]
                                   /\ clients' = [i \in DOMAIN at |-> L[at[i]]]
  BY DEF DeleteClients
<1>4. \A i \in 1..n : i \in kept <=> sfd[L[i]] \notin out
  <2>1. \A i \in 1..n : \A j \in 1..(i - 1) : j \in 1..n /\ j # i
    BY <1>1
  <2> QED BY <1>1, <2>1
<1> HIDE DEF kept, n
<1>5. /\ m \in Nat /\ m <= n
      /\ \A i, j \in 1..m : at[i] = at[j] => i = j
      /\ \A x \in kept : \E i \in 1..m : at[i] = x
  <2>1. IsFiniteSet(1..n) /\ Cardinality(1..n) = n
    BY <1>1, PlacesFinite
  <2>2. IsFiniteSet(kept) /\ m <= Cardinality(1..n)
    BY <1>2, <2>1, FS_Subset
  <2>3. m = Cardinality(kept) /\ m \in Nat
    BY <2>2, FS_CardinalityType
  <2>4. kept \in SUBSET Nat /\ IsFiniteSet(kept)
    BY <1>2, <2>2
  <2>5. \A i, j \in 1..m : i < j => at[i] < at[j]
    BY <1>3
  <2> HIDE DEF m
  <2>6. /\ \A i, j \in 1..m : at[i] = at[j] => i = j
        /\ \A x \in kept : \E i \in 1..m : at[i] = x
    BY <2>3, <2>4, <2>5, Enumerates, SMTT(60)
  <2> QED BY <2>1, <2>2, <2>3, <2>6
<1> HIDE DEF m
<1>6. /\ DOMAIN clients' = 1..m
      /\ \A i \in 1..m : at[i] \in 1..n /\ at[i] \in kept /\ clients'[i] = L[at[i]]
  BY <1>2, <1>3
<1>7. clients' \in Seq(Session) /\ Len(clients') = m
  <2>1. clients' = [i \in 1..m |-> L[at[i]]]
    BY <1>3
  <2> QED BY <1>1, <1>5, <1>6, <2>1
<1>8. ToSet(clients') = {c \in ToSet(L) : sfd[c] \notin out}
  <2>1. ASSUME NEW c \in ToSet(clients') PROVE c \in ToSet(L) /\ sfd[c] \notin out
    <3>1. PICK i \in DOMAIN clients' : clients'[i] = c
      BY <2>1, InListed
    <3> QED BY <1>1, <1>4, <1>6, <3>1, InListed
  <2>2. ASSUME NEW c \in ToSet(L), sfd[c] \notin out PROVE c \in ToSet(clients')
    <3>1. PICK i \in 1..n : L[i] = c
      BY <1>1, InListed
    <3>2. PICK k \in 1..m : at[k] = i
      BY <1>4, <1>5, <2>2, <3>1
    <3> QED BY <1>6, <3>1, <3>2, InListed
  <2> QED BY <2>1, <2>2
<1>9. \A i, j \in DOMAIN clients' : clients'[i] = clients'[j] => i = j
  BY <1>1, <1>5, <1>6
<1> QED BY <1>5, <1>7, <1>8, <1>9 DEF n

-----------------------------------------------------------------------------
\* The lists together.

\* The client list, epoll and the wheel say the same of the same clients.
Agree(listed, registered, lists, i, age) ==
    /\ registered = {sfd[c] : c \in ToSet(listed)}
    /\ lists \in [Slot -> SUBSET Int]
    /\ \A c \in ToSet(listed) : age[c] \in Slot
    /\ \A c \in ToSet(listed), k \in Slot : sfd[c] \in lists[k] <=> k = Home(i, age[c])
    /\ \A k \in Slot : lists[k] \subseteq registered

LEMMA ClientsAreSessions == \A L \in Seq(Session) : ToSet(L) \subseteq Session
BY DEF ToSet

ListTypes ==
    /\ clients \in Seq(Session) /\ idle \in [Session -> Nat] /\ index \in Slot
    /\ roulette \in [Slot -> SUBSET Int]

LEMMA AgreeForm ==
    ListTypes => (epollSet = LiveFds /\ RouletteAge <=> Agree(clients, epollSet, roulette, index, idle))
<1> SUFFICES ASSUME ListTypes
             PROVE  epollSet = LiveFds /\ RouletteAge <=> Agree(clients, epollSet, roulette, index, idle)
  OBVIOUS
<1>1. \A c \in Listed : c \in Session /\ idle[c] \in Nat
  BY ClientsAreSessions DEF ListTypes, Listed
<1>2. Slots \in Nat /\ \A a \in Nat : a < Slots <=> a \in Slot
  BY ServerAssumption DEF Slot
<1>3. index \in Slot
  BY DEF ListTypes
<1>4. ASSUME NEW c \in Listed, idle[c] \in Slot
      PROVE  {k \in Slot : sfd[c] \in roulette[k]} = {(index - idle[c]) % Slots}
                 <=> \A k \in Slot : sfd[c] \in roulette[k] <=> k = Home(index, idle[c])
  <2>1. (index - idle[c]) % Slots = Home(index, idle[c]) /\ Home(index, idle[c]) \in Slot
    BY <1>3, <1>4, HomeForm
  <2> DEFINE h == Home(index, idle[c])
  <2> HIDE DEF h
  <2>2. {k \in Slot : sfd[c] \in roulette[k]} = {h} <=> \A k \in Slot : sfd[c] \in roulette[k] <=> k = h
    BY <2>1 DEF h
  <2> QED BY <2>1, <2>2 DEF h
<1>5. RouletteAge <=> /\ \A c \in Listed : /\ idle[c] \in Slot
                                           /\ \A k \in Slot : sfd[c] \in roulette[k] <=> k = Home(index, idle[c])
                      /\ \A k \in Slot : roulette[k] \subseteq LiveFds
  BY <1>1, <1>2, <1>4 DEF RouletteAge
<1>6. roulette \in [Slot -> SUBSET Int]
  BY DEF ListTypes
<1> QED BY <1>5, <1>6 DEF Agree, LiveFds, Listed

LEMMA AgreeStep ==
    (ListTypes => (epollSet = LiveFds /\ RouletteAge <=> Agree(clients, epollSet, roulette, index, idle)))'
BY AgreeForm, PTL

\* The clients of the descriptors out are dropped from all the lists, the others stay.
Dropped(out, listed, open, age) ==
    /\ Agree(clients, epollSet, roulette, index, idle)'
    /\ clients' \in Seq(Session) /\ Len(clients') \in Nat /\ Len(clients') <= Len(listed)
    /\ \A i, j \in DOMAIN clients' : clients'[i] = clients'[j] => i = j
    /\ index' \in Slot /\ idle' \in [Session -> Nat]
    /\ ToSet(clients') = {c \in ToSet(listed) : sfd[c] \notin out}
    /\ table' = [f \in Fd |-> IF f \in out THEN None ELSE open[f]]
    /\ \A c \in ToSet(listed) : sfd[c] \in out => age[c] = Slots - 1

\* The end of roulette_update_and_check.  Whatever it drops, it drops from all the lists,
\* and only who was silent for a full turn of the wheel.
LEMMA CheckAgrees ==
    ASSUME NEW listed \in Seq(Session), NEW registered, NEW lists, NEW open \in [Fd -> Conn \cup {None}],
           NEW age \in [Session -> Nat],
           index \in Slot, sfd' = sfd,
           \A i, j \in DOMAIN listed : sfd[listed[i]] = sfd[listed[j]] => i = j,
           Agree(listed, registered, lists, index, age),
           RouletteCheck(lists, listed, registered, open, age)
    PROVE  \E out \in SUBSET registered : Dropped(out, listed, open, age)
<1>1. CASE index' = index /\ roulette' = lists /\ clients' = listed /\ epollSet' = registered
           /\ table' = open /\ idle' = age
  <2>1. Agree(clients, epollSet, roulette, index, idle)'
    BY <1>1 DEF Agree
  <2>2. \A i, j \in DOMAIN listed : listed[i] = listed[j] => i = j
    OBVIOUS
  <2>3. ToSet(clients') = {c \in ToSet(listed) : sfd[c] \notin {}}
    BY <1>1
  <2>4. table' = [f \in Fd |-> IF f \in {} THEN None ELSE open[f]]
    BY <1>1
  <2>5. Len(clients') \in Nat /\ Len(clients') <= Len(listed) /\ clients' \in Seq(Session)
    BY <1>1
  <2>6. index' \in Slot /\ idle' \in [Session -> Nat]
    BY <1>1
  <2>7. \A i, j \in DOMAIN clients' : clients'[i] = clients'[j] => i = j
    BY <1>1, <2>2
  <2>8. /\ {} \in SUBSET registered
        /\ \A c \in ToSet(listed) : sfd[c] \in {} => age[c] = Slots - 1
    OBVIOUS
  <2> QED BY <2>1, <2>3, <2>4, <2>5, <2>6, <2>7, <2>8 DEF Dropped
<1>2. CASE /\ index' = (index + 1) % Slots
           /\ roulette' = [lists EXCEPT ![index'] = {}]
           /\ DeleteClients(listed, lists[index'])
           /\ epollSet' = registered \ lists[index']
           /\ table' = [f \in Fd |-> IF f \in lists[index'] THEN None ELSE open[f]]
           /\ idle' = [c \in Session |-> IF c \in ToSet(clients') THEN age[c] + 1 ELSE 0]
  <2>1. PICK out : out = lists[index']
    OBVIOUS
  <2>2. index' = NextSlot(index) /\ index' \in Slot
    BY <1>2, NextForm
  <2>3. out \in SUBSET registered
    BY <2>1, <2>2 DEF Agree
  <2>4. /\ clients' \in Seq(Session) /\ Len(clients') \in Nat /\ Len(clients') <= Len(listed)
        /\ ToSet(clients') = {c \in ToSet(listed) : sfd[c] \notin out}
        /\ \A i, j \in DOMAIN clients' : clients'[i] = clients'[j] => i = j
    BY <1>2, <2>1, Deletes
  <2>5. \A c \in ToSet(listed) : sfd[c] \in out <=> age[c] = Slots - 1
    BY <2>1, <2>2, HomeTurns DEF Agree
  <2>6. idle' \in [Session -> Nat] /\ \A c \in ToSet(clients') : idle'[c] = age[c] + 1
    BY <1>2, <2>4, ClientsAreSessions
  <2>7. \A c \in ToSet(clients') : c \in ToSet(listed) /\ sfd[c] \notin out /\ idle'[c] \in Slot
                                   /\ Home(index', idle'[c]) = Home(index, age[c])
    BY <2>2, <2>4, <2>5, <2>6, HomeTurns DEF Agree
  <2>8. roulette' \in [Slot -> SUBSET Int] /\ roulette'[index'] = {}
        /\ \A k \in Slot : k # index' => roulette'[k] = lists[k]
    BY <1>2, <2>2 DEF Agree
  <2>9. epollSet' = {sfd[c] : c \in ToSet(clients')}
    BY <1>2, <2>1, <2>4 DEF Agree
  <2>10. ASSUME NEW c \in ToSet(clients'), NEW k \in Slot
         PROVE  sfd[c] \in roulette'[k] <=> k = Home(index', idle'[c])
    <3>1. sfd[c] \in lists[k] <=> k = Home(index', idle'[c])
      BY <2>7 DEF Agree
    <3> QED BY <2>1, <2>7, <2>8, <3>1
  <2>11. ASSUME NEW k \in Slot PROVE roulette'[k] \subseteq epollSet'
    <3>1. CASE k = index'
      BY <2>8, <3>1
    <3>2. ASSUME k # index', NEW f \in lists[k] PROVE f \in epollSet'
      <4>1. PICK c \in ToSet(listed) : sfd[c] = f
        BY DEF Agree
      <4>2. sfd[c] \notin out
        BY <2>1, <2>2, <3>2, <4>1 DEF Agree
      <4> QED BY <2>4, <2>9, <4>1, <4>2
    <3> QED BY <2>8, <3>1, <3>2
  <2>12. Agree(clients, epollSet, roulette, index, idle)'
    BY <2>7, <2>8, <2>9, <2>10, <2>11 DEF Agree
  <2>13. table' = [f \in Fd |-> IF f \in out THEN None ELSE open[f]]
    BY <1>2, <2>1
  <2> QED BY <2>2, <2>3, <2>4, <2>5, <2>6, <2>12, <2>13 DEF Dropped
<1> QED BY <1>1, <1>2 DEF RouletteCheck

-----------------------------------------------------------------------------
\* Who uses a descriptor.

Users == Listed \cup Serving \cup Conns

LEMMA UsersForm ==
    FdsHaveOneUser <=> (mode # "dead" => /\ \A c \in Users : sfd[c] \in Fd /\ table[sfd[c]] = c
                                         /\ \A f \in Fd : table[f] # None => table[f] \in Users)
BY DEF FdsHaveOneUser, Users, Conns

LEMMA OneDescriptor ==
    ASSUME FdsHaveOneUser, mode # "dead", NEW c \in Users, NEW d \in Users, sfd[c] = sfd[d]
    PROVE  c = d
BY UsersForm

\* Sessions that are logged in, the connection being served and transfers are different.
LEMMA Apart ==
    ASSUME ServerInv
    PROVE  /\ Listed \subseteq Session /\ Listed \subseteq Conn /\ Conns \subseteq Conn
           /\ Listed \cap Conns = {}
           /\ mode # "dead" => Users \subseteq Conn /\ None \notin Users
           /\ mode # "dead" => Serving \cap (Listed \cup Conns) = {}
<1>1. Listed \subseteq Session
  BY ClientsAreSessions DEF ServerInv, TypesOK, Listed
<1>2. Conns \subseteq Conn /\ \A c \in Conns : c \notin Session
  BY DEF Conns, ServerInv, TypesOK
<1>3. Serving \subseteq Conn /\ Serving \cap (Listed \cup Conns) = {}
  BY DEF Serving, ServerInv, Handling
<1>4. Session \subseteq Conn /\ None \notin Conn
  BY ServerAssumption DEF Conn
<1> QED BY <1>1, <1>2, <1>3, <1>4 DEF Users

\* Descriptors are closed together with the use that is made of them.
LEMMA UsersClose ==
    ASSUME FdsHaveOneUser, mode # "dead", OneName, sfd' = sfd, None \notin Users, NEW out,
           table' = [f \in Fd |-> IF f \in out THEN None ELSE table[f]],
           Users' = {c \in Users : sfd[c] \notin out}
    PROVE  FdsHaveOneUser' /\ OneName'
<1>1. \A c \in Users : sfd[c] \in Fd /\ table[sfd[c]] = c
  BY UsersForm
<1>2. \A f \in Fd : table[f] # None => table[f] \in Users
  BY UsersForm
<1>3. ASSUME NEW c \in Users' PROVE sfd'[c] \in Fd /\ table'[sfd'[c]] = c
  BY <1>1
<1>4. ASSUME NEW f \in Fd, table'[f] # None PROVE table'[f] \in Users'
  <2>1. f \notin out /\ table'[f] = table[f]
    BY <1>4
  <2>2. table[f] \in Users /\ sfd[table[f]] = f
    BY <1>2, <1>4, <2>1 DEF OneName
  <2> QED BY <2>1, <2>2
<1>5. OneName'
  BY DEF OneName
<1> QED BY <1>3, <1>4, <1>5 DEF FdsHaveOneUser, Users, Conns

\* After the wheel: the lists agree, and who is gone was silent for a full turn.
Settled(listed, age) ==
    /\ DescriptorsAgree' /\ RouletteAge' /\ OneName'
    /\ clients' \in Seq(Session) /\ index' \in Slot /\ idle' \in [Session -> Nat]
    /\ roulette' \in [Slot -> SUBSET Int] /\ table' \in [Fd -> Conn \cup {None}]
    /\ \A c \in ToSet(listed) : c \notin ToSet(clients') => age[c] = Slots - 1

\* roulette_update_and_check() at the end of an event: of the clients that are listed then,
\* it keeps or drops each from everything.
LEMMA Checked ==
    ASSUME ServerInv, mode # "dead", UNCHANGED <<sfd, tasks>>, mode' \in {"epoll", "event"},
           NEW listed \in Seq(Session), ToSet(listed) = Listed \cup Serving,
           \A i, j \in DOMAIN listed : listed[i] = listed[j] => i = j,
           NEW registered, NEW lists, NEW age \in [Session -> Nat],
           Agree(listed, registered, lists, index, age),
           RouletteCheck(lists, listed, registered, table, age),
           maxevents' \in Nat, Len(listed) < maxevents'
    PROVE  Settled(listed, age)
<1>1. FdsHaveOneUser /\ OneName /\ TypesOK
  BY DEF ServerInv, DescriptorsAgree
<1>2. ToSet(listed) \subseteq Users /\ ToSet(listed) \cap Conns = {} /\ Users = ToSet(listed) \cup Conns
  BY Apart DEF Users
<1>3. \A i, j \in DOMAIN listed : sfd[listed[i]] = sfd[listed[j]] => i = j
  <2>1. \A i \in DOMAIN listed : listed[i] \in Users
    BY <1>2, InListed
  <2> QED BY <1>1, <2>1, OneDescriptor
<1>4. PICK open : open = table
  OBVIOUS
<1>5. open \in [Fd -> Conn \cup {None}] /\ index \in Slot /\ sfd' = sfd
  BY <1>1, <1>4 DEF TypesOK
<1>6. RouletteCheck(lists, listed, registered, open, age)
  BY <1>4
<1>7. PICK out \in SUBSET registered : Dropped(out, listed, open, age)
  BY <1>6, <1>3, <1>5, CheckAgrees
<1>8. /\ Agree(clients, epollSet, roulette, index, idle)'
      /\ clients' \in Seq(Session) /\ Len(clients') \in Nat /\ Len(clients') <= Len(listed)
      /\ \A i, j \in DOMAIN clients' : clients'[i] = clients'[j] => i = j
      /\ index' \in Slot /\ idle' \in [Session -> Nat]
      /\ ToSet(clients') = {c \in ToSet(listed) : sfd[c] \notin out}
      /\ table' = [f \in Fd |-> IF f \in out THEN None ELSE open[f]]
      /\ \A c \in ToSet(listed) : sfd[c] \in out => age[c] = Slots - 1
  BY <1>7 DEF Dropped
<1>9. Users' = {c \in Users : sfd[c] \notin out}
  <2>1. Serving' = {} /\ Conns' = Conns /\ Listed' = ToSet(clients')
    BY DEF Serving, Conns, Listed
  <2>2. Users' = ToSet(clients') \cup Conns
    BY <2>1 DEF Users
  <2>3. ASSUME NEW d \in Conns PROVE sfd[d] \notin out
    <3>1. \A c \in ToSet(listed) : sfd[c] # sfd[d]
      BY <1>1, <1>2, OneDescriptor
    <3>2. out \subseteq {sfd[c] : c \in ToSet(listed)}
      BY <1>7 DEF Agree
    <3> QED BY <3>1, <3>2
  <2> QED BY <1>2, <1>8, <2>2, <2>3
<1>10. FdsHaveOneUser' /\ OneName'
  <2>1. None \notin Users
    BY Apart
  <2>2. table' = [f \in Fd |-> IF f \in out THEN None ELSE table[f]]
    BY <1>4, <1>8
  <2> QED BY <1>1, <1>5, <1>9, <2>1, <2>2, UsersClose
<1>11. epollSet' = LiveFds'
  BY <1>8 DEF Agree, LiveFds, Listed
<1>12. WatchedAreListed'
  BY <1>8, <1>11 DEF WatchedAreListed
<1>13. roulette' \in [Slot -> SUBSET Int]
  BY <1>8 DEF Agree
<1>14. table' \in [Fd -> Conn \cup {None}]
  BY <1>5, <1>8
<1>15. RouletteAge'
  BY <1>8, <1>11, <1>13, AgreeStep DEF ListTypes
<1> QED BY <1>8, <1>10, <1>12, <1>13, <1>14, <1>15 DEF DescriptorsAgree, Settled

-----------------------------------------------------------------------------
\* The clients' steps.

\* Nothing that the lists are about changes.
LEMMA ListsStay ==
    ASSUME ServerInv, UNCHANGED <<sfd, listVars, maxevents, tasks>>,
           mode' = "dead" \/ (mode # "dead" /\ Serving' = Serving)
    PROVE  DescriptorsAgree' /\ RouletteAge' /\ OneTask' /\ OneName'
<1>1. UNCHANGED <<sfd, table, epollSet, clients, roulette, index, idle, maxevents, tasks>>
  BY DEF listVars
<1>2. Listed' = Listed /\ LiveFds' = LiveFds
  BY <1>1 DEF Listed, LiveFds
<1>3. FdsHaveOneUser'
  BY <1>1, <1>2 DEF FdsHaveOneUser, ServerInv, DescriptorsAgree
<1>4. WatchedAreListed'
  BY <1>1, <1>2 DEF WatchedAreListed, ServerInv, DescriptorsAgree
<1>5. RouletteAge'
  BY <1>1, <1>2 DEF RouletteAge, ServerInv
<1>6. OneTask' /\ OneName'
  BY <1>1 DEF OneTask, OneName, ServerInv
<1> QED BY <1>3, <1>4, <1>5, <1>6 DEF DescriptorsAgree

\* The environment's steps: connections are made and lost, messages sent.
LEMMA ClientsOnly ==
    ASSUME ServerInv, mode # "dead",
           UNCHANGED <<sfd, listVars, maxevents, batch, mode, cur, auth, tasks>>,
           peer' \in [Conn -> {"new", "open", "closed"}],
           inbox' \in [Conn -> Seq(Message)] /\ (\A c \in Conn : inbox'[c] \in Seq(Sends(c))),
           backlog' \in Seq(Conn), Waiting', backlog # <<>> => backlog' # <<>>
    PROVE  ServerInv'
<1>1. UNCHANGED <<sfd, table, epollSet, clients, roulette, index, idle, maxevents, batch, mode, cur, tasks>>
  BY DEF listVars
<1>2. Serving' = Serving /\ Listed' = Listed /\ Conns' = Conns
  BY <1>1 DEF Serving, Listed, Conns
<1>3. TypesOK'
  BY <1>1 DEF TypesOK, ServerInv
<1>4. Handling'
  BY <1>1, <1>2 DEF Handling, ServerInv
<1> QED BY <1>1, <1>2, <1>3, <1>4, ListsStay DEF ServerInv

LEMMA Appended ==
    \A S, x : \A q \in Seq(S) : x \in S =>
        /\ Append(q, x) \in Seq(S) /\ Append(q, x) # <<>>
        /\ DOMAIN Append(q, x) = DOMAIN q \cup {Len(q) + 1}
        /\ Append(q, x)[Len(q) + 1] = x
        /\ \A i \in DOMAIN q : Append(q, x)[i] = q[i] /\ i # Len(q) + 1
OBVIOUS

LEMMA ConnectInv == ASSUME ServerInv, NEW c \in Conn, Connect(c) PROVE ServerInv'
<1>1. /\ mode # "dead" /\ peer[c] = "new"
      /\ peer' = [peer EXCEPT ![c] = "open"]
      /\ backlog' = Append(backlog, c)
      /\ UNCHANGED <<inbox, sfd, listVars, maxevents, batch, mode, cur, auth, tasks>>
  BY DEF Connect
<1>2. TypesOK /\ Waiting
  BY DEF ServerInv
<1>3. /\ backlog' \in Seq(Conn) /\ backlog' # <<>>
      /\ DOMAIN backlog' = DOMAIN backlog \cup {Len(backlog) + 1}
      /\ backlog'[Len(backlog) + 1] = c
      /\ \A i \in DOMAIN backlog : backlog'[i] = backlog[i] /\ i # Len(backlog) + 1 /\ backlog[i] # c
  BY <1>1, <1>2, Appended DEF TypesOK, Waiting
<1>4. peer' \in [Conn -> {"new", "open", "closed"}] /\ peer'[c] = "open"
      /\ \A d \in Conn : d # c => peer'[d] = peer[d]
  BY <1>1, <1>2 DEF TypesOK
<1>5. \A i \in DOMAIN backlog : backlog[i] \in Conn
  BY <1>2 DEF TypesOK
<1>6. Waiting'
  <2>1. \A i, j \in DOMAIN backlog' : backlog'[i] = backlog'[j] => i = j
    BY <1>2, <1>3 DEF Waiting
  <2>2. \A i \in DOMAIN backlog' : sfd'[backlog'[i]] = 0 /\ peer'[backlog'[i]] # "new"
    <3>1. sfd[c] = 0 /\ sfd' = sfd
      BY <1>1, <1>2 DEF Waiting
    <3> QED BY <1>2, <1>3, <1>4, <1>5, <3>1 DEF Waiting
  <2>3. \A d \in Conn : peer'[d] = "new" => sfd'[d] = 0
    BY <1>1, <1>2, <1>4 DEF Waiting
  <2> QED BY <2>1, <2>2, <2>3 DEF Waiting
<1>7. inbox' \in [Conn -> Seq(Message)] /\ \A d \in Conn : inbox'[d] \in Seq(Sends(d))
  BY <1>1, <1>2 DEF TypesOK
<1> QED BY <1>1, <1>3, <1>4, <1>6, <1>7, ClientsOnly

\* One more message in an inbox.
LEMMA InboxAppend ==
    ASSUME TypesOK, NEW c \in Conn, NEW m \in Sends(c), inbox' = [inbox EXCEPT ![c] = Append(@, m)]
    PROVE  inbox' \in [Conn -> Seq(Message)] /\ \A d \in Conn : inbox'[d] \in Seq(Sends(d))
<1>1. m \in Message
  BY DEF Sends, Message
<1>2. inbox[c] \in Seq(Message) /\ inbox[c] \in Seq(Sends(c))
  BY DEF TypesOK
<1>3. Append(inbox[c], m) \in Seq(Message) /\ Append(inbox[c], m) \in Seq(Sends(c))
  BY <1>1, <1>2, Appended
<1>4. inbox' = [inbox EXCEPT ![c] = Append(inbox[c], m)]
  OBVIOUS
<1> QED BY <1>3, <1>4 DEF TypesOK

LEMMA DeliverInv == ASSUME ServerInv, NEW c \in Conn, NEW m \in Sends(c), Deliver(c, m) PROVE ServerInv'
<1>1. /\ mode # "dead" /\ inbox' = [inbox EXCEPT ![c] = Append(@, m)]
      /\ UNCHANGED <<peer, backlog, sfd, listVars, maxevents, batch, mode, cur, auth, tasks>>
  BY DEF Deliver, clientVars
<1>2. TypesOK /\ Waiting
  BY DEF ServerInv
<1>3. inbox' \in [Conn -> Seq(Message)] /\ \A d \in Conn : inbox'[d] \in Seq(Sends(d))
  BY <1>1, <1>2, InboxAppend
<1>4. Waiting' /\ peer' \in [Conn -> {"new", "open", "closed"}] /\ backlog' \in Seq(Conn)
  BY <1>1, <1>2 DEF Waiting, TypesOK
<1> QED BY <1>1, <1>3, <1>4, ClientsOnly

LEMMA SendInv ==
    ASSUME ServerInv, (\E c \in Session : SendSession(c)) \/ (\E c \in Transfer : SendTransfer(c))
    PROVE  ServerInv'
<1>1. ASSUME NEW c \in Session, SendSession(c) PROVE ServerInv'
  <2>1. c \in Conn
    BY DEF Conn
  <2>2. PICK m \in Sends(c) : Deliver(c, m)
    BY <1>1 DEF SendSession, Sends
  <2> QED BY <2>1, <2>2, DeliverInv
<1>2. ASSUME NEW c \in Transfer, SendTransfer(c) PROVE ServerInv'
  <2>1. c \in Conn /\ c \notin Session
    BY ServerAssumption DEF Conn
  <2>2. PICK m \in Sends(c) : Deliver(c, m)
    BY <1>2, <2>1 DEF SendTransfer, Sends
  <2> QED BY <2>1, <2>2, DeliverInv
<1> QED BY <1>1, <1>2

LEMMA HangUpInv == ASSUME ServerInv, NEW c \in Conn, HangUp(c) PROVE ServerInv'
<1>1. /\ mode # "dead" /\ peer[c] = "open"
      /\ peer' = [peer EXCEPT ![c] = "closed"]
      /\ inbox' = inbox \/ inbox' = [inbox EXCEPT ![c] = Append(@, "cut")]
      /\ UNCHANGED <<backlog, sfd, listVars, maxevents, batch, mode, cur, auth, tasks>>
  BY DEF HangUp
<1>2. TypesOK /\ Waiting
  BY DEF ServerInv
<1>3. inbox' \in [Conn -> Seq(Message)] /\ \A d \in Conn : inbox'[d] \in Seq(Sends(d))
  <2>1. "cut" \in Sends(c)
    BY DEF Sends
  <2>2. CASE inbox' = inbox
    BY <1>2, <2>2 DEF TypesOK
  <2> QED BY <1>1, <1>2, <2>1, <2>2, InboxAppend
<1>4. peer' \in [Conn -> {"new", "open", "closed"}] /\ backlog' \in Seq(Conn)
      /\ \A d \in Conn : peer'[d] = "new" <=> peer[d] = "new"
  BY <1>1, <1>2 DEF TypesOK
<1>5. \A i \in DOMAIN backlog : backlog[i] \in Conn
  BY <1>2 DEF TypesOK
<1>6. Waiting'
  BY <1>1, <1>2, <1>4, <1>5 DEF Waiting
<1> QED BY <1>1, <1>3, <1>4, <1>6, ClientsOnly

-----------------------------------------------------------------------------
\* The main thread's steps.

LEMMA DieInv == ASSUME ServerInv, mode # "dead", Die PROVE ServerInv'
<1>1. /\ mode' = "dead"
      /\ UNCHANGED <<peer, backlog, inbox, sfd, table, epollSet, clients, roulette, index, idle,
                     maxevents, batch, cur, tasks>>
  BY DEF Die, clientVars, listVars
<1>2. TypesOK'
  BY <1>1 DEF TypesOK, ServerInv, Mode
<1>3. Waiting'
  BY <1>1 DEF Waiting, ServerInv
<1>4. Handling'
  BY <1>1 DEF Handling, ServerInv
<1>5. UNCHANGED <<sfd, listVars, maxevents, tasks>>
  BY DEF Die
<1> QED BY <1>1, <1>2, <1>3, <1>4, <1>5, ListsStay DEF ServerInv

\* The next event of the batch, or back to epoll_wait.
LEMMA NextHandling ==
    ASSUME ServerInv, mode \in {"event", "first", "task"}, NextEvent, backlog' = backlog
    PROVE  /\ Handling' /\ batch' \in Seq(Fd \cup {Listen}) /\ mode' \in {"epoll", "event"}
           /\ Serving' = {}
<1>1. /\ batch \in Seq(Fd \cup {Listen}) /\ batch # <<>>
      /\ \A i, j \in DOMAIN batch : batch[i] = batch[j] => i = j
      /\ \A i \in DOMAIN batch : batch[i] = Listen /\ i # 1 => backlog # <<>>
  BY DEF ServerInv, TypesOK, Handling
<1>2. /\ Tail(batch) \in Seq(Fd \cup {Listen})
      /\ \A i \in DOMAIN Tail(batch) : /\ i + 1 \in DOMAIN batch /\ i + 1 # 1 /\ i \in Nat
                                       /\ Tail(batch)[i] = batch[i + 1]
  BY <1>1
<1>3. /\ batch' = Tail(batch)
      /\ mode' = "epoll" \/ (mode' = "event" /\ Tail(batch) # <<>>)
  BY DEF NextEvent
<1>4. \A i, j \in DOMAIN batch' : batch'[i] = batch'[j] => i = j
  <2> SUFFICES ASSUME NEW i \in DOMAIN batch', NEW j \in DOMAIN batch', batch'[i] = batch'[j]
               PROVE  i = j
    OBVIOUS
  <2>1. i \in Nat /\ j \in Nat /\ i + 1 = j + 1
    BY <1>1, <1>2, <1>3
  <2> QED BY <2>1
<1>5. \A i \in DOMAIN batch' : batch'[i] = Listen => backlog' # <<>>
  BY <1>1, <1>2, <1>3
<1> QED BY <1>2, <1>3, <1>4, <1>5 DEF Handling, Serving

LEMMA TailTyped == \A S : \A q \in Seq(S) : q # <<>> => Tail(q) \in Seq(S) /\ Head(q) \in S
OBVIOUS

\* A message is read.
LEMMA ReadTyped ==
    ASSUME TypesOK, NEW c \in Conn, inbox[c] # <<>>, Read(c)
    PROVE  /\ Head(inbox[c]) \in Sends(c)
           /\ inbox' \in [Conn -> Seq(Message)] /\ \A d \in Conn : inbox'[d] \in Seq(Sends(d))
<1>1. inbox[c] \in Seq(Message) /\ inbox[c] \in Seq(Sends(c))
  BY DEF TypesOK
<1>2. /\ Tail(inbox[c]) \in Seq(Message) /\ Tail(inbox[c]) \in Seq(Sends(c))
      /\ Head(inbox[c]) \in Sends(c)
  BY <1>1, TailTyped
<1>3. inbox' = [inbox EXCEPT ![c] = Tail(inbox[c])]
  BY DEF Read
<1> QED BY <1>2, <1>3 DEF TypesOK

LEMMA EpollWaitInv == ASSUME ServerInv, EpollWait PROVE ServerInv'
<1>1. mode = "epoll" /\ mode' = "event" /\ Ready # {}
      /\ UNCHANGED <<clientVars, inbox, sfd, listVars, maxevents, cur, auth, tasks>>
  BY DEF EpollWait
<1>2. UNCHANGED <<peer, backlog, inbox, sfd, table, epollSet, clients, roulette, index, idle,
                  maxevents, cur, tasks>>
  BY <1>1 DEF clientVars, listVars
<1>3. /\ TypesOK /\ Waiting /\ FdsHaveOneUser /\ WatchedAreListed
  BY DEF ServerInv, DescriptorsAgree
<1>4. epollSet \subseteq Fd
  <2>1. \A c \in Listed : sfd[c] \in Fd
    BY <1>1, <1>3, UsersForm DEF Users
  <2> QED BY <1>3, <2>1 DEF WatchedAreListed, LiveFds
<1>5. IsFiniteSet(Ready) /\ Ready \subseteq Fd \cup {Listen}
      /\ (Listen \in Ready => backlog # <<>>)
  <2>1. MaxFd \in Nat /\ Listen \notin Fd
    BY ServerAssumption
  <2>2. IsFiniteSet(Fd)
    BY <2>1, PlacesFinite DEF Fd
  <2>3. IsFiniteSet(Fd \cup {Listen})
    BY <2>2, FS_AddElement
  <2>4. Ready \subseteq Fd \cup {Listen} /\ (Listen \in Ready => backlog # <<>>)
    BY <1>4, <2>1 DEF Ready
  <2> QED BY <2>3, <2>4, FS_Subset
<1>6. PICK S \in SUBSET Ready :
          /\ IF Cardinality(Ready) <= maxevents THEN S = Ready ELSE Cardinality(S) = maxevents
          /\ batch' \in SetToSeqs(S)
  BY DEF EpollWait
<1>7. IsFiniteSet(S) /\ Cardinality(S) \in Nat /\ Cardinality(S) # 0
  <2>1. IsFiniteSet(S) /\ Cardinality(S) \in Nat
    BY <1>5, FS_Subset, FS_CardinalityType
  <2>2. Cardinality(Ready) # 0
    BY <1>1, <1>5, FS_EmptySet
  <2>3. maxevents # 0
    <3>1. Len(clients) \in Nat /\ maxevents \in Nat /\ Len(clients) < maxevents
      BY <1>3 DEF TypesOK, WatchedAreListed
    <3> QED BY <3>1
  <2> QED BY <1>6, <2>1, <2>2, <2>3
<1> DEFINE n == Cardinality(S)
<1>8. batch' \in [1..n -> S] /\ \A i, j \in 1..n : i # j => batch'[i] # batch'[j]
  BY <1>6 DEF SetToSeqs
<1>9. n \in Nat /\ n # 0
  BY <1>7
<1> HIDE DEF n
<1>10. S \subseteq Fd \cup {Listen} /\ (Listen \in S => backlog # <<>>)
  BY <1>5, <1>6
<1>11. batch' \in Seq(Fd \cup {Listen}) /\ batch' # <<>> /\ DOMAIN batch' = 1..n
  BY <1>8, <1>9, <1>10
<1>12. Handling'
  BY <1>1, <1>2, <1>8, <1>10, <1>11 DEF Handling
<1>13. TypesOK'
  BY <1>1, <1>2, <1>3, <1>11 DEF TypesOK, Mode
<1>14. Waiting'
  BY <1>2, <1>3 DEF Waiting
<1>15. Serving' = Serving
  BY <1>1 DEF Serving
<1> QED BY <1>1, <1>12, <1>13, <1>14, <1>15, ListsStay DEF ServerInv

LEMMA EpollTimeoutInv ==
    ASSUME ServerInv, EpollTimeout
    PROVE  ServerInv' /\ \A c \in Listed : c \notin Listed' => idle[c] = Slots - 1
<1>1. mode = "epoll" /\ RouletteCheck(roulette, clients, epollSet, table, idle)
      /\ UNCHANGED <<peer, backlog, inbox, sfd, maxevents, batch, mode, cur, tasks>>
  BY DEF EpollTimeout, clientVars
<1>2. TypesOK /\ Waiting /\ Handling /\ OneTask
  BY DEF ServerInv
<1>3. PICK listed, registered, lists, age :
          listed = clients /\ registered = epollSet /\ lists = roulette /\ age = idle
  OBVIOUS
<1>4. Agree(listed, registered, lists, index, age)
  BY <1>2, <1>3, AgreeForm DEF ListTypes, TypesOK, ServerInv, DescriptorsAgree, WatchedAreListed
<1>5. /\ listed \in Seq(Session) /\ ToSet(listed) = Listed \cup Serving
      /\ \A i, j \in DOMAIN listed : listed[i] = listed[j] => i = j
      /\ maxevents' \in Nat /\ Len(listed) < maxevents' /\ age \in [Session -> Nat]
  BY <1>1, <1>2, <1>3 DEF TypesOK, Listed, Serving, ServerInv, DescriptorsAgree, WatchedAreListed
<1>6. RouletteCheck(lists, listed, registered, table, age)
  BY <1>1, <1>3
<1>7. mode # "dead" /\ mode' \in {"epoll", "event"} /\ UNCHANGED <<sfd, tasks>>
  BY <1>1
<1>8. /\ DescriptorsAgree' /\ RouletteAge' /\ OneName'
      /\ clients' \in Seq(Session) /\ index' \in Slot /\ idle' \in [Session -> Nat]
      /\ roulette' \in [Slot -> SUBSET Int] /\ table' \in [Fd -> Conn \cup {None}]
      /\ \A c \in ToSet(listed) : c \notin ToSet(clients') => age[c] = Slots - 1
  <2>1. Settled(listed, age)
    BY <1>4, <1>5, <1>6, <1>7, Checked
  <2> QED BY <2>1 DEF Settled
<1>9. TypesOK'
  BY <1>1, <1>2, <1>8 DEF TypesOK
<1>10. Waiting'
  BY <1>1, <1>2 DEF Waiting
<1>11. Handling' /\ OneTask'
  BY <1>1, <1>2 DEF Handling, OneTask
<1>12. \A c \in Listed : c \notin Listed' => idle[c] = Slots - 1
  BY <1>3, <1>8 DEF Listed
<1> QED BY <1>8, <1>9, <1>10, <1>11, <1>12 DEF ServerInv

\* A new connection gets a descriptor nobody has.
LEMMA AcceptInv == ASSUME ServerInv, Accept PROVE ServerInv'
<1>1. TypesOK /\ Waiting /\ Handling /\ OneTask /\ OneName /\ FdsHaveOneUser /\ WatchedAreListed /\ RouletteAge
  BY DEF ServerInv, DescriptorsAgree
<1>2. mode = "event" /\ batch # <<>> /\ batch \in Seq(Fd \cup {Listen}) /\ Head(batch) = Listen
  BY <1>1 DEF Accept, TypesOK, Handling
<1>3. 1 \in DOMAIN batch /\ batch[1] = Listen
  BY <1>2
<1>4. backlog # <<>> /\ backlog \in Seq(Conn)
  BY <1>1, <1>2, <1>3 DEF Handling, TypesOK
<1>5. PICK c, f : /\ c = Head(backlog) /\ f \in FreeFds
                  /\ table' = [table EXCEPT ![f] = c] /\ sfd' = [sfd EXCEPT ![c] = f]
                  /\ cur' = c /\ backlog' = Tail(backlog) /\ mode' = "first"
                  /\ UNCHANGED <<peer, inbox, epollSet, clients, roulette, index, idle, maxevents, batch, tasks>>
  BY DEF Accept
<1>6. /\ c \in Conn /\ c = backlog[1] /\ 1 \in DOMAIN backlog
      /\ backlog' \in Seq(Conn)
      /\ \A i \in DOMAIN backlog' : i \in Nat /\ i + 1 \in DOMAIN backlog /\ i + 1 # 1 /\ backlog'[i] = backlog[i + 1]
  BY <1>4, <1>5
<1>7. sfd[c] = 0 /\ peer[c] # "new" /\ \A i \in DOMAIN backlog' : backlog'[i] # c
  BY <1>1, <1>6 DEF Waiting
<1>8. /\ f \in Fd /\ table[f] = None /\ f \in Nat /\ f # 0
      /\ sfd' \in [Conn -> Nat] /\ sfd'[c] = f /\ (\A d \in Conn : d # c => sfd'[d] = sfd[d])
      /\ table' \in [Fd -> Conn \cup {None}] /\ table'[f] = c /\ (\A g \in Fd : g # f => table'[g] = table[g])
  <2>1. f \in Fd /\ table[f] = None
    BY <1>5 DEF FreeFds
  <2>2. f \in Nat /\ f # 0
    BY <2>1, ServerAssumption DEF Fd
  <2> QED BY <1>1, <1>5, <1>6, <2>1, <2>2 DEF TypesOK
<1>9. /\ \A d \in Users : sfd[d] \in Fd /\ table[sfd[d]] = d
      /\ \A g \in Fd : table[g] # None => table[g] \in Users
  BY <1>1, <1>2, UsersForm
<1>10. c \notin Users /\ Users \subseteq Conn /\ None \notin Users /\ Users = Listed \cup Conns
  <2>1. \A d \in Users : sfd[d] # 0
    BY <1>9, ServerAssumption DEF Fd
  <2>2. Serving = {}
    BY <1>2 DEF Serving
  <2> QED BY <1>2, <1>7, <2>1, <2>2, Apart DEF Users
<1>11. Listed' = Listed /\ Conns' = Conns /\ Serving' = {c} /\ Users' = Users \cup {c}
  BY <1>5, <1>10 DEF Listed, Conns, Serving, Users
<1>12. \A d \in Users : sfd'[d] = sfd[d] /\ sfd'[d] # f
  BY <1>8, <1>9, <1>10
<1>13. FdsHaveOneUser'
  <2>1. ASSUME NEW d \in Users' PROVE sfd'[d] \in Fd /\ table'[sfd'[d]] = d
    <3>1. CASE d = c
      BY <1>8, <3>1
    <3>2. CASE d \in Users
      <4>1. sfd'[d] \in Fd /\ sfd'[d] # f /\ table[sfd'[d]] = d
        BY <1>9, <1>12, <3>2
      <4> QED BY <1>8, <4>1
    <3> QED BY <1>11, <3>1, <3>2
  <2>2. \A g \in Fd : table'[g] # None => table'[g] \in Users'
    BY <1>8, <1>9, <1>11
  <2> QED BY <2>1, <2>2 DEF FdsHaveOneUser, Users, Conns
<1>14. OneName'
  <2>1. c # None
    BY <1>6, ServerAssumption
  <2>2. ASSUME NEW g \in Fd, table'[g] # None PROVE sfd'[table'[g]] = g
    <3>1. CASE g = f
      BY <1>8, <3>1
    <3>2. CASE g # f
      BY <1>1, <1>8, <1>9, <1>12, <2>2, <3>2 DEF OneName
    <3> QED BY <3>1, <3>2
  <2> QED BY <2>2 DEF OneName
<1>15. LiveFds' = LiveFds
  BY <1>10, <1>11, <1>12 DEF LiveFds
<1>16. WatchedAreListed'
  BY <1>1, <1>5, <1>15 DEF WatchedAreListed
<1>17. RouletteAge'
  BY <1>1, <1>5, <1>10, <1>11, <1>12, <1>15 DEF RouletteAge
<1>18. TypesOK'
  BY <1>1, <1>5, <1>6, <1>8 DEF TypesOK, Mode
<1>19. Waiting'
  <2>1. \A i, j \in DOMAIN backlog' : backlog'[i] = backlog'[j] => i = j
    <3> SUFFICES ASSUME NEW i \in DOMAIN backlog', NEW j \in DOMAIN backlog', backlog'[i] = backlog'[j]
                 PROVE  i = j
      OBVIOUS
    <3>1. i \in Nat /\ j \in Nat /\ i + 1 = j + 1
      BY <1>1, <1>6 DEF Waiting
    <3> QED BY <3>1
  <2>2. \A i \in DOMAIN backlog' : backlog'[i] \in Conn
    BY <1>6
  <2>3. \A i \in DOMAIN backlog' : sfd'[backlog'[i]] = 0 /\ peer'[backlog'[i]] # "new"
    BY <1>1, <1>5, <1>6, <1>7, <1>8, <2>2 DEF Waiting
  <2>4. \A d \in Conn : peer'[d] = "new" => sfd'[d] = 0
    BY <1>1, <1>5, <1>7, <1>8 DEF Waiting
  <2> QED BY <2>1, <2>3, <2>4 DEF Waiting
<1>20. Handling'
  <2>1. \A i \in DOMAIN batch : i # 1 => batch[i] # Listen
    BY <1>1, <1>3 DEF Handling
  <2>2. cur' \in Conn /\ cur' \notin Listed' /\ cur' \notin Conns'
    BY <1>5, <1>6, <1>10, <1>11
  <2> QED BY <1>1, <1>2, <1>3, <1>5, <2>1, <2>2 DEF Handling
<1>21. OneTask'
  BY <1>1, <1>5 DEF OneTask
<1> QED BY <1>13, <1>14, <1>16, <1>17, <1>18, <1>19, <1>20, <1>21 DEF ServerInv, DescriptorsAgree

\* roulette_update_and_check() with a descriptor: it moves, or enters, the current list.
LEMMA TouchAgrees ==
    ASSUME ServerInv, mode # "dead", NEW c \in Session, c \in Listed \cup Serving
    PROVE  \A listed : ToSet(listed) = Listed \cup {c} =>
              Agree(listed, epollSet \cup {sfd[c]}, Touch(sfd[c]), index, [idle EXCEPT ![c] = 0])
<1> SUFFICES ASSUME NEW listed, ToSet(listed) = Listed \cup {c}
             PROVE  Agree(listed, epollSet \cup {sfd[c]}, Touch(sfd[c]), index, [idle EXCEPT ![c] = 0])
  OBVIOUS
<1> DEFINE age == [idle EXCEPT ![c] = 0]
           lists == Touch(sfd[c])
<1>1. TypesOK /\ FdsHaveOneUser /\ WatchedAreListed
  BY DEF ServerInv, DescriptorsAgree
<1>2. Agree(clients, epollSet, roulette, index, idle)
  BY <1>1, AgreeForm DEF ListTypes, TypesOK, ServerInv, WatchedAreListed
<1>3. Listed \subseteq Session /\ c \in Users /\ Listed \subseteq Users /\ index \in Slot /\ 0 \in Slot /\ sfd[c] \in Int
  <2>1. sfd[c] \in Int
    BY <1>1, ServerAssumption DEF TypesOK, Conn
  <2> QED BY <1>1, <2>1, Apart, ServerAssumption DEF Users, TypesOK, Slot
<1>4. \A d \in Listed : d # c => sfd[d] # sfd[c]
  BY <1>1, <1>3, OneDescriptor
<1>5. age[c] = 0 /\ \A d \in Listed : d # c => age[d] = idle[d]
  BY <1>1, <1>3 DEF TypesOK
<1>6. /\ lists \in [Slot -> SUBSET Int]
      /\ \A k \in Slot : lists[k] = IF k = index THEN roulette[k] \cup {sfd[c]} ELSE roulette[k] \ {sfd[c]}
  BY <1>1, <1>3 DEF TypesOK, Touch
<1> HIDE DEF age, lists
<1>7. epollSet \cup {sfd[c]} = {sfd[d] : d \in ToSet(listed)}
  BY <1>2 DEF Agree, Listed
<1>8. \A d \in ToSet(listed) : age[d] \in Slot
  BY <1>2, <1>3, <1>5 DEF Agree, Listed
<1>9. \A d \in ToSet(listed), k \in Slot : sfd[d] \in lists[k] <=> k = Home(index, age[d])
  <2>1. \A k \in Slot : sfd[c] \in lists[k] <=> k = Home(index, age[c])
    BY <1>3, <1>5, <1>6, HomeTurns
  <2>2. ASSUME NEW d \in Listed, d # c, NEW k \in Slot PROVE sfd[d] \in lists[k] <=> k = Home(index, age[d])
    <3>1. sfd[d] \in lists[k] <=> sfd[d] \in roulette[k]
      BY <1>4, <1>6, <2>2
    <3> QED BY <1>2, <1>5, <2>2, <3>1 DEF Agree, Listed
  <2> QED BY <2>1, <2>2
<1>10. \A k \in Slot : lists[k] \subseteq epollSet \cup {sfd[c]}
  BY <1>2, <1>6 DEF Agree
<1>11. Agree(listed, epollSet \cup {sfd[c]}, lists, index, age)
  BY <1>6, <1>7, <1>8, <1>9, <1>10 DEF Agree
<1> QED BY <1>11 DEF age, lists

\* A login: the client enters all the lists, and then the wheel may turn.
LEMMA LoginOkInv == ASSUME ServerInv, LoginOk PROVE ServerInv' /\ \A c \in Listed : c \notin Listed' => idle[c] = Slots - 1
<1>1. /\ mode = "first" /\ inbox[cur] # <<>> /\ Head(inbox[cur]) = "login"
      /\ Read(cur) /\ NextEvent
      /\ maxevents' = maxevents + 1
      /\ UNCHANGED <<peer, backlog, sfd, tasks>>
  BY DEF LoginOk, clientVars
<1>2. /\ TypesOK /\ Waiting /\ Handling /\ OneTask /\ WatchedAreListed
  BY DEF ServerInv, DescriptorsAgree
<1>3. PICK c : c = cur
  OBVIOUS
<1>4. c \in Conn /\ c \notin Listed /\ c \notin Conns /\ Serving = {c}
  BY <1>1, <1>2, <1>3 DEF Handling, Serving
<1>5. /\ Head(inbox[c]) \in Sends(c)
      /\ inbox' \in [Conn -> Seq(Message)] /\ \A d \in Conn : inbox'[d] \in Seq(Sends(d))
  BY <1>1, <1>2, <1>3, <1>4, ReadTyped
<1>6. c \in Session
  BY <1>1, <1>3, <1>5, ServerAssumption DEF Sends
<1>7. PICK listed, registered, lists, age :
          /\ listed = <<c>> \o clients /\ registered = epollSet \cup {sfd[c]}
          /\ lists = Touch(sfd[c]) /\ age = [idle EXCEPT ![c] = 0]
  OBVIOUS
<1>8. RouletteCheck(lists, listed, registered, table, age)
  BY <1>3, <1>7 DEF LoginOk
<1>9. /\ listed \in Seq(Session) /\ Len(listed) = Len(clients) + 1
      /\ ToSet(listed) = Listed \cup {c}
      /\ \A i, j \in DOMAIN listed : listed[i] = listed[j] => i = j
  <2>1. clients \in Seq(Session) /\ c \notin ToSet(clients)
    BY <1>2, <1>4 DEF TypesOK, Listed
  <2>2. \A i, j \in DOMAIN clients : clients[i] = clients[j] => i = j
    BY <1>2 DEF WatchedAreListed
  <2>3. PICK L : L = clients
    OBVIOUS
  <2>4. L \in Seq(Session) /\ c \notin ToSet(L) /\ (\A i, j \in DOMAIN L : L[i] = L[j] => i = j)
    BY <2>1, <2>2, <2>3
  <2>5. /\ <<c>> \o L \in Seq(Session)
        /\ Len(<<c>> \o L) = Len(L) + 1
        /\ ToSet(<<c>> \o L) = {c} \cup ToSet(L)
        /\ \A i, j \in DOMAIN (<<c>> \o L) : (<<c>> \o L)[i] = (<<c>> \o L)[j] => i = j
    BY <1>6, <2>4, HeadInsert
  <2>6. listed = <<c>> \o L
    BY <1>7, <2>3
  <2> QED BY <2>3, <2>5, <2>6 DEF Listed
<1>10. mode # "dead" /\ UNCHANGED <<sfd, tasks>> /\ ToSet(listed) = Listed \cup Serving
  BY <1>1, <1>4, <1>9
<1>11. Agree(listed, registered, lists, index, age)
  <2>1. Agree(listed, epollSet \cup {sfd[c]}, Touch(sfd[c]), index, [idle EXCEPT ![c] = 0])
    BY <1>4, <1>6, <1>9, <1>10, TouchAgrees
  <2> QED BY <1>7, <2>1
<1>12. /\ Handling' /\ batch' \in Seq(Fd \cup {Listen}) /\ mode' \in {"epoll", "event"}
  BY <1>1, NextHandling
<1>13. age \in [Session -> Nat] /\ maxevents' \in Nat /\ Len(listed) < maxevents'
  <2>1. Len(clients) \in Nat /\ maxevents \in Nat /\ Len(clients) < maxevents /\ idle \in [Session -> Nat]
    BY <1>2 DEF TypesOK, WatchedAreListed
  <2> QED BY <1>1, <1>6, <1>7, <1>9, <2>1
<1>14. /\ DescriptorsAgree' /\ RouletteAge' /\ OneName'
       /\ clients' \in Seq(Session) /\ index' \in Slot /\ idle' \in [Session -> Nat]
       /\ roulette' \in [Slot -> SUBSET Int] /\ table' \in [Fd -> Conn \cup {None}]
       /\ \A d \in ToSet(listed) : d \notin ToSet(clients') => age[d] = Slots - 1
  <2>1. Settled(listed, age)
    BY <1>8, <1>9, <1>11, <1>12, <1>13, <1>10, Checked
  <2> QED BY <2>1 DEF Settled
<1>15. TypesOK'
  BY <1>1, <1>2, <1>5, <1>12, <1>13, <1>14 DEF TypesOK, Mode
<1>16. Waiting' /\ OneTask'
  BY <1>1, <1>2 DEF Waiting, OneTask
<1>17. \A d \in Listed : d \notin Listed' => idle[d] = Slots - 1
  <2>1. \A d \in Listed : d \in Session /\ d # c /\ d \in ToSet(listed)
    BY <1>4, <1>9, Apart
  <2>2. \A d \in Listed : age[d] = idle[d]
    BY <1>2, <1>7, <2>1 DEF TypesOK
  <2> QED BY <1>14, <2>1, <2>2 DEF Listed
<1> QED BY <1>12, <1>14, <1>15, <1>16, <1>17 DEF ServerInv

\* A command: the client moves to the current list, and then the wheel may turn.
LEMMA CommandInv == ASSUME ServerInv, Command PROVE ServerInv' /\ \A c \in Listed : c \notin Listed' => idle[c] = Slots - 1
<1>1. PICK c \in Matching :
         /\ inbox[c] # <<>> /\ Read(c)
         /\ RouletteCheck(Touch(sfd[c]), clients, epollSet, table, [idle EXCEPT ![c] = 0])
  BY DEF Command
<1>2. /\ mode = "event" /\ NextEvent
      /\ UNCHANGED <<peer, backlog, sfd, maxevents, tasks>>
  BY DEF Command, clientVars
<1>3. /\ TypesOK /\ Waiting /\ Handling /\ OneTask /\ WatchedAreListed
  BY DEF ServerInv, DescriptorsAgree
<1>4. c \in Listed /\ c \in Session /\ c \in Conn /\ Serving = {}
  BY <1>2, Apart DEF Matching, Serving
<1>5. /\ inbox' \in [Conn -> Seq(Message)] /\ \A d \in Conn : inbox'[d] \in Seq(Sends(d))
  BY <1>1, <1>3, <1>4, ReadTyped
<1>6. PICK listed, registered, lists, age :
          /\ listed = clients /\ registered = epollSet
          /\ lists = Touch(sfd[c]) /\ age = [idle EXCEPT ![c] = 0]
  OBVIOUS
<1>7. RouletteCheck(lists, listed, registered, table, age)
  BY <1>1, <1>6
<1>8. /\ listed \in Seq(Session)
      /\ ToSet(listed) = Listed \cup {c} /\ ToSet(listed) = Listed \cup Serving
      /\ \A i, j \in DOMAIN listed : listed[i] = listed[j] => i = j
  BY <1>3, <1>4, <1>6 DEF TypesOK, WatchedAreListed, Listed
<1>9. registered = epollSet \cup {sfd[c]}
  BY <1>3, <1>4, <1>6 DEF WatchedAreListed, LiveFds
<1>10. mode # "dead" /\ UNCHANGED <<sfd, tasks>>
  BY <1>2
<1>11. Agree(listed, registered, lists, index, age)
  <2>1. Agree(listed, epollSet \cup {sfd[c]}, Touch(sfd[c]), index, [idle EXCEPT ![c] = 0])
    BY <1>4, <1>8, <1>10, TouchAgrees
  <2> QED BY <1>6, <1>9, <2>1
<1>12. /\ Handling' /\ batch' \in Seq(Fd \cup {Listen}) /\ mode' \in {"epoll", "event"}
  BY <1>2, NextHandling
<1>13. age \in [Session -> Nat] /\ maxevents' \in Nat /\ Len(listed) < maxevents'
  BY <1>2, <1>3, <1>4, <1>6 DEF TypesOK, WatchedAreListed
<1>14. /\ DescriptorsAgree' /\ RouletteAge' /\ OneName'
       /\ clients' \in Seq(Session) /\ index' \in Slot /\ idle' \in [Session -> Nat]
       /\ roulette' \in [Slot -> SUBSET Int] /\ table' \in [Fd -> Conn \cup {None}]
       /\ \A d \in ToSet(listed) : d \notin ToSet(clients') => age[d] = Slots - 1
  <2>1. Settled(listed, age)
    BY <1>7, <1>8, <1>11, <1>12, <1>13, <1>10, Checked
  <2> QED BY <2>1 DEF Settled
<1>15. TypesOK'
  BY <1>2, <1>3, <1>5, <1>12, <1>13, <1>14 DEF TypesOK, Mode
<1>16. Waiting' /\ OneTask'
  BY <1>2, <1>3 DEF Waiting, OneTask
<1>17. \A d \in Listed : d \notin Listed' => idle[d] = Slots - 1
  <2>1. age[c] = 0 /\ Slots - 1 # 0 /\ \A d \in Listed : d # c => age[d] = idle[d]
    BY <1>3, <1>4, <1>6, Apart, ServerAssumption DEF TypesOK
  <2>2. \A d \in Listed : d \in ToSet(listed)
    BY <1>8
  <2> QED BY <1>14, <2>1, <2>2 DEF Listed
<1> QED BY <1>12, <1>14, <1>15, <1>16, <1>17 DEF ServerInv

\* One descriptor is closed, with the one use of it.
LEMMA CloseOne ==
    ASSUME ServerInv, mode # "dead", sfd' = sfd, NEW c \in Users, Close(sfd[c]), Users' = Users \ {c}
    PROVE  FdsHaveOneUser' /\ OneName' /\ table' \in [Fd -> Conn \cup {None}]
<1>1. TypesOK /\ OneName /\ FdsHaveOneUser /\ None \notin Users
  BY Apart DEF ServerInv, DescriptorsAgree
<1>2. PICK out : out = {sfd[c]}
  OBVIOUS
<1>3. table' = [f \in Fd |-> IF f \in out THEN None ELSE table[f]]
  BY <1>1, <1>2 DEF Close, TypesOK
<1>4. Users' = {d \in Users : sfd[d] \notin out}
  BY <1>1, <1>2, OneDescriptor
<1>5. FdsHaveOneUser' /\ OneName'
  BY <1>1, <1>3, <1>4, UsersClose
<1>6. table' \in [Fd -> Conn \cup {None}]
  BY <1>1, <1>3 DEF TypesOK
<1> QED BY <1>5, <1>6

\* The client list, epoll and the wheel stay as they are.
LEMMA WheelStays ==
    ASSUME ServerInv, UNCHANGED <<sfd, epollSet, clients, roulette, index, idle, maxevents>>
    PROVE  WatchedAreListed' /\ RouletteAge'
<1>1. Listed' = Listed /\ LiveFds' = LiveFds
  BY DEF Listed, LiveFds
<1> QED BY <1>1 DEF ServerInv, DescriptorsAgree, WatchedAreListed, RouletteAge

\* A connection that is refused is closed.
LEMMA RefuseInv == ASSUME ServerInv, Refuse \/ NotATask PROVE ServerInv'
<1>1. /\ mode \in {"first", "task"} /\ inbox[cur] # <<>>
      /\ Read(cur) /\ Close(sfd[cur]) /\ NextEvent
      /\ UNCHANGED <<peer, backlog, sfd, epollSet, clients, roulette, index, idle, maxevents, tasks>>
  BY DEF Refuse, NotATask, clientVars
<1>2. TypesOK /\ Waiting /\ Handling /\ OneTask
  BY DEF ServerInv
<1>3. PICK c : c = cur
  OBVIOUS
<1>4. c \in Conn /\ c \notin Listed /\ c \notin Conns /\ Serving = {c}
  BY <1>1, <1>2, <1>3 DEF Handling, Serving
<1>5. inbox' \in [Conn -> Seq(Message)] /\ \A d \in Conn : inbox'[d] \in Seq(Sends(d))
  BY <1>1, <1>2, <1>3, <1>4, ReadTyped
<1>6. /\ Handling' /\ batch' \in Seq(Fd \cup {Listen}) /\ mode' \in {"epoll", "event"} /\ Serving' = {}
  BY <1>1, NextHandling
<1>7. Users' = Users \ {c} /\ c \in Users
  BY <1>1, <1>4, <1>6 DEF Users, Listed, Conns
<1>8. FdsHaveOneUser' /\ OneName' /\ table' \in [Fd -> Conn \cup {None}]
  BY <1>1, <1>3, <1>7, CloseOne
<1>9. TypesOK'
  BY <1>1, <1>2, <1>5, <1>6, <1>8 DEF TypesOK, Mode
<1>10. Waiting' /\ OneTask'
  BY <1>1, <1>2 DEF Waiting, OneTask
<1> QED BY <1>1, <1>6, <1>8, <1>9, <1>10, WheelStays DEF ServerInv, DescriptorsAgree

\* A token that is known: only transfers send tokens.
LEMMA TokenOkInv == ASSUME ServerInv, TokenOk PROVE ServerInv'
<1>1. /\ mode = "first" /\ mode' = "task" /\ inbox[cur] # <<>> /\ Head(inbox[cur]) \in Listed
      /\ Read(cur)
      /\ UNCHANGED <<clientVars, sfd, listVars, maxevents, batch, cur, tasks>>
  BY DEF TokenOk
<1>2. TypesOK /\ Waiting /\ Handling
  BY DEF ServerInv
<1>3. PICK c : c = cur
  OBVIOUS
<1>4. c \in Conn
  BY <1>1, <1>2, <1>3 DEF Handling
<1>5. /\ Head(inbox[c]) \in Sends(c)
      /\ inbox' \in [Conn -> Seq(Message)] /\ \A d \in Conn : inbox'[d] \in Seq(Sends(d))
  BY <1>1, <1>2, <1>3, <1>4, ReadTyped
<1>6. c \notin Session
  BY <1>1, <1>3, <1>5, Apart, ServerAssumption DEF Sends
<1>7. UNCHANGED <<peer, backlog, sfd, table, epollSet, clients, roulette, index, idle, maxevents, batch, cur, tasks>>
  BY <1>1 DEF clientVars, listVars
<1>8. TypesOK'
  BY <1>1, <1>2, <1>5, <1>7 DEF TypesOK, Mode
<1>9. Waiting'
  BY <1>2, <1>7 DEF Waiting
<1>10. Handling'
  BY <1>1, <1>2, <1>3, <1>6, <1>7 DEF Handling, Listed, Conns
<1>11. Serving' = Serving
  BY <1>1, <1>7 DEF Serving
<1> QED BY <1>1, <1>8, <1>9, <1>10, <1>11, ListsStay DEF ServerInv

\* A transfer takes over the descriptor.
LEMMA EnqueueInv == ASSUME ServerInv, Enqueue PROVE ServerInv'
<1>1. /\ mode = "task" /\ inbox[cur] # <<>> /\ Read(cur) /\ NextEvent
      /\ tasks' = tasks \cup {[conn |-> cur, client |-> auth]}
      /\ UNCHANGED <<clientVars, sfd, listVars, maxevents>>
  BY DEF Enqueue
<1>2. UNCHANGED <<peer, backlog, sfd, table, epollSet, clients, roulette, index, idle, maxevents>>
  BY <1>1 DEF clientVars, listVars
<1>3. TypesOK /\ Waiting /\ Handling /\ OneTask /\ OneName /\ FdsHaveOneUser
  BY DEF ServerInv, DescriptorsAgree
<1>4. PICK c, t : c = cur /\ t = [conn |-> cur, client |-> auth]
  OBVIOUS
<1>5. c \in Conn /\ c \notin Session /\ c \notin Conns /\ Serving = {c} /\ t.conn = c
  BY <1>1, <1>3, <1>4 DEF Handling, Serving
<1>6. inbox' \in [Conn -> Seq(Message)] /\ \A d \in Conn : inbox'[d] \in Seq(Sends(d))
  BY <1>1, <1>3, <1>4, <1>5, ReadTyped
<1>7. /\ Handling' /\ batch' \in Seq(Fd \cup {Listen}) /\ mode' \in {"epoll", "event"} /\ Serving' = {}
  BY <1>1, <1>2, NextHandling
<1>8. tasks' = tasks \cup {t}
  BY <1>1, <1>4
<1>9. Users' = Users
  <2>1. Conns' = Conns \cup {c}
    BY <1>5, <1>8 DEF Conns
  <2> QED BY <1>2, <1>5, <1>7, <2>1 DEF Users, Listed
<1>10. FdsHaveOneUser'
  <2>1. FdsHaveOneUser' <=> (mode' # "dead" => /\ \A d \in Users' : sfd'[d] \in Fd /\ table'[sfd'[d]] = d
                                               /\ \A f \in Fd : table'[f] # None => table'[f] \in Users')
    BY DEF FdsHaveOneUser, Users, Conns
  <2> QED BY <1>1, <1>2, <1>3, <1>9, <2>1, UsersForm
<1>11. TypesOK'
  BY <1>2, <1>3, <1>5, <1>6, <1>7, <1>8 DEF TypesOK, Mode
<1>12. Waiting' /\ OneName'
  BY <1>2, <1>3 DEF Waiting, OneName
<1>13. OneTask'
  BY <1>3, <1>5, <1>8 DEF OneTask, Conns
<1> QED BY <1>2, <1>7, <1>10, <1>11, <1>12, <1>13, WheelStays DEF ServerInv, DescriptorsAgree

\* An event whose client is gone.
LEMMA StaleEventInv == ASSUME ServerInv, StaleEvent PROVE ServerInv'
<1>1. mode = "event" /\ NextEvent
      /\ UNCHANGED <<clientVars, inbox, sfd, listVars, maxevents, cur, tasks>>
  BY DEF StaleEvent
<1>2. UNCHANGED <<peer, inbox, backlog, sfd, table, epollSet, clients, roulette, index, idle, maxevents, tasks>>
  BY <1>1 DEF clientVars, listVars
<1>3. TypesOK /\ Waiting
  BY DEF ServerInv
<1>4. /\ Handling' /\ batch' \in Seq(Fd \cup {Listen}) /\ mode' \in {"epoll", "event"} /\ Serving' = {}
  BY <1>1, <1>2, NextHandling
<1>5. TypesOK'
  BY <1>2, <1>3, <1>4 DEF TypesOK, Mode
<1>6. Waiting'
  BY <1>2, <1>3 DEF Waiting
<1>7. mode # "dead" /\ Serving' = Serving
  BY <1>1, <1>4 DEF Serving
<1> QED BY <1>1, <1>4, <1>5, <1>6, <1>7, ListsStay DEF ServerInv

\* A client that hung up leaves all the lists.
LEMMA DisconnectInv ==
    ASSUME ServerInv, Disconnect
    PROVE  ServerInv' /\ \A c \in Listed : c \notin Listed' => peer[c] = "closed"
<1>1. PICK c \in Matching :
          /\ peer[c] = "closed"
          /\ roulette' = [k \in Slot |-> roulette[k] \ {sfd[c]}]
          /\ epollSet' = epollSet \ {sfd[c]}
          /\ Close(sfd[c])
          /\ DeleteClients(clients, {sfd[c]})
          /\ idle' = [idle EXCEPT ![c] = 0]
  BY DEF Disconnect
<1>2. mode = "event" /\ NextEvent
      /\ UNCHANGED <<peer, backlog, inbox, sfd, index, maxevents, tasks>>
  BY DEF Disconnect, clientVars
<1>3. TypesOK /\ Waiting /\ OneTask /\ FdsHaveOneUser /\ WatchedAreListed
  BY DEF ServerInv, DescriptorsAgree
<1>4. c \in Listed /\ c \in Session /\ Listed \subseteq Session /\ Listed \subseteq Users /\ Listed \cap Conns = {}
      /\ Serving = {}
  BY <1>2, Apart DEF Matching, Users, Serving
<1>5. \A d \in Listed : d # c => sfd[d] # sfd[c]
  BY <1>2, <1>3, <1>4, OneDescriptor
<1>6. PICK L, out : L = clients /\ out = {sfd[c]}
  OBVIOUS
<1>7. L \in Seq(Session) /\ DeleteClients(L, out) /\ ToSet(L) = Listed
      /\ \A i, j \in DOMAIN L : sfd[L[i]] = sfd[L[j]] => i = j
  <2>1. L \in Seq(Session) /\ DeleteClients(L, out) /\ ToSet(L) = Listed
        /\ \A i, j \in DOMAIN L : L[i] = L[j] => i = j
    BY <1>1, <1>3, <1>6 DEF TypesOK, Listed, WatchedAreListed
  <2>2. \A i \in DOMAIN L : L[i] \in Users
    BY <1>4, <2>1, InListed
  <2> QED BY <1>2, <1>3, <2>1, <2>2, OneDescriptor
<1>8. /\ clients' \in Seq(Session)
      /\ Len(clients') \in Nat /\ Len(clients') <= Len(L)
      /\ ToSet(clients') = {d \in ToSet(L) : sfd[d] \notin out}
      /\ \A i, j \in DOMAIN clients' : clients'[i] = clients'[j] => i = j
  BY <1>7, Deletes
<1>9. Listed' = Listed \ {c}
  BY <1>4, <1>5, <1>6, <1>7, <1>8 DEF Listed
<1>10. /\ Handling' /\ batch' \in Seq(Fd \cup {Listen}) /\ mode' \in {"epoll", "event"} /\ Serving' = {}
  BY <1>2, NextHandling
<1>11. Users' = Users \ {c} /\ c \in Users
  BY <1>2, <1>4, <1>9, <1>10 DEF Users, Conns
<1>12. FdsHaveOneUser' /\ OneName' /\ table' \in [Fd -> Conn \cup {None}]
  BY <1>1, <1>2, <1>11, CloseOne
<1>13. LiveFds' = LiveFds \ {sfd[c]}
  BY <1>2, <1>5, <1>9 DEF LiveFds
<1>14. WatchedAreListed'
  <2>1. Len(L) < maxevents' /\ maxevents' \in Nat /\ Len(L) \in Nat
    BY <1>2, <1>3, <1>6 DEF TypesOK, WatchedAreListed
  <2>2. Len(clients') < maxevents'
    BY <1>8, <2>1
  <2>3. epollSet' = LiveFds'
    BY <1>1, <1>3, <1>13 DEF WatchedAreListed
  <2> QED BY <1>8, <2>2, <2>3 DEF WatchedAreListed
<1>15. /\ idle' \in [Session -> Nat] /\ (\A d \in Listed' : idle'[d] = idle[d])
       /\ roulette' \in [Slot -> SUBSET Int] /\ \A k \in Slot : roulette'[k] = roulette[k] \ {sfd[c]}
  BY <1>1, <1>3, <1>4, <1>9 DEF TypesOK
<1>16. RouletteAge'
  <2>1. ASSUME NEW d \in Listed'
        PROVE  idle'[d] < Slots /\ {k \in Slot : sfd'[d] \in roulette'[k]} = {(index' - idle'[d]) % Slots}
    <3>1. d \in Listed /\ sfd'[d] = sfd[d] /\ sfd[d] # sfd[c] /\ idle'[d] = idle[d] /\ index' = index
      BY <1>2, <1>5, <1>9, <1>15
    <3>2. {k \in Slot : sfd'[d] \in roulette'[k]} = {k \in Slot : sfd[d] \in roulette[k]}
      BY <1>15, <3>1
    <3> QED BY <3>1, <3>2 DEF ServerInv, RouletteAge
  <2>2. \A k \in Slot : roulette'[k] \subseteq LiveFds'
    BY <1>13, <1>15 DEF ServerInv, RouletteAge
  <2> QED BY <2>1, <2>2 DEF RouletteAge
<1>17. TypesOK'
  BY <1>2, <1>3, <1>8, <1>10, <1>12, <1>15 DEF TypesOK, Mode
<1>18. Waiting' /\ OneTask'
  BY <1>2, <1>3 DEF Waiting, OneTask
<1> QED BY <1>1, <1>9, <1>10, <1>12, <1>14, <1>16, <1>17, <1>18 DEF ServerInv, DescriptorsAgree

\* A transfer is over.
LEMMA TaskDoneInv == ASSUME ServerInv, NEW t \in tasks, TaskDone(t) PROVE ServerInv'
<1>1. /\ mode # "dead" /\ tasks' = tasks \ {t} /\ Close(sfd[t.conn])
      /\ UNCHANGED <<peer, backlog, inbox, sfd, epollSet, clients, roulette, index, idle,
                     maxevents, batch, mode, cur>>
  BY DEF TaskDone, clientVars
<1>2. TypesOK /\ Waiting /\ Handling /\ OneTask
  BY DEF ServerInv
<1>3. PICK c : c = t.conn
  OBVIOUS
<1>4. Conns' = Conns \ {c} /\ c \in Conns
  BY <1>1, <1>2, <1>3 DEF Conns, OneTask
<1>5. Listed' = Listed /\ Serving' = Serving
  BY <1>1 DEF Listed, Serving
<1>6. Users' = Users \ {c} /\ c \in Users
  BY <1>1, <1>4, <1>5, Apart DEF Users
<1>7. FdsHaveOneUser' /\ OneName' /\ table' \in [Fd -> Conn \cup {None}]
  BY <1>1, <1>3, <1>6, CloseOne
<1>8. TypesOK'
  BY <1>1, <1>2, <1>7 DEF TypesOK
<1>9. Waiting' /\ OneTask'
  BY <1>1, <1>2 DEF Waiting, OneTask
<1>10. Handling'
  BY <1>1, <1>2, <1>4, <1>5 DEF Handling
<1> QED BY <1>1, <1>7, <1>8, <1>9, <1>10, WheelStays DEF ServerInv, DescriptorsAgree

-----------------------------------------------------------------------------
LEMMA ServerInit == Init => ServerInv
<1> SUFFICES ASSUME Init PROVE ServerInv
  OBVIOUS
<1>1. Listed = {} /\ Conns = {} /\ LiveFds = {} /\ Serving = {}
  BY DEF Init, Listed, Conns, LiveFds, Serving, ToSet
<1>2. TypesOK
  BY ServerAssumption DEF Init, TypesOK, Slot, Mode
<1>3. Waiting /\ Handling /\ OneTask /\ OneName
  BY DEF Init, Waiting, Handling, OneTask, OneName
<1>4. FdsHaveOneUser
  BY <1>1 DEF Init, FdsHaveOneUser
<1>5. WatchedAreListed
  BY <1>1 DEF Init, WatchedAreListed
<1>6. RouletteAge
  BY <1>1 DEF Init, RouletteAge
<1> QED BY <1>2, <1>3, <1>4, <1>5, <1>6 DEF ServerInv, DescriptorsAgree

\* Only logins, commands and idle seconds turn the wheel, and only a hang-up lets a client
\* go otherwise.
LEMMA ServerStep ==
    ASSUME ServerInv, Next
    PROVE  /\ ServerInv'
           /\ \A c \in Listed : c \notin Listed' => peer[c] = "closed" \/ idle[c] = Slots - 1
<1>1. CASE \E c \in Conn : Connect(c) \/ HangUp(c)
  BY <1>1, ConnectInv, HangUpInv DEF Connect, HangUp, listVars, Listed
<1>2. CASE (\E c \in Session : SendSession(c)) \/ (\E c \in Transfer : SendTransfer(c))
  <2>1. clients' = clients
    BY <1>2 DEF SendSession, SendTransfer, Deliver, listVars
  <2> QED BY <1>2, <2>1, SendInv DEF Listed
<1>3. CASE EpollWait
  BY <1>3, EpollWaitInv DEF EpollWait, listVars, Listed
<1>4. CASE EpollTimeout
  BY <1>4, EpollTimeoutInv
<1>5. CASE Accept
  BY <1>5, AcceptInv DEF Accept, Listed
<1>6. CASE LoginOk
  BY <1>6, LoginOkInv
<1>7. CASE Refuse \/ NotATask
  BY <1>7, RefuseInv DEF Refuse, NotATask, Listed
<1>8. CASE TokenOk
  BY <1>8, TokenOkInv DEF TokenOk, listVars, Listed
<1>9. CASE Enqueue
  BY <1>9, EnqueueInv DEF Enqueue, listVars, Listed
<1>10. CASE StaleEvent
  BY <1>10, StaleEventInv DEF StaleEvent, listVars, Listed
<1>11. CASE Command
  BY <1>11, CommandInv
<1>12. CASE Disconnect
  BY <1>12, DisconnectInv
<1>13. CASE \E t \in tasks : TaskDone(t)
  BY <1>13, TaskDoneInv DEF TaskDone, Listed
<1>14. CASE LostDuringHandshake \/ LostDuringCommand \/ Sigpipe
  <2>1. mode # "dead" /\ Die
    BY <1>14 DEF LostDuringHandshake, LostDuringCommand, Sigpipe
  <2>2. clients' = clients
    BY <2>1 DEF Die, listVars
  <2> QED BY <2>1, <2>2, DieInv DEF Listed
<1> QED BY <1>1, <1>2, <1>3, <1>4, <1>5, <1>6, <1>7, <1>8, <1>9, <1>10, <1>11, <1>12, <1>13, <1>14
        DEF Next, MainStep

LEMMA ServerStutter == ASSUME ServerInv, UNCHANGED vars PROVE ServerInv'
<1>1. UNCHANGED <<peer, backlog, inbox, sfd, table, epollSet, clients, roulette, index, idle, maxevents, batch, mode, cur, tasks>>
  BY DEF vars
<1>2. Serving' = Serving /\ Listed' = Listed /\ Conns' = Conns /\ LiveFds' = LiveFds
  BY <1>1 DEF Serving, Listed, Conns, LiveFds
<1>3. TypesOK' /\ Waiting' /\ OneTask' /\ OneName'
  BY <1>1 DEF TypesOK, Waiting, OneTask, OneName, ServerInv
<1>4. Handling'
  BY <1>1, <1>2 DEF Handling, ServerInv
<1>5. FdsHaveOneUser'
  BY <1>1, <1>2 DEF FdsHaveOneUser, ServerInv, DescriptorsAgree
<1> QED BY <1>1, <1>3, <1>4, <1>5, WheelStays DEF ServerInv, DescriptorsAgree

\* What the main thread relies on from one system call to the next.
THEOREM ServerInvariance == Spec => []ServerInv
<1>1. ServerInv /\ [Next]_vars => ServerInv'
  BY ServerStep, ServerStutter
<1> QED BY <1>1, ServerInit, PTL DEF Spec

\* The open descriptors are those of the clients in the list, of the connection being served
\* and of the transfers, one each; epoll watches the list, in which everybody is once.
THEOREM ListsAgree == Spec => []DescriptorsAgree
<1>1. ServerInv => DescriptorsAgree
  BY DEF ServerInv
<1> QED BY <1>1, ServerInvariance, PTL

\* Every client is in the one timeout list that was current when it was last heard of.
THEOREM WheelCounts == Spec => []RouletteAge
<1>1. ServerInv => RouletteAge
  BY DEF ServerInv
<1> QED BY <1>1, ServerInvariance, PTL

\* No step drops a client that is still there and was heard of within the last turn.
THEOREM NobodyForgotten == Spec => ForgottenForAReason
<1>1. ServerInv /\ [Next]_vars =>
         [\A c \in Listed : c \notin ToSet(clients') => peer[c] = "closed" \/ idle[c] = Slots - 1]_vars
  BY ServerStep DEF Listed
<1> QED BY <1>1, ServerInvariance, PTL DEF Spec, ForgottenForAReason
-----------------------------------------------------------------------------
\* The reactor.
CONSTANTS Caller, Bad, MaxReq, MaxClients, RecvMax
VARIABLES callers, waiting, open, caller, sent, input, m_in, m_out, told, item, flags, et, edge,
          events, first, missed, alive

Calculator == INSTANCE Reactor WITH
    Conn <- Caller, clients <- callers, backlog <- waiting, peer <- caller, batch <- events

RTypes ==
    /\ open \subseteq Calculator!Fd /\ waiting \in Nat
    /\ caller \in [Caller -> {"here", "closed", "reset"}]
    /\ sent \in [Caller -> Nat] /\ input \in [Caller -> Nat] /\ m_in \in [Caller -> Nat]
    /\ m_out \in [Caller -> Seq(Nat)] /\ told \in [Caller -> Seq(Nat)]
    /\ flags \in [Calculator!Fd -> SUBSET {"in", "out"}] /\ et \in [Calculator!Fd -> BOOLEAN]
    /\ events \in Seq(Calculator!Fd \X SUBSET {"in", "out", "error"})

\* How much the server has taken from a connection: whole calculations, and half of one.
Had(c) == sent[c] - input[c]

TakenOf(c) ==
    /\ input[c] <= sent[c] /\ m_in[c] = Had(c) % 2
    /\ told[c] \o m_out[c] = Calculator!Results(0, Had(c) \div 2)
    /\ c \notin open => sent[c] = 0 /\ input[c] = 0 /\ told[c] = <<>> /\ m_out[c] = <<>>

Taken == \A c \in Caller : TakenOf(c)

\* Results are watched for, and news of an edge are still to be reported, or are in the batch.
Watched ==
    /\ \A f \in Calculator!Fd : "in" \in flags[f]
    /\ \A c \in Caller : m_out[c] # <<>> => "out" \in flags[c]
    /\ alive => \A f \in open \ missed : Calculator!Readable(f) /\ et[f] =>
                    f \in edge \/ \E i \in DOMAIN events : events[i][1] = f

ReactorInv == RTypes /\ Taken /\ Watched

ResultStates(u, a, b) ==
    u = [k \in a..b |-> IF k = a THEN <<>>
                        ELSE IF k \in Bad THEN u[k - 1] ELSE Append(u[k - 1], k)]

LEMMA LeastOne ==
    ASSUME NEW S \in SUBSET Nat, S # {}
    PROVE  \E p \in S : \A q \in S : p <= q
<1>1. PICK p \in S : \A q \in S : ~(<<q, p>> \in OpToRel(<, Nat))
  BY NatLessThanWellFounded, WFMin
<1>2. \A q \in S : ~(q < p)
  BY <1>1, Zenon DEF OpToRel
<1> QED BY <1>2

LEMMA ResultRounds ==
    ASSUME NEW a \in Nat, NEW b \in Nat, a <= b
    PROVE  \E u : ResultStates(u, a, b)
<1> DEFINE T == {k \in Nat : a <= k /\ ~\E u : ResultStates(u, a, k)}
<1>1. ASSUME T # {} PROVE FALSE
  <2>0. T \in SUBSET Nat
    OBVIOUS
  <2>1. PICK k \in T : \A j \in T : k <= j
    BY <1>1, <2>0, LeastOne
  <2>2. CASE k = a
    <3>1. ResultStates([i \in a..a |-> <<>>], a, a)
      BY DEF ResultStates
    <3> QED BY <2>1, <2>2, <3>1
  <2>3. CASE k # a
    <3>1. k - 1 \in Nat /\ a <= k - 1 /\ k - 1 \notin T
      BY <2>1, <2>3
    <3>2. PICK u : ResultStates(u, a, k - 1)
      BY <3>1
    <3> DEFINE v == [i \in a..k |-> IF i # k THEN u[i]
                                    ELSE IF k \in Bad THEN u[k - 1] ELSE Append(u[k - 1], k)]
    <3>3. a \in Nat /\ k \in Nat /\ a <= k - 1
      BY <3>1
    <3>4. u = [i \in a..k - 1 |-> IF i = a THEN <<>>
                                  ELSE IF i \in Bad THEN u[i - 1] ELSE Append(u[i - 1], i)]
      BY <3>2 DEF ResultStates
    <3>5. ASSUME NEW i \in a..k
          PROVE  v[i] = IF i = a THEN <<>>
                        ELSE IF i \in Bad THEN v[i - 1] ELSE Append(v[i - 1], i)
      <4>1. CASE i = k
        BY <2>3, <3>3, <4>1
      <4>2. CASE i # k
        <5>1. i \in a..k - 1 /\ (i # a => i - 1 \in a..k /\ i - 1 # k)
          BY <3>3, <4>2
        <5>2. v[i] = u[i] /\ (i # a => v[i - 1] = u[i - 1])
          BY <4>2, <5>1
        <5> QED BY <3>4, <5>1, <5>2
      <4> QED BY <4>1, <4>2
    <3>6. ResultStates(v, a, k)
      BY <3>5 DEF ResultStates
    <3> QED BY <2>1, <3>6
  <2> QED BY <2>2, <2>3
<1>2. b \notin T
  BY <1>1
<1> QED BY <1>2

LEMMA ResultsAre ==
    ASSUME NEW a \in Nat, NEW b \in Nat, a <= b
    PROVE  \E u \in [a..b -> Seq(Nat)] : ResultStates(u, a, b) /\ Calculator!Results(a, b) = u[b]
<1> DEFINE u == CHOOSE u : ResultStates(u, a, b)
           T == {k \in a..b : u[k] \notin Seq(Nat)}
<1>1. Calculator!Results(a, b) = u[b]
  BY DEF Calculator!Results, ResultStates
<1>2. ResultStates(u, a, b)
  BY ResultRounds
<1> HIDE DEF u
<1>3. ASSUME T # {} PROVE FALSE
  <2>0. T \in SUBSET Nat
    OBVIOUS
  <2>1. PICK k \in T : \A j \in T : k <= j
    BY <1>3, <2>0, LeastOne
  <2>2. /\ k \in a..b /\ u[k] \notin Seq(Nat) /\ k \in Nat
        /\ k # a => u[k - 1] \in Seq(Nat)
    BY <2>1
  <2>3. u[k] = IF k = a THEN <<>> ELSE IF k \in Bad THEN u[k - 1] ELSE Append(u[k - 1], k)
    BY <1>2, <2>2 DEF ResultStates
  <2> QED BY <2>2, <2>3
<1>4. u \in [a..b -> Seq(Nat)]
  <2>1. DOMAIN u = a..b /\ u = [k \in a..b |-> u[k]]
    BY <1>2 DEF ResultStates
  <2>2. \A k \in a..b : u[k] \in Seq(Nat)
    BY <1>3
  <2> QED BY <2>1, <2>2
<1> QED BY <1>1, <1>2, <1>4

LEMMA ConcatThree ==
    ASSUME NEW s \in Seq(Nat), NEW t \in Seq(Nat), NEW u \in Seq(Nat)
    PROVE  s \o (t \o u) = (s \o t) \o u
<1> DEFINE l == s \o (t \o u)
           r == (s \o t) \o u
<1>1. s \o t \in Seq(Nat) /\ t \o u \in Seq(Nat)
  BY ConcatProperties
<1>2. l \in Seq(Nat) /\ r \in Seq(Nat) /\ Len(l) = Len(r)
  BY <1>1, ConcatProperties
<1>3. \A i \in 1..Len(l) : l[i] = r[i]
  BY <1>1, ConcatProperties
<1> HIDE DEF l, r
<1>4. l = r
  BY <1>2, <1>3, SeqEqual
<1> QED BY <1>4 DEF l, r

LEMMA ConcatParts ==
    ASSUME NEW s \in Seq(Nat), NEW n \in 0..Len(s)
    PROVE  /\ SubSeq(s, 1, n) \in Seq(Nat) /\ SubSeq(s, n + 1, Len(s)) \in Seq(Nat)
           /\ SubSeq(s, 1, n) \o SubSeq(s, n + 1, Len(s)) = s
<1>1. Len(s) \in Nat /\ 1 \in 1..Len(s) + 1 /\ n \in 1 - 1..Len(s) /\ Len(s) \in n..Len(s)
  OBVIOUS
<1>2. SubSeq(s, 1, n) \o SubSeq(s, n + 1, Len(s)) = SubSeq(s, 1, Len(s))
  BY <1>1, ConcatAdjacentSubSeq
<1>3. SubSeq(s, 1, Len(s)) = s
  BY SubSeqFull
<1>4. SubSeq(s, 1, n) \in Seq(Nat) /\ SubSeq(s, n + 1, Len(s)) \in Seq(Nat)
  OBVIOUS
<1> QED BY <1>2, <1>3, <1>4

LEMMA ConcatAppend ==
    ASSUME NEW s \in Seq(Nat), NEW t \in Seq(Nat), NEW e \in Nat
    PROVE  Append(s \o t, e) = s \o Append(t, e)
<1>1. s \o t \in Seq(Nat) /\ <<e>> \in Seq(Nat)
  BY ConcatProperties
<1>2. Append(s \o t, e) = (s \o t) \o <<e>>
  BY <1>1, AppendIsConcat
<1>3. Append(t, e) = t \o <<e>>
  BY AppendIsConcat
<1> QED BY <1>1, <1>2, <1>3, ConcatAssociative

\* What is calculated in two parts is what is calculated at once.
LEMMA ResultsJoin ==
    ASSUME NEW b \in Nat, NEW c \in Nat, b <= c
    PROVE  /\ Calculator!Results(b, c) \in Seq(Nat)
           /\ Calculator!Results(0, b) \o Calculator!Results(b, c) = Calculator!Results(0, c)
<1>0. 0 \in Nat /\ 0 <= b /\ 0 <= c
  OBVIOUS
<1>1. PICK u \in [0..b -> Seq(Nat)] : ResultStates(u, 0, b) /\ Calculator!Results(0, b) = u[b]
  BY <1>0, ResultsAre
<1>2. PICK v \in [b..c -> Seq(Nat)] : ResultStates(v, b, c) /\ Calculator!Results(b, c) = v[c]
  BY ResultsAre
<1>3. PICK w \in [0..c -> Seq(Nat)] : ResultStates(w, 0, c) /\ Calculator!Results(0, c) = w[c]
  BY <1>0, ResultsAre
<1> DEFINE S == {k \in 0..b : u[k] # w[k]}
           J(k) == u[b] \o v[k]
           T == {k \in b..c : w[k] # J(k)}
<1>4. ASSUME S # {} PROVE FALSE
  <2>0. S \in SUBSET Nat
    OBVIOUS
  <2>1. PICK k \in S : \A j \in S : k <= j
    BY <1>4, <2>0, LeastOne
  <2>2. k \in 0..b /\ k \in 0..c /\ (k # 0 => k - 1 \in 0..b /\ k - 1 \notin S)
    BY <2>1
  <2>3. u[k] = IF k = 0 THEN <<>> ELSE IF k \in Bad THEN u[k - 1] ELSE Append(u[k - 1], k)
    BY <1>1, <2>2 DEF ResultStates
  <2>4. w[k] = IF k = 0 THEN <<>> ELSE IF k \in Bad THEN w[k - 1] ELSE Append(w[k - 1], k)
    BY <1>3, <2>2 DEF ResultStates
  <2>5. u[k] # w[k]
    BY <2>1
  <2>6. k # 0 => u[k - 1] = w[k - 1]
    BY <2>2
  <2> QED BY <2>3, <2>4, <2>5, <2>6
<1>5. ASSUME T # {} PROVE FALSE
  <2>0. T \in SUBSET Nat
    OBVIOUS
  <2>1. PICK k \in T : \A j \in T : k <= j
    BY <1>5, <2>0, LeastOne
  <2> HIDE DEF J
  <2>2. /\ k \in b..c /\ k \in 0..c /\ k \in Nat /\ w[k] # J(k)
        /\ k # b => k # 0 /\ k - 1 \in b..c
    OBVIOUS
  <2>6. k # b => w[k - 1] = J(k - 1)
    BY <2>1, <2>2
  <2>3. v[k] = IF k = b THEN <<>> ELSE IF k \in Bad THEN v[k - 1] ELSE Append(v[k - 1], k)
    BY <1>2, <2>2 DEF ResultStates
  <2>4. CASE k = b
    <3>0. S = {}
      BY <1>4
    <3>1. b \in 0..b
      OBVIOUS
    <3>2. u[b] = w[b] /\ u[b] \in Seq(Nat) /\ v[b] = <<>>
      BY <2>3, <2>4, <3>0, <3>1
    <3>3. u[b] \o <<>> = u[b]
      BY <3>2
    <3> QED BY <2>2, <2>4, <3>2, <3>3 DEF J
  <2>5. CASE k # b
    <3>1. w[k] = IF k \in Bad THEN w[k - 1] ELSE Append(w[k - 1], k)
      BY <1>3, <2>2, <2>5 DEF ResultStates
    <3>2. b \in 0..b
      OBVIOUS
    <3>3. u[b] \in Seq(Nat) /\ v[k - 1] \in Seq(Nat) /\ w[k - 1] = u[b] \o v[k - 1]
      BY <2>2, <2>5, <2>6, <3>2 DEF J
    <3>4. Append(u[b] \o v[k - 1], k) = u[b] \o Append(v[k - 1], k)
      <4>1. PICK p, q \in Seq(Nat) : p = u[b] /\ q = v[k - 1]
        BY <3>3
      <4>2. Append(p \o q, k) = p \o Append(q, k)
        BY <2>2, ConcatAppend
      <4> QED BY <4>1, <4>2
    <3>5. CASE k \in Bad
      BY <2>2, <2>3, <2>5, <3>1, <3>3, <3>5 DEF J
    <3>6. CASE k \notin Bad
      <4>1. w[k] = Append(u[b] \o v[k - 1], k) /\ v[k] = Append(v[k - 1], k)
        BY <2>3, <2>5, <3>1, <3>3, <3>6
      <4>2. w[k] = u[b] \o v[k]
        BY <3>4, <4>1
      <4> QED BY <2>2, <4>2 DEF J
    <3> QED BY <3>5, <3>6
  <2> QED BY <2>4, <2>5
<1>6. w[c] = u[b] \o v[c]
  <2>1. T = {}
    BY <1>5
  <2>2. c \in b..c
    OBVIOUS
  <2> QED BY <2>1, <2>2
<1> QED BY <1>1, <1>2, <1>3, <1>6

LEMMA ReactorConstants ==
    ASSUME Calculator!ReactorAssumption
    PROVE  /\ IsFiniteSet(Calculator!Fd) /\ Listen \in Calculator!Fd /\ Caller \subseteq Calculator!Fd
           /\ Listen \notin Caller /\ RecvMax \in Nat
<1>1. IsFiniteSet(Caller)
  BY DEF Calculator!ReactorAssumption, Calculator!IsFiniteSet, IsFiniteSet
<1>2. IsFiniteSet(Caller \cup {Listen})
  BY <1>1, FS_AddElement
<1> QED BY <1>2 DEF Calculator!Fd, Calculator!ReactorAssumption

\* Every descriptor that is reported is in the batch.
LEMMA SeqsCover ==
    ASSUME NEW S, IsFiniteSet(S), NEW order \in Calculator!SetToSeqs(S)
    PROVE  order \in Seq(S) /\ \A x \in S : \E i \in DOMAIN order : order[i] = x
<1> DEFINE n == Cardinality(S)
<1>1. n \in Nat
  BY FS_CardinalityType
<1>2. Calculator!Cardinality(S) = n
  BY DEF Calculator!Cardinality, Cardinality
<1> HIDE DEF n
<1>3. order \in [1..n -> S] /\ \A i, j \in 1..n : i # j => order[i] # order[j]
  BY <1>2 DEF Calculator!SetToSeqs
<1>4. order \in Injection(1..n, S)
  BY <1>3 DEF Injection, IsInjective
<1>5. IsFiniteSet(1..n) /\ Cardinality(1..n) = n
  BY <1>1, FS_Interval
<1>6. order \in Surjection(1..n, S)
  BY <1>4, <1>5, FS_Injection DEF n
<1>7. \A x \in S : \E i \in 1..n : order[i] = x
  BY <1>6 DEF Surjection
<1> QED BY <1>1, <1>3, <1>7


-----------------------------------------------------------------------------
InBatch(f) == \E i \in DOMAIN events : events[i][1] = f

\* What is left of the batch when its first event is handled.
LEMMA PopGives ==
    ASSUME RTypes, events # <<>>, events' = Tail(events)
    PROVE  /\ events' \in Seq(Calculator!Fd \X SUBSET {"in", "out", "error"})
           /\ Head(events)[1] \in Calculator!Fd
           /\ \A f : InBatch(f) => f = Head(events)[1] \/ InBatch(f)'
<1> DEFINE E == Calculator!Fd \X SUBSET {"in", "out", "error"}
<1>1. events \in Seq(E)
  BY DEF RTypes
<1> HIDE DEF E
<1>2. Tail(events) \in Seq(E) /\ Head(events) \in E /\ Head(events) = events[1]
  BY <1>1
<1>3. ASSUME NEW i \in DOMAIN events, i # 1
      PROVE  i - 1 \in DOMAIN Tail(events) /\ Tail(events)[i - 1] = events[i]
  BY <1>1, <1>3
<1>4. \A f : InBatch(f) => f = Head(events)[1] \/ InBatch(f)'
  BY <1>2, <1>3 DEF InBatch
<1> QED BY <1>2, <1>4 DEF E

LEMMA ConnectKept ==
    ASSUME Calculator!ReactorAssumption, ReactorInv, Calculator!Connect
    PROVE  ReactorInv'
<1> USE ReactorConstants DEF ReactorInv, Calculator!Connect, Calculator!bytes, Calculator!watch
<1>1. RTypes'
  BY DEF RTypes
<1>2. Taken'
  BY DEF Taken, TakenOf, Had
<1>3. ASSUME NEW f \in Calculator!Fd, f # Listen PROVE Calculator!Readable(f)' = Calculator!Readable(f)
  BY <1>3 DEF Calculator!Readable
<1>4. Watched'
  BY <1>3 DEF Watched, RTypes
<1> QED BY <1>1, <1>2, <1>4

LEMMA SendKept ==
    ASSUME Calculator!ReactorAssumption, ReactorInv, NEW c \in Caller, Calculator!Send(c)
    PROVE  ReactorInv'
<1> USE ReactorConstants DEF ReactorInv
<1>0. /\ c \in open /\ sent' = [sent EXCEPT ![c] = @ + 1] /\ input' = [input EXCEPT ![c] = @ + 1]
      /\ edge' = IF et[c] THEN edge \cup {c} ELSE edge
      /\ UNCHANGED <<callers, waiting, open, caller, m_in, m_out, told, item, flags, et, events, first, missed, alive>>
  BY DEF Calculator!Send, Calculator!bytes, Calculator!watch
<1>1. RTypes'
  <2>1. sent' \in [Caller -> Nat] /\ input' \in [Caller -> Nat]
    BY <1>0 DEF RTypes
  <2> QED BY <1>0, <2>1 DEF RTypes
<1>2. Taken'
  <2>1. ASSUME NEW d \in Caller PROVE TakenOf(d)'
    <3>1. Had(d)' = Had(d) /\ (input[d] <= sent[d] => input'[d] <= sent'[d])
      BY <1>0 DEF RTypes, Had
    <3>2. d # c => input'[d] = input[d] /\ sent'[d] = sent[d]
      BY <1>0 DEF RTypes
    <3> QED BY <1>0, <3>1, <3>2 DEF Taken, TakenOf
  <2> QED BY <2>1 DEF Taken, TakenOf, Had
<1>3. ASSUME NEW f \in Calculator!Fd, f # c PROVE Calculator!Readable(f)' = Calculator!Readable(f)
  BY <1>0, <1>3 DEF Calculator!Readable, RTypes
<1>4. Watched'
  BY <1>0, <1>3 DEF Watched, RTypes
<1> QED BY <1>1, <1>2, <1>4

LEMMA LeaveKept ==
    ASSUME Calculator!ReactorAssumption, ReactorInv, NEW c \in Caller,
           NEW how \in {"closed", "reset"}, Calculator!Leave(c, how)
    PROVE  ReactorInv'
<1> USE ReactorConstants DEF ReactorInv, Calculator!Leave, Calculator!bytes, Calculator!watch
<1>1. RTypes'
  BY DEF RTypes
<1>2. Taken'
  BY DEF Taken, TakenOf, Had
<1>3. ASSUME NEW f \in Calculator!Fd, f # c PROVE Calculator!Readable(f)' = Calculator!Readable(f)
  BY <1>3 DEF Calculator!Readable, RTypes
<1>4. Watched'
  BY <1>3 DEF Watched, RTypes
<1> QED BY <1>1, <1>2, <1>4

LEMMA EpollKept ==
    ASSUME Calculator!ReactorAssumption, ReactorInv, Calculator!epoll_wait
    PROVE  ReactorInv'
<1> USE ReactorConstants DEF ReactorInv
<1>0. PICK S \in SUBSET Calculator!Fd :
        \E order \in Calculator!SetToSeqs(S) : \E ev \in [S -> UNION {Calculator!Events(f) : f \in S}] :
            /\ \A f \in S : ev[f] \in Calculator!Events(f) \ {{}}
            /\ events' = [i \in 1..Len(order) |-> <<order[i], ev[order[i]]>>]
            /\ edge' = edge \ S
  BY DEF Calculator!epoll_wait
<1>11. PICK order \in Calculator!SetToSeqs(S) : \E ev :
            /\ \A f \in S : ev[f] \in Calculator!Events(f)
            /\ events' = [i \in 1..Len(order) |-> <<order[i], ev[order[i]]>>]
            /\ edge' = edge \ S
  BY <1>0
<1>10. PICK ev :
            /\ \A f \in S : ev[f] \in Calculator!Events(f)
            /\ events' = [i \in 1..Len(order) |-> <<order[i], ev[order[i]]>>]
            /\ edge' = edge \ S
  BY <1>11
<1>1. /\ events = <<>>
      /\ UNCHANGED <<callers, waiting, caller, sent, open, input, m_in, m_out, told, item, flags, et, missed, alive>>
  BY DEF Calculator!epoll_wait, Calculator!net, Calculator!bytes, Calculator!watch
<1>2. order \in Seq(S) /\ \A x \in S : \E i \in DOMAIN order : order[i] = x
  <2>1. IsFiniteSet(S)
    BY FS_Subset
  <2> QED BY <2>1, SeqsCover
<1>3. \A f \in S : ev[f] \in SUBSET {"in", "out", "error"}
  BY <1>10 DEF Calculator!Events, Calculator!Errors
<1>4. events' \in Seq(Calculator!Fd \X SUBSET {"in", "out", "error"})
  BY <1>10, <1>2, <1>3
<1>5. ASSUME NEW f \in S PROVE \E i \in DOMAIN events' : events'[i][1] = f
  BY <1>10, <1>2, <1>5
<1>6. RTypes'
  BY <1>1, <1>4 DEF RTypes
<1>7. Taken'
  BY <1>1 DEF Taken, TakenOf, Had
<1>8. \A f : Calculator!Readable(f)' = Calculator!Readable(f)
  BY <1>1 DEF Calculator!Readable
<1>9. Watched'
  BY <1>10, <1>1, <1>5, <1>8 DEF Watched
<1> QED BY <1>6, <1>7, <1>9

LEMMA IgnoredKept ==
    ASSUME Calculator!ReactorAssumption, ReactorInv, Calculator!Ignored
    PROVE  ReactorInv'
<1> USE ReactorConstants DEF ReactorInv
<1>1. /\ events # <<>> /\ events' = Tail(events) /\ missed' = missed \cup Calculator!Spent
      /\ UNCHANGED <<callers, waiting, caller, sent, open, input, m_in, m_out, told, flags, et, edge, alive>>
  BY DEF Calculator!Ignored, Calculator!net, Calculator!bytes
<1>2. RTypes'
  BY <1>1, PopGives DEF RTypes
<1>3. Taken'
  BY <1>1 DEF Taken, TakenOf, Had
<1>4. \A f : Calculator!Readable(f)' = Calculator!Readable(f)
  BY <1>1 DEF Calculator!Readable
<1>5. Watched'
  BY <1>1, <1>4, PopGives DEF Watched, InBatch, Calculator!Spent
<1> QED BY <1>2, <1>3, <1>5


\* The handler of h has run: what it leaves to be told is in also.
LEMMA HandledGives ==
    ASSUME RTypes, NEW h, NEW what, NEW also, Calculator!Event(h, what), Calculator!Passed(h, also)
    PROVE  /\ alive /\ events # <<>> /\ events' = Tail(events)
           /\ events' \in Seq(Calculator!Fd \X SUBSET {"in", "out", "error"})
           /\ \A f : f \notin missed' /\ f # h => f \notin missed /\ (InBatch(f) /\ et[f] => InBatch(f)')
           /\ h \notin missed' => h \notin also
<1>1. events # <<>> /\ events' = Tail(events)
  BY DEF Calculator!Event
<1> QED BY <1>1, PopGives DEF Calculator!Passed, Calculator!Spent, Calculator!Event

LEMMA AccepterKept ==
    ASSUME Calculator!ReactorAssumption, ReactorInv, Calculator!Accepter
    PROVE  ReactorInv'
<1> USE ReactorConstants DEF ReactorInv
<1>0. PICK S \in SUBSET (Caller \ open) :
         /\ open' = open \cup S
         /\ caller' = [c \in Caller |-> IF c \in S THEN "here" ELSE caller[c]]
         /\ sent' = [c \in Caller |-> IF c \in S THEN 0 ELSE sent[c]]
         /\ flags' = [f \in Calculator!Fd |-> IF f \in S THEN {"in"} ELSE flags[f]]
         /\ et' = [f \in Calculator!Fd |-> f \in S \/ et[f]]
  BY DEF Calculator!Accepter
<1>1. waiting' = 0 /\ UNCHANGED <<callers, input, m_in, m_out, told, edge, alive>>
  BY DEF Calculator!Accepter, Calculator!bytes
<1>2. Calculator!Event(Listen, "in") /\ Calculator!Passed(Listen, {})
  BY DEF Calculator!Accepter
<1>3. RTypes'
  BY <1>0, <1>1, <1>2, HandledGives DEF RTypes
<1>4. ASSUME NEW c \in S PROVE c \in Caller /\ input[c] = 0 /\ m_out[c] = <<>> /\ sent[c] = 0
  BY <1>0 DEF Taken, TakenOf
<1>9. S \subseteq Caller
  BY <1>0
<1>5. Taken'
  <2>1. ASSUME NEW d \in Caller PROVE sent'[d] = sent[d]
    BY <1>0, <1>4 DEF RTypes
  <2> QED BY <1>0, <1>1, <2>1 DEF Taken, TakenOf, Had
<1>6. ASSUME NEW f \in Caller
      PROVE  Calculator!Readable(f)' = IF f \in S THEN FALSE ELSE Calculator!Readable(f)
  <2>1. f # Listen
    OBVIOUS
  <2>2. caller'[f] = IF f \in S THEN "here" ELSE caller[f]
    BY <1>0
  <2>3. input'[f] = input[f] /\ (f \in S => ~(input[f] > 0))
    BY <1>1, <1>4
  <2> QED BY <2>1, <2>2, <2>3 DEF Calculator!Readable
<1>7. ~Calculator!Readable(Listen)'
  BY <1>1 DEF Calculator!Readable
<1>8. Watched'
  <2>1. ASSUME NEW f \in Calculator!Fd
        PROVE  /\ f \in S => flags'[f] = {"in"}
               /\ f \notin S => flags'[f] = flags[f] /\ et'[f] = et[f]
    BY <1>0 DEF RTypes
  <2>2. \A f \in Calculator!Fd : "in" \in flags'[f]
    BY <2>1 DEF Watched
  <2>3. \A c \in Caller : m_out'[c] # <<>> => "out" \in flags'[c]
    BY <1>1, <1>4, <2>1 DEF Watched
  <2>4. ASSUME alive', NEW f \in open' \ missed', Calculator!Readable(f)', et'[f]
        PROVE  f \in edge' \/ InBatch(f)'
    <3>1. f # Listen /\ f \in Caller
      BY <1>3, <1>7, <2>4 DEF Calculator!Fd, RTypes
    <3>2. f \notin S /\ Calculator!Readable(f)
      BY <1>6, <2>4, <3>1
    <3>3. f \in open /\ et[f] /\ f \in Calculator!Fd
      BY <1>0, <2>1, <2>4, <3>1, <3>2
    <3>4. f \notin missed /\ (InBatch(f) => InBatch(f)') /\ alive
      BY <1>2, <2>4, <3>1, <3>3, HandledGives
    <3> QED BY <1>1, <3>2, <3>3, <3>4 DEF Watched, InBatch
  <2> QED BY <2>2, <2>3, <2>4 DEF Watched, InBatch
<1> QED BY <1>3, <1>5, <1>8

LEMMA ErrorerKept ==
    ASSUME Calculator!ReactorAssumption, ReactorInv, NEW c \in Caller, Calculator!Errorer(c)
    PROVE  ReactorInv'
<1> USE ReactorConstants DEF ReactorInv
<1>0. /\ open' = open \ {c} /\ edge' = edge \ {c}
      /\ input' = [input EXCEPT ![c] = 0] /\ m_in' = [m_in EXCEPT ![c] = 0]
      /\ m_out' = [m_out EXCEPT ![c] = <<>>] /\ told' = [told EXCEPT ![c] = <<>>]
      /\ sent' = [sent EXCEPT ![c] = 0]
      /\ UNCHANGED <<callers, waiting, caller, flags, et, alive>>
  BY DEF Calculator!Errorer
<1>1. Calculator!Event(c, "in") /\ Calculator!Passed(c, {})
  BY DEF Calculator!Errorer
<1>2. RTypes'
  BY <1>0, <1>1, HandledGives DEF RTypes
<1>3. Calculator!Results(0, 0) = <<>>
  BY ResultsAre DEF ResultStates
<1>4. Taken'
  <2>1. ASSUME NEW d \in Caller, d # c PROVE TakenOf(d)'
    <3>1. /\ sent'[d] = sent[d] /\ input'[d] = input[d] /\ m_in'[d] = m_in[d]
          /\ m_out'[d] = m_out[d] /\ told'[d] = told[d] /\ (d \in open' <=> d \in open)
      BY <1>0, <2>1 DEF RTypes
    <3> QED BY <3>1 DEF Taken, TakenOf, Had
  <2>2. /\ sent'[c] = 0 /\ input'[c] = 0 /\ m_in'[c] = 0 /\ m_out'[c] = <<>> /\ told'[c] = <<>>
    BY <1>0 DEF RTypes
  <2>3. (0 - 0) % 2 = 0 /\ (0 - 0) \div 2 = 0 /\ <<>> \o <<>> = <<>>
    OBVIOUS
  <2>4. TakenOf(c)'
    BY <1>3, <2>2, <2>3 DEF TakenOf, Had
  <2> QED BY <2>1, <2>4 DEF Taken
<1>5. ASSUME NEW f \in Calculator!Fd, f # c PROVE Calculator!Readable(f)' = Calculator!Readable(f)
  BY <1>0, <1>5 DEF Calculator!Readable, RTypes
<1>6. Watched'
  BY <1>0, <1>1, <1>5, HandledGives DEF Watched, InBatch, RTypes
<1> QED BY <1>2, <1>4, <1>6


\* What whole calculations and a half leave when some more halves come.
LEMMA Halves ==
    ASSUME NEW h \in Nat, NEW n \in Nat
    PROVE  LET done == h - (h % 2)
           IN  /\ done \div 2 = h \div 2 /\ (done + (h % 2) + n) \div 2 = (h + n) \div 2
               /\ ((h % 2) + n) % 2 = (h + n) % 2 /\ h \div 2 \in Nat /\ (h + n) \div 2 \in Nat
               /\ h \div 2 <= (h + n) \div 2
OBVIOUS

LEMMA RecverKept ==
    ASSUME Calculator!ReactorAssumption, ReactorInv, NEW c \in Caller, Calculator!Recver(c)
    PROVE  ReactorInv'
<1> USE ReactorConstants DEF ReactorInv
<1> DEFINE n    == IF input[c] < RecvMax THEN input[c] ELSE RecvMax
           h    == Had(c)
           done == sent[c] - input[c] - m_in[c]
           new  == Calculator!Results(done \div 2, (done + m_in[c] + n) \div 2)
           also == IF et'[c] /\ (input'[c] > 0 \/ caller[c] # "here") THEN {c} ELSE {}
<1>0. /\ input' = [input EXCEPT ![c] = @ - n] /\ m_in' = [m_in EXCEPT ![c] = (@ + n) % 2]
      /\ m_out' = [m_out EXCEPT ![c] = @ \o new]
      /\ IF new = <<>> THEN UNCHANGED <<flags, et>>
         ELSE flags' = [flags EXCEPT ![c] = {"in", "out"}] /\ et' = [et EXCEPT ![c] = FALSE]
      /\ Calculator!Passed(c, also) /\ Calculator!Event(c, "in")
      /\ UNCHANGED <<callers, waiting, caller, sent, open, told, edge, alive>>
  BY DEF Calculator!Recver, Calculator!net
<1>1. n \in Nat /\ n <= input[c] /\ h \in Nat /\ m_in[c] = h % 2 /\ done = h - (h % 2) /\ input[c] <= sent[c]
  <2>1. sent[c] \in Nat /\ input[c] \in Nat /\ m_in[c] \in Nat
    BY DEF RTypes
  <2>2. input[c] <= sent[c] /\ m_in[c] = Had(c) % 2
    BY DEF Taken, TakenOf
  <2>3. n \in Nat /\ n <= input[c]
    BY <2>1
  <2>4. h \in Nat /\ done = h - m_in[c]
    BY <2>1, <2>2 DEF Had
  <2> QED BY <2>2, <2>3, <2>4
<1> HIDE DEF n, h
<1>2. /\ new = Calculator!Results(h \div 2, (h + n) \div 2)
      /\ h \div 2 \in Nat /\ (h + n) \div 2 \in Nat /\ h \div 2 <= (h + n) \div 2
      /\ (m_in[c] + n) % 2 = (h + n) % 2
  <2> HIDE DEF done
  <2>1. /\ done \div 2 = h \div 2 /\ (done + m_in[c] + n) \div 2 = (h + n) \div 2
        /\ (m_in[c] + n) % 2 = (h + n) % 2 /\ h \div 2 \in Nat /\ (h + n) \div 2 \in Nat
        /\ h \div 2 <= (h + n) \div 2
    BY <1>1, Halves
  <2> QED BY <2>1
<1>3. /\ new \in Seq(Nat)
      /\ Calculator!Results(0, h \div 2) \o new = Calculator!Results(0, (h + n) \div 2)
  BY <1>2, ResultsJoin
<1> HIDE DEF new, done, also
<1>4. /\ input'[c] = input[c] - n /\ m_in'[c] = (h + n) % 2 /\ m_out'[c] = m_out[c] \o new
      /\ told'[c] = told[c] /\ sent'[c] = sent[c]
  BY <1>0, <1>2 DEF RTypes
<1>5. ASSUME NEW d \in Caller, d # c
      PROVE  /\ sent'[d] = sent[d] /\ input'[d] = input[d] /\ m_in'[d] = m_in[d]
             /\ m_out'[d] = m_out[d] /\ told'[d] = told[d]
  BY <1>0, <1>5 DEF RTypes
<1>6. /\ input' \in [Caller -> Nat] /\ m_in' \in [Caller -> Nat] /\ m_out' \in [Caller -> Seq(Nat)]
      /\ flags' \in [Calculator!Fd -> SUBSET {"in", "out"}] /\ et' \in [Calculator!Fd -> BOOLEAN]
  <2>1. input[c] - n \in Nat /\ (m_in[c] + n) % 2 \in Nat
    BY <1>1, <1>2 DEF RTypes
  <2>2. m_out[c] \o new \in Seq(Nat)
    BY <1>3, ConcatProperties DEF RTypes
  <2>3. input' \in [Caller -> Nat] /\ m_in' \in [Caller -> Nat]
    BY <1>0, <2>1 DEF RTypes
  <2>4. m_out' \in [Caller -> Seq(Nat)]
    BY <1>0, <2>2 DEF RTypes
  <2>5. flags' \in [Calculator!Fd -> SUBSET {"in", "out"}] /\ et' \in [Calculator!Fd -> BOOLEAN]
    <3>1. CASE new = <<>>
      BY <1>0, <3>1 DEF RTypes
    <3>2. CASE new # <<>>
      <4>1. /\ flags' = [flags EXCEPT ![c] = {"in", "out"}]
            /\ et' = [et EXCEPT ![c] = FALSE]
        BY <1>0, <3>2, Zenon
      <4>2. flags \in [Calculator!Fd -> SUBSET {"in", "out"}] /\ et \in [Calculator!Fd -> BOOLEAN]
        BY DEF RTypes
      <4>3. flags' \in [Calculator!Fd -> SUBSET {"in", "out"}]
        BY <4>1, <4>2
      <4>4. et' \in [Calculator!Fd -> BOOLEAN]
        BY <4>1, <4>2
      <4> QED BY <4>3, <4>4
    <3> QED BY <3>1, <3>2
  <2> QED BY <2>3, <2>4, <2>5
<1>7. RTypes'
  BY <1>0, <1>6, HandledGives DEF RTypes
<1>8. TakenOf(c)'
  <2>1. Had(c)' = h + n
    <3>1. sent[c] \in Nat /\ input[c] \in Nat
      BY DEF RTypes
    <3> QED BY <1>1, <1>4, <3>1 DEF Had, h
  <2>2. told'[c] \o m_out'[c] = Calculator!Results(0, (h + n) \div 2)
    <3>1. told[c] \in Seq(Nat) /\ m_out[c] \in Seq(Nat)
      BY DEF RTypes
    <3>2. told[c] \o (m_out[c] \o new) = (told[c] \o m_out[c]) \o new
      <4>1. PICK s, t, u \in Seq(Nat) : s = told[c] /\ t = m_out[c] /\ u = new
        BY <1>3, <3>1
      <4>2. s \o (t \o u) = (s \o t) \o u
        BY ConcatThree
      <4> QED BY <4>1, <4>2
    <3>3. told[c] \o m_out[c] = Calculator!Results(0, h \div 2)
      BY DEF Taken, TakenOf, h
    <3> QED BY <1>3, <1>4, <3>2, <3>3
  <2>3. c \notin open => /\ sent'[c] = 0 /\ input'[c] = 0 /\ told'[c] = <<>> /\ m_out'[c] = <<>>
    <3>1. SUFFICES ASSUME c \notin open
                   PROVE  sent'[c] = 0 /\ input'[c] = 0 /\ told'[c] = <<>> /\ m_out'[c] = <<>>
      OBVIOUS
    <3>2. sent[c] = 0 /\ input[c] = 0 /\ told[c] = <<>> /\ m_out[c] = <<>>
      BY <3>1 DEF Taken, TakenOf
    <3>3. n = 0 /\ h = 0
      BY <1>1, <3>2 DEF h, Had
    <3>4. new = <<>>
      <4>1. (0 + 0) \div 2 = 0 /\ 0 \div 2 = 0
        OBVIOUS
      <4>2. Calculator!Results(0, 0) = <<>>
        BY ResultsAre DEF ResultStates
      <4> QED BY <1>2, <3>3, <4>1, <4>2
    <3> QED BY <1>4, <3>2, <3>3, <3>4
  <2>4. input'[c] <= sent'[c]
    BY <1>1, <1>4 DEF RTypes
  <2> QED BY <1>0, <1>4, <2>1, <2>2, <2>3, <2>4 DEF TakenOf
<1>9. Taken'
  <2>1. ASSUME NEW d \in Caller, d # c PROVE TakenOf(d)'
    BY <1>0, <1>5, <2>1 DEF Taken, TakenOf, Had
  <2> QED BY <1>8, <2>1 DEF Taken
<1>10. ASSUME NEW f \in Calculator!Fd, f # c
       PROVE  /\ Calculator!Readable(f)' = Calculator!Readable(f)
              /\ flags'[f] = flags[f] /\ et'[f] = et[f]
  BY <1>0, <1>10 DEF Calculator!Readable, RTypes, Calculator!Fd
<1>11. /\ "in" \in flags'[c] /\ (m_out'[c] # <<>> => "out" \in flags'[c])
  <2>1. CASE new = <<>>
    <3>1. m_out'[c] = m_out[c]
      BY <1>4, <2>1, ConcatEmptySeq DEF RTypes
    <3> QED BY <1>0, <2>1, <3>1 DEF Watched
  <2>2. CASE new # <<>>
    BY <1>0, <2>2 DEF RTypes
  <2> QED BY <2>1, <2>2
<1>12. Watched'
  <2>1. \A f \in Calculator!Fd : "in" \in flags'[f]
    BY <1>10, <1>11 DEF Watched
  <2>2. \A d \in Caller : m_out'[d] # <<>> => "out" \in flags'[d]
    BY <1>5, <1>10, <1>11 DEF Watched
  <2>3. ASSUME alive', NEW f \in open' \ missed', Calculator!Readable(f)', et'[f]
        PROVE  f \in edge' \/ InBatch(f)'
    <3>1. f \in Calculator!Fd
      BY <1>7, <2>3 DEF RTypes
    <3>2. CASE f = c
      <4>1. c \notin also
        BY <1>0, <2>3, <3>2, HandledGives
      <4>2. c # Listen /\ (input'[c] > 0 \/ caller'[c] # "here")
        BY <2>3, <3>2 DEF Calculator!Readable
      <4>3. caller'[c] = caller[c]
        BY <1>0
      <4> QED BY <2>3, <3>2, <4>1, <4>2, <4>3 DEF also
    <3>3. CASE f # c
      BY <1>0, <1>10, <2>3, <3>1, <3>3, HandledGives DEF Watched, InBatch
    <3> QED BY <3>2, <3>3
  <2> QED BY <2>1, <2>2, <2>3 DEF Watched, InBatch
<1> QED BY <1>7, <1>9, <1>12

LEMMA SenderKept ==
    ASSUME Calculator!ReactorAssumption, ReactorInv, NEW c \in Caller, Calculator!Sender(c)
    PROVE  ReactorInv'
<1> USE ReactorConstants DEF ReactorInv
<1>0. PICK n \in 0..Len(m_out[c]) :
         /\ told' = [told EXCEPT ![c] = @ \o SubSeq(m_out[c], 1, n)]
         /\ m_out' = [m_out EXCEPT ![c] = SubSeq(@, n + 1, Len(@))]
         /\ flags' = [flags EXCEPT ![c] = IF m_out'[c] = <<>> THEN {"in"} ELSE {"in", "out"}]
  BY DEF Calculator!Sender
<1>1. /\ et' = [et EXCEPT ![c] = FALSE]
      /\ Calculator!Event(c, "out") /\ Calculator!Passed(c, {})
      /\ UNCHANGED <<callers, waiting, caller, sent, open, input, m_in, edge, alive>>
  BY DEF Calculator!Sender, Calculator!net
<1> DEFINE a == SubSeq(m_out[c], 1, n)
           b == SubSeq(m_out[c], n + 1, Len(m_out[c]))
<1>2. told[c] \in Seq(Nat) /\ m_out[c] \in Seq(Nat)
  BY DEF RTypes
<1>3. a \in Seq(Nat) /\ b \in Seq(Nat) /\ a \o b = m_out[c]
  <2>1. PICK s \in Seq(Nat) : s = m_out[c]
    BY <1>2
  <2> QED BY <2>1, ConcatParts
<1>4. told'[c] = told[c] \o a /\ m_out'[c] = b
  BY <1>0 DEF RTypes
<1> HIDE DEF a, b
<1>5. told'[c] \o m_out'[c] = told[c] \o m_out[c] /\ told[c] \o a \in Seq(Nat)
  <2>1. PICK s, t, u \in Seq(Nat) : s = told[c] /\ t = a /\ u = b
    BY <1>2, <1>3
  <2>2. s \o (t \o u) = (s \o t) \o u /\ s \o t \in Seq(Nat)
    BY ConcatThree, ConcatProperties
  <2> QED BY <1>3, <1>4, <2>1, <2>2
<1>6. RTypes'
  BY <1>0, <1>1, <1>3, <1>5, HandledGives DEF RTypes, a, b
<1>7. ASSUME NEW d \in Caller, d # c PROVE m_out'[d] = m_out[d] /\ told'[d] = told[d]
  BY <1>0, <1>7 DEF RTypes
<1>8. c \notin open => told'[c] = <<>> /\ m_out'[c] = <<>>
  <2>1. ASSUME told[c] = <<>>, m_out[c] = <<>> PROVE told'[c] = <<>> /\ m_out'[c] = <<>>
    BY <1>2, <1>3, <1>4, <2>1, ConcatEmptySeq, ConcatEqualIffEmpty DEF a, b
  <2> QED BY <2>1 DEF Taken, TakenOf
<1>9. Taken'
  BY <1>1, <1>5, <1>7, <1>8 DEF Taken, TakenOf, Had
<1>10. ASSUME NEW f \in Calculator!Fd, f # c
       PROVE  flags'[f] = flags[f] /\ et'[f] = et[f]
  BY <1>0, <1>1, <1>10 DEF RTypes
<1>11. /\ "in" \in flags'[c] /\ (m_out'[c] # <<>> => "out" \in flags'[c]) /\ ~et'[c]
  BY <1>0, <1>1 DEF RTypes
<1>12. \A f : Calculator!Readable(f)' = Calculator!Readable(f)
  BY <1>1 DEF Calculator!Readable
<1>13. Watched'
  <2>1. \A f \in Calculator!Fd : "in" \in flags'[f]
    BY <1>10, <1>11 DEF Watched
  <2>2. \A d \in Caller : m_out'[d] # <<>> => "out" \in flags'[d]
    BY <1>7, <1>10, <1>11 DEF Watched
  <2>3. ASSUME alive', NEW f \in open' \ missed', Calculator!Readable(f)', et'[f]
        PROVE  f \in edge' \/ InBatch(f)'
    <3>1. f \in Calculator!Fd /\ f # c
      BY <1>6, <1>11, <2>3 DEF RTypes
    <3> QED BY <1>1, <1>10, <1>12, <2>3, <3>1, HandledGives DEF Watched, InBatch
  <2> QED BY <2>1, <2>2, <2>3 DEF Watched, InBatch
<1> QED BY <1>6, <1>9, <1>13

LEMMA KilledKept ==
    ASSUME Calculator!ReactorAssumption, ReactorInv, NEW c \in Caller, Calculator!Killed(c)
    PROVE  ReactorInv'
<1> USE DEF ReactorInv
<1>0. /\ alive' = FALSE /\ Calculator!Event(c, "out") /\ Calculator!Passed(c, {})
      /\ UNCHANGED <<callers, waiting, caller, sent, open, input, m_in, m_out, told, flags, et, edge>>
  BY DEF Calculator!Killed, Calculator!net, Calculator!bytes, Calculator!watch
<1>1. RTypes'
  BY <1>0, HandledGives DEF RTypes
<1>2. Taken'
  BY <1>0 DEF Taken, TakenOf, Had
<1>3. Watched'
  BY <1>0 DEF Watched
<1> QED BY <1>1, <1>2, <1>3

LEMMA ReactorInitGives ==
    ASSUME Calculator!ReactorAssumption, Calculator!ReactorInit
    PROVE  ReactorInv
<1> USE ReactorConstants DEF Calculator!ReactorInit
<1>1. RTypes
  BY DEF RTypes
<1>2. Taken
  <2>1. Calculator!Results(0, 0) = <<>>
    BY ResultsAre DEF ResultStates
  <2>2. (0 - 0) % 2 = 0 /\ (0 - 0) \div 2 = 0 /\ <<>> \o <<>> = <<>>
    OBVIOUS
  <2> QED BY <2>1, <2>2 DEF Taken, TakenOf, Had
<1>3. Watched
  BY DEF Watched, Calculator!Readable
<1> QED BY <1>1, <1>2, <1>3 DEF ReactorInv

\* The invariant behind the next two.
THEOREM ReactorInvariance ==
    ASSUME Calculator!ReactorAssumption
    PROVE  Calculator!ReactorSpec => []ReactorInv
<1>1. Calculator!ReactorInit => ReactorInv
  BY ReactorInitGives
<1>2. ASSUME ReactorInv, [Calculator!ReactorNext]_(Calculator!reactorVars) PROVE ReactorInv'
  <2>1. CASE UNCHANGED Calculator!reactorVars
    <3>1. UNCHANGED <<waiting, caller, sent, open, input, m_in, m_out, told, flags, et, edge, events, missed, alive>>
      BY <2>1 DEF Calculator!reactorVars
    <3>2. RTypes'
      BY <1>2, <3>1 DEF ReactorInv, RTypes
    <3>3. Taken'
      BY <1>2, <3>1 DEF ReactorInv, Taken, TakenOf, Had
    <3>4. Watched'
      BY <1>2, <3>1 DEF ReactorInv, Watched, Calculator!Readable
    <3> QED BY <3>2, <3>3, <3>4 DEF ReactorInv
  <2>2. CASE Calculator!ReactorNext
    BY <1>2, <2>2, ConnectKept, EpollKept, IgnoredKept, AccepterKept, SendKept, LeaveKept,
       RecverKept, ErrorerKept, SenderKept, KilledKept DEF Calculator!ReactorNext
  <2> QED BY <1>2, <2>1, <2>2
<1> QED BY <1>1, <1>2, PTL DEF Calculator!ReactorSpec

\* A client's results come in order, each once, whichever way the calculations came in pieces
\* and the results went out in pieces.
THEOREM ResultsComeInOrder ==
    ASSUME Calculator!ReactorAssumption
    PROVE  Calculator!ReactorSpec => []Calculator!ResultsInOrder
<1>1. ReactorInv => Calculator!ResultsInOrder
  BY DEF ReactorInv, Taken, TakenOf, Had, Calculator!ResultsInOrder
<1>2. Calculator!ReactorSpec => []ReactorInv
  BY ReactorInvariance
<1> QED BY <1>1, <1>2, PTL

\* What the reactor does not notice, it was told of in an event that it spent on another.
THEOREM ReactorLooks ==
    ASSUME Calculator!ReactorAssumption
    PROVE  Calculator!ReactorSpec => []Calculator!SilentForAReason
<1>1. ReactorInv => Calculator!SilentForAReason
  <2>1. ASSUME ReactorInv, alive, events = <<>>, NEW f \in open \ missed, Calculator!Readable(f)
        PROVE  IF et[f] THEN f \in edge ELSE "in" \in flags[f]
    <3>1. f \in Calculator!Fd
      BY <2>1 DEF ReactorInv, RTypes
    <3>2. DOMAIN events = {}
      BY <2>1
    <3> QED BY <2>1, <3>1, <3>2 DEF ReactorInv, Watched
  <2> QED BY <2>1 DEF ReactorInv, Watched, Calculator!SilentForAReason
<1>2. Calculator!ReactorSpec => []ReactorInv
  BY ReactorInvariance
<1> QED BY <1>1, <1>2, PTL

-----------------------------------------------------------------------------
\* The chat programs.
CONSTANTS Client, NULL, MaxLines, MaxSaid, SelectMax
VARIABLES version, server, client, fd, watched, latest, said, log, joined, down

Talk == INSTANCE Chat

Item == (Client \cup {NULL}) \X {"says", "enters", "leaves"} \X Nat \X Nat
Spot == Client \cup {"accept", "type"}

VersionIsAsListed ==
    /\ version.always \in BOOLEAN /\ version.epoll \in BOOLEAN /\ version.room \in BOOLEAN
    /\ version.select \in Nat
    /\ version.always /\ version.epoll => version = Talk!again_epoll_LT
    /\ version.error = "drained" => ~version.room /\ version.epoll /\ version.bye = "ends"
    /\ version.bye = "forgets" => ~version.room

ChatTypes ==
    /\ VersionIsAsListed
    /\ server \in {"runs", "ended", "killed"}
    /\ client \in [Client -> {"away", "backlog", "open", "closed"}]
    /\ peer \in [Client -> {"here", "closed", "reset", "broken"}]
    /\ fd \in [Client -> Nat] /\ batch \in Seq(Spot) /\ latest \in Client \cup {NULL}
    /\ sent \in [Client -> Nat] /\ said \in Nat /\ log \in Seq(Item)
    /\ joined \in [Client -> Nat] /\ down \in [Client -> Seq(Item)] /\ told \in [Client -> Seq(Item)]

\* Who has not been accepted has said nothing yet that was heard, and heard nothing.
Unmet(c) ==
    /\ client[c] \in {"away", "backlog"} =>
         told[c] = <<>> /\ down[c] = <<>> /\ \A i \in DOMAIN log : log[i][1] # c
    /\ client[c] = "away" => sent[c] = 0 /\ peer[c] = "here"

\* Nothing is heard that was not said.
HeardSaid(c) == joined[c] <= Len(log) /\ \A i \in DOMAIN log : log[i][1] = c => log[i][4] <= sent[c]

News(c) == Talk!Unread(c) > 0 \/ peer[c] # "here"

\* Who has news is still to be reported, or is in the batch, where only edges are reported.
Noticed(c) ==
    /\ c \in Talk!Open \ watched => version.bye = "forgets" /\ Talk!Unread(c) = 0 /\ peer[c] # "here"
    /\ version.error = "drained" /\ News(c) =>
         /\ c \in Talk!Backlog => c \in edge
         /\ c \in Talk!Open /\ Talk!Minds(c) =>
              c \in edge \/ (\E i \in DOMAIN batch : batch[i] = c) \/ peer[c] = "broken"

\* The server accepts only once for the connection that select() has reported.
Accepts ==
    /\ version.always /\ ~version.epoll => \A i \in DOMAIN batch : batch[i] = "accept" =>
         Talk!Backlog # {} /\ \A j \in DOMAIN batch : batch[j] = "accept" => j = i
    /\ ~version.always => \A i \in DOMAIN batch : batch[i] = "accept" =>
         latest = NULL /\ batch = <<"accept">>

\* Only who was accepted is in a batch.
BatchKnown == \A i \in DOMAIN batch : batch[i] \in Client => client[batch[i]] \in {"open", "closed"}

\* TalkInOrder, for one client.
Follows(c) ==
    c \in Talk!Open /\ peer[c] = "here" /\ server = "runs" =>
      LET talk == told[c] \o down[c]
      IN  IF Talk!Minds(c) THEN talk = Talk!Due(c) ELSE Talk!IsPrefix(talk, Talk!Due(c))

ChatInv ==
    /\ ChatTypes /\ BatchKnown /\ \A c \in Client : Unmet(c) /\ HeardSaid(c)
    /\ server = "runs" => Accepts /\ \A c \in Client : Noticed(c)
    /\ \A c \in Client : Follows(c)

-----------------------------------------------------------------------------
\* What a client is to be told, as a function of its beginnings.
Mine(c, room, e) == IF room THEN e[1] # c ELSE e[1] = NULL
DueStates(u, c, room, s, j, n) ==
    u = [k \in j..n |-> IF k = j THEN <<>>
                        ELSE IF Mine(c, room, s[k]) THEN Append(u[k - 1], s[k]) ELSE u[k - 1]]

LEMMA DueRounds ==
    ASSUME NEW c, NEW room, NEW s, NEW j \in Nat, NEW n \in Nat, j <= n
    PROVE  \E u : DueStates(u, c, room, s, j, n)
<1> DEFINE T == {k \in Nat : j <= k /\ ~\E u : DueStates(u, c, room, s, j, k)}
<1>1. ASSUME T # {} PROVE FALSE
  <2>0. T \in SUBSET Nat
    OBVIOUS
  <2>1. PICK k \in T : \A i \in T : k <= i
    BY <1>1, <2>0, LeastOne
  <2>2. CASE k = j
    <3>1. DueStates([i \in j..j |-> <<>>], c, room, s, j, j)
      BY DEF DueStates
    <3> QED BY <2>1, <2>2, <3>1
  <2>3. CASE k # j
    <3>1. k - 1 \in Nat /\ j <= k - 1 /\ k - 1 \notin T
      BY <2>1, <2>3
    <3>2. PICK u : DueStates(u, c, room, s, j, k - 1)
      BY <3>1
    <3> DEFINE v == [i \in j..k |-> IF i # k THEN u[i]
                                    ELSE IF Mine(c, room, s[k]) THEN Append(u[k - 1], s[k]) ELSE u[k - 1]]
    <3>3. j \in Nat /\ k \in Nat /\ j <= k - 1
      BY <3>1
    <3>4. u = [i \in j..k - 1 |-> IF i = j THEN <<>>
                                  ELSE IF Mine(c, room, s[i]) THEN Append(u[i - 1], s[i]) ELSE u[i - 1]]
      BY <3>2 DEF DueStates
    <3>5. ASSUME NEW i \in j..k
          PROVE  v[i] = IF i = j THEN <<>>
                        ELSE IF Mine(c, room, s[i]) THEN Append(v[i - 1], s[i]) ELSE v[i - 1]
      <4>1. CASE i = k
        BY <2>3, <3>3, <4>1
      <4>2. CASE i # k
        <5>1. i \in j..k - 1 /\ (i # j => i - 1 \in j..k /\ i - 1 # k)
          BY <3>3, <4>2
        <5>2. v[i] = u[i] /\ (i # j => v[i - 1] = u[i - 1])
          BY <4>2, <5>1
        <5> QED BY <3>4, <5>1, <5>2
      <4> QED BY <4>1, <4>2
    <3>6. DueStates(v, c, room, s, j, k)
      BY <3>5 DEF DueStates
    <3> QED BY <2>1, <3>6
  <2> QED BY <2>2, <2>3
<1>2. n \notin T
  BY <1>1
<1> QED BY <1>2

DueOf(c, room, s, j, n) == (CHOOSE u : DueStates(u, c, room, s, j, n))[n]

LEMMA DueIs ==
    ASSUME NEW c
    PROVE  Talk!Due(c) = DueOf(c, version.room, log, joined[c], Len(log))
BY DEF Talk!Due, DueOf, DueStates, Talk!Concerns, Mine

\* One more item in the log is told to those it concerns.
LEMMA DueGrows ==
    ASSUME NEW c, NEW room, NEW s \in Seq(Item), NEW e \in Item, NEW j \in Nat, j <= Len(s)
    PROVE  DueOf(c, room, Append(s, e), j, Len(s) + 1)
             = IF Mine(c, room, e) THEN Append(DueOf(c, room, s, j, Len(s)), e)
               ELSE DueOf(c, room, s, j, Len(s))
<1> DEFINE n == Len(s)
           t == Append(s, e)
           u == CHOOSE u : DueStates(u, c, room, s, j, n)
           v == CHOOSE v : DueStates(v, c, room, t, j, n + 1)
           T == {k \in j..n : v[k] # u[k]}
<1>1. n \in Nat /\ t \in Seq(Item) /\ t[n + 1] = e /\ \A k \in 1..n : t[k] = s[k]
  OBVIOUS
<1>2. DueStates(u, c, room, s, j, n)
  BY <1>1, DueRounds
<1>3. DueStates(v, c, room, t, j, n + 1)
  <2>1. n + 1 \in Nat /\ j <= n + 1
    BY <1>1
  <2> QED BY <2>1, DueRounds
<1> HIDE DEF n, t, u, v
<1>4. j <= n
  BY DEF n
<1>5. \A k \in j..n : u[k] = IF k = j THEN <<>>
                             ELSE IF Mine(c, room, s[k]) THEN Append(u[k - 1], s[k]) ELSE u[k - 1]
  BY <1>2 DEF DueStates
<1>6. \A k \in j..(n + 1) : v[k] = IF k = j THEN <<>>
                                   ELSE IF Mine(c, room, t[k]) THEN Append(v[k - 1], t[k]) ELSE v[k - 1]
  BY <1>3 DEF DueStates
<1>7. ASSUME T # {} PROVE FALSE
  <2>0. T \in SUBSET Nat
    BY <1>1
  <2>1. PICK k \in T : \A i \in T : k <= i
    BY <1>7, <2>0, LeastOne
  <2>2. k \in j..n /\ k \in j..(n + 1) /\ k \in Nat /\ v[k] # u[k]
    BY <1>1, <2>1
  <2>3. k # j => k - 1 \in j..n /\ k - 1 \notin T /\ t[k] = s[k]
    BY <1>1, <2>1, <2>2
  <2>4. k # j => v[k - 1] = u[k - 1] /\ t[k] = s[k]
    BY <2>3
  <2> QED BY <1>5, <1>6, <2>2, <2>4
<1>8. n \in j..n /\ n + 1 \in j..(n + 1) /\ n + 1 # j /\ n + 1 - 1 = n
  BY <1>1, <1>4
<1>9. v[n] = u[n]
  BY <1>7, <1>8
<1>10. v[n + 1] = IF Mine(c, room, e) THEN Append(u[n], e) ELSE u[n]
  BY <1>1, <1>6, <1>8, <1>9
<1> QED BY <1>10 DEF DueOf, n, t, u, v

LEMMA DueStarts ==
    ASSUME NEW c, NEW room, NEW s \in Seq(Item)
    PROVE  DueOf(c, room, s, Len(s), Len(s)) = <<>>
<1>1. Len(s) \in Nat /\ Len(s) <= Len(s) /\ Len(s) \in Len(s)..Len(s)
  OBVIOUS
<1> DEFINE u == CHOOSE u : DueStates(u, c, room, s, Len(s), Len(s))
<1>2. DueStates(u, c, room, s, Len(s), Len(s))
  BY <1>1, DueRounds
<1> HIDE DEF u
<1>3. u[Len(s)] = <<>>
  BY <1>1, <1>2 DEF DueStates
<1> QED BY <1>3 DEF DueOf, u

LEMMA DueType ==
    ASSUME NEW c, NEW room, NEW s \in Seq(Item), NEW j \in Nat, j <= Len(s)
    PROVE  DueOf(c, room, s, j, Len(s)) \in Seq(Item)
<1> DEFINE n == Len(s)
           u == CHOOSE u : DueStates(u, c, room, s, j, n)
           T == {k \in j..n : u[k] \notin Seq(Item)}
<1>1. n \in Nat /\ \A k \in 1..n : s[k] \in Item
  OBVIOUS
<1>2. DueStates(u, c, room, s, j, n)
  BY <1>1, DueRounds
<1>3. j <= n
  OBVIOUS
<1> HIDE DEF n, u
<1>5. \A k \in j..n : u[k] = IF k = j THEN <<>>
                             ELSE IF Mine(c, room, s[k]) THEN Append(u[k - 1], s[k]) ELSE u[k - 1]
  BY <1>2 DEF DueStates
<1>7. ASSUME T # {} PROVE FALSE
  <2>0. T \in SUBSET Nat
    BY <1>1
  <2>1. PICK k \in T : \A i \in T : k <= i
    BY <1>7, <2>0, LeastOne
  <2>2. k \in j..n /\ k \in Nat /\ u[k] \notin Seq(Item)
    BY <1>1, <2>1
  <2>3. k # j => k - 1 \in j..n /\ k - 1 \notin T /\ s[k] \in Item
    BY <1>1, <2>1, <2>2
  <2>4. k # j => u[k - 1] \in Seq(Item) /\ Append(u[k - 1], s[k]) \in Seq(Item)
    BY <2>3
  <2>5. <<>> \in Seq(Item)
    OBVIOUS
  <2>6. CASE k = j
    BY <1>5, <2>2, <2>5, <2>6
  <2>7. CASE k # j
    BY <1>5, <2>2, <2>4, <2>7
  <2> QED BY <2>6, <2>7
<1>8. n \in j..n
  BY <1>1, <1>3
<1>9. u[n] \in Seq(Item)
  BY <1>7, <1>8
<1> QED BY <1>9 DEF DueOf, n, u
-----------------------------------------------------------------------------
LEMMA TalkGrows ==
    ASSUME NEW s \in Seq(Item), NEW t \in Seq(Item), NEW e \in Item
    PROVE  s \o Append(t, e) = Append(s \o t, e)
<1>1. s \o t \in Seq(Item) /\ <<e>> \in Seq(Item)
  BY ConcatProperties
<1>2. Append(s \o t, e) = (s \o t) \o <<e>>
  BY <1>1, AppendIsConcat
<1>3. Append(t, e) = t \o <<e>>
  BY AppendIsConcat
<1>4. (s \o t) \o <<e>> = s \o (t \o <<e>>)
  BY <1>1, ConcatAssociative
<1> QED BY <1>2, <1>3, <1>4

LEMMA TalkIsRead ==
    ASSUME NEW s \in Seq(Item), NEW t \in Seq(Item)
    PROVE  s \o t \in Seq(Item) /\ (s \o t) \o <<>> = s \o t
<1>1. s \o t \in Seq(Item)
  BY ConcatProperties
<1> QED BY <1>1, ConcatEmptySeq

LEMMA PrefixGrows ==
    ASSUME NEW s \in Seq(Item), NEW t \in Seq(Item), NEW e \in Item
    PROVE  /\ Talk!IsPrefix(s, t) => Talk!IsPrefix(s, Append(t, e))
           /\ Talk!IsPrefix(s, s)
<1>1. Len(s) \in Nat /\ Len(t) \in Nat /\ Len(Append(t, e)) = Len(t) + 1
  OBVIOUS
<1>2. Talk!IsPrefix(s, s)
  BY <1>1 DEF Talk!IsPrefix
<1>3. ASSUME Len(s) <= Len(t), SubSeq(s, 1, Len(s)) = SubSeq(t, 1, Len(s))
      PROVE  SubSeq(s, 1, Len(s)) = SubSeq(Append(t, e), 1, Len(s))
  <2>1. SubSeq(Append(t, e), 1, Len(s)) = SubSeq(t, 1, Len(s))
    BY <1>1, <1>3
  <2> QED BY <1>3, <2>1
<1>4. ASSUME Talk!IsPrefix(s, t) PROVE Talk!IsPrefix(s, Append(t, e))
  <2>1. Len(s) <= Len(t) /\ SubSeq(s, 1, Len(s)) = SubSeq(t, 1, Len(s))
    BY <1>4 DEF Talk!IsPrefix
  <2>2. SubSeq(s, 1, Len(s)) = SubSeq(Append(t, e), 1, Len(s))
    BY <1>3, <2>1
  <2> QED BY <1>1, <2>1, <2>2 DEF Talk!IsPrefix
<1> QED BY <1>2, <1>4

LEMMA HeardIs ==
    ASSUME ChatTypes, NEW c \in Client, HeardSaid(c)
    PROVE  Talk!Heard(c) \in Nat /\ Talk!Heard(c) <= sent[c] /\ Talk!Unread(c) \in Nat
<1> DEFINE to == {log[i][4] : i \in {j \in DOMAIN log : log[j][1] = c}}
           U == {n \in Nat : \A k \in to : k <= n}
<1>1. sent[c] \in Nat /\ \A i \in DOMAIN log : log[i][4] \in Nat
  BY DEF ChatTypes, Item
<1>2. sent[c] \in U /\ to \subseteq Nat /\ \A k \in to : k <= sent[c]
  BY <1>1 DEF HeardSaid
<1>3. U \in SUBSET Nat /\ U # {}
  BY <1>2
<1>4. PICK n \in U : \A m \in U : n <= m
  BY <1>3, LeastOne
<1>5. n \in Nat /\ \A k \in to : k <= n
  BY <1>4
<1> HIDE DEF to
<1>6. n \in to \cup {0}
  <2>1. SUFFICES ASSUME n # 0, n \notin to PROVE FALSE
    OBVIOUS
  <2>2. n - 1 \in Nat /\ \A k \in to : k <= n - 1
    BY <1>2, <1>5, <2>1
  <2>3. n - 1 \in U
    BY <2>2
  <2> QED BY <1>4, <1>5, <2>3
<1>7. Talk!Heard(c) \in to \cup {0}
  <2>1. Talk!Heard(c) = CHOOSE m \in to \cup {0} : \A k \in to : k <= m
    BY DEF Talk!Heard, to
  <2> QED BY <1>5, <1>6, <2>1
<1>8. Talk!Heard(c) \in Nat /\ Talk!Heard(c) <= sent[c]
  <2>1. CASE Talk!Heard(c) = 0
    BY <1>1, <2>1
  <2>2. CASE Talk!Heard(c) \in to
    BY <1>2, <2>2
  <2> QED BY <1>7, <2>1, <2>2
<1> QED BY <1>1, <1>8 DEF Talk!Unread

LEMMA HeardStays ==
    ASSUME ChatTypes, NEW c, NEW e \in Item, log' = log \/ (log' = Append(log, e) /\ e[1] # c)
    PROVE  Talk!Heard(c)' = Talk!Heard(c)
<1> DEFINE to == {log[i][4] : i \in {j \in DOMAIN log : log[j][1] = c}}
<1>1. to' = to
  <2>1. CASE log' = log
    BY <2>1
  <2>2. CASE log' = Append(log, e) /\ e[1] # c
    <3>1. /\ DOMAIN log' = DOMAIN log \cup {Len(log) + 1} /\ log'[Len(log) + 1] = e
          /\ \A i \in DOMAIN log : log'[i] = log[i]
      <4>1. log \in Seq(Item)
        BY DEF ChatTypes
      <4> QED BY <2>2, <4>1
    <3>2. {j \in DOMAIN log' : log'[j][1] = c} = {j \in DOMAIN log : log[j][1] = c}
      BY <2>2, <3>1
    <3> QED BY <3>1, <3>2
  <2> QED BY <2>1, <2>2
<1> HIDE DEF to
<1>2. Talk!Heard(c) = CHOOSE m \in to \cup {0} : \A k \in to : k <= m
  BY DEF Talk!Heard, to
<1>3. Talk!Heard(c)' = CHOOSE m \in to' \cup {0} : \A k \in to' : k <= m
  BY DEF Talk!Heard, to
<1> QED BY <1>1, <1>2, <1>3

\* Sending something to all of S.
LEMMA SendAllGives ==
    ASSUME ChatTypes, NEW S, NEW e \in Item, Talk!SendAll(S, e)
    PROVE  /\ log' = Append(log, e) /\ log' \in Seq(Item)
           /\ down' \in [Client -> Seq(Item)] /\ peer' \in [Client -> {"here", "closed", "reset", "broken"}]
           /\ server' \in {"runs", "ended", "killed"}
           /\ \A c \in Client : /\ (peer'[c] = "here" <=> peer[c] = "here")
                                /\ peer'[c] # peer[c] => peer'[c] = "broken"
                                /\ c \notin S => down'[c] = down[c]
                                /\ server' = "runs" /\ c \in S /\ peer[c] = "here" => down'[c] = Append(down[c], e)
<1> DEFINE to == {c \in S : \A d \in S : Talk!Fails(d) => fd[c] < fd[d]}
<1>1. /\ log' = Append(log, e)
      /\ down' = [c \in Client |-> IF c \in to /\ peer[c] = "here" THEN Append(down[c], e) ELSE down[c]]
      /\ peer' = [c \in Client |-> IF c \in to /\ peer[c] # "here" THEN "broken" ELSE peer[c]]
      /\ server' = IF to = S THEN "runs"
                   ELSE IF \E c \in S : peer[c] = "broken" THEN "killed" ELSE "ended"
  BY DEF Talk!SendAll
<1>2. to \subseteq S
  OBVIOUS
<1> HIDE DEF to
<1>3. log' \in Seq(Item)
  BY <1>1 DEF ChatTypes
<1>4. ASSUME NEW c \in Client
      PROVE  /\ (IF c \in to /\ peer[c] = "here" THEN Append(down[c], e) ELSE down[c]) \in Seq(Item)
             /\ (IF c \in to /\ peer[c] # "here" THEN "broken" ELSE peer[c]) \in {"here", "closed", "reset", "broken"}
  <2>1. down[c] \in Seq(Item) /\ peer[c] \in {"here", "closed", "reset", "broken"}
    BY DEF ChatTypes
  <2> QED BY <2>1
<1>5. down' \in [Client -> Seq(Item)]
  BY <1>1, <1>4
<1>6. peer' \in [Client -> {"here", "closed", "reset", "broken"}]
  BY <1>1, <1>4
<1>7. ASSUME NEW c \in Client
      PROVE  /\ (peer'[c] = "here" <=> peer[c] = "here")
             /\ peer'[c] # peer[c] => peer'[c] = "broken"
             /\ c \notin S => down'[c] = down[c]
             /\ server' = "runs" /\ c \in S /\ peer[c] = "here" => down'[c] = Append(down[c], e)
  BY <1>1, <1>2
<1>8. server' \in {"runs", "ended", "killed"}
  BY <1>1
<1> QED BY <1>1, <1>3, <1>5, <1>6, <1>7, <1>8

LEMMA ChatConstants ==
    ASSUME Talk!ChatAssumption
    PROVE  /\ IsFiniteSet(Client) /\ NULL \notin Client /\ SelectMax \subseteq Nat
           /\ \A c \in Client : c # "accept" /\ c # "type"
BY DEF Talk!ChatAssumption, Talk!IsFiniteSet, IsFiniteSet

LEMMA ChatVersions ==
    ASSUME Talk!ChatAssumption, Talk!ChatInit
    PROVE  VersionIsAsListed
<1> DEFINE R(a, e, r, f, er, ch, b) == [always |-> a, epoll |-> e, room |-> r, fifo |-> f,
                                        error |-> er, checks |-> ch, bye |-> b, select |-> 0]
           V == {[r EXCEPT !.select = n] : n \in SelectMax,
                   r \in {Talk!chat1, Talk!tcp_chat_server, Talk!again_tcp, Talk!ChatRoom_server}}
<1>1. /\ Talk!chat1 = R(FALSE, FALSE, FALSE, TRUE, "ends", FALSE, "ends")
      /\ Talk!tcp_chat_server = R(FALSE, FALSE, FALSE, FALSE, "ends", FALSE, "ends")
      /\ Talk!again_tcp = R(TRUE, FALSE, FALSE, FALSE, "ends", FALSE, "forgets")
      /\ Talk!again_epoll_LT = R(TRUE, TRUE, FALSE, FALSE, "goes on", FALSE, "closes")
      /\ Talk!epoll_ET = R(FALSE, TRUE, FALSE, FALSE, "drained", FALSE, "ends")
      /\ Talk!epoll_server = R(FALSE, TRUE, FALSE, FALSE, "ends", TRUE, "ends")
      /\ Talk!ChatRoom_server = R(TRUE, FALSE, TRUE, FALSE, "ends", TRUE, "closes")
  BY DEF Talk!chat1, Talk!tcp_chat_server, Talk!again_tcp, Talk!again_epoll_LT, Talk!epoll_ET,
         Talk!epoll_server, Talk!ChatRoom_server, Talk!Row
<1>2. version \in {Talk!again_epoll_LT, Talk!epoll_ET, Talk!epoll_server} \/ version \in V
  BY DEF Talk!ChatInit
<1>3. CASE version \in {Talk!again_epoll_LT, Talk!epoll_ET, Talk!epoll_server}
  <2>1. /\ version.always \in BOOLEAN /\ version.epoll = TRUE /\ version.room = FALSE /\ version.select = 0
        /\ version.always => version = Talk!again_epoll_LT
        /\ version.error = "drained" => version.bye = "ends"
        /\ version.bye # "forgets"
    <3>1. CASE version = Talk!again_epoll_LT
      BY <1>1, <3>1
    <3>2. CASE version = Talk!epoll_ET
      BY <1>1, <3>2
    <3>3. CASE version = Talk!epoll_server
      BY <1>1, <3>3
    <3> QED BY <1>3, <3>1, <3>2, <3>3
  <2>2. ~version.room /\ version.epoll /\ version.room \in BOOLEAN /\ version.epoll \in BOOLEAN
    BY <2>1
  <2>3. version.select \in Nat
    BY <2>1
  <2> HIDE DEF R, V
  <2> QED BY <2>1, <2>2, <2>3, Zenon DEF VersionIsAsListed
<1>4. CASE version \in V
  <2>1. PICK n \in SelectMax, r \in {Talk!chat1, Talk!tcp_chat_server, Talk!again_tcp, Talk!ChatRoom_server} :
               version = [r EXCEPT !.select = n]
    BY <1>4
  <2>2. n \in Nat
    BY ChatConstants
  <2>3. /\ version.always \in BOOLEAN /\ version.epoll = FALSE /\ version.room \in BOOLEAN
        /\ version.select = n /\ version.error = "ends" /\ (version.bye = "forgets" => version.room = FALSE)
    <3>1. CASE r = Talk!chat1
      BY <1>1, <2>1, <3>1
    <3>2. CASE r = Talk!tcp_chat_server
      BY <1>1, <2>1, <3>2
    <3>3. CASE r = Talk!again_tcp
      BY <1>1, <2>1, <3>3
    <3>4. CASE r = Talk!ChatRoom_server
      BY <1>1, <2>1, <3>4
    <3> QED BY <2>1, <3>1, <3>2, <3>3, <3>4
  <2> QED BY <2>2, <2>3 DEF VersionIsAsListed
<1> QED BY <1>2, <1>3, <1>4

\* Steps that leave a client alone.
LEMMA UnmetStays ==
    ASSUME NEW c \in Client, Unmet(c), log' = log, told'[c] = told[c], down'[c] = down[c],
           sent'[c] = sent[c], peer'[c] = peer[c],
           client'[c] = client[c] \/ client'[c] \in {"open", "closed"}
    PROVE  Unmet(c)'
BY DEF Unmet

LEMMA FollowsStays ==
    ASSUME NEW c \in Client, Follows(c), UNCHANGED <<version, log>>, told'[c] = told[c],
           down'[c] = down[c], joined'[c] = joined[c], latest' = latest,
           client'[c] = "open" => client[c] = "open", peer'[c] = "here" => peer[c] = "here",
           server' = "runs" => server = "runs"
    PROVE  Follows(c)'
<1>1. SUFFICES ASSUME c \in Talk!Open', peer'[c] = "here", server' = "runs"
               PROVE  LET talk == told'[c] \o down'[c]
                      IN  IF Talk!Minds(c)' THEN talk = Talk!Due(c)' ELSE Talk!IsPrefix(talk, Talk!Due(c)')
  BY DEF Follows, Talk!IsPrefix
<1>2. c \in Talk!Open /\ peer[c] = "here" /\ server = "runs"
  BY <1>1 DEF Talk!Open
<1>3. Talk!Minds(c)' <=> Talk!Minds(c)
  BY DEF Talk!Minds
<1>4. Talk!Due(c)' = Talk!Due(c)
  <2>1. Talk!Due(c)' = DueOf(c, version'.room, log', joined'[c], Len(log'))
    BY DEF Talk!Due, DueOf, DueStates, Talk!Concerns, Mine
  <2> QED BY <2>1, DueIs
<1> QED BY <1>2, <1>3, <1>4 DEF Follows

LEMMA NoticedStays ==
    ASSUME NEW c \in Client, Noticed(c), version' = version, Talk!Heard(c)' = Talk!Heard(c),
           sent'[c] = sent[c], client'[c] = client[c], c \in watched => c \in watched',
           peer'[c] = peer[c] \/ (peer[c] # "here" /\ peer'[c] = "broken"),
           version.error = "drained" =>
             /\ c \in edge => c \in edge'
             /\ (\E i \in DOMAIN batch : batch[i] = c) => \E i \in DOMAIN batch' : batch'[i] = c
             /\ Talk!Minds(c)' => Talk!Minds(c)
    PROVE  Noticed(c)'
<1>1. Talk!Unread(c)' = Talk!Unread(c)
  BY DEF Talk!Unread
<1>2. (c \in Talk!Open' <=> c \in Talk!Open) /\ (c \in Talk!Backlog' <=> c \in Talk!Backlog)
  BY DEF Talk!Open, Talk!Backlog
<1>3. News(c)' => News(c)
  BY <1>1 DEF News
<1>4. c \in Talk!Open' \ watched' => version'.bye = "forgets" /\ Talk!Unread(c)' = 0 /\ peer'[c] # "here"
  BY <1>1, <1>2 DEF Noticed
<1>5. ASSUME version'.error = "drained", News(c)'
      PROVE  /\ c \in Talk!Backlog' => c \in edge'
             /\ c \in Talk!Open' /\ Talk!Minds(c)' =>
                  c \in edge' \/ (\E i \in DOMAIN batch' : batch'[i] = c) \/ peer'[c] = "broken"
  BY <1>2, <1>3, <1>5 DEF Noticed
<1> QED BY <1>4, <1>5 DEF Noticed, News

LEMMA HeardKept ==
    ASSUME NEW c, log' = log
    PROVE  Talk!Heard(c)' = Talk!Heard(c)
BY DEF Talk!Heard

LEMMA BatchTail ==
    ASSUME ChatTypes, batch # <<>>, NEW t, t = Tail(batch)
    PROVE  /\ t \in Seq(Spot) /\ Head(batch) = batch[1] /\ 1 \in DOMAIN batch
           /\ \A i \in DOMAIN t : i + 1 \in DOMAIN batch /\ t[i] = batch[i + 1] /\ i + 1 # 1
           /\ \A i \in DOMAIN t : \A j \in DOMAIN t : i + 1 = j + 1 => i = j
           /\ \A i \in DOMAIN batch : i = 1 \/ \E j \in DOMAIN t : t[j] = batch[i]
<1>1. batch \in Seq(Spot)
  BY DEF ChatTypes
<1>2. t \in Seq(Spot) /\ Head(batch) = batch[1] /\ Len(t) = Len(batch) - 1 /\ Len(batch) \in Nat
      /\ Len(batch) # 0 /\ DOMAIN batch = 1..Len(batch) /\ DOMAIN t = 1..Len(t)
  BY <1>1
<1>3. \A i \in DOMAIN t : i + 1 \in DOMAIN batch /\ t[i] = batch[i + 1] /\ i + 1 # 1
  BY <1>1, <1>2
<1>4. ASSUME NEW i \in DOMAIN batch, i # 1 PROVE \E j \in DOMAIN t : t[j] = batch[i]
  <2>1. i - 1 \in DOMAIN t /\ i - 1 + 1 = i
    BY <1>2, <1>4
  <2>2. t[i - 1] = batch[i - 1 + 1]
    BY <1>3, <2>1
  <2> QED BY <2>1, <2>2
<1>5. \A i \in DOMAIN t : \A j \in DOMAIN t : i + 1 = j + 1 => i = j
  BY <1>2
<1>6. 1 \in DOMAIN batch
  BY <1>2
<1> QED BY <1>2, <1>3, <1>4, <1>5, <1>6

LEMMA AcceptsStays ==
    ASSUME ChatTypes, Accepts, version' = version, latest' = latest,
           batch' = batch \/ (batch # <<>> /\ batch' = Tail(batch)) \/ batch' = <<>>,
           Talk!Backlog \subseteq Talk!Backlog'
    PROVE  Accepts'
<1>1. CASE batch' = batch
  BY <1>1 DEF Accepts
<1>2. CASE batch # <<>> /\ batch' = Tail(batch)
  <2> DEFINE t == Tail(batch)
  <2>1. /\ \A i \in DOMAIN t : i + 1 \in DOMAIN batch /\ t[i] = batch[i + 1] /\ i + 1 # 1
        /\ \A i \in DOMAIN t : \A j \in DOMAIN t : i + 1 = j + 1 => i = j
    BY <1>2, BatchTail
  <2>2. batch' = t
    BY <1>2
  <2>3. batch = <<"accept">> => DOMAIN t = {}
    OBVIOUS
  <2> HIDE DEF t
  <2>4. ASSUME version.always /\ ~version.epoll, NEW i \in DOMAIN t, t[i] = "accept"
        PROVE  Talk!Backlog' # {} /\ \A j \in DOMAIN t : t[j] = "accept" => j = i
    <3>1. i + 1 \in DOMAIN batch /\ batch[i + 1] = "accept"
      BY <2>1, <2>4
    <3>2. Talk!Backlog # {} /\ \A j \in DOMAIN batch : batch[j] = "accept" => j = i + 1
      BY <2>4, <3>1 DEF Accepts
    <3> QED BY <2>1, <3>2
  <2>5. ASSUME ~version.always, NEW i \in DOMAIN t, t[i] = "accept" PROVE FALSE
    <3>1. i + 1 \in DOMAIN batch /\ batch[i + 1] = "accept"
      BY <2>1, <2>5
    <3> QED BY <2>3, <2>5, <3>1 DEF Accepts
  <2> QED BY <2>2, <2>4, <2>5 DEF Accepts
<1>3. CASE batch' = <<>>
  <2>1. DOMAIN batch' = {}
    BY <1>3
  <2> QED BY <2>1 DEF Accepts
<1> QED BY <1>1, <1>2, <1>3

LEMMA BatchStays ==
    ASSUME ChatTypes, BatchKnown,
           batch' = batch \/ (batch # <<>> /\ batch' = Tail(batch)) \/ batch' = <<>>,
           \A c \in Client : client[c] \in {"open", "closed"} => client'[c] \in {"open", "closed"}
    PROVE  BatchKnown' /\ batch' \in Seq(Spot)
<1>1. CASE batch' = batch
  BY <1>1 DEF BatchKnown, ChatTypes
<1>2. CASE batch # <<>> /\ batch' = Tail(batch)
  <2> DEFINE t == Tail(batch)
  <2>1. t \in Seq(Spot) /\ \A i \in DOMAIN t : i + 1 \in DOMAIN batch /\ t[i] = batch[i + 1]
    BY <1>2, BatchTail
  <2>2. batch' = t
    BY <1>2
  <2> HIDE DEF t
  <2> QED BY <2>1, <2>2 DEF BatchKnown
<1>3. CASE batch' = <<>>
  <2>1. DOMAIN batch' = {}
    BY <1>3
  <2> QED BY <1>3, <2>1 DEF BatchKnown
<1> QED BY <1>1, <1>2, <1>3
-----------------------------------------------------------------------------
\* The steps of the clients.

LEMMA ConnectsKept ==
    ASSUME ChatInv, NEW h \in Client, Talk!Connect(h)
    PROVE  ChatInv'
<1>1. /\ client[h] = "away" /\ client' = [client EXCEPT ![h] = "backlog"]
      /\ UNCHANGED <<version, server, peer, fd, watched, edge, latest, batch, sent, said, log, joined, down, told>>
  BY DEF Talk!Connect
<1>2. ChatTypes /\ client' \in [Client -> {"away", "backlog", "open", "closed"}]
  BY <1>1 DEF ChatInv, ChatTypes
<1>3. ChatTypes'
  BY <1>1, <1>2 DEF ChatTypes, VersionIsAsListed
<1>4. \A c \in Client : client'[c] = IF c = h THEN "backlog" ELSE client[c]
  BY <1>1, <1>2 DEF ChatTypes
<1>5. BatchKnown'
  BY <1>1, <1>2, <1>4, BatchStays DEF ChatInv
<1>6. \A c \in Client : Unmet(c)'
  BY <1>1, <1>4 DEF ChatInv, Unmet
<1>7. \A c \in Client : HeardSaid(c)'
  BY <1>1 DEF ChatInv, HeardSaid
<1>8. \A c \in Client : Follows(c)'
  BY <1>1, <1>4, FollowsStays DEF ChatInv
<1>9. ASSUME server = "runs" PROVE Accepts' /\ \A c \in Client : Noticed(c)'
  <2>1. Accepts /\ \A c \in Client : Noticed(c)
    BY <1>9 DEF ChatInv
  <2>2. Talk!Backlog \subseteq Talk!Backlog'
    BY <1>4 DEF Talk!Backlog
  <2>3. Accepts'
    BY <1>1, <1>2, <2>1, <2>2, AcceptsStays
  <2>4. ASSUME NEW c \in Client, c # h PROVE Noticed(c)'
    <3>1. Noticed(c) /\ client'[c] = client[c] /\ (Talk!Minds(c)' <=> Talk!Minds(c))
      BY <1>1, <1>4, <2>1, <2>4 DEF Talk!Minds
    <3> QED BY <1>1, <3>1, HeardKept, NoticedStays
  <2>5. Noticed(h)'
    <3>1. sent[h] = 0 /\ peer[h] = "here"
      BY <1>1 DEF ChatInv, Unmet
    <3>2. Talk!Heard(h) \in Nat /\ Talk!Heard(h) <= 0
      BY <1>2, <3>1, HeardIs DEF ChatInv
    <3>3. Talk!Heard(h)' = 0 /\ sent'[h] = 0 /\ peer'[h] = "here" /\ client'[h] = "backlog"
      BY <1>1, <1>4, <3>1, <3>2, HeardKept
    <3>4. Talk!Unread(h)' = 0
      BY <3>3 DEF Talk!Unread
    <3>5. ~News(h)' /\ h \notin Talk!Open'
      BY <3>3, <3>4 DEF News, Talk!Open
    <3> QED BY <3>5 DEF Noticed
  <2> QED BY <2>3, <2>4, <2>5
<1> QED BY <1>1, <1>3, <1>5, <1>6, <1>7, <1>8, <1>9 DEF ChatInv

\* A client types a line, or leaves: what it does is news.
LEMMA NewsIsNoticed ==
    ASSUME ChatInv, NEW h \in Client, client[h] \in {"backlog", "open"}, peer[h] = "here",
           edge' = edge \cup {h},
           UNCHANGED <<version, server, client, fd, watched, latest, batch, said, log, joined, down, told>>,
           \A c \in Client : c # h => sent'[c] = sent[c] /\ peer'[c] = peer[c],
           server = "runs"
    PROVE  Accepts' /\ \A c \in Client : Noticed(c)'
<1>1. ChatTypes /\ Accepts /\ \A c \in Client : Noticed(c)
  BY DEF ChatInv
<1>2. Talk!Backlog \subseteq Talk!Backlog'
  BY DEF Talk!Backlog
<1>3. Accepts'
  BY <1>1, <1>2, AcceptsStays
<1>4. ASSUME NEW c \in Client, c # h PROVE Noticed(c)'
  <2>1. Noticed(c) /\ (Talk!Minds(c)' <=> Talk!Minds(c)) /\ (c \in edge => c \in edge')
    BY <1>1 DEF Talk!Minds
  <2> QED BY <2>1, <1>4, HeardKept, NoticedStays
<1>5. Noticed(h)'
  <2>1. ~(h \in Talk!Open \ watched)
    BY <1>1 DEF Noticed
  <2>2. h \in edge' /\ ~(h \in Talk!Open' \ watched')
    BY <2>1 DEF Talk!Open
  <2> QED BY <2>2 DEF Noticed
<1> QED BY <1>3, <1>4, <1>5

LEMMA TypeKept ==
    ASSUME ChatInv, NEW h \in Client, Talk!Type(h)
    PROVE  ChatInv'
<1>1. /\ client[h] \in {"backlog", "open"} /\ peer[h] = "here"
      /\ sent' = [sent EXCEPT ![h] = @ + 1] /\ edge' = edge \cup {h}
      /\ UNCHANGED <<version, server, client, fd, watched, latest, joined, peer, batch, said, log, down, told>>
  BY DEF Talk!Type, Talk!conns
<1>2. ChatTypes /\ sent' \in [Client -> Nat]
  <2>1. ChatTypes /\ sent \in [Client -> Nat]
    BY DEF ChatInv, ChatTypes
  <2>3. sent[h] + 1 \in Nat
    BY <2>1
  <2>2. sent' = [sent EXCEPT ![h] = sent[h] + 1]
    BY <1>1
  <2> QED BY <2>1, <2>2, <2>3
<1>3. ChatTypes'
  BY <1>1, <1>2 DEF ChatTypes, VersionIsAsListed
<1>4. \A c \in Client : sent[c] \in Nat /\ sent'[c] = IF c = h THEN sent[h] + 1 ELSE sent[c]
  BY <1>1, <1>2 DEF ChatTypes
<1>5. BatchKnown'
  BY <1>1, <1>2, BatchStays DEF ChatInv
<1>6. \A c \in Client : Unmet(c)'
  BY <1>1, <1>4 DEF ChatInv, Unmet
<1>7. \A c \in Client : HeardSaid(c)'
  <2>1. \A i \in DOMAIN log : log[i][4] \in Nat
    BY <1>2 DEF ChatTypes, Item
  <2> QED BY <1>1, <1>4, <2>1 DEF ChatInv, HeardSaid
<1>8. \A c \in Client : Follows(c)'
  BY <1>1, FollowsStays DEF ChatInv
<1>9. server = "runs" => Accepts' /\ \A c \in Client : Noticed(c)'
  BY <1>1, <1>4, NewsIsNoticed
<1> QED BY <1>1, <1>3, <1>5, <1>6, <1>7, <1>8, <1>9 DEF ChatInv

LEMMA LeavesKept ==
    ASSUME ChatInv, NEW h \in Client, Talk!Leave(h)
    PROVE  ChatInv'
<1>1. /\ client[h] \in {"backlog", "open"} /\ peer[h] = "here" /\ edge' = edge \cup {h}
      /\ \E p \in {"broken", "closed", "reset"} : peer' = [peer EXCEPT ![h] = p]
      /\ UNCHANGED <<version, server, client, fd, watched, latest, joined, batch, sent, said, log, down, told>>
  BY DEF Talk!Leave, Talk!conns
<1>2. PICK p \in {"broken", "closed", "reset"} : peer' = [peer EXCEPT ![h] = p]
  BY <1>1
<1>3. ChatTypes /\ peer' \in [Client -> {"here", "closed", "reset", "broken"}]
  BY <1>1, <1>2 DEF ChatInv, ChatTypes
<1>4. ChatTypes'
  BY <1>1, <1>3 DEF ChatTypes, VersionIsAsListed
<1>5. \A c \in Client : peer'[c] = IF c = h THEN p ELSE peer[c]
  BY <1>2, <1>3 DEF ChatTypes
<1>6. BatchKnown'
  BY <1>1, <1>3, BatchStays DEF ChatInv
<1>7. \A c \in Client : Unmet(c)'
  BY <1>1, <1>5 DEF ChatInv, Unmet
<1>8. \A c \in Client : HeardSaid(c)'
  BY <1>1 DEF ChatInv, HeardSaid
<1>9. \A c \in Client : Follows(c)'
  <2>1. \A c \in Client : peer'[c] = "here" => peer[c] = "here"
    BY <1>5
  <2> QED BY <1>1, <2>1, FollowsStays DEF ChatInv
<1>10. server = "runs" => Accepts' /\ \A c \in Client : Noticed(c)'
  BY <1>1, <1>5, NewsIsNoticed
<1> QED BY <1>1, <1>4, <1>6, <1>7, <1>8, <1>9, <1>10 DEF ChatInv

LEMMA ReadKept ==
    ASSUME ChatInv, NEW h \in Client, Talk!Read(h)
    PROVE  ChatInv'
<1>1. /\ down[h] # <<>> /\ down' = [down EXCEPT ![h] = <<>>]
      /\ told' = [told EXCEPT ![h] = told[h] \o down[h]]
      /\ UNCHANGED <<version, server, client, fd, watched, latest, joined, peer, edge, batch, sent, said, log>>
  BY DEF Talk!Read, Talk!conns
<1>2. ChatTypes /\ down[h] \in Seq(Item) /\ told[h] \in Seq(Item)
  BY DEF ChatInv, ChatTypes
<1>3. PICK s \in Seq(Item), t \in Seq(Item) : s = told[h] /\ t = down[h]
  BY <1>2
<1>4. s \o t \in Seq(Item) /\ (s \o t) \o <<>> = s \o t
  BY TalkIsRead
<1>5. down' \in [Client -> Seq(Item)] /\ told' \in [Client -> Seq(Item)]
  <2>1. <<>> \in Seq(Item) /\ told[h] \o down[h] \in Seq(Item)
    BY <1>3, <1>4
  <2> QED BY <1>1, <1>2, <2>1 DEF ChatTypes
<1>6. ChatTypes'
  BY <1>1, <1>2, <1>5 DEF ChatTypes, VersionIsAsListed
<1>7. /\ down'[h] = <<>> /\ told'[h] = s \o t
      /\ \A c \in Client : c # h => down'[c] = down[c] /\ told'[c] = told[c]
  BY <1>1, <1>2, <1>3 DEF ChatTypes
<1>8. BatchKnown'
  BY <1>1, <1>2, BatchStays DEF ChatInv
<1>9. \A c \in Client : Unmet(c)'
  BY <1>1, <1>7 DEF ChatInv, Unmet
<1>10. \A c \in Client : HeardSaid(c)'
  BY <1>1 DEF ChatInv, HeardSaid
<1>11. ASSUME NEW c \in Client, c # h PROVE Follows(c)'
  BY <1>1, <1>7, <1>11, FollowsStays DEF ChatInv
<1>12. Follows(h)'
  <2>1. told'[h] \o down'[h] = told[h] \o down[h]
    BY <1>3, <1>4, <1>7
  <2>2. Talk!Minds(h)' <=> Talk!Minds(h)
    BY <1>1 DEF Talk!Minds
  <2>3. Talk!Due(h)' = Talk!Due(h)
    <3>1. Talk!Due(h)' = DueOf(h, version'.room, log', joined'[h], Len(log'))
      BY DEF Talk!Due, DueOf, DueStates, Talk!Concerns, Mine
    <3> QED BY <1>1, <3>1, DueIs
  <2>4. h \in Talk!Open' <=> h \in Talk!Open
    BY <1>1 DEF Talk!Open
  <2>5. Follows(h)
    BY DEF ChatInv
  <2>6. CASE h \in Talk!Open /\ peer[h] = "here" /\ server = "runs"
    <3>1. IF Talk!Minds(h) THEN told[h] \o down[h] = Talk!Due(h) ELSE Talk!IsPrefix(told[h] \o down[h], Talk!Due(h))
      BY <2>5, <2>6 DEF Follows
    <3>2. IF Talk!Minds(h)' THEN told'[h] \o down'[h] = Talk!Due(h)'
          ELSE Talk!IsPrefix(told'[h] \o down'[h], Talk!Due(h)')
      BY <2>1, <2>2, <2>3, <3>1
    <3> QED BY <3>2 DEF Follows, Talk!IsPrefix
  <2>7. CASE ~(h \in Talk!Open /\ peer[h] = "here" /\ server = "runs")
    BY <1>1, <2>4, <2>7 DEF Follows
  <2> QED BY <2>6, <2>7
<1>13. ASSUME server = "runs" PROVE Accepts' /\ \A c \in Client : Noticed(c)'
  <2>1. Accepts /\ \A c \in Client : Noticed(c)
    BY <1>13 DEF ChatInv
  <2>2. Talk!Backlog \subseteq Talk!Backlog' /\ \A c : (Talk!Minds(c)' <=> Talk!Minds(c))
    BY <1>1 DEF Talk!Backlog, Talk!Minds
  <2>3. Accepts'
    BY <1>1, <1>2, <2>1, <2>2, AcceptsStays
  <2>4. ASSUME NEW c \in Client PROVE Noticed(c)'
    BY <1>1, <2>1, <2>2, HeardKept, NoticedStays
  <2> QED BY <2>3, <2>4
<1> QED BY <1>1, <1>6, <1>8, <1>9, <1>10, <1>11, <1>12, <1>13 DEF ChatInv
-----------------------------------------------------------------------------
\* The steps of the server that say nothing.

LEMMA LooksKnown ==
    ASSUME NEW S, IsFiniteSet(S), S # {}, S \subseteq Spot, NEW s \in Talk!Looks(S)
    PROVE  /\ s \in Seq(Spot) /\ \A i \in DOMAIN s : s[i] \in S
           /\ ~version.epoll => \A i, j \in DOMAIN s : s[i] = "accept" /\ s[j] = "accept" => i = j
<1>1. ASSUME NEW T, T \subseteq S, NEW t \in Talk!SetToSeqs(T)
      PROVE  t \in Seq(S) /\ Len(t) = Talk!Cardinality(T)
  <2>1. IsFiniteSet(T) /\ Cardinality(T) \in Nat
    BY <1>1, FS_Subset, FS_CardinalityType
  <2>2. Talk!Cardinality(T) = Cardinality(T)
    BY DEF Talk!Cardinality, Cardinality
  <2>3. t \in [1..Cardinality(T) -> T]
    BY <1>1, <2>2, Zenon DEF Talk!SetToSeqs
  <2> HIDE DEF Talk!Cardinality
  <2> QED BY <1>1, <2>1, <2>2, <2>3
<1>2. CASE ~version.epoll
  <2>1. s \in Talk!SetToSeqs(S) /\ \A i, j \in DOMAIN s : i < j => Talk!Place(s[i]) < Talk!Place(s[j])
    BY <1>2 DEF Talk!Looks
  <2>2. s \in Seq(S)
    BY <1>1, <2>1
  <2>3. Talk!Place("accept") = -1
    BY DEF Talk!Place
  <2>4. ASSUME NEW i \in DOMAIN s, NEW j \in DOMAIN s, s[i] = "accept", s[j] = "accept" PROVE i = j
    <3>1. i \in Nat /\ j \in Nat /\ ~(i < j) /\ ~(j < i)
      BY <2>1, <2>2, <2>3, <2>4
    <3> QED BY <3>1
  <2> QED BY <2>2, <2>4
<1>3. CASE version.epoll
  <2> DEFINE Seen(t) == IF t[1] = "accept" THEN <<"accept">> \o IF Len(t) = 2 THEN <<"accept", t[2]>> ELSE <<>>
                        ELSE IF t[Len(t)] = "accept" THEN <<t[1]>> ELSE t
             looked == {U \in SUBSET S : Talk!Cardinality(U) = IF Talk!Cardinality(S) > 2 THEN 2
                                                               ELSE Talk!Cardinality(S)}
  <2>1. s \in {Seen(t) : t \in UNION {Talk!SetToSeqs(T) : T \in looked}}
    BY <1>3 DEF Talk!Looks
  <2>2. PICK t \in UNION {Talk!SetToSeqs(T) : T \in looked} : s = Seen(t)
    BY <2>1
  <2>3. PICK T \in looked : t \in Talk!SetToSeqs(T)
    OBVIOUS
  <2>4. Talk!Cardinality(S) \in Nat /\ Talk!Cardinality(S) # 0
    <3>1. Talk!Cardinality(S) = Cardinality(S)
      BY DEF Talk!Cardinality, Cardinality
    <3> QED BY <3>1, FS_CardinalityType, FS_EmptySet
  <2>5. t \in Seq(S) /\ Len(t) \in {1, 2}
    <3>1. Talk!Cardinality(T) \in {1, 2}
      BY <2>3, <2>4
    <3> QED BY <1>1, <2>3, <3>1
  <2> HIDE DEF looked
  <2>6. t[1] \in S /\ (Len(t) = 2 => t[2] \in S)
    BY <2>5
  <2>7. s \in Seq(S)
    <3>1. CASE t[1] = "accept"
      <4>1. CASE Len(t) = 2
        <5>1. s = <<"accept">> \o <<"accept", t[2]>>
          BY <2>2, <3>1, <4>1
        <5>2. <<"accept">> \in Seq(S) /\ <<"accept", t[2]>> \in Seq(S)
          BY <2>6, <3>1, <4>1
        <5> QED BY <5>1, <5>2
      <4>2. CASE Len(t) # 2
        <5>1. s = <<"accept">> \o <<>>
          BY <2>2, <3>1, <4>2
        <5>2. <<"accept">> \in Seq(S) /\ <<>> \in Seq(S)
          BY <2>6, <3>1
        <5> QED BY <5>1, <5>2
      <4> QED BY <4>1, <4>2
    <3>2. CASE t[1] # "accept"
      <4>1. s = t \/ s = <<t[1]>>
        BY <2>2, <3>2
      <4>2. <<t[1]>> \in Seq(S)
        BY <2>6
      <4> QED BY <2>5, <4>1, <4>2
    <3> QED BY <3>1, <3>2
  <2> QED BY <1>3, <2>7
<1> QED BY <1>2, <1>3

LEMMA ReportedKnown ==
    ASSUME Talk!ChatAssumption, NEW typed \in SUBSET {"type"}
    PROVE  LET S == Talk!Reported \cup typed
           IN  /\ IsFiniteSet(S) /\ S \subseteq Spot
               /\ \A c \in Client : c \in S => c \in Talk!Open
               /\ "accept" \in S => version.always /\ Talk!Backlog # {}
<1> USE ChatConstants
<1>1. Talk!Ready \subseteq Client /\ Talk!Ready \subseteq Talk!Open
  BY DEF Talk!Ready, Talk!Open
<1>2. "accept" \notin Talk!Ready /\ "type" \notin Talk!Ready
  BY <1>1
<1>3. IsFiniteSet(Talk!Ready)
  BY <1>1, FS_Subset
<1>4. IsFiniteSet({"accept"}) /\ IsFiniteSet({"type"}) /\ IsFiniteSet({})
  BY FS_Singleton, FS_EmptySet
<1>5. IsFiniteSet(Talk!Reported)
  BY <1>3, <1>4, FS_Union DEF Talk!Reported
<1>6. IsFiniteSet(Talk!Reported \cup typed)
  <2>1. IsFiniteSet(typed)
    BY <1>4, FS_Subset
  <2> QED BY <1>5, <2>1, FS_Union
<1>7. \A x \in Talk!Reported \cup typed :
        /\ x \in Spot /\ (x \in Client => x \in Talk!Open)
        /\ x = "accept" => version.always /\ Talk!Backlog # {}
  BY <1>1, <1>2 DEF Talk!Reported, Spot
<1> QED BY <1>6, <1>7

LEMMA WaitsKept ==
    ASSUME Talk!ChatAssumption, ChatInv, Talk!Wait
    PROVE  ChatInv'
<1> USE ChatConstants
<1>1. PICK typed \in SUBSET {"type"} :
        Talk!Reported \cup typed # {} /\ batch' \in Talk!Looks(Talk!Reported \cup typed)
  BY DEF Talk!Wait
<1>2. /\ server = "runs" /\ batch = <<>> /\ edge' = edge \ {batch'[i] : i \in DOMAIN batch'}
      /\ UNCHANGED <<version, server, client, fd, watched, latest, joined, peer, sent, said, log, down, told>>
  BY DEF Talk!Wait, Talk!conns, Talk!ToSet
<1> DEFINE S == Talk!Reported \cup typed
<1>3. /\ IsFiniteSet(S) /\ S \subseteq Spot /\ S # {}
      /\ \A c \in Client : c \in S => c \in Talk!Open
      /\ "accept" \in S => version.always /\ Talk!Backlog # {}
  BY <1>1, ReportedKnown
<1>4. batch' \in Talk!Looks(S)
  BY <1>1
<1> HIDE DEF S
<1>5. /\ batch' \in Seq(Spot) /\ \A i \in DOMAIN batch' : batch'[i] \in S
      /\ ~version.epoll => \A i, j \in DOMAIN batch' : batch'[i] = "accept" /\ batch'[j] = "accept" => i = j
  BY <1>3, <1>4, LooksKnown
<1>6. ChatTypes /\ Accepts /\ \A c \in Client : Noticed(c)
  BY <1>2 DEF ChatInv
<1>7. ChatTypes'
  BY <1>2, <1>5, <1>6 DEF ChatTypes, VersionIsAsListed
<1>8. BatchKnown'
  BY <1>2, <1>3, <1>5 DEF BatchKnown, Talk!Open
<1>9. \A c \in Client : Unmet(c)' /\ HeardSaid(c)'
  BY <1>2 DEF ChatInv, HeardSaid, Unmet
<1>10. \A c \in Client : Follows(c)'
  BY <1>2, FollowsStays DEF ChatInv
<1>11. Accepts'
  <2>1. Talk!Backlog' = Talk!Backlog
    BY <1>2 DEF Talk!Backlog
  <2> QED BY <1>2, <1>3, <1>5, <2>1 DEF Accepts
<1>12. ASSUME NEW c \in Client PROVE Noticed(c)'
  <2>1. Talk!Unread(c)' = Talk!Unread(c)
    BY <1>2, HeardKept DEF Talk!Unread
  <2>2. (c \in Talk!Open' <=> c \in Talk!Open) /\ (c \in Talk!Backlog' <=> c \in Talk!Backlog)
        /\ (Talk!Minds(c)' <=> Talk!Minds(c)) /\ (c \in Talk!Backlog => c \notin Talk!Open)
    BY <1>2 DEF Talk!Open, Talk!Backlog, Talk!Minds
  <2>3. News(c)' <=> News(c)
    BY <1>2, <2>1 DEF News
  <2>4. c \in Talk!Open' \ watched' => version'.bye = "forgets" /\ Talk!Unread(c)' = 0 /\ peer'[c] # "here"
    BY <1>2, <1>6, <2>1, <2>2 DEF Noticed
  <2>5. ~\E i \in DOMAIN batch : batch[i] = c
    BY <1>2
  <2>6. c \in Talk!Backlog /\ c \in edge => c \in edge'
    BY <1>2, <1>3, <1>5, <2>2
  <2>7. c \in edge => c \in edge' \/ \E i \in DOMAIN batch' : batch'[i] = c
    BY <1>2
  <2>8. ASSUME version'.error = "drained", News(c)'
        PROVE  /\ c \in Talk!Backlog' => c \in edge'
               /\ c \in Talk!Open' /\ Talk!Minds(c)' =>
                    c \in edge' \/ (\E i \in DOMAIN batch' : batch'[i] = c) \/ peer'[c] = "broken"
    <3>1. /\ c \in Talk!Backlog => c \in edge
          /\ c \in Talk!Open /\ Talk!Minds(c) => c \in edge \/ peer[c] = "broken"
      BY <1>2, <1>6, <2>3, <2>5, <2>8 DEF Noticed
    <3> QED BY <1>2, <2>2, <2>6, <2>7, <3>1
  <2> QED BY <2>4, <2>8 DEF Noticed
<1> QED BY <1>7, <1>8, <1>9, <1>10, <1>11, <1>12 DEF ChatInv

\* What the server takes from the batch without saying anything.
LEMMA PassesOn ==
    ASSUME ChatInv, server = "runs", batch # <<>>, batch' = Tail(batch), NEW h, Head(batch) = h,
           UNCHANGED <<version, client, watched, fd, latest, joined, edge, sent, log, down, told>>,
           \A c \in Client : peer'[c] = peer[c] \/ (peer[c] # "here" /\ peer'[c] = "broken"),
           h \in Client => \/ ~Talk!Minds(h) \/ ~News(h)' \/ peer'[h] = "broken"
    PROVE  Accepts' /\ \A c \in Client : Noticed(c)'
<1>1. ChatTypes /\ Accepts /\ BatchKnown /\ \A c \in Client : Noticed(c)
  BY DEF ChatInv
<1>2. Talk!Backlog \subseteq Talk!Backlog' /\ \A c : Talk!Minds(c)' <=> Talk!Minds(c)
  BY DEF Talk!Backlog, Talk!Minds
<1>3. Accepts'
  BY <1>1, <1>2, AcceptsStays
<1> DEFINE t == Tail(batch)
<1>4. batch[1] = h /\ 1 \in DOMAIN batch /\ \A i \in DOMAIN batch : i = 1 \/ \E j \in DOMAIN t : t[j] = batch[i]
  BY <1>1, BatchTail
<1>5. batch' = t
  OBVIOUS
<1> HIDE DEF t
<1>6. ASSUME NEW c \in Client, c # h PROVE Noticed(c)'
  <2>1. (\E i \in DOMAIN batch : batch[i] = c) => \E i \in DOMAIN batch' : batch'[i] = c
    BY <1>4, <1>5, <1>6
  <2>2. Noticed(c) /\ Talk!Heard(c)' = Talk!Heard(c)
    BY <1>1, HeardKept
  <2> QED BY <1>2, <2>1, <2>2, NoticedStays
<1>7. ASSUME h \in Client PROVE Noticed(h)'
  <2>1. h \notin Talk!Backlog' /\ (h \in Talk!Open' <=> h \in Talk!Open)
    BY <1>1, <1>4, <1>7 DEF BatchKnown, Talk!Backlog, Talk!Open
  <2>2. Talk!Unread(h)' = Talk!Unread(h)
    BY HeardKept DEF Talk!Unread
  <2>3. h \in Talk!Open' \ watched' => version'.bye = "forgets" /\ Talk!Unread(h)' = 0 /\ peer'[h] # "here"
    BY <1>1, <1>7, <2>1, <2>2 DEF Noticed
  <2> QED BY <1>2, <1>7, <2>1, <2>3 DEF Noticed
<1> QED BY <1>3, <1>6, <1>7

\* There is a free descriptor for one more client.
LEMMA FreeNumber ==
    ASSUME Talk!ChatAssumption, NEW h \in Client, h \notin Talk!Open
    PROVE  LET used == {fd[d] : d \in Talk!Open}
           IN  \E n \in 1..Talk!Cardinality(Client) : n \notin used /\ \A k \in 1..(n - 1) : k \in used
<1> USE ChatConstants
<1> DEFINE used == {fd[d] : d \in Talk!Open}
           N == Cardinality(Client)
           T == (1..N) \ used
<1>1. Talk!Cardinality(Client) = N
  BY DEF Talk!Cardinality, Cardinality
<1>2. N \in Nat
  BY FS_CardinalityType
<1>3. IsFiniteSet(Client \ {h}) /\ Cardinality(Client \ {h}) = N - 1
  BY FS_RemoveElement
<1>4. IsFiniteSet(Talk!Open) /\ Cardinality(Talk!Open) <= N - 1
  <2>1. Talk!Open \in SUBSET (Client \ {h})
    BY DEF Talk!Open
  <2> QED BY <1>3, <2>1, FS_Subset
<1>5. IsFiniteSet(used) /\ Cardinality(used) <= Cardinality(Talk!Open)
  <2> DEFINE g == [d \in Talk!Open |-> fd[d]]
  <2>1. g \in Surjection(Talk!Open, used)
    BY DEF Surjection
  <2> QED BY <1>4, <2>1, FS_Surjection
<1> HIDE DEF used, N
<1>6. ASSUME 1..N \subseteq used PROVE FALSE
  <2>1. Cardinality(1..N) <= Cardinality(used) /\ Cardinality(1..N) = N
    BY <1>2, <1>5, <1>6, FS_Subset, FS_Interval
  <2>2. Cardinality(used) \in Nat /\ Cardinality(Talk!Open) \in Nat
    BY <1>4, <1>5, FS_CardinalityType
  <2> QED BY <1>2, <1>4, <1>5, <2>1, <2>2
<1>7. T \in SUBSET Nat /\ T # {}
  BY <1>2, <1>6
<1>8. PICK n \in T : \A k \in T : n <= k
  BY <1>7, LeastOne
<1>9. n \in 1..N /\ n \notin used /\ \A k \in 1..(n - 1) : k \in used
  <2>1. n \in 1..N /\ n \notin used
    BY <1>8
  <2>2. ASSUME NEW k \in 1..(n - 1) PROVE k \in used
    <3>1. k \in 1..N /\ ~(n <= k)
      BY <1>2, <2>1
    <3> QED BY <1>8, <3>1
  <2> QED BY <2>1, <2>2
<1> QED BY <1>1, <1>9 DEF used

LEMMA AcceptsKept ==
    ASSUME Talk!ChatAssumption, ChatInv, NEW h \in Client, Talk!Accept(h)
    PROVE  ChatInv'
<1> USE ChatConstants
<1>1. /\ server = "runs" /\ batch # <<>> /\ Head(batch) = "accept" /\ batch' = Tail(batch)
      /\ client[h] = "backlog" /\ client' = [client EXCEPT ![h] = "open"]
      /\ watched' = watched \cup {h} /\ latest' = h /\ joined' = [joined EXCEPT ![h] = Len(log)]
      /\ UNCHANGED <<version, server, peer, edge, sent, said, log, down, told>>
  BY DEF Talk!Accept, Talk!Event, Talk!Backlog
<1>2. ChatTypes /\ Accepts /\ BatchKnown /\ \A c \in Client : Noticed(c) /\ Unmet(c) /\ HeardSaid(c)
  BY <1>1 DEF ChatInv
<1>3. fd' \in [Client -> Nat]
  <2> DEFINE used == {fd[d] : d \in Talk!Open}
             Free(n) == n \notin used /\ \A k \in 1..(n - 1) : k \in used
  <2>1. fd' = [fd EXCEPT ![h] = CHOOSE n \in 1..Talk!Cardinality(Client) : Free(n)]
    BY DEF Talk!Accept
  <2>2. \E n \in 1..Talk!Cardinality(Client) : Free(n)
    BY <1>1, FreeNumber DEF Talk!Open
  <2> HIDE DEF Free
  <2>3. (CHOOSE n \in 1..Talk!Cardinality(Client) : Free(n)) \in 1..Talk!Cardinality(Client)
    BY <2>2
  <2>4. Talk!Cardinality(Client) \in Nat
    <3>1. Talk!Cardinality(Client) = Cardinality(Client)
      BY DEF Talk!Cardinality, Cardinality
    <3> QED BY <3>1, FS_CardinalityType
  <2>5. (CHOOSE n \in 1..Talk!Cardinality(Client) : Free(n)) \in Nat
    BY <2>3, <2>4
  <2> QED BY <1>2, <2>1, <2>5 DEF ChatTypes
<1>4. /\ client' \in [Client -> {"away", "backlog", "open", "closed"}]
      /\ \A c \in Client : client'[c] = IF c = h THEN "open" ELSE client[c]
  BY <1>1, <1>2 DEF ChatTypes
<1>5. log \in Seq(Item) /\ Len(log) \in Nat
  BY <1>2 DEF ChatTypes
<1>6. /\ joined' \in [Client -> Nat]
      /\ \A c \in Client : joined'[c] = IF c = h THEN Len(log) ELSE joined[c]
  BY <1>1, <1>2, <1>5 DEF ChatTypes
<1>7. BatchKnown' /\ batch' \in Seq(Spot)
  BY <1>1, <1>2, <1>4, BatchStays
<1>8. ChatTypes'
  BY <1>1, <1>2, <1>3, <1>4, <1>6, <1>7 DEF ChatTypes, VersionIsAsListed
<1>9. \A c \in Client : Unmet(c)'
  BY <1>1, <1>2, <1>4 DEF Unmet
<1>10. \A c \in Client : HeardSaid(c)'
  BY <1>1, <1>2, <1>5, <1>6 DEF HeardSaid
<1>11. \A c : Talk!Minds(c)' <=> version.room \/ c = h
  BY <1>1 DEF Talk!Minds
<1> DEFINE t == Tail(batch)
<1>12. /\ batch[1] = "accept" /\ 1 \in DOMAIN batch
       /\ \A i \in DOMAIN t : i + 1 \in DOMAIN batch /\ t[i] = batch[i + 1] /\ i + 1 # 1
       /\ \A i \in DOMAIN batch : i = 1 \/ \E j \in DOMAIN t : t[j] = batch[i]
  BY <1>1, <1>2, BatchTail
<1>18. batch = <<"accept">> => DOMAIN t = {}
  OBVIOUS
<1>13. batch' = t /\ (batch = <<"accept">> => DOMAIN t = {})
  BY <1>1, <1>18
<1> HIDE DEF t
<1>14. Accepts'
  BY <1>1, <1>2, <1>12, <1>13 DEF Accepts
<1>15. ASSUME NEW c \in Client PROVE Noticed(c)'
  <2>1. Talk!Unread(c)' = Talk!Unread(c) /\ (News(c)' <=> News(c))
    BY <1>1, HeardKept DEF Talk!Unread, News
  <2>2. (c \in Talk!Open' <=> c \in Talk!Open \/ c = h) /\ (c \in Talk!Backlog' => c \in Talk!Backlog)
    BY <1>4 DEF Talk!Open, Talk!Backlog
  <2>3. c \in Talk!Open' \ watched' => version'.bye = "forgets" /\ Talk!Unread(c)' = 0 /\ peer'[c] # "here"
    BY <1>1, <1>2, <2>1, <2>2 DEF Noticed
  <2>4. ASSUME version'.error = "drained", News(c)'
        PROVE  /\ c \in Talk!Backlog' => c \in edge'
               /\ c \in Talk!Open' /\ Talk!Minds(c)' => c \in edge'
    <3>1. c \in Talk!Backlog => c \in edge
      BY <1>1, <1>2, <2>1, <2>4 DEF Noticed
    <3>2. ~version.room
      BY <1>1, <1>2, <2>4 DEF ChatTypes, VersionIsAsListed
    <3>3. h \in Talk!Backlog
      BY <1>1 DEF Talk!Backlog
    <3> QED BY <1>1, <1>11, <2>2, <3>1, <3>2, <3>3
  <2> QED BY <2>3, <2>4 DEF Noticed
<1>16. Follows(h)'
  <2>1. told'[h] = <<>> /\ down'[h] = <<>>
    BY <1>1, <1>2 DEF Unmet
  <2>2. Talk!Due(h)' = DueOf(h, version'.room, log', joined'[h], Len(log'))
    BY DEF Talk!Due, DueOf, DueStates, Talk!Concerns, Mine
  <2>3. Talk!Due(h)' = <<>>
    BY <1>1, <1>5, <1>6, <2>2, DueStarts
  <2>4. told'[h] \o down'[h] = <<>>
    BY <2>1
  <2> QED BY <1>11, <2>3, <2>4 DEF Follows
<1>17. ASSUME NEW c \in Client, c # h PROVE Follows(c)'
  <2>1. Follows(c)
    BY DEF ChatInv
  <2>2. (c \in Talk!Open' <=> c \in Talk!Open) /\ (Talk!Minds(c)' => Talk!Minds(c))
    BY <1>4, <1>11, <1>17 DEF Talk!Open, Talk!Minds
  <2>3. Talk!Due(c)' = Talk!Due(c)
    <3>1. Talk!Due(c)' = DueOf(c, version'.room, log', joined'[c], Len(log'))
      BY DEF Talk!Due, DueOf, DueStates, Talk!Concerns, Mine
    <3> QED BY <1>1, <1>6, <1>17, <3>1, DueIs
  <2>4. SUFFICES ASSUME c \in Talk!Open, peer[c] = "here"
                 PROVE  /\ Talk!Minds(c)' => told[c] \o down[c] = Talk!Due(c)
                        /\ Talk!IsPrefix(told[c] \o down[c], Talk!Due(c))
    BY <1>1, <2>2, <2>3 DEF Follows, Talk!IsPrefix
  <2>5. IF Talk!Minds(c) THEN told[c] \o down[c] = Talk!Due(c) ELSE Talk!IsPrefix(told[c] \o down[c], Talk!Due(c))
    BY <1>1, <2>1, <2>4 DEF Follows
  <2>6. Talk!Due(c) \in Seq(Item)
    <3>1. joined[c] \in Nat /\ joined[c] <= Len(log)
      BY <1>2 DEF ChatTypes, HeardSaid
    <3> QED BY <1>5, <3>1, DueIs, DueType
  <2>7. Talk!IsPrefix(Talk!Due(c), Talk!Due(c))
    <3>1. PICK s \in Seq(Item) : s = Talk!Due(c)
      BY <2>6
    <3>2. s = <<>> \/ Len(s) \in Nat
      OBVIOUS
    <3>3. Talk!IsPrefix(s, s)
      BY DEF Talk!IsPrefix
    <3> QED BY <3>1, <3>3
  <2> QED BY <2>2, <2>5, <2>7
<1> QED BY <1>7, <1>8, <1>9, <1>10, <1>14, <1>15, <1>16, <1>17 DEF ChatInv

LEMMA EndKept ==
    ASSUME ChatInv, Talk!End
    PROVE  ChatInv'
<1>1. /\ batch # <<>> /\ batch' = Tail(batch) /\ server' = "ended" /\ said' = said + 1
      /\ UNCHANGED <<version, client, fd, watched, latest, joined, peer, edge, sent, log, down, told>>
  BY DEF Talk!End, Talk!Event, Talk!conns
<1>2. ChatTypes /\ BatchKnown
  BY DEF ChatInv
<1>3. BatchKnown' /\ batch' \in Seq(Spot)
  BY <1>1, <1>2, BatchStays
<1>4. said' \in Nat
  BY <1>1, <1>2 DEF ChatTypes
<1>5. ChatTypes'
  BY <1>1, <1>2, <1>3, <1>4 DEF ChatTypes, VersionIsAsListed
<1>6. \A c \in Client : Unmet(c)' /\ HeardSaid(c)'
  BY <1>1 DEF ChatInv, Unmet, HeardSaid
<1>7. server' # "runs"
  BY <1>1
<1>8. \A c \in Client : Follows(c)'
  BY <1>7 DEF Follows
<1> QED BY <1>3, <1>5, <1>6, <1>7, <1>8 DEF ChatInv

LEMMA IgnoresKept ==
    ASSUME ChatInv, NEW h \in Client, Talk!Ignore(h)
    PROVE  ChatInv'
<1>1. /\ server = "runs" /\ batch # <<>> /\ Head(batch) = h /\ batch' = Tail(batch) /\ ~Talk!Minds(h)
      /\ UNCHANGED <<version, server, client, fd, watched, latest, joined, peer, edge, sent, said, log, down, told>>
  BY DEF Talk!Ignore, Talk!Event, Talk!conns
<1>2. ChatTypes /\ BatchKnown
  BY DEF ChatInv
<1>3. BatchKnown' /\ batch' \in Seq(Spot)
  BY <1>1, <1>2, BatchStays
<1>4. ChatTypes'
  BY <1>1, <1>2, <1>3 DEF ChatTypes, VersionIsAsListed
<1>5. \A c \in Client : Unmet(c)' /\ HeardSaid(c)'
  BY <1>1 DEF ChatInv, Unmet, HeardSaid
<1>6. \A c \in Client : Follows(c)'
  BY <1>1, FollowsStays DEF ChatInv
<1>7. Accepts' /\ \A c \in Client : Noticed(c)'
  BY <1>1, PassesOn
<1> QED BY <1>3, <1>4, <1>5, <1>6, <1>7 DEF ChatInv

LEMMA ErrorsKept ==
    ASSUME ChatInv, NEW h \in Client, Talk!Error(h)
    PROVE  ChatInv'
<1>1. /\ server = "runs" /\ batch # <<>> /\ Head(batch) = h /\ batch' = Tail(batch)
      /\ Talk!Unread(h) = 0 /\ peer[h] \in {"here", "reset"} /\ server' \in {"ended", "runs"}
      /\ peer' = [peer EXCEPT ![h] = IF peer[h] = "reset" THEN "broken" ELSE peer[h]]
      /\ UNCHANGED <<version, client, fd, watched, latest, joined, edge, sent, said, log, down, told>>
  BY DEF Talk!Error, Talk!Event, Talk!conns
<1>2. ChatTypes /\ BatchKnown
  BY DEF ChatInv
<1>3. BatchKnown' /\ batch' \in Seq(Spot)
  BY <1>1, <1>2, BatchStays
<1>4. \A c \in Client : peer'[c] = IF c = h /\ peer[h] = "reset" THEN "broken" ELSE peer[c]
  BY <1>1, <1>2 DEF ChatTypes
<1>5. peer' \in [Client -> {"here", "closed", "reset", "broken"}]
  BY <1>1, <1>2 DEF ChatTypes
<1>6. ChatTypes'
  BY <1>1, <1>2, <1>3, <1>5 DEF ChatTypes, VersionIsAsListed
<1>7. \A c \in Client : Unmet(c)'
  BY <1>1, <1>4 DEF ChatInv, Unmet
<1>8. \A c \in Client : HeardSaid(c)'
  BY <1>1 DEF ChatInv, HeardSaid
<1>9. \A c \in Client : Follows(c)'
  <2>1. \A c \in Client : peer'[c] = "here" => peer[c] = "here"
    BY <1>4
  <2> QED BY <1>1, <2>1, FollowsStays DEF ChatInv
<1>10. Accepts' /\ \A c \in Client : Noticed(c)'
  <2>1. \A c \in Client : peer'[c] = peer[c] \/ (peer[c] # "here" /\ peer'[c] = "broken")
    BY <1>4
  <2>2. ~News(h)' \/ peer'[h] = "broken"
    <3>1. Talk!Unread(h)' = 0
      BY <1>1, HeardKept DEF Talk!Unread
    <3> QED BY <1>1, <1>4, <3>1 DEF News
  <2> QED BY <1>1, <2>1, <2>2, PassesOn
<1> QED BY <1>3, <1>6, <1>7, <1>8, <1>9, <1>10 DEF ChatInv
-----------------------------------------------------------------------------
\* The steps that say something.

LEMMA UnmetSent ==
    ASSUME ChatTypes, NEW S, NEW e \in Item, Talk!SendAll(S, e), NEW c \in Client, Unmet(c),
           c \in S => client[c] = "open", UNCHANGED <<told, sent>>,
           client'[c] = client[c] \/ client'[c] \in {"open", "closed"},
           client[c] \in {"away", "backlog"} => e[1] # c
    PROVE  Unmet(c)'
<1>1. /\ log' = Append(log, e) /\ (peer'[c] = "here" <=> peer[c] = "here")
      /\ c \notin S => down'[c] = down[c]
  BY SendAllGives
<1>2. SUFFICES ASSUME client'[c] \in {"away", "backlog"} PROVE Unmet(c)'
  BY DEF Unmet
<1>3. client[c] = client'[c] /\ c \notin S /\ e[1] # c
  BY <1>2
<1>4. log \in Seq(Item)
  BY DEF ChatTypes
<1>5. \A i \in DOMAIN log' : log'[i] = e \/ (i \in DOMAIN log /\ log'[i] = log[i])
  BY <1>1, <1>4
<1> QED BY <1>1, <1>2, <1>3, <1>5 DEF Unmet

LEMMA HeardSaidSent ==
    ASSUME ChatTypes, NEW S, NEW e \in Item, Talk!SendAll(S, e), NEW c \in Client, HeardSaid(c),
           UNCHANGED <<joined, sent>>, e[1] = c => e[4] <= sent[c]
    PROVE  HeardSaid(c)'
<1>1. log' = Append(log, e)
  BY SendAllGives
<1>2. log \in Seq(Item) /\ joined[c] \in Nat
  BY DEF ChatTypes
<1>3. /\ Len(log') = Len(log) + 1 /\ Len(log) \in Nat
      /\ \A i \in DOMAIN log' : log'[i] = e \/ (i \in DOMAIN log /\ log'[i] = log[i])
  BY <1>1, <1>2
<1>4. joined'[c] <= Len(log')
  BY <1>2, <1>3 DEF HeardSaid
<1> QED BY <1>3, <1>4 DEF HeardSaid

LEMMA FollowsSent ==
    ASSUME ChatTypes, server = "runs", NEW S, NEW e \in Item, Talk!SendAll(S, e), NEW c \in Client,
           Follows(c), HeardSaid(c), UNCHANGED <<version, latest, joined, told>>,
           client'[c] = "open" => client[c] = "open",
           client[c] = "open" => IF Talk!Minds(c) THEN c \in S <=> Mine(c, version.room, e) ELSE c \notin S
    PROVE  Follows(c)'
<1>1. /\ log' = Append(log, e) /\ (peer'[c] = "here" <=> peer[c] = "here")
      /\ c \notin S => down'[c] = down[c]
      /\ server' = "runs" /\ c \in S /\ peer[c] = "here" => down'[c] = Append(down[c], e)
  BY SendAllGives
<1>2. log \in Seq(Item) /\ joined[c] \in Nat /\ told[c] \in Seq(Item) /\ down[c] \in Seq(Item)
  BY DEF ChatTypes
<1>3. joined[c] <= Len(log)
  BY DEF HeardSaid
<1> DEFINE due == DueOf(c, version.room, log, joined[c], Len(log))
           m == Mine(c, version.room, e)
<1>4. Talk!Due(c) = due /\ due \in Seq(Item)
  BY <1>2, <1>3, DueIs, DueType
<1>5. Talk!Due(c)' = IF m THEN Append(due, e) ELSE due
  <2>1. Talk!Due(c)' = DueOf(c, version'.room, log', joined'[c], Len(log'))
    BY DEF Talk!Due, DueOf, DueStates, Talk!Concerns, Mine
  <2>2. Len(log') = Len(log) + 1
    BY <1>1, <1>2
  <2>3. DueOf(c, version.room, Append(log, e), joined[c], Len(log) + 1)
          = IF Mine(c, version.room, e) THEN Append(due, e) ELSE due
    BY <1>2, <1>3, DueGrows
  <2>4. version' = version /\ joined' = joined
    OBVIOUS
  <2> QED BY <1>1, <2>1, <2>2, <2>3, <2>4
<1>6. Talk!Minds(c)' <=> Talk!Minds(c)
  BY DEF Talk!Minds
<1>7. SUFFICES ASSUME c \in Talk!Open', peer'[c] = "here", server' = "runs"
               PROVE  IF Talk!Minds(c) THEN told[c] \o down'[c] = Talk!Due(c)'
                      ELSE Talk!IsPrefix(told[c] \o down'[c], Talk!Due(c)')
  BY <1>6 DEF Follows, Talk!IsPrefix
<1>8. client[c] = "open" /\ c \in Talk!Open /\ peer[c] = "here"
  BY <1>1, <1>7 DEF Talk!Open
<1>9. IF Talk!Minds(c) THEN told[c] \o down[c] = due ELSE Talk!IsPrefix(told[c] \o down[c], due)
  BY <1>4, <1>8 DEF Follows
<1>10. PICK s \in Seq(Item), t \in Seq(Item), u \in Seq(Item) : s = told[c] /\ t = down[c] /\ u = due
  BY <1>2, <1>4
<1> HIDE DEF due, m
<1>11. CASE Talk!Minds(c)
  <2>1. c \in S <=> m
    BY <1>8, <1>11 DEF m
  <2>2. CASE m
    <3>1. down'[c] = Append(t, e)
      BY <1>1, <1>7, <1>8, <1>10, <2>1, <2>2
    <3>2. s \o Append(t, e) = Append(s \o t, e)
      BY TalkGrows
    <3>3. s \o t = u
      BY <1>9, <1>10, <1>11
    <3>4. told[c] \o down'[c] = Append(due, e)
      BY <1>10, <3>1, <3>2, <3>3
    <3> QED BY <1>5, <1>11, <2>2, <3>4
  <2>3. CASE ~m
    BY <1>1, <1>5, <1>9, <1>11, <2>1, <2>3
  <2> QED BY <2>2, <2>3
<1>12. CASE ~Talk!Minds(c)
  <2>1. down'[c] = down[c]
    BY <1>1, <1>8, <1>12
  <2>2. Talk!IsPrefix(s \o t, u)
    BY <1>9, <1>10, <1>12
  <2>3. s \o t \in Seq(Item)
    BY TalkIsRead
  <2>4. Talk!IsPrefix(s \o t, Append(u, e))
    BY <2>2, <2>3, PrefixGrows
  <2>5. Talk!IsPrefix(told[c] \o down'[c], Append(due, e)) /\ Talk!IsPrefix(told[c] \o down'[c], due)
    BY <1>10, <2>1, <2>2, <2>4
  <2>6. Talk!Due(c)' = Append(due, e) \/ Talk!Due(c)' = due
    BY <1>5
  <2> QED BY <1>12, <2>5, <2>6
<1> QED BY <1>11, <1>12

\* What SendAll() leaves noticed: who is not heard now, and is not what was taken from the batch.
LEMMA NoticedSent ==
    ASSUME ChatTypes, Accepts, NEW S, NEW e \in Item, Talk!SendAll(S, e), NEW h, batch # <<>>,
           Head(batch) = h, batch' = batch \/ batch' = Tail(batch), NEW c \in Client, c # h,
           e[1] # c, Noticed(c), UNCHANGED <<version, client, watched, latest, edge, sent>>
    PROVE  Noticed(c)'
<1>1. log' = Append(log, e) /\ (peer'[c] = "here" <=> peer[c] = "here")
      /\ (peer'[c] # peer[c] => peer'[c] = "broken")
  BY SendAllGives
<1>2. Talk!Heard(c)' = Talk!Heard(c)
  BY <1>1, HeardStays
<1>3. Talk!Minds(c)' <=> Talk!Minds(c)
  BY DEF Talk!Minds
<1>4. peer'[c] = peer[c] \/ (peer[c] # "here" /\ peer'[c] = "broken")
  BY <1>1
<1> DEFINE t == Tail(batch)
<1>5. batch[1] = h /\ \A i \in DOMAIN batch : i = 1 \/ \E j \in DOMAIN t : t[j] = batch[i]
  BY BatchTail
<1>6. batch' = batch \/ batch' = t
  OBVIOUS
<1> HIDE DEF t
<1>7. (\E i \in DOMAIN batch : batch[i] = c) => \E i \in DOMAIN batch' : batch'[i] = c
  BY <1>5, <1>6
<1> QED BY <1>2, <1>3, <1>4, <1>7, NoticedStays

LEMMA SayKept ==
    ASSUME Talk!ChatAssumption, ChatInv, Talk!Say
    PROVE  ChatInv'
<1> USE ChatConstants
<1> DEFINE S == IF version.room THEN Talk!Open ELSE Talk!Open \cap {latest}
           e == <<NULL, "says", said + 1, said + 1>>
<1>1. /\ server = "runs" /\ batch # <<>> /\ Head(batch) = "type" /\ batch' = Tail(batch)
      /\ said' = said + 1 /\ Talk!SendAll(S, e)
      /\ UNCHANGED <<version, client, fd, watched, latest, joined, edge, sent, told>>
  BY DEF Talk!Say, Talk!Event, Talk!conns
<1>2. ChatTypes /\ BatchKnown /\ Accepts /\ \A c \in Client : Noticed(c) /\ Unmet(c) /\ HeardSaid(c) /\ Follows(c)
  BY <1>1 DEF ChatInv
<1>3. said' \in Nat /\ e \in Item /\ e[1] = NULL
  <2>1. said \in Nat
    BY <1>2 DEF ChatTypes
  <2> QED BY <1>1, <2>1 DEF Item
<1>4. /\ S \subseteq Talk!Open
      /\ \A c \in Client : client[c] = "open" => IF Talk!Minds(c) THEN c \in S ELSE c \notin S
  BY DEF Talk!Open, Talk!Minds
<1> HIDE DEF S, e
<1>5. /\ log' \in Seq(Item) /\ down' \in [Client -> Seq(Item)]
      /\ peer' \in [Client -> {"here", "closed", "reset", "broken"}] /\ server' \in {"runs", "ended", "killed"}
  BY <1>1, <1>2, <1>3, SendAllGives
<1>6. BatchKnown' /\ batch' \in Seq(Spot)
  BY <1>1, <1>2, BatchStays
<1>7. ChatTypes'
  BY <1>1, <1>2, <1>3, <1>5, <1>6 DEF ChatTypes, VersionIsAsListed
<1>8. ASSUME NEW c \in Client PROVE Unmet(c)'
  <2>1. c \in S => client[c] = "open"
    BY <1>4 DEF Talk!Open
  <2>2. e[1] # c
    BY <1>3
  <2> QED BY <1>1, <1>2, <1>3, <2>1, <2>2, UnmetSent
<1>9. ASSUME NEW c \in Client PROVE HeardSaid(c)'
  BY <1>1, <1>2, <1>3, HeardSaidSent
<1>10. ASSUME NEW c \in Client PROVE Follows(c)'
  <2>1. Mine(c, version.room, e)
    BY <1>3 DEF Mine
  <2> QED BY <1>1, <1>2, <1>3, <1>4, <2>1, FollowsSent
<1>11. Accepts'
  <2>1. Talk!Backlog \subseteq Talk!Backlog'
    BY <1>1 DEF Talk!Backlog
  <2> QED BY <1>1, <1>2, <2>1, AcceptsStays
<1>12. ASSUME NEW c \in Client PROVE Noticed(c)'
  <2>1. c # "type" /\ e[1] # c
    BY <1>3
  <2> QED BY <1>1, <1>2, <1>3, <2>1, NoticedSent
<1> QED BY <1>6, <1>7, <1>8, <1>9, <1>10, <1>11, <1>12 DEF ChatInv

LEMMA HearsKept ==
    ASSUME Talk!ChatAssumption, ChatInv, NEW h \in Client, Talk!Hear(h)
    PROVE  ChatInv'
<1> USE ChatConstants
<1> DEFINE S == IF version.room THEN Talk!Open \ {h} ELSE {}
           name == IF version.room /\ Talk!Heard(h) = 0 THEN "enters" ELSE "says"
<1>1. /\ server = "runs" /\ batch # <<>> /\ Head(batch) = h /\ Talk!Minds(h)
      /\ batch' = IF version.error = "drained" THEN batch ELSE Tail(batch)
      /\ UNCHANGED <<version, client, fd, watched, latest, joined, edge, sent, said, told>>
  BY DEF Talk!Hear, Talk!conns
<1>2. PICK n \in 1..Talk!Unread(h) : Talk!SendAll(S, <<h, name, Talk!Heard(h) + 1, Talk!Heard(h) + n>>)
  BY DEF Talk!Hear
<1> DEFINE e == <<h, name, Talk!Heard(h) + 1, Talk!Heard(h) + n>>
<1>3. ChatTypes /\ BatchKnown /\ Accepts /\ \A c \in Client : Noticed(c) /\ Unmet(c) /\ HeardSaid(c) /\ Follows(c)
  BY <1>1 DEF ChatInv
<1>4. /\ Talk!Heard(h) \in Nat /\ Talk!Unread(h) \in Nat /\ sent[h] \in Nat
      /\ Talk!Unread(h) = sent[h] - Talk!Heard(h)
  BY <1>3, HeardIs DEF Talk!Unread, ChatTypes
<1>5. /\ Talk!Heard(h) + n \in Nat /\ Talk!Heard(h) + 1 \in Nat /\ Talk!Heard(h) + n <= sent[h]
      /\ Talk!Unread(h) # 0
  BY <1>4
<1>6. e \in Item /\ e[1] = h /\ e[4] <= sent[h]
  BY <1>5 DEF Item
<1>7. /\ S \subseteq Talk!Open
      /\ \A c \in Client : client[c] = "open" => (c \in S <=> version.room /\ c # h)
      /\ version.room => \A c : Talk!Minds(c)
  BY DEF Talk!Open, Talk!Minds
<1>8. Talk!SendAll(S, e)
  BY <1>2
<1> HIDE DEF S, e
<1>9. /\ log' \in Seq(Item) /\ down' \in [Client -> Seq(Item)]
      /\ peer' \in [Client -> {"here", "closed", "reset", "broken"}] /\ server' \in {"runs", "ended", "killed"}
  BY <1>8, <1>3, <1>6, SendAllGives
<1>10. batch' = batch \/ batch' = Tail(batch)
  BY <1>1
<1>11. BatchKnown' /\ batch' \in Seq(Spot)
  BY <1>1, <1>3, <1>10, BatchStays
<1>12. ChatTypes'
  BY <1>1, <1>3, <1>9, <1>11 DEF ChatTypes, VersionIsAsListed
<1>13. client[h] \in {"open", "closed"}
  <2>1. batch[1] = h /\ 1 \in DOMAIN batch
    BY <1>1, <1>3, BatchTail
  <2> QED BY <1>3, <2>1 DEF BatchKnown
<1>14. ASSUME NEW c \in Client PROVE Unmet(c)'
  <2>1. c \in S => client[c] = "open"
    BY <1>7 DEF Talk!Open
  <2>2. client[c] \in {"away", "backlog"} => e[1] # c
    BY <1>6, <1>13
  <2> QED BY <1>1, <1>3, <1>6, <1>8, <2>1, <2>2, UnmetSent
<1>15. ASSUME NEW c \in Client PROVE HeardSaid(c)'
  BY <1>1, <1>3, <1>6, <1>8, HeardSaidSent
<1>16. ASSUME NEW c \in Client PROVE Follows(c)'
  <2>1. Mine(c, version.room, e) <=> version.room /\ c # h
    BY <1>6 DEF Mine
  <2>2. client[c] = "open" => IF Talk!Minds(c) THEN c \in S <=> Mine(c, version.room, e) ELSE c \notin S
    BY <1>7, <2>1
  <2> QED BY <1>1, <1>3, <1>6, <1>8, <2>2, FollowsSent
<1>17. Accepts'
  <2>1. Talk!Backlog \subseteq Talk!Backlog'
    BY <1>1 DEF Talk!Backlog
  <2> QED BY <1>1, <1>3, <1>10, <2>1, AcceptsStays
<1>18. ASSUME NEW c \in Client, c # h PROVE Noticed(c)'
  BY <1>1, <1>3, <1>6, <1>8, <1>10, <1>18, NoticedSent
<1>19. Noticed(h)'
  <2>1. h \notin Talk!Backlog' /\ (h \in Talk!Open' <=> h \in Talk!Open)
    BY <1>1, <1>13 DEF Talk!Backlog, Talk!Open
  <2>2. ~(h \in Talk!Open' \ watched')
    BY <1>1, <1>3, <1>5, <2>1 DEF Noticed
  <2>3. version'.error = "drained" => \E i \in DOMAIN batch' : batch'[i] = h
    <3>1. batch[1] = h /\ 1 \in DOMAIN batch
      BY <1>1, <1>3, BatchTail
    <3> QED BY <1>1, <3>1
  <2> QED BY <2>1, <2>2, <2>3 DEF Noticed
<1> QED BY <1>11, <1>12, <1>14, <1>15, <1>16, <1>17, <1>18, <1>19 DEF ChatInv

LEMMA ByesKept ==
    ASSUME Talk!ChatAssumption, ChatInv, NEW h \in Client, Talk!Bye(h)
    PROVE  ChatInv'
<1> USE ChatConstants
<1> DEFINE S == Talk!Open \ {h}
           e == <<h, "leaves", sent[h], sent[h]>>
<1>1. /\ server = "runs" /\ batch # <<>> /\ Head(batch) = h /\ Talk!Minds(h)
      /\ Talk!Unread(h) = 0 /\ peer[h] \in {"closed", "broken"}
      /\ batch' = <<>> \/ batch' = Tail(batch)
      /\ watched' = watched \ {h}
      /\ client' = [client EXCEPT ![h] = IF version.bye = "forgets" THEN "open" ELSE "closed"]
      /\ UNCHANGED <<version, fd, latest, joined, edge, sent, said, told>>
  BY DEF Talk!Bye
<1>2. \/ server' = "ended" /\ version.bye = "ends" /\ UNCHANGED <<log, down, peer>>
      \/ version.bye # "ends" /\ version.room /\ Talk!SendAll(S, e)
      \/ version.bye # "ends" /\ ~version.room /\ UNCHANGED <<server, log, down, peer>>
  BY DEF Talk!Bye
<1>3. ChatTypes /\ BatchKnown /\ Accepts /\ \A c \in Client : Noticed(c) /\ Unmet(c) /\ HeardSaid(c) /\ Follows(c)
  BY <1>1 DEF ChatInv
<1>4. e \in Item /\ e[1] = h /\ e[4] <= sent[h]
  <2>1. sent[h] \in Nat
    BY <1>3 DEF ChatTypes
  <2> QED BY <2>1 DEF Item
<1>5. \A c \in Client : c \in S => client[c] = "open" /\ c # h
  BY DEF Talk!Open
<1>6. \A c \in Client : client[c] = "open" /\ c # h => c \in S
  BY DEF Talk!Open
<1> HIDE DEF S, e
<1>7. /\ client' \in [Client -> {"away", "backlog", "open", "closed"}]
      /\ \A c \in Client : client'[c] = IF c = h THEN IF version.bye = "forgets" THEN "open" ELSE "closed"
                                        ELSE client[c]
  BY <1>1, <1>3 DEF ChatTypes
<1>8. client[h] \in {"open", "closed"}
  <2>1. batch[1] = h /\ 1 \in DOMAIN batch
    BY <1>1, <1>3, BatchTail
  <2> QED BY <1>3, <2>1 DEF BatchKnown
<1>9. watched' = watched \ {h} /\ BatchKnown' /\ batch' \in Seq(Spot)
  BY <1>1, <1>3, <1>7, <1>8, BatchStays
<1>10. /\ log' \in Seq(Item) /\ down' \in [Client -> Seq(Item)]
       /\ peer' \in [Client -> {"here", "closed", "reset", "broken"}] /\ server' \in {"runs", "ended", "killed"}
  <2>1. CASE Talk!SendAll(S, e)
    BY <1>3, <1>4, <2>1, SendAllGives
  <2>2. CASE UNCHANGED <<log, down, peer>> /\ server' \in {server, "ended"}
    BY <1>3, <2>2 DEF ChatTypes
  <2> QED BY <1>2, <2>1, <2>2
<1>11. ChatTypes'
  BY <1>1, <1>3, <1>7, <1>9, <1>10 DEF ChatTypes, VersionIsAsListed
<1>12. ASSUME NEW c \in Client
       PROVE  /\ peer'[c] = "here" <=> peer[c] = "here"
              /\ c # h => Talk!Heard(c)' = Talk!Heard(c)
  <2>1. CASE Talk!SendAll(S, e)
    BY <1>3, <1>4, <2>1, SendAllGives, HeardStays
  <2>2. CASE UNCHANGED <<log, peer>>
    BY <2>2, HeardKept
  <2> QED BY <1>2, <2>1, <2>2
<1>13. ASSUME NEW c \in Client PROVE Unmet(c)' /\ HeardSaid(c)'
  <2>1. CASE Talk!SendAll(S, e)
    <3>1. c \in S => client[c] = "open"
      BY <1>5
    <3>2. client[c] \in {"away", "backlog"} => e[1] # c
      BY <1>4, <1>8
    <3>3. client'[c] = client[c] \/ client'[c] \in {"open", "closed"}
      BY <1>7
    <3>4. Unmet(c)'
      BY <1>1, <1>3, <1>4, <2>1, <3>1, <3>2, <3>3, UnmetSent
    <3>5. HeardSaid(c)'
      BY <1>1, <1>3, <1>4, <2>1, HeardSaidSent
    <3> QED BY <3>4, <3>5
  <2>2. CASE UNCHANGED <<log, down, peer>>
    <3>1. client'[c] = client[c] \/ client'[c] \in {"open", "closed"}
      BY <1>7
    <3>2. Unmet(c)'
      BY <1>1, <1>3, <2>2, <3>1, UnmetStays
    <3> QED BY <1>1, <1>3, <2>2, <3>2 DEF HeardSaid
  <2> QED BY <1>2, <2>1, <2>2
<1>14. Follows(h)'
  BY <1>1, <1>12 DEF Follows
<1>15. ASSUME NEW c \in Client, c # h PROVE Follows(c)'
  <2>1. client'[c] = client[c]
    BY <1>7, <1>15
  <2>2. CASE version.room /\ Talk!SendAll(S, e)
    <3>1. Mine(c, version.room, e) /\ Talk!Minds(c)
      BY <1>4, <1>15, <2>2 DEF Mine, Talk!Minds
    <3>2. client[c] = "open" => c \in S
      BY <1>6, <1>15
    <3> QED BY <1>1, <1>3, <1>4, <2>1, <2>2, <3>1, <3>2, FollowsSent
  <2>3. CASE UNCHANGED <<log, down, peer>>
    BY <1>1, <1>3, <2>1, <2>3, FollowsStays
  <2> QED BY <1>2, <2>2, <2>3
<1>16. ASSUME server' = "runs" PROVE Accepts' /\ \A c \in Client : Noticed(c)'
  <2>1. version.bye # "ends"
    BY <1>2, <1>16
  <2>2. version.error # "drained" /\ (version.bye = "forgets" => ~version.room)
    BY <1>3, <2>1 DEF ChatTypes, VersionIsAsListed
  <2>3. Talk!Backlog \subseteq Talk!Backlog'
    BY <1>7, <1>8 DEF Talk!Backlog
  <2>4. Accepts'
    BY <1>1, <1>3, <2>3, AcceptsStays
  <2>5. ASSUME NEW c \in Client, c # h PROVE Noticed(c)'
    <3>1. (c \in Talk!Open' <=> c \in Talk!Open) /\ (c \in watched' <=> c \in watched)
      BY <1>7, <1>9, <2>5 DEF Talk!Open
    <3>2. Talk!Unread(c)' = Talk!Unread(c)
      BY <1>1, <1>12, <2>5 DEF Talk!Unread
    <3> QED BY <1>1, <1>3, <1>12, <2>2, <3>1, <3>2 DEF Noticed
  <2>6. Noticed(h)'
    <3>1. h \in Talk!Open' => version.bye = "forgets"
      BY <1>7 DEF Talk!Open
    <3>2. version.bye = "forgets" => log' = log
      BY <1>2, <2>1, <2>2
    <3>3. version.bye = "forgets" => Talk!Unread(h)' = 0
      BY <1>1, <3>2, HeardKept DEF Talk!Unread
    <3>4. peer'[h] # "here"
      BY <1>1, <1>12
    <3> QED BY <1>1, <2>2, <3>1, <3>3, <3>4 DEF Noticed
  <2> QED BY <2>4, <2>5, <2>6
<1> QED BY <1>9, <1>11, <1>13, <1>14, <1>15, <1>16 DEF ChatInv

LEMMA ChatStarts ==
    ASSUME Talk!ChatAssumption, Talk!ChatInit
    PROVE  ChatInv
<1>1. /\ server = "runs" /\ batch = (IF version.always THEN <<>> ELSE <<"accept">>)
      /\ client = [c \in Client |-> "away"] /\ peer = [c \in Client |-> "here"]
      /\ fd = [c \in Client |-> 0] /\ watched = {} /\ edge = {} /\ latest = NULL
      /\ sent = [c \in Client |-> 0] /\ said = 0 /\ log = <<>> /\ joined = [c \in Client |-> 0]
      /\ down = [c \in Client |-> <<>>] /\ told = [c \in Client |-> <<>>]
  BY DEF Talk!ChatInit
<1>2. VersionIsAsListed
  BY ChatVersions
<1>10. batch \in Seq(Spot)
  <2>1. <<>> \in Seq(Spot) /\ <<"accept">> \in Seq(Spot)
    BY DEF Spot
  <2> QED BY <1>1, <2>1
<1>3. <<>> \in Seq(Item) /\ batch \in Seq(Spot) /\ Len(log) = 0 /\ DOMAIN log = {}
  BY <1>1, <1>10
<1>4. ChatTypes
  BY <1>1, <1>2, <1>3 DEF ChatTypes
<1>5. BatchKnown
  <2>1. \A i \in DOMAIN batch : batch[i] = "accept"
    BY <1>1
  <2> QED BY <2>1, ChatConstants DEF BatchKnown
<1>6. \A c \in Client : Unmet(c) /\ HeardSaid(c)
  BY <1>1, <1>3 DEF Unmet, HeardSaid
<1>7. Accepts
  BY <1>1, <1>2 DEF Accepts, VersionIsAsListed
<1>8. Talk!Open = {} /\ Talk!Backlog = {}
  BY <1>1 DEF Talk!Open, Talk!Backlog
<1>9. \A c \in Client : Noticed(c) /\ Follows(c)
  BY <1>8 DEF Noticed, Follows
<1> QED BY <1>4, <1>5, <1>6, <1>7, <1>9 DEF ChatInv

\* The inductive invariant of the chat programs.
THEOREM ChatInvariance ==
    ASSUME Talk!ChatAssumption
    PROVE  Talk!ChatSpec => []ChatInv
<1>1. Talk!ChatInit => ChatInv
  BY ChatStarts
<1>2. ASSUME ChatInv, [Talk!ChatNext]_(Talk!chatVars) PROVE ChatInv'
  <2>1. CASE UNCHANGED Talk!chatVars
    <3>1. UNCHANGED <<version, server, client, peer, fd, watched, edge, latest, batch, sent, said, log,
                      joined, down, told>>
      BY <2>1 DEF Talk!chatVars
    <3>2. ChatTypes /\ ChatTypes'
      BY <1>2, <3>1 DEF ChatInv, ChatTypes, VersionIsAsListed
    <3>3. BatchKnown' /\ \A c \in Client : Unmet(c)' /\ HeardSaid(c)'
      BY <1>2, <3>1 DEF ChatInv, BatchKnown, Unmet, HeardSaid
    <3>4. \A c \in Client : Follows(c)'
      BY <1>2, <3>1, FollowsStays DEF ChatInv
    <3>5. ASSUME server = "runs" PROVE Accepts' /\ \A c \in Client : Noticed(c)'
      <4>1. Talk!Backlog \subseteq Talk!Backlog' /\ \A c : Talk!Minds(c)' <=> Talk!Minds(c)
        BY <3>1 DEF Talk!Backlog, Talk!Minds
      <4>2. Accepts'
        BY <1>2, <3>1, <3>2, <3>5, <4>1, AcceptsStays DEF ChatInv
      <4>3. ASSUME NEW c \in Client PROVE Noticed(c)'
        BY <1>2, <3>1, <3>5, <4>1, HeardKept, NoticedStays DEF ChatInv
      <4> QED BY <4>2, <4>3
    <3> QED BY <3>1, <3>2, <3>3, <3>4, <3>5 DEF ChatInv
  <2>2. CASE Talk!ChatNext
    BY <1>2, <2>2, ConnectsKept, TypeKept, ReadKept, LeavesKept, AcceptsKept, IgnoresKept, HearsKept,
       ErrorsKept, ByesKept, WaitsKept, SayKept, EndKept DEF Talk!ChatNext, Talk!tcp_chat_client
  <2> QED BY <1>2, <2>1, <2>2
<1> QED BY <1>1, <1>2, PTL DEF Talk!ChatSpec

\* Everybody in a chat is told what the others say, in the order the server heard it, each line
\* once, from when he came.
THEOREM TalkComesInOrder ==
    ASSUME Talk!ChatAssumption
    PROVE  Talk!ChatSpec => []Talk!TalkInOrder
<1>1. ChatInv => Talk!TalkInOrder
  BY DEF ChatInv, Follows, Talk!TalkInOrder, Talk!Open
<1>2. Talk!ChatSpec => []ChatInv
  BY ChatInvariance
<1> QED BY <1>1, <1>2, PTL

\* Who has said something or has left is noticed at the server's next look, or there is a reason.
THEOREM ChatLooks ==
    ASSUME Talk!ChatAssumption
    PROVE  Talk!ChatSpec => []Talk!UnheardForAReason
<1>1. ASSUME ChatInv PROVE Talk!UnheardForAReason
  <2>1. SUFFICES ASSUME server = "runs" PROVE Talk!UnheardForAReason
    BY DEF Talk!UnheardForAReason
  <2>2. ChatTypes /\ Accepts /\ \A c \in Client : Noticed(c)
    BY <1>1, <2>1 DEF ChatInv
  <2>3. ASSUME batch = <<>>, NEW c \in Talk!Open, Talk!Minds(c), Talk!Unread(c) > 0 \/ peer[c] # "here"
        PROVE  \/ c \in Talk!Ready \/ (~version.epoll /\ fd[c] > version.select)
               \/ c \notin watched /\ version.bye = "forgets" /\ Talk!Unread(c) = 0
               \/ peer[c] = "broken" /\ version.error = "drained"
    <3>1. c \in Client /\ Noticed(c) /\ News(c)
      BY <2>2, <2>3 DEF Talk!Open, News
    <3>2. fd[c] \in Nat /\ version.select \in Nat
      BY <2>2, <3>1 DEF ChatTypes, VersionIsAsListed
    <3>3. ~\E i \in DOMAIN batch : batch[i] = c
      BY <2>3
    <3>4. c \notin watched => version.bye = "forgets" /\ Talk!Unread(c) = 0
      BY <2>3, <3>1 DEF Noticed
    <3>5. version.error = "drained" => c \in edge \/ peer[c] = "broken"
      BY <2>3, <3>1, <3>3 DEF Noticed
    <3>6. fd[c] <= version.select \/ fd[c] > version.select
      BY <3>2
    <3> QED BY <2>3, <3>4, <3>5, <3>6 DEF Talk!Ready
  <2>4. ASSUME batch # <<>>, Head(batch) = "accept", Talk!Backlog = {}
        PROVE  (~version.always /\ latest = NULL) \/ version = Talk!again_epoll_LT
    <3>1. batch[1] = "accept" /\ 1 \in DOMAIN batch
      BY <2>2, <2>4, BatchTail
    <3>2. version.always /\ version.epoll => version = Talk!again_epoll_LT
      BY <2>2 DEF ChatTypes, VersionIsAsListed
    <3> QED BY <2>2, <2>4, <3>1, <3>2 DEF Accepts
  <2> QED BY <2>3, <2>4 DEF Talk!UnheardForAReason
<1>2. Talk!ChatSpec => []ChatInv
  BY ChatInvariance
<1> QED BY <1>1, <1>2, PTL
====
