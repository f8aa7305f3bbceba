---- MODULE Console ----
(***************************************************************************)
(* xv6: the console.  Typed characters go from the UART's interrupt to the *)
(* line buffer, where they can be edited until the line is complete, and   *)
(* to the processes that read it; what processes write goes through a ring *)
(* to the UART.  An action is what is done under cons.lock, or under       *)
(* uart_tx_lock.                                                           *)
(***************************************************************************)
EXTENDS Integers, Sequences, FiniteSets, SequencesExt, FiniteSetsExt

CONSTANTS Proc,
          INPUT_BUF_SIZE, UART_TX_BUF_SIZE,
          UINT,     \* cons.r, cons.w and cons.e count modulo UINT
          Calls,    \* bound: what programs ask for: <<"read" or "write", how many characters>>
          NULL

ConsoleAssumption ==
    /\ INPUT_BUF_SIZE \in Nat \ {0} /\ UINT \in Nat
    /\ UINT > INPUT_BUF_SIZE /\ UINT % INPUT_BUF_SIZE = 0
    /\ UART_TX_BUF_SIZE \in Nat \ {0}
    /\ Calls \subseteq {"read", "write"} \X (Nat \ {0})

\* A character; a line end; control-D, the end of the input; control-U; backspace.
Typed == {"a", "\n", "^D", "^U", "^H"}

VARIABLES cbuf, r, w, e,      \* cons
          line, lines,        \* the line being typed, and the characters of completed ones
                              \* that nobody has read: what cons stands for
          tx,                 \* what is between uart_tx_r and uart_tx_w
          busy,               \* the UART cannot take a character
          irq,                \* it has interrupted
          pc,                 \* process -> "idle", "read" or "write"
          target, n,          \* process -> how much it has asked for, and is still missing
          asleep,             \* process -> it sleeps on cons.r or uart_tx_r
          killed

consVars == <<cbuf, r, w, e, line, lines>>
uartVars == <<tx, busy, irq>>
userVars == <<pc, target, n, asleep, killed>>
consoleVars == <<consVars, uartVars, userVars>>

ConsoleInit ==
    /\ cbuf = [i \in 0..INPUT_BUF_SIZE - 1 |-> "a"] /\ r = 0 /\ w = 0 /\ e = 0
    /\ line = <<>> /\ lines = <<>> /\ tx = <<>> /\ busy = FALSE /\ irq = FALSE
    /\ pc = [p \in Proc |-> "idle"] /\ target = [p \in Proc |-> 0] /\ n = [p \in Proc |-> 0]
    /\ asleep = [p \in Proc |-> FALSE] /\ killed = {}

Wakeup(s) == asleep' = [p \in Proc |-> asleep[p] /\ pc[p] # s]
Plus(i, k) == (i + k) % UINT
Used(a, b) == (a - b) % UINT          \* the unsigned difference
Index(i)   == i % INPUT_BUF_SIZE
-----------------------------------------------------------------------------
\* consoleintr(): the echo waits until the UART can take it.

Echo == ~busy /\ busy' = TRUE /\ UNCHANGED <<tx, irq>>

Insert(c) ==
    /\ c \in {"a", "\n", "^D"} /\ Used(e, r) < INPUT_BUF_SIZE
    /\ Echo
    /\ cbuf' = [cbuf EXCEPT ![Index(e)] = c] /\ e' = Plus(e, 1)
    /\ IF c \in {"\n", "^D"} \/ Used(e', r) = INPUT_BUF_SIZE
       THEN /\ w' = e' /\ Wakeup("read")
            /\ lines' = lines \o line \o <<c>> /\ line' = <<>>
       ELSE line' = Append(line, c) /\ UNCHANGED <<w, lines, asleep>>
    /\ UNCHANGED <<r, pc, target, n, killed>>

\* Backspace takes one character off the line, control-U all of them.
Backspace ==
    /\ e # w /\ Echo /\ e' = Plus(e, -1) /\ line' = Front(line)
    /\ UNCHANGED <<cbuf, r, w, lines, userVars>>

\* It looks for the end of an earlier line or the one that is not editable any more.
Kill ==
    LET Stop(k) == Plus(e, -k) = w \/ cbuf[Index(Plus(e, -k - 1))] = "\n"
        gone == Min({k \in 0..INPUT_BUF_SIZE : Stop(k)})
    IN  /\ gone > 0 /\ Echo /\ e' = Plus(e, -gone) /\ line' = <<>>
        /\ UNCHANGED <<cbuf, r, w, lines, userVars>>

consoleintr(c) == Insert(c) \/ (c = "^H" /\ Backspace) \/ (c = "^U" /\ Kill)
-----------------------------------------------------------------------------
\* consoleread()

Start(p, s, k) ==
    /\ pc[p] = "idle"
    /\ pc' = [pc EXCEPT ![p] = s]
    /\ target' = [target EXCEPT ![p] = k] /\ n' = [n EXCEPT ![p] = k]
    /\ UNCHANGED <<consVars, uartVars, asleep, killed>>

\* Back to the program, or, if it has been killed, to the end of the process: then another
\* one takes its place.
Return(p) == /\ pc' = [pc EXCEPT ![p] = "idle"] /\ killed' = killed \ {p}
             /\ target' = [target EXCEPT ![p] = 0] /\ n' = [n EXCEPT ![p] = 0]

Reading(p) == pc[p] = "read" /\ ~asleep[p]

\* Nothing to read: sleep, unless killed.
ReadWaits(p) ==
    /\ Reading(p) /\ r = w
    /\ IF p \in killed THEN Return(p) /\ UNCHANGED asleep
       ELSE asleep' = [asleep EXCEPT ![p] = TRUE] /\ UNCHANGED <<pc, target, n, killed>>
    /\ UNCHANGED <<consVars, uartVars>>

\* Otherwise take characters, up to a line end, a control-D, or what was asked for; or up to
\* the end of a line that was completed because it filled the buffer, and then go on.
\* A control-D after other characters stays for the next read().
ReadTakes(p) ==
    /\ Reading(p) /\ r # w
    /\ LET unread == [i \in 1..Used(w, r) |-> cbuf[Index(Plus(r, i - 1))]]
           ends   == {i \in DOMAIN unread : unread[i] \in {"\n", "^D"}}
           k      == Min(ends \cup {n[p], Len(unread)})
           eof    == unread[k] = "^D"
           kept   == eof /\ n[p] - (k - 1) < target[p]
           taken  == IF kept THEN k - 1 ELSE k
       IN  /\ r' = Plus(r, taken) /\ lines' = SubSeq(lines, taken + 1, Len(lines))
           /\ IF k \in ends \/ k = n[p] THEN Return(p)
              ELSE n' = [n EXCEPT ![p] = @ - k] /\ UNCHANGED <<pc, target, killed>>
    /\ UNCHANGED <<cbuf, w, e, line, uartVars, asleep>>

\* kill() of a process in the kernel: it runs again.
Killed(p) ==
    /\ pc[p] # "idle" /\ p \notin killed
    /\ killed' = killed \cup {p} /\ asleep' = [asleep EXCEPT ![p] = FALSE]
    /\ UNCHANGED <<consVars, uartVars, pc, target, n>>
-----------------------------------------------------------------------------
\* uart.c

\* uartstart(), with q in the ring: the UART takes one character, and is busy.
uartstart(q) ==
    IF q = <<>> \/ busy THEN tx' = q /\ UNCHANGED <<busy, asleep>>
    ELSE tx' = Tail(q) /\ busy' = TRUE /\ Wakeup("write")

\* uartputc() of one character of consolewrite().  Being killed does not end the wait.
Write(p) ==
    /\ pc[p] = "write" /\ ~asleep[p]
    /\ IF Len(tx) = UART_TX_BUF_SIZE
       THEN /\ asleep' = [asleep EXCEPT ![p] = TRUE]
            /\ UNCHANGED <<tx, busy, pc, target, n, killed>>
       ELSE /\ uartstart(Append(tx, "a"))
            /\ IF n[p] = 1 THEN Return(p) ELSE n' = [n EXCEPT ![p] = @ - 1] /\ UNCHANGED <<pc, target, killed>>
    /\ UNCHANGED <<consVars, irq>>

TxDone == busy /\ busy' = FALSE /\ irq' = TRUE /\ UNCHANGED <<consVars, tx, userVars>>

\* uartintr() after the typed characters, if there were any.
uartintr ==
    /\ irq /\ irq' = FALSE /\ uartstart(tx)
    /\ UNCHANGED <<consVars, pc, target, n, killed>>

ConsoleNext ==
    \/ \E c \in Typed : consoleintr(c)
    \/ \E p \in Proc : \/ \E c \in Calls : Start(p, c[1], c[2])
                       \/ ReadWaits(p) \/ ReadTakes(p) \/ Write(p) \/ Killed(p)
    \/ TxDone \/ uartintr

ConsoleSpec == ConsoleInit /\ [][ConsoleNext]_consoleVars
-----------------------------------------------------------------------------
Between(a, b) == [i \in 1..Used(b, a) |-> cbuf[Index(Plus(a, i - 1))]]

\* The three counters always delimit what was typed: the characters of complete lines that
\* nobody has read yet, in order and none overwritten, and the line that can be edited.
LinesIntact == Between(r, w) = lines /\ Between(w, e) = line

\* Nobody sleeps while there is something to read, or room to write; and while there is
\* something to write the UART is busy or its interrupt is on the way.
ConsoleGoesOn ==
    /\ \A p \in Proc : asleep[p] => CASE pc[p] = "read"  -> r = w
                                      [] pc[p] = "write" -> Len(tx) = UART_TX_BUF_SIZE
    /\ tx # <<>> => busy \/ irq
====
