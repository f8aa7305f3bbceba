---- MODULE Key ----
(***************************************************************************)
(* linux-drivers 11 to 14: how a press of the key reaches the program.     *)
(* The edge of the line starts a timer, the timer function looks at the    *)
(* line and notes the state of the key, read() reports a press and clears  *)
(* the note.  The four drivers tell the program in different ways that     *)
(* there is something to read.  The processor has one core: the timer      *)
(* function runs to its end between two steps of read().                   *)
(***************************************************************************)
EXTENDS FiniteSets
CONSTANTS Reader, NULL
VARIABLES
    way,        \* the driver and its program: see Ways
    down,       \* the key is pressed
    timer,      \* the timer is waiting
    key_value,  \* "push" or "release"
    key_status, \* "push", "release" or "read"
    pc,         \* reader -> "user", "asleep", "value", "status" or "clear"
    value,      \* reader -> the key_value that read() has seen
    sigio,      \* readers with a pending SIGIO
    press       \* history, what became of the last press noted: "owed" to the programs, "given"
                \*   to one, "missed" as the key was let go first, "wiped" with the note of an
                \*   earlier one; "none" before the first

keyVars == <<way, down, timer, key_value, key_status, pc, value, sigio, press>>

\* ask: 11, a loop of read(); block: 12, read() waits; select: 13 with a program that opens
\* with O_NONBLOCK and waits in select(); yield: 13 opened without it; signal: 14, the
\* program has registered for SIGIO and reads in the signal handler.
Ways == {"ask", "block", "select", "yield", "signal"}

KeyInit ==
    /\ way \in Ways /\ down = FALSE /\ timer = FALSE
    /\ key_value = "release" /\ key_status = "read"
    /\ pc = [r \in Reader |-> "user"] /\ value = [r \in Reader |-> NULL] /\ sigio = {}
    /\ press = "none"

Goto(r, l) == pc' = [pc EXCEPT ![r] = l]

\* The key moves, and key0_handler() starts the timer, anew if it is waiting.
Edge ==
    /\ down' = ~down /\ timer' = TRUE
    /\ UNCHANGED <<way, key_value, key_status, pc, value, sigio, press>>

\* wake_up_interruptible(), wake_up(): whoever sleeps looks again, or in 13 without
\* O_NONBLOCK goes on.
Awake == [r \in Reader |-> IF pc[r] # "asleep" THEN pc[r]
                           ELSE IF way = "yield" THEN "value" ELSE "user"]

\* As a mutant: no wake-up, no signal.
PushedSilently ==
    key_value' = "push" /\ key_status' = "push" /\ press' = "owed" /\ UNCHANGED <<pc, sigio>>

Pushed ==
    /\ key_value' = "push" /\ key_status' = "push" /\ press' = "owed"
    /\ \/ way = "ask" /\ UNCHANGED <<pc, sigio>>
       \/ way \in {"block", "select", "yield"} /\ pc' = Awake /\ UNCHANGED sigio
       \/ way = "signal" /\ sigio' = Reader /\ UNCHANGED pc

Released ==
    /\ key_value' = "release" /\ key_status' = "release"
    /\ press' = IF press = "owed" THEN "missed" ELSE press
    /\ UNCHANGED <<pc, sigio>>

TimerFunc ==
    /\ timer /\ timer' = FALSE
    /\ IF down THEN Pushed ELSE Released
    /\ UNCHANGED <<way, down, value>>

\* 11: read() looks at once.
ReadNow(r) ==
    /\ way = "ask" /\ pc[r] = "user" /\ Goto(r, "value")
    /\ UNCHANGED <<way, down, timer, key_value, key_status, value, sigio, press>>

\* 12: wait_event_interruptible() sleeps unless there is a press.
ReadWaits(r) ==
    /\ way = "block" /\ pc[r] = "user"
    /\ Goto(r, IF key_status = "push" THEN "value" ELSE "asleep")
    /\ UNCHANGED <<way, down, timer, key_value, key_status, value, sigio, press>>

\* 13, O_NONBLOCK: select() sleeps unless poll() finds a press; read() after it looks again.
Select(r) ==
    /\ way = "select" /\ pc[r] = "user"
    /\ Goto(r, IF key_status = "push" THEN "value" ELSE "asleep")
    /\ UNCHANGED <<way, down, timer, key_value, key_status, value, sigio, press>>

\* select() gives up after two seconds, and the program calls it again.
SelectTimeout(r) ==
    /\ way = "select" /\ pc[r] = "asleep" /\ Goto(r, "user")
    /\ UNCHANGED <<way, down, timer, key_value, key_status, value, sigio, press>>

\* 13, without O_NONBLOCK: add to the queue and sleep, whatever the key's state.
ReadYields(r) ==
    /\ way = "yield" /\ pc[r] = "user" /\ Goto(r, "asleep")
    /\ UNCHANGED <<way, down, timer, key_value, key_status, value, sigio, press>>

\* 14: the handler of SIGIO reads.
Signalled(r) ==
    /\ way = "signal" /\ pc[r] = "user" /\ r \in sigio
    /\ sigio' = sigio \ {r} /\ Goto(r, "value")
    /\ UNCHANGED <<way, down, timer, key_value, key_status, value, press>>

ReadValue(r) ==
    /\ pc[r] = "value" /\ value' = [value EXCEPT ![r] = key_value] /\ Goto(r, "status")
    /\ UNCHANGED <<way, down, timer, key_value, key_status, sigio, press>>

\* A press is reported if both notes say so.
ReadStatus(r) ==
    /\ pc[r] = "status"
    /\ \/ /\ key_status = "push" /\ value[r] = "push"
          /\ Goto(r, "clear") /\ press' = IF press = "owed" THEN "given" ELSE press
       \/ /\ ~(key_status = "push" /\ value[r] = "push")
          /\ Goto(r, "user") /\ UNCHANGED press
    /\ value' = [value EXCEPT ![r] = NULL]
    /\ UNCHANGED <<way, down, timer, key_value, key_status, sigio>>

\* After the copy to the program the note is cleared, whatever it says by now.
ReadClear(r) ==
    /\ pc[r] = "clear" /\ key_status' = "read" /\ Goto(r, "user")
    /\ press' = IF press = "owed" THEN "wiped" ELSE press
    /\ UNCHANGED <<way, down, timer, key_value, value, sigio>>

KeyNext ==
    \/ Edge \/ TimerFunc
    \/ \E r \in Reader : \/ ReadNow(r) \/ ReadWaits(r) \/ Select(r) \/ SelectTimeout(r)
                         \/ ReadYields(r) \/ Signalled(r)
                         \/ ReadValue(r) \/ ReadStatus(r) \/ ReadClear(r)

KeySpec == KeyInit /\ [][KeyNext]_keyVars
-----------------------------------------------------------------------------
\* The program does nothing until it is told of the next press.
Rests(r) == \/ pc[r] = "asleep"
            \/ way = "signal" /\ pc[r] = "user" /\ r \notin sigio

\* The note of a press that is owed stays as long as that; and while a press is noted no program
\* rests: none went to sleep past it.  (Except in read() of 13 without O_NONBLOCK, which does not
\* look before it sleeps.)  A press that comes between a reader's look at the note and its clear
\* is not among those: it is wiped, nobody is given it, and readers may rest.
PressIsSeen ==
    way # "yield" => /\ press = "owed" => key_status = "push"
                     /\ key_status = "push" => \A r \in Reader : ~Rests(r)
====
