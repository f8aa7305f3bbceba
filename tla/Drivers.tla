---- MODULE Drivers ----
(***************************************************************************)
(* linux-drivers: the 25 kernel modules of the i.MX6ULL board, as the      *)
(* resources each takes when it is loaded or probed, what it gives back    *)
(* when one of the steps fails and when it is removed, and what its file   *)
(* operations, interrupt handler and timer use meanwhile.  Registers,      *)
(* device numbers and messages are left out.  What devm_ functions take is *)
(* given back by the kernel after the driver's own code, here at the end   *)
(* of the driver's lists.                                                  *)
(***************************************************************************)
EXTENDS Naturals, Sequences, FiniteSets, SequencesExt
CONSTANTS Slot, NULL      \* Slot: the modules that are used at the same time

Pins    == {"led", "beep", "key0"}                         \* freed by number, by anyone
Classes == {"LED_GPIO", "iMX6ULL_IRQ_DEV", "icm20608"}     \* names that two modules use
Shared  == Pins \cup Classes \cup {"key0 irq"}

\* The steps of loading.  Get: request r; when refused give back undo, in that order,
\* and fail.  Check: something that may fail and takes nothing.  Try: the failure is not
\* noticed, or ignored.  Sure: cannot fail.  Put: give back r on the way.
Get(r, undo) == [kind |-> "get", r |-> r, undo |-> undo]
Check(undo)  == [kind |-> "check", r |-> NULL, undo |-> undo]
Try(r)       == [kind |-> "try", r |-> r, undo |-> <<>>]
Sure(r)      == [kind |-> "sure", r |-> r, undo |-> <<>>]
Put(r)       == [kind |-> "put", r |-> r, undo |-> <<>>]

\* The usual start of a character device: number, cdev, class, device.
CharDev(class, undo) ==
    <<Get("region", undo), Get("cdev", <<"region">> \o undo),
      Get(class, <<"cdev", "region">> \o undo),
      Get("device", <<class, "cdev", "region">> \o undo)>>
CharDevExit(class) == <<"device", class, "cdev", "region">>

\* The usual start of a driver of one pin: find the node, request the pin, set its
\* direction.  That the request was refused does not keep it from freeing the pin.
Gpio(pin) == <<Check(<<>>), Get(pin, <<pin>>), Check(<<pin>>)>>

\* The five registers of the LED: ioremap is not checked.
Maps == <<Sure("maps")>>

\* A driver: load, exit, the resources by which programs reach it, and what its file
\* operations, interrupt handler and timer function use.
Driver(load, exit, node, file, irq, timer) ==
    [load |-> load, exit |-> exit, node |-> node, file |-> file \cup {"code"},
     irq |-> irq, timer |-> timer]
Node == {"cdev", "device"}
Plain(load, exit, node, file) == Driver(load, exit, node, file, {}, {})

chrdevbase    == Plain(<<Try("region")>>, <<"region">>, {"region"}, {})
LED_REGISTER  == Plain(Maps \o <<Try("region")>>, <<"maps", "region">>, {"region"}, {"maps"})
LED_newchrdev == Plain(Maps \o CharDev("class", <<>>), <<"maps">> \o CharDevExit("class"),
                       Node, {"maps"})
DTS_of_func   == Plain(<<Check(<<>>), Get("mem", <<>>), Check(<<>>), Put("mem")>>, <<>>, {}, {})
LED_DTS       == Plain(<<Check(<<>>)>> \o Maps \o CharDev("class", <<>>),
                       <<"maps">> \o CharDevExit("class"), Node, {"maps"})
LED_GPIO      == Plain(Gpio("led") \o CharDev("LED_GPIO", <<"led">>),
                       CharDevExit("LED_GPIO") \o <<"led">>, Node, {})
beep          == Plain(Gpio("beep") \o CharDev("class", <<"beep">>),
                       CharDevExit("class") \o <<"beep">>, Node, {})
LED_exclusive == Plain(<<Sure("semaphore")>> \o Gpio("led") \o CharDev("LED_GPIO", <<"led">>),
                       CharDevExit("LED_GPIO") \o <<"led">>, Node, {"semaphore"})
key           == Plain(Gpio("key0") \o CharDev("class", <<"key0">>),
                       CharDevExit("class") \o <<"key0">>, Node, {})
\* The timer is initialised after the node exists whose ioctl starts it.
timer         == Driver(Gpio("led") \o CharDev("class", <<"led">>) \o <<Sure("timer")>>,
                        <<"timer">> \o CharDevExit("class") \o <<"led">>,
                        Node, {"timer"}, {}, {"code"})

\* The key with an interrupt: it frees the pin only if it got it.  When this fails the
\* device stays, the rest is given back.
Key0(undo) == <<Check(undo), Get("key0", undo), Check(<<"key0">> \o undo),
                Get("key0 irq", <<"key0">> \o undo)>>
IrqClass == "iMX6ULL_IRQ_DEV"
IrqDev   == CharDev(IrqClass, <<>>) \o Key0(<<IrqClass, "cdev", "region">>) \o <<Sure("timer")>>
IrqExit  == CharDevExit(IrqClass) \o <<"key0 irq", "key0">>

interrupt_request == Driver(IrqDev, IrqExit \o <<"timer">>, Node, {}, {"timer"}, {"code"})
blocking_IO       == Driver(IrqDev \o <<Sure("wait queue")>>, IrqExit, Node, {"wait queue"},
                            {"timer"}, {"code", "wait queue"})
nonblocking_IO    == Driver(IrqDev \o <<Sure("wait queue")>>, IrqExit, Node, {"wait queue"},
                            {"timer"}, {"code", "wait queue"})
signal_driven_IO  == Driver(IrqDev, IrqExit, Node, {}, {"timer"}, {"code"})

LED_platform_device == Plain(<<Get("platform device", <<>>)>>, <<"platform device">>, {}, {})
LED_platform_driver == Plain(<<Check(<<>>)>> \o Maps \o CharDev("class", <<>>),
                             <<"maps">> \o CharDevExit("class"), Node, {"maps"})
\* The device comes before the pin, and failures of the pin leave it; before the pin's
\* number is read, the number freed is 0.
LED_platform_DTS == Plain(CharDev("class", <<"gpio 0">>)
                            \o <<Check(<<>>), Sure("pin number"), Get("led", <<"led">>), Check(<<"led">>)>>,
                          CharDevExit("class") \o <<"led">>, Node, {"pin number"})
misc_beep == Plain(<<Check(<<>>), Get("beep", <<>>), Check(<<"beep">>), Get("misc", <<"beep">>)>>,
                   <<"beep", "misc">>, {"misc"}, {})
\* input_unregister_device() gives the input device back, input_free_device() once more.
input_key == Driver(Key0(<<>>) \o <<Sure("timer"), Get("input", <<>>), Get("device", <<"input">>)>>,
                    <<"key0 irq", "key0", "timer", "device", "input", "input">>,
                    {"device"}, {}, {"timer"}, {"code", "input"})

i2c_ap3216c  == Plain(CharDev("class", <<>>) \o <<Sure("client")>>, CharDevExit("class"),
                      Node, {"client"})
spi_icm20608 == Plain(CharDev("icm20608", <<>>) \o <<Sure("client")>>, CharDevExit("icm20608"),
                      Node, {"client"})
gt9147       == LET devm == <<"irq", "input", "irq pin", "reset pin">>
                    From(i) == SubSeq(devm, i, 4)
                IN  Driver(<<Get("reset pin", <<>>), Get("irq pin", From(4)), Check(From(3)),
                             Get("input", From(3)), Check(From(2)), Get("irq", From(2)),
                             Get("device", From(1))>>,
                           <<"device">> \o devm, {"device"}, {}, {"input"}, {})
ram_disk     == Plain(<<Get("buf", <<>>), Get("blkdev", <<"buf">>), Get("disk", <<"blkdev", "buf">>),
                        Get("queue", <<"disk", "blkdev", "buf">>), Sure("device")>>,
                      <<"queue", "device", "disk", "blkdev", "buf">>, {"device"}, {"queue", "buf"})
\* regmap_init_spi() returns an error pointer, the code looks for NULL.
regmap_icm20608 == Plain(CharDev("icm20608", <<>>) \o <<Try("regmap")>>,
                         <<"regmap">> \o CharDevExit("icm20608"), Node, {"regmap"})
iio_icm20608    == Plain(<<Get("iio", <<>>), Get("device", <<"iio">>), Try("regmap")>>,
                         <<"regmap", "device", "iio">>, {"device"}, {"regmap"})

Drivers == [chrdevbase |-> chrdevbase, LED_REGISTER |-> LED_REGISTER,
    LED_newchrdev |-> LED_newchrdev, DTS_of_func |-> DTS_of_func, LED_DTS |-> LED_DTS,
    LED_GPIO |-> LED_GPIO, beep |-> beep, LED_exclusive |-> LED_exclusive, key |-> key,
    timer |-> timer, interrupt_request |-> interrupt_request, blocking_IO |-> blocking_IO,
    nonblocking_IO |-> nonblocking_IO, signal_driven_IO |-> signal_driven_IO,
    LED_platform_device |-> LED_platform_device, LED_platform_driver |-> LED_platform_driver,
    LED_platform_DTS |-> LED_platform_DTS, misc_beep |-> misc_beep, input_key |-> input_key,
    i2c_ap3216c |-> i2c_ap3216c, spi_icm20608 |-> spi_icm20608, gt9147 |-> gt9147,
    ram_disk |-> ram_disk, regmap_icm20608 |-> regmap_icm20608, iio_icm20608 |-> iio_icm20608]
Module == DOMAIN Drivers

\* Two modules that want the same pin, interrupt or class.
Takes(d)      == {st.r : st \in ToSet(Drivers[d].load)} \cap Shared
Compete(d, e) == d # e /\ Takes(d) \cap Takes(e) # {}
-----------------------------------------------------------------------------
VARIABLES
    name,     \* slot -> the module that is loaded and removed there, or NULL
    mode,     \* slot -> "out", "init", "undo" (a failed init), "in" or "exit"
    step,     \* slot -> the next step of load
    todo,     \* slot -> what undo or exit still has to give back
    held,     \* slot -> the module's own resources that it has taken since it was loaded
    owner,    \* shared resource -> the slot that got it last, or NULL
    leaked,   \* slot -> resources the module held when its code was gone
    opened,   \* slots of which a program has the node open
    armed     \* slot -> "no", "armed", or "running" (the timer function is in progress)

vars == <<name, mode, step, todo, held, owner, leaked, opened, armed>>

Init ==
    /\ name \in {f \in [Slot -> Module \cup {NULL}] :
                    \A s, t \in Slot : s = t \/ NULL \in {f[s], f[t]} \/ Compete(f[s], f[t])}
    /\ mode = [s \in Slot |-> "out"] /\ step = [s \in Slot |-> 1]
    /\ todo = [s \in Slot |-> <<>>] /\ held = [s \in Slot |-> {}]
    /\ owner = [r \in Shared |-> NULL] /\ leaked = [s \in Slot |-> {}]
    /\ opened = {} /\ armed = [s \in Slot |-> "no"]

D(s) == Drivers[name[s]]

Holds(s) == held[s] \cup {r \in Shared : owner[r] = s}
                    \cup (IF mode[s] # "out" THEN {"code"} ELSE {})

NextStep(s) == D(s).load[step[s]]
Loading(s)  == mode[s] = "init" /\ step[s] <= Len(D(s).load)

\* A shared name must be free; a device that is still there keeps its name.
Available(s, r) == IF r \in Shared THEN owner[r] = NULL ELSE r = "device" => r \notin leaked[s]

Take(s, r) ==
    IF r \in Shared THEN owner' = [owner EXCEPT ![r] = s] /\ UNCHANGED held
                    ELSE held' = [held EXCEPT ![s] = @ \cup {r}] /\ UNCHANGED owner

\* gpio_free() takes a number, whoever requested it; the others know what they were given.
GiveBack(s, r) ==
    IF r \in Shared THEN /\ owner' = IF r \in Pins \/ owner[r] = s
                                     THEN [owner EXCEPT ![r] = NULL] ELSE owner
                         /\ UNCHANGED held
                    ELSE held' = [held EXCEPT ![s] = @ \ {r}] /\ UNCHANGED owner

Insmod(s) ==
    /\ name[s] # NULL /\ mode[s] = "out" /\ armed[s] = "no" /\ s \notin opened /\ owner["key0 irq"] # s
    /\ mode' = [mode EXCEPT ![s] = "init"]
    /\ UNCHANGED <<name, step, todo, held, owner, leaked, opened, armed>>

StepSucceeds(s) ==
    /\ Loading(s) /\ step' = [step EXCEPT ![s] = @ + 1]
    /\ LET st == NextStep(s) IN
         CASE st.kind \in {"get", "try"} -> Available(s, st.r) /\ Take(s, st.r)
           [] st.kind = "sure"           -> Take(s, st.r)
           [] st.kind = "put"            -> GiveBack(s, st.r)
           [] st.kind = "check"          -> UNCHANGED <<held, owner>>
    /\ UNCHANGED <<name, mode, todo, leaked, opened, armed>>

StepIgnored(s) ==
    /\ Loading(s) /\ NextStep(s).kind = "try" /\ step' = [step EXCEPT ![s] = @ + 1]
    /\ UNCHANGED <<name, mode, todo, held, owner, leaked, opened, armed>>

\* As a mutant: a failed init() gives everything back that exit() does.
StepFailsExits(s) ==
    /\ Loading(s) /\ NextStep(s).kind \in {"get", "check"}
    /\ mode' = [mode EXCEPT ![s] = "undo"] /\ todo' = [todo EXCEPT ![s] = D(s).exit]
    /\ UNCHANGED <<name, step, held, owner, leaked, opened, armed>>

\* As a mutant: the goto leads to one label too far.
StepFailsSkips(s) ==
    /\ Loading(s) /\ NextStep(s).kind \in {"get", "check"}
    /\ mode' = [mode EXCEPT ![s] = "undo"]
    /\ todo' = [todo EXCEPT ![s] = IF NextStep(s).undo = <<>> THEN <<>> ELSE Tail(NextStep(s).undo)]
    /\ UNCHANGED <<name, step, held, owner, leaked, opened, armed>>

StepFails(s) ==
    /\ Loading(s) /\ NextStep(s).kind \in {"get", "check"}
    /\ mode' = [mode EXCEPT ![s] = "undo"] /\ todo' = [todo EXCEPT ![s] = NextStep(s).undo]
    /\ UNCHANGED <<name, step, held, owner, leaked, opened, armed>>

Loaded(s) ==
    /\ mode[s] = "init" /\ step[s] > Len(D(s).load)
    /\ mode' = [mode EXCEPT ![s] = "in"]
    /\ UNCHANGED <<name, step, todo, held, owner, leaked, opened, armed>>

\* An open file keeps the module.
Rmmod(s) ==
    /\ mode[s] = "in" /\ s \notin opened
    /\ mode' = [mode EXCEPT ![s] = "exit"] /\ todo' = [todo EXCEPT ![s] = D(s).exit]
    /\ UNCHANGED <<name, step, held, owner, leaked, opened, armed>>

\* As a mutant: without del_timer_sync().
ReleaseLeavesTimer(s) ==
    /\ mode[s] \in {"undo", "exit"} /\ todo[s] # <<>>
    /\ todo' = [todo EXCEPT ![s] = Tail(@)]
    /\ GiveBack(s, Head(todo[s]))
    /\ UNCHANGED <<name, mode, step, leaked, opened, armed>>

\* del_timer() and del_timer_sync() take a timer off that is waiting; the second would also
\* wait for one that runs, which makes a difference only for a timer that starts itself again.
Release(s) ==
    /\ mode[s] \in {"undo", "exit"} /\ todo[s] # <<>>
    /\ todo' = [todo EXCEPT ![s] = Tail(@)]
    /\ IF Head(todo[s]) = "timer" /\ armed[s] = "armed"
       THEN armed' = [armed EXCEPT ![s] = "no"] ELSE UNCHANGED armed
    /\ GiveBack(s, Head(todo[s]))
    /\ UNCHANGED <<name, mode, step, leaked, opened>>

\* The memory of the module is gone (after a failed init() even while a file is open), and
\* with it what is only memory of the module.
Static == {"timer", "wait queue", "semaphore", "pin number", "client"}
Gone(s) ==
    /\ mode[s] \in {"undo", "exit"} /\ todo[s] = <<>>
    /\ mode' = [mode EXCEPT ![s] = "out"] /\ step' = [step EXCEPT ![s] = 1]
    /\ leaked' = [leaked EXCEPT ![s] = @ \cup (Holds(s) \ (Static \cup {"code"}))]
    /\ held' = [held EXCEPT ![s] = {}]
    /\ UNCHANGED <<name, todo, owner, opened, armed>>
-----------------------------------------------------------------------------
\* What may run of a module: its file operations as soon as the node is there, even before
\* init() returns, its handler while it has the interrupt, its timer when it is due.
CanRun(s, entry) ==
    name[s] # NULL /\
    CASE entry = "file"  -> \/ s \in opened
                            \/ /\ D(s).node \subseteq held[s] /\ D(s).node # {}
                               /\ mode[s] \in {"init", "undo", "in"}
      [] entry = "irq"   -> D(s).irq # {} /\ ("irq" \in held[s] \/ owner["key0 irq"] = s)
      [] entry = "timer" -> armed[s] # "no"

Backed(s, entry) == D(s)[entry] \subseteq Holds(s)

Runs(s, entry) == CanRun(s, entry) /\ Backed(s, entry)

Open(s) ==
    /\ s \notin opened /\ Runs(s, "file") /\ opened' = opened \cup {s}
    /\ UNCHANGED <<name, mode, step, todo, held, owner, leaked, armed>>

Close(s) ==
    /\ s \in opened /\ Runs(s, "file") /\ opened' = opened \ {s}
    /\ UNCHANGED <<name, mode, step, todo, held, owner, leaked, armed>>

\* An edge of the key's line starts the timer anew.
Press(s) ==
    /\ Runs(s, "irq") /\ "timer" \in D(s).irq /\ armed' = [armed EXCEPT ![s] = "armed"]
    /\ UNCHANGED <<name, mode, step, todo, held, owner, leaked, opened>>

\* timer.c: OPEN_CMD and SETPERIOD_CMD start the timer, CLOSE_CMD waits for it and stops it.
Ioctl(s) ==
    /\ name[s] = "timer" /\ s \in opened /\ Runs(s, "file")
    /\ \/ armed' = [armed EXCEPT ![s] = "armed"]
       \/ armed[s] # "running" /\ armed' = [armed EXCEPT ![s] = "no"]
    /\ UNCHANGED <<name, mode, step, todo, held, owner, leaked, opened>>

Fire(s) ==
    /\ armed[s] = "armed" /\ Runs(s, "timer")
    /\ armed' = [armed EXCEPT ![s] = IF name[s] = "timer" THEN "running" ELSE "no"]
    /\ UNCHANGED <<name, mode, step, todo, held, owner, leaked, opened>>

\* timer.c: the timer function starts its timer again.
Rearm(s) ==
    /\ armed[s] = "running" /\ Runs(s, "timer") /\ armed' = [armed EXCEPT ![s] = "armed"]
    /\ UNCHANGED <<name, mode, step, todo, held, owner, leaked, opened>>

Next == \E s \in Slot :
    \/ Insmod(s) \/ StepSucceeds(s) \/ StepIgnored(s) \/ StepFails(s) \/ Loaded(s)
    \/ Rmmod(s) \/ Release(s) \/ Gone(s)
    \/ Open(s) \/ Close(s) \/ Press(s) \/ Ioctl(s) \/ Fire(s) \/ Rearm(s)

Spec == Init /\ [][Next]_vars
-----------------------------------------------------------------------------
KeyDrivers == {"interrupt_request", "blocking_IO", "nonblocking_IO", "signal_driven_IO"}

\* These free the pin they were refused, whoever has it.
FreesRefused == {"LED_GPIO", "beep", "LED_exclusive", "key", "timer", "LED_platform_DTS"}

\* Releases of what may not be there: registrations that failed unnoticed, the pin with
\* number 0, and the second release of the key's input device.
FreesAnyway == {<<"chrdevbase", "region">>, <<"LED_REGISTER", "region">>,
                <<"LED_platform_DTS", "gpio 0">>, <<"input_key", "input">>,
                <<"regmap_icm20608", "regmap">>, <<"iio_icm20608", "regmap">>}

\* One of them is in use, and wants this pin: somebody's pin may be gone.
Meddled(r) == \E t \in Slot : name[t] \in FreesRefused /\ r \in Takes(name[t])

\* Nobody gives back what he does not hold: what is another's, or what he has given back
\* already.  Pins that one of the six wants as well are the exception: when he is refused he
\* frees it for the next one, and then two drivers believe they have it.
FreesOwn == \A s \in Slot : mode[s] \in {"undo", "exit"} /\ todo[s] # <<>> =>
    LET r == Head(todo[s])
    IN  r \in Holds(s) \/ <<name[s], r>> \in FreesAnyway \/ (r \in Pins /\ Meddled(r))

\* What a module leaves behind, at a failed load or when it is removed: the mapped registers
\* if a later step of a load fails; the buffer if a property of the node is missing; the
\* device if the key's pin or interrupt fails; everything but the pin if the pin fails; and
\* the interrupt and the pin if the input device fails.
LeavesBehind(d) ==
    CASE d \in {"LED_newchrdev", "LED_DTS", "LED_platform_driver"} -> {"maps"}
      [] d = "DTS_of_func"      -> {"mem"}
      [] d \in KeyDrivers       -> {"device"}
      [] d = "LED_platform_DTS" -> {"region", "cdev", "class", "device"}
      [] d = "input_key"        -> {"key0", "key0 irq"}
      [] OTHER                  -> {}

GivesBack == \A s \in Slot : leaked[s] \subseteq LeavesBehind(name[s])

\* Code of a module that runs before what it uses is there, or after it is gone: nodes that
\* are visible before the load has ended, handlers requested before the timer and the input
\* device are ready, timers that nobody stops when the module is removed.
Premature ==
    ({"timer", "LED_platform_DTS", "i2c_ap3216c", "spi_icm20608", "regmap_icm20608",
      "iio_icm20608"} \cup KeyDrivers) \X {"file"}
    \cup (KeyDrivers \cup {"input_key"}) \X {"irq"}
    \cup {"timer", "blocking_IO", "nonblocking_IO", "signal_driven_IO", "input_key"} \X {"timer"}

\* Apart from these, whatever runs of a module finds what it uses: its memory, its
\* registers, its timer.
EntriesBacked == \A s \in Slot, entry \in {"file", "irq", "timer"} :
    CanRun(s, entry) /\ <<name[s], entry>> \notin Premature => Backed(s, entry)
-----------------------------------------------------------------------------
\* What keeps these invariants is the discipline of the drivers' lists.  They are data, and
\* TLC evaluates ListsAssumption; DevicesProofs proves the invariants from it.

Takings == {"get", "try", "sure"}

\* What the steps of the kinds K before step i of a load take and do not put back.
After(load, i, K) == {load[j].r : j \in
    {k \in 1..i - 1 : load[k].kind \in K /\
        \A l \in k + 1..i - 1 : load[l].kind = "put" => load[l].r # load[k].r}}

\* What the module may hold and what it surely holds when it comes to step i.
May(d, i)  == After(Drivers[d].load, i, Takings)
Must(d, i) == After(Drivers[d].load, i, {"get", "sure"})
End(d)     == Len(Drivers[d].load) + 1
Sources    == {"irq", "key0 irq"}      \* what lets the handler run

\* u comes after every source of M in list.
AfterSources(list, k, M) == \A src \in M \cap Sources : \E j \in 1..k - 1 : list[j] = src

\* Giving back list when it has come to step i is in order.
GivesBackInOrder(d, i, list) ==
    /\ list \in Seq(STRING)
    /\ \A k \in 1..Len(list) :
         \/ <<d, list[k]>> \in FreesAnyway
         \/ /\ list[k] \in Pins \cap Takes(d) /\ d \in FreesRefused
         \/ /\ list[k] \in Must(d, i) /\ \A j \in 1..Len(list) : list[j] = list[k] => j = k
    /\ \A r \in May(d, i) : r \in LeavesBehind(d) \cup Static \/ (\E k \in 1..Len(list) : list[k] = r)
    /\ <<d, "irq">> \notin Premature =>
         \A k \in 1..Len(list) : list[k] \in Drivers[d].irq => AfterSources(list, k, May(d, i))
    /\ <<d, "timer">> \notin Premature /\ "timer" \in Drivers[d].irq /\ May(d, i) \cap Sources # {} =>
         \E k \in 1..Len(list) : list[k] = "timer" /\ AfterSources(list, k, May(d, i))

Disciplined(d) ==
    LET dr == Drivers[d] IN
    /\ dr.load \in Seq([kind : {"get", "check", "try", "sure", "put"}, r : STRING \cup {NULL},
                         undo : Seq(STRING)])
    /\ \A i \in 1..Len(dr.load) :
         /\ dr.load[i].kind \in {"get", "check"} => GivesBackInOrder(d, i, dr.load[i].undo)
         /\ dr.load[i].kind = "sure" => dr.load[i].r \notin Shared
         /\ dr.load[i].kind = "put"  => dr.load[i].r \notin Shared \cup Sources
    /\ GivesBackInOrder(d, End(d), dr.exit)
    \* the node shows last, and finds what it uses
    /\ <<d, "file">> \notin Premature /\ dr.node # {} =>
         /\ \A i \in 1..Len(dr.load) : ~(dr.node \subseteq May(d, i))
         /\ dr.file \ {"code"} \subseteq Must(d, End(d)) \ Shared
    \* and so does the handler
    /\ <<d, "irq">> \notin Premature /\ dr.irq # {} =>
         /\ LeavesBehind(d) \cap Sources = {}
         /\ \A i \in 1..End(d) : May(d, i) \cap Sources # {} => dr.irq \subseteq Must(d, i) \ Shared
    \* a timer needs nothing but the code
    /\ <<d, "timer">> \notin Premature =>
         /\ d # "timer"
         /\ "timer" \in dr.irq => dr.timer \subseteq {"code"} /\ LeavesBehind(d) \cap Sources = {}

ASSUME NullAssumption  == NULL \notin Slot /\ NULL \notin Module
ASSUME ListsAssumption == \A d \in Module : Disciplined(d)
====
