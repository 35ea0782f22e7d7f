------------------------------- MODULE Lifecycle -------------------------------
(***************************************************************************)
(* Loading and unloading of the character drivers: what their init and     *)
(* exit functions acquire and release, in which order, and what they do    *)
(* when a step fails.  Several drivers are loaded and unloaded at the same *)
(* time and share the kernel's tables: the device numbers, the map from    *)
(* numbers to cdevs and the names of the classes.  Programs open the       *)
(* device files meanwhile.                                                 *)
(*                                                                         *)
(* The tables are external and modelled as the drivers meet them:          *)
(*   - a dynamic device number is the largest that is free;                *)
(*   - cdev_add puts a cdev in front of the others with its number and     *)
(*     cdev_del removes the one in front, whosever it is;                  *)
(*   - class_create fails if the name is taken; device_create fails and    *)
(*     device_destroy crashes on the error pointer it returns then;        *)
(*   - an open takes a reference on the module (fops.owner) unless it is   *)
(*     being unloaded, and unloading is refused while there are any; the   *)
(*     references do not count when the module's own init has failed.      *)
(* Number 0 is what dev_num holds if no number was allocated.              *)
(***************************************************************************)
EXTENDS Integers, Sequences, FiniteSetsExt, SequencesExt

CONSTANTS Drivers,     (* the drivers at hand, names in the table below      *)
          LastNumber,  (* dynamic numbers are 1..LastNumber                  *)
          MaxLoaded,   (* bound: drivers in memory at the same time          *)
          Alone        (* bound: drivers that are in memory with no other    *)

Nobody == "nobody"

-----------------------------------------------------------------------------
(* The drivers: what init acquires, which failures it checks and what it   *)
(* then undoes, what exit releases, and the name of the class.             *)

(* Mutant: exit unregisters the number twice. *)
NumberTwice == <<"dev_num", "cdev", "device", "class", "dev_num">>

(* Mutant: exit destroys the class before the device that is in it. *)
ClassBeforeDevice == <<"dev_num", "cdev", "class", "device">>

NumberFirst == <<"dev_num", "cdev", "device", "class">>
NumberLast  == <<"device", "class", "cdev", "dev_num">>
FourSteps   == <<"dev_num", "cdev", "class", "device">>

(* Mutant: a failing device_create jumps past the label of the number. *)
GotoErrShort == [dev_num |-> <<>>,
                 cdev    |-> <<"dev_num">>,
                 class   |-> <<"cdev", "dev_num">>,
                 device  |-> <<"class", "cdev">>]

GotoErr == [dev_num |-> <<>>,
            cdev    |-> <<"dev_num">>,
            class   |-> <<"cdev", "dev_num">>,
            device  |-> <<"class", "cdev", "dev_num">>]

(* The drivers that check every step and jump to an err_ label.            *)
Checking == [init |-> FourSteps, checked |-> DOMAIN GotoErr, undo |-> GotoErr,
             exit |-> NumberFirst, class |-> "test"]

(* The drivers that log a failure, if that, and go on.                     *)
Ignoring(init, exit, class) ==
    [init |-> init, checked |-> {}, undo |-> GotoErr, exit |-> exit, class |-> class]

dev_t       == Ignoring(<<"dev_num">>, <<"dev_num">>, "")
module_cdev == Ignoring(<<"dev_num", "cdev">>, <<"dev_num", "cdev">>, "")
file        == Ignoring(FourSteps, NumberFirst, "test")
usr         == Ignoring(FourSteps, NumberFirst, "test")
(* ioremap reports failure by NULL, which IS_ERR does not see; nothing     *)
(* undoes it.                                                              *)
private_data == [Checking EXCEPT !.init = Append(FourSteps, "regs")]
led          == [Checking EXCEPT !.init = Append(FourSteps, "regs")]
atom        == Ignoring(FourSteps, NumberLast, "class_test")
spin_lock   == Ignoring(FourSteps, NumberLast, "class_test")
sem         == Ignoring(FourSteps, NumberLast, "class_test")
mutex       == Ignoring(FourSteps, NumberLast, "class_test")
wait_queue    == Checking
no_wait_queue == Checking
poll          == Checking
(* cdev_add is missing; its err_ labels and its exit call cdev_del.        *)
timer_dev     == [Checking EXCEPT !.init = <<"dev_num", "class", "device">>]
llseek_dev    == Checking
ioctl_dev     == Checking
ioctl02_dev   == Checking
ioctl03_dev   == Checking
timerlib_dev  == Checking
misc == [init |-> <<"misc">>, checked |-> {"misc"}, undo |-> [misc |-> <<>>],
         exit |-> <<"misc">>, class |-> ""]

(* 08 has two devices under two minors of one number.  Its exit gives back *)
(* the number in parts, which the kernel does not know, and destroys the   *)
(* second device by a number that it never had: "other_" in the table.     *)
private_data_test ==
    Ignoring(<<"dev_num", "cdev", "class", "device", "cdev2", "class2", "device2">>,
             <<"other_num", "other_num", "cdev", "device", "class",
               "cdev2", "other_device", "class2">>, "test1")

Table ==
    [dev_t |-> dev_t, module_cdev |-> module_cdev, file |-> file, usr |-> usr,
     private_data |-> private_data, led |-> led,
     atom |-> atom, spin_lock |-> spin_lock, sem |-> sem, mutex |-> mutex,
     wait_queue |-> wait_queue, no_wait_queue |-> no_wait_queue, poll |-> poll,
     timer_dev |-> timer_dev, llseek_dev |-> llseek_dev, ioctl_dev |-> ioctl_dev,
     ioctl02_dev |-> ioctl02_dev, ioctl03_dev |-> ioctl03_dev,
     timerlib_dev |-> timerlib_dev, misc |-> misc, private_data_test |-> private_data_test]

Resources == {"dev_num", "cdev", "class", "device", "regs", "misc",
              "cdev2", "class2", "device2"}
Missed == {"other_num", "other_device"}
ClassNames == {"test", "class_test", "test1"}
Numbers == 0..LastNumber

ASSUME DriversAssumption == Drivers \subseteq DOMAIN Table
ASSUME AloneAssumption == Alone \subseteq Drivers
ASSUME BoundsAssumption == LastNumber \in Nat \ {0} /\ MaxLoaded \in Nat \ {0}

-----------------------------------------------------------------------------
VARIABLES phase,     (* where each module is in its life                     *)
          todo,      (* steps of init, of its error path or of exit to come  *)
          num,       (* the driver's dev_num                                 *)
          held,      (* what the driver has acquired since it was last       *)
                     (* loaded and not released                              *)
          chrdevs,   (* owner of each device number                          *)
          cdev_map,  (* the cdevs of each number, by driver, the one that    *)
                     (* an open finds first                                  *)
          classes,   (* owner of each class name                             *)
          openers,   (* drivers whose device file is open                    *)
          clash      (* dev_t has gone on without the number it was given    *)
                     (* (history)                                            *)

tables == <<chrdevs, cdev_map, classes>>
vars == <<phase, todo, num, held, tables, openers, clash>>

Phases == {"unloaded", "init", "unwind", "live", "exit", "oops"}

TypeOK ==
    /\ phase \in [Drivers -> Phases]
    /\ todo \in [Drivers -> Seq(Resources \cup Missed)]
    /\ num \in [Drivers -> Numbers]
    /\ held \in [Drivers -> SUBSET Resources]
    /\ chrdevs \in [Numbers -> Drivers \cup {Nobody}]
    /\ cdev_map \in [Numbers -> Seq(Drivers)]
    /\ classes \in [ClassNames -> Drivers \cup {Nobody}]
    /\ openers \in SUBSET Drivers
    /\ clash \in BOOLEAN

Init ==
    /\ phase = [d \in Drivers |-> "unloaded"]
    /\ todo = [d \in Drivers |-> <<>>]
    /\ num = [d \in Drivers |-> 0]
    /\ held = [d \in Drivers |-> {}]
    /\ chrdevs = [n \in Numbers |-> Nobody]
    /\ cdev_map = [n \in Numbers |-> <<>>]
    /\ classes = [c \in ClassNames |-> Nobody]
    /\ openers = {}
    /\ clash = FALSE

Move(d, from, to) ==
    /\ phase[d] = from
    /\ phase' = [phase EXCEPT ![d] = to]

InMemory == {e \in Drivers : phase[e] # "unloaded"}

(* An open can find the cdev of this driver, which is not in memory.       *)
Stale(d) == phase[d] = "unloaded" /\ \E n \in Numbers : Contains(cdev_map[n], d)

(* A program has the device of this driver, which is not in memory, open.  *)
Orphaned(d) == phase[d] = "unloaded" /\ d \in openers

(* The exit of this driver, 08, has not released everything.               *)
Remains(d) == phase[d] = "unloaded" /\ held[d] \cap {"dev_num", "device2"} # {}

-----------------------------------------------------------------------------
(* insmod: the init function, step by step.                                *)

(* The module is new memory, all zero: a mapping that an earlier load has  *)
(* leaked is out of its reach.                                             *)
(* Bound: nothing is loaded any more after a crash, or once a program can  *)
(* reach a module that is not in memory, or 08 has left something behind.  *)
Load(d) ==
    /\ Cardinality(InMemory) < MaxLoaded
    /\ InMemory # {} => (InMemory \cup {d}) \cap Alone = {}
    /\ \A e \in Drivers : phase[e] # "oops" /\ ~Stale(e) /\ ~Orphaned(e) /\ ~Remains(e)
    /\ Move(d, "unloaded", "init")
    /\ todo' = [todo EXCEPT ![d] = Table[d].init]
    /\ held' = [held EXCEPT ![d] = {}]
    /\ UNCHANGED <<num, tables, openers, clash>>

Take(d, r) ==
    /\ phase[d] = "init"
    /\ todo[d] # <<>> /\ Head(todo[d]) = r
    /\ todo' = [todo EXCEPT ![d] = Tail(@)]
    /\ held' = [held EXCEPT ![d] = @ \cup {r}]
    /\ UNCHANGED <<phase, openers, clash>>

FreeNumbers == {n \in 1..LastNumber : chrdevs[n] = Nobody}

AllocChrdevRegion(d) ==
    /\ FreeNumbers # {}
    /\ Take(d, "dev_num")
    /\ num' = [num EXCEPT ![d] = Max(FreeNumbers)]
    /\ chrdevs' = [chrdevs EXCEPT ![Max(FreeNumbers)] = d]
    /\ UNCHANGED <<cdev_map, classes>>

(* 03_dev_t with the parameters major and minor: it asks for the number n, *)
(* and if it does not get it goes on as if it had.                         *)
(* Mutant: the number kept is the one after the number asked for. *)
RegisterOffByOne(d, n) ==
    /\ d = "dev_t" /\ chrdevs[n] = Nobody
    /\ Take(d, "dev_num")
    /\ num' = [num EXCEPT ![d] = n + 1]
    /\ chrdevs' = [chrdevs EXCEPT ![n] = d]
    /\ UNCHANGED <<cdev_map, classes>>

RegisterChrdevRegion(d, n) ==
    /\ d = "dev_t" /\ chrdevs[n] = Nobody
    /\ Take(d, "dev_num")
    /\ num' = [num EXCEPT ![d] = n]
    /\ chrdevs' = [chrdevs EXCEPT ![n] = d]
    /\ UNCHANGED <<cdev_map, classes>>

RegisterFails(d, n) ==
    /\ d = "dev_t" /\ phase[d] = "init" /\ todo[d] # <<>>
    /\ todo' = [todo EXCEPT ![d] = Tail(@)]
    /\ num' = [num EXCEPT ![d] = n]
    /\ clash' = TRUE
    /\ UNCHANGED <<phase, held, tables, openers>>

CdevAdd(d) ==
    /\ Take(d, "cdev")
    /\ cdev_map' = [cdev_map EXCEPT ![num[d]] = <<d>> \o @]
    /\ UNCHANGED <<num, chrdevs, classes>>

ClassCreate(d) ==
    /\ Take(d, "class")
    /\ classes[Table[d].class] = Nobody
    /\ classes' = [classes EXCEPT ![Table[d].class] = d]
    /\ UNCHANGED <<num, chrdevs, cdev_map>>

DeviceCreate(d) ==
    /\ "class" \in held[d]
    /\ Take(d, "device")
    /\ UNCHANGED <<num, tables>>

Ioremap(d) ==
    /\ Take(d, "regs")
    /\ UNCHANGED <<num, tables>>

(* 09: no number, cdev or class of its own.                                *)
MiscRegister(d) ==
    /\ Take(d, "misc")
    /\ UNCHANGED <<num, tables>>

(* The second cdev, class and device of 08; nobody else uses their names.  *)
TakeSecond(d, r) ==
    /\ r = "device2" => "class2" \in held[d]
    /\ Take(d, r)
    /\ UNCHANGED <<num, tables>>

(* Any step can fail for want of memory.                                   *)
Fails(d, checked) ==
    /\ phase[d] = "init"
    /\ todo[d] # <<>> /\ (Head(todo[d]) \in Table[d].checked) = checked
    /\ UNCHANGED <<num, held, tables, openers, clash>>

FailureChecked(d) ==
    /\ Fails(d, TRUE)
    /\ Move(d, "init", "unwind")
    /\ todo' = [todo EXCEPT ![d] = Table[d].undo[Head(@)]]

FailureIgnored(d) ==
    /\ Fails(d, FALSE)
    /\ todo' = [todo EXCEPT ![d] = Tail(@)]
    /\ UNCHANGED phase

InitDone(d) ==
    /\ todo[d] = <<>>
    /\ Move(d, "init", "live")
    /\ UNCHANGED <<todo, num, held, tables, openers, clash>>

-----------------------------------------------------------------------------
(* rmmod, and the error path of init.                                      *)

(* Mutant: the file operations have no owner, so nothing counts who uses   *)
(* the module.                                                             *)
UnloadUnowned(d) ==
    /\ Move(d, "live", "exit")
    /\ todo' = [todo EXCEPT ![d] = Table[d].exit]
    /\ UNCHANGED <<num, held, tables, openers, clash>>

Unload(d) ==
    /\ d \notin openers
    /\ Move(d, "live", "exit")
    /\ todo' = [todo EXCEPT ![d] = Table[d].exit]
    /\ UNCHANGED <<num, held, tables, openers, clash>>

Drop(d, r) ==
    /\ phase[d] \in {"unwind", "exit"}
    /\ todo[d] # <<>> /\ Head(todo[d]) = r
    /\ todo' = [todo EXCEPT ![d] = Tail(@)]
    /\ held' = [held EXCEPT ![d] = @ \ {r}]
    /\ UNCHANGED <<num, openers, clash>>

UnregisterChrdevRegion(d) ==
    /\ Drop(d, "dev_num")
    /\ chrdevs' = IF num[d] = 0 THEN chrdevs ELSE [chrdevs EXCEPT ![num[d]] = Nobody]
    /\ UNCHANGED <<phase, cdev_map, classes>>

(* A cdev that no cdev_add was called for is in no map; one whose cdev_add *)
(* failed still has its number in it.                                      *)
CdevDel(d) ==
    /\ Drop(d, "cdev")
    /\ cdev_map' = IF Contains(Table[d].init, "cdev") /\ cdev_map[num[d]] # <<>>
                   THEN [cdev_map EXCEPT ![num[d]] = Tail(@)] ELSE cdev_map
    /\ UNCHANGED <<phase, chrdevs, classes>>

DeviceDestroy(d) ==
    /\ "class" \in held[d]
    /\ Drop(d, "device")
    /\ UNCHANGED <<phase, tables>>

(* device_destroy looks into the class, here an error pointer.             *)
DeviceDestroyOops(d) ==
    /\ todo[d] # <<>>
    /\ \/ Head(todo[d]) = "device" /\ "class" \notin held[d]
       \/ Head(todo[d]) = "other_device" /\ "class2" \notin held[d]
    /\ Move(d, "exit", "oops")
    /\ UNCHANGED <<todo, num, held, tables, openers, clash>>

ClassDestroy(d) ==
    /\ Drop(d, "class")
    /\ classes' = IF "class" \in held[d]
                  THEN [classes EXCEPT ![Table[d].class] = Nobody] ELSE classes
    /\ UNCHANGED <<phase, chrdevs, cdev_map>>

MiscDeregister(d) ==
    /\ Drop(d, "misc")
    /\ UNCHANGED <<phase, tables>>

DropSecond(d, r) ==
    /\ Drop(d, r)
    /\ UNCHANGED <<phase, tables>>

(* unregister_chrdev_region of one minor where two were registered, and    *)
(* device_destroy with a number that no device of the class has.           *)
ReleaseMissed(d) ==
    /\ phase[d] = "exit"
    /\ todo[d] # <<>> /\ Head(todo[d]) \in Missed
    /\ Head(todo[d]) = "other_device" => "class2" \in held[d]
    /\ todo' = [todo EXCEPT ![d] = Tail(@)]
    /\ UNCHANGED <<phase, num, held, tables, openers, clash>>

(* The module's memory is freed.  What it still holds stays held: a leak.  *)
FreeModule(d) ==
    /\ todo[d] = <<>>
    /\ phase[d] \in {"unwind", "exit"}
    /\ phase' = [phase EXCEPT ![d] = "unloaded"]
    /\ num' = [num EXCEPT ![d] = 0]
    /\ UNCHANGED <<todo, held, tables, openers, clash>>

-----------------------------------------------------------------------------
(* Programs.  open(2) on a number finds the cdev in front and takes a      *)
(* reference on its module; FreeModule lets them finish what they do.      *)

Open(n) ==
    /\ cdev_map[n] # <<>>
    /\ phase[Head(cdev_map[n])] \in {"init", "unwind", "live"}
    /\ openers' = openers \cup {Head(cdev_map[n])}
    /\ UNCHANGED <<phase, todo, num, held, tables, clash>>

(* The devices that are found by another way than cdev_map.                *)
OpenByMinor(d) ==
    /\ {"misc", "cdev2"} \cap held[d] # {}
    /\ phase[d] \in {"init", "unwind", "live"}
    /\ openers' = openers \cup {d}
    /\ UNCHANGED <<phase, todo, num, held, tables, clash>>

Close(d) ==
    /\ d \in openers
    /\ openers' = openers \ {d}
    /\ UNCHANGED <<phase, todo, num, held, tables, clash>>

-----------------------------------------------------------------------------
Insmod(d) ==
    \/ Load(d) \/ AllocChrdevRegion(d) \/ CdevAdd(d) \/ ClassCreate(d)
    \/ DeviceCreate(d) \/ Ioremap(d) \/ MiscRegister(d)
    \/ \E r \in {"cdev2", "class2", "device2"} : TakeSecond(d, r)
    \/ FailureChecked(d) \/ FailureIgnored(d)
    \/ \E n \in 1..LastNumber : RegisterChrdevRegion(d, n) \/ RegisterFails(d, n)
    \/ InitDone(d)

Rmmod(d) ==
    \/ Unload(d) \/ UnregisterChrdevRegion(d) \/ CdevDel(d) \/ DeviceDestroy(d)
    \/ DeviceDestroyOops(d) \/ ClassDestroy(d) \/ MiscDeregister(d)
    \/ \E r \in {"cdev2", "class2"} : DropSecond(d, r)
    \/ ReleaseMissed(d) \/ FreeModule(d)

Next ==
    \/ \E d \in Drivers : Insmod(d) \/ Rmmod(d) \/ OpenByMinor(d) \/ Close(d)
    \/ \E n \in Numbers : Open(n)

Spec == Init /\ [][Next]_vars

-----------------------------------------------------------------------------
(* A driver that is not in memory owns no device number and no class: the  *)
(* error path taken from any failing step, and exit after an init that     *)
(* ignored any failures, release just what init had got, while other       *)
(* drivers take and release the same numbers and names.  The exceptions    *)
(* are the registers that 07 and 10 map and never unmap, and the number    *)
(* and the second device of 08, whose exit misses them.                    *)
Leftovers(d) ==
    IF d = "private_data_test" THEN {"dev_num", "device2"} ELSE {"regs"}

NothingLeft ==
    \A d \in Drivers : phase[d] = "unloaded" =>
        /\ held[d] \subseteq Leftovers(d)
        /\ \A n \in Numbers : chrdevs[n] = d => "dev_num" \in Leftovers(d)
        /\ \A c \in ClassNames : classes[c] # d

(* While a driver's init is done and its exit has not begun, its number is *)
(* its own: no other driver's exit has released it.  Only 03_dev_t can do  *)
(* that, once it has gone on without the number that it was given.         *)
LiveKeepsNumber ==
    \A d \in Drivers :
        phase[d] = "live" /\ num[d] # 0 /\ ~clash => chrdevs[num[d]] = d

(* A crash has one of two causes.  Exit destroys a device whose class init *)
(* has failed to create, gone on without, and exit would destroy later: so *)
(* no order of steps crashes a driver that checks its class, or one whose  *)
(* class was created, whatever other drivers do to the names.  Or a write  *)
(* (LedDevice) stores into registers that this load has not mapped: before *)
(* the end of init, or for good when ioremap has failed.                   *)
OnlyUncheckedOops ==
    \A d \in Drivers : phase[d] = "oops" =>
        \/ \E r \in {"class", "class2"} :
              /\ Contains(Table[d].init, r) /\ r \notin Table[d].checked
              /\ r \notin held[d] /\ Contains(todo[d], r)
        \/ Contains(Table[d].init, "regs") /\ "regs" \notin held[d]

(* No step begins the exit of a module, or frees its memory, while a       *)
(* program has its device open, unless it is the memory of a module whose  *)
(* init fails: then nothing keeps it, and the open file outlives the code. *)
OpenKeepsModule ==
    [][\A d \in openers :
          phase'[d] \in {"exit", "unloaded"} => phase'[d] = phase[d] \/ phase[d] = "unwind"]_vars

(* What the comment at cdev_del says: it deletes this driver's cdev.  The  *)
(* code breaks it by releasing the number first: another driver can take   *)
(* the number and add its cdev in front.                                   *)
CdevDelDeletesCdev == \A d \in Drivers : ~Stale(d)
=============================================================================
