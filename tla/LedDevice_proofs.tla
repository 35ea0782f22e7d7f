---------------------------- MODULE LedDevice_proofs ----------------------------
(***************************************************************************)
(* Proofs about LedDevice, and so about Lifecycle with a driver that is    *)
(* written to, for any of the drivers, any number of device numbers, of    *)
(* drivers in memory and of writers: type correctness, that init's error   *)
(* paths and exit release what they should, that a live driver keeps its   *)
(* number, what crashes a driver, that an open file keeps its module, and  *)
(* that the light follows the writes.                                      *)
(***************************************************************************)
EXTENDS LedDevice, SequenceTheorems, WellFoundedInduction, TLAPS

-----------------------------------------------------------------------------
(* Sequences of steps.                                                     *)

StepNames == Resources \cup Missed

Elems(t) == {t[i] : i \in 1..Len(t)}

NoRepeat(t) == \A i, j \in 1..Len(t) : t[i] = t[j] /\ t[i] \in Resources => i = j

(* Each device goes before its class.                                      *)
ClassOf == [device |-> "class", other_device |-> "class2"]

ClassLater(t) ==
    \A i \in 1..Len(t) : t[i] \in DOMAIN ClassOf =>
        \E j \in (i + 1)..Len(t) : t[j] = ClassOf[t[i]]

(* t is what is left of s, and Done is what is not.                        *)
Rest(t, s) ==
    /\ Len(t) <= Len(s)
    /\ \A i \in 1..Len(t) : t[i] = s[Len(s) - Len(t) + i]

Done(t, s) == {s[i] : i \in 1..(Len(s) - Len(t))}

-----------------------------------------------------------------------------
(* The invariant.  An init function has got nothing but what it has come   *)
(* to, and of that all that it checks; what the error path and exit still  *)
(* have to do covers what is held, but for the leftovers.                  *)
InitOK(d) ==
    phase[d] = "init" =>
        /\ Rest(todo[d], Table[d].init)
        /\ held[d] \subseteq Done(todo[d], Table[d].init)
        /\ Done(todo[d], Table[d].init) \cap Table[d].checked \subseteq held[d]

LiveOK(d) ==
    phase[d] = "live" =>
        /\ held[d] \subseteq Elems(Table[d].init)
        /\ Elems(Table[d].init) \cap Table[d].checked \subseteq held[d]

ReleaseOK(d) ==
    phase[d] \in {"unwind", "exit"} =>
        /\ NoRepeat(todo[d])
        /\ held[d] \subseteq Elems(todo[d]) \cup Leftovers(d)

(* A class that init may have gone on without.                             *)
Unchecked(d, c) == Contains(Table[d].init, c) /\ c \notin Table[d].checked

ExitOK(d) ==
    phase[d] = "exit" =>
        /\ ClassLater(todo[d])
        /\ \A c \in {"class", "class2"} :
              c \in Elems(todo[d]) => c \in held[d] \/ Unchecked(d, c)

UnloadedOK(d) == phase[d] = "unloaded" => held[d] \subseteq Leftovers(d) /\ num[d] = 0

ExitNotOpen(d) == phase[d] = "exit" => d \notin openers

Stage(d) ==
    /\ InitOK(d) /\ LiveOK(d) /\ ReleaseOK(d) /\ ExitOK(d)
    /\ UnloadedOK(d) /\ ExitNotOpen(d)

StagesOK == \A d \in Drivers : Stage(d)

(* The tables name nobody who does not hold what they say, and a driver    *)
(* that has a number is in the table until it gives the number back.       *)
NumbersOK ==
    /\ chrdevs[0] = Nobody
    /\ \A d \in Drivers : \A n \in Numbers :
          chrdevs[n] = d => "dev_num" \in held[d] /\ (num[d] = n \/ phase[d] = "unloaded")

Keeps(d) ==
    \/ phase[d] \in {"init", "live"}
    \/ phase[d] \in {"unwind", "exit"} /\ "dev_num" \in Elems(todo[d])

NumberKept == ~clash => \A d \in Drivers : num[d] # 0 /\ Keeps(d) => chrdevs[num[d]] = d

ClassesOK ==
    \A d \in Drivers : \A c \in ClassNames :
        classes[c] = d => "class" \in held[d] /\ c = Table[d].class

(* While a write is in progress one has been copied, kbuf holds what one   *)
(* has left there, and who is about to store has read such a byte.         *)
BurstOK ==
    /\ ~Quiet => "copied" \in burst /\ kbuf0 \in burst
    /\ \A p \in Writers : /\ wpc[p] = "on" => "1" \in burst
                          /\ wpc[p] = "off" => "0" \in burst
    /\ LightFollows

LifeInv ==
    /\ TypeOK /\ StagesOK /\ NumbersOK /\ NumberKept /\ ClassesOK
    /\ OnlyUncheckedOops

IInv == LedTypeOK /\ LifeInv /\ BurstOK

-----------------------------------------------------------------------------
(* What a Tail does to these.                                              *)
LEMMA TailElems ==
  ASSUME NEW A, NEW t \in Seq(A), t # <<>>
  PROVE  /\ Tail(t) \in Seq(A) /\ Head(t) \in A
         /\ Elems(t) = {Head(t)} \cup Elems(Tail(t))
         /\ NoRepeat(t) => /\ NoRepeat(Tail(t))
                           /\ Head(t) \in Resources => Head(t) \notin Elems(Tail(t))
         /\ ClassLater(t) =>
              /\ ClassLater(Tail(t))
              /\ Head(t) \in DOMAIN ClassOf => ClassOf[Head(t)] \in Elems(Tail(t))
<1>1. /\ Tail(t) \in Seq(A) /\ Head(t) \in A /\ Head(t) = t[1]
      /\ Len(t) \in Nat \ {0} /\ Len(Tail(t)) = Len(t) - 1
      /\ \A i \in 1..(Len(t) - 1) : Tail(t)[i] = t[i + 1]
  OBVIOUS
<1>2. \A i \in 1..Len(t) : i = 1 \/ (i - 1 \in 1..(Len(t) - 1) /\ t[i] = Tail(t)[i - 1])
  <2>1. \A i \in 1..Len(t) : i = 1 \/ (i - 1 \in 1..(Len(t) - 1) /\ (i - 1) + 1 = i)
    BY <1>1
  <2> QED
    BY <1>1, <2>1
<1>3. Elems(t) = {Head(t)} \cup Elems(Tail(t))
  <2>1. ASSUME NEW i \in 1..Len(t) PROVE t[i] \in {Head(t)} \cup Elems(Tail(t))
    <3>1. CASE i = 1
      BY <1>1, <3>1
    <3>2. CASE i # 1
      BY <1>1, <1>2, <3>2 DEF Elems
    <3> QED
      BY <3>1, <3>2
  <2>2. 1 \in 1..Len(t) /\ \A i \in 1..(Len(t) - 1) : i + 1 \in 1..Len(t)
    BY <1>1
  <2>3. {Head(t)} \cup Elems(Tail(t)) \subseteq Elems(t)
    BY <1>1, <2>2 DEF Elems
  <2> QED
    BY <2>1, <2>3 DEF Elems
<1>4. NoRepeat(t) => /\ NoRepeat(Tail(t))
                     /\ Head(t) \in Resources => Head(t) \notin Elems(Tail(t))
  BY <1>1 DEF NoRepeat, Elems
<1>5. ClassLater(t) => ClassLater(Tail(t))
  <2> SUFFICES ASSUME ClassLater(t), NEW i \in 1..(Len(t) - 1), Tail(t)[i] \in DOMAIN ClassOf
               PROVE  \E j \in (i + 1)..(Len(t) - 1) : Tail(t)[j] = ClassOf[Tail(t)[i]]
    BY <1>1 DEF ClassLater
  <2>1. PICK j \in (i + 2)..Len(t) : t[j] = ClassOf[Tail(t)[i]]
    <3>1. i + 1 \in 1..Len(t) /\ t[i + 1] = Tail(t)[i] /\ (i + 1) + 1 = i + 2
      BY <1>1
    <3> QED
      BY <3>1 DEF ClassLater
  <2>2. j - 1 \in (i + 1)..(Len(t) - 1) /\ j \in 1..Len(t) /\ j # 1
    BY <1>1
  <2> QED
    BY <1>2, <2>1, <2>2
<1>6. ClassLater(t) /\ Head(t) \in DOMAIN ClassOf => ClassOf[Head(t)] \in Elems(Tail(t))
  <2> SUFFICES ASSUME ClassLater(t), Head(t) \in DOMAIN ClassOf
               PROVE  ClassOf[Head(t)] \in Elems(Tail(t))
    OBVIOUS
  <2>1. PICK j \in 2..Len(t) : t[j] = ClassOf[Head(t)]
    BY <1>1 DEF ClassLater
  <2>2. j \in 1..Len(t) /\ j # 1
    BY <1>1
  <2>3. j - 1 \in 1..Len(Tail(t)) /\ t[j] = Tail(t)[j - 1]
    BY <1>1, <1>2, <2>2
  <2> QED
    BY <2>1, <2>3 DEF Elems
<1> QED
  BY <1>1, <1>3, <1>4, <1>5, <1>6

LEMMA TailRest ==
  ASSUME NEW A, NEW s \in Seq(A), NEW t \in Seq(A), t # <<>>, Rest(t, s)
  PROVE  /\ Rest(Tail(t), s)
         /\ Done(Tail(t), s) = Done(t, s) \cup {Head(t)}
         /\ \E k \in 1..Len(s) : s[k] = Head(t) /\ Done(t, s) = {s[i] : i \in 1..(k - 1)}
<1>1. /\ Head(t) = t[1]
      /\ Len(t) \in Nat \ {0} /\ Len(Tail(t)) = Len(t) - 1 /\ Len(s) \in Nat
      /\ \A i \in 1..(Len(t) - 1) : Tail(t)[i] = t[i + 1]
  OBVIOUS
<1> DEFINE k == Len(s) - Len(t) + 1
<1>2. k \in 1..Len(s) /\ s[k] = Head(t)
  BY <1>1 DEF Rest
<1>3. Len(s) - Len(t) = k - 1 /\ Len(s) - Len(Tail(t)) = k
  BY <1>1
<1>4. Rest(Tail(t), s)
  <2>1. Len(Tail(t)) <= Len(s)
    BY <1>1 DEF Rest
  <2>2. ASSUME NEW i \in 1..Len(Tail(t))
        PROVE  Tail(t)[i] = s[Len(s) - Len(Tail(t)) + i]
    <3>1. i \in 1..(Len(t) - 1) /\ i + 1 \in 1..Len(t)
      BY <1>1
    <3>2. Len(s) - Len(t) + (i + 1) = Len(s) - Len(Tail(t)) + i
      BY <1>1
    <3> QED
      BY <1>1, <3>1, <3>2 DEF Rest
  <2> QED
    BY <2>1, <2>2 DEF Rest
<1> HIDE DEF k
<1>5. Done(t, s) = {s[i] : i \in 1..(k - 1)} /\ Done(Tail(t), s) = {s[i] : i \in 1..k}
  BY <1>3 DEF Done
<1>6. 1..k = 1..(k - 1) \cup {k}
  BY <1>1, <1>2
<1>7. Done(Tail(t), s) = Done(t, s) \cup {Head(t)}
  BY <1>2, <1>5, <1>6
<1> QED
  BY <1>2, <1>4, <1>5, <1>7

(* The beginning and the end of an init function.                          *)
LEMMA RestBounds ==
  ASSUME NEW A, NEW s \in Seq(A)
  PROVE  Rest(s, s) /\ Done(s, s) = {} /\ Done(<<>>, s) = Elems(s)
<1>1. Len(s) \in Nat /\ Len(<<>>) = 0
  OBVIOUS
<1>2. \A i \in 1..Len(s) : Len(s) - Len(s) + i = i
  BY <1>1
<1>3. 1..(Len(s) - Len(s)) = {} /\ 1..(Len(s) - 0) = 1..Len(s)
  BY <1>1
<1> QED
  BY <1>1, <1>2, <1>3 DEF Rest, Done, Elems

-----------------------------------------------------------------------------
(* What the rows of the table have in common.  The error path from a step  *)
(* undoes the steps before it, exit undoes all of init, both each of them  *)
(* once, but for the leftovers; exit destroys each device before its class,*)
(* and no class that init would not create; and a driver that checks any   *)
(* step checks its classes.                                                *)
StepsOK(init, exit, left) ==
    /\ init \in Seq(StepNames) /\ NoRepeat(init)
    /\ exit \in Seq(StepNames) /\ NoRepeat(exit)
    /\ Elems(init) \subseteq Elems(exit) \cup left

UndoOK(row, left) ==
    \A k \in 1..Len(row.init) : row.init[k] \in row.checked =>
        /\ row.undo[row.init[k]] \in Seq(StepNames) /\ NoRepeat(row.undo[row.init[k]])
        /\ \A i \in 1..(k - 1) : row.init[i] \in Elems(row.undo[row.init[k]]) \cup left

ExitOrder(row) ==
    /\ ClassLater(row.exit)
    /\ \A c \in {"class", "class2"} : c \in Elems(row.exit) => Contains(row.init, c)
    /\ row.checked # {} => \A c \in {"class", "class2"} : Contains(row.init, c) => c \in row.checked

RowOK(row, left) ==
    StepsOK(row.init, row.exit, left) /\ UndoOK(row, left) /\ ExitOrder(row)

LEMMA UndoGotoErr ==
  /\ \A r \in {"dev_num", "cdev", "class", "device"} :
        GotoErr[r] \in Seq(StepNames) /\ NoRepeat(GotoErr[r])
  /\ Elems(GotoErr["cdev"]) = {"dev_num"}
  /\ Elems(GotoErr["class"]) = {"cdev", "dev_num"}
  /\ Elems(GotoErr["device"]) = {"class", "cdev", "dev_num"}
<1>1. /\ GotoErr["dev_num"] = <<>>
      /\ GotoErr["cdev"] = <<"dev_num">>
      /\ GotoErr["class"] = <<"cdev", "dev_num">>
      /\ GotoErr["device"] = <<"class", "cdev", "dev_num">>
  BY DEF GotoErr
<1>2. <<>> \in Seq(StepNames) /\ NoRepeat(<<>>)
  BY DEF NoRepeat
<1>3. <<"dev_num">> \in Seq(StepNames) /\ NoRepeat(<<"dev_num">>)
  BY DEF NoRepeat, StepNames, Resources
<1>4. <<"cdev", "dev_num">> \in Seq(StepNames) /\ NoRepeat(<<"cdev", "dev_num">>)
  BY DEF NoRepeat, StepNames, Resources
<1>5. /\ <<"class", "cdev", "dev_num">> \in Seq(StepNames)
      /\ NoRepeat(<<"class", "cdev", "dev_num">>)
  BY DEF NoRepeat, StepNames, Resources
<1>6. /\ Elems(GotoErr["cdev"]) = {"dev_num"}
      /\ Elems(GotoErr["class"]) = {"cdev", "dev_num"}
      /\ Elems(GotoErr["device"]) = {"class", "cdev", "dev_num"}
  BY <1>1 DEF Elems
<1> QED
  BY <1>1, <1>2, <1>3, <1>4, <1>5, <1>6

LEMMA GotoErrDomain == DOMAIN GotoErr = {"dev_num", "cdev", "class", "device"}
BY DEF GotoErr

LEMMA CheckingOK == RowOK(Checking, {"regs"})
<1>1. /\ Checking.init = <<"dev_num", "cdev", "class", "device">>
      /\ Checking.checked = {"dev_num", "cdev", "class", "device"} /\ Checking.undo = GotoErr
      /\ Checking.exit = <<"dev_num", "cdev", "device", "class">>
  BY GotoErrDomain DEF Checking, FourSteps, NumberFirst
<1>2. \A k \in 1..Len(Checking.init) :
        \/ k = 1 /\ Checking.init[k] = "dev_num"
        \/ k = 2 /\ Checking.init[k] = "cdev"
        \/ k = 3 /\ Checking.init[k] = "class"
        \/ k = 4 /\ Checking.init[k] = "device"
  BY <1>1
<1>3. StepsOK(Checking.init, Checking.exit, {"regs"})
  BY <1>1 DEF StepsOK, Elems, NoRepeat, Resources, StepNames, Missed
<1>4. UndoOK(Checking, {"regs"})
  BY <1>1, <1>2, UndoGotoErr DEF UndoOK
<1>5. ExitOrder(Checking)
  BY <1>1 DEF ExitOrder, Elems, ClassLater, ClassOf, Contains
<1> QED
  BY <1>3, <1>4, <1>5 DEF RowOK

LEMMA TimerDevOK == RowOK(timer_dev, {"regs"})
<1>1. /\ timer_dev.init = <<"dev_num", "class", "device">>
      /\ timer_dev.checked = {"dev_num", "cdev", "class", "device"} /\ timer_dev.undo = GotoErr
      /\ timer_dev.exit = <<"dev_num", "cdev", "device", "class">>
  BY GotoErrDomain DEF timer_dev, Checking, NumberFirst
<1>2. \A k \in 1..Len(timer_dev.init) :
        \/ k = 1 /\ timer_dev.init[k] = "dev_num"
        \/ k = 2 /\ timer_dev.init[k] = "class"
        \/ k = 3 /\ timer_dev.init[k] = "device"
  BY <1>1
<1>3. StepsOK(timer_dev.init, timer_dev.exit, {"regs"})
  BY <1>1 DEF StepsOK, Elems, NoRepeat, Resources, StepNames, Missed
<1>4. UndoOK(timer_dev, {"regs"})
  BY <1>1, <1>2, UndoGotoErr DEF UndoOK
<1>5. ExitOrder(timer_dev)
  BY <1>1 DEF ExitOrder, Elems, ClassLater, ClassOf, Contains
<1> QED
  BY <1>3, <1>4, <1>5 DEF RowOK

LEMMA AppendElems ==
  ASSUME NEW A, NEW t \in Seq(A), NEW e \in A
  PROVE  /\ Append(t, e) \in Seq(A) /\ Len(Append(t, e)) = Len(t) + 1
         /\ \A i \in 1..Len(t) : Append(t, e)[i] = t[i]
         /\ Append(t, e)[Len(t) + 1] = e
OBVIOUS

LEMMA FiveElems ==
  ASSUME NEW A, NEW s \in Seq(A), Len(s) = 5
  PROVE  s = <<s[1], s[2], s[3], s[4], s[5]>>
OBVIOUS

LEMMA FourStepsRegs ==
  Append(FourSteps, "regs") = <<"dev_num", "cdev", "class", "device", "regs">>
<1> DEFINE s == Append(FourSteps, "regs")
<1>1. /\ FourSteps \in Seq(StepNames) /\ Len(FourSteps) = 4 /\ "regs" \in StepNames
      /\ FourSteps[1] = "dev_num" /\ FourSteps[2] = "cdev"
      /\ FourSteps[3] = "class" /\ FourSteps[4] = "device"
  BY DEF FourSteps, StepNames, Resources
<1>2. /\ s \in Seq(StepNames) /\ Len(s) = Len(FourSteps) + 1
      /\ \A i \in 1..Len(FourSteps) : s[i] = FourSteps[i]
      /\ s[Len(FourSteps) + 1] = "regs"
  <2> HIDE DEF s
  <2>1. \A t \in Seq(StepNames), e \in StepNames :
          /\ Append(t, e) \in Seq(StepNames) /\ Len(Append(t, e)) = Len(t) + 1
          /\ \A i \in 1..Len(t) : Append(t, e)[i] = t[i]
          /\ Append(t, e)[Len(t) + 1] = e
    BY AppendElems
  <2> QED
    BY <1>1, <2>1 DEF s
<1> HIDE DEF s
<1>3. /\ s \in Seq(StepNames) /\ Len(s) = 5
      /\ s[1] = "dev_num" /\ s[2] = "cdev" /\ s[3] = "class" /\ s[4] = "device"
      /\ s[5] = "regs"
  BY <1>1, <1>2
<1>4. s = <<"dev_num", "cdev", "class", "device", "regs">>
  BY <1>3, FiveElems
<1> QED
  BY <1>4 DEF s

LEMMA PrivateDataOK == RowOK(private_data, {"regs"})
<1>1. /\ private_data.init = <<"dev_num", "cdev", "class", "device", "regs">>
      /\ private_data.checked = {"dev_num", "cdev", "class", "device"} /\ private_data.undo = GotoErr
      /\ private_data.exit = <<"dev_num", "cdev", "device", "class">>
  BY GotoErrDomain, FourStepsRegs DEF private_data, Checking, NumberFirst
<1>2. \A k \in 1..Len(private_data.init) :
        \/ k = 1 /\ private_data.init[k] = "dev_num"
        \/ k = 2 /\ private_data.init[k] = "cdev"
        \/ k = 3 /\ private_data.init[k] = "class"
        \/ k = 4 /\ private_data.init[k] = "device"
        \/ k = 5 /\ private_data.init[k] = "regs"
  BY <1>1
<1>3. StepsOK(private_data.init, private_data.exit, {"regs"})
  BY <1>1 DEF StepsOK, Elems, NoRepeat, Resources, StepNames, Missed
<1>4. UndoOK(private_data, {"regs"})
  BY <1>1, <1>2, UndoGotoErr DEF UndoOK
<1>5. ExitOrder(private_data)
  BY <1>1 DEF ExitOrder, Elems, ClassLater, ClassOf, Contains
<1> QED
  BY <1>3, <1>4, <1>5 DEF RowOK

LEMMA MiscOK == RowOK(misc, {"regs"})
<1>1. /\ misc.init = <<"misc">> /\ misc.exit = <<"misc">> /\ misc.undo["misc"] = <<>>
  BY DEF misc
<1>2. /\ \A k \in 1..Len(misc.init) : 1..(k - 1) = {} /\ misc.init[k] = "misc"
      /\ <<>> \in Seq(StepNames) /\ NoRepeat(<<>>)
  BY <1>1 DEF NoRepeat
<1>3. StepsOK(misc.init, misc.exit, {"regs"})
  BY <1>1 DEF StepsOK, Elems, NoRepeat, Resources, StepNames
<1>4. UndoOK(misc, {"regs"})
  BY <1>1, <1>2 DEF UndoOK
<1>5. ExitOrder(misc)
  BY <1>1 DEF ExitOrder, Elems, ClassLater, ClassOf, Contains
<1> QED
  BY <1>3, <1>4, <1>5 DEF RowOK

(* The drivers that ignore failures have no error path.                    *)
LEMMA IgnoringOK ==
  /\ RowOK(dev_t, {"regs"}) /\ RowOK(module_cdev, {"regs"})
  /\ RowOK(file, {"regs"}) /\ RowOK(atom, {"regs"})
  /\ RowOK(private_data_test, {"dev_num", "device2"})
<1> USE DEF RowOK, StepsOK, UndoOK, ExitOrder, Ignoring, Elems, NoRepeat, StepNames,
            Resources, Missed, ClassLater, ClassOf, Contains
<1>1. RowOK(dev_t, {"regs"}) /\ RowOK(module_cdev, {"regs"})
  BY DEF dev_t, module_cdev
<1>2. RowOK(file, {"regs"})
  BY DEF file, FourSteps, NumberFirst
<1>3. RowOK(atom, {"regs"})
  BY DEF atom, FourSteps, NumberLast
<1>4. RowOK(private_data_test, {"dev_num", "device2"})
  BY DEF private_data_test
<1> QED
  BY <1>1, <1>2, <1>3, <1>4

LEMMA TableOK ==
  ASSUME NEW d \in Drivers
  PROVE  RowOK(Table[d], Leftovers(d))
<1>1. \/ d = "private_data_test" /\ Table[d] = private_data_test
      \/ /\ d # "private_data_test"
         /\ Table[d] \in {dev_t, module_cdev, file, atom, Checking, private_data,
                          timer_dev, misc}
  BY DriversAssumption DEF Table, usr, led, spin_lock, sem, mutex, wait_queue,
     no_wait_queue, poll, llseek_dev, ioctl_dev, ioctl02_dev, ioctl03_dev, timerlib_dev,
     file, atom, private_data
<1> QED
  BY <1>1, IgnoringOK, CheckingOK, PrivateDataOK, TimerDevOK, MiscOK, SMT DEF Leftovers

-----------------------------------------------------------------------------
(* The dynamic number is one of the free ones.                             *)
LEMMA MaxFree == FreeNumbers # {} => Max(FreeNumbers) \in FreeNumbers
<1> SUFFICES ASSUME FreeNumbers # {} PROVE Max(FreeNumbers) \in FreeNumbers
  OBVIOUS
<1> DEFINE S == FreeNumbers
           T == {n \in Nat : n <= LastNumber /\ LastNumber - n \in S}
<1>1. LastNumber \in Nat /\ S \in SUBSET (1..LastNumber)
  BY BoundsAssumption DEF FreeNumbers
<1> HIDE DEF S
<1>2. \A x \in S : LastNumber - x \in T /\ LastNumber - (LastNumber - x) = x
  BY <1>1
<1>3. T \subseteq Nat /\ \A n \in T : LastNumber - n \in S
  OBVIOUS
<1> HIDE DEF T
<1>4. T # {}
  BY <1>2 DEF S
<1>5. PICK n \in T : \A m \in T : ~(<<m, n>> \in OpToRel(<, Nat))
  BY <1>3, <1>4, NatLessThanWellFounded, WFMin
<1>6. \A m \in T : ~(m < n)
  BY <1>3, <1>5 DEF OpToRel
<1>7. LastNumber - n \in S /\ \A y \in S : LastNumber - n >= y
  BY <1>1, <1>2, <1>3, <1>6
<1> QED
  BY <1>7 DEF Max, S

USE DEF tables, Move

LifeStep(d) == Insmod(d) \/ Rmmod(d)

(* The steps of init, of its error path and of exit are well typed, and    *)
(* touch no other driver's state.                                          *)
LEMMA LifeType ==
  ASSUME TypeOK, NEW d \in Drivers, InitOK(d), LifeStep(d)
  PROVE  TypeOK' /\ openers' = openers
<1> USE DEF TypeOK
<1>0. /\ Table[d].init \in Seq(StepNames) /\ Table[d].exit \in Seq(StepNames)
      /\ 0 \in Numbers /\ 1..LastNumber \subseteq Numbers
  BY TableOK, BoundsAssumption DEF RowOK, StepsOK, Numbers
<1>1. /\ todo \in [Drivers -> Seq(StepNames)]
      /\ todo[d] # <<>> => Tail(todo[d]) \in Seq(StepNames) /\ Head(todo[d]) \in StepNames
  BY TailElems DEF StepNames
<1>2. CASE Load(d)
  BY <1>0, <1>1, <1>2 DEF Load, Phases, StepNames
<1>3. CASE AllocChrdevRegion(d)
  BY <1>0, <1>1, <1>3, MaxFree DEF AllocChrdevRegion, Take, FreeNumbers, Resources, Phases, StepNames
<1>4. CASE CdevAdd(d)
  BY <1>0, <1>1, <1>4 DEF CdevAdd, Take, Resources, Phases, StepNames
<1>5. CASE ClassCreate(d)
  BY <1>0, <1>1, <1>5 DEF ClassCreate, Take, Resources, Phases, StepNames
<1>6. CASE DeviceCreate(d)
  BY <1>0, <1>1, <1>6 DEF DeviceCreate, Take, Resources, Phases, StepNames
<1>7. CASE Ioremap(d)
  BY <1>0, <1>1, <1>7 DEF Ioremap, Take, Resources, Phases, StepNames
<1>8. CASE MiscRegister(d)
  BY <1>0, <1>1, <1>8 DEF MiscRegister, Take, Resources, Phases, StepNames
<1>9. CASE FailureChecked(d)
  <2>1. phase[d] = "init" /\ todo[d] # <<>> /\ Head(todo[d]) \in Table[d].checked
    BY <1>9, Zenon DEF FailureChecked, Fails
  <2>2. Table[d].undo[Head(todo[d])] \in Seq(StepNames)
    <3>1. \A s, t \in Seq(StepNames) : t # <<>> /\ Rest(t, s) =>
            \E k \in 1..Len(s) : s[k] = Head(t)
      BY TailRest
    <3>2. todo[d] \in Seq(StepNames) /\ Rest(todo[d], Table[d].init)
      BY <1>1, <2>1 DEF InitOK
    <3>3. PICK k \in 1..Len(Table[d].init) : Table[d].init[k] = Head(todo[d])
      BY <1>0, <2>1, <3>1, <3>2
    <3> QED
      BY <2>1, <3>3, TableOK DEF RowOK, UndoOK
  <2> QED
    BY <1>9, <2>2 DEF FailureChecked, Fails, Phases, StepNames
<1>10. CASE FailureIgnored(d)
  BY <1>0, <1>1, <1>10 DEF FailureIgnored, Fails, Phases, StepNames
<1>11. CASE InitDone(d)
  BY <1>0, <1>1, <1>11 DEF InitDone, Phases, StepNames
<1>12. CASE Unload(d)
  BY <1>0, <1>1, <1>12 DEF Unload, Phases, StepNames
<1>13. CASE UnregisterChrdevRegion(d)
  BY <1>0, <1>1, <1>13 DEF UnregisterChrdevRegion, Drop, Phases, StepNames
<1>14. CASE CdevDel(d)
  BY <1>0, <1>1, <1>14 DEF CdevDel, Drop, Phases, StepNames
<1>15. CASE DeviceDestroy(d)
  BY <1>0, <1>1, <1>15 DEF DeviceDestroy, Drop, Phases, StepNames
<1>16. CASE DeviceDestroyOops(d)
  BY <1>0, <1>1, <1>16 DEF DeviceDestroyOops, Phases, StepNames
<1>17. CASE ClassDestroy(d)
  BY <1>0, <1>1, <1>17 DEF ClassDestroy, Drop, Phases, StepNames
<1>18. CASE MiscDeregister(d)
  BY <1>0, <1>1, <1>18 DEF MiscDeregister, Drop, Phases, StepNames
<1>19. CASE ReleaseMissed(d)
  BY <1>0, <1>1, <1>19 DEF ReleaseMissed, Phases, StepNames
<1>20. CASE FreeModule(d)
  BY <1>0, <1>1, <1>20 DEF FreeModule, Phases, StepNames
<1>21. CASE \E r \in {"cdev2", "class2", "device2"} : TakeSecond(d, r)
  BY <1>0, <1>1, <1>21 DEF TakeSecond, Take, Phases, StepNames, Resources
<1>22. CASE \E r \in {"cdev2", "class2"} : DropSecond(d, r)
  BY <1>0, <1>1, <1>22 DEF DropSecond, Drop, Phases, StepNames
<1>23. CASE \E i \in 1..LastNumber : RegisterChrdevRegion(d, i)
  BY <1>0, <1>1, <1>23 DEF RegisterChrdevRegion, Take, Phases, StepNames, Resources
<1>24. CASE \E i \in 1..LastNumber : RegisterFails(d, i)
  <2>1. clash' \in BOOLEAN
    BY <1>24, Zenon DEF RegisterFails
  <2>2. PICK i \in 1..LastNumber : RegisterFails(d, i)
    BY <1>24
  <2>3. /\ todo[d] # <<>> /\ todo' = [todo EXCEPT ![d] = Tail(@)]
        /\ num' = [num EXCEPT ![d] = i]
        /\ UNCHANGED <<phase, held, tables, openers>>
    BY <2>2, Zenon DEF RegisterFails
  <2> QED
    BY <1>0, <1>1, <2>1, <2>3 DEF StepNames
<1> QED
  BY <1>2, <1>3, <1>4, <1>5, <1>6, <1>7, <1>8, <1>9, <1>10, <1>11, <1>12, <1>13, <1>14, <1>15, <1>16, <1>17, <1>18, <1>19, <1>20, <1>21, <1>22, <1>23, <1>24 DEF LifeStep, Insmod, Rmmod

-----------------------------------------------------------------------------
(* The steps of a driver by what they do to its stage, to the numbers and  *)
(* to the classes.                                                         *)
Loaded(d) ==
    /\ phase[d] = "unloaded" /\ phase'[d] = "init"
    /\ "dev_num" \notin held[d] /\ "device2" \notin held[d]
    /\ todo'[d] = Table[d].init /\ held'[d] = {}

Taken(d) ==
    /\ phase[d] = "init" /\ phase'[d] = "init" /\ todo[d] # <<>>
    /\ todo'[d] = Tail(todo[d]) /\ held'[d] = held[d] \cup {Head(todo[d])}

Skipped(d) ==
    /\ phase[d] = "init" /\ phase'[d] = "init" /\ todo[d] # <<>>
    /\ Head(todo[d]) \notin Table[d].checked
    /\ todo'[d] = Tail(todo[d]) /\ held'[d] = held[d]

Failed(d) ==
    /\ phase[d] = "init" /\ phase'[d] = "unwind" /\ todo[d] # <<>>
    /\ Head(todo[d]) \in Table[d].checked
    /\ todo'[d] = Table[d].undo[Head(todo[d])] /\ held'[d] = held[d]

Finished(d) ==
    /\ phase[d] = "init" /\ phase'[d] = "live" /\ todo[d] = <<>> /\ held'[d] = held[d]

Exits(d) ==
    /\ phase[d] = "live" /\ phase'[d] = "exit" /\ d \notin openers
    /\ todo'[d] = Table[d].exit /\ held'[d] = held[d]

Released(d) ==
    /\ phase[d] \in {"unwind", "exit"} /\ phase'[d] = phase[d] /\ todo[d] # <<>>
    /\ todo'[d] = Tail(todo[d]) /\ held'[d] = held[d] \ {Head(todo[d])}

Crashed(d) ==
    /\ phase[d] = "exit" /\ phase'[d] = "oops" /\ todo[d] # <<>>
    /\ \/ Head(todo[d]) = "device" /\ "class" \notin held[d]
       \/ Head(todo[d]) = "other_device" /\ "class2" \notin held[d]
    /\ todo'[d] = todo[d] /\ held'[d] = held[d]

Freed(d) ==
    /\ phase[d] \in {"unwind", "exit"} /\ phase'[d] = "unloaded" /\ todo[d] = <<>>
    /\ held'[d] = held[d] /\ num'[d] = 0

LifeKind(d) ==
    \/ Loaded(d) \/ Taken(d) \/ Skipped(d) \/ Failed(d) \/ Finished(d)
    \/ Exits(d) \/ Released(d) \/ Crashed(d) \/ Freed(d)

OthersStay(d) ==
    \A e \in Drivers : e # d =>
        phase'[e] = phase[e] /\ todo'[e] = todo[e] /\ held'[e] = held[e] /\ num'[e] = num[e]

NumKept(d) ==
    UNCHANGED <<num, chrdevs, clash>> /\ ("dev_num" \in held[d] => "dev_num" \in held'[d])

NumGot(d, n) ==
    /\ phase[d] = "init" /\ todo[d] # <<>> /\ Head(todo[d]) = "dev_num"
    /\ chrdevs[n] = Nobody /\ "dev_num" \in held'[d] /\ UNCHANGED clash
    /\ num' = [num EXCEPT ![d] = n] /\ chrdevs' = [chrdevs EXCEPT ![n] = d]

NumClash(d, n) ==
    /\ phase[d] = "init" /\ todo[d] # <<>> /\ Head(todo[d]) = "dev_num"
    /\ num' = [num EXCEPT ![d] = n] /\ UNCHANGED chrdevs /\ clash' = TRUE

NumReturned(d) ==
    /\ phase[d] \in {"unwind", "exit"} /\ todo[d] # <<>> /\ Head(todo[d]) = "dev_num"
    /\ phase'[d] = phase[d] /\ UNCHANGED <<num, clash>>
    /\ chrdevs' = IF num[d] = 0 THEN chrdevs ELSE [chrdevs EXCEPT ![num[d]] = Nobody]

NumFreed(d) ==
    /\ phase'[d] = "unloaded" /\ held'[d] = held[d] /\ UNCHANGED <<chrdevs, clash>>
    /\ num' = [num EXCEPT ![d] = 0]

NumKind(d) ==
    \/ NumKept(d) \/ NumReturned(d) \/ NumFreed(d)
    \/ \E n \in 1..LastNumber : NumGot(d, n) \/ NumClash(d, n)

ClassKept(d) ==
    classes' = classes /\ ("class" \in held[d] => "class" \in held'[d])

ClassGot(d) ==
    "class" \in held'[d] /\ classes' = [classes EXCEPT ![Table[d].class] = d]

ClassGiven(d) ==
    classes' = IF "class" \in held[d]
               THEN [classes EXCEPT ![Table[d].class] = Nobody] ELSE classes

ClassKind(d) == ClassKept(d) \/ ClassGot(d) \/ ClassGiven(d)

LEMMA DevT ==
  Table["dev_t"].init = <<"dev_num">> /\ Table["dev_t"].checked = {}
BY DEF Table, dev_t, Ignoring

LEMMA LifeKinds ==
  ASSUME TypeOK, NEW d \in Drivers, InitOK(d), UnloadedOK(d), LifeStep(d)
  PROVE  OthersStay(d) /\ LifeKind(d) /\ NumKind(d) /\ ClassKind(d)
<1> DEFINE K == OthersStay(d) /\ LifeKind(d) /\ NumKind(d) /\ ClassKind(d)
<1> USE DEF OthersStay, K
<1>0. /\ phase \in [Drivers -> Phases] /\ todo \in [Drivers -> Seq(Resources \cup Missed)]
      /\ num \in [Drivers -> Numbers] /\ held \in [Drivers -> SUBSET Resources]
  BY DEF TypeOK
<1>2. CASE Load(d)
  <2>1. phase[d] = "unloaded" => "class" \notin held[d]
    BY SMT DEF UnloadedOK, Leftovers
  <2> QED
    BY <1>0, <1>2, <2>1 DEF Load, Remains, LifeKind, Loaded, NumKind, NumKept, ClassKind, ClassKept
<1>3. CASE AllocChrdevRegion(d)
  <2>1. Max(FreeNumbers) \in 1..LastNumber /\ chrdevs[Max(FreeNumbers)] = Nobody
    BY <1>3, MaxFree DEF AllocChrdevRegion, FreeNumbers
  <2> QED
    BY <1>0, <1>3, <2>1 DEF AllocChrdevRegion, Take, LifeKind, Taken, NumKind, NumGot, ClassKind, ClassKept
<1>4. CASE CdevAdd(d)
  BY <1>0, <1>4 DEF CdevAdd, Take, LifeKind, Taken, NumKind, NumKept, ClassKind, ClassKept
<1>5. CASE ClassCreate(d)
  BY <1>0, <1>5 DEF ClassCreate, Take, LifeKind, Taken, NumKind, NumKept, ClassKind, ClassGot
<1>6. CASE DeviceCreate(d)
  BY <1>0, <1>6 DEF DeviceCreate, Take, LifeKind, Taken, NumKind, NumKept, ClassKind, ClassKept
<1>7. CASE Ioremap(d)
  BY <1>0, <1>7 DEF Ioremap, Take, LifeKind, Taken, NumKind, NumKept, ClassKind, ClassKept
<1>8. CASE MiscRegister(d)
  BY <1>0, <1>8 DEF MiscRegister, Take, LifeKind, Taken, NumKind, NumKept, ClassKind, ClassKept
<1>9. CASE FailureChecked(d)
  BY <1>0, <1>9 DEF FailureChecked, Fails, LifeKind, Failed, NumKind, NumKept, ClassKind, ClassKept
<1>10. CASE FailureIgnored(d)
  BY <1>0, <1>10 DEF FailureIgnored, Fails, LifeKind, Skipped, NumKind, NumKept, ClassKind, ClassKept
<1>11. CASE InitDone(d)
  BY <1>0, <1>11 DEF InitDone, LifeKind, Finished, NumKind, NumKept, ClassKind, ClassKept
<1>12. CASE Unload(d)
  BY <1>0, <1>12 DEF Unload, LifeKind, Exits, NumKind, NumKept, ClassKind, ClassKept
<1>13. CASE UnregisterChrdevRegion(d)
  BY <1>0, <1>13 DEF UnregisterChrdevRegion, Drop, LifeKind, Released, NumKind, NumReturned, ClassKind, ClassKept
<1>14. CASE CdevDel(d)
  BY <1>0, <1>14 DEF CdevDel, Drop, LifeKind, Released, NumKind, NumKept, ClassKind, ClassKept
<1>15. CASE DeviceDestroy(d)
  BY <1>0, <1>15 DEF DeviceDestroy, Drop, LifeKind, Released, NumKind, NumKept, ClassKind, ClassKept
<1>16. CASE DeviceDestroyOops(d)
  BY <1>0, <1>16 DEF DeviceDestroyOops, LifeKind, Crashed, NumKind, NumKept, ClassKind, ClassKept
<1>17. CASE ClassDestroy(d)
  BY <1>0, <1>17 DEF ClassDestroy, Drop, LifeKind, Released, NumKind, NumKept, ClassKind, ClassGiven
<1>18. CASE MiscDeregister(d)
  BY <1>0, <1>18 DEF MiscDeregister, Drop, LifeKind, Released, NumKind, NumKept, ClassKind, ClassKept
<1>19. CASE ReleaseMissed(d)
  <2>1. held[d] \ {Head(todo[d])} = held[d]
    BY <1>0, <1>19 DEF ReleaseMissed, Missed, Resources
  <2> QED
    BY <1>0, <1>19, <2>1 DEF ReleaseMissed, LifeKind, Released, NumKind, NumKept, ClassKind, ClassKept
<1>20. CASE FreeModule(d)
  BY <1>0, <1>20 DEF FreeModule, LifeKind, Freed, NumKind, NumFreed, ClassKind, ClassKept
<1>21. CASE \E r \in {"cdev2", "class2", "device2"} : TakeSecond(d, r)
  BY <1>0, <1>21 DEF TakeSecond, Take, LifeKind, Taken, NumKind, NumKept, ClassKind, ClassKept
<1>22. CASE \E r \in {"cdev2", "class2"} : DropSecond(d, r)
  BY <1>0, <1>22 DEF DropSecond, Drop, LifeKind, Released, NumKind, NumKept, ClassKind, ClassKept
<1>23. CASE \E i \in 1..LastNumber : RegisterChrdevRegion(d, i)
  <2>1. PICK i \in 1..LastNumber : RegisterChrdevRegion(d, i)
    BY <1>23
  <2>2. OthersStay(d) /\ LifeKind(d) /\ NumGot(d, i)
    BY <1>0, <2>1 DEF RegisterChrdevRegion, Take, LifeKind, Taken, NumGot
  <2>3. ClassKind(d)
    BY <1>0, <2>1 DEF RegisterChrdevRegion, Take, ClassKind, ClassKept
  <2> QED
    BY <2>2, <2>3 DEF NumKind
<1>24. CASE \E i \in 1..LastNumber : RegisterFails(d, i)
  <2>1. PICK i \in 1..LastNumber : RegisterFails(d, i)
    BY <1>24
  <2>2. /\ d = "dev_t" /\ phase[d] = "init" /\ todo[d] # <<>>
        /\ todo' = [todo EXCEPT ![d] = Tail(@)] /\ num' = [num EXCEPT ![d] = i]
        /\ UNCHANGED <<phase, held, tables, openers>>
    BY <2>1, Zenon DEF RegisterFails
  <2>3. Head(todo[d]) = "dev_num" /\ Table[d].checked = {}
    <3>1. todo[d] \in Seq(Resources \cup Missed) /\ Rest(todo[d], <<"dev_num">>)
      BY <1>0, <2>2, DevT DEF InitOK
    <3>2. Len(todo[d]) = 1 /\ Head(todo[d]) = todo[d][1]
      BY <2>2, <3>1 DEF Rest
    <3>3. Len(<<"dev_num">>) - Len(todo[d]) + 1 = 1 /\ 1 \in 1..Len(todo[d])
      BY <3>2
    <3>4. todo[d][1] = <<"dev_num">>[1]
      BY <3>1, <3>3 DEF Rest
    <3> QED
      BY <2>2, <3>2, <3>4, DevT
  <2>4. clash' = TRUE
    BY <2>1, Zenon DEF RegisterFails
  <2>5. NumClash(d, i)
    BY <2>2, <2>3, <2>4, Zenon DEF NumClash, tables
  <2> QED
    BY <1>0, <2>2, <2>3, <2>5 DEF LifeKind, Skipped, NumKind, ClassKind, ClassKept
<1> QED
  BY <1>2, <1>3, <1>4, <1>5, <1>6, <1>7, <1>8, <1>9, <1>10, <1>11, <1>12, <1>13, <1>14, <1>15, <1>16, <1>17, <1>18, <1>19, <1>20, <1>21, <1>22, <1>23, <1>24 DEF LifeStep, Insmod, Rmmod

-----------------------------------------------------------------------------
(* They keep the stage of the driver, and so of the others.                *)
LEMMA TakeFresh ==
  ASSUME TypeOK, NEW d \in Drivers, InitOK(d), phase[d] = "init", todo[d] # <<>>,
         Head(todo[d]) = "dev_num"
  PROVE  "dev_num" \notin held[d]
<1>1. todo[d] \in Seq(StepNames) /\ Rest(todo[d], Table[d].init)
  BY DEF TypeOK, StepNames, InitOK
<1>2. Table[d].init \in Seq(StepNames) /\ NoRepeat(Table[d].init)
  BY TableOK DEF RowOK, StepsOK
<1>3. PICK k \in 1..Len(Table[d].init) :
        /\ Table[d].init[k] = "dev_num"
        /\ Done(todo[d], Table[d].init) = {Table[d].init[i] : i \in 1..(k - 1)}
  <2>1. \A s, t \in Seq(StepNames) : t # <<>> /\ Rest(t, s) =>
          \E k \in 1..Len(s) : s[k] = Head(t) /\ Done(t, s) = {s[i] : i \in 1..(k - 1)}
    BY TailRest
  <2> QED
    BY <1>1, <1>2, <2>1
<1>4. \A i \in 1..(k - 1) : i \in 1..Len(Table[d].init) /\ i # k
  BY <1>2
<1>5. "dev_num" \notin Done(todo[d], Table[d].init)
  BY <1>2, <1>3, <1>4 DEF NoRepeat, Resources
<1> QED
  BY <1>5 DEF InitOK

LEMMA StageKept ==
  ASSUME TypeOK, NEW d \in Drivers, Stage(d), LifeKind(d), openers' = openers
  PROVE  Stage(d)'
<1> DEFINE init == Table[d].init
           t == todo[d]
<1>0. /\ init \in Seq(StepNames) /\ NoRepeat(init)
      /\ Table[d].exit \in Seq(StepNames) /\ NoRepeat(Table[d].exit)
      /\ Elems(init) \subseteq Elems(Table[d].exit) \cup Leftovers(d)
      /\ UndoOK(Table[d], Leftovers(d)) /\ ExitOrder(Table[d])
  BY TableOK DEF RowOK, StepsOK
<1>1. t \in Seq(StepNames) /\ held[d] \subseteq Resources
  BY DEF TypeOK, StepNames
<1>3. \A s \in Seq(StepNames) : s # <<>> =>
        /\ Head(s) \in StepNames /\ Tail(s) \in Seq(StepNames)
        /\ Elems(s) = {Head(s)} \cup Elems(Tail(s))
        /\ NoRepeat(s) => /\ NoRepeat(Tail(s))
                          /\ Head(s) \in Resources => Head(s) \notin Elems(Tail(s))
        /\ ClassLater(s) => ClassLater(Tail(s))
  BY TailElems
<1>4. t # <<>> /\ Rest(t, init) =>
        /\ Rest(Tail(t), init) /\ Done(Tail(t), init) = Done(t, init) \cup {Head(t)}
        /\ \E k \in 1..Len(init) :
              init[k] = Head(t) /\ Done(t, init) = {init[i] : i \in 1..(k - 1)}
  <2>1. \A s, u \in Seq(StepNames) : u # <<>> /\ Rest(u, s) =>
          /\ Rest(Tail(u), s) /\ Done(Tail(u), s) = Done(u, s) \cup {Head(u)}
          /\ \E k \in 1..Len(s) : s[k] = Head(u) /\ Done(u, s) = {s[i] : i \in 1..(k - 1)}
    BY TailRest
  <2> QED
    BY <1>0, <1>1, <2>1
<1>5. Rest(init, init) /\ Done(init, init) = {} /\ Done(<<>>, init) = Elems(init)
  <2>1. \A s \in Seq(StepNames) : Rest(s, s) /\ Done(s, s) = {} /\ Done(<<>>, s) = Elems(s)
    BY RestBounds
  <2> QED
    BY <1>0, <2>1
<1> HIDE DEF init, t
<1> USE DEF Stage, InitOK, LiveOK, ReleaseOK, ExitOK, UnloadedOK, ExitNotOpen
<1>6. CASE Loaded(d)
  BY <1>5, <1>6 DEF Loaded, init
<1>7. CASE Taken(d)
  BY <1>4, <1>7 DEF Taken, init, t
<1>8. CASE Skipped(d)
  BY <1>4, <1>8 DEF Skipped, init, t
<1>9. CASE Failed(d)
  <2>1. PICK k \in 1..Len(init) :
          init[k] = Head(t) /\ Done(t, init) = {init[i] : i \in 1..(k - 1)}
    BY <1>4, <1>9 DEF Failed, init, t
  <2>2. /\ NoRepeat(Table[d].undo[Head(t)])
        /\ Done(t, init) \subseteq Elems(Table[d].undo[Head(t)]) \cup Leftovers(d)
    BY <1>0, <1>9, <2>1 DEF Failed, UndoOK, init, t
  <2> QED
    BY <1>9, <2>2 DEF Failed, init, t
<1>10. CASE Finished(d)
  BY <1>5, <1>10 DEF Finished, init, t
<1>11. CASE Exits(d)
  <2>1. ASSUME NEW c \in {"class", "class2"}, c \in Elems(Table[d].exit)
        PROVE  c \in held'[d] \/ Unchecked(d, c)
    <3>1. Contains(init, c) /\ c \in Elems(init)
      BY <1>0, <2>1 DEF ExitOrder, Contains, Elems, init
    <3> QED
      BY <1>11, <3>1 DEF Exits, Unchecked, init
  <2> QED
    BY <1>0, <1>11, <2>1 DEF Exits, ExitOrder, Unchecked, init
<1>12. CASE Released(d)
  <2>1. t # <<>> /\ NoRepeat(t) /\ NoRepeat(Tail(t)) /\ held[d] \subseteq Elems(t) \cup Leftovers(d)
    BY <1>1, <1>3, <1>12 DEF Released, t
  <2>2. held'[d] \subseteq Elems(Tail(t)) \cup Leftovers(d)
    BY <1>1, <1>3, <1>12, <2>1 DEF Released, t
  <2>3. ASSUME phase[d] = "exit", NEW c \in {"class", "class2"}, c \in Elems(Tail(t))
        PROVE  c \in held'[d] \/ Unchecked(d, c)
    <3>1. c \in Elems(t) /\ Head(t) # c
      BY <1>1, <1>3, <2>1, <2>3 DEF Resources
    <3> QED
      BY <1>12, <2>3, <3>1 DEF Released, t
  <2>4. phase[d] = "exit" => ClassLater(Tail(t))
    BY <1>1, <1>3, <2>1 DEF t
  <2> QED
    BY <1>12, <2>1, <2>2, <2>3, <2>4 DEF Released, Unchecked, t
<1>13. CASE Crashed(d)
  BY <1>13 DEF Crashed
<1>14. CASE Freed(d)
  <2>1. Elems(<<>>) = {}
    BY DEF Elems
  <2> QED
    BY <1>14, <2>1 DEF Freed
<1> QED
  BY <1>6, <1>7, <1>8, <1>9, <1>10, <1>11, <1>12, <1>13, <1>14 DEF LifeKind

(* The numbers and the classes.                                            *)
LEMMA NobodyIsNoDriver == Nobody \notin Drivers
BY DriversAssumption DEF Nobody, Table

LEMMA NumbersKept ==
  ASSUME TypeOK, NEW d \in Drivers, StagesOK, NumbersOK,
         OthersStay(d), LifeKind(d), NumKind(d)
  PROVE  NumbersOK'
<1>0. /\ num \in [Drivers -> Numbers] /\ chrdevs \in [Numbers -> Drivers \cup {Nobody}]
      /\ 0 \in Numbers /\ 1..LastNumber \subseteq Numbers /\ 0 \notin 1..LastNumber
  BY BoundsAssumption DEF TypeOK, Numbers
<1>1. \A e \in Drivers : e # d => /\ phase'[e] = phase[e]
                                  /\ held'[e] = held[e] /\ num'[e] = num[e]
  BY DEF OthersStay
<1>2. /\ phase[d] = "unloaded" => "dev_num" \notin held[d]
      /\ phase'[d] \in Phases
  BY DEF LifeKind, Loaded, Taken, Skipped, Failed, Finished, Exits, Released, Crashed, Freed,
     Phases
<1> USE DEF NumbersOK
<1>3. CASE NumKept(d)
  BY <1>1, <1>2, <1>3 DEF NumKept
<1>4. CASE NumReturned(d)
  <2>1. \A n \in Numbers : chrdevs'[n] = IF num[d] # 0 /\ n = num[d] THEN Nobody ELSE chrdevs[n]
    BY <1>0, <1>4 DEF NumReturned
  <2>2. \A n \in Numbers : chrdevs'[n] # d
    BY <1>0, <1>4, <2>1, NobodyIsNoDriver DEF NumReturned
  <2>3. \A e \in Drivers : \A n \in Numbers : chrdevs'[n] = e => chrdevs[n] = e /\ e # d
    BY <2>1, <2>2, NobodyIsNoDriver
  <2>4. chrdevs'[0] = Nobody
    BY <1>0, <2>1
  <2>5. ASSUME NEW e \in Drivers, NEW n \in Numbers, chrdevs'[n] = e
        PROVE  "dev_num" \in held'[e] /\ (num'[e] = n \/ phase'[e] = "unloaded")
    BY <1>1, <2>3, <2>5
  <2> QED
    BY <2>4, <2>5
<1>5. CASE NumFreed(d)
  BY <1>0, <1>1, <1>5 DEF NumFreed
<1>6. ASSUME NEW i \in 1..LastNumber, NumGot(d, i) PROVE NumbersOK'
  <2>1. "dev_num" \notin held[d]
    BY <1>6, TakeFresh DEF NumGot, StagesOK, Stage
  <2>2. /\ \A n \in Numbers : chrdevs'[n] = IF n = i THEN d ELSE chrdevs[n]
        /\ num'[d] = i /\ "dev_num" \in held'[d]
    BY <1>0, <1>6 DEF NumGot
  <2> QED
    BY <1>0, <1>1, <2>1, <2>2
<1>7. ASSUME NEW i \in 1..LastNumber, NumClash(d, i) PROVE NumbersOK'
  <2>1. "dev_num" \notin held[d]
    BY <1>7, TakeFresh DEF NumClash, StagesOK, Stage
  <2> QED
    BY <1>1, <1>7, <2>1 DEF NumClash
<1> QED
  BY <1>3, <1>4, <1>5, <1>6, <1>7 DEF NumKind

LEMMA NumberStaysKept ==
  ASSUME TypeOK, NEW d \in Drivers, StagesOK, NumbersOK, NumberKept,
         OthersStay(d), LifeKind(d), NumKind(d)
  PROVE  NumberKept'
<1>0. /\ num \in [Drivers -> Numbers] /\ chrdevs \in [Numbers -> Drivers \cup {Nobody}]
      /\ 1..LastNumber \subseteq Numbers /\ 0 \notin 1..LastNumber
      /\ todo[d] \in Seq(StepNames) /\ Nobody \notin Drivers
  BY BoundsAssumption, NobodyIsNoDriver DEF TypeOK, Numbers, StepNames
<1>1. \A e \in Drivers : e # d => (Keeps(e)' => Keeps(e)) /\ num'[e] = num[e]
  BY DEF OthersStay, Keeps
<1>2. todo[d] # <<>> =>
        /\ Elems(todo[d]) = {Head(todo[d])} \cup Elems(Tail(todo[d]))
        /\ NoRepeat(todo[d]) /\ Head(todo[d]) \in Resources => Head(todo[d]) \notin Elems(Tail(todo[d]))
  <2>1. \A s \in Seq(StepNames) : s # <<>> =>
          /\ Elems(s) = {Head(s)} \cup Elems(Tail(s))
          /\ NoRepeat(s) /\ Head(s) \in Resources => Head(s) \notin Elems(Tail(s))
    BY TailElems
  <2> QED
    BY <1>0, <2>1
<1>3. Keeps(d)' => Keeps(d) \/ (phase[d] = "unloaded" /\ num[d] = 0)
  BY <1>2 DEF LifeKind, Loaded, Taken, Skipped, Failed, Finished, Exits, Released, Crashed,
     Freed, Keeps, StagesOK, Stage, UnloadedOK
<1> USE DEF NumberKept
<1>4. CASE NumKept(d)
  BY <1>1, <1>3, <1>4 DEF NumKept
<1>5. CASE NumReturned(d)
  <2>1. "dev_num" \notin Elems(Tail(todo[d])) /\ Keeps(d)
    BY <1>2, <1>5 DEF NumReturned, Keeps, StagesOK, Stage, ReleaseOK, Resources
  <2>2. ~Keeps(d)'
    BY <2>1, <1>5, <1>0 DEF NumReturned, Keeps, LifeKind, Loaded, Taken, Skipped, Failed,
       Finished, Exits, Released, Crashed, Freed
  <2>3. ~clash => \A e \in Drivers : e # d /\ num[e] # 0 /\ Keeps(e) => num[e] # num[d] \/ num[d] = 0
    BY <2>1
  <2>4. \A n \in Numbers : chrdevs'[n] = IF num[d] # 0 /\ n = num[d] THEN Nobody ELSE chrdevs[n]
    BY <1>0, <1>5 DEF NumReturned
  <2> QED
    BY <1>0, <1>1, <1>5, <2>2, <2>3, <2>4 DEF NumReturned
<1>6. CASE NumFreed(d)
  BY <1>0, <1>1, <1>6 DEF NumFreed
<1>7. ASSUME NEW i \in 1..LastNumber, NumGot(d, i) PROVE NumberKept'
  <2>1. /\ \A n \in Numbers : chrdevs'[n] = IF n = i THEN d ELSE chrdevs[n]
        /\ num'[d] = i /\ chrdevs[i] = Nobody /\ clash' = clash
    BY <1>0, <1>7 DEF NumGot
  <2> QED
    BY <1>0, <1>1, <2>1
<1>8. ASSUME NEW i \in 1..LastNumber, NumClash(d, i) PROVE NumberKept'
  BY <1>8, Zenon DEF NumClash
<1> QED
  BY <1>4, <1>5, <1>6, <1>7, <1>8 DEF NumKind

LEMMA ClassesKept ==
  ASSUME TypeOK, NEW d \in Drivers, ClassesOK, OthersStay(d), ClassKind(d)
  PROVE  ClassesOK'
<1>0. classes \in [ClassNames -> Drivers \cup {Nobody}] /\ Nobody \notin Drivers
  BY NobodyIsNoDriver DEF TypeOK
<1>1. \A e \in Drivers : e # d => held'[e] = held[e]
  BY DEF OthersStay
<1> USE DEF ClassesOK
<1>2. CASE ClassKept(d)
  BY <1>1, <1>2 DEF ClassKept
<1>3. CASE ClassGot(d)
  <2>1. /\ \A c \in ClassNames : classes'[c] = IF c = Table[d].class THEN d ELSE classes[c]
        /\ "class" \in held'[d]
    BY <1>0, <1>3 DEF ClassGot
  <2> QED
    BY <1>0, <1>1, <2>1
<1>4. CASE ClassGiven(d)
  <2>1. \A c \in ClassNames : classes'[c] = IF "class" \in held[d] /\ c = Table[d].class
                                            THEN Nobody ELSE classes[c]
    BY <1>0, <1>4 DEF ClassGiven
  <2>2. \A c \in ClassNames : classes'[c] # d
    BY <1>0, <2>1
  <2> QED
    BY <1>0, <1>1, <2>1, <2>2
<1> QED
  BY <1>2, <1>3, <1>4 DEF ClassKind

(* Exit crashes a driver only without a class that it may have gone on     *)
(* without, and that it would destroy later.                               *)
ClassCause(d) ==
    \E c \in {"class", "class2"} :
        Unchecked(d, c) /\ c \notin held[d] /\ Contains(todo[d], c)

NoCrashBegins ==
    \A d \in Drivers : phase'[d] = "oops" =>
        \/ ClassCause(d)'
        \/ phase[d] = "oops" /\ todo'[d] = todo[d] /\ held'[d] = held[d]

LEMMA OopsKept ==
  ASSUME TypeOK, NEW d \in Drivers, StagesOK, OnlyUncheckedOops,
         OthersStay(d), LifeKind(d)
  PROVE  OnlyUncheckedOops' /\ NoCrashBegins
<1>1. todo[d] \in Seq(StepNames)
  BY DEF TypeOK, StepNames
<1>2. ASSUME Crashed(d) PROVE ClassCause(d)'
  <2>1. ClassLater(todo[d]) /\ todo[d] # <<>>
    BY <1>2 DEF Crashed, StagesOK, Stage, ExitOK
  <2>2. PICK c \in {"class", "class2"} : c \notin held[d] /\ c \in Elems(todo[d])
    <3>1. \A s \in Seq(StepNames) : s # <<>> /\ ClassLater(s) =>
            /\ Elems(s) = {Head(s)} \cup Elems(Tail(s))
            /\ Head(s) \in DOMAIN ClassOf => ClassOf[Head(s)] \in Elems(Tail(s))
      BY TailElems
    <3>2. DOMAIN ClassOf = {"device", "other_device"}
          /\ ClassOf["device"] = "class" /\ ClassOf["other_device"] = "class2"
      BY DEF ClassOf
    <3>3. Head(todo[d]) \in DOMAIN ClassOf /\ ClassOf[Head(todo[d])] \notin held[d]
          /\ ClassOf[Head(todo[d])] \in {"class", "class2"}
      BY <1>2, <3>2 DEF Crashed
    <3> QED
      BY <1>1, <2>1, <3>1, <3>3
  <2>3. Unchecked(d, c)
    BY <1>2, <2>2 DEF Crashed, StagesOK, Stage, ExitOK
  <2>4. Contains(todo[d], c)
    BY <2>2 DEF Elems, Contains
  <2> QED
    BY <1>2, <2>2, <2>3, <2>4 DEF Crashed, ClassCause, Unchecked
<1>3. Crashed(d) \/ phase'[d] # "oops"
  BY DEF LifeKind, Loaded, Taken, Skipped, Failed, Finished, Exits, Released, Freed
<1>4. NoCrashBegins
  BY <1>2, <1>3 DEF NoCrashBegins, OthersStay
<1>5. OnlyUncheckedOops'
  BY <1>4 DEF OnlyUncheckedOops, NoCrashBegins, ClassCause, Unchecked
<1> QED
  BY <1>4, <1>5

-----------------------------------------------------------------------------
(* What every step of Lifecycle keeps, the programs' steps included.       *)
OpenKept ==
    \A d \in openers :
        phase'[d] \in {"exit", "unloaded"} => phase'[d] = phase[d] \/ phase[d] = "unwind"

OopsForGood == \A d \in Drivers : phase[d] = "oops" => phase'[d] = "oops"

LEMMA LifeStepKeeps ==
  ASSUME LifeInv, NEW d \in Drivers, LifeStep(d)
  PROVE  LifeInv' /\ OopsForGood /\ OpenKept /\ NoCrashBegins
<1> USE DEF LifeInv
<1>1. InitOK(d) /\ UnloadedOK(d) /\ Stage(d) /\ ExitNotOpen(d)
  BY DEF StagesOK, Stage
<1>2. TypeOK' /\ openers' = openers
  BY <1>1, LifeType
<1>3. OthersStay(d) /\ LifeKind(d) /\ NumKind(d) /\ ClassKind(d)
  BY <1>1, LifeKinds
<1>4. StagesOK'
  <2>1. Stage(d)'
    BY <1>1, <1>2, <1>3, StageKept
  <2>2. ASSUME NEW e \in Drivers, e # d PROVE Stage(e)'
    <3>1. /\ phase'[e] = phase[e] /\ todo'[e] = todo[e] /\ held'[e] = held[e]
          /\ num'[e] = num[e] /\ Stage(e)
      BY <1>3, <2>2 DEF OthersStay, StagesOK
    <3> QED
      BY <1>2, <3>1 DEF Stage, InitOK, LiveOK, ReleaseOK, ExitOK, UnloadedOK,
         ExitNotOpen
  <2> QED
    BY <2>1, <2>2 DEF StagesOK
<1>5. NumbersOK' /\ NumberKept' /\ ClassesOK' /\ OnlyUncheckedOops' /\ NoCrashBegins
  BY <1>3, NumbersKept, NumberStaysKept, ClassesKept, OopsKept
<1>6. OopsForGood
  BY <1>3 DEF OopsForGood, OthersStay, LifeKind, Loaded, Taken, Skipped, Failed, Finished,
     Exits, Released, Crashed, Freed
<1>7. OpenKept
  <2>1. d \in openers /\ phase'[d] \in {"exit", "unloaded"} =>
          phase'[d] = phase[d] \/ phase[d] = "unwind"
    BY <1>1, <1>3 DEF ExitNotOpen, LifeKind, Loaded, Taken, Skipped, Failed, Finished,
       Exits, Released, Crashed, Freed
  <2>2. \A e \in openers : e \in Drivers
    BY DEF TypeOK
  <2> QED
    BY <1>3, <2>1, <2>2 DEF OpenKept, OthersStay
<1> QED
  BY <1>2, <1>4, <1>5, <1>6, <1>7

LEMMA ProgramsKeep ==
  ASSUME LifeInv, UNCHANGED <<phase, todo, num, held, tables, clash>>,
         openers' \in SUBSET Drivers,
         \A d \in Drivers : d \in openers' /\ phase[d] = "exit" => d \in openers
  PROVE  LifeInv' /\ OopsForGood /\ OpenKept /\ NoCrashBegins
<1>1. TypeOK'
  BY DEF LifeInv, TypeOK
<1>2. StagesOK'
  BY DEF LifeInv, StagesOK, Stage, InitOK, LiveOK, ReleaseOK, ExitOK, UnloadedOK,
     ExitNotOpen
<1>3. NumbersOK' /\ ClassesOK' /\ OnlyUncheckedOops'
  BY DEF LifeInv, NumbersOK, ClassesOK, OnlyUncheckedOops
<1>4. NumberKept'
  BY DEF LifeInv, NumberKept, Keeps
<1> QED
  BY <1>1, <1>2, <1>3, <1>4 DEF LifeInv, OopsForGood, OpenKept, NoCrashBegins

LEMMA NextKeeps ==
  ASSUME LifeInv, Next
  PROVE  LifeInv' /\ OopsForGood /\ OpenKept /\ NoCrashBegins
<1>0. openers \in SUBSET Drivers /\ cdev_map \in [Numbers -> Seq(Drivers)]
  BY DEF LifeInv, TypeOK
<1>1. ASSUME NEW d \in Drivers, Insmod(d) \/ Rmmod(d)
      PROVE  LifeInv' /\ OopsForGood /\ OpenKept /\ NoCrashBegins
  BY <1>1, LifeStepKeeps DEF LifeStep
<1>2. ASSUME NEW d \in Drivers, OpenByMinor(d)
      PROVE  LifeInv' /\ OopsForGood /\ OpenKept /\ NoCrashBegins
  BY <1>0, <1>2, ProgramsKeep DEF OpenByMinor
<1>3. ASSUME NEW d \in Drivers, Close(d)
      PROVE  LifeInv' /\ OopsForGood /\ OpenKept /\ NoCrashBegins
  BY <1>0, <1>3, ProgramsKeep DEF Close
<1>4. ASSUME NEW n \in Numbers, Open(n)
      PROVE  LifeInv' /\ OopsForGood /\ OpenKept /\ NoCrashBegins
  <2>1. Head(cdev_map[n]) \in Drivers
    BY <1>0, <1>4 DEF Open
  <2> QED
    BY <1>0, <1>4, <2>1, ProgramsKeep DEF Open
<1> QED
  BY <1>1, <1>2, <1>3, <1>4 DEF Next

-----------------------------------------------------------------------------
(* The light.                                                              *)
LEMMA WriteKeepsLife ==
  ASSUME IInv, NEW p \in Writers, Write(p)
  PROVE  LifeInv' /\ OopsForGood /\ OpenKept
<1>1. CASE UNCHANGED vars
  <2>1. openers \in SUBSET Drivers
    BY DEF IInv, LifeInv, TypeOK
  <2> QED
    BY <1>1, <2>1, ProgramsKeep DEF IInv, vars
<1>2. CASE StoreUnmapped(p)
  <2>1. /\ phase' = [phase EXCEPT ![LedDriver] = "oops"] /\ "regs" \notin held[LedDriver]
        /\ UNCHANGED <<todo, num, held, tables, openers, clash>>
    BY <1>2 DEF StoreUnmapped
  <2>2. /\ phase \in [Drivers -> Phases] /\ openers \in SUBSET Drivers
        /\ \A d \in Drivers : phase'[d] = IF d = LedDriver THEN "oops" ELSE phase[d]
    BY <2>1 DEF IInv, LifeInv, TypeOK
  <2>3. TypeOK'
    BY <2>1 DEF IInv, LifeInv, TypeOK, Phases
  <2>4. StagesOK'
    BY <2>1, <2>2 DEF IInv, LifeInv, StagesOK, Stage, InitOK, LiveOK, ReleaseOK,
       ExitOK, UnloadedOK, ExitNotOpen
  <2>5. NumbersOK'
    <3>1. LedDriver \in Drivers => LedDriver # "private_data_test"
      BY LedAssumption DEF Table, private_data_test, Ignoring, Contains
    <3>2. LedDriver \in Drivers /\ phase[LedDriver] = "unloaded" => "dev_num" \notin held[LedDriver]
      BY <3>1, SMT DEF IInv, LifeInv, StagesOK, Stage, UnloadedOK, Leftovers
    <3> QED
      BY <2>1, <2>2, <3>2 DEF IInv, LifeInv, NumbersOK
  <2>6. NumberKept'
    BY <2>1, <2>2 DEF IInv, LifeInv, NumberKept, Keeps
  <2>7. ClassesOK'
    BY <2>1 DEF IInv, LifeInv, ClassesOK
  <2>8. OnlyUncheckedOops'
    BY <2>1, <2>2, LedAssumption DEF IInv, LifeInv, OnlyUncheckedOops
  <2>9. OopsForGood /\ OpenKept
    BY <2>1, <2>2 DEF OopsForGood, OpenKept
  <2> QED
    BY <2>3, <2>4, <2>5, <2>6, <2>7, <2>8, <2>9 DEF LifeInv
<1> QED
  BY <1>1, <1>2, Zenon DEF Write, CopyFromUser, CopyFails, Leaves, Test, Store

LEMMA LightStays ==
  ASSUME IInv, LifeInv', OopsForGood, UNCHANGED lightVars
  PROVE  IInv'
BY DEF IInv, LifeInv, OopsForGood, lightVars, LedTypeOK, BurstOK, LightFollows, Quiet

LEMMA WriteKeepsLight ==
  ASSUME IInv, LifeInv', OopsForGood, NEW p \in Writers, Write(p)
  PROVE  IInv'
<1>0. /\ wpc \in [Writers -> {"idle", "test", "on", "off"}] /\ kbuf0 \in Bytes
      /\ vir_gpio_dr \in {"unknown", "on", "off"} /\ burst \in SUBSET (Bytes \cup {"copied"})
      /\ BurstOK /\ TypeOK /\ TypeOK'
  BY DEF IInv, LifeInv, LedTypeOK
<1> SUFFICES LedTypeOK' /\ BurstOK'
  BY DEF IInv
<1>1. ASSUME NEW byte \in Bytes, CopyFromUser(p, byte)
      PROVE  LedTypeOK' /\ BurstOK'
  <2>1. /\ wpc' = [wpc EXCEPT ![p] = "test"] /\ wpc'[p] = "test" /\ wpc[p] = "idle"
        /\ kbuf0' = byte /\ vir_gpio_dr' = vir_gpio_dr
        /\ burst' = IF Quiet THEN {byte, "copied"} ELSE burst \cup {byte, "copied"}
    BY <1>0, <1>1 DEF CopyFromUser, Goto, Leaves
  <2>2. LedTypeOK'
    BY <1>0, <2>1 DEF LedTypeOK
  <2>3. /\ "copied" \in burst' /\ kbuf0' \in burst' /\ ~Quiet'
        /\ ~Quiet => burst \subseteq burst'
    BY <1>0, <2>1 DEF Quiet
  <2>4. ASSUME NEW q \in Writers
        PROVE  (wpc'[q] = "on" => "1" \in burst') /\ (wpc'[q] = "off" => "0" \in burst')
    <3>1. CASE Quiet
      BY <1>0, <2>1, <3>1 DEF Quiet
    <3>2. CASE ~Quiet
      BY <1>0, <2>1, <2>3, <3>2 DEF BurstOK
    <3> QED
      BY <3>1, <3>2
  <2> QED
    BY <2>2, <2>3, <2>4 DEF BurstOK, LightFollows
<1>2. ASSUME NEW byte \in Bytes, CopyFails(p, byte)
      PROVE  LedTypeOK' /\ BurstOK'
  <2>1. /\ wpc' = wpc /\ kbuf0' \in {byte, "0"} /\ vir_gpio_dr' = vir_gpio_dr
        /\ burst' = IF Quiet THEN {kbuf0'} ELSE burst \cup {kbuf0'}
    BY <1>2 DEF CopyFails, Leaves
  <2>2. LedTypeOK' /\ kbuf0' \in Bytes
    BY <1>0, <2>1 DEF LedTypeOK, Bytes
  <2>3. CASE Quiet
    <3>1. burst' = {kbuf0'} /\ "copied" \notin burst' /\ Quiet'
      BY <2>1, <2>2, <2>3 DEF Quiet, Bytes
    <3>2. \A q \in Writers : wpc'[q] = "idle"
      BY <3>1 DEF Quiet
    <3> QED
      BY <2>2, <3>1, <3>2 DEF BurstOK, LightFollows
  <2>4. CASE ~Quiet
    <3>1. burst \subseteq burst' /\ kbuf0' \in burst' /\ ~Quiet'
      BY <2>1, <2>4 DEF Quiet
    <3> QED
      BY <1>0, <2>1, <2>2, <2>4, <3>1 DEF BurstOK, LightFollows
  <2> QED
    BY <2>3, <2>4
<1>3. CASE Test(p)
  <2>1. /\ wpc[p] = "test" /\ UNCHANGED <<phase, kbuf0, vir_gpio_dr, burst>>
        /\ kbuf0 = "1" => wpc' = [wpc EXCEPT ![p] = "on"]
        /\ kbuf0 = "0" => wpc' = [wpc EXCEPT ![p] = "off"]
        /\ kbuf0 # "0" /\ kbuf0 # "1" => wpc' = [wpc EXCEPT ![p] = "idle"]
    BY <1>3 DEF Test, Goto, vars
  <2>2. "copied" \in burst /\ kbuf0 \in burst
    BY <1>0, <2>1 DEF Quiet, BurstOK
  <2>3. LedTypeOK'
    BY <1>0, <2>1 DEF LedTypeOK, Bytes
  <2>4. ASSUME NEW q \in Writers
        PROVE  (wpc'[q] = "on" => "1" \in burst') /\ (wpc'[q] = "off" => "0" \in burst')
    BY <1>0, <2>1, <2>2 DEF BurstOK, Bytes
  <2>5. Quiet' => "2" \in burst'
    <3>1. CASE kbuf0 \in {"0", "1"}
      <4>1. wpc'[p] # "idle"
        BY <1>0, <2>1, <3>1
      <4> QED
        BY <4>1 DEF Quiet
    <3>2. CASE kbuf0 = "2"
      BY <2>1, <2>2, <3>2
    <3> QED
      BY <1>0, <3>1, <3>2 DEF Bytes
  <2> QED
    BY <2>1, <2>2, <2>3, <2>4, <2>5 DEF BurstOK, LightFollows
<1>4. CASE Store(p)
  <2>1. /\ wpc[p] \in {"on", "off"} /\ wpc' = [wpc EXCEPT ![p] = "idle"]
        /\ vir_gpio_dr' = wpc[p] /\ UNCHANGED <<kbuf0, burst>>
    BY <1>4 DEF Store, Goto
  <2>2. /\ "copied" \in burst /\ kbuf0 \in burst
        /\ \/ vir_gpio_dr' = "on" /\ "1" \in burst
           \/ vir_gpio_dr' = "off" /\ "0" \in burst
    BY <1>0, <2>1 DEF Quiet, BurstOK
  <2>3. LedTypeOK'
    BY <1>0, <2>1 DEF LedTypeOK
  <2>4. ASSUME NEW q \in Writers
        PROVE  (wpc'[q] = "on" => "1" \in burst') /\ (wpc'[q] = "off" => "0" \in burst')
    BY <1>0, <2>1 DEF BurstOK
  <2> QED
    BY <2>1, <2>2, <2>3, <2>4 DEF BurstOK, LightFollows
<1>5. CASE StoreUnmapped(p)
  <2>1. /\ wpc[p] \in {"on", "off"} /\ wpc' = [wpc EXCEPT ![p] = "idle"]
        /\ phase' = [phase EXCEPT ![LedDriver] = "oops"]
        /\ UNCHANGED <<vir_gpio_dr, kbuf0, burst>>
    BY <1>5 DEF StoreUnmapped, Goto
  <2>2. LedDriver \in Drivers => phase'[LedDriver] = "oops"
    BY <1>0, <2>1 DEF TypeOK
  <2>3. "copied" \in burst /\ kbuf0 \in burst
    BY <1>0, <2>1 DEF Quiet, BurstOK
  <2>4. LedTypeOK'
    BY <1>0, <2>1 DEF LedTypeOK
  <2>5. ASSUME NEW q \in Writers
        PROVE  (wpc'[q] = "on" => "1" \in burst') /\ (wpc'[q] = "off" => "0" \in burst')
    BY <1>0, <2>1 DEF BurstOK
  <2> QED
    BY <2>1, <2>2, <2>3, <2>4, <2>5 DEF BurstOK, LightFollows
<1> QED
  BY <1>1, <1>2, <1>3, <1>4, <1>5 DEF Write

LEMMA StepKeeps == IInv /\ [LedNext]_ledVars => IInv' /\ OopsForGood /\ OpenKept
<1> SUFFICES ASSUME IInv, [LedNext]_ledVars PROVE IInv' /\ OopsForGood /\ OpenKept
  OBVIOUS
<1>0. LifeInv /\ BurstOK
  BY DEF IInv
<1>1. CASE UNCHANGED ledVars
  <2>1. openers \in SUBSET Drivers
    BY <1>0 DEF LifeInv, TypeOK
  <2>2. LifeInv' /\ OopsForGood /\ OpenKept
    BY <1>0, <1>1, <2>1, ProgramsKeep DEF ledVars, vars
  <2> QED
    BY <1>1, <2>2, LightStays DEF ledVars
<1>2. CASE CloseLed
  <2>1. LedDriver \in Drivers
    BY <1>0, <1>2 DEF CloseLed, Close, LifeInv, TypeOK
  <2>2. LifeInv' /\ OopsForGood /\ OpenKept
    BY <1>0, <1>2, <2>1, NextKeeps DEF CloseLed, Next
  <2> QED
    BY <1>2, <2>2, LightStays DEF CloseLed
<1>3. CASE FreeLed
  <2>1. CASE LedDriver \in Drivers
    <3>1. LifeInv' /\ OopsForGood /\ OpenKept
      BY <1>0, <1>3, <2>1, LifeStepKeeps DEF FreeLed, LifeStep, Rmmod
    <3>2. LedTypeOK' /\ BurstOK'
      BY <1>3, <3>1 DEF FreeLed, IInv, LedTypeOK, LifeInv, BurstOK, LightFollows, Quiet, Bytes
    <3> QED
      BY <3>1, <3>2 DEF IInv
  <2>2. CASE LedDriver \notin Drivers
    <3>1. UNCHANGED <<phase, todo, num, held, tables, openers, clash>>
      BY <1>0, <1>3, <2>2 DEF FreeLed, FreeModule, LifeInv, TypeOK
    <3>2. LifeInv' /\ OopsForGood /\ OpenKept
      BY <1>0, <3>1, ProgramsKeep DEF LifeInv, TypeOK
    <3>3. LedTypeOK' /\ BurstOK'
      BY <1>3, <3>2 DEF FreeLed, IInv, LedTypeOK, LifeInv, BurstOK, LightFollows, Quiet, Bytes
    <3> QED
      BY <3>2, <3>3 DEF IInv
  <2> QED
    BY <2>1, <2>2
<1>4. CASE Otherwise
  <2>1. LifeInv' /\ OopsForGood /\ OpenKept
    BY <1>0, <1>4, NextKeeps DEF Otherwise
  <2> QED
    BY <1>4, <2>1, LightStays DEF Otherwise
<1>5. ASSUME NEW p \in Writers, Write(p) PROVE IInv' /\ OopsForGood /\ OpenKept
  BY <1>5, WriteKeepsLife, WriteKeepsLight
<1> QED
  BY <1>1, <1>2, <1>3, <1>4, <1>5 DEF LedNext

LEMMA InitLifeInv == Init => LifeInv
<1> SUFFICES ASSUME Init PROVE LifeInv
  OBVIOUS
<1> USE DEF Init
<1>1. 0 \in Numbers
  BY BoundsAssumption DEF Numbers
<1>2. TypeOK
  <2>1. <<>> \in Seq(Resources \cup Missed) /\ <<>> \in Seq(Drivers)
    OBVIOUS
  <2>2. /\ phase \in [Drivers -> Phases] /\ todo \in [Drivers -> Seq(Resources \cup Missed)]
        /\ num \in [Drivers -> Numbers] /\ held \in [Drivers -> SUBSET Resources]
    BY <1>1, <2>1 DEF Phases
  <2>3. /\ chrdevs \in [Numbers -> Drivers \cup {Nobody}] /\ cdev_map \in [Numbers -> Seq(Drivers)]
        /\ classes \in [ClassNames -> Drivers \cup {Nobody}] /\ openers \in SUBSET Drivers
    BY <2>1
  <2>4. clash \in BOOLEAN
    BY Zenon
  <2> QED
    BY <2>2, <2>3, <2>4 DEF TypeOK
<1>3. StagesOK
  BY DEF StagesOK, Stage, InitOK, LiveOK, ReleaseOK, ExitOK, UnloadedOK, ExitNotOpen
<1>4. NumbersOK /\ NumberKept /\ ClassesOK /\ OnlyUncheckedOops
  BY <1>1, NobodyIsNoDriver DEF NumbersOK, NumberKept, ClassesOK, OnlyUncheckedOops
<1> QED
  BY <1>2, <1>3, <1>4 DEF LifeInv

LEMMA InitIInv == LedInit => IInv
<1> SUFFICES ASSUME LedInit PROVE IInv
  OBVIOUS
<1>1. Init /\ LifeInv
  BY InitLifeInv DEF LedInit
<1>2. LedTypeOK /\ BurstOK
  BY <1>1 DEF LedInit, LifeInv, LedTypeOK, BurstOK, LightFollows, Quiet, Bytes
<1> QED
  BY <1>1, <1>2 DEF IInv

-----------------------------------------------------------------------------
(* The invariant holds for any drivers, numbers, bounds and writers.       *)
THEOREM Invariance == LedSpec => []IInv
<1>1. LedInit => IInv
  BY InitIInv
<1>2. IInv /\ [LedNext]_ledVars => IInv'
  BY StepKeeps
<1> QED
  BY <1>1, <1>2, PTL DEF LedSpec

(* Type correctness of drivers, kernel tables, programs and light.         *)
THEOREM TypeCorrect == LedSpec => []LedTypeOK
<1>1. IInv => LedTypeOK
  BY DEF IInv
<1> QED
  BY <1>1, Invariance, PTL

LEMMA LifeSafe == LifeInv => NothingLeft /\ LiveKeepsNumber
<1> SUFFICES ASSUME LifeInv PROVE NothingLeft /\ LiveKeepsNumber
  OBVIOUS
<1>1. NothingLeft
  <2> SUFFICES ASSUME NEW d \in Drivers, phase[d] = "unloaded"
               PROVE  /\ held[d] \subseteq Leftovers(d)
                      /\ \A n \in Numbers : chrdevs[n] = d => "dev_num" \in Leftovers(d)
                      /\ \A c \in ClassNames : classes[c] # d
    BY DEF NothingLeft
  <2>1. held[d] \subseteq Leftovers(d)
    BY DEF LifeInv, StagesOK, Stage, UnloadedOK
  <2>2. "class" \notin Leftovers(d)
    BY SMT DEF Leftovers
  <2> QED
    BY <2>1, <2>2 DEF LifeInv, NumbersOK, ClassesOK
<1>2. LiveKeepsNumber
  BY DEF LifeInv, NumberKept, Keeps, LiveKeepsNumber
<1> QED
  BY <1>1, <1>2

(* A driver that is not in memory has left nothing but its leftovers,      *)
(* whichever steps of its init failed and whatever others did meanwhile.   *)
THEOREM AllReleased == LedSpec => []NothingLeft
<1>1. IInv => NothingLeft
  BY LifeSafe DEF IInv
<1> QED
  BY <1>1, Invariance, PTL

(* No other driver's exit or error path releases a live driver's number.   *)
THEOREM NumberIsOwn == LedSpec => []LiveKeepsNumber
<1>1. IInv => LiveKeepsNumber
  BY LifeSafe DEF IInv
<1> QED
  BY <1>1, Invariance, PTL

(* No order of failures, releases and writes crashes a driver but for want *)
(* of a class that its init has gone on without, or of a mapping.          *)
THEOREM OnlyUnchecked == LedSpec => []OnlyUncheckedOops
<1>1. IInv => OnlyUncheckedOops
  BY DEF IInv, LifeInv
<1> QED
  BY <1>1, Invariance, PTL

(* No step takes a module away under an open file, but for a failed init.  *)
THEOREM OpenIsCounted == LedSpec => OpenKeepsModule
<1>1. IInv /\ [LedNext]_ledVars =>
        [\A d \in openers :
            phase'[d] \in {"exit", "unloaded"} => phase'[d] = phase[d] \/ phase[d] = "unwind"]_vars
  BY StepKeeps DEF OpenKept
<1> QED
  BY <1>1, Invariance, PTL DEF LedSpec, OpenKeepsModule

(* However writes overlap, and whichever of their copies fail, the light   *)
(* shows a byte that one of them has left.                                 *)
THEOREM LightIsRight == LedSpec => []LightFollows
<1>1. IInv => LightFollows
  BY DEF IInv, BurstOK
<1> QED
  BY <1>1, Invariance, PTL

-----------------------------------------------------------------------------
(* Lifecycle on its own, where nobody writes.                              *)

OnlyClassOops == \A d \in Drivers : phase[d] = "oops" => ClassCause(d)

NeverOops == \A d \in Drivers : Table[d].checked # {} => phase[d] # "oops"

LEMMA AloneInvariance == Spec => [](LifeInv /\ OnlyClassOops)
<1>1. Init => LifeInv /\ OnlyClassOops
  BY InitLifeInv DEF Init, OnlyClassOops
<1>2. LifeInv /\ OnlyClassOops /\ [Next]_vars => LifeInv' /\ OnlyClassOops'
  <2> SUFFICES ASSUME LifeInv, OnlyClassOops, [Next]_vars PROVE LifeInv' /\ OnlyClassOops'
    OBVIOUS
  <2>1. LifeInv' /\ NoCrashBegins
    <3>1. openers \in SUBSET Drivers
      BY DEF LifeInv, TypeOK
    <3> QED
      BY <3>1, NextKeeps, ProgramsKeep DEF vars
  <2> QED
    BY <2>1 DEF OnlyClassOops, NoCrashBegins, ClassCause, Unchecked
<1> QED
  BY <1>1, <1>2, PTL DEF Spec

(* Without a write, a class that init has gone on without is the only      *)
(* cause of a crash, however the drivers are loaded, opened, closed and    *)
(* unloaded beside each other; so no driver that checks its steps crashes  *)
(* at all.  Nothing is left and no number is lost, as with writes.         *)
THEOREM SafeAlone == Spec => [](OnlyClassOops /\ NeverOops /\ NothingLeft /\ LiveKeepsNumber)
<1>1. LifeInv => NothingLeft /\ LiveKeepsNumber
  BY LifeSafe
<1>2. OnlyClassOops => NeverOops
  <2>1. \A d \in Drivers : ExitOrder(Table[d])
    BY TableOK DEF RowOK
  <2> QED
    BY <2>1 DEF OnlyClassOops, NeverOops, ClassCause, Unchecked, ExitOrder
<1> QED
  BY <1>1, <1>2, AloneInvariance, PTL
===============================================================================
