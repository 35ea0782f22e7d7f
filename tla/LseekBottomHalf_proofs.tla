----------------------- MODULE LseekBottomHalf_proofs -----------------------
(***************************************************************************)
(* Proofs about two components that share neither state nor names:         *)
(*   - BottomHalf, for each of the modules 19 and 30 to 34 and any CPUs;   *)
(*   - LseekDevice, for every size of the buffer, every width of loff_t    *)
(*     and any number of threads and open files.                           *)
(***************************************************************************)
EXTENDS BottomHalf, LseekDevice, TLAPS

-----------------------------------------------------------------------------
(* BottomHalf.                                                             *)

(* What is left of a list of steps: todo is an end of it.                  *)
EndOf(list) ==
    /\ Len(todo) <= Len(list)
    /\ \A i \in 1..Len(todo) : todo[i] = list[Len(list) - Len(todo) + i]

ToCome(s) == \E i \in 1..Len(todo) : todo[i] = s

OnList ==
    /\ driver \in DOMAIN Table
    /\ phase \in {"unloaded", "init", "live", "exit"}
    /\ todo \in Seq(StepNames)
    /\ phase \in {"unloaded", "live"} => todo = <<>>
    /\ phase = "init" => EndOf(Table[driver].init)
    /\ phase = "exit" => EndOf(Table[driver].exit)

(* The interrupt can come from request_irq to free_irq and at no other     *)
(* time.                                                                   *)
LineHeld ==
    /\ handler \/ line => irq
    /\ irq => /\ driver # "timer_mod" /\ InMemory
              /\ ~ToCome("request_irq")
              /\ phase = "exit" => ToCome("free_irq")

(* The bottom half is set up by the step of init that says so.             *)
SetUps == {"tasklet_init", "open_softirq", "work_func", "INIT_DELAYED_WORK", "add_timer"}

ReadyWhenSetUp ==
    InMemory /\ driver # "interrupt" => (ready <=> \A s \in SetUps : ~ToCome(s))

(* Nothing waits or runs before the first step of init, and after exit     *)
(* only what was left over; a module that is gone runs a work item at most.*)
Idle == queued = 0 /\ pending = {} /\ ~delay /\ running = {}

LeftOver ==
    /\ left => ~InMemory
    /\ ~InMemory /\ ~left => Idle
    /\ ToCome("request_irq") \/ ToCome("add_timer") => Idle
    /\ running # {} /\ ~InMemory => driver = "workqueue"

(* One entry at most, but for the tasklet, which may have one more if an   *)
(* interrupt came before tasklet_init; and every entry, and each pending   *)
(* bit of the softirq, has been asked for.                                 *)
Entries ==
    /\ queued \in 0..2
    /\ driver # "tasklet" => queued < 2 /\ (queued > 0 \/ delay => asked # {})
    /\ driver \in {"interrupt", "timer_mod", "softirq"} => queued = 0
    /\ driver # "softirq" => pending = {}
    /\ pending \subseteq asked
    /\ driver \notin {"timer_mod", "workdelay"} => ~delay
    /\ driver \in {"tasklet", "softirq", "workqueue"} /\ ~ready /\ ~early =>
          queued = 0 /\ pending = {}

TaskletEntries ==
    driver = "tasklet" =>
        /\ sched => asked # {}
        /\ ~sched => queued < 2 /\ (queued = 1 => ready /\ early)
        /\ ~ready \/ ~early => queued < 2

(* exit's pair of steps brings the count back to 0.                        *)
CountBalanced ==
    disables = IF ToCome("tasklet_disable_nosync") /\ ~ToCome("tasklet_enable") THEN -1 ELSE 0

(* The delayed work is on its timer or in its queue only while init has    *)
(* set it up and exit has not cancelled it; the queue is there longer.     *)
DelayedWorkHeld ==
    driver = "workdelay" =>
        /\ delay \/ queued > 0 => ready /\ sched
        /\ ~(delay /\ queued > 0)
        /\ ~InMemory => Idle
        /\ phase = "exit" /\ ~ToCome("cancel_delayed_work_sync") => Idle
        /\ phase = "init" => ToCome("create_workqueue") \/ wq # "none"
        /\ phase = "live" \/ ToCome("destroy_workqueue") => wq # "none"

TimerHeld ==
    driver = "timer_mod" =>
        /\ delay => running = {} /\ InMemory
        /\ phase = "exit" /\ ~ToCome("del_timer") => ~delay

Held ==
    /\ OnList /\ LineHeld /\ ReadyWhenSetUp /\ LeftOver /\ Entries
    /\ TaskletEntries /\ CountBalanced /\ DelayedWorkHeld /\ TimerHeld /\ OnlyKnownCrashes

BottomIInv == BottomTypeOK /\ Held
-----------------------------------------------------------------------------
(* Where init and exit are in their lists.                                 *)

Distinct(list) == \A i, j \in 1..Len(list) : list[i] = list[j] => i = j

(* A step is to come if its place in the list is.                          *)
LEMMA Places ==
  ASSUME NEW list \in Seq(StepNames), EndOf(list), Distinct(list), todo \in Seq(StepNames)
  PROVE  /\ \A j \in 1..Len(list) : ToCome(list[j]) <=> Len(list) < Len(todo) + j
         /\ \A s : ToCome(s) => \E j \in 1..Len(list) : list[j] = s
<1>1. Len(list) \in Nat /\ Len(todo) \in Nat
  OBVIOUS
<1>2. ASSUME NEW j \in 1..Len(list), ToCome(list[j])
      PROVE  Len(list) < Len(todo) + j
  <2>1. PICK i \in 1..Len(todo) : todo[i] = list[j]
    BY <1>2 DEF ToCome
  <2>2. /\ Len(list) - Len(todo) + i \in 1..Len(list)
        /\ list[Len(list) - Len(todo) + i] = list[j]
    BY <1>1, <2>1 DEF EndOf
  <2>3. Len(list) - Len(todo) + i = j
    BY <2>2 DEF Distinct
  <2> QED
    BY <1>1, <2>3
<1>3. ASSUME NEW j \in 1..Len(list), Len(list) < Len(todo) + j
      PROVE  ToCome(list[j])
  <2> DEFINE i == j + Len(todo) - Len(list)
  <2>1. i \in 1..Len(todo) /\ Len(list) - Len(todo) + i = j
    BY <1>1, <1>3 DEF EndOf
  <2> QED
    BY <2>1 DEF EndOf, ToCome
<1>4. \A s : ToCome(s) => \E j \in 1..Len(list) : list[j] = s
  <2> SUFFICES ASSUME NEW s, ToCome(s)
               PROVE  \E j \in 1..Len(list) : list[j] = s
    OBVIOUS
  <2>1. PICK i \in 1..Len(todo) : todo[i] = s
    BY DEF ToCome
  <2>2. /\ Len(list) - Len(todo) + i \in 1..Len(list)
        /\ list[Len(list) - Len(todo) + i] = s
    BY <1>1, <2>1 DEF EndOf
  <2> QED
    BY <2>2
<1> QED
  BY <1>2, <1>3, <1>4

(* A step takes its own name, and no other, from what is to come.          *)
LEMMA TailPlaces ==
  ASSUME NEW list \in Seq(StepNames), EndOf(list), Distinct(list), todo \in Seq(StepNames),
         todo # <<>>, todo' = Tail(todo)
  PROVE  /\ todo' \in Seq(StepNames)
         /\ EndOf(list)'
         /\ ToCome(Head(todo))
         /\ \A s : ToCome(s)' <=> ToCome(s) /\ s # Head(todo)
<1>1. /\ Len(list) \in Nat /\ Len(todo) \in Nat \ {0}
      /\ todo' \in Seq(StepNames) /\ Len(todo') = Len(todo) - 1
      /\ \A i \in 1..Len(todo') : todo'[i] = todo[i + 1]
      /\ Head(todo) = todo[1]
  OBVIOUS
<1>2. EndOf(list)'
  BY <1>1 DEF EndOf
<1>3. ToCome(Head(todo))
  BY <1>1 DEF ToCome
<1>4. ASSUME NEW s, ToCome(s)' PROVE ToCome(s) /\ s # Head(todo)
  <2>1. PICK i \in 1..Len(todo') : todo'[i] = s
    BY <1>4 DEF ToCome
  <2>2. i + 1 \in 1..Len(todo) /\ todo[i + 1] = s
    BY <1>1, <2>1
  <2>3. /\ Len(list) - Len(todo) + i + 1 \in 1..Len(list)
        /\ list[Len(list) - Len(todo) + i + 1] = s
        /\ Len(list) - Len(todo) + 1 \in 1..Len(list)
        /\ list[Len(list) - Len(todo) + 1] = Head(todo)
    BY <1>1, <2>1, <2>2 DEF EndOf
  <2>4. s # Head(todo)
    BY <1>1, <2>1, <2>3 DEF Distinct
  <2> QED
    BY <2>2, <2>4 DEF ToCome
<1>5. ASSUME NEW s, ToCome(s), s # Head(todo) PROVE ToCome(s)'
  <2>1. PICK i \in 1..Len(todo) : todo[i] = s
    BY <1>5 DEF ToCome
  <2>2. i - 1 \in 1..Len(todo') /\ todo'[i - 1] = s
    BY <1>1, <1>5, <2>1
  <2> QED
    BY <2>2 DEF ToCome
<1> QED
  BY <1>1, <1>2, <1>3, <1>4, <1>5

LEMMA Drivers ==
    /\ DOMAIN Table =
           {"interrupt", "tasklet", "softirq", "workqueue", "workdelay", "timer_mod"}
    /\ Table["interrupt"] = interrupt /\ Table["tasklet"] = tasklet
    /\ Table["softirq"] = softirq /\ Table["workqueue"] = workqueue
    /\ Table["workdelay"] = workdelay /\ Table["timer_mod"] = timer_mod
BY DEF Table

LEMMA Lists ==
  ASSUME NEW d \in DOMAIN Table
  PROVE  /\ Table[d].init \in Seq(StepNames) /\ Distinct(Table[d].init)
         /\ Table[d].exit \in Seq(StepNames) /\ Distinct(Table[d].exit)
<1> USE DEF Distinct, StepNames, Steps
<1>1. CASE d = "interrupt"
  BY <1>1, Drivers DEF interrupt
<1>2. CASE d = "tasklet"
  BY <1>2, Drivers DEF tasklet
<1>3. CASE d = "softirq"
  BY <1>3, Drivers DEF softirq
<1>4. CASE d = "workqueue"
  BY <1>4, Drivers DEF workqueue
<1>5. CASE d = "workdelay"
  BY <1>5, Drivers DEF workdelay
<1>6. CASE d = "timer_mod"
  BY <1>6, Drivers DEF timer_mod
<1> QED
  BY <1>1, <1>2, <1>3, <1>4, <1>5, <1>6, Drivers

(* The same, for lists as short as those of init and exit.                 *)
LEMMA OneStep ==
  ASSUME todo \in Seq(StepNames), NEW a \in StepNames, EndOf(<<a>>)
  PROVE  \A s : ToCome(s) => s \in {a}
<1> DEFINE l == <<a>>
<1>1. l \in Seq(StepNames) /\ Len(l) = 1 /\ l[1] = a
  OBVIOUS
<1>2. Len(todo) \in Nat /\ EndOf(l)
  OBVIOUS
<1> HIDE DEF l
<1>3. Distinct(l)
  BY <1>1 DEF Distinct
<1>4. /\ \A j \in 1..1 : ToCome(l[j]) <=> 1 < Len(todo) + j
      /\ \A s : ToCome(s) => \E j \in 1..1 : l[j] = s
  <2>1. /\ \A j \in 1..Len(l) : ToCome(l[j]) <=> Len(l) < Len(todo) + j
        /\ \A s : ToCome(s) => \E j \in 1..Len(l) : l[j] = s
    BY <1>1, <1>2, <1>3, Places
  <2> QED
    BY <1>1, <2>1
<1> QED
  BY <1>1, <1>2, <1>4

LEMMA TwoSteps ==
  ASSUME todo \in Seq(StepNames), NEW a \in StepNames, NEW b \in StepNames,
         a # b, EndOf(<<a, b>>)
  PROVE  /\ \A s : ToCome(s) => s \in {a, b}
         /\ ToCome(a) => ToCome(b)
<1> DEFINE l == <<a, b>>
<1>1. l \in Seq(StepNames) /\ Len(l) = 2 /\ l[1] = a /\ l[2] = b
  OBVIOUS
<1>2. Len(todo) \in Nat /\ EndOf(l)
  OBVIOUS
<1> HIDE DEF l
<1>3. Distinct(l)
  BY <1>1 DEF Distinct
<1>4. /\ \A j \in 1..2 : ToCome(l[j]) <=> 2 < Len(todo) + j
      /\ \A s : ToCome(s) => \E j \in 1..2 : l[j] = s
  <2>1. /\ \A j \in 1..Len(l) : ToCome(l[j]) <=> Len(l) < Len(todo) + j
        /\ \A s : ToCome(s) => \E j \in 1..Len(l) : l[j] = s
    BY <1>1, <1>2, <1>3, Places
  <2> QED
    BY <1>1, <2>1
<1> QED
  BY <1>1, <1>2, <1>4

LEMMA ThreeSteps ==
  ASSUME todo \in Seq(StepNames), NEW a \in StepNames, NEW b \in StepNames,
         NEW c \in StepNames,
         a # b, a # c, b # c, EndOf(<<a, b, c>>)
  PROVE  /\ \A s : ToCome(s) => s \in {a, b, c}
         /\ ToCome(a) => ToCome(b)
         /\ ToCome(b) => ToCome(c)
<1> DEFINE l == <<a, b, c>>
<1>1. l \in Seq(StepNames) /\ Len(l) = 3 /\ l[1] = a /\ l[2] = b /\ l[3] = c
  OBVIOUS
<1>2. Len(todo) \in Nat /\ EndOf(l)
  OBVIOUS
<1> HIDE DEF l
<1>3. Distinct(l)
  BY <1>1 DEF Distinct
<1>4. /\ \A j \in 1..3 : ToCome(l[j]) <=> 3 < Len(todo) + j
      /\ \A s : ToCome(s) => \E j \in 1..3 : l[j] = s
  <2>1. /\ \A j \in 1..Len(l) : ToCome(l[j]) <=> Len(l) < Len(todo) + j
        /\ \A s : ToCome(s) => \E j \in 1..Len(l) : l[j] = s
    BY <1>1, <1>2, <1>3, Places
  <2> QED
    BY <1>1, <2>1
<1> QED
  BY <1>1, <1>2, <1>4

LEMMA FourSteps ==
  ASSUME todo \in Seq(StepNames), NEW a \in StepNames, NEW b \in StepNames,
         NEW c \in StepNames, NEW d \in StepNames,
         a # b, a # c, a # d, b # c, b # d, c # d,
         EndOf(<<a, b, c, d>>)
  PROVE  /\ \A s : ToCome(s) => s \in {a, b, c, d}
         /\ ToCome(a) => ToCome(b)
         /\ ToCome(b) => ToCome(c)
         /\ ToCome(c) => ToCome(d)
<1> DEFINE l == <<a, b, c, d>>
<1>1. l \in Seq(StepNames) /\ Len(l) = 4 /\ l[1] = a /\ l[2] = b /\ l[3] = c /\ l[4] = d
  OBVIOUS
<1>2. Len(todo) \in Nat /\ EndOf(l)
  OBVIOUS
<1> HIDE DEF l
<1>3. Distinct(l)
  BY <1>1 DEF Distinct
<1>4. /\ \A j \in 1..4 : ToCome(l[j]) <=> 4 < Len(todo) + j
      /\ \A s : ToCome(s) => \E j \in 1..4 : l[j] = s
  <2>1. /\ \A j \in 1..Len(l) : ToCome(l[j]) <=> Len(l) < Len(todo) + j
        /\ \A s : ToCome(s) => \E j \in 1..Len(l) : l[j] = s
    BY <1>1, <1>2, <1>3, Places
  <2> QED
    BY <1>1, <2>1
<1> QED
  BY <1>1, <1>2, <1>4

(* What is to come says which module it is, whether it is in init or exit, *)
(* and what comes after it.                                                *)
InOrder ==
    /\ todo = <<>> => \A s : ~ToCome(s)
    /\ ToCome("request_irq") =>
         /\ phase = "init" /\ driver # "timer_mod"
         /\ driver # "interrupt" => \E s \in SetUps : ToCome(s)
         /\ driver = "workdelay" => ToCome("create_workqueue")
    /\ \A s \in SetUps : ToCome(s) =>
         /\ phase = "init" /\ driver # "interrupt"
         /\ s = "tasklet_init" <=> driver = "tasklet"
         /\ s = "open_softirq" <=> driver = "softirq"
         /\ s = "work_func" <=> driver = "workqueue"
         /\ s = "INIT_DELAYED_WORK" <=> driver = "workdelay"
         /\ s = "add_timer" <=> driver = "timer_mod"
    /\ ToCome("INIT_LIST_HEAD") =>
         phase = "init" /\ driver = "workqueue" /\ ToCome("work_func")
    /\ ToCome("create_workqueue") =>
         phase = "init" /\ driver = "workdelay" /\ ToCome("INIT_DELAYED_WORK")
    /\ ToCome("free_irq") =>
         /\ phase = "exit" /\ driver # "timer_mod"
         /\ driver = "tasklet" => ToCome("tasklet_enable")
         /\ driver = "workdelay" => ToCome("cancel_delayed_work_sync")
    /\ ToCome("tasklet_enable") => ToCome("tasklet_disable_nosync")
    /\ ToCome("tasklet_disable_nosync") => ToCome("tasklet_unlock_wait")
    /\ ToCome("tasklet_unlock_wait") => phase = "exit" /\ driver = "tasklet"
    /\ ToCome("cancel_delayed_work_sync") => ToCome("flush_workqueue")
    /\ ToCome("flush_workqueue") => ToCome("destroy_workqueue")
    /\ ToCome("destroy_workqueue") => phase = "exit" /\ driver = "workdelay"
    /\ ToCome("del_timer") => phase = "exit" /\ driver = "timer_mod"

LEMMA Order == OnList => InOrder
<1> SUFFICES ASSUME OnList PROVE InOrder
  OBVIOUS
<1> USE DEF InOrder
<1>1. CASE todo = <<>>
  BY <1>1 DEF ToCome
<1>2. todo \in Seq(StepNames) /\ driver \in DOMAIN Table
  BY DEF OnList
<1> USE DEF SetUps
<1>3. CASE phase = "init" /\ driver = "interrupt"
  <2>1. EndOf(<<"request_irq">>)
    BY <1>3, Drivers DEF OnList, interrupt, Steps
  <2>2. \A s : ToCome(s) => s \in {"request_irq"}
    BY <1>2, <2>1, OneStep DEF StepNames
  <2> QED
    BY <1>1, <1>3, <2>2
<1>4. CASE phase = "init" /\ driver = "tasklet"
  <2>1. EndOf(<<"request_irq", "tasklet_init">>)
    BY <1>4, Drivers DEF OnList, tasklet, Steps
  <2>2. /\ \A s : ToCome(s) => s \in {"request_irq", "tasklet_init"}
        /\ ToCome("request_irq") => ToCome("tasklet_init")
    BY <1>2, <2>1, TwoSteps DEF StepNames
  <2> QED
    BY <1>1, <1>4, <2>2
<1>5. CASE phase = "init" /\ driver = "softirq"
  <2>1. EndOf(<<"request_irq", "open_softirq">>)
    BY <1>5, Drivers DEF OnList, softirq, Steps
  <2>2. /\ \A s : ToCome(s) => s \in {"request_irq", "open_softirq"}
        /\ ToCome("request_irq") => ToCome("open_softirq")
    BY <1>2, <2>1, TwoSteps DEF StepNames
  <2> QED
    BY <1>1, <1>5, <2>2
<1>6. CASE phase = "init" /\ driver = "workqueue"
  <2>1. EndOf(<<"request_irq", "INIT_LIST_HEAD", "work_func">>)
    BY <1>6, Drivers DEF OnList, workqueue, Steps
  <2>0. /\ "request_irq" \in StepNames /\ "INIT_LIST_HEAD" \in StepNames
        /\ "work_func" \in StepNames
    BY DEF StepNames
  <2>2. /\ \A s : ToCome(s) => s \in {"request_irq", "INIT_LIST_HEAD", "work_func"}
        /\ ToCome("request_irq") => ToCome("INIT_LIST_HEAD")
        /\ ToCome("INIT_LIST_HEAD") => ToCome("work_func")
    BY <1>2, <2>0, <2>1, ThreeSteps
  <2> QED
    BY <1>1, <1>6, <2>2
<1>7. CASE phase = "init" /\ driver = "workdelay"
  <2>1. EndOf(<<"request_irq", "create_workqueue", "INIT_DELAYED_WORK">>)
    BY <1>7, Drivers DEF OnList, workdelay, Steps
  <2>0. /\ "request_irq" \in StepNames /\ "create_workqueue" \in StepNames
        /\ "INIT_DELAYED_WORK" \in StepNames
    BY DEF StepNames
  <2>2. /\ \A s : ToCome(s) => s \in {"request_irq", "create_workqueue", "INIT_DELAYED_WORK"}
        /\ ToCome("request_irq") => ToCome("create_workqueue")
        /\ ToCome("create_workqueue") => ToCome("INIT_DELAYED_WORK")
    BY <1>2, <2>0, <2>1, ThreeSteps
  <2> QED
    BY <1>1, <1>7, <2>2
<1>8. CASE phase = "init" /\ driver = "timer_mod"
  <2>1. EndOf(<<"add_timer">>)
    BY <1>8, Drivers DEF OnList, timer_mod, Steps
  <2>2. \A s : ToCome(s) => s \in {"add_timer"}
    BY <1>2, <2>1, OneStep DEF StepNames
  <2> QED
    BY <1>1, <1>8, <2>2
<1>9. CASE phase = "exit" /\ driver \in {"interrupt", "softirq", "workqueue"}
  <2>1. EndOf(<<"free_irq">>)
    BY <1>9, Drivers DEF OnList, interrupt, softirq, workqueue, Steps
  <2>2. \A s : ToCome(s) => s \in {"free_irq"}
    BY <1>2, <2>1, OneStep DEF StepNames
  <2> QED
    BY <1>1, <1>9, <2>2
<1>10. CASE phase = "exit" /\ driver = "tasklet"
  <2>1. EndOf(<<"free_irq", "tasklet_enable",
               "tasklet_disable_nosync", "tasklet_unlock_wait">>)
    BY <1>10, Drivers DEF OnList, tasklet, Steps
  <2>0. /\ "free_irq" \in StepNames /\ "tasklet_enable" \in StepNames
        /\ "tasklet_disable_nosync" \in StepNames /\ "tasklet_unlock_wait" \in StepNames
    BY DEF StepNames
  <2>2. /\ \A s : ToCome(s) =>
                 s \in {"free_irq", "tasklet_enable",
                        "tasklet_disable_nosync", "tasklet_unlock_wait"}
        /\ ToCome("free_irq") => ToCome("tasklet_enable")
        /\ ToCome("tasklet_enable") => ToCome("tasklet_disable_nosync")
        /\ ToCome("tasklet_disable_nosync") => ToCome("tasklet_unlock_wait")
    BY <1>2, <2>0, <2>1, FourSteps
  <2> QED
    BY <1>1, <1>10, <2>2
<1>11. CASE phase = "exit" /\ driver = "workdelay"
  <2>1. EndOf(<<"free_irq", "cancel_delayed_work_sync",
               "flush_workqueue", "destroy_workqueue">>)
    BY <1>11, Drivers DEF OnList, workdelay, Steps
  <2>0. /\ "free_irq" \in StepNames /\ "cancel_delayed_work_sync" \in StepNames
        /\ "flush_workqueue" \in StepNames /\ "destroy_workqueue" \in StepNames
    BY DEF StepNames
  <2>2. /\ \A s : ToCome(s) =>
                 s \in {"free_irq", "cancel_delayed_work_sync",
                        "flush_workqueue", "destroy_workqueue"}
        /\ ToCome("free_irq") => ToCome("cancel_delayed_work_sync")
        /\ ToCome("cancel_delayed_work_sync") => ToCome("flush_workqueue")
        /\ ToCome("flush_workqueue") => ToCome("destroy_workqueue")
    BY <1>2, <2>0, <2>1, FourSteps
  <2> QED
    BY <1>1, <1>11, <2>2
<1>12. CASE phase = "exit" /\ driver = "timer_mod"
  <2>1. EndOf(<<"del_timer">>)
    BY <1>12, Drivers DEF OnList, timer_mod, Steps
  <2>2. \A s : ToCome(s) => s \in {"del_timer"}
    BY <1>2, <2>1, OneStep DEF StepNames
  <2> QED
    BY <1>1, <1>12, <2>2
<1> QED
  BY <1>1, <1>3, <1>4, <1>5, <1>6, <1>7, <1>8, <1>9, <1>10, <1>11, <1>12, Drivers DEF OnList

LEMMA OrderKept == OnList' => InOrder'
BY Order, PTL

LEMMA StepTaken ==
  ASSUME OnList, NEW s, Step(s)
  PROVE  /\ OnList' /\ ToCome(s)
         /\ \A t : ToCome(t)' <=> ToCome(t) /\ t # s
         /\ driver' = driver /\ phase' = phase /\ phase \in {"init", "exit"}
<1>1. /\ todo \in Seq(StepNames) /\ todo # <<>> /\ todo' = Tail(todo) /\ Head(todo) = s
      /\ UNCHANGED <<driver, phase>> /\ phase \in {"init", "exit"}
  BY DEF OnList, Step
<1>2. CASE phase = "init"
  <2>1. /\ Table[driver].init \in Seq(StepNames) /\ Distinct(Table[driver].init)
        /\ EndOf(Table[driver].init)
    BY <1>2, Lists DEF OnList
  <2>2. /\ todo' \in Seq(StepNames) /\ EndOf(Table[driver].init)'
        /\ ToCome(s) /\ \A t : ToCome(t)' <=> ToCome(t) /\ t # s
    BY <1>1, <2>1, TailPlaces DEF EndOf
  <2> QED
    BY <1>1, <1>2, <2>2 DEF OnList
<1>3. CASE phase = "exit"
  <2>1. /\ Table[driver].exit \in Seq(StepNames) /\ Distinct(Table[driver].exit)
        /\ EndOf(Table[driver].exit)
    BY <1>3, Lists DEF OnList
  <2>2. /\ todo' \in Seq(StepNames) /\ EndOf(Table[driver].exit)'
        /\ ToCome(s) /\ \A t : ToCome(t)' <=> ToCome(t) /\ t # s
    BY <1>1, <2>1, TailPlaces DEF EndOf
  <2> QED
    BY <1>1, <1>3, <2>2 DEF OnList
<1> QED
  BY <1>1, <1>2, <1>3

(* Load and Unload put a whole list in todo, the others empty it.          *)
LEMMA ListBegun ==
  ASSUME OnList, Load \/ Unload
  PROVE  /\ OnList'
         /\ Load => IF driver = "timer_mod" THEN ToCome("add_timer")'
                                            ELSE ToCome("request_irq")'
         /\ Unload => IF driver = "timer_mod" THEN ToCome("del_timer")'
                                              ELSE ToCome("free_irq")'
<1>1. driver' = driver /\ driver \in DOMAIN Table
  BY DEF OnList, Load, Unload
<1>2. CASE Load
  <2>1. todo' = Table[driver].init /\ phase' = "init" /\ phase # "live"
    BY <1>2 DEF Load
  <2>2. OnList'
    BY <1>1, <2>1, Lists DEF OnList, EndOf
  <2>3. IF driver = "timer_mod" THEN todo'[1] = "add_timer" ELSE todo'[1] = "request_irq"
    BY <1>1, <2>1, Drivers DEF Steps, interrupt, tasklet, softirq, workqueue, workdelay,
       timer_mod
  <2>4. 1 \in 1..Len(todo')
    BY <1>1, <2>1, Drivers DEF Steps, interrupt, tasklet, softirq, workqueue, workdelay,
       timer_mod
  <2> QED
    BY <1>2, <2>1, <2>2, <2>3, <2>4 DEF ToCome, Unload
<1>3. CASE Unload
  <2>1. todo' = Table[driver].exit /\ phase' = "exit" /\ phase # "unloaded"
    BY <1>3 DEF Unload
  <2>2. OnList'
    BY <1>1, <2>1, Lists DEF OnList, EndOf
  <2>3. IF driver = "timer_mod" THEN todo'[1] = "del_timer" ELSE todo'[1] = "free_irq"
    BY <1>1, <2>1, Drivers DEF Steps, interrupt, tasklet, softirq, workqueue, workdelay,
       timer_mod
  <2>4. 1 \in 1..Len(todo')
    BY <1>1, <2>1, Drivers DEF Steps, interrupt, tasklet, softirq, workqueue, workdelay,
       timer_mod
  <2> QED
    BY <1>3, <2>1, <2>2, <2>3, <2>4 DEF ToCome, Load
<1> QED
  BY <1>2, <1>3

LEMMA ListEnded ==
  ASSUME OnList, InitDone \/ FreeModule \/ RequestIrqFails
  PROVE  OnList' /\ todo' = <<>>
<1>1. <<>> \in Seq(StepNames)
  OBVIOUS
<1> QED
  BY <1>1 DEF OnList, InitDone, FreeModule, RequestIrqFails
-----------------------------------------------------------------------------
USE DEF module, hardware, queues, bottom, outcome, InMemory

(* The steps of init.                                                      *)
LEMMA InitKeeps ==
  ASSUME BottomIInv, ~crashed, InitSteps
  PROVE  Held'
<1>0. /\ InOrder
      /\ \A s : Step(s) =>
            /\ OnList' /\ InOrder' /\ ToCome(s)
            /\ \A t : ToCome(t)' <=> ToCome(t) /\ t # s
            /\ driver' = driver /\ phase' = phase /\ phase \in {"init", "exit"}
      /\ RequestIrqFails \/ InitDone => OnList' /\ InOrder' /\ todo' = <<>>
  BY StepTaken, ListEnded, Order, OrderKept DEF BottomIInv, Held
<1> USE DEF BottomIInv, Held, InOrder, SetUps, LineHeld, ReadyWhenSetUp, LeftOver, Idle,
            Entries, TaskletEntries, CountBalanced, DelayedWorkHeld, TimerHeld,
            OnlyKnownCrashes
<1>1. CASE RequestIrq
  BY <1>0, <1>1 DEF RequestIrq
<1>2. CASE RequestIrqFails
  <2>1. ToCome("request_irq")
    BY <1>2 DEF RequestIrqFails, OnList, ToCome
  <2> QED
    BY <1>0, <1>2, <2>1 DEF RequestIrqFails
<1>3. CASE TaskletInit
  BY <1>0, <1>3 DEF TaskletInit
<1>4. CASE OpenSoftirq
  BY <1>0, <1>4 DEF OpenSoftirq
<1>5. CASE InitListHead
  BY <1>0, <1>5 DEF InitListHead
<1>6. CASE WorkFunc
  BY <1>0, <1>6 DEF WorkFunc
<1>7. CASE CreateWorkqueue
  BY <1>0, <1>7 DEF CreateWorkqueue
<1>8. CASE InitDelayedWork
  BY <1>0, <1>8 DEF InitDelayedWork
<1>9. CASE AddTimer
  BY <1>0, <1>9 DEF AddTimer
<1>10. CASE InitDone
  BY <1>0, <1>10 DEF InitDone
<1> QED
  BY <1>1, <1>2, <1>3, <1>4, <1>5, <1>6, <1>7, <1>8, <1>9, <1>10 DEF InitSteps

(* The steps of exit.                                                      *)
LEMMA ExitKeeps ==
  ASSUME BottomIInv, ~crashed, ExitSteps
  PROVE  Held'
<1>0. /\ InOrder
      /\ \A s : Step(s) =>
            /\ OnList' /\ InOrder' /\ ToCome(s)
            /\ \A t : ToCome(t)' <=> ToCome(t) /\ t # s
            /\ driver' = driver /\ phase' = phase /\ phase \in {"init", "exit"}
      /\ FreeModule => OnList' /\ InOrder' /\ todo' = <<>>
  BY StepTaken, ListEnded, Order, OrderKept DEF BottomIInv, Held
<1> USE DEF BottomIInv, Held, InOrder, SetUps, LineHeld, ReadyWhenSetUp, LeftOver, Idle,
            Entries, TaskletEntries, CountBalanced, DelayedWorkHeld, TimerHeld,
            OnlyKnownCrashes
<1>1. CASE FreeIrq
  BY <1>0, <1>1 DEF FreeIrq
<1>2. CASE TaskletEnable
  BY <1>0, <1>2 DEF TaskletEnable, TaskletCount
<1>3. CASE TaskletDisable
  BY <1>0, <1>3 DEF TaskletDisable, TaskletCount
<1>4. CASE TaskletUnlockWait
  BY <1>0, <1>4 DEF TaskletUnlockWait
<1>5. CASE CancelPending
  <2>1. /\ OnList' /\ driver' = driver /\ phase' = phase
        /\ \A t : ToCome(t)' <=> ToCome(t)
    BY <1>5 DEF CancelPending, OnList, EndOf, ToCome
  <2> QED
    BY <1>0, <1>5, <2>1 DEF CancelPending
<1>6. CASE CancelDone
  BY <1>0, <1>6 DEF CancelDone
<1>7. CASE FlushWorkqueue
  BY <1>0, <1>7 DEF FlushWorkqueue
<1>8. CASE FlushMissing
  BY <1>0, <1>8 DEF FlushMissing
<1>9. CASE DestroyWorkqueue
  BY <1>0, <1>9 DEF DestroyWorkqueue
<1>10. CASE DelTimer
  BY <1>0, <1>10 DEF DelTimer
<1>11. CASE FreeModule
  <2>1. left' <=> queued > 0 \/ pending # {} \/ delay \/ running # {}
    BY <1>11, Zenon DEF FreeModule
  <2> QED
    BY <1>0, <2>1, <1>11 DEF FreeModule
<1> QED
  BY <1>1, <1>2, <1>3, <1>4, <1>5, <1>6, <1>7, <1>8, <1>9, <1>10, <1>11 DEF ExitSteps

LEMMA LoadKeeps ==
  ASSUME BottomIInv, ~crashed, Load \/ Unload
  PROVE  Held'
<1>0. /\ OnList' /\ InOrder /\ InOrder'
      /\ Load => IF driver = "timer_mod" THEN ToCome("add_timer")'
                                         ELSE ToCome("request_irq")'
      /\ Unload => IF driver = "timer_mod" THEN ToCome("del_timer")'
                                           ELSE ToCome("free_irq")'
  BY ListBegun, Order, OrderKept DEF BottomIInv, Held
<1> USE DEF BottomIInv, Held, InOrder, SetUps, LineHeld, ReadyWhenSetUp, LeftOver, Idle,
            Entries, TaskletEntries, CountBalanced, DelayedWorkHeld, TimerHeld,
            OnlyKnownCrashes
<1>1. CASE Load
  BY <1>0, <1>1 DEF Load
<1>2. CASE Unload
  BY <1>0, <1>2 DEF Unload
<1> QED
  BY <1>1, <1>2

(* Interrupts, their handlers and the bottom halves.                       *)
LEMMA KernelKeeps ==
  ASSUME BottomIInv, ~crashed,
         \/ Edge \/ EnterHandler \/ Handler \/ DelayExpires
         \/ \E c \in CPUs : Begins(c) \/ Return(c)
  PROVE  Held'
<1>0. /\ OnList' /\ InOrder
      /\ \A t : ToCome(t)' <=> ToCome(t)
      /\ driver' = driver /\ phase' = phase
  <2>1. UNCHANGED <<driver, phase, todo>>
    BY DEF Edge, EnterHandler, Handler, gpio_irq_handler, ScheduleTasklet, RaiseSoftirq,
       ScheduleWork, QueueDelayedWork, Schedules, DelayExpires, Begins, mytastlet_func,
       testsoft_func, test_work, Dequeue, function_test, Return
  <2> QED
    BY <2>1, Order DEF BottomIInv, Held, OnList, EndOf, ToCome
<1> USE DEF BottomIInv, Held, InOrder, SetUps, LineHeld, ReadyWhenSetUp, LeftOver, Idle,
            Entries, TaskletEntries, CountBalanced, DelayedWorkHeld, TimerHeld,
            OnlyKnownCrashes
<1>1. CASE Edge
  BY <1>0, <1>1 DEF Edge
<1>2. CASE EnterHandler
  BY <1>0, <1>2 DEF EnterHandler
<1>3. CASE gpio_irq_handler
  BY <1>0, <1>3 DEF gpio_irq_handler
<1>4. ASSUME NEW c \in CPUs, ScheduleTasklet(c) PROVE Held'
  <2>1. asked' = asked \cup {c} /\ (early' <=> early \/ ~ready)
    BY <1>4, Zenon DEF ScheduleTasklet, Schedules
  <2> QED
    BY <1>0, <2>1, <1>4 DEF ScheduleTasklet, Schedules
<1>5. ASSUME NEW c \in CPUs, RaiseSoftirq(c) PROVE Held'
  <2>1. asked' = asked \cup {c} /\ (early' <=> early \/ ~ready)
    BY <1>5, Zenon DEF RaiseSoftirq, Schedules
  <2> QED
    BY <1>0, <2>1, <1>5 DEF RaiseSoftirq, Schedules
<1>6. ASSUME NEW c \in CPUs, ScheduleWork(c) PROVE Held'
  <2>1. asked' = asked \cup {c} /\ (early' <=> early \/ ~ready)
    BY <1>6, Zenon DEF ScheduleWork, Schedules
  <2> QED
    BY <1>0, <2>1, <1>6 DEF ScheduleWork, Schedules
<1>7. ASSUME NEW c \in CPUs, QueueDelayedWork(c) PROVE Held'
  BY <1>0, <1>7 DEF QueueDelayedWork, Schedules
<1>8. CASE DelayExpires
  <2>1. crashed' <=> ~(phase # "unloaded" /\ wq = "made")
    BY <1>8, Zenon DEF DelayExpires
  <2>2. wq \in {"none", "made", "missing"}
    BY DEF BottomTypeOK
  <2>3. phase # "unloaded" /\ wq # "none"
    BY <1>0, <1>8 DEF DelayExpires, OnList
  <2>4. OnlyKnownCrashes'
    BY <2>1, <2>2, <2>3, <1>8 DEF DelayExpires
  <2> QED
    BY <1>0, <1>8, <2>4 DEF DelayExpires
<1>9. ASSUME NEW c \in CPUs, mytastlet_func(c) PROVE Held'
  BY <1>0, <1>9 DEF mytastlet_func, Dequeue, Calls
<1>10. ASSUME NEW c \in CPUs, testsoft_func(c) PROVE Held'
  <2>1. /\ driver = "softirq" /\ c \in pending /\ pending' = pending \ {c}
        /\ UNCHANGED <<module, hardware, ready, wq, sched, queued, delay, disables, early, left>>
    BY <1>10 DEF testsoft_func
  <2>2. CASE phase # "unloaded" /\ ready
    <3>1. /\ running' = running \cup {c} /\ asked' = asked \ {c} /\ crashed' = crashed
      BY <1>10, <2>2 DEF testsoft_func, Calls
    <3> QED
      BY <1>0, <2>1, <2>2, <3>1
  <2>3. CASE ~(phase # "unloaded" /\ ready)
    <3>1. UNCHANGED <<running, asked>>
      BY <1>10, <2>3 DEF testsoft_func, Calls
    <3>2. left \/ early
      BY <2>1, <2>3
    <3> QED
      BY <1>0, <2>1, <2>3, <3>1, <3>2
  <2> QED
    BY <2>2, <2>3
<1>11. ASSUME NEW c \in CPUs, test_work(c) PROVE Held'
  BY <1>0, <1>11 DEF test_work, Dequeue, Calls, BottomTypeOK
<1>12. ASSUME NEW c \in CPUs, function_test(c) PROVE Held'
  BY <1>0, <1>12 DEF function_test, Calls, BottomTypeOK
<1>13. ASSUME NEW c \in CPUs, Return(c) PROVE Held'
  BY <1>0, <1>13 DEF Return
<1> QED
  BY <1>1, <1>2, <1>3, <1>4, <1>5, <1>6, <1>7, <1>8, <1>9, <1>10, <1>11, <1>12, <1>13
  DEF Handler, Begins

-----------------------------------------------------------------------------
(* The theorems.                                                           *)
LEMMA TypeKeeps ==
  ASSUME BottomTypeOK, BottomNext, Held'
  PROVE  BottomTypeOK'
<1> USE DEF BottomTypeOK, BottomNext, Load, InitSteps, RequestIrq, RequestIrqFails, TaskletInit,
        OpenSoftirq, InitListHead, WorkFunc, CreateWorkqueue, InitDelayedWork, AddTimer,
        InitDone, Unload, ExitSteps, FreeIrq, TaskletEnable, TaskletDisable, TaskletCount,
        TaskletUnlockWait, CancelPending, CancelDone, FlushWorkqueue, FlushMissing,
        DestroyWorkqueue, DelTimer, FreeModule, Step, Edge, EnterHandler, Handler,
        gpio_irq_handler, ScheduleTasklet, RaiseSoftirq, ScheduleWork, QueueDelayedWork,
        Schedules, DelayExpires, Begins, mytastlet_func, testsoft_func, test_work,
        function_test, Dequeue, Calls, Return
<1>1. {irq, line, handler}' \subseteq BOOLEAN
  OBVIOUS
<1>2. {ready, sched, delay}' \subseteq BOOLEAN
  OBVIOUS
<1>3. {early, left}' \subseteq BOOLEAN
  OBVIOUS
<1>4. crashed' \in BOOLEAN
  OBVIOUS
<1>5. wq' \in {"none", "made", "missing"}
  OBVIOUS
<1>6. pending' \in SUBSET CPUs /\ running' \in SUBSET CPUs
  OBVIOUS
<1>7. asked' \in SUBSET CPUs
  OBVIOUS
<1> QED
  BY <1>1, <1>2, <1>3, <1>4, <1>5, <1>6, <1>7 DEF Held, OnList, Entries, CountBalanced

LEMMA BottomInitIInv == BottomInit => BottomIInv
<1> SUFFICES ASSUME BottomInit PROVE BottomIInv
  OBVIOUS
<1>1. BottomTypeOK
  <2>1. {irq, line, handler, ready, sched, delay} \subseteq BOOLEAN
    BY Zenon DEF BottomInit
  <2>2. {crashed, early, left} \subseteq BOOLEAN
    BY Zenon DEF BottomInit
  <2> QED
    BY <2>1, <2>2 DEF BottomInit, BottomTypeOK
<1>2. OnList /\ InOrder
  BY Order DEF BottomInit, OnList
<1> QED
  BY <1>1, <1>2 DEF BottomInit, BottomIInv, Held, InOrder, LineHeld, ReadyWhenSetUp, LeftOver,
     Idle, Entries, TaskletEntries, CountBalanced, DelayedWorkHeld, TimerHeld, OnlyKnownCrashes

LEMMA BottomNextIInv == BottomIInv /\ [BottomNext]_bottomVars => BottomIInv'
<1> SUFFICES ASSUME BottomIInv, [BottomNext]_bottomVars PROVE BottomIInv'
  OBVIOUS
<1>1. CASE BottomNext
  <2>1. Held'
    BY <1>1, InitKeeps, ExitKeeps, LoadKeeps, KernelKeeps DEF BottomNext
  <2> QED
    BY <1>1, <2>1, TypeKeeps DEF BottomIInv
<1>2. CASE UNCHANGED bottomVars
  BY <1>2 DEF bottomVars, BottomIInv, BottomTypeOK, Held, OnList, EndOf, ToCome, LineHeld,
     ReadyWhenSetUp, LeftOver, Idle, Entries, TaskletEntries, CountBalanced, DelayedWorkHeld,
     TimerHeld, OnlyKnownCrashes
<1> QED
  BY <1>1, <1>2

(* The inductive invariant holds in every reachable state.                 *)
THEOREM BottomInvariance == BottomSpec => []BottomIInv
BY BottomInitIInv, BottomNextIInv, PTL DEF BottomSpec

(* Type correctness of the six modules; in particular the count of the     *)
(* tasklet comes back to 0 and no queue holds more than two entries.       *)
THEOREM BottomTypeCorrect == BottomSpec => []BottomTypeOK
<1>1. BottomIInv => BottomTypeOK
  BY DEF BottomIInv
<1> QED
  BY <1>1, BottomInvariance, PTL

(* No bottom half crashes for any cause but the three that are known.      *)
THEOREM KnownCauses == BottomSpec => []OnlyKnownCrashes
<1>1. BottomIInv => OnlyKnownCrashes
  BY DEF BottomIInv, Held
<1> QED
  BY <1>1, BottomInvariance, PTL

-----------------------------------------------------------------------------
(* What a step of BottomHalf is to DeferredWork.                           *)
LEMMA BottomInitDeferred == BottomInit => Work!Init
BY DEF BottomInit, Work!Init

(* Only these steps are seen by DeferredWork.                              *)
LEMMA OthersUnseen ==
  ASSUME BottomNext,
         ~Load, ~RequestIrqFails, ~FreeModule, ~AddTimer, ~Handler,
         ~\E c \in CPUs : Begins(c) \/ Return(c)
  PROVE  UNCHANGED <<InMemory, asked, running>>
BY DEF BottomNext, InitSteps, RequestIrq, TaskletInit, OpenSoftirq, InitListHead, WorkFunc,
   CreateWorkqueue, InitDelayedWork, InitDone, Unload, ExitSteps, FreeIrq, TaskletEnable,
   TaskletDisable, TaskletCount, TaskletUnlockWait, CancelPending, CancelDone, FlushWorkqueue,
   FlushMissing, DestroyWorkqueue, DelTimer, Step, Edge, EnterHandler, DelayExpires

(* A function that begins answers a request: all of them, or, for the      *)
(* softirq, that of its CPU.                                               *)
LEMMA BeginsAsked ==
  ASSUME BottomIInv, NEW c \in CPUs, Begins(c)
  PROVE  \/ UNCHANGED <<phase, asked, running>>
         \/ \E answered \in SUBSET asked :
              /\ phase # "unloaded" /\ answered # {} /\ c \notin running
              /\ phase' = phase /\ asked' = asked \ answered
              /\ running' = running \cup {c}
<1>0. asked \in SUBSET CPUs /\ asked \ CPUs = asked \ asked
  BY DEF BottomIInv, BottomTypeOK
<1> USE DEF BottomIInv, Held, Calls
<1>1. ASSUME asked # {}, phase # "unloaded", running = {},
             phase' = phase, asked' = asked \ CPUs, running' = running \cup {c}
      PROVE  \E answered \in SUBSET asked :
              /\ phase # "unloaded" /\ answered # {} /\ c \notin running
              /\ phase' = phase /\ asked' = asked \ answered
              /\ running' = running \cup {c}
  <2> WITNESS asked \in SUBSET asked
  <2> QED
    BY <1>0, <1>1
<1>2. CASE mytastlet_func(c)
  BY <1>1, <1>2 DEF mytastlet_func, Dequeue, TaskletEntries
<1>3. CASE testsoft_func(c)
  <2>1. c \in asked /\ c \notin running /\ phase' = phase
    BY <1>3 DEF testsoft_func, Entries
  <2>2. CASE UNCHANGED <<asked, running>>
    BY <2>1, <2>2
  <2>3. CASE ~UNCHANGED <<asked, running>>
    <3>1. phase # "unloaded" /\ asked' = asked \ {c} /\ running' = running \cup {c}
      BY <1>3, <2>3 DEF testsoft_func
    <3>2. {c} \in SUBSET asked /\ {c} # {}
      BY <2>1
    <3> QED
      BY <2>1, <3>1, <3>2
  <2> QED
    BY <2>2, <2>3
<1>4. CASE test_work(c)
  BY <1>1, <1>4 DEF test_work, Dequeue, Entries
<1>5. CASE function_test(c)
  BY <1>1, <1>5 DEF function_test, Entries, TimerHeld
<1> QED
  BY <1>2, <1>3, <1>4, <1>5 DEF Begins

LEMMA BottomNextDeferred ==
  ASSUME BottomIInv, [BottomNext]_bottomVars
  PROVE  [Work!Next]_(Work!vars)
<1> USE DEF Work!Next, Work!vars
<1>1. CASE Load
  <2>1. running = {}
    BY <1>1 DEF BottomIInv, Held, LeftOver, Idle, Load
  <2> QED
    BY <1>1, <2>1 DEF Load, Work!Load
<1>2. CASE RequestIrqFails \/ FreeModule
  BY <1>2 DEF RequestIrqFails, FreeModule, Work!Unload
<1>3. CASE AddTimer
  BY <1>3 DEF AddTimer, Step, Work!Ask
<1>4. CASE Handler
  <2>1. handler /\ UNCHANGED <<phase, running>>
    BY <1>4 DEF Handler, gpio_irq_handler, ScheduleTasklet, RaiseSoftirq, ScheduleWork,
       QueueDelayedWork, Schedules
  <2>2. (\E c \in CPUs : asked' = asked \cup {c}) \/ UNCHANGED asked
    BY <1>4, Zenon DEF Handler, gpio_irq_handler, ScheduleTasklet, RaiseSoftirq, ScheduleWork,
       QueueDelayedWork, Schedules, outcome
  <2>3. phase # "unloaded"
    BY <2>1 DEF BottomIInv, Held, LineHeld
  <2> QED
    BY <2>1, <2>2, <2>3 DEF Work!Ask
<1>5. ASSUME NEW c \in CPUs, Begins(c) PROVE [Work!Next]_(Work!vars)
  BY <1>5, BeginsAsked DEF Work!Begin
<1>6. ASSUME NEW c \in CPUs, Return(c) PROVE [Work!Next]_(Work!vars)
  BY <1>6 DEF Return, Work!End
<1>7. CASE UNCHANGED bottomVars
  BY <1>7 DEF bottomVars
<1> QED
  BY <1>1, <1>2, <1>3, <1>4, <1>5, <1>6, <1>7, OthersUnseen

(* Each of the six drivers implements DeferredWork on any CPUs: each time  *)
(* its work begins it answers a request that no earlier run has answered,  *)
(* and it begins only while the module is loaded.                          *)
THEOREM BottomRefinement == BottomSpec => DeferredByHandlers
BY BottomInitDeferred, BottomNextDeferred, BottomInvariance, PTL
   DEF BottomSpec, DeferredByHandlers, Work!Spec

-----------------------------------------------------------------------------
(* LseekDevice.                                                            *)

(* A transfer that is about to copy has a range inside mem.                *)
IInv == TypeOK /\ InBounds

USE BufsizeAssumption, LoffAssumption DEF loff_t

(* Sums of two loff_t values wrap into loff_t.                             *)
LEMMA PlusType ==
  ASSUME NEW a \in loff_t, NEW b \in loff_t
  PROVE  Plus(a, b) \in loff_t
BY DEF Plus

(* Inside the buffer, the transfer is cut to what is left of it.           *)
LEMMA ClampBound ==
  ASSUME NEW pos \in 0..BUFSIZE, NEW size \in Nat
  PROVE  Clamp(size, pos) \in 0..(BUFSIZE - pos)
BY DEF Clamp

LEMMA InitIInv == Init => IInv
BY DEF Init, IInv, TypeOK, InBounds

LEMMA TransferIInv ==
  ASSUME IInv, NEW t \in Threads, Transfer(t)
  PROVE  IInv'
<1>0. Pos(t) \in loff_t
  BY DEF Pos, IInv, TypeOK
<1>1. CASE BeginTransfer(t)
  <2>1. PICK size \in 0..(BUFSIZE + 1) : Begin(t, "copy", Clamp(size, Pos(t)))
    BY <1>1 DEF BeginTransfer
  <2>2. Pos(t) \in 0..BUFSIZE
    BY <1>0, <1>1 DEF BeginTransfer
  <2>3. Clamp(size, Pos(t)) \in 0..(BUFSIZE - Pos(t))
    <3>1. size \in Nat
      OBVIOUS
    <3> QED
      BY ONLY <2>2, <3>1, ClampBound
  <2> QED
    BY <2>1, <2>2, <2>3 DEF Begin, IInv, TypeOK, InBounds
<1> USE DEF IInv, TypeOK, InBounds
<1>2. CASE WritePastEnd(t)
  BY <1>0, <1>2 DEF WritePastEnd, Begin
<1>3. CASE CopyDone(t)
  BY <1>3 DEF CopyDone
<1>4. CASE CopyFailed(t)
  BY <1>4 DEF CopyFailed, End
<1>5. CASE StorePos(t)
  BY <1>5 DEF StorePos, End
<1> QED
  BY <1>1, <1>2, <1>3, <1>4, <1>5 DEF Transfer

(* Whatever whence says, llseek stores one loff_t.                         *)
LEMMA LseekStores ==
  ASSUME NEW t \in Threads, Lseek(t)
  PROVE  \E pos \in loff_t : SeekTo(t, pos)
<1>1. CASE \E offset \in loff_t : SeekSet(t, offset)
  BY <1>1 DEF SeekSet
<1>2. CASE \E offset \in loff_t : SeekCur(t, offset) \/ SeekEnd(t, offset)
  <2>1. BUFSIZE \in loff_t
    OBVIOUS
  <2> QED
    BY <1>2, <2>1, PlusType DEF SeekCur, SeekEnd
<1>3. CASE SeekOther(t)
  BY <1>3 DEF SeekOther
<1> QED
  BY <1>1, <1>2, <1>3 DEF Lseek

LEMMA LseekIInv ==
  ASSUME IInv, NEW t \in Threads, Lseek(t)
  PROVE  IInv'
<1>1. PICK pos \in loff_t : SeekTo(t, pos)
  BY LseekStores
<1> QED
  BY <1>1 DEF SeekTo, IInv, TypeOK, InBounds

LEMMA NextIInv == IInv /\ [Next]_vars => IInv'
<1> SUFFICES ASSUME IInv, [Next]_vars PROVE IInv'
  OBVIOUS
<1>1. CASE Next
  BY <1>1, TransferIInv, LseekIInv DEF Next
<1>2. CASE UNCHANGED vars
  BY <1>2 DEF vars, IInv, TypeOK, InBounds
<1> QED
  BY <1>1, <1>2

(* Files, positions and counts keep their types: no position leaves        *)
(* loff_t, whatever is added to it, and no transfer works on a negative    *)
(* one.                                                                    *)
THEOREM TypeCorrect == Spec => []TypeOK
<1>1. IInv => TypeOK
  BY DEF IInv
<1> QED
  BY InitIInv, NextIInv, <1>1, PTL DEF Spec

(* Every copy of every read and write stays inside mem, for all constants, *)
(* wherever the seeks have taken the position.                             *)
THEOREM CopiesInBounds == Spec => []InBounds
<1>1. IInv => InBounds
  BY DEF IInv
<1> QED
  BY InitIInv, NextIInv, <1>1, PTL DEF Spec

-----------------------------------------------------------------------------
(* On a file of its own, a transfer that is under way has the position it  *)
(* began at, or one that it may store.                                     *)
UnderWay(t) ==
    /\ pc[t] = "copy" => p[t] = Pos(t)
    /\ pc[t] = "return" /\ Pos(t) \in 0..BUFSIZE => p[t] \in Pos(t)..BUFSIZE

OwnFileOK == \A t \in Threads : SoleUser(t) => UnderWay(t)

(* The other threads' calls leave that file alone.                         *)
LEMMA OthersOwnFile ==
  ASSUME IInv, OwnFileOK, NEW t \in Threads, NEW pos \in loff_t,
         \/ UNCHANGED f_pos
         \/ f_pos' = [f_pos EXCEPT ![file[t]] = pos],
         UNCHANGED file,
         \A u \in Threads : u # t => pc'[u] = pc[u] /\ p'[u] = p[u],
         SoleUser(t) => UnderWay(t)'
  PROVE  OwnFileOK'
<1> SUFFICES ASSUME NEW u \in Threads, SoleUser(u)' PROVE UnderWay(u)'
  BY DEF OwnFileOK
<1>1. SoleUser(u)
  BY DEF SoleUser
<1>2. CASE u = t
  BY <1>1, <1>2
<1>3. CASE u # t
  <2>1. file[u] # file[t] /\ file[u] \in Files
    BY <1>1, <1>3 DEF SoleUser, IInv, TypeOK
  <2>2. Pos(u)' = Pos(u)
    BY <2>1 DEF Pos, IInv, TypeOK
  <2> QED
    BY <1>1, <1>3, <2>2 DEF OwnFileOK, UnderWay
<1> QED
  BY <1>2, <1>3

LEMMA TransferOwnFile ==
  ASSUME IInv, OwnFileOK, NEW t \in Threads, Transfer(t)
  PROVE  OwnFileOK'
<1> USE DEF IInv, TypeOK, InBounds
<1>0. Pos(t) \in loff_t /\ p[t] \in loff_t
  BY DEF Pos
<1>1. CASE BeginTransfer(t)
  BY <1>0, <1>1, OthersOwnFile DEF BeginTransfer, Begin, UnderWay, Pos
<1>2. CASE WritePastEnd(t)
  BY <1>0, <1>2, OthersOwnFile DEF WritePastEnd, Begin, UnderWay, Pos
<1>3. CASE CopyDone(t)
  BY <1>0, <1>3, OthersOwnFile DEF CopyDone, UnderWay, OwnFileOK, Pos
<1>4. CASE CopyFailed(t)
  BY <1>0, <1>4, OthersOwnFile DEF CopyFailed, End, UnderWay, Pos
<1>5. CASE StorePos(t)
  BY <1>0, <1>5, OthersOwnFile DEF StorePos, End, UnderWay, Pos
<1> QED
  BY <1>1, <1>2, <1>3, <1>4, <1>5 DEF Transfer

LEMMA LseekOwnFile ==
  ASSUME IInv, OwnFileOK, NEW t \in Threads, Lseek(t)
  PROVE  OwnFileOK'
<1>1. PICK pos \in loff_t : SeekTo(t, pos)
  BY LseekStores
<1>2. UnderWay(t)'
  BY <1>1 DEF SeekTo, UnderWay
<1> QED
  BY <1>1, <1>2, OthersOwnFile DEF SeekTo

LEMMA NextOwnFile == IInv /\ OwnFileOK /\ [Next]_vars => OwnFileOK'
<1> SUFFICES ASSUME IInv, OwnFileOK, [Next]_vars PROVE OwnFileOK'
  OBVIOUS
<1>1. CASE Next
  BY <1>1, TransferOwnFile, LseekOwnFile DEF Next
<1>2. CASE UNCHANGED vars
  BY <1>2 DEF vars, OwnFileOK, UnderWay, SoleUser, Pos
<1> QED
  BY <1>1, <1>2

(* Reads and writes of a file that one thread uses never take its position *)
(* out of the buffer nor back, whatever goes on in other files.            *)
THEOREM StayInside == Spec => TransfersStayInside
<1>1. Init => OwnFileOK
  BY DEF Init, OwnFileOK, UnderWay
<1>2. IInv /\ OwnFileOK /\ [Next]_vars =>
        [\A t \in Threads :
            Transfer(t) /\ SoleUser(t) /\ Pos(t) \in 0..BUFSIZE =>
                f_pos'[file[t]] \in Pos(t)..BUFSIZE]_vars
  <2> SUFFICES ASSUME IInv, OwnFileOK, NEW t \in Threads,
                      Transfer(t), SoleUser(t), Pos(t) \in 0..BUFSIZE
               PROVE  f_pos'[file[t]] \in Pos(t)..BUFSIZE
    OBVIOUS
  <2>1. CASE UNCHANGED f_pos
    BY <2>1 DEF Pos
  <2>2. CASE StorePos(t)
    BY <2>2 DEF StorePos, OwnFileOK, UnderWay, IInv, TypeOK
  <2> QED
    BY <2>1, <2>2 DEF Transfer, BeginTransfer, WritePastEnd, Begin, CopyDone, CopyFailed
<1> QED
  BY InitIInv, NextIInv, NextOwnFile, <1>1, <1>2, PTL DEF Spec, TransfersStayInside
=============================================================================
