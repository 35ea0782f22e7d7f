------------------------------- MODULE BottomHalf -------------------------------
(***************************************************************************)
(* 30_interrupt to 34_workdelay: an interrupt handler that leaves its work *)
(* to a tasklet (31), a softirq (32), a work item (33) or a delayed work   *)
(* item (34), or that has none (30); and 19_Mod_timer, whose init arms a   *)
(* timer once.  All but 19 request the interrupt before they set up what   *)
(* its handler schedules, and they differ in what exit waits for.          *)
(*                                                                         *)
(* A behaviour is the life of one of these modules: loading, unloading,    *)
(* and interrupts at any time between.  The kernel's side is external:     *)
(*   - the handler runs with its line masked; an edge meanwhile is kept;   *)
(*   - scheduling what is already scheduled does nothing (sched is the     *)
(*     tasklet's SCHED bit or the work's PENDING bit); the bit is cleared  *)
(*     before the function is called;                                      *)
(*   - a tasklet, a work item or a timer runs on one CPU at a time (on     *)
(*     which of them is left open); a softirq is pending on the CPU that   *)
(*     raised it, and runs on any number of them beside itself;            *)
(*   - a tasklet that is queued but not scheduled trips a BUG_ON, and one  *)
(*     whose count is not 0 stays in the queue;                            *)
(*   - a work item that is not initialised is not queued (a warning); a    *)
(*     delayed one trips a BUG_ON, its timer having no function;           *)
(*   - a module's memory is freed only when no handler, timer, tasklet or  *)
(*     softirq is executing; a work item may sleep meanwhile.              *)
(* Time is left out: a queued timer fires at any moment.                   *)
(***************************************************************************)
EXTENDS Integers, Sequences

CONSTANT CPUs          (* the handler, and the bottom half, run on any of    *)
                       (* them                                               *)

ASSUME CPUsAssumption == CPUs # {}

-----------------------------------------------------------------------------
(* What init does, step by step, and exit.  tasklet_disable is the two     *)
(* steps that it consists of, and so is INIT_WORK in 33: it makes the work *)
(* fit for a queue and then stores its function.                           *)

Steps(init, exit) == [init |-> init, exit |-> exit]

interrupt == Steps(<<"request_irq">>, <<"free_irq">>)

(* Mutant: exit does not enable the tasklet before it disables it. *)
TaskletOnlyDisabled ==
    Steps(<<"request_irq", "tasklet_init">>,
          <<"free_irq", "tasklet_disable_nosync", "tasklet_unlock_wait">>)

tasklet == Steps(<<"request_irq", "tasklet_init">>,
                 <<"free_irq", "tasklet_enable",
                   "tasklet_disable_nosync", "tasklet_unlock_wait">>)

softirq == Steps(<<"request_irq", "open_softirq">>, <<"free_irq">>)

workqueue == Steps(<<"request_irq", "INIT_LIST_HEAD", "work_func">>, <<"free_irq">>)

(* Mutant: the work is cancelled before the interrupt is freed. *)
WorkdelayFreedLast ==
    Steps(<<"request_irq", "create_workqueue", "INIT_DELAYED_WORK">>,
          <<"cancel_delayed_work_sync", "free_irq", "flush_workqueue", "destroy_workqueue">>)

workdelay == Steps(<<"request_irq", "create_workqueue", "INIT_DELAYED_WORK">>,
                   <<"free_irq", "cancel_delayed_work_sync",
                     "flush_workqueue", "destroy_workqueue">>)

timer_mod == Steps(<<"add_timer">>, <<"del_timer">>)

Table == [interrupt |-> interrupt, tasklet |-> tasklet, softirq |-> softirq,
          workqueue |-> workqueue, workdelay |-> workdelay, timer_mod |-> timer_mod]

-----------------------------------------------------------------------------
VARIABLES driver,    (* the module that this behaviour is about              *)
          phase,     (* where it is in its life                              *)
          todo,      (* the steps of init or exit to come                    *)
          irq,       (* the handler is registered for the interrupt          *)
          line,      (* an edge that the handler has not been called for     *)
          handler,   (* the handler is running                               *)
          ready,     (* the bottom half has been set up                      *)
          wq,        (* 34's workqueue                                       *)
          sched,     (* the SCHED or PENDING bit                             *)
          queued,    (* entries that wait for the softirq or the worker      *)
          pending,   (* CPUs with the pending bit of 32's softirq set        *)
          delay,     (* the timer, of the delayed work or 19's own, is queued*)
          disables,  (* the tasklet's count of its disables                  *)
          running,   (* CPUs on which the bottom half's function is running  *)
          crashed,   (* a BUG_ON, a call of nothing, or of freed memory      *)
          early,     (* a handler came before the set-up was done (history)  *)
          left,      (* something was left over after exit (history)         *)
          asked      (* CPUs whose handler has scheduled it (for 19, whose   *)
                     (* init has) since the function last began (history)    *)

module == <<driver, phase, todo>>
hardware == <<irq, line, handler>>
queues == <<queued, pending>>
bottom == <<ready, wq, sched, queues, delay, disables, running>>
outcome == <<crashed, early, left, asked>>
bottomVars == <<module, hardware, bottom, outcome>>

StepNames ==
    {"request_irq", "free_irq", "add_timer", "del_timer", "open_softirq",
     "tasklet_init", "tasklet_enable", "tasklet_disable_nosync", "tasklet_unlock_wait",
     "INIT_LIST_HEAD", "work_func", "INIT_DELAYED_WORK", "cancel_delayed_work_sync",
     "create_workqueue", "flush_workqueue", "destroy_workqueue"}

BottomTypeOK ==
    /\ driver \in DOMAIN Table
    /\ phase \in {"unloaded", "init", "live", "exit"}
    /\ todo \in Seq(StepNames)
    /\ {irq, line, handler, ready, sched, delay} \subseteq BOOLEAN
    /\ wq \in {"none", "made", "missing"}
    /\ queued \in 0..2
    /\ disables \in -1..0
    /\ {crashed, early, left} \subseteq BOOLEAN
    /\ pending \in SUBSET CPUs /\ running \in SUBSET CPUs /\ asked \in SUBSET CPUs

BottomInit ==
    /\ driver \in DOMAIN Table
    /\ phase = "unloaded" /\ todo = <<>>
    /\ irq = FALSE /\ line = FALSE /\ handler = FALSE
    /\ ready = FALSE /\ wq = "none"
    /\ sched = FALSE /\ queued = 0 /\ pending = {} /\ delay = FALSE
    /\ disables = 0 /\ running = {}
    /\ crashed = FALSE
    /\ early = FALSE /\ left = FALSE /\ asked = {}

-----------------------------------------------------------------------------
(* Loading and unloading.                                                  *)

(* A loaded module is new memory, all zero.                                *)
(* Bound: it is not loaded again when the last unloading left something    *)
(* over, and nothing happens any more after a crash.                       *)
Load ==
    /\ phase = "unloaded" /\ ~left
    /\ phase' = "init" /\ todo' = Table[driver].init
    /\ ready' = FALSE /\ wq' = "none" /\ sched' = FALSE /\ disables' = 0
    /\ early' = FALSE /\ asked' = {}
    /\ UNCHANGED <<driver, hardware, queues, delay, running, crashed, left>>

InitDone ==
    /\ phase = "init" /\ todo = <<>>
    /\ phase' = "live"
    /\ UNCHANGED <<driver, todo, hardware, bottom, outcome>>

Unload ==
    /\ phase = "live"
    /\ phase' = "exit" /\ todo' = Table[driver].exit
    /\ UNCHANGED <<driver, hardware, bottom, outcome>>

FreeModule ==
    /\ phase = "exit" /\ todo = <<>>
    /\ ~handler /\ (running = {} \/ driver \in {"workqueue", "workdelay"})
    /\ phase' = "unloaded"
    /\ left' = (queued > 0 \/ pending # {} \/ delay \/ running # {})
    /\ UNCHANGED <<driver, todo, hardware, bottom, crashed, early, asked>>

Step(s) ==
    /\ phase \in {"init", "exit"}
    /\ todo # <<>> /\ Head(todo) = s
    /\ todo' = Tail(todo)
    /\ UNCHANGED <<driver, phase>>

-----------------------------------------------------------------------------
(* The steps of init.                                                      *)

RequestIrq ==
    /\ Step("request_irq")
    /\ irq' = TRUE
    /\ UNCHANGED <<line, handler, bottom, outcome>>

RequestIrqFails ==
    /\ phase = "init" /\ todo # <<>> /\ Head(todo) = "request_irq"
    /\ phase' = "unloaded" /\ todo' = <<>>
    /\ UNCHANGED <<driver, hardware, bottom, outcome>>

(* Mutant: init schedules the tasklet as well. *)
TaskletInitScheduled ==
    /\ Step("tasklet_init")
    /\ ready' = TRUE /\ sched' = TRUE /\ disables' = 0 /\ queued' = 1
    /\ UNCHANGED <<hardware, wq, pending, delay, running, outcome>>

(* Mutant: the tasklet is set up disabled. *)
TaskletInitDisabled ==
    /\ Step("tasklet_init")
    /\ ready' = TRUE /\ sched' = FALSE /\ disables' = 1
    /\ UNCHANGED <<hardware, wq, queues, delay, running, outcome>>

(* It clears the SCHED bit of a tasklet that may be queued already.        *)
TaskletInit ==
    /\ Step("tasklet_init")
    /\ ready' = TRUE /\ sched' = FALSE /\ disables' = 0
    /\ UNCHANGED <<hardware, wq, queues, delay, running, outcome>>

OpenSoftirq ==
    /\ Step("open_softirq")
    /\ ready' = TRUE
    /\ UNCHANGED <<hardware, wq, sched, queues, delay, disables, running, outcome>>

(* INIT_WORK clears the PENDING bit first.                                 *)
InitListHead ==
    /\ Step("INIT_LIST_HEAD")
    /\ sched' = FALSE
    /\ UNCHANGED <<hardware, ready, wq, queues, delay, disables, running, outcome>>

WorkFunc ==
    /\ Step("work_func")
    /\ ready' = TRUE
    /\ UNCHANGED <<hardware, wq, sched, queues, delay, disables, running, outcome>>

InitDelayedWork ==
    /\ Step("INIT_DELAYED_WORK")
    /\ ready' = TRUE /\ sched' = FALSE
    /\ UNCHANGED <<hardware, wq, queues, delay, disables, running, outcome>>

(* Nobody looks at what create_workqueue returns.                          *)
CreateWorkqueue ==
    /\ Step("create_workqueue")
    /\ wq' \in {"made", "missing"}
    /\ UNCHANGED <<hardware, ready, sched, queues, delay, disables, running, outcome>>

AddTimer ==
    /\ Step("add_timer")
    /\ ready' = TRUE /\ delay' = TRUE /\ \E c \in CPUs : asked' = asked \cup {c}
    /\ UNCHANGED <<hardware, wq, sched, queues, disables, running, crashed, early, left>>

-----------------------------------------------------------------------------
(* The steps of exit.                                                      *)

(* free_irq waits for a handler that runs, and drops an edge that is kept. *)
FreeIrq ==
    /\ ~handler
    /\ Step("free_irq")
    /\ irq' = FALSE /\ line' = FALSE
    /\ UNCHANGED <<handler, bottom, outcome>>

TaskletCount(s, n) ==
    /\ Step(s)
    /\ disables' = disables + n
    /\ UNCHANGED <<hardware, ready, wq, sched, queues, delay, running, outcome>>

TaskletEnable == TaskletCount("tasklet_enable", -1)
TaskletDisable == TaskletCount("tasklet_disable_nosync", 1)

(* It waits for a tasklet that runs, not for one that is queued.           *)
TaskletUnlockWait ==
    /\ running = {}
    /\ Step("tasklet_unlock_wait")
    /\ UNCHANGED <<hardware, bottom, outcome>>

(* cancel_delayed_work_sync takes the work off its timer or its queue, and *)
(* then waits for one that runs.                                           *)
CancelPending ==
    /\ phase = "exit" /\ todo # <<>> /\ Head(todo) = "cancel_delayed_work_sync"
    /\ delay \/ queued > 0
    /\ sched' = FALSE /\ delay' = FALSE /\ queued' = 0
    /\ UNCHANGED <<module, hardware, ready, wq, pending, disables, running, outcome>>

CancelDone ==
    /\ ~delay /\ queued = 0 /\ running = {}
    /\ Step("cancel_delayed_work_sync")
    /\ UNCHANGED <<hardware, bottom, outcome>>

FlushWorkqueue ==
    /\ wq = "made" /\ queued = 0 /\ running = {}
    /\ Step("flush_workqueue")
    /\ UNCHANGED <<hardware, bottom, outcome>>

FlushMissing ==
    /\ wq = "missing"
    /\ Step("flush_workqueue")
    /\ crashed' = TRUE
    /\ UNCHANGED <<hardware, bottom, early, left, asked>>

DestroyWorkqueue ==
    /\ queued = 0 /\ running = {}
    /\ Step("destroy_workqueue")
    /\ wq' = "none"
    /\ UNCHANGED <<hardware, ready, sched, queues, delay, disables, running, outcome>>

(* It does not wait for a callback that runs.                              *)
DelTimer ==
    /\ Step("del_timer")
    /\ delay' = FALSE
    /\ UNCHANGED <<hardware, ready, wq, sched, queues, disables, running, outcome>>

-----------------------------------------------------------------------------
(* Interrupts, and what their handler does.                                *)

Edge ==
    /\ irq
    /\ line' = TRUE
    /\ UNCHANGED <<module, irq, handler, bottom, outcome>>

EnterHandler ==
    /\ irq /\ line /\ ~handler
    /\ line' = FALSE /\ handler' = TRUE
    /\ UNCHANGED <<module, irq, bottom, outcome>>

gpio_irq_handler ==
    /\ driver = "interrupt"
    /\ handler /\ handler' = FALSE
    /\ UNCHANGED <<module, irq, line, bottom, outcome>>

(* The handler schedules its bottom half, on the CPU that it runs on, and  *)
(* returns.                                                                *)
Schedules(d, c) ==
    /\ driver = d
    /\ handler /\ handler' = FALSE
    /\ asked' = asked \cup {c}
    /\ early' = (early \/ ~ready)
    /\ UNCHANGED <<module, irq, line, ready, wq, disables, running, left>>

ScheduleTasklet(c) ==
    /\ Schedules("tasklet", c)
    /\ sched' = TRUE
    /\ queued' = IF sched THEN queued ELSE queued + 1
    /\ UNCHANGED <<pending, delay, crashed>>

RaiseSoftirq(c) ==
    /\ Schedules("softirq", c)
    /\ pending' = pending \cup {c}
    /\ UNCHANGED <<sched, queued, delay, crashed>>

HasListHead == ready \/ (todo # <<>> /\ Head(todo) = "work_func")

ScheduleWork(c) ==
    /\ Schedules("workqueue", c)
    /\ sched' = TRUE
    /\ queued' = IF ~sched /\ HasListHead THEN 1 ELSE queued
    /\ UNCHANGED <<pending, delay, crashed>>

QueueDelayedWork(c) ==
    /\ Schedules("workdelay", c)
    /\ sched' = TRUE
    /\ delay' = (delay \/ (~sched /\ ready))
    /\ crashed' = (~sched /\ ~ready)
    /\ UNCHANGED queues

Handler ==
    \/ gpio_irq_handler
    \/ \E c \in CPUs : ScheduleTasklet(c) \/ RaiseSoftirq(c) \/ ScheduleWork(c)
                      \/ QueueDelayedWork(c)

-----------------------------------------------------------------------------
(* The bottom halves.                                                      *)

InMemory == phase # "unloaded"

(* The function begins on CPU c, which answers the requests of some CPUs.  *)
Calls(c, ok, answered) ==
    IF ok THEN /\ running' = running \cup {c} /\ asked' = asked \ answered
               /\ UNCHANGED crashed
          ELSE crashed' = TRUE /\ UNCHANGED <<running, asked>>

Dequeue(d) ==
    /\ driver = d
    /\ queued > 0 /\ queued' = queued - 1
    /\ running = {}
    /\ sched' = FALSE
    /\ UNCHANGED <<module, hardware, ready, wq, pending, delay, disables, early, left>>

mytastlet_func(c) ==
    /\ InMemory => disables = 0
    /\ Dequeue("tasklet")
    /\ Calls(c, InMemory /\ ready /\ sched, CPUs)

(* Other CPUs may be running it.                                           *)
testsoft_func(c) ==
    /\ driver = "softirq"
    /\ c \in pending \ running /\ pending' = pending \ {c}
    /\ Calls(c, InMemory /\ ready, {c})
    /\ UNCHANGED <<module, hardware, ready, wq, sched, queued, delay, disables, early, left>>

test_work(c) ==
    \E d \in {"workqueue", "workdelay"} : Dequeue(d) /\ Calls(c, InMemory /\ ready, CPUs)

(* The delayed work goes to its queue.                                     *)
DelayExpires ==
    /\ driver = "workdelay"
    /\ delay /\ delay' = FALSE
    /\ queued' = 1
    /\ crashed' = ~(InMemory /\ wq = "made")
    /\ UNCHANGED <<module, hardware, ready, wq, sched, pending, disables, running,
                   early, left, asked>>

function_test(c) ==
    /\ driver = "timer_mod"
    /\ delay /\ delay' = FALSE
    /\ Calls(c, InMemory, CPUs)
    /\ UNCHANGED <<module, hardware, ready, wq, sched, queues, disables, early, left>>

(* A work item may have slept until its code was gone.                     *)
Return(c) ==
    /\ c \in running /\ running' = running \ {c}
    /\ crashed' = ~InMemory
    /\ UNCHANGED <<module, hardware, ready, wq, sched, queues, delay, disables,
                   early, left, asked>>

Begins(c) == mytastlet_func(c) \/ testsoft_func(c) \/ test_work(c) \/ function_test(c)

-----------------------------------------------------------------------------
InitSteps ==
    \/ RequestIrq \/ RequestIrqFails \/ TaskletInit \/ OpenSoftirq
    \/ InitListHead \/ WorkFunc \/ CreateWorkqueue \/ InitDelayedWork \/ AddTimer
    \/ InitDone

ExitSteps ==
    \/ FreeIrq \/ TaskletEnable \/ TaskletDisable \/ TaskletUnlockWait
    \/ CancelPending \/ CancelDone \/ FlushWorkqueue \/ FlushMissing \/ DestroyWorkqueue
    \/ DelTimer \/ FreeModule

BottomNext ==
    /\ ~crashed
    /\ \/ Load \/ InitSteps \/ Unload \/ ExitSteps
       \/ Edge \/ EnterHandler \/ Handler
       \/ DelayExpires \/ \E c \in CPUs : Begins(c) \/ Return(c)

(* A handler and a function that run return, and the kernel calls what is  *)
(* queued, and on each CPU what is pending there.  Nobody has to load or   *)
(* unload, and no edge has to come.                                        *)
Fairness ==
    /\ WF_bottomVars(~crashed /\ EnterHandler) /\ WF_bottomVars(~crashed /\ Handler)
    /\ WF_bottomVars(~crashed /\ DelayExpires)
    /\ \A c \in CPUs : /\ WF_bottomVars(~crashed /\ Begins(c))
                      /\ WF_bottomVars(~crashed /\ Return(c))

BottomSpec == BottomInit /\ [][BottomNext]_bottomVars
FairSpec == BottomSpec /\ Fairness

-----------------------------------------------------------------------------
(* Each way to crash needs one of three causes: a handler that came before *)
(* init had set up what it schedules; a create_workqueue that failed; or   *)
(* an exit of 31, 32 or 33 that left something scheduled or running.  So   *)
(* 30 and 19 never crash, and neither does 34 but for the first two: the   *)
(* order of its exit is right.                                             *)
OnlyKnownCrashes ==
    crashed => \/ early /\ driver \notin {"interrupt", "timer_mod"}
               \/ wq = "missing"
               \/ left /\ driver \in {"tasklet", "softirq", "workqueue"}

(* While the module stays loaded, what a handler schedules is done, by a   *)
(* call that begins after the handler: a request that comes while the      *)
(* function runs, or while it is queued, is not lost.  Each CPU's request  *)
(* for the softirq is answered by a call of its own, whatever the others   *)
(* do.  A request from before the end of init may be lost.                 *)
Served ==
    \A c \in CPUs :
        c \in asked /\ phase = "live" /\ ~early
            ~> c \notin asked \/ phase # "live" \/ crashed

(* Every driver keeps the promise of DeferredWork: no function begins that *)
(* nobody has asked for since it last began, and none when the module is   *)
(* gone.                                                                   *)
Work == INSTANCE DeferredWork WITH Places <- CPUs, loaded <- InMemory
DeferredByHandlers == Work!Spec
=============================================================================
