------------------------------ MODULE TimerDevice ------------------------------
(***************************************************************************)
(* 24_ioctl03/ioctl_dev.c (25_timerlib has the same driver): a kernel      *)
(* timer whose callback arms it again, and an ioctl that arms it, deletes  *)
(* it and sets its period.  The processes run ioctl.c, which lets it tick  *)
(* once a second, then every three seconds, and closes it; a user may kill *)
(* them in their sleeps, and may unload the module.                        *)
(*                                                                         *)
(* The timer is external: add_timer crashes on one that is pending,        *)
(* del_timer takes it off the queue but does not wait for a callback that  *)
(* runs, and a store into expires does not move a timer that is queued.    *)
(* A callback never runs twice at the same time, and the module's memory   *)
(* is not freed under a running one.  Time is left out: a queued timer     *)
(* fires at any time.                                                      *)
(***************************************************************************)
EXTENDS Naturals, Sequences

CONSTANT Procs        (* the processes that run ioctl.c *)

VARIABLES pc,         (* the step of Script that each process is at          *)
          counter,    (* dev1.counter, in ms                                 *)
          expires,    (* timer_test.expires, by the counter it was made from *)
          armed,      (* the delay that the timer is queued with, or "no"    *)
          callback,   (* function_test: not running, entered, or about to    *)
                      (* arm the timer again                                 *)
          read,       (* the counter that the callback has read              *)
          module,     (* whether the module is in memory                     *)
          crashed,    (* add_timer hit its BUG_ON, or a callback was called  *)
                      (* that is no longer in memory                         *)
          raced,      (* a del_timer came while the callback ran (history)   *)
          abandoned,  (* a program was killed before its close (history)     *)
          overlapped  (* two programs had the device open (history)          *)

history == <<raced, abandoned, overlapped>>
timerVars == <<expires, armed>>
callbackVars == <<callback, read>>
vars == <<pc, counter, timerVars, callbackVars, module, crashed, history>>

(* ioctl.c, one entry per access to what the driver shares.  TIMER_CLOSE   *)
(* goes on into TIMER_SET, with an argument that the program never passed. *)
Step(op, arg) == [op |-> op, arg |-> arg]

Script == << Step("open", "none"),
             Step("set", "1000"), Step("expires", "none"),
             Step("add", "none"),
             Step("sleep", "none"),
             Step("set", "3000"), Step("expires", "none"),
             Step("sleep", "none"),
             Step("del", "none"), Step("set", "garbage"), Step("expires", "none"),
             Step("close", "none") >>

Counters == {"0", "1000", "3000", "garbage"}

TypeOK ==
    /\ pc \in [Procs -> DOMAIN Script]
    /\ counter \in Counters
    /\ expires \in Counters
    /\ armed \in Counters \cup {"no"}
    /\ callback \in {"none", "entered", "arming"}
    /\ read \in Counters
    /\ module \in {"live", "exit", "freed"}
    /\ {crashed, raced, abandoned, overlapped} \subseteq BOOLEAN

Init ==
    /\ pc = [p \in Procs |-> 1]
    /\ counter = "0" /\ expires = "0"
    /\ armed = "no"
    /\ callback = "none" /\ read = "0"
    /\ module = "live"
    /\ crashed = FALSE
    /\ raced = FALSE /\ abandoned = FALSE /\ overlapped = FALSE

IsOpen(p) == Script[pc[p]].op # "open"

(* Bound: nothing happens any more after a crash. *)
Do(p, op) ==
    /\ ~crashed
    /\ Script[pc[p]].op = op
    /\ pc' = [pc EXCEPT ![p] = IF op = "close" THEN 1 ELSE @ + 1]

-----------------------------------------------------------------------------
(* open and release; the open file keeps the module in memory.             *)

OpenDev(p) ==
    /\ module = "live"
    /\ Do(p, "open")
    /\ overlapped' = (overlapped \/ \E q \in Procs \ {p} : IsOpen(q))
    /\ UNCHANGED <<counter, timerVars, callbackVars, module, crashed, raced, abandoned>>

CloseDev(p) ==
    /\ Do(p, "close")
    /\ UNCHANGED <<counter, timerVars, callbackVars, module, crashed, history>>

Sleep(p) ==
    /\ Do(p, "sleep")
    /\ UNCHANGED <<counter, timerVars, callbackVars, module, crashed, history>>

(* The kernel closes the file of a program that is killed in a sleep.      *)
Kill(p) ==
    /\ ~crashed
    /\ Script[pc[p]].op = "sleep"
    /\ pc' = [pc EXCEPT ![p] = 1]
    /\ abandoned' = TRUE
    /\ UNCHANGED <<counter, timerVars, callbackVars, module, crashed, raced, overlapped>>

-----------------------------------------------------------------------------
(* cdev_test_ioctl *)

AddTimer(p) ==
    /\ Do(p, "add")
    /\ crashed' = (armed # "no")
    /\ armed' = IF armed = "no" THEN expires ELSE armed
    /\ UNCHANGED <<counter, expires, callbackVars, module, history>>

(* Mutant: the del_timer of TIMER_CLOSE is forgotten. *)
DelForgotten(p) ==
    /\ Do(p, "del")
    /\ UNCHANGED <<counter, timerVars, callbackVars, module, crashed, history>>

DelTimer(p) ==
    /\ Do(p, "del")
    /\ armed' = "no"
    /\ raced' = (raced \/ callback # "none")
    /\ UNCHANGED <<counter, expires, callbackVars, module, crashed, abandoned, overlapped>>

(* Mutant: TIMER_SET sets expires, but not counter. *)
SetForgotten(p) ==
    /\ Do(p, "set")
    /\ counter' = IF Script[pc[p]].arg = "garbage" THEN "garbage" ELSE counter
    /\ UNCHANGED <<timerVars, callbackVars, module, crashed, history>>

SetCounter(p) ==
    /\ Do(p, "set")
    /\ counter' = Script[pc[p]].arg
    /\ UNCHANGED <<timerVars, callbackVars, module, crashed, history>>

SetExpires(p) ==
    /\ Do(p, "expires")
    /\ expires' = counter
    /\ UNCHANGED <<counter, armed, callbackVars, module, crashed, history>>

-----------------------------------------------------------------------------
(* The timer interrupt and function_test.                                  *)

Expire ==
    /\ ~crashed
    /\ armed # "no" /\ callback = "none"
    /\ armed' = "no"
    /\ callback' = IF module = "freed" THEN "none" ELSE "entered"
    /\ crashed' = (module = "freed")
    /\ UNCHANGED <<pc, counter, expires, read, module, history>>

(* Mutant: the callback takes the period from expires, as it was armed. *)
ReadStale ==
    /\ ~crashed
    /\ callback = "entered"
    /\ callback' = "arming"
    /\ read' = "1000"
    /\ UNCHANGED <<pc, counter, timerVars, module, crashed, history>>

ReadCounter ==
    /\ ~crashed
    /\ callback = "entered"
    /\ callback' = "arming"
    /\ read' = counter
    /\ UNCHANGED <<pc, counter, timerVars, module, crashed, history>>

(* Mutant: the callback does not arm the timer again. *)
ModForgotten ==
    /\ ~crashed
    /\ callback = "arming"
    /\ callback' = "none"
    /\ read' = "0"
    /\ UNCHANGED <<pc, counter, timerVars, module, crashed, history>>

(* Mutant: the timer is left with the jiffies, not the delay. *)
ModJiffies ==
    /\ ~crashed
    /\ callback = "arming"
    /\ callback' = "none"
    /\ armed' = "jiffies"
    /\ UNCHANGED <<pc, counter, expires, read, module, crashed, history>>

ModTimer ==
    /\ ~crashed
    /\ callback = "arming"
    /\ callback' = "none"
    /\ read' = "0"
    /\ armed' = read /\ expires' = read
    /\ UNCHANGED <<pc, counter, module, crashed, history>>

Callback == ReadCounter \/ ModTimer

-----------------------------------------------------------------------------
(* rmmod: timer_dev_exit does not touch the timer.  (What it releases is   *)
(* in Lifecycle.)                                                          *)

Unload ==
    /\ ~crashed
    /\ module = "live" /\ \A p \in Procs : ~IsOpen(p)
    /\ module' = "exit"
    /\ UNCHANGED <<pc, counter, timerVars, callbackVars, crashed, history>>

FreeModule ==
    /\ ~crashed
    /\ module = "exit" /\ callback = "none"
    /\ module' = "freed"
    /\ UNCHANGED <<pc, counter, timerVars, callbackVars, crashed, history>>

-----------------------------------------------------------------------------
Ioctl(p) == AddTimer(p) \/ DelTimer(p) \/ SetCounter(p) \/ SetExpires(p)

Next ==
    \/ \E p \in Procs : OpenDev(p) \/ Ioctl(p) \/ Sleep(p) \/ Kill(p) \/ CloseDev(p)
    \/ Expire \/ Callback
    \/ Unload \/ FreeModule

(* A queued timer fires, unless its delay is garbage, which may be longer  *)
(* than anyone waits; a running callback and a running ioctl go on.  The   *)
(* programs may sleep as long as they like.                                *)
Fairness ==
    /\ WF_vars(armed # "garbage" /\ Expire)
    /\ WF_vars(Callback)
    /\ \A p \in Procs : WF_vars(Ioctl(p))

Spec == Init /\ [][Next]_vars
FairSpec == Spec /\ Fairness

-----------------------------------------------------------------------------
(* The programs ran one after the other and to their end, and no del_timer *)
(* met a running callback.                                                 *)
Clean == ~raced /\ ~abandoned /\ ~overlapped

(* The crashes that the driver can suffer, in add_timer and in memory that *)
(* has been freed, all need one of three things: a del_timer beside a      *)
(* running callback, a program that is killed, or two programs at a time.  *)
(* That exit forgets the timer and that open does not check for it is      *)
(* harmless without them.                                                  *)
CleanNeverCrashes == Clean => ~crashed

(* Between TIMER_OPEN and TIMER_CLOSE the timer is either queued or in its *)
(* callback, so that it goes on ticking; outside, it is neither.           *)
Ticking(p) == pc[p] \in 5..9       (* past its "add", not past its "del" *)

TicksWhileOpen ==
    Clean => /\ (armed # "no" \/ callback # "none") <=> \E p \in Procs : Ticking(p)
             /\ ~(armed # "no" /\ callback # "none")

(* The argument that TIMER_CLOSE stores by falling through into TIMER_SET  *)
(* never becomes the timer's delay: the next program sets counter before   *)
(* it arms the timer.                                                      *)
GarbageNeverArmed == Clean => armed # "garbage" /\ read # "garbage"

(* A TIMER_SET on a running timer takes effect, after a tick or two that   *)
(* still have the old period, although nobody moves the queued timer.      *)
SleepsSeven(p) == pc[p] = 8        (* in the second of its sleeps *)

SetTakesEffect ==
    \A p \in Procs :
        SleepsSeven(p) /\ Clean ~> armed = "3000" \/ ~SleepsSeven(p) \/ ~Clean
=============================================================================
