-------------------------- MODULE TimerDevice_proofs --------------------------
(***************************************************************************)
(* Proofs about TimerDevice, for any set of processes: the type invariant, *)
(* and that a driver whose programs run one after the other, to their end, *)
(* and without a del_timer beside a running callback never crashes, ticks  *)
(* just while it should, and never with the delay that nobody passed.      *)
(***************************************************************************)
EXTENDS TimerDevice, TLAPS

(* A program that has the device open is alone with it, and keeps the      *)
(* module in memory.                                                       *)
OneAtATime == ~overlapped => \A p, q \in Procs : pc[p] # 1 /\ pc[q] # 1 => p = q

OpenKeepsLive == \A p \in Procs : pc[p] # 1 => module = "live"

(* From its first TIMER_SET to its TIMER_CLOSE, a program has a delay of   *)
(* its own in counter, and in expires when it comes to add_timer.          *)
DelaySet ==
    Clean => \A p \in Procs :
        /\ pc[p] \in 3..9 => counter # "garbage"
        /\ pc[p] = 4 => expires # "garbage"

IInv ==
    /\ TypeOK /\ OneAtATime /\ OpenKeepsLive /\ DelaySet
    /\ CleanNeverCrashes /\ TicksWhileOpen /\ GarbageNeverArmed

USE DEF timerVars, callbackVars, history

-----------------------------------------------------------------------------
(* What each line of ioctl.c asks for.                                     *)
LEMMA ScriptOps ==
  /\ DOMAIN Script = 1..12
  /\ \A i \in 1..12 :
        /\ Script[i].op = "open" <=> i = 1
        /\ Script[i].op = "set" <=> i \in {2, 6, 10}
        /\ Script[i].op = "expires" <=> i \in {3, 7, 11}
        /\ Script[i].op = "add" <=> i = 4
        /\ Script[i].op = "sleep" <=> i \in {5, 8}
        /\ Script[i].op = "del" <=> i = 9
        /\ Script[i].op = "close" <=> i = 12
  /\ Script[2].arg = "1000" /\ Script[6].arg = "3000" /\ Script[10].arg = "garbage"
BY DEF Script, Step

(* Where a program is that makes one of these calls, and where it goes.    *)
LEMMA DoCases ==
  ASSUME TypeOK, NEW p \in Procs
  PROVE  /\ pc \in [Procs -> 1..12]
         /\ IsOpen(p) <=> pc[p] # 1
         /\ Do(p, "open") => pc[p] = 1 /\ pc' = [pc EXCEPT ![p] = 2]
         /\ Do(p, "set") => pc[p] \in {2, 6, 10} /\ pc' = [pc EXCEPT ![p] = @ + 1]
         /\ Do(p, "expires") => pc[p] \in {3, 7, 11} /\ pc' = [pc EXCEPT ![p] = @ + 1]
         /\ Do(p, "add") => pc[p] = 4 /\ pc' = [pc EXCEPT ![p] = 5]
         /\ Do(p, "sleep") => pc[p] \in {5, 8} /\ pc' = [pc EXCEPT ![p] = @ + 1]
         /\ Do(p, "del") => pc[p] = 9 /\ pc' = [pc EXCEPT ![p] = 10]
         /\ Do(p, "close") => pc[p] = 12 /\ pc' = [pc EXCEPT ![p] = 1]
<1>1. pc \in [Procs -> 1..12]
  BY ScriptOps DEF TypeOK
<1>2. IsOpen(p) <=> pc[p] # 1
  BY <1>1, ScriptOps DEF IsOpen
<1> QED
  BY <1>1, <1>2, ScriptOps DEF Do

LEMMA InitIInv == Init => IInv
<1> SUFFICES ASSUME Init PROVE IInv
  OBVIOUS
<1>1. TypeOK
  <2>1. {crashed, raced, abandoned, overlapped} \subseteq BOOLEAN
    BY Zenon DEF Init
  <2> QED
    BY <2>1, ScriptOps DEF Init, TypeOK, Counters
<1>2. OneAtATime /\ OpenKeepsLive /\ DelaySet
  BY DEF Init, OneAtATime, OpenKeepsLive, DelaySet
<1>3. CleanNeverCrashes /\ TicksWhileOpen /\ GarbageNeverArmed
  BY DEF Init, CleanNeverCrashes, TicksWhileOpen, GarbageNeverArmed, Ticking
<1> QED
  BY <1>1, <1>2, <1>3 DEF IInv

-----------------------------------------------------------------------------
(* The steps of the programs, in and out of the driver.                    *)
AppStep(p) == OpenDev(p) \/ Ioctl(p) \/ Sleep(p) \/ Kill(p) \/ CloseDev(p)

LEMMA AppType ==
  ASSUME TypeOK, NEW p \in Procs, AppStep(p)
  PROVE  TypeOK'
<1>1. pc' \in [Procs -> DOMAIN Script]
  BY DoCases, ScriptOps DEF AppStep, Ioctl, OpenDev, CloseDev, Sleep, Kill, AddTimer,
     DelTimer, SetCounter, SetExpires
<1>2. {crashed, raced, abandoned, overlapped}' \subseteq BOOLEAN
  BY DEF TypeOK, AppStep, Ioctl, OpenDev, CloseDev, Sleep, Kill, AddTimer, DelTimer,
     SetCounter, SetExpires
<1>3. counter' \in Counters
  <2>1. CASE SetCounter(p)
    BY <2>1, DoCases, ScriptOps DEF SetCounter, Counters
  <2>2. CASE ~SetCounter(p)
    BY <2>2 DEF TypeOK, AppStep, Ioctl, OpenDev, CloseDev, Sleep, Kill, AddTimer, DelTimer,
       SetExpires
  <2> QED
    BY <2>1, <2>2
<1>4. /\ expires' \in Counters /\ armed' \in Counters \cup {"no"}
      /\ UNCHANGED <<callback, read, module>>
  BY DEF TypeOK, AppStep, Ioctl, OpenDev, CloseDev, Sleep, Kill, AddTimer, DelTimer,
     SetCounter, SetExpires
<1> QED
  BY <1>1, <1>2, <1>3, <1>4 DEF TypeOK

LEMMA AppAlone ==
  ASSUME IInv, NEW p \in Procs, AppStep(p)
  PROVE  OneAtATime' /\ OpenKeepsLive'
<1> USE DEF IInv, OneAtATime, OpenKeepsLive
<1>1. CASE OpenDev(p)
  <2>1. \A q \in Procs : IsOpen(q) <=> pc[q] # 1
    BY DoCases
  <2>2. ~overlapped' => ~overlapped /\ \A q \in Procs \ {p} : ~IsOpen(q)
    BY <1>1, Zenon DEF OpenDev
  <2>3. module = "live" /\ module' = module /\ Do(p, "open")
    BY <1>1 DEF OpenDev
  <2> QED
    BY <2>1, <2>2, <2>3, DoCases
<1>2. CASE CloseDev(p)
  BY <1>2, DoCases DEF CloseDev
<1>3. CASE Sleep(p)
  BY <1>3, DoCases DEF Sleep
<1>4. CASE Kill(p)
  BY <1>4, DoCases DEF Kill
<1>5. CASE AddTimer(p)
  BY <1>5, DoCases DEF AddTimer
<1>6. CASE DelTimer(p)
  BY <1>6, DoCases DEF DelTimer
<1>7. CASE SetCounter(p)
  BY <1>7, DoCases DEF SetCounter
<1>8. CASE SetExpires(p)
  BY <1>8, DoCases DEF SetExpires
<1> QED
  BY <1>1, <1>2, <1>3, <1>4, <1>5, <1>6, <1>7, <1>8 DEF AppStep, Ioctl

(* While history is clean, the timer runs just between the add_timer and   *)
(* the del_timer of the one program.                                       *)
CleanInv == DelaySet /\ CleanNeverCrashes /\ TicksWhileOpen /\ GarbageNeverArmed

LEMMA AppClean ==
  ASSUME IInv, NEW p \in Procs, AppStep(p)
  PROVE  CleanInv'
<1> SUFFICES ASSUME Clean', Clean PROVE CleanInv'
  <2>1. Clean' => Clean
    BY DEF Clean, AppStep, Ioctl, OpenDev, CloseDev, Sleep, Kill, AddTimer, DelTimer,
       SetCounter, SetExpires
  <2> QED
    BY <2>1 DEF CleanInv, DelaySet, CleanNeverCrashes, TicksWhileOpen, GarbageNeverArmed
<1> USE DEF IInv, CleanInv, DelaySet, CleanNeverCrashes, TicksWhileOpen, GarbageNeverArmed,
            Ticking
<1>0. \A q \in Procs : pc[p] # 1 /\ q # p => pc[q] = 1
  BY DEF OneAtATime, Clean
<1>1. CASE OpenDev(p)
  BY <1>0, <1>1, DoCases, ScriptOps DEF OpenDev, Clean, TypeOK, Counters
<1>2. CASE CloseDev(p)
  BY <1>0, <1>2, DoCases, ScriptOps DEF CloseDev, Clean, TypeOK, Counters
<1>3. CASE Sleep(p)
  BY <1>0, <1>3, DoCases, ScriptOps DEF Sleep, Clean, TypeOK, Counters
<1>4. CASE Kill(p)
  BY <1>0, <1>4, DoCases, ScriptOps DEF Kill, Clean, TypeOK, Counters
<1>5. CASE AddTimer(p)
  BY <1>0, <1>5, DoCases, ScriptOps DEF AddTimer, Clean, TypeOK, Counters
<1>6. CASE DelTimer(p)
  <2>1. callback = "none"
    BY <1>6, Zenon DEF DelTimer, Clean
  <2>2. /\ pc \in [Procs -> 1..12] /\ pc' = [pc EXCEPT ![p] = 10]
        /\ armed' = "no" /\ UNCHANGED <<counter, expires, callback, read, crashed>>
    BY <1>6, DoCases DEF DelTimer
  <2>3. \A q \in Procs : pc'[q] = (IF q = p THEN 10 ELSE pc[q]) /\ pc[q] \in 1..12
    BY <2>2
  <2>4. pc[p] = 9
    BY <1>6, DoCases DEF DelTimer
  <2>5. \A q \in Procs : ~Ticking(q)'
    BY <1>0, <2>3, <2>4
  <2>6. DelaySet'
    BY <1>0, <2>2, <2>3, <2>4
  <2> QED
    BY <2>1, <2>2, <2>5, <2>6
<1>7. CASE SetCounter(p)
  BY <1>0, <1>7, DoCases, ScriptOps DEF SetCounter, Clean, TypeOK, Counters
<1>8. CASE SetExpires(p)
  BY <1>0, <1>8, DoCases, ScriptOps DEF SetExpires, Clean, TypeOK, Counters
<1> QED
  BY <1>1, <1>2, <1>3, <1>4, <1>5, <1>6, <1>7, <1>8 DEF AppStep, Ioctl

-----------------------------------------------------------------------------
(* The steps of the kernel: the timer interrupt and rmmod.                 *)
KernelStep == Expire \/ Callback \/ Unload \/ FreeModule

LEMMA KernelType ==
  ASSUME TypeOK, KernelStep
  PROVE  TypeOK'
<1> USE DEF TypeOK
<1>1. CASE Expire
  BY <1>1 DEF Expire
<1>2. CASE ReadCounter
  BY <1>2 DEF ReadCounter
<1>3. CASE ModTimer
  BY <1>3 DEF ModTimer, Counters
<1>4. CASE Unload
  BY <1>4 DEF Unload
<1>5. CASE FreeModule
  BY <1>5 DEF FreeModule
<1> QED
  BY <1>1, <1>2, <1>3, <1>4, <1>5 DEF KernelStep, Callback

LEMMA KernelAlone ==
  ASSUME IInv, KernelStep
  PROVE  OneAtATime' /\ OpenKeepsLive'
<1>1. UNCHANGED <<pc, overlapped>>
  BY DEF KernelStep, Callback, Expire, ReadCounter, ModTimer, Unload, FreeModule
<1>2. (\E p \in Procs : pc[p] # 1) => module' = module
  <2>1. \A p \in Procs : IsOpen(p) <=> pc[p] # 1
    BY DoCases DEF IInv
  <2> QED
    BY <2>1 DEF IInv, OpenKeepsLive, KernelStep, Callback, Expire, ReadCounter, ModTimer,
       Unload, FreeModule
<1> QED
  BY <1>1, <1>2 DEF IInv, OneAtATime, OpenKeepsLive

LEMMA KernelClean ==
  ASSUME IInv, KernelStep
  PROVE  CleanInv'
<1>1. UNCHANGED <<pc, raced, abandoned, overlapped>>
  BY DEF KernelStep, Callback, Expire, ReadCounter, ModTimer, Unload, FreeModule
<1> SUFFICES ASSUME Clean PROVE CleanInv'
  BY <1>1 DEF Clean, CleanInv, DelaySet, CleanNeverCrashes, TicksWhileOpen, GarbageNeverArmed
<1> USE DEF IInv, CleanInv, DelaySet, CleanNeverCrashes, TicksWhileOpen, GarbageNeverArmed,
            Ticking
<1>2. armed # "no" \/ callback # "none" => module = "live" /\ counter # "garbage"
  BY DEF OpenKeepsLive
<1>3. CASE Expire
  BY <1>1, <1>2, <1>3 DEF Expire, Clean, TypeOK, Counters
<1>4. CASE ReadCounter
  BY <1>1, <1>2, <1>4 DEF ReadCounter, Clean, TypeOK, Counters
<1>5. CASE ModTimer
  BY <1>1, <1>2, <1>5 DEF ModTimer, Clean, TypeOK, Counters
<1>6. CASE Unload
  BY <1>1, <1>2, <1>6 DEF Unload, Clean, TypeOK, Counters
<1>7. CASE FreeModule
  BY <1>1, <1>2, <1>7 DEF FreeModule, Clean, TypeOK, Counters
<1> QED
  BY <1>3, <1>4, <1>5, <1>6, <1>7 DEF KernelStep, Callback

LEMMA NextIInv == IInv /\ [Next]_vars => IInv'
<1> SUFFICES ASSUME IInv, [Next]_vars PROVE IInv'
  OBVIOUS
<1>1. CASE \E p \in Procs : AppStep(p)
  BY <1>1, AppType, AppAlone, AppClean DEF IInv, CleanInv
<1>2. CASE KernelStep
  BY <1>2, KernelType, KernelAlone, KernelClean DEF IInv, CleanInv
<1>3. CASE UNCHANGED vars
  BY <1>3 DEF vars, IInv, TypeOK, OneAtATime, OpenKeepsLive, DelaySet, CleanNeverCrashes,
     TicksWhileOpen, GarbageNeverArmed, Clean, Ticking
<1> QED
  BY <1>1, <1>2, <1>3 DEF Next, AppStep, KernelStep

(* The inductive invariant holds in every reachable state.                 *)
THEOREM Invariance == Spec => []IInv
BY InitIInv, NextIInv, PTL DEF Spec

(* Type correctness of the timer behind ioctl, for any set of processes.   *)
THEOREM TypeCorrect == Spec => []TypeOK
<1>1. IInv => TypeOK
  BY DEF IInv
<1> QED
  BY <1>1, Invariance, PTL

(* Neither add_timer nor a callback crashes unless a del_timer met a       *)
(* running callback, a program was killed or two of them overlapped.       *)
THEOREM NoCrash == Spec => []CleanNeverCrashes
<1>1. IInv => CleanNeverCrashes
  BY DEF IInv
<1> QED
  BY <1>1, Invariance, PTL

(* The timer that arms itself again ticks from TIMER_OPEN to TIMER_CLOSE   *)
(* and at no other time, under the same conditions.                        *)
THEOREM TicksExactly == Spec => []TicksWhileOpen
<1>1. IInv => TicksWhileOpen
  BY DEF IInv
<1> QED
  BY <1>1, Invariance, PTL

(* The argument that TIMER_CLOSE stores by mistake never times a tick.     *)
THEOREM GarbageUnused == Spec => []GarbageNeverArmed
<1>1. IInv => GarbageNeverArmed
  BY DEF IInv
<1> QED
  BY <1>1, Invariance, PTL
===============================================================================
