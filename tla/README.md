# Models and proofs for linux_driver-study

The repository is a course in Linux driver writing: thirty-odd small kernel
modules for an RK356x board (arm64, kernel 4.19), most of them a character
driver with a program or two that use it. Each driver stands for itself; what
they share is the kernel, and, by copying, a good deal of code. This directory
models the drivers that keep state, together with their programs and with what
they rely on of the kernel.

## Inventory

| part | state it keeps | operations | what is hard | what makes it correct |
|---|---|---|---|---|
| 11_atomic, 12_spinlock, 14_sem, 15_mutex: the *guarded* drivers | an atomic, a flag under a spinlock, a semaphore or a mutex; one global `kbuf` | `open_test`, `write_test` (which sleeps 2 or 4 s), `release_test`; `app.c` opens, writes at most once, closes | processes race in open; the lock is taken in one system call and given back in another; `kbuf` is used without a lock | one opener at a time; nobody's message replaced; every open returns |
| 16_wait_queue, 17_no_wait_queue, 18_Poll | `kbuf`, `flag`, the wait queue `read_wq` | `cdev_test_write`, `cdev_test_read` (blocking or `O_NONBLOCK`), `cdev_test_poll`; `write.c`, three kinds of `read.c` | wake-ups against the test before the sleep, signals, timeouts, failed copies, memory order | no lost wake-up, no sleep under `O_NONBLOCK`, what poll says holds at the read |
| 21_lseek | `mem[1024]`, the position of each open file | `cdev_test_read`, `cdev_test_write`, `cdev_test_llseek` | threads share a file; wrapping offsets; a fall-through; an uninitialised value | every copy inside `mem`; seeks do what they say |
| init and exit of 03-12, 14-18, 20-25 | device number, cdev, class, device, misc device, mapped registers | insmod, each failure of it, rmmod, open and close meanwhile | error paths; orders of release; drivers that share numbers and class names | nothing left over, nothing of others released, no crash |
| 19_Mod_timer, 20_timer, 24_ioctl03, 25_timerlib | a timer that arms itself again, `counter`, `sec` | open, read, release, `ioctl` (`TIMER_OPEN`, `TIMER_CLOSE`, `TIMER_SET`), the callback | callback against close and rmmod; arming twice | what keeps it ticking, and what crashes; a new period arrives |
| 30-34, interrupts | an irq, a tasklet, softirq, work item or delayed work | handler, bottom half, init, exit | interrupt between the steps of init; bottom half against exit | every request is served; which orders crash and which do not |
| 07_private_data, 10_led | `kbuf`, the data register | read, write | two writers share a buffer; a write before this load has mapped the register | the light shows a byte that one of the overlapping writes has left; nothing else than an unmapped register makes a write crash |
| 08_private_data_test | two devices with a buffer each | open (by `container_of`), read, write, init, exit for two | init and exit do not match | each device its own buffer; nothing left |
| 05, 06, 09, 22, 23 | none between calls | copies and logs | | |
| 01, 02, 26-29 | none | log, dump a stack, warn, panic | | |

The drivers meet only in the kernel: they compete for device numbers and class
names (`test` and `class_test` are used by many of them), and an open finds a
driver through the kernel's map from numbers to cdevs. A driver and its
programs meet in system calls; processes and threads meet in a driver's global
variables, which nothing protects except what the driver does itself.

## Modules

| module | models | extends |
|---|---|---|
| `ExclusiveOpen` | abstract: at most one process has the device; a refusal needs somebody who has it | |
| `GuardedDevice` | `app.c` and `write_test` of 11, 12, 14, 15 | |
| `AtomicOpen` | `open_test`, `release_test` of 11 | `GuardedDevice` |
| `SpinOpen` | the same of 12 | `GuardedDevice` |
| `SemOpen` | the same of 14, with the kernel's semaphore | `GuardedDevice` |
| `MutexOpen` | the same of 15, with the kernel's mutex | `GuardedDevice` |
| `MessageLatch` | abstract: reads pass once there has been a message | |
| `PollDevice` | 18_Poll, and 16 and 17 within it | |
| `LseekDevice` | 21_lseek | |
| `TimerDevice` | the ioctls and the timer of 24 and 25 | |
| `Lifecycle` | init and exit of twenty-one drivers, and the kernel's tables | |
| `LedDevice` | the write of 07 and 10, and its driver's life | `Lifecycle` |
| `DeferredWork` | abstract: each run of deferred work answers a request, only while loaded | |
| `BottomHalf` | 30-34 and the timer module of 19 | |
| `GuardedDevice_proofs`, `SpinOpen_proofs`, `SemOpen_proofs`, `MutexOpen_proofs`, `PollDevice_proofs`, `TimerDevice_proofs`, `LedDevice_proofs` | proofs | the module they are about |
| `LseekBottomHalf_proofs` | proofs about two modules that have nothing in common, not even a name | `LseekDevice`, `BottomHalf` |
| `MC...` | the instances that TLC checks | the module they instantiate |

A definition whose comment begins with *Mutant* is not part of a model. It is
the definition below it with a bug that this code could have had; each property
was run against one of them and fails, as it should.

### The guarded drivers

`pc` says where a process is in `app.c` and in the driver; one action is one
access to the shared state. The two words of `app.c` are the two messages.
`kbuf[10]` is an array of `KbufCells` cells, filled one per step, so that a
second copy can come in the middle of a first; a fault in `copy_from_user`
zeroes what it had not reached, and `write_test` goes on after it, as in the
code. `read_test` is left out: 11, 12 and 15 do not register it or never call
it, and it touches no shared state.

* `AtomicOpen`: `OpenRead` is `atomic64_read` and the test, `OpenSet` is
  `atomic64_set`. They are two steps because they are two operations.
* `SpinOpen`: between `spin_lock` and `spin_unlock` the test and the store are
  steps of their own; that they are atomic is a result, not an assumption.
* `SemOpen`: `down` and `up` of the kernel are external. `up` hands the
  semaphore to the first waiter, which leaves `down` later (`up` is the set of
  those that are on their way).
* `MutexOpen`: external too. A caller takes a free mutex past the sleepers; the
  first sleeper, beaten once, asks for a hand-off. A mutex that is spun on
  before a process sleeps is covered by an `open` that has not queued yet.

`ExclusiveOpen` is the promise the last three have in common. `statusOf` maps
the labels to its four states: in `SpinOpen` a process is `open` from the store
of `flag = 0` to the store of `flag = 1`, and `refused` from the failed test on.
11_atomic does not keep the promise (see the findings).

### PollDevice

A message is `KbufCells` cells that are `Text` where the message covers them.
`todo` holds the stores of a write that other processors do not see yet: the
code has no barrier between filling `kbuf` and setting `flag`, so on arm64
`SetFlag` may come before some `StoreCell`. The lock inside
`wake_up_interruptible` orders them (`WakeUp` needs `todo` empty).
`wait_event_interruptible` is modelled step by step: test, queue, test again,
sleep. `read_wq` holds the processes that a wake-up would reach. For a poller it
stands for the entry whose `triggered` flag is not set.

A signal is one after which the process goes on (the programs install no
handlers): a stop and a continue. The read then goes on too, because its result
is ignored. `faulted` and `ended` are history, used by properties only.

`MessageLatch` is what `flag` and the queue are for: a latch that is set once.
`statusOf` maps a read that follows a POLLIN to `promised` (it may neither be
refused nor cut short), a read that a signal let through before the first message
to `cut`, and one that saw `flag` set to `passed`.

### LseekDevice

The position belongs to the file. `read(2)` and `write(2)` are external: they
refuse a negative position, pass a copy of it and store it back unless the
driver fails. Nothing locks the file meanwhile. `loff_t` has a small width and
wraps. `SeekCur` falls through into `SEEK_END` as in the code, and `SeekOther`
is the uninitialised `new_offset`, any value at all.

### TimerDevice

`Script` is `ioctl.c`, one entry per access to what the driver shares, so that
`TIMER_SET` is two steps and `TIMER_CLOSE`, which falls through into it, three.
The callback is entered (`Expire`), reads `counter`, and arms the timer; any of
these may come between the steps of an ioctl. `armed` is the delay the timer is
queued with, as its queue knows it: `timer_test.expires` is a separate variable,
because a store into it does not move a queued timer. Time is left out, a queued
timer may fire at any moment.

The driver does crash: a `del_timer` beside a running callback leaves the timer
ticking, and so does a program that is killed; then the next `add_timer` or the
tick after rmmod is fatal, and so is a second program. No comment claims
otherwise, so this is no finding. `CleanNeverCrashes` says that there is no other
way, with `raced`, `abandoned` and `overlapped` to remember these three.

### Lifecycle

The drivers are data: `Table` gives for each what init acquires, which failures
it tests, what its `err_` labels undo, and in which order exit releases. There
are few shapes (`Checking`, `Ignoring`), and the drivers that differ say how: 07
and 10 map registers, 20 never calls `cdev_add`, 03 and 04 stop early, 03 can ask
for a number of its own, 09 registers a misc device. 08 has two of everything;
its exit gives back the number of its two minors in parts, which the kernel does
not know, and the second device by a number it never had: the steps `other_num`
and `other_device`, which miss (`Missed`). `todo` is what the running init, error
path or exit still has to do. Any step of init can fail.

The tables of the kernel are external: `chrdevs` (owner of each number),
`cdev_map` (cdevs by number, the front one found by an open), `classes`.
`cdev_del` removes the entry in front, whosever it is. The model stops loading
drivers after a crash, once a program can reach a module that is gone (what
happens then is undefined), and once 08 has left something behind. The drivers
in `Alone` are in memory with no other: this bounds the state space.

A loaded module is new memory: `Load` empties `held`, which is what this load
has acquired. The mapping that 07 and 10 leak stays in `held` until then, so that
`NothingLeft` sees it; a later load cannot reach it.

`OnlyUncheckedOops` says what a crash needs. One cause is a class that init failed
to create and went on without (05, 06, 08, 11, 12, 14, 15), while the device in it
is still to be destroyed; it speaks of all drivers, those that ignore failures
too. The other is a store to a register that this load has not mapped. So the
order of the steps of exit (device before class) is right in every driver, and
nothing that other drivers do to the names makes one crash.

### LedDevice

The write of 10 in steps: copy into `kbuf`, test `kbuf[0]`, store into the
register. Of `kbuf` there is the first byte, which is all that `write` looks at.
Processes write as soon as the device can be opened, which is from `cdev_add` on
and before `ioremap`; a write that gets there first, or after an `ioremap` that
returned NULL, stores through NULL (`StoreUnmapped`). This is so in every load:
`vir_gpio_dr` is a variable of the module, hence NULL again after a reload,
whatever an earlier load has mapped (and 07 and 10 never unmap). All other steps are those
of `Lifecycle`: `CloseLed` and `FreeLed` are its `Close` and `FreeModule` for
this driver, `Otherwise` is the rest. Two bounds: a file is not closed during a
write, and a write ends before the memory of a failed init is freed. `burst`
is history: the bytes that the writes have left in `kbuf` since none was in
progress, those of failed copies too, and "copied" once a copy was complete.
`LightFollows` is about these: when the overlapping writes are over, the light
shows a byte that one of them has left, even if they differ or some of their
copies fail. Which one is not said, because the code does not settle it: the
light and `kbuf` may disagree for good.

### BottomHalf

One skeleton and a table (`Table`: the steps of init and of exit) for 30 to 34
and for the timer of 19; a behaviour is the life of one of them. Edges of the
interrupt come at any time. The handler schedules; what it schedules (`sched`,
`queued`, `delay`) is called later by the softirq or the worker; `disables` is the
tasklet's own `count`. All but 19 request the interrupt first and set up the rest
after it, so that each step of init may meet a handler. `INIT_WORK` is two steps,
as its stores are seen by a handler one after the other; so is `tasklet_disable`.
The handler runs on any of `CPUs`, and so does what it schedules. A tasklet, a
work item and a timer's function never run beside themselves (`Dequeue` finds
`running` empty). A softirq is different: it is pending on the CPU that raised it
(`pending`), each CPU runs what is pending there, and `testsoft_func` may run on
several at once (`running` is a set of CPUs). `ready` says whether the
function may be called at all: a call before, a queued tasklet whose SCHED bit
`tasklet_init` has cleared, a NULL workqueue, and a call after the module is
gone are crashes. `early` and `left` are history.

The modules can crash; no comment says they cannot, so that is no finding.
`OnlyKnownCrashes` lists the causes, for each module, and says that there are no
others. `DeferredWork` is the promise that all six keep nevertheless: each run
answers a request, and begins only while the module is loaded. `asked` is the CPUs
whose handler has scheduled the function; a run of a tasklet or a work item
answers them all, one of the softirq those of its own CPU. That no two runs overlap is not
promised, since for 32 it is not so.

## Runs

| run | instance | distinct states | shows |
|---|---|---|---|
| `spin` | 3 processes, 2 cells | 3 325 | `KbufIsMine`, `OpenReturns`, `ExclusiveDevice` |
| `sem` | 3 processes, 2 cells | 1 390 | also `OneToken` and `NoOvertaking` |
| `mutex` | 3 processes, 2 cells | 2 230 | also `UnlockedByOwner` |
| `poll` | 2 writers, a blocking and a non-blocking or polling reader, 1 cell | 113 649 | `NoLostWakeup`, `NonblockNeverSleeps`, `WokenReadsAll`, `LatchesMessages`, `BlockedReturns`, `PollerReads` |
| `lseek` | 3 threads, 2 files, `BUFSIZE` 2, `loff_t` of 4 bits | 209 688 | `InBounds`, `TransfersStayInside` |
| `timer` | 2 processes | 29 338 | `CleanNeverCrashes`, `TicksWhileOpen`, `GarbageNeverArmed`, `SetTakesEffect` |
| `lifecycle` | 9 drivers, 2 in memory, 2 numbers, 2 writers | 413 006 | `NothingLeft`, `LiveKeepsNumber`, `OnlyUncheckedOops`, `OpenKeepsModule`, `LightFollows` |
| `bottom_half` | the six modules, 2 CPUs | 1 913 | `OnlyKnownCrashes`, `Served`, `DeferredByHandlers` |
| `atomic_race` | 3 processes | violated | `OneOpener` |
| `poll_race` | as `poll`, 2 cells | violated | `PollinMeansData` |
| `lseek_cur` | 2 threads, 2 files | violated | `SeekCurMovesByOffset` |
| `cdev_del_race` | 14, 18, 21; 2 numbers | violated | `CdevDelDeletesCdev` |

**Why the bounds are enough.** Three processes give a holder and two that race
for what it gives back; for the queues, a first and a second sleeper. Two cells
make a copy interruptible. Two writers let one fail, or be overtaken, while the
other completes. With a buffer of two bytes and a `loff_t` from -8 to 7 every
kind of offset occurs: inside, at the end, past it, negative, and those whose
sums wrap. All the files may be shared or not (`Init` leaves it open), and three
threads let a pair share one file while the third has the other. The nine
drivers of `lifecycle` have every shape of the table; two numbers for two
drivers in memory let one take what the other releases too early, and leave one
over; the table's other twelve entries repeat these shapes. 08 and 10 are alone
in memory: 08 uses a class name of its own, and 10 without its register has the
shape of 18, which is not alone. Two writers are enough for one to come between
the copy and the test of the other. Two processes are enough for a timer that
one leaves behind to meet another. Two CPUs let the softirq run beside itself,
and be pending on one CPU while it runs on both. Else `BottomHalf` needs no bound but
those of its hardware, a line with one pending edge and a bit for what is
scheduled.
Deadlock is checked everywhere except in the runs of `Lifecycle`, `LedDevice`,
`TimerDevice` and `BottomHalf`, where a crash really is the end.

**Fairness.** A process inside a system call keeps running (weak fairness of
what it does next), and a program that has been started runs to its end. Nobody
has to start a program, no signal has to come, no copy has to fail, and rmmod
need not happen. The kernel's queued spinlock serves its waiters in turn, hence
strong fairness of `OpenLock` and `ReleaseLock`; the semaphore and the mutex need
weak fairness only, thanks to the hand-over in `up` and the hand-off of the
mutex. A poll's timeout expires. A queued timer fires, unless its delay is the
garbage that `TIMER_CLOSE` stored; the sleeps of `ioctl.c` need not end, so that
`SetTakesEffect` cannot hold just because the program went on. In `BottomHalf` a
pending interrupt is delivered, a handler and a bottom half that run return, and
what is queued is called, and on each CPU what is pending there; no edge has to
come, and no delay is bounded.

### What the runs found

* **11_atomic** (`atom.c:14-18`): read and set are separate, so two opens can
  both succeed. After that `kbuf` is shared as well.
* **18_Poll** (`poll.c:37-42`, `78`): POLLIN does not mean that there is
  something to read. `flag` stays 1 for ever, and a failed write zeroes `kbuf`.
* **21_lseek** (`llseek_dev.c:108`): the `break` of `SEEK_CUR` is inside a
  comment, so the position becomes `BUFSIZE + offset`.
* **18_Poll** and all drivers with the same exit (`poll.c:147-148`): the number
  is released before the cdev is deleted, so another driver's cdev may be the
  one that is deleted.

## Proofs

The proofs hold for all values of the constants that the `ASSUME`s allow: any
sets of processes, writers, readers, threads, files and CPUs, any positive number of
cells, any buffer size and any larger `LoffMax`, any selection of the drivers in
the table and any positive number of device numbers. What is proved is the
specification with the bounds on behaviour that it states (those of `Lifecycle`
and `LedDevice` are in their comments): only the constants are unbounded.

None of the invariants is inductive as it stands. Each `_proofs` module defines
the strengthening `IInv` (`BottomIInv` for `BottomHalf`), proves that it holds
initially and that each action keeps it, and draws the theorems from it. TLC has
checked each on the instance of the component's run before it was proved.
The leaves that expand an `IF` inside a set (`Leftovers`) name SMT: Zenon accepts
`h \subseteq T \cap X` for such a set `X` from `h \subseteq X` alone.

**`GuardedDevice_proofs`** has what the guarded drivers share, stated over an
arbitrary set of labels: the steps of `app.c` and `write_test` keep the types
(`AppStepType`) and, if only one process has the device open, keep everyone's
`kbuf` (`AppStepKbuf`), and a step of the guard that leaves `kbuf` alone keeps it
too (`GuardStepKbuf`).

**`SpinOpen_proofs`.** The next `CopyCell` of a second opener would break
`KbufIsMine`, and "one opener" needs the lock. `IInv` has both: at most one
process is where `flag` has been taken and not given back, `flag = 0` if and only
if there is one, and the spinlock is held by precisely the process that is
between lock and unlock; `KbufInv` says in addition that a half-done copy has so
far written the process's own word.

* `TypeCorrect` (`TypeOK`), `KbufExclusive` (`KbufIsMine`).
* `Refinement` (`ExclusiveDevice`). Each step is a step of `ExclusiveOpen` under
  `statusOf` or leaves the status alone: `OpenTake` is a grant, the failed
  `OpenTest` a refusal, and `IInv` gives their guards.

**`SemOpen_proofs`.** `OneToken` needs that the queue holds nobody twice and
nobody whom `up` has already chosen (`QueueOK`): otherwise a hand-over could give
the semaphore to a process that is still queued. That `down` never fails
(`NeverBusy`) is what lets the refinement go without a refusal.

* `TypeCorrect`, `TokenUnique` (`OneToken`), `KbufExclusive`, `Refinement`.
* `InOrder` (`NoOvertaking`), an action property: a process ahead of another in
  the queue stays ahead until it has the device, from what `Append` and `Tail` do
  to the positions in a queue without repetitions (`BeforeAppend`, `BeforeTail`).

**`MutexOpen_proofs`.** `UnlockedByOwner` speaks of the label "close" only; `IInv`
has `owner = p` wherever `p` has the device open (`OpenOwns`), and that a hand-off
is flagged only while somebody waits (`HandoffAwaited`), without which
`mutex_unlock` would have nobody to hand the mutex to. `NoOwnerAssumption` (no
process is called `NoOwner`) is the only assumption about the names.

* `TypeCorrect`, `OwnerUnlocks` (`UnlockedByOwner`), `KbufExclusive`,
  `Refinement`.

**`PollDevice_proofs`.** The invariant has three parts. `Roles`: each process is
where its own program can be, and whoever has come past a test of `flag` can rely
on it, because nothing resets it (`FlagSeen`): that makes the second test harmless
for O_NONBLOCK. `NoLostWakeup` is inductive beside it. `Data`: each cell that a
writer has stored of its message holds text (`StoredIsText`), so that its wake-up
finds the whole buffer full, and later writers only store text over text
(`WokenSeesAll`), until a write fails.

* `TypeCorrect`, `WakeupsKept` (`NoLostWakeup`), `NonblockReturns`
  (`NonblockNeverSleeps`), `MessageWhole` (`WokenReadsAll`).
* `Refinement` (`LatchesMessages`): every step of a reader changes its own status
  as `MessageLatch` allows or not at all, and the steps of writers change none.

**`LseekBottomHalf_proofs`**, about `LseekDevice`. Its invariant is `IInv`.

* `TypeCorrect` (`TypeOK`) rests on `PlusType`: a wrapped sum is a `loff_t`.
* `CopiesInBounds` (`InBounds`). No relation between the position and the buffer
  is needed, which is the point: the clamp alone protects `mem`, whatever the
  seeks do (`ClampBound`), as the tests in front of it run in the same call on the
  same copy of the position.
* `StayInside` (`TransfersStayInside`), an action property. `OwnFileOK` says that
  a transfer on a file of its own works on the file's position, or on one it may
  store; `OthersOwnFile` that calls on other files leave that alone.

About `BottomHalf`. The run has two CPUs, the proof any set of them; it also shows
why `OnlyKnownCrashes` holds, and how it depends on the two lists of steps.
`BottomIInv` has one part for each reason:

* `OnList`: `todo` is an end of the list that init or exit works through (`EndOf`).
  From this `Order` gets all that the other parts need of the lists (`InOrder`):
  which step that is still to come means which others are, and in which driver.
  `Places` and `TailPlaces` are about sequences, and `OneStep` to `FourSteps` apply
  them to lists of these lengths; a step removes its own name from what is to come
  and no other (`StepTaken`).
* `LineHeld`: a handler can be called only from `request_irq` to `free_irq`, so that
  whatever exit does after `free_irq` meets no new request.
* `ReadyWhenSetUp`, `Entries`, `TaskletEntries`: something is queued that is not
  set up only if a handler came `early`. A tasklet may be queued twice, once by a
  handler before `tasklet_init` and once after; the first call clears SCHED and the
  second finds it clear, so `early` is known there too. Each pending bit of the
  softirq has a request of the same CPU behind it.
* `CountBalanced`: exit's `tasklet_enable` is made up for by the disable after it.
* `DelayedWorkHeld`: the delayed work is on its timer or in its queue, never both;
  after `cancel_delayed_work_sync` it is on neither and does not run, and the
  workqueue is there for longer than that. This is why 34, whose workqueue was
  made, leaves nothing behind.
* `TimerHeld` and `LeftOver`: 19's timer fires once at most and never after
  `del_timer`; what is there when no module is in memory was left over by its exit.

One lemma each keeps these for init (`InitKeeps`), exit (`ExitKeeps`), loading and
unloading (`LoadKeeps`), and interrupts and bottom halves (`KernelKeeps`).

* `BottomTypeCorrect` (`BottomTypeOK`), `KnownCauses` (`OnlyKnownCrashes`).
* `BottomRefinement` (`DeferredByHandlers`): a function begins where `Entries` and
  `TaskletEntries` say that it was asked for, the softirq on the very CPU
  (`BeginsAsked`); all other steps change nothing that `DeferredWork` sees
  (`OthersUnseen`) or make a request.

**`TimerDevice_proofs`.** `CleanNeverCrashes` and `TicksWhileOpen` need that
programs follow one another (`OneAtATime`), that an open file keeps the module
(`OpenKeepsLive`), and that from its first TIMER_SET to its TIMER_CLOSE a program's
own delay is in `counter` and, at add_timer, in `expires` (`DelaySet`). The script
of `ioctl.c` enters as the position of each ioctl in it (`ScriptOps`).

* `TypeCorrect`, `NoCrash` (`CleanNeverCrashes`), `TicksExactly`
  (`TicksWhileOpen`), `GarbageUnused` (`GarbageNeverArmed`).

**`LedDevice_proofs`** proves the safety of `Lifecycle` and of the light together,
under `LedSpec`. The invariant relates what each driver holds to what it still
has to do (`Stage`): in init it holds nothing but what it has come to, and of that
everything it checks; in the error path and in exit all that it holds is still to
be released, but for the leftovers; no file of a module in exit is open. For this
the lists of steps have to fit together: `TableOK` proves, row by row, that each
error path undoes the steps before the one that failed, that exit undoes all of
init, that nothing is released twice, and that every exit destroys a
device before its class (`ExitOrder`). The tables name only drivers that hold what the
tables say (`NumbersOK`, `ClassesOK`), and a driver keeps its number until it gives
it back (`NumberKept`, as long as `clash` has not happened). `LifeKinds` sorts the
actions by what they do, so that each part of the invariant is proved for a
handful of kinds and not for two dozen actions.

* `TypeCorrect` (`LedTypeOK`).
* `AllReleased` (`NothingLeft`), `NumberIsOwn` (`LiveKeepsNumber`),
  `OnlyUnchecked` (`OnlyUncheckedOops`): a class that exit has still to destroy is
  held, or it was created by a step whose failure init ignores.
* `OpenIsCounted` (`OpenKeepsModule`), an action property.
* `LightIsRight` (`LightFollows`): while a write is in progress, `kbuf[0]` is a byte
  that one of this burst has left, and every store to come has tested such a byte
  (`BurstOK`). It needs no assumption about the bytes or the failures.
* `SafeAlone`: under `Spec`, that is `Lifecycle` without a write, the class is the
  only cause of a crash (`OnlyClassOops`), and a driver that checks its steps does
  not crash at all (`NeverOops`), so that the write is the only other cause
  that `OnlyUncheckedOops` has to allow for; `NothingLeft` and `LiveKeepsNumber` hold
  there as well.

Only model-checked:

* all liveness (`OpenReturns`, `BlockedReturns`, `PollerReads`, `SetTakesEffect`,
  `Served`), which the prover does not do;
* the four runs that find a violation.

## Not modelled

Handlers that keep no state (05, 06, 09, 22, 23); modules without state (01, 02,
26-29; 28 does not compile) and 19's `b`, which calls a function of another
module; the bytes of `mem`; log output. The handlers of 20, which nobody can call
because its init lacks `cdev_add`. `read` and `write` of 08: each copies to or
from the buffer of the device that `open` found by `container_of`, and its
programs only write; what a second writer can do to a buffer is in the guarded
drivers and in `LedDevice`. `read` of 07 and 10 copies `kbuf` out.

In the models that are there: the programs' memory (`write(fd, "itop", 10)` reads
past its string); a `write` longer than a driver's `kbuf`, which the programs do
not send; duplicates of a descriptor (`fork`, `dup`); signals that kill; the
reader's own reordering of loads, whose outcomes are among those of the writer's;
the inside of a kernel function, which is one step (or the few that its comment
names).

## Plan

In the order of importance:

1. *(done)* the guarded drivers, `PollDevice`, `LseekDevice`, `Lifecycle`.
2. *(done)* `TimerDevice`.
3. *(done)* `BottomHalf` and `DeferredWork`: 30-34, and 19, whose timer does not
   arm itself, as one entry of its table.
4. *(done)* `LedDevice`; 08 and 09 as entries of `Lifecycle`.
5. *(done)* `MessageLatch`, which `PollDevice` implements.
6. *(done)* proofs of every safety property of `SpinOpen`, `SemOpen`, `MutexOpen`,
   `PollDevice`, `LseekDevice`, `TimerDevice`, `Lifecycle`, `LedDevice` and
   `BottomHalf`, of their action properties, and of the refinements of
   `ExclusiveOpen`, `MessageLatch` and `DeferredWork`; of `Lifecycle` on its own,
   without the light.
7. Left: what `AtomicOpen` does promise although it is not exclusive.
