---------------------------- MODULE GuardedDevice ----------------------------
(***************************************************************************)
(* The part that the four guarded drivers have in common, statement for    *)
(* statement: the user program app.c (open, at most one write, close) and  *)
(* the driver's write_test with its single global kbuf.  What differs is   *)
(* open_test and release_test; the modules AtomicOpen, SpinOpen, SemOpen   *)
(* and MutexOpen extend this one with them.                                *)
(*                                                                         *)
(* kbuf is ten bytes that copy_from_user fills one after the other, and    *)
(* that stay in use, without a lock, while write_test sleeps.  KbufCells   *)
(* cells that are filled one step at a time stand for the bytes; a cell    *)
(* holds the word it was copied from, or Zero.                             *)
(***************************************************************************)
EXTENDS Naturals

CONSTANTS Procs,      (* the processes that run app.c                        *)
          KbufCells   (* number of cells that stand for kbuf[10]             *)

ASSUME KbufCellsAssumption == KbufCells \in Nat \ {0}

VARIABLES pc,         (* where each process is in app.c and in the driver    *)
          word,       (* the word it is writing, Zero outside write_test     *)
          copied,     (* cells that its copy_from_user, if any, has filled   *)
          kbuf        (* the driver's global buffer                          *)

appVars == <<pc, word, copied, kbuf>>

Cells == 1..KbufCells

(* The two arguments that app.c writes and write_test compares with. *)
Sent == {"topeet", "itop"}
Zero == "zero"

(* In write_test, once copy_from_user has returned. *)
UsesKbuf == {"strcmp", "ssleep", "printk"}

(* open(2) has returned a file descriptor and release_test has not begun. *)
FdOpen == {"opened", "copy", "close"} \cup UsesKbuf

AppLabels == {"idle", "open", "ebusy"} \cup FdOpen

AppInit ==
    /\ pc = [p \in Procs |-> "idle"]
    /\ word = [p \in Procs |-> Zero]
    /\ copied = [p \in Procs |-> 0]
    /\ kbuf = [c \in Cells |-> Zero]

AppTypeOK ==
    /\ word \in [Procs -> Sent \cup {Zero}]
    /\ copied \in [Procs -> 0..(KbufCells - 1)]
    /\ kbuf \in [Cells -> Sent \cup {Zero}]

Goto(p, from, to) ==
    /\ pc[p] = from
    /\ pc' = [pc EXCEPT ![p] = to]

-----------------------------------------------------------------------------
(* app.c: main, up to its call of open and after a failed open.            *)

RunApp(p) ==
    /\ Goto(p, "idle", "open")
    /\ UNCHANGED <<word, copied, kbuf>>

OpenFailed(p) ==
    /\ Goto(p, "ebusy", "idle")
    /\ UNCHANGED <<word, copied, kbuf>>

(* app.c: one write if argv[2] is one of the two words, none otherwise.    *)
CallWrite(p) ==
    /\ Goto(p, "opened", "copy")
    /\ \E w \in Sent : word' = [word EXCEPT ![p] = w]
    /\ UNCHANGED <<copied, kbuf>>

SkipWrite(p) ==
    /\ Goto(p, "opened", "close")
    /\ UNCHANGED <<word, copied, kbuf>>

-----------------------------------------------------------------------------
(* write_test.  copy_from_user fills kbuf cell by cell; a fault zeroes the *)
(* cells it has not reached, and write_test only logs it and goes on.      *)

(* Mutant: the copy runs one byte past the end of kbuf. *)
CopyCellOverrun(p) ==
    LET c == copied[p] + 1
    IN  /\ Goto(p, "copy", IF c > KbufCells THEN "strcmp" ELSE "copy")
        /\ kbuf' = [kbuf EXCEPT ![IF c > KbufCells THEN 1 ELSE c] = word[p]]
        /\ copied' = [copied EXCEPT ![p] = IF c > KbufCells THEN 0 ELSE c]
        /\ UNCHANGED word

CopyCell(p) ==
    LET c == copied[p] + 1
    IN  /\ Goto(p, "copy", IF c = KbufCells THEN "strcmp" ELSE "copy")
        /\ kbuf' = [kbuf EXCEPT ![c] = word[p]]
        /\ copied' = [copied EXCEPT ![p] = IF c = KbufCells THEN 0 ELSE c]
        /\ UNCHANGED word

CopyFault(p) ==
    /\ Goto(p, "copy", "strcmp")
    /\ kbuf' = [c \in Cells |-> IF c > copied[p] THEN Zero ELSE kbuf[c]]
    /\ copied' = [copied EXCEPT ![p] = 0]
    /\ UNCHANGED word

KbufIs(w) == \A c \in Cells : kbuf[c] = w

(* Four seconds of ssleep for "topeet", two for "itop", none otherwise. *)
Strcmp(p) ==
    /\ Goto(p, "strcmp", IF \E w \in Sent : KbufIs(w) THEN "ssleep" ELSE "printk")
    /\ UNCHANGED <<word, copied, kbuf>>

Ssleep(p) ==
    /\ Goto(p, "ssleep", "printk")
    /\ UNCHANGED <<word, copied, kbuf>>

Printk(p) ==
    /\ Goto(p, "printk", "close")
    /\ word' = [word EXCEPT ![p] = Zero]
    /\ UNCHANGED <<copied, kbuf>>

AppStep(p) ==
    \/ OpenFailed(p) \/ CallWrite(p) \/ SkipWrite(p)
    \/ CopyCell(p) \/ CopyFault(p) \/ Strcmp(p) \/ Ssleep(p) \/ Printk(p)

-----------------------------------------------------------------------------
(* From the end of its copy to its printk, across the comparison and the   *)
(* sleep of up to four seconds, a write_test finds in kbuf what it copied  *)
(* itself (or the zeroes of its own fault): no other write replaces the    *)
(* message that it compares and logs.                                      *)
KbufIsMine ==
    \A p \in Procs : pc[p] \in UsesKbuf =>
        \A c \in Cells : kbuf[c] \in {word[p], Zero}

(* Every open(2) returns, with a descriptor or with -EBUSY: a process is   *)
(* never left waiting in open_test for ever.                               *)
OpenReturns ==
    \A p \in Procs : pc[p] = "open" ~> pc[p] \in {"opened", "ebusy"}
=============================================================================
