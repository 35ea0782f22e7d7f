------------------------------ MODULE LseekDevice ------------------------------
(***************************************************************************)
(* 21_lseek/llseek_dev.c: a device of BUFSIZE bytes with read, write and   *)
(* llseek.  The bytes themselves are left out; what matters is which of    *)
(* them a call touches and what becomes of the file position.              *)
(*                                                                         *)
(* The position belongs to the open file.  read(2) and write(2), which are *)
(* external, refuse a negative position, hand the driver a copy of it and  *)
(* store the copy back unless the driver returned an error; for a          *)
(* character device no lock is held meanwhile, so threads that share a     *)
(* file can come in between.  loff_t is a signed integer that wraps.       *)
(***************************************************************************)
EXTENDS Integers

CONSTANTS Threads,   (* each makes one call at a time                        *)
          Files,     (* open files of /dev/test                              *)
          BUFSIZE,   (* 1024 in the code                                     *)
          LoffMax    (* largest loff_t, 2^63 - 1 in the code                 *)

ASSUME BufsizeAssumption == BUFSIZE \in Nat \ {0}
ASSUME LoffAssumption == LoffMax \in Nat /\ LoffMax > BUFSIZE

VARIABLES file,      (* the open file that each thread uses                  *)
          f_pos,     (* position of each file                                *)
          pc,        (* where each thread is                                 *)
          p,         (* the copy of the position that its call works on      *)
          count      (* the bytes that its call transfers                    *)

vars == <<file, f_pos, pc, p, count>>

loff_t == -(LoffMax + 1)..LoffMax

(* Addition in loff_t; the kernel is built with wrapping signed integers.  *)
Plus(a, b) ==
    LET s == a + b
    IN  IF s > LoffMax THEN s - 2 * (LoffMax + 1)
        ELSE IF s < -(LoffMax + 1) THEN s + 2 * (LoffMax + 1)
        ELSE s

TypeOK ==
    /\ file \in [Threads -> Files]
    /\ f_pos \in [Files -> loff_t]
    /\ pc \in [Threads -> {"idle", "copy", "return"}]
    /\ p \in [Threads -> 0..LoffMax]
    /\ count \in [Threads -> 0..BUFSIZE]

Init ==
    /\ file \in [Threads -> Files]
    /\ f_pos = [f \in Files |-> 0]
    /\ pc = [t \in Threads |-> "idle"]
    /\ p = [t \in Threads |-> 0]
    /\ count = [t \in Threads |-> 0]

Pos(t) == f_pos[file[t]]

Begin(t, next, n) ==
    /\ pc[t] = "idle"
    /\ pc' = [pc EXCEPT ![t] = next]
    /\ p' = [p EXCEPT ![t] = Pos(t)]
    /\ count' = [count EXCEPT ![t] = n]
    /\ UNCHANGED <<file, f_pos>>

End(t) ==
    /\ pc' = [pc EXCEPT ![t] = "idle"]
    /\ p' = [p EXCEPT ![t] = 0]
    /\ count' = [count EXCEPT ![t] = 0]
    /\ UNCHANGED file

-----------------------------------------------------------------------------
(* cdev_test_read and cdev_test_write up to their copy, with the test of   *)
(* read(2) and write(2) in front.  A position past BUFSIZE makes the read  *)
(* return -1 and the write return 0.                                       *)

(* The bytes that a call of this size transfers: the rest of the buffer,   *)
(* at most.                                                                *)
(* Mutant: the size is compared with the whole buffer. *)
ClampWhole(size, pos) == IF size > BUFSIZE THEN BUFSIZE - pos ELSE size

Clamp(size, pos) == IF size > BUFSIZE - pos THEN BUFSIZE - pos ELSE size

(* Mutant: the test of a position past the end is dropped. *)
BeginTransferAnywhere(t) ==
    /\ 0 <= Pos(t)
    /\ \E size \in 0..(BUFSIZE + 1) : Begin(t, "copy", Clamp(size, Pos(t)))

BeginTransfer(t) ==
    /\ 0 <= Pos(t)
    /\ ~(Pos(t) > BUFSIZE)
    /\ \E size \in 0..(BUFSIZE + 1) : Begin(t, "copy", Clamp(size, Pos(t)))

WritePastEnd(t) ==
    /\ Pos(t) > BUFSIZE
    /\ Begin(t, "return", 0)

(* copy_to_user or copy_from_user; if it fails the call returns -1. *)
(* Mutant: the position moves one byte more than was copied. *)
CopyDoneOffByOne(t) ==
    /\ pc[t] = "copy"
    /\ pc' = [pc EXCEPT ![t] = "return"]
    /\ p' = [p EXCEPT ![t] = @ + count[t] + 1]
    /\ count' = [count EXCEPT ![t] = 0]
    /\ UNCHANGED <<file, f_pos>>

CopyDone(t) ==
    /\ pc[t] = "copy"
    /\ pc' = [pc EXCEPT ![t] = "return"]
    /\ p' = [p EXCEPT ![t] = @ + count[t]]
    /\ count' = [count EXCEPT ![t] = 0]
    /\ UNCHANGED <<file, f_pos>>

CopyFailed(t) ==
    /\ pc[t] = "copy"
    /\ End(t)
    /\ UNCHANGED f_pos

(* read(2) or write(2) stores the position back. *)
StorePos(t) ==
    /\ pc[t] = "return"
    /\ f_pos' = [f_pos EXCEPT ![file[t]] = p[t]]
    /\ End(t)

-----------------------------------------------------------------------------
(* cdev_test_llseek, one disjunct per whence that the kernel lets through. *)
(* A call that fails changes nothing.  The call is one step: it reads      *)
(* f_pos only for its tests, and what another thread could change between  *)
(* a test and the store does not enter into the value that is stored.      *)

SeekTo(t, new_offset) ==
    /\ pc[t] = "idle"
    /\ f_pos' = [f_pos EXCEPT ![file[t]] = new_offset]
    /\ UNCHANGED <<file, pc, p, count>>

SeekSet(t, offset) ==
    /\ ~(offset < 0) /\ ~(offset > BUFSIZE)
    /\ SeekTo(t, offset)

(* SEEK_CUR's break is part of a comment (line 108): the case goes on into *)
(* SEEK_END, whose assignment is the one that counts.                      *)
SeekCur(t, offset) ==
    /\ ~(Plus(Pos(t), offset) > BUFSIZE)
    /\ ~(Plus(Pos(t), offset) < 0)
    /\ SeekTo(t, Plus(BUFSIZE, offset))

SeekEnd(t, offset) ==
    /\ ~(Plus(Pos(t), offset) < 0)
    /\ SeekTo(t, Plus(BUFSIZE, offset))

(* SEEK_DATA and SEEK_HOLE reach "default", where new_offset is never set. *)
SeekOther(t) == \E garbage \in loff_t : SeekTo(t, garbage)

Lseek(t) ==
    \/ \E offset \in loff_t : SeekSet(t, offset) \/ SeekCur(t, offset) \/ SeekEnd(t, offset)
    \/ SeekOther(t)

-----------------------------------------------------------------------------
Transfer(t) ==
    BeginTransfer(t) \/ WritePastEnd(t) \/ CopyDone(t) \/ CopyFailed(t) \/ StorePos(t)

Next == \E t \in Threads : Transfer(t) \/ Lseek(t)

Spec == Init /\ [][Next]_vars

-----------------------------------------------------------------------------
(* Every byte that a read or a write copies lies inside mem, although      *)
(* llseek lets the position go negative and past the end, a wrapped sum or *)
(* an uninitialised value may end up in it, and another thread may move it *)
(* at any time.                                                            *)
InBounds ==
    \A t \in Threads : pc[t] = "copy" => p[t] >= 0 /\ p[t] + count[t] <= BUFSIZE

(* On a file that no other thread uses, only llseek takes the position out *)
(* of the buffer: a sequence of reads and writes that starts inside stays  *)
(* inside.  (On a shared file a write that began past the end can store    *)
(* its old position over another thread's seek.)                           *)
SoleUser(t) == \A u \in Threads \ {t} : file[u] # file[t]

TransfersStayInside ==
    [][\A t \in Threads :
          Transfer(t) /\ SoleUser(t) /\ Pos(t) \in 0..BUFSIZE =>
              f_pos'[file[t]] \in Pos(t)..BUFSIZE]_vars

(* What the comment in llseek_dev.c says of SEEK_CUR: the new position is  *)
(* file->f_pos + offset.  The code breaks it: it is BUFSIZE + offset.      *)
SeekCurMovesByOffset ==
    [][\A t \in Threads : \A offset \in loff_t :
          SeekCur(t, offset) => f_pos'[file[t]] = Pos(t) + offset]_vars
=============================================================================
