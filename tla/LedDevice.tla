------------------------------- MODULE LedDevice -------------------------------
(***************************************************************************)
(* The write of 10_led/led.c (07_private_data has the same one) together   *)
(* with the driver's life in Lifecycle: a program can write as soon as it  *)
(* can open the device, that is from cdev_add on, before init has mapped   *)
(* the light's register.                                                   *)
(*                                                                         *)
(* write copies the program's bytes into the one kbuf of the driver, reads *)
(* kbuf[0] back and stores into the register what it found: 1 turns the    *)
(* light on, 0 off.  Nothing is locked.  The two tests of kbuf[0] have no  *)
(* call between them, so that the compiled code loads it once.  Of kbuf    *)
(* only the first byte is modelled, and of the register what this module   *)
(* has stored in it since it was loaded.  The pointer to the register is   *)
(* set by Ioremap: a new load begins with NULL.                            *)
(***************************************************************************)
EXTENDS Lifecycle

CONSTANTS LedDriver,   (* the driver with the light                          *)
          Writers      (* processes that run its app.c                       *)

ASSUME LedAssumption ==
    LedDriver \in Drivers => Contains(Table[LedDriver].init, "regs")

VARIABLES wpc,         (* where each process is in cdev_test_write           *)
          kbuf0,       (* dev1.kbuf[0]                                       *)
          vir_gpio_dr, (* the light, as this module has set it               *)
          burst        (* the bytes that the latest writes left in kbuf,     *)
                       (* back to when none was in progress, and "copied" if *)
                       (* any of the copies was complete (history)           *)

lightVars == <<wpc, kbuf0, vir_gpio_dr, burst>>
ledVars == <<vars, lightVars>>

Bytes == {"0", "1", "2"}     (* "2" stands for all others *)

LedTypeOK ==
    /\ TypeOK
    /\ wpc \in [Writers -> {"idle", "test", "on", "off"}]
    /\ kbuf0 \in Bytes
    /\ vir_gpio_dr \in {"unknown", "on", "off"}
    /\ burst \in SUBSET (Bytes \cup {"copied"})

LedInit ==
    /\ Init
    /\ wpc = [p \in Writers |-> "idle"]
    /\ kbuf0 = "0" /\ vir_gpio_dr = "unknown" /\ burst = {}

Quiet == \A p \in Writers : wpc[p] = "idle"

Goto(p, from, to) ==
    /\ wpc[p] = from
    /\ wpc' = [wpc EXCEPT ![p] = to]

-----------------------------------------------------------------------------
(* cdev_test_write, in a process that has the device open.                 *)

Leaves(what) ==
    /\ LedDriver \in openers
    /\ phase[LedDriver] \in {"init", "unwind", "live"}
    /\ burst' = IF Quiet THEN what ELSE burst \cup what
    /\ UNCHANGED <<vars, vir_gpio_dr>>

CopyFromUser(p, byte) ==
    /\ Goto(p, "idle", "test")
    /\ Leaves({byte, "copied"})
    /\ kbuf0' = byte

(* A copy that faults has reached the first byte or zeroed it.             *)
CopyFails(p, byte) ==
    /\ wpc[p] = "idle" /\ UNCHANGED wpc
    /\ \E left \in {byte, "0"} : Leaves({left}) /\ kbuf0' = left

(* Mutant: the test for 0 is missing. *)
TestOnOnly(p) ==
    /\ Goto(p, "test", IF kbuf0 = "1" THEN "on" ELSE "idle")
    /\ UNCHANGED <<vars, kbuf0, vir_gpio_dr, burst>>

Test(p) ==
    /\ Goto(p, "test", CASE kbuf0 = "1" -> "on" [] kbuf0 = "0" -> "off" [] OTHER -> "idle")
    /\ UNCHANGED <<vars, kbuf0, vir_gpio_dr, burst>>

Store(p) ==
    /\ "regs" \in held[LedDriver]
    /\ wpc[p] \in {"on", "off"}
    /\ Goto(p, wpc[p], "idle")
    /\ vir_gpio_dr' = wpc[p]
    /\ UNCHANGED <<vars, kbuf0, burst>>

(* This load has not mapped the register yet, or ioremap has failed.       *)
(* Bound: what the driver does beyond this crash is not followed. *)
StoreUnmapped(p) ==
    /\ "regs" \notin held[LedDriver]
    /\ wpc[p] \in {"on", "off"}
    /\ Goto(p, wpc[p], "idle")
    /\ phase' = [phase EXCEPT ![LedDriver] = "oops"]
    /\ UNCHANGED <<todo, num, held, tables, openers, clash, kbuf0, vir_gpio_dr, burst>>

Write(p) ==
    \/ \E byte \in Bytes : CopyFromUser(p, byte) \/ CopyFails(p, byte)
    \/ Test(p) \/ Store(p) \/ StoreUnmapped(p)

-----------------------------------------------------------------------------
(* The driver's own life.  The file is not closed during a write, and a    *)
(* new load starts with new memory.                                        *)
(* Bound: a write is over before the memory of a failed init is freed. *)
CloseLed ==
    /\ Quiet
    /\ Close(LedDriver)
    /\ UNCHANGED lightVars

FreeLed ==
    /\ Quiet
    /\ FreeModule(LedDriver)
    /\ kbuf0' = "0" /\ vir_gpio_dr' = "unknown" /\ burst' = {}
    /\ UNCHANGED wpc

Otherwise ==
    /\ Next
    /\ LedDriver \in openers => LedDriver \in openers'
    /\ phase'[LedDriver] = "unloaded" => phase[LedDriver] = "unloaded"
    /\ UNCHANGED lightVars

LedNext == CloseLed \/ FreeLed \/ Otherwise \/ \E p \in Writers : Write(p)

LedSpec == LedInit /\ [][LedNext]_ledVars

-----------------------------------------------------------------------------
(* When writes that overlap are over, the light shows a byte that one of   *)
(* them has left in kbuf, be they the same or different and copied in full *)
(* or not, as long as one copy was complete and none left another byte     *)
(* than 0 and 1: no write acts on what an earlier one left there, and none *)
(* is lost.  (The light and kbuf may then disagree for good: the first to  *)
(* test kbuf may be the last to store.)                                    *)
LightFollows ==
    Quiet /\ LedDriver \in Drivers /\ phase[LedDriver] # "oops" =>
        ("copied" \in burst /\ "2" \notin burst =>
            \/ "1" \in burst /\ vir_gpio_dr = "on"
            \/ "0" \in burst /\ vir_gpio_dr = "off")
=============================================================================
