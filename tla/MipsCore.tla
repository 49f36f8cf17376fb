------------------------------ MODULE MipsCore ------------------------------
(***************************************************************************)
(* What the EE promises a program: one instruction after the other, with   *)
(* MIPS delay slots.  The instruction behind a branch is executed before   *)
(* its target, unless the branch is a "likely" one and not taken.  Where   *)
(* an exception leads, and what it leaves in EPC, is not said here.        *)
(*                                                                         *)
(* The processor is a pair of addresses: the instruction to execute, and   *)
(* the one to execute after it.                                            *)
(***************************************************************************)
EXTENDS Integers

CONSTANTS
  Images,   \* the memory contents to start from
  Elves     \* an ELF file the first ERET may load: [code, entry]

VARIABLES ram, at, after, status, epc, error_epc, loaded

vars == <<ram, at, after, status, epc, error_epc, loaded>>
regs == <<status, epc, error_epc, loaded>>

Reset  == [ie |-> FALSE, eie |-> FALSE, exl |-> FALSE, erl |-> TRUE]
Normal == [ie |-> TRUE, eie |-> TRUE, exl |-> FALSE, erl |-> FALSE]

Init ==
  /\ ram \in Images
  /\ at = 0 /\ after = 1
  /\ status = Reset
  /\ epc = 0 /\ error_epc = 0
  /\ loaded = FALSE

At(kinds) == at \in DOMAIN ram /\ ram[at].kind \in kinds

Proceed == at' = after /\ after' = after + 1 /\ UNCHANGED ram
Divert  == at' = after /\ after' = ram[at].target /\ UNCHANGED ram

Ordinary == At({"op", "none", "access", "branch"}) /\ Proceed /\ UNCHANGED regs
Branch   == At({"jump", "branch", "likely"}) /\ Divert /\ UNCHANGED regs

\* A likely branch that is not taken skips its delay slot.
SkipSlot ==
  /\ At({"likely"})
  /\ at' = after + 1 /\ after' = after + 2
  /\ UNCHANGED <<ram, regs>>

WriteEpc      == At({"mtc0_epc"}) /\ Proceed /\ epc' = ram[at].target /\ UNCHANGED <<status, error_epc, loaded>>
WriteErrorEpc == At({"mtc0_error"}) /\ Proceed /\ error_epc' = ram[at].target /\ UNCHANGED <<status, epc, loaded>>
WriteStatus   == At({"mtc0_status"}) /\ Proceed /\ status' = Normal /\ UNCHANGED <<epc, error_epc, loaded>>

Switch ==
  /\ At({"ei", "di"})
  /\ Proceed
  /\ status' = [status EXCEPT !.eie = ram[at].kind = "ei"]
  /\ UNCHANGED <<epc, error_epc, loaded>>

\* ERET has no delay slot.  The first one may load an ELF file and start it.
Return ==
  /\ At({"eret"})
  /\ status' = IF status.erl THEN [status EXCEPT !.erl = FALSE] ELSE [status EXCEPT !.exl = FALSE]
  /\ loaded' = TRUE
  /\ \/ /\ at' = IF status.erl THEN error_epc ELSE epc
        /\ UNCHANGED ram
     \/ /\ ~loaded
        /\ \E elf \in Elves :
             /\ ram' = [a \in DOMAIN ram |-> IF a \in DOMAIN elf.code THEN elf.code[a] ELSE ram[a]]
             /\ at' = elf.entry
  /\ after' = at' + 1
  /\ UNCHANGED <<epc, error_epc>>

\* A system call, an address error, or an interrupt between two instructions.
Trap ==
  /\ \/ At({"access", "syscall"})
     \/ status.ie /\ status.eie /\ ~status.exl /\ ~status.erl
  /\ at' \in Nat /\ after' \in Nat /\ epc' \in Nat
  /\ status' = [status EXCEPT !.exl = TRUE]
  /\ UNCHANGED <<ram, error_epc, loaded>>

Next ==
  \/ Ordinary \/ Branch \/ SkipSlot
  \/ WriteEpc \/ WriteErrorEpc \/ WriteStatus \/ Switch
  \/ Return \/ Trap

Spec == Init /\ [][Next]_vars
=============================================================================
