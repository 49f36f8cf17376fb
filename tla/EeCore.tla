------------------------------- MODULE EeCore -------------------------------
(***************************************************************************)
(* The EE's execution loop: EmotionEngine::tick and exception of           *)
(* src/cpu/ee/ee.cc, the block cache, the block translation and the        *)
(* dispatcher of src/cpu/ee/jit.  A block is translated once, from its     *)
(* start to the delay slot of its first branch, and executed by calls of   *)
(* the interpreter's functions.                                            *)
(*                                                                         *)
(* Addresses count instructions.  An instruction is what the flow of       *)
(* control sees of it: its kind and the address it refers to.              *)
(***************************************************************************)
EXTENDS Integers, Sequences

CONSTANTS
  Last,         \* instructions lie at 0 .. Last; nothing beyond decodes
  Images,       \* the memory contents to start from
  Elves,        \* the ELF file the first ERET may find and load: [code, entry]
  Common,       \* where V_COMMON
  Interrupt,    \* and V_INTERRUPT point
  Slice,        \* the cycles of a tick (CYCLES_PER_TICK)
  Interrupted   \* the memory contents under which devices raise interrupts

Address == 0 .. Last

\* "none" stands for what the translation leaves out (nop, SYNC, CACHE), "access"
\* for a load or store, which may raise an address error, "op" for the rest.
Kinds == {"op", "none", "access", "jump", "branch", "likely", "syscall", "eret",
          "mtc0_epc", "mtc0_error", "mtc0_status", "ei", "di", "unknown"}
Instr == [kind : Kinds, target : Address]

\* These have a delay slot.
Delayed == {"jump", "branch", "likely"}

Status == [ie : BOOLEAN, eie : BOOLEAN, exl : BOOLEAN, erl : BOOLEAN]

ASSUME MemoryAssumption ==
  Last \in Nat /\ Images \subseteq [Address -> Instr]
  /\ \A elf \in Elves : elf.code \in [DOMAIN elf.code -> Instr] /\ elf.entry \in Address

\* What memory holds once the ELF file is loaded.
Loaded(memory, elf) == [a \in Address |-> IF a \in DOMAIN elf.code THEN elf.code[a] ELSE memory[a]]

\* A branch, a return or a system call in a delay slot has no defined meaning; and what
\* an ELF file is loaded over has not been executed before.
PlainSlots(memory) ==
  \A a \in Address :
    memory[a].kind \in Delayed /\ a < Last => memory[a + 1].kind \notin Delayed \cup {"syscall", "eret"}
ASSUME SlotAssumption == \A memory \in Images : PlainSlots(memory)
ASSUME ElfAssumption ==
  \A memory \in Images, elf \in Elves :
    /\ PlainSlots(Loaded(memory, elf))
    /\ \A a \in Address \cap DOMAIN elf.code : memory[a].kind = "unknown"

ASSUME VectorAssumption == Common \in Address /\ Interrupt \in Address
ASSUME SliceAssumption == Slice \in Nat \ {0} /\ Interrupted \subseteq Images

VARIABLES
  ram,
  pc,
  instr_pc,   \* instr.pc: the instruction whose function was called last
  taken,      \* branch_taken
  cycles,     \* cycles_to_execute
  cache,      \* block_cache: the block at each address, or the empty one
  start,      \* the running block's address,
  block,      \* its instructions
  index,      \* and the one to execute next
  status,     \* COP0 Status,
  epc, error_epc,
  bd,         \* and Cause.BD
  raised,     \* an interrupt line is asserted and its mask bit set
  loaded,     \* the first ERET is done
  turn,       \* where tick is: "dispatch", "block" or "check"
  halted

cop0 == <<status, epc, error_epc, bd>>
code == <<cache, start, block>>
vars == <<ram, pc, instr_pc, taken, cycles, code, index, cop0, raised, loaded, turn, halted>>

Reset  == [ie |-> FALSE, eie |-> FALSE, exl |-> FALSE, erl |-> TRUE]
Normal == [ie |-> TRUE, eie |-> TRUE, exl |-> FALSE, erl |-> FALSE]

Init ==
  /\ ram \in Images
  /\ pc = 0 /\ instr_pc = 0 /\ taken = FALSE
  /\ cycles = Slice
  /\ cache = [a \in Address |-> <<>>]
  /\ start = 0 /\ block = <<>> /\ index = 1
  /\ status = Reset
  /\ epc = 0 /\ error_epc = 0 /\ bd = FALSE
  /\ raised = FALSE /\ loaded = FALSE
  /\ turn = "dispatch"
  /\ halted = FALSE

-----------------------------------------------------------------------------
(* IRBuilder::generate and the block cache.                                *)

IsDirect(instr) == instr.kind \in {"syscall", "eret"}
IsBranch(instr) == instr.kind \in Delayed \/ IsDirect(instr)

Fetch(a) == IF a \in Address THEN ram[a] ELSE [kind |-> "unknown", target |-> 0]

\* The condition of the loop after n instructions from a on.
Ends(a, n) == n > 1 /\ (IsBranch(Fetch(a + n - 2)) \/ IsDirect(Fetch(a + n - 1)))

\* The block at a has n instructions, and each decodes.
Translatable(a, n) ==
  /\ Ends(a, n) /\ \A k \in 1 .. n - 1 : ~Ends(a, k)
  /\ \A k \in 0 .. n - 1 : Fetch(a + k).kind # "unknown"

\* lookup_next_block: a block found is run as it was translated.
Enter(instrs) ==
  /\ start' = pc /\ block' = instrs /\ index' = 1
  /\ turn' = "block"
  /\ UNCHANGED <<ram, pc, instr_pc, taken, cycles, cop0, raised, loaded, halted>>

Lookup ==
  /\ turn = "dispatch" /\ ~halted
  /\ pc \in Address /\ cache[pc] # <<>>
  /\ Enter(cache[pc])
  /\ UNCHANGED cache

Translate ==
  /\ turn = "dispatch" /\ ~halted
  /\ pc \in Address /\ cache[pc] = <<>>
  /\ \E n \in 1 .. Last + 1 :
       /\ Translatable(pc, n)
       /\ Enter([k \in 1 .. n |-> ram[pc + k - 1]])
       /\ cache' = [cache EXCEPT ![pc] = block']

Undecodable ==
  /\ turn = "dispatch" /\ ~halted
  /\ \/ pc \notin Address
     \/ cache[pc] = <<>> /\ \A n \in 1 .. Last + 1 : ~Translatable(pc, n)
  /\ halted' = TRUE
  /\ UNCHANGED <<ram, pc, instr_pc, taken, cycles, code, index, cop0, raised, loaded, turn>>

-----------------------------------------------------------------------------
(* The instructions of a block.                                            *)

Running(kinds) ==
  turn = "block" /\ ~halted /\ index <= Len(block) /\ block[index].kind \in kinds

Target == block[index].target

\* emit_fallback: instr.pc is set, the function called, and the next one follows.
Here == start + index - 1
Call == instr_pc' = Here /\ index' = index + 1 /\ UNCHANGED <<cycles, code, raised, turn, halted>>

\* Functions that jump call fetch_next, which leaves the pc one instruction ahead;
\* emit_native takes that back for ERET and SYSCALL.
Ahead(a) == a + 1
Back(instr) == IF IsDirect(instr) THEN 1 ELSE 0

\* Mutants of Except: EXL is not set, the return address always is, or it is the
\* instruction before.
ExceptOpen(from, vector) ==
  /\ pc' = Ahead(IF status.exl THEN Common ELSE vector)
  /\ epc' = IF status.exl THEN epc ELSE from
  /\ bd' = IF status.exl THEN bd ELSE FALSE
  /\ UNCHANGED <<status, error_epc>>

ExceptNested(from, vector) ==
  /\ pc' = Ahead(IF status.exl THEN Common ELSE vector)
  /\ status' = [status EXCEPT !.exl = TRUE]
  /\ epc' = from
  /\ bd' = FALSE
  /\ UNCHANGED error_epc

\* EmotionEngine::exception.  instr.is_delay_slot is never set by the translated
\* code, so the address is instr.pc and BD is clear.
Except(from, vector) ==
  /\ pc' = Ahead(IF status.exl THEN Common ELSE vector)
  /\ status' = [status EXCEPT !.exl = TRUE]
  /\ epc' = IF status.exl THEN epc ELSE from
  /\ bd' = IF status.exl THEN bd ELSE FALSE
  /\ UNCHANGED error_epc

Skip ==
  /\ Running({"none"})
  /\ index' = index + 1
  /\ UNCHANGED <<ram, pc, instr_pc, taken, cycles, code, cop0, raised, loaded, turn, halted>>

Ordinary ==
  /\ Running({"op", "access", "branch"})
  /\ Call
  /\ UNCHANGED <<ram, pc, taken, cop0, loaded>>

Branch ==
  /\ Running(Delayed)
  /\ Call
  /\ pc' = Target /\ taken' = TRUE
  /\ UNCHANGED <<ram, cop0, loaded>>

\* A mutant of LikelyNotTaken: the delay slot is executed.
LikelyLikeOthers ==
  /\ Running({"likely"})
  /\ Call
  /\ UNCHANGED <<ram, pc, taken, cop0, loaded>>

\* A likely branch not taken leaves the block; its fetch_next is taken back.
LikelyNotTaken ==
  /\ Running({"likely"})
  /\ instr_pc' = Here /\ index' = Len(block) + 1
  /\ UNCHANGED <<ram, pc, taken, cycles, code, cop0, raised, loaded, turn, halted>>

Syscall ==
  /\ Running({"syscall"})
  /\ Call
  /\ Except(Here, Common - Back(block[index]))
  /\ UNCHANGED <<ram, taken, loaded>>

AddressError ==
  /\ Running({"access"})
  /\ Call
  /\ Except(Here, Common)
  /\ UNCHANGED <<ram, taken, loaded>>

MoveToCop0 ==
  /\ Running({"mtc0_epc", "mtc0_error", "mtc0_status"})
  /\ Call
  /\ epc' = IF block[index].kind = "mtc0_epc" THEN Target ELSE epc
  /\ error_epc' = IF block[index].kind = "mtc0_error" THEN Target ELSE error_epc
  /\ status' = IF block[index].kind = "mtc0_status" THEN Normal ELSE status
  /\ UNCHANGED <<ram, pc, taken, bd, loaded>>

\* EI and DI, in kernel mode.
SwitchInterrupts ==
  /\ Running({"ei", "di"})
  /\ Call
  /\ status' = [status EXCEPT !.eie = block[index].kind = "ei"]
  /\ UNCHANGED <<ram, pc, taken, epc, error_epc, bd, loaded>>

\* The first ERET loads the ELF file if it can be opened, over what memory holds.
Eret ==
  /\ Running({"eret"})
  /\ Call
  /\ taken' = TRUE
  /\ status' = IF status.erl THEN [status EXCEPT !.erl = FALSE] ELSE [status EXCEPT !.exl = FALSE]
  /\ loaded' = TRUE
  /\ \/ /\ pc' = Ahead(IF status.erl THEN error_epc ELSE epc) - Back(block[index])
        /\ UNCHANGED ram
     \/ /\ ~loaded
        /\ \E elf \in Elves :
             /\ ram' = Loaded(ram, elf)
             /\ pc' = Ahead(elf.entry) - Back(block[index])
  /\ UNCHANGED <<epc, error_epc, bd>>

\* A mutant of EndBlock: the block costs nothing.
EndBlockFree ==
  /\ turn = "block" /\ ~halted /\ index > Len(block)
  /\ pc' = IF taken THEN pc ELSE start + Len(block)
  /\ taken' = FALSE
  /\ turn' = IF cycles > 0 THEN "dispatch" ELSE "check"
  /\ start' = 0 /\ block' = <<>> /\ index' = 1
  /\ UNCHANGED <<ram, instr_pc, cache, cycles, cop0, raised, loaded, halted>>

\* The epilogue: the pc moves behind the block, unless a branch was taken.
EndBlock ==
  /\ turn = "block" /\ ~halted /\ index > Len(block)
  /\ pc' = IF taken THEN pc ELSE start + Len(block)
  /\ taken' = FALSE
  /\ cycles' = cycles - Len(block)
  /\ turn' = IF cycles' > 0 THEN "dispatch" ELSE "check"
  /\ start' = 0 /\ block' = <<>> /\ index' = 1
  /\ UNCHANGED <<ram, instr_pc, cache, cop0, raised, loaded, halted>>

Block ==
  \/ Lookup \/ Translate \/ Undecodable
  \/ Skip \/ Ordinary \/ Branch \/ LikelyNotTaken \/ Syscall \/ AddressError
  \/ MoveToCop0 \/ SwitchInterrupts \/ Eret
  \/ EndBlock

-----------------------------------------------------------------------------
(* The end of EmotionEngine::tick, and the devices between two ticks.      *)

Enabled == status.ie /\ status.eie /\ ~status.exl /\ ~status.erl

NextTick ==
  /\ turn = "check" /\ ~halted
  /\ cycles' = Slice /\ turn' = "dispatch"
  /\ UNCHANGED <<ram, instr_pc, taken, code, index, raised, loaded, halted>>

TakeInterrupt == raised /\ Enabled /\ NextTick /\ Except(instr_pc, Interrupt)
NoInterrupt   == ~(raised /\ Enabled) /\ NextTick /\ UNCHANGED <<pc, cop0>>

Devices ==
  /\ ram \in Interrupted /\ turn = "check" /\ ~halted
  /\ raised' = ~raised
  /\ UNCHANGED <<ram, pc, instr_pc, taken, cycles, code, index, cop0, loaded, turn, halted>>

Next == Block \/ TakeInterrupt \/ NoInterrupt \/ Devices

Spec == Init /\ [][Next]_vars

\* The emulator's thread runs on; what the devices do is their affair.
FairSpec == Spec /\ WF_vars(Block \/ TakeInterrupt \/ NoInterrupt)

-----------------------------------------------------------------------------

InBlock == turn = "block" /\ index <= Len(block)

at == IF InBlock THEN Here
      ELSE IF turn = "block" /\ ~taken THEN start + Len(block)
      ELSE pc
after == IF InBlock /\ index = Len(block) /\ taken THEN pc ELSE at + 1

Mips == INSTANCE MipsCore

\* The condition of the loop that builds a block looks at a block's head only as the
\* second to last instruction, so that a return there has a delay slot, and so has the
\* branch behind a system call there.  Programs that arrive at one are left out.
HeadsPlain ==
  turn = "dispatch" =>
    /\ Fetch(pc).kind = "eret" => Fetch(pc + 1).kind = "unknown"
    /\ Fetch(pc).kind = "syscall" => Fetch(pc + 1).kind \notin Delayed

\* Cutting the program into blocks, caching them and patching the pc at their
\* ends cannot be told from executing one instruction after the other: every
\* jump, delay slot, skipped delay slot and return is where it belongs, also when
\* blocks overlap or are entered in the middle, and an interrupt comes only while
\* interrupts are enabled.  Where an exception leads MipsCore leaves open.
ImplementsMips == Mips!Spec

\* A handler may raise exceptions of its own; the address the interrupted program
\* is resumed at survives them.
EpcKept ==
  [][status.exl /\ status'.exl /\ epc' # epc => Running({"mtc0_epc"})]_vars

\* A tick ends, whatever loops the program runs in: devices and interrupts get
\* their turn.
TickEnds == turn # "check" ~> turn = "check" \/ halted

\* An interrupt that is raised while interrupts are enabled is taken, unless the
\* device withdraws it or the program disables interrupts first.
InterruptTaken == raised /\ Enabled ~> ~raised \/ ~Enabled \/ halted

\* "This causes problems in the JIT if the instruction uses fetch_next() to direct
\* jump, as that increments the pc, causing the JIT to skip the first instruction
\* of the branch" (emit_native): an interrupt enters its handler at the first
\* instruction.
HandlerFromStart == [][TakeInterrupt => pc' = Interrupt]_vars

=============================================================================
