---------------------------- MODULE EeCoreProofs ----------------------------
(***************************************************************************)
(* Executing blocks is executing instructions, for every program, vector   *)
(* and slice.                                                              *)
(***************************************************************************)
EXTENDS EeCore, TLAPS

Typed ==
  /\ ram \in [Address -> Instr]
  /\ pc \in Nat /\ instr_pc \in Nat
  /\ taken \in BOOLEAN /\ cycles \in Int
  /\ cache \in [Address -> Seq(Instr)]
  /\ start \in Nat /\ block \in Seq(Instr) /\ index \in Nat \ {0}
  /\ status \in Status
  /\ epc \in Nat /\ error_epc \in Nat /\ bd \in BOOLEAN
  /\ raised \in BOOLEAN /\ loaded \in BOOLEAN /\ halted \in BOOLEAN
  /\ turn \in {"dispatch", "block", "check"}

\* The instructions are those in memory, and a delay slot or a return is the last.
IsBlock(a, instrs) ==
  /\ Len(instrs) > 1
  /\ \A k \in 1 .. Len(instrs) :
       /\ a + k - 1 \in Address
       /\ instrs[k] = ram[a + k - 1]
       /\ instrs[k].kind # "unknown"
       /\ instrs[k].kind \in Delayed => k + 1 = Len(instrs)
       /\ instrs[k].kind = "eret" => k = Len(instrs)

BlocksFaithful ==
  /\ \A a \in Address : cache[a] # <<>> => IsBlock(a, cache[a])
  /\ turn = "block" => IsBlock(start, block)

\* branch_taken is set behind a branch or a return, and cleared at the end of the block.
TakenBehind == taken => turn = "block" /\ index >= Len(block)

SlotsStayPlain == PlainSlots(ram) /\ (~loaded => ram \in Images)

IInv == Typed /\ SlotsStayPlain /\ BlocksFaithful /\ TakenBehind

LEMMA LoadedType ==
  ASSUME NEW memory \in [Address -> Instr], NEW elf \in Elves
  PROVE  Loaded(memory, elf) \in [Address -> Instr] /\ elf.entry \in Address
  BY MemoryAssumption DEF Loaded

LEMMA InitInv == Init => IInv
<1> SUFFICES ASSUME Init PROVE IInv
  OBVIOUS
<1>1. ram \in [Address -> Instr] /\ PlainSlots(ram) /\ ram \in Images
  BY MemoryAssumption, SlotAssumption DEF Init
<1>2. Reset \in Status
  BY DEF Reset, Status
<1>3. cache \in [Address -> Seq(Instr)] /\ \A a \in Address : cache[a] = <<>>
  <2>1. <<>> \in Seq(Instr)
    OBVIOUS
  <2> QED BY <2>1 DEF Init
<1>4. Typed
  <2>1. /\ pc = 0 /\ instr_pc = 0 /\ taken = FALSE /\ cycles \in Int
        /\ start = 0 /\ block = <<>> /\ index = 1
    BY SliceAssumption DEF Init
  <2>2. /\ status \in Status /\ epc = 0 /\ error_epc = 0 /\ bd = FALSE /\ raised = FALSE
        /\ loaded = FALSE /\ turn = "dispatch" /\ halted = FALSE
    BY <1>2 DEF Init
  <2>3. <<>> \in Seq(Instr)
    OBVIOUS
  <2>4. start \in Nat /\ block \in Seq(Instr) /\ index \in Nat \ {0} /\ pc \in Nat /\ instr_pc \in Nat
    BY <2>1, <2>3
  <2>5. taken \in BOOLEAN /\ cycles \in Int /\ epc \in Nat /\ error_epc \in Nat /\ bd \in BOOLEAN
    BY <2>1, <2>2
  <2> QED BY <1>1, <1>3, <2>2, <2>4, <2>5 DEF Typed
<1> QED
  BY <1>1, <1>3, <1>4 DEF Init, IInv, SlotsStayPlain, BlocksFaithful, TakenBehind

\* Where the state of the emulator and that of the processor meet inside a block.
LEMMA Inside ==
  ASSUME IInv, NEW kinds, Running(kinds)
  PROVE  /\ turn = "block" /\ index \in 1 .. Len(block) /\ Len(block) > 1
         /\ Here \in Address /\ at = Here /\ Here + 1 \in Nat
         /\ block[index] = ram[Here] /\ block[index] \in Instr
         /\ block[index].kind \in kinds
         /\ block[index].kind \in Delayed => index + 1 = Len(block)
         /\ block[index].kind = "eret" => index = Len(block)
         /\ index < Len(block) => ~taken
         /\ after = IF index = Len(block) /\ taken THEN pc ELSE Here + 1
<1>1. turn = "block" /\ index \in 1 .. Len(block) /\ block \in Seq(Instr) /\ start \in Nat
  BY DEF Running, IInv, Typed
<1>2. IsBlock(start, block)
  BY <1>1 DEF IInv, BlocksFaithful
<1>3. /\ start + index - 1 \in Address
      /\ block[index] = ram[start + index - 1]
      /\ block[index].kind \in Delayed => index + 1 = Len(block)
      /\ block[index].kind = "eret" => index = Len(block)
  BY <1>1, <1>2 DEF IsBlock
<1>4. at = Here /\ after = IF index = Len(block) /\ taken THEN pc ELSE Here + 1
  BY <1>1 DEF at, after, InBlock
<1>5. index < Len(block) => ~taken
  BY <1>1 DEF IInv, TakenBehind
<1> QED
  BY <1>1, <1>2, <1>3, <1>4, <1>5 DEF Running, IsBlock, Here, Address

\* The state behind an instruction: the next one of the block, or the block's end.
LEMMA Behind ==
  ASSUME IInv, NEW kinds, Running(kinds),
         index' = index + 1, UNCHANGED <<turn, start, block>>
  PROVE  /\ index < Len(block) => at' = Here + 1
         /\ index = Len(block) => at' = IF taken' THEN pc' ELSE Here + 1
         /\ after' = IF index + 1 = Len(block) /\ taken' THEN pc' ELSE at' + 1
<1>1. turn = "block" /\ index \in 1 .. Len(block) /\ block \in Seq(Instr) /\ start \in Nat
  BY DEF Running, IInv, Typed
<1>2. turn' = "block" /\ Len(block') = Len(block) /\ start' = start
  BY <1>1
<1>3. CASE index < Len(block)
  <2>1. InBlock' /\ Here' = Here + 1
    BY <1>1, <1>2, <1>3 DEF InBlock, Here
  <2> QED BY <1>1, <1>2, <1>3, <2>1 DEF at, after
<1>4. CASE index = Len(block)
  <2>1. ~InBlock' /\ start + Len(block) = Here + 1
    BY <1>1, <1>2, <1>4 DEF InBlock, Here
  <2> QED BY <1>1, <1>2, <1>4, <2>1 DEF at, after
<1> QED BY <1>1, <1>3, <1>4

\* What an instruction may write keeps the invariant, if memory stays and what it sets
\* for the end of the block is not set too early.
LEMMA CalledInv ==
  ASSUME IInv, NEW kinds, Running(kinds),
         index' = index + 1 \/ index' = Len(block) + 1,
         instr_pc' \in Nat, pc' \in Nat, taken' \in BOOLEAN, taken' => index' >= Len(block),
         status' \in Status, epc' \in Nat, error_epc' \in Nat, bd' \in BOOLEAN, loaded' \in BOOLEAN,
         loaded => loaded',
         UNCHANGED <<ram, cycles, code, raised, turn, halted>>
  PROVE  IInv'
<1>1. UNCHANGED <<ram, cycles, cache, start, block, raised, turn, halted>>
  BY DEF code
<1>2. Typed'
  BY <1>1 DEF IInv, Typed
<1>3. BlocksFaithful'
  BY <1>1 DEF IInv, BlocksFaithful, IsBlock
<1>4. SlotsStayPlain'
  BY <1>1 DEF IInv, SlotsStayPlain, PlainSlots
<1>5. TakenBehind'
  BY <1>1 DEF TakenBehind, Running
<1> QED BY <1>2, <1>3, <1>4, <1>5 DEF IInv

\* What every instruction called leaves.
LEMMA Called ==
  ASSUME IInv, NEW kinds, Running(kinds), Call
  PROVE  /\ index' = index + 1 /\ instr_pc' \in Nat
         /\ UNCHANGED <<cycles, code, raised, turn, halted, start, block>>
  BY Inside DEF Call, code, Address

LEMMA ExceptType ==
  ASSUME IInv, NEW from \in Nat, NEW vector \in Int, vector >= -1, Except(from, vector)
  PROVE  /\ pc' \in Nat /\ epc' \in Nat /\ bd' \in BOOLEAN /\ error_epc' = error_epc
         /\ status' = [status EXCEPT !.exl = TRUE] /\ status' \in Status
<1>1. status \in Status /\ epc \in Nat /\ bd \in BOOLEAN
  BY DEF IInv, Typed
<1>2. Common \in Nat
  BY VectorAssumption DEF Address
<1>3. status' = [status EXCEPT !.exl = TRUE] /\ status' \in Status
  BY <1>1 DEF Except, Status
<1>4. epc' \in Nat /\ bd' \in BOOLEAN /\ error_epc' = error_epc
  BY <1>1 DEF Except
<1>5. pc' \in Nat
  BY <1>2 DEF Except, Ahead
<1> QED BY <1>3, <1>4, <1>5

\* Instructions that proceed to the next one.
LEMMA Proceeds ==
  ASSUME IInv, NEW kinds, Running(kinds),
         index' = index + 1, UNCHANGED <<turn, start, block, pc, taken, ram>>
  PROVE  Mips!Proceed
<1>1. UNCHANGED <<turn, start, block>>
  OBVIOUS
<1>2. index \in 1 .. Len(block) /\ Len(block) > 1 /\ at = Here /\ Here \in Nat
  BY Inside DEF Address
<1>3. Len(block) \in Nat
  BY DEF IInv, Typed
<1>4. at' = after
  BY <1>1, <1>2, <1>3, Inside, Behind
<1>5. after' = after + 1
  <2>1. after' = IF index + 1 = Len(block) /\ taken THEN pc ELSE at' + 1
    BY <1>1, Behind
  <2>2. index + 1 = Len(block) => ~taken
    BY <1>2, <1>3, Inside
  <2> QED BY <1>4, <2>1, <2>2
<1> QED BY <1>4, <1>5 DEF Mips!Proceed

\* The instruction the processor executes is the one called.
LEMMA SameInstr ==
  ASSUME IInv, NEW kinds, Running(kinds)
  PROVE  Mips!At(kinds) /\ ram[at] = block[index]
  BY Inside DEF Mips!At, IInv, Typed

LEMMA SkipStep == ASSUME IInv, Skip PROVE IInv' /\ Mips!Next
<1>1. Running({"none"}) /\ index' = index + 1
  BY DEF Skip
<1>2. UNCHANGED <<ram, pc, instr_pc, taken, cycles, code, status, epc, error_epc, bd, raised, loaded, turn, halted>>
  BY DEF Skip, cop0
<1>3. IInv'
  BY <1>1, <1>2, CalledInv, Inside DEF IInv, Typed
<1>4. Mips!Proceed
  BY <1>1, <1>2, Proceeds DEF code
<1> QED
  BY <1>1, <1>2, <1>3, <1>4, SameInstr DEF Mips!Next, Mips!Ordinary, Mips!At, Mips!regs

LEMMA OrdinaryStep == ASSUME IInv, Ordinary PROVE IInv' /\ Mips!Next
<1>1. Running({"op", "access", "branch"}) /\ Call
  BY DEF Ordinary
<1>2. UNCHANGED <<ram, pc, taken, status, epc, error_epc, bd, loaded>>
  BY DEF Ordinary, cop0
<1>3. IInv'
  BY <1>1, <1>2, Called, CalledInv, Inside DEF IInv, Typed
<1>4. Mips!Proceed
  BY <1>1, <1>2, Called, Proceeds
<1> QED
  BY <1>1, <1>2, <1>3, <1>4, SameInstr DEF Mips!Next, Mips!Ordinary, Mips!At, Mips!regs

LEMMA BranchStep == ASSUME IInv, Branch PROVE IInv' /\ Mips!Next
<1>1. Running(Delayed) /\ Call /\ pc' = Target /\ taken' = TRUE
  BY DEF Branch
<1>2. UNCHANGED <<ram, status, epc, error_epc, bd, loaded>>
  BY DEF Branch, cop0
<1>3. /\ index + 1 = Len(block) /\ ~taken /\ Target = ram[at].target /\ Target \in Nat
      /\ at = Here /\ after = Here + 1 /\ Here \in Nat /\ index \in Nat /\ Len(block) \in Nat
  <2>1. index \in Nat /\ Len(block) \in Nat
    BY DEF IInv, Typed
  <2> QED BY <1>1, <2>1, Inside DEF Target, Instr, Address
<1>4. IInv'
  BY <1>1, <1>2, <1>3, Called, CalledInv DEF IInv, Typed
<1>5. Mips!Divert
  <2>1. at' = Here + 1 /\ after' = pc'
    BY <1>1, <1>3, Called, Behind
  <2> QED BY <1>1, <1>2, <1>3, <2>1 DEF Mips!Divert
<1> QED
  BY <1>1, <1>2, <1>4, <1>5, SameInstr DEF Mips!Next, Mips!Branch, Mips!At, Mips!regs, Delayed

LEMMA LikelyNotTakenStep == ASSUME IInv, LikelyNotTaken PROVE IInv' /\ Mips!Next
<1>1. Running({"likely"}) /\ instr_pc' = Here /\ index' = Len(block) + 1
  BY DEF LikelyNotTaken
<1>2. UNCHANGED <<ram, pc, taken, cycles, code, start, block, status, epc, error_epc, bd, raised, loaded, turn, halted>>
  BY DEF LikelyNotTaken, cop0, code
<1>3. /\ index + 1 = Len(block) /\ ~taken /\ at = Here /\ after = Here + 1 /\ Here \in Nat /\ turn = "block"
  BY <1>1, Inside DEF Delayed, Address
<1>4. IInv'
  BY <1>1, <1>2, <1>3, CalledInv DEF IInv, Typed
<1>5. at' = after + 1 /\ after' = after + 2
  <2>1. start \in Nat /\ index \in Nat /\ Len(block) \in Nat
    BY DEF IInv, Typed
  <2>2. ~InBlock' /\ turn' = "block" /\ ~taken' /\ start' = start /\ Len(block') = Len(block)
    BY <1>1, <1>2, <1>3, <2>1 DEF InBlock
  <2>3. at' = start + Len(block) /\ after' = at' + 1
    BY <2>2 DEF at, after
  <2> QED BY <1>3, <2>1, <2>3 DEF Here
<1> QED
  BY <1>1, <1>2, <1>4, <1>5, SameInstr DEF Mips!Next, Mips!SkipSlot, Mips!regs

LEMMA MoveToCop0Step == ASSUME IInv, MoveToCop0 PROVE IInv' /\ Mips!Next
<1> DEFINE moves == {"mtc0_epc", "mtc0_error", "mtc0_status"}
<1>1. Running(moves) /\ Call
  BY DEF MoveToCop0
<1>2. /\ epc' = IF block[index].kind = "mtc0_epc" THEN Target ELSE epc
      /\ error_epc' = IF block[index].kind = "mtc0_error" THEN Target ELSE error_epc
      /\ status' = IF block[index].kind = "mtc0_status" THEN Normal ELSE status
      /\ UNCHANGED <<ram, pc, taken, bd, loaded>>
  BY DEF MoveToCop0
<1>3. /\ Target = ram[at].target /\ Target \in Nat /\ ram[at].kind = block[index].kind
      /\ at \in DOMAIN ram /\ block[index].kind \in moves
  BY <1>1, Inside, SameInstr DEF Target, Instr, Address, Mips!At
<1>4. epc' \in Nat /\ error_epc' \in Nat /\ status' \in Status
  BY <1>2, <1>3 DEF IInv, Typed, Normal, Status
<1>5. IInv'
  <2>1. taken' \in BOOLEAN /\ pc' \in Nat /\ bd' \in BOOLEAN /\ loaded' \in BOOLEAN
    BY <1>2 DEF IInv, Typed
  <2>2. taken' => index' >= Len(block)
    BY <1>1, <1>2, Called, Inside DEF IInv, Typed
  <2> QED BY <1>1, <1>2, <1>4, <2>1, <2>2, Called, CalledInv
<1>6. Mips!Proceed
  BY <1>1, <1>2, Called, Proceeds
<1>7. Mips!WriteEpc \/ Mips!WriteErrorEpc \/ Mips!WriteStatus
  BY <1>2, <1>3, <1>6 DEF Mips!WriteEpc, Mips!WriteErrorEpc, Mips!WriteStatus, Mips!At, Mips!Normal, Normal
<1> QED
  BY <1>5, <1>7 DEF Mips!Next

LEMMA SwitchStep == ASSUME IInv, SwitchInterrupts PROVE IInv' /\ Mips!Next
<1>1. Running({"ei", "di"}) /\ Call
  BY DEF SwitchInterrupts
<1>2. /\ status' = [status EXCEPT !.eie = block[index].kind = "ei"]
      /\ UNCHANGED <<ram, pc, taken, epc, error_epc, bd, loaded>>
  BY DEF SwitchInterrupts
<1>3. status' \in Status
  BY <1>2 DEF IInv, Typed, Status
<1>4. IInv'
  <2>1. /\ taken' \in BOOLEAN /\ pc' \in Nat /\ bd' \in BOOLEAN /\ loaded' \in BOOLEAN
        /\ epc' \in Nat /\ error_epc' \in Nat
    BY <1>2 DEF IInv, Typed
  <2>2. taken' => index' >= Len(block)
    BY <1>1, <1>2, Called, Inside DEF IInv, Typed
  <2> QED BY <1>1, <1>2, <1>3, <2>1, <2>2, Called, CalledInv
<1>5. Mips!Proceed
  BY <1>1, <1>2, Called, Proceeds
<1> QED
  BY <1>1, <1>2, <1>4, <1>5, SameInstr DEF Mips!Next, Mips!Switch

\* An instruction that raises an exception.
LEMMA TrapStep ==
  ASSUME IInv, NEW kinds, kinds \in SUBSET {"access", "syscall"}, Running(kinds), Call,
         NEW vector \in Int, vector >= -1, Except(Here, vector),
         UNCHANGED <<ram, taken, loaded>>
  PROVE  IInv' /\ Mips!Next
<1>1. Here \in Nat /\ (taken => index >= Len(block)) /\ index \in 1 .. Len(block) /\ Len(block) \in Nat
  BY Inside DEF Address, IInv, Typed
<1>2. /\ pc' \in Nat /\ epc' \in Nat /\ bd' \in BOOLEAN /\ error_epc' = error_epc
      /\ status' = [status EXCEPT !.exl = TRUE] /\ status' \in Status
  BY <1>1, ExceptType
<1>3. IInv'
  <2>1. taken' \in BOOLEAN /\ loaded' \in BOOLEAN
    BY DEF IInv, Typed
  <2>2. taken' => index' >= Len(block)
    BY <1>1, Called
  <2>3. error_epc' \in Nat
    BY <1>2 DEF IInv, Typed
  <2> QED BY <1>2, <2>1, <2>2, <2>3, Called, CalledInv
<1>4. at' \in Nat /\ after' \in Nat
  <2>1. at' = Here + 1 \/ at' = pc'
    BY <1>1, Called, Behind
  <2>2. after' = pc' \/ after' = at' + 1
    BY Called, Behind
  <2> QED BY <1>1, <1>2, <2>1, <2>2
<1>5. Mips!At({"access", "syscall"})
  BY SameInstr DEF Mips!At
<1> QED
  BY <1>2, <1>3, <1>4, <1>5 DEF Mips!Next, Mips!Trap

LEMMA SyscallStep == ASSUME IInv, Syscall PROVE IInv' /\ Mips!Next
<1> DEFINE vector == Common - Back(block[index])
<1>1. vector \in Int /\ vector >= -1
  BY VectorAssumption DEF Back, Address
<1> HIDE DEF vector
<1>2. Except(Here, vector)
  BY DEF Syscall, vector
<1> QED BY <1>1, <1>2, TrapStep DEF Syscall

LEMMA AddressErrorStep == ASSUME IInv, AddressError PROVE IInv' /\ Mips!Next
<1>1. Common \in Int /\ Common >= -1
  BY VectorAssumption DEF Address
<1> QED BY <1>1, TrapStep DEF AddressError

\* Loading the ELF file changes no instruction of a block.
LEMMA LoadKeepsBlocks ==
  ASSUME IInv, ~loaded, NEW elf \in Elves, ram' = Loaded(ram, elf),
         NEW a, NEW instrs, IsBlock(a, instrs)
  PROVE  IsBlock(a, instrs)'
<1>1. ASSUME NEW k \in 1 .. Len(instrs) PROVE ram'[a + k - 1] = ram[a + k - 1]
  <2>1. a + k - 1 \in Address /\ ram[a + k - 1].kind # "unknown"
    BY <1>1 DEF IsBlock
  <2>2. ram \in Images
    BY DEF IInv, SlotsStayPlain
  <2> QED BY <2>1, <2>2, ElfAssumption DEF Loaded
<1> QED BY <1>1 DEF IsBlock

LEMMA EretStep == ASSUME IInv, Eret PROVE IInv' /\ Mips!Next
<1>1. Running({"eret"}) /\ Call /\ taken' = TRUE /\ loaded' = TRUE /\ UNCHANGED <<epc, error_epc, bd>>
  BY DEF Eret
<1>2. status' = IF status.erl THEN [status EXCEPT !.erl = FALSE] ELSE [status EXCEPT !.exl = FALSE]
  BY DEF Eret
<1>3. status' \in Status
  BY <1>2 DEF IInv, Typed, Status
<1>4. index = Len(block) /\ Back(block[index]) = 1 /\ Len(block) \in Nat /\ Len(block) > 1
  BY <1>1, Inside DEF Back, IsDirect, IInv, Typed
<1>5. /\ UNCHANGED <<cycles, cache, start, block, raised, turn, halted>>
      /\ index' = index + 1 /\ instr_pc' \in Nat /\ turn = "block"
  BY <1>1, Called, Inside DEF code
<1>6. pc' \in Nat => /\ at' = pc' /\ after' = at' + 1
  <2>1. index + 1 # Len(block)
    BY <1>4
  <2> QED BY <1>1, <1>4, <1>5, <2>1, Behind
<1>7. CASE /\ pc' = Ahead(IF status.erl THEN error_epc ELSE epc) - Back(block[index])
           /\ UNCHANGED ram
  <2>1. pc' \in Nat /\ pc' = IF status.erl THEN error_epc ELSE epc
    BY <1>4, <1>7 DEF Ahead, IInv, Typed
  <2>2. IInv'
    BY <1>1, <1>3, <1>4, <1>5, <1>7, <2>1, CalledInv DEF code, IInv, Typed
  <2> QED
    BY <1>1, <1>2, <1>6, <1>7, <2>1, <2>2, SameInstr DEF Mips!Next, Mips!Return
<1>8. ASSUME ~loaded, NEW elf \in Elves, ram' = Loaded(ram, elf),
             pc' = Ahead(elf.entry) - Back(block[index])
      PROVE  IInv' /\ Mips!Next
  <2>1. elf.entry \in Nat /\ ram' \in [Address -> Instr] /\ DOMAIN ram = Address
    BY <1>8, LoadedType DEF IInv, Typed, Address
  <2>2. pc' = elf.entry
    BY <1>4, <1>8, <2>1 DEF Ahead
  <2>3. Typed'
    BY <1>1, <1>3, <1>4, <1>5, <2>1, <2>2 DEF IInv, Typed
  <2>4. BlocksFaithful'
    BY <1>5, <1>8, LoadKeepsBlocks DEF IInv, BlocksFaithful
  <2>5. SlotsStayPlain'
    <3>1. ram \in Images
      BY <1>8 DEF IInv, SlotsStayPlain
    <3> QED BY <1>1, <1>8, <3>1, ElfAssumption DEF SlotsStayPlain
  <2>6. TakenBehind'
    BY <1>4, <1>5 DEF TakenBehind
  <2>7. IInv'
    BY <2>3, <2>4, <2>5, <2>6 DEF IInv
  <2>8. Mips!Return
    BY <1>1, <1>2, <1>6, <1>8, <2>1, <2>2, SameInstr DEF Mips!Return, Loaded
  <2> QED BY <2>7, <2>8 DEF Mips!Next
<1> QED BY <1>7, <1>8 DEF Eret

\* What lies between two instructions does not show.
LEMMA Hidden ==
  ASSUME UNCHANGED <<ram, status, epc, error_epc, loaded>>, at' = at, after' = after
  PROVE  UNCHANGED Mips!vars
  BY DEF Mips!vars

LEMMA AtPc == turn # "block" => at = pc /\ after = pc + 1
  BY DEF at, after, InBlock

LEMMA EndBlockStep == ASSUME IInv, EndBlock PROVE IInv' /\ UNCHANGED Mips!vars
<1>1. /\ turn = "block" /\ index > Len(block) /\ start \in Nat /\ Len(block) \in Nat
      /\ pc' = IF taken THEN pc ELSE start + Len(block)
      /\ taken' = FALSE /\ cycles' = cycles - Len(block)
      /\ turn' \in {"dispatch", "check"}
      /\ start' = 0 /\ block' = <<>> /\ index' = 1
  BY DEF EndBlock, IInv, Typed
<1>2. UNCHANGED <<ram, instr_pc, cache, status, epc, error_epc, bd, raised, loaded, halted>>
  BY DEF EndBlock, cop0
<1>3. Typed'
  <2>1. pc' \in Nat /\ cycles' \in Int /\ start' \in Nat /\ block' \in Seq(Instr) /\ index' \in Nat \ {0}
    BY <1>1 DEF IInv, Typed
  <2> QED BY <1>1, <1>2, <2>1 DEF IInv, Typed
<1>4. BlocksFaithful' /\ SlotsStayPlain' /\ TakenBehind'
  BY <1>1, <1>2 DEF IInv, BlocksFaithful, IsBlock, SlotsStayPlain, PlainSlots, TakenBehind
<1>5. at' = pc' /\ after' = pc' + 1
  BY <1>1 DEF at, after, InBlock
<1>6. at = pc' /\ after = pc' + 1
  <2>1. ~InBlock
    <3>1. index \in Nat
      BY DEF IInv, Typed
    <3> QED BY <1>1, <3>1 DEF InBlock
  <2>2. after = at + 1
    BY <2>1 DEF after
  <2>3. at = IF ~taken THEN start + Len(block) ELSE pc
    BY <1>1, <2>1 DEF at
  <2> QED BY <1>1, <2>2, <2>3
<1> QED BY <1>2, <1>3, <1>4, <1>5, <1>6, Hidden DEF IInv

\* Between blocks, what leaves the blocks alone keeps the invariant.
LEMMA OutsideInv ==
  ASSUME IInv, turn # "block", turn' \in {"dispatch", "check"},
         pc' \in Nat, cycles' \in Int, status' \in Status, epc' \in Nat, error_epc' \in Nat,
         bd' \in BOOLEAN, raised' \in BOOLEAN, halted' \in BOOLEAN,
         UNCHANGED <<ram, instr_pc, taken, code, index, loaded>>
  PROVE  IInv'
<1>1. UNCHANGED <<cache, start, block>>
  BY DEF code
<1>2. Typed'
  BY <1>1 DEF IInv, Typed
<1>3. BlocksFaithful' /\ SlotsStayPlain' /\ TakenBehind'
  BY <1>1 DEF IInv, BlocksFaithful, IsBlock, SlotsStayPlain, PlainSlots, TakenBehind
<1> QED BY <1>2, <1>3 DEF IInv

LEMMA UndecodableStep == ASSUME IInv, Undecodable PROVE IInv' /\ UNCHANGED Mips!vars
<1>1. /\ turn = "dispatch" /\ halted' = TRUE
      /\ UNCHANGED <<ram, pc, instr_pc, taken, cycles, code, index, status, epc, error_epc, bd, raised, loaded, turn>>
  BY DEF Undecodable, cop0
<1>2. IInv'
  <2>1. pc' \in Nat /\ cycles' \in Int /\ status' \in Status /\ epc' \in Nat /\ error_epc' \in Nat
        /\ bd' \in BOOLEAN /\ raised' \in BOOLEAN
    BY <1>1 DEF IInv, Typed
  <2> QED BY <1>1, <2>1, OutsideInv
<1>3. at' = at /\ after' = after
  BY <1>1 DEF at, after, InBlock
<1> QED BY <1>1, <1>2, <1>3, Hidden

LEMMA DevicesStep == ASSUME IInv, Devices PROVE IInv' /\ UNCHANGED Mips!vars
<1>1. /\ turn = "check" /\ raised' = ~raised
      /\ UNCHANGED <<ram, pc, instr_pc, taken, cycles, code, index, status, epc, error_epc, bd, loaded, turn, halted>>
  BY DEF Devices, cop0
<1>2. IInv'
  <2>1. pc' \in Nat /\ cycles' \in Int /\ status' \in Status /\ epc' \in Nat /\ error_epc' \in Nat
        /\ bd' \in BOOLEAN /\ raised' \in BOOLEAN /\ halted' \in BOOLEAN
    BY <1>1 DEF IInv, Typed
  <2> QED BY <1>1, <2>1, OutsideInv
<1>3. at' = at /\ after' = after
  BY <1>1 DEF at, after, InBlock
<1> QED BY <1>1, <1>2, <1>3, Hidden

LEMMA NoInterruptStep == ASSUME IInv, NoInterrupt PROVE IInv' /\ UNCHANGED Mips!vars
<1>1. /\ turn = "check" /\ turn' = "dispatch" /\ cycles' = Slice
      /\ UNCHANGED <<ram, pc, instr_pc, taken, code, index, status, epc, error_epc, bd, raised, loaded, halted>>
  BY DEF NoInterrupt, NextTick, cop0
<1>2. IInv'
  <2>1. pc' \in Nat /\ cycles' \in Int /\ status' \in Status /\ epc' \in Nat /\ error_epc' \in Nat
        /\ bd' \in BOOLEAN /\ raised' \in BOOLEAN /\ halted' \in BOOLEAN
    BY <1>1, SliceAssumption DEF IInv, Typed
  <2> QED BY <1>1, <2>1, OutsideInv
<1>3. at' = at /\ after' = after
  BY <1>1 DEF at, after, InBlock
<1> QED BY <1>1, <1>2, <1>3, Hidden

LEMMA TakeInterruptStep == ASSUME IInv, TakeInterrupt PROVE IInv' /\ Mips!Next
<1>1. /\ turn = "check" /\ turn' = "dispatch" /\ cycles' = Slice /\ Enabled
      /\ Except(instr_pc, Interrupt)
      /\ UNCHANGED <<ram, instr_pc, taken, code, index, raised, loaded, halted>>
  BY DEF TakeInterrupt, NextTick
<1>2. Interrupt \in Int /\ Interrupt >= -1 /\ instr_pc \in Nat
  BY VectorAssumption DEF Address, IInv, Typed
<1>3. /\ pc' \in Nat /\ epc' \in Nat /\ bd' \in BOOLEAN /\ error_epc' = error_epc
      /\ status' = [status EXCEPT !.exl = TRUE] /\ status' \in Status
  BY <1>1, <1>2, ExceptType
<1>4. IInv'
  <2>1. cycles' \in Int /\ error_epc' \in Nat /\ raised' \in BOOLEAN /\ halted' \in BOOLEAN
    BY <1>1, <1>3, SliceAssumption DEF IInv, Typed
  <2> QED BY <1>1, <1>3, <2>1, OutsideInv
<1>5. at' \in Nat /\ after' \in Nat
  BY <1>1, <1>3 DEF at, after, InBlock
<1> QED
  BY <1>1, <1>3, <1>4, <1>5 DEF Mips!Next, Mips!Trap, Enabled

\* A block is entered at the instruction to execute next.
LEMMA EnterStep ==
  ASSUME IInv, turn = "dispatch", NEW instrs \in Seq(Instr), IsBlock(pc, instrs), Enter(instrs),
         cache' \in [Address -> Seq(Instr)],
         \A a \in Address : cache'[a] # cache[a] => a = pc /\ cache'[a] = instrs
  PROVE  IInv' /\ UNCHANGED Mips!vars
<1>1. /\ start' = pc /\ block' = instrs /\ index' = 1 /\ turn' = "block"
      /\ UNCHANGED <<ram, pc, instr_pc, taken, cycles, status, epc, error_epc, bd, raised, loaded, halted>>
  BY DEF Enter, cop0
<1>2. ~taken /\ pc \in Nat
  BY DEF IInv, Typed, TakenBehind
<1>3. Typed'
  <2>1. start' \in Nat /\ block' \in Seq(Instr) /\ index' \in Nat \ {0}
    BY <1>1, <1>2
  <2> QED BY <1>1, <2>1 DEF IInv, Typed
<1>4. BlocksFaithful'
  <2>1. \A a \in Address : cache'[a] # <<>> => IsBlock(a, cache'[a])
    BY DEF IInv, BlocksFaithful
  <2> QED BY <1>1, <2>1 DEF BlocksFaithful, IsBlock
<1>5. SlotsStayPlain' /\ TakenBehind'
  BY <1>1, <1>2 DEF IInv, SlotsStayPlain, PlainSlots, TakenBehind
<1>6. at = pc /\ after = pc + 1
  BY AtPc
<1>7. at' = pc /\ after' = pc + 1
  <2>1. Len(block') > 1 /\ Len(block') \in Nat
    BY <1>1 DEF IsBlock
  <2>2. InBlock' /\ Here' = pc
    BY <1>1, <1>2, <2>1 DEF InBlock, Here
  <2> QED BY <1>1, <1>2, <2>1, <2>2 DEF at, after
<1> QED BY <1>1, <1>3, <1>4, <1>5, <1>6, <1>7, Hidden DEF IInv

LEMMA LookupStep == ASSUME IInv, Lookup PROVE IInv' /\ UNCHANGED Mips!vars
<1>1. turn = "dispatch" /\ pc \in Address /\ cache[pc] # <<>> /\ Enter(cache[pc]) /\ cache' = cache
  BY DEF Lookup
<1>2. IsBlock(pc, cache[pc]) /\ cache[pc] \in Seq(Instr) /\ cache' \in [Address -> Seq(Instr)]
  BY <1>1 DEF IInv, BlocksFaithful, Typed
<1> QED BY <1>1, <1>2, EnterStep

\* The loop of generate stops behind the first branch's delay slot.
LEMMA GeneratesBlock ==
  ASSUME IInv, HeadsPlain, turn = "dispatch", pc \in Address,
         NEW n \in 1 .. Last + 1, Translatable(pc, n)
  PROVE  /\ [k \in 1 .. n |-> ram[pc + k - 1]] \in Seq(Instr)
         /\ IsBlock(pc, [k \in 1 .. n |-> ram[pc + k - 1]])
<1> DEFINE instrs == [k \in 1 .. n |-> ram[pc + k - 1]]
<1>1. n \in Nat /\ n > 1 /\ pc \in Nat /\ Last \in Nat
  BY MemoryAssumption DEF Translatable, Ends, Address
<1>2. ASSUME NEW k \in 1 .. n
      PROVE  /\ pc + k - 1 \in Address /\ Fetch(pc + k - 1) = ram[pc + k - 1]
             /\ ram[pc + k - 1] \in Instr /\ ram[pc + k - 1].kind # "unknown"
  <2>1. k - 1 \in 0 .. n - 1 /\ pc + (k - 1) = pc + k - 1
    BY <1>1
  <2>2. Fetch(pc + k - 1).kind # "unknown"
    BY <2>1 DEF Translatable
  <2> QED BY <2>2 DEF Fetch, IInv, Typed
<1>3. instrs \in Seq(Instr) /\ Len(instrs) = n
  BY <1>1, <1>2
<1>4. ASSUME NEW k \in 1 .. n, instrs[k].kind \in Delayed
      PROVE  k + 1 = n
  <2>1. k < n - 1 => FALSE
    <3> HAVE k < n - 1
    <3>1. k + 1 \in 1 .. n - 1 /\ k + 1 > 1 /\ pc + (k + 1) - 2 = pc + k - 1
      BY <1>1
    <3>2. ~Ends(pc, k + 1)
      BY <3>1 DEF Translatable
    <3>3. IsBranch(Fetch(pc + k - 1))
      BY <1>2, <1>4 DEF IsBranch
    <3> QED BY <3>1, <3>2, <3>3 DEF Ends
  <2>2. k = n => FALSE
    <3> HAVE k = n
    <3>1. ram[pc + n - 1].kind \in Delayed /\ pc + n - 1 \in Address /\ pc + n - 2 \in Address
      BY <1>1, <1>2, <1>4
    <3>2. IsBranch(ram[pc + n - 2])
      <4>1. Ends(pc, n) /\ ~IsDirect(ram[pc + n - 1])
        BY <3>1 DEF Translatable, IsDirect, Delayed
      <4> QED BY <1>1, <1>2, <3>1, <4>1 DEF Ends, Fetch
    <3>3. ram[pc + n - 2].kind \notin Delayed
      <4>1. pc + n - 2 < Last /\ (pc + n - 2) + 1 = pc + n - 1
        BY <1>1, <3>1 DEF Address
      <4> QED BY <3>1, <4>1 DEF IInv, SlotsStayPlain, PlainSlots
    <3>4. IsDirect(ram[pc + n - 2])
      BY <3>2, <3>3 DEF IsBranch
    <3>5. n = 2
      <4>1. n - 1 > 1 => Ends(pc, n - 1)
        BY <1>1, <3>1, <3>4 DEF Ends, Fetch
      <4> QED BY <1>1, <4>1 DEF Translatable
    <3>6. Fetch(pc) = ram[pc] /\ Fetch(pc + 1) = ram[pc + 1]
      BY <1>1, <3>1, <3>5 DEF Fetch
    <3>7. IsDirect(Fetch(pc)) /\ Fetch(pc + 1).kind \in Delayed
      BY <1>1, <3>1, <3>4, <3>5, <3>6
    <3> QED BY <3>7 DEF HeadsPlain, IsDirect, Delayed
  <2> QED BY <1>1, <2>1, <2>2
<1>5. ASSUME NEW k \in 1 .. n, instrs[k].kind = "eret"
      PROVE  k = n
  <2> SUFFICES ASSUME k < n PROVE FALSE
    BY <1>1
  <2>1. IsDirect(Fetch(pc + k - 1))
    BY <1>2, <1>5 DEF IsDirect
  <2>2. k = 1
    <3>1. k > 1 => Ends(pc, k)
      BY <2>1 DEF Ends
    <3> QED BY <1>1, <3>1 DEF Translatable
  <2>3. Fetch(pc).kind = "eret" /\ Fetch(pc + 1).kind # "unknown"
    <3>1. 2 \in 1 .. n /\ pc + 2 - 1 = pc + 1 /\ pc + 1 - 1 = pc
      BY <1>1
    <3> QED BY <1>2, <1>5, <2>2, <3>1
  <2> QED BY <2>3 DEF HeadsPlain
<1> HIDE DEF instrs
<1>6. \A k \in 1 .. n : instrs[k] = ram[pc + k - 1]
  BY DEF instrs
<1>7. IsBlock(pc, instrs)
  BY <1>1, <1>2, <1>3, <1>4, <1>5, <1>6 DEF IsBlock
<1> QED BY <1>3, <1>7 DEF instrs

LEMMA TranslateStep == ASSUME IInv, HeadsPlain, Translate PROVE IInv' /\ UNCHANGED Mips!vars
<1>1. turn = "dispatch" /\ pc \in Address
  BY DEF Translate
<1>2. PICK n \in 1 .. Last + 1 :
        /\ Translatable(pc, n)
        /\ Enter([k \in 1 .. n |-> ram[pc + k - 1]])
        /\ cache' = [cache EXCEPT ![pc] = block']
  BY DEF Translate
<1> DEFINE instrs == [k \in 1 .. n |-> ram[pc + k - 1]]
<1>3. instrs \in Seq(Instr) /\ IsBlock(pc, instrs)
  BY <1>1, <1>2, GeneratesBlock
<1>4. Enter(instrs)
  BY <1>2
<1> HIDE DEF instrs
<1>5. cache \in [Address -> Seq(Instr)] /\ cache' = [cache EXCEPT ![pc] = instrs]
  BY <1>2, <1>4 DEF Enter, IInv, Typed
<1>6. cache' \in [Address -> Seq(Instr)]
  BY <1>3, <1>5
<1>7. \A a \in Address : cache'[a] # cache[a] => a = pc /\ cache'[a] = instrs
  BY <1>5
<1> QED BY <1>1, <1>3, <1>4, <1>6, <1>7, EnterStep

LEMMA Stutter == ASSUME IInv, UNCHANGED vars PROVE IInv' /\ UNCHANGED Mips!vars
<1>1. UNCHANGED <<ram, pc, instr_pc, taken, cycles, cache, start, block, index, status, epc, error_epc,
                  bd, raised, loaded, turn, halted>>
  BY DEF vars, code, cop0
<1>2. IInv'
  BY <1>1 DEF IInv, Typed, BlocksFaithful, IsBlock, SlotsStayPlain, PlainSlots, TakenBehind
<1>3. at' = at /\ after' = after
  BY <1>1 DEF at, after, InBlock, Here
<1> QED BY <1>1, <1>2, <1>3, Hidden

\* Every step keeps the invariant and is an instruction, an exception or nothing.
LEMMA NextStep == ASSUME IInv, HeadsPlain, [Next]_vars PROVE IInv' /\ [Mips!Next]_(Mips!vars)
<1>1. CASE Lookup
  BY <1>1, LookupStep
<1>2. CASE Translate
  BY <1>2, TranslateStep
<1>3. CASE Undecodable
  BY <1>3, UndecodableStep
<1>4. CASE Skip
  BY <1>4, SkipStep
<1>5. CASE Ordinary
  BY <1>5, OrdinaryStep
<1>6. CASE Branch
  BY <1>6, BranchStep
<1>7. CASE LikelyNotTaken
  BY <1>7, LikelyNotTakenStep
<1>8. CASE Syscall
  BY <1>8, SyscallStep
<1>9. CASE AddressError
  BY <1>9, AddressErrorStep
<1>10. CASE MoveToCop0
  BY <1>10, MoveToCop0Step
<1>11. CASE SwitchInterrupts
  BY <1>11, SwitchStep
<1>12. CASE Eret
  BY <1>12, EretStep
<1>13. CASE EndBlock
  BY <1>13, EndBlockStep
<1>14. CASE TakeInterrupt
  BY <1>14, TakeInterruptStep
<1>15. CASE NoInterrupt
  BY <1>15, NoInterruptStep
<1>16. CASE Devices
  BY <1>16, DevicesStep
<1>17. CASE UNCHANGED vars
  BY <1>17, Stutter
<1> QED
  BY <1>1, <1>2, <1>3, <1>4, <1>5, <1>6, <1>7, <1>8, <1>9, <1>10, <1>11, <1>12, <1>13,
     <1>14, <1>15, <1>16, <1>17 DEF Next, Block

LEMMA InitRefines == Init => Mips!Init
<1> SUFFICES ASSUME Init PROVE Mips!Init
  OBVIOUS
<1>1. at = 0 /\ after = 1
  BY AtPc DEF Init
<1> QED BY <1>1 DEF Init, Mips!Init, Reset, Mips!Reset

\* The block cache, the translation and the dispatcher (jit.cc, ir.cc) together execute
\* one instruction after the other, with its delay slots, whatever memory holds and
\* wherever the vectors are, for programs that never arrive at the one head of a block the
\* translation cuts wrongly.
THEOREM BlocksImplementMips == Spec /\ []HeadsPlain => ImplementsMips
<1>1. IInv /\ HeadsPlain /\ [Next]_vars => IInv' /\ [Mips!Next]_(Mips!vars)
  BY NextStep
<1> QED
  BY <1>1, InitInv, InitRefines, PTL DEF Spec, ImplementsMips, Mips!Spec

\* EmotionEngine::exception leaves EPC alone while an exception is being handled, so that
\* only the handler itself moves the address the interrupted program is resumed at.
THEOREM ReturnAddressKept == Spec => EpcKept
<1>1. [Next]_vars => [status.exl /\ status'.exl /\ epc' # epc => Running({"mtc0_epc"})]_vars
  <2> SUFFICES ASSUME Next, status.exl, epc' # epc PROVE Running({"mtc0_epc"})
    BY DEF vars
  <2>1. CASE Lookup \/ Translate
    BY <2>1 DEF Lookup, Translate, Enter, cop0
  <2>2. CASE Undecodable \/ Skip \/ Ordinary \/ Branch \/ LikelyNotTaken \/ EndBlock \/ Devices \/ NoInterrupt
    BY <2>2 DEF Undecodable, Skip, Ordinary, Branch, LikelyNotTaken, EndBlock, Devices, NoInterrupt, cop0
  <2>3. CASE Syscall \/ AddressError \/ TakeInterrupt
    BY <2>3 DEF Syscall, AddressError, TakeInterrupt, Except
  <2>4. CASE MoveToCop0
    BY <2>4 DEF MoveToCop0, Running
  <2>5. CASE SwitchInterrupts \/ Eret
    BY <2>5 DEF SwitchInterrupts, Eret
  <2> QED BY <2>1, <2>2, <2>3, <2>4, <2>5 DEF Next, Block
<1> QED BY <1>1, PTL DEF Spec, EpcKept
=============================================================================
