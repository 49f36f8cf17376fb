------------------------------ MODULE IopCore ------------------------------
(***************************************************************************)
(* The IOP, an R3000A: src/cpu/iop/iop.cc with its interrupt controller    *)
(* (intr.cc) and its timers (timers.cc).  One action is one turn of tick's *)
(* loop: fetch, the instruction, handle_load_delay.                        *)
(*                                                                         *)
(* Halfwords, immediates and shift amounts are scaled with the word.  The  *)
(* fields of Status, Cause and T5_MODE are packed closer, so that they fit *)
(* into it.  An instruction is a record of its fields.                     *)
(***************************************************************************)
EXTENDS Words, Sequences, Bitwise

CONSTANTS
  Registers,      \* the registers programs use, 0 and 31 among them
  Programs,       \* what runs once the kernel has booted: [code, gpr, mem, at, mask]
  Slice,          \* instructions in one tick
  TimerLast,      \* the largest value of a timer's counter
  ExceptionAddr,  \* exception_addr: a function of BEV
  Lines,          \* interrupt lines of devices
  Triggers,       \* bound on how often they interrupt
  Handler,        \* where the code of the exception handler lies
  Hidden          \* the registers programs leave to it

VARIABLES
  program,        \* the one of Programs that runs
  core,           \* [pc, instr, next, cop0]: the pipeline and the registers of COP0
  gpr, hilo, memory_load,
  mem,            \* the words of data in RAM
  intr, timer,    \* INTRRegs, and timer 5
  cycle,          \* what is left of the slice
  triggers

iopVars == <<program, core, gpr, hilo, memory_load, mem, intr, timer, cycle, triggers>>

\* COP0's registers by their numbers, and the fields of two of them.
TAR == 6
BadA == 8
Status == 12
Cause == 13
EPC == 14
Im == 8
IsC == 9
BEV == 10
IP == 8
BT == 10
BD == 11
WithExcode(x, e) == x - 4 * ((x \div 4) % 16) + 4 * e
Excode(cause) ==
  CASE cause = "Interrupt"    -> 0
    [] cause = "ReadError"    -> 4
    [] cause = "WriteError"   -> 5
    [] cause = "Syscall"      -> 8
    [] cause = "Break"        -> 9
    [] cause = "IllegalInstr" -> 10

\* The fields of T5_MODE, and T5's line.
ResetOnIntr == 0
CompareIntr == 1
OverflowIntr == 2
Levl == 4
IntrEnabled == 5
CompareRaised == 6
OverflowRaised == 7
Timer5 == 1

\* Memory-mapped registers, in the last words of the address space.
IStat == W - 12
IMask == W - 8
ICtrl == W - 4
TCount == W - 32
TMode == W - 28
TTarget == W - 24

NoLoad  == [reg |-> 0, value |-> 0]
Illegal == [op |-> "ILLEGAL", rs |-> 0, rt |-> 0, rd |-> 0, imm |-> 0, sa |-> 0]
At(pc)  == IF pc \in DOMAIN program.code THEN program.code[pc] ELSE Illegal

\* Fills next_instr from pc.
DirectJump(c) ==
  [c EXCEPT !.next = [ins |-> At(c.pc), pc |-> c.pc, slot |-> FALSE, taken |-> FALSE],
            !.pc = (c.pc + 4) % W]

\* The counter runs from the start; until the program writes to the timer, nobody can
\* tell, and it is left at zero.
Untouched == [counter |-> 0, mode |-> 0, target |-> 0]

\* The kernel has booted: interrupts are on, and the program begins.
IopInit ==
  /\ program \in Programs
  /\ core = LET c == [pc |-> program.at, instr |-> 0, next |-> 0,
                      cop0 |-> [r \in {TAR, BadA, Status, Cause, EPC} |->
                                  IF r = Status THEN 1 + 2 ^ Im ELSE 0]]
            IN DirectJump([c EXCEPT !.instr = [ins |-> Illegal, pc |-> 0, slot |-> FALSE, taken |-> FALSE]])
  /\ gpr = program.gpr /\ hilo = [hi |-> 0, lo |-> 0] /\ memory_load = NoLoad
  /\ mem = program.mem
  /\ intr = [stat |-> 0, mask |-> program.mask, ctrl |-> 1]
  /\ timer = Untouched
  /\ cycle \in 1 .. Slice /\ triggers = 0

-----------------------------------------------------------------------------
(* The pipeline.                                                           *)

\* exception: BD and BT are set and never cleared, TAR gets the address behind the slot.
Raised(c, cause) ==
  LET s     == c.cop0[Status]
      of    == IF cause = "Interrupt" THEN c.next ELSE c.instr
      x     == WithExcode(c.cop0[Cause], Excode(cause))
      plain == [c.cop0 EXCEPT ![Status] = s - (s % 64) + (s % 16) * 4, ![Cause] = x, ![EPC] = of.pc]
      slot  == [plain EXCEPT ![EPC] = (of.pc - 4) % W, ![TAR] = c.next.pc,
                             ![Cause] = Put(IF of.taken THEN Put(x, BT, TRUE) ELSE x, BD, TRUE)]
  IN DirectJump([c EXCEPT !.cop0 = IF of.slot THEN slot ELSE plain,
                          !.pc = ExceptionAddr[Bit(s, BEV)]])

\* fetch.  On an address error the instruction is executed all the same.
Fetched ==
  LET c == [core EXCEPT !.instr = core.next]
  IN IF c.pc % 4 # 0 THEN Raised([c EXCEPT !.cop0[BadA] = c.pc], "ReadError") ELSE DirectJump(c)

InSlot(c) == [c EXCEPT !.next.slot = TRUE]
Jumped(c, to) == [c EXCEPT !.next.slot = TRUE, !.next.taken = TRUE, !.pc = to]

\* Mutant of HandleLoadDelay: a load is there at once for a second load of the register.
HandleLoadDelayBoth(regs, delayed, write_back) ==
  /\ gpr' = [r \in Registers |->
               IF r = 0 THEN 0
               ELSE IF r = memory_load.reg THEN memory_load.value
               ELSE IF r = write_back.reg THEN write_back.value
               ELSE regs[r]]
  /\ memory_load' = delayed

\* handle_load_delay: the load of the instruction before last arrives, unless the last
\* one loads the same register; what the last one computed comes after it.
HandleLoadDelay(regs, delayed, write_back) ==
  /\ gpr' = [r \in Registers |->
               IF r = 0 THEN 0
               ELSE IF r = write_back.reg THEN write_back.value
               ELSE IF r = memory_load.reg /\ r # delayed.reg THEN memory_load.value
               ELSE regs[r]]
  /\ memory_load' = delayed

cur == core.next.ins
RS == gpr[cur.rs]
RT == gpr[cur.rt]
Imm == SignExtend(cur.imm, H)

Executes(op) == cycle > 0 /\ cur.op = op /\ cycle' = cycle - 1 /\ UNCHANGED <<program, triggers>>
NoMemory == UNCHANGED <<mem, intr, timer>>

Pass(c) ==
  core' = c /\ HandleLoadDelay(gpr, NoLoad, NoLoad) /\ UNCHANGED hilo
SetReg(reg, value) ==
  /\ core' = Fetched
  /\ HandleLoadDelay(gpr, NoLoad, [reg |-> reg, value |-> value])
  /\ UNCHANGED hilo /\ NoMemory
SetHiLo(hi, lo) ==
  /\ core' = Fetched /\ HandleLoadDelay(gpr, NoLoad, NoLoad)
  /\ hilo' = [hi |-> hi, lo |-> lo] /\ NoMemory
Raises(cause) == Pass(Raised(Fetched, cause)) /\ NoMemory

-----------------------------------------------------------------------------
(* Arithmetic.  The additions that should trap do not.                     *)

op_add   == Executes("ADD")   /\ SetReg(cur.rd, (RS + RT) % W)
op_addu  == Executes("ADDU")  /\ SetReg(cur.rd, (RS + RT) % W)
op_addi  == Executes("ADDI")  /\ SetReg(cur.rt, (RS + Imm) % W)
op_addiu == Executes("ADDIU") /\ SetReg(cur.rt, (RS + Imm) % W)
op_sub   == Executes("SUB")   /\ SetReg(cur.rd, (RS - RT) % W)
op_subu  == Executes("SUBU")  /\ SetReg(cur.rd, (RS - RT) % W)
op_slt   == Executes("SLT")   /\ SetReg(cur.rd, Truth(Int32(RS) < Int32(RT)))
op_sltu  == Executes("SLTU")  /\ SetReg(cur.rd, Truth(RS < RT))
op_slti  == Executes("SLTI")  /\ SetReg(cur.rt, Truth(Int32(RS) < Signed(cur.imm, H)))
op_sltiu == Executes("SLTIU") /\ SetReg(cur.rt, Truth(RS < cur.imm))

op_and   == Executes("AND")   /\ SetReg(cur.rd, RS & RT)
op_andi  == Executes("ANDI")  /\ SetReg(cur.rt, RS & cur.imm)
op_or    == Executes("OR")    /\ SetReg(cur.rd, RS | RT)
op_ori   == Executes("ORI")   /\ SetReg(cur.rt, RS | cur.imm)
op_xor   == Executes("XOR")   /\ SetReg(cur.rd, RS ^^ RT)
op_xori  == Executes("XORI")  /\ SetReg(cur.rt, RS ^^ cur.imm)
op_nor   == Executes("NOR")   /\ SetReg(cur.rd, W - 1 - (RS | RT))
op_lui   == Executes("LUI")   /\ SetReg(cur.rt, cur.imm * H)

op_sll   == Executes("SLL")   /\ SetReg(cur.rd, (RT * 2 ^ cur.sa) % W)
op_srl   == Executes("SRL")   /\ SetReg(cur.rd, RT \div 2 ^ cur.sa)
op_sra   == Executes("SRA")   /\ SetReg(cur.rd, (Int32(RT) \div 2 ^ cur.sa) % W)
op_sllv  == Executes("SLLV")  /\ SetReg(cur.rd, (RT * 2 ^ (RS % WordBits)) % W)
op_srlv  == Executes("SRLV")  /\ SetReg(cur.rd, RT \div 2 ^ (RS % WordBits))
op_srav  == Executes("SRAV")  /\ SetReg(cur.rd, (Int32(RT) \div 2 ^ (RS % WordBits)) % W)

op_mult  == Executes("MULT")  /\ LET p == Int32(RS) * Int32(RT) IN SetHiLo((p \div W) % W, p % W)
op_multu == Executes("MULTU") /\ LET p == RS * RT IN SetHiLo(p \div W, p % W)

\* The division of C, which rounds towards zero.
op_div ==
  /\ Executes("DIV")
  /\ LET x == Int32(RS)
         y == Int32(RT)
     IN CASE y = 0 -> SetHiLo(RS, IF x >= 0 THEN W - 1 ELSE 1)
          [] RS = W \div 2 /\ y = -1 -> SetHiLo(0, W \div 2)
          [] OTHER -> SetHiLo((x - y * Quotient(x, y)) % W, Quotient(x, y) % W)
op_divu ==
  /\ Executes("DIVU")
  /\ IF RT = 0 THEN SetHiLo(RS, W - 1) ELSE SetHiLo(RS % RT, RS \div RT)

op_mfhi == Executes("MFHI") /\ SetReg(cur.rd, hilo.hi)
op_mflo == Executes("MFLO") /\ SetReg(cur.rd, hilo.lo)
op_mthi == Executes("MTHI") /\ SetHiLo(RS, hilo.lo)
op_mtlo == Executes("MTLO") /\ SetHiLo(hilo.hi, RS)

-----------------------------------------------------------------------------
(* Branches and jumps: what follows is a delay slot, taken or not.         *)

\* branch
Target == (Fetched.next.pc + 4 * Signed(cur.imm, H)) % W
Branches(condition) ==
  /\ Pass(IF condition THEN Jumped(Fetched, Target) ELSE InSlot(Fetched))
  /\ NoMemory

op_beq  == Executes("BEQ")  /\ Branches(RS = RT)
op_bne  == Executes("BNE")  /\ Branches(RS # RT)
op_blez == Executes("BLEZ") /\ Branches(Int32(RS) <= 0)
op_bgtz == Executes("BGTZ") /\ Branches(Int32(RS) > 0)

\* BLTZ, BGEZ, BLTZAL and BGEZAL, by rt.  The link does not go through write_back.
op_bcond ==
  /\ Executes("BCOND")
  /\ LET sign == IF cur.rt % 2 = 1 THEN Int32(RS) >= 0 ELSE Int32(RS) < 0
         regs == IF cur.rt \in {16, 17} THEN [gpr EXCEPT ![31] = (Fetched.instr.pc + 8) % W] ELSE gpr
     IN /\ core' = IF sign THEN Jumped(Fetched, Target) ELSE InSlot(Fetched)
        /\ HandleLoadDelay(regs, NoLoad, NoLoad)
  /\ UNCHANGED hilo /\ NoMemory

Links(to, reg, link) ==
  /\ core' = Jumped(Fetched, to)
  /\ HandleLoadDelay(gpr, NoLoad, [reg |-> reg, value |-> link])
  /\ UNCHANGED hilo /\ NoMemory
Region(pc) == pc - (pc % (W \div 16))

op_j    == Executes("J")    /\ Pass(Jumped(Fetched, Region(Fetched.pc) + 4 * cur.imm)) /\ NoMemory
op_jal  == Executes("JAL")  /\ Links(Region(Fetched.pc) + 4 * cur.imm, 31, Fetched.pc)
op_jr   == Executes("JR")   /\ Pass(Jumped(Fetched, RS)) /\ NoMemory
op_jalr == Executes("JALR") /\ Links(RS, cur.rd, (Fetched.instr.pc + 8) % W)

-----------------------------------------------------------------------------
(* COP0.                                                                   *)

op_syscall == Executes("SYSCALL") /\ Raises("Syscall")
op_break   == Executes("BREAK")   /\ Raises("Break")
op_illegal == Executes("ILLEGAL") /\ Raises("IllegalInstr")

op_mfc0 ==
  /\ Executes("MFC0")
  /\ core' = Fetched
  /\ HandleLoadDelay(gpr, [reg |-> cur.rt, value |-> core.cop0[cur.rd]], NoLoad)
  /\ UNCHANGED hilo /\ NoMemory
op_mtc0 == Executes("MTC0") /\ Pass([Fetched EXCEPT !.cop0[cur.rd] = RT]) /\ NoMemory

\* Mutant of op_rfe: the mode is left as it is.
RfeKeepsMode == Executes("RFE") /\ Pass(Fetched) /\ NoMemory

op_rfe ==
  /\ Executes("RFE")
  /\ Pass([Fetched EXCEPT !.cop0[Status] = @ - (@ % 16) + (@ % 64) \div 4])
  /\ NoMemory

-----------------------------------------------------------------------------
(* Loads and stores.                                                       *)

InRam(addr) == Aligned(addr) \in DOMAIN mem
Word(addr)  ==
  CASE InRam(addr) -> mem[Aligned(addr)]
    [] Aligned(addr) = IStat   -> intr.stat
    [] Aligned(addr) = IMask   -> intr.mask
    [] Aligned(addr) = ICtrl   -> intr.ctrl
    [] Aligned(addr) = TCount  -> timer.counter
    [] Aligned(addr) = TMode   -> timer.mode
    [] Aligned(addr) = TTarget -> timer.target
    [] OTHER -> 0

\* Reading I_CTRL clears it, and reading T5_MODE the flags that say what was raised.
ReadEffects(addr) ==
  /\ intr'  = IF Aligned(addr) = ICtrl THEN [intr EXCEPT !.ctrl = 0] ELSE intr
  /\ timer' = IF Aligned(addr) = TMode
              THEN [timer EXCEPT !.mode = Put(Put(@, CompareRaised, FALSE), OverflowRaised, FALSE)]
              ELSE timer
  /\ UNCHANGED mem

\* A load of n bytes, unless the cache is isolated or the address is wrong.
Isolated == Bit(core.cop0[Status], IsC) = 1
Address  == (RS + Imm) % W
Raw      == IF InRam(Address) THEN Word(Address) \div B ^ (Address % 4) ELSE Word(Address)

AddressError(n, cause) ==
  ~Isolated /\ Address % n # 0 /\ Pass(Raised([Fetched EXCEPT !.cop0[BadA] = Address], cause)) /\ NoMemory
IsolatedAccess == Isolated /\ Pass(Fetched) /\ NoMemory

Arrives(value) ==
  /\ core' = Fetched
  /\ HandleLoadDelay(gpr, [reg |-> cur.rt, value |-> value], NoLoad)
  /\ UNCHANGED hilo
Loads(n, value) ==
  \/ IsolatedAccess
  \/ AddressError(n, "ReadError")
  \/ ~Isolated /\ Address % n = 0 /\ Arrives(value) /\ ReadEffects(Address)

op_lb  == Executes("LB")  /\ Loads(1, SignExtend(Raw % B, B))
op_lbu == Executes("LBU") /\ Loads(1, Raw % B)
op_lh  == Executes("LH")  /\ Loads(2, SignExtend(Raw % H, H))
op_lhu == Executes("LHU") /\ Loads(2, Raw % H)
op_lw  == Executes("LW")  /\ Loads(4, Raw)

\* What lwl and lwr fill up: the register, or the load on its way to it.
Old == IF cur.rt = memory_load.reg THEN memory_load.value ELSE RT
Byte == Address % 4
Unaligned == Word(Aligned(Address))

op_lwl ==
  /\ Executes("LWL")
  /\ Arrives((Old % B ^ (3 - Byte)) + ((Unaligned * B ^ (3 - Byte)) % W))
  /\ ReadEffects(Aligned(Address))
op_lwr ==
  /\ Executes("LWR")
  /\ Arrives(Unaligned \div B ^ Byte + (Old \div B ^ (4 - Byte)) * B ^ (4 - Byte))
  /\ ReadEffects(Aligned(Address))

\* n bytes of value at addr.
Writes(addr, n, value) ==
  IF InRam(addr)
  THEN /\ mem' = [mem EXCEPT ![Aligned(addr)] =
                    LET low == B ^ (addr % 4)
                    IN (@ % low) + low * (value % B ^ n) + (@ \div (low * B ^ n)) * (low * B ^ n)]
       /\ UNCHANGED <<intr, timer>>
  ELSE LET data == value % B ^ n
           to   == Aligned(addr) IN
       /\ intr' = CASE to = IStat -> [intr EXCEPT !.stat = @ & data]
                    [] to = IMask -> [intr EXCEPT !.mask = data]
                    [] to = ICtrl -> [intr EXCEPT !.ctrl = data]
                    [] OTHER        -> intr
       /\ timer' = CASE to = TCount  -> [timer EXCEPT !.counter = data % (TimerLast + 1)]
                     [] to = TMode   -> [timer EXCEPT !.mode = Put(data, IntrEnabled, TRUE), !.counter = 0]
                     [] to = TTarget -> [timer EXCEPT !.target = data,
                                             !.mode = IF Bit(@, Levl) = 1 THEN @ ELSE Put(@, IntrEnabled, TRUE)]
                     [] OTHER          -> timer
       /\ UNCHANGED mem

Stores(n) ==
  \/ IsolatedAccess
  \/ AddressError(n, "WriteError")
  \/ ~Isolated /\ Address % n = 0 /\ Pass(Fetched) /\ Writes(Address, n, RT)

op_sb == Executes("SB") /\ Stores(1)
op_sh == Executes("SH") /\ Stores(2)
op_sw == Executes("SW") /\ Stores(4)

\* These do not look at IsC.
op_swl ==
  /\ Executes("SWL") /\ Pass(Fetched)
  /\ Writes(Aligned(Address), 4,
            (Unaligned \div B ^ (Byte + 1)) * B ^ (Byte + 1) + RT \div B ^ (3 - Byte))
op_swr ==
  /\ Executes("SWR") /\ Pass(Fetched)
  /\ Writes(Aligned(Address), 4, (Unaligned % B ^ Byte) + ((RT * B ^ Byte) % W))

-----------------------------------------------------------------------------
(* The end of a slice: timers.tick, and the interrupt that is pending.     *)

\* Mutant of Ticked: the flag is looked at, and not the edge.
TickedByFlag ==
  LET count == timer.counter + Slice
      hit   == count >= timer.target /\ Bit(timer.mode, CompareRaised) = 0
      mode  == IF hit THEN Put(timer.mode, CompareRaised, TRUE) ELSE timer.mode
  IN [timer |-> [timer EXCEPT !.counter = IF hit /\ Bit(mode, ResetOnIntr) = 1 THEN 0 ELSE count % TimerLast,
                              !.mode = mode],
      fires |-> hit /\ Bit(mode, CompareIntr) = 1 /\ Bit(mode, IntrEnabled) = 1]

\* The timer reaches its target, or the end of its range, and may interrupt at each.
Ticked ==
  LET count == timer.counter + Slice
      hit   == count >= timer.target /\ timer.counter < timer.target
      mode  == IF hit THEN Put(timer.mode, CompareRaised, TRUE) ELSE timer.mode
      left  == IF hit /\ Bit(mode, ResetOnIntr) = 1 THEN 0 ELSE count
      over  == left > TimerLast
      sends(enable) == Bit(mode, enable) = 1 /\ Bit(mode, IntrEnabled) = 1
  IN [timer |-> [timer EXCEPT !.counter = IF over THEN left - TimerLast ELSE left,
                              !.mode = IF over THEN Put(mode, OverflowRaised, TRUE) ELSE mode],
      fires |-> (hit /\ sends(CompareIntr)) \/ (over /\ sends(OverflowIntr))]

\* interrupt_pending: is asked once, when the slice is over.
EndSlice ==
  /\ cycle = 0
  /\ cycle' = Slice
  /\ LET stat    == IF Ticked.fires THEN Put(intr.stat, Timer5, TRUE) ELSE intr.stat
         pending == intr.ctrl # 0 /\ (stat & intr.mask) # 0
         c       == [core EXCEPT !.cop0[Cause] = Put(@, IP, pending)]
         enabled == Bit(c.cop0[Status], 0) = 1 /\ Bit(c.cop0[Status], Im) = 1
     IN /\ core' = IF pending /\ enabled THEN Raised(c, "Interrupt") ELSE c
        /\ intr' = [intr EXCEPT !.stat = stat]
  /\ timer' = IF timer = Untouched THEN timer ELSE Ticked.timer
  /\ UNCHANGED <<program, gpr, hilo, memory_load, mem, triggers>>

\* INTR::trigger, between two slices, by a device the program has turned on.
Trigger(line) ==
  /\ cycle = Slice /\ triggers < Triggers /\ program.mask # 0
  /\ intr' = [intr EXCEPT !.stat = Put(@, line, TRUE)]
  /\ triggers' = triggers + 1
  /\ UNCHANGED <<program, core, gpr, hilo, memory_load, mem, timer, cycle>>

Computes ==
  \/ op_add \/ op_addu \/ op_addi \/ op_addiu \/ op_sub \/ op_subu
  \/ op_slt \/ op_sltu \/ op_slti \/ op_sltiu
  \/ op_and \/ op_andi \/ op_or \/ op_ori \/ op_xor \/ op_xori \/ op_nor \/ op_lui
  \/ op_sll \/ op_srl \/ op_sra \/ op_sllv \/ op_srlv \/ op_srav
  \/ op_mult \/ op_multu \/ op_div \/ op_divu \/ op_mfhi \/ op_mflo \/ op_mthi \/ op_mtlo
Flows ==
  \/ op_beq \/ op_bne \/ op_blez \/ op_bgtz \/ op_bcond \/ op_j \/ op_jal \/ op_jr \/ op_jalr
  \/ op_syscall \/ op_break \/ op_illegal \/ op_mfc0 \/ op_mtc0 \/ op_rfe
Accesses ==
  \/ op_lb \/ op_lbu \/ op_lh \/ op_lhu \/ op_lw \/ op_lwl \/ op_lwr
  \/ op_sb \/ op_sh \/ op_sw \/ op_swl \/ op_swr

-----------------------------------------------------------------------------
IopTick == Computes \/ Flows \/ Accesses \/ EndSlice
IopNext == IopTick \/ \E line \in Lines : Trigger(line)
IopSpec == IopInit /\ [][IopNext]_iopVars /\ WF_iopVars(IopTick)

-----------------------------------------------------------------------------
(* What the IOP promises its programs.                                     *)

InHandler == core.next.pc \in Handler

\* While the handler runs, the program stands where it will be resumed; a load on its
\* way has arrived.
Machine == INSTANCE R3000 WITH
  code     <- program.code,
  at       <- IF InHandler THEN core.cop0[EPC] ELSE core.next.pc,
  after    <- IF InHandler THEN (core.cop0[EPC] + 4) % W ELSE core.pc,
  regs     <- [r \in Registers \ Hidden |->
                 IF r # 0 /\ r = memory_load.reg THEN memory_load.value ELSE gpr[r]],
  hi       <- hilo.hi,
  lo       <- hilo.lo,
  mode     <- (IF InHandler THEN core.cop0[Status] \div 4 ELSE core.cop0[Status]) % 16,
  isolated <- Isolated

\* To the program, the IOP is an R3000 without interrupts: whatever load, branch,
\* delay slot or exception an interrupt falls behind, it goes on with the registers, the
\* memory and the mode it had.
ImplementsR3000 == Machine!Spec

\* A line that is unmasked is answered: the interrupt is taken once the program lets it,
\* the handler acknowledges it, and returns to a program that can be interrupted again.
Waiting == (intr.stat & intr.mask) # 0
LinesAnswered == Waiting ~> ~Waiting

\* A timer that was told to interrupt at its target does so again and again.
TimerRuns == Bit(timer.mode, CompareIntr) = 1 /\ timer.target > Slice
TimerInterrupts == TimerRuns ~> Bit(intr.stat, Timer5) = 1
=============================================================================
