------------------------------- MODULE EeOps -------------------------------
(***************************************************************************)
(* What the EE's instructions compute: the functions of src/cpu/ee/        *)
(* opcode.cc, cop1.cc and, through VuMacro, vu.cc, on words scaled down to *)
(* four bytes of ByteBits bits.  Where the flow of control goes from there *)
(* is EeCore's: here, a program is a list of instructions executed in      *)
(* order, and flow is what the last branch asked for.                      *)
(*                                                                         *)
(* Immediates, shift amounts and vectors are scaled with the word; a       *)
(* register is its two dwords.                                             *)
(***************************************************************************)
EXTENDS VuMacro, Sequences, FiniteSetsExt, Bitwise, TLC

CONSTANTS
  EePrograms,      \* [code, gpr, vu]: instructions, and the registers they start from
  EeMemory,        \* the bytes of RAM
  InstrPc,         \* instr.pc, of every instruction
  OverflowCheck(_) \* overflow_check: a float's bits without the exponent of infinity

VARIABLES
  program, step,   \* the program that runs, and its instruction
  gpr, hilo, sa,
  cop,             \* registers of the coprocessors: COP0's, and COP1's fpr, acc and fcr0, fcr31
  vu,
  mem,
  flow,            \* pc, branch_taken and skip_branch_delay, as the last branch set them
  stop             \* the exception raised, or that the emulator terminated

opsVars == <<program, step, gpr, hilo, sa, cop, vu, mem, flow, stop>>

D == W * W
Words2 == 2 * WordBits

\* A word as an int32_t, converted to 64 bits.
Extend(w) == Signed(w % W, W) % D
Int64(d)  == Signed(d, D)

ins == program.code[step]
Rs == gpr[ins.rs][1]
Rt == gpr[ins.rt][1]
RsW == Rs % W
RtW == Rt % W
Imm == Signed(ins.imm, H)

OpsInit ==
  /\ program \in EePrograms /\ step = 1
  /\ gpr = program.gpr /\ vu = program.vu
  /\ hilo = [hi0 |-> 0, lo0 |-> 0, hi1 |-> 0, lo1 |-> 0] /\ sa = 0
  /\ cop = [c0 |-> [r \in DOMAIN gpr |-> r], fpr |-> [r \in DOMAIN gpr |-> r], acc |-> 1,
            fcr |-> [r \in {0, 31} |-> 0]]
  /\ mem = EeMemory
  /\ flow = [pc |-> InstrPc, taken |-> FALSE, skip |-> FALSE]
  /\ stop = "no"

Executes(op) ==
  /\ stop = "no" /\ step <= Len(program.code) /\ ins.op = op
  /\ step' = step + 1 /\ UNCHANGED program

\* What an instruction leaves alone.
Gpr(g)  == gpr' = g /\ UNCHANGED <<hilo, sa, cop, vu, mem, flow, stop>>
Hilo(h) == hilo' = h /\ UNCHANGED <<gpr, sa, cop, vu, mem, flow, stop>>
Cop(c)  == cop' = c /\ UNCHANGED <<gpr, hilo, sa, vu, mem, flow, stop>>
Unit(v) == vu' = v /\ UNCHANGED <<gpr, hilo, sa, cop, mem, flow, stop>>
Ram(m)  == mem' = m /\ UNCHANGED <<gpr, hilo, sa, cop, vu, flow, stop>>
Stops(why) == stop' = why /\ UNCHANGED <<gpr, hilo, sa, cop, vu, mem, flow>>

\* dword[0] of a register.
With(r, d) == [gpr EXCEPT ![r][1] = d % D]
Sets(r, d) == Gpr(With(r, d))

-----------------------------------------------------------------------------
(* Arithmetic and logic.  None of the additions traps.                     *)

op_add    == Executes("ADD")    /\ Sets(ins.rd, Extend(Rs + Rt))
op_addu   == Executes("ADDU")   /\ Sets(ins.rd, Extend(Rs + Rt))
op_sub    == Executes("SUB")    /\ Sets(ins.rd, Extend(Rs - Rt))
op_subu   == Executes("SUBU")   /\ Sets(ins.rd, Extend(Rs - Rt))
op_addi   == Executes("ADDI")   /\ Sets(ins.rt, Rs + Imm)
op_addiu  == Executes("ADDIU")  /\ Sets(ins.rt, Extend(Rs + Imm))
op_daddu  == Executes("DADDU")  /\ Sets(ins.rd, Rs + Rt)
op_daddiu == Executes("DADDIU") /\ Sets(ins.rt, Rs + Imm)
op_dsubu  == Executes("DSUBU")  /\ Sets(ins.rd, Rs - Rt)
op_lui    == Executes("LUI")    /\ Sets(ins.rt, Extend(ins.imm * H))

op_slt    == Executes("SLT")    /\ Sets(ins.rd, Truth(Int64(Rs) < Int64(Rt)))
op_sltu   == Executes("SLTU")   /\ Sets(ins.rd, Truth(Rs < Rt))
op_slti   == Executes("SLTI")   /\ Sets(ins.rt, Truth(Int64(Rs) < Imm))
op_sltiu  == Executes("SLTIU")  /\ Sets(ins.rt, Truth(Rs < Imm % D))

op_and    == Executes("AND")    /\ Sets(ins.rd, Rs & Rt)
op_or     == Executes("OR")     /\ Sets(ins.rd, Rs | Rt)
op_xor    == Executes("XOR")    /\ Sets(ins.rd, Rs ^^ Rt)
op_nor    == Executes("NOR")    /\ Sets(ins.rd, D - 1 - (Rs | Rt))
op_andi   == Executes("ANDI")   /\ Sets(ins.rt, Rs & ins.imm)
op_ori    == Executes("ORI")    /\ Sets(ins.rt, Rs | ins.imm)
op_xori   == Executes("XORI")   /\ Sets(ins.rt, Rs ^^ ins.imm)
op_movz   == Executes("MOVZ")   /\ Gpr(IF Rt = 0 THEN With(ins.rd, Rs) ELSE gpr)
op_movn   == Executes("MOVN")   /\ Gpr(IF Rt # 0 THEN With(ins.rd, Rs) ELSE gpr)

\* Shifts.  The amounts in registers are masked for 64 bits, whatever is shifted.
Amount == RsW % Words2
op_sll    == Executes("SLL")    /\ Sets(ins.rd, Extend(RtW * 2 ^ ins.sa))
op_srl    == Executes("SRL")    /\ Sets(ins.rd, Extend(RtW \div 2 ^ ins.sa))
op_sra    == Executes("SRA")    /\ Sets(ins.rd, Signed(RtW, W) \div 2 ^ ins.sa)
op_sllv   == Executes("SLLV")   /\ Sets(ins.rd, Extend(RtW * 2 ^ Amount))
op_srlv   == Executes("SRLV")   /\ Sets(ins.rd, Extend(RtW \div 2 ^ Amount))
op_srav   == Executes("SRAV")   /\ Sets(ins.rd, Signed(RtW, W) \div 2 ^ Amount)
op_dsll   == Executes("DSLL")   /\ Sets(ins.rd, (Rt % 2 ^ (Words2 - ins.sa)) * 2 ^ ins.sa)
op_dsrl   == Executes("DSRL")   /\ Sets(ins.rd, Rt \div 2 ^ ins.sa)
op_dsra   == Executes("DSRA")   /\ Sets(ins.rd, Int64(Rt) \div 2 ^ ins.sa)
op_dsll32 == Executes("DSLL32") /\ Sets(ins.rd, (Rt % 2 ^ (WordBits - ins.sa)) * 2 ^ (ins.sa + WordBits))
op_dsrl32 == Executes("DSRL32") /\ Sets(ins.rd, Rt \div 2 ^ (ins.sa + WordBits))
op_dsra32 == Executes("DSRA32") /\ Sets(ins.rd, Int64(Rt) \div 2 ^ (ins.sa + WordBits))
op_dsllv  == Executes("DSLLV")  /\ Sets(ins.rd, (Rt % 2 ^ (Words2 - Amount)) * 2 ^ Amount)
op_dsrav  == Executes("DSRAV")  /\ Sets(ins.rd, Int64(Rt) \div 2 ^ Amount)

\* Products, in one of the two pairs of registers, and in rd.  MULTU does not extend
\* the sign of its words.
Product0(hi, lo) ==
  /\ hilo' = [hilo EXCEPT !.hi0 = hi, !.lo0 = lo] /\ gpr' = With(ins.rd, lo)
  /\ UNCHANGED <<sa, cop, vu, mem, flow, stop>>
Product1(hi, lo) ==
  /\ hilo' = [hilo EXCEPT !.hi1 = hi, !.lo1 = lo] /\ gpr' = With(ins.rd, lo)
  /\ UNCHANGED <<sa, cop, vu, mem, flow, stop>>
Whole == (Int64(Rs) * Int64(Rt)) % D
Added(hi, lo) == ((hi % W) * W + (lo % W) + RsW * RtW) % D

op_mult  == Executes("MULT")  /\ Product0(Extend(Whole \div W), Extend(Whole))
op_mult1 == Executes("MULT1") /\ Product1(Extend(Whole \div W), Extend(Whole))
op_multu == Executes("MULTU") /\ Product0((RsW * RtW) \div W, (RsW * RtW) % W)

op_madd ==
  Executes("MADD") /\ LET r == Added(hilo.hi0, hilo.lo0) IN Product0(Extend(r \div W), Extend(r))
op_madd1 ==
  Executes("MADD1") /\ LET r == Added(hilo.hi1, hilo.lo1) IN Product1(Extend(r \div W), Extend(r))

op_div ==
  /\ Executes("DIV")
  /\ LET x == Signed(RsW, W)
         y == Signed(RtW, W)
     IN Hilo(CASE y = 0 -> [hilo EXCEPT !.hi0 = Extend(x), !.lo0 = Extend(IF x >= 0 THEN -1 ELSE 1)]
               [] x = -(W \div 2) /\ y = -1 -> [hilo EXCEPT !.hi0 = 0, !.lo0 = Extend(x)]
               [] OTHER -> [hilo EXCEPT !.hi0 = Extend(x - y * Quotient(x, y)), !.lo0 = Extend(Quotient(x, y))])
op_divu ==
  /\ Executes("DIVU")
  /\ Hilo(IF RtW = 0 THEN [hilo EXCEPT !.hi0 = Extend(RsW), !.lo0 = Extend(W - 1)]
          ELSE [hilo EXCEPT !.hi0 = Extend(RsW % RtW), !.lo0 = Extend(RsW \div RtW)])
op_divu1 ==
  /\ Executes("DIVU1")
  /\ Hilo(IF RtW = 0 THEN hilo ELSE [hilo EXCEPT !.hi1 = Extend(RsW % RtW), !.lo1 = Extend(RsW \div RtW)])

op_mfhi  == Executes("MFHI")  /\ Sets(ins.rd, hilo.hi0)
op_mflo  == Executes("MFLO")  /\ Sets(ins.rd, hilo.lo0)
op_mfhi1 == Executes("MFHI1") /\ Sets(ins.rd, hilo.hi1)
op_mflo1 == Executes("MFLO1") /\ Sets(ins.rd, hilo.lo1)
op_mthi  == Executes("MTHI")  /\ Hilo([hilo EXCEPT !.hi0 = Rs])
op_mtlo  == Executes("MTLO")  /\ Hilo([hilo EXCEPT !.lo0 = Rs])
op_mthi1 == Executes("MTHI1") /\ Hilo([hilo EXCEPT !.hi1 = Rs])
op_mtlo1 == Executes("MTLO1") /\ Hilo([hilo EXCEPT !.lo1 = Rs])
op_mfsa  == Executes("MFSA")  /\ Sets(ins.rd, sa)
op_mtsa  == Executes("MTSA")  /\ sa' = RsW /\ UNCHANGED <<gpr, hilo, cop, vu, mem, flow, stop>>

-----------------------------------------------------------------------------
(* Multimedia instructions: a register as lanes of n values.               *)

PerDword(n) == CASE n = B -> 8 [] n = H -> 4 [] n = W -> 2
Lane(r, n, i) == (gpr[r][1 + i \div PerDword(n)] \div n ^ (i % PerDword(n))) % n
\* The register whose lanes are v's.
Packed(n, v) ==
  LET p == PerDword(n)
  IN [d \in 1 .. 2 |-> MapThenSumSet(LAMBDA k : v[p * (d - 1) + k] * n ^ k, 0 .. p - 1)]
Lanes(n) == 0 .. 2 * PerDword(n) - 1
SetDwords(v) == Gpr([gpr EXCEPT ![ins.rd] = v])
SetLanes(n, v) == SetDwords(Packed(n, v))

op_por  == Executes("POR")  /\ SetDwords([d \in 1 .. 2 |-> gpr[ins.rs][d] | gpr[ins.rt][d]])
op_pand == Executes("PAND") /\ SetDwords([d \in 1 .. 2 |-> gpr[ins.rs][d] & gpr[ins.rt][d]])
op_pxor == Executes("PXOR") /\ SetDwords([d \in 1 .. 2 |-> gpr[ins.rs][d] ^^ gpr[ins.rt][d]])
op_pnor == Executes("PNOR") /\ SetDwords([d \in 1 .. 2 |-> D - 1 - (gpr[ins.rs][d] | gpr[ins.rt][d])])
op_psubb ==
  Executes("PSUBB") /\ SetLanes(B, [i \in Lanes(B) |-> (Lane(ins.rs, B, i) - Lane(ins.rt, B, i)) % B])
op_psubw ==
  Executes("PSUBW") /\ SetLanes(W, [i \in Lanes(W) |-> (Lane(ins.rs, W, i) - Lane(ins.rt, W, i)) % W])
op_padduw ==
  LET sum(i) == Lane(ins.rt, W, i) + Lane(ins.rs, W, i)
  IN Executes("PADDUW") /\ SetLanes(W, [i \in Lanes(W) |-> IF sum(i) > W - 1 THEN W - 1 ELSE sum(i)])
op_pcpyh == Executes("PCPYH") /\ SetLanes(H, [i \in Lanes(H) |-> Lane(ins.rt, H, 4 * (i \div 4))])
op_pcpyud ==
  /\ Executes("PCPYUD")
  /\ LET g == With(ins.rd, gpr[ins.rs][2]) IN Gpr([g EXCEPT ![ins.rd][2] = g[ins.rt][2]])
\* rs is read when rd is half written.
op_pcpyld ==
  /\ Executes("PCPYLD")
  /\ LET g == With(ins.rd, Rt) IN Gpr([g EXCEPT ![ins.rd][2] = g[ins.rs][1]])

\* The leading bits equal to the sign, less one, of two words.
op_plzcw ==
  LET signless(w) == IF w >= W \div 2 THEN W - 1 - w ELSE w
      clz(w) == CHOOSE n \in 0 .. WordBits : w < 2 ^ (WordBits - n) /\ w * 2 >= 2 ^ (WordBits - n)
      count(w) == IF signless(w) = 0 THEN WordBits - 1 ELSE clz(signless(w)) - 1
  IN Executes("PLZCW") /\ Sets(ins.rd, count(Lane(ins.rs, W, 0)) + W * count(Lane(ins.rs, W, 1)))

-----------------------------------------------------------------------------
(* Branches.                                                               *)

Jumps(to) == flow' = [flow EXCEPT !.pc = to, !.taken = TRUE] /\ UNCHANGED <<hilo, sa, cop, vu, mem, stop>>
BranchTarget == (InstrPc + 4 + 4 * Imm) % W
Region == (InstrPc + 4) - ((InstrPc + 4) % (W \div 16))
Link(r) == gpr' = With(r, InstrPc + 8)
BranchIf(condition) ==
  /\ flow' = IF condition THEN [flow EXCEPT !.pc = BranchTarget, !.taken = TRUE] ELSE flow
  /\ UNCHANGED <<gpr, hilo, sa, cop, vu, mem, stop>>
\* What fetch_next adds to the pc, the translated block takes off again.
BranchLikelyIf(condition) ==
  /\ flow' = IF condition THEN [flow EXCEPT !.pc = BranchTarget, !.taken = TRUE] ELSE [flow EXCEPT !.skip = TRUE]
  /\ UNCHANGED <<gpr, hilo, sa, cop, vu, mem, stop>>

op_beq   == Executes("BEQ")   /\ BranchIf(Rs = Rt)
op_bne   == Executes("BNE")   /\ BranchIf(Rs # Rt)
op_blez  == Executes("BLEZ")  /\ BranchIf(Int64(Rs) <= 0)
op_bgtz  == Executes("BGTZ")  /\ BranchIf(Int64(Rs) > 0)
op_bltz  == Executes("BLTZ")  /\ BranchIf(Int64(Rs) < 0)
op_bgez  == Executes("BGEZ")  /\ BranchIf(Int64(Rs) >= 0)
op_beql  == Executes("BEQL")  /\ BranchLikelyIf(Rs = Rt)
op_bnel  == Executes("BNEL")  /\ BranchLikelyIf(Rs # Rt)
op_blezl == Executes("BLEZL") /\ BranchLikelyIf(Int64(Rs) <= 0)
op_bltzl == Executes("BLTZL") /\ BranchLikelyIf(Int64(Rs) < 0)
op_bgezl == Executes("BGEZL") /\ BranchLikelyIf(Int64(Rs) >= 0)
op_j     == Executes("J")     /\ Jumps(Region + 4 * ins.imm) /\ UNCHANGED gpr
op_jal   == Executes("JAL")   /\ Jumps(Region + 4 * ins.imm) /\ Link(31)
op_jr    == Executes("JR")    /\ Jumps(RsW) /\ UNCHANGED gpr
op_jalr  == Executes("JALR")  /\ Jumps(RsW) /\ Link(ins.rd)

-----------------------------------------------------------------------------
(* Loads and stores, in RAM.                                               *)

Vaddr == (RsW + Imm) % W
Read(a, n) == MapThenSumSet(LAMBDA k : mem[a + k] * B ^ k, 0 .. n - 1)
Split(a, n, value) == [x \in a .. a + n - 1 |-> (value \div B ^ (x - a)) % B]
Written(a, n, value) == Split(a, n, value) @@ mem

\* n bytes, at a multiple of n.
Loads(n, d) == IF Vaddr % n # 0 THEN Stops("AddrErrorLoad") ELSE Sets(ins.rt, d)
Stores(n) == IF Vaddr % n # 0 THEN Stops("AddrErrorStore") ELSE Ram(Written(Vaddr, n, Rt))

op_lb  == Executes("LB")  /\ Loads(1, Signed(Read(Vaddr, 1), B))
op_lbu == Executes("LBU") /\ Loads(1, Read(Vaddr, 1))
op_lh  == Executes("LH")  /\ Loads(2, Signed(Read(Vaddr, 2), H))
op_lhu == Executes("LHU") /\ Loads(2, Read(Vaddr, 2))
op_lw  == Executes("LW")  /\ Loads(4, Extend(Read(Vaddr, 4)))
op_lwu == Executes("LWU") /\ Loads(4, Read(Vaddr, 4))
op_ld  == Executes("LD")  /\ Loads(8, Read(Vaddr, 8))
op_sb  == Executes("SB")  /\ Stores(1)
op_sh  == Executes("SH")  /\ Stores(2)
op_sw  == Executes("SW")  /\ Stores(4)
op_sd  == Executes("SD")  /\ Stores(8)

\* Quadwords.  Loads do not look at the alignment.
StoresQuadword(q) == Ram(Split(Vaddr, 8, q[1]) @@ Written(Vaddr + 8, 8, q[2]))
op_lq ==
  Executes("LQ") /\ Gpr([gpr EXCEPT ![ins.rt] = <<Read(Vaddr, 8), Read(Vaddr + 8, 8)>>])
op_sq ==
  Executes("SQ") /\ IF Vaddr % 16 # 0 THEN Stops("terminated") ELSE StoresQuadword(gpr[ins.rt])

\* The parts of words and dwords around an unaligned address: the masks and shifts of
\* the tables in the code.
Base(n) == Vaddr - (Vaddr % n)
Shift(n) == Vaddr % n
Old(n) == Rt % B ^ n
Left(n) ==
  LET keep == n - 1 - Shift(n)
  IN (Old(n) % B ^ keep) + ((Read(Base(n), n) * B ^ keep) % B ^ n)
Right(n) ==
  LET keep == n - Shift(n)
  IN (Old(n) \div B ^ keep) * B ^ keep + Read(Base(n), n) \div B ^ Shift(n)
op_ldl == Executes("LDL") /\ Sets(ins.rt, Left(8))
op_ldr == Executes("LDR") /\ Sets(ins.rt, Right(8))
op_lwl == Executes("LWL") /\ Sets(ins.rt, Extend(Left(4)))

\* Mutant of op_lwr: the register's upper word is always written.
LwrExtends == Executes("LWR") /\ Sets(ins.rt, Extend(Right(4)))

op_lwr ==
  /\ Executes("LWR")
  /\ Sets(ins.rt, IF Shift(4) = 0 THEN Extend(Right(4)) ELSE (Rt \div W) * W + Right(4))

StoresLeft(n) ==
  LET new == Shift(n) + 1
      m   == Read(Base(n), n)
  IN Ram(Written(Base(n), n, Old(n) \div B ^ (n - new) + (m - (m % B ^ new))))
StoresRight(n) ==
  LET new == n - Shift(n)
      m   == Read(Base(n), n)
  IN Ram(Written(Base(n), n, (Old(n) % B ^ new) * B ^ Shift(n) + (m % B ^ Shift(n))))
op_sdl == Executes("SDL") /\ StoresLeft(8)
op_sdr == Executes("SDR") /\ StoresRight(8)
op_swl == Executes("SWL") /\ StoresLeft(4)
op_swr == Executes("SWR") /\ StoresRight(4)

-----------------------------------------------------------------------------
(* Coprocessors.  Instruction fields: fs is rd, ft is rt, fd is sa.        *)

op_mfc0 == Executes("MFC0") /\ Sets(ins.rt, cop.c0[ins.rd])
op_mtc0 == Executes("MTC0") /\ Cop([cop EXCEPT !.c0[ins.rd] = RtW])

\* COP1 has two control registers, and ignores the numbers of others.
op_mtc1 == Executes("MTC1") /\ Cop([cop EXCEPT !.fpr[ins.rd] = RtW])
op_ctc1 == Executes("CTC1") /\ Cop(IF ins.rd \in {0, 31} THEN [cop EXCEPT !.fcr[ins.rd] = RtW] ELSE cop)
op_cfc1 == Executes("CFC1") /\ Gpr(IF ins.rd \in {0, 31} THEN With(ins.rt, Extend(cop.fcr[ins.rd])) ELSE gpr)
op_lwc1 ==
  /\ Executes("LWC1")
  /\ IF Vaddr % 4 # 0 THEN Stops("AddrErrorLoad") ELSE Cop([cop EXCEPT !.fpr[ins.rt] = Read(Vaddr, 4)])
op_swc1 ==
  /\ Executes("SWC1")
  /\ IF Vaddr % 4 # 0 THEN Stops("terminated") ELSE Ram(Written(Vaddr, 4, cop.fpr[ins.rt]))
op_adda_s == Executes("ADDA.S") /\ Cop([cop EXCEPT !.acc = FAdd(cop.fpr[ins.rd], cop.fpr[ins.rt])])
\* The sum goes to fs.
op_madd_s ==
  /\ Executes("MADD.S")
  /\ Cop([cop EXCEPT !.fpr[ins.rd] =
            FAdd(OverflowCheck(cop.acc), FMul(OverflowCheck(@), OverflowCheck(cop.fpr[ins.rt])))])

\* VU0.  A number below 16 is one of vi.
op_cfc2  == Executes("CFC2")  /\ Sets(ins.rt, Extend(vu.vi[ins.rd]))
op_ctc2  == Executes("CTC2")  /\ Unit([vu EXCEPT !.vi[ins.rd] = RtW])
Dwords(v) == <<v[0] + W * v[1], v[2] + W * v[3]>>
op_qmfc2 == Executes("QMFC2") /\ Gpr([gpr EXCEPT ![ins.rt] = Dwords(vu.vf[ins.rd])])
op_qmtc2 == Executes("QMTC2") /\ Unit([vu EXCEPT !.vf[ins.rd] = [i \in 0 .. 3 |-> Lane(ins.rt, W, i)]])
op_sqc2  == Executes("SQC2")  /\ StoresQuadword(Dwords(vu.vf[ins.rt]))

Special1And2 ==
  \/ Executes("VADD")   /\ Unit(op_vadd(vu, ins))
  \/ Executes("VSUB")   /\ Unit(op_vsub(vu, ins))
  \/ Executes("VSUBA")  /\ Unit(op_vsuba(vu, ins))
  \/ Executes("VMADDA") /\ Unit(op_vmadda(vu, ins))
  \/ Executes("VMSUBA") /\ Unit(op_vmsuba(vu, ins))
  \/ Executes("VMR32")  /\ Unit(op_vmr32(vu, ins))
  \/ Executes("VIADD")  /\ Unit(op_viadd(vu, ins))
  \/ Executes("VISWR")  /\ Unit(op_viswr(vu, ins))
  \/ Executes("VSQI")   /\ Unit(op_vsqi(vu, ins))

-----------------------------------------------------------------------------

\* SYNC, CACHE and TLBWI.
op_nothing == \E op \in {"SYNC", "CACHE", "TLBWI"} : Executes(op) /\ Gpr(gpr)

Computes ==
  \/ op_add \/ op_addu \/ op_sub \/ op_subu \/ op_addi \/ op_addiu \/ op_daddu \/ op_daddiu \/ op_dsubu \/ op_lui
  \/ op_slt \/ op_sltu \/ op_slti \/ op_sltiu \/ op_and \/ op_or \/ op_xor \/ op_nor \/ op_andi \/ op_ori \/ op_xori
  \/ op_movz \/ op_movn \/ op_sll \/ op_srl \/ op_sra \/ op_sllv \/ op_srlv \/ op_srav \/ op_dsll \/ op_dsrl
  \/ op_dsra \/ op_dsll32 \/ op_dsrl32 \/ op_dsra32 \/ op_dsllv \/ op_dsrav
Multiplies ==
  \/ op_mult \/ op_mult1 \/ op_multu \/ op_madd \/ op_madd1 \/ op_div \/ op_divu \/ op_divu1
  \/ op_mfhi \/ op_mflo \/ op_mfhi1 \/ op_mflo1 \/ op_mthi \/ op_mtlo \/ op_mthi1 \/ op_mtlo1 \/ op_mfsa \/ op_mtsa
Multimedia ==
  \/ op_por \/ op_pand \/ op_pxor \/ op_pnor \/ op_psubb \/ op_psubw \/ op_padduw \/ op_pcpyh \/ op_pcpyud
  \/ op_pcpyld \/ op_plzcw
Jumping ==
  \/ op_beq \/ op_bne \/ op_blez \/ op_bgtz \/ op_bltz \/ op_bgez \/ op_beql \/ op_bnel \/ op_blezl \/ op_bltzl
  \/ op_bgezl \/ op_j \/ op_jal \/ op_jr \/ op_jalr
MemoryAccesses ==
  \/ op_lb \/ op_lbu \/ op_lh \/ op_lhu \/ op_lw \/ op_lwu \/ op_ld \/ op_lq \/ op_sb \/ op_sh \/ op_sw \/ op_sd \/ op_sq
  \/ op_ldl \/ op_ldr \/ op_lwl \/ op_lwr \/ op_sdl \/ op_sdr \/ op_swl \/ op_swr
Coprocessors ==
  \/ op_mfc0 \/ op_mtc0 \/ op_mtc1 \/ op_ctc1 \/ op_cfc1 \/ op_lwc1 \/ op_swc1 \/ op_adda_s \/ op_madd_s
  \/ op_cfc2 \/ op_ctc2 \/ op_qmfc2 \/ op_qmtc2 \/ op_sqc2 \/ Special1And2

OpsNext == Computes \/ Multiplies \/ Multimedia \/ Jumping \/ MemoryAccesses \/ Coprocessors \/ op_nothing

OpsSpec == OpsInit /\ [][OpsNext]_opsVars

-----------------------------------------------------------------------------

Machine == INSTANCE R5900

\* Every instruction does to the registers, to memory and to the coprocessors what the
\* R5900's does: the two halves of the unaligned loads and stores fit together, the two
\* pairs of HI and LO are apart, what is narrower than a register is extended as it
\* should be, and a register that is read and written is read first.
ImplementsR5900 == Machine!Spec

\* "Sometimes an instruction might write to GPR[0]. To avoid branches, reset the register
\* each time" (emit_fallback): register 0 reads as zero.
ZeroIsZero == gpr[0] = <<0, 0>>
=============================================================================
