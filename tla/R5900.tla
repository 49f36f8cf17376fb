------------------------------- MODULE R5900 -------------------------------
(***************************************************************************)
(* What a program is promised by an R5900 and its coprocessors: each       *)
(* instruction by the bits, the bytes and the lanes it moves.  Where the   *)
(* processor would trap on overflow it goes on.  The programs keep away    *)
(* from what is undefined.                                                 *)
(***************************************************************************)
EXTENDS Words, FiniteSets, FiniteSetsExt, Sequences

CONSTANTS
  FAdd(_, _), FSub(_, _), FMul(_, _), OverflowCheck(_),
  InstrPc, VuQwords

VARIABLES program, step, gpr, hilo, sa, cop, vu, mem, flow, stop

State == [gpr |-> gpr, hilo |-> hilo, sa |-> sa, cop |-> cop, vu |-> vu, mem |-> mem, flow |-> flow, stop |-> stop]

ins == program.code[step]
D   == W * W

\* A number by its digits in base n, and a digit of a number.
Digit(x, n, k)   == (x \div n ^ k) % n
Digits(n, m, f(_)) == MapThenSumSet(LAMBDA k : f(k) * n ^ k, 0 .. m - 1)

RS == gpr[ins.rs][1]
RT == gpr[ins.rt][1]
\* The low word with its sign in every bit above, and the immediate likewise.
Wide(x)   == LET bit(k) == Bit(x, IF k < WordBits THEN k ELSE WordBits - 1) IN Digits(2, 2 * WordBits, bit)
ImmWide   == LET bit(k) == Bit(ins.imm, IF k < WordBits \div 2 THEN k ELSE WordBits \div 2 - 1)
             IN Digits(2, 2 * WordBits, bit)
\* Signed numbers are ordered as unsigned ones half the range further.
Less(x, y) == (x + D \div 2) % D < (y + D \div 2) % D

BitByBit(x, y, op(_, _)) == LET bit(k) == op(Bit(x, k), Bit(y, k)) IN Digits(2, 2 * WordBits, bit)
And(a, b) == a * b
Or(a, b)  == IF a + b > 0 THEN 1 ELSE 0
Xor(a, b) == IF a # b THEN 1 ELSE 0
Nor(a, b) == IF a + b = 0 THEN 1 ELSE 0

\* x of so many bits, shifted by n; top comes in from above.
Up(x, n, bits)        == LET bit(k) == IF k < n THEN 0 ELSE Bit(x, k - n) IN Digits(2, bits, bit)
Down(x, n, bits, top) == LET bit(k) == IF k + n < bits THEN Bit(x, k + n) ELSE top IN Digits(2, bits, bit)
Two  == 2 * WordBits
Low  == RT % W
Sign(x, bits) == Bit(x, bits - 1)
Amount(bits) == RS % bits

\* Bytes of memory from a on; an aligned unit's; and a register with some bytes replaced.
Word(a, n)   == LET byte(k) == mem[a + k] IN Digits(B, n, byte)
At           == (RS + ImmWide) % W
Merged(n, taken, from(_)) ==
  LET byte(k) == IF k \in taken THEN mem[from(k)] ELSE Digit(RT, B, k) IN Digits(B, n, byte)
\* The most significant part of the n bytes that end at the address, and the least
\* significant part of those that begin there, as far as the unit around it has them.
FromLeft(n)  == LET from(k) == At - (n - 1 - k) IN Merged(n, (n - 1 - (At % n)) .. n - 1, from)
FromRight(n) == LET from(k) == At + k IN Merged(n, 0 .. n - 1 - (At % n), from)
Filled(bytes, value(_)) == [State EXCEPT !.mem = [x \in DOMAIN mem |-> IF x \in bytes THEN value(x) ELSE mem[x]]]
Puts(n, x) == LET value(a) == Digit(x, B, a - At) IN Filled(At .. At + n - 1, value)

\* Lanes of n values, over both dwords of a register.
Lanes(n) == CASE n = B -> 8 [] n = H -> 4 [] n = W -> 2
LaneOf(r, n, i) == Digit(gpr[r][1 + i \div Lanes(n)], n, i % Lanes(n))
Vector(n, f(_)) ==
  LET half(d) == LET lane(k) == f(k + d * Lanes(n)) IN Digits(n, Lanes(n), lane) IN <<half(0), half(1)>>
LeadingSigns(x) == Max({n \in 1 .. WordBits : \A k \in WordBits - n .. WordBits - 1 : Bit(x, k) = Sign(x, WordBits)})

\* Quotient and remainder, of any divisor.
Divided(x, y) ==
  LET m == Magnitude(y)
      r == CHOOSE r \in 1 - m .. m - 1 : (x - r) % m = 0 /\ (r = 0 \/ (r < 0) = (x < 0))
  IN IF y = 0 THEN [lo |-> IF x < 0 THEN 1 ELSE W - 1, hi |-> x]
     ELSE [lo |-> (IF y < 0 THEN -1 ELSE 1) * ((x - r) \div m), hi |-> r]

-----------------------------------------------------------------------------
(* What goes to rd, what to rt, and the rest.                              *)

Integer(x) == Signed(x % W, W)
Wides(x) == Wide(x % W)

RdOps == {"ADD", "ADDU", "SUB", "SUBU", "DADDU", "DSUBU", "SLT", "SLTU", "AND", "OR", "XOR", "NOR",
                    "MOVZ", "MOVN", "SLL", "SRL", "SRA", "SLLV", "SRLV", "SRAV", "DSLL", "DSRL", "DSRA",
                    "DSLL32", "DSRL32", "DSRA32", "DSLLV", "DSRAV", "MFHI", "MFLO", "MFHI1", "MFLO1", "MFSA"}
RdValue ==
  CASE ins.op \in {"ADD", "ADDU"} -> Wides(Low + (RS % W))
    [] ins.op \in {"SUB", "SUBU"} -> Wides((RS % W) + W - Low)
    [] ins.op = "DADDU" -> (RS + RT) % D
    [] ins.op = "DSUBU" -> (RS + D - RT) % D
    [] ins.op = "SLT"   -> Truth(Less(RS, RT))
    [] ins.op = "SLTU"  -> Truth(RS < RT)
    [] ins.op = "AND"   -> BitByBit(RS, RT, And)
    [] ins.op = "OR"    -> BitByBit(RS, RT, Or)
    [] ins.op = "XOR"   -> BitByBit(RS, RT, Xor)
    [] ins.op = "NOR"   -> BitByBit(RS, RT, Nor)
    [] ins.op = "MOVZ"  -> IF RT = 0 THEN RS ELSE gpr[ins.rd][1]
    [] ins.op = "MOVN"  -> IF RT = 0 THEN gpr[ins.rd][1] ELSE RS
    [] ins.op = "SLL"   -> Wide(Up(Low, ins.sa, WordBits))
    [] ins.op = "SRL"   -> Wide(Down(Low, ins.sa, WordBits, 0))
    [] ins.op = "SRA"   -> Wide(Down(Low, ins.sa, WordBits, Sign(Low, WordBits)))
    [] ins.op = "SLLV"  -> Wide(Up(Low, Amount(WordBits), WordBits))
    [] ins.op = "SRLV"  -> Wide(Down(Low, Amount(WordBits), WordBits, 0))
    [] ins.op = "SRAV"  -> Wide(Down(Low, Amount(WordBits), WordBits, Sign(Low, WordBits)))
    [] ins.op = "DSLL"  -> Up(RT, ins.sa, Two)
    [] ins.op = "DSRL"  -> Down(RT, ins.sa, Two, 0)
    [] ins.op = "DSRA"  -> Down(RT, ins.sa, Two, Sign(RT, Two))
    [] ins.op = "DSLL32" -> Up(RT, ins.sa + WordBits, Two)
    [] ins.op = "DSRL32" -> Down(RT, ins.sa + WordBits, Two, 0)
    [] ins.op = "DSRA32" -> Down(RT, ins.sa + WordBits, Two, Sign(RT, Two))
    [] ins.op = "DSLLV" -> Up(RT, Amount(Two), Two)
    [] ins.op = "DSRAV" -> Down(RT, Amount(Two), Two, Sign(RT, Two))
    [] ins.op = "MFHI"  -> hilo.hi0
    [] ins.op = "MFLO"  -> hilo.lo0
    [] ins.op = "MFHI1" -> hilo.hi1
    [] ins.op = "MFLO1" -> hilo.lo1
    [] ins.op = "MFSA"  -> sa

RtOps == {"ADDI", "ADDIU", "DADDIU", "LUI", "SLTI", "SLTIU", "ANDI", "ORI", "XORI", "MFC0", "CFC1", "CFC2",
                    "LDL", "LDR", "LWL", "LWR"}
RtValue ==
  CASE ins.op \in {"ADDI", "ADDIU"} -> Wides(RS + ImmWide)
    [] ins.op = "DADDIU" -> (RS + ImmWide) % D
    [] ins.op = "LUI"    -> Wide(Up(ins.imm, WordBits \div 2, WordBits))
    [] ins.op = "SLTI"   -> Truth(Less(RS, ImmWide))
    [] ins.op = "SLTIU"  -> Truth(RS < ImmWide)
    [] ins.op = "ANDI"   -> BitByBit(RS, ins.imm, And)
    [] ins.op = "ORI"    -> BitByBit(RS, ins.imm, Or)
    [] ins.op = "XORI"   -> BitByBit(RS, ins.imm, Xor)
    [] ins.op = "MFC0"   -> cop.c0[ins.rd]
    [] ins.op = "CFC1"   -> Wide(cop.fcr[ins.rd])
    [] ins.op = "CFC2"   -> Wide(vu.vi[ins.rd])
    [] ins.op = "LDL"    -> FromLeft(8)
    [] ins.op = "LDR"    -> FromRight(8)
    [] ins.op = "LWL"    -> Wide(FromLeft(4))
    \* The sign is the loaded one only where the whole word is.
    [] ins.op = "LWR"    -> IF At % 4 = 0 THEN Wide(FromRight(4)) ELSE FromRight(4) + W * (RT \div W)

Rd(q) == [State EXCEPT !.gpr[ins.rd] = q]

Products ==
  LET p == Integer(RS) * Integer(RT)
      u == (RS % W) * Low
      sum(hi, lo) == Signed((hi % W) * W + (lo % W), D) + p
      rd(x) == [gpr EXCEPT ![ins.rd][1] = x]
      Pair0(x) == LET lo == Wides(x)
                  IN [State EXCEPT !.hilo.hi0 = Wides(x \div W), !.hilo.lo0 = lo, !.gpr = rd(lo)]
      Pair1(x) == LET lo == Wides(x)
                  IN [State EXCEPT !.hilo.hi1 = Wides(x \div W), !.hilo.lo1 = lo, !.gpr = rd(lo)]
      s == Divided(Integer(RS), Integer(RT))
      n == Divided(RS % W, Low)
  IN CASE ins.op = "MULT"  -> Pair0(p)
       [] ins.op = "MULT1" -> Pair1(p)
       [] ins.op = "MULTU" -> Pair0(u)
       [] ins.op = "MADD"  -> Pair0(sum(hilo.hi0, hilo.lo0))
       [] ins.op = "MADD1" -> Pair1(sum(hilo.hi1, hilo.lo1))
       [] ins.op = "DIV"   -> [State EXCEPT !.hilo.hi0 = Wides(s.hi), !.hilo.lo0 = Wides(s.lo)]
       [] ins.op = "DIVU"  -> [State EXCEPT !.hilo.hi0 = Wides(n.hi), !.hilo.lo0 = Wides(n.lo)]
       [] ins.op = "DIVU1" -> [State EXCEPT !.hilo.hi1 = Wides(n.hi), !.hilo.lo1 = Wides(n.lo)]
       [] ins.op = "MTHI"  -> [State EXCEPT !.hilo.hi0 = RS]
       [] ins.op = "MTLO"  -> [State EXCEPT !.hilo.lo0 = RS]
       [] ins.op = "MTHI1" -> [State EXCEPT !.hilo.hi1 = RS]
       [] ins.op = "MTLO1" -> [State EXCEPT !.hilo.lo1 = RS]
       [] ins.op = "MTSA"  -> [State EXCEPT !.sa = RS % W]

Multimedia ==
  LET s(n, i) == LaneOf(ins.rs, n, i)
      t(n, i) == LaneOf(ins.rt, n, i)
      psubb(i) == (s(B, i) + B - t(B, i)) % B
      psubw(i) == (s(W, i) + W - t(W, i)) % W
      padduw(i) == Min({W - 1, s(W, i) + t(W, i)})
      pcpyh(i) == IF i < 4 THEN t(H, 0) ELSE t(H, 4)
      pcpyud(i) == IF i < 2 THEN s(W, i + 2) ELSE t(W, i)
      pcpyld(i) == IF i < 2 THEN t(W, i) ELSE s(W, i - 2)
      plzcw(i) == IF i < 2 THEN LeadingSigns(s(W, i)) - 1 ELSE LaneOf(ins.rd, W, i)
      Both(op(_, _)) == Rd([d \in 1 .. 2 |-> BitByBit(gpr[ins.rs][d], gpr[ins.rt][d], op)])
  IN CASE ins.op = "POR"    -> Both(Or)
       [] ins.op = "PAND"   -> Both(And)
       [] ins.op = "PXOR"   -> Both(Xor)
       [] ins.op = "PNOR"   -> Both(Nor)
       [] ins.op = "PSUBB"  -> Rd(Vector(B, psubb))
       [] ins.op = "PSUBW"  -> Rd(Vector(W, psubw))
       [] ins.op = "PADDUW" -> Rd(Vector(W, padduw))
       [] ins.op = "PCPYH"  -> Rd(Vector(H, pcpyh))
       [] ins.op = "PCPYUD" -> Rd(Vector(W, pcpyud))
       [] ins.op = "PCPYLD" -> Rd(Vector(W, pcpyld))
       [] ins.op = "PLZCW"  -> Rd(Vector(W, plzcw))

Branches == {"BEQ", "BNE", "BLEZ", "BGTZ", "BLTZ", "BGEZ", "BEQL", "BNEL", "BLEZL", "BLTZL", "BGEZL"}
Condition ==
  LET negative == Sign(RS, Two) = 1
  IN CASE ins.op \in {"BEQ", "BEQL"}   -> RS = RT
       [] ins.op \in {"BNE", "BNEL"}   -> RS # RT
       [] ins.op \in {"BLEZ", "BLEZL"} -> negative \/ RS = 0
       [] ins.op = "BGTZ"              -> ~negative /\ RS # 0
       [] ins.op \in {"BLTZ", "BLTZL"} -> negative
       [] ins.op \in {"BGEZ", "BGEZL"} -> ~negative
Likely == {"BEQL", "BNEL", "BLEZL", "BLTZL", "BGEZL"}

Turn ==
  LET slot == InstrPc + 4
      to(a) == [flow EXCEPT !.pc = a % W, !.taken = TRUE]
      region == Digit(slot, W \div 16, 1) * (W \div 16) + 4 * ins.imm
      link(r) == [gpr EXCEPT ![r][1] = slot + 4]
  IN CASE ins.op = "J"    -> [State EXCEPT !.flow = to(region)]
       [] ins.op = "JAL"  -> [State EXCEPT !.flow = to(region), !.gpr = link(31)]
       [] ins.op = "JR"   -> [State EXCEPT !.flow = to(RS)]
       [] ins.op = "JALR" -> [State EXCEPT !.flow = to(RS), !.gpr = link(ins.rd)]
       [] OTHER -> IF Condition THEN [State EXCEPT !.flow = to(slot + 4 * ImmWide)]
                   ELSE IF ins.op \in Likely THEN [State EXCEPT !.flow.skip = TRUE] ELSE State

-----------------------------------------------------------------------------
(* Memory and coprocessors.                                                *)

Transfers == {"LB", "LBU", "LH", "LHU", "LW", "LWU", "LD", "SB", "SH", "SW", "SD", "LWC1", "SWC1", "SQ", "LQ", "SQC2"}
Size ==
  CASE ins.op \in {"LB", "LBU", "SB"} -> 1
    [] ins.op \in {"LH", "LHU", "SH"} -> 2
    [] ins.op \in {"LW", "LWU", "SW", "LWC1", "SWC1"} -> 4
    [] ins.op \in {"LD", "SD"} -> 8
    [] ins.op = "SQ" -> 16
    \* These two do not look at their address.
    [] ins.op \in {"LQ", "SQC2"} -> 1
Misaligned == [State EXCEPT !.stop = IF ins.op \in {"SQ", "SWC1"} THEN "terminated"
                                    ELSE IF ins.op \in {"SB", "SH", "SW", "SD"} THEN "AddrErrorStore"
                                    ELSE "AddrErrorLoad"]
Extended(x, n) == LET byte(k) == IF k < n THEN Digit(x, B, k) ELSE IF 2 * Digit(x, B, n - 1) >= B THEN B - 1 ELSE 0
                 IN Digits(B, 8, byte)
PutsQuad(lo, hi) ==
  LET value(a) == IF a - At < 8 THEN Digit(lo, B, a - At) ELSE Digit(hi, B, a - At - 8) IN Filled(At .. At + 15, value)
Access ==
  LET n == Size
      load(x) == [State EXCEPT !.gpr[ins.rt][1] = x]
      v == vu.vf[ins.rt]
  IN CASE ins.op \in {"LB", "LH", "LW"}           -> load(Extended(Word(At, n), n))
       [] ins.op \in {"LBU", "LHU", "LWU", "LD"}  -> load(Word(At, n))
       [] ins.op = "LQ"   -> [State EXCEPT !.gpr[ins.rt] = <<Word(At, 8), Word(At + 8, 8)>>]
       [] ins.op = "LWC1" -> [State EXCEPT !.cop.fpr[ins.rt] = Word(At, 4)]
       [] ins.op = "SWC1" -> Puts(4, cop.fpr[ins.rt])
       [] ins.op = "SQ"   -> PutsQuad(gpr[ins.rt][1], gpr[ins.rt][2])
       [] ins.op = "SQC2" -> PutsQuad(v[0] + W * v[1], v[2] + W * v[3])
       [] OTHER           -> Puts(n, RT)

\* The parts of a unit that a pair of stores writes between them.
Unaligned ==
  LET left(n) == LET value(a) == Digit(RT, B, n - 1 - (At - a)) IN Filled(At - (At % n) .. At, value)
      right(n) == LET value(a) == Digit(RT, B, a - At) IN Filled(At .. At - (At % n) + n - 1, value)
  IN CASE ins.op = "SDL" -> left(8)
       [] ins.op = "SDR" -> right(8)
       [] ins.op = "SWL" -> left(4)
       [] ins.op = "SWR" -> right(4)

\* A vector instruction computes every component of the mask from what the registers
\* held before it.  Component X is the mask's upper bit.
Masked(old, new(_)) == [i \in 0 .. 3 |-> IF Bit(ins.rs, 3 - i) = 1 THEN new(i) ELSE old[i]]
Units ==
  LET f == vu.vf[ins.rd]
      t == vu.vf[ins.rt]
      sum(i)  == FAdd(f[i], t[i])
      diff(i) == FSub(f[i], t[i])
      madd(i) == FAdd(vu.acc[i], FMul(f[i], t[i]))
      msub(i) == FSub(vu.acc[i], FMul(f[i], t[i]))
      turn(i) == f[(i + 1) % 4]
      same(i) == f[i]
      int(i)  == vu.vi[ins.rt] % H
      Data(at, new(_)) == IF at < VuQwords THEN [vu.data EXCEPT ![at] = Masked(@, new)] ELSE vu.data
      at == vu.vi[ins.rt]
  IN CASE ins.op = "VADD"   -> [State EXCEPT !.vu.vf[ins.sa] = Masked(@, sum)]
       [] ins.op = "VSUB"   -> [State EXCEPT !.vu.vf[ins.sa] = Masked(@, diff)]
       [] ins.op = "VSUBA"  -> [State EXCEPT !.vu.acc = Masked(@, diff)]
       [] ins.op = "VMADDA" -> [State EXCEPT !.vu.acc = Masked(@, madd)]
       [] ins.op = "VMSUBA" -> [State EXCEPT !.vu.acc = Masked(@, msub)]
       [] ins.op = "VMR32"  -> [State EXCEPT !.vu.vf[ins.rt] = Masked(@, turn)]
       [] ins.op = "VIADD"  -> [State EXCEPT !.vu.vi[ins.sa] = vu.vi[ins.rd] + vu.vi[ins.rt]]
       [] ins.op = "VISWR"  -> [State EXCEPT !.vu.data = Data(vu.vi[ins.rd], int)]
       [] ins.op = "VSQI"   -> [State EXCEPT !.vu.data = Data(at, same), !.vu.vi[ins.rt] = IF at < VuQwords THEN @ + 1 ELSE @]
       [] ins.op = "CTC2"   -> [State EXCEPT !.vu.vi[ins.rd] = Low]
       [] ins.op = "QMTC2"  -> [State EXCEPT !.vu.vf[ins.rd] = [i \in 0 .. 3 |-> LaneOf(ins.rt, W, i)]]
       [] ins.op = "QMFC2"  -> [State EXCEPT !.gpr[ins.rt] = <<f[0] + W * f[1], f[2] + W * f[3]>>]

Floats ==
  LET s == cop.fpr[ins.rd]
      t == cop.fpr[ins.rt]
  IN CASE ins.op = "MTC0"   -> [State EXCEPT !.cop.c0[ins.rd] = Low]
       [] ins.op = "MTC1"   -> [State EXCEPT !.cop.fpr[ins.rd] = Low]
       [] ins.op = "CTC1"   -> [State EXCEPT !.cop.fcr[ins.rd] = Low]
       [] ins.op = "ADDA.S" -> [State EXCEPT !.cop.acc = FAdd(s, t)]
       [] ins.op = "MADD.S" -> [State EXCEPT !.cop.fpr[ins.sa] =
                                  FAdd(OverflowCheck(cop.acc), FMul(OverflowCheck(s), OverflowCheck(t)))]

Vectors == {"VADD", "VSUB", "VSUBA", "VMADDA", "VMSUBA", "VMR32", "VIADD", "VISWR", "VSQI", "CTC2", "QMTC2", "QMFC2"}
Result ==
  CASE ins.op \in RdOps -> [State EXCEPT !.gpr[ins.rd][1] = RdValue]
    [] ins.op \in RtOps -> [State EXCEPT !.gpr[ins.rt][1] = RtValue]
    [] ins.op \in Branches \cup {"J", "JAL", "JR", "JALR"} -> Turn
    [] ins.op \in Transfers -> IF At % Size = 0 THEN Access ELSE Misaligned
    [] ins.op \in {"SDL", "SDR", "SWL", "SWR"} -> Unaligned
    [] ins.op \in Vectors -> Units
    [] ins.op \in {"MTC0", "MTC1", "CTC1", "ADDA.S", "MADD.S"} -> Floats
    [] ins.op \in {"POR", "PAND", "PXOR", "PNOR", "PSUBB", "PSUBW", "PADDUW", "PCPYH", "PCPYUD", "PCPYLD", "PLZCW"} -> Multimedia
    [] ins.op \in {"SYNC", "CACHE", "TLBWI"} -> State
    [] OTHER -> Products

Next == step <= Len(program.code) /\ stop = "no" /\ step' = step + 1 /\ State' = Result /\ UNCHANGED program

Spec == [][Next]_<<program, step, State>>
=============================================================================
