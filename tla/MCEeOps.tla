------------------------------ MODULE MCEeOps ------------------------------
(* Programs of a few instructions for EeOps.  Words have eight bits. *)
EXTENDS EeOps

MCFAdd(x, y) == (x + y) % W
MCFSub(x, y) == (x - y) % W
MCFMul(x, y) == (x * y + 1) % W
\* A float of one bit of sign, four of exponent and three of mantissa.
MCOverflowCheck(x) == IF (x \div 8) % 16 = 15 THEN (x \div 128) * 128 + 119 ELSE x
MCEeMemory == [a \in 0 .. 31 |-> (a * a + a \div 3 + a \div 8) % B]
MCInstrPc == 40

RType(op, rs, rt, rd) == [op |-> op, rs |-> rs, rt |-> rt, rd |-> rd, sa |-> 0, imm |-> 0]
IType(op, rs, rt, imm) == [op |-> op, rs |-> rs, rt |-> rt, rd |-> 3, sa |-> 0, imm |-> imm % H]
SType(op, rt, n) == [op |-> op, rs |-> 1, rt |-> rt, rd |-> 3, sa |-> n, imm |-> 0]
VType(op, dest, ft, fs, fd) == [op |-> op, rs |-> 16 + dest, rt |-> ft, rd |-> fs, sa |-> fd, imm |-> 0]

Quad(x, y) == (0 :> <<0, 0>>) @@ (1 :> <<x, 52011>>) @@ (2 :> <<y, 7002>>) @@ (3 :> <<45678, 9>>) @@ (31 :> <<5, 6>>)
SomeVu ==
  [vi |-> [i \in 0 .. 3 |-> i + 1],
   vf |-> [f \in 0 .. 3 |-> [i \in 0 .. 3 |-> 60 * f + 7 * i + 1]],
   acc |-> [i \in 0 .. 3 |-> 200 - i],
   data |-> [q \in 0 .. 2 |-> [i \in 0 .. 3 |-> 0]]]
Run(code, x, y) == [code |-> code, gpr |-> Quad(x, y), vu |-> SomeVu]
RunsOf(codes, pairs) == {Run(code, p[1], p[2]) : code \in codes, p \in pairs}

\* The numbers where sums, products and shifts turn.
WordEdges  == {Extend(x) : x \in {0, 1, 3, 16, 127, 128, 133, 252, 255}}
DwordEdges == {0, 1, 255, 256, 32767, 32768, 33023, 65535}
WordPairs     == WordEdges \X WordEdges
DwordPairs    == DwordEdges \X DwordEdges
Immediates == {0, 1, 7, -8, -1}
Into(ops, rd) == {<<RType(op, 1, 2, rd)>> : op \in ops}

Sums ==
  RunsOf(Into({"ADD", "ADDU", "SUB", "SUBU"}, 2), WordPairs)
  \cup RunsOf(Into({"DADDU", "DSUBU", "SLT", "SLTU", "AND", "OR", "XOR", "NOR", "MOVZ", "MOVN"}, 1), DwordPairs)
  \cup RunsOf({<<IType("ADDIU", 1, 2, i)>> : i \in Immediates}, WordEdges \X {0})
  \cup {Run(<<IType("ADDI", 1, 2, i)>>, x, 0) : i \in Immediates, x \in WordEdges \ {127, Extend(128), Extend(133)}}
  \cup RunsOf({<<IType(op, 1, 1, i)>> : op \in {"DADDIU", "SLTI", "SLTIU", "ANDI", "ORI", "XORI", "LUI"}, i \in Immediates},
            DwordEdges \X {0})

Shifts ==
  RunsOf({<<SType(op, 2, n)>> : op \in {"SLL", "SRL", "SRA"}, n \in 0 .. 7}, {0} \X WordEdges)
  \cup RunsOf({<<SType(op, 2, n)>> : op \in {"DSLL", "DSRL", "DSRA", "DSLL32", "DSRL32", "DSRA32"}, n \in 0 .. 7},
            {0} \X DwordEdges)
  \cup RunsOf(Into({"SLLV", "SRLV", "SRAV"}, 2), {0, 1, 7, 19} \X WordEdges)
  \cup RunsOf(Into({"DSLLV", "DSRAV"}, 2), {0, 1, 7, 8, 15, 20} \X DwordEdges)

\* MULTU and MADD of numbers whose words have their upper bits clear, DIVU1 of what can
\* be divided.
Small(x) == x % W < W \div 2 /\ x \div W < W \div 2
Both(first, second) ==
  <<RType(first, 1, 2, 3), RType(second, 2, 1, 31), RType("MFHI", 0, 0, 1), RType("MFLO1", 0, 0, 2)>>
Products ==
  RunsOf({Both(a, b) : a \in {"MULT", "DIV", "DIVU"}, b \in {"MULT1"}}, WordPairs)
  \cup RunsOf({<<RType("MULTU", 1, 2, 2)>>}, {p \in WordPairs : Small((p[1] % W) * (p[2] % W))})
  \cup RunsOf({Both("DIVU", "DIVU1")}, {p \in WordPairs : p[1] # 0})
  \cup RunsOf({<<RType("MULT", 1, 1, 31), RType("MULT1", 1, 2, 3), RType("MADD", 2, 2, 3)>> \o Both("MADD", "MADD1")},
            {p \in WordPairs : p[1] < 128 /\ p[2] < 128})
  \cup RunsOf({<<RType("MTHI", 1, 0, 0), RType("MTLO1", 2, 0, 0), RType("MTHI1", 3, 0, 0), RType("MTLO", 1, 0, 0),
               RType("MFHI1", 0, 0, 1), RType("MFLO", 0, 0, 2), RType("MTSA", 3, 0, 0), RType("MFSA", 0, 0, 3)>>}, DwordPairs)

Lanewise == {"POR", "PAND", "PXOR", "PNOR", "PSUBB", "PSUBW", "PADDUW", "PCPYH", "PCPYUD", "PLZCW"}
Packs ==
  RunsOf({<<RType(op, 1, 2, rd), RType(op, 2, 1, 3), RType("PADDUW", 3, 3, 3)>> : op \in Lanewise, rd \in 1 .. 3}
       \cup {<<RType("PCPYLD", 1, 2, rd)>> : rd \in 2 .. 3}, {<<x, 65535 - x>> : x \in {0, 27, 4660, 33023}})

Turns ==
  RunsOf({<<IType(op, 1, 2, i)>> : op \in {"BEQ", "BNE", "BLEZ", "BGTZ", "BLTZ", "BGEZ", "BEQL", "BNEL", "BLEZL", "BLTZL", "BGEZL"},
                                 i \in {0, 7, -8}},
       {0, 1, 32767, 32768, 65535} \X {0, 1, 32768})
  \cup RunsOf({<<IType(op, 1, 0, i)>> : op \in {"J", "JAL"}, i \in 0 .. 3}
            \cup {<<RType(op, 1, 0, 1)>> : op \in {"JR", "JALR"}}, {0, 88, 65535} \X {0})

\* Every address of a quadword, and the pairs that move a unit wherever it lies.
Pair(left, right, n, at) == <<IType(left, 1, 2, at + n - 1), IType(right, 1, 2, at)>>
MemoryPrograms ==
  RunsOf({<<IType(op, 1, 2, i)>> : i \in -8 .. 7,
          op \in {"LB", "LBU", "LH", "LHU", "LW", "LWU", "LD", "SB", "SH", "SW", "SD", "LWC1", "SWC1", "SQ",
                  "LDL", "LDR", "LWL", "LWR", "SDL", "SDR", "SWL", "SWR"}}
       \cup {<<IType(op, 1, 2, i)>> : i \in -8 .. 0, op \in {"LQ", "SQC2"}}
       \cup {Pair(p[1], p[2], p[3], at) : at \in -4 .. 0,
               p \in {<<"LDL", "LDR", 8>>, <<"SDL", "SDR", 8>>, <<"LWL", "LWR", 4>>, <<"SWL", "SWR", 4>>}},
       {16} \X {27, 59131})

UnitPrograms ==
  RunsOf({<<VType(op, dest, 1, 2, 2), RType("QMFC2", 0, 1, 2)>> : op \in {"VADD", "VSUB", "VSUBA", "VMADDA", "VMSUBA", "VMR32", "VSQI"},
                                    dest \in 0 .. 15}
       \cup {<<VType("VISWR", dest, 3, at, 0)>> : dest \in {0, 6, 9, 15}, at \in 0 .. 3}
       \cup {<<RType("QMTC2", 0, 1, 3), VType("VIADD", 0, 1, 2, 3), VType("VSQI", 15, 0, 3, 0), VType("VSQI", 9, 0, 1, 0),
               VType("VSQI", 15, 0, 3, 0), RType("CTC2", 0, 2, 1), VType("VSQI", 15, 1, 3, 0), RType("CFC2", 0, 3, 1)>>,
             <<RType("MTC0", 0, 1, 2), RType("MFC0", 0, 3, 2), RType("MTC1", 0, 1, 2), RType("MTC1", 0, 2, 3), RType("ADDA.S", 0, 2, 3),
               [RType("MADD.S", 0, 2, 3) EXCEPT !.sa = 3], IType("SWC1", 0, 3, 4), IType("LWC1", 0, 1, 4),
               RType("CTC1", 0, 1, 31), RType("CFC1", 0, 2, 31), RType("CTC1", 0, 2, 0), RType("CFC1", 0, 3, 0),
               RType("SYNC", 0, 0, 0), RType("CACHE", 0, 0, 0), RType("TLBWI", 0, 0, 0)>>},
       {<<97, 65400>>, <<255, 120>>})


Empty == Run(<<>>, 0, 0)
MCEePrograms == {Empty} \cup Sums \cup Shifts \cup Products \cup Packs \cup Turns \cup MemoryPrograms \cup UnitPrograms

\* What compilers make of a product of which only HI and LO are of interest.
ZeroPrograms == {Run(<<RType("MULT", 1, 2, 0), RType("MFLO", 0, 0, 3)>>, 3, 5)}
=============================================================================
