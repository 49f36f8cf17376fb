----------------------------- MODULE MCIopCore -----------------------------
EXTENDS IopCore, TLC

MCRegisters == {0, 4, 5, 8, 9, 26, 27, 31}
MCHidden == {26, 27}
Zero == 0
T0 == 8
T1 == 9
A0 == 4
A1 == 5
K0 == 26
K1 == 27
RA == 31

I(op, rs, rt, imm) == [Illegal EXCEPT !.op = op, !.rs = rs, !.rt = rt, !.imm = IF imm < 0 THEN H + imm ELSE imm]
R(op, rs, rt, rd)  == [Illegal EXCEPT !.op = op, !.rs = rs, !.rt = rt, !.rd = rd]
S(op, rt, rd, sa)  == [Illegal EXCEPT !.op = op, !.rt = rt, !.rd = rd, !.sa = sa]
Nop == S("SLL", 0, 0, 0)

\* Where things lie: the handler, the program and its data.
Vector == 16
Start  == 64
DataAt == 128
MCExceptionAddr == [bev \in 0 .. 1 |-> Vector]
Code(from, list) == [a \in {from + 4 * (k - 1) : k \in DOMAIN list} |-> list[(a - from) \div 4 + 1]]

\* An interrupt is acknowledged, and of anything else the instruction is passed.
Handling == <<
  R("MFC0", 0, K0, Cause), R("MFC0", 0, K1, EPC), I("ANDI", K0, K0, 60),
  I("BEQ", K0, Zero, 4), Nop,
  I("ADDIU", K1, K1, 4), R("JR", K1, 0, 0), R("RFE", 0, 0, 0),
  I("SW", Zero, Zero, -12), R("JR", K1, 0, 0), R("RFE", 0, 0, 0) >>
MCHandler == DOMAIN Code(Vector, Handling)

Loop(list) == list \o <<I("BEQ", Zero, Zero, -1), Nop>>
Runs(list, regs, mask) ==
  [code |-> Code(Vector, Handling) @@ Code(Start, Loop(list)), at |-> Start, mask |-> mask,
   gpr |-> [r \in MCRegisters |-> IF r \in DOMAIN regs THEN regs[r] ELSE 0],
   mem |-> [a \in {DataAt, DataAt + 4} |-> IF a = DataAt THEN 1 + 2 * B + 3 * H + 7 * B * H ELSE 5 + 6 * B]]

\* Every instruction that computes, on the numbers where sums, products and shifts turn.
Edges == {0, 1, 3, H - 1, W \div 2 - 1, W \div 2, W \div 2 + 5, W - 4, W - 1}
RegisterOps == {"ADD", "ADDU", "SUB", "SUBU", "SLT", "SLTU", "AND", "OR", "XOR", "NOR", "SLLV", "SRLV", "SRAV"}
ImmediateOps == {"ADDI", "ADDIU", "SLTI", "SLTIU", "ANDI", "ORI", "XORI", "LUI"}
Sums ==
  {<<R(op, T0, T1, T1)>> : op \in RegisterOps}
  \cup {<<I(op, T0, T1, imm)>> : op \in ImmediateOps, imm \in {0, 1, 31}}
  \cup {<<I(op, T0, T1, imm)>> : op \in ImmediateOps \ {"SLTIU"}, imm \in {-32, -1}}
  \cup {<<S(op, T0, T1, sa)>> : op \in {"SLL", "SRL", "SRA"}, sa \in {0, 1, 11}}
  \cup {<<R(op, T0, T1, 0), R("MFHI", 0, 0, T0), R("MFLO", 0, 0, T1)>> : op \in {"MULT", "MULTU", "DIV", "DIVU"}}
  \cup {<<R("MTHI", T0, 0, 0), R("MTLO", T1, 0, 0)>>}
SumPrograms == {Runs(list, (T0 :> x) @@ (T1 :> y), 0) : list \in Sums, x \in Edges, y \in Edges}

\* Every load and store, at every byte of a word.
Memories ==
  {<<I(op, A0, T0, n)>> : op \in {"LB", "LBU", "LH", "LHU", "LW", "SB", "SH", "SW", "SWL", "SWR", "LWL", "LWR"}, n \in 0 .. 3}
  \cup {<<I("LWL", A0, T0, n + 3), I("LWR", A0, T0, n), Nop, I("SWL", A0, T0, n + 4), I("SWR", A0, T0, 4 - n)>> : n \in 0 .. 3}
MemoryPrograms == {Runs(list, (A0 :> DataAt) @@ (T0 :> x), 1) : list \in Memories, x \in {W - 2, 9}}

\* Three instructions in every order, under interrupts.
Alphabet ==
  {I("LW", A0, T0, 0), I("LWL", A0, T0, 2), I("ADDIU", Zero, T0, 3), R("ADDU", T1, T0, T1), I("SW", A0, T1, 4),
   I("BNE", T0, T1, 1), I("BCOND", T1, 16, 1), I("JAL", 0, 0, (Start + 12) \div 4), R("JALR", A1, 0, RA), Illegal}
LoadsReg(i) == IF i.op \in {"LW", "LWL"} THEN {i.rt} ELSE {}
Uses(i) == {i.rs} \cup (IF i.op \in {"ADDU", "SW", "BNE"} THEN {i.rt} ELSE {})
Jumps(i) == i.op \in {"BNE", "BCOND", "JAL", "JALR"}
\* No load is used in the instruction behind it, and no delay slot branches or traps.
WellFormed(list) ==
  \A k \in 1 .. Len(list) - 1 :
    /\ LoadsReg(list[k]) \cap Uses(list[k + 1]) = {}
    /\ Jumps(list[k]) => ~Jumps(list[k + 1]) /\ list[k + 1].op # "ILLEGAL" /\ LoadsReg(list[k + 1]) = {}
Mixed == {list \in [1 .. 3 -> Alphabet] : WellFormed(list) /\ ~Jumps(list[3])}
Behind == Start + 12
MixedPrograms ==
  {Runs(list, (A0 :> DataAt) @@ (A1 :> Behind) @@ (T0 :> 7) @@ (T1 :> 7), 1) : list \in Mixed}

\* Every branch and jump, every exception.
Turns ==
  {<<I(op, T0, 0, 2), Nop, I("ADDIU", T1, T1, 1)>> : op \in {"BEQ", "BNE", "BLEZ", "BGTZ"}}
  \cup {<<I("BCOND", T0, n, 2), Nop, I("ADDIU", T1, T1, 1)>> : n \in {0, 1, 16, 17}}
  \cup {<<I("J", 0, 0, Behind \div 4), I("ADDIU", T1, T1, 1), Illegal>>, <<R("JR", A1, 0, 0), Nop, Nop>>,
         <<R("SYSCALL", 0, 0, 0), R("BREAK", 0, 0, 0), I("ADDIU", T1, T1, 1)>>}
TurnPrograms == {Runs(list, (A1 :> Behind) @@ (T0 :> x), 1) : list \in Turns, x \in {0, 1, W - 1}}

\* Critical sections: by Status, with the cache isolated, and by I_CTRL.
On  == 1 + 2 ^ Im
Off == 2 ^ Im + 2 ^ IsC
Sections == {
  <<R("ADDU", T0, T1, Zero), I("LW", A0, Zero, 4), R("ADDU", Zero, A0, T1)>>,
  <<R("MTC0", 0, T0, Status), I("SW", A0, T1, 0), I("LW", A0, T0, 4), I("SB", A0, T1, 4), R("MTC0", 0, T1, Status)>>,
  <<I("LW", Zero, T0, -4), I("ADDIU", T1, T1, 1), I("ADDIU", T1, T1, 1), I("SW", Zero, T0, -4)>>,
  <<I("LW", Zero, T0, -8), I("LHU", Zero, T1, -12), I("SW", Zero, Zero, -8), I("SW", Zero, T0, -8)>> }
SectionPrograms == {Runs(list, (A0 :> DataAt) @@ (T0 :> Off) @@ (T1 :> On), 1) : list \in Sections}

\* The timer, with and without a reset at the target, and its flags read.
Timings == {
  <<I("SW", Zero, T1, -24), I("SW", Zero, T0, -28)>>,
  <<I("SW", Zero, T0, -28), I("SW", Zero, T1, -24), I("LW", Zero, T1, -28), I("SW", Zero, Zero, -32)>> }
TimerPrograms ==
  {Runs(list, (T0 :> x) @@ (T1 :> 9), 2) :
     list \in Timings, x \in {2 ^ CompareIntr + 2 ^ ResetOnIntr, 2 ^ CompareIntr + 2 ^ OverflowIntr + 2 ^ Levl}}

MCPrograms ==
  SumPrograms \cup MemoryPrograms \cup MixedPrograms \cup TurnPrograms \cup SectionPrograms \cup TimerPrograms
=============================================================================
