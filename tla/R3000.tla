------------------------------- MODULE R3000 -------------------------------
(***************************************************************************)
(* What a program is promised by an R3000: its instructions one after the  *)
(* other, each branch with its delay slot, and nothing of the interrupts   *)
(* that come in between.  A load has its result at once, which only a      *)
(* program that uses it in the instruction behind could tell.  Exceptions  *)
(* the kernel returns from pass the instruction that raised them.          *)
(***************************************************************************)
EXTENDS Words, FiniteSetsExt

CONSTANTS Hidden   \* the registers that belong to the kernel

VARIABLES
  code,            \* from addresses to instructions
  at, after,       \* the instruction to execute, and the one behind it
  regs, hi, lo,
  mem,             \* the words of data
  mode, isolated   \* of Status: the current and previous mode, and IsC

State == <<code, at, after, regs, hi, lo, mem, mode, isolated>>

ins == code[at]
RS  == regs[ins.rs]
RT  == regs[ins.rt]

\* The number with the bits of f, and the word with its bytes.
Number(f) == FoldSet(LAMBDA k, sum : sum + f[k] * 2 ^ k, 0, DOMAIN f)
Bits(op(_)) == Number([k \in 0 .. WordBits - 1 |-> op(k)])
ByteOf(x, n) == (x \div B ^ n) % B
Bytes(f) == FoldSet(LAMBDA n, sum : sum + f[n] * B ^ n, 0, 0 .. 3)

And(x, y) == LET bit(k) == Bit(x, k) * Bit(y, k) IN Bits(bit)
Or(x, y)  == LET bit(k) == IF Bit(x, k) = 1 THEN 1 ELSE Bit(y, k) IN Bits(bit)
Xor(x, y) == LET bit(k) == IF Bit(x, k) = Bit(y, k) THEN 0 ELSE 1 IN Bits(bit)
Nor(x, y) == LET bit(k) == IF Bit(x, k) + Bit(y, k) = 0 THEN 1 ELSE 0 IN Bits(bit)
Left(x, n)  == LET bit(k) == IF k < n THEN 0 ELSE Bit(x, k - n) IN Bits(bit)
Right(x, n, top) ==
  LET bit(k) == IF k + n < WordBits THEN Bit(x, k + n) ELSE top IN Bits(bit)
Top(x) == Bit(x, WordBits - 1)
ImmS == Signed(ins.imm, H)

\* The remainder of a division that rounds towards zero: it has the sign of x.
Absolute(x) == IF x < 0 THEN -x ELSE x
Remainder(x, y) ==
  CHOOSE r \in (1 - Absolute(y)) .. (Absolute(y) - 1) : (x - r) % Absolute(y) = 0 /\ (r = 0 \/ (r < 0) = (x < 0))

\* Register, value.
Result ==
  LET to == IF ins.op \in {"ADDI", "ADDIU", "SLTI", "SLTIU", "ANDI", "ORI", "XORI", "LUI"}
            THEN ins.rt ELSE ins.rd
      n  == RS % WordBits
      value ==
        CASE ins.op \in {"ADD", "ADDU"}   -> (RS + RT) % W
          [] ins.op \in {"SUB", "SUBU"}   -> (RS - RT) % W
          [] ins.op \in {"ADDI", "ADDIU"} -> (RS + ImmS) % W
          [] ins.op = "SLT"   -> Truth(Int32(RS) < Int32(RT))
          [] ins.op = "SLTU"  -> Truth(RS < RT)
          [] ins.op = "SLTI"  -> Truth(Int32(RS) < ImmS)
          [] ins.op = "SLTIU" -> Truth(RS < ImmS % W)
          [] ins.op = "AND"   -> And(RS, RT)
          [] ins.op = "ANDI"  -> And(RS, ins.imm)
          [] ins.op = "OR"    -> Or(RS, RT)
          [] ins.op = "ORI"   -> Or(RS, ins.imm)
          [] ins.op = "XOR"   -> Xor(RS, RT)
          [] ins.op = "XORI"  -> Xor(RS, ins.imm)
          [] ins.op = "NOR"   -> Nor(RS, RT)
          [] ins.op = "LUI"   -> Left(ins.imm, WordBits \div 2)
          [] ins.op = "SLL"   -> Left(RT, ins.sa)
          [] ins.op = "SLLV"  -> Left(RT, n)
          [] ins.op = "SRL"   -> Right(RT, ins.sa, 0)
          [] ins.op = "SRLV"  -> Right(RT, n, 0)
          [] ins.op = "SRA"   -> Right(RT, ins.sa, Top(RT))
          [] ins.op = "SRAV"  -> Right(RT, n, Top(RT))
          [] ins.op = "MFHI"  -> hi
          [] ins.op = "MFLO"  -> lo
  IN [reg |-> to, value |-> value]

Computing ==
  {"ADD", "ADDU", "SUB", "SUBU", "ADDI", "ADDIU", "SLT", "SLTU", "SLTI", "SLTIU", "AND", "ANDI",
   "OR", "ORI", "XOR", "XORI", "NOR", "LUI", "SLL", "SLLV", "SRL", "SRLV", "SRA", "SRAV", "MFHI", "MFLO"}
Doubles == {"MULT", "MULTU", "DIV", "DIVU", "MTHI", "MTLO"}
Branching == {"BEQ", "BNE", "BLEZ", "BGTZ", "BCOND", "J", "JAL", "JR", "JALR"}
Loading == {"LB", "LBU", "LH", "LHU", "LW", "LWL", "LWR"}
Storing == {"SB", "SH", "SW", "SWL", "SWR"}
Trapping == {"SYSCALL", "BREAK", "ILLEGAL"}

Sets(reg, value) == regs' = [r \in DOMAIN regs |-> IF r = reg /\ r # 0 THEN value ELSE regs[r]]
Goes(to) == at' = after /\ after' = to /\ UNCHANGED code
GoesOn == Goes((after + 4) % W)

Compute ==
  /\ ins.op \in Computing /\ GoesOn
  /\ Sets(Result.reg, Result.value)
  /\ UNCHANGED <<hi, lo, mem, mode, isolated>>

\* Quotient and remainder; the one quotient that is too large keeps its low word.
Divides(x, y) ==
  /\ hi' = Remainder(x, y) % W
  /\ IF y = -1 THEN lo' = (-x) % W ELSE Int32(lo') * y + Int32(hi') = x

\* A product, or quotient and remainder, in two words.
Double ==
  /\ ins.op \in Doubles /\ GoesOn
  /\ LET x == Int32(RS)
         y == Int32(RT)
     IN CASE ins.op = "MULT"  -> (Int32(hi') * W + lo' = x * y)
          [] ins.op = "MULTU" -> (hi' * W + lo' = RS * RT)
          [] ins.op = "DIV" /\ y # 0  -> Divides(x, y)
          [] ins.op = "DIVU" /\ y # 0 -> lo' * RT + hi' = RS /\ hi' < RT
          [] ins.op \in {"DIV", "DIVU"} /\ y = 0 -> hi' = RS
          [] ins.op = "MTHI"  -> hi' = RS /\ lo' = lo
          [] ins.op = "MTLO"  -> lo' = RS /\ hi' = hi
  /\ UNCHANGED <<regs, mem, mode, isolated>>

Taken ==
  CASE ins.op = "BEQ"   -> RS = RT
    [] ins.op = "BNE"   -> RS # RT
    [] ins.op = "BLEZ"  -> Int32(RS) <= 0
    [] ins.op = "BGTZ"  -> Int32(RS) > 0
    [] ins.op = "BCOND" -> (Int32(RS) < 0) = (ins.rt % 2 = 0)
    [] OTHER            -> TRUE
Destination ==
  CASE ins.op \in {"J", "JAL"}   -> (after - (after % (W \div 16))) + 4 * ins.imm
    [] ins.op \in {"JR", "JALR"} -> RS
    [] OTHER                     -> (after + 4 * ImmS) % W
Branch ==
  /\ ins.op \in Branching
  /\ Goes(IF Taken THEN Destination ELSE (after + 4) % W)
  /\ IF ins.op = "JAL" \/ (ins.op = "BCOND" /\ ins.rt \in {16, 17}) THEN Sets(31, (at + 8) % W)
     ELSE IF ins.op = "JALR" THEN Sets(ins.rd, (at + 8) % W) ELSE UNCHANGED regs
  /\ UNCHANGED <<hi, lo, mem, mode, isolated>>

\* The bytes of memory, little end first.
Address == (RS + ImmS) % W
Size == CASE ins.op \in {"LB", "LBU", "SB"} -> 1 [] ins.op \in {"LH", "LHU", "SH"} -> 2
          [] ins.op \in {"LW", "SW"} -> 4 [] OTHER -> 1
Memory(a) == ByteOf(mem[Aligned(a)], a % 4)
Here == Address % 4
Read ==
  LET sign(top) == IF ins.op \in {"LB", "LH"} /\ top >= B \div 2 THEN B - 1 ELSE 0
      byte(n) ==
        CASE ins.op = "LWL" -> IF n >= 3 - Here THEN Memory(Address - (3 - n)) ELSE ByteOf(RT, n)
          [] ins.op = "LWR" -> IF n <= 3 - Here THEN Memory(Address + n) ELSE ByteOf(RT, n)
          [] n < Size       -> Memory(Address + n)
          [] OTHER          -> sign(Memory(Address + Size - 1))
  IN Bytes([n \in 0 .. 3 |-> byte(n)])

Data == Aligned(Address) \in DOMAIN mem

\* An isolated cache takes part in no access of the aligned kind, and a wrong address is
\* an exception.
Ignored ==
  \/ isolated /\ ins.op \notin {"LWL", "LWR", "SWL", "SWR"}
  \/ Address % Size # 0
Load ==
  /\ ins.op \in Loading /\ GoesOn
  /\ IF Ignored THEN UNCHANGED regs
     ELSE IF Data THEN Sets(ins.rt, Read)
     ELSE \A r \in DOMAIN regs \ {ins.rt} : regs'[r] = regs[r]
  /\ UNCHANGED <<hi, lo, mem, mode, isolated>>

Stored(a) ==
  CASE ins.op = "SWL" /\ a % 4 <= Here -> ByteOf(RT, (a % 4) + (3 - Here))
    [] ins.op = "SWR" /\ a % 4 >= Here -> ByteOf(RT, (a % 4) - Here)
    [] ins.op \notin {"SWL", "SWR"} /\ a \in Address .. Address + Size - 1 -> ByteOf(RT, a - Address)
    [] OTHER -> Memory(a)
Store ==
  /\ ins.op \in Storing /\ GoesOn
  /\ mem' = IF ~Data \/ Ignored THEN mem
            ELSE LET w == Aligned(Address)
                 IN [mem EXCEPT ![w] = Bytes([n \in 0 .. 3 |-> Stored(w + n)])]
  /\ UNCHANGED <<regs, hi, lo, mode, isolated>>

\* The kernel returns behind the instruction.
Trap == ins.op \in Trapping /\ GoesOn /\ UNCHANGED <<regs, hi, lo, mem, mode, isolated>>

SetStatus ==
  /\ ins.op = "MTC0" /\ GoesOn
  /\ mode' = RT % 16 /\ isolated' = (Bit(RT, 9) = 1)
  /\ UNCHANGED <<regs, hi, lo, mem>>

\* An interrupt came in front of a delay slot: the branch is executed again.
Rewind ==
  /\ (at - 4) \in DOMAIN code /\ code[at - 4].op \in Branching
  /\ at' = at - 4 /\ after' = at
  /\ UNCHANGED <<code, regs, hi, lo, mem, mode, isolated>>

Init == after = at + 4 /\ regs[0] = 0
Next == Compute \/ Double \/ Branch \/ Load \/ Store \/ Trap \/ SetStatus \/ Rewind
Spec == Init /\ [][Next]_State
=============================================================================
