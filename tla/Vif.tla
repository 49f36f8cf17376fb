-------------------------------- MODULE Vif --------------------------------
(***************************************************************************)
(* A VU interface: src/cpu/vu/vif.cc.  It takes packets from its FIFO, one *)
(* word at a time: a command, and as many words of data as the command     *)
(* says.  Nothing in the stream marks what is a command.                   *)
(*                                                                         *)
(* A word is a command as the VIF decodes it.  A word of data is one that  *)
(* decodes to no command, with its value in imm.  Addresses count          *)
(* quadwords of VU data memory, or words of VU code memory.                *)
(***************************************************************************)
EXTENDS Integers, SequencesExt

CONSTANTS
  Id,             \* 0 or 1: which of the two VIFs
  VifStreams,     \* what programs send: sequences of packets [head, body]
  VifWords,       \* capacity of the FIFO, in words
  WordCycles,     \* words the VIF takes in one tick
  VuQwords,       \* quadwords of VU data memory
  NumLimit,       \* what NUM, eight bits wide, wraps at
  Garbage,        \* what the uninitialised CYCLE register may hold
  VifResets       \* bound on how often the program resets the VIF

VARIABLES
  vif_fifo, command, subpacket_count, address, qwords_written, word_cycles,
  vif,        \* the registers commands write
  data, code, \* the VU's memories
  vif_halted, \* terminate was called or an assertion failed
  vif_stream,     \* the packets being sent,
  vif_sent,       \* how many of their words the VIF was given,
  vif_resets,     \* how often it was reset,
  vif_origin      \* and what it and the VU's memories held when the stream began

parser  == <<command, subpacket_count, address, qwords_written>>
memory  == <<data, code>>
sender  == <<vif_stream, vif_sent, vif_resets, vif_origin>>
vifVars == <<vif_fifo, parser, word_cycles, vif, memory, vif_halted, sender>>

Immediates == {"NOP", "STCYCL", "OFFSET", "BASE", "ITOP", "STMOD", "MSKPATH3", "MARK", "FLUSHE"}
DataCommands == {"STMASK", "STROW", "STCOL", "MPG", "UNPACK"}
Commands   == Immediates \cup DataCommands \cup {"unknown"}
UnpackFormats    == {"S_32", "V4_32", "other"}

Word == [command : Commands, num : 0 .. NumLimit - 1, imm : Nat, format : UnpackFormats,
         flg : BOOLEAN, cl : Nat, wl : Nat]

VifRegs ==
  [cl : Nat, wl : Nat, ofst : Nat, base : Nat, tops : Nat, itop : Nat, mode : Nat, mark : Nat,
   mask : Nat, rn : [1 .. 4 -> Nat], cn : [1 .. 4 -> Nat]]

VuData == [0 .. VuQwords - 1 -> [1 .. 4 -> Nat]]
VuCode == [0 .. 4 * VuQwords - 1 -> Nat]

Results(d, c, v) == [data |-> d, code |-> c, mask |-> v.mask, rn |-> v.rn, cn |-> v.cn, base |-> v.base]

NoCommand == [command |-> "NOP", num |-> 0, imm |-> 0, format |-> "S_32", flg |-> FALSE,
              cl |-> 0, wl |-> 0]
Payload(value) == [NoCommand EXCEPT !.command = "unknown", !.imm = value]

Four(value) == [i \in 1 .. 4 |-> value]
ResetRegs   == [cl |-> 0, wl |-> 0, ofst |-> 0, base |-> 0, tops |-> 0, itop |-> 0, mode |-> 0,
                mark |-> 0, mask |-> 0, rn |-> Four(0), cn |-> Four(0)]
ResetMemory == [data |-> [a \in 0 .. VuQwords - 1 |-> Four(0)],
                code |-> [a \in 0 .. 4 * VuQwords - 1 |-> 0]]

\* Mutant of Expected: MPG counts words.
ExpectedWords(c) ==
  CASE c.command = "STMASK"           -> 1
    [] c.command \in {"STROW", "STCOL"} -> 4
    [] c.command = "MPG"              -> IF c.num # 0 THEN c.num ELSE NumLimit
    [] c.command = "UNPACK"           -> (IF c.format = "V4_32" THEN 4 ELSE 1) * c.num

\* How many words of data follow a command.
Expected(c) ==
  CASE c.command = "STMASK"           -> 1
    [] c.command \in {"STROW", "STCOL"} -> 4
    [] c.command = "MPG"              -> 2 * (IF c.num # 0 THEN c.num ELSE NumLimit)
    [] c.command = "UNPACK"           -> (IF c.format = "V4_32" THEN 4 ELSE 1) * c.num

\* What programs put behind a command, in words: a mask, a row or a column of fields, both
\* halves of NUM instructions (zero stands for the limit), or NUM quadwords or fields.
DataWords(c) ==
  [STMASK |-> 1, STROW |-> 4, STCOL |-> 4,
   MPG    |-> 2 * (IF c.num = 0 THEN NumLimit ELSE c.num),
   UNPACK |-> c.num * (IF c.format = "V4_32" THEN 4 ELSE 1)][c.command]

\* A packet is a command and its data: none behind one that carries its operand, and
\* anything behind one the VIF does not know.
ASSUME VifStreamsAssumption ==
  \A packets \in VifStreams :
    /\ packets \in Seq([head : Word, body : Seq(Word)])
    /\ \A k \in DOMAIN packets :
         LET p == packets[k]
         IN /\ p.head.command \in Immediates => p.body = <<>>
            /\ p.head.command \in DataCommands => Len(p.body) = DataWords(p.head)
ASSUME VifSizesAssumption ==
  /\ VifWords \in Nat /\ WordCycles \in Nat /\ VuQwords \in Nat \ {0} /\ NumLimit \in Nat \ {0}
  /\ Garbage \subseteq Nat \X Nat

\* The words of a sequence of packets.
Wire(packets) == FlattenSeq([k \in DOMAIN packets |-> <<packets[k].head>> \o packets[k].body])
WireLength    == Len(Wire(vif_stream))

VifTypeOK ==
  /\ vif_fifo \in Seq(Word) /\ Len(vif_fifo) <= VifWords
  /\ command \in Word
  /\ subpacket_count \in Nat /\ address \in Int /\ qwords_written \in Nat
  /\ word_cycles \in 0 .. WordCycles
  /\ data \in VuData /\ code \in VuCode
  /\ vif \in VifRegs
  /\ vif_halted \in BOOLEAN /\ vif_stream \in VifStreams /\ vif_sent \in 0 .. WireLength

VifInit ==
  /\ vif_fifo = <<>> /\ command = NoCommand
  /\ subpacket_count = 0 /\ address = 0 /\ qwords_written = 0 /\ word_cycles = 0
  /\ vif \in {[ResetRegs EXCEPT !.cl = c[1], !.wl = c[2]] : c \in Garbage}
  /\ data = ResetMemory.data /\ code = ResetMemory.code
  /\ vif_halted = FALSE
  /\ vif_stream \in VifStreams /\ vif_sent = 0 /\ vif_resets = 0
  /\ vif_origin = Results(ResetMemory.data, ResetMemory.code, ResetRegs)

-----------------------------------------------------------------------------
(* The sender: the DMA controller, or the program itself.  Both run        *)
(* between two ticks of the VIF.                                           *)

Between == word_cycles = 0 /\ ~vif_halted
Fits(n) == Len(vif_fifo) + n <= VifWords
Next_(n) == SubSeq(Wire(vif_stream), vif_sent + 1, vif_sent + n)

\* write_fifo from the DMA controller: half a quadword or a whole one, again and
\* again until it fits.
Feed(n) ==
  /\ Between
  /\ vif_sent + n <= WireLength /\ Fits(n)
  /\ vif_fifo' = vif_fifo \o Next_(n)
  /\ vif_sent' = vif_sent + n
  /\ UNCHANGED <<parser, word_cycles, vif, memory, vif_halted, vif_stream, vif_resets, vif_origin>>

\* The field of VIF_STAT, in quadwords.
FifoCount == Len(vif_fifo) \div 4

\* write_fifo from a program that looked at VIF_STAT: nobody asks whether the
\* quadword fits.  The count is rounded down, so the program must leave a quadword
\* of room beyond the one it writes.
Store ==
  /\ Between
  /\ vif_sent + 4 <= WireLength
  /\ FifoCount < VifWords \div 4 - 1
  /\ vif_fifo' = IF Fits(4) THEN vif_fifo \o Next_(4) ELSE vif_fifo
  /\ vif_sent' = vif_sent + 4
  /\ UNCHANGED <<parser, word_cycles, vif, memory, vif_halted, vif_stream, vif_resets, vif_origin>>

\* Mutant of Reset: the data a command still waits for are not forgotten.
ResetKeepsCount ==
  /\ Between /\ vif_resets < VifResets
  /\ vif_fifo' = <<>> /\ command' = NoCommand
  /\ address' = 0 /\ qwords_written' = 0
  /\ vif' = ResetRegs
  /\ vif_stream' \in VifStreams /\ vif_sent' = 0 /\ vif_resets' = vif_resets + 1
  /\ vif_origin' = Results(data, code, ResetRegs)
  /\ UNCHANGED <<word_cycles, memory, vif_halted, subpacket_count>>

\* VIF::reset, which FBRST asks for, in the middle of anything; the program then
\* sends something else.
Reset ==
  /\ Between /\ vif_resets < VifResets
  /\ vif_fifo' = <<>> /\ command' = NoCommand
  /\ subpacket_count' = 0 /\ address' = 0 /\ qwords_written' = 0
  /\ vif' = ResetRegs
  /\ vif_stream' \in VifStreams /\ vif_sent' = 0 /\ vif_resets' = vif_resets + 1
  /\ vif_origin' = Results(data, code, ResetRegs)
  /\ UNCHANGED <<word_cycles, memory, vif_halted>>

-----------------------------------------------------------------------------
(* VIF::tick: as many turns as there are words and cycles.                 *)

VifTick ==
  /\ Between /\ vif_fifo # <<>>
  /\ word_cycles' = WordCycles
  /\ UNCHANGED <<vif_fifo, parser, vif, memory, vif_halted, sender>>

\* A turn that takes n words.
Turn == word_cycles > 0 /\ vif_fifo # <<>> /\ ~vif_halted /\ UNCHANGED sender
Take(n) ==
  /\ vif_fifo' = SubSeq(vif_fifo, n + 1, Len(vif_fifo))
  /\ LET left == IF n <= word_cycles THEN word_cycles - n ELSE 0
     IN word_cycles' = IF vif_fifo' = <<>> THEN 0 ELSE left

Halt == vif_halted' = TRUE /\ UNCHANGED <<vif_fifo, parser, word_cycles, vif, memory>>

Head_ == Head(vif_fifo)
ReadsCommand(commands) == Turn /\ subpacket_count = 0 /\ Head_.command \in commands
ReadsData(commands)    == Turn /\ subpacket_count > 0 /\ command.command \in commands

\* A command that carries its operand.
Immediate ==
  /\ ReadsCommand(Immediates)
  /\ command' = Head_
  /\ vif' = CASE Head_.command = "STCYCL" -> [vif EXCEPT !.cl = Head_.cl, !.wl = Head_.wl]
              [] Head_.command = "OFFSET" -> [vif EXCEPT !.ofst = Head_.imm, !.base = vif.tops]
              [] Head_.command = "BASE"   -> [vif EXCEPT !.base = Head_.imm]
              [] Head_.command = "ITOP"   -> [vif EXCEPT !.itop = Head_.imm]
              [] Head_.command = "STMOD"  -> [vif EXCEPT !.mode = Head_.imm]
              [] Head_.command = "MARK"   -> [vif EXCEPT !.mark = Head_.imm]
              [] OTHER                    -> vif
  /\ Take(1)
  /\ UNCHANGED <<subpacket_count, address, qwords_written, memory, vif_halted>>

\* A command whose data follow.
Announce ==
  /\ ReadsCommand({"STMASK", "STROW", "STCOL", "MPG"})
  /\ command' = Head_ /\ subpacket_count' = Expected(Head_)
  /\ address' = IF Head_.command = "MPG" THEN 2 * Head_.imm ELSE address
  /\ Take(1)
  /\ UNCHANGED <<qwords_written, vif, memory, vif_halted>>

\* process_unpack, with its assertions.
Implemented == vif.mode = 0 /\ vif.cl >= vif.wl

AnnounceUnpack ==
  /\ ReadsCommand({"UNPACK"}) /\ Implemented
  /\ command' = Head_ /\ subpacket_count' = Expected(Head_)
  /\ address' = Head_.imm + (IF Head_.flg THEN vif.tops ELSE 0)
  /\ qwords_written' = 0
  /\ Take(1)
  /\ UNCHANGED <<vif, memory, vif_halted>>

Unimplemented ==
  /\ \/ ReadsCommand({"unknown"})
     \/ ReadsCommand({"UNPACK"}) /\ ~Implemented
     \/ ReadsData({"UNPACK"}) /\ command.format = "other"
     \/ ReadsData({"MPG"}) /\ Id = 0
  /\ Halt

\* execute_command: one word of data.
SetMask ==
  /\ ReadsData({"STMASK"})
  /\ vif' = [vif EXCEPT !.mask = Head_.imm]
  /\ subpacket_count' = subpacket_count - 1
  /\ Take(1)
  /\ UNCHANGED <<command, address, qwords_written, memory, vif_halted>>

SetRow ==
  /\ ReadsData({"STROW", "STCOL"})
  /\ vif' = IF command.command = "STROW"
            THEN [vif EXCEPT !.rn[5 - subpacket_count] = Head_.imm]
            ELSE [vif EXCEPT !.cn[5 - subpacket_count] = Head_.imm]
  /\ subpacket_count' = subpacket_count - 1
  /\ Take(1)
  /\ UNCHANGED <<command, address, qwords_written, memory, vif_halted>>

Microcode ==
  /\ ReadsData({"MPG"}) /\ Id = 1
  /\ code' = [code EXCEPT ![address % (4 * VuQwords)] = Head_.imm]
  /\ address' = address + 1
  /\ subpacket_count' = subpacket_count - 1
  /\ Take(1)
  /\ UNCHANGED <<command, qwords_written, vif, data, vif_halted>>

\* Mutant of Step: a packet always skips.
StepSkips == address' = address + 1 + vif.cl - qwords_written'

\* Where the next quadword goes: CL quadwords in a row, and then on by what is left
\* of CL, which is nothing at first and negative afterwards.
Step ==
  address' = address + 1 + (IF qwords_written' >= vif.cl THEN vif.cl - qwords_written' ELSE 0)

\* unpack_packet: one quadword into VU memory.
Unpacked(words, qword) ==
  /\ data' = [data EXCEPT ![address % VuQwords] = qword]
  /\ qwords_written' = qwords_written + 1
  /\ Step
  /\ subpacket_count' = subpacket_count - words
  /\ Take(words)
  /\ UNCHANGED <<command, vif, code, vif_halted>>

UnpackS32 ==
  /\ ReadsData({"UNPACK"}) /\ command.format = "S_32"
  /\ Unpacked(1, Four(Head_.imm))

UnpackV4 ==
  /\ ReadsData({"UNPACK"}) /\ command.format = "V4_32" /\ Len(vif_fifo) >= 4
  /\ Unpacked(4, [i \in 1 .. 4 |-> vif_fifo[i].imm])

\* A quadword that is not all there: the turns are used up waiting.
Spin ==
  /\ ReadsData({"UNPACK"}) /\ command.format = "V4_32" /\ Len(vif_fifo) < 4
  /\ word_cycles' = word_cycles - 1
  /\ UNCHANGED <<vif_fifo, parser, vif, memory, vif_halted>>

VifTurn ==
  \/ Immediate \/ Announce \/ AnnounceUnpack \/ Unimplemented
  \/ SetMask \/ SetRow \/ Microcode \/ UnpackS32 \/ UnpackV4 \/ Spin

VifSends == Feed(2) \/ Feed(4) \/ Store
VifNext  == VifSends \/ Reset \/ VifTick \/ VifTurn

VifFair == WF_vifVars(VifTick) /\ WF_vifVars(VifTurn) /\ SF_vifVars(Feed(2))
VifSpec == VifInit /\ [][VifNext]_vifVars /\ VifFair

-----------------------------------------------------------------------------
(* What a packet means as a whole: NUM zero stands for the limit, and the  *)
(* quadwords of an UNPACK lie one behind the other.                        *)

Put(f, at, values) ==
  [a \in DOMAIN f |-> LET i == a - at IN IF i + 1 \in DOMAIN values THEN values[i + 1] ELSE f[a]]

Quadwords(p) ==
  IF p.head.format = "V4_32"
  THEN [q \in 1 .. p.head.num |-> [i \in 1 .. 4 |-> p.body[4 * (q - 1) + i].imm]]
  ELSE [q \in 1 .. p.head.num |-> Four(p.body[q].imm)]

Meaning(s, p) ==
  LET values == [i \in DOMAIN p.body |-> p.body[i].imm]
      c == p.head
  IN CASE c.command = "MPG"    -> [s EXCEPT !.code = Put(s.code, 2 * c.imm, values)]
       [] c.command = "UNPACK" -> [s EXCEPT !.data = Put(s.data, c.imm, Quadwords(p))]
       [] c.command = "STMASK" -> [s EXCEPT !.mask = values[1]]
       [] c.command = "STROW"  -> [s EXCEPT !.rn = values]
       [] c.command = "STCOL"  -> [s EXCEPT !.cn = values]
       [] c.command = "BASE"   -> [s EXCEPT !.base = c.imm]
       [] c.command = "OFFSET" -> [s EXCEPT !.base = 0]
       [] OTHER                -> s

Consumed == vif_sent - Len(vif_fifo)
StartOf(k) == Len(Wire(SubSeq(vif_stream, 1, k - 1)))

\* The VIF takes for commands what was sent as commands, and for data what was sent
\* as data, however the stream is cut into pushes, whoever pushes it, whenever the
\* FIFO is full, and after a reset in the middle of a packet; every variable keeps its
\* type.
VifAligned ==
  /\ VifTypeOK
  /\ ~vif_halted =>
    IF subpacket_count = 0
    THEN \E k \in 1 .. Len(vif_stream) + 1 : Consumed = StartOf(k)
    ELSE \E k \in 1 .. Len(vif_stream) :
           /\ command = vif_stream[k].head
           /\ StartOf(k) < Consumed /\ Consumed + subpacket_count = StartOf(k + 1)

\* What the first k - 1 packets say together.
Said ==
  LET after[k \in 1 .. Len(vif_stream) + 1] ==
        IF k = 1 THEN vif_origin ELSE Meaning(after[k - 1], vif_stream[k - 1])
  IN after

\* Nothing a program sends to a memory wraps around its end, and an UNPACK writes at most
\* one quadword more than the CL that the program has set before.
LastCycle(j, k) ==
  vif_stream[j].head.command = "STCYCL" /\ \A i \in j + 1 .. k - 1 : vif_stream[i].head.command # "STCYCL"
Contiguous ==
  \A k \in DOMAIN vif_stream :
    LET c == vif_stream[k].head
    IN /\ c.command = "MPG" => 2 * c.imm + DataWords(c) <= 4 * VuQwords
       /\ c.command = "UNPACK" =>
            /\ c.imm + c.num <= VuQwords
            /\ c.num <= 1 \/ \E j \in 1 .. k - 1 : LastCycle(j, k) /\ c.num <= vif_stream[j].head.cl + 1

\* When the VIF has taken so many packets, its registers and the VU's memories are
\* what these packets say, if they are contiguous.
VifFaithful ==
  subpacket_count = 0 /\ ~vif_halted /\ Contiguous =>
    \A k \in 1 .. Len(vif_stream) + 1 :
      Consumed = StartOf(k) => Results(data, code, vif) = Said[k]

\* The stream is taken to its end.
VifDone == (Consumed = WireLength /\ subpacket_count = 0) \/ vif_halted
=============================================================================
