------------------------------- MODULE EeDmac -------------------------------
(***************************************************************************)
(* The EE's DMA controller, ee::DMAController of src/cpu/ee/dmac.cc: ten   *)
(* channels that move quadwords between EE RAM and the FIFOs of VIF0,      *)
(* VIF1, the GIF and the two SIF directions, following DMAtag chains, and  *)
(* that flag completed transfers in D_STAT and on the INT1 line of COP0.   *)
(*                                                                         *)
(* RAM addresses are quadword numbers.  A quadword is four words, and the  *)
(* decoding of a DMAtag from two of them is a parameter.  One step of the  *)
(* module is one visit of DMAController::tick's loop body to one channel,  *)
(* or one register write by the EE's program.                              *)
(***************************************************************************)
EXTENDS Integers, Sequences

CONSTANTS
  Word,         \* the 32-bit words
  EeTag,        \* the DMAtag that the low and the high word of a tag encode
  RamQwords,    \* the size of EE RAM (0x2000000 / 16 in the program)
  OutsideRam,   \* what the host holds past the end of EE RAM
  FifoWords,    \* the capacity of the VIF and GIF FIFOs (64)
  TadrWrap      \* where the 30-bit address field of Dn_TADR wraps (2^26)

VIF0 == 0
VIF1 == 1
GIF  == 2
SIF0 == 5
SIF1 == 6
Channels == 0 .. 9

Qword   == [1 .. 4 -> Word]
Address == 0 .. RamQwords - 1

TagIds == {"REFE", "CNT", "NEXT", "REF", "REFS", "CALL", "RET", "END"}
DmaTag == [qwc : Nat, id : TagIds, irq : BOOLEAN, addr : Nat]

\* The fields of Dn_CHCR the controller looks at.
Control == [running : BOOLEAN, mode : 0 .. 3, tte : BOOLEAN, tie : BOOLEAN]

Channel == [running : BOOLEAN, mode : 0 .. 3, tte : BOOLEAN, tie : BOOLEAN,
            madr : Nat, qwc : Nat, tadr : Nat, end : BOOLEAN]

ASSUME EeTagAssumption == EeTag \in [Word \X Word -> DmaTag]
ASSUME RamAssumption == RamQwords \in Nat \ {0} /\ OutsideRam \in Qword
ASSUME FifoAssumption == FifoWords \in Nat
ASSUME WrapAssumption == TadrWrap \in Nat \ {0}

VARIABLES
  chan,         \* channels: control, address, qword_count, tag_address, end_transfer
  irq,          \* the channels flagged in D_STAT (d_stat.channel_irq)
  irq_mask,     \* the channels D_STAT lets interrupt (d_stat.channel_irq_mask)
  suspended,    \* bit 16 of D_ENABLEW
  ip1_pending,  \* COP0.Cause: INT1 asserted
  ram,          \* EE RAM
  vif_fifo,     \* the words queued in each VIF
  gif_fifo,     \* the words queued in the GIF (PATH3)
  sif0_fifo,    \* IOP to EE
  sif1_fifo,    \* EE to IOP
  halted        \* Emulator::terminate was called or an assert failed

regs   == <<chan, irq, irq_mask, suspended, ip1_pending>>
fifos  == <<vif_fifo, gif_fifo, sif0_fifo, sif1_fifo>>
vars   == <<regs, ram, fifos, halted>>

TypeOK ==
  /\ chan \in [Channels -> Channel]
  /\ irq \subseteq Channels
  /\ irq_mask \subseteq Channels
  /\ suspended \in BOOLEAN
  /\ ip1_pending \in BOOLEAN
  /\ ram \in [Address -> Qword]
  /\ vif_fifo \in [{VIF0, VIF1} -> Seq(Word)]
  /\ gif_fifo \in Seq(Word)
  /\ sif0_fifo \in Seq(Word)
  /\ sif1_fifo \in Seq(Word)
  /\ halted \in BOOLEAN

\* A reset controller over a given memory.
InitWith(memory) ==
  /\ chan = [id \in Channels |->
               [running |-> FALSE, mode |-> 0, tte |-> FALSE, tie |-> FALSE,
                madr |-> 0, qwc |-> 0, tadr |-> 0, end |-> FALSE]]
  /\ irq = {} /\ irq_mask = {}
  /\ suspended = FALSE
  /\ ip1_pending = FALSE
  /\ ram = memory
  /\ vif_fifo = [v \in {VIF0, VIF1} |-> <<>>]
  /\ gif_fifo = <<>> /\ sif0_fifo = <<>> /\ sif1_fifo = <<>>
  /\ halted = FALSE

-----------------------------------------------------------------------------
(* Memory.                                                                 *)

Load(a) == IF a \in Address THEN ram[a] ELSE OutsideRam

\* EmotionEngine::write: an address past RAM that no component claims is
\* reported and ignored.
Store(a, qword) == [b \in Address |-> IF b = a THEN qword ELSE ram[b]]

\* The DMAtag at a quadword address.
TagAt(a) == EeTag[<<Load(a)[1], Load(a)[2]>>]

-----------------------------------------------------------------------------
(* Register writes by the EE's program.                                    *)

WriteChcr(id, data) ==
  /\ ~halted
  /\ chan' = [chan EXCEPT ![id].running = data.running, ![id].mode = data.mode,
                          ![id].tte = data.tte, ![id].tie = data.tie]
  /\ UNCHANGED <<irq, irq_mask, suspended, ip1_pending, ram, fifos, halted>>

\* MADR is stored modulo the size of RAM and without its low four bits.
WriteMadr(id, data) ==
  /\ ~halted
  /\ chan' = [chan EXCEPT ![id].madr = (data \div 16) % RamQwords]
  /\ UNCHANGED <<irq, irq_mask, suspended, ip1_pending, ram, fifos, halted>>

WriteQwc(id, data) ==
  /\ ~halted
  /\ chan' = [chan EXCEPT ![id].qwc = data]
  /\ UNCHANGED <<irq, irq_mask, suspended, ip1_pending, ram, fifos, halted>>

WriteTadr(id, data) ==
  /\ ~halted
  /\ chan' = [chan EXCEPT ![id].tadr = data]
  /\ UNCHANGED <<irq, irq_mask, suspended, ip1_pending, ram, fifos, halted>>

\* Cause.ip1_pending is one bit wide: of the ten-bit value assigned to it only
\* bit 0, channel VIF0, is kept.
LowBit(ids) == 0 \in ids

\* A mutant of WriteStat: COP0 is not told.
WriteStatKeepsInt1(clear, reverse) ==
  /\ ~halted
  /\ irq' = irq \ clear
  /\ irq_mask' = (irq_mask \ reverse) \cup (reverse \ irq_mask)
  /\ UNCHANGED <<chan, suspended, ip1_pending, ram, fifos, halted>>

\* D_STAT: ones in the low half clear flags, ones in the high half flip masks.
WriteStat(clear, reverse) ==
  /\ ~halted
  /\ irq' = irq \ clear
  /\ irq_mask' = (irq_mask \ reverse) \cup (reverse \ irq_mask)
  /\ ip1_pending' = LowBit(irq' \cap irq_mask')
  /\ UNCHANGED <<chan, suspended, ram, fifos, halted>>

WriteEnabler(suspend) ==
  /\ ~halted
  /\ suspended' = suspend
  /\ UNCHANGED <<chan, irq, irq_mask, ip1_pending, ram, fifos, halted>>

-----------------------------------------------------------------------------
(* DMAController::tick, the transfer of pending quadwords.                 *)

Active(id) == ~halted /\ ~suspended /\ chan[id].running

\* A mutant of Transferring: the count is tested after it is spent.
TransferringAtZero(id) == Active(id) /\ chan[id].qwc >= 0

Transferring(id) == Active(id) /\ chan[id].qwc > 0

\* A mutant of Moved: the address stays.
MovedInPlace(c) == [c EXCEPT !.qwc = @ - 1]

\* A transfer in normal mode ends with its last quadword.
Moved(c) == [c EXCEPT !.madr = @ + 1, !.qwc = @ - 1]
MovedToPath(c) == [Moved(c) EXCEPT !.end = @ \/ (c.qwc = 1 /\ c.mode = 0)]

\* A mutant of Fits: bytes are counted against the words the FIFO holds.
FitsBytes(fifo, words) == Len(fifo) + 4 * Len(words) <= FifoWords

\* util::Queue::push: all the words fit, or none is taken.
Fits(fifo, words) == Len(fifo) + Len(words) <= FifoWords

TransferVif(id) ==
  /\ Transferring(id) /\ id \in {VIF0, VIF1}
  /\ Fits(vif_fifo[id], Load(chan[id].madr))
  /\ vif_fifo' = [vif_fifo EXCEPT ![id] = @ \o Load(chan[id].madr)]
  /\ chan' = [chan EXCEPT ![id] = MovedToPath(@)]
  /\ UNCHANGED <<irq, irq_mask, suspended, ip1_pending, ram, halted,
                 gif_fifo, sif0_fifo, sif1_fifo>>

TransferGif(id) ==
  /\ Transferring(id) /\ id = GIF
  /\ Fits(gif_fifo, Load(chan[id].madr))
  /\ gif_fifo' = gif_fifo \o Load(chan[id].madr)
  /\ chan' = [chan EXCEPT ![id] = MovedToPath(@)]
  /\ UNCHANGED <<irq, irq_mask, suspended, ip1_pending, ram, halted,
                 vif_fifo, sif0_fifo, sif1_fifo>>

TransferSif0(id) ==
  /\ Transferring(id) /\ id = SIF0
  /\ Len(sif0_fifo) >= 4
  /\ ram' = Store(chan[id].madr, SubSeq(sif0_fifo, 1, 4))
  /\ sif0_fifo' = SubSeq(sif0_fifo, 5, Len(sif0_fifo))
  /\ chan' = [chan EXCEPT ![id] = Moved(@)]
  /\ UNCHANGED <<irq, irq_mask, suspended, ip1_pending, halted,
                 vif_fifo, gif_fifo, sif1_fifo>>

TransferSif1(id) ==
  /\ Transferring(id) /\ id = SIF1
  /\ sif1_fifo' = sif1_fifo \o Load(chan[id].madr)
  /\ chan' = [chan EXCEPT ![id] = Moved(@)]
  /\ UNCHANGED <<irq, irq_mask, suspended, ip1_pending, ram, halted,
                 vif_fifo, gif_fifo, sif0_fifo>>

TransferUnknown(id) ==
  /\ Transferring(id) /\ id \notin {VIF0, VIF1, GIF, SIF0, SIF1}
  /\ halted' = TRUE
  /\ UNCHANGED <<regs, ram, fifos>>

-----------------------------------------------------------------------------
(* The end of a transfer.                                                  *)

\* Mutants of EndTransfer: end_transfer is kept, or D_STAT is not told.
EndTransferKeepsEnd(id) ==
  /\ Active(id) /\ chan[id].qwc = 0 /\ chan[id].end
  /\ chan' = [chan EXCEPT ![id].running = FALSE]
  /\ irq' = irq \cup {id}
  /\ ip1_pending' = (ip1_pending \/ irq' \cap irq_mask # {})
  /\ UNCHANGED <<irq_mask, suspended, ram, fifos, halted>>

EndTransfer(id) ==
  /\ Active(id) /\ chan[id].qwc = 0 /\ chan[id].end
  /\ chan' = [chan EXCEPT ![id].end = FALSE, ![id].running = FALSE]
  /\ irq' = irq \cup {id}
  /\ ip1_pending' = (ip1_pending \/ irq' \cap irq_mask # {})
  /\ UNCHANGED <<irq_mask, suspended, ram, fifos, halted>>

-----------------------------------------------------------------------------
(* DMAController::fetch_tag.                                               *)

Fetching(id) == Active(id) /\ chan[id].qwc = 0 /\ ~chan[id].end

\* The tag ids each channel knows; any other one terminates the program.
KnownTags(id) ==
  CASE id = GIF            -> {"REFE", "CNT", "END"}
    [] id \in {VIF0, VIF1} -> {"REFE", "CNT", "NEXT"}
    [] id = SIF1           -> {"REFE", "NEXT", "REF"}
    [] OTHER               -> {}

\* A mutant of AfterTag: the next tag is sought where the data ends, but counted
\* from the tag.
AfterTagShort(c, t) ==
  [c EXCEPT !.qwc = t.qwc,
            !.madr = IF t.id \in {"REFE", "REF"} THEN t.addr ELSE c.tadr + 1,
            !.tadr = IF t.id = "NEXT" THEN t.addr ELSE c.tadr + t.qwc,
            !.end = t.id \in {"REFE", "END"} \/ (c.tie /\ t.irq)]

\* A channel that has read a tag from tadr.
AfterTag(c, t) ==
  [c EXCEPT
    !.qwc  = t.qwc,
    !.madr = IF t.id \in {"REFE", "REF"} THEN t.addr ELSE c.tadr + 1,
    !.tadr = CASE t.id \in {"REFE", "REF"} -> c.tadr + 1
               [] t.id = "CNT"             -> c.tadr + 1 + t.qwc
               [] t.id = "NEXT"            -> t.addr
               [] OTHER                    -> c.tadr,
    !.end  = t.id \in {"REFE", "END"} \/ (c.tie /\ t.irq)]

FetchGif(id) ==
  /\ Fetching(id) /\ id = GIF
  /\ TagAt(chan[id].tadr).id \in KnownTags(id)
  /\ chan' = [chan EXCEPT ![id] = AfterTag(@, TagAt(@.tadr))]
  /\ UNCHANGED <<irq, irq_mask, suspended, ip1_pending, ram, fifos, halted>>

\* With the TTE bit the high half of the tag goes to the VIF first; while that
\* does not fit, the tag is read again at the channel's next turn.
TagData(a) == SubSeq(Load(a), 3, 4)

FetchVif(id) ==
  /\ Fetching(id) /\ id \in {VIF0, VIF1}
  /\ TagAt(chan[id].tadr).id \in KnownTags(id)
  /\ \/ /\ chan[id].tte
        /\ Fits(vif_fifo[id], TagData(chan[id].tadr))
        /\ vif_fifo' = [vif_fifo EXCEPT ![id] = @ \o TagData(chan[id].tadr)]
     \/ /\ ~chan[id].tte
        /\ UNCHANGED vif_fifo
  /\ chan' = [chan EXCEPT ![id] = AfterTag(@, TagAt(@.tadr))]
  /\ UNCHANGED <<irq, irq_mask, suspended, ip1_pending, ram, halted,
                 gif_fifo, sif0_fifo, sif1_fifo>>

\* SIF0 takes its tags from the FIFO; whatever their id, only the irq bit of a
\* tag, with TIE set, ends the transfer.
FetchSif0(id) ==
  /\ Fetching(id) /\ id = SIF0
  /\ Len(sif0_fifo) >= 2
  /\ LET t == EeTag[<<sif0_fifo[1], sif0_fifo[2]>>]
     IN  chan' = [chan EXCEPT ![id].qwc = t.qwc, ![id].madr = t.addr,
                              ![id].tadr = (@ + 1) % TadrWrap,
                              ![id].end = chan[id].tie /\ t.irq]
  /\ sif0_fifo' = SubSeq(sif0_fifo, 3, Len(sif0_fifo))
  /\ UNCHANGED <<irq, irq_mask, suspended, ip1_pending, ram, halted,
                 vif_fifo, gif_fifo, sif1_fifo>>

FetchSif1(id) ==
  /\ Fetching(id) /\ id = SIF1
  /\ chan[id].mode = 1
  /\ TagAt(chan[id].tadr).id \in KnownTags(id)
  /\ chan' = [chan EXCEPT ![id] = AfterTag(@, TagAt(@.tadr))]
  /\ UNCHANGED <<irq, irq_mask, suspended, ip1_pending, ram, fifos, halted>>

\* A tag whose upper half does not fit is not acted on.
TagBlocked(id) ==
  id \in {VIF0, VIF1} /\ chan[id].tte /\ ~Fits(vif_fifo[id], TagData(chan[id].tadr))

FetchUnknown(id) ==
  /\ Fetching(id) /\ id # SIF0
  /\ ~TagBlocked(id)
  /\ \/ TagAt(chan[id].tadr).id \notin KnownTags(id)
     \/ id = SIF1 /\ chan[id].mode # 1
  /\ halted' = TRUE
  /\ UNCHANGED <<regs, ram, fifos>>

-----------------------------------------------------------------------------

\* One visit of the loop body of tick to a channel that can do something.
ChannelStep(id) ==
  \/ TransferVif(id) \/ TransferGif(id) \/ TransferSif0(id) \/ TransferSif1(id)
  \/ TransferUnknown(id)
  \/ EndTransfer(id)
  \/ FetchGif(id) \/ FetchVif(id) \/ FetchSif0(id) \/ FetchSif1(id)
  \/ FetchUnknown(id)
=============================================================================
