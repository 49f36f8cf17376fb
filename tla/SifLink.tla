------------------------------ MODULE SifLink ------------------------------
(***************************************************************************)
(* The link between the two processors: the SIF channels of both DMA       *)
(* controllers, joined by the FIFOs sif0_fifo (IOP to EE) and sif1_fifo    *)
(* (EE to IOP), and the two programs that exchange packets through them.   *)
(*                                                                         *)
(* Emulator::tick runs the controllers one after the other, the EE's four  *)
(* times as often; here their visits interleave in any order.              *)
(***************************************************************************)
EXTENDS Integers, Sequences

CONSTANTS
  Word, EeTag, IopTag,
  RamQwords, OutsideRam, TadrWrap,   \* see EeDmac
  IopRamWords, CountLimit,           \* see IopDma
  EeMemory, IopMemory,               \* the memories the programs have built
  Traffic,      \* the packets they describe and exchange, [sif0, sif1]
  MaxBacklog    \* bound on the words queued when a transfer is started

VARIABLES
  chan, irq, irq_mask, suspended, ip1_pending, ram, vif_fifo, gif_fifo,
  ichan, enabled, flags, mask, dma_intr, iram, spu_ready, sio2_fifo,
  sif0_fifo, sif1_fifo, halted,
  packets       \* the member of Traffic at hand

\* To the EE: where the IOP's tag is, the data (in words) and its place in EE RAM
\* (in quadwords), [tadr, src, dest, qwc].
Sif0Packets == packets.sif0

\* To the IOP: where the EE's tag is, the data behind the IOP's tag (in
\* quadwords), its place in IOP RAM and its size (in words), [tadr, src, dest, size].
Sif1Packets == packets.sif1

EE == INSTANCE EeDmac WITH FifoWords <- 64
IOP == INSTANCE IopDma

\* The tag of a packet to the IOP and the IOP's tag behind it; and those of a packet to
\* the EE.
Sif1Tag(p)  == EeTag[<<EeMemory[p.tadr][1], EeMemory[p.tadr][2]>>]
Sif1Head(p) == IopTag[<<EeMemory[p.src - 1][1], EeMemory[p.src - 1][2]>>]
Sif0Tag(p)  == IopTag[<<IopMemory[p.tadr], IopMemory[p.tadr + 1]>>]
Sif0Head(p) == EeTag[<<IopMemory[p.tadr + 2], IopMemory[p.tadr + 3]>>]

\* Where a packet lies, in quadwords of EE RAM or in words of IOP RAM.
Sif1Area(p) == {p.tadr} \cup (p.src - 1 .. p.src - 2 + Sif1Tag(p).qwc)
Sif0Area(p) == (p.tadr .. p.tadr + 3) \cup (p.src .. p.src + 4 * p.qwc - 1)

\* The EE's tag spans the IOP's, and the data, as many words as the IOP's says; a chain
\* ends with REFE or an interrupt, or goes on with a packet.
Sif1Legal(p, all) ==
  LET t == Sif1Tag(p)
  IN /\ p \in [tadr : EE!Address, src : Nat \ {0}, dest : Nat, size : 0 .. CountLimit - 1]
     /\ t.id \in {"REFE", "REF", "NEXT"}
     /\ p.src - 1 = IF t.id = "NEXT" THEN p.tadr + 1 ELSE t.addr
     /\ p.src - 1 + t.qwc <= RamQwords
     /\ 4 * t.qwc = 4 + p.size /\ p.dest + p.size <= IopRamWords
     /\ Sif1Head(p).addr = p.dest /\ Sif1Head(p).size = p.size
     /\ t.id = "REFE" \/ t.irq
        \/ \E q \in all : q.tadr = IF t.id = "NEXT" THEN t.addr ELSE p.tadr + 1

\* The IOP's tag counts words, the EE's the quadwords that they fill.
Sif0Legal(p, all) ==
  LET t == Sif0Tag(p)
  IN /\ p \in [tadr : Nat, src : Nat, dest : Nat, qwc : Nat]
     /\ p.tadr + 3 < IopRamWords /\ p.src + 4 * p.qwc <= IopRamWords /\ p.dest + p.qwc <= RamQwords
     /\ t.addr = p.src /\ t.size <= 4 * p.qwc /\ 4 * p.qwc < t.size + 4 /\ 4 * p.qwc < CountLimit
     /\ Sif0Head(p).addr = p.dest /\ Sif0Head(p).qwc = p.qwc
     /\ t.end \/ t.irq \/ \E q \in all : q.tadr = p.tadr + 4

\* Nothing is received over what is still to be sent.
Apart(t) ==
  \A to_ee \in t.sif0, to_iop \in t.sif1 :
    /\ (to_ee.dest .. to_ee.dest + to_ee.qwc - 1) \cap Sif1Area(to_iop) = {}
    /\ (to_iop.dest .. to_iop.dest + to_iop.size - 1) \cap Sif0Area(to_ee) = {}

ASSUME TypesAssumption ==
  /\ EeTag \in [Word \X Word -> EE!DmaTag] /\ IopTag \in [Word \X Word -> IOP!DmaTag]
  /\ RamQwords \in Nat \ {0} /\ OutsideRam \in EE!Qword /\ TadrWrap \in Nat \ {0}
  /\ IopRamWords \in Nat /\ CountLimit \in Nat \ {0}
  /\ EeMemory \in [EE!Address -> EE!Qword] /\ IopMemory \in [IOP!Address -> Word]

ASSUME TrafficAssumption ==
  \A t \in Traffic :
    /\ \A p \in t.sif0 : Sif0Legal(p, t.sif0)
    /\ \A p \in t.sif1 : Sif1Legal(p, t.sif1)
    /\ Apart(t)

eeOnly  == <<chan, irq, irq_mask, suspended, ip1_pending, ram, vif_fifo, gif_fifo>>
iopOnly == <<ichan, enabled, flags, mask, dma_intr, iram, spu_ready, sio2_fifo>>
vars    == <<eeOnly, iopOnly, sif0_fifo, sif1_fifo, halted, packets>>

Init == packets \in Traffic /\ EE!InitWith(EeMemory) /\ IOP!InitWith(IopMemory)

-----------------------------------------------------------------------------
(* The programs.  Each sets a channel up while it is stopped, and sends    *)
(* only while the other side keeps up.                                     *)

EeChain  == [running |-> TRUE, mode |-> 1, tte |-> FALSE, tie |-> TRUE]
IopChain == [running |-> TRUE, mode |-> 1, bit8 |-> TRUE]

EeSends ==
  /\ ~chan[EE!SIF1].running /\ Len(sif1_fifo) <= MaxBacklog
  /\ \/ \E p \in Sif1Packets : EE!WriteTadr(EE!SIF1, p.tadr)
     \/ /\ \E p \in Sif1Packets : chan[EE!SIF1].tadr = p.tadr
        /\ EE!WriteChcr(EE!SIF1, EeChain)

EeListens == ~chan[EE!SIF0].running /\ EE!WriteChcr(EE!SIF0, EeChain)

EeAcknowledges == \E id \in irq : EE!WriteStat({id}, {})

IopSends ==
  /\ ~ichan[IOP!SIF0].running /\ Len(sif0_fifo) <= MaxBacklog
  /\ \/ \E p \in Sif0Packets : IOP!WriteTadr(IOP!SIF0, p.tadr)
     \/ /\ \E p \in Sif0Packets : ichan[IOP!SIF0].tadr = p.tadr
        /\ IOP!WriteChcr(IOP!SIF0, IopChain)

IopListens == ~ichan[IOP!SIF1].running /\ IOP!WriteChcr(IOP!SIF1, IopChain)

IopEnables == enabled = {} /\ IOP!WriteDpcr2({IOP!SIF0, IOP!SIF1})

IopAcknowledges == flags # {} /\ IOP!WriteDicr2(flags, {IOP!SIF0, IOP!SIF1})

Programs ==
  \/ (EeSends \/ EeListens \/ EeAcknowledges) /\ UNCHANGED <<iopOnly, packets>>
  \/ (IopSends \/ IopListens \/ IopEnables \/ IopAcknowledges) /\ UNCHANGED <<eeOnly, packets>>

EeVisit(id)  == EE!ChannelStep(id) /\ UNCHANGED <<iopOnly, packets>>
IopVisit(id) == IOP!ChannelStep(id) /\ UNCHANGED <<eeOnly, packets>>

Next ==
  \/ Programs
  \/ \E id \in EE!Channels : EeVisit(id)
  \/ \E id \in IOP!Channels : IopVisit(id)

\* Both controllers are ticked in every slice of Emulator::tick.
Fairness ==
  /\ \A id \in EE!Channels : WF_vars(EeVisit(id))
  /\ \A id \in IOP!Channels : WF_vars(IopVisit(id))

Spec == Init /\ [][Next]_vars /\ Fairness

TypeOK == EE!TypeOK /\ IOP!TypeOK

-----------------------------------------------------------------------------

\* Each side reads its tags where the other wrote them.  Whenever SIF1 of the IOP is
\* about to take a tag off the FIFO, the quadword at its head is the one the EE put
\* ahead of a packet's data, never padding or data of the packet before; and SIF0 of
\* the EE finds the two words between the IOP's tag and its data.
Sif1Framed ==
  IOP!Fetching(IOP!SIF1) /\ Len(sif1_fifo) >= 4
    => \E p \in Sif1Packets : SubSeq(sif1_fifo, 1, 4) = EeMemory[p.src - 1]

Sif0Framed ==
  EE!Fetching(EE!SIF0) /\ Len(sif0_fifo) >= 2
    => \E p \in Sif0Packets :
         SubSeq(sif0_fifo, 1, 2) = <<IopMemory[p.tadr + 2], IopMemory[p.tadr + 3]>>

Framed == TypeOK /\ Sif0Framed /\ Sif1Framed

\* When one of the processors is told that a packet has arrived, all of it is in memory:
\* the words behind which its channel stands are those of a packet that was sent there.
Sif0InPlace ==
  EE!EndTransfer(EE!SIF0) =>
    \E p \in Sif0Packets :
      /\ chan[EE!SIF0].madr = p.dest + p.qwc
      /\ \A k \in 0 .. 4 * p.qwc - 1 :
           ram[p.dest + k \div 4][(k % 4) + 1] = IopMemory[p.src + k]

Sif1InPlace ==
  IOP!EndTransfer(IOP!SIF1) =>
    \E p \in Sif1Packets :
      /\ ichan[IOP!SIF1].addr = p.dest + p.size
      /\ \A k \in 0 .. p.size - 1 :
           iram[p.dest + k] = EeMemory[p.src + k \div 4][(k % 4) + 1]

Complete == [][Sif0InPlace /\ Sif1InPlace]_vars

\* A sender with something left to send, and a receiver that listens.
Sif0Open ==
  /\ ichan[IOP!SIF0].running /\ ~(ichan[IOP!SIF0].count = 0 /\ ichan[IOP!SIF0].end)
  /\ chan[EE!SIF0].running /\ enabled # {}
Sif1Open ==
  /\ chan[EE!SIF1].running /\ ~(chan[EE!SIF1].qwc = 0 /\ chan[EE!SIF1].end)
  /\ ichan[IOP!SIF1].running /\ enabled # {}

\* What is sent to a listening receiver arrives, and the receiver is told.
Delivered == (Sif0Open ~> EE!SIF0 \in irq) /\ (Sif1Open ~> IOP!SIF1 \in flags)

=============================================================================
