------------------------------- MODULE IopDma -------------------------------
(***************************************************************************)
(* The IOP's DMA controller, iop::DMAController of src/cpu/iop/dma.cc, for *)
(* its upper channels, the only ones tick visits: the sound processor, the *)
(* two SIF directions and the two sides of the SIO2.                       *)
(*                                                                         *)
(* RAM is a table of words and addresses count words.  One step is one     *)
(* visit of tick's loop body to one channel, or one register write.        *)
(***************************************************************************)
EXTENDS Integers, Sequences

CONSTANTS
  Word,        \* the 32-bit words
  IopTag,      \* the DMAtag that the two words of a tag encode
  IopRamWords, \* the size of IOP RAM in words
  CountLimit   \* where the block counter wraps (2^16)

SPU2    == 7
DEV9    == 8
SIF0    == 9
SIF1    == 10
SIO2in  == 11
SIO2out == 12
Channels == 7 .. 12

Address == 0 .. IopRamWords - 1

DmaTag == [addr : Nat, irq : BOOLEAN, end : BOOLEAN, size : Nat]

\* The fields of Dn_CHCR the controller looks at; bit8 makes SIF0 send the two
\* words that follow a tag.
Control == [running : BOOLEAN, mode : 0 .. 3, bit8 : BOOLEAN]
Channel == [running : BOOLEAN, mode : 0 .. 3, bit8 : BOOLEAN,
            addr : Nat, count : 0 .. CountLimit - 1, tadr : Nat, end : BOOLEAN]

ASSUME IopTagAssumption == IopTag \in [Word \X Word -> DmaTag]
ASSUME SizeAssumption == IopRamWords \in Nat /\ CountLimit \in Nat \ {0}

VARIABLES
  ichan,      \* channels: control, address, block_conf.count, tadr, end_transfer
  enabled,    \* the channels enabled in DPCR2
  flags,      \* DICR2: completed channels
  mask,       \* DICR2: channels that may interrupt
  dma_intr,   \* the DMA bit of the IOP's I_STAT
  iram,       \* IOP RAM
  spu_ready,  \* SPU2's status bit 7, set when its transfer ends
  sio2_fifo,  \* how many more replies the SIO2 queued than were popped
  sif0_fifo,
  sif1_fifo,
  halted

iregs == <<ichan, enabled, flags, mask, dma_intr>>
ivars == <<iregs, iram, spu_ready, sio2_fifo, sif0_fifo, sif1_fifo, halted>>

TypeOK ==
  /\ ichan \in [Channels -> Channel]
  /\ enabled \subseteq Channels /\ flags \subseteq Channels /\ mask \subseteq Channels
  /\ dma_intr \in BOOLEAN /\ spu_ready \in BOOLEAN /\ halted \in BOOLEAN
  /\ iram \in [Address -> Word]
  /\ sio2_fifo \in Int
  /\ sif0_fifo \in Seq(Word) /\ sif1_fifo \in Seq(Word)

InitWith(memory) ==
  /\ ichan = [id \in Channels |->
                [running |-> FALSE, mode |-> 0, bit8 |-> FALSE,
                 addr |-> 0, count |-> 0, tadr |-> 0, end |-> FALSE]]
  /\ enabled = {} /\ flags = {} /\ mask = {}
  /\ dma_intr = FALSE
  /\ iram = memory
  /\ spu_ready = FALSE
  /\ sio2_fifo = 0
  /\ sif0_fifo = <<>> /\ sif1_fifo = <<>>
  /\ halted = FALSE

-----------------------------------------------------------------------------
(* Register writes by the IOP's program.                                   *)

Unhalted == ~halted /\ UNCHANGED <<iram, spu_ready, sio2_fifo, sif0_fifo, sif1_fifo, halted>>

WriteChcr(id, data) ==
  /\ Unhalted
  /\ ichan' = [ichan EXCEPT ![id].running = data.running, ![id].mode = data.mode,
                            ![id].bit8 = data.bit8]
  /\ UNCHANGED <<enabled, flags, mask, dma_intr>>

WriteMadr(id, data) ==
  /\ Unhalted
  /\ ichan' = [ichan EXCEPT ![id].addr = data]
  /\ UNCHANGED <<enabled, flags, mask, dma_intr>>

WriteCount(id, data) ==
  /\ Unhalted
  /\ ichan' = [ichan EXCEPT ![id].count = data % CountLimit]
  /\ UNCHANGED <<enabled, flags, mask, dma_intr>>

WriteTadr(id, data) ==
  /\ Unhalted
  /\ ichan' = [ichan EXCEPT ![id].tadr = data]
  /\ UNCHANGED <<enabled, flags, mask, dma_intr>>

WriteDpcr2(ids) ==
  /\ Unhalted
  /\ enabled' = ids
  /\ UNCHANGED <<ichan, flags, mask, dma_intr>>

\* DICR2: ones clear flags; the mask is replaced, and no interrupt follows from
\* what it uncovers.
WriteDicr2(clear, ids) ==
  /\ Unhalted
  /\ flags' = flags \ clear
  /\ mask' = ids
  /\ UNCHANGED <<ichan, enabled, dma_intr>>

\* INTR::write to I_STAT with the DMA bit zero.
AckDma ==
  /\ Unhalted
  /\ dma_intr' = FALSE
  /\ UNCHANGED <<ichan, enabled, flags, mask>>

-----------------------------------------------------------------------------
(* DMAController::tick, the transfer of pending words.                     *)

\* A mutant of Active: the enable bit of the channel's neighbour is tested.
ActiveNextBit(id) == ~halted /\ ichan[id].running /\ id + 1 \in enabled

Active(id) == ~halted /\ ichan[id].running /\ id \in enabled

\* A mutant of Transferring: the count is tested after it is spent.
TransferringAtZero(id) == Active(id) /\ ichan[id].count >= 0

Transferring(id) == Active(id) /\ ichan[id].count > 0

\* A word has moved; only the SIO2 channels end with their last word.
Moved(c) == [c EXCEPT !.addr = @ + 1, !.count = @ - 1]
MovedToSio2(c) == [Moved(c) EXCEPT !.end = @ \/ c.count = 1]

\* The program keeps blocks inside RAM; past it lies memory of the host.
InRam(a) == a \in Address

TransferSpu2(id) ==
  /\ Transferring(id) /\ id = SPU2
  /\ ichan' = [ichan EXCEPT ![id].count = @ - 1]
  /\ UNCHANGED <<enabled, flags, mask, dma_intr, iram, spu_ready, sio2_fifo,
                 sif0_fifo, sif1_fifo, halted>>

TransferSif0(id) ==
  /\ Transferring(id) /\ id = SIF0
  /\ InRam(ichan[id].addr)
  /\ sif0_fifo' = Append(sif0_fifo, iram[ichan[id].addr])
  /\ ichan' = [ichan EXCEPT ![id] = Moved(@)]
  /\ UNCHANGED <<enabled, flags, mask, dma_intr, iram, spu_ready, sio2_fifo,
                 sif1_fifo, halted>>

TransferSif1(id) ==
  /\ Transferring(id) /\ id = SIF1
  /\ Len(sif1_fifo) > 0
  /\ InRam(ichan[id].addr)
  /\ iram' = [iram EXCEPT ![ichan[id].addr] = Head(sif1_fifo)]
  /\ sif1_fifo' = Tail(sif1_fifo)
  /\ ichan' = [ichan EXCEPT ![id] = Moved(@)]
  /\ UNCHANGED <<enabled, flags, mask, dma_intr, spu_ready, sio2_fifo,
                 sif0_fifo, halted>>

\* Each of the word's four bytes is uploaded and answered with one byte, if the
\* device it addresses accepts it; otherwise the program terminates.
TransferSio2in(id) ==
  /\ Transferring(id) /\ id = SIO2in
  /\ InRam(ichan[id].addr)
  /\ \/ /\ sio2_fifo' = sio2_fifo + 4
        /\ ichan' = [ichan EXCEPT ![id] = MovedToSio2(@)]
        /\ UNCHANGED halted
     \/ /\ halted' = TRUE
        /\ UNCHANGED <<ichan, sio2_fifo>>
  /\ UNCHANGED <<enabled, flags, mask, dma_intr, iram, spu_ready,
                 sif0_fifo, sif1_fifo>>

\* Four replies, whose values the model leaves open, become a word.  Nothing
\* asks whether there are four: popping an empty std::queue is undefined, and
\* what the library's does is to hand out rubbish and to run its count below zero.
TransferSio2out(id) ==
  /\ Transferring(id) /\ id = SIO2out
  /\ InRam(ichan[id].addr)
  /\ \E word \in Word : iram' = [iram EXCEPT ![ichan[id].addr] = word]
  /\ sio2_fifo' = sio2_fifo - 4
  /\ ichan' = [ichan EXCEPT ![id] = MovedToSio2(@)]
  /\ UNCHANGED <<enabled, flags, mask, dma_intr, spu_ready, sif0_fifo, sif1_fifo, halted>>

-----------------------------------------------------------------------------
(* The end of a transfer.                                                  *)

\* A mutant of EndTransfer: only the first flag raises the interrupt.
EndTransferEdge(id) ==
  /\ Active(id) /\ ichan[id].count = 0 /\ ichan[id].end
  /\ ichan' = [ichan EXCEPT ![id].running = FALSE, ![id].end = FALSE]
  /\ flags' = flags \cup {id}
  /\ dma_intr' = (dma_intr \/ (flags \cap mask = {} /\ id \in mask))
  /\ spu_ready' = (spu_ready \/ id = SPU2)
  /\ UNCHANGED <<enabled, mask, iram, sio2_fifo, sif0_fifo, sif1_fifo, halted>>

EndTransfer(id) ==
  /\ Active(id) /\ ichan[id].count = 0 /\ ichan[id].end
  /\ ichan' = [ichan EXCEPT ![id].running = FALSE, ![id].end = FALSE]
  /\ flags' = flags \cup {id}
  /\ dma_intr' = (dma_intr \/ flags' \cap mask # {})
  /\ spu_ready' = (spu_ready \/ id = SPU2)
  /\ UNCHANGED <<enabled, mask, iram, sio2_fifo, sif0_fifo, sif1_fifo, halted>>

-----------------------------------------------------------------------------
(* DMAController::fetch_tag.                                               *)

Fetching(id) == Active(id) /\ ichan[id].count = 0 /\ ~ichan[id].end

\* SPU2 knows no chains: its block is its transfer.
FetchSpu2(id) ==
  /\ Fetching(id) /\ id = SPU2
  /\ IF ichan[id].mode = 1
     THEN ichan' = [ichan EXCEPT ![id].end = TRUE] /\ UNCHANGED halted
     ELSE halted' = TRUE /\ UNCHANGED ichan
  /\ UNCHANGED <<enabled, flags, mask, dma_intr, iram, spu_ready, sio2_fifo,
                 sif0_fifo, sif1_fifo>>

\* A mutant of RoundUp: the size is taken as it is.
RoundUpNot(n) == n

\* The next multiple of four, and its place in the sixteen-bit counter.
RoundUp(n) == ((n + 3) \div 4) * 4
Truncated(n) == n % CountLimit

\* SIF0 reads its tag from memory and may send the two words behind it, the
\* EE's tag, ahead of the data.
FetchSif0(id) ==
  LET a == ichan[id].tadr
      t == IopTag[<<iram[a], iram[a + 1]>>]
  IN  /\ Fetching(id) /\ id = SIF0
      /\ InRam(a) /\ InRam(a + 3)
      /\ ichan' = [ichan EXCEPT
                     ![id].addr  = t.addr,
                     ![id].count = Truncated(RoundUp(t.size)),
                     ![id].tadr  = IF ichan[id].bit8 THEN a + 4 ELSE a + 2,
                     ![id].end   = t.end \/ t.irq]
      /\ sif0_fifo' = IF ichan[id].bit8
                      THEN sif0_fifo \o <<iram[a + 2], iram[a + 3]>>
                      ELSE sif0_fifo
      /\ UNCHANGED <<enabled, flags, mask, dma_intr, iram, spu_ready, sio2_fifo,
                     sif1_fifo, halted>>

\* SIF1 takes its tag from the FIFO, with the rest of the quadword the EE sent
\* it in.
FetchSif1(id) ==
  /\ Fetching(id) /\ id = SIF1
  /\ Len(sif1_fifo) >= 4
  /\ LET t == IopTag[<<sif1_fifo[1], sif1_fifo[2]>>]
     IN  ichan' = [ichan EXCEPT ![id].addr  = t.addr,
                                ![id].count = Truncated(t.size),
                                ![id].end   = t.end \/ t.irq]
  /\ sif1_fifo' = SubSeq(sif1_fifo, 5, Len(sif1_fifo))
  /\ UNCHANGED <<enabled, flags, mask, dma_intr, iram, spu_ready, sio2_fifo,
                 sif0_fifo, halted>>

\* DEV9 has no transfer, and DEV9 and the SIO2 no tags.
Unknown(id) ==
  /\ \/ Transferring(id) /\ id = DEV9
     \/ Fetching(id) /\ id \in {DEV9, SIO2in, SIO2out}
  /\ halted' = TRUE
  /\ UNCHANGED <<iregs, iram, spu_ready, sio2_fifo, sif0_fifo, sif1_fifo>>

\* One visit of the loop body of tick to a channel that can do something.
ChannelStep(id) ==
  \/ TransferSpu2(id) \/ TransferSif0(id) \/ TransferSif1(id)
  \/ TransferSio2in(id) \/ TransferSio2out(id)
  \/ EndTransfer(id)
  \/ FetchSpu2(id) \/ FetchSif0(id) \/ FetchSif1(id)
  \/ Unknown(id)

\* A visit changes something, unless SIF1 waits for words.
Busy(id) ==
  /\ Active(id)
  /\ id = SIF1 => \/ ichan[id].count > 0 /\ Len(sif1_fifo) > 0
                  \/ Fetching(id) /\ Len(sif1_fifo) >= 4
                  \/ ichan[id].count = 0 /\ ichan[id].end
=============================================================================
