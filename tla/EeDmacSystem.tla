---------------------------- MODULE EeDmacSystem ----------------------------
(***************************************************************************)
(* The EE DMAC among its users: the EE's program, which sets a channel up  *)
(* while it is stopped and acknowledges interrupts at any time, the VIFs   *)
(* and the GIF, which take words from their FIFOs, and the IOP's end of    *)
(* the two SIF FIFOs.                                                      *)
(***************************************************************************)
EXTENDS EeDmac

CONSTANTS
  Memories,     \* the contents of EE RAM the program may have built
  Programs,     \* what it does with the controller: see Program
  VifReads,     \* how many words a VIF takes at a time
  SifWords      \* bound on the words queued in a SIF FIFO

ASSUME MemoriesAssumption == Memories \subseteq [Address -> Qword]
ASSUME UsersAssumption == VifReads \subseteq Nat \ {0} /\ SifWords \in Nat

\* The channels a program uses, and the values it writes to Dn_CHCR, to Dn_MADR
\* (byte addresses), to Dn_QWC, to Dn_TADR (quadword addresses), to either half
\* of D_STAT (sets of channels) and to bit 16 of D_ENABLEW; and the words the IOP
\* sends it.
ASSUME ProgramsAssumption ==
  \A p \in Programs :
    /\ p.driven \subseteq Channels /\ p.chcr \subseteq Control
    /\ p.madr \subseteq Nat /\ p.qwc \subseteq Nat /\ p.tadr \subseteq Nat
    /\ p.stat \subseteq SUBSET Channels /\ p.suspend \subseteq BOOLEAN
    /\ p.receives \subseteq Word

VARIABLE program

Init == program \in Programs /\ \E memory \in Memories : InitWith(memory)

\* The program writes to the registers of a channel only while it is stopped,
\* and asks only for quadwords inside RAM.  This is how the libraries of the
\* console drive the controller; the code accepts writes at any time.  It leaves
\* SIF1, whose FIFO has no limit, alone until the IOP has caught up.
Program(id) ==
  /\ ~chan[id].running
  /\ id = SIF1 => Len(sif1_fifo) <= SifWords
  /\ \/ \E data \in program.chcr : WriteChcr(id, data)
     \/ \E data \in program.madr : WriteMadr(id, data)
     \/ \E data \in program.qwc :
          chan[id].madr + data <= RamQwords /\ WriteQwc(id, data)
     \/ \E data \in program.tadr : WriteTadr(id, data)

WriteGlobal ==
  \/ \E clear, reverse \in program.stat : WriteStat(clear, reverse)
  \/ \E suspend \in program.suspend : WriteEnabler(suspend)

\* A VIF takes one word, a command or its data, or a quadword to unpack.
TakeVif(v, words) ==
  /\ ~halted
  /\ Len(vif_fifo[v]) >= words
  /\ vif_fifo' = [vif_fifo EXCEPT ![v] = SubSeq(@, words + 1, Len(@))]
  /\ UNCHANGED <<regs, ram, gif_fifo, sif0_fifo, sif1_fifo, halted>>

\* The GIF takes a quadword.
TakeGif ==
  /\ ~halted
  /\ Len(gif_fifo) >= 4
  /\ gif_fifo' = SubSeq(gif_fifo, 5, Len(gif_fifo))
  /\ UNCHANGED <<regs, ram, vif_fifo, sif0_fifo, sif1_fifo, halted>>

\* The IOP's DMA controller queues a word for the EE, or takes one from it.
IopSends(word) ==
  /\ ~halted
  /\ Len(sif0_fifo) < SifWords
  /\ sif0_fifo' = Append(sif0_fifo, word)
  /\ UNCHANGED <<regs, ram, vif_fifo, gif_fifo, sif1_fifo, halted>>

IopTakes ==
  /\ ~halted
  /\ Len(sif1_fifo) > 0
  /\ sif1_fifo' = Tail(sif1_fifo)
  /\ UNCHANGED <<regs, ram, vif_fifo, gif_fifo, sif0_fifo, halted>>

Users ==
  \/ \E v \in {VIF0, VIF1}, words \in VifReads : TakeVif(v, words)
  \/ TakeGif
  \/ \E word \in program.receives : IopSends(word)
  \/ IopTakes

Next ==
  /\ \/ \E id \in program.driven : Program(id)
     \/ WriteGlobal
     \/ \E id \in Channels : ChannelStep(id)
     \/ Users
  /\ UNCHANGED program

Spec == Init /\ [][Next]_<<vars, program>>

-----------------------------------------------------------------------------

\* INT1 is never raised without cause: while the line is asserted, some channel
\* is both flagged and unmasked in D_STAT, whatever order the program masks,
\* unmasks and acknowledges channels in while others complete.
NoSpuriousInt1 == ip1_pending => irq \cap irq_mask # {}

\* A stopped channel does not remember the end of an earlier transfer, which
\* would complete the next one before it moved anything.
NoStaleEnd == \A id \in Channels : chan[id].end => chan[id].running

\* INT1 is asserted exactly while an unmasked channel is flagged, as
\* write_global says it keeps it ("Update COP0 INT1 status when D_STAT is
\* written").  The code truncates the value to one bit.
Int1FollowsStat == ip1_pending <=> irq \cap irq_mask # {}

=============================================================================
