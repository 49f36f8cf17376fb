---------------------------- MODULE EeDmacProofs ----------------------------
(***************************************************************************)
(* Proofs about the EE DMAC among its users, for every memory, every       *)
(* decoding of DMAtags and every choice of the registers' values: type     *)
(* correctness, the two invariants that keep the interrupt line and the    *)
(* end of a transfer honest, and that no step of a channel loses, repeats  *)
(* or reorders a word of what a program asked to be moved.                 *)
(***************************************************************************)
EXTENDS EeDmacStream, SequenceTheorems, WellFoundedInduction, TLAPS

-----------------------------------------------------------------------------
(* Lemmas about quadwords and tags.                                        *)

\* A quadword is a sequence of four words.
LEMMA QwordIsSeq ==
  ASSUME NEW q \in Qword
  PROVE  q \in Seq(Word) /\ Len(q) = 4
<1>1. [1 .. 4 -> Word] \in {[1 .. n -> Word] : n \in Nat}
  OBVIOUS
<1>2. q \in UNION {[1 .. n -> Word] : n \in Nat}
  BY <1>1 DEF Qword
<1>3. q \in Seq(Word)
  BY <1>2, SeqDef
<1>4. DOMAIN q = 1 .. 4 /\ DOMAIN q = 1 .. Len(q) /\ Len(q) \in Nat
  BY <1>3, LenProperties DEF Qword
<1>5. Len(q) = 4
  BY <1>4
<1> QED
  BY <1>3, <1>5

\* Queuing a quadword keeps a FIFO typed.
LEMMA QwordQueued ==
  ASSUME NEW fifo \in Seq(Word), NEW q \in Qword
  PROVE  fifo \o q \in Seq(Word)
BY QwordIsSeq

\* Four words taken from the front of a FIFO are a quadword.
LEMMA QwordTaken ==
  ASSUME NEW fifo \in Seq(Word), Len(fifo) >= 4
  PROVE  SubSeq(fifo, 1, 4) \in Qword
<1>1. /\ SubSeq(fifo, 1, 4) \in Seq(Word)
      /\ Len(SubSeq(fifo, 1, 4)) = 4
  OBVIOUS
<1> QED
  BY <1>1, LenProperties DEF Qword

\* What is left of a FIFO after a pop is a FIFO.
LEMMA RestQueued ==
  ASSUME NEW fifo \in Seq(Word), NEW n \in Nat
  PROVE  SubSeq(fifo, n + 1, Len(fifo)) \in Seq(Word)
OBVIOUS

\* Memory always yields a quadword, even past the end of RAM.
LEMMA LoadType ==
  ASSUME TypeOK, NEW a
  PROVE  Load(a) \in Qword
BY RamAssumption DEF TypeOK, Load

\* The upper half of a tag that TTE sends ahead of its data is two words.
LEMMA TagDataType ==
  ASSUME TypeOK, NEW a
  PROVE  TagData(a) \in Seq(Word)
<1>1. Load(a) \in Seq(Word) /\ Len(Load(a)) = 4
  BY LoadType, QwordIsSeq
<1> QED
  BY <1>1 DEF TagData

\* Any two words decode to a tag.
LEMMA TagType ==
  ASSUME NEW w1 \in Word, NEW w2 \in Word
  PROVE  EeTag[<<w1, w2>>] \in DmaTag
BY EeTagAssumption

LEMMA TagAtType ==
  ASSUME TypeOK, NEW a
  PROVE  TagAt(a) \in DmaTag
<1>1. Load(a)[1] \in Word /\ Load(a)[2] \in Word
  BY LoadType DEF Qword
<1> QED
  BY <1>1, TagType DEF TagAt

\* Reading a tag yields a well-formed channel that still runs.
LEMMA AfterTagType ==
  ASSUME NEW c \in Channel, NEW t \in DmaTag
  PROVE  AfterTag(c, t) \in Channel /\ AfterTag(c, t).running = c.running
<1> DEFINE d == AfterTag(c, t)
<1>1. /\ d.running = c.running /\ d.mode = c.mode /\ d.tte = c.tte /\ d.tie = c.tie
      /\ d.madr \in Nat /\ d.qwc \in Nat /\ d.tadr \in Nat
  BY DEF AfterTag, Channel, DmaTag, TagIds
<1>2. d.end \in BOOLEAN
  BY DEF AfterTag, Channel, DmaTag
<1>3. d \in Channel
  BY <1>1, <1>2 DEF AfterTag, Channel
<1> QED
  BY <1>1, <1>3

\* Moving a quadword leaves a well-formed channel that runs as before.
LEMMA MovedType ==
  ASSUME NEW c \in Channel, c.qwc > 0
  PROVE  /\ Moved(c) \in Channel
         /\ Moved(c).running = c.running
         /\ Moved(c).end = c.end
<1> DEFINE d == Moved(c)
<1>1. /\ d.running = c.running /\ d.mode = c.mode /\ d.tte = c.tte /\ d.tie = c.tie
      /\ d.tadr = c.tadr /\ d.end = c.end
  BY DEF Moved, Channel
<1>2. d.madr = c.madr + 1 /\ d.qwc = c.qwc - 1
  BY DEF Moved, Channel
<1>3. d.madr \in Nat /\ d.qwc \in Nat
  BY <1>2 DEF Channel
<1>4. d \in Channel
  BY <1>1, <1>3 DEF Moved, Channel
<1> QED
  BY <1>1, <1>4

LEMMA MovedToPathType ==
  ASSUME NEW c \in Channel, c.qwc > 0
  PROVE  /\ MovedToPath(c) \in Channel
         /\ MovedToPath(c).running = c.running
<1>1. Moved(c) \in Channel /\ Moved(c).running = c.running
  BY MovedType
<1> QED
  BY <1>1 DEF MovedToPath, Channel

-----------------------------------------------------------------------------
(* Type correctness, one lemma per group of actions.                       *)

LEMMA InitType == Init => TypeOK
<1> SUFFICES ASSUME NEW memory \in Memories, InitWith(memory)
             PROVE  TypeOK
  BY DEF Init
<1>1. chan \in [Channels -> Channel]
  BY DEF InitWith, Channel
<1>2. ram \in [Address -> Qword]
  BY MemoriesAssumption DEF InitWith
<1>3. /\ vif_fifo \in [{VIF0, VIF1} -> Seq(Word)] /\ gif_fifo \in Seq(Word)
      /\ sif0_fifo \in Seq(Word) /\ sif1_fifo \in Seq(Word)
  BY DEF InitWith
<1>4. irq \subseteq Channels /\ irq_mask \subseteq Channels
  BY DEF InitWith
<1>5. suspended \in BOOLEAN /\ ip1_pending \in BOOLEAN /\ halted \in BOOLEAN
  BY DEF InitWith
<1> QED
  BY <1>1, <1>2, <1>3, <1>4, <1>5 DEF TypeOK

\* A write to a channel register stores a value of the register's type.
LEMMA ProgramType ==
  ASSUME TypeOK, program \in Programs, NEW id \in Channels, Program(id)
  PROVE  TypeOK' /\ UNCHANGED <<irq, irq_mask, ip1_pending>>
                 /\ \A i \in Channels : /\ chan'[i].end = chan[i].end
                                        /\ i # id => chan'[i] = chan[i]
<1>1. chan[id] \in Channel
  BY DEF TypeOK
<1>2. CASE \E data \in program.chcr : WriteChcr(id, data)
  <2> PICK data \in program.chcr : WriteChcr(id, data)
    BY <1>2
  <2>1. data \in Control
    BY ProgramsAssumption
  <2> DEFINE d == [chan[id] EXCEPT !.running = data.running, !.mode = data.mode,
                                   !.tte = data.tte, !.tie = data.tie]
  <2>2. d.running \in BOOLEAN /\ d.mode \in 0 .. 3 /\ d.tte \in BOOLEAN /\ d.tie \in BOOLEAN
    BY <1>1, <2>1 DEF Control, Channel
  <2>3. d.madr = chan[id].madr /\ d.qwc = chan[id].qwc /\ d.tadr = chan[id].tadr /\ d.end = chan[id].end
    BY <1>1 DEF Channel
  <2>4. d \in Channel
    BY <1>1, <2>2, <2>3 DEF Channel
  <2>5. chan' = [chan EXCEPT ![id] = d]
    BY <1>1 DEF WriteChcr, TypeOK
  <2> QED
    BY <2>3, <2>4, <2>5 DEF WriteChcr, TypeOK, fifos
<1>3. CASE \E data \in program.madr : WriteMadr(id, data)
  <2> PICK data \in program.madr : WriteMadr(id, data)
    BY <1>3
  <2>1. (data \div 16) % RamQwords \in Nat
    BY ProgramsAssumption, RamAssumption
  <2>2. /\ [chan[id] EXCEPT !.madr = (data \div 16) % RamQwords] \in Channel
        /\ [chan[id] EXCEPT !.madr = (data \div 16) % RamQwords].end = chan[id].end
    BY <1>1, <2>1 DEF Channel
  <2>3. chan' = [chan EXCEPT ![id] = [chan[id] EXCEPT !.madr = (data \div 16) % RamQwords]]
    BY DEF WriteMadr, TypeOK
  <2> QED
    BY <2>2, <2>3 DEF WriteMadr, TypeOK, fifos
<1>4. CASE \E data \in program.qwc : WriteQwc(id, data)
  <2> PICK data \in program.qwc : WriteQwc(id, data)
    BY <1>4
  <2>1. data \in Nat
    BY ProgramsAssumption
  <2>2. /\ [chan[id] EXCEPT !.qwc = data] \in Channel
        /\ [chan[id] EXCEPT !.qwc = data].end = chan[id].end
    BY <1>1, <2>1 DEF Channel
  <2>3. chan' = [chan EXCEPT ![id] = [chan[id] EXCEPT !.qwc = data]]
    BY DEF WriteQwc, TypeOK
  <2> QED
    BY <2>2, <2>3 DEF WriteQwc, TypeOK, fifos
<1>5. CASE \E data \in program.tadr : WriteTadr(id, data)
  <2> PICK data \in program.tadr : WriteTadr(id, data)
    BY <1>5
  <2>1. data \in Nat
    BY ProgramsAssumption
  <2>2. /\ [chan[id] EXCEPT !.tadr = data] \in Channel
        /\ [chan[id] EXCEPT !.tadr = data].end = chan[id].end
    BY <1>1, <2>1 DEF Channel
  <2>3. chan' = [chan EXCEPT ![id] = [chan[id] EXCEPT !.tadr = data]]
    BY DEF WriteTadr, TypeOK
  <2> QED
    BY <2>2, <2>3 DEF WriteTadr, TypeOK, fifos
<1> QED
  BY <1>2, <1>3, <1>4, <1>5 DEF Program

LEMMA GlobalType ==
  ASSUME TypeOK, program \in Programs, WriteGlobal
  PROVE  TypeOK' /\ UNCHANGED chan
<1>1. ASSUME NEW clear \in program.stat, NEW reverse \in program.stat, WriteStat(clear, reverse)
      PROVE  TypeOK' /\ UNCHANGED chan
  <2>1. irq' \subseteq Channels
    BY <1>1 DEF WriteStat, TypeOK
  <2>2. reverse \subseteq Channels
    BY ProgramsAssumption
  <2>3. irq_mask' \subseteq Channels
    BY <1>1, <2>2 DEF WriteStat, TypeOK
  <2>4. ip1_pending' \in BOOLEAN
    BY <1>1 DEF WriteStat, LowBit
  <2> QED
    BY <1>1, <2>1, <2>3, <2>4 DEF WriteStat, TypeOK, fifos
<1>2. ASSUME NEW suspend \in program.suspend, WriteEnabler(suspend)
      PROVE  TypeOK' /\ UNCHANGED chan
  <2>1. suspended' \in BOOLEAN
    BY <1>2, ProgramsAssumption DEF WriteEnabler
  <2> QED
    BY <1>2, <2>1 DEF WriteEnabler, TypeOK, fifos
<1> QED
  BY <1>1, <1>2 DEF WriteGlobal

LEMMA UsersType ==
  ASSUME TypeOK, program \in Programs, Users
  PROVE  TypeOK' /\ UNCHANGED regs
<1>1. CASE \E v \in {VIF0, VIF1}, words \in VifReads : TakeVif(v, words)
  <2> PICK v \in {VIF0, VIF1}, words \in VifReads : TakeVif(v, words)
    BY <1>1
  <2>1. SubSeq(vif_fifo[v], words + 1, Len(vif_fifo[v])) \in Seq(Word)
    BY RestQueued, UsersAssumption DEF TypeOK
  <2> QED
    BY <2>1 DEF TakeVif, TypeOK, regs
<1>2. CASE TakeGif
  <2>1. SubSeq(gif_fifo, 5, Len(gif_fifo)) \in Seq(Word)
    BY RestQueued DEF TypeOK
  <2> QED
    BY <1>2, <2>1 DEF TakeGif, TypeOK, regs
<1>3. CASE \E word \in program.receives : IopSends(word)
  BY <1>3, ProgramsAssumption DEF IopSends, TypeOK, regs
<1>4. CASE IopTakes
  BY <1>4 DEF IopTakes, TypeOK, regs
<1> QED
  BY <1>1, <1>2, <1>3, <1>4 DEF Users

-----------------------------------------------------------------------------
(* The visits of tick to a channel.                                        *)

\* What the proofs need of a visit: it replaces the record of its own channel
\* by one that still runs, unless the visit ends the transfer.
Keeps(id) ==
  /\ TypeOK'
  /\ chan[id].running
  /\ chan'[id].running
  /\ \A i \in Channels \ {id} : chan'[i] = chan[i]
  /\ UNCHANGED <<irq, irq_mask, ip1_pending>>

\* Replacing one well-formed channel by another keeps the table of channels.
LEMMA ChannelReplaced ==
  ASSUME TypeOK, NEW id \in Channels, NEW c \in Channel, chan' = [chan EXCEPT ![id] = c]
  PROVE  /\ chan' \in [Channels -> Channel]
         /\ chan'[id] = c
         /\ \A i \in Channels \ {id} : chan'[i] = chan[i]
BY DEF TypeOK

LEMMA TransferKeeps ==
  ASSUME TypeOK, NEW id \in Channels,
         TransferVif(id) \/ TransferGif(id) \/ TransferSif0(id) \/ TransferSif1(id)
  PROVE  Keeps(id)
<1>1. chan[id] \in Channel /\ chan[id].running /\ chan[id].qwc > 0
  BY DEF TypeOK, TransferVif, TransferGif, TransferSif0, TransferSif1, Transferring, Active
<1>2. /\ Moved(chan[id]) \in Channel /\ Moved(chan[id]).running
      /\ MovedToPath(chan[id]) \in Channel /\ MovedToPath(chan[id]).running
  BY <1>1, MovedType, MovedToPathType
<1>3. Load(chan[id].madr) \in Qword
  BY LoadType
<1>4. CASE TransferVif(id)
  <2>1. chan' = [chan EXCEPT ![id] = MovedToPath(chan[id])]
    BY <1>4 DEF TransferVif
  <2>2. vif_fifo[id] \o Load(chan[id].madr) \in Seq(Word)
    BY <1>3, <1>4, QwordQueued DEF TypeOK, TransferVif
  <2>3. vif_fifo' \in [{VIF0, VIF1} -> Seq(Word)]
    BY <1>4, <2>2 DEF TypeOK, TransferVif
  <2> QED
    BY <1>1, <1>2, <1>4, <2>1, <2>3, ChannelReplaced DEF Keeps, TypeOK, TransferVif
<1>5. CASE TransferGif(id)
  <2>1. chan' = [chan EXCEPT ![id] = MovedToPath(chan[id])]
    BY <1>5 DEF TransferGif
  <2>2. gif_fifo' \in Seq(Word)
    BY <1>3, <1>5, QwordQueued DEF TypeOK, TransferGif
  <2> QED
    BY <1>1, <1>2, <1>5, <2>1, <2>2, ChannelReplaced DEF Keeps, TypeOK, TransferGif
<1>6. CASE TransferSif0(id)
  <2>1. chan' = [chan EXCEPT ![id] = Moved(chan[id])]
    BY <1>6 DEF TransferSif0
  <2>2. SubSeq(sif0_fifo, 1, 4) \in Qword
    BY <1>6, QwordTaken DEF TypeOK, TransferSif0
  <2>3. ram' \in [Address -> Qword]
    BY <1>6, <2>2 DEF TypeOK, TransferSif0, Store
  <2>4. sif0_fifo' \in Seq(Word)
    BY <1>6, RestQueued DEF TypeOK, TransferSif0
  <2> QED
    BY <1>1, <1>2, <1>6, <2>1, <2>3, <2>4, ChannelReplaced DEF Keeps, TypeOK, TransferSif0
<1>7. CASE TransferSif1(id)
  <2>1. chan' = [chan EXCEPT ![id] = Moved(chan[id])]
    BY <1>7 DEF TransferSif1
  <2>2. sif1_fifo' \in Seq(Word)
    BY <1>3, <1>7, QwordQueued DEF TypeOK, TransferSif1
  <2> QED
    BY <1>1, <1>2, <1>7, <2>1, <2>2, ChannelReplaced DEF Keeps, TypeOK, TransferSif1
<1> QED
  BY <1>4, <1>5, <1>6, <1>7

LEMMA FetchKeeps ==
  ASSUME TypeOK, NEW id \in Channels,
         FetchGif(id) \/ FetchVif(id) \/ FetchSif0(id) \/ FetchSif1(id)
  PROVE  Keeps(id)
<1>1. chan[id] \in Channel /\ chan[id].running
  BY DEF TypeOK, FetchGif, FetchVif, FetchSif0, FetchSif1, Fetching, Active
<1> DEFINE d == AfterTag(chan[id], TagAt(chan[id].tadr))
<1>2. d \in Channel /\ d.running
  BY <1>1, AfterTagType, TagAtType
<1>3. CASE FetchGif(id) \/ FetchSif1(id)
  <2>1. chan' = [chan EXCEPT ![id] = d]
    BY <1>3 DEF FetchGif, FetchSif1
  <2> HIDE DEF d
  <2> QED
    BY <1>1, <1>2, <1>3, <2>1, ChannelReplaced
    DEF Keeps, TypeOK, FetchGif, FetchSif1, fifos
<1>4. CASE FetchVif(id)
  <2>1. chan' = [chan EXCEPT ![id] = d]
    BY <1>4 DEF FetchVif
  <2>2. vif_fifo[id] \o TagData(chan[id].tadr) \in Seq(Word)
    BY <1>4, TagDataType DEF TypeOK, FetchVif
  <2>3. vif_fifo' \in [{VIF0, VIF1} -> Seq(Word)]
    BY <1>4, <2>2 DEF TypeOK, FetchVif
  <2> HIDE DEF d
  <2> QED
    BY <1>1, <1>2, <1>4, <2>1, <2>3, ChannelReplaced DEF Keeps, TypeOK, FetchVif
<1>5. CASE FetchSif0(id)
  <2> DEFINE t == EeTag[<<sif0_fifo[1], sif0_fifo[2]>>]
             e == [chan[id] EXCEPT !.qwc = t.qwc, !.madr = t.addr,
                                   !.tadr = (chan[id].tadr + 1) % TadrWrap,
                                   !.end = chan[id].tie /\ t.irq]
  <2>1. sif0_fifo[1] \in Word /\ sif0_fifo[2] \in Word
    BY <1>5, ElementOfSeq DEF TypeOK, FetchSif0
  <2>2. t \in DmaTag
    BY <2>1, TagType
  <2>3. (chan[id].tadr + 1) % TadrWrap \in Nat
    BY <1>1, WrapAssumption DEF Channel
  <2>4. e.qwc \in Nat /\ e.madr \in Nat /\ e.tadr \in Nat
    BY <1>1, <2>2, <2>3 DEF Channel, DmaTag
  <2>5. e.end \in BOOLEAN
    BY <1>1, <2>2 DEF Channel, DmaTag
  <2>6. /\ e.running = chan[id].running /\ e.mode = chan[id].mode
        /\ e.tte = chan[id].tte /\ e.tie = chan[id].tie
    BY <1>1 DEF Channel
  <2>7. e \in Channel
    BY <1>1, <2>4, <2>5, <2>6 DEF Channel
  <2>8. chan' = [chan EXCEPT ![id] = e]
    BY <1>5 DEF FetchSif0, TypeOK
  <2>9. sif0_fifo' \in Seq(Word)
    BY <1>5, RestQueued DEF TypeOK, FetchSif0
  <2>10. UNCHANGED <<irq, irq_mask, suspended, ip1_pending, ram, halted,
                     vif_fifo, gif_fifo, sif1_fifo>>
    BY <1>5 DEF FetchSif0
  <2> HIDE DEF t, e
  <2> QED
    BY <1>1, <2>6, <2>7, <2>8, <2>9, <2>10, ChannelReplaced DEF Keeps, TypeOK
<1> QED
  BY <1>3, <1>4, <1>5

\* The end of a transfer clears end and running together.
LEMMA EndTransferEnds ==
  ASSUME TypeOK, NEW id \in Channels, EndTransfer(id)
  PROVE  /\ TypeOK'
         /\ ~chan'[id].end
         /\ \A i \in Channels \ {id} : chan'[i] = chan[i]
<1>1. chan[id] \in Channel
  BY DEF TypeOK
<1> DEFINE d == [chan[id] EXCEPT !.end = FALSE, !.running = FALSE]
<1>2. /\ d.running = FALSE /\ d.end = FALSE /\ d.mode = chan[id].mode
      /\ d.tte = chan[id].tte /\ d.tie = chan[id].tie /\ d.madr = chan[id].madr
      /\ d.qwc = chan[id].qwc /\ d.tadr = chan[id].tadr
  BY <1>1 DEF Channel
<1>3. d \in Channel
  BY <1>1, <1>2 DEF Channel
<1>4. chan' = [chan EXCEPT ![id] = d]
  BY DEF EndTransfer, TypeOK
<1>5. irq' \subseteq Channels
  BY DEF EndTransfer, TypeOK
<1>6. ip1_pending' \in BOOLEAN
  BY DEF EndTransfer, TypeOK
<1> HIDE DEF d
<1> QED
  BY <1>2, <1>3, <1>4, <1>5, <1>6, ChannelReplaced DEF EndTransfer, TypeOK, fifos

\* A tag or a transfer the code does not know stops the program.
LEMMA UnknownType ==
  ASSUME TypeOK, NEW id \in Channels, TransferUnknown(id) \/ FetchUnknown(id)
  PROVE  TypeOK' /\ UNCHANGED regs
BY DEF TransferUnknown, FetchUnknown, TypeOK, regs, fifos

-----------------------------------------------------------------------------
(* The invariant and its theorems.                                         *)

\* NoStaleEnd and NoSpuriousInt1 rest on types alone and not on each other.
IInv == program \in Programs /\ TypeOK /\ NoSpuriousInt1 /\ NoStaleEnd

LEMMA StepKeepsInv ==
  ASSUME IInv, NEW id \in Channels, ChannelStep(id), UNCHANGED program
  PROVE  IInv'
<1> USE DEF IInv
<1>1. CASE \/ TransferVif(id) \/ TransferGif(id) \/ TransferSif0(id) \/ TransferSif1(id)
           \/ FetchGif(id) \/ FetchVif(id) \/ FetchSif0(id) \/ FetchSif1(id)
  <2>1. Keeps(id)
    BY <1>1, TransferKeeps, FetchKeeps
  <2>2. NoStaleEnd'
    BY <2>1 DEF Keeps, NoStaleEnd
  <2> QED
    BY <2>1, <2>2 DEF Keeps, NoSpuriousInt1
<1>2. CASE EndTransfer(id)
  <2>1. NoStaleEnd'
    BY <1>2, EndTransferEnds DEF NoStaleEnd
  <2>2. NoSpuriousInt1'
    BY <1>2 DEF EndTransfer, NoSpuriousInt1
  <2> QED
    BY <1>2, <2>1, <2>2, EndTransferEnds
<1>3. CASE TransferUnknown(id) \/ FetchUnknown(id)
  BY <1>3, UnknownType DEF regs, NoSpuriousInt1, NoStaleEnd
<1> QED
  BY <1>1, <1>2, <1>3 DEF ChannelStep

LEMMA NextKeepsInv == IInv /\ [Next]_<<vars, program>> => IInv'
<1> SUFFICES ASSUME IInv, [Next]_<<vars, program>>
             PROVE  IInv'
  OBVIOUS
<1> USE DEF IInv
<1>0. program' = program /\ program \in Programs
  BY DEF Next
<1>1. ASSUME NEW id \in program.driven, Program(id)
      PROVE  IInv'
  <2>1. id \in Channels
    BY ProgramsAssumption
  <2>2. ~chan[id].end
    BY <1>1, <2>1 DEF Program, NoStaleEnd
  <2>3. NoStaleEnd'
    BY <1>0, <1>1, <2>1, <2>2, ProgramType DEF NoStaleEnd
  <2> QED
    BY <1>0, <1>1, <2>1, <2>3, ProgramType DEF NoSpuriousInt1
<1>2. CASE WriteGlobal
  <2>1. NoSpuriousInt1'
    BY <1>2 DEF WriteGlobal, WriteStat, WriteEnabler, LowBit, NoSpuriousInt1
  <2> QED
    BY <1>0, <1>2, <2>1, GlobalType DEF NoStaleEnd
<1>3. ASSUME NEW id \in Channels, ChannelStep(id)
      PROVE  IInv'
  BY <1>0, <1>3, StepKeepsInv
<1>4. CASE Users
  BY <1>0, <1>4, UsersType DEF regs, NoSpuriousInt1, NoStaleEnd
<1>5. CASE UNCHANGED <<vars, program>>
  BY <1>0, <1>5 DEF vars, regs, fifos, TypeOK, NoSpuriousInt1, NoStaleEnd
<1> QED
  BY <1>1, <1>2, <1>3, <1>4, <1>5 DEF Next

LEMMA InvHolds == Spec => []IInv
<1>1. Init => IInv
  BY InitType DEF Init, InitWith, IInv, NoSpuriousInt1, NoStaleEnd
<1> QED
  BY <1>1, NextKeepsInv, PTL DEF Spec

\* Every register, FIFO and memory cell keeps its type, whatever program runs.
THEOREM DmacTypeCorrect == Spec => []TypeOK
<1>1. IInv => TypeOK
  BY DEF IInv
<1> QED
  BY <1>1, InvHolds, PTL

\* write_global and tick never leave INT1 asserted with no unmasked flag in
\* D_STAT, although write_global drops all but one bit of what it assigns.
THEOREM Int1HasCause == Spec => []NoSpuriousInt1
<1>1. IInv => NoSpuriousInt1
  BY DEF IInv
<1> QED
  BY <1>1, InvHolds, PTL

\* end_transfer is never left over in a stopped channel, as long as the program
\* writes to a channel's registers only while it is stopped.
THEOREM EndIsFresh == Spec => []NoStaleEnd
<1>1. IInv => NoStaleEnd
  BY DEF IInv
<1> QED
  BY <1>1, InvHolds, PTL

-----------------------------------------------------------------------------
(* What chains describe.                                                   *)

\* Induction, stated for a set of numbers and not for a predicate.
LEMMA SetInduction ==
  ASSUME NEW S, 0 \in S, \A n \in Nat : n \in S => n + 1 \in S
  PROVE  Nat \subseteq S
<1> DEFINE Rest == Nat \ S
           Less == {p \in Nat \X Nat : p[1] < p[2]}
<1>1. SUFFICES ASSUME Rest # {} PROVE FALSE
  OBVIOUS
<1>2. IsWellFoundedOn(Less, Nat)
  BY NatLessThanWellFounded DEF OpToRel
<1>3. PICK x \in Rest : \A y \in Rest : ~ (<<y, x>> \in Less)
  <2> HIDE DEF Less
  <2> QED BY <1>1, <1>2, WFMin
<1>4. x \in Nat /\ x # 0 /\ x - 1 \in Rest
  OBVIOUS
<1>5. <<x - 1, x>> \in Less
  BY <1>4
<1> QED BY <1>3, <1>4, <1>5

\* The levels of Chain up to the m-th.
Levels(id, control, m, f) ==
  f = [n \in 0 .. m |->
         [a \in Nat |-> IF n = 0 THEN Nothing ELSE Linked(id, control, a, f[n - 1])]]

\* No tags describe nothing.
LEMMA LevelsBegin ==
  ASSUME NEW id, NEW control, NEW m \in Nat, NEW f, Levels(id, control, m, f)
  PROVE  \A a \in Nat : f[0][a] = Nothing
<1> DEFINE e(n, a) == IF n = 0 THEN Nothing ELSE Linked(id, control, a, f[n - 1])
<1>1. f = [n \in 0 .. m |-> [a \in Nat |-> e(n, a)]]
  BY DEF Levels
<1>2. \A a \in Nat : f[0][a] = e(0, a)
  <2> HIDE DEF e
  <2> QED BY <1>1
<1> QED BY <1>2

\* Each level is built on the one before.
LEMMA LevelsAt ==
  ASSUME NEW id, NEW control, NEW m \in Nat, NEW f, Levels(id, control, m, f)
  PROVE  \A n, a \in Nat : n < m => f[n + 1][a] = Linked(id, control, a, f[n])
<1> DEFINE e(n, a) == IF n = 0 THEN Nothing ELSE Linked(id, control, a, f[n - 1])
<1>1. f = [n \in 0 .. m |-> [a \in Nat |-> e(n, a)]]
  BY DEF Levels
<1>2. \A n \in 0 .. m : \A a \in Nat : f[n][a] = e(n, a)
  <2> HIDE DEF e
  <2> QED BY <1>1
<1>3. ASSUME NEW n \in Nat, NEW a \in Nat, n < m
      PROVE  f[n + 1][a] = Linked(id, control, a, f[n])
  <2>1. n + 1 \in 0 .. m /\ n + 1 # 0 /\ (n + 1) - 1 = n
    BY <1>3
  <2>2. f[n + 1][a] = e(n + 1, a)
    <3> HIDE DEF e
    <3> QED BY <1>2, <2>1
  <2>3. e(n + 1, a) = Linked(id, control, a, f[(n + 1) - 1])
    BY <2>1, Zenon
  <2> QED BY <2>1, <2>2, <2>3, Zenon
<1> QED BY <1>3

\* There are levels for any number of tags.
LEMMA LevelsExist ==
  ASSUME NEW id, NEW control, NEW m \in Nat
  PROVE  \E f : Levels(id, control, m, f)
<1> DEFINE S == {k \in Nat : \E f : Levels(id, control, k, f)}
<1>1. 0 \in S
  <2> DEFINE g == [n \in 0 .. 0 |-> [a \in Nat |-> Nothing]]
  <2>1. Levels(id, control, 0, g)
    BY DEF Levels
  <2> QED BY <2>1
<1>2. ASSUME NEW k \in Nat, k \in S PROVE k + 1 \in S
  <2>1. PICK f : Levels(id, control, k, f)
    BY <1>2
  <2> DEFINE top == [a \in Nat |-> Linked(id, control, a, f[k])]
             g   == [n \in 0 .. k + 1 |-> IF n = k + 1 THEN top ELSE f[n]]
  <2>2. ASSUME NEW n \in 0 .. k + 1
        PROVE  g[n] = [a \in Nat |-> IF n = 0 THEN Nothing ELSE Linked(id, control, a, g[n - 1])]
    <3>1. CASE n = k + 1
      <4>1. g[n] = top /\ g[n - 1] = f[k] /\ n # 0
        BY <3>1
      <4> QED BY <4>1
    <3>2. CASE n # k + 1
      <4>1. n \in 0 .. k /\ g[n] = f[n] /\ (n # 0 => g[n - 1] = f[n - 1])
        BY <3>2
      <4>2. f[n] = [a \in Nat |-> IF n = 0 THEN Nothing ELSE Linked(id, control, a, f[n - 1])]
        BY <2>1, <4>1 DEF Levels
      <4> HIDE DEF g
      <4> QED BY <4>1, <4>2
    <3> QED BY <3>1, <3>2
  <2>3. Levels(id, control, k + 1, g)
    <3> HIDE DEF top
    <3>1. g = [n \in 0 .. k + 1 |-> g[n]]
      OBVIOUS
    <3> HIDE DEF g
    <3> QED BY <2>2, <3>1 DEF Levels
  <2> QED BY <2>3
<1>3. Nat \subseteq S
  <2> HIDE DEF S
  <2> QED BY <1>1, <1>2, SetInduction
<1> QED BY <1>3

\* Chain is built in levels.
LEMMA ChainLevels ==
  ASSUME NEW id, NEW control
  PROVE  /\ \A a \in Nat : Chain(id, control)[0][a] = Nothing
         /\ \A n, a \in Nat : n <= MaxTags =>
              Chain(id, control)[n + 1][a] = Linked(id, control, a, Chain(id, control)[n])
<1> DEFINE f == CHOOSE h : Levels(id, control, MaxTags + 1, h)
<1>1. PICK k \in Nat : k = MaxTags + 1
  BY TagsAssumption
<1>2. Levels(id, control, k, f)
  BY <1>1, LevelsExist
<1>3. Chain(id, control) = f
  BY DEF Chain, Levels
<1> HIDE DEF f
<1>4. PICK g : g = f
  OBVIOUS
<1>5. Levels(id, control, k, g)
  BY <1>2, <1>4
<1>6. \A a \in Nat : g[0][a] = Nothing
  BY <1>5, LevelsBegin
<1>7. \A n, a \in Nat : n < k => g[n + 1][a] = Linked(id, control, a, g[n])
  BY <1>5, LevelsAt
<1>8. \A n \in Nat : n <= MaxTags => n < k
  BY <1>1, TagsAssumption
<1> QED BY <1>3, <1>4, <1>6, <1>7, <1>8

\* No tags describe nothing, in this state and the next.
LEMMA ChainBegins ==
  \A id, control : \A a \in Nat : Chain(id, control)[0][a] = Nothing
BY ChainLevels

\* The description by n + 1 tags is the first tag's, followed by that of the n behind it.
LEMMA ChainContinues ==
  \A id, control : \A n, a \in Nat : n <= MaxTags =>
    Chain(id, control)[n + 1][a] = Linked(id, control, a, Chain(id, control)[n])
BY ChainLevels

LEMMA ChainBeginsNext ==
  (\A id, control : \A a \in Nat : Chain(id, control)[0][a] = Nothing)'
BY ChainBegins, PTL

LEMMA ChainContinuesNext ==
  (\A id, control : \A n, a \in Nat : n <= MaxTags =>
     Chain(id, control)[n + 1][a] = Linked(id, control, a, Chain(id, control)[n]))'
BY ChainContinues, PTL

-----------------------------------------------------------------------------
(* Words of memory.                                                        *)

\* Quadwords of memory are a sequence of words.
LEMMA WordsType ==
  ASSUME TypeOK, NEW a \in Nat, NEW n \in Nat
  PROVE  Words(a, n) \in Seq(Word) /\ Len(Words(a, n)) = 4 * n
<1> DEFINE at(k)   == Load(a + (k - 1) \div 4)[((k - 1) % 4) + 1]
           size    == 4 * n
<1>1. size \in Nat
  OBVIOUS
<1>2. ASSUME NEW k \in 1 .. size PROVE at(k) \in Word
  <2>1. ((k - 1) % 4) + 1 \in 1 .. 4
    BY <1>1
  <2>2. Load(a + (k - 1) \div 4) \in Qword
    BY LoadType
  <2> QED BY <2>1, <2>2 DEF Qword
<1>3. Words(a, n) = [k \in 1 .. size |-> at(k)]
  BY DEF Words
<1> HIDE DEF at, size
<1>4. [k \in 1 .. size |-> at(k)] \in Seq(Word) /\ Len([k \in 1 .. size |-> at(k)]) = size
  BY <1>1, <1>2
<1> QED BY <1>3, <1>4 DEF size

\* No quadwords are no words.
LEMMA WordsNone ==
  ASSUME NEW a \in Nat
  PROVE  Words(a, 0) = <<>>
BY DEF Words

\* The two parts of a concatenation.
LEMMA ConcatLen ==
  ASSUME NEW T, NEW s \in Seq(T), NEW t \in Seq(T)
  PROVE  s \o t \in Seq(T) /\ Len(s \o t) = Len(s) + Len(t)
OBVIOUS

LEMMA ConcatLeft ==
  ASSUME NEW T, NEW s \in Seq(T), NEW t \in Seq(T), NEW i \in 1 .. Len(s)
  PROVE  (s \o t)[i] = s[i]
OBVIOUS

LEMMA ConcatRight ==
  ASSUME NEW T, NEW s \in Seq(T), NEW t \in Seq(T), NEW i \in 1 .. Len(t)
  PROVE  (s \o t)[Len(s) + i] = t[i]
OBVIOUS

\* The first quadword, followed by the others.
LEMMA WordsFirst ==
  ASSUME TypeOK, NEW a \in Nat, NEW n \in Nat, n > 0
  PROVE  Words(a, n) = Load(a) \o Words(a + 1, n - 1)
<1> DEFINE rest == Words(a + 1, n - 1)
           first == Load(a)
           all  == Words(a, n)
<1>1. a + 1 \in Nat /\ n - 1 \in Nat
  OBVIOUS
<1>2. rest \in Seq(Word) /\ Len(rest) = 4 * (n - 1)
  BY <1>1, WordsType
<1>3. first \in Seq(Word) /\ Len(first) = 4
  BY LoadType, QwordIsSeq
<1>4. all \in Seq(Word) /\ Len(all) = 4 * n
  BY WordsType
<1>5. PICK size \in Nat : size = 4 * (n - 1)
  BY <1>1
<1>6. /\ first \o rest \in Seq(Word) /\ Len(first \o rest) = Len(first) + Len(rest)
      /\ \A k \in 1 .. Len(first) : (first \o rest)[k] = first[k]
      /\ \A k \in 1 .. Len(rest) : (first \o rest)[Len(first) + k] = rest[k]
  <2>1. first \in Seq(Word) /\ rest \in Seq(Word)
    BY <1>2, <1>3
  <2> HIDE DEF first, rest
  <2> QED BY <2>1, ConcatLen, ConcatLeft, ConcatRight
<1>7. ASSUME NEW k \in 1 .. 4 + size PROVE all[k] = (first \o rest)[k]
  <2>1. all[k] = Load(a + (k - 1) \div 4)[((k - 1) % 4) + 1]
    BY <1>5 DEF Words
  <2>2. CASE k <= 4
    <3>1. (k - 1) \div 4 = 0 /\ ((k - 1) % 4) + 1 = k /\ k \in 1 .. 4
      BY <2>2
    <3>2. all[k] = first[k]
      BY <2>1, <3>1
    <3>3. (first \o rest)[k] = first[k]
      <4> HIDE DEF first, rest
      <4>1. k \in 1 .. Len(first)
        BY <1>3, <3>1
      <4> QED BY <1>6, <4>1
    <3> QED BY <3>2, <3>3, Zenon
  <2>3. CASE k > 4
    <3>1. PICK j \in 1 .. size : k = 4 + j
      <4>1. k - 4 \in 1 .. size /\ k = 4 + (k - 4)
        BY <2>3
      <4> QED BY <4>1
    <3>2. (k - 1) \div 4 = 1 + (j - 1) \div 4 /\ (k - 1) % 4 = (j - 1) % 4
      BY <3>1
    <3>3. rest[j] = Load((a + 1) + (j - 1) \div 4)[((j - 1) % 4) + 1]
      BY <1>5 DEF Words
    <3>4. a + (k - 1) \div 4 = (a + 1) + (j - 1) \div 4
      BY <3>2
    <3>5. all[k] = rest[j]
      BY <2>1, <3>2, <3>3, <3>4
    <3>6. (first \o rest)[Len(first) + j] = rest[j]
      <4> HIDE DEF first, rest
      <4>1. j \in 1 .. Len(rest)
        BY <1>2, <1>5
      <4> QED BY <1>6, <4>1
    <3>7. (first \o rest)[k] = rest[j]
      <4> DEFINE both == first \o rest
      <4>1. both[4 + j] = rest[j]
        BY <1>3, <3>6
      <4> HIDE DEF both, rest
      <4>2. both[k] = rest[j]
        BY <3>1, <4>1
      <4> QED BY <4>2 DEF both
    <3> QED BY <3>5, <3>7, Zenon
  <2>4. k <= 4 \/ k > 4
    OBVIOUS
  <2> QED BY <2>2, <2>3, <2>4, Zenon
<1>8. Len(all) = 4 + size
  BY <1>4, <1>5
<1>9. all = first \o rest
  <2> DEFINE both == first \o rest
  <2>0. Len(first) + Len(rest) = Len(all)
    BY <1>2, <1>3, <1>4
  <2>1. both \in Seq(Word) /\ Len(both) = Len(all) /\ \A k \in 1 .. Len(all) : all[k] = both[k]
    <3> HIDE DEF first, rest, all
    <3> QED BY <1>6, <1>7, <1>8, <2>0
  <2> HIDE DEF all, both
  <2>2. all = both
    BY <1>4, <2>1, SeqEqual
  <2> QED BY <2>2 DEF both
<1> QED BY <1>9

-----------------------------------------------------------------------------
(* Descriptions are of words, and depend on nothing outside of their area. *)

\* The data of a tag, and where the next one is.
LEMMA TagPlaces ==
  ASSUME TypeOK, NEW a \in Nat
  PROVE  DataAt(a) \in Nat /\ TagAt(a).qwc \in Nat /\ After(a) \in Nat
BY TagAtType DEF DataAt, After, DmaTag

\* What a tag stands for is words.
LEMMA PieceType ==
  ASSUME TypeOK, NEW id, NEW control, NEW a \in Nat
  PROVE  Piece(id, control, a) \in Seq(Word)
<1>1. Words(DataAt(a), TagAt(a).qwc) \in Seq(Word)
  BY TagPlaces, WordsType
<1>2. TagData(a) \in Seq(Word)
  BY TagDataType
<1>3. (IF control.tte /\ id \in {VIF0, VIF1} THEN TagData(a) ELSE <<>>) \in Seq(Word)
  BY <1>2
<1> QED BY <1>1, <1>3, ConcatLen DEF Piece

\* So is what a chain stands for.
LEMMA ChainType ==
  ASSUME TypeOK, NEW id, NEW control, NEW n \in Nat, n <= MaxTags + 1, NEW a \in Nat
  PROVE  Chain(id, control)[n][a].words \in Seq(Word)
<1> DEFINE C == Chain(id, control)
           S == {k \in Nat : k <= MaxTags + 1 => \A b \in Nat : C[k][b].words \in Seq(Word)}
<1>1. 0 \in S
  <2>1. \A b \in Nat : C[0][b] = Nothing
    BY ChainBegins
  <2>2. Nothing.words \in Seq(Word)
    BY DEF Nothing
  <2> HIDE DEF C
  <2> QED BY <2>1, <2>2
<1>2. ASSUME NEW k \in Nat, k \in S PROVE k + 1 \in S
  <2>1. SUFFICES ASSUME k + 1 <= MaxTags + 1, NEW b \in Nat PROVE C[k + 1][b].words \in Seq(Word)
    OBVIOUS
  <2>2. k <= MaxTags /\ k <= MaxTags + 1
    BY <2>1, TagsAssumption
  <2>3. C[k + 1][b] = Linked(id, control, b, C[k])
    BY <2>2, ChainContinues
  <2> HIDE DEF C
  <2>4. C[k][After(b)].words \in Seq(Word)
    BY <1>2, <2>2, TagPlaces
  <2>5. Linked(id, control, b, C[k]).words \in Seq(Word)
    <3>1. CASE TagAt(b).id \notin KnownTags(id)
      <4>1. Linked(id, control, b, C[k]).words = <<>>
        BY <3>1 DEF Linked
      <4> QED BY <4>1
    <3>2. CASE TagAt(b).id \in KnownTags(id)
      <4> DEFINE next == IF Last(control, TagAt(b)) THEN Nothing ELSE C[k][After(b)]
      <4>1. Linked(id, control, b, C[k]).words = Piece(id, control, b) \o next.words
        BY <3>2 DEF Linked
      <4>2. next.words \in Seq(Word)
        BY <2>4 DEF Nothing
      <4> HIDE DEF next
      <4>3. Piece(id, control, b) \o next.words \in Seq(Word)
        BY <4>2, PieceType, ConcatLen
      <4> QED BY <4>1, <4>3
    <3> QED BY <3>1, <3>2
  <2> QED BY <2>3, <2>5
<1>3. Nat \subseteq S
  <2> HIDE DEF S
  <2> QED BY <1>1, <1>2, SetInduction
<1> QED BY <1>3

\* Memory is the same everywhere but in X.
Same(X) == \A b : b \notin X => Load(b)' = Load(b)

\* Words outside of X stay the same.
LEMMA WordsKept ==
  ASSUME NEW X, Same(X), NEW a \in Nat, NEW n \in Nat, (a .. a + n - 1) \cap X = {}
  PROVE  Words(a, n)' = Words(a, n)
<1>1. ASSUME NEW k \in 1 .. 4 * n
      PROVE  Load(a + (k - 1) \div 4)' = Load(a + (k - 1) \div 4)
  <2>1. a + (k - 1) \div 4 \in a .. a + n - 1
    OBVIOUS
  <2> QED BY <2>1 DEF Same
<1> QED BY <1>1 DEF Words

\* Where memory stays the same, a tag and what it stands for do.
LEMMA PieceKept ==
  ASSUME TypeOK, NEW X, Same(X), NEW id, NEW control, NEW a \in Nat, a \notin X,
         (DataAt(a) .. DataAt(a) + TagAt(a).qwc - 1) \cap X = {}
  PROVE  /\ TagAt(a)' = TagAt(a) /\ DataAt(a)' = DataAt(a) /\ After(a)' = After(a)
         /\ Piece(id, control, a)' = Piece(id, control, a)
<1>1. Load(a)' = Load(a)
  BY DEF Same
<1>2. TagAt(a)' = TagAt(a) /\ TagData(a)' = TagData(a)
  BY <1>1 DEF TagAt, TagData
<1>3. DataAt(a)' = DataAt(a) /\ After(a)' = After(a)
  BY <1>2 DEF DataAt, After
<1>4. PICK d \in Nat, n \in Nat : d = DataAt(a) /\ n = TagAt(a).qwc
  BY TagPlaces
<1>5. Words(d, n)' = Words(d, n)
  BY <1>4, WordsKept
<1>6. Words(DataAt(a), TagAt(a).qwc) = Words(d, n)
  BY <1>4
<1>7. Words(DataAt(a), TagAt(a).qwc)' = Words(d, n)'
  <2>1. DataAt(a)' = d /\ TagAt(a).qwc' = n
    BY <1>2, <1>3, <1>4
  <2> QED BY <2>1 DEF Words
<1> QED BY <1>2, <1>3, <1>5, <1>6, <1>7 DEF Piece

\* So does what the tags behind it describe, if theirs does.
LEMMA LinkedKept ==
  ASSUME TypeOK, NEW X, Same(X), NEW id, NEW control, NEW a \in Nat, NEW rest, NEW rest2,
         Linked(id, control, a, rest).area \cap X = {},
         \A b \in Nat : rest[b].area \cap X = {} => rest2[b] = rest[b]
  PROVE  Linked(id, control, a, rest2)' = Linked(id, control, a, rest)
<1>1. CASE TagAt(a).id \notin KnownTags(id)
  <2>1. Linked(id, control, a, rest) = [words |-> <<>>, area |-> {a}]
    BY <1>1 DEF Linked
  <2>2. a \notin X
    BY <2>1
  <2>3. TagAt(a)' = TagAt(a)
    BY <2>2 DEF Same, TagAt
  <2> QED BY <1>1, <2>1, <2>3 DEF Linked
<1>2. CASE TagAt(a).id \in KnownTags(id)
  <2> DEFINE next  == IF Last(control, TagAt(a)) THEN Nothing ELSE rest[After(a)]
             next2 == IF Last(control, TagAt(a)) THEN Nothing ELSE rest2[After(a)]
             data  == DataAt(a) .. DataAt(a) + TagAt(a).qwc - 1
  <2>1. Linked(id, control, a, rest) =
          [words |-> Piece(id, control, a) \o next.words,
           area  |-> {a} \cup data \cup next.area]
    BY <1>2 DEF Linked
  <2>2. a \notin X /\ data \cap X = {} /\ next.area \cap X = {}
    <3>1. Linked(id, control, a, rest).area = {a} \cup data \cup next.area
      <4> HIDE DEF data, next
      <4> QED BY <2>1
    <3> HIDE DEF data, next
    <3> QED BY <3>1
  <2>3. /\ TagAt(a)' = TagAt(a) /\ DataAt(a)' = DataAt(a) /\ After(a)' = After(a)
        /\ Piece(id, control, a)' = Piece(id, control, a)
    BY <2>2, PieceKept
  <2>4. next2 = next
    <3>1. ~Last(control, TagAt(a)) => rest2[After(a)] = rest[After(a)]
      BY <2>2, TagPlaces
    <3> QED BY <3>1
  <2>5. next2' = next2
    BY <2>3 DEF Last, Nothing
  <2>6. Linked(id, control, a, rest2)' =
          [words |-> Piece(id, control, a)' \o next2'.words,
           area  |-> {a} \cup data' \cup next2'.area]
    <3>1. TagAt(a)'.id \in KnownTags(id)
      BY <1>2, <2>3
    <3> QED BY <3>1 DEF Linked
  <2>7. data' = data
    BY <2>3
  <2> HIDE DEF data, next, next2
  <2> QED BY <2>1, <2>3, <2>4, <2>5, <2>6, <2>7
<1> QED BY <1>1, <1>2

\* A chain describes the same as long as the memory it lies in stays the same.
LEMMA ChainKept ==
  ASSUME TypeOK, NEW X, Same(X), NEW id, NEW control, NEW n \in Nat, n <= MaxTags + 1,
         NEW a \in Nat, Chain(id, control)[n][a].area \cap X = {}
  PROVE  Chain(id, control)[n][a]' = Chain(id, control)[n][a]
<1>1. PICK C, D : C = Chain(id, control) /\ D = Chain(id, control)'
  OBVIOUS
<1>2. \A b \in Nat : C[0][b] = Nothing
  BY <1>1, ChainBegins
<1>3. \A b \in Nat : D[0][b] = Nothing
  BY <1>1, ChainBeginsNext DEF Nothing
<1>4. ASSUME NEW k \in Nat, NEW b \in Nat, k <= MaxTags
      PROVE  C[k + 1][b] = Linked(id, control, b, C[k])
  BY <1>1, <1>4, ChainContinues
<1>5. ASSUME NEW k \in Nat, NEW b \in Nat, k <= MaxTags
      PROVE  D[k + 1][b] = Linked(id, control, b, D[k])'
  <2>1. Chain(id, control)'[k + 1][b] = Linked(id, control, b, Chain(id, control)[k])'
    BY <1>5, ChainContinuesNext
  <2>2. Linked(id, control, b, Chain(id, control)[k])' = Linked(id, control, b, D[k])'
    BY <1>1 DEF Linked
  <2> QED BY <1>1, <2>1, <2>2
<1> DEFINE S == {k \in Nat : k <= MaxTags + 1 =>
                   \A b \in Nat : C[k][b].area \cap X = {} => D[k][b] = C[k][b]}
<1>6. 0 \in S
  BY <1>2, <1>3
<1>7. ASSUME NEW k \in Nat, k \in S PROVE k + 1 \in S
  <2>1. SUFFICES ASSUME k + 1 <= MaxTags + 1, NEW b \in Nat, C[k + 1][b].area \cap X = {}
                 PROVE  D[k + 1][b] = C[k + 1][b]
    OBVIOUS
  <2>2. k <= MaxTags /\ k <= MaxTags + 1
    BY <2>1, TagsAssumption
  <2>3. \A e \in Nat : C[k][e].area \cap X = {} => D[k][e] = C[k][e]
    BY <1>7, <2>2
  <2>4. PICK rest, rest2 : rest = C[k] /\ rest2 = D[k]
    OBVIOUS
  <2>5. \A e \in Nat : rest[e].area \cap X = {} => rest2[e] = rest[e]
    BY <2>3, <2>4
  <2>6. Linked(id, control, b, rest).area \cap X = {}
    BY <1>4, <2>1, <2>2, <2>4
  <2>7. Linked(id, control, b, rest2)' = Linked(id, control, b, rest)
    BY <2>5, <2>6, LinkedKept
  <2> QED BY <1>4, <1>5, <2>2, <2>4, <2>7
<1>8. Nat \subseteq S
  <2> HIDE DEF S
  <2> QED BY <1>6, <1>7, SetInduction
<1>9. C[n][a].area \cap X = {} => D[n][a] = C[n][a]
  BY <1>8
<1> QED BY <1>1, <1>9

-----------------------------------------------------------------------------
(* What a step of a channel does to the words that its receiver is owed.   *)

\* The description that the registers of one channel make of the next n tags.
Describes(id, c, n) ==
  LET next == IF GoesOn(id, c) THEN Chain(id, ControlOf(c))[n][c.tadr] ELSE Nothing
  IN  IF c.running
      THEN [words |-> Words(c.madr, c.qwc) \o next.words,
            area  |-> (c.madr .. c.madr + c.qwc - 1) \cup next.area]
      ELSE Nothing

LEMMA DescribedIs ==
  ASSUME NEW id, NEW n, NEW c, c = chan[id]
  PROVE  Described(id, n) = Describes(id, c, n)
BY DEF Described, Describes

LEMMA DescribedIsNext ==
  ASSUME NEW id, NEW n, NEW c, c = chan'[id]
  PROVE  Described(id, n)' = Describes(id, c, n)'
BY DEF Described, Describes

\* A channel whose registers and memory stay describes the same.
LEMMA DescribesKept ==
  ASSUME TypeOK, NEW X, Same(X), NEW id, NEW c \in Channel, NEW n \in Nat, n <= MaxTags + 1,
         Describes(id, c, n).area \cap X = {}
  PROVE  Describes(id, c, n)' = Describes(id, c, n)
<1>1. c.madr \in Nat /\ c.qwc \in Nat /\ c.tadr \in Nat
  BY DEF Channel
<1>2. CASE ~c.running
  BY <1>2 DEF Describes, Nothing
<1>3. CASE c.running
  <2>1. PICK k : k = ControlOf(c)
    OBVIOUS
  <2> DEFINE chained == Chain(id, k)[n][c.tadr]
             next == IF GoesOn(id, c) THEN chained ELSE Nothing
             data == c.madr .. c.madr + c.qwc - 1
  <2>2. Describes(id, c, n) = [words |-> Words(c.madr, c.qwc) \o next.words,
                               area  |-> data \cup next.area]
    BY <1>3, <2>1 DEF Describes
  <2>3. data \cap X = {} /\ next.area \cap X = {}
    <3>1. Describes(id, c, n).area = data \cup next.area
      <4> HIDE DEF data, next
      <4> QED BY <2>2
    <3> HIDE DEF data, next
    <3> QED BY <3>1
  <2>4. Words(c.madr, c.qwc)' = Words(c.madr, c.qwc)
    <3>1. PICK a \in Nat, m \in Nat : a = c.madr /\ m = c.qwc
      BY <1>1
    <3>2. Words(a, m)' = Words(a, m)
      BY <2>3, <3>1, WordsKept
    <3> QED BY <3>1, <3>2 DEF Words
  <2>5. GoesOn(id, c) => chained' = chained
    <3>1. PICK a \in Nat : a = c.tadr
      BY <1>1
    <3>2. GoesOn(id, c) => Chain(id, k)[n][a].area \cap X = {}
      BY <2>3, <3>1
    <3>3. GoesOn(id, c) => Chain(id, k)[n][a]' = Chain(id, k)[n][a]
      BY <3>2, ChainKept
    <3> QED BY <3>1, <3>3
  <2>6. next' = next
    BY <2>5 DEF Nothing, GoesOn
  <2>7. Describes(id, c, n)' = [words |-> Words(c.madr, c.qwc)' \o next'.words,
                                area  |-> data \cup next'.area]
    <3>1. Chain(id, ControlOf(c))' = Chain(id, k)'
      BY <2>1
    <3> QED BY <1>3, <3>1 DEF Describes, GoesOn
  <2> HIDE DEF next, data, chained
  <2> QED BY <2>2, <2>4, <2>6, <2>7
<1> QED BY <1>2, <1>3

\* What a receiver is owed does not change while neither its channel's registers nor its
\* FIFO nor the memory described do.
LEMMA OwedKept ==
  ASSUME TypeOK, NEW X, Same(X), NEW id \in Channels, NEW n \in Nat, n <= MaxTags + 1,
         chan'[id] = chan[id], Queued(id)' = Queued(id), Described(id, n).area \cap X = {}
  PROVE  Owed(id, n)' = Owed(id, n)
<1>1. PICK c \in Channel : c = chan[id]
  BY DEF TypeOK
<1>2. Described(id, n) = Describes(id, c, n)
  BY <1>1, DescribedIs
<1>3. Described(id, n)' = Describes(id, c, n)'
  BY <1>1, DescribedIsNext
<1>4. Describes(id, c, n)' = Describes(id, c, n)
  BY <1>2, DescribesKept
<1> QED BY <1>2, <1>3, <1>4 DEF Owed

\* What the FIFOs of streams hold are words.
LEMMA QueuedType ==
  ASSUME TypeOK, NEW id \in Streams
  PROVE  Queued(id) \in Seq(Word)
BY DEF TypeOK, Streams, Queued, VIF0, VIF1, GIF, SIF1

\* The words of a FIFO, of a tag, of its data and of what follows, grouped in two ways.
Regrouped(q, p, w, r) == (q \o p) \o (w \o r) = q \o ((p \o w) \o r)
LEMMA ConcatFour ==
  ASSUME NEW q \in Seq(Word), NEW p \in Seq(Word), NEW w \in Seq(Word), NEW r \in Seq(Word)
  PROVE  Regrouped(q, p, w, r)
<1>1. p \o w \in Seq(Word) /\ w \o r \in Seq(Word)
  BY ConcatLen
<1>2. (q \o p) \o (w \o r) = q \o (p \o (w \o r))
  BY <1>1, ConcatAssociative
<1>3. p \o (w \o r) = (p \o w) \o r
  BY ConcatAssociative
<1> QED BY <1>2, <1>3, Zenon DEF Regrouped

\* Reading a tag turns the first tag of the description into words of the FIFO and registers.
LEMMA FetchKeepsOwed ==
  ASSUME TypeOK, TypeOK', NEW id \in Streams, FetchesTag(id), NEW n \in Nat, n <= MaxTags
  PROVE  Owed(id, n)' = Owed(id, n + 1)
<1>1. id \in Channels
  BY DEF Streams, Channels, VIF0, VIF1, GIF, SIF1
<1>2. PICK c \in Channel : c = chan[id]
  BY <1>1 DEF TypeOK
<1>0. n \in Nat /\ n + 1 \in Nat /\ n <= MaxTags + 1 /\ n + 1 <= MaxTags + 1
  BY TagsAssumption
<1>3. PICK a \in Nat : a = c.tadr
  BY DEF Channel
<1>4. PICK t \in DmaTag : t = TagAt(a)
  BY TagAtType
<1>5. PICK d : d = AfterTag(c, t)
  OBVIOUS
<1>6. PICK k : k = ControlOf(c)
  OBVIOUS
<1>7. /\ c.running /\ c.qwc = 0 /\ ~c.end /\ t.id \in KnownTags(id) /\ (id = SIF1 => c.mode = 1)
      /\ ram' = ram
  <2>1. Fetching(id) /\ ram' = ram
    BY DEF FetchesTag, FetchGif, FetchVif, FetchSif1
  <2>2. t.id \in KnownTags(id)
    BY <1>2, <1>3, <1>4 DEF FetchesTag, FetchGif, FetchVif, FetchSif1
  <2>3. id = SIF1 => c.mode = 1
    BY <1>2 DEF FetchesTag, FetchGif, FetchVif, FetchSif1, GIF, VIF0, VIF1, SIF1
  <2> QED BY <1>2, <2>1, <2>2, <2>3 DEF Fetching, Active
<1>8. chan'[id] = d
  <2>1. AfterTag(chan[id], TagAt(chan[id].tadr)) = d
    BY <1>2, <1>3, <1>4, <1>5
  <2>2. chan' = [chan EXCEPT ![id] = AfterTag(chan[id], TagAt(chan[id].tadr))]
    BY DEF FetchesTag, FetchGif, FetchVif, FetchSif1
  <2> QED BY <1>1, <2>1, <2>2 DEF TypeOK
<1>9. /\ d \in Channel /\ d.running /\ d.madr = DataAt(a) /\ d.qwc = t.qwc
      /\ d.mode = c.mode /\ d.tte = c.tte /\ d.tie = c.tie
      /\ d.end <=> (t.id \in {"REFE", "END"} \/ (c.tie /\ t.irq))
  <2>1. d \in Channel /\ d.running = c.running
    BY <1>5, AfterTagType
  <2>2. d.madr = DataAt(a)
    BY <1>3, <1>4, <1>5 DEF AfterTag, DataAt, Channel
  <2>3. /\ d.qwc = t.qwc /\ d.mode = c.mode /\ d.tte = c.tte /\ d.tie = c.tie
    BY <1>5 DEF AfterTag, Channel
  <2>4. d.end <=> (t.id \in {"REFE", "END"} \/ (c.tie /\ t.irq))
    BY <1>5 DEF AfterTag, Channel
  <2> QED BY <1>7, <2>1, <2>2, <2>3, <2>4
<1>10. ControlOf(d) = k /\ k.mode = c.mode /\ k.tte = c.tte /\ k.tie = c.tie
  BY <1>6, <1>9 DEF ControlOf
<1>11. GoesOn(id, c)
  BY <1>7 DEF GoesOn, SIF1
<1>12. GoesOn(id, d) <=> ~Last(k, t)
  <2>1. (d.mode = 0 /\ (d.qwc > 0 \/ id = SIF1)) <=> (k.mode = 0 /\ t.qwc > 0)
    BY <1>7, <1>9, <1>10
  <2> QED BY <1>9, <1>10, <2>1 DEF GoesOn, Last
<1>13. ~Last(k, t) => d.tadr = After(a)
  <2>1. t.id \in {"REFE", "CNT", "END", "NEXT", "REF"}
    BY <1>7 DEF KnownTags
  <2>2. ~Last(k, t) => t.id \in {"CNT", "NEXT", "REF"}
    BY <2>1 DEF Last
  <2>3. t.id \in {"CNT", "NEXT", "REF"} => d.tadr = After(a)
    BY <1>3, <1>4, <1>5 DEF AfterTag, After, Channel
  <2> QED BY <2>2, <2>3
<1> DEFINE pre  == IF k.tte /\ id \in {VIF0, VIF1} THEN TagData(a) ELSE <<>>
           data == Words(DataAt(a), t.qwc)
           next == IF Last(k, t) THEN Nothing ELSE Chain(id, k)[n][After(a)]
<1>14. Queued(id)' = Queued(id) \o pre
  <2>1. Queued(id) \in Seq(Word)
    BY QueuedType
  <2>2. Queued(id) \o <<>> = Queued(id)
    BY <2>1
  <2>3. CASE FetchVif(id)
    <3>1. id \in {VIF0, VIF1} /\ Queued(id) = vif_fifo[id] /\ Queued(id)' = vif_fifo'[id]
      BY <2>3 DEF FetchVif, Queued, VIF0, VIF1, GIF, SIF1
    <3>2. \/ k.tte /\ vif_fifo' = [vif_fifo EXCEPT ![id] = vif_fifo[id] \o TagData(a)]
          \/ ~k.tte /\ vif_fifo' = vif_fifo
      BY <1>2, <1>3, <1>10, <2>3 DEF FetchVif
    <3> QED BY <2>2, <3>1, <3>2 DEF TypeOK
  <2>4. CASE FetchGif(id)
    <3>1. id = GIF /\ pre = <<>> /\ Queued(id)' = Queued(id)
      BY <2>4 DEF FetchGif, Queued, fifos, GIF, VIF0, VIF1
    <3> QED BY <2>2, <3>1
  <2>5. CASE FetchSif1(id)
    <3>1. id = SIF1 /\ pre = <<>> /\ Queued(id)' = Queued(id)
      BY <2>5 DEF FetchSif1, Queued, fifos, GIF, VIF0, VIF1, SIF1
    <3> QED BY <2>2, <3>1
  <2> QED BY <2>3, <2>4, <2>5 DEF FetchesTag
<1>15. Described(id, n + 1).words = (pre \o data) \o next.words
  <2>1. Describes(id, c, n + 1).words = Words(c.madr, c.qwc) \o Chain(id, k)[n + 1][a].words
    BY <1>3, <1>6, <1>7, <1>11 DEF Describes
  <2>2. Words(c.madr, c.qwc) = <<>>
    <3>1. c.madr \in Nat
      BY DEF Channel
    <3> QED BY <1>7, <3>1, WordsNone
  <2>3. Chain(id, k)[n + 1][a].words \in Seq(Word)
    BY <1>0, ChainType
  <2>4. Chain(id, k)[n + 1][a] = Linked(id, k, a, Chain(id, k)[n])
    BY ChainContinues
  <2>5. Linked(id, k, a, Chain(id, k)[n]).words = (pre \o data) \o next.words
    BY <1>4, <1>7 DEF Linked, Piece
  <2>6. <<>> \o Chain(id, k)[n + 1][a].words = Chain(id, k)[n + 1][a].words
    BY <2>3
  <2>7. Described(id, n + 1) = Describes(id, c, n + 1)
    BY <1>2, DescribedIs
  <2> HIDE DEF pre, data, next
  <2> QED BY <2>1, <2>2, <2>4, <2>5, <2>6, <2>7
<1>16. Described(id, n)'.words = data \o next.words
  <2>1. Described(id, n)' = Describes(id, d, n)'
    BY <1>8, DescribedIsNext
  <2>2. Describes(id, d, n)' = Describes(id, d, n)
    <3>1. Same({})
      BY <1>7 DEF Same, Load
    <3>2. Describes(id, d, n).area \cap {} = {}
      OBVIOUS
    <3> QED BY <1>0, <1>9, <3>1, <3>2, DescribesKept
  <2>3. Describes(id, d, n).words = Words(d.madr, d.qwc) \o next.words
    <3>1. (IF GoesOn(id, d) THEN Chain(id, ControlOf(d))[n][d.tadr] ELSE Nothing) = next
      BY <1>10, <1>12, <1>13
    <3> HIDE DEF next
    <3> QED BY <1>9, <3>1 DEF Describes
  <2>4. Words(d.madr, d.qwc) = data
    BY <1>9
  <2> HIDE DEF data, next
  <2> QED BY <2>1, <2>2, <2>3, <2>4
<1>17. Queued(id) \in Seq(Word) /\ pre \in Seq(Word) /\ data \in Seq(Word) /\ next.words \in Seq(Word)
  <2>1. Queued(id) \in Seq(Word) /\ TagData(a) \in Seq(Word)
    BY QueuedType, TagDataType
  <2>2. pre \in Seq(Word)
    BY <2>1
  <2>3. data \in Seq(Word)
    BY <1>4, TagPlaces, WordsType
  <2>4. Chain(id, k)[n][After(a)].words \in Seq(Word)
    BY <1>0, TagPlaces, ChainType
  <2>5. next.words \in Seq(Word)
    BY <2>4 DEF Nothing
  <2> QED BY <2>1, <2>2, <2>3, <2>5
<1>18. Owed(id, n)' = (Queued(id) \o pre) \o (data \o next.words)
  <2> HIDE DEF pre, data, next
  <2> QED BY <1>14, <1>16 DEF Owed
<1>19. Owed(id, n + 1) = Queued(id) \o ((pre \o data) \o next.words)
  <2> HIDE DEF pre, data, next
  <2> QED BY <1>15 DEF Owed
<1> HIDE DEF pre, data, next
<1>20. Regrouped(Queued(id), pre, data, next.words)
  BY <1>17, ConcatFour, Zenon
<1> QED BY <1>18, <1>19, <1>20, Zenon DEF Regrouped

\* Moving a quadword turns the first quadword of the data into words of the FIFO.
LEMMA TransferKeepsOwed ==
  ASSUME TypeOK, TypeOK', NEW id \in Streams, NEW n \in Nat, n <= MaxTags + 1,
         TransferVif(id) \/ TransferGif(id) \/ TransferSif1(id)
  PROVE  Owed(id, n)' = Owed(id, n)
<1>1. id \in Channels
  BY DEF Streams, Channels, VIF0, VIF1, GIF, SIF1
<1>2. PICK c \in Channel : c = chan[id]
  BY <1>1 DEF TypeOK
<1>3. PICK a \in Nat : a = c.madr
  BY DEF Channel
<1>4. PICK d : d = chan'[id]
  OBVIOUS
<1>5. c.running /\ c.qwc > 0 /\ ram' = ram
  BY <1>2 DEF TransferVif, TransferGif, TransferSif1, Transferring, Active
<1>6. \/ id = SIF1 /\ d = Moved(c)
      \/ id # SIF1 /\ d = MovedToPath(c)
  <2>1. CASE TransferVif(id) \/ TransferGif(id)
    <3>1. chan' = [chan EXCEPT ![id] = MovedToPath(chan[id])]
      BY <2>1 DEF TransferVif, TransferGif
    <3>2. id \in {VIF0, VIF1, GIF}
      BY <2>1 DEF TransferVif, TransferGif
    <3>3. id # SIF1
      BY <3>2 DEF VIF0, VIF1, GIF, SIF1
    <3> QED BY <1>1, <1>2, <1>4, <3>1, <3>3 DEF TypeOK
  <2>2. CASE TransferSif1(id)
    <3>1. chan' = [chan EXCEPT ![id] = Moved(chan[id])] /\ id = SIF1
      BY <2>2 DEF TransferSif1
    <3> QED BY <1>1, <1>2, <1>4, <3>1 DEF TypeOK
  <2> QED BY <2>1, <2>2
<1>7. /\ d \in Channel /\ d.running /\ d.madr = a + 1 /\ d.qwc = c.qwc - 1 /\ d.tadr = c.tadr
      /\ ControlOf(d) = ControlOf(c)
  <2>1. d \in Channel /\ d.running
    BY <1>5, <1>6, MovedType, MovedToPathType
  <2>2. d.madr = a + 1 /\ d.qwc = c.qwc - 1 /\ d.tadr = c.tadr
    BY <1>3, <1>6 DEF Moved, MovedToPath, Channel
  <2>3. d.mode = c.mode /\ d.tte = c.tte /\ d.tie = c.tie
    BY <1>6 DEF Moved, MovedToPath, Channel
  <2> QED BY <2>1, <2>2, <2>3 DEF ControlOf
<1>8. GoesOn(id, d) <=> GoesOn(id, c)
  <2>1. c.mode \in 0 .. 3 /\ c.qwc \in Nat /\ c.end \in BOOLEAN /\ d.mode = c.mode
    BY <1>6 DEF Moved, MovedToPath, Channel
  <2>2. CASE id = SIF1 /\ d = Moved(c)
    <3>1. d.end <=> c.end
      BY <2>2 DEF Moved, Channel
    <3> QED BY <2>1, <2>2, <3>1 DEF GoesOn
  <2>3. CASE id # SIF1 /\ d = MovedToPath(c)
    <3>1. d.end <=> (c.end \/ (c.qwc = 1 /\ c.mode = 0))
      BY <2>3 DEF MovedToPath, Moved, Channel
    <3> QED BY <1>5, <1>7, <2>1, <2>3, <3>1 DEF GoesOn
  <2> QED BY <1>6, <2>2, <2>3
<1> DEFINE first == Load(a)
           data  == Words(a + 1, c.qwc - 1)
           next  == IF GoesOn(id, c) THEN Chain(id, ControlOf(c))[n][c.tadr] ELSE Nothing
<1>9. Queued(id)' = Queued(id) \o first
  <2>1. CASE TransferVif(id)
    <3>1. id \in {VIF0, VIF1} /\ Queued(id) = vif_fifo[id] /\ Queued(id)' = vif_fifo'[id]
      BY <2>1 DEF TransferVif, Queued, VIF0, VIF1, GIF, SIF1
    <3>2. vif_fifo' = [vif_fifo EXCEPT ![id] = vif_fifo[id] \o Load(a)]
      BY <1>2, <1>3, <2>1 DEF TransferVif
    <3> QED BY <3>1, <3>2 DEF TypeOK
  <2>2. CASE TransferGif(id)
    <3>1. Queued(id) = gif_fifo /\ Queued(id)' = gif_fifo'
      BY <2>2 DEF TransferGif, Queued, VIF0, VIF1, GIF, SIF1
    <3> QED BY <1>2, <1>3, <2>2, <3>1 DEF TransferGif
  <2>3. CASE TransferSif1(id)
    <3>1. Queued(id) = sif1_fifo /\ Queued(id)' = sif1_fifo'
      BY <2>3 DEF TransferSif1, Queued, VIF0, VIF1, GIF, SIF1
    <3> QED BY <1>2, <1>3, <2>3, <3>1 DEF TransferSif1
  <2> QED BY <2>1, <2>2, <2>3
<1>10. Described(id, n).words = (first \o data) \o next.words
  <2>1. PICK m \in Nat : m = c.qwc /\ m > 0
    BY <1>5 DEF Channel
  <2>2. Words(a, m) = Load(a) \o Words(a + 1, m - 1)
    BY <2>1, WordsFirst
  <2>3. Describes(id, c, n).words = Words(a, m) \o next.words
    BY <1>3, <1>5, <2>1 DEF Describes
  <2>4. Described(id, n) = Describes(id, c, n)
    BY <1>2, DescribedIs
  <2> HIDE DEF next
  <2> QED BY <2>1, <2>2, <2>3, <2>4
<1>11. Described(id, n)'.words = data \o next.words
  <2>1. Described(id, n)' = Describes(id, d, n)'
    BY <1>4, DescribedIsNext
  <2>2. Describes(id, d, n)' = Describes(id, d, n)
    <3>1. Same({})
      BY <1>5 DEF Same, Load
    <3>2. Describes(id, d, n).area \cap {} = {}
      OBVIOUS
    <3> QED BY <1>7, <3>1, <3>2, DescribesKept
  <2>3. Describes(id, d, n).words = data \o next.words
    <3>1. (IF GoesOn(id, d) THEN Chain(id, ControlOf(d))[n][d.tadr] ELSE Nothing) = next
      BY <1>7, <1>8
    <3> HIDE DEF next
    <3> QED BY <1>7, <3>1 DEF Describes
  <2> HIDE DEF data, next
  <2> QED BY <2>1, <2>2, <2>3
<1>12. Queued(id) \in Seq(Word) /\ first \in Seq(Word) /\ data \in Seq(Word) /\ next.words \in Seq(Word)
  <2>1. Queued(id) \in Seq(Word) /\ first \in Seq(Word)
    BY QueuedType, LoadType, QwordIsSeq
  <2>2. a + 1 \in Nat /\ c.qwc - 1 \in Nat /\ c.tadr \in Nat
    BY <1>5 DEF Channel
  <2>3. data \in Seq(Word)
    BY <2>2, WordsType
  <2>4. Chain(id, ControlOf(c))[n][c.tadr].words \in Seq(Word)
    BY <2>2, ChainType
  <2>5. next.words \in Seq(Word)
    BY <2>4 DEF Nothing
  <2> QED BY <2>1, <2>3, <2>5
<1>13. Owed(id, n)' = (Queued(id) \o first) \o (data \o next.words)
  <2> HIDE DEF first, data, next
  <2> QED BY <1>9, <1>11 DEF Owed
<1>14. Owed(id, n) = Queued(id) \o ((first \o data) \o next.words)
  <2> HIDE DEF first, data, next
  <2> QED BY <1>10 DEF Owed
<1> HIDE DEF first, data, next
<1>15. Regrouped(Queued(id), first, data, next.words)
  BY <1>12, ConcatFour, Zenon
<1> QED BY <1>13, <1>14, <1>15, Zenon DEF Regrouped

\* A transfer that ends has nothing left to move.
LEMMA EndKeepsOwed ==
  ASSUME TypeOK, TypeOK', NEW id \in Streams, NEW n \in Nat, EndTransfer(id)
  PROVE  Owed(id, n)' = Owed(id, n)
<1>1. id \in Channels
  BY DEF Streams, Channels, VIF0, VIF1, GIF, SIF1
<1>2. PICK c \in Channel : c = chan[id]
  BY <1>1 DEF TypeOK
<1>3. c.running /\ c.qwc = 0 /\ c.end
  BY <1>2 DEF EndTransfer, Active
<1>4. Described(id, n).words = <<>>
  <2>1. c.madr \in Nat
    BY DEF Channel
  <2>2. Words(c.madr, 0) = <<>>
    BY <2>1, WordsNone
  <2>3. Describes(id, c, n).words = <<>> \o <<>>
    BY <1>3, <2>2 DEF Describes, GoesOn, Nothing
  <2> QED BY <1>2, <2>3, DescribedIs
<1>5. Described(id, n)' = Nothing
  <2>1. chan'[id].running = FALSE
    BY <1>1 DEF EndTransfer, TypeOK, Channel
  <2> QED BY <2>1 DEF Described, Nothing
<1>6. Queued(id)' = Queued(id)
  BY DEF EndTransfer, fifos, Queued
<1> QED BY <1>4, <1>5, <1>6 DEF Owed, Nothing

\* A step of another channel leaves a channel and its FIFO alone.
LEMMA OthersKeepOwed ==
  ASSUME TypeOK, NEW c \in Channels, ChannelStep(c), NEW id \in Streams, id # c,
         NEW n \in Nat, n <= MaxTags + 1
  PROVE  \/ TransferSif0(SIF0) /\ chan[SIF0].madr \in Described(id, n).area
         \/ Owed(id, n)' = Owed(id, n)
<1>1. id \in Channels /\ id \in {VIF0, VIF1, GIF, SIF1} /\ id # SIF0
  BY DEF Streams, Channels, VIF0, VIF1, GIF, SIF1, SIF0
<1>2. chan'[id] = chan[id]
  <2>1. CASE \/ TransferVif(c) \/ TransferGif(c) \/ TransferSif0(c) \/ TransferSif1(c)
             \/ FetchGif(c) \/ FetchVif(c) \/ FetchSif0(c) \/ FetchSif1(c)
    BY <1>1, <2>1, TransferKeeps, FetchKeeps DEF Keeps
  <2>2. CASE EndTransfer(c)
    BY <1>1, <2>2, EndTransferEnds
  <2>3. CASE TransferUnknown(c) \/ FetchUnknown(c)
    BY <2>3 DEF TransferUnknown, FetchUnknown, regs
  <2> QED BY <2>1, <2>2, <2>3 DEF ChannelStep
<1>3. Queued(id)' = Queued(id)
  <2>1. CASE TransferVif(c) \/ FetchVif(c)
    <3>1. c \in {VIF0, VIF1} /\ gif_fifo' = gif_fifo /\ sif1_fifo' = sif1_fifo
      BY <2>1 DEF TransferVif, FetchVif
    <3>2. id \in {VIF0, VIF1} => vif_fifo'[id] = vif_fifo[id]
      BY <2>1 DEF TransferVif, FetchVif, TypeOK
    <3> QED BY <1>1, <3>1, <3>2 DEF Queued, VIF0, VIF1, GIF, SIF1
  <2>2. CASE TransferGif(c)
    <3>1. c = GIF /\ vif_fifo' = vif_fifo /\ sif1_fifo' = sif1_fifo
      BY <2>2 DEF TransferGif
    <3> QED BY <1>1, <3>1 DEF Queued, VIF0, VIF1, GIF, SIF1
  <2>3. CASE TransferSif1(c)
    <3>1. c = SIF1 /\ vif_fifo' = vif_fifo /\ gif_fifo' = gif_fifo
      BY <2>3 DEF TransferSif1
    <3> QED BY <1>1, <3>1 DEF Queued, VIF0, VIF1, GIF, SIF1
  <2>4. CASE \/ TransferSif0(c) \/ FetchGif(c) \/ FetchSif0(c) \/ FetchSif1(c)
             \/ EndTransfer(c) \/ TransferUnknown(c) \/ FetchUnknown(c)
    <3>1. vif_fifo' = vif_fifo /\ gif_fifo' = gif_fifo /\ sif1_fifo' = sif1_fifo
      BY <2>4 DEF TransferSif0, FetchGif, FetchSif0, FetchSif1, EndTransfer, TransferUnknown,
                  FetchUnknown, fifos
    <3> QED BY <3>1 DEF Queued
  <2> QED BY <2>1, <2>2, <2>3, <2>4 DEF ChannelStep
<1>4. CASE TransferSif0(c)
  <2>1. c = SIF0
    BY <1>4 DEF TransferSif0
  <2>2. PICK X : X = {chan[SIF0].madr}
    OBVIOUS
  <2>3. Same(X)
    BY <1>4, <2>1, <2>2 DEF TransferSif0, Store, Same, Load
  <2>4. CASE chan[SIF0].madr \in Described(id, n).area
    BY <1>4, <2>1, <2>4
  <2>5. CASE chan[SIF0].madr \notin Described(id, n).area
    <3>1. Described(id, n).area \cap X = {}
      BY <2>2, <2>5
    <3> QED BY <1>1, <1>2, <1>3, <2>3, <3>1, OwedKept
  <2> QED BY <2>4, <2>5
<1>5. CASE ~TransferSif0(c)
  <2>1. ram' = ram
    BY <1>5 DEF ChannelStep, TransferVif, TransferGif, TransferSif1, TransferUnknown, EndTransfer,
                FetchGif, FetchVif, FetchSif0, FetchSif1, FetchUnknown
  <2>2. Same({})
    BY <2>1 DEF Same, Load
  <2>3. Described(id, n).area \cap {} = {}
    OBVIOUS
  <2> QED BY <1>1, <1>2, <1>3, <2>2, <2>3, OwedKept
<1> QED BY <1>4, <1>5

\* The controller stops at what it does not know, and keeps everything as it is.
LEMMA UnknownKeepsOwed ==
  ASSUME TypeOK, NEW id \in Streams, NEW n \in Nat, n <= MaxTags + 1,
         TransferUnknown(id) \/ FetchUnknown(id)
  PROVE  Owed(id, n)' = Owed(id, n)
<1>1. id \in Channels
  BY DEF Streams, Channels, VIF0, VIF1, GIF, SIF1
<1>2. chan'[id] = chan[id] /\ Queued(id)' = Queued(id) /\ ram' = ram
  BY DEF TransferUnknown, FetchUnknown, regs, fifos, Queued
<1>3. Same({})
  BY <1>2 DEF Same, Load
<1>4. Described(id, n).area \cap {} = {}
  OBVIOUS
<1> QED BY <1>1, <1>2, <1>3, <1>4, OwedKept

LEMMA StepConserves ==
  ASSUME TypeOK, TypeOK', NEW c \in Channels, ChannelStep(c),
         NEW id \in Streams, NEW n \in 0 .. MaxTags
  PROVE  LET before == IF FetchesTag(id) THEN n + 1 ELSE n
         IN  \/ TransferSif0(SIF0) /\ chan[SIF0].madr \in Described(id, before).area
             \/ Owed(id, n)' = Owed(id, before)
<1>1. n \in Nat /\ n <= MaxTags /\ n <= MaxTags + 1
  BY TagsAssumption
<1>2. CASE FetchesTag(id)
  <2>1. Owed(id, n)' = Owed(id, n + 1)
    BY <1>1, <1>2, FetchKeepsOwed
  <2> QED BY <1>2, <2>1
<1>3. CASE ~FetchesTag(id)
  <2>1. \/ TransferSif0(SIF0) /\ chan[SIF0].madr \in Described(id, n).area
        \/ Owed(id, n)' = Owed(id, n)
    <3>1. CASE id # c
      BY <1>1, <3>1, OthersKeepOwed
    <3>2. CASE id = c
      <4>1. id # SIF0
        BY DEF Streams, VIF0, VIF1, GIF, SIF1, SIF0
      <4>2. ~TransferSif0(id) /\ ~FetchSif0(id)
        BY <4>1 DEF TransferSif0, FetchSif0
      <4>3. CASE TransferVif(id) \/ TransferGif(id) \/ TransferSif1(id)
        BY <1>1, <4>3, TransferKeepsOwed
      <4>4. CASE EndTransfer(id)
        BY <1>1, <4>4, EndKeepsOwed
      <4>5. CASE TransferUnknown(id) \/ FetchUnknown(id)
        BY <1>1, <4>5, UnknownKeepsOwed
      <4> QED BY <1>3, <3>2, <4>2, <4>3, <4>4, <4>5 DEF ChannelStep, FetchesTag
    <3> QED BY <3>1, <3>2
  <2> QED BY <1>3, <2>1
<1> QED BY <1>2, <1>3

\* dmac.cc's tick and fetch_tag turn what a program asked for into words of the FIFOs
\* without losing, repeating or reordering one, for every memory, every DMAtag chain and
\* every number of its tags looked at.
THEOREM StreamsConserved == Spec => StreamConserved
<1>1. TypeOK /\ TypeOK' => (Visit => KeepsDebts)
  BY StepConserves DEF Visit, KeepsDebts
<1> QED BY <1>1, DmacTypeCorrect, PTL DEF StreamConserved
=============================================================================
