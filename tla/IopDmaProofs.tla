---------------------------- MODULE IopDmaProofs ----------------------------
(***************************************************************************)
(* The invariants of IopDmaSystem, for every memory, block count and bound.*)
(***************************************************************************)
EXTENDS IopDmaSystem, TLAPS

\* The drivers run once DPCR2 and DICR2 are set up, and nothing completes before.
SetUpFirst ==
  /\ enabled \in {{}, Served} /\ mask \in {{}, Served}
  /\ mask = {} => flags = {}
  /\ \A id \in Channels : ichan[id].running => id \in Served /\ enabled = Served /\ mask = Served

\* While replies are fetched, there are enough of them, or the commands that bring them
\* are being uploaded; when the fetching side is visited, the next four are there.
Supplied ==
  ichan[SIO2out].running =>
    /\ ichan[SIO2in].running \/ sio2_fifo >= 4 * ichan[SIO2out].count
    /\ sio2_fifo + 4 * ichan[SIO2in].count >= 4 * ichan[SIO2out].count
    /\ turn = SIO2out /\ ichan[SIO2out].count > 0 => sio2_fifo >= 4 \/ halted

IInv == SystemTypeOK /\ SetUpFirst /\ CompletionSignalled /\ RepliesExist /\ Supplied

USE DEF SPU2, DEV9, SIF0, SIF1, SIO2in, SIO2out

LEMMA InitInv == Init => IInv
<1> SUFFICES ASSUME Init PROVE IInv
  OBVIOUS
<1>1. PICK memory \in Memories : InitWith(memory)
  BY DEF Init
<1>2. iram \in [Address -> Word]
  BY <1>1, SystemAssumption DEF InitWith
<1>3. ichan \in [Channels -> Channel]
  BY <1>1, SizeAssumption DEF InitWith, Channel
<1>4. SystemTypeOK
  <2>1. sif0_fifo \in Seq(Word) /\ sif1_fifo \in Seq(Word)
    BY <1>1 DEF InitWith
  <2>2. enabled = {} /\ flags = {} /\ mask = {} /\ dma_intr = FALSE /\ spu_ready = FALSE /\ halted = FALSE
    BY <1>1 DEF InitWith
  <2>3. sio2_fifo \in Int
    BY <1>1 DEF InitWith
  <2> QED BY <1>2, <1>3, <2>1, <2>2, <2>3 DEF Init, SystemTypeOK, TypeOK
<1>5. \A id \in Channels : ~ichan[id].running
  BY <1>1 DEF InitWith
<1>6. SIO2out \in Channels
  BY DEF Channels
<1> QED
  BY <1>1, <1>4, <1>5, <1>6
  DEF Init, InitWith, IInv, SetUpFirst, CompletionSignalled, RepliesExist, Supplied

\* A channel's registers are the only ones that change.
LEMMA OneChannel ==
  ASSUME TypeOK, NEW id \in Channels, NEW c \in Channel, ichan' = [ichan EXCEPT ![id] = c]
  PROVE  /\ ichan' \in [Channels -> Channel]
         /\ ichan'[id] = c
         /\ \A other \in Channels \ {id} : ichan'[other] = ichan[other]
  BY DEF TypeOK

\* What the program writes to one channel changes nothing else.
LEMMA WrittenInv ==
  ASSUME IInv, NEW id \in Served, NEW c \in Channel, ichan' = [ichan EXCEPT ![id] = c],
         c.running => enabled = Served /\ mask = Served,
         UNCHANGED <<enabled, flags, mask, dma_intr, iram, spu_ready, sio2_fifo, sif0_fifo,
                     sif1_fifo, halted, turn, handler, seen>>
  PROVE  SystemTypeOK' /\ SetUpFirst' /\ CompletionSignalled' /\ RepliesExist'
<1>1. id \in Channels
  BY DEF Served, Channels
<1>2. /\ ichan' \in [Channels -> Channel]
      /\ ichan'[id] = c
      /\ \A other \in Channels \ {id} : ichan'[other] = ichan[other]
  BY <1>1, OneChannel DEF IInv, SystemTypeOK
<1>3. SystemTypeOK'
  BY <1>2 DEF IInv, SystemTypeOK, TypeOK
<1>4. SetUpFirst'
  BY <1>2 DEF IInv, SetUpFirst
<1> QED BY <1>3, <1>4 DEF IInv, CompletionSignalled, RepliesExist

-----------------------------------------------------------------------------

LEMMA SetUpInv ==
  ASSUME IInv, turn = 0, SetUp, UNCHANGED <<handler, seen, turn>>
  PROVE  IInv'
<1> USE DEF IInv
<1>1. CASE enabled = {} /\ WriteDpcr2(Served)
  <2>1. /\ enabled' = Served
        /\ UNCHANGED <<ichan, flags, mask, dma_intr, iram, spu_ready, sio2_fifo, sif0_fifo, sif1_fifo, halted>>
    BY <1>1 DEF WriteDpcr2, Unhalted
  <2>2. SystemTypeOK'
    BY <2>1 DEF SystemTypeOK, TypeOK, Served, Channels
  <2>3. SetUpFirst'
    BY <2>1, <1>1 DEF SetUpFirst, Served
  <2> QED BY <2>1, <2>2, <2>3 DEF CompletionSignalled, RepliesExist, Supplied
<1>2. CASE mask = {} /\ WriteDicr2({}, Served)
  <2>1. /\ flags' = flags /\ mask' = Served
        /\ UNCHANGED <<ichan, enabled, dma_intr, iram, spu_ready, sio2_fifo, sif0_fifo, sif1_fifo, halted>>
    BY <1>2 DEF WriteDicr2, Unhalted
  <2>2. SystemTypeOK'
    BY <2>1 DEF SystemTypeOK, TypeOK, Served, Channels
  <2>3. flags = {}
    BY <1>2 DEF SetUpFirst
  <2>4. SetUpFirst'
    BY <2>1, <2>3, <1>2 DEF SetUpFirst, Served
  <2> QED BY <2>1, <2>2, <2>3, <2>4 DEF CompletionSignalled, RepliesExist, Supplied
<1> QED BY <1>1, <1>2 DEF SetUp

\* A stopped channel gets another count or address.
LEMMA ProgramBlockInv ==
  ASSUME IInv, turn = 0, NEW id \in Served, ProgramBlock(id), UNCHANGED <<handler, seen, turn>>
  PROVE  IInv'
<1> USE DEF IInv
<1>1. id \in Channels /\ SIO2in \in Channels /\ SIO2out \in Channels
  BY DEF Served, Channels
<1>2. ~ichan[id].running
  BY DEF ProgramBlock, Idle
<1>3. UNCHANGED <<enabled, flags, mask, dma_intr, iram, spu_ready, sio2_fifo, sif0_fifo,
                  sif1_fifo, halted>>
  BY DEF ProgramBlock, WriteCount, WriteMadr, Unhalted
<1>4. ASSUME NEW c \in Channel, ~c.running, ichan' = [ichan EXCEPT ![id] = c]
      PROVE  IInv'
  <2>1. /\ ichan'[id] = c
        /\ \A other \in Channels \ {id} : ichan'[other] = ichan[other]
    BY <1>1, <1>4, OneChannel DEF SystemTypeOK
  <2>2. CASE id = SIO2out
    BY <2>1, <2>2, <1>1, <1>3, <1>4, WrittenInv DEF Supplied
  <2>3. CASE id = SPU2
    <3>1. ichan'[SIO2in] = ichan[SIO2in] /\ ichan'[SIO2out] = ichan[SIO2out]
      BY <2>3, <1>1, <2>1
    <3>2. Supplied'
      BY <3>1, <1>3 DEF Supplied
    <3> QED BY <3>2, <1>3, <1>4, WrittenInv
  <2>4. CASE id = SIO2in
    <3>1. ichan'[SIO2out] = ichan[SIO2out] /\ ichan'[SIO2in] = c
      BY <2>4, <1>1, <2>1
    <3>2. c.count \in Nat /\ ichan[SIO2out].count \in Nat /\ sio2_fifo \in Int
      BY <1>1, <1>4, SizeAssumption DEF SystemTypeOK, TypeOK, Channel
    <3>3. ichan[SIO2out].running => sio2_fifo >= 4 * ichan[SIO2out].count
      BY <2>4, <1>2 DEF Supplied
    <3>4. Supplied'
      BY <3>1, <3>2, <3>3, <1>3 DEF Supplied
    <3> QED BY <3>4, <1>3, <1>4, WrittenInv
  <2> QED BY <2>2, <2>3, <2>4 DEF Served
<1>5. ASSUME NEW n \in Blocks, WriteCount(id, n)
      PROVE  IInv'
  <2>1. n % CountLimit \in 0 .. CountLimit - 1
    BY SystemAssumption, SizeAssumption
  <2>2. /\ [ichan[id] EXCEPT !.count = n % CountLimit] \in Channel
        /\ ~[ichan[id] EXCEPT !.count = n % CountLimit].running
    BY <1>1, <1>2, <2>1 DEF SystemTypeOK, TypeOK, Channel
  <2>3. ichan' = [ichan EXCEPT ![id] = [ichan[id] EXCEPT !.count = n % CountLimit]]
    BY <1>5 DEF WriteCount
  <2> QED BY <2>2, <2>3, <1>4
<1>6. ASSUME WriteMadr(id, 0)
      PROVE  IInv'
  <2>1. /\ [ichan[id] EXCEPT !.addr = 0] \in Channel
        /\ ~[ichan[id] EXCEPT !.addr = 0].running
    BY <1>1, <1>2 DEF SystemTypeOK, TypeOK, Channel
  <2>2. ichan' = [ichan EXCEPT ![id] = [ichan[id] EXCEPT !.addr = 0]]
    BY <1>6 DEF WriteMadr
  <2> QED BY <2>1, <2>2, <1>4
<1> QED BY <1>5, <1>6 DEF ProgramBlock

\* Fetching begins only when enough was uploaded or is being uploaded.
LEMMA StartInv ==
  ASSUME IInv, turn = 0, NEW id \in Served, Start(id), UNCHANGED <<handler, seen, turn>>
  PROVE  IInv'
<1> USE DEF IInv
<1>1. id \in Channels /\ SIO2in \in Channels /\ SIO2out \in Channels
  BY DEF Served, Channels
<1>2. PICK m \in Modes(id) : WriteChcr(id, [running |-> TRUE, mode |-> m, bit8 |-> FALSE])
  BY DEF Start
<1>3. m \in 0 .. 3
  BY DEF Modes
<1> DEFINE c == [ichan[id] EXCEPT !.running = TRUE, !.mode = m, !.bit8 = FALSE]
<1>4. c \in Channel /\ c.running /\ c.count = ichan[id].count
  BY <1>1, <1>3 DEF SystemTypeOK, TypeOK, Channel
<1>5. ichan' = [ichan EXCEPT ![id] = c]
  BY <1>2 DEF WriteChcr
<1>6. UNCHANGED <<enabled, flags, mask, dma_intr, iram, spu_ready, sio2_fifo, sif0_fifo,
                  sif1_fifo, halted>>
  BY <1>2 DEF WriteChcr, Unhalted
<1>7. enabled = Served /\ mask = Served
  <2>1. Served \subseteq enabled \cap mask /\ Served # {}
    BY DEF Start, Idle, Served
  <2> QED BY <2>1 DEF SetUpFirst
<1>8. /\ ichan'[id] = c
      /\ \A other \in Channels \ {id} : ichan'[other] = ichan[other]
  BY <1>1, <1>4, <1>5, OneChannel DEF SystemTypeOK
<1> HIDE DEF c
<1>9. Supplied'
  <2>1. CASE id = SIO2out
    <3>1. ichan'[SIO2in] = ichan[SIO2in] /\ ichan'[SIO2out].count = ichan[SIO2out].count
      BY <2>1, <1>1, <1>4, <1>8
    <3>2. /\ ichan[SIO2in].running \/ ichan[SIO2in].count = 0
          /\ sio2_fifo + 4 * ichan[SIO2in].count >= 4 * ichan[SIO2out].count
      BY <2>1 DEF Start, Uploaded
    <3>3. /\ ichan[SIO2in].count \in Nat /\ ichan[SIO2out].count \in Nat /\ sio2_fifo \in Int
      BY <1>1, SizeAssumption DEF SystemTypeOK, TypeOK, Channel
    <3> QED BY <3>1, <3>2, <3>3, <1>6 DEF Supplied
  <2>2. CASE id = SPU2
    <3>1. ichan'[SIO2in] = ichan[SIO2in] /\ ichan'[SIO2out] = ichan[SIO2out]
      BY <2>2, <1>1, <1>8
    <3> QED BY <3>1, <1>6 DEF Supplied
  <2>3. CASE id = SIO2in
    <3>1. ichan'[SIO2out] = ichan[SIO2out] /\ ~ichan[SIO2out].running
      BY <2>3, <1>1, <1>8 DEF Start
    <3> QED BY <3>1 DEF Supplied
  <2> QED BY <2>1, <2>2, <2>3 DEF Served
<1>10. SystemTypeOK' /\ SetUpFirst' /\ CompletionSignalled' /\ RepliesExist'
  BY <1>4, <1>5, <1>6, <1>7, WrittenInv
<1> QED BY <1>9, <1>10

\* The handler: what it clears it has read, and what it has not read is still to be
\* answered.
LEMMA HandlerInv ==
  ASSUME IInv, Acknowledge \/ ReadFlags \/ ClearFlags, UNCHANGED turn
  PROVE  IInv'
<1> USE DEF IInv
<1>1. CASE Acknowledge
  <2>1. /\ dma_intr' = FALSE /\ handler' = "acked"
        /\ UNCHANGED <<ichan, enabled, flags, mask, iram, spu_ready, sio2_fifo, sif0_fifo,
                       sif1_fifo, halted, seen>>
    BY <1>1 DEF Acknowledge, AckDma, Unhalted
  <2> QED BY <2>1 DEF SystemTypeOK, TypeOK, SetUpFirst, CompletionSignalled, RepliesExist, Supplied
<1>2. CASE ReadFlags
  <2>1. /\ handler' = "read" /\ seen' = flags
        /\ UNCHANGED <<ichan, enabled, flags, mask, dma_intr, iram, spu_ready, sio2_fifo,
                       sif0_fifo, sif1_fifo, halted>>
    BY <1>2 DEF ReadFlags, ivars, iregs
  <2> QED BY <2>1 DEF SystemTypeOK, TypeOK, SetUpFirst, CompletionSignalled, RepliesExist, Supplied
<1>3. CASE ClearFlags
  <2>1. /\ handler = "read" /\ handler' = "idle" /\ seen' = {} /\ flags' = flags \ seen
        /\ UNCHANGED <<ichan, enabled, mask, dma_intr, iram, spu_ready, sio2_fifo, sif0_fifo,
                       sif1_fifo, halted>>
    BY <1>3 DEF ClearFlags, WriteDicr2, Unhalted
  <2>2. SystemTypeOK'
    BY <2>1 DEF SystemTypeOK, TypeOK
  <2>3. SetUpFirst'
    BY <2>1 DEF SetUpFirst
  <2>4. CompletionSignalled'
    BY <2>1 DEF CompletionSignalled
  <2> QED BY <2>1, <2>2, <2>3, <2>4 DEF RepliesExist, Supplied
<1> QED BY <1>1, <1>2, <1>3

-----------------------------------------------------------------------------
(* tick.                                                                   *)

LEMMA BeginTickInv ==
  ASSUME IInv, BeginTick
  PROVE  IInv'
  BY DEF IInv, BeginTick, ivars, iregs, SystemTypeOK, TypeOK, Channels, SetUpFirst,
         CompletionSignalled, RepliesExist, Supplied

\* Only channels with a driver do anything.
LEMMA VisitServed ==
  ASSUME IInv, NEW id \in Channels, ChannelStep(id)
  PROVE  Active(id) /\ id \in Served /\ enabled = Served /\ mask = Served /\ ~halted
<1>1. Active(id)
  BY DEF ChannelStep, TransferSpu2, TransferSif0, TransferSif1, TransferSio2in, TransferSio2out,
         EndTransfer, FetchSpu2, FetchSif0, FetchSif1, Unknown, Transferring, Fetching
<1> QED BY <1>1 DEF Active, IInv, SetUpFirst

\* What is left of ChannelStep for them: a word that moves, a transfer that ends or is
\* about to, and the end of the emulator.
LEMMA VisitCases ==
  ASSUME IInv, NEW id \in Channels, ChannelStep(id)
  PROVE  \/ TransferSpu2(id) \/ TransferSio2in(id) \/ TransferSio2out(id)
         \/ EndTransfer(id) \/ FetchSpu2(id) \/ Unknown(id)
<1>1. id \in Served
  BY VisitServed
<1>2. ~TransferSif0(id) /\ ~TransferSif1(id)
  BY <1>1 DEF TransferSif0, TransferSif1, Served
<1>3. ~FetchSif0(id) /\ ~FetchSif1(id)
  BY <1>1 DEF FetchSif0, FetchSif1, Served
<1> QED BY <1>2, <1>3 DEF ChannelStep

\* A word has moved to or from the SIO2.
LEMMA MovedChannel ==
  ASSUME NEW c \in Channel, c.count > 0
  PROVE  /\ MovedToSio2(c) \in Channel
         /\ MovedToSio2(c).running = c.running
         /\ MovedToSio2(c).count = c.count - 1
<1> DEFINE m == Moved(c)
           e == m.end \/ c.count = 1
<1>1. m \in Channel /\ m.running = c.running /\ m.count = c.count - 1
  <2> DEFINE a == c.addr + 1
             n == c.count - 1
  <2>1. a \in Nat /\ n \in 0 .. CountLimit - 1
    BY SizeAssumption DEF Channel
  <2>2. m = [c EXCEPT !.addr = a, !.count = n]
    BY DEF Moved
  <2> HIDE DEF a, n
  <2>3. [c EXCEPT !.addr = a, !.count = n] \in Channel
    BY <2>1 DEF Channel
  <2>4. n = c.count - 1
    BY DEF n
  <2> QED BY <2>2, <2>3, <2>4 DEF Channel
<1>2. e \in BOOLEAN
  OBVIOUS
<1>3. MovedToSio2(c) = [m EXCEPT !.end = e]
  BY DEF MovedToSio2
<1> HIDE DEF m, e
<1> QED BY <1>1, <1>2, <1>3 DEF Channel

\* The types survive, no channel starts, and the other channels stay as they are.
LEMMA VisitTypes ==
  ASSUME IInv, NEW id \in Channels, ChannelStep(id)
  PROVE  /\ TypeOK'
         /\ \E c \in Channel : /\ ichan' = [ichan EXCEPT ![id] = c]
                               /\ c.running => ichan[id].running
         /\ enabled' = enabled /\ mask' = mask
<1> USE DEF IInv, SystemTypeOK
<1>1. ichan[id] \in Channel
  BY DEF TypeOK
<1>2. ASSUME NEW c \in Channel, ichan' = [ichan EXCEPT ![id] = c]
      PROVE  ichan' \in [Channels -> Channel]
  BY <1>2, OneChannel
<1>3. CASE TransferSpu2(id)
  <2>1. [ichan[id] EXCEPT !.count = @ - 1] \in Channel
    BY <1>1, <1>3, SizeAssumption DEF TransferSpu2, Transferring, Channel
  <2>2. /\ ichan' = [ichan EXCEPT ![id] = [ichan[id] EXCEPT !.count = @ - 1]]
        /\ [ichan[id] EXCEPT !.count = @ - 1].running = ichan[id].running
    BY <1>1, <1>3 DEF TransferSpu2, Channel
  <2> QED BY <1>2, <1>3, <2>1, <2>2 DEF TransferSpu2, TypeOK
<1>4. Transferring(id) => /\ MovedToSio2(ichan[id]) \in Channel
                          /\ MovedToSio2(ichan[id]).running = ichan[id].running
  BY <1>1, MovedChannel DEF Transferring
<1>5. CASE TransferSio2in(id)
  <2>1. CASE ichan' = [ichan EXCEPT ![id] = MovedToSio2(ichan[id])] /\ sio2_fifo' = sio2_fifo + 4
             /\ UNCHANGED halted
    <3>1. Transferring(id) /\ UNCHANGED <<enabled, flags, mask, dma_intr, iram, spu_ready, sif0_fifo, sif1_fifo>>
      BY <1>5 DEF TransferSio2in
    <3>2. ichan' \in [Channels -> Channel]
      BY <1>2, <1>4, <2>1, <3>1
    <3>3. TypeOK'
      BY <2>1, <3>1, <3>2 DEF TypeOK
    <3> QED BY <1>4, <2>1, <3>1, <3>3
  <2>2. CASE UNCHANGED <<ichan, sio2_fifo>>
    <3>1. ichan' = [ichan EXCEPT ![id] = ichan[id]]
      BY <2>2 DEF TypeOK
    <3> QED BY <1>1, <1>2, <1>5, <2>2, <3>1 DEF TransferSio2in, TypeOK
  <2> QED BY <1>5, <2>1, <2>2 DEF TransferSio2in
<1>6. CASE TransferSio2out(id)
  <2>1. ichan' = [ichan EXCEPT ![id] = MovedToSio2(ichan[id])]
    BY <1>6 DEF TransferSio2out
  <2>2. iram' \in [Address -> Word]
    BY <1>6 DEF TransferSio2out, TypeOK
  <2>3. sio2_fifo' \in Int
    BY <1>6 DEF TransferSio2out, TypeOK
  <2> QED BY <1>2, <1>4, <1>6, <2>1, <2>2, <2>3 DEF TransferSio2out, TypeOK
<1>7. CASE EndTransfer(id)
  <2>1. [ichan[id] EXCEPT !.running = FALSE, !.end = FALSE] \in Channel
    BY <1>1 DEF Channel
  <2>2. /\ ichan' = [ichan EXCEPT ![id] = [ichan[id] EXCEPT !.running = FALSE, !.end = FALSE]]
        /\ ~[ichan[id] EXCEPT !.running = FALSE, !.end = FALSE].running
    BY <1>1, <1>7 DEF EndTransfer, Channel
  <2>3. flags' \subseteq Channels /\ dma_intr' \in BOOLEAN /\ spu_ready' \in BOOLEAN
    BY <1>7 DEF EndTransfer, TypeOK
  <2> QED BY <1>2, <1>7, <2>1, <2>2, <2>3 DEF EndTransfer, TypeOK
<1>8. CASE FetchSpu2(id)
  <2>1. CASE ichan[id].mode = 1
    <3>1. [ichan[id] EXCEPT !.end = TRUE] \in Channel
      BY <1>1 DEF Channel
    <3>2. /\ ichan' = [ichan EXCEPT ![id] = [ichan[id] EXCEPT !.end = TRUE]]
          /\ [ichan[id] EXCEPT !.end = TRUE].running = ichan[id].running
      BY <1>1, <1>8, <2>1 DEF FetchSpu2, Channel
    <3> QED BY <1>2, <1>8, <2>1, <3>1, <3>2 DEF FetchSpu2, TypeOK
  <2>2. CASE ichan[id].mode # 1
    <3>1. ichan' = ichan /\ halted' = TRUE
      BY <1>8, <2>2 DEF FetchSpu2
    <3>2. ichan' = [ichan EXCEPT ![id] = ichan[id]]
      BY <3>1 DEF TypeOK
    <3> QED BY <1>1, <1>2, <1>8, <3>1, <3>2 DEF FetchSpu2, TypeOK
  <2> QED BY <2>1, <2>2
<1>9. CASE Unknown(id)
  <2>1. ichan' = [ichan EXCEPT ![id] = ichan[id]]
    BY <1>9 DEF Unknown, iregs, TypeOK
  <2> QED BY <1>1, <1>2, <1>9, <2>1 DEF Unknown, iregs, TypeOK
<1> QED BY <1>3, <1>5, <1>6, <1>7, <1>8, <1>9, VisitCases

\* Every completion that may interrupt is signalled when its flag is set.
LEMMA VisitSignals ==
  ASSUME IInv, NEW id \in Channels, ChannelStep(id), UNCHANGED <<handler, seen>>
  PROVE  CompletionSignalled'
<1>1. CASE EndTransfer(id)
  BY <1>1 DEF EndTransfer, CompletionSignalled
<1>2. CASE ~EndTransfer(id)
  <2>1. UNCHANGED <<flags, mask, dma_intr>>
    BY <1>2, VisitCases
    DEF TransferSpu2, TransferSio2in, TransferSio2out, FetchSpu2, Unknown, iregs
  <2> QED BY <2>1 DEF IInv, CompletionSignalled
<1> QED BY <1>1, <1>2

\* The uploading side is visited just before the fetching side.
LEMMA VisitSupplies ==
  ASSUME IInv, turn \in Channels, ChannelStep(turn), turn' = NextVisited(turn)
  PROVE  RepliesExist' /\ Supplied'
<1>0. \/ TransferSpu2(turn) \/ TransferSio2in(turn) \/ TransferSio2out(turn)
      \/ EndTransfer(turn) \/ FetchSpu2(turn) \/ Unknown(turn)
  BY VisitCases
<1>1. SIO2in \in Channels /\ SIO2out \in Channels
  BY DEF Channels
<1>2. Active(turn) /\ turn \in Served /\ enabled = Served /\ ~halted
  BY VisitServed
<1> USE DEF IInv
<1>3. /\ ichan[SIO2in].count \in Nat /\ ichan[SIO2out].count \in Nat /\ sio2_fifo \in Int
      /\ ichan \in [Channels -> Channel]
  BY <1>1, SizeAssumption DEF SystemTypeOK, TypeOK, Channel
<1>4. CASE turn = SPU2
  <2>1. UNCHANGED sio2_fifo
    BY <1>4, <1>0 DEF TransferSpu2, TransferSio2in, TransferSio2out, EndTransfer, FetchSpu2, Unknown
  <2>3. turn' # SIO2out
    BY <1>4 DEF NextVisited
  <2>2. ichan'[SIO2in] = ichan[SIO2in] /\ ichan'[SIO2out] = ichan[SIO2out]
    BY <1>1, <1>3, <1>4, <1>0
    DEF TransferSpu2, TransferSio2in, TransferSio2out, EndTransfer, FetchSpu2, Unknown, iregs
  <2> QED BY <2>1, <2>2, <2>3 DEF RepliesExist, Supplied
<1>5. CASE turn = SIO2in
  <2>0. turn' = SIO2out
    BY <1>5 DEF NextVisited
  <2>1. ichan'[SIO2out] = ichan[SIO2out]
    BY <1>1, <1>3, <1>5, <1>0
    DEF TransferSpu2, TransferSio2in, TransferSio2out, EndTransfer, FetchSpu2, Unknown, iregs
  <2>2. ichan[SIO2in].running
    BY <1>2, <1>5 DEF Active
  <2>3. CASE TransferSio2in(turn) /\ halted'
    <3>1. UNCHANGED <<ichan, sio2_fifo>>
      BY <2>3, <1>2 DEF TransferSio2in
    <3> QED BY <2>3, <3>1, <2>2 DEF RepliesExist, Supplied
  <2>4. CASE TransferSio2in(turn) /\ ~halted'
    <3>1. sio2_fifo' = sio2_fifo + 4 /\ ichan' = [ichan EXCEPT ![turn] = MovedToSio2(@)]
      BY <2>4 DEF TransferSio2in
    <3>2. ichan'[SIO2in].count = ichan[SIO2in].count - 1 /\ ichan'[SIO2in].running
      BY <1>1, <1>3, <1>5, <2>2, <2>4, <3>1, MovedChannel DEF TransferSio2in, Transferring
    <3> QED BY <1>3, <2>0, <2>1, <3>1, <3>2 DEF RepliesExist, Supplied
  <2>5. CASE EndTransfer(turn)
    <3>1. /\ ichan[SIO2in].count = 0 /\ UNCHANGED sio2_fifo
          /\ ichan' = [ichan EXCEPT ![turn] = [ichan[turn] EXCEPT !.running = FALSE, !.end = FALSE]]
      BY <1>5, <2>5 DEF EndTransfer
    <3>2. ichan'[SIO2in].count = 0
      BY <1>1, <1>3, <1>5, <3>1 DEF Channel
    <3> QED BY <1>3, <2>0, <2>1, <3>1, <3>2 DEF RepliesExist, Supplied
  <2>6. CASE Unknown(turn)
    <3>1. UNCHANGED <<ichan, sio2_fifo>> /\ halted'
      BY <2>6 DEF Unknown, iregs
    <3> QED BY <3>1, <2>0, <2>2 DEF RepliesExist, Supplied
  <2>7. ~TransferSpu2(turn) /\ ~TransferSio2out(turn) /\ ~FetchSpu2(turn)
    BY <1>5 DEF TransferSpu2, TransferSio2out, FetchSpu2
  <2> QED BY <1>0, <2>3, <2>4, <2>5, <2>6, <2>7
<1>6. CASE turn = SIO2out
  <2>0. turn' = 0
    BY <1>6 DEF NextVisited
  <2>1. ichan'[SIO2in] = ichan[SIO2in]
    BY <1>1, <1>3, <1>6, <1>0
    DEF TransferSpu2, TransferSio2in, TransferSio2out, EndTransfer, FetchSpu2, Unknown, iregs
  <2>2. ichan[SIO2out].running
    BY <1>2, <1>6 DEF Active
  <2>3. CASE TransferSio2out(turn)
    <3>1. /\ ichan[SIO2out].count > 0 /\ sio2_fifo' = sio2_fifo - 4
          /\ ichan' = [ichan EXCEPT ![turn] = MovedToSio2(@)]
      BY <1>6, <2>3 DEF TransferSio2out, Transferring
    <3>2. ichan'[SIO2out].count = ichan[SIO2out].count - 1
      BY <1>1, <1>3, <1>6, <3>1, MovedChannel
    <3>3. sio2_fifo >= 4
      BY <1>2, <1>6, <2>2, <3>1 DEF Supplied
    <3> QED BY <1>3, <2>0, <2>1, <2>2, <3>1, <3>2, <3>3 DEF RepliesExist, Supplied
  <2>4. CASE EndTransfer(turn)
    <3>1. /\ UNCHANGED sio2_fifo
          /\ ichan' = [ichan EXCEPT ![turn] = [ichan[turn] EXCEPT !.running = FALSE, !.end = FALSE]]
      BY <2>4 DEF EndTransfer
    <3>2. ~ichan'[SIO2out].running
      BY <1>1, <1>3, <1>6, <3>1 DEF Channel
    <3> QED BY <3>1, <3>2 DEF RepliesExist, Supplied
  <2>5. CASE Unknown(turn)
    <3>1. UNCHANGED <<ichan, sio2_fifo>>
      BY <2>5 DEF Unknown, iregs
    <3> QED BY <2>0, <2>1, <3>1 DEF RepliesExist, Supplied
  <2>6. ~TransferSpu2(turn) /\ ~TransferSio2in(turn) /\ ~FetchSpu2(turn)
    BY <1>6 DEF TransferSpu2, TransferSio2in, FetchSpu2
  <2> QED BY <1>0, <2>3, <2>4, <2>5, <2>6
<1> QED BY <1>2, <1>4, <1>5, <1>6 DEF Served

LEMMA VisitInv ==
  ASSUME IInv, Visit
  PROVE  IInv'
<1> USE DEF IInv
<1>1. turn \in Channels /\ turn' = NextVisited(turn) /\ UNCHANGED <<handler, seen>>
  BY DEF Visit, SystemTypeOK
<1>2. turn' \in {0} \cup Channels
  BY <1>1 DEF NextVisited, Channels
<1>3. CASE ChannelStep(turn)
  <2>1. TypeOK' /\ enabled' = enabled /\ mask' = mask
    BY <1>1, <1>3, VisitTypes
  <2>2. SystemTypeOK'
    BY <1>1, <1>2, <2>1 DEF SystemTypeOK
  <2>3. PICK c \in Channel : ichan' = [ichan EXCEPT ![turn] = c] /\ (c.running => ichan[turn].running)
    BY <1>1, <1>3, VisitTypes
  <2>4. /\ ichan'[turn] = c
        /\ \A other \in Channels \ {turn} : ichan'[other] = ichan[other]
    BY <1>1, <2>3, OneChannel DEF SystemTypeOK
  <2>5. mask = Served /\ Served # {}
    BY <1>1, <1>3, VisitServed DEF Served
  <2>6. SetUpFirst'
    BY <2>1, <2>3, <2>4, <2>5 DEF SetUpFirst
  <2> QED BY <1>1, <1>3, <2>2, <2>6, VisitSignals, VisitSupplies
<1>4. CASE ~Busy(turn) /\ UNCHANGED ivars
  <2>1. UNCHANGED <<ichan, enabled, flags, mask, dma_intr, iram, spu_ready, sio2_fifo, sif0_fifo,
                    sif1_fifo, halted>>
    BY <1>4 DEF ivars, iregs
  <2>2. SystemTypeOK' /\ SetUpFirst' /\ CompletionSignalled' /\ RepliesExist'
    BY <1>1, <1>2, <2>1 DEF SystemTypeOK, TypeOK, SetUpFirst, CompletionSignalled, RepliesExist
  <2>3. ASSUME ichan[SIO2out].running, turn' = SIO2out, ichan[SIO2out].count > 0
        PROVE  sio2_fifo >= 4 \/ halted
    <3>1. turn = SIO2in
      BY <1>1, <2>3 DEF NextVisited, Channels
    <3>2. SIO2in \in enabled
      BY <2>3 DEF SetUpFirst, Channels, Served
    <3>3. halted \/ ~ichan[SIO2in].running
      BY <1>4, <3>1, <3>2 DEF Busy, Active
    <3>4. ichan[SIO2out].count \in Nat /\ sio2_fifo \in Int
      BY SizeAssumption DEF SystemTypeOK, TypeOK, Channel, Channels
    <3> QED BY <2>3, <3>3, <3>4 DEF Supplied
  <2>4. Supplied'
    BY <2>1, <2>3 DEF Supplied
  <2> QED BY <2>2, <2>4
<1> QED BY <1>3, <1>4 DEF Visit

LEMMA StepInv == IInv /\ [Next]_svars => IInv'
<1> SUFFICES ASSUME IInv, [Next]_svars PROVE IInv'
  OBVIOUS
<1>1. CASE Program
  <2>1. CASE SetUp /\ UNCHANGED <<handler, seen>>
    BY <1>1, <2>1, SetUpInv DEF Program
  <2>2. CASE \E id \in Served : (ProgramBlock(id) \/ Start(id)) /\ UNCHANGED <<handler, seen>>
    BY <1>1, <2>2, ProgramBlockInv, StartInv DEF Program
  <2>3. CASE Acknowledge \/ ReadFlags \/ ClearFlags
    BY <1>1, <2>3, HandlerInv DEF Program
  <2> QED BY <1>1, <2>1, <2>2, <2>3 DEF Program
<1>2. CASE BeginTick
  BY <1>2, BeginTickInv
<1>3. CASE Visit
  BY <1>3, VisitInv
<1>4. CASE UNCHANGED svars
  BY <1>4 DEF svars, ivars, iregs, IInv, SystemTypeOK, TypeOK, SetUpFirst, CompletionSignalled,
              RepliesExist, Supplied
<1> QED BY <1>1, <1>2, <1>3, <1>4 DEF Next

LEMMA AlwaysInv == Spec => []IInv
  BY InitInv, StepInv, PTL DEF Spec

\* The registers, the FIFOs, the turn of the visits and the handler keep their types.
THEOREM IopDmaTypeCorrect == Spec => []SystemTypeOK
<1>1. IInv => SystemTypeOK
  BY DEF IInv
<1> QED BY <1>1, AlwaysInv, PTL

\* No reply of the SIO2 is popped before it was queued (SIO2out of tick pops without
\* asking), because commands are uploaded before replies are fetched in every tick.
THEOREM RepliesAlwaysExist == Spec => []RepliesExist
<1>1. IInv => RepliesExist
  BY DEF IInv
<1> QED BY <1>1, AlwaysInv, PTL

\* A completion between the steps of the interrupt handler is not lost: it interrupts
\* again, or the handler is still to read the flags.
THEOREM CompletionsSignalled == Spec => []CompletionSignalled
<1>1. IInv => CompletionSignalled
  BY DEF IInv
<1> QED BY <1>1, AlwaysInv, PTL
=============================================================================
