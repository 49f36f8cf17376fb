---------------------------- MODULE IopDmaSystem ----------------------------
(***************************************************************************)
(* The IOP's DMA controller under its drivers: tick visits the channels in *)
(* order, and between two ticks the program starts SPU2 and SIO2 transfers *)
(* and serves the DMA interrupt.                                           *)
(***************************************************************************)
EXTENDS IopDma

CONSTANTS
  Memories,    \* the contents of IOP RAM
  Blocks,      \* the block counts the drivers use
  MaxReplies   \* bound on the replies the SIO2 driver leaves unread

ASSUME SystemAssumption ==
  Memories \subseteq [Address -> Word] /\ Blocks \subseteq Nat /\ MaxReplies \in Nat

VARIABLES
  turn,        \* the channel tick visits next, or 0 while the program runs
  handler,     \* where the interrupt handler is
  seen         \* the flags it has read from DICR2

svars == <<ivars, turn, handler, seen>>

Served == {SPU2, SIO2in, SIO2out}

SystemTypeOK ==
  /\ TypeOK
  /\ turn \in {0} \cup Channels
  /\ handler \in {"idle", "acked", "read"}
  /\ seen \subseteq Channels

Init ==
  /\ \E memory \in Memories : InitWith(memory)
  /\ turn = 0 /\ handler = "idle" /\ seen = {}

-----------------------------------------------------------------------------
(* The drivers.                                                            *)

SetUp ==
  \/ enabled = {} /\ WriteDpcr2(Served)
  \/ mask = {} /\ WriteDicr2({}, Served)

Idle(id) == Served \subseteq enabled \cap mask /\ ~ichan[id].running

\* Slice mode; the sound driver may ask for the next one, which the code refuses.
Modes(id) == IF id = SPU2 THEN {1, 2} ELSE {1}

\* The SIO2 driver uploads a block before it fetches the replies, and fetches no
\* more than it has uploaded or is uploading; it leaves room for the replies.
Uploaded == sio2_fifo + 4 * ichan[SIO2in].count

ProgramBlock(id) ==
  /\ Idle(id)
  /\ \/ \E n \in Blocks :
          /\ id = SIO2in  => Uploaded + 4 * n <= MaxReplies
          /\ WriteCount(id, n)
     \/ WriteMadr(id, 0)

Start(id) ==
  /\ Idle(id)
  /\ id = SIO2in  => ~ichan[SIO2out].running
  /\ id = SIO2out => /\ ichan[SIO2in].running \/ ichan[SIO2in].count = 0
                     /\ Uploaded >= 4 * ichan[SIO2out].count
  /\ ichan[id].addr = 0
  /\ \E m \in Modes(id) : WriteChcr(id, [running |-> TRUE, mode |-> m, bit8 |-> FALSE])

\* The interrupt handler acknowledges the interrupt, reads the flags and clears
\* those it read.
Acknowledge == handler = "idle" /\ dma_intr /\ AckDma /\ handler' = "acked" /\ UNCHANGED seen

ReadFlags ==
  /\ handler = "acked"
  /\ handler' = "read" /\ seen' = flags
  /\ UNCHANGED ivars

ClearFlags ==
  /\ handler = "read"
  /\ WriteDicr2(seen, mask)
  /\ handler' = "idle" /\ seen' = {}

Program ==
  /\ turn = 0
  /\ \/ /\ SetUp \/ \E id \in Served : ProgramBlock(id) \/ Start(id)
        /\ UNCHANGED <<handler, seen>>
     \/ Acknowledge \/ ReadFlags \/ ClearFlags
  /\ UNCHANGED turn

-----------------------------------------------------------------------------

\* A tick visits the channels in ascending order.
BeginTick == turn = 0 /\ ~halted /\ turn' = SPU2 /\ UNCHANGED <<ivars, handler, seen>>

\* A mutant of NextVisited: the SIO2's output side is visited before its input.
SwappedVisited(id) ==
  CASE id = SIF1 -> SIO2out [] id = SIO2out -> SIO2in [] id = SIO2in -> 0 [] OTHER -> id + 1

NextVisited(id) == IF id = SIO2out THEN 0 ELSE id + 1

Visit ==
  /\ turn # 0
  /\ ChannelStep(turn) \/ (~Busy(turn) /\ UNCHANGED ivars)
  /\ turn' = NextVisited(turn)
  /\ UNCHANGED <<handler, seen>>

Next == Program \/ BeginTick \/ Visit

Spec == Init /\ [][Next]_svars /\ WF_svars(BeginTick) /\ WF_svars(Visit)

-----------------------------------------------------------------------------

\* A reply is never fetched before it exists: tick uploads a word of commands
\* before it fetches one of replies, so a driver may start both sides of the
\* SIO2 at once.
RepliesExist == sio2_fifo >= 0

\* A completion is not lost on the handler: a flag it will not clear unseen has
\* an interrupt pending or a read of the flags still to come.
CompletionSignalled ==
  (flags \cap mask) \ seen # {} => dma_intr \/ handler = "acked"

\* A started transfer ends, whatever the program does meanwhile.
TransferEnds ==
  \A id \in Served : ichan[id].running ~> (~ichan[id].running /\ id \in flags) \/ halted

=============================================================================
