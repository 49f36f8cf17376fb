---------------------------- MODULE EeDmacStream ----------------------------
(***************************************************************************)
(* What a DMA program promises its receiver.  A started channel stands for *)
(* the words its receiver has still to get, read off the registers and the *)
(* DMAtag chain in memory; the controller turns that debt into words of a  *)
(* FIFO, under back-pressure and with retries, and may never change it.    *)
(***************************************************************************)
EXTENDS EeDmacSystem

CONSTANT MaxTags   \* bound on how many tags of a chain a description follows

ASSUME TagsAssumption == MaxTags \in Nat

\* The channels that read memory.
Streams == {VIF0, VIF1, GIF, SIF1}

Queued(id) ==
  CASE id \in {VIF0, VIF1} -> vif_fifo[id]
    [] id = GIF            -> gif_fifo
    [] id = SIF1           -> sif1_fifo

\* The words of n quadwords from a on.
Words(a, n) == [k \in 1 .. 4 * n |-> Load(a + (k - 1) \div 4)[((k - 1) % 4) + 1]]

\* What the tag at quadword a of memory stands for: its own upper half if it is to be
\* sent, and its data.
DataAt(a) == IF TagAt(a).id \in {"REFE", "REF"} THEN TagAt(a).addr ELSE a + 1
Piece(id, control, a) ==
  (IF control.tte /\ id \in {VIF0, VIF1} THEN TagData(a) ELSE <<>>)
    \o Words(DataAt(a), TagAt(a).qwc)

\* A chain stops at a tag that interrupts and, in normal mode, which reads tags only when
\* started with nothing to move, at the first one with data.
Last(control, t) ==
  \/ t.id \in {"REFE", "END"}
  \/ control.tie /\ t.irq
  \/ control.mode = 0 /\ t.qwc > 0

\* Where the tag behind the one at a is.
After(a) ==
  CASE TagAt(a).id = "NEXT" -> TagAt(a).addr
    [] TagAt(a).id = "CNT"  -> a + 1 + TagAt(a).qwc
    [] OTHER                -> a + 1

\* The words that the tags from a on describe to a channel, and where in memory they and
\* their tags are; rest says so of the tags behind.  A chain ends at a tag the channel
\* does not know.
Nothing == [words |-> <<>>, area |-> {}]
Linked(id, control, a, rest) ==
  IF TagAt(a).id \notin KnownTags(id)
  THEN [words |-> <<>>, area |-> {a}]
  ELSE LET next == IF Last(control, TagAt(a)) THEN Nothing ELSE rest[After(a)]
       IN  [words |-> Piece(id, control, a) \o next.words,
            area  |-> {a} \cup (DataAt(a) .. DataAt(a) + TagAt(a).qwc - 1) \cup next.area]

\* The same for up to n tags.
Chain(id, control) ==
  LET chain[n \in 0 .. MaxTags + 1] ==
        [a \in Nat |-> IF n = 0 THEN Nothing ELSE Linked(id, control, a, chain[n - 1])]
  IN  chain

\* What a channel has still to move, with the next n tags.  Normal mode stops after the
\* quadwords it was given; SIF1 has no normal mode and reads no tag in it.
ControlOf(c) == [tte |-> c.tte, tie |-> c.tie, mode |-> c.mode]
GoesOn(id, c) == ~c.end /\ ~(c.mode = 0 /\ (c.qwc > 0 \/ id = SIF1))
Described(id, n) ==
  LET c    == chan[id]
      next == IF GoesOn(id, c) THEN Chain(id, ControlOf(c))[n][c.tadr] ELSE Nothing
  IN  IF c.running
      THEN [words |-> Words(c.madr, c.qwc) \o next.words,
            area  |-> (c.madr .. c.madr + c.qwc - 1) \cup next.area]
      ELSE Nothing

Owed(id, n) == Queued(id) \o Described(id, n).words

-----------------------------------------------------------------------------

FetchesTag(id) == FetchGif(id) \/ FetchVif(id) \/ FetchSif1(id)

\* What every receiver is owed over the next n tags stays as it was, one tag more being
\* counted before it is read; unless SIF0 brings in a quadword where the description lies.
KeepsDebts ==
  \A id \in Streams, n \in 0 .. MaxTags :
    LET before == IF FetchesTag(id) THEN n + 1 ELSE n
    IN  \/ TransferSif0(SIF0) /\ chan[SIF0].madr \in Described(id, before).area
        \/ Owed(id, n)' = Owed(id, before)

Visit == \E id \in Channels : ChannelStep(id)

\* The controller never drops, repeats or reorders a word: a visit of tick to any channel,
\* whatever the FIFOs hold and however often a tag or a quadword was refused and tried
\* again, keeps every debt.
StreamConserved == [][Visit => KeepsDebts]_vars

\* tick visits every channel sixteen times per slice, and the VIFs and the GIF
\* are ticked as often.  How the program uses its registers is its own affair.
Fairness ==
  /\ \A id \in Channels : WF_vars(ChannelStep(id))
  /\ \A v \in {VIF0, VIF1} : WF_vars(\E words \in VifReads : TakeVif(v, words))
  /\ WF_vars(TakeGif)

FairSpec == Spec /\ Fairness

\* A started transfer is completed and flagged in D_STAT, unless the program
\* suspends the controller or describes a transfer that terminates it.
Completes ==
  \A id \in Streams :
    id \in program.driven /\ chan[id].running
      ~> (~chan[id].running /\ id \in irq) \/ suspended \/ halted

=============================================================================
