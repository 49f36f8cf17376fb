------------------------- MODULE EeInterruptsProofs -------------------------
(***************************************************************************)
(* The invariants of EeInterrupts, for every clock, frame and program.     *)
(***************************************************************************)
EXTENDS EeInterrupts, TLAPS

IInv == TypeOK /\ NoSpuriousInt0 /\ FlagsPending

LEMMA InitInv == Init => IInv
<1> SUFFICES ASSUME Init PROVE IInv
  OBVIOUS
<1>1. timers \in [0 .. 3 -> Timer]
  BY DEF Init, Timer, Mode, Off
<1>2. FlagsPending
  BY WritesAssumption DEF Init, FlagsPending
<1> QED BY <1>1, <1>2 DEF Init, IInv, TypeOK, NoSpuriousInt0

\* What INTC::trigger does to INTC_STAT and INT0, whichever lines it is given.
LEMMA TriggerInv ==
  ASSUME NEW lines \in SUBSET Lines, Trigger(lines),
         stat \subseteq Lines, mask \subseteq Lines, ip0 \in BOOLEAN, NoSpuriousInt0
  PROVE  /\ stat' \subseteq Lines /\ mask' \subseteq Lines /\ ip0' \in BOOLEAN
         /\ NoSpuriousInt0'
         /\ stat' = stat \cup lines
<1>1. stat' = stat \cup lines /\ mask' = mask
  BY DEF Trigger
<1>2. CASE lines = {}
  <2>1. stat' = stat
    BY <1>1, <1>2
  <2>2. ip0' = ip0
    BY <1>2 DEF Trigger
  <2> QED BY <1>1, <2>1, <2>2 DEF NoSpuriousInt0
<1>3. CASE lines # {}
  <2>1. ip0' = (0 \in stat' \cap mask)
    BY <1>3 DEF Trigger, LowBit
  <2>2. NoSpuriousInt0'
    BY <1>1, <2>1 DEF NoSpuriousInt0
  <2>3. ip0' \in BOOLEAN
    BY <2>1
  <2> QED BY <1>1, <2>2, <2>3
<1> QED BY <1>2, <1>3

LEMMA WriteStatInv ==
  ASSUME NEW clear \in SUBSET Lines, WriteStat(clear),
         stat \subseteq Lines, mask \subseteq Lines
  PROVE  /\ stat' \subseteq Lines /\ mask' \subseteq Lines /\ ip0' \in BOOLEAN
         /\ NoSpuriousInt0'
         /\ stat' = stat \ clear
<1>1. stat' = stat \ clear /\ mask' = mask
  BY DEF WriteStat
<1>2. ip0' = (0 \in mask \cap stat')
  BY DEF WriteStat, LowBit
<1>3. NoSpuriousInt0'
  BY <1>1, <1>2 DEF NoSpuriousInt0
<1>4. ip0' \in BOOLEAN
  BY <1>2
<1> QED BY <1>1, <1>3, <1>4

LEMMA WriteMaskInv ==
  ASSUME NEW reverse \in SUBSET Lines, WriteMask(reverse),
         stat \subseteq Lines, mask \subseteq Lines
  PROVE  /\ stat' \subseteq Lines /\ mask' \subseteq Lines /\ ip0' \in BOOLEAN
         /\ NoSpuriousInt0'
         /\ stat' = stat
<1>1. stat' = stat /\ mask' = (mask \ reverse) \cup (reverse \ mask)
  BY DEF WriteMask
<1>2. ip0' = (0 \in mask' \cap stat)
  BY DEF WriteMask, LowBit
<1>3. NoSpuriousInt0'
  BY <1>1, <1>2 DEF NoSpuriousInt0
<1>4. ip0' \in BOOLEAN
  BY <1>2
<1> QED BY <1>1, <1>3, <1>4

\* A counter stays a natural number: what a wrap takes off is less than what is there.
LEMMA TickedType ==
  ASSUME NEW t \in Timer
  PROVE  Ticked(t) \in Timer
<1>1. t.mode.clock \in 0 .. 3 /\ t.counter \in Nat
  BY DEF Timer, Mode
<1>2. Step(t) \in Nat
  <2>1. Ratio[t.mode.clock] \in Nat
    BY <1>1, ClockAssumption
  <2>2. \A m, n \in Nat : m * n \in Nat
    OBVIOUS
  <2> QED BY <2>1, <2>2, ClockAssumption DEF Step
<1>3. Cleared(t) \in Nat
  BY <1>1, <1>2 DEF Cleared
<1>4. (IF Wraps(t) THEN Cleared(t) - CountMax ELSE Cleared(t)) \in Nat
  BY <1>3, ClockAssumption DEF Wraps
<1>5. (t.cmp_flag \/ CmpFires(t)) \in BOOLEAN /\ (t.overflow_flag \/ OverflowFires(t)) \in BOOLEAN
  OBVIOUS
<1>6. t.mode \in Mode /\ t.compare \in Nat
  BY DEF Timer
<1> DEFINE n == IF Wraps(t) THEN Cleared(t) - CountMax ELSE Cleared(t)
           c == t.cmp_flag \/ CmpFires(t)
           o == t.overflow_flag \/ OverflowFires(t)
<1>7. Ticked(t) = [t EXCEPT !.counter = n, !.cmp_flag = c, !.overflow_flag = o]
  BY DEF Ticked
<1>8. n \in Nat /\ c \in BOOLEAN /\ o \in BOOLEAN
  BY <1>4, <1>5
<1> HIDE DEF n, c, o
<1> QED BY <1>7, <1>8 DEF Timer

\* A visit of the timers leaves every flag that it sets with its line.
LEMMA TickInv == IInv /\ Tick => IInv'
<1> SUFFICES ASSUME IInv, Tick PROVE IInv'
  OBVIOUS
<1> USE DEF IInv, TypeOK
<1> DEFINE lines == {INT_TIMER0 + i : i \in {j \in 0 .. 3 : Fires(j)}}
<1>1. lines \in SUBSET Lines
  BY DEF Fires, Ticking, INT_TIMER0, Lines
<1>2. Trigger(lines)
  BY DEF Tick
<1>3. /\ stat' \subseteq Lines /\ mask' \subseteq Lines /\ ip0' \in BOOLEAN
      /\ NoSpuriousInt0'
      /\ stat' = stat \cup lines
  BY <1>1, <1>2, TriggerInv
<1>4. timers' \in [0 .. 3 -> Timer]
  BY TickedType DEF Tick
<1>5. TypeOK'
  BY <1>3, <1>4 DEF Tick, frame
<1>6. FlagsPending'
  <2> SUFFICES ASSUME NEW i \in Driven, timers'[i].cmp_flag \/ timers'[i].overflow_flag
               PROVE  INT_TIMER0 + i \in stat' \/ i \in handling'
    BY DEF FlagsPending
  <2>1. i \in 0 .. 3
    BY WritesAssumption
  <2>2. handling' = handling
    BY DEF Tick
  <2>3. CASE Fires(i)
    BY <1>3, <2>1, <2>3
  <2>4. CASE ~Fires(i)
    <3>1. /\ timers'[i].cmp_flag => timers[i].cmp_flag
          /\ timers'[i].overflow_flag => timers[i].overflow_flag
      BY <2>1, <2>4 DEF Tick, Fires, Ticked, Timer
    <3> QED BY <3>1, <2>2, <1>3 DEF FlagsPending
  <2> QED BY <2>3, <2>4
<1> QED BY <1>3, <1>5, <1>6

LEMMA AdvanceInv == IInv /\ Advance => IInv'
<1> SUFFICES ASSUME IInv, Advance PROVE IInv'
  OBVIOUS
<1> USE DEF IInv, TypeOK
<1>1. total_cycles' \in Nat /\ turn' \in {"program", "frame", "end"}
  BY FrameAssumption DEF Advance
<1>2. timers' = timers /\ handling' = handling /\ vsync_masked' = vsync_masked
  BY DEF Advance
<1>3. CASE StartsVblank
  <2> DEFINE lines == (IF vsync_masked THEN {} ELSE {INT_GS}) \cup {INT_VB_ON}
  <2>1. lines \in SUBSET Lines /\ Trigger(lines)
    BY <1>3 DEF Advance, INT_GS, INT_VB_ON, Lines
  <2>2. /\ stat' \subseteq Lines /\ mask' \subseteq Lines /\ ip0' \in BOOLEAN
        /\ NoSpuriousInt0' /\ stat' = stat \cup lines
    BY <2>1, TriggerInv
  <2>3. vblank_started' = TRUE /\ vsint' = TRUE /\ vblanks' = vblanks \cup {"begin"}
    BY <1>3 DEF Advance
  <2>4. FlagsPending'
    BY <2>2, <1>2 DEF FlagsPending
  <2> HIDE DEF lines
  <2> QED BY <1>1, <1>2, <2>2, <2>3, <2>4
<1>4. CASE ~StartsVblank
  <2>1. UNCHANGED <<stat, mask, ip0, vblank_started, vsint, vblanks>>
    BY <1>4 DEF Advance, intc
  <2> QED BY <1>1, <1>2, <2>1 DEF FlagsPending, NoSpuriousInt0
<1> QED BY <1>3, <1>4

LEMMA EndFrameInv == IInv /\ EndFrame => IInv'
<1> SUFFICES ASSUME IInv, EndFrame PROVE IInv'
  OBVIOUS
<1> USE DEF IInv, TypeOK
<1>1. {INT_VB_OFF} \in SUBSET Lines /\ Trigger({INT_VB_OFF})
  BY DEF EndFrame, INT_VB_OFF, Lines
<1>2. /\ stat' \subseteq Lines /\ mask' \subseteq Lines /\ ip0' \in BOOLEAN
      /\ NoSpuriousInt0' /\ stat' = stat \cup {INT_VB_OFF}
  BY <1>1, TriggerInv
<1>3. FlagsPending'
  BY <1>2 DEF EndFrame, FlagsPending
<1> QED BY <1>2, <1>3 DEF EndFrame

\* Register writes that touch a timer leave INTC alone.
LEMMA SetUpInv ==
  ASSUME IInv, NEW i \in Driven, SetUp(i),
         UNCHANGED <<total_cycles, vblank_started, turn>>
  PROVE  IInv'
<1> USE DEF IInv, TypeOK
<1>1. UNCHANGED <<stat, mask, ip0, vsint, vsync_masked, vblanks, handling>>
  BY DEF SetUp, intc
<1>2. i \in 0 .. 3 /\ Driven \subseteq 0 .. 3 /\ Modes \subseteq Mode /\ Counts \subseteq Nat
  BY WritesAssumption
<1>3. timers' \in [0 .. 3 -> Timer] /\ FlagsPending'
  <2>1. CASE \E mode \in Modes : WriteMode(i, mode)
    <3>1. PICK mode \in Mode : WriteMode(i, mode)
      BY <1>2, <2>1
    <3>2. timers' = [timers EXCEPT ![i] = [@ EXCEPT !.mode = mode, !.cmp_flag = FALSE,
                                                    !.overflow_flag = FALSE]]
      BY <3>1 DEF WriteMode
    <3> QED BY <1>1, <1>2, <3>2 DEF FlagsPending, Timer
  <2>2. CASE \E count \in Counts : WriteCount(i, count) \/ WriteCompare(i, count)
    <3>1. PICK count \in Nat : WriteCount(i, count) \/ WriteCompare(i, count)
      BY <1>2, <2>2
    <3>2. timers' \in [0 .. 3 -> Timer]
      BY <1>2, <3>1 DEF WriteCount, WriteCompare, Timer
    <3>3. \A j \in Driven : /\ timers'[j].cmp_flag = timers[j].cmp_flag
                            /\ timers'[j].overflow_flag = timers[j].overflow_flag
      BY <1>2, <3>1 DEF WriteCount, WriteCompare, Timer
    <3> QED BY <1>1, <3>2, <3>3 DEF FlagsPending
  <2> QED BY <2>1, <2>2 DEF SetUp
<1> QED BY <1>1, <1>3 DEF NoSpuriousInt0

\* The handler takes a line's flag over when it acknowledges the line, and gives
\* it back cleared.
LEMMA HandlerInv ==
  ASSUME IInv, NEW i \in Driven, Acknowledge(i) \/ ClearFlags(i),
         UNCHANGED <<total_cycles, vblank_started, turn>>
  PROVE  IInv'
<1> USE DEF IInv, TypeOK
<1>1. Driven \subseteq 0 .. 3
  BY WritesAssumption
<1>2. CASE Acknowledge(i)
  <2>1. {INT_TIMER0 + i} \in SUBSET Lines
    BY <1>1 DEF INT_TIMER0, Lines
  <2>2. /\ stat' \subseteq Lines /\ mask' \subseteq Lines /\ ip0' \in BOOLEAN
        /\ NoSpuriousInt0' /\ stat' = stat \ {INT_TIMER0 + i}
    BY <1>2, <2>1, WriteStatInv DEF Acknowledge
  <2>3. \A j \in Driven : j # i => INT_TIMER0 + j # INT_TIMER0 + i
    BY <1>1 DEF INT_TIMER0
  <2>4. FlagsPending'
    BY <1>2, <2>2, <2>3 DEF Acknowledge, FlagsPending
  <2> QED BY <1>2, <2>2, <2>4 DEF Acknowledge
<1>3. CASE ClearFlags(i)
  <2>1. UNCHANGED <<stat, mask, ip0, vsint, vsync_masked, vblanks>> /\ handling' = handling \ {i}
    BY <1>3 DEF ClearFlags, intc
  <2>2. timers' = [timers EXCEPT ![i].mode = timers[i].mode,
                                 ![i].cmp_flag = FALSE, ![i].overflow_flag = FALSE]
    BY <1>3 DEF ClearFlags, WriteMode
  <2>3. timers' \in [0 .. 3 -> Timer]
    BY <1>1, <2>2, ZenonT(60) DEF Timer
  <2>4. FlagsPending'
    BY <1>1, <2>1, <2>2 DEF FlagsPending, Timer
  <2> QED BY <2>1, <2>3, <2>4 DEF NoSpuriousInt0
<1> QED BY <1>2, <1>3

LEMMA SeeVblankInv ==
  ASSUME IInv, SeeVblank, UNCHANGED <<total_cycles, vblank_started, turn>>
  PROVE  IInv'
<1> USE DEF IInv, TypeOK
<1>1. timers' = timers /\ handling' = handling
  BY DEF SeeVblank
<1>2. CASE WriteStat({INT_GS, INT_VB_ON, INT_VB_OFF}) /\ UNCHANGED <<vsint, vsync_masked, vblanks>>
  <2>1. {INT_GS, INT_VB_ON, INT_VB_OFF} \in SUBSET Lines
    BY DEF INT_GS, INT_VB_ON, INT_VB_OFF, Lines
  <2>2. /\ stat' \subseteq Lines /\ mask' \subseteq Lines /\ ip0' \in BOOLEAN
        /\ NoSpuriousInt0' /\ stat' = stat \ {INT_GS, INT_VB_ON, INT_VB_OFF}
    BY <1>2, <2>1, WriteStatInv
  <2>3. \A i \in Driven : INT_TIMER0 + i \notin {INT_GS, INT_VB_ON, INT_VB_OFF}
    BY WritesAssumption DEF INT_TIMER0, INT_GS, INT_VB_ON, INT_VB_OFF
  <2>4. FlagsPending'
    BY <1>1, <2>2, <2>3 DEF FlagsPending
  <2> QED BY <1>1, <1>2, <2>2, <2>4
<1>3. CASE \E reverse \in Masks : WriteMask(reverse) /\ UNCHANGED <<vsint, vsync_masked, vblanks>>
  <2>1. PICK reverse \in SUBSET Lines : WriteMask(reverse) /\ UNCHANGED <<vsint, vsync_masked, vblanks>>
    BY <1>3, WritesAssumption
  <2>2. /\ stat' \subseteq Lines /\ mask' \subseteq Lines /\ ip0' \in BOOLEAN
        /\ NoSpuriousInt0' /\ stat' = stat
    BY <2>1, WriteMaskInv
  <2> QED BY <1>1, <2>1, <2>2 DEF FlagsPending
<1>4. CASE WriteCsr /\ UNCHANGED <<intc, vsync_masked, vblanks>>
  BY <1>1, <1>4 DEF WriteCsr, intc, FlagsPending, NoSpuriousInt0
<1>5. CASE \E data \in BOOLEAN : WriteImr(data) /\ UNCHANGED <<intc, vsint, vblanks>>
  BY <1>1, <1>5 DEF WriteImr, intc, FlagsPending, NoSpuriousInt0
<1>6. CASE AckVblanks /\ UNCHANGED <<intc, vsint, vsync_masked>>
  BY <1>1, <1>6 DEF AckVblanks, intc, FlagsPending, NoSpuriousInt0
<1> QED BY <1>2, <1>3, <1>4, <1>5, <1>6 DEF SeeVblank

LEMMA NextInv == IInv /\ [Next]_vars => IInv'
<1> SUFFICES ASSUME IInv, [Next]_vars PROVE IInv'
  OBVIOUS
<1>1. CASE Program
  <2>1. UNCHANGED <<total_cycles, vblank_started, turn>>
    BY <1>1 DEF Program
  <2>2. ASSUME NEW i \in Driven, SetUp(i) PROVE IInv'
    BY <2>1, <2>2, SetUpInv
  <2>3. ASSUME NEW i \in Driven, Acknowledge(i) \/ ClearFlags(i) PROVE IInv'
    BY <2>1, <2>3, HandlerInv
  <2>4. CASE SeeVblank
    BY <2>1, <2>4, SeeVblankInv
  <2> QED BY <1>1, <2>2, <2>3, <2>4 DEF Program
<1>2. CASE Tick     BY <1>2, TickInv
<1>3. CASE Advance  BY <1>3, AdvanceInv
<1>4. CASE EndFrame BY <1>4, EndFrameInv
<1>5. CASE UNCHANGED vars
  BY <1>5 DEF vars, intc, frame, IInv, TypeOK, NoSpuriousInt0, FlagsPending
<1> QED BY <1>1, <1>2, <1>3, <1>4, <1>5 DEF Next

THEOREM Invariant == Spec => []IInv
BY InitInv, NextInv, PTL DEF Spec

\* The timers, INTC and the frame keep their types: no wrap makes a counter negative.
THEOREM InterruptsTypeCorrect == Spec => []TypeOK
<1>1. IInv => TypeOK
  BY DEF IInv
<1> QED BY Invariant, <1>1, PTL

\* INT0 has a cause, whatever the timers, the frame and the program do to INTC.
THEOREM Int0HasCause == Spec => []NoSpuriousInt0
<1>1. IInv => NoSpuriousInt0
  BY DEF IInv
<1> QED BY Invariant, <1>1, PTL

\* No timer is stuck with a flag that nobody is going to clear.
THEOREM TimersNotStuck == Spec => []FlagsPending
<1>1. IInv => FlagsPending
  BY DEF IInv
<1> QED BY Invariant, <1>1, PTL

-----------------------------------------------------------------------------
\* Where the frame is: it does not end before its vertical blank has started.
FInv == (vsint => vblank_started) /\ (turn = "end" => vblank_started)

LEMMA ProgramInFrame ==
  ASSUME Program
  PROVE  /\ stat' \subseteq stat /\ vblanks' \subseteq vblanks /\ (vsint' => vsint)
         /\ vblank_started' = vblank_started /\ turn' = turn
<1>1. vblank_started' = vblank_started /\ turn' = turn
  BY DEF Program
<1>2. CASE \E i \in Driven : SetUp(i) \/ Acknowledge(i) \/ ClearFlags(i)
  BY <1>1, <1>2 DEF SetUp, Acknowledge, ClearFlags, WriteStat, intc
<1>3. CASE SeeVblank
  BY <1>1, <1>3 DEF SeeVblank, WriteStat, WriteMask, WriteCsr, WriteImr, AckVblanks, intc
<1> QED BY <1>2, <1>3 DEF Program

LEMMA TickInFrame ==
  ASSUME Tick
  PROVE  /\ INT_VB_ON \notin stat' \ stat /\ INT_VB_OFF \notin stat' \ stat
         /\ UNCHANGED frame /\ turn' = "frame"
<1> DEFINE lines == {INT_TIMER0 + i : i \in {j \in 0 .. 3 : Fires(j)}}
<1>1. INT_VB_ON \notin lines /\ INT_VB_OFF \notin lines
  BY DEF INT_TIMER0, INT_VB_ON, INT_VB_OFF
<1>2. stat' = stat \cup lines
  BY DEF Tick, Trigger
<1> QED BY <1>1, <1>2 DEF Tick

\* The last slice of a frame reaches its vertical blank, if no slice before it did.
LEMMA AdvanceInFrame ==
  ASSUME TypeOK, FInv, Advance
  PROVE  /\ FInv'
         /\ INT_VB_ON \in stat' \ stat \/ "begin" \in vblanks' \ vblanks => ~vblank_started
         /\ INT_VB_OFF \notin stat' \ stat /\ "end" \notin vblanks' \ vblanks
         /\ vsint' => vblank_started'
<1>1. CASE StartsVblank
  <2>1. vblank_started' = TRUE /\ vblanks' = vblanks \cup {"begin"} /\ ~vblank_started
    BY <1>1 DEF Advance, StartsVblank
  <2>2. stat' = stat \cup (IF vsync_masked THEN {} ELSE {INT_GS}) \cup {INT_VB_ON}
    BY <1>1 DEF Advance, Trigger
  <2> QED BY <2>1, <2>2 DEF FInv, INT_GS, INT_VB_ON, INT_VB_OFF
<1>2. CASE ~StartsVblank
  <2>1. UNCHANGED <<stat, vblank_started, vsint, vblanks>>
    BY <1>2 DEF Advance, intc
  <2>2. turn' = "end" => vblank_started
    <3>1. total_cycles + SliceCycles < FrameCycles => turn' = "program"
      BY DEF Advance
    <3>2. total_cycles + SliceCycles >= FrameCycles => total_cycles + SliceCycles >= VblankOff
      BY FrameAssumption DEF TypeOK
    <3> QED BY <1>2, <3>1, <3>2, FrameAssumption DEF StartsVblank, TypeOK
  <2> QED BY <2>1, <2>2 DEF FInv
<1> QED BY <1>1, <1>2

LEMMA EndFrameInFrame ==
  ASSUME FInv, EndFrame
  PROVE  /\ FInv' /\ vblank_started /\ ~vsint'
         /\ INT_VB_ON \notin stat' \ stat /\ "begin" \notin vblanks' \ vblanks
<1>1. vblank_started
  BY DEF EndFrame, FInv
<1>2. stat' = stat \cup {INT_VB_OFF} /\ vblanks' = vblanks \cup {"end"}
  BY DEF EndFrame, Trigger
<1> QED BY <1>1, <1>2 DEF EndFrame, FInv, INT_VB_ON, INT_VB_OFF

\* One start and one end of the vertical blank per frame, in turn, for frames of
\* any length and slices of any size.
THEOREM VblanksAlternate == Spec => VblankInTurn
<1> DEFINE Turn == /\ INT_VB_ON \in stat' \ stat \/ "begin" \in vblanks' \ vblanks => ~vblank_started
                   /\ INT_VB_OFF \in stat' \ stat \/ "end" \in vblanks' \ vblanks => vblank_started
                   /\ vsint' => vblank_started'
<1>1. Init => FInv
  BY DEF Init, FInv
<1>2. TypeOK /\ FInv /\ [Next]_vars => FInv' /\ [Turn]_vars
  <2> SUFFICES ASSUME TypeOK, FInv, [Next]_vars PROVE FInv' /\ [Turn]_vars
    OBVIOUS
  <2>1. CASE Program  BY <2>1, ProgramInFrame DEF FInv
  <2>2. CASE Tick     BY <2>2, TickInFrame DEF FInv, frame
  <2>3. CASE Advance  BY <2>3, AdvanceInFrame
  <2>4. CASE EndFrame BY <2>4, EndFrameInFrame
  <2>5. CASE UNCHANGED vars
    BY <2>5 DEF vars, frame, FInv
  <2> QED BY <2>1, <2>2, <2>3, <2>4, <2>5 DEF Next
<1>3. Spec => []FInv
  BY <1>1, <1>2, InterruptsTypeCorrect, PTL DEF Spec
<1> QED BY <1>2, <1>3, InterruptsTypeCorrect, PTL DEF Spec, VblankInTurn
=============================================================================
