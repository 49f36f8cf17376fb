---------------------------- MODULE EeInterrupts ----------------------------
(***************************************************************************)
(* What interrupts the EE other than its DMA controller: the four timers   *)
(* of src/cpu/ee/timers.cc, the vertical blank raised by Emulator::tick,   *)
(* and the interrupt controller of src/cpu/ee/intc.cc, which collects them *)
(* in INTC_STAT, masks them with INTC_MASK and drives INT0 of COP0.        *)
(*                                                                         *)
(* In every slice of a frame the program runs, then the timers advance,    *)
(* then the frame does.                                                    *)
(***************************************************************************)
EXTENDS Integers

CONSTANTS
  Ratio,        \* what a slice's bus cycles are multiplied with, by Tn_MODE.clock
  BusCycles,    \* the bus cycles of a slice (16)
  CountMax,     \* where a counter wraps (0xffff)
  SliceCycles,  \* the EE cycles of a slice (CYCLES_PER_TICK)
  FrameCycles,  \* those of a frame (CYCLES_PER_FRAME),
  VblankOff,    \* and those before its vertical blank (CYCLES_VBLANK_OFF)
  Driven,       \* the timers the program uses,
  Modes,        \* the values it writes to Tn_MODE,
  Counts,       \* to Tn_COUNT and Tn_COMP,
  Masks         \* and to INTC_MASK (sets of lines)

INT_GS     == 0
INT_VB_ON  == 2
INT_VB_OFF == 3
INT_TIMER0 == 9
Lines      == 0 .. 14

\* Tn_MODE without the gate, which nothing looks at, and without its flags.
Mode == [clock : 0 .. 3, clear_when_cmp : BOOLEAN, enable : BOOLEAN,
         cmp_intr_enable : BOOLEAN, overflow_intr_enable : BOOLEAN]
Timer == [mode : Mode, counter : Nat, compare : Nat, cmp_flag : BOOLEAN, overflow_flag : BOOLEAN]

ASSUME ClockAssumption ==
  Ratio \in [0 .. 3 -> Nat] /\ BusCycles \in Nat /\ CountMax \in Nat
ASSUME FrameAssumption ==
  SliceCycles \in Nat \ {0} /\ FrameCycles \in Nat /\ VblankOff \in 0 .. FrameCycles
ASSUME WritesAssumption ==
  Driven \subseteq 0 .. 3 /\ Modes \subseteq Mode /\ Counts \subseteq Nat /\ Masks \subseteq SUBSET Lines

VARIABLES
  timers,
  stat, mask,       \* INTC_STAT and INTC_MASK
  ip0,              \* COP0.Cause: INT0 asserted
  total_cycles,     \* how far the frame is
  vblank_started,
  vsint,            \* GS_CSR: the vertical blank
  vsync_masked,     \* GS_IMR: its interrupt is masked
  vblanks,          \* of the IOP's I_STAT: the vertical blank's lines
  turn,             \* "program", "frame" or "end"
  handling          \* the timers whose interrupt the program has acknowledged

intc  == <<stat, mask, ip0>>
frame == <<total_cycles, vblank_started, vsint, vblanks>>
vars  == <<timers, intc, frame, vsync_masked, turn, handling>>

TypeOK ==
  /\ timers \in [0 .. 3 -> Timer]
  /\ stat \subseteq Lines /\ mask \subseteq Lines /\ ip0 \in BOOLEAN
  /\ total_cycles \in Nat
  /\ vblank_started \in BOOLEAN /\ vsint \in BOOLEAN /\ vsync_masked \in BOOLEAN
  /\ vblanks \subseteq {"begin", "end"}
  /\ turn \in {"program", "frame", "end"}
  /\ handling \subseteq Driven

Off == [clock |-> 0, clear_when_cmp |-> FALSE, enable |-> FALSE,
        cmp_intr_enable |-> FALSE, overflow_intr_enable |-> FALSE]

Init ==
  /\ timers = [i \in 0 .. 3 |-> [mode |-> Off, counter |-> 0, compare |-> 0,
                                 cmp_flag |-> FALSE, overflow_flag |-> FALSE]]
  /\ stat = {} /\ mask = {} /\ ip0 = FALSE
  /\ total_cycles = 0 /\ vblank_started = FALSE /\ vsint = FALSE /\ vblanks = {}
  /\ vsync_masked = FALSE
  /\ turn = "program"
  /\ handling = {}

-----------------------------------------------------------------------------
(* INTC.                                                                   *)

\* The value is assigned to a field of one bit.
LowBit(lines) == 0 \in lines

\* A mutant of Trigger: the mask is not looked at.
TriggerUnmasked(lines) ==
  /\ stat' = stat \cup lines
  /\ ip0' = IF lines = {} THEN ip0 ELSE LowBit(stat')
  /\ UNCHANGED mask

Trigger(lines) ==
  /\ stat' = stat \cup lines
  /\ ip0' = IF lines = {} THEN ip0 ELSE LowBit(stat' \cap mask)
  /\ UNCHANGED mask

WriteStat(clear) ==
  /\ stat' = stat \ clear
  /\ ip0' = LowBit(mask \cap stat')
  /\ UNCHANGED mask

WriteMask(reverse) ==
  /\ mask' = (mask \ reverse) \cup (reverse \ mask)
  /\ ip0' = LowBit(mask' \cap stat)
  /\ UNCHANGED stat

-----------------------------------------------------------------------------
(* Timers.                                                                 *)

\* A mutant of WriteMode: the flags stay.
WriteModeKeepsFlags(i, mode) == timers' = [timers EXCEPT ![i].mode = mode]

WriteMode(i, mode) ==
  timers' = [timers EXCEPT ![i].mode = mode, ![i].cmp_flag = FALSE, ![i].overflow_flag = FALSE]

WriteCount(i, count)     == timers' = [timers EXCEPT ![i].counter = count]
WriteCompare(i, compare) == timers' = [timers EXCEPT ![i].compare = compare]

Step(t) == BusCycles * Ratio[t.mode.clock]

\* A mutant of Target: the compare value itself is missed.
TargetPassed(t) == t.counter + Step(t) > t.compare /\ t.counter < t.compare

Target(t)  == t.counter + Step(t) >= t.compare /\ t.counter < t.compare
Cleared(t) == IF Target(t) /\ t.mode.clear_when_cmp THEN 0 ELSE t.counter + Step(t)
Wraps(t)   == Cleared(t) > CountMax

CmpFires(t)      == Target(t) /\ t.mode.cmp_intr_enable /\ ~t.cmp_flag
OverflowFires(t) == Wraps(t) /\ t.mode.overflow_intr_enable /\ ~t.overflow_flag

\* A mutant of Ticked: the wrap is taken off before it is looked for.
TickedBelow(t) ==
  [t EXCEPT !.counter = Cleared(t) - (CountMax + 1),
            !.cmp_flag = @ \/ CmpFires(t),
            !.overflow_flag = @ \/ OverflowFires(t)]

Ticked(t) ==
  [t EXCEPT !.counter = IF Wraps(t) THEN Cleared(t) - CountMax ELSE Cleared(t),
            !.cmp_flag = @ \/ CmpFires(t),
            !.overflow_flag = @ \/ OverflowFires(t)]

\* The loop of tick leaves out timer 3.
Ticking(i) == i < 3 /\ timers[i].mode.enable
Fires(i)   == Ticking(i) /\ (CmpFires(timers[i]) \/ OverflowFires(timers[i]))

Tick ==
  /\ turn = "program"
  /\ timers' = [i \in 0 .. 3 |-> IF Ticking(i) THEN Ticked(timers[i]) ELSE timers[i]]
  /\ Trigger({INT_TIMER0 + i : i \in {j \in 0 .. 3 : Fires(j)}})
  /\ turn' = "frame"
  /\ UNCHANGED <<frame, vsync_masked, handling>>

-----------------------------------------------------------------------------
(* The frame of Emulator::tick.                                            *)

\* A mutant of StartsVblank: the vertical blank starts in every slice left.
StartsVblankAgain == total_cycles + SliceCycles >= VblankOff

StartsVblank == ~vblank_started /\ total_cycles + SliceCycles >= VblankOff

Advance ==
  /\ turn = "frame"
  /\ total_cycles' = total_cycles + SliceCycles
  /\ IF StartsVblank
     THEN /\ vblank_started' = TRUE /\ vsint' = TRUE
          /\ Trigger((IF vsync_masked THEN {} ELSE {INT_GS}) \cup {INT_VB_ON})
          /\ vblanks' = vblanks \cup {"begin"}
     ELSE UNCHANGED <<intc, vblank_started, vsint, vblanks>>
  /\ turn' = IF total_cycles' < FrameCycles THEN "program" ELSE "end"
  /\ UNCHANGED <<timers, vsync_masked, handling>>

EndFrame ==
  /\ turn = "end"
  /\ total_cycles' = 0 /\ vblank_started' = FALSE /\ vsint' = FALSE
  /\ Trigger({INT_VB_OFF})
  /\ vblanks' = vblanks \cup {"end"}
  /\ turn' = "program"
  /\ UNCHANGED <<timers, vsync_masked, handling>>

-----------------------------------------------------------------------------
(* The programs of the EE and, for its own lines, of the IOP.              *)

\* A timer is set up while its interrupt is not being handled.
SetUp(i) ==
  /\ i \notin handling
  /\ \/ \E mode \in Modes : WriteMode(i, mode)
     \/ \E count \in Counts : WriteCount(i, count) \/ WriteCompare(i, count)
  /\ UNCHANGED <<intc, vsint, vsync_masked, vblanks, handling>>

\* A handler acknowledges INTC_STAT first, and clears the timer's flags then.
Acknowledge(i) ==
  /\ INT_TIMER0 + i \in stat /\ i \notin handling
  /\ WriteStat({INT_TIMER0 + i})
  /\ handling' = handling \cup {i}
  /\ UNCHANGED <<timers, vsint, vsync_masked, vblanks>>

ClearFlags(i) ==
  /\ i \in handling
  /\ WriteMode(i, timers[i].mode)
  /\ handling' = handling \ {i}
  /\ UNCHANGED <<intc, vsint, vsync_masked, vblanks>>

\* Whatever is written to GS_CSR, its vsint reads 0 then; of GS_IMR only the bit
\* that masks the vertical blank is looked at, and the IOP acknowledges in I_STAT.
WriteCsr       == vsint' = FALSE
WriteImr(data) == vsync_masked' = data
AckVblanks     == vblanks' = {}

SeeVblank ==
  /\ \/ WriteStat({INT_GS, INT_VB_ON, INT_VB_OFF}) /\ UNCHANGED <<vsint, vsync_masked, vblanks>>
     \/ \E reverse \in Masks : WriteMask(reverse) /\ UNCHANGED <<vsint, vsync_masked, vblanks>>
     \/ WriteCsr /\ UNCHANGED <<intc, vsync_masked, vblanks>>
     \/ \E data \in BOOLEAN : WriteImr(data) /\ UNCHANGED <<intc, vsint, vblanks>>
     \/ AckVblanks /\ UNCHANGED <<intc, vsint, vsync_masked>>
  /\ UNCHANGED <<timers, handling>>

Program ==
  /\ turn = "program"
  /\ \/ \E i \in Driven : SetUp(i) \/ Acknowledge(i) \/ ClearFlags(i)
     \/ SeeVblank
  /\ UNCHANGED <<total_cycles, vblank_started, turn>>

Next == Program \/ Tick \/ Advance \/ EndFrame

Spec == Init /\ [][Next]_vars

\* The emulator ticks for as long as its window is open.
FairSpec == Spec /\ WF_vars(Tick) /\ WF_vars(Advance) /\ WF_vars(EndFrame)

-----------------------------------------------------------------------------

\* INT0 is never raised without cause: while it is asserted, some line is both
\* flagged in INTC_STAT and unmasked, whatever order the program acknowledges
\* and masks lines in while the timers and the frame raise them.
NoSpuriousInt0 == ip0 => stat \cap mask # {}

\* A timer is never stuck.  It raises its line only when a flag goes from 0 to 1,
\* so a flag whose line has been acknowledged must be on its way to be cleared:
\* otherwise the timer would never interrupt again.
FlagsPending ==
  \A i \in Driven :
    timers[i].cmp_flag \/ timers[i].overflow_flag
      => INT_TIMER0 + i \in stat \/ i \in handling

\* Once the program leaves it alone, an enabled timer reaches its target, however
\* the slices, wraps and clears before it fall.  The target must lie further than
\* one slice from zero: in the slice that wraps, it is passed unseen.
Armed(i) ==
  /\ Ticking(i) /\ timers[i].mode.cmp_intr_enable
  /\ timers[i].compare \in Step(timers[i]) + 1 .. CountMax

TimerFires ==
  \A i \in Driven :
    \/ []<><<SetUp(i) \/ ClearFlags(i)>>_vars
    \/ []<>(Armed(i) => timers[i].cmp_flag)

\* The two processors see one start and one end of the vertical blank per frame,
\* in turn: none is raised twice, and GS_CSR shows it only in between.
VblankInTurn ==
  [][/\ INT_VB_ON \in stat' \ stat \/ "begin" \in vblanks' \ vblanks => ~vblank_started
     /\ INT_VB_OFF \in stat' \ stat \/ "end" \in vblanks' \ vblanks => vblank_started
     /\ vsint' => vblank_started']_vars
=============================================================================
