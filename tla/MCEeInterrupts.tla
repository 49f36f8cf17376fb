--------------------------- MODULE MCEeInterrupts ---------------------------
(* One timer with a counter of four bits; frames of three slices, whose     *)
(* vertical blank starts with the second.                                   *)
EXTENDS EeInterrupts, TLC

MCRatio  == (0 :> 1) @@ (1 :> 2) @@ (2 :> 4) @@ (3 :> 18)
MCDriven == {1}
Counting == [Off EXCEPT !.enable = TRUE, !.cmp_intr_enable = TRUE]
MCModes  == {Counting, [Counting EXCEPT !.clear_when_cmp = TRUE],
             [Off EXCEPT !.enable = TRUE, !.clock = 1, !.overflow_intr_enable = TRUE]}
\* With steps of 5, a counter meets a target of its own class exactly, and passes
\* one of the other.
MCCounts == {7, 10}
MCMasks  == {{0}}
=============================================================================
