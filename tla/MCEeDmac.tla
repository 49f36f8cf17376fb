------------------------------ MODULE MCEeDmac ------------------------------
(***************************************************************************)
(* Nine quadwords of RAM; the words of quadword a are 4a .. 4a+3.  For     *)
(* VIF1 a chain CNT (3), NEXT (5), REFE (0), entered at its start or at    *)
(* its end; for the GIF tag 0 alone and an END tag (1); for SIF1 a chain   *)
(* REF (7), REFE (8).  Past RAM lies no tag.  The IOP sends words that     *)
(* read as a tag for quadword 4.                                           *)
(***************************************************************************)
EXTENDS EeDmacStream

QwordAt(a) == [i \in 1 .. 4 |-> 4 * a + i - 1]

MCRamQwords == 9
MCWord      == 0 .. 4 * MCRamQwords + 3
MCMemories  == {[a \in 0 .. MCRamQwords - 1 |-> QwordAt(a)]}
MCOutside   == QwordAt(MCRamQwords)

TagOfWord(w) ==
  CASE w = 0  -> [qwc |-> 2, id |-> "REFE", irq |-> FALSE, addr |-> 6]
    [] w = 4  -> [qwc |-> 1, id |-> "END", irq |-> FALSE, addr |-> 0]
    [] w = 12 -> [qwc |-> 1, id |-> "CNT", irq |-> FALSE, addr |-> 0]
    [] w = 16 -> [qwc |-> 1, id |-> "CNT", irq |-> TRUE, addr |-> 4]
    [] w = 20 -> [qwc |-> 1, id |-> "NEXT", irq |-> TRUE, addr |-> 0]
    [] w = 28 -> [qwc |-> 2, id |-> "REF", irq |-> FALSE, addr |-> 2]
    [] w = 32 -> [qwc |-> 1, id |-> "REFE", irq |-> FALSE, addr |-> 0]
    [] OTHER  -> [qwc |-> 0, id |-> "CALL", irq |-> FALSE, addr |-> 0]

MCEeTag == [p \in MCWord \X MCWord |-> TagOfWord(p[1])]

\* Chain mode with and without the tag transfer and interrupt bits, and normal
\* mode.
Chain1  == [running |-> TRUE, mode |-> 1, tte |-> TRUE, tie |-> TRUE]
Chain2  == [running |-> TRUE, mode |-> 1, tte |-> FALSE, tie |-> FALSE]
Normal  == [running |-> TRUE, mode |-> 0, tte |-> FALSE, tie |-> TRUE]

Idle == [driven |-> {}, chcr |-> {}, madr |-> {}, qwc |-> {}, tadr |-> {},
         stat |-> {{}}, suspend |-> {}, receives |-> {}]

\* The programs of the run: one drives VIF1, one the GIF and the image processor's
\* channel, which the code does not implement, and one the two SIF channels; one
\* lets VIF0, whose flag is bit 0 of D_STAT, and the GIF interrupt.
UsesVif == [Idle EXCEPT !.driven = {1}, !.chcr = {Chain1, Chain2, Normal}, !.madr = {96},
                        !.qwc = {2}, !.tadr = {0, 3}, !.suspend = {FALSE, TRUE}]
UsesGif == [UsesVif EXCEPT !.driven = {2, 3}, !.chcr = {Chain1, Normal}, !.tadr = {0, 1},
                           !.suspend = {}]
UsesSif == [Idle EXCEPT !.driven = {5, 6}, !.chcr = {Chain1, Normal}, !.tadr = {7}, !.receives = {16}]
Interrupts == [Idle EXCEPT !.driven = {0, 2}, !.chcr = {Normal}, !.stat = {{}, {0}, {2}}]

MCPrograms == {UsesVif, UsesGif, UsesSif, Interrupts}
Interrupted == {Interrupts}
=============================================================================
