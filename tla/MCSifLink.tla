----------------------------- MODULE MCSifLink -----------------------------
(***************************************************************************)
(* Eight quadwords of EE RAM, of words 0 .. 31, and 24 words of IOP RAM,   *)
(* 100 .. 123; every word names its place.                                 *)
(*   EE   0     REFE tag, 1 an IOP tag, 2 its data                         *)
(*        3, 4  the EE's buffers                                           *)
(*        5     NEXT tag, followed by 0; 6 an IOP tag, 7 its data          *)
(*   IOP  0, 8  an IOP tag, an EE tag, and four words of data              *)
(*        16, 20  the IOP's buffers                                        *)
(***************************************************************************)
EXTENDS SifLink

MCRamQwords   == 8
MCIopRamWords == 24
MCWord        == 0 .. 31 \cup 100 .. 123
MCEeMemory    == [a \in 0 .. 7 |-> [i \in 1 .. 4 |-> 4 * a + i - 1]]
MCIopMemory   == [a \in 0 .. 23 |-> 100 + a]
MCOutside     == [i \in 1 .. 4 |-> 0]

EeTagOf(w) ==
  CASE w = 0   -> [qwc |-> 2, id |-> "REFE", irq |-> FALSE, addr |-> 1]
    [] w = 20  -> [qwc |-> 2, id |-> "NEXT", irq |-> FALSE, addr |-> 0]
    [] w = 102 -> [qwc |-> 1, id |-> "CNT", irq |-> TRUE, addr |-> 3]
    [] w = 110 -> [qwc |-> 1, id |-> "CNT", irq |-> TRUE, addr |-> 4]
    [] OTHER   -> [qwc |-> 0, id |-> "CALL", irq |-> FALSE, addr |-> 0]

IopTagOf(w) ==
  CASE w = 4   -> [addr |-> 16, irq |-> FALSE, end |-> TRUE, size |-> 4]
    [] w = 24  -> [addr |-> 20, irq |-> TRUE, end |-> FALSE, size |-> 4]
    [] w = 100 -> [addr |-> 4, irq |-> FALSE, end |-> TRUE, size |-> 3]
    [] w = 108 -> [addr |-> 12, irq |-> TRUE, end |-> FALSE, size |-> 4]
    [] OTHER   -> [addr |-> 0, irq |-> FALSE, end |-> FALSE, size |-> 0]

MCEeTag        == [p \in MCWord \X MCWord |-> EeTagOf(p[1])]
WholeQuadwords == [p \in MCWord \X MCWord |-> IopTagOf(p[1])]

MCSif0Packets == {[tadr |-> 0, src |-> 4, dest |-> 3, qwc |-> 1],
                  [tadr |-> 8, src |-> 12, dest |-> 4, qwc |-> 1]}
MCSif1Packets == {[tadr |-> 0, src |-> 2, dest |-> 16, size |-> 4],
                  [tadr |-> 5, src |-> 7, dest |-> 20, size |-> 4]}
\* Either direction by itself, and one packet each way.
MCTraffic == {[sif0 |-> MCSif0Packets, sif1 |-> {}], [sif0 |-> {}, sif1 |-> MCSif1Packets],
              [sif0 |-> {p \in MCSif0Packets : p.tadr = 8}, sif1 |-> {p \in MCSif1Packets : p.tadr = 0}]}
=============================================================================
