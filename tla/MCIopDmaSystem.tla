--------------------------- MODULE MCIopDmaSystem ---------------------------
(***************************************************************************)
(* Two words of IOP RAM, all alike: what the SIO2 answers is left open.    *)
(***************************************************************************)
EXTENDS IopDmaSystem

MCWord     == {0}
MCIopTag   == [p \in MCWord \X MCWord |-> [addr |-> 0, irq |-> FALSE, end |-> FALSE, size |-> 0]]
MCMemories == {[a \in 0 .. 1 |-> 0]}
=============================================================================
