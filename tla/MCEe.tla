-------------------------------- MODULE MCEe --------------------------------
(***************************************************************************)
(* The EE: where control goes (EeCore), and what the instructions compute  *)
(* (EeOps).  A behaviour is about one of the two.                          *)
(***************************************************************************)
EXTENDS MCEeCore, MCEeOps

VARIABLES focus
eeVars == <<vars, opsVars, focus>>

EeInit ==
  \/ focus = "flow" /\ program = Empty /\ OpsInit /\ Init
  \/ focus = "ops" /\ ram = Returns /\ Init /\ OpsInit
FlowAt(A) == focus = "flow" /\ A /\ UNCHANGED <<opsVars, focus>>
EeNext == FlowAt(Next) \/ (focus = "ops" /\ OpsNext /\ UNCHANGED <<vars, focus>>)
EeSpec == EeInit /\ [][EeNext]_eeVars /\ WF_eeVars(FlowAt(Block \/ TakeInterrupt \/ NoInterrupt))

\* The flow of control does not stand still, whatever loops the program runs in, and
\* an interrupt that is due is taken (TickEnds and InterruptTaken).
TicksEnd == focus = "flow" => TickEnds
InterruptsTaken == focus = "flow" => InterruptTaken
=============================================================================
