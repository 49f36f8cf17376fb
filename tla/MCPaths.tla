------------------------------- MODULE MCPaths -------------------------------
(***************************************************************************)
(* What the EE feeds: the VIF, and the GIF with the GS and the renderer    *)
(* behind it.  They share no state (nothing runs the VU's programs, which  *)
(* would send what the VIF unpacks to the GIF): a behaviour is about one.  *)
(***************************************************************************)
EXTENDS MCVif, MCGraphics

VARIABLES focus
pathVars == <<vifVars, gifVars, focus>>

PathsInit ==
  \/ focus = "vif" /\ stream = 1 /\ GifInit /\ VifInit
  \/ focus = "gif" /\ vif_stream = Idle /\ vif = ResetRegs /\ VifInit /\ GifInit
VifAt(A) == focus = "vif" /\ A /\ UNCHANGED <<gifVars, focus>>
GifAt(A) == focus = "gif" /\ A /\ UNCHANGED <<vifVars, focus>>
PathsNext == VifAt(VifNext) \/ GifAt(GraphicsNext)

\* The fairness of VifFair and GraphicsFair.
PathsSpec ==
  /\ PathsInit /\ [][PathsNext]_pathVars
  /\ WF_pathVars(VifAt(VifTick)) /\ WF_pathVars(VifAt(VifTurn)) /\ SF_pathVars(VifAt(Feed(2)))
  /\ WF_pathVars(GifAt(WritePath3)) /\ WF_pathVars(GifAt(GifTurn)) /\ WF_pathVars(GifAt(FramesTurn))

\* Whatever is sent to the VIF or to the GIF is taken to its end: the FIFO empties, a
\* quadword that waits for its second half gets it, no turn is lost to the wrong count
\* (VifDone); and every vertex submitted is drawn in the end (GifDone).
PathsDrain == <>[](IF focus = "vif" THEN VifDone ELSE GifDone)
=============================================================================
