-------------------------------- MODULE Gs --------------------------------
(***************************************************************************)
(* The Graphics Synthesizer as the GIF drives it (src/gs/gs.cc), its VRAM  *)
(* (gsvram.cc), its renderer (gsrenderer.cpp) and the frame the window     *)
(* opens and closes around it (vulkan/window.cc).                          *)
(*                                                                         *)
(* The value of a register is the tuple of those fields of it that         *)
(* anything looks at.  Coordinates are whole window pixels; what scales    *)
(* them to the screen loses nothing and is left out.                       *)
(***************************************************************************)
EXTENDS Integers, SequencesExt

VARIABLES
  regs,                     \* registers that are only stored
  trxdir, data_written,     \* the transfer to VRAM
  vram,                     \* what was written there, by page and byte
  vqueue,                   \* vertices of a primitive that is not complete
  draw_data, vertex_count,  \* vertices of this frame, and how many no draw covers yet
  depth,                    \* the depth function of the frame's command buffer,
  draws,                    \* and its draws
  buffer,                   \* the vertices the GPU draws from
  phase,                    \* "drawing", or "rendered" from the vertical blank on
  gs_halted,                \* terminate was called
  submitted, drawn,         \* vertices handed to the renderer, and drawn on the screen
  late                      \* a flush came behind the frame's render

transfer == <<trxdir, data_written, vram>>
renderer == <<draw_data, vertex_count, depth, draws, submitted, late>>
frame    == <<buffer, phase, drawn>>
gsVars   == <<regs, transfer, vqueue, renderer, frame, gs_halted>>

Stored  == {"PRIM", "RGBAQ", "XYOFFSET_1", "BITBLTBUF", "TRXPOS", "TRXREG", "OTHER"}
Kicks   == {"XYZ2", "XYZF2"}
Depths  == {"Never", "GEqual", "Greater"}
Vertex  == [pos : Int \X Int \X Int, color : Nat]
Tested  == [vertex : Vertex, test : Depths]
Draw    == [first : Nat, count : Nat, depth : Depths, again : BOOLEAN]

Triangle == 3
Sprite   == 6
HostLocal == 0
None      == 3
PSMCT32 == 0
PSMCT16 == 2

GsInit ==
  /\ regs = [r \in Stored |-> <<0, 0, 0>>]
  /\ trxdir = HostLocal /\ data_written = 0 /\ vram = <<>>
  /\ vqueue = <<>> /\ draw_data = <<>> /\ vertex_count = 0
  /\ depth = "GEqual" /\ draws = <<>> /\ buffer = <<>> /\ phase = "drawing"
  /\ gs_halted = FALSE
  /\ submitted = <<>> /\ drawn = <<>> /\ late = FALSE

GsTypeOK ==
  /\ regs \in [Stored -> Seq(Nat)]
  /\ \A r \in Stored : Len(regs[r]) >= IF r = "PRIM" THEN 1 ELSE 3
  /\ trxdir \in Nat /\ data_written \in Nat
  /\ vqueue \in Seq(Vertex) /\ Len(vqueue) <= 3
  /\ draw_data \in Seq(Vertex) /\ vertex_count \in 0 .. Len(draw_data)
  /\ depth \in Depths /\ draws \in Seq(Draw)
  /\ buffer \in Seq(Vertex) /\ phase \in {"drawing", "rendered"}
  /\ submitted \in Seq(Tested) /\ drawn \in Seq(Tested)
  /\ gs_halted \in BOOLEAN /\ late \in BOOLEAN

GsHalt == gs_halted' = TRUE /\ UNCHANGED <<regs, transfer, vqueue, renderer, frame>>

-----------------------------------------------------------------------------
(* Vertices and primitives.                                                *)

\* GSRenderer::submit_sprite: two triangles, at depth zero and without a colour.
SpriteCorners(v, w) ==
  LET At(x, y) == [pos |-> <<x.pos[1], y.pos[2], 0>>, color |-> 0]
  IN <<At(w, v), At(w, w), At(v, v), At(w, w), At(v, w), At(v, v)>>

\* What the vertices queued so far give when a vertex is drawn.
Completed(queue) ==
  CASE regs["PRIM"][1] % 8 = Sprite /\ Len(queue) = 2   -> SpriteCorners(queue[1], queue[2])
    [] regs["PRIM"][1] % 8 = Triangle /\ Len(queue) = 3 -> queue
    [] OTHER                                            -> <<>>

\* process_vertex: a full queue loses its oldest vertex.
ProcessVertex(xyz, kick) ==
  LET v == [pos   |-> <<xyz[1] - regs["XYOFFSET_1"][1], xyz[2] - regs["XYOFFSET_1"][2], xyz[3]>>,
            color |-> regs["RGBAQ"][1]]
      queue == Append(IF Len(vqueue) < 3 THEN vqueue ELSE Tail(vqueue), v)
      whole == IF kick THEN Completed(queue) ELSE <<>>
  IN /\ vqueue' = IF whole = <<>> THEN queue ELSE <<>>
     /\ draw_data' = draw_data \o whole
     /\ vertex_count' = vertex_count + Len(whole)
     /\ submitted' = submitted \o [i \in DOMAIN whole |-> [vertex |-> whole[i], test |-> depth]]
     /\ UNCHANGED <<regs, transfer, depth, draws, late, frame, gs_halted>>

\* The draw of the vertices no draw covers yet.
NewDraw ==
  [first |-> Len(draw_data) - vertex_count, count |-> vertex_count, depth |-> depth, again |-> FALSE]

\* set_depth_function; the value 2 is unknown.
DepthFunction(test) == CASE test = 0 -> "Never" [] test = 1 -> "GEqual" [] test = 3 -> "Greater"

\* Mutant of WriteTest: the function is set before what came under the old one is drawn.
WriteTestFirst(test) ==
  /\ test \in {0, 1, 3}
  /\ depth' = DepthFunction(test)
  /\ draws' = Append(draws, [NewDraw EXCEPT !.depth = DepthFunction(test)])
  /\ vertex_count' = 0
  /\ late' = (late \/ (phase = "rendered" /\ vertex_count > 0))
  /\ UNCHANGED <<regs, transfer, vqueue, draw_data, submitted, frame, gs_halted>>

\* TEST_1 and TEST_2: what was submitted so far is drawn under the old function.
WriteTest(test) ==
  /\ test \in {0, 1, 3}
  /\ draws' = Append(draws, NewDraw)
  /\ vertex_count' = 0
  /\ depth' = DepthFunction(test)
  /\ late' = (late \/ (phase = "rendered" /\ vertex_count > 0))
  /\ UNCHANGED <<regs, transfer, vqueue, draw_data, submitted, frame, gs_halted>>

\* GraphicsSynthesizer::write.
GsWrite(register, value) ==
  \/ /\ register \in Stored
     /\ regs' = [regs EXCEPT ![register] = value]
     /\ UNCHANGED <<transfer, vqueue, renderer, frame, gs_halted>>
  \/ register \in Kicks /\ ProcessVertex(value, TRUE)
  \/ register = "XYZ3" /\ ProcessVertex(value, FALSE)
  \/ register = "TEST" /\ WriteTest(value[1])
  \/ /\ register = "TRXDIR"
     /\ trxdir' = value[1] /\ data_written' = 0
     /\ UNCHANGED <<regs, vram, vqueue, renderer, frame, gs_halted>>
  \/ register \in {"XYZF3", "UNKNOWN"} /\ GsHalt
  \/ register = "TEST" /\ value[1] = 2 /\ GsHalt

-----------------------------------------------------------------------------
(* Pixels.  A page is 8 KB: 32 blocks of four columns of 64 bytes.         *)

Blocks32 == << <<0, 1, 4, 5, 16, 17, 20, 21>>, <<2, 3, 6, 7, 18, 19, 22, 23>>,
               <<8, 9, 12, 13, 24, 25, 28, 29>>, <<10, 11, 14, 15, 26, 27, 30, 31>> >>
Blocks16 == << <<0, 2, 8, 10>>, <<1, 3, 9, 11>>, <<4, 6, 12, 14>>, <<5, 7, 13, 15>>,
               <<16, 18, 24, 26>>, <<17, 19, 25, 27>>, <<20, 22, 28, 30>>, <<21, 23, 29, 31>> >>
Pixels   == << <<0, 1, 4, 5, 8, 9, 12, 13>>, <<2, 3, 6, 7, 10, 11, 14, 15>> >>

\* Mutant of Offset32: rows of a column are taken one behind the other.
Offset32Rows(x, y) ==
  256 * Blocks32[((y \div 8) % 4) + 1][((x \div 8) % 8) + 1]
    + 64 * ((y \div 2) % 4) + 4 * (8 * (y % 2) + (x % 8))

\* write_psmct32 and write_psmct16: the byte of a page a pixel is written to.
Offset32(x, y) ==
  256 * Blocks32[((y \div 8) % 4) + 1][((x \div 8) % 8) + 1]
    + 64 * ((y \div 2) % 4) + 4 * Pixels[(y % 2) + 1][(x % 8) + 1]
Offset16(x, y) ==
  256 * Blocks16[((y \div 8) % 8) + 1][((x \div 16) % 4) + 1]
    + 64 * ((y \div 2) % 4) + 2 * Pixels[(y % 2) + 1][((x \div 2) % 8) + 1]

\* The page and byte of the n-th pixel of the transfer.
Location(n) ==
  LET buf    == regs["BITBLTBUF"]
      x      == (n % regs["TRXREG"][1]) + regs["TRXPOS"][1]
      y      == n \div regs["TRXREG"][1] + regs["TRXPOS"][2]
      height == IF buf[3] = PSMCT32 THEN 32 ELSE 64
      page   == (buf[1] \div 32) + ((x \div 64) % buf[2]) + (y \div height) * buf[2]
  IN <<page, IF buf[3] = PSMCT32 THEN Offset32(x, y) ELSE Offset16(x, y)>>

\* A transfer before or after a write to HWREG.
Now == [dir |-> trxdir, written |-> data_written, vram |-> vram, halted |-> FALSE]

\* VRAM with pixels over what was there.
Over(f, g) == [l \in DOMAIN f \cup DOMAIN g |-> IF l \in DOMAIN f THEN f[l] ELSE g[l]]

\* What pixels leave behind, from the n-th of the transfer on.
Written(n, pixels) ==
  LET At(i)     == Location(n + i - 1)
      Latest(l) == Max({i \in DOMAIN pixels : At(i) = l})
  IN [l \in {At(i) : i \in DOMAIN pixels} |-> pixels[Latest(l)]]

\* write_hwreg: the pixels of 64 bits.
HwReg(s, pixels) ==
  LET next == s.written + Len(pixels)
      done == next >= regs["TRXREG"][1] * regs["TRXREG"][2]
  IN IF s.halted \/ s.dir # HostLocal \/ regs["BITBLTBUF"][3] \notin {PSMCT32, PSMCT16}
     THEN [s EXCEPT !.halted = TRUE]
     ELSE [dir |-> IF done THEN None ELSE s.dir, written |-> IF done THEN 0 ELSE next,
           vram |-> Over(Written(s.written, pixels), s.vram), halted |-> FALSE]

\* The two writes of a quadword of an image.
GsImage(pixels) ==
  LET half == Len(pixels) \div 2
  IN \E first \in {HwReg(Now, SubSeq(pixels, 1, half))} :
     \E after \in {HwReg(first, SubSeq(pixels, half + 1, 2 * half))} :
       /\ trxdir' = after.dir /\ data_written' = after.written /\ vram' = after.vram
       /\ gs_halted' = after.halted
       /\ UNCHANGED <<regs, vqueue, renderer, frame>>

-----------------------------------------------------------------------------
(* Frames.                                                                 *)

\* Mutant of Render: vertices are copied only when some still want a draw.
RenderCopiesRest ==
  /\ phase = "drawing" /\ ~gs_halted
  /\ phase' = "rendered"
  /\ IF vertex_count > 0
     THEN /\ draws' = Append(draws, NewDraw) /\ vertex_count' = 0
          /\ buffer' = draw_data \o SubSeq(buffer, Len(draw_data) + 1, Len(buffer))
          /\ draw_data' = <<>>
     ELSE /\ draws' = Append(draws, [first |-> 0, count |-> 6, depth |-> depth, again |-> TRUE])
          /\ UNCHANGED <<vertex_count, buffer, draw_data>>
  /\ UNCHANGED <<regs, transfer, vqueue, depth, submitted, late, drawn, gs_halted>>

\* GSRenderer::render, at the vertical blank: the vertices of the frame go to the
\* GPU; when there are none, the first six it still has are drawn again.
Render ==
  /\ phase = "drawing" /\ ~gs_halted
  /\ phase' = "rendered"
  /\ IF draw_data # <<>>
     THEN /\ draws' = Append(draws, NewDraw) /\ vertex_count' = 0
          /\ buffer' = draw_data \o SubSeq(buffer, Len(draw_data) + 1, Len(buffer))
          /\ draw_data' = <<>>
     ELSE /\ draws' = Append(draws, [first |-> 0, count |-> 6, depth |-> depth, again |-> TRUE])
          /\ UNCHANGED <<vertex_count, buffer, draw_data>>
  /\ UNCHANGED <<regs, transfer, vqueue, depth, submitted, late, drawn, gs_halted>>

\* What a draw finds in the buffer; behind the vertices copied there, anything.
Fetched(d) ==
  [i \in 1 .. d.count |->
     [vertex |-> IF d.first + i \in DOMAIN buffer THEN buffer[d.first + i]
                 ELSE [pos |-> <<0, 0, 0>>, color |-> 0],
      test   |-> d.depth]]

\* end_frame and the next begin_frame: the GPU executes the draws, and a new command
\* buffer begins with its own depth function.
NextFrame ==
  /\ phase = "rendered" /\ ~gs_halted
  /\ phase' = "drawing" /\ draws' = <<>> /\ depth' = "GEqual"
  /\ drawn' = drawn \o FlattenSeq([k \in DOMAIN draws |->
                                     IF draws[k].again THEN <<>> ELSE Fetched(draws[k])])
  /\ UNCHANGED <<regs, transfer, vqueue, draw_data, vertex_count, submitted, late, buffer, gs_halted>>

Frames == Render \/ NextFrame

-----------------------------------------------------------------------------
(* Between frames, the vertices drawn and those that wait are the ones     *)
(* that were submitted, each once and in order, however the vertical       *)
(* blanks fall between the program's flushes.  A flush of vertices after   *)
(* render is the one thing that loses some: late says so.                  *)
DrawnOnce ==
  phase = "drawing" /\ draws = <<>> /\ ~late =>
    [i \in DOMAIN drawn |-> drawn[i].vertex] \o draw_data
      = [i \in DOMAIN submitted |-> submitted[i].vertex]

\* A vertex is drawn under the depth function in force when it was submitted, or under
\* the one its frame began with; never under that of a later TEST.
DepthOfTest ==
  ~late => \A i \in DOMAIN drawn : drawn[i].test \in {submitted[i].test, "GEqual"}
=============================================================================
