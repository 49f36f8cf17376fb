-------------------------------- MODULE Gif --------------------------------
(***************************************************************************)
(* The GIF, src/gs/gif.cc: it takes quadwords from its FIFO, a tag and     *)
(* then as many quadwords of data as the tag says, and writes them to the  *)
(* GS.  Nothing in the stream marks what is a tag.                         *)
(*                                                                         *)
(* A quadword is what it says as a tag (nloop, regs, flg, pre, prim) and   *)
(* what it says as data: a register an A+D quadword names, a value, and    *)
(* the bit that keeps a vertex from drawing.                               *)
(***************************************************************************)
EXTENDS Gs

CONSTANTS
  GifStreams,   \* what programs send, a sequence of [packets, figures, images, notes]
  GifQwords,    \* capacity of the FIFO, in quadwords
  GifResets     \* bound on how often the program resets the GIF

VARIABLES
  gif_fifo, tag, data_count, reg_count,
  stream, sent,  \* the stream being sent, and how many of its quadwords,
  resets,        \* how often the GIF was reset,
  origin         \* and what had been submitted and written when the stream began

gifParser == <<tag, data_count, reg_count>>
gifSender == <<stream, sent, resets, origin>>
gifVars   == <<gsVars, gif_fifo, gifParser, gifSender>>

RegDescs  == {"PRIM", "RGBAQ", "ST", "XYZF2", "XYZ2", "A_D", "OTHER"}
Formats   == {"Packed", "Image", "Reglist"}
Registers == Stored \cup Kicks \cup {"XYZ3", "XYZF3", "TEST", "TRXDIR", "UNKNOWN"}

Quadword ==
  [nloop : Nat, regs : Seq(RegDescs), flg : Formats, pre : BOOLEAN, prim : Nat,
   addr : Registers, value : Seq(Nat), disable : BOOLEAN]

EmptyQword == [nloop |-> 0, regs |-> <<>>, flg |-> "Packed", pre |-> FALSE, prim |-> 0,
               addr |-> "OTHER", value |-> <<0, 0, 0, 0>>, disable |-> FALSE]

\* How many quadwords of data a tag announces.
Announced(t) == IF t.flg = "Packed" THEN t.nloop * Len(t.regs) ELSE t.nloop

\* A quadword holds four words or more, and a packet what its tag announces.  A packed
\* one has registers: that NREG zero means sixteen of them is not in the code.
ASSUME GifStreamsAssumption ==
  /\ Len(GifStreams) \in Nat \ {0} /\ DOMAIN GifStreams = 1 .. Len(GifStreams)
  /\ \A s \in DOMAIN GifStreams :
       /\ GifStreams[s].packets \in Seq([head : Quadword, body : Seq(Quadword)])
       /\ \A k \in DOMAIN GifStreams[s].packets :
            LET p == GifStreams[s].packets[k]
            IN /\ Len(p.body) = Announced(p.head)
               /\ p.head.flg = "Packed" /\ p.head.nloop > 0 => p.head.regs # <<>>
               /\ \A i \in DOMAIN p.body : Len(p.body[i].value) >= 4
ASSUME GifQwordsAssumption == GifQwords \in Nat /\ GifResets \in Nat

\* The quadwords of each stream, and where its packets begin.
GifWire(packets) == FlattenSeq([k \in DOMAIN packets |-> <<packets[k].head>> \o packets[k].body])
GifWires == [s \in DOMAIN GifStreams |-> GifWire(GifStreams[s].packets)]
FirstOfs ==
  [s \in DOMAIN GifStreams |-> [k \in 1 .. Len(GifStreams[s].packets) + 1 |->
     Len(GifWire(SubSeq(GifStreams[s].packets, 1, k - 1)))]]
GifLength == Len(GifWires[stream])

GifTypeOK ==
  /\ GsTypeOK
  /\ gif_fifo \in Seq(Quadword) /\ Len(gif_fifo) <= GifQwords
  /\ tag \in Quadword /\ data_count \in Nat /\ reg_count \in 0 .. Len(tag.regs)
  /\ stream \in DOMAIN GifStreams /\ sent \in 0 .. GifLength

GifInit ==
  /\ GsInit
  /\ gif_fifo = <<>> /\ tag = EmptyQword /\ data_count = 0 /\ reg_count = 0
  /\ stream \in DOMAIN GifStreams /\ sent = 0 /\ resets = 0
  /\ origin = [submitted |-> 0, vram |-> <<>>]

\* write_path3, from the DMA controller or from a program that looked at GIF_STAT: a
\* quadword, again and again until it fits.
WritePath3 ==
  /\ ~gs_halted /\ sent < GifLength /\ Len(gif_fifo) < GifQwords
  /\ gif_fifo' = Append(gif_fifo, GifWires[stream][sent + 1])
  /\ sent' = sent + 1
  /\ UNCHANGED <<gsVars, gifParser, stream, resets, origin>>

\* GIF::reset, which GIF_CTRL.RST asks for, in the middle of a packet but not of a
\* primitive, whose vertices nothing takes out of the GS; the program then sends
\* the next stream.
GifReset ==
  /\ ~gs_halted /\ resets < GifResets /\ vqueue = <<>>
  /\ gif_fifo' = <<>> /\ tag' = EmptyQword /\ data_count' = 0 /\ reg_count' = 0
  /\ stream' = 1 + (stream % Len(GifStreams)) /\ sent' = 0 /\ resets' = resets + 1
  /\ origin' = [submitted |-> Len(submitted), vram |-> vram]
  /\ UNCHANGED gsVars

-----------------------------------------------------------------------------
(* GIF::tick, one quadword at a time.                                      *)

Takes == gif_fifo # <<>> /\ ~gs_halted /\ gif_fifo' = Tail(gif_fifo) /\ UNCHANGED gifSender
Qword == Head(gif_fifo)

\* Mutant of ProcessTag: PRIM is set whatever PRE says.
ProcessTagSetsPrim ==
  /\ data_count = 0 /\ Takes
  /\ tag' = Qword /\ data_count' = Qword.nloop /\ reg_count' = Len(Qword.regs)
  /\ regs' = [regs EXCEPT !["PRIM"] = <<Qword.prim>>]
  /\ UNCHANGED <<transfer, vqueue, renderer, frame, gs_halted>>

\* process_tag.
ProcessTag ==
  /\ data_count = 0 /\ Takes
  /\ tag' = Qword /\ data_count' = Qword.nloop /\ reg_count' = Len(Qword.regs)
  /\ regs' = IF Qword.pre THEN [regs EXCEPT !["PRIM"] = <<Qword.prim>>] ELSE regs
  /\ UNCHANGED <<transfer, vqueue, renderer, frame, gs_halted>>

\* What process_packed writes where.
Addressed(desc, qword) ==
  CASE desc = "A_D"   -> qword.addr
    [] desc = "XYZ2"  -> IF qword.disable THEN "XYZ3" ELSE "XYZ2"
    [] desc = "XYZF2" -> IF qword.disable THEN "XYZF3" ELSE "XYZF2"
    [] desc = "ST"    -> "OTHER"
    [] desc = "OTHER" -> "UNKNOWN"
    [] OTHER          -> desc

\* Mutant of NextRegister: the loop is counted down with every register.
NextRegisterEach ==
  /\ reg_count' = IF reg_count = 1 THEN Len(tag.regs) ELSE reg_count - 1
  /\ data_count' = data_count - 1

\* The descriptor after this one, in the next loop behind the last.
NextRegister ==
  /\ reg_count' = IF reg_count = 1 THEN Len(tag.regs) ELSE reg_count - 1
  /\ data_count' = IF reg_count = 1 THEN data_count - 1 ELSE data_count

Packed ==
  /\ data_count > 0 /\ tag.flg = "Packed" /\ Takes
  /\ GsWrite(Addressed(tag.regs[Len(tag.regs) - reg_count + 1], Qword), Qword.value)
  /\ NextRegister
  /\ UNCHANGED tag

Image ==
  /\ data_count > 0 /\ tag.flg = "Image" /\ Takes
  /\ GsImage(Qword.value)
  /\ data_count' = data_count - 1
  /\ UNCHANGED <<tag, reg_count>>

UnknownFormat ==
  /\ data_count > 0 /\ tag.flg = "Reglist" /\ Takes
  /\ GsHalt
  /\ UNCHANGED gifParser

GifTurn == ProcessTag \/ Packed \/ Image \/ UnknownFormat

FramesTurn == Frames /\ UNCHANGED <<gif_fifo, gifParser, gifSender>>

GraphicsNext == WritePath3 \/ GifReset \/ GifTurn \/ FramesTurn

GraphicsFair == WF_gifVars(WritePath3) /\ WF_gifVars(GifTurn) /\ WF_gifVars(FramesTurn)
GraphicsSpec == GifInit /\ [][GraphicsNext]_gifVars /\ GraphicsFair

-----------------------------------------------------------------------------
(* What a program means to send, figures and images, is in its stream of   *)
(* packets one after the other.  Its notes say where: before each quadword *)
(* which registers hold what (<<>> where that is not said), how many       *)
(* figures and images are complete, how many vertices and pixels of the    *)
(* next ones were sent, and whether it is sure of VRAM.  Notes are about   *)
(* the stream alone, not about what the GIF and the GS make of it; behind  *)
(* what terminates the GS they may say anything.                           *)

Notes(st) ==
  [known : [Stored \cup {"TRXDIR"} -> Seq(Nat)],
   figures : 0 .. Len(st.figures), vertices : Nat,
   images : 0 .. Len(st.images), pixels : Nat, sure : BOOLEAN]

Blank == [known |-> [r \in Stored \cup {"TRXDIR"} |-> <<>>],
          figures |-> 0, vertices |-> 0, images |-> 0, pixels |-> 0, sure |-> TRUE]

Learnt(a, register, value) == [a EXCEPT !.known[register] = value]

\* A figure takes as many vertices as it has corners, behind some that it lets go.
Vertices(f) == f.spare + Len(f.corners)

\* The vertex is a corner of the figure.
IsCorner(f, c, v) ==
  IF f.kind = "triangle" THEN v = [pos |-> f.corners[c], color |-> f.color]
  ELSE v.pos[1] = f.corners[c][1] /\ v.pos[2] = f.corners[c][2]

VertexSent(st, a) ==
  IF a.vertices + 1 = Vertices(st.figures[a.figures + 1])
  THEN [a EXCEPT !.figures = @ + 1, !.vertices = 0]
  ELSE [a EXCEPT !.vertices = @ + 1]

\* A vertex is the next one of a figure, sent under its kind of primitive; the last one
\* draws, and one that finds a full queue draws only if it is the last.
VertexDue(st, a, register, value) ==
  LET f      == st.figures[a.figures + 1]
      n      == a.vertices + 1
      offset == a.known["XYOFFSET_1"]
      v      == [pos   |-> <<value[1] - offset[1], value[2] - offset[2], value[3]>>,
                 color |-> a.known["RGBAQ"][1]]
  IN /\ a.figures < Len(st.figures) /\ n <= Vertices(f)
     /\ \A r \in {"PRIM", "RGBAQ", "XYOFFSET_1"} : a.known[r] # <<>>
     /\ a.known["PRIM"][1] % 8 = IF f.kind = "triangle" THEN Triangle ELSE Sprite
     /\ n > f.spare => IsCorner(f, n - f.spare, v)
     /\ register \in Kicks => n < Len(f.corners) \/ n = Vertices(f)
     /\ n = Vertices(f) => register \in Kicks

\* A write to a register takes note a to note b.
Noted(st, a, b, register, value) ==
  \/ register \in Stored /\ b = Learnt(a, register, value)
  \/ register \in Kicks \cup {"XYZ3"} /\ VertexDue(st, a, register, value) /\ b = VertexSent(st, a)
  \/ register = "TEST" /\ (value[1] # 2 => b = a)
  \/ register = "TRXDIR" /\ a.pixels = 0 /\ b = Learnt(a, "TRXDIR", value)
  \/ register \in {"XYZF3", "UNKNOWN"}

PixelsSent(st, a, count) ==
  IF a.pixels + count = st.images[a.images + 1].w * st.images[a.images + 1].h
  THEN [Learnt(a, "TRXDIR", <<None>>) EXCEPT !.images = @ + 1, !.pixels = 0]
  ELSE [a EXCEPT !.pixels = @ + count]

\* The pixels of a quadword are the next ones of an image whose place the registers hold;
\* the first half does not complete it.
PixelsDue(st, a, value) ==
  LET m    == st.images[a.images + 1]
      half == Len(value) \div 2
  IN /\ a.images < Len(st.images) /\ a.sure
     /\ \A r \in {"BITBLTBUF", "TRXPOS", "TRXREG", "TRXDIR"} : a.known[r] # <<>>
     /\ a.known["TRXDIR"][1] = HostLocal /\ a.known["BITBLTBUF"][3] = PSMCT32
     /\ m.page = a.known["BITBLTBUF"][1] \div 32 /\ m.width = a.known["BITBLTBUF"][2]
     /\ m.x = a.known["TRXPOS"][1] /\ m.y = a.known["TRXPOS"][2]
     /\ m.w = a.known["TRXREG"][1] /\ m.h = a.known["TRXREG"][2]
     /\ a.pixels + half < m.w * m.h /\ a.pixels + 2 * half <= m.w * m.h
     /\ \A i \in 1 .. 2 * half : value[i] = m.pixels[a.pixels + i]

\* So does a quadword of an image.  What is not the next of an image it meant to send
\* leaves the program unsure of VRAM.
ImageNoted(st, a, b, value) ==
  \/ PixelsDue(st, a, value) /\ b = PixelsSent(st, a, 2 * (Len(value) \div 2))
  \/ b = [a EXCEPT !.sure = FALSE]
  \/ a.sure /\ a.known["TRXDIR"] # <<>> /\ a.known["TRXDIR"][1] # HostLocal

\* The quadwords of a packet, behind so many others, take each note to the next.
PacketNoted(st, p, first) ==
  LET Note(i) == st.notes[first + 1 + i]
  IN /\ Note(1) = IF p.head.pre THEN Learnt(Note(0), "PRIM", <<p.head.prim>>) ELSE Note(0)
     /\ p.head.flg = "Packed" =>
          \A loop \in 0 .. p.head.nloop - 1, j \in DOMAIN p.head.regs :
            LET i == loop * Len(p.head.regs) + j
            IN Noted(st, Note(i), Note(i + 1), Addressed(p.head.regs[j], p.body[i]), p.body[i].value)
     /\ p.head.flg = "Image" =>
          \A i \in DOMAIN p.body : ImageNoted(st, Note(i), Note(i + 1), p.body[i].value)

FigureRecords ==
  [kind : {"triangle"}, corners : [1 .. 3 -> Int \X Int \X Int], color : Nat, spare : Nat]
    \cup [kind : {"sprite"}, corners : [1 .. 2 -> Int \X Int], color : Nat, spare : {0}]
ImageRecords ==
  [page : Nat, width : Nat, x : Nat, y : Nat, w : Nat \ {0}, h : Nat \ {0}, pixels : Seq(Nat)]

\* A program sends the figures and the images it means to, one after the other: each
\* vertex under the registers it needs, each image where it fits.
ASSUME GifNotesAssumption ==
  \A s \in DOMAIN GifStreams :
    LET st   == GifStreams[s]
        last == GifStreams[s].notes[Len(GifWires[s]) + 1]
    IN /\ st.figures \in Seq(FigureRecords) /\ st.images \in Seq(ImageRecords)
       /\ \A m \in DOMAIN st.images :
            /\ Len(st.images[m].pixels) = st.images[m].w * st.images[m].h
            /\ st.images[m].x + st.images[m].w <= 64 * st.images[m].width
       /\ st.notes \in Seq(Notes(st)) /\ Len(st.notes) = Len(GifWires[s]) + 1
       /\ st.notes[1] = Blank
       /\ last.figures = Len(st.figures) /\ last.images = Len(st.images) /\ last.pixels = 0 /\ last.sure
       /\ \A k \in DOMAIN st.packets : PacketNoted(st, st.packets[k], FirstOfs[s][k])

-----------------------------------------------------------------------------

Taken == sent - Len(gif_fifo)
FirstOf(k) == FirstOfs[stream][k]
Packets == GifStreams[stream].packets
Remaining ==
  IF tag.flg = "Packed" THEN (data_count - 1) * Len(tag.regs) + reg_count ELSE data_count

\* The GIF takes for tags what was sent as tags, and gives each quadword of data to the
\* register it was meant for, wherever the FIFO was full and after a reset in the
\* middle of a packet; every variable keeps its type.
GifAligned ==
  /\ GifTypeOK
  /\ ~gs_halted =>
    IF data_count = 0
    THEN \E k \in 1 .. Len(Packets) + 1 : Taken = FirstOf(k)
    ELSE \E k \in DOMAIN Packets :
           /\ tag = Packets[k].head
           /\ FirstOf(k) < Taken /\ Taken + Remaining = FirstOf(k + 1)

\* What the stream was meant to draw, as triangles: sets of corners.
Halves(f) ==
  IF f.kind = "triangle" THEN <<{[pos |-> f.corners[i], color |-> f.color] : i \in 1 .. 3}>>
  ELSE LET x(i) == f.corners[i][1]
           y(i) == f.corners[i][2]
           C(i, j) == [pos |-> <<x(i), y(j), 0>>, color |-> 0]
       IN <<{C(1, 1), C(2, 1), C(2, 2)}, {C(1, 1), C(1, 2), C(2, 2)}>>
Triangles ==
  [s \in DOMAIN GifStreams |->
     FlattenSeq([k \in DOMAIN GifStreams[s].figures |-> Halves(GifStreams[s].figures[k])])]
Meant == Triangles[stream]

\* The renderer gets whole primitives, the ones the stream was meant to draw, in their
\* order and with their colours, and at the end of the stream all of them: no vertex
\* slips from one primitive into the next.
PrimitivesWhole ==
  LET new   == SubSeq(submitted, origin.submitted + 1, Len(submitted))
      count == Len(new) \div 3
  IN ~gs_halted =>
       /\ Len(new) % 3 = 0 /\ count <= Len(Meant)
       /\ \A t \in 1 .. count : {new[3 * t - i].vertex : i \in 0 .. 2} = Meant[t]
       /\ Taken = GifLength => count = Len(Meant)

\* The place of a pixel by the bits of its coordinates, in a buffer so many pages wide.
Bit(v, weight) == (v \div weight) % 2
PlaceOf(m, x, y) ==
  <<m.page + x \div 64 + (y \div 32) * m.width,
    256 * (Bit(x, 8) + 2 * Bit(y, 8) + 4 * Bit(x, 16) + 8 * Bit(y, 16) + 16 * Bit(x, 32))
      + 64 * ((y \div 2) % 4)
      + 4 * (Bit(x, 1) + 2 * Bit(y, 1) + 4 * Bit(x, 2) + 8 * Bit(x, 4))>>
Placed(m) ==
  LET area == (0 .. m.w - 1) \X (0 .. m.h - 1)
      At(p) == PlaceOf(m, m.x + p[1], m.y + p[2])
  IN [l \in {At(p) : p \in area} |->
        LET p == CHOOSE q \in area : At(q) = l IN m.pixels[p[2] * m.w + p[1] + 1]]

\* Images one over the other: in each place the pixel of the last one that has it.
Painted(images) ==
  LET placed    == [m \in DOMAIN images |-> Placed(images[m])]
      Having(l) == {m \in DOMAIN images : l \in DOMAIN placed[m]}
  IN [l \in UNION {DOMAIN placed[m] : m \in DOMAIN images} |-> placed[Max(Having(l))][l]]
Pictures == [s \in DOMAIN GifStreams |-> Painted(GifStreams[s].images)]

\* An image is in VRAM where a buffer of its width has its rectangle, and nothing else
\* was written there (PSMCT32; the pixels of PSMCT16 overwrite one another).
ImagePlaced ==
  ~gs_halted /\ Taken = GifLength /\ data_count = 0 =>
    vram = Over(Pictures[stream], origin.vram)

\* The stream is taken to its end, which is a packet's, and its vertices are drawn.
GifDone ==
  \/ gs_halted
  \/ /\ Taken = GifLength /\ data_count = 0
     /\ late \/ Len(drawn) = Len(submitted)
=============================================================================
