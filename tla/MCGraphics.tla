----------------------------- MODULE MCGraphics -----------------------------
EXTENDS Gif
Tag(regs_, n) == [EmptyQword EXCEPT !.regs = regs_, !.nloop = n]
Prim(t, p) == [t EXCEPT !.pre = TRUE, !.prim = p]
\* Fields behind those of interest are zero.
Value(v) == [EmptyQword EXCEPT !.value = v \o SubSeq(@, Len(v) + 1, 4)]
AD(r, v) == [Value(v) EXCEPT !.addr = r]
Quiet(v) == [Value(v) EXCEPT !.disable = TRUE]
Packet(t, qwords) == [head |-> t, body |-> qwords]
Figure(kind, corners, c) == [kind |-> kind, corners |-> corners, color |-> c, spare |-> 0]

\* What each quadword of a packet is for.
Purposes(p) ==
  LET Purpose(i) ==
        CASE p.head.flg = "Image"   -> "image"
          [] p.head.flg = "Reglist" -> "UNKNOWN"
          [] OTHER -> Addressed(p.head.regs[1 + ((i - 1) % Len(p.head.regs))], p.body[i])
  IN <<[for |-> "tag", qword |-> p.head]>>
       \o [i \in DOMAIN p.body |-> [for |-> Purpose(i), qword |-> p.body[i]]]

\* The note behind a quadword.
After(st, a, for, qword) ==
  CASE for = "tag" -> IF qword.pre THEN Learnt(a, "PRIM", <<qword.prim>>) ELSE a
    [] for = "image" -> IF PixelsDue(st, a, qword.value) THEN PixelsSent(st, a, 2 * (Len(qword.value) \div 2))
                        ELSE [a EXCEPT !.sure = a.known["TRXDIR"][1] # HostLocal]
    [] for \in Stored \cup {"TRXDIR"} -> Learnt(a, for, qword.value)
    [] for \in Kicks \cup {"XYZ3"} -> VertexSent(st, a)
    [] for = "TEST" -> a
    [] OTHER -> Blank

Stream(packets, figures, images) ==
  LET st == [packets |-> packets, figures |-> figures, images |-> images]
      Add(notes, purpose) == Append(notes, After(st, Last(notes), purpose.for, purpose.qword))
      purposes == FlattenSeq([k \in DOMAIN packets |-> Purposes(packets[k])])
  IN [packets |-> packets, figures |-> figures, images |-> images,
      notes |-> FoldLeft(Add, <<Blank>>, purposes)]

\* Triangles of two colours under three depth functions, after a packet of no loops.
Colours == Stream(
  << Packet(Prim(Tag(<<"A_D">>, 0), Sprite), <<>>),
     Packet(Tag(<<"A_D">>, 3), <<AD("TEST", <<0>>), AD("PRIM", <<Triangle>>), AD("XYOFFSET_1", <<0, 0>>)>>),
     Packet(Tag(<<"RGBAQ", "XYZ2">>, 3), <<Value(<<1>>), Value(<<1, 2, 3>>), Value(<<1>>), Value(<<4, 5, 6>>),
                                            Value(<<1>>), Value(<<7, 8, 9>>)>>),
     Packet(Tag(<<"A_D">>, 3), <<AD("TEST", <<3>>), AD("XYOFFSET_1", <<1, 2>>), AD("RGBAQ", <<2>>)>>),
     Packet(Tag(<<"ST", "XYZF2">>, 3), <<Value(<<0>>), Value(<<2, 4, 1>>), Value(<<0>>), Value(<<5, 7, 1>>),
                                          Value(<<0>>), Value(<<8, 7, 1>>)>>),
     Packet(Tag(<<"A_D">>, 1), <<AD("TEST", <<1>>)>>) >>,
  << Figure("triangle", << <<1, 2, 3>>, <<4, 5, 6>>, <<7, 8, 9>> >>, 1),
     Figure("triangle", << <<1, 2, 1>>, <<4, 5, 1>>, <<7, 5, 1>> >>, 2) >>, <<>>)

\* Vertices that do not draw, more of them than the queue holds, and a sprite behind a
\* tag that sets PRIM.
Mixed == Stream(
  << Packet(Tag(<<"RGBAQ", "A_D">>, 1), <<Value(<<1>>), AD("XYOFFSET_1", <<0, 0>>)>>),
     Packet(Prim(Tag(<<"XYZ2">>, 4), Triangle), <<Quiet(<<1, 1, 1>>), Quiet(<<2, 2, 2>>), Quiet(<<3, 1, 2>>), Value(<<4, 4, 3>>)>>),
     Packet(Prim(Tag(<<"XYZ2">>, 2), Sprite), <<Value(<<1, 2, 3>>), Value(<<4, 5, 3>>)>>),
     Packet(Prim(Tag(<<"XYZF2">>, 2), Sprite), <<Value(<<2, 2, 3>>), Value(<<5, 5, 3>>)>>) >>,
  << [Figure("triangle", << <<2, 2, 2>>, <<3, 1, 2>>, <<4, 4, 3>> >>, 1) EXCEPT !.spare = 1],
     Figure("sprite", << <<1, 2>>, <<4, 5>> >>, 0), Figure("sprite", << <<2, 2>>, <<5, 5>> >>, 0) >>, <<>>)

Transfer(format, base, width, x, y, w, h) ==
  Packet(Tag(<<"A_D">>, 4), <<AD("BITBLTBUF", <<base, width, format>>), AD("TRXPOS", <<x, y>>),
                               AD("TRXREG", <<w, h>>), AD("TRXDIR", <<HostLocal>>)>>)
ImageData(n, per, from) ==
  Packet([Tag(<<>>, n) EXCEPT !.flg = "Image"], [q \in 1 .. n |-> Value([i \in 1 .. per |-> from + per * (q - 1) + i])])
Picture(page, width, x, y, w, h, from) ==
  [page |-> page, width |-> width, x |-> x, y |-> y, w |-> w, h |-> h, pixels |-> [i \in 1 .. w * h |-> from + i]]

\* Images across a block, across four pages, in two packets, and one behind the other.
Images == Stream(
  << Transfer(PSMCT32, 64, 2, 61, 30, 6, 4), ImageData(2, 4, 100), ImageData(4, 4, 108),
     Transfer(PSMCT32, 0, 1, 6, 7, 4, 2), ImageData(2, 4, 200) >>,
  <<>>, << Picture(2, 2, 61, 30, 6, 4, 100), Picture(0, 1, 6, 7, 4, 2, 200) >>)
Band == Stream(<< Transfer(PSMCT32, 32, 1, 44, 8, 20, 2), ImageData(10, 4, 300) >>,
               <<>>, << Picture(1, 1, 44, 8, 20, 2, 300) >>)

\* What makes the GIF or the GS give up.
Fatal(packets) == Stream(packets, <<>>, <<>>)
Fatals == <<
  Fatal(<< Packet([Tag(<<"PRIM">>, 1) EXCEPT !.flg = "Reglist"], <<Value(<<0>>)>>) >>),
  Fatal(<< Packet(Tag(<<"PRIM", "OTHER">>, 1), <<Value(<<3>>), Value(<<3>>)>>) >>),
  Fatal(<< Packet(Tag(<<"XYZF2">>, 1), <<Quiet(<<1, 1, 1>>)>>) >>),
  Fatal(<< Packet(Tag(<<"A_D">>, 1), <<AD("TEST", <<2>>)>>) >>),
  Fatal(<< Packet(Tag(<<"A_D">>, 1), <<AD("TRXDIR", <<None>>)>>), ImageData(1, 4, 0) >>),
  Fatal(<< Transfer(PSMCT16, 0, 1, 0, 0, 8, 1), ImageData(2, 8, 400), Packet(Tag(<<"OTHER">>, 1), <<Value(<<0>>)>>) >>) >>

MCGifStreams == <<Colours, Mixed, Images, Band>> \o Fatals
=============================================================================
