------------------------------- MODULE MCVif -------------------------------
EXTENDS Vif
C(name) == [NoCommand EXCEPT !.command = name]
Imm(name, value) == [head |-> [C(name) EXCEPT !.imm = value], body |-> <<>>]
Cycle(n) == [head |-> [C("STCYCL") EXCEPT !.cl = n, !.wl = n], body |-> <<>>]
Body(n, from) == [i \in 1 .. n |-> Payload(from + i)]
Sets(name, n, from) == [head |-> C(name), body |-> Body(n, from)]
Mpg(n, at, words, from) == [head |-> [C("MPG") EXCEPT !.num = n, !.imm = at], body |-> Body(words, from)]
Unpack(f, n, at, from) ==
  [head |-> [C("UNPACK") EXCEPT !.num = n, !.imm = at, !.format = f, !.flg = TRUE],
   body |-> Body(IF f = "V4_32" THEN 4 * n ELSE n, from)]

Idle == <<>>
Unpacks == <<Cycle(1), Unpack("V4_32", 2, 0, 10), Imm("MARK", 1), Unpack("S_32", 2, 2, 20), Imm("BASE", 3), Imm("NOP", 0)>>
MCStreams == {
  Idle, Unpacks,
  <<Cycle(2), Unpack("S_32", 2, 1, 30), Unpack("V4_32", 1, 3, 30), Imm("OFFSET", 1), Sets("STMASK", 1, 5)>>,
  <<Sets("STROW", 4, 40), Imm("ITOP", 2), Sets("STCOL", 4, 50), Imm("NOP", 0)>>,
  <<Mpg(1, 0, 2, 60), Imm("MSKPATH3", 0), Mpg(0, 1, 6, 70), Imm("NOP", 0)>>,
  <<Cycle(2), Imm("STMOD", 1), Unpack("S_32", 1, 0, 80), Imm("NOP", 0), Imm("NOP", 0)>>
}
MCGarbage == {<<0, 0>>, <<1, 2>>, <<2, 1>>}
=============================================================================
