----------------------------- MODULE SifProofs -----------------------------
(***************************************************************************)
(* The SIF keeps tags and data apart and brings packets whole, in both     *)
(* directions at once, and its control register agrees with what the EE    *)
(* said.  First what a FIFO of whole packets is, then the two directions,  *)
(* then the steps of the two controllers.                                  *)
(***************************************************************************)
EXTENDS SifLink, SifRegs, SequenceTheorems, TLAPS

-----------------------------------------------------------------------------
(* A FIFO of packets.  sent gives the words of each packet.  A place is a  *)
(* packet and how many words of the FIFO come before it, which is negative *)
(* when some of the packet were taken.  left is how many words of the last *)
(* packet the sender still has, and next how many words the receiver takes *)
(* before it looks for a tag.                                              *)

EndOf(s, sent) == s.at + Len(sent[s.packet])

Lies(fifo, s, sent) ==
  \A k \in 1 .. Len(sent[s.packet]) : s.at + k \in 1 .. Len(fifo) => fifo[s.at + k] = sent[s.packet][k]

Placed(fifo, left, s, sent) ==
  /\ s.packet \in DOMAIN sent /\ s.at \in Int
  /\ Lies(fifo, s, sent)
  /\ EndOf(s, sent) <= Len(fifo) \/ EndOf(s, sent) = Len(fifo) + left

Followed(fifo, left, s, sent, places) ==
  EndOf(s, sent) = Len(fifo) + left \/ \E r \in places : r.at = EndOf(s, sent)

Flow(fifo, left, next, places, sent) ==
  /\ \A s \in places : Placed(fifo, left, s, sent) /\ Followed(fifo, left, s, sent, places)
  /\ next = Len(fifo) + left \/ \E s \in places : s.at = next

\* The places of a FIFO whose first n words were taken.
Earlier(places, n) == {[at |-> s.at - n, packet |-> s.packet] : s \in places}

\* The sender begins a packet, and may push its first words.
LEMMA FlowAnnounced ==
  ASSUME NEW W, NEW sent, \A p \in DOMAIN sent : sent[p] \in Seq(W),
         NEW f \in Seq(W), NEW next \in Int, NEW places, Flow(f, 0, next, places, sent),
         NEW p \in DOMAIN sent, NEW ws \in Seq(W), Len(ws) <= Len(sent[p]),
         \A k \in 1 .. Len(ws) : ws[k] = sent[p][k]
  PROVE  Flow(f \o ws, Len(sent[p]) - Len(ws), next,
              places \cup {[at |-> Len(f), packet |-> p]}, sent)
<1> DEFINE g    == f \o ws
           n    == Len(sent[p]) - Len(ws)
           new  == [at |-> Len(f), packet |-> p]
           all  == places \cup {new}
<1>1. /\ Len(f) \in Nat /\ Len(ws) \in Nat /\ Len(sent[p]) \in Nat /\ n \in Nat
      /\ Len(g) = Len(f) + Len(ws)
      /\ \A i \in 1 .. Len(f) : g[i] = f[i]
      /\ \A i \in 1 .. Len(ws) : g[Len(f) + i] = ws[i]
  OBVIOUS
<1>2. new.at = Len(f) /\ new.packet = p /\ EndOf(new, sent) = Len(g) + n
  BY <1>1 DEF EndOf
<1>3. Placed(g, n, new, sent) /\ Followed(g, n, new, sent, all)
  <2>1. Lies(g, new, sent)
    <3>1. SUFFICES ASSUME NEW k \in 1 .. Len(sent[p]), Len(f) + k \in 1 .. Len(g)
                   PROVE  g[Len(f) + k] = sent[p][k]
      BY <1>2 DEF Lies
    <3>2. k \in 1 .. Len(ws)
      BY <1>1, <3>1
    <3> QED BY <1>1, <3>2
  <2> HIDE DEF g, n, new, all
  <2> QED BY <1>1, <1>2, <2>1 DEF Placed, Followed
<1>4. ASSUME NEW s \in places PROVE Placed(g, n, s, sent) /\ Followed(g, n, s, sent, all)
  <2>1. /\ s.packet \in DOMAIN sent /\ s.at \in Int /\ Len(sent[s.packet]) \in Nat
        /\ EndOf(s, sent) <= Len(f) /\ EndOf(s, sent) \in Int
    BY <1>1 DEF Flow, Placed, EndOf
  <2>2. Lies(g, s, sent)
    <3>1. SUFFICES ASSUME NEW k \in 1 .. Len(sent[s.packet]), s.at + k \in 1 .. Len(g)
                   PROVE  g[s.at + k] = sent[s.packet][k]
      BY DEF Lies
    <3>2. s.at + k \in 1 .. Len(f)
      BY <1>1, <2>1, <3>1 DEF EndOf
    <3>3. f[s.at + k] = sent[s.packet][k]
      BY <3>2 DEF Flow, Placed, Lies
    <3> QED BY <1>1, <3>2, <3>3
  <2>3. \E r \in all : r.at = EndOf(s, sent)
    <3>1. EndOf(s, sent) = Len(f) \/ \E r \in places : r.at = EndOf(s, sent)
      BY <1>1 DEF Flow, Followed
    <3> QED BY <1>2, <3>1
  <2> HIDE DEF g, n, new, all
  <2> QED BY <1>1, <2>1, <2>2, <2>3 DEF Placed, Followed
<1>5. \E s \in all : s.at = next
  <2>1. next = Len(f) \/ \E s \in places : s.at = next
    BY <1>1 DEF Flow
  <2> QED BY <1>2, <2>1
<1> HIDE DEF g, n, new
<1> QED BY <1>3, <1>4, <1>5 DEF Flow, g, n, new

\* The sender pushes the next words of its packet.
LEMMA FlowSent ==
  ASSUME NEW W, NEW sent, \A p \in DOMAIN sent : sent[p] \in Seq(W),
         NEW f \in Seq(W), NEW left \in Nat, NEW next \in Int, NEW places, Flow(f, left, next, places, sent),
         NEW ws \in Seq(W), Len(ws) <= left,
         \A s \in places : EndOf(s, sent) > Len(f) =>
           \A i \in 1 .. Len(ws) : ws[i] = sent[s.packet][Len(f) - s.at + i]
  PROVE  Flow(f \o ws, left - Len(ws), next, places, sent)
<1> DEFINE g == f \o ws
           n == left - Len(ws)
<1>1. /\ Len(f) \in Nat /\ Len(ws) \in Nat /\ n \in Nat
      /\ Len(g) = Len(f) + Len(ws) /\ Len(g) + n = Len(f) + left
      /\ \A i \in 1 .. Len(f) : g[i] = f[i]
      /\ \A i \in 1 .. Len(ws) : g[Len(f) + i] = ws[i]
  OBVIOUS
<1>2. ASSUME NEW s \in places PROVE Placed(g, n, s, sent) /\ Followed(g, n, s, sent, places)
  <2>1. /\ s.packet \in DOMAIN sent /\ s.at \in Int /\ Len(sent[s.packet]) \in Nat
        /\ EndOf(s, sent) <= Len(f) \/ EndOf(s, sent) = Len(f) + left
        /\ EndOf(s, sent) \in Int
    BY <1>1 DEF Flow, Placed, EndOf
  <2>2. Lies(g, s, sent)
    <3>1. SUFFICES ASSUME NEW k \in 1 .. Len(sent[s.packet]), s.at + k \in 1 .. Len(g)
                   PROVE  g[s.at + k] = sent[s.packet][k]
      BY DEF Lies
    <3>2. CASE s.at + k \in 1 .. Len(f)
      <4>1. f[s.at + k] = sent[s.packet][k]
        BY <3>2 DEF Flow, Placed, Lies
      <4> QED BY <1>1, <3>2, <4>1
    <3>3. CASE s.at + k \notin 1 .. Len(f)
      <4> DEFINE i == s.at + k - Len(f)
      <4>1. /\ i \in 1 .. Len(ws) /\ EndOf(s, sent) > Len(f) /\ Len(f) - s.at + i = k
            /\ Len(f) + i = s.at + k
        BY <1>1, <2>1, <3>1, <3>3, SMTT(40) DEF EndOf
      <4>2. ws[i] = sent[s.packet][Len(f) - s.at + i]
        BY <4>1
      <4>3. g[Len(f) + i] = ws[i]
        BY <1>1, <4>1
      <4> QED BY <4>1, <4>2, <4>3
    <3> QED BY <3>2, <3>3
  <2>3. Followed(f, left, s, sent, places)
    BY DEF Flow
  <2> HIDE DEF g, n
  <2> QED BY <1>1, <2>1, <2>2, <2>3 DEF Placed, Followed
<1>3. next = Len(f) + left \/ \E s \in places : s.at = next
  BY DEF Flow
<1> HIDE DEF g, n
<1> QED BY <1>1, <1>2, <1>3 DEF Flow, g, n

\* The receiver takes words.
LEMMA FlowTaken ==
  ASSUME NEW W, NEW sent, \A p \in DOMAIN sent : sent[p] \in Seq(W),
         NEW f \in Seq(W), NEW left \in Nat, NEW next \in Int, NEW places, Flow(f, left, next, places, sent),
         NEW n \in 0 .. Len(f)
  PROVE  Flow(SubSeq(f, n + 1, Len(f)), left, next - n, Earlier(places, n), sent)
<1> DEFINE g   == SubSeq(f, n + 1, Len(f))
           all == Earlier(places, n)
<1>1. /\ Len(f) \in Nat /\ n \in Nat /\ Len(g) = Len(f) - n
      /\ \A i \in 1 .. Len(f) - n : g[i] = f[n + i]
  OBVIOUS
<1>2. ASSUME NEW r \in all PROVE Placed(g, left, r, sent) /\ Followed(g, left, r, sent, all)
  <2>1. PICK s \in places : r = [at |-> s.at - n, packet |-> s.packet]
    BY DEF Earlier
  <2>2. /\ s.packet \in DOMAIN sent /\ s.at \in Int /\ Len(sent[s.packet]) \in Nat
        /\ EndOf(s, sent) <= Len(f) \/ EndOf(s, sent) = Len(f) + left
        /\ EndOf(s, sent) \in Int
    <3>1. Placed(f, left, s, sent)
      BY DEF Flow
    <3>2. Len(sent[s.packet]) \in Nat
      BY <3>1 DEF Placed
    <3> QED BY <3>1, <3>2 DEF Placed, EndOf
  <2>3. r.packet = s.packet /\ r.at = s.at - n /\ EndOf(r, sent) = EndOf(s, sent) - n
    BY <1>1, <2>1, <2>2 DEF EndOf
  <2>4. Lies(g, r, sent)
    <3>1. SUFFICES ASSUME NEW k \in 1 .. Len(sent[s.packet]), r.at + k \in 1 .. Len(g)
                   PROVE  g[r.at + k] = sent[s.packet][k]
      BY <2>3 DEF Lies
    <3>2. s.at + k \in 1 .. Len(f) /\ n + (r.at + k) = s.at + k /\ r.at + k \in 1 .. Len(f) - n
      BY <1>1, <2>2, <2>3, <3>1, SMTT(40)
    <3>3. f[s.at + k] = sent[s.packet][k]
      BY <3>2 DEF Flow, Placed, Lies
    <3> QED BY <1>1, <3>2, <3>3
  <2>5. EndOf(r, sent) = Len(g) + left \/ \E q \in all : q.at = EndOf(r, sent)
    <3>1. CASE EndOf(s, sent) = Len(f) + left
      <4> HIDE DEF g
      <4> QED BY <1>1, <2>2, <2>3, <3>1
    <3>2. CASE \E q \in places : q.at = EndOf(s, sent)
      <4>1. PICK q \in places : q.at = EndOf(s, sent)
        BY <3>2
      <4>2. [at |-> q.at - n, packet |-> q.packet] \in all
        BY DEF Earlier
      <4> HIDE DEF all
      <4> QED BY <2>3, <4>1, <4>2
    <3> QED BY <3>1, <3>2 DEF Flow, Followed
  <2> HIDE DEF g, all
  <2> QED BY <1>1, <2>2, <2>3, <2>4, <2>5 DEF Placed, Followed
<1>3. next - n = Len(g) + left \/ \E r \in all : r.at = next - n
  <2>1. CASE next = Len(f) + left
    <3> HIDE DEF g
    <3> QED BY <1>1, <2>1
  <2>2. CASE \E s \in places : s.at = next
    <3>1. PICK s \in places : s.at = next
      BY <2>2
    <3>2. [at |-> s.at - n, packet |-> s.packet] \in all
      BY DEF Earlier
    <3> HIDE DEF all
    <3> QED BY <3>1, <3>2
  <2> QED BY <2>1, <2>2 DEF Flow
<1> HIDE DEF g, all
<1> QED BY <1>2, <1>3 DEF Flow, g, all

\* A receiver that looks for a tag, and finds words, finds a packet.
LEMMA FlowBegins ==
  ASSUME NEW W, NEW sent, \A p \in DOMAIN sent : sent[p] \in Seq(W),
         NEW f \in Seq(W), Len(f) > 0, NEW left \in Nat, NEW places, Flow(f, left, 0, places, sent)
  PROVE  \E s \in places :
           /\ s.packet \in DOMAIN sent /\ s.at = 0
           /\ Flow(f, left, Len(sent[s.packet]), places, sent)
           /\ \A k \in 1 .. Len(sent[s.packet]) : k <= Len(f) => f[k] = sent[s.packet][k]
<1>1. Len(f) \in Nat
  OBVIOUS
<1>2. PICK s \in places : s.at = 0
  BY <1>1 DEF Flow
<1>3. Placed(f, left, s, sent) /\ Followed(f, left, s, sent, places)
  BY DEF Flow
<1>4. s.packet \in DOMAIN sent /\ Len(sent[s.packet]) \in Nat
  BY <1>3 DEF Placed
<1>5. EndOf(s, sent) = Len(sent[s.packet])
  BY <1>2, <1>4 DEF EndOf
<1>6. Flow(f, left, Len(sent[s.packet]), places, sent)
  BY <1>3, <1>5 DEF Flow, Followed
<1>7. \A k \in 1 .. Len(sent[s.packet]) : k <= Len(f) => f[k] = sent[s.packet][k]
  BY <1>1, <1>2, <1>3, <1>4 DEF Placed, Lies
<1> QED BY <1>2, <1>4, <1>6, <1>7

-----------------------------------------------------------------------------
(* The two directions.                                                     *)

\* The words of each packet as the FIFO carries them: a quadword with the IOP's tag and
\* the data, or two words with the EE's tag and the data.
Sent1 ==
  [p \in Sif1Packets |->
     [k \in 1 .. 4 + p.size |-> EeMemory[p.src - 1 + (k - 1) \div 4][((k - 1) % 4) + 1]]]
Sent0 ==
  [p \in Sif0Packets |->
     [k \in 1 .. 2 + 4 * p.qwc |->
        IF k <= 2 THEN IopMemory[p.tadr + 1 + k] ELSE IopMemory[p.src + k - 3]]]

\* The sender stands in its memory where the FIFO ends.
Sends1(places) ==
  \A s \in places : EndOf(s, Sent1) > Len(sif1_fifo) =>
    s.at <= Len(sif1_fifo) /\ 4 * (chan[EE!SIF1].madr - (s.packet.src - 1)) = Len(sif1_fifo) - s.at
Sends0(places) ==
  \A s \in places : EndOf(s, Sent0) > Len(sif0_fifo) =>
    s.at + 2 <= Len(sif0_fifo) /\ ichan[IOP!SIF0].addr - s.packet.src = Len(sif0_fifo) - s.at - 2

\* The receiver has in memory what it took of its packet.
Takes1(places) ==
  LET c == ichan[IOP!SIF1]
  IN c.count > 0 \/ c.end =>
       \E s \in places :
         /\ EndOf(s, Sent1) = c.count /\ c.count <= s.packet.size
         /\ c.addr + c.count = s.packet.dest + s.packet.size
         /\ \A k \in 0 .. s.packet.size - c.count - 1 :
              iram[s.packet.dest + k] = Sent1[s.packet][5 + k]
Takes0(places) ==
  LET c == chan[EE!SIF0]
  IN c.qwc > 0 \/ c.end =>
       \E s \in places :
         /\ EndOf(s, Sent0) = 4 * c.qwc /\ c.qwc <= s.packet.qwc
         /\ c.madr + c.qwc = s.packet.dest + s.packet.qwc
         /\ \A j \in 0 .. s.packet.qwc - c.qwc - 1 : \A i \in 1 .. 4 :
              ram[s.packet.dest + j][i] = Sent0[s.packet][2 + 4 * j + i]

Flow1(places) ==
  /\ Flow(sif1_fifo, 4 * chan[EE!SIF1].qwc, ichan[IOP!SIF1].count, places, Sent1)
  /\ Sends1(places) /\ Takes1(places)
Flow0(places) ==
  /\ Flow(sif0_fifo, ichan[IOP!SIF0].count, 4 * chan[EE!SIF0].qwc, places, Sent0)
  /\ Sends0(places) /\ Takes0(places)

\* Only the channels of the SIF run.
OnlySif ==
  /\ \A id \in EE!Channels : chan[id].running => id \in {EE!SIF0, EE!SIF1}
  /\ \A id \in IOP!Channels : ichan[id].running => id \in {IOP!SIF0, IOP!SIF1}

\* A sender that goes on has a packet before it.
GoesOn ==
  /\ chan[EE!SIF1].running =>
       chan[EE!SIF1].tie /\ (~chan[EE!SIF1].end => \E p \in Sif1Packets : chan[EE!SIF1].tadr = p.tadr)
  /\ ichan[IOP!SIF0].running =>
       ichan[IOP!SIF0].bit8 /\ (~ichan[IOP!SIF0].end => \E p \in Sif0Packets : ichan[IOP!SIF0].tadr = p.tadr)

\* What is to be sent lies in memory as it was.
MemoryKept ==
  /\ \A p \in Sif1Packets : \A a \in Sif1Area(p) : ram[a] = EeMemory[a]
  /\ \A p \in Sif0Packets : \A a \in Sif0Area(p) : iram[a] = IopMemory[a]

Controllers == TypeOK /\ packets \in Traffic /\ OnlySif /\ GoesOn /\ MemoryKept
LinkInv == Controllers /\ (\E places : Flow1(places)) /\ (\E places : Flow0(places))

\* A quadword is a sequence of four words.
LEMMA QuadwordIsSeq ==
  ASSUME NEW q \in EE!Qword
  PROVE  q \in Seq(Word) /\ Len(q) = 4
<1>1. q = [i \in 1 .. 4 |-> q[i]] /\ \A i \in 1 .. 4 : q[i] \in Word
  BY DEF EE!Qword
<1> QED BY <1>1

\* Four words off the front of a FIFO are a quadword.
LEMMA FourWords ==
  ASSUME NEW f \in Seq(Word), Len(f) >= 4
  PROVE  /\ SubSeq(f, 1, 4) \in EE!Qword
         /\ \A i \in 1 .. 4 : i \in 1 .. Len(f) /\ SubSeq(f, 1, 4)[i] = f[i]
<1>1. /\ SubSeq(f, 1, 4) \in Seq(Word) /\ Len(SubSeq(f, 1, 4)) = 4
      /\ \A i \in 1 .. 4 : i \in 1 .. Len(f) /\ SubSeq(f, 1, 4)[i] = f[i]
  OBVIOUS
<1> QED BY <1>1, LenProperties DEF EE!Qword

LEMMA WordsQueued ==
  ASSUME NEW W, NEW f \in Seq(W), NEW q \in Seq(W)
  PROVE  Len(f \o q) = Len(f) + Len(q)
OBVIOUS

\* Where in its packet the EE stands.
LEMMA Stands1 ==
  ASSUME NEW len \in Nat, NEW at \in Int, at <= len, NEW size \in Nat, NEW qwc \in Nat, qwc > 0,
         NEW tag \in Nat, 4 * tag = 4 + size, NEW madr \in Nat, NEW src \in Nat, NEW i \in 1 .. 4,
         at + 4 + size = len + 4 * qwc, 4 * (madr - (src - 1)) = len - at
  PROVE  /\ madr - (src - 1) \in Nat /\ 4 * (madr - (src - 1)) + i <= 4 + size
         /\ madr - (src - 1) <= tag - 1 /\ src - 1 + (madr - (src - 1)) = madr
OBVIOUS

\* The words of a packet to the IOP, quadword by quadword.
LEMMA Sent1Words ==
  ASSUME packets \in Traffic
  PROVE  /\ DOMAIN Sent1 = Sif1Packets
         /\ \A p \in Sif1Packets :
              /\ Sif1Legal(p, Sif1Packets)
              /\ Sent1[p] \in Seq(Word) /\ Len(Sent1[p]) = 4 + p.size
              /\ \A j \in Nat, i \in 1 .. 4 :
                   4 * j + i <= 4 + p.size => Sent1[p][4 * j + i] = EeMemory[p.src - 1 + j][i]
<1>1. \A p \in Sif1Packets : Sif1Legal(p, Sif1Packets)
  BY TrafficAssumption DEF Sif1Packets
<1>2. SUFFICES ASSUME NEW p \in Sif1Packets
               PROVE  /\ Sent1[p] \in Seq(Word) /\ Len(Sent1[p]) = 4 + p.size
                      /\ \A j \in Nat, i \in 1 .. 4 :
                           4 * j + i <= 4 + p.size => Sent1[p][4 * j + i] = EeMemory[p.src - 1 + j][i]
  BY <1>1 DEF Sent1
<1>3. /\ p.src \in Nat \ {0} /\ p.size \in Nat /\ Sif1Tag(p).qwc \in Int
      /\ p.src - 1 + Sif1Tag(p).qwc <= RamQwords /\ 4 * Sif1Tag(p).qwc = 4 + p.size
  <2>1. /\ p.src \in Nat \ {0} /\ p.size \in 0 .. CountLimit - 1
        /\ p.src - 1 + Sif1Tag(p).qwc <= RamQwords /\ 4 * Sif1Tag(p).qwc = 4 + p.size
    BY <1>1 DEF Sif1Legal
  <2>2. p.size \in Nat
    BY <2>1, TypesAssumption
  <2>3. Sif1Tag(p).qwc \in Int
    <3>1. p.tadr \in EE!Address
      BY <1>1 DEF Sif1Legal
    <3>2. EeMemory[p.tadr][1] \in Word /\ EeMemory[p.tadr][2] \in Word
      BY <3>1, TypesAssumption DEF EE!Qword
    <3>3. Sif1Tag(p) \in EE!DmaTag
      BY <3>2, TypesAssumption DEF Sif1Tag
    <3> QED BY <3>3 DEF EE!DmaTag
  <2> QED BY <2>1, <2>2, <2>3
<1> DEFINE n == 4 + p.size
           w(k) == EeMemory[p.src - 1 + (k - 1) \div 4][((k - 1) % 4) + 1]
<1>4. n \in Nat /\ Sent1[p] = [k \in 1 .. n |-> w(k)]
  BY <1>3 DEF Sent1
<1>5. ASSUME NEW k \in 1 .. n PROVE w(k) \in Word
  <2>1. (k - 1) \div 4 \in 0 .. Sif1Tag(p).qwc - 1 /\ (k - 1) % 4 \in 0 .. 3
    BY <1>3
  <2>2. p.src - 1 + (k - 1) \div 4 \in EE!Address /\ ((k - 1) % 4) + 1 \in 1 .. 4
    BY <1>3, <2>1, TypesAssumption DEF EE!Address
  <2> QED BY <2>2, TypesAssumption DEF EE!Qword
<1>6. ASSUME NEW j \in Nat, NEW i \in 1 .. 4, 4 * j + i <= n
      PROVE  Sent1[p][4 * j + i] = EeMemory[p.src - 1 + j][i]
  <2>1. 4 * j + i \in 1 .. n /\ (4 * j + i - 1) \div 4 = j /\ (4 * j + i - 1) % 4 = i - 1
    <3>1. 4 * j + i \in 1 .. n
      BY <1>4, <1>6
    <3>2. i = 1 \/ i = 2 \/ i = 3 \/ i = 4
      OBVIOUS
    <3>3. /\ (4 * j) \div 4 = j /\ (4 * j + 1) \div 4 = j /\ (4 * j + 2) \div 4 = j /\ (4 * j + 3) \div 4 = j
          /\ (4 * j) % 4 = 0 /\ (4 * j + 1) % 4 = 1 /\ (4 * j + 2) % 4 = 2 /\ (4 * j + 3) % 4 = 3
      OBVIOUS
    <3>4. 4 * j + 1 - 1 = 4 * j /\ 4 * j + 2 - 1 = 4 * j + 1 /\ 4 * j + 3 - 1 = 4 * j + 2
          /\ 4 * j + 4 - 1 = 4 * j + 3
      OBVIOUS
    <3> QED BY <3>1, <3>2, <3>3, <3>4
  <2>2. Sent1[p][4 * j + i] = w(4 * j + i)
    <3> HIDE DEF w
    <3> QED BY <1>4, <2>1
  <2>3. w(4 * j + i) = EeMemory[p.src - 1 + j][(i - 1) + 1]
    BY <2>1
  <2> QED BY <2>2, <2>3
<1>7. Sent1[p] \in Seq(Word) /\ Len(Sent1[p]) = n
  <2> HIDE DEF w, n
  <2> QED BY <1>4, <1>5
<1> QED BY <1>6, <1>7

\* The words of a packet to the EE.
LEMMA Sent0Words ==
  ASSUME packets \in Traffic
  PROVE  /\ DOMAIN Sent0 = Sif0Packets
         /\ \A p \in Sif0Packets :
              /\ Sif0Legal(p, Sif0Packets)
              /\ Sent0[p] \in Seq(Word) /\ Len(Sent0[p]) = 2 + 4 * p.qwc
              /\ Sent0[p][1] = IopMemory[p.tadr + 2] /\ Sent0[p][2] = IopMemory[p.tadr + 3]
              /\ \A k \in 1 .. 4 * p.qwc : Sent0[p][2 + k] = IopMemory[p.src + k - 1]
<1>1. \A p \in Sif0Packets : Sif0Legal(p, Sif0Packets)
  BY TrafficAssumption DEF Sif0Packets
<1>2. SUFFICES ASSUME NEW p \in Sif0Packets
               PROVE  /\ Sent0[p] \in Seq(Word) /\ Len(Sent0[p]) = 2 + 4 * p.qwc
                      /\ Sent0[p][1] = IopMemory[p.tadr + 2] /\ Sent0[p][2] = IopMemory[p.tadr + 3]
                      /\ \A k \in 1 .. 4 * p.qwc : Sent0[p][2 + k] = IopMemory[p.src + k - 1]
  BY <1>1 DEF Sent0
<1>3. /\ p.src \in Nat /\ p.tadr \in Nat /\ p.qwc \in Nat /\ IopRamWords \in Nat
      /\ p.tadr + 3 < IopRamWords /\ p.src + 4 * p.qwc <= IopRamWords
  BY <1>1, TypesAssumption DEF Sif0Legal
<1> DEFINE n == 2 + 4 * p.qwc
           w(k) == IF k <= 2 THEN IopMemory[p.tadr + 1 + k] ELSE IopMemory[p.src + k - 3]
<1>4. n \in Nat /\ Sent0[p] = [k \in 1 .. n |-> w(k)]
  BY <1>3 DEF Sent0
<1>5. ASSUME NEW k \in 1 .. n PROVE w(k) \in Word
  <2>1. IF k <= 2 THEN p.tadr + 1 + k \in IOP!Address ELSE p.src + k - 3 \in IOP!Address
    BY <1>3 DEF IOP!Address
  <2> QED BY <2>1, TypesAssumption
<1>6. Sent0[p] \in Seq(Word) /\ Len(Sent0[p]) = n
  <2> HIDE DEF w, n
  <2> QED BY <1>4, <1>5
<1>7. 1 \in 1 .. n /\ 2 \in 1 .. n /\ \A k \in 1 .. 4 * p.qwc : 2 + k \in 1 .. n /\ ~(2 + k <= 2)
  BY <1>3
<1>8. Sent0[p][1] = w(1) /\ Sent0[p][2] = w(2)
      /\ \A k \in 1 .. 4 * p.qwc : Sent0[p][2 + k] = w(2 + k)
  <2> HIDE DEF w, n
  <2> QED BY <1>4, <1>7
<1>9. w(1) = IopMemory[p.tadr + 2] /\ w(2) = IopMemory[p.tadr + 3]
  <2>1. p.tadr + 1 + 1 = p.tadr + 2 /\ p.tadr + 1 + 2 = p.tadr + 3
    BY <1>3
  <2> QED BY <2>1
<1>10. ASSUME NEW k \in 1 .. 4 * p.qwc PROVE w(2 + k) = IopMemory[p.src + k - 1]
  <2>1. p.src + (2 + k) - 3 = p.src + k - 1 /\ ~(2 + k <= 2)
    BY <1>3
  <2> QED BY <2>1
<1> HIDE DEF w
<1> QED BY <1>6, <1>8, <1>9, <1>10

-----------------------------------------------------------------------------
(* Steps that move no word.                                                *)

\* A direction that nothing touches stays as it is.
LEMMA Flow1Kept ==
  ASSUME packets' = packets, sif1_fifo' = sif1_fifo, iram' = iram,
         chan'[EE!SIF1].qwc = chan[EE!SIF1].qwc, chan'[EE!SIF1].madr = chan[EE!SIF1].madr,
         ichan'[IOP!SIF1].count = ichan[IOP!SIF1].count, ichan'[IOP!SIF1].addr = ichan[IOP!SIF1].addr,
         ichan'[IOP!SIF1].end => ichan[IOP!SIF1].end,
         \E places : Flow1(places)
  PROVE  (\E places : Flow1(places))'
<1>1. PICK places : Flow1(places)
  OBVIOUS
<1>2. Sent1' = Sent1
  BY DEF Sent1, Sif1Packets
<1>3. Flow(sif1_fifo, 4 * chan[EE!SIF1].qwc, ichan[IOP!SIF1].count, places, Sent1)'
  BY <1>1, <1>2 DEF Flow1, Flow, Placed, Followed, Lies, EndOf
<1>4. Sends1(places)'
  BY <1>1, <1>2 DEF Flow1, Sends1, EndOf
<1>5. Takes1(places)'
  BY <1>1, <1>2 DEF Flow1, Takes1, EndOf
<1>6. Flow1(places)'
  BY <1>3, <1>4, <1>5 DEF Flow1
<1> QED BY <1>6

LEMMA Flow0Kept ==
  ASSUME packets' = packets, sif0_fifo' = sif0_fifo, ram' = ram,
         ichan'[IOP!SIF0].count = ichan[IOP!SIF0].count, ichan'[IOP!SIF0].addr = ichan[IOP!SIF0].addr,
         chan'[EE!SIF0].qwc = chan[EE!SIF0].qwc, chan'[EE!SIF0].madr = chan[EE!SIF0].madr,
         chan'[EE!SIF0].end => chan[EE!SIF0].end,
         \E places : Flow0(places)
  PROVE  (\E places : Flow0(places))'
<1>1. PICK places : Flow0(places)
  OBVIOUS
<1>2. Sent0' = Sent0
  BY DEF Sent0, Sif0Packets
<1>3. Flow(sif0_fifo, ichan[IOP!SIF0].count, 4 * chan[EE!SIF0].qwc, places, Sent0)'
  BY <1>1, <1>2 DEF Flow0, Flow, Placed, Followed, Lies, EndOf
<1>4. Sends0(places)'
  BY <1>1, <1>2 DEF Flow0, Sends0, EndOf
<1>5. Takes0(places)'
  BY <1>1, <1>2 DEF Flow0, Takes0, EndOf
<1>6. Flow0(places)'
  BY <1>3, <1>4, <1>5 DEF Flow0
<1> QED BY <1>6

\* What an EE step does to one channel, and leaves of the others.
LEMMA EeChannel ==
  ASSUME chan \in [EE!Channels -> EE!Channel], NEW id \in EE!Channels, NEW c \in EE!Channel,
         chan' = [chan EXCEPT ![id] = c]
  PROVE  /\ chan' \in [EE!Channels -> EE!Channel]
         /\ chan'[id] = c
         /\ \A other \in EE!Channels \ {id} : chan'[other] = chan[other]
OBVIOUS

LEMMA IopChannel ==
  ASSUME ichan \in [IOP!Channels -> IOP!Channel], NEW id \in IOP!Channels, NEW c \in IOP!Channel,
         ichan' = [ichan EXCEPT ![id] = c]
  PROVE  /\ ichan' \in [IOP!Channels -> IOP!Channel]
         /\ ichan'[id] = c
         /\ \A other \in IOP!Channels \ {id} : ichan'[other] = ichan[other]
OBVIOUS

\* The four channels of the SIF.
LEMMA SifChannels ==
  /\ EE!SIF0 \in EE!Channels /\ EE!SIF1 \in EE!Channels /\ EE!SIF0 # EE!SIF1
  /\ IOP!SIF0 \in IOP!Channels /\ IOP!SIF1 \in IOP!Channels /\ IOP!SIF0 # IOP!SIF1
BY DEF EE!SIF0, EE!SIF1, EE!Channels, IOP!SIF0, IOP!SIF1, IOP!Channels

\* A step of the programs, or the end of a transfer.
LEMMA QuietStep ==
  ASSUME LinkInv, UNCHANGED <<packets, sif0_fifo, sif1_fifo, ram, iram>>,
         TypeOK', OnlySif', GoesOn',
         \A id \in {EE!SIF0, EE!SIF1} :
           /\ chan'[id].qwc = chan[id].qwc /\ chan'[id].madr = chan[id].madr
           /\ chan'[id].end => chan[id].end,
         \A id \in {IOP!SIF0, IOP!SIF1} :
           /\ ichan'[id].count = ichan[id].count /\ ichan'[id].addr = ichan[id].addr
           /\ ichan'[id].end => ichan[id].end
  PROVE  LinkInv'
<1>1. (\E places : Flow1(places))'
  BY Flow1Kept DEF LinkInv
<1>2. (\E places : Flow0(places))'
  BY Flow0Kept DEF LinkInv
<1>3. MemoryKept'
  BY DEF LinkInv, Controllers, MemoryKept, Sif1Packets, Sif0Packets
<1>4. packets' \in Traffic
  BY DEF LinkInv, Controllers
<1>5. Controllers'
  BY <1>3, <1>4 DEF Controllers
<1> QED BY <1>1, <1>2, <1>5 DEF LinkInv

\* A channel of the EE's SIF is set up, or stops.
LEMMA EeSetsUp ==
  ASSUME LinkInv, NEW id \in {EE!SIF0, EE!SIF1}, NEW c \in EE!Channel,
         chan' = [chan EXCEPT ![id] = c],
         c.qwc = chan[id].qwc, c.madr = chan[id].madr, c.end => chan[id].end,
         id = EE!SIF1 /\ c.running =>
           c.tie /\ (~c.end => \E p \in Sif1Packets : c.tadr = p.tadr),
         irq' \subseteq EE!Channels, ip1_pending' \in BOOLEAN,
         UNCHANGED <<iopOnly, packets, irq_mask, suspended, ram, vif_fifo, gif_fifo,
                     sif0_fifo, sif1_fifo, halted>>
  PROVE  LinkInv'
<1>1. EE!TypeOK /\ IOP!TypeOK /\ OnlySif /\ GoesOn
  BY DEF LinkInv, Controllers, TypeOK
<1>2. id \in EE!Channels /\ EE!SIF0 \in EE!Channels /\ EE!SIF1 \in EE!Channels
  BY SifChannels
<1>3. /\ chan' \in [EE!Channels -> EE!Channel] /\ chan'[id] = c
      /\ \A other \in EE!Channels \ {id} : chan'[other] = chan[other]
  BY <1>1, <1>2, EeChannel DEF EE!TypeOK
<1>4. UNCHANGED <<ichan, enabled, flags, mask, dma_intr, iram, spu_ready, sio2_fifo>>
  BY DEF iopOnly
<1>5. TypeOK'
  <2>1. EE!TypeOK'
    BY <1>1, <1>3 DEF EE!TypeOK
  <2>2. IOP!TypeOK'
    BY <1>1, <1>4 DEF IOP!TypeOK
  <2> QED BY <2>1, <2>2 DEF TypeOK
<1>6. OnlySif'
  BY <1>1, <1>3, <1>4 DEF OnlySif
<1>7. GoesOn'
  <2>1. Sif1Packets' = Sif1Packets /\ Sif0Packets' = Sif0Packets
    BY DEF Sif1Packets, Sif0Packets
  <2>2. chan'[EE!SIF1] = IF id = EE!SIF1 THEN c ELSE chan[EE!SIF1]
    BY <1>2, <1>3
  <2> QED BY <1>1, <1>4, <2>1, <2>2 DEF GoesOn
<1>8. \A i \in {EE!SIF0, EE!SIF1} :
        /\ chan'[i].qwc = chan[i].qwc /\ chan'[i].madr = chan[i].madr
        /\ chan'[i].end => chan[i].end
  BY <1>2, <1>3
<1>9. \A i \in {IOP!SIF0, IOP!SIF1} :
        /\ ichan'[i].count = ichan[i].count /\ ichan'[i].addr = ichan[i].addr
        /\ ichan'[i].end => ichan[i].end
  BY <1>4
<1> QED BY <1>4, <1>5, <1>6, <1>7, <1>8, <1>9, QuietStep

\* And one of the IOP's.
LEMMA IopSetsUp ==
  ASSUME LinkInv, NEW id \in {IOP!SIF0, IOP!SIF1}, NEW c \in IOP!Channel,
         ichan' = [ichan EXCEPT ![id] = c],
         c.count = ichan[id].count, c.addr = ichan[id].addr, c.end => ichan[id].end,
         id = IOP!SIF0 /\ c.running =>
           c.bit8 /\ (~c.end => \E p \in Sif0Packets : c.tadr = p.tadr),
         flags' \subseteq IOP!Channels, dma_intr' \in BOOLEAN, spu_ready' \in BOOLEAN,
         UNCHANGED <<eeOnly, packets, enabled, mask, iram, sio2_fifo, sif0_fifo, sif1_fifo, halted>>
  PROVE  LinkInv'
<1>1. EE!TypeOK /\ IOP!TypeOK /\ OnlySif /\ GoesOn
  BY DEF LinkInv, Controllers, TypeOK
<1>2. id \in IOP!Channels /\ IOP!SIF0 \in IOP!Channels /\ IOP!SIF1 \in IOP!Channels
  BY SifChannels
<1>3. /\ ichan' \in [IOP!Channels -> IOP!Channel] /\ ichan'[id] = c
      /\ \A other \in IOP!Channels \ {id} : ichan'[other] = ichan[other]
  BY <1>1, <1>2, IopChannel DEF IOP!TypeOK
<1>4. UNCHANGED <<chan, irq, irq_mask, suspended, ip1_pending, ram, vif_fifo, gif_fifo>>
  BY DEF eeOnly
<1>5. TypeOK'
  <2>1. EE!TypeOK'
    BY <1>1, <1>4 DEF EE!TypeOK
  <2>2. IOP!TypeOK'
    BY <1>1, <1>3 DEF IOP!TypeOK
  <2> QED BY <2>1, <2>2 DEF TypeOK
<1>6. OnlySif'
  BY <1>1, <1>3, <1>4 DEF OnlySif
<1>7. GoesOn'
  <2>1. Sif1Packets' = Sif1Packets /\ Sif0Packets' = Sif0Packets
    BY DEF Sif1Packets, Sif0Packets
  <2>2. ichan'[IOP!SIF0] = IF id = IOP!SIF0 THEN c ELSE ichan[IOP!SIF0]
    BY <1>2, <1>3
  <2> QED BY <1>1, <1>4, <2>1, <2>2 DEF GoesOn
<1>8. \A i \in {IOP!SIF0, IOP!SIF1} :
        /\ ichan'[i].count = ichan[i].count /\ ichan'[i].addr = ichan[i].addr
        /\ ichan'[i].end => ichan[i].end
  BY <1>2, <1>3
<1>9. \A i \in {EE!SIF0, EE!SIF1} :
        /\ chan'[i].qwc = chan[i].qwc /\ chan'[i].madr = chan[i].madr
        /\ chan'[i].end => chan[i].end
  BY <1>4
<1> QED BY <1>4, <1>5, <1>6, <1>7, <1>8, <1>9, QuietStep

\* The EE's program.
LEMMA EeProgramInv ==
  ASSUME LinkInv, EeSends \/ EeListens \/ EeAcknowledges, UNCHANGED <<iopOnly, packets>>
  PROVE  LinkInv'
<1>1. /\ EE!TypeOK /\ IOP!TypeOK /\ OnlySif /\ GoesOn /\ packets \in Traffic
      /\ chan \in [EE!Channels -> EE!Channel]
  BY DEF LinkInv, Controllers, TypeOK, EE!TypeOK
<1>2. EE!SIF0 \in EE!Channels /\ EE!SIF1 \in EE!Channels /\ EE!SIF0 # EE!SIF1
  BY SifChannels
<1>3. ASSUME NEW p \in Sif1Packets, ~chan[EE!SIF1].running, EE!WriteTadr(EE!SIF1, p.tadr)
      PROVE  LinkInv'
  <2>1. p.tadr \in Nat
    <3>1. p.tadr \in EE!Address
      BY <1>1, Sent1Words DEF Sif1Legal
    <3> QED BY <3>1, TypesAssumption DEF EE!Address
  <2> DEFINE d == [chan[EE!SIF1] EXCEPT !.tadr = p.tadr]
  <2>2. d \in EE!Channel
    BY <1>1, <1>2, <2>1 DEF EE!Channel
  <2>3. chan' = [chan EXCEPT ![EE!SIF1] = d]
    BY <1>1, <1>3, <1>2 DEF EE!WriteTadr
  <2>4. /\ d.qwc = chan[EE!SIF1].qwc /\ d.madr = chan[EE!SIF1].madr /\ d.end = chan[EE!SIF1].end
        /\ ~d.running
    BY <1>1, <1>3, <1>2 DEF EE!Channel
  <2>5. /\ UNCHANGED <<irq_mask, suspended, ram, vif_fifo, gif_fifo, sif0_fifo, sif1_fifo, halted>>
        /\ irq' \subseteq EE!Channels /\ ip1_pending' \in BOOLEAN
    BY <1>1, <1>3 DEF EE!WriteTadr, EE!fifos, EE!TypeOK
  <2> HIDE DEF d
  <2> QED BY <2>2, <2>3, <2>4, <2>5, EeSetsUp
<1>4. ASSUME NEW id \in {EE!SIF0, EE!SIF1}, EE!WriteChcr(id, EeChain),
             id = EE!SIF1 => \E p \in Sif1Packets : chan[EE!SIF1].tadr = p.tadr
      PROVE  LinkInv'
  <2>1. id \in EE!Channels /\ chan[id] \in EE!Channel
    BY <1>1, <1>2
  <2> DEFINE d == [chan[id] EXCEPT !.running = TRUE, !.mode = 1, !.tte = FALSE, !.tie = TRUE]
  <2>2. d \in EE!Channel
    <3>1. d.running \in BOOLEAN /\ d.mode \in 0 .. 3 /\ d.tte \in BOOLEAN /\ d.tie \in BOOLEAN
      BY <2>1 DEF EE!Channel
    <3>2. d.madr = chan[id].madr /\ d.qwc = chan[id].qwc /\ d.tadr = chan[id].tadr /\ d.end = chan[id].end
      BY <2>1 DEF EE!Channel
    <3> QED BY <2>1, <3>1, <3>2 DEF EE!Channel
  <2>3. chan' = [chan EXCEPT ![id] = d]
    BY <1>1, <1>4, <2>1 DEF EE!WriteChcr, EeChain, EE!Channel
  <2>4. /\ d.qwc = chan[id].qwc /\ d.madr = chan[id].madr /\ d.end = chan[id].end
        /\ d.tie /\ d.tadr = chan[id].tadr
    <3>1. /\ d.qwc = chan[id].qwc /\ d.madr = chan[id].madr /\ d.end = chan[id].end
          /\ d.tadr = chan[id].tadr
      BY <2>1 DEF EE!Channel
    <3>2. d.tie
      BY <2>1, Zenon DEF EE!Channel
    <3> QED BY <3>1, <3>2
  <2>5. /\ UNCHANGED <<irq_mask, suspended, ram, vif_fifo, gif_fifo, sif0_fifo, sif1_fifo, halted>>
        /\ irq' \subseteq EE!Channels /\ ip1_pending' \in BOOLEAN
    BY <1>1, <1>4 DEF EE!WriteChcr, EE!fifos, EE!TypeOK
  <2>6. id = EE!SIF1 /\ d.running =>
          d.tie /\ (~d.end => \E p \in Sif1Packets : d.tadr = p.tadr)
    BY <1>4, <2>4
  <2> HIDE DEF d
  <2> QED BY <2>2, <2>3, <2>4, <2>5, <2>6, EeSetsUp
<1>5. ASSUME NEW i \in irq, EE!WriteStat({i}, {})
      PROVE  LinkInv'
  <2>1. UNCHANGED <<chan, suspended, ram, vif_fifo, gif_fifo, sif0_fifo, sif1_fifo, halted>>
    BY <1>5 DEF EE!WriteStat, EE!fifos
  <2>2. UNCHANGED <<ichan, enabled, flags, mask, dma_intr, iram, spu_ready, sio2_fifo>>
    BY DEF iopOnly
  <2>3. TypeOK'
    <3>1. irq' \subseteq EE!Channels /\ irq_mask' \subseteq EE!Channels
      BY <1>1, <1>5 DEF EE!WriteStat, EE!TypeOK
    <3>2. ip1_pending' \in BOOLEAN
      BY <1>5 DEF EE!WriteStat, EE!LowBit
    <3>3. EE!TypeOK'
      BY <1>1, <2>1, <3>1, <3>2 DEF EE!TypeOK
    <3>4. IOP!TypeOK'
      BY <1>1, <2>1, <2>2 DEF IOP!TypeOK
    <3> QED BY <3>3, <3>4 DEF TypeOK
  <2>4. OnlySif' /\ GoesOn'
    BY <1>1, <2>1, <2>2 DEF OnlySif, GoesOn, Sif1Packets, Sif0Packets
  <2> QED BY <2>1, <2>2, <2>3, <2>4, QuietStep
<1>6. CASE EeSends
  <2>1. EE!SIF1 \in {EE!SIF0, EE!SIF1}
    OBVIOUS
  <2> QED BY <1>3, <1>4, <1>6, <2>1, Zenon DEF EeSends
<1>7. CASE EeListens
  <2>1. EE!WriteChcr(EE!SIF0, EeChain) /\ EE!SIF0 \in {EE!SIF0, EE!SIF1}
    BY <1>7 DEF EeListens
  <2> QED BY <1>2, <1>4, <2>1, Zenon
<1> QED BY <1>5, <1>6, <1>7 DEF EeAcknowledges

\* The IOP's program.
LEMMA IopProgramInv ==
  ASSUME LinkInv, IopSends \/ IopListens \/ IopEnables \/ IopAcknowledges, UNCHANGED <<eeOnly, packets>>
  PROVE  LinkInv'
<1>1. /\ EE!TypeOK /\ IOP!TypeOK /\ OnlySif /\ GoesOn /\ packets \in Traffic
      /\ ichan \in [IOP!Channels -> IOP!Channel]
  BY DEF LinkInv, Controllers, TypeOK, IOP!TypeOK
<1>2. IOP!SIF0 \in IOP!Channels /\ IOP!SIF1 \in IOP!Channels /\ IOP!SIF0 # IOP!SIF1
  BY SifChannels
<1>3. ASSUME NEW p \in Sif0Packets, ~ichan[IOP!SIF0].running, IOP!WriteTadr(IOP!SIF0, p.tadr)
      PROVE  LinkInv'
  <2>1. p.tadr \in Nat
    BY <1>1, Sent0Words DEF Sif0Legal
  <2> DEFINE d == [ichan[IOP!SIF0] EXCEPT !.tadr = p.tadr]
  <2>2. d \in IOP!Channel
    BY <1>1, <1>2, <2>1 DEF IOP!Channel
  <2>3. ichan' = [ichan EXCEPT ![IOP!SIF0] = d]
    BY <1>1, <1>3, <1>2 DEF IOP!WriteTadr
  <2>4. /\ d.count = ichan[IOP!SIF0].count /\ d.addr = ichan[IOP!SIF0].addr /\ d.end = ichan[IOP!SIF0].end
        /\ ~d.running
    BY <1>1, <1>3, <1>2 DEF IOP!Channel
  <2>5. /\ UNCHANGED <<enabled, mask, iram, sio2_fifo, sif0_fifo, sif1_fifo, halted>>
        /\ flags' \subseteq IOP!Channels /\ dma_intr' \in BOOLEAN /\ spu_ready' \in BOOLEAN
    BY <1>1, <1>3 DEF IOP!WriteTadr, IOP!Unhalted, IOP!TypeOK
  <2> HIDE DEF d
  <2> QED BY <2>2, <2>3, <2>4, <2>5, IopSetsUp
<1>4. ASSUME NEW id \in {IOP!SIF0, IOP!SIF1}, IOP!WriteChcr(id, IopChain),
             id = IOP!SIF0 => \E p \in Sif0Packets : ichan[IOP!SIF0].tadr = p.tadr
      PROVE  LinkInv'
  <2>1. id \in IOP!Channels /\ ichan[id] \in IOP!Channel
    BY <1>1, <1>2
  <2> DEFINE d == [ichan[id] EXCEPT !.running = TRUE, !.mode = 1, !.bit8 = TRUE]
  <2>2. d \in IOP!Channel
    <3>1. d.running \in BOOLEAN /\ d.mode \in 0 .. 3 /\ d.bit8 \in BOOLEAN
      BY <2>1 DEF IOP!Channel
    <3>2. d.addr = ichan[id].addr /\ d.count = ichan[id].count /\ d.tadr = ichan[id].tadr /\ d.end = ichan[id].end
      BY <2>1 DEF IOP!Channel
    <3> QED BY <2>1, <3>1, <3>2 DEF IOP!Channel
  <2>3. ichan' = [ichan EXCEPT ![id] = d]
    BY <1>1, <1>4, <2>1 DEF IOP!WriteChcr, IopChain, IOP!Channel
  <2>4. /\ d.count = ichan[id].count /\ d.addr = ichan[id].addr /\ d.end = ichan[id].end
        /\ d.bit8 /\ d.tadr = ichan[id].tadr
    <3>1. /\ d.count = ichan[id].count /\ d.addr = ichan[id].addr /\ d.end = ichan[id].end
          /\ d.tadr = ichan[id].tadr
      BY <2>1 DEF IOP!Channel
    <3>2. d.bit8
      BY <2>1, Zenon DEF IOP!Channel
    <3> QED BY <3>1, <3>2
  <2>5. /\ UNCHANGED <<enabled, mask, iram, sio2_fifo, sif0_fifo, sif1_fifo, halted>>
        /\ flags' \subseteq IOP!Channels /\ dma_intr' \in BOOLEAN /\ spu_ready' \in BOOLEAN
    BY <1>1, <1>4 DEF IOP!WriteChcr, IOP!Unhalted, IOP!TypeOK
  <2>6. id = IOP!SIF0 /\ d.running =>
          d.bit8 /\ (~d.end => \E p \in Sif0Packets : d.tadr = p.tadr)
    BY <1>4, <2>4
  <2> HIDE DEF d
  <2> QED BY <2>2, <2>3, <2>4, <2>5, <2>6, IopSetsUp
<1>5. ASSUME IopEnables \/ IopAcknowledges
      PROVE  LinkInv'
  <2>1. UNCHANGED <<ichan, dma_intr, iram, spu_ready, sio2_fifo, sif0_fifo, sif1_fifo, halted>>
    BY <1>5 DEF IopEnables, IopAcknowledges, IOP!WriteDpcr2, IOP!WriteDicr2, IOP!Unhalted
  <2>2. UNCHANGED <<chan, irq, irq_mask, suspended, ip1_pending, ram, vif_fifo, gif_fifo>>
    BY DEF eeOnly
  <2>3. TypeOK'
    <3>1. enabled' \subseteq IOP!Channels /\ flags' \subseteq IOP!Channels /\ mask' \subseteq IOP!Channels
      BY <1>1, <1>2, <1>5 DEF IopEnables, IopAcknowledges, IOP!WriteDpcr2, IOP!WriteDicr2, IOP!TypeOK
    <3>2. IOP!TypeOK'
      BY <1>1, <2>1, <3>1 DEF IOP!TypeOK
    <3>3. EE!TypeOK'
      BY <1>1, <2>1, <2>2 DEF EE!TypeOK
    <3> QED BY <3>2, <3>3 DEF TypeOK
  <2>4. OnlySif' /\ GoesOn'
    BY <1>1, <2>1, <2>2 DEF OnlySif, GoesOn, Sif1Packets, Sif0Packets
  <2> QED BY <2>1, <2>2, <2>3, <2>4, QuietStep
<1>6. CASE IopSends
  <2>1. IOP!SIF0 \in {IOP!SIF0, IOP!SIF1}
    OBVIOUS
  <2> QED BY <1>3, <1>4, <1>6, <2>1, Zenon DEF IopSends
<1>7. CASE IopListens
  <2>1. IOP!WriteChcr(IOP!SIF1, IopChain) /\ IOP!SIF1 \in {IOP!SIF0, IOP!SIF1}
    BY <1>7 DEF IopListens
  <2> QED BY <1>2, <1>4, <2>1, Zenon
<1> QED BY <1>5, <1>6, <1>7

-----------------------------------------------------------------------------
(* Visits.                                                                 *)

\* What a visit to a channel of the EE's SIF leaves in order.
LEMMA EeMoves ==
  ASSUME LinkInv, NEW id \in {EE!SIF0, EE!SIF1}, NEW c \in EE!Channel,
         chan' = [chan EXCEPT ![id] = c], chan[id].running, c.running,
         id = EE!SIF1 => c.tie /\ (~c.end => \E p \in Sif1Packets : c.tadr = p.tadr),
         ram' \in [EE!Address -> EE!Qword], sif0_fifo' \in Seq(Word), sif1_fifo' \in Seq(Word),
         UNCHANGED <<iopOnly, packets, irq, irq_mask, suspended, ip1_pending, vif_fifo, gif_fifo, halted>>
  PROVE  /\ TypeOK' /\ OnlySif' /\ GoesOn' /\ packets' \in Traffic
         /\ Sent1' = Sent1 /\ Sent0' = Sent0
         /\ Sif1Packets' = Sif1Packets /\ Sif0Packets' = Sif0Packets
         /\ chan'[id] = c
         /\ \A other \in {EE!SIF0, EE!SIF1} \ {id} : chan'[other] = chan[other]
<1>1. EE!TypeOK /\ IOP!TypeOK /\ OnlySif /\ GoesOn /\ packets \in Traffic
  BY DEF LinkInv, Controllers, TypeOK
<1>2. id \in EE!Channels /\ EE!SIF0 \in EE!Channels /\ EE!SIF1 \in EE!Channels
  BY SifChannels
<1>3. /\ chan' \in [EE!Channels -> EE!Channel] /\ chan'[id] = c
      /\ \A other \in EE!Channels \ {id} : chan'[other] = chan[other]
  BY <1>1, <1>2, EeChannel DEF EE!TypeOK
<1>4. UNCHANGED <<ichan, enabled, flags, mask, dma_intr, iram, spu_ready, sio2_fifo>>
  BY DEF iopOnly
<1>5. TypeOK'
  <2>1. EE!TypeOK'
    BY <1>1, <1>3 DEF EE!TypeOK
  <2>2. IOP!TypeOK'
    BY <1>1, <1>4 DEF IOP!TypeOK
  <2> QED BY <2>1, <2>2 DEF TypeOK
<1>6. OnlySif'
  BY <1>1, <1>3, <1>4 DEF OnlySif
<1>7. Sif1Packets' = Sif1Packets /\ Sif0Packets' = Sif0Packets
  BY DEF Sif1Packets, Sif0Packets
<1>8. GoesOn'
  <2>1. chan'[EE!SIF1] = IF id = EE!SIF1 THEN c ELSE chan[EE!SIF1]
    BY <1>2, <1>3
  <2> QED BY <1>1, <1>4, <1>7, <2>1 DEF GoesOn
<1>9. Sent1' = Sent1 /\ Sent0' = Sent0
  BY <1>7 DEF Sent1, Sent0
<1> QED BY <1>1, <1>2, <1>3, <1>5, <1>6, <1>7, <1>8, <1>9

LEMMA IopMoves ==
  ASSUME LinkInv, NEW id \in {IOP!SIF0, IOP!SIF1}, NEW c \in IOP!Channel,
         ichan' = [ichan EXCEPT ![id] = c], ichan[id].running, c.running,
         id = IOP!SIF0 => c.bit8 /\ (~c.end => \E p \in Sif0Packets : c.tadr = p.tadr),
         iram' \in [IOP!Address -> Word], sif0_fifo' \in Seq(Word), sif1_fifo' \in Seq(Word),
         UNCHANGED <<eeOnly, packets, enabled, flags, mask, dma_intr, spu_ready, sio2_fifo, halted>>
  PROVE  /\ TypeOK' /\ OnlySif' /\ GoesOn' /\ packets' \in Traffic
         /\ Sent1' = Sent1 /\ Sent0' = Sent0
         /\ Sif1Packets' = Sif1Packets /\ Sif0Packets' = Sif0Packets
         /\ ichan'[id] = c
         /\ \A other \in {IOP!SIF0, IOP!SIF1} \ {id} : ichan'[other] = ichan[other]
<1>1. EE!TypeOK /\ IOP!TypeOK /\ OnlySif /\ GoesOn /\ packets \in Traffic
  BY DEF LinkInv, Controllers, TypeOK
<1>2. id \in IOP!Channels /\ IOP!SIF0 \in IOP!Channels /\ IOP!SIF1 \in IOP!Channels
  BY SifChannels
<1>3. /\ ichan' \in [IOP!Channels -> IOP!Channel] /\ ichan'[id] = c
      /\ \A other \in IOP!Channels \ {id} : ichan'[other] = ichan[other]
  BY <1>1, <1>2, IopChannel DEF IOP!TypeOK
<1>4. UNCHANGED <<chan, irq, irq_mask, suspended, ip1_pending, ram, vif_fifo, gif_fifo>>
  BY DEF eeOnly
<1>5. TypeOK'
  <2>1. EE!TypeOK'
    BY <1>1, <1>4 DEF EE!TypeOK
  <2>2. IOP!TypeOK'
    BY <1>1, <1>3 DEF IOP!TypeOK
  <2> QED BY <2>1, <2>2 DEF TypeOK
<1>6. OnlySif'
  BY <1>1, <1>3, <1>4 DEF OnlySif
<1>7. Sif1Packets' = Sif1Packets /\ Sif0Packets' = Sif0Packets
  BY DEF Sif1Packets, Sif0Packets
<1>8. GoesOn'
  <2>1. ichan'[IOP!SIF0] = IF id = IOP!SIF0 THEN c ELSE ichan[IOP!SIF0]
    BY <1>2, <1>3
  <2> QED BY <1>1, <1>4, <1>7, <2>1 DEF GoesOn
<1>9. Sent1' = Sent1 /\ Sent0' = Sent0
  BY <1>7 DEF Sent1, Sent0
<1> QED BY <1>1, <1>2, <1>3, <1>5, <1>6, <1>7, <1>8, <1>9

\* The EE's controller ends a transfer, or meets what it does not know.
LEMMA EeEndsInv ==
  ASSUME LinkInv, NEW id \in {EE!SIF0, EE!SIF1}, EE!EndTransfer(id) \/ EE!FetchUnknown(id),
         UNCHANGED <<iopOnly, packets>>
  PROVE  LinkInv'
<1>1. EE!TypeOK /\ IOP!TypeOK /\ OnlySif /\ GoesOn /\ id \in EE!Channels
      /\ chan \in [EE!Channels -> EE!Channel] /\ chan[id] \in EE!Channel
  BY SifChannels DEF LinkInv, Controllers, TypeOK, EE!TypeOK
<1>2. CASE EE!EndTransfer(id)
  <2> DEFINE d == [chan[id] EXCEPT !.end = FALSE, !.running = FALSE]
  <2>1. /\ ~d.running /\ ~d.end /\ d.mode = chan[id].mode
        /\ d.tte = chan[id].tte /\ d.tie = chan[id].tie /\ d.madr = chan[id].madr
        /\ d.qwc = chan[id].qwc /\ d.tadr = chan[id].tadr
    BY <1>1 DEF EE!Channel
  <2>2. d \in EE!Channel
    BY <1>1, <2>1 DEF EE!Channel
  <2>3. chan' = [chan EXCEPT ![id] = d]
    BY <1>1, <1>2 DEF EE!EndTransfer
  <2>4. /\ UNCHANGED <<irq_mask, suspended, ram, vif_fifo, gif_fifo, sif0_fifo, sif1_fifo, halted>>
        /\ irq' \subseteq EE!Channels /\ ip1_pending' \in BOOLEAN
    <3>1. irq' \subseteq EE!Channels
      BY <1>1, <1>2 DEF EE!EndTransfer, EE!TypeOK
    <3>2. ip1_pending' \in BOOLEAN
      BY <1>1, <1>2 DEF EE!EndTransfer, EE!TypeOK
    <3> QED BY <3>1, <3>2, <1>2 DEF EE!EndTransfer, EE!fifos
  <2> HIDE DEF d
  <2> QED BY <2>1, <2>2, <2>3, <2>4, EeSetsUp
<1>3. CASE EE!FetchUnknown(id)
  <2>1. /\ UNCHANGED <<chan, irq, irq_mask, suspended, ip1_pending, ram, vif_fifo, gif_fifo,
                       sif0_fifo, sif1_fifo>>
        /\ halted' = TRUE
    BY <1>3 DEF EE!FetchUnknown, EE!regs, EE!fifos
  <2>2. UNCHANGED <<ichan, enabled, flags, mask, dma_intr, iram, spu_ready, sio2_fifo>>
    BY DEF iopOnly
  <2>3. TypeOK'
    BY <1>1, <2>1, <2>2 DEF TypeOK, EE!TypeOK, IOP!TypeOK
  <2>4. OnlySif' /\ GoesOn'
    BY <1>1, <2>1, <2>2 DEF OnlySif, GoesOn, Sif1Packets, Sif0Packets
  <2> QED BY <2>1, <2>2, <2>3, <2>4, QuietStep
<1> QED BY <1>2, <1>3

LEMMA IopEndsInv ==
  ASSUME LinkInv, NEW id \in {IOP!SIF0, IOP!SIF1}, IOP!EndTransfer(id), UNCHANGED <<eeOnly, packets>>
  PROVE  LinkInv'
<1>1. EE!TypeOK /\ IOP!TypeOK /\ OnlySif /\ GoesOn /\ id \in IOP!Channels
      /\ ichan \in [IOP!Channels -> IOP!Channel] /\ ichan[id] \in IOP!Channel
  BY SifChannels DEF LinkInv, Controllers, TypeOK, IOP!TypeOK
<1> DEFINE d == [ichan[id] EXCEPT !.running = FALSE, !.end = FALSE]
<1>2. /\ ~d.running /\ ~d.end /\ d.mode = ichan[id].mode
      /\ d.bit8 = ichan[id].bit8 /\ d.addr = ichan[id].addr
      /\ d.count = ichan[id].count /\ d.tadr = ichan[id].tadr
  BY <1>1 DEF IOP!Channel
<1>3. d \in IOP!Channel
  BY <1>1, <1>2 DEF IOP!Channel
<1>4. ichan' = [ichan EXCEPT ![id] = d]
  BY <1>1 DEF IOP!EndTransfer
<1>5. flags' \subseteq IOP!Channels
  BY <1>1 DEF IOP!EndTransfer, IOP!TypeOK
<1>6. dma_intr' \in BOOLEAN
  BY <1>1 DEF IOP!EndTransfer, IOP!TypeOK
<1>7. spu_ready' \in BOOLEAN
  BY <1>1 DEF IOP!EndTransfer, IOP!TypeOK
<1>8. UNCHANGED <<enabled, mask, iram, sio2_fifo, sif0_fifo, sif1_fifo, halted>>
  BY DEF IOP!EndTransfer
<1> HIDE DEF d
<1> QED BY <1>2, <1>3, <1>4, <1>5, <1>6, <1>7, <1>8, IopSetsUp

-----------------------------------------------------------------------------
(* To the IOP.                                                             *)

\* What is known of the flow and its channels.
LEMMA Flow1Known ==
  ASSUME LinkInv
  PROVE  /\ packets \in Traffic /\ Sent1 \in [Sif1Packets -> Seq(Word)]
         /\ DOMAIN Sent1 = Sif1Packets /\ \A p \in DOMAIN Sent1 : Sent1[p] \in Seq(Word)
         /\ sif1_fifo \in Seq(Word) /\ iram \in [IOP!Address -> Word] /\ ram \in [EE!Address -> EE!Qword]
         /\ chan[EE!SIF1] \in EE!Channel /\ chan[EE!SIF1].qwc \in Nat /\ chan[EE!SIF1].madr \in Nat
         /\ ichan[IOP!SIF1] \in IOP!Channel /\ ichan[IOP!SIF1].count \in Nat /\ ichan[IOP!SIF1].addr \in Nat
         /\ 4 * chan[EE!SIF1].qwc \in Nat
<1>1. EE!TypeOK /\ IOP!TypeOK /\ packets \in Traffic
  BY DEF LinkInv, Controllers, TypeOK
<1>2. /\ chan[EE!SIF1] \in EE!Channel /\ ichan[IOP!SIF1] \in IOP!Channel
      /\ sif1_fifo \in Seq(Word) /\ iram \in [IOP!Address -> Word] /\ ram \in [EE!Address -> EE!Qword]
  BY <1>1, SifChannels DEF EE!TypeOK, IOP!TypeOK
<1>3. chan[EE!SIF1].qwc \in Nat /\ chan[EE!SIF1].madr \in Nat
  BY <1>2 DEF EE!Channel
<1>4. ichan[IOP!SIF1].count \in Nat /\ ichan[IOP!SIF1].addr \in Nat
  BY <1>2, TypesAssumption DEF IOP!Channel
<1>5. DOMAIN Sent1 = Sif1Packets /\ \A p \in DOMAIN Sent1 : Sent1[p] \in Seq(Word)
  BY <1>1, Sent1Words
<1>6. Sent1 = [p \in DOMAIN Sent1 |-> Sent1[p]]
  BY DEF Sent1
<1> QED BY <1>1, <1>2, <1>3, <1>4, <1>5, <1>6

\* A packet the sender is still at.
LEMMA Sending1 ==
  ASSUME LinkInv, NEW places, Flow1(places), NEW s \in places, EndOf(s, Sent1) > Len(sif1_fifo)
  PROVE  /\ s.packet \in Sif1Packets /\ s.at \in Int /\ s.at <= Len(sif1_fifo)
         /\ EndOf(s, Sent1) = s.at + 4 + s.packet.size
         /\ s.at + 4 + s.packet.size = Len(sif1_fifo) + 4 * chan[EE!SIF1].qwc
         /\ 4 * (chan[EE!SIF1].madr - (s.packet.src - 1)) = Len(sif1_fifo) - s.at
<1>1. Placed(sif1_fifo, 4 * chan[EE!SIF1].qwc, s, Sent1)
  BY DEF Flow1, Flow
<1>2. s.packet \in Sif1Packets /\ s.at \in Int /\ Len(Sent1[s.packet]) = 4 + s.packet.size
  BY <1>1, Sent1Words, Flow1Known DEF Placed
<1>3. s.packet.size \in Nat
  <2>1. s.packet.size \in 0 .. CountLimit - 1
    BY <1>2, Sent1Words, Flow1Known DEF Sif1Legal
  <2> QED BY <2>1, TypesAssumption
<1>4. EndOf(s, Sent1) = s.at + 4 + s.packet.size
  BY <1>2, <1>3, SMTT(40) DEF EndOf
<1>5. EndOf(s, Sent1) = Len(sif1_fifo) + 4 * chan[EE!SIF1].qwc
  <2>1. Len(sif1_fifo) \in Nat
    BY Flow1Known
  <2> QED BY <1>1, <1>2, <1>3, <1>4, <2>1 DEF Placed
<1>6. s.at <= Len(sif1_fifo) /\ 4 * (chan[EE!SIF1].madr - (s.packet.src - 1)) = Len(sif1_fifo) - s.at
  BY DEF Flow1, Sends1
<1> QED BY <1>2, <1>4, <1>5, <1>6

\* The EE fetches the tag of a packet.
LEMMA EeFetchSif1Inv ==
  ASSUME LinkInv, EE!FetchSif1(EE!SIF1), UNCHANGED <<iopOnly, packets>>
  PROVE  LinkInv'
<1> DEFINE f == sif1_fifo
           o == chan[EE!SIF1]
<1>1. /\ o \in EE!Channel /\ o.running /\ o.qwc = 0 /\ ~o.end /\ ~halted
      /\ UNCHANGED <<irq, irq_mask, suspended, ip1_pending, ram, vif_fifo, gif_fifo,
                     sif0_fifo, sif1_fifo, halted>>
      /\ chan' = [chan EXCEPT ![EE!SIF1] = EE!AfterTag(o, EE!TagAt(o.tadr))]
  BY Flow1Known DEF EE!FetchSif1, EE!Fetching, EE!Active, EE!fifos
<1>2. o.tie /\ \E p \in Sif1Packets : o.tadr = p.tadr
  BY <1>1 DEF LinkInv, Controllers, GoesOn
<1>3. PICK p \in Sif1Packets : o.tadr = p.tadr
  BY <1>2
<1>4. Sif1Legal(p, Sif1Packets) /\ Len(Sent1[p]) = 4 + p.size /\ p \in DOMAIN Sent1 /\ Sent1[p] \in Seq(Word)
  BY Sent1Words, Flow1Known
<1> DEFINE t == Sif1Tag(p)
           c == EE!AfterTag(o, t)
<1>5. EE!TagAt(o.tadr) = t
  <2>1. p.tadr \in EE!Address /\ p.tadr \in Sif1Area(p)
    BY <1>4 DEF Sif1Legal, Sif1Area
  <2>2. ram[p.tadr] = EeMemory[p.tadr]
    BY <2>1 DEF LinkInv, Controllers, MemoryKept
  <2>3. EE!Load(o.tadr) = EeMemory[p.tadr]
    BY <1>3, <2>1, <2>2 DEF EE!Load
  <2> QED BY <2>3 DEF EE!TagAt, Sif1Tag
<1>6. /\ t \in EE!DmaTag /\ t.qwc \in Nat /\ t.addr \in Nat /\ t.irq \in BOOLEAN
      /\ p.src \in Nat /\ p.size \in Nat /\ p.tadr \in Nat
  <2>1. p.tadr \in EE!Address /\ p.src \in Nat /\ p.size \in 0 .. CountLimit - 1
    BY <1>4 DEF Sif1Legal
  <2>2. EeMemory[p.tadr][1] \in Word /\ EeMemory[p.tadr][2] \in Word
    BY <2>1, TypesAssumption DEF EE!Qword
  <2>3. Sif1Tag(p) \in EE!DmaTag
    BY <2>2, TypesAssumption DEF Sif1Tag
  <2>4. p.size \in Nat /\ p.tadr \in Nat
    BY <2>1, TypesAssumption DEF EE!Address
  <2> QED BY <2>1, <2>3, <2>4 DEF EE!DmaTag
<1>7. /\ t.id \in {"REFE", "REF", "NEXT"} /\ 4 * t.qwc = 4 + p.size
      /\ p.src - 1 = IF t.id = "NEXT" THEN p.tadr + 1 ELSE t.addr
      /\ t.id = "REFE" \/ t.irq
         \/ \E q \in Sif1Packets : q.tadr = IF t.id = "NEXT" THEN t.addr ELSE p.tadr + 1
  BY <1>4 DEF Sif1Legal
<1> HIDE DEF t
<1>8. /\ c.running /\ c.tie /\ c.mode = o.mode /\ c.tte = o.tte
      /\ c.qwc = t.qwc /\ c.madr = p.src - 1
      /\ c.tadr = IF t.id = "NEXT" THEN t.addr ELSE p.tadr + 1
  <2>1. c.running /\ c.tie
    BY <1>1, <1>2, Zenon DEF EE!AfterTag, EE!Channel
  <2>2. c.mode = o.mode /\ c.tte = o.tte /\ c.qwc = t.qwc
    BY <1>1 DEF EE!AfterTag, EE!Channel
  <2>3. c.madr = p.src - 1 /\ c.tadr = IF t.id = "NEXT" THEN t.addr ELSE p.tadr + 1
    BY <1>1, <1>3, <1>7 DEF EE!AfterTag, EE!Channel
  <2> QED BY <2>1, <2>2, <2>3
<1>9. c.end <=> (t.id = "REFE" \/ t.irq)
  BY <1>1, <1>2, <1>7 DEF EE!AfterTag, EE!Channel
<1>10. c \in EE!Channel
  <2>1. c.madr \in Nat /\ c.tadr \in Nat
    BY <1>6, <1>7, <1>8
  <2>2. c.end \in BOOLEAN /\ c.running \in BOOLEAN /\ c.tie \in BOOLEAN
    BY <1>1, <1>6 DEF EE!AfterTag, EE!Channel
  <2> QED BY <1>1, <1>6, <1>8, <2>1, <2>2 DEF EE!AfterTag, EE!Channel
<1>11. ~c.end => \E q \in Sif1Packets : c.tadr = q.tadr
  BY <1>7, <1>8, <1>9
<1> HIDE DEF c
<1>12. chan' = [chan EXCEPT ![EE!SIF1] = c]
  BY <1>1, <1>5 DEF c
<1>13. ram' \in [EE!Address -> EE!Qword] /\ sif0_fifo' \in Seq(Word) /\ sif1_fifo' \in Seq(Word)
  BY <1>1 DEF LinkInv, Controllers, TypeOK, EE!TypeOK
<1>14. /\ TypeOK' /\ OnlySif' /\ GoesOn' /\ packets' \in Traffic
       /\ Sent1' = Sent1 /\ Sent0' = Sent0
       /\ Sif1Packets' = Sif1Packets /\ Sif0Packets' = Sif0Packets
       /\ chan'[EE!SIF1] = c
       /\ \A other \in {EE!SIF0, EE!SIF1} \ {EE!SIF1} : chan'[other] = chan[other]
  BY <1>1, <1>8, <1>10, <1>11, <1>12, <1>13, EeMoves
<1>15. chan'[EE!SIF0] = chan[EE!SIF0]
  BY <1>14, SifChannels
<1>16. UNCHANGED <<ichan, iram>>
  BY DEF iopOnly
<1>17. (\E places : Flow0(places))'
  BY <1>1, <1>15, <1>16, Flow0Kept DEF LinkInv
<1>18. MemoryKept'
  BY <1>1, <1>14, <1>16 DEF LinkInv, Controllers, MemoryKept, Sif1Area, Sif0Area, Sif1Tag
<1>19. PICK places : Flow1(places)
  BY DEF LinkInv
<1> DEFINE new == [at |-> Len(f), packet |-> p]
           all == places \cup {new}
<1>20. Flow(f, 4 * c.qwc, ichan[IOP!SIF1].count, all, Sent1)
  <2>1. Flow(f, 0, ichan[IOP!SIF1].count, places, Sent1)
    BY <1>1, <1>19 DEF Flow1
  <2>2. f \in Seq(Word) /\ ichan[IOP!SIF1].count \in Int /\ \A q \in DOMAIN Sent1 : Sent1[q] \in Seq(Word)
    BY Flow1Known
  <2>3. <<>> \in Seq(Word) /\ Len(<<>>) <= Len(Sent1[p]) /\ f \o <<>> = f /\ Len(<<>>) = 0
        /\ \A k \in 1 .. Len(<<>>) : <<>>[k] = Sent1[p][k]
    BY <1>4, <1>6, <2>2
  <2>4. Flow(f \o <<>>, Len(Sent1[p]) - Len(<<>>), ichan[IOP!SIF1].count, all, Sent1)
    <3> HIDE DEF f
    <3> QED BY <1>4, <2>1, <2>2, <2>3, FlowAnnounced
  <2>5. Len(Sent1[p]) - Len(<<>>) = 4 * c.qwc
    BY <1>4, <1>6, <1>7, <1>8, <2>3
  <2> QED BY <2>3, <2>4, <2>5
<1>21. Sends1(all)'
  <2>1. SUFFICES ASSUME NEW s \in all, EndOf(s, Sent1) > Len(f)
                 PROVE  s.at <= Len(f) /\ 4 * (c.madr - (s.packet.src - 1)) = Len(f) - s.at
    BY <1>1, <1>14 DEF Sends1
  <2>2. s \notin places
    <3>1. SUFFICES ASSUME s \in places PROVE FALSE
      OBVIOUS
    <3>2. Placed(f, 0, s, Sent1)
      BY <1>1, <1>19, <3>1 DEF Flow1, Flow
    <3>3. Len(f) \in Nat /\ EndOf(s, Sent1) \in Int
      BY <3>2, Flow1Known DEF Placed, EndOf
    <3> QED BY <2>1, <3>2, <3>3 DEF Placed
  <2>3. s.at = Len(f) /\ s.packet = p
    BY <2>2
  <2>4. Len(f) \in Nat
    BY Flow1Known
  <2> QED BY <1>6, <1>8, <2>3, <2>4
<1>22. Takes1(all)'
  <2>1. Takes1(places)
    BY <1>19 DEF Flow1
  <2> QED BY <1>14, <1>16, <2>1 DEF Takes1, EndOf
<1>23. Flow1(all)'
  BY <1>1, <1>14, <1>16, <1>20, <1>21, <1>22 DEF Flow1, Flow, Placed, Followed, Lies, EndOf
<1>24. (\E ps : Flow1(ps))'
  BY <1>23
<1> QED BY <1>14, <1>17, <1>18, <1>24 DEF LinkInv, Controllers
\* What is known of a packet to the IOP.
LEMMA Packet1Known ==
  ASSUME LinkInv, NEW p \in Sif1Packets
  PROVE  /\ Sif1Legal(p, Sif1Packets)
         /\ p.tadr \in EE!Address /\ p.src \in Nat /\ p.src - 1 \in Nat /\ p.dest \in Nat /\ p.size \in Nat
         /\ p.size < CountLimit /\ CountLimit \in Nat
         /\ Sif1Tag(p).qwc \in Nat /\ 4 * Sif1Tag(p).qwc = 4 + p.size
         /\ p.src - 1 + Sif1Tag(p).qwc <= RamQwords /\ RamQwords \in Nat
         /\ p.dest + p.size <= IopRamWords /\ IopRamWords \in Nat
         /\ Len(Sent1[p]) = 4 + p.size
         /\ \A j \in Nat, i \in 1 .. 4 :
              4 * j + i <= 4 + p.size => Sent1[p][4 * j + i] = EeMemory[p.src - 1 + j][i]
<1>1. packets \in Traffic
  BY DEF LinkInv, Controllers
<1>2. /\ Sif1Legal(p, Sif1Packets) /\ Len(Sent1[p]) = 4 + p.size
      /\ \A j \in Nat, i \in 1 .. 4 :
           4 * j + i <= 4 + p.size => Sent1[p][4 * j + i] = EeMemory[p.src - 1 + j][i]
  BY <1>1, Sent1Words
<1>3. /\ p.tadr \in EE!Address /\ p.src \in Nat \ {0} /\ p.dest \in Nat /\ p.size \in 0 .. CountLimit - 1
      /\ 4 * Sif1Tag(p).qwc = 4 + p.size /\ p.src - 1 + Sif1Tag(p).qwc <= RamQwords
      /\ p.dest + p.size <= IopRamWords
  BY <1>2 DEF Sif1Legal
<1>4. p.src \in Nat /\ p.src - 1 \in Nat
  BY <1>3
<1>5. CountLimit \in Nat /\ RamQwords \in Nat /\ IopRamWords \in Nat
  BY TypesAssumption
<1>6. p.size \in Nat /\ p.size < CountLimit
  BY <1>3, <1>5
<1>7. Sif1Tag(p).qwc \in Nat
  <2>1. EeMemory[p.tadr][1] \in Word /\ EeMemory[p.tadr][2] \in Word
    BY <1>3, TypesAssumption DEF EE!Qword
  <2>2. Sif1Tag(p) \in EE!DmaTag
    BY <2>1, TypesAssumption DEF Sif1Tag
  <2> QED BY <2>2 DEF EE!DmaTag
<1> QED BY <1>2, <1>3, <1>4, <1>5, <1>6, <1>7

\* And of a packet to the EE.
LEMMA Packet0Known ==
  ASSUME LinkInv, NEW p \in Sif0Packets
  PROVE  /\ Sif0Legal(p, Sif0Packets)
         /\ p.tadr \in Nat /\ p.src \in Nat /\ p.dest \in Nat /\ p.qwc \in Nat
         /\ 4 * p.qwc < CountLimit /\ CountLimit \in Nat
         /\ p.tadr + 3 < IopRamWords /\ p.src + 4 * p.qwc <= IopRamWords /\ IopRamWords \in Nat
         /\ p.dest + p.qwc <= RamQwords /\ RamQwords \in Nat
         /\ Sent0[p] \in Seq(Word) /\ Len(Sent0[p]) = 2 + 4 * p.qwc
         /\ Sent0[p][1] = IopMemory[p.tadr + 2] /\ Sent0[p][2] = IopMemory[p.tadr + 3]
         /\ \A k \in 1 .. 4 * p.qwc : Sent0[p][2 + k] = IopMemory[p.src + k - 1]
<1>1. packets \in Traffic
  BY DEF LinkInv, Controllers
<1>2. /\ Sif0Legal(p, Sif0Packets)
      /\ Sent0[p] \in Seq(Word) /\ Len(Sent0[p]) = 2 + 4 * p.qwc
      /\ Sent0[p][1] = IopMemory[p.tadr + 2] /\ Sent0[p][2] = IopMemory[p.tadr + 3]
      /\ \A k \in 1 .. 4 * p.qwc : Sent0[p][2 + k] = IopMemory[p.src + k - 1]
  BY <1>1, Sent0Words
<1> QED BY <1>2, TypesAssumption DEF Sif0Legal

\* The EE queues a quadword of its packet.
LEMMA EeTransferSif1Inv ==
  ASSUME LinkInv, EE!TransferSif1(EE!SIF1), UNCHANGED <<iopOnly, packets>>
  PROVE  LinkInv'
<1> DEFINE f == sif1_fifo
           o == chan[EE!SIF1]
           ws == EE!Load(o.madr)
           c == EE!Moved(o)
<1>1. /\ o \in EE!Channel /\ o.running /\ o.qwc > 0 /\ o.qwc \in Nat /\ o.madr \in Nat /\ ~halted
      /\ UNCHANGED <<irq, irq_mask, suspended, ip1_pending, ram, vif_fifo, gif_fifo,
                     sif0_fifo, halted>>
      /\ sif1_fifo' = f \o ws
      /\ chan' = [chan EXCEPT ![EE!SIF1] = c]
  BY Flow1Known DEF EE!TransferSif1, EE!Transferring, EE!Active
<1>2. ws \in Seq(Word) /\ Len(ws) = 4 /\ f \in Seq(Word) /\ Len(f) \in Nat
  <2>1. ws \in EE!Qword
    BY Flow1Known, TypesAssumption DEF EE!Load
  <2>2. ws \in Seq(Word) /\ Len(ws) = 4
    BY <2>1, QuadwordIsSeq
  <2> QED BY <2>2, Flow1Known
<1>3. /\ c.running = o.running /\ c.mode = o.mode /\ c.tte = o.tte /\ c.tie = o.tie
      /\ c.tadr = o.tadr /\ c.end = o.end /\ c.madr = o.madr + 1 /\ c.qwc = o.qwc - 1
      /\ c.qwc \in Nat
  <2>1. /\ c.running = o.running /\ c.mode = o.mode /\ c.tte = o.tte /\ c.tie = o.tie
        /\ c.tadr = o.tadr /\ c.end = o.end
    BY <1>1 DEF EE!Moved, EE!Channel
  <2>2. c.madr = o.madr + 1 /\ c.qwc = o.qwc - 1
    BY <1>1 DEF EE!Moved, EE!Channel
  <2> QED BY <1>1, <2>1, <2>2
<1>4. c \in EE!Channel
  <2>1. c.madr \in Nat
    BY <1>1, <1>3
  <2> QED BY <1>1, <1>3, <2>1 DEF EE!Moved, EE!Channel
<1> HIDE DEF c, ws
<1>5. ram' \in [EE!Address -> EE!Qword] /\ sif0_fifo' \in Seq(Word) /\ sif1_fifo' \in Seq(Word)
  BY <1>1, <1>2 DEF LinkInv, Controllers, TypeOK, EE!TypeOK
<1>6. c.tie /\ (~c.end => \E p \in Sif1Packets : c.tadr = p.tadr)
  BY <1>1, <1>3 DEF LinkInv, Controllers, GoesOn
<1>7. /\ TypeOK' /\ OnlySif' /\ GoesOn' /\ packets' \in Traffic
      /\ Sent1' = Sent1 /\ Sent0' = Sent0
      /\ Sif1Packets' = Sif1Packets /\ Sif0Packets' = Sif0Packets
      /\ chan'[EE!SIF1] = c
      /\ \A other \in {EE!SIF0, EE!SIF1} \ {EE!SIF1} : chan'[other] = chan[other]
  BY <1>1, <1>3, <1>4, <1>5, <1>6, EeMoves
<1>8. chan'[EE!SIF0] = chan[EE!SIF0]
  BY <1>7, SifChannels
<1>9. UNCHANGED <<ichan, iram>>
  BY DEF iopOnly
<1>10. (\E places : Flow0(places))'
  BY <1>1, <1>8, <1>9, Flow0Kept DEF LinkInv
<1>11. MemoryKept'
  BY <1>1, <1>7, <1>9 DEF LinkInv, Controllers, MemoryKept, Sif1Area, Sif0Area, Sif1Tag
<1>12. PICK places : Flow1(places)
  BY DEF LinkInv
<1>13. ASSUME NEW s \in places, EndOf(s, Sent1) > Len(f), NEW i \in 1 .. 4
       PROVE  ws[i] = Sent1[s.packet][Len(f) - s.at + i]
  <2> DEFINE p == s.packet
             j == o.madr - (p.src - 1)
  <2>1. /\ p \in Sif1Packets /\ s.at \in Int /\ s.at <= Len(f)
        /\ s.at + 4 + p.size = Len(f) + 4 * o.qwc
        /\ 4 * j = Len(f) - s.at
    BY <1>12, <1>13, Sending1
  <2>2. /\ p.src \in Nat /\ p.src - 1 \in Nat /\ p.size \in Nat /\ Sif1Tag(p).qwc \in Nat
        /\ 4 * Sif1Tag(p).qwc = 4 + p.size /\ p.src - 1 + Sif1Tag(p).qwc <= RamQwords /\ RamQwords \in Nat
        /\ \A m \in Nat, n \in 1 .. 4 :
             4 * m + n <= 4 + p.size => Sent1[p][4 * m + n] = EeMemory[p.src - 1 + m][n]
    BY <2>1, Packet1Known
  <2>3. j \in Nat /\ 4 * j + i <= 4 + p.size /\ j <= Sif1Tag(p).qwc - 1 /\ p.src - 1 + j = o.madr
    <3>1. o.madr \in Nat /\ o.qwc \in Nat /\ o.qwc > 0
      BY <1>1
    <3>2. Len(f) \in Nat
      BY <1>2
    <3> DEFINE len == Len(f)
               at == s.at
               tag == Sif1Tag(p).qwc
               size == p.size
               src == p.src
    <3>3. /\ len \in Nat /\ at \in Int /\ at <= len /\ size \in Nat /\ tag \in Nat /\ src \in Nat
          /\ at + 4 + size = len + 4 * o.qwc /\ 4 * (o.madr - (src - 1)) = len - at
          /\ 4 * tag = 4 + size
      BY <2>1, <2>2, <3>2
    <3> HIDE DEF f, o, p, len, at, tag, size, src
    <3>4. /\ o.madr - (src - 1) \in Nat /\ 4 * (o.madr - (src - 1)) + i <= 4 + size
          /\ o.madr - (src - 1) <= tag - 1 /\ src - 1 + (o.madr - (src - 1)) = o.madr
      BY <3>1, <3>3, Stands1
    <3> QED BY <3>4 DEF tag, size, src
  <2>4. o.madr \in p.src - 1 .. p.src - 2 + Sif1Tag(p).qwc /\ o.madr \in EE!Address
    <3>1. o.madr \in Nat
      BY <1>1
    <3> HIDE DEF o, p, j
    <3> QED BY <2>2, <2>3, <3>1 DEF EE!Address
  <2>5. ram[o.madr] = EeMemory[o.madr]
    <3>1. o.madr \in Sif1Area(p)
      BY <2>4 DEF Sif1Area
    <3> QED BY <2>1, <3>1 DEF LinkInv, Controllers, MemoryKept
  <2>6. ws[i] = EeMemory[o.madr][i]
    BY <2>4, <2>5 DEF EE!Load, ws
  <2>7. Sent1[p][4 * j + i] = EeMemory[p.src - 1 + j][i]
    <3> HIDE DEF j, p
    <3> QED BY <2>2, <2>3
  <2>8. Sent1[p][Len(f) - s.at + i] = EeMemory[p.src - 1 + j][i]
    <3> HIDE DEF j, p
    <3> QED BY <2>1, <2>7
  <2>9. EeMemory[p.src - 1 + j][i] = EeMemory[o.madr][i]
    <3> HIDE DEF j
    <3> QED BY <2>3
  <2> QED BY <2>6, <2>8, <2>9
<1>14. Flow(f \o ws, 4 * c.qwc, ichan[IOP!SIF1].count, places, Sent1)
  <2>1. Flow(f, 4 * o.qwc, ichan[IOP!SIF1].count, places, Sent1)
    BY <1>12 DEF Flow1
  <2>2. ichan[IOP!SIF1].count \in Int /\ \A q \in DOMAIN Sent1 : Sent1[q] \in Seq(Word)
    BY Flow1Known
  <2>3. 4 * o.qwc \in Nat /\ Len(ws) <= 4 * o.qwc /\ 4 * o.qwc - Len(ws) = 4 * c.qwc
    <3>1. o.qwc \in Nat /\ o.qwc > 0
      BY <1>1
    <3> HIDE DEF o
    <3> QED BY <1>2, <1>3, <3>1
  <2>4. \A s \in places : EndOf(s, Sent1) > Len(f) =>
          \A i \in 1 .. Len(ws) : ws[i] = Sent1[s.packet][Len(f) - s.at + i]
    BY <1>2, <1>13
  <2>5. Flow(f \o ws, 4 * o.qwc - Len(ws), ichan[IOP!SIF1].count, places, Sent1)
    <3> HIDE DEF f, o
    <3> QED BY <1>2, <2>1, <2>2, <2>3, <2>4, FlowSent
  <2> QED BY <2>3, <2>5
<1>15. Sends1(places)'
  <2>1. Len(f \o ws) = Len(f) + 4
    <3> HIDE DEF f
    <3>1. Len(f \o ws) = Len(f) + Len(ws)
      BY <1>2, WordsQueued
    <3> QED BY <1>2, <3>1
  <2>2. SUFFICES ASSUME NEW s \in places, EndOf(s, Sent1) > Len(f \o ws)
                 PROVE  s.at <= Len(f \o ws) /\ 4 * (c.madr - (s.packet.src - 1)) = Len(f \o ws) - s.at
    BY <1>1, <1>7 DEF Sends1
  <2>3. Placed(f, 4 * o.qwc, s, Sent1)
    BY <1>12 DEF Flow1, Flow
  <2>4. EndOf(s, Sent1) \in Int
    BY <2>3, Flow1Known DEF Placed, EndOf
  <2>5. EndOf(s, Sent1) > Len(f)
    BY <1>2, <2>1, <2>2, <2>4
  <2>6. s.packet \in Sif1Packets /\ s.at \in Int /\ s.at <= Len(f)
        /\ 4 * (o.madr - (s.packet.src - 1)) = Len(f) - s.at
    BY <1>12, <2>5, Sending1
  <2>7. s.packet.src \in Nat
    BY <2>6, Packet1Known
  <2>8. o.madr \in Nat
    BY <1>1
  <2>9. Len(f) \in Nat
    BY <1>2
  <2> DEFINE len == Len(f)
             g == Len(f \o ws)
             src == s.packet.src
             at == s.at
  <2>10. len \in Nat /\ g = len + 4 /\ at \in Int /\ at <= len /\ src \in Nat
         /\ 4 * (o.madr - (src - 1)) = len - at /\ c.madr = o.madr + 1 /\ o.madr \in Nat
    BY <1>3, <2>1, <2>6, <2>7, <2>8, <2>9
  <2> HIDE DEF f, o, len, g, src, at
  <2>11. at <= g /\ 4 * (c.madr - (src - 1)) = g - at
    BY <2>10
  <2> QED BY <2>11 DEF g, src, at
<1>16. Takes1(places)'
  <2>1. Takes1(places)
    BY <1>12 DEF Flow1
  <2> QED BY <1>7, <1>9, <2>1 DEF Takes1, EndOf
<1>17. Flow1(places)'
  BY <1>1, <1>7, <1>9, <1>14, <1>15, <1>16 DEF Flow1, Flow, Placed, Followed, Lies, EndOf
<1>18. (\E ps : Flow1(ps))'
  BY <1>17
<1> QED BY <1>7, <1>10, <1>11, <1>18 DEF LinkInv, Controllers

\* The IOP takes words; the sender is not concerned.
LEMMA Flow1Taken ==
  ASSUME LinkInv, NEW places, NEW next \in Int,
         Flow(sif1_fifo, 4 * chan[EE!SIF1].qwc, next, places, Sent1), Sends1(places),
         NEW n \in 0 .. Len(sif1_fifo), sif1_fifo' = SubSeq(sif1_fifo, n + 1, Len(sif1_fifo)),
         UNCHANGED <<packets, chan>>, ichan'[IOP!SIF1].count = next - n
  PROVE  /\ Flow(sif1_fifo, 4 * chan[EE!SIF1].qwc, ichan[IOP!SIF1].count, Earlier(places, n), Sent1)'
         /\ Sends1(Earlier(places, n))'
         /\ \A s \in places : [at |-> s.at - n, packet |-> s.packet] \in Earlier(places, n)
<1> DEFINE f   == sif1_fifo
           g   == SubSeq(f, n + 1, Len(f))
           all == Earlier(places, n)
<1>1. /\ f \in Seq(Word) /\ Len(f) \in Nat /\ n \in Nat /\ n <= Len(f) /\ Len(g) = Len(f) - n
      /\ \A p \in DOMAIN Sent1 : Sent1[p] \in Seq(Word)
  <2>1. f \in Seq(Word) /\ \A p \in DOMAIN Sent1 : Sent1[p] \in Seq(Word)
    BY Flow1Known
  <2> HIDE DEF f
  <2>2. Len(f) \in Nat
    BY <2>1
  <2>3. n \in Nat /\ n <= Len(f)
    BY <2>2 DEF f
  <2> QED BY <2>1, <2>2, <2>3
<1>2. Sent1' = Sent1
  BY DEF Sent1, Sif1Packets
<1>3. Flow(g, 4 * chan[EE!SIF1].qwc, next - n, all, Sent1)
  <2>1. 4 * chan[EE!SIF1].qwc \in Nat /\ n \in 0 .. Len(f)
    BY Flow1Known
  <2>2. Flow(f, 4 * chan[EE!SIF1].qwc, next, places, Sent1)
    OBVIOUS
  <2> HIDE DEF f
  <2> QED BY <1>1, <2>1, <2>2, FlowTaken
<1>4. Flow(sif1_fifo, 4 * chan[EE!SIF1].qwc, ichan[IOP!SIF1].count, all, Sent1)'
  BY <1>2, <1>3 DEF Flow, Placed, Followed, Lies, EndOf, Earlier
<1>5. Sends1(all)'
  <2>1. SUFFICES ASSUME NEW r \in all, EndOf(r, Sent1) > Len(g)
                 PROVE  r.at <= Len(g) /\ 4 * (chan[EE!SIF1].madr - (r.packet.src - 1)) = Len(g) - r.at
    BY <1>2 DEF Sends1, Earlier
  <2>2. PICK s \in places : r = [at |-> s.at - n, packet |-> s.packet]
    BY DEF Earlier
  <2>3. s.at \in Int /\ s.packet \in DOMAIN Sent1
    BY DEF Flow, Placed
  <2>4. Len(Sent1[s.packet]) \in Nat
    BY <1>1, <2>3
  <2>5. r.at = s.at - n /\ r.packet = s.packet /\ EndOf(r, Sent1) = EndOf(s, Sent1) - n /\ EndOf(s, Sent1) \in Int
    <3> HIDE DEF f, all
    <3> QED BY <1>1, <2>2, <2>3, <2>4 DEF EndOf
  <2>6. EndOf(s, Sent1) > Len(f)
    <3> HIDE DEF f, g
    <3> QED BY <1>1, <2>1, <2>5
  <2>7. s.at <= Len(f) /\ 4 * (chan[EE!SIF1].madr - (s.packet.src - 1)) = Len(f) - s.at
    BY <2>6 DEF Sends1
  <2> DEFINE m == 4 * (chan[EE!SIF1].madr - (s.packet.src - 1))
  <2>8. s.at <= Len(f) /\ m = Len(f) - s.at /\ 4 * (chan[EE!SIF1].madr - (r.packet.src - 1)) = m
    BY <2>5, <2>7
  <2> HIDE DEF f, g, m
  <2>9. r.at <= Len(g) /\ m = Len(g) - r.at
    BY <1>1, <2>3, <2>5, <2>8
  <2> QED BY <2>8, <2>9
<1>6. \A s \in places : [at |-> s.at - n, packet |-> s.packet] \in all
  BY DEF Earlier
<1> QED BY <1>4, <1>5, <1>6

\* The IOP finds the quadword ahead of a packet where it looks for a tag.
LEMMA Begins1 ==
  ASSUME LinkInv, NEW places, Flow1(places), ichan[IOP!SIF1].count = 0, Len(sif1_fifo) >= 4
  PROVE  \E s \in places :
           /\ s.packet \in Sif1Packets /\ s.at = 0
           /\ Flow(sif1_fifo, 4 * chan[EE!SIF1].qwc, 4 + s.packet.size, places, Sent1)
           /\ \A i \in 1 .. 4 : sif1_fifo[i] = EeMemory[s.packet.src - 1][i]
<1> DEFINE f == sif1_fifo
           n == 4 * chan[EE!SIF1].qwc
<1>1. /\ f \in Seq(Word) /\ n \in Nat /\ Flow(f, n, 0, places, Sent1) /\ Len(f) >= 4
      /\ DOMAIN Sent1 = Sif1Packets
      /\ \A p \in DOMAIN Sent1 : Sent1[p] \in Seq(Word)
  BY Flow1Known DEF Flow1
<1>2. Len(f) \in Nat /\ Len(f) > 0
  <2> HIDE DEF f
  <2> QED BY <1>1
<1>3. PICK s \in places :
           /\ s.packet \in DOMAIN Sent1 /\ s.at = 0
           /\ Flow(f, n, Len(Sent1[s.packet]), places, Sent1)
           /\ \A k \in 1 .. Len(Sent1[s.packet]) : k <= Len(f) => f[k] = Sent1[s.packet][k]
  <2> HIDE DEF f, n
  <2> QED BY <1>1, <1>2, FlowBegins
<1>4. /\ s.packet \in Sif1Packets /\ s.packet.size \in Nat /\ Len(Sent1[s.packet]) = 4 + s.packet.size
      /\ s.packet.src - 1 \in Nat
      /\ \A j \in Nat, i \in 1 .. 4 :
           4 * j + i <= 4 + s.packet.size => Sent1[s.packet][4 * j + i] = EeMemory[s.packet.src - 1 + j][i]
  BY <1>1, <1>3, Packet1Known
<1>5. ASSUME NEW i \in 1 .. 4 PROVE f[i] = EeMemory[s.packet.src - 1][i]
  <2> DEFINE p == s.packet
             a == p.src - 1
             size == p.size
  <2>1. size \in Nat /\ a \in Nat /\ Len(Sent1[p]) = 4 + size
    BY <1>4
  <2>2. Sent1[p][4 * 0 + i] = EeMemory[a + 0][i]
    <3>1. 4 * 0 + i <= 4 + size /\ 0 \in Nat
      <4> HIDE DEF size
      <4> QED BY <2>1
    <3> QED BY <1>4, <3>1
  <2>3. i <= Len(f) /\ i \in 1 .. Len(Sent1[p])
    <3> HIDE DEF f, size, p
    <3> QED BY <1>1, <1>2, <2>1
  <2>4. f[i] = Sent1[p][i]
    BY <1>3, <2>3
  <2>5. 4 * 0 + i = i /\ a + 0 = a
    <3> HIDE DEF a
    <3> QED BY <2>1
  <2> HIDE DEF p, a, f
  <2>6. f[i] = EeMemory[a][i]
    BY <2>2, <2>4, <2>5
  <2> QED BY <2>6 DEF a, p
<1> QED BY <1>3, <1>4, <1>5

\* The IOP fetches a tag.
LEMMA IopFetchSif1Inv ==
  ASSUME LinkInv, IOP!FetchSif1(IOP!SIF1), UNCHANGED <<eeOnly, packets>>
  PROVE  LinkInv'
<1> DEFINE f == sif1_fifo
           o == ichan[IOP!SIF1]
           t == IopTag[<<f[1], f[2]>>]
           c == [o EXCEPT !.addr = t.addr, !.count = IOP!Truncated(t.size), !.end = t.end \/ t.irq]
<1>1. /\ o \in IOP!Channel /\ o.running /\ o.count = 0 /\ ~o.end /\ Len(f) >= 4
      /\ UNCHANGED <<enabled, flags, mask, dma_intr, iram, spu_ready, sio2_fifo, sif0_fifo, halted>>
      /\ sif1_fifo' = SubSeq(f, 5, Len(f))
      /\ ichan \in [IOP!Channels -> IOP!Channel] /\ IOP!SIF1 \in IOP!Channels
  BY Flow1Known, SifChannels
  DEF IOP!FetchSif1, IOP!Fetching, IOP!Active, LinkInv, Controllers, TypeOK, IOP!TypeOK
<1>2. ichan' = [ichan EXCEPT ![IOP!SIF1] = c]
  BY <1>1 DEF IOP!FetchSif1
<1>3. PICK places : Flow1(places)
  BY DEF LinkInv
<1>4. PICK s \in places :
           /\ s.packet \in Sif1Packets /\ s.at = 0
           /\ Flow(sif1_fifo, 4 * chan[EE!SIF1].qwc, 4 + s.packet.size, places, Sent1)
           /\ \A i \in 1 .. 4 : sif1_fifo[i] = EeMemory[s.packet.src - 1][i]
  BY <1>1, <1>3, Begins1
<1> DEFINE p == s.packet
<1>5. /\ Sif1Legal(p, Sif1Packets) /\ p.size \in Nat /\ p.dest \in Nat /\ p.size < CountLimit /\ CountLimit \in Nat
      /\ p.src - 1 \in Nat /\ Len(Sent1[p]) = 4 + p.size
  BY <1>4, Packet1Known
<1>6. f[1] \in Word /\ f[2] \in Word /\ t \in IOP!DmaTag
  <2>1. f \in Seq(Word) /\ Len(f) >= 4
    BY <1>1, Flow1Known
  <2>2. f[1] \in Word /\ f[2] \in Word
    <3> HIDE DEF f
    <3> QED BY <2>1
  <2> QED BY <2>2, TypesAssumption
<1>7. t = Sif1Head(p)
  BY <1>4 DEF Sif1Head
<1>8. t.addr = p.dest /\ t.size = p.size
  BY <1>5, <1>7 DEF Sif1Legal
<1>9. IOP!Truncated(t.size) = p.size
  <2> DEFINE size == p.size
  <2>1. size \in Nat /\ size < CountLimit /\ CountLimit \in Nat \ {0} /\ t.size = size
    BY <1>5, <1>8, TypesAssumption
  <2> HIDE DEF size
  <2>2. size % CountLimit = size
    BY <2>1, SMT
  <2> QED BY <2>1, <2>2 DEF IOP!Truncated, size
<1>10. /\ c.running /\ c.mode = o.mode /\ c.tadr = o.tadr
       /\ c.addr = p.dest /\ c.count = p.size
  <2>1. c.running
    BY <1>1, Zenon DEF IOP!Channel
  <2>2. c.mode = o.mode /\ c.tadr = o.tadr /\ c.addr = t.addr /\ c.count = IOP!Truncated(t.size)
    <3> HIDE DEF t
    <3> QED BY <1>1 DEF IOP!Channel
  <2> QED BY <1>8, <1>9, <2>1, <2>2
<1>11. c \in IOP!Channel
  <2>1. c.count \in 0 .. CountLimit - 1 /\ c.addr \in Nat
    <3> DEFINE size == p.size
    <3>1. c.count = size /\ size \in Nat /\ size < CountLimit /\ CountLimit \in Nat /\ c.addr = p.dest /\ p.dest \in Nat
      BY <1>5, <1>10
    <3> HIDE DEF size, p, c
    <3> QED BY <3>1
  <2>2. c.end \in BOOLEAN /\ c.running \in BOOLEAN /\ c.bit8 \in BOOLEAN
    BY <1>1, <1>6 DEF IOP!Channel, IOP!DmaTag
  <2> HIDE DEF t
  <2> QED BY <1>1, <1>10, <2>1, <2>2 DEF IOP!Channel
<1> HIDE DEF c, t
<1>12. iram' \in [IOP!Address -> Word] /\ sif0_fifo' \in Seq(Word) /\ sif1_fifo' \in Seq(Word)
  <2>1. f \in Seq(Word)
    BY Flow1Known
  <2>2. SubSeq(f, 5, Len(f)) \in Seq(Word)
    <3> HIDE DEF f
    <3> QED BY <2>1
  <2> QED BY <1>1, <2>2 DEF LinkInv, Controllers, TypeOK, IOP!TypeOK
<1>13. /\ TypeOK' /\ OnlySif' /\ GoesOn' /\ packets' \in Traffic
       /\ Sent1' = Sent1 /\ Sent0' = Sent0
       /\ Sif1Packets' = Sif1Packets /\ Sif0Packets' = Sif0Packets
       /\ ichan'[IOP!SIF1] = c
       /\ \A other \in {IOP!SIF0, IOP!SIF1} \ {IOP!SIF1} : ichan'[other] = ichan[other]
  <2>1. IOP!SIF1 # IOP!SIF0 /\ IOP!SIF1 \in {IOP!SIF0, IOP!SIF1}
    BY SifChannels
  <2> QED BY <1>1, <1>2, <1>10, <1>11, <1>12, <2>1, IopMoves
<1>14. ichan'[IOP!SIF0] = ichan[IOP!SIF0]
  BY <1>13, SifChannels
<1>15. UNCHANGED <<chan, ram>>
  BY DEF eeOnly
<1>16. (\E ps : Flow0(ps))'
  BY <1>1, <1>14, <1>15, Flow0Kept DEF LinkInv
<1>17. MemoryKept'
  BY <1>1, <1>13, <1>15 DEF LinkInv, Controllers, MemoryKept, Sif1Area, Sif0Area, Sif1Tag
<1>18. /\ Flow(sif1_fifo, 4 * chan[EE!SIF1].qwc, ichan[IOP!SIF1].count, Earlier(places, 4), Sent1)'
       /\ Sends1(Earlier(places, 4))'
       /\ [at |-> s.at - 4, packet |-> s.packet] \in Earlier(places, 4)
  <2>1. 4 \in 0 .. Len(f) /\ sif1_fifo' = SubSeq(f, 4 + 1, Len(f))
    <3>1. f \in Seq(Word) /\ Len(f) >= 4 /\ sif1_fifo' = SubSeq(f, 5, Len(f))
      BY <1>1, Flow1Known
    <3>2. 4 \in 0 .. Len(f) /\ 4 + 1 = 5
      <4> HIDE DEF f
      <4> QED BY <3>1
    <3> QED BY <3>1, <3>2
  <2>2. 4 + p.size \in Int /\ ichan'[IOP!SIF1].count = (4 + p.size) - 4
    <3> DEFINE size == p.size
    <3>1. ichan'[IOP!SIF1].count = size /\ size \in Nat
      BY <1>5, <1>10, <1>13
    <3> HIDE DEF size
    <3>2. 4 + size \in Int /\ ichan'[IOP!SIF1].count = (4 + size) - 4
      BY <3>1
    <3> QED BY <3>2 DEF size
  <2>3. Flow(sif1_fifo, 4 * chan[EE!SIF1].qwc, 4 + p.size, places, Sent1) /\ Sends1(places)
        /\ UNCHANGED <<packets, chan>>
    BY <1>3, <1>4, <1>15 DEF Flow1
  <2> DEFINE next == 4 + p.size
  <2>4. next \in Int /\ ichan'[IOP!SIF1].count = next - 4
        /\ Flow(sif1_fifo, 4 * chan[EE!SIF1].qwc, next, places, Sent1)
    BY <2>2, <2>3
  <2> HIDE DEF next, p
  <2>5. /\ Flow(sif1_fifo, 4 * chan[EE!SIF1].qwc, ichan[IOP!SIF1].count, Earlier(places, 4), Sent1)'
        /\ Sends1(Earlier(places, 4))'
        /\ \A q \in places : [at |-> q.at - 4, packet |-> q.packet] \in Earlier(places, 4)
    BY <2>1, <2>3, <2>4, Flow1Taken
  <2> QED BY <2>5
<1>19. Takes1(Earlier(places, 4))'
  <2> DEFINE r == [at |-> s.at - 4, packet |-> s.packet]
             size == p.size
  <2>1. r.packet = p /\ r.at = -4 /\ r \in Earlier(places, 4)
    BY <1>4, <1>18
  <2>2. EndOf(r, Sent1) = size /\ size \in Nat /\ size <= size /\ 0 .. size - size - 1 = {}
    <3>1. EndOf(r, Sent1) = -4 + (4 + size) /\ size \in Nat
      BY <1>5, <2>1 DEF EndOf
    <3> HIDE DEF size, r
    <3> QED BY <3>1
  <2>3. c.count = size /\ c.addr = p.dest
    BY <1>10
  <2> HIDE DEF r
  <2>4. /\ r \in Earlier(places, 4) /\ EndOf(r, Sent1) = c.count /\ c.count <= r.packet.size
        /\ c.addr + c.count = r.packet.dest + r.packet.size
        /\ 0 .. r.packet.size - c.count - 1 = {}
    BY <2>1, <2>2, <2>3
  <2> QED BY <1>1, <1>13, <2>4 DEF Takes1, EndOf, Earlier
<1>20. (\E ps : Flow1(ps))'
  <2>1. Flow1(Earlier(places, 4))'
    BY <1>18, <1>19 DEF Flow1
  <2>2. Earlier(places, 4)' = Earlier(places, 4)
    BY DEF Earlier
  <2> QED BY <2>1
<1> QED BY <1>13, <1>16, <1>17, <1>20 DEF LinkInv, Controllers

\* The IOP takes a word of its packet.
LEMMA IopTransferSif1Inv ==
  ASSUME LinkInv, IOP!TransferSif1(IOP!SIF1), UNCHANGED <<eeOnly, packets>>
  PROVE  LinkInv'
<1> DEFINE f == sif1_fifo
           o == ichan[IOP!SIF1]
           c == IOP!Moved(o)
<1>1. /\ o \in IOP!Channel /\ o.running /\ o.count > 0 /\ o.count \in Nat /\ o.addr \in Nat /\ o.addr \in IOP!Address
      /\ UNCHANGED <<enabled, flags, mask, dma_intr, spu_ready, sio2_fifo, sif0_fifo, halted>>
      /\ f \in Seq(Word) /\ Len(f) > 0 /\ sif1_fifo' = Tail(f)
      /\ iram' = [iram EXCEPT ![o.addr] = Head(f)]
      /\ ichan' = [ichan EXCEPT ![IOP!SIF1] = c]
      /\ iram \in [IOP!Address -> Word]
  BY Flow1Known, SifChannels
  DEF IOP!TransferSif1, IOP!Transferring, IOP!Active, IOP!InRam
<1>2. /\ Len(f) \in Nat /\ 1 \in 0 .. Len(f) /\ Head(f) = f[1] /\ Head(f) \in Word
      /\ Tail(f) = SubSeq(f, 1 + 1, Len(f)) /\ Tail(f) \in Seq(Word)
  <2>1. f \in Seq(Word) /\ Len(f) > 0
    BY <1>1
  <2> HIDE DEF f
  <2>2. Len(f) \in Nat /\ 1 \in 0 .. Len(f)
    BY <2>1
  <2>3. Head(f) = f[1] /\ Head(f) \in Word /\ Tail(f) \in Seq(Word)
    BY <2>1
  <2>4. Tail(f) = SubSeq(f, 1 + 1, Len(f))
    BY <2>1
  <2> QED BY <2>2, <2>3, <2>4
<1>3. /\ c.running = o.running /\ c.mode = o.mode /\ c.bit8 = o.bit8
      /\ c.tadr = o.tadr /\ c.end = o.end /\ c.addr = o.addr + 1 /\ c.count = o.count - 1
  <2>1. /\ c.running = o.running /\ c.mode = o.mode /\ c.bit8 = o.bit8
        /\ c.tadr = o.tadr /\ c.end = o.end
    BY <1>1 DEF IOP!Moved, IOP!Channel
  <2>2. c.addr = o.addr + 1 /\ c.count = o.count - 1
    BY <1>1 DEF IOP!Moved, IOP!Channel
  <2> QED BY <2>1, <2>2
<1>4. c \in IOP!Channel
  <2>1. c.addr \in Nat /\ c.count \in 0 .. CountLimit - 1
    <3> DEFINE n == o.count
               a == o.addr
    <3>1. n \in 0 .. CountLimit - 1 /\ n > 0 /\ CountLimit \in Nat /\ a \in Nat /\ c.addr = a + 1 /\ c.count = n - 1
      BY <1>1, <1>3, TypesAssumption DEF IOP!Channel
    <3> HIDE DEF n, a, c
    <3> QED BY <3>1
  <2> QED BY <1>1, <1>3, <2>1 DEF IOP!Moved, IOP!Channel
<1> HIDE DEF c
<1>5. iram' \in [IOP!Address -> Word] /\ sif0_fifo' \in Seq(Word) /\ sif1_fifo' \in Seq(Word)
  <2>1. iram' \in [IOP!Address -> Word] /\ sif1_fifo' \in Seq(Word)
    BY <1>1, <1>2
  <2> QED BY <1>1, <2>1 DEF LinkInv, Controllers, TypeOK, IOP!TypeOK
<1>6. /\ TypeOK' /\ OnlySif' /\ GoesOn' /\ packets' \in Traffic
      /\ Sent1' = Sent1 /\ Sent0' = Sent0
      /\ Sif1Packets' = Sif1Packets /\ Sif0Packets' = Sif0Packets
      /\ ichan'[IOP!SIF1] = c
      /\ \A other \in {IOP!SIF0, IOP!SIF1} \ {IOP!SIF1} : ichan'[other] = ichan[other]
  <2>1. IOP!SIF1 # IOP!SIF0 /\ IOP!SIF1 \in {IOP!SIF0, IOP!SIF1}
    BY SifChannels
  <2> QED BY <1>1, <1>3, <1>4, <1>5, <2>1, IopMoves
<1>7. ichan'[IOP!SIF0] = ichan[IOP!SIF0]
  BY <1>6, SifChannels
<1>8. UNCHANGED <<chan, ram>>
  BY DEF eeOnly
<1>9. (\E ps : Flow0(ps))'
  BY <1>1, <1>7, <1>8, Flow0Kept DEF LinkInv
<1>10. PICK places : Flow1(places)
  BY DEF LinkInv
<1>11. PICK s \in places :
         /\ EndOf(s, Sent1) = o.count /\ o.count <= s.packet.size
         /\ o.addr + o.count = s.packet.dest + s.packet.size
         /\ \A k \in 0 .. s.packet.size - o.count - 1 :
              iram[s.packet.dest + k] = Sent1[s.packet][5 + k]
  BY <1>1, <1>10 DEF Flow1, Takes1
<1> DEFINE p == s.packet
           k0 == p.size - o.count
<1>12. /\ Placed(f, 4 * chan[EE!SIF1].qwc, s, Sent1) /\ p \in Sif1Packets /\ s.at \in Int
       /\ p.size \in Nat /\ p.dest \in Nat /\ Len(Sent1[p]) = 4 + p.size
       /\ p.dest + p.size <= IopRamWords /\ IopRamWords \in Nat
  <2>1. Placed(f, 4 * chan[EE!SIF1].qwc, s, Sent1)
    BY <1>10 DEF Flow1, Flow
  <2>2. p \in Sif1Packets /\ s.at \in Int
    BY <2>1, Flow1Known DEF Placed
  <2> QED BY <2>1, <2>2, Packet1Known
<1>13. /\ s.at = o.count - 4 - p.size /\ k0 \in Nat /\ k0 <= p.size - 1 /\ o.addr = p.dest + k0
       /\ s.at + (5 + k0) = 1 /\ 5 + k0 \in 1 .. 4 + p.size
  <2> DEFINE size == p.size
             dest == p.dest
             n == o.count
             a == o.addr
             at == s.at
  <2>1. /\ size \in Nat /\ dest \in Nat /\ n \in Nat /\ n > 0 /\ a \in Nat /\ at \in Int
        /\ at + (4 + size) = n /\ n <= size /\ a + n = dest + size
    BY <1>1, <1>11, <1>12 DEF EndOf
  <2> HIDE DEF size, dest, n, a, at
  <2>2. /\ at = n - 4 - size /\ size - n \in Nat /\ size - n <= size - 1 /\ a = dest + (size - n)
        /\ at + (5 + (size - n)) = 1 /\ 5 + (size - n) \in 1 .. 4 + size
    BY <2>1
  <2> QED BY <2>2 DEF size, dest, n, a, at
<1>14. Head(f) = Sent1[p][5 + k0]
  <2>1. s.at + (5 + k0) \in 1 .. Len(f)
    BY <1>2, <1>13
  <2>2. 5 + k0 \in 1 .. Len(Sent1[p])
    BY <1>12, <1>13
  <2>3. f[s.at + (5 + k0)] = Sent1[p][5 + k0]
    <3> HIDE DEF f, k0
    <3> QED BY <1>12, <2>1, <2>2 DEF Placed, Lies
  <2> QED BY <1>2, <1>13, <2>3
<1>15. MemoryKept'
  <2>1. ASSUME NEW q \in Sif0Packets, NEW a \in Sif0Area(q)
        PROVE  iram'[a] = IopMemory[a]
    <3>1. a # o.addr
      <4>1. o.addr \in p.dest .. p.dest + p.size - 1
        <5> DEFINE size == p.size
                   dest == p.dest
                   a0 == o.addr
        <5>1. size \in Nat /\ dest \in Nat /\ k0 \in Nat /\ k0 <= size - 1 /\ a0 = dest + k0
          BY <1>12, <1>13
        <5> HIDE DEF size, dest, a0, k0
        <5>2. a0 \in dest .. dest + size - 1
          BY <5>1
        <5> QED BY <5>2 DEF size, dest, a0
      <4>2. (p.dest .. p.dest + p.size - 1) \cap Sif0Area(q) = {}
        BY <1>12, TrafficAssumption DEF LinkInv, Controllers, Apart, Sif1Packets, Sif0Packets
      <4> QED BY <4>1, <4>2
    <3>2. a \in IOP!Address
      BY Packet0Known, SMTT(40) DEF IOP!Address, Sif0Area
    <3>3. iram'[a] = iram[a]
      BY <1>1, <3>1, <3>2
    <3> QED BY <3>3 DEF LinkInv, Controllers, MemoryKept
  <2>2. \A q \in Sif1Packets : \A a \in Sif1Area(q) : ram[a] = EeMemory[a]
    BY DEF LinkInv, Controllers, MemoryKept
  <2> QED BY <1>6, <1>8, <2>1, <2>2 DEF MemoryKept, Sif1Area, Sif0Area, Sif1Tag
<1>16. /\ Flow(sif1_fifo, 4 * chan[EE!SIF1].qwc, ichan[IOP!SIF1].count, Earlier(places, 1), Sent1)'
       /\ Sends1(Earlier(places, 1))'
       /\ [at |-> s.at - 1, packet |-> s.packet] \in Earlier(places, 1)
  <2>1. 1 \in 0 .. Len(f) /\ sif1_fifo' = SubSeq(f, 1 + 1, Len(f))
    BY <1>1, <1>2
  <2>2. o.count \in Int /\ ichan'[IOP!SIF1].count = o.count - 1
    BY <1>1, <1>3, <1>6
  <2>3. Flow(sif1_fifo, 4 * chan[EE!SIF1].qwc, o.count, places, Sent1) /\ Sends1(places)
        /\ UNCHANGED <<packets, chan>>
    BY <1>8, <1>10 DEF Flow1
  <2> HIDE DEF o
  <2>4. /\ Flow(sif1_fifo, 4 * chan[EE!SIF1].qwc, ichan[IOP!SIF1].count, Earlier(places, 1), Sent1)'
        /\ Sends1(Earlier(places, 1))'
        /\ \A q \in places : [at |-> q.at - 1, packet |-> q.packet] \in Earlier(places, 1)
    BY <2>1, <2>2, <2>3, Flow1Taken
  <2> QED BY <2>4
<1>17. Takes1(Earlier(places, 1))'
  <2> DEFINE r == [at |-> s.at - 1, packet |-> s.packet]
             size == p.size
             dest == p.dest
             n == o.count
             a == o.addr
             at == s.at
  <2>1. r.packet = p /\ r.at = at - 1 /\ r \in Earlier(places, 1)
    BY <1>16
  <2>2. /\ size \in Nat /\ dest \in Nat /\ n \in Nat /\ n > 0 /\ a \in Nat /\ at \in Int
        /\ at + (4 + size) = n /\ n <= size /\ a + n = dest + size
        /\ k0 = size - n /\ dest + size <= IopRamWords /\ IopRamWords \in Nat
        /\ EndOf(r, Sent1) = (at - 1) + (4 + size) /\ c.count = n - 1 /\ c.addr = a + 1
    BY <1>1, <1>3, <1>11, <1>12, <2>1 DEF EndOf
  <2>3. /\ EndOf(r, Sent1) = c.count /\ c.count <= size /\ c.addr + c.count = dest + size
        /\ size - c.count - 1 = k0 /\ a = dest + k0 /\ k0 \in Nat
    <3> HIDE DEF r, size, dest, n, a, at, k0
    <3> QED BY <2>2
  <2>4. ASSUME NEW k \in 0 .. size - c.count - 1
        PROVE  iram'[dest + k] = Sent1[p][5 + k]
    <3>1. k \in Nat /\ k <= k0
      <4> HIDE DEF size, k0
      <4> QED BY <2>3
    <3>2. CASE k = k0
      <4>1. dest + k = a /\ iram'[a] = Head(f)
        <5>1. dest + k = a
          <6> HIDE DEF k0, a, dest
          <6> QED BY <2>3, <3>2
        <5>2. iram'[a] = Head(f)
          BY <1>1
        <5> QED BY <5>1, <5>2
      <4>2. Sent1[p][5 + k] = Sent1[p][5 + k0]
        BY <3>2
      <4> HIDE DEF dest, a, p, f, k0
      <4> QED BY <1>14, <4>1, <4>2
    <3>3. CASE k # k0
      <4>1. k \in 0 .. size - n - 1 /\ dest + k # a /\ dest + k \in 0 .. IopRamWords - 1
        <5> HIDE DEF size, dest, n, a, k0
        <5> QED BY <2>2, <2>3, <3>1, <3>3
      <4>2. iram[dest + k] = Sent1[p][5 + k]
        BY <1>11, <4>1
      <4>3. iram'[dest + k] = iram[dest + k]
        BY <1>1, <4>1 DEF IOP!Address
      <4> QED BY <4>2, <4>3
    <3> QED BY <3>2, <3>3
  <2>5. Sent1' = Sent1 /\ ichan'[IOP!SIF1] = c /\ Earlier(places, 1)' = Earlier(places, 1)
    BY <1>6 DEF Earlier
  <2>6. /\ r \in Earlier(places, 1)
        /\ EndOf(r, Sent1) = c.count /\ c.count <= r.packet.size
        /\ c.addr + c.count = r.packet.dest + r.packet.size
        /\ \A k \in 0 .. r.packet.size - c.count - 1 : iram'[r.packet.dest + k] = Sent1[r.packet][5 + k]
    BY <2>1, <2>3, <2>4
  <2> HIDE DEF r
  <2> QED BY <2>5, <2>6 DEF Takes1, EndOf
<1>18. (\E ps : Flow1(ps))'
  <2>1. Flow1(Earlier(places, 1))'
    BY <1>16, <1>17 DEF Flow1
  <2>2. Earlier(places, 1)' = Earlier(places, 1)
    BY DEF Earlier
  <2> QED BY <2>1
<1> QED BY <1>6, <1>9, <1>15, <1>18 DEF LinkInv, Controllers

-----------------------------------------------------------------------------
(* To the EE.                                                              *)

LEMMA Flow0Known ==
  ASSUME LinkInv
  PROVE  /\ packets \in Traffic
         /\ DOMAIN Sent0 = Sif0Packets /\ \A p \in DOMAIN Sent0 : Sent0[p] \in Seq(Word)
         /\ sif0_fifo \in Seq(Word) /\ iram \in [IOP!Address -> Word] /\ ram \in [EE!Address -> EE!Qword]
         /\ chan[EE!SIF0] \in EE!Channel /\ chan[EE!SIF0].qwc \in Nat /\ chan[EE!SIF0].madr \in Nat
         /\ ichan[IOP!SIF0] \in IOP!Channel /\ ichan[IOP!SIF0].count \in Nat /\ ichan[IOP!SIF0].addr \in Nat
<1>1. EE!TypeOK /\ IOP!TypeOK /\ packets \in Traffic
  BY DEF LinkInv, Controllers, TypeOK
<1>2. /\ chan[EE!SIF0] \in EE!Channel /\ ichan[IOP!SIF0] \in IOP!Channel
      /\ sif0_fifo \in Seq(Word) /\ iram \in [IOP!Address -> Word] /\ ram \in [EE!Address -> EE!Qword]
  BY <1>1, SifChannels DEF EE!TypeOK, IOP!TypeOK
<1>3. chan[EE!SIF0].qwc \in Nat /\ chan[EE!SIF0].madr \in Nat
  BY <1>2 DEF EE!Channel
<1>4. ichan[IOP!SIF0].count \in Nat /\ ichan[IOP!SIF0].addr \in Nat
  BY <1>2, TypesAssumption DEF IOP!Channel
<1>5. DOMAIN Sent0 = Sif0Packets /\ \A p \in DOMAIN Sent0 : Sent0[p] \in Seq(Word)
  BY <1>1, Sent0Words
<1> QED BY <1>1, <1>2, <1>3, <1>4, <1>5

\* A packet the sender is still at.
LEMMA Sending0 ==
  ASSUME LinkInv, NEW places, Flow0(places), NEW s \in places, EndOf(s, Sent0) > Len(sif0_fifo)
  PROVE  /\ s.packet \in Sif0Packets /\ s.at \in Int /\ s.at + 2 <= Len(sif0_fifo)
         /\ EndOf(s, Sent0) = s.at + (2 + 4 * s.packet.qwc)
         /\ s.at + (2 + 4 * s.packet.qwc) = Len(sif0_fifo) + ichan[IOP!SIF0].count
         /\ ichan[IOP!SIF0].addr - s.packet.src = Len(sif0_fifo) - s.at - 2
<1>1. Placed(sif0_fifo, ichan[IOP!SIF0].count, s, Sent0)
  BY DEF Flow0, Flow
<1>2. s.packet \in Sif0Packets /\ s.at \in Int
  BY <1>1, Flow0Known DEF Placed
<1>3. s.packet.qwc \in Nat /\ Len(Sent0[s.packet]) = 2 + 4 * s.packet.qwc
  BY <1>2, Packet0Known
<1>4. EndOf(s, Sent0) = s.at + (2 + 4 * s.packet.qwc)
  BY <1>3 DEF EndOf
<1>5. EndOf(s, Sent0) = Len(sif0_fifo) + ichan[IOP!SIF0].count
  <2>1. Len(sif0_fifo) \in Nat
    BY Flow0Known
  <2>2. EndOf(s, Sent0) \in Int
    BY <1>2, <1>3, <1>4
  <2> QED BY <1>1, <2>1, <2>2 DEF Placed
<1>6. s.at + 2 <= Len(sif0_fifo) /\ ichan[IOP!SIF0].addr - s.packet.src = Len(sif0_fifo) - s.at - 2
  BY DEF Flow0, Sends0
<1> QED BY <1>2, <1>4, <1>5, <1>6

\* The EE takes words; the sender is not concerned.
LEMMA Flow0Taken ==
  ASSUME LinkInv, NEW places, NEW next \in Int,
         Flow(sif0_fifo, ichan[IOP!SIF0].count, next, places, Sent0), Sends0(places),
         NEW n \in 0 .. Len(sif0_fifo), sif0_fifo' = SubSeq(sif0_fifo, n + 1, Len(sif0_fifo)),
         UNCHANGED <<packets, ichan>>, 4 * chan'[EE!SIF0].qwc = next - n
  PROVE  /\ Flow(sif0_fifo, ichan[IOP!SIF0].count, 4 * chan[EE!SIF0].qwc, Earlier(places, n), Sent0)'
         /\ Sends0(Earlier(places, n))'
         /\ \A s \in places : [at |-> s.at - n, packet |-> s.packet] \in Earlier(places, n)
<1> DEFINE f   == sif0_fifo
           g   == SubSeq(f, n + 1, Len(f))
           all == Earlier(places, n)
<1>1. /\ f \in Seq(Word) /\ Len(f) \in Nat /\ n \in Nat /\ n <= Len(f) /\ Len(g) = Len(f) - n
      /\ \A p \in DOMAIN Sent0 : Sent0[p] \in Seq(Word)
  <2>1. f \in Seq(Word) /\ \A p \in DOMAIN Sent0 : Sent0[p] \in Seq(Word)
    BY Flow0Known
  <2> HIDE DEF f
  <2>2. Len(f) \in Nat
    BY <2>1
  <2>3. n \in Nat /\ n <= Len(f)
    BY <2>2 DEF f
  <2> QED BY <2>1, <2>2, <2>3
<1>2. Sent0' = Sent0
  BY DEF Sent0, Sif0Packets
<1>3. Flow(g, ichan[IOP!SIF0].count, next - n, all, Sent0)
  <2>1. ichan[IOP!SIF0].count \in Nat /\ n \in 0 .. Len(f)
    BY Flow0Known
  <2>2. Flow(f, ichan[IOP!SIF0].count, next, places, Sent0)
    OBVIOUS
  <2> HIDE DEF f
  <2> QED BY <1>1, <2>1, <2>2, FlowTaken
<1>4. Flow(sif0_fifo, ichan[IOP!SIF0].count, 4 * chan[EE!SIF0].qwc, all, Sent0)'
  BY <1>2, <1>3 DEF Flow, Placed, Followed, Lies, EndOf, Earlier
<1>5. Sends0(all)'
  <2>1. SUFFICES ASSUME NEW r \in all, EndOf(r, Sent0) > Len(g)
                 PROVE  r.at + 2 <= Len(g) /\ ichan[IOP!SIF0].addr - r.packet.src = Len(g) - r.at - 2
    BY <1>2 DEF Sends0, Earlier
  <2>2. PICK s \in places : r = [at |-> s.at - n, packet |-> s.packet]
    BY DEF Earlier
  <2>3. s.at \in Int /\ s.packet \in DOMAIN Sent0
    BY DEF Flow, Placed
  <2>4. Len(Sent0[s.packet]) \in Nat
    BY <1>1, <2>3
  <2>5. r.at = s.at - n /\ r.packet = s.packet /\ EndOf(r, Sent0) = EndOf(s, Sent0) - n /\ EndOf(s, Sent0) \in Int
    <3> HIDE DEF f, all
    <3> QED BY <1>1, <2>2, <2>3, <2>4 DEF EndOf
  <2>6. EndOf(s, Sent0) > Len(f)
    <3> HIDE DEF f, g
    <3> QED BY <1>1, <2>1, <2>5
  <2> DEFINE m == ichan[IOP!SIF0].addr - s.packet.src
  <2>7. s.at + 2 <= Len(f) /\ m = Len(f) - s.at - 2
    BY <2>6 DEF Sends0
  <2>8. ichan[IOP!SIF0].addr - r.packet.src = m
    BY <2>5
  <2> HIDE DEF f, g, m
  <2>9. r.at + 2 <= Len(g) /\ m = Len(g) - r.at - 2
    BY <1>1, <2>3, <2>5, <2>7, SMTT(40)
  <2> QED BY <2>8, <2>9
<1>6. \A s \in places : [at |-> s.at - n, packet |-> s.packet] \in all
  BY DEF Earlier
<1> QED BY <1>4, <1>5, <1>6

\* The EE finds the two words ahead of a packet where it looks for a tag.
LEMMA Begins0 ==
  ASSUME LinkInv, NEW places, Flow0(places), chan[EE!SIF0].qwc = 0, Len(sif0_fifo) >= 2
  PROVE  \E s \in places :
           /\ s.packet \in Sif0Packets /\ s.at = 0
           /\ Flow(sif0_fifo, ichan[IOP!SIF0].count, 2 + 4 * s.packet.qwc, places, Sent0)
           /\ sif0_fifo[1] = IopMemory[s.packet.tadr + 2] /\ sif0_fifo[2] = IopMemory[s.packet.tadr + 3]
<1> DEFINE f == sif0_fifo
           n == ichan[IOP!SIF0].count
<1>1. /\ f \in Seq(Word) /\ n \in Nat /\ Flow(f, n, 0, places, Sent0) /\ Len(f) >= 2
      /\ DOMAIN Sent0 = Sif0Packets
      /\ \A p \in DOMAIN Sent0 : Sent0[p] \in Seq(Word)
  BY Flow0Known DEF Flow0
<1>2. Len(f) \in Nat /\ Len(f) > 0
  <2> HIDE DEF f
  <2> QED BY <1>1
<1>3. PICK s \in places :
           /\ s.packet \in DOMAIN Sent0 /\ s.at = 0
           /\ Flow(f, n, Len(Sent0[s.packet]), places, Sent0)
           /\ \A k \in 1 .. Len(Sent0[s.packet]) : k <= Len(f) => f[k] = Sent0[s.packet][k]
  <2> HIDE DEF f, n
  <2> QED BY <1>1, <1>2, FlowBegins
<1>4. /\ s.packet \in Sif0Packets /\ s.packet.qwc \in Nat /\ Len(Sent0[s.packet]) = 2 + 4 * s.packet.qwc
      /\ Sent0[s.packet][1] = IopMemory[s.packet.tadr + 2] /\ Sent0[s.packet][2] = IopMemory[s.packet.tadr + 3]
  BY <1>1, <1>3, Packet0Known
<1>5. 1 \in 1 .. Len(Sent0[s.packet]) /\ 2 \in 1 .. Len(Sent0[s.packet]) /\ 1 <= Len(f) /\ 2 <= Len(f)
  <2> DEFINE q == s.packet.qwc
  <2>1. q \in Nat /\ Len(Sent0[s.packet]) = 2 + 4 * q
    BY <1>4
  <2> HIDE DEF f, q
  <2> QED BY <1>1, <1>2, <2>1
<1>6. f[1] = Sent0[s.packet][1] /\ f[2] = Sent0[s.packet][2]
  BY <1>3, <1>5
<1> QED BY <1>3, <1>4, <1>6

\* The EE fetches a tag.
LEMMA EeFetchSif0Inv ==
  ASSUME LinkInv, EE!FetchSif0(EE!SIF0), UNCHANGED <<iopOnly, packets>>
  PROVE  LinkInv'
<1> DEFINE f == sif0_fifo
           o == chan[EE!SIF0]
           t == EeTag[<<f[1], f[2]>>]
           c == [o EXCEPT !.qwc = t.qwc, !.madr = t.addr,
                          !.tadr = (o.tadr + 1) % TadrWrap, !.end = o.tie /\ t.irq]
<1>1. /\ o \in EE!Channel /\ o.running /\ o.qwc = 0 /\ ~o.end /\ Len(f) >= 2 /\ f \in Seq(Word)
      /\ UNCHANGED <<irq, irq_mask, suspended, ip1_pending, ram, vif_fifo, gif_fifo, sif1_fifo, halted>>
      /\ sif0_fifo' = SubSeq(f, 3, Len(f))
      /\ chan \in [EE!Channels -> EE!Channel] /\ EE!SIF0 \in EE!Channels
  BY Flow0Known, SifChannels
  DEF EE!FetchSif0, EE!Fetching, EE!Active, LinkInv, Controllers, TypeOK, EE!TypeOK
<1>2. chan' = [chan EXCEPT ![EE!SIF0] = c]
  BY <1>1 DEF EE!FetchSif0
<1>3. PICK places : Flow0(places)
  BY DEF LinkInv
<1>4. PICK s \in places :
           /\ s.packet \in Sif0Packets /\ s.at = 0
           /\ Flow(sif0_fifo, ichan[IOP!SIF0].count, 2 + 4 * s.packet.qwc, places, Sent0)
           /\ sif0_fifo[1] = IopMemory[s.packet.tadr + 2] /\ sif0_fifo[2] = IopMemory[s.packet.tadr + 3]
  BY <1>1, <1>3, Begins0
<1> DEFINE p == s.packet
<1>5. /\ Sif0Legal(p, Sif0Packets) /\ p.qwc \in Nat /\ p.dest \in Nat
      /\ Len(Sent0[p]) = 2 + 4 * p.qwc
  BY <1>4, Packet0Known
<1>6. t \in EE!DmaTag
  <2>1. f[1] \in Word /\ f[2] \in Word
    <3> HIDE DEF f
    <3> QED BY <1>1
  <2> QED BY <2>1, TypesAssumption
<1>7. t = Sif0Head(p)
  BY <1>4 DEF Sif0Head
<1>8. t.addr = p.dest /\ t.qwc = p.qwc
  BY <1>5, <1>7 DEF Sif0Legal
<1>9. /\ c.running /\ c.mode = o.mode /\ c.tte = o.tte /\ c.tie = o.tie
      /\ c.madr = p.dest /\ c.qwc = p.qwc
  <2>1. c.running
    BY <1>1, Zenon DEF EE!Channel
  <2>2. c.mode = o.mode /\ c.tte = o.tte /\ c.tie = o.tie /\ c.madr = t.addr /\ c.qwc = t.qwc
    <3> HIDE DEF t
    <3> QED BY <1>1 DEF EE!Channel
  <2> QED BY <1>8, <2>1, <2>2
<1>10. c \in EE!Channel
  <2>1. c.tadr \in Nat
    <3> DEFINE a == o.tadr
    <3>1. a \in Nat /\ TadrWrap \in Nat \ {0}
      BY <1>1, TypesAssumption DEF EE!Channel
    <3> HIDE DEF a
    <3>2. (a + 1) % TadrWrap \in Nat
      BY <3>1, SMT
    <3> HIDE DEF t
    <3> QED BY <1>1, <3>2 DEF EE!Channel, a
  <2>2. c.end \in BOOLEAN /\ c.running \in BOOLEAN
    BY <1>1, <1>6 DEF EE!Channel, EE!DmaTag
  <2> HIDE DEF t
  <2> QED BY <1>1, <1>5, <1>9, <2>1, <2>2 DEF EE!Channel
<1> HIDE DEF c, t
<1>11. ram' \in [EE!Address -> EE!Qword] /\ sif0_fifo' \in Seq(Word) /\ sif1_fifo' \in Seq(Word)
  <2>1. SubSeq(f, 3, Len(f)) \in Seq(Word)
    <3> HIDE DEF f
    <3> QED BY <1>1
  <2> QED BY <1>1, <2>1 DEF LinkInv, Controllers, TypeOK, EE!TypeOK
<1>12. /\ TypeOK' /\ OnlySif' /\ GoesOn' /\ packets' \in Traffic
       /\ Sent1' = Sent1 /\ Sent0' = Sent0
       /\ Sif1Packets' = Sif1Packets /\ Sif0Packets' = Sif0Packets
       /\ chan'[EE!SIF0] = c
       /\ \A other \in {EE!SIF0, EE!SIF1} \ {EE!SIF0} : chan'[other] = chan[other]
  <2>1. EE!SIF1 # EE!SIF0 /\ EE!SIF0 \in {EE!SIF0, EE!SIF1}
    BY SifChannels
  <2> QED BY <1>1, <1>2, <1>9, <1>10, <1>11, <2>1, EeMoves
<1>13. chan'[EE!SIF1] = chan[EE!SIF1]
  BY <1>12, SifChannels
<1>14. UNCHANGED <<ichan, iram>>
  BY DEF iopOnly
<1>15. (\E ps : Flow1(ps))'
  BY <1>1, <1>13, <1>14, Flow1Kept DEF LinkInv
<1>16. MemoryKept'
  BY <1>1, <1>12, <1>14 DEF LinkInv, Controllers, MemoryKept, Sif1Area, Sif0Area, Sif1Tag
<1>17. /\ Flow(sif0_fifo, ichan[IOP!SIF0].count, 4 * chan[EE!SIF0].qwc, Earlier(places, 2), Sent0)'
       /\ Sends0(Earlier(places, 2))'
       /\ [at |-> s.at - 2, packet |-> s.packet] \in Earlier(places, 2)
  <2> DEFINE next == 2 + 4 * p.qwc
  <2>1. 2 \in 0 .. Len(f) /\ sif0_fifo' = SubSeq(f, 2 + 1, Len(f))
    <3>1. 2 \in 0 .. Len(f) /\ 2 + 1 = 3
      <4> HIDE DEF f
      <4> QED BY <1>1
    <3> QED BY <1>1, <3>1
  <2>2. next \in Int /\ 4 * chan'[EE!SIF0].qwc = next - 2
    <3> DEFINE q == p.qwc
    <3>1. chan'[EE!SIF0].qwc = q /\ q \in Nat
      BY <1>5, <1>9, <1>12
    <3> HIDE DEF q
    <3>2. 2 + 4 * q \in Int /\ 4 * chan'[EE!SIF0].qwc = (2 + 4 * q) - 2
      BY <3>1
    <3> QED BY <3>2 DEF q
  <2>3. Flow(sif0_fifo, ichan[IOP!SIF0].count, next, places, Sent0) /\ Sends0(places)
        /\ UNCHANGED <<packets, ichan>>
    BY <1>3, <1>4, <1>14 DEF Flow0
  <2> HIDE DEF next, p
  <2>4. /\ Flow(sif0_fifo, ichan[IOP!SIF0].count, 4 * chan[EE!SIF0].qwc, Earlier(places, 2), Sent0)'
        /\ Sends0(Earlier(places, 2))'
        /\ \A q \in places : [at |-> q.at - 2, packet |-> q.packet] \in Earlier(places, 2)
    BY <2>1, <2>2, <2>3, Flow0Taken
  <2> QED BY <2>4
<1>18. Takes0(Earlier(places, 2))'
  <2> DEFINE r == [at |-> s.at - 2, packet |-> s.packet]
             q == p.qwc
  <2>1. r.packet = p /\ r.at = -2 /\ r \in Earlier(places, 2)
    BY <1>4, <1>17
  <2>2. EndOf(r, Sent0) = 4 * q /\ q \in Nat /\ q <= q /\ 0 .. q - q - 1 = {}
    <3>1. EndOf(r, Sent0) = -2 + (2 + 4 * q) /\ q \in Nat
      BY <1>5, <2>1 DEF EndOf
    <3> HIDE DEF q, r
    <3> QED BY <3>1
  <2>3. c.qwc = q /\ c.madr = p.dest
    BY <1>9
  <2> HIDE DEF r
  <2>4. /\ r \in Earlier(places, 2) /\ EndOf(r, Sent0) = 4 * c.qwc /\ c.qwc <= r.packet.qwc
        /\ c.madr + c.qwc = r.packet.dest + r.packet.qwc
        /\ 0 .. r.packet.qwc - c.qwc - 1 = {}
    BY <2>1, <2>2, <2>3
  <2> QED BY <1>1, <1>12, <2>4 DEF Takes0, EndOf, Earlier
<1>19. (\E ps : Flow0(ps))'
  <2>1. Flow0(Earlier(places, 2))'
    BY <1>17, <1>18 DEF Flow0
  <2>2. Earlier(places, 2)' = Earlier(places, 2)
    BY DEF Earlier
  <2> QED BY <2>1
<1> QED BY <1>12, <1>15, <1>16, <1>19 DEF LinkInv, Controllers

\* The EE takes a quadword of its packet.
LEMMA EeTransferSif0Inv ==
  ASSUME LinkInv, EE!TransferSif0(EE!SIF0), UNCHANGED <<iopOnly, packets>>
  PROVE  LinkInv'
<1> DEFINE f == sif0_fifo
           o == chan[EE!SIF0]
           c == EE!Moved(o)
           ws == SubSeq(f, 1, 4)
<1>1. /\ o \in EE!Channel /\ o.running /\ o.qwc > 0 /\ o.qwc \in Nat /\ o.madr \in Nat
      /\ UNCHANGED <<irq, irq_mask, suspended, ip1_pending, vif_fifo, gif_fifo, sif1_fifo, halted>>
      /\ f \in Seq(Word) /\ Len(f) >= 4 /\ sif0_fifo' = SubSeq(f, 5, Len(f))
      /\ ram' = EE!Store(o.madr, ws)
      /\ chan' = [chan EXCEPT ![EE!SIF0] = c]
      /\ ram \in [EE!Address -> EE!Qword]
  BY Flow0Known, SifChannels
  DEF EE!TransferSif0, EE!Transferring, EE!Active
<1>2. /\ Len(f) \in Nat /\ 4 \in 0 .. Len(f) /\ SubSeq(f, 5, Len(f)) \in Seq(Word)
      /\ SubSeq(f, 5, Len(f)) = SubSeq(f, 4 + 1, Len(f))
      /\ \A i \in 1 .. 4 : i \in 1 .. Len(f) /\ ws[i] = f[i]
      /\ ws \in EE!Qword
  <2>1. f \in Seq(Word) /\ Len(f) >= 4
    BY <1>1
  <2> HIDE DEF f
  <2>2. Len(f) \in Nat /\ 4 \in 0 .. Len(f) /\ SubSeq(f, 5, Len(f)) \in Seq(Word)
    BY <2>1
  <2>3. 4 + 1 = 5
    OBVIOUS
  <2>4. ws \in EE!Qword /\ \A i \in 1 .. 4 : i \in 1 .. Len(f) /\ ws[i] = f[i]
    BY <2>1, FourWords
  <2> QED BY <2>2, <2>3, <2>4
<1>3. /\ c.running = o.running /\ c.mode = o.mode /\ c.tte = o.tte /\ c.tie = o.tie
      /\ c.tadr = o.tadr /\ c.end = o.end /\ c.madr = o.madr + 1 /\ c.qwc = o.qwc - 1
  <2>1. /\ c.running = o.running /\ c.mode = o.mode /\ c.tte = o.tte /\ c.tie = o.tie
        /\ c.tadr = o.tadr /\ c.end = o.end
    BY <1>1 DEF EE!Moved, EE!Channel
  <2>2. c.madr = o.madr + 1 /\ c.qwc = o.qwc - 1
    BY <1>1 DEF EE!Moved, EE!Channel
  <2> QED BY <2>1, <2>2
<1>4. c \in EE!Channel
  <2>1. c.madr \in Nat /\ c.qwc \in Nat
    BY <1>1, <1>3
  <2> QED BY <1>1, <1>3, <2>1 DEF EE!Moved, EE!Channel
<1> HIDE DEF c, ws
<1>5. /\ ram' \in [EE!Address -> EE!Qword] /\ sif0_fifo' \in Seq(Word) /\ sif1_fifo' \in Seq(Word)
      /\ \A a \in EE!Address : ram'[a] = IF a = o.madr THEN ws ELSE ram[a]
  <2>1. ram' = [b \in EE!Address |-> IF b = o.madr THEN ws ELSE ram[b]]
    BY <1>1 DEF EE!Store
  <2>2. ram' \in [EE!Address -> EE!Qword] /\ \A a \in EE!Address : ram'[a] = IF a = o.madr THEN ws ELSE ram[a]
    <3> HIDE DEF o
    <3> QED BY <1>1, <1>2, <2>1
  <2> QED BY <1>1, <1>2, <2>2 DEF LinkInv, Controllers, TypeOK, EE!TypeOK
<1>6. /\ TypeOK' /\ OnlySif' /\ GoesOn' /\ packets' \in Traffic
      /\ Sent1' = Sent1 /\ Sent0' = Sent0
      /\ Sif1Packets' = Sif1Packets /\ Sif0Packets' = Sif0Packets
      /\ chan'[EE!SIF0] = c
      /\ \A other \in {EE!SIF0, EE!SIF1} \ {EE!SIF0} : chan'[other] = chan[other]
  <2>1. EE!SIF1 # EE!SIF0 /\ EE!SIF0 \in {EE!SIF0, EE!SIF1}
    BY SifChannels
  <2> QED BY <1>1, <1>3, <1>4, <1>5, <2>1, EeMoves
<1>7. chan'[EE!SIF1] = chan[EE!SIF1]
  BY <1>6, SifChannels
<1>8. UNCHANGED <<ichan, iram>>
  BY DEF iopOnly
<1>9. (\E ps : Flow1(ps))'
  BY <1>1, <1>7, <1>8, Flow1Kept DEF LinkInv
<1>10. PICK places : Flow0(places)
  BY DEF LinkInv
<1>11. PICK s \in places :
         /\ EndOf(s, Sent0) = 4 * o.qwc /\ o.qwc <= s.packet.qwc
         /\ o.madr + o.qwc = s.packet.dest + s.packet.qwc
         /\ \A j \in 0 .. s.packet.qwc - o.qwc - 1 : \A i \in 1 .. 4 :
              ram[s.packet.dest + j][i] = Sent0[s.packet][2 + 4 * j + i]
  BY <1>1, <1>10 DEF Flow0, Takes0
<1> DEFINE p == s.packet
           j0 == p.qwc - o.qwc
<1>12. /\ Placed(f, ichan[IOP!SIF0].count, s, Sent0) /\ p \in Sif0Packets /\ s.at \in Int
       /\ p.qwc \in Nat /\ p.dest \in Nat /\ Len(Sent0[p]) = 2 + 4 * p.qwc
       /\ p.dest + p.qwc <= RamQwords /\ RamQwords \in Nat
  <2>1. Placed(f, ichan[IOP!SIF0].count, s, Sent0)
    BY <1>10 DEF Flow0, Flow
  <2>2. p \in Sif0Packets /\ s.at \in Int
    BY <2>1, Flow0Known DEF Placed
  <2> QED BY <2>1, <2>2, Packet0Known
<1>13. /\ j0 \in Nat /\ j0 <= p.qwc - 1 /\ o.madr = p.dest + j0 /\ o.madr \in EE!Address
       /\ \A i \in 1 .. 4 : s.at + (2 + 4 * j0 + i) = i /\ 2 + 4 * j0 + i \in 1 .. 2 + 4 * p.qwc
  <2> DEFINE q == p.qwc
             dest == p.dest
             n == o.qwc
             a == o.madr
             at == s.at
  <2>1. /\ q \in Nat /\ dest \in Nat /\ n \in Nat /\ n > 0 /\ a \in Nat /\ at \in Int
        /\ at + (2 + 4 * q) = 4 * n /\ n <= q /\ a + n = dest + q
        /\ dest + q <= RamQwords /\ RamQwords \in Nat
    BY <1>1, <1>11, <1>12 DEF EndOf
  <2> HIDE DEF q, dest, n, a, at
  <2>2. /\ q - n \in Nat /\ q - n <= q - 1 /\ a = dest + (q - n) /\ a \in 0 .. RamQwords - 1
        /\ \A i \in 1 .. 4 : at + (2 + 4 * (q - n) + i) = i /\ 2 + 4 * (q - n) + i \in 1 .. 2 + 4 * q
    BY <2>1
  <2> QED BY <2>2 DEF q, dest, n, a, at, EE!Address
<1>14. ASSUME NEW i \in 1 .. 4 PROVE ws[i] = Sent0[p][2 + 4 * j0 + i]
  <2> DEFINE k == 2 + 4 * j0 + i
  <2>1. s.at + k \in 1 .. Len(f) /\ s.at + k = i /\ k \in 1 .. Len(Sent0[p])
    BY <1>2, <1>12, <1>13
  <2>2. f[s.at + k] = Sent0[p][k]
    <3> HIDE DEF f, k
    <3> QED BY <1>12, <2>1 DEF Placed, Lies
  <2>3. ws[i] = f[i]
    BY <1>2
  <2> HIDE DEF k, f
  <2>4. ws[i] = Sent0[p][k]
    BY <2>1, <2>2, <2>3
  <2> QED BY <2>4 DEF k
<1>15. MemoryKept'
  <2>1. ASSUME NEW q \in Sif1Packets, NEW a \in Sif1Area(q)
        PROVE  ram'[a] = EeMemory[a]
    <3>1. a # o.madr
      <4>1. o.madr \in p.dest .. p.dest + p.qwc - 1
        <5> DEFINE size == p.qwc
                   dest == p.dest
                   a0 == o.madr
        <5>1. size \in Nat /\ dest \in Nat /\ j0 \in Nat /\ j0 <= size - 1 /\ a0 = dest + j0
          BY <1>12, <1>13
        <5> HIDE DEF size, dest, a0, j0
        <5>2. a0 \in dest .. dest + size - 1
          BY <5>1
        <5> QED BY <5>2 DEF size, dest, a0
      <4>2. (p.dest .. p.dest + p.qwc - 1) \cap Sif1Area(q) = {}
        BY <1>12, TrafficAssumption DEF LinkInv, Controllers, Apart, Sif1Packets, Sif0Packets
      <4> QED BY <4>1, <4>2
    <3>2. a \in EE!Address
      <4> DEFINE x == q.src - 1
                 y == Sif1Tag(q).qwc
      <4>1. q.tadr \in EE!Address /\ x \in Nat /\ y \in Nat /\ x + y <= RamQwords /\ RamQwords \in Nat
        BY Packet1Known
      <4>2. a = q.tadr \/ a \in x .. q.src - 2 + y
        BY DEF Sif1Area
      <4>3. q.src - 2 + y = x + y - 1
        <5>1. q.src \in Nat
          BY Packet1Known
        <5> HIDE DEF y
        <5> QED BY <4>1, <5>1
      <4> HIDE DEF x, y
      <4>4. a = q.tadr \/ a \in 0 .. RamQwords - 1
        BY <4>1, <4>2, <4>3
      <4> QED BY <4>1, <4>4 DEF EE!Address
    <3>3. ram'[a] = ram[a]
      BY <1>5, <3>1, <3>2
    <3> QED BY <3>3 DEF LinkInv, Controllers, MemoryKept
  <2>2. \A q \in Sif0Packets : \A a \in Sif0Area(q) : iram[a] = IopMemory[a]
    BY DEF LinkInv, Controllers, MemoryKept
  <2> QED BY <1>6, <1>8, <2>1, <2>2 DEF MemoryKept, Sif1Area, Sif0Area, Sif1Tag
<1>16. /\ Flow(sif0_fifo, ichan[IOP!SIF0].count, 4 * chan[EE!SIF0].qwc, Earlier(places, 4), Sent0)'
       /\ Sends0(Earlier(places, 4))'
       /\ [at |-> s.at - 4, packet |-> s.packet] \in Earlier(places, 4)
  <2> DEFINE next == 4 * o.qwc
  <2>1. 4 \in 0 .. Len(f) /\ sif0_fifo' = SubSeq(f, 4 + 1, Len(f))
    BY <1>1, <1>2
  <2>2. next \in Int /\ 4 * chan'[EE!SIF0].qwc = next - 4
    <3>1. o.qwc \in Nat /\ chan'[EE!SIF0].qwc = o.qwc - 1
      BY <1>1, <1>3, <1>6
    <3> HIDE DEF o
    <3> QED BY <3>1
  <2>3. Flow(sif0_fifo, ichan[IOP!SIF0].count, next, places, Sent0) /\ Sends0(places)
        /\ UNCHANGED <<packets, ichan>>
    BY <1>8, <1>10 DEF Flow0
  <2> HIDE DEF o, next
  <2>4. /\ Flow(sif0_fifo, ichan[IOP!SIF0].count, 4 * chan[EE!SIF0].qwc, Earlier(places, 4), Sent0)'
        /\ Sends0(Earlier(places, 4))'
        /\ \A q \in places : [at |-> q.at - 4, packet |-> q.packet] \in Earlier(places, 4)
    BY <2>1, <2>2, <2>3, Flow0Taken
  <2> QED BY <2>4
<1>17. Takes0(Earlier(places, 4))'
  <2> DEFINE r == [at |-> s.at - 4, packet |-> s.packet]
             q == p.qwc
             dest == p.dest
             n == o.qwc
             a == o.madr
             at == s.at
  <2>1. r.packet = p /\ r.at = at - 4 /\ r \in Earlier(places, 4)
    BY <1>16
  <2>2. /\ q \in Nat /\ dest \in Nat /\ n \in Nat /\ n > 0 /\ a \in Nat /\ at \in Int
        /\ at + (2 + 4 * q) = 4 * n /\ n <= q /\ a + n = dest + q
        /\ j0 = q - n /\ dest + q <= RamQwords /\ RamQwords \in Nat
        /\ EndOf(r, Sent0) = (at - 4) + (2 + 4 * q) /\ c.qwc = n - 1 /\ c.madr = a + 1
    BY <1>1, <1>3, <1>11, <1>12, <2>1 DEF EndOf
  <2>3. /\ EndOf(r, Sent0) = 4 * c.qwc /\ c.qwc <= q /\ c.madr + c.qwc = dest + q
        /\ q - c.qwc - 1 = j0 /\ a = dest + j0 /\ j0 \in Nat
    <3> HIDE DEF r, q, dest, n, a, at, j0
    <3> QED BY <2>2
  <2>4. ASSUME NEW j \in 0 .. q - c.qwc - 1, NEW i \in 1 .. 4
        PROVE  ram'[dest + j][i] = Sent0[p][2 + 4 * j + i]
    <3>1. j \in Nat /\ j <= j0
      <4> HIDE DEF q, j0
      <4> QED BY <2>3
    <3>2. CASE j = j0
      <4>1. dest + j = a
        <5> HIDE DEF j0, a, dest
        <5> QED BY <2>3, <3>2
      <4>2. ram'[a] = ws
        BY <1>5, <1>13
      <4>3. Sent0[p][2 + 4 * j + i] = Sent0[p][2 + 4 * j0 + i]
        BY <3>2
      <4> HIDE DEF dest, a, p, j0
      <4> QED BY <1>14, <4>1, <4>2, <4>3
    <3>3. CASE j # j0
      <4>1. j \in 0 .. q - n - 1 /\ dest + j # a /\ dest + j \in 0 .. RamQwords - 1
        <5> HIDE DEF q, dest, n, a, j0
        <5> QED BY <2>2, <2>3, <3>1, <3>3
      <4>2. ram[dest + j][i] = Sent0[p][2 + 4 * j + i]
        BY <1>11, <4>1
      <4>3. ram'[dest + j] = ram[dest + j]
        BY <1>5, <4>1 DEF EE!Address
      <4> QED BY <4>2, <4>3
    <3> QED BY <3>2, <3>3
  <2>5. Sent0' = Sent0 /\ chan'[EE!SIF0] = c /\ Earlier(places, 4)' = Earlier(places, 4)
    BY <1>6 DEF Earlier
  <2>6. /\ r \in Earlier(places, 4)
        /\ EndOf(r, Sent0) = 4 * c.qwc /\ c.qwc <= r.packet.qwc
        /\ c.madr + c.qwc = r.packet.dest + r.packet.qwc
        /\ \A j \in 0 .. r.packet.qwc - c.qwc - 1 : \A i \in 1 .. 4 :
             ram'[r.packet.dest + j][i] = Sent0[r.packet][2 + 4 * j + i]
    BY <2>1, <2>3, <2>4
  <2> HIDE DEF r
  <2> QED BY <2>5, <2>6 DEF Takes0, EndOf
<1>18. (\E ps : Flow0(ps))'
  <2>1. Flow0(Earlier(places, 4))'
    BY <1>16, <1>17 DEF Flow0
  <2>2. Earlier(places, 4)' = Earlier(places, 4)
    BY DEF Earlier
  <2> QED BY <2>1
<1> QED BY <1>6, <1>9, <1>15, <1>18 DEF LinkInv, Controllers

\* The counter holds what a packet's words fill.
LEMMA CountOf ==
  ASSUME NEW q \in Nat, NEW size \in Nat, size <= 4 * q, 4 * q < size + 4, 4 * q < CountLimit
  PROVE  IOP!Truncated(IOP!RoundUp(size)) = 4 * q
<1>1. ((size + 3) \div 4) * 4 = 4 * q
  OBVIOUS
<1> DEFINE n == 4 * q
<1>2. n \in Nat /\ n < CountLimit /\ CountLimit \in Nat \ {0}
  BY TypesAssumption
<1> HIDE DEF n
<1>3. n % CountLimit = n
  BY <1>2, SMT
<1> QED BY <1>1, <1>3 DEF n, IOP!Truncated, IOP!RoundUp

\* The IOP fetches the tag of a packet and queues the EE's.
LEMMA IopFetchSif0Inv ==
  ASSUME LinkInv, IOP!FetchSif0(IOP!SIF0), UNCHANGED <<eeOnly, packets>>
  PROVE  LinkInv'
<1> DEFINE f == sif0_fifo
           o == ichan[IOP!SIF0]
           a == o.tadr
           t == IopTag[<<iram[a], iram[a + 1]>>]
           ws == <<iram[a + 2], iram[a + 3]>>
           c == [o EXCEPT !.addr = t.addr, !.count = IOP!Truncated(IOP!RoundUp(t.size)),
                          !.tadr = a + 4, !.end = t.end \/ t.irq]
<1>1. /\ o \in IOP!Channel /\ o.running /\ o.count = 0 /\ ~o.end
      /\ UNCHANGED <<enabled, flags, mask, dma_intr, iram, spu_ready, sio2_fifo, sif1_fifo, halted>>
      /\ f \in Seq(Word)
      /\ ichan \in [IOP!Channels -> IOP!Channel] /\ IOP!SIF0 \in IOP!Channels
  BY Flow0Known, SifChannels
  DEF IOP!FetchSif0, IOP!Fetching, IOP!Active, LinkInv, Controllers, TypeOK, IOP!TypeOK
<1>2. o.bit8 /\ \E p \in Sif0Packets : o.tadr = p.tadr
  BY <1>1 DEF LinkInv, Controllers, GoesOn
<1>3. ichan' = [ichan EXCEPT ![IOP!SIF0] = c] /\ sif0_fifo' = f \o ws
  BY <1>1, <1>2 DEF IOP!FetchSif0
<1>4. PICK p \in Sif0Packets : o.tadr = p.tadr
  BY <1>2
<1>5. /\ Sif0Legal(p, Sif0Packets) /\ p.tadr \in Nat /\ p.src \in Nat /\ p.qwc \in Nat
      /\ 4 * p.qwc < CountLimit /\ CountLimit \in Nat
      /\ p.tadr + 3 < IopRamWords /\ IopRamWords \in Nat
      /\ Sent0[p] \in Seq(Word) /\ Len(Sent0[p]) = 2 + 4 * p.qwc
      /\ Sent0[p][1] = IopMemory[p.tadr + 2] /\ Sent0[p][2] = IopMemory[p.tadr + 3]
      /\ p \in DOMAIN Sent0
  BY Packet0Known, Flow0Known
<1>6. /\ iram[a] = IopMemory[p.tadr] /\ iram[a + 1] = IopMemory[p.tadr + 1]
      /\ iram[a + 2] = IopMemory[p.tadr + 2] /\ iram[a + 3] = IopMemory[p.tadr + 3]
      /\ iram[a] \in Word /\ iram[a + 1] \in Word /\ iram[a + 2] \in Word /\ iram[a + 3] \in Word
  <2>1. /\ p.tadr \in p.tadr .. p.tadr + 3 /\ p.tadr + 1 \in p.tadr .. p.tadr + 3
        /\ p.tadr + 2 \in p.tadr .. p.tadr + 3 /\ p.tadr + 3 \in p.tadr .. p.tadr + 3
        /\ p.tadr .. p.tadr + 3 \subseteq IOP!Address
    <3> DEFINE b == p.tadr
    <3>1. b \in Nat /\ b + 3 < IopRamWords /\ IopRamWords \in Nat
      BY Packet0Known
    <3> HIDE DEF b
    <3>2. /\ b \in b .. b + 3 /\ b + 1 \in b .. b + 3 /\ b + 2 \in b .. b + 3 /\ b + 3 \in b .. b + 3
          /\ b .. b + 3 \subseteq 0 .. IopRamWords - 1
      BY <3>1
    <3> QED BY <3>2 DEF b, IOP!Address
  <2>2. \A b \in p.tadr .. p.tadr + 3 : iram[b] = IopMemory[b]
    BY DEF LinkInv, Controllers, MemoryKept, Sif0Area
  <2>3. \A b \in p.tadr .. p.tadr + 3 : iram[b] \in Word
    BY <2>1, Flow0Known
  <2> QED BY <1>4, <2>1, <2>2, <2>3
<1>7. t \in IOP!DmaTag /\ t = Sif0Tag(p) /\ t.size \in Nat /\ t.addr = p.src
  <2>1. t \in IOP!DmaTag
    BY <1>6, TypesAssumption
  <2>2. t = Sif0Tag(p)
    BY <1>6 DEF Sif0Tag
  <2>3. t.size \in Nat
    BY <2>1 DEF IOP!DmaTag
  <2> QED BY <1>5, <2>1, <2>2, <2>3 DEF Sif0Legal
<1>8. IOP!Truncated(IOP!RoundUp(t.size)) = 4 * p.qwc
  <2>1. t.size <= 4 * p.qwc /\ 4 * p.qwc < t.size + 4
    BY <1>5, <1>7 DEF Sif0Legal
  <2> HIDE DEF t
  <2> QED BY <1>5, <1>7, <2>1, CountOf
<1>9. t.end \/ t.irq \/ \E q \in Sif0Packets : q.tadr = p.tadr + 4
  BY <1>5, <1>7 DEF Sif0Legal
<1> HIDE DEF t
<1>10. /\ c.running /\ c.bit8 /\ c.mode = o.mode /\ c.tadr = p.tadr + 4
       /\ c.addr = p.src /\ c.count = 4 * p.qwc
  <2>1. c.running /\ c.bit8
    BY <1>1, <1>2, Zenon DEF IOP!Channel
  <2>2. c.mode = o.mode /\ c.tadr = o.tadr + 4 /\ c.addr = t.addr
        /\ c.count = IOP!Truncated(IOP!RoundUp(t.size))
    BY <1>1 DEF IOP!Channel
  <2> QED BY <1>4, <1>7, <1>8, <2>1, <2>2
<1>11. c.end <=> (t.end \/ t.irq)
  BY <1>1, Zenon DEF IOP!Channel
<1>12. c \in IOP!Channel
  <2>1. c.count \in 0 .. CountLimit - 1 /\ c.addr \in Nat /\ c.tadr \in Nat
    <3> DEFINE n == 4 * p.qwc
    <3>1. n \in Nat /\ n < CountLimit /\ CountLimit \in Nat
      BY Packet0Known
    <3>2. c.addr \in Nat /\ c.tadr \in Nat /\ c.count = n
      <4>1. p.tadr \in Nat /\ p.src \in Nat
        BY Packet0Known
      <4> HIDE DEF c
      <4> QED BY <1>10, <4>1
    <3> HIDE DEF n, c
    <3> QED BY <3>1, <3>2
  <2>2. c.end \in BOOLEAN /\ c.running \in BOOLEAN /\ c.bit8 \in BOOLEAN
    BY <1>1, <1>7 DEF IOP!Channel, IOP!DmaTag
  <2> QED BY <1>1, <1>10, <2>1, <2>2 DEF IOP!Channel
<1>13. ~c.end => \E q \in Sif0Packets : c.tadr = q.tadr
  BY <1>9, <1>10, <1>11
<1> HIDE DEF c
<1>14. /\ ws \in Seq(Word) /\ Len(ws) = 2 /\ ws[1] = Sent0[p][1] /\ ws[2] = Sent0[p][2]
       /\ f \o ws \in Seq(Word) /\ Len(f \o ws) = Len(f) + 2 /\ Len(f) \in Nat
  <2>1. ws \in Seq(Word) /\ Len(ws) = 2
    BY <1>6
  <2>2. ws[1] = Sent0[p][1] /\ ws[2] = Sent0[p][2]
    BY <1>5, <1>6
  <2> HIDE DEF f, ws
  <2>3. f \o ws \in Seq(Word) /\ Len(f \o ws) = Len(f) + Len(ws) /\ Len(f) \in Nat
    <3>1. f \in Seq(Word) /\ ws \in Seq(Word)
      BY <1>1, <2>1 DEF f
    <3>2. f \o ws \in Seq(Word) /\ Len(f) \in Nat
      BY <3>1
    <3> QED BY <3>1, <3>2, WordsQueued
  <2> QED BY <2>1, <2>2, <2>3
<1> HIDE DEF ws
<1>15. iram' \in [IOP!Address -> Word] /\ sif0_fifo' \in Seq(Word) /\ sif1_fifo' \in Seq(Word)
  BY <1>1, <1>3, <1>14 DEF LinkInv, Controllers, TypeOK, IOP!TypeOK
<1>16. /\ TypeOK' /\ OnlySif' /\ GoesOn' /\ packets' \in Traffic
       /\ Sent1' = Sent1 /\ Sent0' = Sent0
       /\ Sif1Packets' = Sif1Packets /\ Sif0Packets' = Sif0Packets
       /\ ichan'[IOP!SIF0] = c
       /\ \A other \in {IOP!SIF0, IOP!SIF1} \ {IOP!SIF0} : ichan'[other] = ichan[other]
  BY <1>1, <1>3, <1>10, <1>12, <1>13, <1>15, IopMoves
<1>17. ichan'[IOP!SIF1] = ichan[IOP!SIF1]
  BY <1>16, SifChannels
<1>18. UNCHANGED <<chan, ram>>
  BY DEF eeOnly
<1>19. (\E ps : Flow1(ps))'
  BY <1>1, <1>17, <1>18, Flow1Kept DEF LinkInv
<1>20. MemoryKept'
  BY <1>1, <1>16, <1>18 DEF LinkInv, Controllers, MemoryKept, Sif1Area, Sif0Area, Sif1Tag
<1>21. PICK places : Flow0(places)
  BY DEF LinkInv
<1>27. PICK at \in Nat : at = Len(f)
  BY <1>14
<1> DEFINE new == [at |-> at, packet |-> p]
           all == places \cup {new}
           next == 4 * chan[EE!SIF0].qwc
<1>22. Flow(f \o ws, c.count, next, all, Sent0)
  <2>1. Flow(f, 0, next, places, Sent0)
    BY <1>1, <1>21 DEF Flow0
  <2>2. next \in Int /\ \A q \in DOMAIN Sent0 : Sent0[q] \in Seq(Word)
    BY Flow0Known
  <2>3. Len(ws) <= Len(Sent0[p]) /\ \A k \in 1 .. Len(ws) : ws[k] = Sent0[p][k]
    <3> DEFINE q == p.qwc
    <3>1. q \in Nat /\ Len(Sent0[p]) = 2 + 4 * q
      BY <1>5
    <3> HIDE DEF q
    <3>2. Len(ws) <= Len(Sent0[p])
      BY <1>14, <3>1
    <3>3. \A k \in 1 .. Len(ws) : k = 1 \/ k = 2
      BY <1>14
    <3> QED BY <1>14, <3>2, <3>3
  <2>4. Flow(f \o ws, Len(Sent0[p]) - Len(ws), next, all, Sent0)
    <3> HIDE DEF f, next
    <3>1. all = places \cup {[at |-> Len(f), packet |-> p]}
      BY <1>27 DEF f
    <3> QED BY <1>1, <1>5, <1>14, <2>1, <2>2, <2>3, <3>1, FlowAnnounced, ZenonT(60)
  <2>5. Len(Sent0[p]) - Len(ws) = c.count
    BY <1>5, <1>10, <1>14
  <2> QED BY <2>4, <2>5
<1>23. Sends0(all)'
  <2>1. SUFFICES ASSUME NEW s \in all, EndOf(s, Sent0) > Len(f \o ws)
                 PROVE  s.at + 2 <= Len(f \o ws) /\ c.addr - s.packet.src = Len(f \o ws) - s.at - 2
    BY <1>3, <1>16 DEF Sends0
  <2>2. s \notin places
    <3>1. SUFFICES ASSUME s \in places PROVE FALSE
      OBVIOUS
    <3>2. Placed(f, 0, s, Sent0)
      BY <1>1, <1>21, <3>1 DEF Flow0, Flow
    <3>3. EndOf(s, Sent0) \in Int
      BY <3>2, Flow0Known DEF Placed, EndOf
    <3>4. EndOf(s, Sent0) <= Len(f)
      BY <1>14, <3>2, <3>3 DEF Placed
    <3> HIDE DEF f
    <3> QED BY <1>14, <2>1, <3>3, <3>4
  <2>3. s.at = Len(f) /\ s.packet = p
    BY <1>27, <2>2
  <2> DEFINE len == Len(f)
             g == Len(f \o ws)
             src == p.src
  <2>4. len \in Nat /\ g = len + 2 /\ s.at = len /\ src \in Nat /\ c.addr = src
    BY <1>5, <1>10, <1>14, <2>3
  <2> HIDE DEF f, len, g, src
  <2>5. s.at + 2 <= g /\ c.addr - src = g - s.at - 2
    BY <2>4
  <2> QED BY <2>3, <2>5 DEF g, src
<1>24. Takes0(all)'
  <2>1. Takes0(places) /\ \A s \in places : s \in all
    BY <1>21 DEF Flow0
  <2> HIDE DEF all
  <2>2. Takes0(all)
    BY <2>1 DEF Takes0
  <2>3. Sent0' = Sent0 /\ UNCHANGED <<chan, ram>>
    BY <1>16, <1>18
  <2> QED BY <2>2, <2>3 DEF Takes0, EndOf
<1>25. Flow0(all)'
  BY <1>3, <1>16, <1>18, <1>22, <1>23, <1>24 DEF Flow0, Flow, Placed, Followed, Lies, EndOf
<1>26. (\E ps : Flow0(ps))'
  BY <1>25
<1> QED BY <1>16, <1>19, <1>20, <1>26 DEF LinkInv, Controllers

\* The IOP queues a word of its packet.
LEMMA IopTransferSif0Inv ==
  ASSUME LinkInv, IOP!TransferSif0(IOP!SIF0), UNCHANGED <<eeOnly, packets>>
  PROVE  LinkInv'
<1> DEFINE f == sif0_fifo
           o == ichan[IOP!SIF0]
           c == IOP!Moved(o)
           ws == <<iram[o.addr]>>
<1>1. /\ o \in IOP!Channel /\ o.running /\ o.count > 0 /\ o.count \in Nat /\ o.addr \in Nat /\ o.addr \in IOP!Address
      /\ UNCHANGED <<enabled, flags, mask, dma_intr, iram, spu_ready, sio2_fifo, sif1_fifo, halted>>
      /\ f \in Seq(Word) /\ sif0_fifo' = Append(f, iram[o.addr])
      /\ ichan' = [ichan EXCEPT ![IOP!SIF0] = c]
      /\ iram[o.addr] \in Word
  BY Flow0Known, SifChannels
  DEF IOP!TransferSif0, IOP!Transferring, IOP!Active, IOP!InRam
<1>2. /\ ws \in Seq(Word) /\ Len(ws) = 1 /\ Append(f, iram[o.addr]) = f \o ws
      /\ f \o ws \in Seq(Word) /\ Len(f \o ws) = Len(f) + 1 /\ Len(f) \in Nat /\ ws[1] = iram[o.addr]
  <2> DEFINE w == iram[o.addr]
  <2>1. f \in Seq(Word) /\ w \in Word
    BY <1>1
  <2> HIDE DEF f, w
  <2>2. /\ <<w>> \in Seq(Word) /\ Len(<<w>>) = 1 /\ Len(f) \in Nat /\ <<w>>[1] = w
    BY <2>1
  <2>3. Append(f, w) = f \o <<w>>
    BY <2>1
  <2>4. f \o <<w>> \in Seq(Word) /\ Len(f \o <<w>>) = Len(f) + Len(<<w>>)
    BY <2>1, <2>2, WordsQueued
  <2> QED BY <2>2, <2>3, <2>4 DEF w
<1>3. /\ c.running = o.running /\ c.mode = o.mode /\ c.bit8 = o.bit8
      /\ c.tadr = o.tadr /\ c.end = o.end /\ c.addr = o.addr + 1 /\ c.count = o.count - 1
  <2>1. /\ c.running = o.running /\ c.mode = o.mode /\ c.bit8 = o.bit8
        /\ c.tadr = o.tadr /\ c.end = o.end
    BY <1>1 DEF IOP!Moved, IOP!Channel
  <2>2. c.addr = o.addr + 1 /\ c.count = o.count - 1
    BY <1>1 DEF IOP!Moved, IOP!Channel
  <2> QED BY <2>1, <2>2
<1>4. c \in IOP!Channel
  <2>1. c.addr \in Nat /\ c.count \in 0 .. CountLimit - 1
    <3> DEFINE n == o.count
               a == o.addr
    <3>1. n \in 0 .. CountLimit - 1 /\ n > 0 /\ CountLimit \in Nat /\ a \in Nat /\ c.addr = a + 1 /\ c.count = n - 1
      BY <1>1, <1>3, TypesAssumption DEF IOP!Channel
    <3> HIDE DEF n, a, c
    <3> QED BY <3>1
  <2> QED BY <1>1, <1>3, <2>1 DEF IOP!Moved, IOP!Channel
<1> HIDE DEF c, ws
<1>5. iram' \in [IOP!Address -> Word] /\ sif0_fifo' \in Seq(Word) /\ sif1_fifo' \in Seq(Word)
  BY <1>1, <1>2 DEF LinkInv, Controllers, TypeOK, IOP!TypeOK
<1>6. c.bit8 /\ (~c.end => \E p \in Sif0Packets : c.tadr = p.tadr)
  BY <1>1, <1>3 DEF LinkInv, Controllers, GoesOn
<1>7. /\ TypeOK' /\ OnlySif' /\ GoesOn' /\ packets' \in Traffic
      /\ Sent1' = Sent1 /\ Sent0' = Sent0
      /\ Sif1Packets' = Sif1Packets /\ Sif0Packets' = Sif0Packets
      /\ ichan'[IOP!SIF0] = c
      /\ \A other \in {IOP!SIF0, IOP!SIF1} \ {IOP!SIF0} : ichan'[other] = ichan[other]
  BY <1>1, <1>3, <1>4, <1>5, <1>6, IopMoves
<1>8. ichan'[IOP!SIF1] = ichan[IOP!SIF1]
  BY <1>7, SifChannels
<1>9. UNCHANGED <<chan, ram>>
  BY DEF eeOnly
<1>10. (\E ps : Flow1(ps))'
  BY <1>1, <1>8, <1>9, Flow1Kept DEF LinkInv
<1>11. MemoryKept'
  BY <1>1, <1>7, <1>9 DEF LinkInv, Controllers, MemoryKept, Sif1Area, Sif0Area, Sif1Tag
<1>12. PICK places : Flow0(places)
  BY DEF LinkInv
<1>13. ASSUME NEW s \in places, EndOf(s, Sent0) > Len(f)
       PROVE  ws[1] = Sent0[s.packet][Len(f) - s.at + 1]
  <2> DEFINE p == s.packet
             q == p.qwc
             src == p.src
             a == o.addr
             n == o.count
             at == s.at
             len == Len(f)
  <2>1. /\ p \in Sif0Packets /\ at \in Int /\ at + 2 <= len
        /\ at + (2 + 4 * q) = len + n /\ a - src = len - at - 2
    BY <1>12, <1>13, Sending0
  <2>2. /\ src \in Nat /\ q \in Nat /\ n \in Nat /\ n > 0 /\ a \in Nat /\ len \in Nat
        /\ \A k \in 1 .. 4 * q : Sent0[p][2 + k] = IopMemory[src + k - 1]
    BY <1>1, <1>2, <2>1, Packet0Known
  <2> DEFINE k == a - src + 1
  <2>3. k \in 1 .. 4 * q /\ len - at + 1 = 2 + k /\ src + k - 1 = a /\ a \in src .. src + 4 * q - 1
    <3> HIDE DEF p, q, src, a, n, at, len
    <3> QED BY <2>1, <2>2
  <2>4. iram[a] = IopMemory[a]
    <3>1. a \in Sif0Area(p)
      BY <2>3 DEF Sif0Area
    <3> QED BY <2>1, <3>1 DEF LinkInv, Controllers, MemoryKept
  <2>5. ws[1] = iram[a]
    BY <1>2
  <2> HIDE DEF p, q, src, a, n, k, at, len
  <2>6. ws[1] = Sent0[p][len - at + 1]
    BY <2>2, <2>3, <2>4, <2>5
  <2> QED BY <2>6 DEF len, at, p
<1> DEFINE next == 4 * chan[EE!SIF0].qwc
<1>14. Flow(f \o ws, c.count, next, places, Sent0)
  <2>1. Flow(f, o.count, next, places, Sent0)
    BY <1>12 DEF Flow0
  <2>2. next \in Int /\ \A q \in DOMAIN Sent0 : Sent0[q] \in Seq(Word)
    BY Flow0Known
  <2>3. o.count \in Nat /\ Len(ws) <= o.count /\ o.count - Len(ws) = c.count
    <3>1. o.count \in Nat /\ o.count > 0
      BY <1>1
    <3> HIDE DEF o
    <3> QED BY <1>2, <1>3, <3>1
  <2>4. \A s \in places : EndOf(s, Sent0) > Len(f) =>
          \A i \in 1 .. Len(ws) : ws[i] = Sent0[s.packet][Len(f) - s.at + i]
    <3>1. \A i \in 1 .. Len(ws) : i = 1
      BY <1>2
    <3> QED BY <1>13, <3>1
  <2>5. Flow(f \o ws, o.count - Len(ws), next, places, Sent0)
    <3> HIDE DEF f, o, next
    <3> QED BY <1>1, <1>2, <2>1, <2>2, <2>3, <2>4, FlowSent
  <2> QED BY <2>3, <2>5
<1>15. Sends0(places)'
  <2>1. SUFFICES ASSUME NEW s \in places, EndOf(s, Sent0) > Len(f \o ws)
                 PROVE  s.at + 2 <= Len(f \o ws) /\ c.addr - s.packet.src = Len(f \o ws) - s.at - 2
    BY <1>1, <1>2, <1>7 DEF Sends0
  <2>2. Placed(f, o.count, s, Sent0)
    BY <1>12 DEF Flow0, Flow
  <2>3. EndOf(s, Sent0) \in Int
    BY <2>2, Flow0Known DEF Placed, EndOf
  <2>4. EndOf(s, Sent0) > Len(f)
    <3> HIDE DEF f
    <3> QED BY <1>2, <2>1, <2>3
  <2>5. s.packet \in Sif0Packets /\ s.at \in Int /\ s.at + 2 <= Len(f)
        /\ o.addr - s.packet.src = Len(f) - s.at - 2
    BY <1>12, <2>4, Sending0
  <2>6. s.packet.src \in Nat
    BY <2>5, Packet0Known
  <2> DEFINE len == Len(f)
             g == Len(f \o ws)
             src == s.packet.src
             at == s.at
             a == o.addr
  <2>7. /\ len \in Nat /\ g = len + 1 /\ at \in Int /\ at + 2 <= len /\ src \in Nat
        /\ a - src = len - at - 2 /\ c.addr = a + 1 /\ a \in Nat
    BY <1>1, <1>2, <1>3, <2>5, <2>6
  <2> HIDE DEF f, o, len, g, src, at, a
  <2>8. at + 2 <= g /\ c.addr - src = g - at - 2
    BY <2>7
  <2> QED BY <2>8 DEF g, src, at
<1>16. Takes0(places)'
  <2>1. Takes0(places)
    BY <1>12 DEF Flow0
  <2> QED BY <1>7, <1>9, <2>1 DEF Takes0, EndOf
<1>17. Flow0(places)'
  BY <1>1, <1>2, <1>7, <1>9, <1>14, <1>15, <1>16 DEF Flow0, Flow, Placed, Followed, Lies, EndOf
<1>18. (\E ps : Flow0(ps))'
  BY <1>17
<1> QED BY <1>7, <1>10, <1>11, <1>18 DEF LinkInv, Controllers

-----------------------------------------------------------------------------
(* The invariant and its theorems.                                         *)

LEMMA InitInv == Init => LinkInv
<1> SUFFICES ASSUME Init PROVE LinkInv
  OBVIOUS
<1>1. packets \in Traffic /\ EE!InitWith(EeMemory) /\ IOP!InitWith(IopMemory)
  BY DEF Init
<1>2. /\ chan = [id \in EE!Channels |->
                   [running |-> FALSE, mode |-> 0, tte |-> FALSE, tie |-> FALSE,
                    madr |-> 0, qwc |-> 0, tadr |-> 0, end |-> FALSE]]
      /\ ram = EeMemory /\ iram = IopMemory
      /\ ichan = [id \in IOP!Channels |->
                    [running |-> FALSE, mode |-> 0, bit8 |-> FALSE,
                     addr |-> 0, count |-> 0, tadr |-> 0, end |-> FALSE]]
      /\ sif0_fifo = <<>> /\ sif1_fifo = <<>>
  BY <1>1 DEF EE!InitWith, IOP!InitWith
<1>3. /\ \A id \in EE!Channels : chan[id].running = FALSE /\ chan[id].qwc = 0 /\ chan[id].end = FALSE
      /\ \A id \in IOP!Channels : ichan[id].running = FALSE /\ ichan[id].count = 0 /\ ichan[id].end = FALSE
  BY <1>2
<1>4. EE!TypeOK
  <2>1. chan \in [EE!Channels -> EE!Channel]
    BY <1>2 DEF EE!Channel
  <2>2. vif_fifo \in [{EE!VIF0, EE!VIF1} -> Seq(Word)] /\ gif_fifo \in Seq(Word)
        /\ sif0_fifo \in Seq(Word) /\ sif1_fifo \in Seq(Word)
    BY <1>1 DEF EE!InitWith
  <2>3. irq = {} /\ irq_mask = {} /\ suspended = FALSE /\ ip1_pending = FALSE /\ halted = FALSE
    BY <1>1 DEF EE!InitWith
  <2>4. ram \in [EE!Address -> EE!Qword]
    BY <1>2, TypesAssumption
  <2> QED BY <2>1, <2>2, <2>3, <2>4 DEF EE!TypeOK
<1>5. IOP!TypeOK
  <2>1. ichan \in [IOP!Channels -> IOP!Channel]
    BY <1>2, TypesAssumption DEF IOP!Channel
  <2>2. /\ enabled = {} /\ flags = {} /\ mask = {} /\ dma_intr = FALSE /\ spu_ready = FALSE
        /\ sio2_fifo = 0 /\ halted = FALSE
    BY <1>1 DEF IOP!InitWith
  <2>3. iram \in [IOP!Address -> Word] /\ sif0_fifo \in Seq(Word) /\ sif1_fifo \in Seq(Word)
    BY <1>2, TypesAssumption
  <2>4. enabled \subseteq IOP!Channels /\ flags \subseteq IOP!Channels /\ mask \subseteq IOP!Channels
    BY <2>2
  <2>5. dma_intr \in BOOLEAN /\ spu_ready \in BOOLEAN /\ halted \in BOOLEAN
    BY <2>2
  <2>6. sio2_fifo \in Int
    BY <2>2
  <2> QED BY <2>1, <2>3, <2>4, <2>5, <2>6, Zenon DEF IOP!TypeOK
<1>6. OnlySif /\ GoesOn
  BY <1>3, SifChannels DEF OnlySif, GoesOn
<1>7. MemoryKept
  BY <1>2 DEF MemoryKept
<1>8. Len(sif0_fifo) = 0 /\ Len(sif1_fifo) = 0
  BY <1>2
<1>9. Flow1({})
  <2>1. Flow(sif1_fifo, 4 * chan[EE!SIF1].qwc, ichan[IOP!SIF1].count, {}, Sent1)
    BY <1>3, <1>8, SifChannels DEF Flow
  <2> QED BY <1>3, <2>1, SifChannels DEF Flow1, Sends1, Takes1
<1>10. Flow0({})
  <2>1. Flow(sif0_fifo, ichan[IOP!SIF0].count, 4 * chan[EE!SIF0].qwc, {}, Sent0)
    BY <1>3, <1>8, SifChannels DEF Flow
  <2> QED BY <1>3, <2>1, SifChannels DEF Flow0, Sends0, Takes0
<1> QED BY <1>1, <1>4, <1>5, <1>6, <1>7, <1>9, <1>10 DEF LinkInv, Controllers, TypeOK

\* A visit to any channel of the EE is one to a channel of the SIF.
LEMMA EeVisitInv ==
  ASSUME LinkInv, NEW id \in EE!Channels, EeVisit(id)
  PROVE  LinkInv'
<1>1. EE!ChannelStep(id) /\ UNCHANGED <<iopOnly, packets>>
  BY DEF EeVisit
<1>2. chan[id].running
  BY <1>1
  DEF EE!ChannelStep, EE!TransferVif, EE!TransferGif, EE!TransferSif0, EE!TransferSif1,
      EE!TransferUnknown, EE!EndTransfer, EE!FetchGif, EE!FetchVif, EE!FetchSif0, EE!FetchSif1,
      EE!FetchUnknown, EE!Transferring, EE!Fetching, EE!Active
<1>3. id \in {EE!SIF0, EE!SIF1}
  BY <1>2 DEF LinkInv, Controllers, OnlySif
<1>4. EE!SIF0 = 5 /\ EE!SIF1 = 6 /\ EE!GIF = 2 /\ EE!VIF0 = 0 /\ EE!VIF1 = 1
  BY DEF EE!SIF0, EE!SIF1, EE!GIF, EE!VIF0, EE!VIF1
<1>5. \/ id = EE!SIF0 /\ EE!TransferSif0(EE!SIF0)
      \/ id = EE!SIF1 /\ EE!TransferSif1(EE!SIF1)
      \/ EE!EndTransfer(id) \/ EE!FetchUnknown(id)
      \/ id = EE!SIF0 /\ EE!FetchSif0(EE!SIF0)
      \/ id = EE!SIF1 /\ EE!FetchSif1(EE!SIF1)
  <2>1. id \notin {EE!VIF0, EE!VIF1} /\ id # EE!GIF
        /\ id \in {EE!VIF0, EE!VIF1, EE!GIF, EE!SIF0, EE!SIF1}
    BY <1>3, <1>4
  <2>3. ~EE!TransferVif(id) /\ ~EE!FetchVif(id)
    BY <2>1, Zenon DEF EE!TransferVif, EE!FetchVif
  <2>4. ~EE!TransferGif(id) /\ ~EE!FetchGif(id)
    BY <2>1, Zenon DEF EE!TransferGif, EE!FetchGif
  <2>5. ~EE!TransferUnknown(id)
    BY <2>1, Zenon DEF EE!TransferUnknown
  <2>2. /\ EE!TransferSif0(id) => id = EE!SIF0
        /\ EE!TransferSif1(id) => id = EE!SIF1
        /\ EE!FetchSif0(id) => id = EE!SIF0
        /\ EE!FetchSif1(id) => id = EE!SIF1
    BY DEF EE!TransferSif0, EE!TransferSif1, EE!FetchSif0, EE!FetchSif1
  <2> QED BY <1>1, <2>2, <2>3, <2>4, <2>5, Zenon DEF EE!ChannelStep
<1> QED BY <1>1, <1>3, <1>5, EeTransferSif0Inv, EeTransferSif1Inv, EeEndsInv, EeFetchSif0Inv, EeFetchSif1Inv

LEMMA IopVisitInv ==
  ASSUME LinkInv, NEW id \in IOP!Channels, IopVisit(id)
  PROVE  LinkInv'
<1>1. IOP!ChannelStep(id) /\ UNCHANGED <<eeOnly, packets>>
  BY DEF IopVisit
<1>2. ichan[id].running
  BY <1>1
  DEF IOP!ChannelStep, IOP!TransferSpu2, IOP!TransferSif0, IOP!TransferSif1, IOP!TransferSio2in,
      IOP!TransferSio2out, IOP!EndTransfer, IOP!FetchSpu2, IOP!FetchSif0, IOP!FetchSif1,
      IOP!Unknown, IOP!Transferring, IOP!Fetching, IOP!Active
<1>3. id \in {IOP!SIF0, IOP!SIF1}
  BY <1>2 DEF LinkInv, Controllers, OnlySif
<1>4. IOP!SIF0 = 9 /\ IOP!SIF1 = 10 /\ IOP!SPU2 = 7 /\ IOP!DEV9 = 8 /\ IOP!SIO2in = 11 /\ IOP!SIO2out = 12
  BY DEF IOP!SIF0, IOP!SIF1, IOP!SPU2, IOP!DEV9, IOP!SIO2in, IOP!SIO2out
<1>5. \/ id = IOP!SIF0 /\ IOP!TransferSif0(IOP!SIF0)
      \/ id = IOP!SIF1 /\ IOP!TransferSif1(IOP!SIF1)
      \/ IOP!EndTransfer(id)
      \/ id = IOP!SIF0 /\ IOP!FetchSif0(IOP!SIF0)
      \/ id = IOP!SIF1 /\ IOP!FetchSif1(IOP!SIF1)
  <2>1. ~IOP!TransferSpu2(id) /\ ~IOP!TransferSio2in(id) /\ ~IOP!TransferSio2out(id)
        /\ ~IOP!FetchSpu2(id) /\ ~IOP!Unknown(id)
    BY <1>3, <1>4
    DEF IOP!TransferSpu2, IOP!TransferSio2in, IOP!TransferSio2out, IOP!FetchSpu2, IOP!Unknown
  <2>2. /\ IOP!TransferSif0(id) => id = IOP!SIF0
        /\ IOP!TransferSif1(id) => id = IOP!SIF1
        /\ IOP!FetchSif0(id) => id = IOP!SIF0
        /\ IOP!FetchSif1(id) => id = IOP!SIF1
    BY DEF IOP!TransferSif0, IOP!TransferSif1, IOP!FetchSif0, IOP!FetchSif1
  <2> QED BY <1>1, <2>1, <2>2 DEF IOP!ChannelStep
<1> QED BY <1>1, <1>3, <1>5, IopTransferSif0Inv, IopTransferSif1Inv, IopEndsInv, IopFetchSif0Inv, IopFetchSif1Inv

LEMMA NextInv == LinkInv /\ [Next]_vars => LinkInv'
<1> SUFFICES ASSUME LinkInv, [Next]_vars PROVE LinkInv'
  OBVIOUS
<1>1. CASE Programs
  BY <1>1, EeProgramInv, IopProgramInv DEF Programs
<1>2. ASSUME NEW id \in EE!Channels, EeVisit(id) PROVE LinkInv'
  BY <1>2, EeVisitInv
<1>3. ASSUME NEW id \in IOP!Channels, IopVisit(id) PROVE LinkInv'
  BY <1>3, IopVisitInv
<1>4. CASE UNCHANGED vars
  <2>1. UNCHANGED <<chan, irq, irq_mask, suspended, ip1_pending, ram, vif_fifo, gif_fifo,
                    ichan, enabled, flags, mask, dma_intr, iram, spu_ready, sio2_fifo,
                    sif0_fifo, sif1_fifo, halted, packets>>
    BY <1>4 DEF vars, eeOnly, iopOnly
  <2>2. TypeOK'
    BY <2>1 DEF LinkInv, Controllers, TypeOK, EE!TypeOK, IOP!TypeOK
  <2>3. OnlySif' /\ GoesOn'
    BY <2>1 DEF LinkInv, Controllers, OnlySif, GoesOn, Sif1Packets, Sif0Packets
  <2> QED BY <2>1, <2>2, <2>3, QuietStep
<1> QED BY <1>1, <1>2, <1>3, <1>4 DEF Next

\* The FIFOs hold whole packets, the rest of the last one is still with its sender, and
\* the receiver has the beginning of its packet in memory.
THEOREM LinkInvariant == Spec => []LinkInv
<1>1. Init => LinkInv
  BY InitInv
<1>2. LinkInv /\ [Next]_vars => LinkInv'
  BY NextInv
<1> QED BY <1>1, <1>2, PTL DEF Spec

\* Each side reads its tags where the other wrote them.
LEMMA InvFramed == LinkInv => Framed
<1> SUFFICES ASSUME LinkInv PROVE Framed
  OBVIOUS
<1>1. TypeOK
  BY DEF LinkInv, Controllers
<1>2. ASSUME IOP!Fetching(IOP!SIF1), Len(sif1_fifo) >= 4
      PROVE  \E p \in Sif1Packets : SubSeq(sif1_fifo, 1, 4) = EeMemory[p.src - 1]
  <2>1. PICK places : Flow1(places)
    BY DEF LinkInv
  <2>2. ichan[IOP!SIF1].count = 0
    BY <1>2 DEF IOP!Fetching
  <2>3. PICK s \in places :
           /\ s.packet \in Sif1Packets
           /\ \A i \in 1 .. 4 : sif1_fifo[i] = EeMemory[s.packet.src - 1][i]
    BY <1>2, <2>1, <2>2, Begins1
  <2>4. EeMemory[s.packet.src - 1] \in EE!Qword
    <3> DEFINE a == s.packet.src - 1
               n == Sif1Tag(s.packet).qwc
               size == s.packet.size
    <3>1. a \in Nat /\ n \in Nat /\ size \in Nat /\ 4 * n = 4 + size /\ a + n <= RamQwords /\ RamQwords \in Nat
      BY <2>3, Packet1Known
    <3> HIDE DEF a, n, size
    <3>2. a \in 0 .. RamQwords - 1
      BY <3>1
    <3> QED BY <3>2, TypesAssumption DEF a, EE!Address
  <2>5. SubSeq(sif1_fifo, 1, 4) \in EE!Qword /\ \A i \in 1 .. 4 : SubSeq(sif1_fifo, 1, 4)[i] = sif1_fifo[i]
    BY <1>2, Flow1Known, FourWords
  <2> DEFINE q == EeMemory[s.packet.src - 1]
             w == SubSeq(sif1_fifo, 1, 4)
  <2>6. q \in EE!Qword /\ w \in EE!Qword /\ \A i \in 1 .. 4 : w[i] = q[i]
    BY <2>3, <2>4, <2>5
  <2> HIDE DEF q, w
  <2>7. w = q
    BY <2>6 DEF EE!Qword
  <2> QED BY <2>3, <2>7 DEF q, w
<1>3. ASSUME EE!Fetching(EE!SIF0), Len(sif0_fifo) >= 2
      PROVE  \E p \in Sif0Packets :
               SubSeq(sif0_fifo, 1, 2) = <<IopMemory[p.tadr + 2], IopMemory[p.tadr + 3]>>
  <2>1. PICK places : Flow0(places)
    BY DEF LinkInv
  <2>2. chan[EE!SIF0].qwc = 0
    BY <1>3 DEF EE!Fetching
  <2>3. PICK s \in places :
           /\ s.packet \in Sif0Packets
           /\ sif0_fifo[1] = IopMemory[s.packet.tadr + 2] /\ sif0_fifo[2] = IopMemory[s.packet.tadr + 3]
    BY <1>3, <2>1, <2>2, Begins0
  <2>4. SubSeq(sif0_fifo, 1, 2) = <<sif0_fifo[1], sif0_fifo[2]>>
    <3> DEFINE f == sif0_fifo
    <3>1. f \in Seq(Word) /\ Len(f) >= 2
      BY <1>3, Flow0Known
    <3> HIDE DEF f
    <3> DEFINE two == SubSeq(f, 1, 2)
               pair == <<f[1], f[2]>>
    <3>2. Len(f) \in Nat /\ DOMAIN f = 1..Len(f) /\ f[1] \in Word /\ f[2] \in Word
      BY <3>1
    <3>3. two \in Seq(Word) /\ Len(two) = 2
      BY <3>1, <3>2
    <3>4. two[1] = f[1] /\ two[2] = f[2]
      BY <3>1, <3>2
    <3>5. pair \in Seq(Word) /\ Len(pair) = 2 /\ pair[1] = f[1] /\ pair[2] = f[2]
      BY <3>2
    <3> HIDE DEF two, pair
    <3>6. two = pair
      <4>1. \A i \in 1..2 : two[i] = pair[i]
        BY <3>4, <3>5
      <4> QED BY <3>3, <3>5, <4>1, SeqEqual
    <3> QED BY <3>6 DEF f, two, pair
  <2> QED BY <2>3, <2>4
<1>4. Sif1Framed
  BY <1>2 DEF Sif1Framed
<1>5. Sif0Framed
  BY <1>3 DEF Sif0Framed
<1> QED BY <1>1, <1>4, <1>5 DEF Framed

\* Neither side ever takes padding or data for a tag.
THEOREM LinkFramed == Spec => []Framed
BY LinkInvariant, InvFramed, PTL

\* What a channel that has come to its end has in memory.
LEMMA InvInPlace == LinkInv => Sif0InPlace /\ Sif1InPlace
<1> SUFFICES ASSUME LinkInv PROVE Sif0InPlace /\ Sif1InPlace
  OBVIOUS
<1>1. ASSUME EE!EndTransfer(EE!SIF0)
      PROVE  \E p \in Sif0Packets :
               /\ chan[EE!SIF0].madr = p.dest + p.qwc
               /\ \A k \in 0 .. 4 * p.qwc - 1 :
                    ram[p.dest + k \div 4][(k % 4) + 1] = IopMemory[p.src + k]
  <2>1. PICK places : Flow0(places)
    BY DEF LinkInv
  <2>2. chan[EE!SIF0].qwc = 0 /\ chan[EE!SIF0].end
    BY <1>1 DEF EE!EndTransfer
  <2>3. PICK s \in places :
         /\ chan[EE!SIF0].madr + 0 = s.packet.dest + s.packet.qwc
         /\ \A j \in 0 .. s.packet.qwc - 0 - 1 : \A i \in 1 .. 4 :
              ram[s.packet.dest + j][i] = Sent0[s.packet][2 + 4 * j + i]
    BY <2>1, <2>2 DEF Flow0, Takes0
  <2> DEFINE p == s.packet
             q == p.qwc
  <2>4. p \in Sif0Packets
    BY <2>1, Flow0Known DEF Flow0, Flow, Placed
  <2>5. q \in Nat /\ \A k \in 1 .. 4 * q : Sent0[p][2 + k] = IopMemory[p.src + k - 1]
    BY <2>4, Packet0Known
  <2>6. chan[EE!SIF0].madr = p.dest + q
    BY <2>3, Flow0Known
  <2>7. ASSUME NEW k \in 0 .. 4 * q - 1
        PROVE  ram[p.dest + k \div 4][(k % 4) + 1] = IopMemory[p.src + k]
    <3> DEFINE j == k \div 4
               i == (k % 4) + 1
    <3>1. j \in 0 .. q - 1 /\ i \in 1 .. 4 /\ k = 4 * j + i - 1
      <4> HIDE DEF q
      <4> QED BY <2>5
    <3>2. q - 0 - 1 = q - 1
      <4> HIDE DEF q
      <4> QED BY <2>5
    <3>3. ram[p.dest + j][i] = Sent0[p][2 + 4 * j + i]
      <4> HIDE DEF j, i
      <4> QED BY <2>3, <3>1, <3>2
    <3> DEFINE m == k + 1
    <3>4. m \in 1 .. 4 * q /\ 2 + 4 * j + i = 2 + m /\ p.src + m - 1 = p.src + k
      <4>1. p.src \in Nat
        BY <2>4, Packet0Known
      <4> HIDE DEF q, j, i
      <4> QED BY <2>5, <3>1, <4>1
    <3>5. Sent0[p][2 + m] = IopMemory[p.src + m - 1]
      <4> HIDE DEF m, p
      <4> QED BY <2>5, <3>4
    <3> HIDE DEF m, j, i, p
    <3>6. ram[p.dest + j][i] = IopMemory[p.src + k]
      BY <3>3, <3>4, <3>5
    <3> QED BY <3>6 DEF j, i
  <2> QED BY <2>4, <2>6, <2>7
<1>2. ASSUME IOP!EndTransfer(IOP!SIF1)
      PROVE  \E p \in Sif1Packets :
               /\ ichan[IOP!SIF1].addr = p.dest + p.size
               /\ \A k \in 0 .. p.size - 1 :
                    iram[p.dest + k] = EeMemory[p.src + k \div 4][(k % 4) + 1]
  <2>1. PICK places : Flow1(places)
    BY DEF LinkInv
  <2>2. ichan[IOP!SIF1].count = 0 /\ ichan[IOP!SIF1].end
    BY <1>2 DEF IOP!EndTransfer
  <2>3. PICK s \in places :
         /\ ichan[IOP!SIF1].addr + 0 = s.packet.dest + s.packet.size
         /\ \A k \in 0 .. s.packet.size - 0 - 1 :
              iram[s.packet.dest + k] = Sent1[s.packet][5 + k]
    BY <2>1, <2>2 DEF Flow1, Takes1
  <2> DEFINE p == s.packet
             size == p.size
             src == p.src
  <2>4. p \in Sif1Packets
    BY <2>1, Flow1Known DEF Flow1, Flow, Placed
  <2>5. size \in Nat /\ src \in Nat
        /\ \A j \in Nat, i \in 1 .. 4 :
             4 * j + i <= 4 + size => Sent1[p][4 * j + i] = EeMemory[src - 1 + j][i]
    BY <2>4, Packet1Known
  <2>6. ichan[IOP!SIF1].addr = p.dest + size
    BY <2>3, Flow1Known
  <2>7. ASSUME NEW k \in 0 .. size - 1
        PROVE  iram[p.dest + k] = EeMemory[src + k \div 4][(k % 4) + 1]
    <3> DEFINE j == k \div 4
               i == (k % 4) + 1
    <3>1. j \in Nat /\ j + 1 \in Nat /\ i \in 1 .. 4 /\ 4 * (j + 1) + i = 5 + k /\ 4 * (j + 1) + i <= 4 + size
          /\ src - 1 + (j + 1) = src + j /\ k \in 0 .. size - 0 - 1
      <4> HIDE DEF size, src
      <4> QED BY <2>5
    <3>2. iram[p.dest + k] = Sent1[p][5 + k]
      BY <2>3, <3>1
    <3>3. Sent1[p][4 * (j + 1) + i] = EeMemory[src - 1 + (j + 1)][i]
      <4> HIDE DEF j, i, p, size, src
      <4> QED BY <2>5, <3>1
    <3> HIDE DEF j, i, p, size, src
    <3>4. iram[p.dest + k] = EeMemory[src + j][i]
      BY <3>1, <3>2, <3>3
    <3> QED BY <3>4 DEF j, i
  <2> QED BY <2>4, <2>6, <2>7
<1> QED BY <1>1, <1>2 DEF Sif0InPlace, Sif1InPlace

\* When the end of a transfer is told, the packet is in memory.
THEOREM LinkComplete == Spec => Complete
<1>1. LinkInv => Sif0InPlace /\ Sif1InPlace
  BY InvInPlace
<1>2. LinkInv => [Sif0InPlace /\ Sif1InPlace]_vars
  BY <1>1
<1> QED BY <1>2, LinkInvariant, PTL DEF Complete

-----------------------------------------------------------------------------
(* The SIF's mailbox registers.                                            *)

\* What the IOP writes reaches neither the EE's bit nor the third nibble, but for bit 13.
LEMMA IopKeeps ==
  ASSUME NEW data \in SUBSET (0 .. 31), ctrl \subseteq 0 .. 31
  PROVE  /\ IopCtrl(data) \subseteq 0 .. 31
         /\ EeReady \in IopCtrl(data) <=> EeReady \in ctrl
         /\ IopCtrl(data) \cap Nibble3 \in {ctrl \cap Nibble3, {Set3}}
<1> DEFINE temp == data \cap IopBits
           c    == IF data \cap {5, 7} # {} THEN (ctrl \ Nibble3) \cup {Set3} ELSE ctrl
<1>1. \A b \in temp : b \in 0 .. 31 /\ b # EeReady /\ b \notin Nibble3
  BY DEF IopBits, EeReady, Nibble3
<1>2. /\ c \subseteq 0 .. 31
      /\ EeReady \in c <=> EeReady \in ctrl
      /\ c \cap Nibble3 \in {ctrl \cap Nibble3, {Set3}}
  <2>1. CASE data \cap {5, 7} # {}
    <3>1. c = (ctrl \ Nibble3) \cup {Set3}
      BY <2>1
    <3>2. EeReady \notin Nibble3 /\ EeReady # Set3 /\ Set3 \in Nibble3 /\ Set3 \in 0 .. 31
      BY DEF EeReady, Nibble3, Set3
    <3>3. c \cap Nibble3 = {Set3}
      BY <3>1, <3>2
    <3> QED BY <3>1, <3>2, <3>3
  <2>2. CASE data \cap {5, 7} = {}
    BY <2>2
  <2> QED BY <2>1, <2>2
<1>3. IopCtrl(data) = IF c \cap temp # {} THEN c \ temp ELSE c \cup temp
  BY DEF IopCtrl
<1> HIDE DEF temp, c
<1>4. IopCtrl(data) \cap Nibble3 = c \cap Nibble3
  BY <1>1, <1>3
<1>5. IopCtrl(data) \subseteq 0 .. 31
  <2>1. c \ temp \subseteq 0 .. 31 /\ c \cup temp \subseteq 0 .. 31
    BY <1>1, <1>2
  <2> QED BY <1>3, <2>1
<1>6. EeReady \in IopCtrl(data) <=> EeReady \in ctrl
  <2>1. EeReady \notin temp
    BY <1>1
  <2>2. EeReady \in IopCtrl(data) <=> EeReady \in c
    BY <1>3, <2>1
  <2> QED BY <1>2, <2>2
<1> QED BY <1>2, <1>4, <1>5, <1>6

\* SIF_CTRL shows whether the EE is ready and keeps its third nibble, whatever the two
\* programs write, in whatever order.
THEOREM SifCtrlAgrees == SifRegsSpec => []CtrlAgrees
<1>1. SifRegsInit => CtrlAgrees
  <2> SUFFICES ASSUME SifRegsInit PROVE CtrlAgrees
    OBVIOUS
  <2>1. SifRegsTypeOK
    BY DEF SifRegsInit, SifRegsTypeOK
  <2>2. EeReady \in ctrl <=> ee_said
    <3>1. ctrl = {} /\ ee_said = FALSE
      BY DEF SifRegsInit
    <3>2. EeReady \notin ctrl
      BY <3>1
    <3> QED BY <3>1, <3>2
  <2>3. ctrl \cap Nibble3 = {}
    BY DEF SifRegsInit
  <2> QED BY <2>1, <2>2, <2>3 DEF CtrlAgrees
<1>2. CtrlAgrees /\ [SifRegsNext]_sifRegsVars => CtrlAgrees'
  <2> SUFFICES ASSUME CtrlAgrees, [SifRegsNext]_sifRegsVars PROVE CtrlAgrees'
    OBVIOUS
  <2>1. CASE UNCHANGED sifRegsVars
    BY <2>1 DEF sifRegsVars, CtrlAgrees, SifRegsTypeOK
  <2>2. CASE SifRegsNext
    <3>1. PICK data \in SifData : \/ IopWritesCtrl(data) \/ EeWritesCtrl(data)
                                 \/ \E r \in SifMailboxes : WriteMailbox(r, data)
      BY <2>2 DEF SifRegsNext
    <3>2. data \in SUBSET (0 .. 31)
      BY SifDataAssumption
    <3>3. CASE IopWritesCtrl(data)
      BY <3>2, <3>3, IopKeeps DEF IopWritesCtrl, CtrlAgrees, SifRegsTypeOK
    <3>4. CASE EeWritesCtrl(data)
      <4>1. EeReady \in 0 .. 31 /\ EeReady \notin Nibble3
        BY DEF EeReady, Nibble3
      <4>2. ctrl' \cap Nibble3 = ctrl \cap Nibble3
        BY <3>4, <4>1 DEF EeWritesCtrl, EeCtrl
      <4>3. SifRegsTypeOK'
        <5>1. SifRegsTypeOK
          BY DEF CtrlAgrees
        <5>2. EeCtrl(data) \subseteq 0 .. 31
          BY <4>1, <5>1 DEF EeCtrl, SifRegsTypeOK
        <5>3. ctrl' \subseteq 0 .. 31 /\ mailbox' = mailbox
          BY <3>4, <5>2 DEF EeWritesCtrl
        <5>4. ee_said' \in BOOLEAN
          <6>1. ee_said' = (EeReady \in data)
            BY <3>4 DEF EeWritesCtrl
          <6>2. (EeReady \in data) \in BOOLEAN
            OBVIOUS
          <6> QED BY <6>1, <6>2, Zenon
        <5> QED BY <5>1, <5>3, <5>4, Zenon DEF SifRegsTypeOK
      <4>4. EeReady \in ctrl' <=> EeReady \in data
        BY <3>4 DEF EeWritesCtrl, EeCtrl
      <4>5. ee_said' = (EeReady \in data)
        BY <3>4 DEF EeWritesCtrl
      <4>6. EeReady \in ctrl' <=> ee_said'
        BY <4>4, <4>5, Zenon
      <4> QED BY <4>2, <4>3, <4>6 DEF CtrlAgrees
    <3>5. CASE \E r \in SifMailboxes : WriteMailbox(r, data)
      BY <3>5 DEF WriteMailbox, CtrlAgrees, SifRegsTypeOK
    <3> QED BY <3>1, <3>3, <3>4, <3>5
  <2> QED BY <2>1, <2>2
<1> QED BY <1>1, <1>2, PTL DEF SifRegsSpec
=============================================================================
