---------------------------- MODULE PathsProofs ----------------------------
(***************************************************************************)
(* The VIF and the GIF keep their place in whatever is sent to them, the   *)
(* renderer loses no vertex, and the VIF leaves in its registers and in    *)
(* the memories of the VU what the packets say.  First lemmas about        *)
(* FlattenSeq and the types of the GS, then the account of the vertices    *)
(* of a frame, the GIF, the place of the VIF, what the VIF leaves, where   *)
(* the pixels of a transfer lie, and what the GIF makes of the figures and *)
(* the images of a program.                                                *)
(***************************************************************************)
EXTENDS Vif, Gif, SequencesExt, SequenceTheorems, WellFoundedInduction, TLAPS

-----------------------------------------------------------------------------
(* What FlattenSeq, which the specifications build their streams with,     *)
(* does to sequences of any length.  It is a recursive function; the       *)
(* induction goes through the least element of a set of numbers.           *)

\* Induction, stated for a set of numbers and not for a predicate.
LEMMA SetInduction ==
  ASSUME NEW S, 0 \in S, \A n \in Nat : n \in S => n + 1 \in S
  PROVE  Nat \subseteq S
<1> DEFINE Rest == Nat \ S
           Less == {p \in Nat \X Nat : p[1] < p[2]}
<1>1. SUFFICES ASSUME Rest # {} PROVE FALSE
  OBVIOUS
<1>2. IsWellFoundedOn(Less, Nat)
  BY NatLessThanWellFounded DEF OpToRel
<1>3. PICK x \in Rest : \A y \in Rest : ~ (<<y, x>> \in Less)
  <2> HIDE DEF Less
  <2> QED BY <1>1, <1>2, WFMin
<1>4. x \in Nat /\ x # 0 /\ x - 1 \in Rest
  OBVIOUS
<1>5. <<x - 1, x>> \in Less
  BY <1>4
<1> QED BY <1>3, <1>4, <1>5

\* The two parts of a concatenation.
LEMMA ConcatParts ==
  ASSUME NEW T, NEW s \in Seq(T), NEW t \in Seq(T)
  PROVE  /\ s \o t \in Seq(T) /\ Len(s \o t) = Len(s) + Len(t)
         /\ \A i \in 1 .. Len(s) : (s \o t)[i] = s[i]
         /\ \A i \in 1 .. Len(t) : (s \o t)[Len(s) + i] = t[i]
OBVIOUS

\* The concatenation in FlattenSeq, out of the provers' sight where only its place counts.
Joined(s, t) == s \o t

\* The partial results for the first n sequences of ss.
Partial(ss, n, f) == f = [i \in 1 .. n |-> IF i = 1 THEN ss[i] ELSE Joined(f[i - 1], ss[i])]

\* The partial results, one after the other.
LEMMA PartialAt ==
  ASSUME NEW ss, NEW n \in Nat, NEW f, Partial(ss, n, f)
  PROVE  /\ n # 0 => f[1] = ss[1]
         /\ \A i \in Nat : i # 0 /\ i < n => f[i + 1] = Joined(f[i], ss[i + 1])
<1> DEFINE e(j) == IF j = 1 THEN ss[j] ELSE Joined(f[j - 1], ss[j])
<1>1. f = [j \in 1 .. n |-> e(j)]
  BY DEF Partial
<1>2. \A j \in 1 .. n : f[j] = e(j)
  <2> HIDE DEF e
  <2> QED BY <1>1
<1>3. ASSUME NEW i \in Nat, i # 0, i < n PROVE f[i + 1] = Joined(f[i], ss[i + 1])
  <2>1. i + 1 \in 1 .. n /\ i + 1 # 1 /\ (i + 1) - 1 = i
    BY <1>3
  <2>2. f[i + 1] = e(i + 1)
    <3> HIDE DEF e
    <3> QED BY <1>2, <2>1
  <2>3. e(i + 1) = Joined(f[(i + 1) - 1], ss[i + 1])
    BY <2>1, Zenon
  <2> QED BY <2>1, <2>2, <2>3, Zenon
<1>4. n # 0 => f[1] = ss[1]
  BY <1>2
<1> QED BY <1>3, <1>4

\* There are partial results for any number of sequences.
LEMMA PartialExists ==
  ASSUME NEW ss, NEW n \in Nat
  PROVE  \E f : Partial(ss, n, f)
<1> DEFINE S == {m \in Nat : \E f : Partial(ss, m, f)}
<1>1. 0 \in S
  <2>1. Partial(ss, 0, [i \in 1 .. 0 |-> 0])
    BY DEF Partial
  <2> QED BY <2>1
<1>2. ASSUME NEW m \in Nat, m \in S PROVE m + 1 \in S
  <2>1. PICK f : Partial(ss, m, f)
    BY <1>2
  <2> DEFINE g == [i \in 1 .. m + 1 |->
                     IF i = 1 THEN ss[i] ELSE IF i = m + 1 THEN Joined(f[m], ss[i]) ELSE f[i]]
  <2>2. ASSUME NEW i \in 1 .. m + 1
        PROVE  g[i] = IF i = 1 THEN ss[i] ELSE Joined(g[i - 1], ss[i])
    <3>1. CASE i = 1
      BY <3>1
    <3>2. CASE i # 1
      <4> DEFINE j == i - 1
      <4>1. j \in Nat /\ j # 0 /\ j <= m /\ i = j + 1 /\ j \in 1 .. m + 1 /\ j # m + 1
        BY <3>2
      <4> HIDE DEF j
      <4>2. j = 1 => f[j] = ss[j]
        BY <4>1, <2>1, PartialAt
      <4>3. g[j] = f[j]
        BY <4>1, <4>2
      <4>4. j < m => f[j + 1] = Joined(f[j], ss[j + 1])
        BY <4>1, <2>1, PartialAt
      <4>5. CASE j = m
        <5>1. g[i] = Joined(f[m], ss[i])
          BY <3>2, <4>1, <4>5
        <5> QED BY <3>2, <4>3, <4>5, <5>1 DEF j
      <4>6. CASE j < m
        <5>1. g[i] = f[i] /\ i = j + 1
          BY <3>2, <4>1, <4>6
        <5> QED BY <3>2, <4>3, <4>4, <4>6, <5>1 DEF j
      <4> QED BY <4>1, <4>5, <4>6
    <3> QED BY <3>1, <3>2
  <2>3. Partial(ss, m + 1, g)
    <3> HIDE DEF g
    <3>1. g = [i \in 1 .. m + 1 |-> g[i]]
      BY DEF g
    <3> QED BY <2>2, <3>1 DEF Partial
  <2> QED BY <2>3
<1>3. Nat \subseteq S
  <2> HIDE DEF S
  <2> QED BY <1>1, <1>2, SetInduction
<1> QED BY <1>3

\* Two lists that agree up to the end of the shorter have the same partial results so far.
LEMMA PartialUnique ==
  ASSUME NEW ss, NEW tt, NEW m \in Nat, NEW n \in Nat, NEW f, NEW g,
         Partial(ss, m, f), Partial(tt, n, g),
         m <= n, \A i \in 1 .. m : ss[i] = tt[i]
  PROVE  \A i \in 1 .. m : f[i] = g[i]
<1> DEFINE S == {j \in Nat : j \in 1 .. m => f[j] = g[j]}
<1>1. 0 \in S
  OBVIOUS
<1>2. ASSUME NEW j \in Nat, j \in S PROVE j + 1 \in S
  <2>1. SUFFICES ASSUME j + 1 \in 1 .. m PROVE f[j + 1] = g[j + 1]
    OBVIOUS
  <2>2. m # 0 /\ n # 0 /\ j < m /\ j < n /\ ss[j + 1] = tt[j + 1]
    BY <2>1
  <2>3. CASE j = 0
    <3>1. f[1] = ss[1] /\ g[1] = tt[1] /\ ss[1] = tt[1]
      BY <2>2, <2>3, PartialAt
    <3> QED BY <2>3, <3>1
  <2>4. CASE j # 0
    <3>1. f[j] = g[j]
      BY <1>2, <2>1, <2>4
    <3>2. f[j + 1] = Joined(f[j], ss[j + 1]) /\ g[j + 1] = Joined(g[j], tt[j + 1])
      BY <2>2, <2>4, PartialAt
    <3> QED BY <2>2, <3>1, <3>2
  <2> QED BY <2>3, <2>4
<1>3. Nat \subseteq S
  <2> HIDE DEF S
  <2> QED BY <1>1, <1>2, SetInduction
<1> QED BY <1>3

\* The partial results for one sequence more.
LEMMA PartialExtends ==
  ASSUME NEW ss, NEW tt, NEW n \in Nat, n # 0, NEW f, NEW g,
         Partial(ss, n, f), Partial(tt, n + 1, g), \A i \in 1 .. n : ss[i] = tt[i]
  PROVE  g[n + 1] = Joined(f[n], tt[n + 1])
<1>1. n + 1 \in Nat /\ n <= n + 1 /\ n \in 1 .. n /\ n < n + 1
  OBVIOUS
<1>2. \A i \in 1 .. n : f[i] = g[i]
  BY <1>1, PartialUnique
<1>3. g[n + 1] = Joined(g[n], tt[n + 1])
  BY <1>1, PartialAt
<1> QED BY <1>1, <1>2, <1>3

\* FlattenSeq is the last partial result.
LEMMA FlattenIsPartial ==
  ASSUME NEW T, NEW ss \in Seq(T), ss # <<>>
  PROVE  \E f : Partial(ss, Len(ss), f) /\ FlattenSeq(ss) = f[Len(ss)]
<1> DEFINE f == CHOOSE h : Partial(ss, Len(ss), h)
<1>1. Partial(ss, Len(ss), f)
  BY PartialExists
<1>2. FlattenSeq(ss) = f[Len(ss)]
  BY DEF FlattenSeq, Partial, Joined
<1> QED BY <1>1, <1>2

\* Nothing to concatenate.
LEMMA FlattenEmpty == FlattenSeq(<<>>) = <<>>
BY DEF FlattenSeq

\* One sequence is its own concatenation.
LEMMA FlattenOne ==
  ASSUME NEW T, NEW s \in T
  PROVE  FlattenSeq(<<s>>) = s
<1>1. <<s>> \in Seq(T) /\ <<s>> # <<>> /\ Len(<<s>>) = 1 /\ <<s>>[1] = s
  OBVIOUS
<1> DEFINE ss == <<s>>
<1> HIDE DEF ss
<1>2. PICK f : Partial(ss, Len(ss), f) /\ FlattenSeq(ss) = f[Len(ss)]
  BY <1>1, FlattenIsPartial DEF ss
<1>3. f[1] = ss[1]
  BY <1>1, <1>2, PartialAt DEF ss
<1> QED BY <1>1, <1>2, <1>3 DEF ss

\* One sequence more goes behind the concatenation of the others.
LEMMA FlattenAppend ==
  ASSUME NEW T, NEW ss \in Seq(Seq(T)), NEW s \in Seq(T)
  PROVE  FlattenSeq(Append(ss, s)) = FlattenSeq(ss) \o s
<1> DEFINE tt == Append(ss, s)
           n  == Len(ss)
<1>1. CASE ss = <<>>
  <2>1. Append(ss, s) = <<s>> /\ <<>> \o s = s
    BY <1>1
  <2> QED BY <1>1, <2>1, FlattenOne, FlattenEmpty
<1>2. CASE ss # <<>>
  <2>1. tt \in Seq(Seq(T)) /\ tt # <<>> /\ Len(tt) = n + 1 /\ tt[n + 1] = s
    BY AppendProperties
  <2>2. n \in Nat /\ n # 0
    BY <1>2
  <2>3. \A i \in 1 .. n : ss[i] = tt[i]
    BY AppendProperties
  <2>4. PICK f : Partial(ss, n, f) /\ FlattenSeq(ss) = f[n]
    BY <1>2, FlattenIsPartial
  <2> HIDE DEF tt, n
  <2>5. PICK g : Partial(tt, n + 1, g) /\ FlattenSeq(tt) = g[n + 1]
    <3>1. \E g : Partial(tt, Len(tt), g) /\ FlattenSeq(tt) = g[Len(tt)]
      BY <2>1, FlattenIsPartial
    <3> QED BY <2>1, <3>1
  <2>6. g[n + 1] = Joined(f[n], tt[n + 1])
    BY <2>2, <2>3, <2>4, <2>5, PartialExtends
  <2> QED BY <2>1, <2>4, <2>5, <2>6 DEF tt, Joined
<1> QED BY <1>1, <1>2

\* What the first k sequences of ss are together.
Upto(ss, k) == FlattenSeq(SubSeq(ss, 1, k))

\* The concatenation of the first sequences grows by the next one.
LEMMA UptoNext ==
  ASSUME NEW T, NEW ss \in Seq(Seq(T)), NEW k \in Nat, k < Len(ss)
  PROVE  Upto(ss, k + 1) = Upto(ss, k) \o ss[k + 1]
<1> DEFINE pre == SubSeq(ss, 1, k)
<1>1. pre \in Seq(Seq(T)) /\ ss[k + 1] \in Seq(T)
  OBVIOUS
<1>2. SubSeq(ss, 1, k + 1) = Append(pre, ss[k + 1])
  OBVIOUS
<1> HIDE DEF pre
<1>3. FlattenSeq(Append(pre, ss[k + 1])) = FlattenSeq(pre) \o ss[k + 1]
  BY <1>1, FlattenAppend
<1> QED BY <1>2, <1>3 DEF Upto, pre

\* The concatenation of none of the sequences, and of all of them.
LEMMA UptoEnds ==
  ASSUME NEW T, NEW ss \in Seq(Seq(T))
  PROVE  Upto(ss, 0) = <<>> /\ Upto(ss, Len(ss)) = FlattenSeq(ss)
<1>1. SubSeq(ss, 1, 0) = <<>> /\ SubSeq(ss, 1, Len(ss)) = ss
  OBVIOUS
<1> QED BY <1>1, FlattenEmpty DEF Upto

\* The concatenation of the first sequences is a sequence of their elements.
LEMMA UptoType ==
  ASSUME NEW T, NEW ss \in Seq(Seq(T)), NEW k \in Nat, k <= Len(ss)
  PROVE  Upto(ss, k) \in Seq(T)
<1> DEFINE S == {n \in Nat : n <= Len(ss) => Upto(ss, n) \in Seq(T)}
<1>1. 0 \in S
  <2>1. Upto(ss, 0) = <<>> /\ <<>> \in Seq(T)
    BY UptoEnds
  <2> QED BY <2>1
<1>2. ASSUME NEW n \in Nat, n \in S PROVE n + 1 \in S
  <2>1. SUFFICES ASSUME n + 1 <= Len(ss) PROVE Upto(ss, n + 1) \in Seq(T)
    OBVIOUS
  <2>2. n < Len(ss) /\ ss[n + 1] \in Seq(T) /\ Upto(ss, n) \in Seq(T)
    BY <1>2, <2>1
  <2>3. Upto(ss, n + 1) = Upto(ss, n) \o ss[n + 1]
    BY <2>2, UptoNext
  <2> QED BY <2>2, <2>3, ConcatProperties
<1>3. Nat \subseteq S
  <2> HIDE DEF S
  <2> QED BY <1>1, <1>2, SetInduction
<1> QED BY <1>3

\* The concatenation of sequences is a sequence of their elements.
LEMMA FlattenType ==
  ASSUME NEW T, NEW ss \in Seq(Seq(T))
  PROVE  FlattenSeq(ss) \in Seq(T)
<1>1. Len(ss) \in Nat /\ Len(ss) <= Len(ss)
  OBVIOUS
<1> QED BY <1>1, UptoType, UptoEnds

\* The first k sequences are the beginning of all of them.
LEMMA UptoPrefix ==
  ASSUME NEW T, NEW ss \in Seq(Seq(T)), NEW k \in Nat, k <= Len(ss)
  PROVE  /\ Len(Upto(ss, k)) <= Len(FlattenSeq(ss))
         /\ \A j \in 1 .. Len(Upto(ss, k)) : FlattenSeq(ss)[j] = Upto(ss, k)[j]
<1> DEFINE Begins(n) == /\ Len(Upto(ss, k)) <= Len(Upto(ss, n))
                        /\ \A j \in 1 .. Len(Upto(ss, k)) : Upto(ss, n)[j] = Upto(ss, k)[j]
           S == {d \in Nat : k + d <= Len(ss) => Begins(k + d)}
<1>1. 0 \in S
  <2>1. Upto(ss, k) \in Seq(T) /\ k + 0 = k
    BY UptoType
  <2> QED BY <2>1
<1>2. ASSUME NEW d \in Nat, d \in S PROVE d + 1 \in S
  <2> DEFINE n == k + d
  <2>1. SUFFICES ASSUME k + (d + 1) <= Len(ss) PROVE Begins(k + (d + 1))
    OBVIOUS
  <2>2. n \in Nat /\ n < Len(ss) /\ n <= Len(ss) /\ k + (d + 1) = n + 1
    BY <2>1
  <2>3. Begins(n)
    BY <1>2, <2>2
  <2> HIDE DEF n
  <2>4. Upto(ss, n) \in Seq(T) /\ Upto(ss, k) \in Seq(T) /\ ss[n + 1] \in Seq(T)
    BY <2>2, UptoType
  <2>5. Upto(ss, n + 1) = Upto(ss, n) \o ss[n + 1]
    BY <2>2, UptoNext
  <2> DEFINE u == Upto(ss, n)
             v == Upto(ss, k)
             w == ss[n + 1]
  <2>6. Len(v) <= Len(u) /\ \A j \in 1 .. Len(v) : u[j] = v[j]
    BY <2>3
  <2>7. Len(v) <= Len(u \o w) /\ \A j \in 1 .. Len(v) : (u \o w)[j] = v[j]
    <3>1. u \in Seq(T) /\ v \in Seq(T) /\ w \in Seq(T)
      BY <2>4
    <3> HIDE DEF u, v, w
    <3>2. /\ Len(u \o w) = Len(u) + Len(w) /\ Len(u) \in Nat /\ Len(v) \in Nat /\ Len(w) \in Nat
          /\ \A j \in 1 .. Len(u) + Len(w) : (u \o w)[j] = IF j <= Len(u) THEN u[j] ELSE w[j - Len(u)]
      BY <3>1, ConcatProperties
    <3> QED BY <2>6, <3>2
  <2> QED BY <2>2, <2>5, <2>7
<1>3. Nat \subseteq S
  <2> HIDE DEF S
  <2> QED BY <1>1, <1>2, SetInduction
<1>4. Len(ss) - k \in Nat /\ k + (Len(ss) - k) = Len(ss) /\ Len(ss) <= Len(ss)
  OBVIOUS
<1>5. Begins(Len(ss))
  <2> HIDE DEF Begins
  <2> QED BY <1>3, <1>4
<1> QED BY <1>5, UptoEnds

\* Where the k-th sequence lies.
LEMMA FlattenPart ==
  ASSUME NEW T, NEW ss \in Seq(Seq(T)), NEW k \in 1 .. Len(ss)
  PROVE  /\ Len(Upto(ss, k - 1)) \in Nat
         /\ Len(Upto(ss, k)) = Len(Upto(ss, k - 1)) + Len(ss[k])
         /\ Len(Upto(ss, k)) <= Len(FlattenSeq(ss))
         /\ \A j \in 1 .. Len(ss[k]) : FlattenSeq(ss)[Len(Upto(ss, k - 1)) + j] = ss[k][j]
<1> DEFINE m == k - 1
           u == Upto(ss, m)
<1>1. m \in Nat /\ m < Len(ss) /\ m <= Len(ss) /\ k = m + 1 /\ k \in Nat /\ k <= Len(ss)
  OBVIOUS
<1> HIDE DEF m
<1>2. u \in Seq(T) /\ ss[k] \in Seq(T)
  BY <1>1, UptoType
<1>3. Upto(ss, k) = u \o ss[k]
  BY <1>1, UptoNext
<1>4. /\ Len(Upto(ss, k)) <= Len(FlattenSeq(ss))
      /\ \A j \in 1 .. Len(Upto(ss, k)) : FlattenSeq(ss)[j] = Upto(ss, k)[j]
  BY <1>1, UptoPrefix
<1> DEFINE w == ss[k]
<1>5. /\ Len(u) \in Nat /\ Len(w) \in Nat /\ Len(u \o w) = Len(u) + Len(w)
      /\ \A j \in 1 .. Len(w) : Len(u) + j \in 1 .. Len(u \o w) /\ (u \o w)[Len(u) + j] = w[j]
  <2>1. u \in Seq(T) /\ w \in Seq(T)
    BY <1>2
  <2> HIDE DEF u, w
  <2> QED BY <2>1
<1> QED BY <1>3, <1>4, <1>5 DEF m

\* A sequence that is a head with a body behind it, and where the k-th one lies.
Headed(s, head, body) == s = <<head>> \o body
LaidOut(ss, k, head, body) ==
  /\ Len(Upto(ss, k - 1)) \in Nat
  /\ Len(Upto(ss, k)) = Len(Upto(ss, k - 1)) + 1 + Len(body)
  /\ Len(Upto(ss, k)) <= Len(FlattenSeq(ss))
  /\ FlattenSeq(ss)[Len(Upto(ss, k - 1)) + 1] = head
  /\ \A j \in 1 .. Len(body) : FlattenSeq(ss)[Len(Upto(ss, k - 1)) + 1 + j] = body[j]

\* A head and its body lie in the concatenation where the packets before them end.
LEMMA FlattenPacket ==
  ASSUME NEW T, NEW ss \in Seq(Seq(T)), NEW k \in 1 .. Len(ss),
         NEW head \in T, NEW body \in Seq(T), Headed(ss[k], head, body)
  PROVE  LaidOut(ss, k, head, body)
<1> DEFINE from == Len(Upto(ss, k - 1))
           upto == Len(Upto(ss, k))
           w    == FlattenSeq(ss)
           s    == ss[k]
<1>1. from \in Nat /\ upto = from + Len(s) /\ upto <= Len(w) /\ \A j \in 1 .. Len(s) : w[from + j] = s[j]
  BY FlattenPart
<1>2. /\ Len(s) = 1 + Len(body) /\ s[1] = head /\ Len(body) \in Nat
      /\ \A j \in 1 .. Len(body) : s[1 + j] = body[j]
  <2>1. <<head>> \in Seq(T) /\ Len(<<head>>) = 1 /\ <<head>>[1] = head
    OBVIOUS
  <2> DEFINE h == <<head>>
  <2> HIDE DEF h
  <2>2. h \in Seq(T) /\ Len(h) = 1 /\ h[1] = head
    BY <2>1 DEF h
  <2>3. /\ Len(h \o body) = Len(h) + Len(body)
        /\ \A j \in 1 .. Len(h) : (h \o body)[j] = h[j]
        /\ \A j \in 1 .. Len(body) : (h \o body)[Len(h) + j] = body[j]
    <3>1. h \in Seq(T)
      BY <2>2
    <3> QED BY <3>1, ConcatParts
  <2>4. s = h \o body /\ Len(body) \in Nat
    BY DEF h, Headed
  <2> HIDE DEF s
  <2> QED BY <2>2, <2>3, <2>4
<1> HIDE DEF from, upto, w, s
<1>3. upto = from + 1 + Len(body)
  BY <1>1, <1>2
<1>4. w[from + 1] = head
  BY <1>1, <1>2
<1>5. ASSUME NEW j \in 1 .. Len(body) PROVE w[from + 1 + j] = body[j]
  <2>1. 1 + j \in 1 .. Len(s) /\ from + (1 + j) = from + 1 + j
    BY <1>1, <1>2
  <2> QED BY <1>1, <1>2, <2>1
<1> QED BY <1>1, <1>3, <1>4, <1>5 DEF from, upto, w, LaidOut

\* The part of a sequence that waits in a queue, when one is put in and one taken out.
LEMMA Window ==
  ASSUME NEW T, NEW w \in Seq(T), NEW from \in Nat, NEW upto \in Nat, from <= upto, upto <= Len(w)
  PROVE  /\ SubSeq(w, from + 1, upto) \in Seq(T) /\ Len(SubSeq(w, from + 1, upto)) = upto - from
         /\ upto < Len(w) => Append(SubSeq(w, from + 1, upto), w[upto + 1]) = SubSeq(w, from + 1, upto + 1)
         /\ from < upto => /\ Head(SubSeq(w, from + 1, upto)) = w[from + 1]
                           /\ Tail(SubSeq(w, from + 1, upto)) = SubSeq(w, from + 2, upto)
<1>1. SubSeq(w, from + 1, upto) \in Seq(T) /\ Len(SubSeq(w, from + 1, upto)) = upto - from
  OBVIOUS
<1>2. ASSUME upto < Len(w)
      PROVE  Append(SubSeq(w, from + 1, upto), w[upto + 1]) = SubSeq(w, from + 1, upto + 1)
  BY <1>2
<1>3. ASSUME from < upto
      PROVE  /\ Head(SubSeq(w, from + 1, upto)) = w[from + 1]
             /\ Tail(SubSeq(w, from + 1, upto)) = SubSeq(w, from + 2, upto)
  BY <1>3
<1> QED BY <1>1, <1>2, <1>3

\* The same for several put in or taken out at once.
LEMMA WindowMoves ==
  ASSUME NEW T, NEW w \in Seq(T), NEW from \in Nat, NEW upto \in Nat, NEW n \in Nat, from <= upto,
         upto <= Len(w)
  PROVE  /\ upto + n <= Len(w) =>
              SubSeq(w, from + 1, upto) \o SubSeq(w, upto + 1, upto + n) = SubSeq(w, from + 1, upto + n)
         /\ from + n <= upto =>
              SubSeq(SubSeq(w, from + 1, upto), n + 1, Len(SubSeq(w, from + 1, upto)))
                = SubSeq(w, from + n + 1, upto)
<1> DEFINE s == SubSeq(w, from + 1, upto)
<1>1. s \in Seq(T) /\ Len(s) = upto - from /\ \A i \in 1 .. upto - from : s[i] = w[from + i]
  OBVIOUS
<1>2. ASSUME upto + n <= Len(w)
      PROVE  s \o SubSeq(w, upto + 1, upto + n) = SubSeq(w, from + 1, upto + n)
  BY <1>2
<1>3. ASSUME from + n <= upto
      PROVE  SubSeq(s, n + 1, Len(s)) = SubSeq(w, from + n + 1, upto)
  <2> DEFINE r == SubSeq(s, n + 1, Len(s))
             v == SubSeq(w, from + n + 1, upto)
  <2>1. /\ r \in Seq(T) /\ Len(r) = Len(s) - n
        /\ \A i \in 1 .. Len(s) - n : r[i] = s[n + i]
    <3> HIDE DEF s
    <3> QED BY <1>1, <1>3
  <2>2. /\ v \in Seq(T) /\ Len(v) = upto - (from + n)
        /\ \A i \in 1 .. upto - (from + n) : v[i] = w[from + n + i]
    BY <1>3
  <2> HIDE DEF r, v, s
  <2>3. Len(r) = Len(v)
    BY <1>1, <2>1, <2>2
  <2>4. ASSUME NEW i \in 1 .. Len(v) PROVE r[i] = v[i]
    <3>1. n + i \in 1 .. upto - from /\ i \in 1 .. Len(s) - n /\ from + (n + i) = from + n + i
      BY <1>1, <2>2
    <3> QED BY <1>1, <2>1, <2>2, <3>1
  <2>5. r = v
    BY <2>1, <2>2, <2>3, <2>4, SeqEqual
  <2> QED BY <2>5 DEF r, v
<1> QED BY <1>2, <1>3

\* Adding to a window, alone.
LEMMA WindowGrows ==
  ASSUME NEW T, NEW w \in Seq(T), NEW from \in Nat, NEW upto \in Nat, NEW n \in Nat, from <= upto,
         upto + n <= Len(w)
  PROVE  SubSeq(w, from + 1, upto) \o SubSeq(w, upto + 1, upto + n) = SubSeq(w, from + 1, upto + n)
<1>1. upto <= Len(w)
  OBVIOUS
<1> QED BY <1>1, WindowMoves

-----------------------------------------------------------------------------
(* What a program sends is packets: a head, which says how much follows,   *)
(* and a body.                                                             *)

PacketsOver(T) == [head : T, body : Seq(T)]
Wired(packets) == [k \in DOMAIN packets |-> <<packets[k].head>> \o packets[k].body]

\* Where the k-th packet begins in what is sent.
Start(packets, k) == Len(FlattenSeq(Wired(SubSeq(packets, 1, k - 1))))

\* Packets on the wire are sequences of words.
LEMMA WiredType ==
  ASSUME NEW T, NEW packets \in Seq(PacketsOver(T))
  PROVE  /\ Wired(packets) \in Seq(Seq(T)) /\ Len(Wired(packets)) = Len(packets)
         /\ \A k \in 1 .. Len(packets) : Wired(packets)[k] = <<packets[k].head>> \o packets[k].body
<1>1. DOMAIN packets = 1 .. Len(packets) /\ Len(packets) \in Nat
  OBVIOUS
<1> DEFINE at(k) == <<packets[k].head>> \o packets[k].body
<1>2. ASSUME NEW k \in 1 .. Len(packets) PROVE at(k) \in Seq(T)
  <2>1. packets[k] \in PacketsOver(T)
    OBVIOUS
  <2>2. packets[k].head \in T /\ packets[k].body \in Seq(T)
    BY <2>1 DEF PacketsOver
  <2>3. <<packets[k].head>> \in Seq(T)
    BY <2>2
  <2> QED BY <2>2, <2>3, ConcatProperties
<1>3. Wired(packets) = [k \in 1 .. Len(packets) |-> at(k)]
  BY <1>1 DEF Wired
<1> HIDE DEF at
<1>4. /\ Wired(packets) \in Seq(Seq(T)) /\ Len(Wired(packets)) = Len(packets)
      /\ \A k \in 1 .. Len(packets) : Wired(packets)[k] = at(k)
  BY <1>1, <1>2, <1>3
<1> QED BY <1>4 DEF at

\* The first packets on the wire are those of the first packets.
LEMMA WiredPrefix ==
  ASSUME NEW T, NEW packets \in Seq(PacketsOver(T)), NEW n \in Nat, n <= Len(packets)
  PROVE  FlattenSeq(Wired(SubSeq(packets, 1, n))) = Upto(Wired(packets), n)
<1> DEFINE front == SubSeq(packets, 1, n)
           w     == Wired(packets)
<1>1. DOMAIN front = 1 .. n /\ \A k \in 1 .. n : front[k] = packets[k]
  OBVIOUS
<1>2. /\ w \in Seq(Seq(T)) /\ Len(w) = Len(packets)
      /\ \A k \in 1 .. Len(packets) : w[k] = <<packets[k].head>> \o packets[k].body
  BY WiredType
<1>3. Wired(front) = [k \in 1 .. n |-> w[k]]
  <2> HIDE DEF front, w
  <2>1. ASSUME NEW k \in 1 .. n PROVE <<front[k].head>> \o front[k].body = w[k]
    <3>1. front[k] = packets[k] /\ k \in 1 .. Len(packets)
      BY <1>1
    <3>2. w[k] = <<packets[k].head>> \o packets[k].body
      BY <1>2, <3>1
    <3> QED BY <3>1, <3>2, Zenon
  <2> QED BY <1>1, <2>1 DEF Wired
<1> HIDE DEF w
<1>4. SubSeq(w, 1, n) = [k \in 1 .. n |-> w[k]]
  BY <1>2
<1> QED BY <1>3, <1>4 DEF Upto, Wired, front, w

\* Where the packets lie in what is sent.
LEMMA PacketsLaidOut ==
  ASSUME NEW T, NEW packets \in Seq(PacketsOver(T))
  PROVE  LET n    == Len(packets)
             wire == FlattenSeq(Wired(packets))
         IN  /\ wire \in Seq(T) /\ Start(packets, 1) = 0 /\ Start(packets, n + 1) = Len(wire)
             /\ \A k \in 1 .. n + 1 : Start(packets, k) \in Nat
             /\ \A k \in 1 .. n :
                  /\ Start(packets, k + 1) = Start(packets, k) + 1 + Len(packets[k].body)
                  /\ Start(packets, k + 1) <= Len(wire)
                  /\ wire[Start(packets, k) + 1] = packets[k].head
                  /\ \A j \in 1 .. Len(packets[k].body) :
                       wire[Start(packets, k) + 1 + j] = packets[k].body[j]
<1> DEFINE n  == Len(packets)
           ss == Wired(packets)
           first(k) == Start(packets, k)
<1>1. n \in Nat /\ DOMAIN packets = 1 .. n
  OBVIOUS
<1>2. /\ ss \in Seq(Seq(T)) /\ Len(ss) = n
      /\ \A k \in 1 .. n : ss[k] = <<packets[k].head>> \o packets[k].body
  BY WiredType
<1>3. ASSUME NEW k \in 1 .. n + 1 PROVE first(k) = Len(Upto(ss, k - 1))
  <2>1. k - 1 \in Nat /\ k - 1 <= n
    BY <1>1
  <2>2. FlattenSeq(Wired(SubSeq(packets, 1, k - 1))) = Upto(ss, k - 1)
    BY <2>1, WiredPrefix
  <2> QED BY <2>2 DEF Start
<1> HIDE DEF ss, first
<1>4. FlattenSeq(ss) \in Seq(T)
  BY <1>2, FlattenType
<1>5. first(1) = 0 /\ first(n + 1) = Len(FlattenSeq(ss))
  <2>1. Upto(ss, 0) = <<>> /\ Upto(ss, Len(ss)) = FlattenSeq(ss)
    BY <1>2, UptoEnds
  <2>2. 1 \in 1 .. n + 1 /\ n + 1 \in 1 .. n + 1 /\ 1 - 1 = 0 /\ (n + 1) - 1 = n /\ Len(<<>>) = 0
    BY <1>1
  <2>3. first(1) = Len(Upto(ss, 1 - 1)) /\ first(n + 1) = Len(Upto(ss, (n + 1) - 1))
    BY <1>3, <2>2
  <2> QED BY <1>2, <2>1, <2>2, <2>3
<1>6. ASSUME NEW k \in 1 .. n + 1 PROVE first(k) \in Nat
  <2>1. k - 1 \in Nat /\ k - 1 <= Len(ss)
    BY <1>1, <1>2
  <2>2. Upto(ss, k - 1) \in Seq(T)
    BY <1>2, <2>1, UptoType
  <2>3. Len(Upto(ss, k - 1)) \in Nat
    BY <2>2
  <2> QED BY <1>3, <2>3
<1>7. ASSUME NEW k \in 1 .. n
      PROVE  /\ first(k + 1) = first(k) + 1 + Len(packets[k].body)
             /\ first(k + 1) <= Len(FlattenSeq(ss))
             /\ FlattenSeq(ss)[first(k) + 1] = packets[k].head
             /\ \A j \in 1 .. Len(packets[k].body) :
                  FlattenSeq(ss)[first(k) + 1 + j] = packets[k].body[j]
  <2> DEFINE head == packets[k].head
             body == packets[k].body
  <2>1. head \in T /\ body \in Seq(T)
    <3>1. packets[k] \in PacketsOver(T)
      BY <1>1
    <3> QED BY <3>1 DEF PacketsOver
  <2>2. ss[k] = <<head>> \o body /\ k \in 1 .. Len(ss)
    BY <1>2
  <2>3. first(k) = Len(Upto(ss, k - 1)) /\ first(k + 1) = Len(Upto(ss, k))
    <3>1. k \in 1 .. n + 1 /\ k + 1 \in 1 .. n + 1 /\ (k + 1) - 1 = k
      BY <1>1
    <3>2. first(k) = Len(Upto(ss, k - 1)) /\ first(k + 1) = Len(Upto(ss, (k + 1) - 1))
      BY <1>3, <3>1
    <3> QED BY <3>1, <3>2
  <2> HIDE DEF head, body
  <2>4. LaidOut(ss, k, head, body)
    <3>1. ss \in Seq(Seq(T)) /\ head \in T /\ body \in Seq(T)
      BY <1>2, <2>1
    <3>2. k \in 1 .. Len(ss) /\ Headed(ss[k], head, body)
      BY <2>2 DEF Headed
    <3> QED BY <3>1, <3>2, FlattenPacket
  <2>5. /\ first(k + 1) = first(k) + 1 + Len(body)
        /\ first(k + 1) <= Len(FlattenSeq(ss))
        /\ FlattenSeq(ss)[first(k) + 1] = head
        /\ \A j \in 1 .. Len(body) : FlattenSeq(ss)[first(k) + 1 + j] = body[j]
    BY <2>3, <2>4 DEF LaidOut
  <2> QED BY <2>5 DEF head, body
<1> QED BY <1>4, <1>5, <1>6, <1>7 DEF first, ss

-----------------------------------------------------------------------------
(* The account of the vertices of a frame.                                 *)

\* What a draw takes out of a list of vertices, and what a list of draws does.
FetchedFrom(d, vs) ==
  [i \in 1 .. d.count |->
     [vertex |-> IF d.first + i \in DOMAIN vs THEN vs[d.first + i]
                 ELSE [pos |-> <<0, 0, 0>>, color |-> 0],
      test   |-> d.depth]]
Part(d, vs) == IF d.again THEN <<>> ELSE FetchedFrom(d, vs)
InFlight(ds, vs) == FlattenSeq([k \in DOMAIN ds |-> Part(ds[k], vs)])

\* The vertices the draws of this frame are about: copied to the GPU from the vertical
\* blank on.
FrameVertices == IF phase = "drawing" THEN draw_data ELSE buffer

\* The vertices drawn, those of the frame's draws, and those no draw covers yet.
Everything == drawn \o InFlight(draws, FrameVertices) \o FetchedFrom(NewDraw, draw_data)

Follows(s, t) ==
  /\ Len(s) = Len(t)
  /\ \A i \in 1 .. Len(s) : s[i].vertex = t[i].vertex /\ s[i].test \in {t[i].test, "GEqual"}

\* Draws of the first n vertices.
Within(ds, n) == \A k \in DOMAIN ds : ds[k].again \/ ds[k].first + ds[k].count <= n

DrawsWithin == phase = "drawing" => Within(draws, Len(draw_data))
Unflushed   == phase = "rendered" \/ draws = <<>> => vertex_count = Len(draw_data)
FrameInv    == DrawsWithin /\ (~late => Unflushed /\ Follows(Everything, submitted))

-----------------------------------------------------------------------------
(* Types of the GS.                                                        *)

\* submit_sprite makes vertices.
LEMMA CornersType ==
  ASSUME NEW v \in Vertex, NEW w \in Vertex
  PROVE  SpriteCorners(v, w) \in Seq(Vertex)
<1> DEFINE At(x, y) == [pos |-> <<x.pos[1], y.pos[2], 0>>, color |-> 0]
<1>1. ASSUME NEW x \in Vertex, NEW y \in Vertex PROVE At(x, y) \in Vertex
  BY DEF Vertex
<1>2. At(w, v) \in Vertex /\ At(w, w) \in Vertex /\ At(v, v) \in Vertex /\ At(v, w) \in Vertex
  BY <1>1
<1>3. SpriteCorners(v, w) = <<At(w, v), At(w, w), At(v, v), At(w, w), At(v, w), At(v, v)>>
  BY DEF SpriteCorners
<1> HIDE DEF At
<1> QED BY <1>2, <1>3

\* So does a primitive that is complete.
LEMMA CompletedType ==
  ASSUME NEW queue \in Seq(Vertex)
  PROVE  Completed(queue) \in Seq(Vertex)
<1>1. ASSUME Len(queue) = 2 PROVE queue[1] \in Vertex /\ queue[2] \in Vertex
  BY <1>1
<1>2. Len(queue) = 2 => SpriteCorners(queue[1], queue[2]) \in Seq(Vertex)
  BY <1>1, CornersType
<1>3. <<>> \in Seq(Vertex)
  OBVIOUS
<1> QED BY <1>2, <1>3, Zenon DEF Completed

\* The fields a stored register has are those anything looks at.
Field(r, v) == Len(v) >= IF r = "PRIM" THEN 1 ELSE 3

\* write: a register that is only stored.
LEMMA StoreType ==
  ASSUME GsTypeOK, NEW r \in Stored, NEW v \in Seq(Nat), Field(r, v), regs' = [regs EXCEPT ![r] = v],
         UNCHANGED <<transfer, vqueue, renderer, frame, gs_halted>>
  PROVE  GsTypeOK'
<1>1. regs' \in [Stored -> Seq(Nat)]
  BY DEF GsTypeOK
<1>2. \A s \in Stored : Field(s, regs'[s])
  BY DEF GsTypeOK, Field
<1> QED BY <1>1, <1>2 DEF GsTypeOK, Field, transfer, renderer, frame

\* The three fields anything looks at.
LEMMA FirstFields ==
  ASSUME NEW s \in Seq(Nat), Len(s) >= 3
  PROVE  s[1] \in Nat /\ s[2] \in Nat /\ s[3] \in Nat
<1>1. 1 \in 1 .. Len(s) /\ 2 \in 1 .. Len(s) /\ 3 \in 1 .. Len(s)
  OBVIOUS
<1> QED BY <1>1

\* The vertices of a primitive a vertex completes go to the renderer.
Submits(whole) ==
  /\ draw_data' = draw_data \o whole
  /\ vertex_count' = vertex_count + Len(whole)
  /\ submitted' = submitted \o [i \in DOMAIN whole |-> [vertex |-> whole[i], test |-> depth]]
  /\ UNCHANGED <<regs, transfer, depth, draws, late, frame, gs_halted>>

\* process_vertex: what it does to the queue and to the renderer.
LEMMA ProcessVertexEffect ==
  ASSUME GsTypeOK, NEW xyz \in Seq(Nat), Len(xyz) >= 3, NEW kick \in BOOLEAN, ProcessVertex(xyz, kick)
  PROVE  /\ vqueue' \in Seq(Vertex) /\ Len(vqueue') <= 3
         /\ \E whole \in Seq(Vertex) : Submits(whole)
<1> DEFINE v == [pos   |-> <<xyz[1] - regs["XYOFFSET_1"][1], xyz[2] - regs["XYOFFSET_1"][2], xyz[3]>>,
                 color |-> regs["RGBAQ"][1]]
           kept  == IF Len(vqueue) < 3 THEN vqueue ELSE Tail(vqueue)
           queue == Append(kept, v)
           whole == IF kick THEN Completed(queue) ELSE <<>>
<1>1. v \in Vertex
  <2>1. /\ regs["XYOFFSET_1"] \in Seq(Nat) /\ Len(regs["XYOFFSET_1"]) >= 3
        /\ regs["RGBAQ"] \in Seq(Nat) /\ Len(regs["RGBAQ"]) >= 3
    BY DEF GsTypeOK, Stored
  <2>2. /\ xyz[1] \in Nat /\ xyz[2] \in Nat /\ xyz[3] \in Nat /\ regs["RGBAQ"][1] \in Nat
        /\ regs["XYOFFSET_1"][1] \in Nat /\ regs["XYOFFSET_1"][2] \in Nat
    BY <2>1, FirstFields
  <2> QED BY <2>2 DEF Vertex
<1>2. kept \in Seq(Vertex) /\ Len(kept) <= 2
  BY DEF GsTypeOK
<1>3. queue \in Seq(Vertex) /\ Len(queue) <= 3
  <2> HIDE DEF v, kept
  <2> QED BY <1>1, <1>2
<1>4. whole \in Seq(Vertex)
  <2> HIDE DEF queue
  <2> QED BY <1>3, CompletedType
<1>5. vqueue' = (IF whole = <<>> THEN queue ELSE <<>>) /\ Submits(whole)
  BY DEF ProcessVertex, Submits
<1> HIDE DEF whole, queue
<1>6. vqueue' \in Seq(Vertex) /\ Len(vqueue') <= 3
  BY <1>3, <1>5
<1> QED BY <1>4, <1>5, <1>6

\* What is recorded of vertices under one depth function.
LEMMA RecordedType ==
  ASSUME NEW ws \in Seq(Vertex), NEW test \in Depths
  PROVE  [i \in DOMAIN ws |-> [vertex |-> ws[i], test |-> test]] \in Seq(Tested)
<1>1. DOMAIN ws = 1 .. Len(ws) /\ Len(ws) \in Nat /\ \A i \in 1 .. Len(ws) : ws[i] \in Vertex
  OBVIOUS
<1>2. \A i \in 1 .. Len(ws) : [vertex |-> ws[i], test |-> test] \in Tested
  BY <1>1 DEF Tested
<1> QED BY <1>1, <1>2

\* process_vertex keeps the types.
LEMMA ProcessVertexType ==
  ASSUME GsTypeOK, NEW xyz \in Seq(Nat), Len(xyz) >= 3, NEW kick \in BOOLEAN, ProcessVertex(xyz, kick)
  PROVE  GsTypeOK'
<1>1. PICK whole \in Seq(Vertex) : Submits(whole)
  BY ProcessVertexEffect
<1> DEFINE new == [i \in DOMAIN whole |-> [vertex |-> whole[i], test |-> depth]]
<1>2. new \in Seq(Tested)
  BY RecordedType DEF GsTypeOK
<1>3. draw_data' \in Seq(Vertex) /\ vertex_count' \in 0 .. Len(draw_data')
  BY <1>1 DEF GsTypeOK, Submits
<1>4. submitted' = submitted \o new
  BY <1>1 DEF Submits
<1> HIDE DEF new
<1>5. submitted' \in Seq(Tested)
  BY <1>2, <1>4 DEF GsTypeOK
<1>6. vqueue' \in Seq(Vertex) /\ Len(vqueue') <= 3
  BY ProcessVertexEffect
<1> QED BY <1>1, <1>3, <1>5, <1>6 DEF GsTypeOK, Submits, transfer, frame

\* The draw of a flush covers the vertices no draw covers yet.
LEMMA NewDrawType ==
  ASSUME GsTypeOK
  PROVE  /\ NewDraw \in Draw /\ ~NewDraw.again /\ NewDraw.first = Len(draw_data) - vertex_count
         /\ NewDraw.count = vertex_count /\ NewDraw.depth = depth
BY DEF NewDraw, Draw, GsTypeOK

\* write of TEST keeps the types.
LEMMA WriteTestType ==
  ASSUME GsTypeOK, NEW test, WriteTest(test)
  PROVE  GsTypeOK'
<1>1. draws' \in Seq(Draw)
  <2> HIDE DEF NewDraw
  <2> QED BY NewDrawType DEF WriteTest, GsTypeOK
<1>2. depth' \in Depths /\ vertex_count' \in 0 .. Len(draw_data) /\ late' \in BOOLEAN
  BY DEF WriteTest, GsTypeOK, DepthFunction, Depths
<1> QED BY <1>1, <1>2 DEF WriteTest, GsTypeOK, transfer, frame

\* terminate keeps the types.
LEMMA HaltType ==
  ASSUME GsTypeOK, GsHalt
  PROVE  GsTypeOK'
BY DEF GsTypeOK, GsHalt, transfer, renderer, frame

\* A step of the transfer to VRAM keeps the types.
LEMMA TransferType ==
  ASSUME GsTypeOK, trxdir' \in Nat, data_written' \in Nat, gs_halted' \in BOOLEAN,
         UNCHANGED <<regs, vqueue, renderer, frame>>
  PROVE  GsTypeOK'
BY DEF GsTypeOK, renderer, frame

\* write_hwreg: the counters of the transfer stay numbers.
LEMMA HwRegType ==
  ASSUME NEW s, s.dir \in Nat, s.written \in Nat, s.halted \in BOOLEAN, DOMAIN s = DOMAIN Now,
         NEW T, NEW pixels \in Seq(T)
  PROVE  /\ HwReg(s, pixels).dir \in Nat /\ HwReg(s, pixels).written \in Nat
         /\ HwReg(s, pixels).halted \in BOOLEAN /\ DOMAIN HwReg(s, pixels) = DOMAIN Now
<1>1. s.written + Len(pixels) \in Nat
  OBVIOUS
<1> QED BY <1>1 DEF HwReg, Now, None

\* The two writes to HWREG of a quadword keep the types.
LEMMA GsImageType ==
  ASSUME GsTypeOK, NEW pixels \in Seq(Nat), GsImage(pixels)
  PROVE  GsTypeOK'
<1> DEFINE half == Len(pixels) \div 2
           one  == SubSeq(pixels, 1, half)
           two  == SubSeq(pixels, half + 1, 2 * half)
           mid  == HwReg(Now, one)
           after == HwReg(mid, two)
<1>1. Now.dir \in Nat /\ Now.written \in Nat /\ Now.halted \in BOOLEAN
  BY DEF Now, GsTypeOK
<1>2. one \in Seq(Nat) /\ two \in Seq(Nat)
  <2>1. half \in Nat /\ half <= Len(pixels) /\ 2 * half <= Len(pixels)
    OBVIOUS
  <2> HIDE DEF half
  <2> QED BY <2>1
<1> HIDE DEF one, two
<1>3. /\ mid.dir \in Nat /\ mid.written \in Nat
      /\ mid.halted \in BOOLEAN /\ DOMAIN mid = DOMAIN Now
  BY <1>1, <1>2, HwRegType
<1> HIDE DEF mid
<1>4. after.dir \in Nat /\ after.written \in Nat /\ after.halted \in BOOLEAN
  BY <1>2, <1>3, HwRegType
<1>5. /\ trxdir' = after.dir /\ data_written' = after.written /\ gs_halted' = after.halted
      /\ UNCHANGED <<regs, vqueue, renderer, frame>>
  BY DEF GsImage, mid, one, two
<1> QED BY <1>4, <1>5, TransferType

-----------------------------------------------------------------------------
(* What draws take out of the buffer.                                      *)

\* What a draw takes out of the buffer: as many vertices as it counts, from its first one on.
LEMMA FetchedType ==
  ASSUME NEW vs \in Seq(Vertex), NEW d \in Draw
  PROVE  /\ FetchedFrom(d, vs) \in Seq(Tested) /\ Len(FetchedFrom(d, vs)) = d.count
         /\ \A i \in 1 .. d.count :
              /\ FetchedFrom(d, vs)[i].test = d.depth
              /\ d.first + i <= Len(vs) => FetchedFrom(d, vs)[i].vertex = vs[d.first + i]
<1> DEFINE vertex(i) == IF d.first + i \in DOMAIN vs THEN vs[d.first + i]
                        ELSE [pos |-> <<0, 0, 0>>, color |-> 0]
           at(i) == [vertex |-> vertex(i), test |-> d.depth]
<1>1. d.count \in Nat /\ d.first \in Nat /\ d.depth \in Depths
  BY DEF Draw
<1>2. ASSUME NEW i \in 1 .. d.count PROVE at(i) \in Tested
  <2>1. [pos |-> <<0, 0, 0>>, color |-> 0] \in Vertex
    BY DEF Vertex
  <2>2. \A j \in DOMAIN vs : vs[j] \in Vertex
    OBVIOUS
  <2>3. vertex(i) \in Vertex
    BY <2>1, <2>2
  <2> HIDE DEF vertex
  <2> QED BY <1>1, <2>3 DEF Tested
<1>3. FetchedFrom(d, vs) = [i \in 1 .. d.count |-> at(i)]
  BY DEF FetchedFrom
<1>4. \A i \in 1 .. d.count : d.first + i <= Len(vs) => vertex(i) = vs[d.first + i]
  BY <1>1
<1> HIDE DEF vertex
<1>5. \A i \in 1 .. d.count : at(i).test = d.depth /\ at(i).vertex = vertex(i)
  OBVIOUS
<1> HIDE DEF at
<1>6. /\ FetchedFrom(d, vs) \in Seq(Tested) /\ Len(FetchedFrom(d, vs)) = d.count
      /\ \A i \in 1 .. d.count : FetchedFrom(d, vs)[i] = at(i)
  BY <1>1, <1>2, <1>3
<1> QED BY <1>4, <1>5, <1>6

\* What a draw adds to what is drawn, which is nothing for a repeated one.
LEMMA PartType ==
  ASSUME NEW vs \in Seq(Vertex), NEW d \in Draw
  PROVE  Part(d, vs) \in Seq(Tested)
<1>1. <<>> \in Seq(Tested) /\ FetchedFrom(d, vs) \in Seq(Tested)
  BY FetchedType
<1> QED BY <1>1 DEF Part

\* The same for all draws of a frame.
LEMMA PartsType ==
  ASSUME NEW vs \in Seq(Vertex), NEW ds \in Seq(Draw)
  PROVE  [k \in DOMAIN ds |-> Part(ds[k], vs)] \in Seq(Seq(Tested))
<1>1. DOMAIN ds = 1 .. Len(ds) /\ Len(ds) \in Nat
  OBVIOUS
<1>2. \A k \in 1 .. Len(ds) : Part(ds[k], vs) \in Seq(Tested)
  BY PartType
<1> QED BY <1>1, <1>2

\* All that the draws of a frame will draw.
LEMMA InFlightType ==
  ASSUME NEW vs \in Seq(Vertex), NEW ds \in Seq(Draw)
  PROVE  InFlight(ds, vs) \in Seq(Tested)
BY PartsType, FlattenType DEF InFlight

\* A frame without draws.
LEMMA InFlightEmpty ==
  ASSUME NEW vs
  PROVE  InFlight(<<>>, vs) = <<>>
<1>1. [k \in DOMAIN <<>> |-> Part(<<>>[k], vs)] = <<>>
  OBVIOUS
<1> QED BY <1>1, FlattenEmpty DEF InFlight

\* A draw more adds its vertices behind those of the others.
LEMMA InFlightAppend ==
  ASSUME NEW vs \in Seq(Vertex), NEW ds \in Seq(Draw), NEW d \in Draw
  PROVE  InFlight(Append(ds, d), vs) = InFlight(ds, vs) \o Part(d, vs)
<1> DEFINE parts == [k \in DOMAIN ds |-> Part(ds[k], vs)]
           es    == Append(ds, d)
           all   == [k \in DOMAIN es |-> Part(es[k], vs)]
<1>1. parts \in Seq(Seq(Tested)) /\ Part(d, vs) \in Seq(Tested)
  BY PartsType, PartType
<1>2. all = Append(parts, Part(d, vs))
  <2>1. /\ DOMAIN es = 1 .. Len(ds) + 1 /\ DOMAIN ds = 1 .. Len(ds) /\ Len(ds) \in Nat
        /\ es[Len(ds) + 1] = d /\ \A k \in 1 .. Len(ds) : es[k] = ds[k]
    OBVIOUS
  <2> HIDE DEF es
  <2>2. Append(parts, Part(d, vs))
          = [k \in 1 .. Len(ds) + 1 |-> IF k = Len(ds) + 1 THEN Part(d, vs) ELSE parts[k]]
    BY <1>1, <2>1
  <2>3. \A k \in 1 .. Len(ds) + 1 :
          Part(es[k], vs) = IF k = Len(ds) + 1 THEN Part(d, vs) ELSE parts[k]
    BY <2>1
  <2> HIDE DEF parts
  <2> QED BY <2>1, <2>2, <2>3
<1> HIDE DEF parts, all
<1>3. FlattenSeq(Append(parts, Part(d, vs))) = FlattenSeq(parts) \o Part(d, vs)
  BY <1>1, FlattenAppend
<1> QED BY <1>2, <1>3 DEF InFlight, parts, all, es

\* Draws of vertices there are find the same ones in any buffer that begins with them.
LEMMA InFlightAgrees ==
  ASSUME NEW us \in Seq(Vertex), NEW vs \in Seq(Vertex), NEW ds \in Seq(Draw), Within(ds, Len(us)),
         Len(us) <= Len(vs), \A i \in 1 .. Len(us) : vs[i] = us[i]
  PROVE  InFlight(ds, vs) = InFlight(ds, us)
<1>1. ASSUME NEW k \in DOMAIN ds PROVE Part(ds[k], vs) = Part(ds[k], us)
  <2> DEFINE d == ds[k]
  <2>1. d \in Draw /\ (d.again \/ d.first + d.count <= Len(us))
    BY DEF Within
  <2> HIDE DEF d
  <2>2. ASSUME ~d.again PROVE FetchedFrom(d, vs) = FetchedFrom(d, us)
    <3>1. d.first \in Nat /\ d.count \in Nat
      BY <2>1 DEF Draw
    <3> DEFINE at(i) == d.first + i
    <3>2. ASSUME NEW i \in 1 .. d.count
          PROVE  at(i) \in DOMAIN vs /\ at(i) \in DOMAIN us /\ vs[at(i)] = us[at(i)]
      <4>1. d.first + d.count <= Len(us)
        BY <2>1, <2>2
      <4>2. at(i) \in 1 .. Len(us) /\ at(i) \in 1 .. Len(vs)
        BY <3>1, <4>1
      <4> HIDE DEF at
      <4> QED BY <4>2
    <3> QED BY <3>2 DEF FetchedFrom
  <2> QED BY <2>2 DEF d, Part
<1> QED BY <1>1 DEF InFlight

\* render keeps the types.
LEMMA RenderType ==
  ASSUME GsTypeOK, Render
  PROVE  GsTypeOK'
<1> DEFINE again == [first |-> 0, count |-> 6, depth |-> depth, again |-> TRUE]
           rest  == SubSeq(buffer, Len(draw_data) + 1, Len(buffer))
<1>1. again \in Draw /\ NewDraw \in Draw
  BY NewDrawType DEF Draw, GsTypeOK
<1>2. rest \in Seq(Vertex)
  BY DEF GsTypeOK
<1>3. /\ phase' = "rendered"
      /\ \/ /\ draws' = Append(draws, NewDraw) /\ vertex_count' = 0
            /\ buffer' = draw_data \o rest /\ draw_data' = <<>>
         \/ /\ draws' = Append(draws, again) /\ vertex_count' = vertex_count
            /\ buffer' = buffer /\ draw_data' = draw_data
      /\ UNCHANGED <<regs, transfer, vqueue, depth, submitted, late, drawn, gs_halted>>
  BY DEF Render
<1> HIDE DEF again, rest, NewDraw
<1>4. draws' \in Seq(Draw)
  <2>1. draws \in Seq(Draw)
    BY DEF GsTypeOK
  <2>2. Append(draws, NewDraw) \in Seq(Draw) /\ Append(draws, again) \in Seq(Draw)
    BY <1>1, <2>1
  <2> QED BY <1>3, <2>2, Zenon
<1>5. buffer' \in Seq(Vertex) /\ draw_data' \in Seq(Vertex) /\ vertex_count' \in 0 .. Len(draw_data')
  <2>1. /\ buffer \in Seq(Vertex) /\ draw_data \in Seq(Vertex) /\ vertex_count \in 0 .. Len(draw_data)
        /\ <<>> \in Seq(Vertex) /\ Len(<<>>) = 0
    BY DEF GsTypeOK
  <2>2. draw_data \o rest \in Seq(Vertex)
    BY <1>2, <2>1, ConcatProperties
  <2>3. 0 \in 0 .. Len(<<>>)
    BY <2>1
  <2> QED BY <1>3, <2>1, <2>2, <2>3, Zenon
<1> QED BY <1>3, <1>4, <1>5 DEF GsTypeOK, transfer

\* The GPU draws the vertices of the frame's draws.
LEMMA NextFrameDraws ==
  ASSUME GsTypeOK, NextFrame
  PROVE  drawn' = drawn \o InFlight(draws, buffer)
<1>1. \A d \in Draw : Fetched(d) = FetchedFrom(d, buffer)
  BY DEF Fetched, FetchedFrom
<1>2. \A k \in DOMAIN draws : (IF draws[k].again THEN <<>> ELSE Fetched(draws[k])) = Part(draws[k], buffer)
  BY <1>1 DEF Part, GsTypeOK
<1>3. drawn' = drawn \o FlattenSeq([k \in DOMAIN draws |->
                                      IF draws[k].again THEN <<>> ELSE Fetched(draws[k])])
  BY DEF NextFrame
<1> QED BY <1>2, <1>3 DEF InFlight

\* end_frame and begin_frame keep the types.
LEMMA NextFrameType ==
  ASSUME GsTypeOK, NextFrame
  PROVE  GsTypeOK'
<1>1. drawn' \in Seq(Tested)
  <2>1. InFlight(draws, buffer) \in Seq(Tested)
    BY InFlightType DEF GsTypeOK
  <2>2. drawn \in Seq(Tested)
    BY DEF GsTypeOK
  <2> QED BY <2>1, <2>2, NextFrameDraws, ConcatProperties
<1> QED BY <1>1 DEF GsTypeOK, NextFrame, transfer, Depths

-----------------------------------------------------------------------------
(* The vertices of a frame.                                                *)

\* Vertices that are submitted and wait for a draw are accounted for.
LEMMA FollowsAppend ==
  ASSUME NEW s \in Seq(Tested), NEW t \in Seq(Tested), NEW n \in Seq(Tested), Follows(s, t)
  PROVE  Follows(s \o n, t \o n)
<1>1. /\ Len(s \o n) = Len(s) + Len(n) /\ Len(t \o n) = Len(s) + Len(n)
      /\ Len(s) \in Nat /\ Len(n) \in Nat /\ Len(t) = Len(s)
  <2>1. Len(t) = Len(s)
    BY DEF Follows
  <2> QED BY <2>1
<1>2. ASSUME NEW i \in 1 .. Len(s) + Len(n)
      PROVE  /\ (s \o n)[i].vertex = (t \o n)[i].vertex
             /\ (s \o n)[i].test \in {(t \o n)[i].test, "GEqual"}
  <2>1. CASE i <= Len(s)
    <3>1. (s \o n)[i] = s[i] /\ (t \o n)[i] = t[i] /\ i \in 1 .. Len(s)
      BY <1>1, <2>1
    <3> QED BY <3>1 DEF Follows
  <2>2. CASE i > Len(s)
    <3>1. (s \o n)[i] = n[i - Len(s)] /\ (t \o n)[i] = n[i - Len(s)]
      BY <1>1, <2>2
    <3> QED BY <3>1
  <2> QED BY <1>1, <2>1, <2>2
<1> QED BY <1>1, <1>2 DEF Follows

\* The last vertices may be drawn under the function the frame begins with.
LEMMA FollowsEnd ==
  ASSUME NEW s \in Seq(Tested), NEW n \in Seq(Tested), NEW m \in Seq(Tested), NEW t,
         Follows(s \o n, t), Len(m) = Len(n),
         \A i \in 1 .. Len(n) : m[i].vertex = n[i].vertex /\ m[i].test \in {n[i].test, "GEqual"}
  PROVE  Follows(s \o m, t)
<1>1. /\ Len(s \o n) = Len(s) + Len(n) /\ Len(s \o m) = Len(s) + Len(n)
      /\ Len(s) \in Nat /\ Len(n) \in Nat
  OBVIOUS
<1>2. ASSUME NEW i \in 1 .. Len(s) + Len(n)
      PROVE  /\ (s \o m)[i].vertex = t[i].vertex
             /\ (s \o m)[i].test \in {t[i].test, "GEqual"}
  <2>1. (s \o n)[i].vertex = t[i].vertex /\ (s \o n)[i].test \in {t[i].test, "GEqual"}
    BY <1>1 DEF Follows
  <2>2. CASE i <= Len(s)
    <3>1. (s \o n)[i] = s[i] /\ (s \o m)[i] = s[i]
      BY <1>1, <2>2
    <3> QED BY <2>1, <3>1
  <2>3. CASE i > Len(s)
    <3>1. (s \o n)[i] = n[i - Len(s)] /\ (s \o m)[i] = m[i - Len(s)] /\ i - Len(s) \in 1 .. Len(n)
      BY <1>1, <2>3
    <3> QED BY <2>1, <3>1
  <2> QED BY <1>1, <2>2, <2>3
<1> QED BY <1>1, <1>2 DEF Follows

\* A draw of no vertices.
LEMMA FetchedNone ==
  ASSUME NEW d, d.count = 0, NEW vs
  PROVE  FetchedFrom(d, vs) = <<>>
<1>1. 1 .. 0 = {}
  OBVIOUS
<1>2. FetchedFrom(d, vs) = [i \in {} |-> 0]
  BY <1>1 DEF FetchedFrom
<1>3. <<>> = [i \in {} |-> 0]
  OBVIOUS
<1> QED BY <1>2, <1>3

\* A draw up to the end of the vertices, before and after more of them come.
LEMMA FetchedMore ==
  ASSUME NEW us \in Seq(Vertex), NEW ws \in Seq(Vertex), NEW d \in Draw, NEW e \in Draw,
         d.first + d.count = Len(us), e.first = d.first, e.count = d.count + Len(ws),
         e.depth = d.depth
  PROVE  FetchedFrom(e, us \o ws)
           = FetchedFrom(d, us) \o [i \in DOMAIN ws |-> [vertex |-> ws[i], test |-> d.depth]]
<1> DEFINE all == us \o ws
           new == [i \in DOMAIN ws |-> [vertex |-> ws[i], test |-> d.depth]]
           old == FetchedFrom(d, us)
           from(i) == d.first + i
<1>1. d.first \in Nat /\ d.count \in Nat /\ Len(ws) \in Nat /\ Len(us) \in Nat
  BY DEF Draw
<1>2. /\ Len(all) = Len(us) + Len(ws) /\ all \in Seq(Vertex) /\ DOMAIN all = 1 .. Len(us) + Len(ws)
      /\ \A i \in 1 .. Len(us) : all[i] = us[i]
      /\ \A i \in 1 .. Len(ws) : all[Len(us) + i] = ws[i]
  OBVIOUS
<1>3. old \in Seq(Tested) /\ Len(old) = d.count
  BY FetchedType
<1>4. DOMAIN new = 1 .. Len(ws) /\ Len(new) = Len(ws)
      /\ \A i \in 1 .. Len(ws) : new[i] = [vertex |-> ws[i], test |-> d.depth]
  BY <1>1
<1>5. new \in Seq(Tested)
  BY RecordedType DEF Draw
<1> HIDE DEF all, new, old
<1>6. /\ Len(old \o new) = d.count + Len(ws) /\ DOMAIN (old \o new) = 1 .. d.count + Len(ws)
      /\ \A i \in 1 .. d.count : (old \o new)[i] = old[i]
      /\ \A i \in 1 .. Len(ws) : (old \o new)[d.count + i] = new[i]
      /\ old \o new = [i \in 1 .. d.count + Len(ws) |-> (old \o new)[i]]
  <2>1. old \o new \in Seq(Tested) /\ Len(old \o new) = d.count + Len(ws)
    <3>1. Len(new) = Len(ws)
      BY <1>4
    <3>2. old \in Seq(Tested) /\ Len(old) = d.count
      BY <1>3
    <3>3. old \o new \in Seq(Tested) /\ Len(old \o new) = Len(old) + Len(new)
      BY <1>5, <3>2, ConcatProperties
    <3> QED BY <3>1, <3>2, <3>3
  <2>2. /\ \A i \in 1 .. d.count : (old \o new)[i] = old[i]
        /\ \A i \in 1 .. Len(ws) : (old \o new)[d.count + i] = new[i]
    <3>1. /\ \A i \in 1 .. Len(old) : (old \o new)[i] = old[i]
          /\ \A i \in 1 .. Len(new) : (old \o new)[Len(old) + i] = new[i]
      BY <1>3, <1>5
    <3>2. Len(new) = Len(ws)
      BY <1>4
    <3> QED BY <1>3, <3>1, <3>2
  <2> DEFINE both == old \o new
  <2>3. both \in Seq(Tested) /\ Len(both) = d.count + Len(ws)
    BY <2>1
  <2> HIDE DEF both
  <2>4. DOMAIN both = 1 .. d.count + Len(ws) /\ both = [i \in 1 .. d.count + Len(ws) |-> both[i]]
    BY <2>3
  <2> QED BY <2>1, <2>2, <2>4 DEF both
<1> DEFINE at(i) == [vertex |-> IF from(i) \in DOMAIN all THEN all[from(i)]
                                ELSE [pos |-> <<0, 0, 0>>, color |-> 0],
                     test |-> d.depth]
<1>7. ASSUME NEW i \in 1 .. d.count + Len(ws) PROVE at(i) = (old \o new)[i]
  <2>1. from(i) \in DOMAIN all
    BY <1>1, <1>2
  <2>2. at(i) = [vertex |-> all[from(i)], test |-> d.depth]
    <3> HIDE DEF from
    <3> QED BY <2>1
  <2> HIDE DEF at
  <2>3. CASE i <= d.count
    <3>1. from(i) \in 1 .. Len(us) /\ from(i) \in DOMAIN us /\ i \in 1 .. d.count
      BY <1>1, <2>3
    <3>2. all[from(i)] = us[from(i)]
      <4> HIDE DEF from
      <4> QED BY <1>2, <3>1
    <3>3. old[i] = [vertex |-> us[from(i)], test |-> d.depth]
      BY <3>1 DEF old, FetchedFrom
    <3> HIDE DEF from
    <3> QED BY <1>6, <2>2, <3>1, <3>2, <3>3
  <2>4. CASE i > d.count
    <3> DEFINE j == i - d.count
    <3>1. j \in 1 .. Len(ws) /\ i = d.count + j /\ from(i) = Len(us) + j
      BY <1>1, <2>4
    <3> HIDE DEF j, from
    <3>2. all[from(i)] = ws[j]
      BY <1>2, <3>1
    <3>3. (old \o new)[i] = new[j]
      BY <1>6, <3>1
    <3> QED BY <1>4, <2>2, <3>1, <3>2, <3>3
  <2>5. i <= d.count \/ i > d.count
    BY <1>1
  <2> QED BY <2>3, <2>4, <2>5, Zenon
<1>8. FetchedFrom(e, all) = [i \in 1 .. d.count + Len(ws) |-> at(i)]
  BY DEF FetchedFrom
<1> HIDE DEF at
<1>9. FetchedFrom(e, all) = old \o new
  BY <1>6, <1>7, <1>8
<1> QED BY <1>9 DEF all, old, new

\* The types of what Everything is made of.
LEMMA FrameTypes ==
  ASSUME GsTypeOK
  PROVE  /\ FrameVertices \in Seq(Vertex) /\ InFlight(draws, FrameVertices) \in Seq(Tested)
         /\ FetchedFrom(NewDraw, draw_data) \in Seq(Tested)
         /\ drawn \in Seq(Tested) /\ submitted \in Seq(Tested) /\ draws \in Seq(Draw)
         /\ draw_data \in Seq(Vertex) /\ buffer \in Seq(Vertex)
         /\ vertex_count \in Nat /\ vertex_count <= Len(draw_data)
<1>1. /\ drawn \in Seq(Tested) /\ submitted \in Seq(Tested) /\ draws \in Seq(Draw)
      /\ draw_data \in Seq(Vertex) /\ buffer \in Seq(Vertex)
      /\ vertex_count \in Nat /\ vertex_count <= Len(draw_data)
  BY DEF GsTypeOK
<1>2. FrameVertices \in Seq(Vertex)
  BY <1>1 DEF FrameVertices
<1>3. NewDraw \in Draw
  BY NewDrawType
<1> QED BY <1>1, <1>2, <1>3, InFlightType, FetchedType

\* A vertex that completes a primitive leaves every vertex accounted for.
LEMMA SubmitsFrame ==
  ASSUME GsTypeOK, FrameInv, NEW whole \in Seq(Vertex), Submits(whole), GsTypeOK'
  PROVE  FrameInv'
<1> DEFINE new == [i \in DOMAIN whole |-> [vertex |-> whole[i], test |-> depth]]
           old == FetchedFrom(NewDraw, draw_data)
           gone == drawn \o InFlight(draws, FrameVertices)
<1>1. /\ draw_data' = draw_data \o whole /\ vertex_count' = vertex_count + Len(whole)
      /\ submitted' = submitted \o new
      /\ depth' = depth /\ draws' = draws /\ late' = late
      /\ buffer' = buffer /\ phase' = phase /\ drawn' = drawn
  BY DEF Submits, frame
<1>2. /\ FrameVertices \in Seq(Vertex) /\ draws \in Seq(Draw) /\ draw_data \in Seq(Vertex)
      /\ drawn \in Seq(Tested) /\ InFlight(draws, FrameVertices) \in Seq(Tested)
      /\ old \in Seq(Tested) /\ submitted \in Seq(Tested)
      /\ vertex_count \in Nat /\ vertex_count <= Len(draw_data)
  BY FrameTypes
<1>3. /\ Len(draw_data') = Len(draw_data) + Len(whole) /\ Len(draw_data) \in Nat /\ Len(whole) \in Nat
      /\ Len(draw_data) <= Len(draw_data')
      /\ draw_data' \in Seq(Vertex) /\ \A i \in 1 .. Len(draw_data) : draw_data'[i] = draw_data[i]
  BY <1>1, <1>2
<1>4. DrawsWithin'
  <2>1. SUFFICES ASSUME Within(draws, Len(draw_data)) PROVE Within(draws, Len(draw_data'))
    BY <1>1 DEF FrameInv, DrawsWithin
  <2>2. ASSUME NEW k \in DOMAIN draws PROVE draws[k].first + draws[k].count \in Nat
    <3>1. draws[k] \in Draw
      BY <1>2
    <3> QED BY <3>1 DEF Draw
  <2> QED BY <1>3, <2>1, <2>2 DEF Within
<1>5. InFlight(draws', FrameVertices') = InFlight(draws, FrameVertices)
  <2>1. CASE phase = "drawing"
    <3>1. FrameVertices = draw_data /\ FrameVertices' = draw_data'
      BY <1>1, <2>1 DEF FrameVertices
    <3>2. Within(draws, Len(draw_data))
      BY <2>1 DEF FrameInv, DrawsWithin
    <3>3. InFlight(draws, draw_data') = InFlight(draws, draw_data)
      BY <1>2, <1>3, <3>2, InFlightAgrees
    <3> QED BY <1>1, <3>1, <3>3
  <2>2. CASE phase # "drawing"
    <3>1. FrameVertices' = FrameVertices
      BY <1>1, <2>2 DEF FrameVertices
    <3> QED BY <1>1, <3>1
  <2> QED BY <2>1, <2>2
<1>6. FetchedFrom(NewDraw', draw_data') = old \o new
  <2>1. /\ NewDraw \in Draw /\ NewDraw.first = Len(draw_data) - vertex_count
        /\ NewDraw.count = vertex_count /\ NewDraw.depth = depth
    BY NewDrawType
  <2>2. /\ NewDraw' \in Draw /\ (NewDraw').first = Len(draw_data') - vertex_count'
        /\ (NewDraw').count = vertex_count' /\ (NewDraw').depth = depth'
    <3>1. NewDraw' = [first |-> Len(draw_data') - vertex_count', count |-> vertex_count',
                      depth |-> depth', again |-> FALSE]
      BY DEF NewDraw
    <3>2. Len(draw_data') - vertex_count' \in Nat /\ vertex_count' \in Nat /\ depth' \in Depths
      BY <1>1, <1>2, <1>3 DEF GsTypeOK
    <3> QED BY <3>1, <3>2 DEF Draw
  <2> DEFINE d == NewDraw
             e == NewDraw'
  <2>3. /\ d.first + d.count = Len(draw_data) /\ e.first = d.first
        /\ e.count = d.count + Len(whole) /\ e.depth = d.depth
    BY <1>1, <1>2, <1>3, <2>1, <2>2
  <2>4. d \in Draw /\ e \in Draw /\ d.depth = depth
    BY <2>1, <2>2
  <2> HIDE DEF d, e
  <2>5. FetchedFrom(e, draw_data \o whole)
          = FetchedFrom(d, draw_data) \o [i \in DOMAIN whole |-> [vertex |-> whole[i], test |-> d.depth]]
    BY <1>2, <2>3, <2>4, FetchedMore, ZenonT(60)
  <2> QED BY <1>1, <2>4, <2>5 DEF d, e
<1>7. new \in Seq(Tested)
  BY RecordedType DEF GsTypeOK
<1>8. ASSUME ~late PROVE Unflushed' /\ Follows(Everything', submitted')
  <2>1. Unflushed /\ Follows(Everything, submitted)
    BY <1>8 DEF FrameInv
  <2>2. Unflushed'
    <3>1. vertex_count = Len(draw_data) => vertex_count' = Len(draw_data')
      BY <1>1, <1>3
    <3> QED BY <1>1, <2>1, <3>1, Zenon DEF Unflushed
  <2>3. gone \in Seq(Tested)
    BY <1>2, ConcatProperties
  <2>4. Everything = gone \o old
    BY DEF Everything
  <2>5. Everything' = gone \o (old \o new)
    BY <1>1, <1>5, <1>6 DEF Everything
  <2> HIDE DEF gone, old, new
  <2>6. gone \o (old \o new) = (gone \o old) \o new
    <3>1. old \in Seq(Tested) /\ new \in Seq(Tested) /\ gone \in Seq(Tested)
      BY <1>2, <1>7, <2>3
    <3>2. (gone \o old) \o new = gone \o (old \o new)
      BY <3>1, ConcatAssociative
    <3> QED BY <3>2
  <2>7. gone \o old \in Seq(Tested)
    BY <1>2, <2>3, ConcatProperties
  <2> DEFINE all == gone \o old
  <2>8. Follows(all, submitted) /\ all \in Seq(Tested) /\ Everything' = all \o new
    BY <2>1, <2>4, <2>5, <2>6, <2>7
  <2> HIDE DEF all
  <2>9. Follows(all \o new, submitted \o new)
    BY <1>2, <1>7, <2>8, FollowsAppend
  <2> QED BY <1>1, <2>2, <2>8, <2>9 DEF new
<1> QED BY <1>1, <1>4, <1>8 DEF FrameInv

\* Nothing waits for a draw behind a flush.
LEMMA NothingWaits ==
  ASSUME vertex_count' = 0
  PROVE  FetchedFrom(NewDraw', draw_data') = <<>>
<1>1. (NewDraw').count = 0
  BY DEF NewDraw
<1> QED BY <1>1, FetchedNone

\* What a new draw takes over is what waited, when the frame is not rendered yet.
LEMMA FlushKeeps ==
  ASSUME GsTypeOK, NEW vs \in Seq(Vertex),
         vs = draw_data \/ vertex_count = 0
  PROVE  InFlight(Append(draws, NewDraw), vs) = InFlight(draws, vs) \o FetchedFrom(NewDraw, draw_data)
<1>1. NewDraw \in Draw /\ ~NewDraw.again /\ NewDraw.count = vertex_count /\ draws \in Seq(Draw)
  BY NewDrawType, FrameTypes
<1>2. Part(NewDraw, vs) = FetchedFrom(NewDraw, draw_data)
  <2>1. Part(NewDraw, vs) = FetchedFrom(NewDraw, vs)
    BY <1>1, Zenon DEF Part
  <2>2. vertex_count = 0 => FetchedFrom(NewDraw, vs) = <<>> /\ FetchedFrom(NewDraw, draw_data) = <<>>
    BY <1>1, FetchedNone
  <2> QED BY <2>1, <2>2
<1> QED BY <1>1, <1>2, InFlightAppend

\* The draw of a flush is a draw of vertices there are.
LEMMA FlushWithin ==
  ASSUME GsTypeOK, Within(draws, Len(draw_data))
  PROVE  Within(Append(draws, NewDraw), Len(draw_data))
<1> DEFINE d == NewDraw
           ds == Append(draws, d)
<1>1. draws \in Seq(Draw) /\ vertex_count \in Nat /\ vertex_count <= Len(draw_data)
  BY FrameTypes
<1>2. d.first + d.count <= Len(draw_data)
  BY <1>1 DEF NewDraw
<1>3. ASSUME NEW k \in DOMAIN ds PROVE ds[k] = d \/ (k \in DOMAIN draws /\ ds[k] = draws[k])
  <2> HIDE DEF d
  <2> QED BY <1>1
<1> HIDE DEF ds, d
<1>4. Within(ds, Len(draw_data))
  BY <1>2, <1>3 DEF Within
<1> QED BY <1>4 DEF ds, d

\* So does a flush before the depth function changes.
LEMMA WriteTestFrame ==
  ASSUME GsTypeOK, FrameInv, NEW test, WriteTest(test)
  PROVE  FrameInv'
<1> DEFINE flying  == InFlight(draws, FrameVertices)
           waiting == FetchedFrom(NewDraw, draw_data)
<1>1. /\ draws' = Append(draws, NewDraw) /\ vertex_count' = 0
      /\ draw_data' = draw_data /\ submitted' = submitted
      /\ buffer' = buffer /\ phase' = phase /\ drawn' = drawn
      /\ late' = (late \/ (phase = "rendered" /\ vertex_count > 0))
  BY DEF WriteTest, frame
<1>2. /\ FrameVertices \in Seq(Vertex) /\ draws \in Seq(Draw) /\ draw_data \in Seq(Vertex)
      /\ drawn \in Seq(Tested) /\ flying \in Seq(Tested) /\ waiting \in Seq(Tested)
      /\ vertex_count \in Nat /\ vertex_count <= Len(draw_data)
      /\ phase \in {"drawing", "rendered"}
  BY FrameTypes DEF GsTypeOK
<1>3. DrawsWithin'
  <2>1. Within(draws, Len(draw_data)) => Within(Append(draws, NewDraw), Len(draw_data))
    BY FlushWithin
  <2> QED BY <1>1, <2>1 DEF FrameInv, DrawsWithin
<1>4. ASSUME ~late' PROVE Unflushed' /\ Follows(Everything', submitted')
  <2>1. Unflushed /\ Follows(Everything, submitted) /\ ~(phase = "rendered" /\ vertex_count > 0)
    BY <1>1, <1>4 DEF FrameInv
  <2>2. Unflushed'
    <3>1. draws' # <<>>
      BY <1>1, <1>2
    <3>2. phase = "rendered" => vertex_count = 0 /\ vertex_count = Len(draw_data)
      BY <1>2, <2>1 DEF Unflushed
    <3> QED BY <1>1, <3>1, <3>2 DEF Unflushed
  <2>3. FrameVertices = draw_data \/ vertex_count = 0
    BY <1>2, <2>1 DEF FrameVertices
  <2>4. FrameVertices' = FrameVertices
    BY <1>1 DEF FrameVertices
  <2>5. InFlight(draws', FrameVertices') = flying \o waiting
    BY <1>1, <1>2, <2>3, <2>4, FlushKeeps
  <2>6. Everything' = (drawn \o (flying \o waiting)) \o <<>>
    BY <1>1, <2>5, NothingWaits DEF Everything
  <2>7. Everything = (drawn \o flying) \o waiting
    BY DEF Everything
  <2> HIDE DEF flying, waiting
  <2>8. drawn \o (flying \o waiting) = (drawn \o flying) \o waiting
    BY <1>2, ConcatAssociative, SMTT(40)
  <2>9. (drawn \o flying) \o waiting \in Seq(Tested)
    BY <1>2, ConcatProperties
  <2>10. Everything' = Everything
    BY <2>6, <2>7, <2>8, <2>9, ConcatEmptySeq
  <2> QED BY <1>1, <2>1, <2>2, <2>10
<1> QED BY <1>3, <1>4 DEF FrameInv

\* So does render: from here on the draws find their vertices on the GPU.
LEMMA RenderFrame ==
  ASSUME GsTypeOK, FrameInv, Render, GsTypeOK'
  PROVE  FrameInv'
<1> DEFINE flying  == InFlight(draws, FrameVertices)
           waiting == FetchedFrom(NewDraw, draw_data)
           rest    == SubSeq(buffer, Len(draw_data) + 1, Len(buffer))
           again   == [first |-> 0, count |-> 6, depth |-> depth, again |-> TRUE]
<1>1. /\ phase = "drawing" /\ phase' = "rendered"
      /\ depth' = depth /\ submitted' = submitted /\ late' = late /\ drawn' = drawn
  BY DEF Render
<1>2. /\ draws \in Seq(Draw) /\ draw_data \in Seq(Vertex) /\ buffer \in Seq(Vertex)
      /\ drawn \in Seq(Tested) /\ flying \in Seq(Tested) /\ waiting \in Seq(Tested)
      /\ vertex_count \in Nat /\ vertex_count <= Len(draw_data)
  BY FrameTypes
<1>3. FrameVertices = draw_data /\ FrameVertices' = buffer' /\ Within(draws, Len(draw_data))
  BY <1>1 DEF FrameVertices, FrameInv, DrawsWithin
<1>4. DrawsWithin'
  BY <1>1 DEF DrawsWithin
<1>5. (drawn \o flying) \o waiting = drawn \o (flying \o waiting)
  <2>1. drawn \in Seq(Tested)
    BY <1>2
  <2>2. flying \in Seq(Tested)
    BY <1>2
  <2>3. waiting \in Seq(Tested)
    BY <1>2
  <2> HIDE DEF flying, waiting
  <2> QED BY ONLY <2>1, <2>2, <2>3, ConcatAssociative, SMTT(30)
<1>6. Everything = (drawn \o flying) \o waiting /\ Everything \in Seq(Tested)
  BY <1>2, <1>3, ConcatProperties DEF Everything
<1>7. vertex_count' = 0 /\ draw_data' = <<>> /\ InFlight(draws', buffer') = flying \o waiting
  <2>1. CASE draw_data # <<>>
    <3>1. /\ draws' = Append(draws, NewDraw) /\ vertex_count' = 0
          /\ buffer' = draw_data \o rest /\ draw_data' = <<>>
      BY <2>1 DEF Render
    <3>2. rest \in Seq(Vertex)
      BY <1>2
    <3> HIDE DEF rest
    <3>3. /\ draw_data \o rest \in Seq(Vertex) /\ Len(draw_data) <= Len(draw_data \o rest)
          /\ \A i \in 1 .. Len(draw_data) : (draw_data \o rest)[i] = draw_data[i]
      BY <1>2, <3>2
    <3>4. Within(draws', Len(draw_data)) /\ draws' \in Seq(Draw)
      BY <1>3, <3>1, FlushWithin DEF GsTypeOK
    <3>5. InFlight(draws', buffer') = InFlight(draws', draw_data)
      BY <1>2, <3>1, <3>3, <3>4, InFlightAgrees
    <3>6. InFlight(draws', draw_data) = flying \o waiting
      BY <1>2, <1>3, <3>1, FlushKeeps
    <3> QED BY <3>1, <3>5, <3>6
  <2>2. CASE draw_data = <<>>
    <3>1. /\ draws' = Append(draws, again) /\ vertex_count' = vertex_count
          /\ buffer' = buffer /\ draw_data' = draw_data
      BY <2>2 DEF Render
    <3>2. vertex_count = 0 /\ waiting = <<>>
      <4>1. vertex_count = 0
        BY <1>2, <2>2
      <4>2. NewDraw.count = 0
        BY <4>1 DEF NewDraw
      <4> QED BY <4>1, <4>2, FetchedNone
    <3>3. again \in Draw /\ Part(again, buffer) = <<>>
      BY DEF Draw, Part, GsTypeOK
    <3>4. InFlight(draws', buffer) = InFlight(draws, buffer) \o <<>>
      <4> HIDE DEF again
      <4> QED BY <1>2, <3>1, <3>3, InFlightAppend
    <3>5. InFlight(draws, buffer) = flying
      <4>1. Len(draw_data) <= Len(buffer) /\ \A i \in 1 .. Len(draw_data) : buffer[i] = draw_data[i]
        BY <1>2, <2>2
      <4> QED BY <1>2, <1>3, <4>1, InFlightAgrees
    <3> QED BY <2>2, <3>1, <3>2, <3>4, <3>5
  <2> QED BY <2>1, <2>2
<1>8. Everything' = Everything
  <2>1. Everything' = (drawn \o (flying \o waiting)) \o <<>>
    BY <1>1, <1>3, <1>7, NothingWaits DEF Everything
  <2> HIDE DEF flying, waiting
  <2>2. Everything' = Everything \o <<>>
    BY <1>5, <1>6, <2>1
  <2> QED BY <1>6, <2>2, ConcatEmptySeq
<1>9. Unflushed'
  BY <1>7 DEF Unflushed
<1> QED BY <1>1, <1>4, <1>8, <1>9 DEF FrameInv

\* So does the next frame: what was in flight is drawn.
LEMMA NextFrameFrame ==
  ASSUME GsTypeOK, FrameInv, NextFrame, GsTypeOK'
  PROVE  FrameInv'
<1> DEFINE flying  == InFlight(draws, FrameVertices)
           waiting == FetchedFrom(NewDraw, draw_data)
           again   == FetchedFrom(NewDraw', draw_data')
<1>1. /\ phase = "rendered" /\ phase' = "drawing" /\ draws' = <<>> /\ depth' = "GEqual"
      /\ draw_data' = draw_data /\ vertex_count' = vertex_count
      /\ submitted' = submitted /\ late' = late
  BY DEF NextFrame
<1>2. /\ drawn \in Seq(Tested) /\ flying \in Seq(Tested) /\ waiting \in Seq(Tested)
      /\ vertex_count \in Nat /\ draw_data \in Seq(Vertex)
  BY FrameTypes
<1>3. drawn' = drawn \o flying
  BY <1>1, NextFrameDraws DEF FrameVertices
<1>4. InFlight(draws', FrameVertices') = <<>>
  BY <1>1, InFlightEmpty
<1>5. DrawsWithin'
  BY <1>1 DEF DrawsWithin, Within
<1>6. ASSUME ~late PROVE Unflushed' /\ Follows(Everything', submitted')
  <2>1. Unflushed /\ Follows(Everything, submitted)
    BY <1>6 DEF FrameInv
  <2>2. Unflushed'
    BY <1>1, <2>1 DEF Unflushed
  <2>3. drawn \o flying \in Seq(Tested)
    BY <1>2, ConcatProperties
  <2>4. Everything = (drawn \o flying) \o waiting
    BY DEF Everything
  <2>5. Everything' = (drawn \o flying) \o again
    <3>1. Everything' = ((drawn \o flying) \o <<>>) \o again
      BY <1>3, <1>4 DEF Everything
    <3> HIDE DEF flying, again
    <3> QED BY <2>3, <3>1, ConcatEmptySeq
  <2>6. /\ again \in Seq(Tested) /\ Len(again) = Len(waiting)
        /\ \A i \in 1 .. Len(waiting) :
             again[i].vertex = waiting[i].vertex /\ again[i].test \in {waiting[i].test, "GEqual"}
    <3> DEFINE d == NewDraw
               e == NewDraw'
    <3>1. d \in Draw /\ d.first = Len(draw_data) - vertex_count /\ d.count = vertex_count
      BY NewDrawType
    <3>2. e = [first |-> Len(draw_data) - vertex_count, count |-> vertex_count, depth |-> "GEqual",
               again |-> FALSE]
      BY <1>1 DEF NewDraw
    <3>3. e \in Draw /\ e.first = d.first /\ e.count = d.count /\ e.depth = "GEqual"
      BY <3>1, <3>2 DEF Draw, Depths
    <3> HIDE DEF d, e
    <3>4. again = FetchedFrom(e, draw_data) /\ waiting = FetchedFrom(d, draw_data)
      BY <1>1 DEF d, e
    <3> DEFINE D == FetchedFrom(d, draw_data)
               E == FetchedFrom(e, draw_data)
    <3>5. Len(D) = d.count /\ D \in Seq(Tested) /\ Len(E) = d.count /\ E \in Seq(Tested)
      BY <1>2, <3>1, <3>3, FetchedType
    <3>6. \A i \in 1 .. d.count : E[i].test = "GEqual" /\ E[i].vertex = D[i].vertex
      BY <3>3 DEF FetchedFrom
    <3> HIDE DEF again, waiting, D, E
    <3> QED BY <3>4, <3>5, <3>6 DEF D, E
  <2> DEFINE old == drawn \o flying
  <2>7. old \in Seq(Tested) /\ Follows(old \o waiting, submitted) /\ Everything' = old \o again
    BY <2>1, <2>3, <2>4, <2>5
  <2> HIDE DEF old, waiting, again
  <2>8. Follows(old \o again, submitted)
    BY <1>2, <2>6, <2>7, FollowsEnd
  <2> QED BY <1>1, <2>2, <2>7, <2>8
<1> QED BY <1>1, <1>5, <1>6 DEF FrameInv

\* What touches neither renderer nor frame changes nothing of this.
LEMMA OtherFrame ==
  ASSUME FrameInv, UNCHANGED <<renderer, frame>>
  PROVE  FrameInv'
BY DEF FrameInv, DrawsWithin, Unflushed, Everything, FrameVertices, NewDraw, renderer, frame

\* Between frames the vertices drawn and those that wait are the ones submitted.
LEMMA FrameImplies ==
  ASSUME GsTypeOK, FrameInv
  PROVE  DrawnOnce /\ DepthOfTest
<1>1. /\ FrameVertices \in Seq(Vertex) /\ draw_data \in Seq(Vertex)
      /\ drawn \in Seq(Tested) /\ submitted \in Seq(Tested)
      /\ InFlight(draws, FrameVertices) \in Seq(Tested)
      /\ FetchedFrom(NewDraw, draw_data) \in Seq(Tested)
  BY FrameTypes
<1> DEFINE flying  == InFlight(draws, FrameVertices)
           waiting == FetchedFrom(NewDraw, draw_data)
<1>2. Everything = (drawn \o flying) \o waiting
  BY DEF Everything
<1>3. ASSUME ~late PROVE DepthOfTest
  <2>1. Follows(Everything, submitted)
    BY <1>3 DEF FrameInv
  <2> HIDE DEF flying, waiting
  <2>2. /\ Len(drawn) <= Len(Everything) /\ Len(drawn) \in Nat
        /\ \A i \in 1 .. Len(drawn) : Everything[i] = drawn[i]
    <3>1. drawn \o flying \in Seq(Tested)
      BY <1>1, ConcatProperties DEF flying
    <3>2. /\ Len(drawn \o flying) = Len(drawn) + Len(flying)
          /\ \A i \in 1 .. Len(drawn) : (drawn \o flying)[i] = drawn[i]
          /\ Len(flying) \in Nat /\ Len(drawn) \in Nat
      BY <1>1 DEF flying
    <3> DEFINE front == drawn \o flying
    <3>3. front \in Seq(Tested) /\ Len(front) = Len(drawn) + Len(flying) /\ Everything = front \o waiting
      BY <1>2, <3>1, <3>2
    <3> HIDE DEF front
    <3>4. waiting \in Seq(Tested)
      BY <1>1 DEF waiting
    <3>5. Len(front) <= Len(Everything) /\ \A i \in 1 .. Len(front) : Everything[i] = front[i]
      BY <3>3, <3>4
    <3> QED BY <3>2, <3>3, <3>5 DEF front
  <2>3. \A i \in 1 .. Len(drawn) : drawn[i].test \in {submitted[i].test, "GEqual"}
    BY <2>1, <2>2 DEF Follows
  <2>4. DOMAIN drawn = 1 .. Len(drawn)
    BY <1>1
  <2> QED BY <2>3, <2>4 DEF DepthOfTest
<1>4. ASSUME phase = "drawing", draws = <<>>, ~late
      PROVE  [i \in DOMAIN drawn |-> drawn[i].vertex] \o draw_data
               = [i \in DOMAIN submitted |-> submitted[i].vertex]
  <2> DEFINE n == Len(drawn)
             m == Len(draw_data)
             vs == [i \in DOMAIN drawn |-> drawn[i].vertex]
  <2>1. Follows(Everything, submitted) /\ vertex_count = m
    BY <1>4 DEF FrameInv, Unflushed
  <2>2. n \in Nat /\ m \in Nat /\ DOMAIN drawn = 1 .. n /\ DOMAIN submitted = 1 .. Len(submitted)
        /\ DOMAIN draw_data = 1 .. m
    BY <1>1
  <2>3. Everything = drawn \o waiting
    <3>1. flying = <<>>
      BY <1>4, InFlightEmpty
    <3> HIDE DEF flying, waiting
    <3> QED BY <1>1, <1>2, <3>1, ConcatEmptySeq
  <2>4. Len(waiting) = m /\ \A i \in 1 .. m : waiting[i].vertex = draw_data[i]
    <3>1. NewDraw \in Draw /\ NewDraw.first = 0 /\ NewDraw.count = m
      <4>1. NewDraw \in Draw /\ NewDraw.first = m - vertex_count /\ NewDraw.count = vertex_count
        BY NewDrawType
      <4> QED BY <2>1, <2>2, <4>1
    <3> DEFINE d == NewDraw
    <3> HIDE DEF d
    <3>2. d \in Draw /\ d.first = 0 /\ d.count = m
      BY <3>1 DEF d
    <3>3. /\ Len(FetchedFrom(d, draw_data)) = d.count
          /\ \A i \in 1 .. d.count :
               d.first + i <= m => FetchedFrom(d, draw_data)[i].vertex = draw_data[d.first + i]
      BY <1>1, <3>2, FetchedType
    <3>4. \A i \in 1 .. m : 0 + i = i /\ i <= m
      BY <2>2
    <3> HIDE DEF m
    <3> QED BY <3>2, <3>3, <3>4 DEF d
  <2> HIDE DEF waiting
  <2>5. waiting \in Seq(Tested)
    BY <1>1 DEF waiting
  <2>6. /\ Len(Everything) = n + m
        /\ \A i \in 1 .. n : Everything[i] = drawn[i]
        /\ \A i \in 1 .. m : Everything[n + i] = waiting[i]
    <3>1. drawn \in Seq(Tested)
      BY <1>1
    <3>2. /\ Len(drawn \o waiting) = Len(drawn) + Len(waiting)
          /\ \A i \in 1 .. Len(drawn) : (drawn \o waiting)[i] = drawn[i]
          /\ \A i \in 1 .. Len(waiting) : (drawn \o waiting)[Len(drawn) + i] = waiting[i]
      BY <2>5, <3>1, ConcatParts
    <3> QED BY <2>3, <2>4, <3>2
  <2>7. vs \in Seq(Vertex) /\ Len(vs) = n /\ \A i \in 1 .. n : vs[i] = drawn[i].vertex
    <3>1. ASSUME NEW i \in 1 .. n PROVE drawn[i].vertex \in Vertex
      <4>1. drawn[i] \in Tested
        BY <1>1
      <4> QED BY <4>1 DEF Tested
    <3> HIDE DEF n
    <3>2. vs = [i \in 1 .. n |-> drawn[i].vertex]
      BY <2>2
    <3> HIDE DEF vs
    <3> QED BY <2>2, <3>1, <3>2
  <2> HIDE DEF vs
  <2> DEFINE left == vs \o draw_data
  <2>8. /\ left \in Seq(Vertex) /\ Len(left) = n + m
        /\ \A i \in 1 .. n : left[i] = vs[i]
        /\ \A i \in 1 .. m : left[n + i] = draw_data[i]
    <3>1. draw_data \in Seq(Vertex) /\ vs \in Seq(Vertex)
      BY <1>1, <2>7
    <3>2. /\ vs \o draw_data \in Seq(Vertex) /\ Len(vs \o draw_data) = Len(vs) + m
          /\ \A i \in 1 .. Len(vs) : (vs \o draw_data)[i] = vs[i]
          /\ \A i \in 1 .. m : (vs \o draw_data)[Len(vs) + i] = draw_data[i]
      BY <3>1, ConcatParts
    <3> QED BY <2>7, <3>2
  <2> HIDE DEF left
  <2>9. Len(submitted) = n + m
    BY <2>1, <2>6 DEF Follows
  <2>10. ASSUME NEW i \in 1 .. n + m PROVE left[i] = submitted[i].vertex
    <3>1. Everything[i].vertex = submitted[i].vertex
      BY <2>1, <2>6 DEF Follows
    <3>2. CASE i <= n
      <4>1. i \in 1 .. n
        BY <2>2, <3>2
      <4> QED BY <2>6, <2>7, <2>8, <3>1, <4>1
    <3>3. CASE i > n
      <4> DEFINE j == i - n
      <4>1. j \in 1 .. m /\ i = n + j
        BY <2>2, <3>3
      <4> HIDE DEF j
      <4> QED BY <2>4, <2>6, <2>8, <3>1, <4>1
    <3>4. i <= n \/ i > n
      BY <2>2
    <3> QED BY <3>2, <3>3, <3>4, Zenon
  <2>11. left = [i \in 1 .. n + m |-> left[i]]
    BY <2>8
  <2>12. left = [i \in DOMAIN submitted |-> submitted[i].vertex]
    BY <2>2, <2>9, <2>10, <2>11
  <2> QED BY <2>12 DEF left, vs
<1> QED BY <1>3, <1>4 DEF DrawnOnce, DepthOfTest

-----------------------------------------------------------------------------
(* Writes to the GS.                                                       *)

FramesOK == GsTypeOK /\ FrameInv

\* A write to any register of the GS.
LEMMA GsWriteInv ==
  ASSUME FramesOK, NEW register \in Registers, NEW value \in Seq(Nat), Len(value) >= 4,
         GsWrite(register, value)
  PROVE  FramesOK'
<1>1. Len(value) >= 3 /\ \A r \in Stored : Field(r, value)
  BY DEF Field
<1>2. ASSUME register \in Stored, regs' = [regs EXCEPT ![register] = value],
             UNCHANGED <<transfer, vqueue, renderer, frame, gs_halted>>
      PROVE  FramesOK'
  <2>1. GsTypeOK'
    BY <1>1, <1>2, StoreType DEF FramesOK
  <2> QED BY <1>2, <2>1, OtherFrame DEF FramesOK
<1>3. ASSUME NEW kick \in BOOLEAN, ProcessVertex(value, kick) PROVE FramesOK'
  <2>1. GsTypeOK'
    BY <1>1, <1>3, ProcessVertexType DEF FramesOK
  <2>2. PICK whole \in Seq(Vertex) : Submits(whole)
    BY <1>1, <1>3, ProcessVertexEffect DEF FramesOK
  <2> QED BY <2>1, <2>2, SubmitsFrame DEF FramesOK
<1>4. ASSUME WriteTest(value[1]) PROVE FramesOK'
  BY <1>4, WriteTestType, WriteTestFrame DEF FramesOK
<1>5. ASSUME trxdir' = value[1], data_written' = 0,
             UNCHANGED <<regs, vram, vqueue, renderer, frame, gs_halted>>
      PROVE  FramesOK'
  <2>1. trxdir' \in Nat /\ data_written' \in Nat /\ gs_halted' \in BOOLEAN
    <3>1. value[1] \in Nat
      BY <1>1, FirstFields
    <3> QED BY <1>5, <3>1 DEF FramesOK, GsTypeOK
  <2>2. UNCHANGED <<regs, vqueue, renderer, frame>>
    BY <1>5
  <2> QED BY <2>1, <2>2, TransferType, OtherFrame DEF FramesOK
<1>6. ASSUME GsHalt PROVE FramesOK'
  <2>1. UNCHANGED <<renderer, frame>>
    BY <1>6 DEF GsHalt
  <2> QED BY <1>6, <2>1, HaltType, OtherFrame DEF FramesOK
<1> QED BY <1>2, <1>3, <1>4, <1>5, <1>6 DEF GsWrite

\* A quadword of an image.
LEMMA GsImageInv ==
  ASSUME FramesOK, NEW pixels \in Seq(Nat), GsImage(pixels)
  PROVE  FramesOK'
<1>1. UNCHANGED <<renderer, frame>>
  BY DEF GsImage
<1> QED BY <1>1, GsImageType, OtherFrame DEF FramesOK

\* A step of the frame.
LEMMA FramesInv ==
  ASSUME FramesOK, Frames
  PROVE  FramesOK'
<1>1. ASSUME Render PROVE FramesOK'
  <2>1. GsTypeOK'
    BY <1>1, RenderType DEF FramesOK
  <2> QED BY <1>1, <2>1, RenderFrame DEF FramesOK
<1>2. ASSUME NextFrame PROVE FramesOK'
  <2>1. GsTypeOK'
    BY <1>2, NextFrameType DEF FramesOK
  <2> QED BY <1>2, <2>1, NextFrameFrame DEF FramesOK
<1> QED BY <1>1, <1>2 DEF Frames

\* No step of the GS.
LEMMA FramesUnchanged ==
  ASSUME FramesOK, UNCHANGED gsVars
  PROVE  FramesOK'
<1>1. UNCHANGED <<renderer, frame>>
  BY DEF gsVars
<1>2. GsTypeOK'
  BY DEF FramesOK, GsTypeOK, gsVars, transfer, renderer, frame
<1> QED BY <1>1, <1>2, OtherFrame DEF FramesOK

\* A GS that was just made.
LEMMA FramesInit ==
  ASSUME GsInit
  PROVE  FramesOK
<1>1. GsTypeOK
  <2>1. <<0, 0, 0>> \in Seq(Nat) /\ Len(<<0, 0, 0>>) = 3
    OBVIOUS
  <2> DEFINE zeros == <<0, 0, 0>>
  <2> HIDE DEF zeros
  <2>2. zeros \in Seq(Nat) /\ Len(zeros) = 3
    BY <2>1 DEF zeros
  <2>3. regs = [r \in Stored |-> zeros]
    BY DEF GsInit, zeros
  <2>4. regs \in [Stored -> Seq(Nat)] /\ \A r \in Stored : Len(regs[r]) >= IF r = "PRIM" THEN 1 ELSE 3
    <3>1. 3 >= 3 /\ 3 >= 1
      OBVIOUS
    <3> QED BY <2>2, <2>3, <3>1
  <2>5. /\ <<>> \in Seq(Vertex) /\ <<>> \in Seq(Draw) /\ <<>> \in Seq(Tested) /\ Len(<<>>) = 0
        /\ 0 \in 0 .. 0
    OBVIOUS
  <2>6. /\ trxdir = 0 /\ data_written = 0 /\ vqueue = <<>> /\ draw_data = <<>> /\ vertex_count = 0
        /\ depth = "GEqual" /\ draws = <<>> /\ buffer = <<>> /\ phase = "drawing"
        /\ gs_halted = FALSE /\ submitted = <<>> /\ drawn = <<>> /\ late = FALSE
    BY DEF GsInit, HostLocal
  <2>7. vqueue \in Seq(Vertex) /\ draw_data \in Seq(Vertex) /\ buffer \in Seq(Vertex)
    BY <2>5, <2>6
  <2>8. draws \in Seq(Draw) /\ submitted \in Seq(Tested) /\ drawn \in Seq(Tested)
    BY <2>5, <2>6
  <2>9. Len(vqueue) <= 3 /\ vertex_count \in 0 .. Len(draw_data)
    BY <2>5, <2>6
  <2>10. /\ trxdir \in Nat /\ data_written \in Nat /\ depth \in Depths
         /\ phase \in {"drawing", "rendered"} /\ gs_halted \in BOOLEAN /\ late \in BOOLEAN
    BY <2>6 DEF Depths
  <2> QED BY <2>4, <2>7, <2>8, <2>9, <2>10 DEF GsTypeOK
<1>2. /\ draws = <<>> /\ drawn = <<>> /\ draw_data = <<>> /\ submitted = <<>>
      /\ vertex_count = 0 /\ phase = "drawing"
  BY DEF GsInit
<1>3. DrawsWithin /\ Unflushed
  BY <1>2 DEF DrawsWithin, Within, Unflushed
<1>4. Everything = <<>>
  <2>1. NewDraw.count = 0
    BY <1>2 DEF NewDraw
  <2>2. InFlight(draws, FrameVertices) = <<>> /\ FetchedFrom(NewDraw, draw_data) = <<>>
    BY <1>2, <2>1, InFlightEmpty, FetchedNone
  <2> QED BY <1>2, <2>2 DEF Everything
<1>5. Follows(Everything, submitted)
  BY <1>2, <1>4 DEF Follows
<1> QED BY <1>1, <1>3, <1>5 DEF FramesOK, FrameInv

-----------------------------------------------------------------------------
(* The GIF.                                                                *)

\* The quadwords of the stream that wait in the FIFO are those sent last.
GifWaits ==
  /\ Len(gif_fifo) <= sent /\ gif_fifo = SubSeq(GifWires[stream], Taken + 1, sent)

\* Between two packets, or in the middle of one.
GifPlace ==
  IF data_count = 0
  THEN \E k \in 1 .. Len(Packets) + 1 : Taken = FirstOf(k)
  ELSE /\ \E k \in DOMAIN Packets :
            /\ tag = Packets[k].head
            /\ FirstOf(k) < Taken /\ Taken + Remaining = FirstOf(k + 1)
       /\ tag.flg = "Packed" => reg_count # 0

GifInv == FramesOK /\ GifTypeOK /\ GifWaits /\ (~gs_halted => GifPlace)

\* The stream being sent, and where its packets lie in it.
LEMMA StreamHere ==
  ASSUME stream \in DOMAIN GifStreams
  PROVE  /\ Packets \in Seq(PacketsOver(Quadword)) /\ Len(Packets) \in Nat
         /\ DOMAIN Packets = 1 .. Len(Packets)
         /\ GifWires[stream] \in Seq(Quadword)
         /\ GifLength \in Nat /\ FirstOf(1) = 0 /\ FirstOf(Len(Packets) + 1) = GifLength
         /\ \A k \in 1 .. Len(Packets) + 1 : FirstOf(k) \in Nat
         /\ \A k \in 1 .. Len(Packets) :
              /\ FirstOf(k + 1) = FirstOf(k) + 1 + Announced(Packets[k].head)
              /\ FirstOf(k + 1) <= GifLength
              /\ GifWires[stream][FirstOf(k) + 1] = Packets[k].head
              /\ \A j \in 1 .. Announced(Packets[k].head) :
                   GifWires[stream][FirstOf(k) + 1 + j] = Packets[k].body[j]
<1> DEFINE ps   == Packets
           n    == Len(ps)
           wire == FlattenSeq(Wired(ps))
<1>1. /\ ps \in Seq(PacketsOver(Quadword))
      /\ \A k \in DOMAIN ps : Len(ps[k].body) = Announced(ps[k].head)
  BY GifStreamsAssumption, Zenon DEF PacketsOver, Packets
<1>2. GifWires[stream] = wire
  BY DEF GifWires, GifWire, Wired, Packets
<1>3. FirstOfs[stream] = [k \in 1 .. n + 1 |-> Start(ps, k)]
  BY DEF FirstOfs, GifWire, Wired, Start, Packets
<1> HIDE DEF ps, wire
<1>4. n \in Nat /\ DOMAIN ps = 1 .. n
  BY <1>1
<1>5. /\ wire \in Seq(Quadword) /\ Start(ps, 1) = 0 /\ Start(ps, n + 1) = Len(wire)
      /\ \A k \in 1 .. n + 1 : Start(ps, k) \in Nat
      /\ \A k \in 1 .. n :
           /\ Start(ps, k + 1) = Start(ps, k) + 1 + Len(ps[k].body)
           /\ Start(ps, k + 1) <= Len(wire)
           /\ wire[Start(ps, k) + 1] = ps[k].head
           /\ \A j \in 1 .. Len(ps[k].body) : wire[Start(ps, k) + 1 + j] = ps[k].body[j]
  BY <1>1, PacketsLaidOut DEF wire
<1>6. Len(wire) \in Nat
  BY <1>5
<1>7. \A k \in 1 .. n + 1 : FirstOf(k) = Start(ps, k)
  BY <1>3 DEF FirstOf
<1>8. \A k \in 1 .. n : k \in 1 .. n + 1 /\ k + 1 \in 1 .. n + 1 /\ k \in DOMAIN ps
  BY <1>4
<1>9. FirstOf(1) = 0 /\ FirstOf(n + 1) = Len(wire)
  <2>1. 1 \in 1 .. n + 1 /\ n + 1 \in 1 .. n + 1
    BY <1>4
  <2> QED BY <1>5, <1>7, <2>1
<1>10. ASSUME NEW k \in 1 .. n
       PROVE  /\ FirstOf(k + 1) = FirstOf(k) + 1 + Announced(ps[k].head)
              /\ FirstOf(k + 1) <= Len(wire)
              /\ wire[FirstOf(k) + 1] = ps[k].head
              /\ \A j \in 1 .. Announced(ps[k].head) : wire[FirstOf(k) + 1 + j] = ps[k].body[j]
  <2>1. FirstOf(k) = Start(ps, k) /\ FirstOf(k + 1) = Start(ps, k + 1)
    BY <1>7, <1>8
  <2>2. Len(ps[k].body) = Announced(ps[k].head)
    BY <1>1, <1>8
  <2> QED BY <1>5, <2>1, <2>2, Zenon
<1>11. \A k \in 1 .. n + 1 : FirstOf(k) \in Nat
  BY <1>5, <1>7
<1>12. GifLength = Len(wire)
  BY <1>2 DEF GifLength
<1> QED BY <1>1, <1>2, <1>4, <1>5, <1>6, <1>9, <1>10, <1>11, <1>12, Zenon DEF ps

\* A packet of the stream is what its tag announces.
LEMMA PacketHere ==
  ASSUME stream \in DOMAIN GifStreams, NEW k \in DOMAIN Packets
  PROVE  /\ Packets[k].head \in Quadword /\ Packets[k].body \in Seq(Quadword)
         /\ Len(Packets[k].body) = Announced(Packets[k].head)
         /\ Announced(Packets[k].head) \in Nat
         /\ Packets[k].head.flg = "Packed" /\ Packets[k].head.nloop > 0 => Packets[k].head.regs # <<>>
         /\ \A i \in DOMAIN Packets[k].body : Len(Packets[k].body[i].value) >= 4
<1>1. /\ Len(Packets[k].body) = Announced(Packets[k].head)
      /\ Packets[k].head.flg = "Packed" /\ Packets[k].head.nloop > 0 => Packets[k].head.regs # <<>>
      /\ \A i \in DOMAIN Packets[k].body : Len(Packets[k].body[i].value) >= 4
  BY GifStreamsAssumption, Zenon DEF Packets
<1>2. Packets[k] \in PacketsOver(Quadword)
  <2>1. Packets \in Seq(PacketsOver(Quadword))
    BY StreamHere
  <2> QED BY <2>1
<1>3. Packets[k].head \in Quadword /\ Packets[k].body \in Seq(Quadword)
  BY <1>2 DEF PacketsOver
<1>4. Len(Packets[k].body) \in Nat
  BY <1>3
<1> QED BY <1>1, <1>3, <1>4

\* A quadword is taken: the one of the stream behind those taken before.
LEMMA TakesInv ==
  ASSUME GifInv, Takes
  PROVE  /\ Taken \in Nat /\ Taken < GifLength /\ GifLength \in Nat
         /\ Qword = GifWires[stream][Taken + 1] /\ Qword \in Quadword
         /\ Taken' = Taken + 1 /\ stream' = stream /\ sent' = sent
         /\ gif_fifo' \in Seq(Quadword) /\ Len(gif_fifo') <= GifQwords
         /\ GifWaits' /\ ~gs_halted
<1> DEFINE w == GifWires[stream]
<1>1. /\ gif_fifo \in Seq(Quadword) /\ Len(gif_fifo) <= GifQwords /\ stream \in DOMAIN GifStreams
      /\ sent \in Nat /\ sent <= GifLength /\ GifQwords \in Nat
  <2>1. GifLength \in Nat
    BY StreamHere DEF GifInv, GifTypeOK
  <2> QED BY <2>1, GifQwordsAssumption DEF GifInv, GifTypeOK
<1>2. w \in Seq(Quadword) /\ GifLength = Len(w) /\ GifLength \in Nat
  BY <1>1, StreamHere DEF GifLength
<1>3. gif_fifo # <<>> /\ gif_fifo' = Tail(gif_fifo) /\ stream' = stream /\ sent' = sent /\ ~gs_halted
  BY DEF Takes, gifSender
<1>4. Len(gif_fifo) <= sent /\ gif_fifo = SubSeq(w, Taken + 1, sent)
  BY DEF GifInv, GifWaits
<1> DEFINE t == Taken
<1>5. t \in Nat /\ t < sent /\ t <= sent /\ sent <= Len(w) /\ t = sent - Len(gif_fifo)
  BY <1>1, <1>2, <1>3, <1>4 DEF Taken
<1>6. gif_fifo' \in Seq(Quadword) /\ Len(gif_fifo') = Len(gif_fifo) - 1 /\ Len(gif_fifo') <= GifQwords
  BY <1>1, <1>3
<1>7. Taken' = t + 1
  BY <1>1, <1>3, <1>5, <1>6 DEF Taken
<1> HIDE DEF w, t
<1>8. Head(gif_fifo) = w[t + 1] /\ Tail(gif_fifo) = SubSeq(w, t + 2, sent)
  <2>1. /\ Head(SubSeq(w, t + 1, sent)) = w[t + 1]
        /\ Tail(SubSeq(w, t + 1, sent)) = SubSeq(w, t + 2, sent)
    BY <1>1, <1>2, <1>5, Window
  <2> QED BY <1>4, <2>1 DEF t
<1>9. Head(gif_fifo) \in Quadword
  BY <1>1, <1>3
<1>10. GifWaits'
  <2>1. Len(gif_fifo') <= sent'
    BY <1>1, <1>3, <1>4, <1>6
  <2>2. GifWires[stream'] = w /\ Taken' + 1 = t + 2
    BY <1>3, <1>5, <1>7 DEF w
  <2> QED BY <1>3, <1>8, <2>1, <2>2 DEF GifWaits
<1>11. Qword = w[t + 1] /\ Qword \in Quadword
  BY <1>8, <1>9 DEF Qword
<1>12. t < GifLength
  BY <1>1, <1>2, <1>5
<1> QED BY <1>2, <1>3, <1>5, <1>6, <1>7, <1>10, <1>11, <1>12, Zenon DEF t, w

\* One quadword of data less remains, whichever register is next.
LEMMA RemainingStep ==
  ASSUME NEW d \in Nat, d > 0, NEW L \in Nat, NEW r \in 1 .. L, NEW e, NEW q,
         q = IF r = 1 THEN L ELSE r - 1, e = IF r = 1 THEN d - 1 ELSE d
  PROVE  /\ e \in Nat /\ q \in 1 .. L
         /\ (d - 1) * L + r >= 1
         /\ e = 0 => (d - 1) * L + r = 1
         /\ e # 0 => (e - 1) * L + q = (d - 1) * L + r - 1
<1>1. (d - 1) * L \in Nat
  BY SMT
<1>2. CASE r = 1
  <2>1. e = d - 1 /\ q = L
    BY <1>2
  <2>2. e = 0 => (d - 1) * L = 0
    BY <2>1
  <2>3. e # 0 => (e - 1) * L + L = e * L
    BY <2>1, SMT
  <2> QED BY <1>1, <1>2, <2>1, <2>2, <2>3
<1>3. CASE r # 1
  <2>1. e = d /\ q = r - 1
    BY <1>3
  <2> QED BY <1>1, <1>3, <2>1
<1> QED BY <1>2, <1>3

\* The types of what the parser looks at.
LEMMA ParserTypes ==
  ASSUME GifInv
  PROVE  /\ tag \in Quadword /\ data_count \in Nat /\ reg_count \in Nat /\ reg_count <= Len(tag.regs)
         /\ tag.regs \in Seq(RegDescs) /\ Len(tag.regs) \in Nat /\ stream \in DOMAIN GifStreams
         /\ tag.flg \in Formats /\ tag.nloop \in Nat
<1>1. tag \in Quadword /\ data_count \in Nat /\ reg_count \in 0 .. Len(tag.regs) /\ stream \in DOMAIN GifStreams
  BY DEF GifInv, GifTypeOK
<1>2. tag.regs \in Seq(RegDescs) /\ tag.flg \in Formats /\ tag.nloop \in Nat
  BY <1>1 DEF Quadword
<1>3. Len(tag.regs) \in Nat
  BY <1>2
<1> QED BY <1>1, <1>2, <1>3

\* In the middle of a packet, some of it is to come.
LEMMA RemainingPositive ==
  ASSUME GifInv, ~gs_halted, data_count # 0
  PROVE  Remaining \in Nat /\ Remaining >= 1
<1>1. tag.flg = "Packed" => reg_count # 0
  BY DEF GifInv, GifPlace
<1>2. /\ data_count \in Nat /\ reg_count \in Nat /\ reg_count <= Len(tag.regs) /\ Len(tag.regs) \in Nat
  BY ParserTypes
<1> DEFINE product == (data_count - 1) * Len(tag.regs)
<1>3. product \in Nat
  <2>1. data_count - 1 \in Nat /\ Len(tag.regs) \in Nat
    BY <1>2
  <2> QED BY <2>1
<1>4. Remaining = IF tag.flg = "Packed" THEN product + reg_count ELSE data_count
  BY DEF Remaining
<1> HIDE DEF product
<1> QED BY <1>1, <1>2, <1>3, <1>4

\* What is taken between two packets is the head of the next one.
LEMMA TagHere ==
  ASSUME GifInv, Takes, data_count = 0
  PROVE  \E k \in DOMAIN Packets : Taken = FirstOf(k) /\ Qword = Packets[k].head
<1>1. /\ Taken \in Nat /\ Taken < GifLength /\ GifLength \in Nat /\ Qword = GifWires[stream][Taken + 1] /\ ~gs_halted
  BY TakesInv
<1>2. stream \in DOMAIN GifStreams
  BY ParserTypes
<1>3. PICK k \in 1 .. Len(Packets) + 1 : Taken = FirstOf(k)
  BY <1>1 DEF GifInv, GifPlace
<1>4. k # Len(Packets) + 1
  BY <1>1, <1>2, <1>3, StreamHere
<1>5. DOMAIN Packets = 1 .. Len(Packets) /\ Len(Packets) \in Nat
  BY <1>2, StreamHere
<1>6. k \in DOMAIN Packets /\ k \in 1 .. Len(Packets)
  BY <1>3, <1>4, <1>5
<1>7. GifWires[stream][FirstOf(k) + 1] = Packets[k].head
  BY <1>2, <1>6, StreamHere
<1> QED BY <1>1, <1>3, <1>6, <1>7

\* What is taken in the middle of a packet is the next quadword of its body.
LEMMA BodyQword ==
  ASSUME GifInv, Takes, data_count # 0
  PROVE  \E k \in DOMAIN Packets : \E i \in 1 .. Announced(Packets[k].head) :
           /\ tag = Packets[k].head /\ Taken = FirstOf(k) + i /\ FirstOf(k) \in Nat
           /\ Qword = Packets[k].body[i] /\ i + Remaining = Announced(Packets[k].head) + 1
           /\ Announced(Packets[k].head) \in Nat /\ DOMAIN Packets[k].body = 1 .. Announced(Packets[k].head)
<1>1. /\ Taken \in Nat /\ Qword = GifWires[stream][Taken + 1] /\ Qword \in Quadword /\ ~gs_halted
  BY TakesInv
<1>2. PICK k \in DOMAIN Packets : /\ tag = Packets[k].head
                                  /\ FirstOf(k) < Taken /\ Taken + Remaining = FirstOf(k + 1)
  BY <1>1 DEF GifInv, GifPlace
<1>3. Remaining \in Nat /\ Remaining >= 1
  BY <1>1, RemainingPositive
<1>4. stream \in DOMAIN GifStreams
  BY ParserTypes
<1> DEFINE j == Taken - FirstOf(k)
           n == Announced(Packets[k].head)
<1>5. /\ k \in 1 .. Len(Packets) /\ FirstOf(k) \in Nat /\ FirstOf(k + 1) = FirstOf(k) + 1 + n
      /\ \A i \in 1 .. n : GifWires[stream][FirstOf(k) + 1 + i] = Packets[k].body[i]
  <2>1. DOMAIN Packets = 1 .. Len(Packets) /\ Len(Packets) \in Nat
    BY <1>4, StreamHere
  <2>2. k \in 1 .. Len(Packets) + 1
    BY <2>1
  <2> QED BY <1>4, <2>1, <2>2, StreamHere
<1>6. n \in Nat /\ Len(Packets[k].body) = n /\ Packets[k].body \in Seq(Quadword)
  BY <1>4, PacketHere
<1>7. DOMAIN Packets[k].body = 1 .. n
  BY <1>6
<1> HIDE DEF n
<1>8. j \in 1 .. n /\ FirstOf(k) + 1 + j = Taken + 1 /\ Taken = FirstOf(k) + j /\ j + Remaining = n + 1
  <2>1. Taken \in Nat /\ FirstOf(k) \in Nat /\ n \in Nat /\ Remaining \in Nat
    BY <1>1, <1>3, <1>5, <1>6
  <2>2. FirstOf(k) < Taken /\ Taken + Remaining = FirstOf(k) + 1 + n /\ Remaining >= 1
    BY <1>2, <1>3, <1>5
  <2> QED BY <2>1, <2>2
<1> HIDE DEF j
<1>9. Qword = Packets[k].body[j]
  BY <1>1, <1>5, <1>8
<1> QED BY <1>2, <1>5, <1>6, <1>7, <1>8, <1>9 DEF n

\* What is taken in the middle of a packet is a quadword of its data.
LEMMA DataQword ==
  ASSUME GifInv, Takes, data_count # 0
  PROVE  Qword.value \in Seq(Nat) /\ Len(Qword.value) >= 4 /\ Qword.addr \in Registers
<1>1. PICK k \in DOMAIN Packets : \E i \in 1 .. Announced(Packets[k].head) :
        Qword = Packets[k].body[i] /\ DOMAIN Packets[k].body = 1 .. Announced(Packets[k].head)
  BY BodyQword
<1>2. \A i \in DOMAIN Packets[k].body : Len(Packets[k].body[i].value) >= 4
  BY ParserTypes, PacketHere
<1>3. Len(Qword.value) >= 4
  BY <1>1, <1>2
<1>4. Qword \in Quadword
  BY TakesInv
<1> QED BY <1>3, <1>4 DEF Quadword

\* A quadword taken keeps the types.
LEMMA TakesTypes ==
  ASSUME GifInv, Takes, FramesOK',
         tag' \in Quadword, data_count' \in Nat, reg_count' \in 0 .. Len((tag').regs)
  PROVE  GifTypeOK'
<1>1. /\ gif_fifo' \in Seq(Quadword) /\ Len(gif_fifo') <= GifQwords /\ stream' = stream /\ sent' = sent
  BY TakesInv
<1>2. stream' \in DOMAIN GifStreams /\ sent' \in 0 .. GifLength'
  BY <1>1 DEF GifInv, GifTypeOK, GifLength
<1> QED BY <1>1, <1>2 DEF FramesOK, GifTypeOK

\* The GIF stands between two packets.
LEMMA PlaceBetween ==
  ASSUME stream' = stream, data_count' = 0, NEW k \in 1 .. Len(Packets) + 1, Taken' = FirstOf(k)
  PROVE  GifPlace'
BY Zenon DEF GifPlace, FirstOf, Packets

\* The GIF stands in a packet.
LEMMA PlaceInside ==
  ASSUME stream' = stream, data_count' # 0, NEW k \in DOMAIN Packets, tag' = Packets[k].head,
         FirstOf(k) < Taken', Taken' + Remaining' = FirstOf(k + 1),
         (tag').flg = "Packed" => reg_count' # 0
  PROVE  GifPlace'
BY Zenon DEF GifPlace, FirstOf, Packets

\* process_tag: the quadword taken is the head of a packet.
LEMMA ProcessTagInv ==
  ASSUME GifInv, ProcessTag
  PROVE  GifInv'
<1>1. /\ data_count = 0 /\ Takes /\ tag' = Qword /\ data_count' = Qword.nloop
      /\ reg_count' = Len(Qword.regs)
      /\ regs' = IF Qword.pre THEN [regs EXCEPT !["PRIM"] = <<Qword.prim>>] ELSE regs
      /\ UNCHANGED <<transfer, vqueue, renderer, frame, gs_halted>>
  BY DEF ProcessTag
<1>2. /\ Taken \in Nat /\ Taken < GifLength /\ Qword = GifWires[stream][Taken + 1] /\ Qword \in Quadword
      /\ Taken' = Taken + 1 /\ stream' = stream /\ GifWaits' /\ ~gs_halted
  BY <1>1, TakesInv
<1>3. /\ Qword.nloop \in Nat /\ Qword.regs \in Seq(RegDescs) /\ Qword.prim \in Nat
      /\ Len(Qword.regs) \in Nat /\ Qword.flg \in Formats
  <2>1. /\ Qword.nloop \in Nat /\ Qword.regs \in Seq(RegDescs) /\ Qword.prim \in Nat /\ Qword.flg \in Formats
    BY <1>2 DEF Quadword
  <2> QED BY <2>1
<1>4. FramesOK'
  <2>1. CASE Qword.pre
    <3>1. <<Qword.prim>> \in Seq(Nat) /\ Field("PRIM", <<Qword.prim>>) /\ "PRIM" \in Stored
      BY <1>3 DEF Field, Stored
    <3>2. regs' = [regs EXCEPT !["PRIM"] = <<Qword.prim>>]
      BY <1>1, <2>1
    <3>3. GsTypeOK'
      BY <1>1, <3>1, <3>2, StoreType DEF GifInv, FramesOK
    <3> QED BY <1>1, <3>3, OtherFrame DEF GifInv, FramesOK
  <2>2. CASE ~Qword.pre
    <3>1. UNCHANGED gsVars
      BY <1>1, <2>2 DEF gsVars
    <3> QED BY <3>1, FramesUnchanged DEF GifInv
  <2> QED BY <2>1, <2>2
<1>5. GifTypeOK'
  BY <1>1, <1>2, <1>3, <1>4, TakesTypes
<1>6. stream \in DOMAIN GifStreams
  BY ParserTypes
<1>7. PICK k \in DOMAIN Packets : Taken = FirstOf(k) /\ Qword = Packets[k].head
  BY <1>1, TagHere
<1> DEFINE t == Packets[k].head
<1>8. /\ k \in 1 .. Len(Packets) /\ k + 1 \in 1 .. Len(Packets) + 1
      /\ FirstOf(k + 1) = FirstOf(k) + 1 + Announced(t) /\ GifWires[stream][FirstOf(k) + 1] = t
  <2>1. DOMAIN Packets = 1 .. Len(Packets) /\ Len(Packets) \in Nat
    BY <1>6, StreamHere
  <2> QED BY <1>6, <2>1, StreamHere
<1>9. t = Qword
  BY <1>7
<1>10. t.flg = "Packed" /\ t.nloop > 0 => t.regs # <<>>
  BY <1>6, PacketHere
<1>11. GifPlace'
  <2>1. CASE data_count' = 0
    <3>1. Announced(t) = 0
      BY <1>1, <1>3, <1>9, <2>1 DEF Announced
    <3>2. Taken' = FirstOf(k + 1)
      BY <1>2, <1>7, <1>8, <3>1
    <3> QED BY <1>2, <1>8, <2>1, <3>2, PlaceBetween
  <2>2. CASE data_count' # 0
    <3>1. tag' = t /\ FirstOf(k) < Taken'
      BY <1>1, <1>2, <1>7, <1>9
    <3>2. t.flg = "Packed" => reg_count' # 0
      <4>1. t.nloop > 0
        BY <1>1, <1>3, <1>9, <2>2
      <4>2. Len(t.regs) = 0 => t.regs = <<>>
        BY <1>3, <1>9
      <4> QED BY <1>1, <1>9, <1>10, <4>1, <4>2
    <3>3. Remaining' = Announced(t)
      <4>1. Remaining' = IF t.flg = "Packed" THEN (t.nloop - 1) * Len(t.regs) + Len(t.regs) ELSE t.nloop
        BY <1>1, <1>9 DEF Remaining
      <4>2. t.nloop \in Nat /\ Len(t.regs) \in Nat
        BY <1>3, <1>9
      <4>3. (t.nloop - 1) * Len(t.regs) + Len(t.regs) = t.nloop * Len(t.regs)
        BY <4>2, SMT
      <4> QED BY <4>1, <4>3 DEF Announced
    <3>4. Taken' + Remaining' = FirstOf(k + 1)
      <4>1. Announced(t) \in Nat
        BY <1>6, PacketHere
      <4> QED BY <1>2, <1>7, <1>8, <3>3, <4>1
    <3> QED BY <1>2, <2>2, <3>1, <3>2, <3>4, PlaceInside
  <2> QED BY <2>1, <2>2
<1> QED BY <1>2, <1>4, <1>5, <1>11 DEF GifInv

\* One quadword of data is dealt with.
LEMMA DataTaken ==
  ASSUME GifInv, Takes, data_count # 0, FramesOK', tag' = tag,
         data_count' \in Nat, reg_count' \in 0 .. Len(tag.regs),
         tag.flg = "Packed" => reg_count' # 0,
         data_count' = 0 => Remaining = 1,
         data_count' # 0 => Remaining' = Remaining - 1
  PROVE  GifInv'
<1>1. /\ Taken \in Nat /\ Taken' = Taken + 1 /\ stream' = stream /\ GifWaits' /\ ~gs_halted
  BY TakesInv
<1>2. stream \in DOMAIN GifStreams /\ tag \in Quadword
  BY ParserTypes
<1>3. GifTypeOK'
  BY <1>2, TakesTypes
<1>4. PICK k \in DOMAIN Packets : /\ tag = Packets[k].head
                                  /\ FirstOf(k) < Taken /\ Taken + Remaining = FirstOf(k + 1)
  BY <1>1 DEF GifInv, GifPlace
<1>5. k + 1 \in 1 .. Len(Packets) + 1 /\ FirstOf(k) \in Nat
  <2>1. DOMAIN Packets = 1 .. Len(Packets) /\ Len(Packets) \in Nat
    BY <1>2, StreamHere
  <2>2. k \in 1 .. Len(Packets) + 1
    BY <2>1
  <2> QED BY <1>2, <2>1, <2>2, StreamHere
<1>6. Remaining \in Nat /\ Remaining >= 1
  BY <1>1, RemainingPositive
<1>7. GifPlace'
  <2>1. CASE data_count' = 0
    <3>1. Taken' = FirstOf(k + 1)
      BY <1>1, <1>4, <2>1
    <3> QED BY <1>1, <1>5, <2>1, <3>1, PlaceBetween
  <2>2. CASE data_count' # 0
    <3>1. FirstOf(k) < Taken' /\ Taken' + Remaining' = FirstOf(k + 1)
      BY <1>1, <1>4, <1>5, <1>6, <2>2
    <3>2. tag' = Packets[k].head /\ ((tag').flg = "Packed" => reg_count' # 0)
      BY <1>4
    <3> QED BY <1>1, <2>2, <3>1, <3>2, PlaceInside
  <2> QED BY <2>1, <2>2
<1> QED BY <1>1, <1>3, <1>7 DEF GifInv

\* process_packed writes to registers there are.
LEMMA AddressedType ==
  ASSUME NEW desc \in RegDescs, NEW qword, qword.addr \in Registers
  PROVE  Addressed(desc, qword) \in Registers
BY DEF Addressed, RegDescs, Registers, Stored, Kicks

\* A packed quadword: one register on.
LEMMA PackedInv ==
  ASSUME GifInv, Packed
  PROVE  GifInv'
<1> DEFINE L == Len(tag.regs)
           desc == tag.regs[L - reg_count + 1]
           register == Addressed(desc, Qword)
<1>1. /\ data_count > 0 /\ tag.flg = "Packed" /\ Takes /\ GsWrite(register, Qword.value)
      /\ reg_count' = (IF reg_count = 1 THEN L ELSE reg_count - 1)
      /\ data_count' = (IF reg_count = 1 THEN data_count - 1 ELSE data_count)
      /\ tag' = tag
  BY DEF Packed, NextRegister
<1>2. /\ data_count \in Nat /\ data_count # 0 /\ reg_count \in Nat /\ reg_count <= L /\ L \in Nat
      /\ tag.regs \in Seq(RegDescs)
  BY <1>1, ParserTypes
<1>3. ~gs_halted
  BY <1>1, TakesInv
<1>4. reg_count \in 1 .. L
  BY <1>1, <1>2, <1>3 DEF GifInv, GifPlace
<1>5. Qword.value \in Seq(Nat) /\ Len(Qword.value) >= 4 /\ Qword.addr \in Registers
  BY <1>1, <1>2, DataQword
<1>6. register \in Registers
  <2>1. L - reg_count + 1 \in 1 .. L
    BY <1>2, <1>4
  <2>2. desc \in RegDescs
    BY <1>2, <2>1
  <2> QED BY <1>5, <2>2, AddressedType
<1>7. FramesOK'
  <2> HIDE DEF register
  <2>1. FramesOK
    BY DEF GifInv
  <2> QED BY <1>1, <1>5, <1>6, <2>1, GsWriteInv
<1> DEFINE before == (data_count - 1) * L + reg_count
           after  == (data_count' - 1) * L + reg_count'
<1>8. /\ data_count' \in Nat /\ reg_count' \in 1 .. L
      /\ data_count' = 0 => before = 1
      /\ data_count' # 0 => after = before - 1
  <2> HIDE DEF L
  <2>1. data_count > 0
    BY <1>1
  <2> QED BY <1>1, <1>2, <1>4, <2>1, RemainingStep
<1>9. Remaining = before /\ Remaining' = after
  BY <1>1, Zenon DEF Remaining
<1>10. reg_count' \in 0 .. L /\ reg_count' # 0
  <2> HIDE DEF before, after
  <2> QED BY <1>2, <1>8
<1>11. (data_count' = 0 => Remaining = 1) /\ (data_count' # 0 => Remaining' = Remaining - 1)
  <2> HIDE DEF before, after
  <2> QED BY <1>8, <1>9
<1> QED BY <1>1, <1>2, <1>7, <1>8, <1>10, <1>11, DataTaken, Zenon

\* A quadword of an image: one on.
LEMMA ImageInv ==
  ASSUME GifInv, Image
  PROVE  GifInv'
<1>1. /\ data_count > 0 /\ tag.flg = "Image" /\ Takes /\ GsImage(Qword.value)
      /\ data_count' = data_count - 1 /\ tag' = tag /\ reg_count' = reg_count
  BY DEF Image
<1>2. /\ data_count \in Nat /\ data_count # 0 /\ reg_count \in 0 .. Len(tag.regs)
  BY <1>1, ParserTypes
<1>3. Qword.value \in Seq(Nat)
  BY <1>1, <1>2, DataQword
<1>4. FramesOK'
  BY <1>1, <1>3, GsImageInv DEF GifInv
<1>5. Remaining = data_count /\ Remaining' = data_count'
  BY <1>1 DEF Remaining
<1>6. /\ data_count' \in Nat /\ (data_count' = 0 => Remaining = 1)
      /\ (data_count' # 0 => Remaining' = Remaining - 1) /\ tag.flg # "Packed"
  BY <1>1, <1>2, <1>5
<1> QED BY <1>1, <1>2, <1>4, <1>6, DataTaken

\* A REGLIST stops the GIF.
LEMMA UnknownFormatInv ==
  ASSUME GifInv, UnknownFormat
  PROVE  GifInv'
<1>1. Takes /\ GsHalt /\ tag' = tag /\ data_count' = data_count /\ reg_count' = reg_count
  BY DEF UnknownFormat, gifParser
<1>2. FramesOK'
  <2>1. UNCHANGED <<renderer, frame>>
    BY <1>1 DEF GsHalt
  <2> QED BY <1>1, <2>1, HaltType, OtherFrame DEF GifInv, FramesOK
<1>3. GifTypeOK'
  <2>1. tag \in Quadword /\ data_count \in Nat /\ reg_count \in 0 .. Len(tag.regs)
    BY ParserTypes
  <2> QED BY <1>1, <1>2, <2>1, TakesTypes
<1>4. gs_halted' /\ GifWaits'
  BY <1>1, TakesInv DEF GsHalt
<1> QED BY <1>2, <1>3, <1>4 DEF GifInv

\* write_path3: the FIFO holds one quadword more of the stream.
LEMMA WritePath3Inv ==
  ASSUME GifInv, WritePath3
  PROVE  GifInv'
<1> DEFINE w == GifWires[stream]
           t == Taken
<1>1. /\ sent < GifLength /\ Len(gif_fifo) < GifQwords
      /\ gif_fifo' = Append(gif_fifo, w[sent + 1]) /\ sent' = sent + 1 /\ stream' = stream
      /\ UNCHANGED <<gsVars, gifParser>>
  BY DEF WritePath3
<1>2. /\ gif_fifo \in Seq(Quadword) /\ stream \in DOMAIN GifStreams /\ sent \in 0 .. GifLength
      /\ GifQwords \in Nat /\ Len(gif_fifo) <= sent /\ gif_fifo = SubSeq(w, t + 1, sent)
  BY GifQwordsAssumption DEF GifInv, GifTypeOK, GifWaits
<1>3. w \in Seq(Quadword) /\ GifLength = Len(w) /\ GifLength \in Nat
  BY <1>2, StreamHere DEF GifLength
<1>4. t \in Nat /\ t = sent - Len(gif_fifo) /\ t <= sent /\ sent \in Nat /\ sent < Len(w) /\ sent <= Len(w)
  BY <1>1, <1>2, <1>3 DEF Taken
<1> HIDE DEF w
<1>5. w[sent + 1] \in Quadword
  BY <1>3, <1>4
<1>6. gif_fifo' \in Seq(Quadword) /\ Len(gif_fifo') = Len(gif_fifo) + 1
  BY <1>1, <1>2, <1>5
<1>7. Taken' = t
  BY <1>1, <1>2, <1>4, <1>6 DEF Taken
<1> HIDE DEF t
<1>8. Append(SubSeq(w, t + 1, sent), w[sent + 1]) = SubSeq(w, t + 1, sent + 1)
  BY <1>3, <1>4, Window
<1>9. GifWaits'
  <2>1. GifWires[stream'] = w
    BY <1>1 DEF w
  <2>2. gif_fifo' = SubSeq(w, Taken' + 1, sent')
    BY <1>1, <1>2, <1>7, <1>8
  <2>3. Len(gif_fifo') <= sent'
    BY <1>1, <1>2, <1>4, <1>6
  <2> QED BY <2>1, <2>2, <2>3 DEF GifWaits
<1>10. FramesOK'
  BY <1>1, FramesUnchanged DEF GifInv
<1>11. GifTypeOK'
  <2>1. GifLength' = GifLength /\ stream' \in DOMAIN GifStreams
    BY <1>1, <1>2 DEF GifLength
  <2>2. sent' \in 0 .. GifLength' /\ Len(gif_fifo') <= GifQwords
    BY <1>1, <1>2, <1>3, <1>4, <1>6, <2>1
  <2>3. tag' \in Quadword /\ data_count' \in Nat /\ reg_count' \in 0 .. Len((tag').regs)
    BY <1>1 DEF GifInv, GifTypeOK, gifParser
  <2> QED BY <1>6, <1>10, <2>1, <2>2, <2>3 DEF FramesOK, GifTypeOK
<1>12. ASSUME ~gs_halted' PROVE GifPlace'
  <2>1. GifPlace /\ tag' = tag /\ data_count' = data_count /\ reg_count' = reg_count
    BY <1>1, <1>12 DEF GifInv, gifParser, gsVars
  <2> QED BY <1>1, <1>7, <2>1 DEF GifPlace, FirstOf, Packets, Remaining, t
<1> QED BY <1>9, <1>10, <1>11, <1>12 DEF GifInv

\* Nothing was sent yet, and no tag taken.
NothingSent ==
  /\ FramesOK /\ stream \in DOMAIN GifStreams /\ gif_fifo = <<>> /\ sent = 0
  /\ tag = EmptyQword /\ data_count = 0 /\ reg_count = 0

\* A GIF that was reset, and a stream of which nothing is sent.
LEMMA NothingSentInv == NothingSent => GifInv
<1> SUFFICES ASSUME NothingSent PROVE GifInv
  OBVIOUS
<1>1. /\ FramesOK /\ stream \in DOMAIN GifStreams /\ gif_fifo = <<>> /\ sent = 0
      /\ tag = EmptyQword /\ data_count = 0 /\ reg_count = 0
  BY DEF NothingSent
<1>2. Taken = 0
  <2>1. sent = 0 /\ Len(gif_fifo) = 0
    BY <1>1
  <2> QED BY <2>1 DEF Taken
<1>3. GifWaits
  <2>1. SubSeq(GifWires[stream], 1, 0) = <<>>
    BY <1>1, StreamHere
  <2> QED BY <1>1, <1>2, <2>1 DEF GifWaits
<1>4. GifLength \in Nat /\ Len(Packets) \in Nat /\ FirstOf(1) = 0
  BY <1>1, StreamHere
<1>5. GifTypeOK
  <2>1. EmptyQword \in Quadword /\ EmptyQword.regs = <<>>
    <3>1. <<0, 0, 0, 0>> \in Seq(Nat) /\ <<>> \in Seq(RegDescs)
      OBVIOUS
    <3> DEFINE zeros == <<0, 0, 0, 0>>
    <3> HIDE DEF zeros
    <3>2. EmptyQword = [nloop |-> 0, regs |-> <<>>, flg |-> "Packed", pre |-> FALSE, prim |-> 0,
                        addr |-> "OTHER", value |-> zeros, disable |-> FALSE]
      BY DEF EmptyQword, zeros
    <3>3. zeros \in Seq(Nat)
      BY <3>1 DEF zeros
    <3> QED BY <3>1, <3>2, <3>3 DEF Quadword, Formats, Registers, Stored
  <2>2. Len(gif_fifo) = 0 /\ gif_fifo \in Seq(Quadword) /\ 0 <= GifQwords
    BY <1>1, GifQwordsAssumption
  <2>3. reg_count \in 0 .. Len(tag.regs)
    BY <1>1, <2>1
  <2>4. Len(gif_fifo) <= GifQwords /\ sent \in 0 .. GifLength
    BY <1>1, <1>4, <2>2
  <2> QED BY <1>1, <2>1, <2>2, <2>3, <2>4 DEF FramesOK, GifTypeOK
<1>6. GifPlace
  BY <1>1, <1>2, <1>4 DEF GifPlace
<1> QED BY <1>1, <1>3, <1>5, <1>6 DEF GifInv

\* reset, in the middle of a packet.
LEMMA GifResetInv ==
  ASSUME GifInv, GifReset
  PROVE  GifInv'
<1>1. /\ gif_fifo' = <<>> /\ sent' = 0 /\ tag' = EmptyQword /\ data_count' = 0 /\ reg_count' = 0
      /\ stream' = 1 + (stream % Len(GifStreams)) /\ UNCHANGED gsVars
  BY DEF GifReset
<1>2. FramesOK'
  BY <1>1, FramesUnchanged DEF GifInv
<1>3. stream' \in DOMAIN GifStreams
  <2>1. Len(GifStreams) \in Nat \ {0} /\ DOMAIN GifStreams = 1 .. Len(GifStreams)
    BY GifStreamsAssumption, Zenon
  <2>2. stream \in 1 .. Len(GifStreams)
    BY <2>1, ParserTypes
  <2> QED BY <1>1, <2>1, <2>2
<1>4. NothingSent'
  BY <1>1, <1>2, <1>3 DEF NothingSent
<1>5. NothingSent' => GifInv'
  BY NothingSentInv, PTL
<1> QED BY <1>4, <1>5

\* A frame leaves the GIF alone.
LEMMA FramesTurnInv ==
  ASSUME GifInv, FramesTurn
  PROVE  GifInv'
<1>1. Frames /\ UNCHANGED <<gif_fifo, gifParser, gifSender>>
  BY DEF FramesTurn
<1>2. FramesOK' /\ gs_halted' = gs_halted
  BY <1>1, FramesInv DEF GifInv, Frames, Render, NextFrame
<1> QED BY <1>1, <1>2 DEF GifInv, GifTypeOK, FramesOK, GifWaits, GifPlace, Taken, GifLength, FirstOf,
                          Packets, Remaining, gifParser, gifSender

\* No step of the GIF.
LEMMA GifStutters ==
  ASSUME GifInv, UNCHANGED gifVars
  PROVE  GifInv'
<1>1. UNCHANGED <<gif_fifo, gifParser, gifSender>> /\ UNCHANGED gsVars
  BY DEF gifVars
<1>2. FramesOK' /\ gs_halted' = gs_halted
  BY <1>1, FramesUnchanged DEF GifInv, gsVars
<1> QED BY <1>1, <1>2 DEF GifInv, GifTypeOK, FramesOK, GifWaits, GifPlace, Taken, GifLength, FirstOf,
                          Packets, Remaining, gifParser, gifSender

\* Every step of the GIF, the GS and the frame keeps the place of the GIF in the stream
\* and the account of the vertices, for every stream, FIFO capacity and number of resets.
THEOREM GifInvariant == GraphicsSpec => []GifInv
<1>1. GifInit => GifInv
  <2> SUFFICES ASSUME GifInit PROVE GifInv
    OBVIOUS
  <2>1. NothingSent
    BY FramesInit DEF GifInit, NothingSent
  <2> QED BY <2>1, NothingSentInv
<1>2. GifInv /\ [GraphicsNext]_gifVars => GifInv'
  <2> SUFFICES ASSUME GifInv, [GraphicsNext]_gifVars PROVE GifInv'
    OBVIOUS
  <2>1. CASE WritePath3
    BY <2>1, WritePath3Inv
  <2>2. CASE GifReset
    BY <2>2, GifResetInv
  <2>3. CASE GifTurn
    BY <2>3, ProcessTagInv, PackedInv, ImageInv, UnknownFormatInv DEF GifTurn
  <2>4. CASE FramesTurn
    BY <2>4, FramesTurnInv
  <2>5. CASE UNCHANGED gifVars
    BY <2>5, GifStutters
  <2> QED BY <2>1, <2>2, <2>3, <2>4, <2>5 DEF GraphicsNext
<1> QED BY <1>1, <1>2, PTL DEF GraphicsSpec

\* GIF::tick takes for tags what was sent as tags, and gives each quadword of data to the
\* register it was meant for, in every stream of packets that hold what their tags
\* announce, wherever the FIFO was full and after a reset in the middle of a packet.
THEOREM GraphicsAligned == GraphicsSpec => []GifAligned
<1>1. GifInv => GifAligned
  BY DEF GifInv, GifPlace, GifAligned
<1> QED BY <1>1, GifInvariant, PTL

\* GSRenderer and the window draw each vertex handed to them once and in order, however the
\* vertical blanks fall between the flushes of any program, unless one came late.
THEOREM GraphicsDrawnOnce == GraphicsSpec => []DrawnOnce
<1>1. GifInv => DrawnOnce
  BY FrameImplies DEF GifInv, FramesOK
<1> QED BY <1>1, GifInvariant, PTL

\* Each of them is drawn under the depth function it was submitted under, or the one its
\* frame began with, never under that of a later TEST.
THEOREM GraphicsDepthOfTest == GraphicsSpec => []DepthOfTest
<1>1. GifInv => DepthOfTest
  BY FrameImplies DEF GifInv, FramesOK
<1> QED BY <1>1, GifInvariant, PTL

-----------------------------------------------------------------------------
(* The VIF.                                                                *)

\* The FIFO holds what was sent and not taken yet.
VifWaits ==
  /\ Len(vif_fifo) <= vif_sent
  /\ vif_fifo = SubSeq(Wire(vif_stream), Consumed + 1, vif_sent)

\* Where the VIF is: between two packets, or in one with so many words of it to come.  An
\* UNPACK of quadwords waits for whole ones.
AtPacket(k) == k \in 1 .. Len(vif_stream) + 1 /\ subpacket_count = 0 /\ Consumed = StartOf(k)
InPacket(k) ==
  /\ k \in 1 .. Len(vif_stream) /\ subpacket_count # 0
  /\ command = vif_stream[k].head
  /\ StartOf(k) < Consumed /\ Consumed + subpacket_count = StartOf(k + 1)
  /\ command.command = "UNPACK" /\ command.format = "V4_32" =>
       \E q \in Nat : subpacket_count = 4 * q
VifPlace == \E k \in Nat : AtPacket(k) \/ InPacket(k)

VifInv == VifTypeOK /\ VifWaits /\ (~vif_halted => VifPlace)

-----------------------------------------------------------------------------
(* The stream, the FIFO's part of it, and what follows a command.          *)

\* What the VIF expects behind a command is what programs put there.
LEMMA DataWordsExpected ==
  ASSUME NEW c \in Word, c.command \in DataCommands
  PROVE  DataWords(c) = Expected(c)
<1>1. c.num \in Nat /\ NumLimit \in Nat
  BY VifSizesAssumption DEF Word
<1>2. CASE c.command = "STMASK"
  BY <1>2 DEF Expected, DataWords
<1>3. CASE c.command \in {"STROW", "STCOL"}
  BY <1>3 DEF Expected, DataWords
<1>4. CASE c.command = "MPG"
  BY <1>1, <1>4 DEF Expected, DataWords
<1>5. CASE c.command = "UNPACK"
  BY <1>1, <1>5 DEF Expected, DataWords
<1> QED BY <1>2, <1>3, <1>4, <1>5 DEF DataCommands

\* The packets, and where they lie.
LEMMA VifStreamHere ==
  ASSUME vif_stream \in VifStreams
  PROVE  LET w == Wire(vif_stream)
             n == Len(vif_stream)
         IN  /\ w \in Seq(Word) /\ n \in Nat /\ WireLength = Len(w) /\ WireLength \in Nat
             /\ StartOf(1) = 0 /\ StartOf(n + 1) = WireLength
             /\ \A k \in 1 .. n + 1 : StartOf(k) \in Nat
             /\ \A k \in 1 .. n :
                  /\ vif_stream[k].head \in Word /\ Len(vif_stream[k].body) \in Nat
                  /\ StartOf(k + 1) = StartOf(k) + 1 + Len(vif_stream[k].body)
                  /\ w[StartOf(k) + 1] = vif_stream[k].head
                  /\ vif_stream[k].head.command \in Immediates => Len(vif_stream[k].body) = 0
                  /\ vif_stream[k].head.command \in DataCommands =>
                       Len(vif_stream[k].body) = Expected(vif_stream[k].head)
<1> DEFINE n == Len(vif_stream)
           w == FlattenSeq(Wired(vif_stream))
<1>1. vif_stream \in Seq(PacketsOver(Word))
  BY VifStreamsAssumption DEF PacketsOver
<1>2. Wire(vif_stream) = w /\ \A k : StartOf(k) = Start(vif_stream, k)
  BY DEF Wire, StartOf, Start, Wired
<1>3. /\ w \in Seq(Word) /\ Start(vif_stream, 1) = 0 /\ Start(vif_stream, n + 1) = Len(w)
      /\ \A k \in 1 .. n + 1 : Start(vif_stream, k) \in Nat
      /\ \A k \in 1 .. n :
           /\ Start(vif_stream, k + 1) = Start(vif_stream, k) + 1 + Len(vif_stream[k].body)
           /\ w[Start(vif_stream, k) + 1] = vif_stream[k].head
  BY <1>1, PacketsLaidOut
<1>4. n \in Nat /\ DOMAIN vif_stream = 1 .. n /\ \A k \in 1 .. n : vif_stream[k] \in PacketsOver(Word)
  BY <1>1
<1> HIDE DEF w
<1>5. Len(w) \in Nat
  BY <1>3
<1>6. ASSUME NEW k \in 1 .. n
      PROVE  /\ vif_stream[k].head \in Word /\ Len(vif_stream[k].body) \in Nat
             /\ vif_stream[k].head.command \in Immediates => Len(vif_stream[k].body) = 0
             /\ vif_stream[k].head.command \in DataCommands =>
                  Len(vif_stream[k].body) = Expected(vif_stream[k].head)
  <2> DEFINE p == vif_stream[k]
  <2>1. p.head \in Word /\ p.body \in Seq(Word)
    <3>1. p \in PacketsOver(Word)
      BY <1>4
    <3> HIDE DEF p
    <3> QED BY <3>1 DEF PacketsOver
  <2>2. /\ p.head.command \in Immediates => p.body = <<>>
        /\ p.head.command \in DataCommands => Len(p.body) = DataWords(p.head)
    BY <1>4, VifStreamsAssumption
  <2>4. p.head.command \in DataCommands => DataWords(p.head) = Expected(p.head)
    BY <2>1, DataWordsExpected
  <2> HIDE DEF p
  <2>3. Len(p.body) \in Nat /\ Len(<<>>) = 0
    BY <2>1
  <2> QED BY <2>1, <2>2, <2>3, <2>4 DEF p
<1> QED BY <1>2, <1>3, <1>4, <1>5, <1>6 DEF WireLength, w

\* process_command: the words a command announces are a number, and whole quadwords for V4.
LEMMA ExpectedType ==
  ASSUME NEW c \in Word, c.command \in DataCommands
  PROVE  /\ Expected(c) \in Nat
         /\ c.command = "UNPACK" /\ c.format = "V4_32" => Expected(c) = 4 * c.num /\ c.num \in Nat
<1>1. c.num \in Nat /\ NumLimit \in Nat /\ c.format \in UnpackFormats
  BY VifSizesAssumption DEF Word
<1>2. CASE c.command = "STMASK"
  BY <1>2 DEF Expected
<1>3. CASE c.command \in {"STROW", "STCOL"}
  BY <1>3 DEF Expected
<1>4. CASE c.command = "MPG"
  BY <1>1, <1>4 DEF Expected
<1>5. CASE c.command = "UNPACK"
  BY <1>1, <1>5 DEF Expected
<1> QED BY <1>2, <1>3, <1>4, <1>5 DEF DataCommands

\* What is in the FIFO when one more part of the stream was put in.
LEMMA SentInv ==
  ASSUME VifInv, NEW n \in Nat, vif_sent + n <= WireLength, Fits(n),
         vif_fifo' = vif_fifo \o Next_(n), vif_sent' = vif_sent + n,
         UNCHANGED <<parser, word_cycles, vif, memory, vif_halted, vif_stream, vif_resets, vif_origin>>
  PROVE  VifInv' /\ Consumed' = Consumed
<1> DEFINE w == Wire(vif_stream)
           from == Consumed
<1>1. /\ vif_stream \in VifStreams /\ vif_fifo \in Seq(Word) /\ vif_sent \in 0 .. WireLength
      /\ VifWords \in Nat
  BY VifSizesAssumption DEF VifInv, VifTypeOK
<1>2. w \in Seq(Word) /\ WireLength = Len(w) /\ WireLength \in Nat
  BY <1>1, VifStreamHere
<1>3. /\ from \in Nat /\ from <= vif_sent /\ vif_sent \in Nat /\ vif_sent <= Len(w)
      /\ vif_fifo = SubSeq(w, from + 1, vif_sent) /\ Len(vif_fifo) = vif_sent - from
  <2>1. Len(vif_fifo) \in Nat /\ Len(vif_fifo) <= vif_sent /\ vif_fifo = SubSeq(w, from + 1, vif_sent)
    BY <1>1 DEF VifInv, VifWaits
  <2> QED BY <1>1, <1>2, <2>1 DEF Consumed
<1> DEFINE next == SubSeq(w, vif_sent + 1, vif_sent + n)
<1>4. next \in Seq(Word) /\ Len(next) = n
  <2> HIDE DEF w
  <2> QED BY <1>2, <1>3
<1>5. SubSeq(w, from + 1, vif_sent) \o next = SubSeq(w, from + 1, vif_sent + n)
  <2>1. w \in Seq(Word)
    BY <1>2
  <2>2. from \in Nat /\ vif_sent \in Nat /\ n \in Nat /\ from <= vif_sent
    BY <1>3
  <2>3. vif_sent + n <= Len(w)
    BY <1>2
  <2> HIDE DEF w, from
  <2>4. SubSeq(w, from + 1, vif_sent) \o SubSeq(w, vif_sent + 1, vif_sent + n)
          = SubSeq(w, from + 1, vif_sent + n)
    BY ONLY <2>1, <2>2, <2>3, WindowGrows, SMTT(30)
  <2> QED BY <2>4
<1>6. vif_fifo' = vif_fifo \o next
  BY DEF Next_
<1> HIDE DEF next
<1>7. vif_fifo' \in Seq(Word) /\ Len(vif_fifo') = Len(vif_fifo) + n
  <2>1. vif_fifo \in Seq(Word)
    BY <1>1
  <2>2. next \in Seq(Word)
    BY <1>4
  <2>3. vif_fifo \o next \in Seq(Word) /\ Len(vif_fifo \o next) = Len(vif_fifo) + Len(next)
    BY <2>1, <2>2, ConcatParts
  <2> QED BY <1>4, <1>6, <2>3
<1>8. Len(vif_fifo) \in Nat
  BY <1>1
<1>9. Consumed' = from
  BY <1>1, <1>7, <1>8 DEF Consumed
<1>10. vif_fifo' = SubSeq(w, from + 1, vif_sent')
  <2>1. vif_fifo = SubSeq(w, from + 1, vif_sent)
    BY <1>3
  <2> QED BY <1>5, <1>6, <2>1, Zenon
<1>11. Wire(vif_stream)' = w /\ WireLength' = WireLength
  BY DEF WireLength, Wire
<1> HIDE DEF w, from
<1>12. VifTypeOK'
  <2>1. Len(vif_fifo') <= VifWords
    BY <1>7 DEF Fits
  <2>2. vif_sent' \in 0 .. WireLength'
    BY <1>1, <1>2, <1>11
  <2> QED BY <1>7, <2>1, <2>2 DEF VifInv, VifTypeOK, parser, memory
<1>13. VifWaits'
  <2>1. Len(vif_fifo') <= vif_sent'
    BY <1>3, <1>7
  <2>2. vif_fifo' = SubSeq(Wire(vif_stream)', Consumed' + 1, vif_sent')
    BY <1>9, <1>10, <1>11
  <2> QED BY <2>1, <2>2 DEF VifWaits
<1>14. VifPlace => VifPlace'
  <2>1. \A k : StartOf(k)' = StartOf(k)
    BY DEF StartOf, Wire
  <2>2. ASSUME NEW k \in Nat PROVE AtPacket(k)' = AtPacket(k) /\ InPacket(k)' = InPacket(k)
    <3>1. Consumed' = Consumed
      BY <1>9 DEF from
    <3> QED BY <2>1, <3>1 DEF AtPacket, InPacket, parser
  <2> QED BY <2>2 DEF VifPlace
<1>15. Consumed' = Consumed
  BY <1>9 DEF from
<1> QED BY <1>12, <1>13, <1>14, <1>15 DEF VifInv

\* write_fifo from the DMA controller.
LEMMA FeedInv ==
  ASSUME VifInv, NEW n \in Nat, Feed(n)
  PROVE  VifInv' /\ Consumed' = Consumed
BY SentInv DEF Feed

\* The count a program reads leaves room for the quadword it writes.
LEMMA StoreFits ==
  ASSUME VifTypeOK, FifoCount < VifWords \div 4 - 1
  PROVE  Fits(4)
<1>1. Len(vif_fifo) \in Nat /\ VifWords \in Nat
  BY VifSizesAssumption DEF VifTypeOK
<1> DEFINE l == Len(vif_fifo)
<1> HIDE DEF l
<1>2. l \in Nat /\ l \div 4 < VifWords \div 4 - 1
  BY <1>1 DEF l, FifoCount
<1>3. l + 4 <= VifWords
  BY <1>1, <1>2
<1> QED BY <1>3 DEF l, Fits

\* write_fifo from a program.
LEMMA StoreInv ==
  ASSUME VifInv, Store
  PROVE  VifInv' /\ Consumed' = Consumed
<1>1. Fits(4)
  BY StoreFits DEF VifInv, Store
<1>2. 4 \in Nat
  OBVIOUS
<1> QED BY <1>1, <1>2, SentInv DEF Store

-----------------------------------------------------------------------------
(* What a turn takes.                                                      *)

\* Words taken off the front: the FIFO holds the rest of what was sent.
LEMMA TakenInv ==
  ASSUME VifTypeOK, VifWaits, NEW n \in Nat, n <= Len(vif_fifo), Take(n), UNCHANGED sender
  PROVE  /\ VifWaits' /\ Consumed \in Nat /\ Consumed' = Consumed + n
         /\ vif_fifo' \in Seq(Word) /\ Len(vif_fifo') <= VifWords
         /\ word_cycles' \in 0 .. WordCycles
         /\ WireLength' = WireLength /\ \A k : StartOf(k)' = StartOf(k)
<1> DEFINE w == Wire(vif_stream)
           from == Consumed
<1>1. /\ vif_stream \in VifStreams /\ vif_fifo \in Seq(Word) /\ vif_sent \in 0 .. WireLength
      /\ VifWords \in Nat /\ WordCycles \in Nat /\ word_cycles \in 0 .. WordCycles
      /\ Len(vif_fifo) <= VifWords
  BY VifSizesAssumption DEF VifTypeOK
<1>2. w \in Seq(Word) /\ WireLength = Len(w) /\ WireLength \in Nat
  BY <1>1, VifStreamHere
<1>3. /\ from \in Nat /\ from <= vif_sent /\ vif_sent \in Nat /\ vif_sent <= Len(w)
      /\ vif_fifo = SubSeq(w, from + 1, vif_sent) /\ Len(vif_fifo) = vif_sent - from
  <2>1. Len(vif_fifo) \in Nat /\ Len(vif_fifo) <= vif_sent /\ vif_fifo = SubSeq(w, from + 1, vif_sent)
    BY <1>1 DEF VifWaits
  <2> QED BY <1>1, <1>2, <2>1 DEF Consumed
<1>4. vif_fifo' = SubSeq(vif_fifo, n + 1, Len(vif_fifo))
  BY DEF Take
<1>5. vif_fifo' \in Seq(Word) /\ Len(vif_fifo') = Len(vif_fifo) - n
  BY <1>1, <1>4
<1>6. Consumed' = from + n
  <2>1. vif_sent' = vif_sent /\ Len(vif_fifo) \in Nat
    BY <1>1 DEF sender
  <2> QED BY <1>3, <1>5, <2>1 DEF Consumed
<1>7. vif_fifo' = SubSeq(w, from + n + 1, vif_sent)
  <2>1. from + n <= vif_sent
    BY <1>3
  <2> DEFINE s == SubSeq(w, from + 1, vif_sent)
  <2>2. SubSeq(s, n + 1, Len(s)) = SubSeq(w, from + n + 1, vif_sent)
    <3> HIDE DEF w, from
    <3> QED BY <1>2, <1>3, <2>1, WindowMoves
  <2>3. vif_fifo = s
    BY <1>3
  <2> QED BY <1>4, <2>2, <2>3, Zenon
<1>8. Wire(vif_stream)' = w /\ WireLength' = WireLength /\ vif_sent' = vif_sent
  BY DEF WireLength, Wire, sender
<1> HIDE DEF w, from
<1>9. VifWaits'
  <2>1. Len(vif_fifo') <= vif_sent'
    BY <1>3, <1>5, <1>8
  <2>2. vif_fifo' = SubSeq(Wire(vif_stream)', Consumed' + 1, vif_sent')
    BY <1>6, <1>7, <1>8
  <2> QED BY <2>1, <2>2 DEF VifWaits
<1>10. word_cycles' \in 0 .. WordCycles
  BY <1>1 DEF Take
<1>11. \A k : StartOf(k)' = StartOf(k)
  BY DEF StartOf, Wire, sender
<1>12. Consumed' = Consumed + n /\ Consumed \in Nat
  BY <1>3, <1>6 DEF from
<1>13. Len(vif_fifo') <= VifWords
  BY <1>1, <1>5
<1> QED BY <1>5, <1>8, <1>9, <1>10, <1>11, <1>12, <1>13

\* The word at the front is the next one of the stream.
LEMMA FrontIs ==
  ASSUME VifTypeOK, VifWaits, vif_fifo # <<>>
  PROVE  /\ Head_ = Wire(vif_stream)[Consumed + 1] /\ Consumed \in Nat /\ Consumed < WireLength
         /\ Head_ \in Word /\ Len(vif_fifo) >= 1
<1> DEFINE w == Wire(vif_stream)
<1>1. /\ vif_stream \in VifStreams /\ vif_fifo \in Seq(Word) /\ vif_sent \in 0 .. WireLength
  BY DEF VifTypeOK
<1>2. w \in Seq(Word) /\ WireLength = Len(w) /\ WireLength \in Nat
  BY <1>1, VifStreamHere
<1>3. Len(vif_fifo) \in Nat /\ Len(vif_fifo) >= 1 /\ Head_ = vif_fifo[1] /\ Head_ \in Word
  BY <1>1 DEF Head_
<1>4. Len(vif_fifo) <= vif_sent /\ vif_fifo = SubSeq(w, Consumed + 1, vif_sent)
  BY DEF VifWaits
<1>5. Consumed \in Nat /\ Consumed < vif_sent /\ vif_sent <= Len(w)
  BY <1>1, <1>2, <1>3, <1>4 DEF Consumed
<1> HIDE DEF w
<1>6. SubSeq(w, Consumed + 1, vif_sent)[1] = w[Consumed + 1]
  BY <1>1, <1>2, <1>5
<1>7. Head_ = w[Consumed + 1]
  BY <1>3, <1>4, <1>6, Zenon
<1> QED BY <1>1, <1>2, <1>3, <1>5, <1>7 DEF w

\* A turn keeps everything it does not say anything else about.
LEMMA TurnInv ==
  ASSUME VifInv, NEW n \in Nat, n <= Len(vif_fifo), Take(n), UNCHANGED sender,
         command' \in Word, subpacket_count' \in Nat, address' \in Int, qwords_written' \in Nat,
         data' \in VuData, code' \in VuCode, vif' \in VifRegs,
         UNCHANGED vif_halted, VifPlace'
  PROVE  VifInv'
<1>1. /\ VifWaits' /\ vif_fifo' \in Seq(Word) /\ Len(vif_fifo') <= VifWords
      /\ word_cycles' \in 0 .. WordCycles /\ WireLength' = WireLength
  BY TakenInv DEF VifInv
<1>2. VifTypeOK'
  BY <1>1 DEF VifInv, VifTypeOK, sender
<1> QED BY <1>1, <1>2 DEF VifInv

\* A command read is the head of a packet, and what it announces is the packet's body.
LEMMA CommandRead ==
  ASSUME VifInv, ReadsCommand(Commands)
  PROVE  \E k \in 1 .. Len(vif_stream) : AtPacket(k) /\ Head_ = vif_stream[k].head
<1>1. /\ VifTypeOK /\ VifWaits /\ VifPlace /\ vif_fifo # <<>> /\ subpacket_count = 0
      /\ vif_stream \in VifStreams
  BY DEF VifInv, VifTypeOK, ReadsCommand, Turn
<1>2. PICK k \in Nat : AtPacket(k)
  BY <1>1 DEF VifPlace, InPacket
<1>3. /\ Head_ = Wire(vif_stream)[Consumed + 1] /\ Consumed \in Nat /\ Consumed < WireLength
  BY <1>1, FrontIs
<1>4. /\ Len(vif_stream) \in Nat /\ StartOf(Len(vif_stream) + 1) = WireLength
      /\ \A j \in 1 .. Len(vif_stream) : Wire(vif_stream)[StartOf(j) + 1] = vif_stream[j].head
  BY <1>1, VifStreamHere
<1>5. k \in 1 .. Len(vif_stream) + 1 /\ Consumed = StartOf(k)
  BY <1>2 DEF AtPacket
<1>6. k # Len(vif_stream) + 1
  BY <1>3, <1>4, <1>5
<1>7. k \in 1 .. Len(vif_stream)
  BY <1>4, <1>5, <1>6
<1>8. Head_ = vif_stream[k].head
  BY <1>3, <1>4, <1>5, <1>7
<1> QED BY <1>2, <1>7, <1>8

\* A command taken is a packet begun, or a whole one.
LEMMA CommandTaken ==
  ASSUME VifInv, ReadsCommand(Commands), Take(1), UNCHANGED sender, command' = Head_,
         \/ Head_.command \in Immediates /\ subpacket_count' = 0
         \/ Head_.command \in DataCommands /\ subpacket_count' = Expected(Head_)
  PROVE  1 <= Len(vif_fifo) /\ command' \in Word /\ subpacket_count' \in Nat /\ VifPlace'
<1>1. PICK k \in 1 .. Len(vif_stream) : AtPacket(k) /\ Head_ = vif_stream[k].head
  BY CommandRead
<1>2. /\ VifTypeOK /\ VifWaits /\ vif_fifo # <<>> /\ vif_stream \in VifStreams
  BY DEF VifInv, VifTypeOK, ReadsCommand, Turn
<1>3. Head_ \in Word /\ 1 <= Len(vif_fifo)
  BY <1>2, FrontIs
<1>4. Consumed' = Consumed + 1 /\ \A j : StartOf(j)' = StartOf(j)
  BY <1>2, TakenInv
<1> DEFINE from == StartOf(k)
           to   == StartOf(k + 1)
           n    == Len(vif_stream)
<1>5. /\ n \in Nat /\ from \in Nat /\ to = from + 1 + Len(vif_stream[k].body)
      /\ Len(vif_stream[k].body) \in Nat
      /\ Head_.command \in Immediates => Len(vif_stream[k].body) = 0
      /\ Head_.command \in DataCommands => Len(vif_stream[k].body) = Expected(Head_)
  <2>1. k \in 1 .. n + 1
    BY <1>2, VifStreamHere
  <2> QED BY <1>1, <1>2, <2>1, VifStreamHere
<1>6. Consumed = from
  BY <1>1 DEF AtPacket
<1>7. subpacket_count' = Len(vif_stream[k].body)
  BY <1>5
<1> HIDE DEF from, to, n
<1>8. subpacket_count' \in Nat /\ Consumed' + subpacket_count' = to /\ from < Consumed'
  BY <1>4, <1>5, <1>6, <1>7
<1>9. vif_stream' = vif_stream /\ k \in 1 .. n /\ k \in Nat
  BY DEF sender, n
<1>10. CASE subpacket_count' = 0
  <2>1. k + 1 \in 1 .. Len(vif_stream)' + 1 /\ k + 1 \in Nat
    BY <1>5, <1>9 DEF n
  <2>2. Consumed' = StartOf(k + 1)'
    BY <1>4, <1>5, <1>6, <1>7, <1>8, <1>10 DEF to
  <2>3. AtPacket(k + 1)'
    BY <1>10, <2>1, <2>2 DEF AtPacket
  <2> QED BY <1>3, <1>8, <2>1, <2>3 DEF VifPlace
<1>11. CASE subpacket_count' # 0
  <2>1. k \in 1 .. Len(vif_stream)' /\ command' = vif_stream'[k].head
    BY <1>1, <1>9 DEF n
  <2>2. StartOf(k)' < Consumed' /\ Consumed' + subpacket_count' = StartOf(k + 1)'
    BY <1>4, <1>8 DEF from, to
  <2>3. ASSUME command'.command = "UNPACK", command'.format = "V4_32"
        PROVE  \E q \in Nat : subpacket_count' = 4 * q
    <3>1. Head_.command \in DataCommands
      BY <2>3 DEF DataCommands
    <3>2. Expected(Head_) = 4 * Head_.num /\ Head_.num \in Nat
      BY <1>3, <2>3, <3>1, ExpectedType
    <3>3. subpacket_count' = Expected(Head_)
      BY <1>5, <1>7, <3>1
    <3> QED BY <3>2, <3>3
  <2>4. InPacket(k)'
    BY <1>11, <2>1, <2>2, <2>3 DEF InPacket
  <2> QED BY <1>3, <1>8, <1>9, <2>4 DEF VifPlace
<1> QED BY <1>10, <1>11

\* A quadword that is awaited is awaited whole.
LEMMA QuadwordAwaited ==
  ASSUME VifInv, ~vif_halted, subpacket_count # 0, command.command = "UNPACK", command.format = "V4_32"
  PROVE  4 <= subpacket_count
<1>1. PICK k \in Nat : InPacket(k)
  BY DEF VifInv, VifPlace, AtPacket
<1>2. PICK q \in Nat : subpacket_count = 4 * q
  BY <1>1 DEF InPacket
<1> QED BY <1>2

\* Words of data taken are words of the packet's body.
LEMMA WordsTaken ==
  ASSUME VifInv, ReadsData(Commands), NEW n \in Nat \ {0}, n <= subpacket_count, n <= Len(vif_fifo),
         Take(n), UNCHANGED sender, command' = command, subpacket_count' = subpacket_count - n,
         command.command = "UNPACK" /\ command.format = "V4_32" => n = 4
  PROVE  subpacket_count' \in Nat /\ command' \in Word /\ VifPlace'
<1>1. /\ VifTypeOK /\ VifWaits /\ VifPlace /\ vif_stream \in VifStreams /\ subpacket_count \in Nat
      /\ subpacket_count # 0 /\ command \in Word
  BY DEF VifInv, VifTypeOK, ReadsData, Turn
<1>2. PICK k \in Nat : InPacket(k)
  BY <1>1 DEF VifPlace, AtPacket
<1>3. Consumed \in Nat /\ Consumed' = Consumed + n /\ \A j : StartOf(j)' = StartOf(j)
  BY <1>1, TakenInv
<1>4. /\ k \in 1 .. Len(vif_stream) /\ command = vif_stream[k].head
      /\ StartOf(k) < Consumed /\ Consumed + subpacket_count = StartOf(k + 1)
      /\ Len(vif_stream) \in Nat
  BY <1>1, <1>2, VifStreamHere DEF InPacket
<1>5. StartOf(k) \in Nat
  <2>1. k \in 1 .. Len(vif_stream) + 1
    BY <1>4
  <2> QED BY <1>1, <2>1, VifStreamHere
<1>6. vif_stream' = vif_stream
  BY DEF sender
<1>7. subpacket_count' \in Nat /\ Consumed' + subpacket_count' = StartOf(k + 1)' /\ StartOf(k)' < Consumed'
  <2> DEFINE from == StartOf(k)
             to   == StartOf(k + 1)
  <2>1. from \in Nat /\ from < Consumed /\ Consumed + subpacket_count = to
    BY <1>4, <1>5
  <2>2. StartOf(k)' = from /\ StartOf(k + 1)' = to
    BY <1>3
  <2> HIDE DEF from, to
  <2> QED BY <1>1, <1>3, <2>1, <2>2
<1>8. CASE subpacket_count' = 0
  <2>1. k + 1 \in 1 .. Len(vif_stream)' + 1 /\ k + 1 \in Nat
    BY <1>4, <1>6
  <2>2. Consumed' = StartOf(k + 1)'
    BY <1>3, <1>7, <1>8
  <2>3. AtPacket(k + 1)'
    BY <1>8, <2>1, <2>2 DEF AtPacket
  <2> QED BY <1>1, <1>7, <2>1, <2>3 DEF VifPlace
<1>9. CASE subpacket_count' # 0
  <2>1. k \in 1 .. Len(vif_stream)' /\ command' = vif_stream'[k].head
    BY <1>4, <1>6
  <2>2. ASSUME command'.command = "UNPACK", command'.format = "V4_32"
        PROVE  \E q \in Nat : subpacket_count' = 4 * q
    <3>1. PICK q \in Nat : subpacket_count = 4 * q
      BY <1>2, <2>2 DEF InPacket
    <3>2. q - 1 \in Nat /\ subpacket_count' = 4 * (q - 1)
      BY <1>1, <2>2, <3>1
    <3> QED BY <3>2
  <2>3. InPacket(k)'
    BY <1>7, <1>9, <2>1, <2>2 DEF InPacket
  <2> QED BY <1>1, <1>7, <2>3 DEF VifPlace
<1> QED BY <1>8, <1>9

-----------------------------------------------------------------------------
(* One lemma for each turn.                                                *)

\* process_command: a command that carries its operand.
LEMMA ImmediateInv ==
  ASSUME VifInv, Immediate
  PROVE  VifInv'
<1>1. /\ ReadsCommand(Commands) /\ Head_.command \in Immediates /\ Take(1) /\ command' = Head_
      /\ UNCHANGED sender /\ vif_fifo # <<>>
  BY DEF Immediate, ReadsCommand, Turn, Commands
<1>2. subpacket_count' = 0
  BY DEF Immediate, ReadsCommand
<1>3. 1 <= Len(vif_fifo) /\ command' \in Word /\ subpacket_count' \in Nat /\ VifPlace'
  BY <1>1, <1>2, CommandTaken
<1>4. vif' \in VifRegs
  <2>1. Head_ \in Word /\ vif \in VifRegs
    BY <1>1, FrontIs DEF VifInv, VifTypeOK
  <2>2. Head_.cl \in Nat /\ Head_.wl \in Nat /\ Head_.imm \in Nat /\ vif.tops \in Nat
    BY <2>1 DEF Word, VifRegs
  <2>3. /\ [vif EXCEPT !.cl = Head_.cl, !.wl = Head_.wl] \in VifRegs
        /\ [vif EXCEPT !.ofst = Head_.imm, !.base = vif.tops] \in VifRegs
        /\ [vif EXCEPT !.base = Head_.imm] \in VifRegs
        /\ [vif EXCEPT !.itop = Head_.imm] \in VifRegs
        /\ [vif EXCEPT !.mode = Head_.imm] \in VifRegs
        /\ [vif EXCEPT !.mark = Head_.imm] \in VifRegs
    <3> HIDE DEF Head_
    <3> QED BY <2>1, <2>2 DEF VifRegs
  <2> QED BY <2>1, <2>3, Zenon DEF Immediate
<1>5. address' \in Int /\ qwords_written' \in Nat /\ data' \in VuData /\ code' \in VuCode /\ UNCHANGED vif_halted
  BY DEF Immediate, VifInv, VifTypeOK, memory
<1> QED BY <1>1, <1>3, <1>4, <1>5, TurnInv

\* process_command: a command whose data follow.
LEMMA AnnounceInv ==
  ASSUME VifInv, Announce
  PROVE  VifInv'
<1>1. /\ ReadsCommand(Commands) /\ Head_.command \in DataCommands /\ Take(1) /\ command' = Head_
      /\ UNCHANGED sender /\ vif_fifo # <<>> /\ subpacket_count' = Expected(Head_)
  BY DEF Announce, ReadsCommand, Turn, Commands, DataCommands
<1>2. 1 <= Len(vif_fifo) /\ command' \in Word /\ subpacket_count' \in Nat /\ VifPlace'
  BY <1>1, CommandTaken
<1>3. address' \in Int
  <2>1. Head_ \in Word
    BY <1>1, FrontIs DEF VifInv
  <2>2. Head_.imm \in Nat /\ address \in Int
    BY <2>1 DEF Word, VifInv, VifTypeOK
  <2> QED BY <2>2 DEF Announce
<1>4. vif' \in VifRegs /\ qwords_written' \in Nat /\ data' \in VuData /\ code' \in VuCode /\ UNCHANGED vif_halted
  BY DEF Announce, VifInv, VifTypeOK, memory
<1> QED BY <1>1, <1>2, <1>3, <1>4, TurnInv

\* process_unpack.
LEMMA AnnounceUnpackInv ==
  ASSUME VifInv, AnnounceUnpack
  PROVE  VifInv'
<1>1. /\ ReadsCommand(Commands) /\ Head_.command \in DataCommands /\ Take(1) /\ command' = Head_
      /\ UNCHANGED sender /\ vif_fifo # <<>> /\ subpacket_count' = Expected(Head_)
  BY DEF AnnounceUnpack, ReadsCommand, Turn, Commands, DataCommands
<1>2. 1 <= Len(vif_fifo) /\ command' \in Word /\ subpacket_count' \in Nat /\ VifPlace'
  BY <1>1, CommandTaken
<1>3. address' \in Int /\ qwords_written' \in Nat
  <2>1. Head_ \in Word /\ vif \in VifRegs
    BY <1>1, FrontIs DEF VifInv, VifTypeOK
  <2>2. Head_.imm \in Nat /\ vif.tops \in Nat
    BY <2>1 DEF Word, VifRegs
  <2> QED BY <2>2 DEF AnnounceUnpack
<1>4. vif' \in VifRegs /\ data' \in VuData /\ code' \in VuCode /\ UNCHANGED vif_halted
  BY DEF AnnounceUnpack, VifInv, VifTypeOK, memory
<1> QED BY <1>1, <1>2, <1>3, <1>4, TurnInv

\* A command the VIF gives up at.
LEMMA UnimplementedInv ==
  ASSUME VifInv, Unimplemented
  PROVE  VifInv'
<1>1. vif_halted' = TRUE /\ UNCHANGED <<vif_fifo, parser, word_cycles, vif, memory, sender>>
  BY DEF Unimplemented, Halt, ReadsCommand, ReadsData, Turn
<1>2. VifTypeOK' /\ VifWaits'
  BY <1>1 DEF VifInv, VifTypeOK, VifWaits, WireLength, Wire, Consumed, parser, memory, sender
<1> QED BY <1>1, <1>2 DEF VifInv

\* One word of data.
LEMMA WordRead ==
  ASSUME VifInv, ReadsData(Commands), Take(1), command' = command, subpacket_count' = subpacket_count - 1,
         ~ (command.command = "UNPACK" /\ command.format = "V4_32")
  PROVE  /\ 1 \in Nat /\ 1 <= Len(vif_fifo) /\ UNCHANGED sender /\ Head_.imm \in Nat
         /\ command' \in Word /\ subpacket_count' \in Nat /\ VifPlace'
<1>1. vif_fifo # <<>> /\ UNCHANGED sender /\ subpacket_count > 0 /\ subpacket_count \in Nat
  BY DEF ReadsData, Turn, VifInv, VifTypeOK
<1>2. 1 <= Len(vif_fifo) /\ Head_ \in Word
  BY <1>1, FrontIs DEF VifInv
<1>3. 1 \in Nat \ {0} /\ 1 <= subpacket_count
  BY <1>1
<1>4. command' \in Word /\ subpacket_count' \in Nat /\ VifPlace'
  BY <1>1, <1>2, <1>3, WordsTaken
<1> QED BY <1>1, <1>2, <1>4 DEF Word

\* execute_command: STMASK.
LEMMA SetMaskInv ==
  ASSUME VifInv, SetMask
  PROVE  VifInv'
<1>1. /\ ReadsData(Commands) /\ Take(1) /\ command' = command /\ subpacket_count' = subpacket_count - 1
      /\ command.command = "STMASK"
  BY DEF SetMask, ReadsData, Commands, DataCommands
<1>2. /\ 1 \in Nat /\ 1 <= Len(vif_fifo) /\ UNCHANGED sender /\ Head_.imm \in Nat
      /\ command' \in Word /\ subpacket_count' \in Nat /\ VifPlace'
  BY <1>1, WordRead
<1>3. vif' \in VifRegs
  BY <1>2 DEF SetMask, VifInv, VifTypeOK, VifRegs
<1>4. address' \in Int /\ qwords_written' \in Nat /\ data' \in VuData /\ code' \in VuCode /\ UNCHANGED vif_halted
  BY DEF SetMask, VifInv, VifTypeOK, memory
<1> QED BY <1>1, <1>2, <1>3, <1>4, TurnInv

\* execute_command: STROW and STCOL.
LEMMA SetRowInv ==
  ASSUME VifInv, SetRow
  PROVE  VifInv'
<1>1. /\ ReadsData(Commands) /\ Take(1) /\ command' = command /\ subpacket_count' = subpacket_count - 1
      /\ command.command \in {"STROW", "STCOL"}
  BY DEF SetRow, ReadsData, Commands, DataCommands
<1>2. /\ 1 \in Nat /\ 1 <= Len(vif_fifo) /\ UNCHANGED sender /\ Head_.imm \in Nat
      /\ command' \in Word /\ subpacket_count' \in Nat /\ VifPlace'
  BY <1>1, WordRead
<1>3. vif' \in VifRegs
  <2>1. vif \in VifRegs
    BY DEF VifInv, VifTypeOK
  <2>2. /\ [vif.rn EXCEPT ![5 - subpacket_count] = Head_.imm] \in [1 .. 4 -> Nat]
        /\ [vif.cn EXCEPT ![5 - subpacket_count] = Head_.imm] \in [1 .. 4 -> Nat]
    BY <1>2, <2>1 DEF VifRegs
  <2>3. /\ [vif EXCEPT !.rn[5 - subpacket_count] = Head_.imm] \in VifRegs
        /\ [vif EXCEPT !.cn[5 - subpacket_count] = Head_.imm] \in VifRegs
    BY <2>1, <2>2 DEF VifRegs
  <2> QED BY <2>3 DEF SetRow
<1>4. address' \in Int /\ qwords_written' \in Nat /\ data' \in VuData /\ code' \in VuCode /\ UNCHANGED vif_halted
  BY DEF SetRow, VifInv, VifTypeOK, memory
<1> QED BY <1>1, <1>2, <1>3, <1>4, TurnInv

\* execute_command: MPG.
LEMMA MicrocodeInv ==
  ASSUME VifInv, Microcode
  PROVE  VifInv'
<1>1. /\ ReadsData(Commands) /\ Take(1) /\ command' = command /\ subpacket_count' = subpacket_count - 1
      /\ command.command = "MPG"
  BY DEF Microcode, ReadsData, Commands, DataCommands
<1>2. /\ 1 \in Nat /\ 1 <= Len(vif_fifo) /\ UNCHANGED sender /\ Head_.imm \in Nat
      /\ command' \in Word /\ subpacket_count' \in Nat /\ VifPlace'
  BY <1>1, WordRead
<1>3. /\ address' \in Int /\ qwords_written' \in Nat /\ data' \in VuData
      /\ vif' \in VifRegs /\ UNCHANGED vif_halted
  BY DEF Microcode, VifInv, VifTypeOK
<1>4. code' \in VuCode
  <2>1. code \in [0 .. 4 * VuQwords - 1 -> Nat]
    BY DEF VifInv, VifTypeOK, VuCode
  <2>2. code' = [code EXCEPT ![address % (4 * VuQwords)] = Head_.imm]
    BY DEF Microcode
  <2> DEFINE at == address % (4 * VuQwords)
             value == Head_.imm
             places == 0 .. 4 * VuQwords - 1
  <2>3. code \in [places -> Nat] /\ code' = [code EXCEPT ![at] = value] /\ value \in Nat
    BY <1>2, <2>1, <2>2
  <2> HIDE DEF at, value, places
  <2>4. code' \in [places -> Nat]
    BY <2>3
  <2> QED BY <2>4 DEF places, VuCode
<1> QED BY <1>1, <1>2, <1>3, <1>4, TurnInv

\* unpack_packet keeps the types.
LEMMA UnpackedTypes ==
  ASSUME VifTypeOK, NEW n, NEW qword \in [1 .. 4 -> Nat], Unpacked(n, qword)
  PROVE  /\ Take(n) /\ command' = command /\ subpacket_count' = subpacket_count - n
         /\ address' \in Int /\ qwords_written' \in Nat /\ data' \in VuData
         /\ code' \in VuCode /\ vif' \in VifRegs /\ UNCHANGED vif_halted
<1>1. vif.cl \in Nat /\ qwords_written' \in Nat
  BY DEF VifTypeOK, VifRegs, Unpacked
<1>2. address' \in Int
  BY <1>1 DEF VifTypeOK, Unpacked, Step
<1>3. data' \in VuData
  BY DEF VifTypeOK, Unpacked, VuData
<1> QED BY <1>1, <1>2, <1>3 DEF VifTypeOK, Unpacked

\* unpack_packet: a word for a quadword.
LEMMA UnpackS32Inv ==
  ASSUME VifInv, UnpackS32
  PROVE  VifInv'
<1>1. /\ ReadsData(Commands) /\ ~ (command.command = "UNPACK" /\ command.format = "V4_32")
  BY DEF UnpackS32, ReadsData, Commands, DataCommands
<1>4. Four(Head_.imm) \in [1 .. 4 -> Nat]
  <2>1. vif_fifo # <<>>
    BY DEF UnpackS32, ReadsData, Turn
  <2>2. Head_ \in Word
    BY <2>1, FrontIs DEF VifInv
  <2>3. Head_.imm \in Nat
    BY <2>2 DEF Word
  <2> QED BY <2>3 DEF Four
<1>2. /\ Take(1) /\ command' = command /\ subpacket_count' = subpacket_count - 1
      /\ address' \in Int /\ qwords_written' \in Nat /\ data' \in VuData
      /\ code' \in VuCode /\ vif' \in VifRegs /\ UNCHANGED vif_halted
  BY <1>4, UnpackedTypes DEF UnpackS32, VifInv
<1>3. /\ 1 \in Nat /\ 1 <= Len(vif_fifo) /\ UNCHANGED sender
      /\ command' \in Word /\ subpacket_count' \in Nat /\ VifPlace'
  BY <1>1, <1>2, WordRead
<1> QED BY <1>2, <1>3, TurnInv

\* unpack_packet: four words for a quadword.
LEMMA UnpackV4Inv ==
  ASSUME VifInv, UnpackV4
  PROVE  VifInv'
<1>1. /\ ReadsData(Commands) /\ command.command = "UNPACK" /\ command.format = "V4_32"
      /\ Len(vif_fifo) >= 4 /\ ~vif_halted /\ subpacket_count # 0 /\ UNCHANGED sender
  BY DEF UnpackV4, ReadsData, Turn, Commands, DataCommands
<1>6. [i \in 1 .. 4 |-> vif_fifo[i].imm] \in [1 .. 4 -> Nat]
  <2>1. vif_fifo \in Seq(Word)
    BY DEF VifInv, VifTypeOK
  <2>2. \A i \in 1 .. 4 : vif_fifo[i] \in Word
    BY <1>1, <2>1
  <2>3. \A i \in 1 .. 4 : vif_fifo[i].imm \in Nat
    BY <2>2 DEF Word
  <2> QED BY <2>3
<1>2. /\ Take(4) /\ command' = command /\ subpacket_count' = subpacket_count - 4
      /\ address' \in Int /\ qwords_written' \in Nat /\ data' \in VuData
      /\ code' \in VuCode /\ vif' \in VifRegs /\ UNCHANGED vif_halted
  BY <1>6, UnpackedTypes DEF UnpackV4, VifInv
<1>3. 4 <= subpacket_count /\ 4 \in Nat \ {0} /\ 4 \in Nat
  BY <1>1, QuadwordAwaited
<1>4. 4 <= Len(vif_fifo)
  <2>1. Len(vif_fifo) \in Nat
    BY DEF VifInv, VifTypeOK
  <2> QED BY <1>1, <2>1
<1>5. command' \in Word /\ subpacket_count' \in Nat /\ VifPlace'
  BY <1>1, <1>2, <1>3, <1>4, WordsTaken
<1> QED BY <1>1, <1>2, <1>3, <1>4, <1>5, TurnInv

-----------------------------------------------------------------------------
(* Steps that leave the FIFO and the place in it alone.                    *)

\* A step that takes nothing.
LEMMA StandsStill ==
  ASSUME VifInv, UNCHANGED <<vif_fifo, parser, vif, memory, vif_halted, sender>>,
         word_cycles' \in 0 .. WordCycles
  PROVE  VifInv'
<1>1. /\ WireLength' = WireLength /\ Wire(vif_stream)' = Wire(vif_stream) /\ Consumed' = Consumed
      /\ \A k : StartOf(k)' = StartOf(k)
  BY DEF WireLength, Wire, Consumed, StartOf, sender
<1>2. VifTypeOK'
  BY <1>1 DEF VifInv, VifTypeOK, parser, memory, sender
<1>3. VifWaits'
  BY <1>1 DEF VifInv, VifWaits, sender
<1>4. VifPlace => VifPlace'
  <2>1. ASSUME NEW k \in Nat PROVE AtPacket(k)' = AtPacket(k) /\ InPacket(k)' = InPacket(k)
    BY <1>1 DEF AtPacket, InPacket, parser, sender
  <2> QED BY <2>1 DEF VifPlace
<1> QED BY <1>2, <1>3, <1>4 DEF VifInv

\* A tick begins.
LEMMA VifTickInv ==
  ASSUME VifInv, VifTick
  PROVE  VifInv'
<1>1. word_cycles' \in 0 .. WordCycles
  BY VifSizesAssumption DEF VifTick
<1> QED BY <1>1, StandsStill DEF VifTick

\* A turn spent waiting for the rest of a quadword.
LEMMA SpinInv ==
  ASSUME VifInv, Spin
  PROVE  VifInv'
<1>1. word_cycles' \in 0 .. WordCycles
  BY VifSizesAssumption DEF Spin, ReadsData, Turn, VifInv, VifTypeOK
<1> QED BY <1>1, StandsStill DEF Spin, ReadsData, Turn

\* Nothing of the stream is sent yet, and no packet begun.
VifAtStart ==
  /\ vif_fifo = <<>> /\ command = NoCommand /\ subpacket_count = 0 /\ address = 0 /\ qwords_written = 0
  /\ word_cycles \in 0 .. WordCycles /\ vif \in VifRegs
  /\ data \in VuData /\ code \in VuCode
  /\ vif_halted \in BOOLEAN /\ vif_stream \in VifStreams /\ vif_sent = 0

\* A VIF and a stream at their beginning.
LEMMA VifAtStartInv == VifAtStart => VifInv
<1> SUFFICES ASSUME VifAtStart PROVE VifInv
  OBVIOUS
<1> USE DEF VifAtStart
<1>1. /\ Wire(vif_stream) \in Seq(Word) /\ WireLength \in Nat /\ StartOf(1) = 0
      /\ Len(vif_stream) \in Nat
  BY VifStreamHere
<1>2. Len(vif_fifo) = 0 /\ vif_fifo \in Seq(Word) /\ VifWords \in Nat
  BY VifSizesAssumption
<1>3. Consumed = 0
  <2>1. vif_sent = 0
    OBVIOUS
  <2> HIDE DEF VifAtStart
  <2> QED BY <1>2, <2>1 DEF Consumed
<1>4. command \in Word
  BY VifSizesAssumption DEF NoCommand, Word, Commands, Immediates, UnpackFormats
<1>5. VifTypeOK
  BY <1>1, <1>2, <1>4 DEF VifTypeOK
<1>6. VifWaits
  <2> DEFINE w == Wire(vif_stream)
  <2>1. w \in Seq(Word)
    BY <1>1
  <2> HIDE DEF w
  <2>2. SubSeq(w, 0 + 1, 0) = <<>>
    BY <2>1
  <2> QED BY <1>2, <1>3, <2>2 DEF VifWaits, w
<1>7. VifPlace
  <2>1. AtPacket(1) /\ 1 \in Nat
    BY <1>1, <1>3 DEF AtPacket
  <2> QED BY <2>1 DEF VifPlace
<1> QED BY <1>5, <1>6, <1>7 DEF VifInv

\* The registers a reset leaves.
LEMMA ResetRegsType == ResetRegs \in VifRegs
BY DEF ResetRegs, VifRegs, Four

\* The VIF begins at the beginning.
LEMMA VifInitAtStart ==
  ASSUME VifInit
  PROVE  VifAtStart
<1>1. vif \in VifRegs
  <2>1. PICK c \in Garbage : vif = [ResetRegs EXCEPT !.cl = c[1], !.wl = c[2]]
    BY DEF VifInit
  <2>2. c[1] \in Nat /\ c[2] \in Nat
    BY VifSizesAssumption
  <2> QED BY <2>1, <2>2, ResetRegsType DEF VifRegs
<1>2. data \in VuData /\ code \in VuCode
  BY VifSizesAssumption DEF VifInit, ResetMemory, VuData, VuCode, Four
<1>3. word_cycles \in 0 .. WordCycles
  <2>1. WordCycles \in Nat /\ word_cycles = 0
    BY VifSizesAssumption DEF VifInit
  <2> QED BY <2>1
<1> QED BY <1>1, <1>2, <1>3 DEF VifInit, VifAtStart

\* So it begins in its place.
LEMMA VifInitInv ==
  ASSUME VifInit
  PROVE  VifInv
BY VifInitAtStart, VifAtStartInv

\* reset, in the middle of a packet.
LEMMA VifResetInv ==
  ASSUME VifInv, Reset
  PROVE  VifInv'
<1>1. VifAtStart'
  BY ResetRegsType DEF Reset, VifAtStart, VifInv, VifTypeOK, memory
<1>2. VifAtStart' => VifInv'
  BY VifAtStartInv, PTL
<1> QED BY <1>1, <1>2

\* Every step keeps the place of the VIF in the stream.
THEOREM VifInvariant == VifSpec => []VifInv
<1>1. VifInit => VifInv
  BY VifInitInv
<1>2. VifInv /\ [VifNext]_vifVars => VifInv'
  <2> SUFFICES ASSUME VifInv, [VifNext]_vifVars PROVE VifInv'
    OBVIOUS
  <2>1. CASE VifSends
    <3>1. 2 \in Nat /\ 4 \in Nat
      OBVIOUS
    <3> QED BY <2>1, <3>1, FeedInv, StoreInv DEF VifSends
  <2>2. CASE Reset
    BY <2>2, VifResetInv
  <2>3. CASE VifTick
    BY <2>3, VifTickInv
  <2>4. CASE VifTurn
    BY <2>4, ImmediateInv, AnnounceInv, AnnounceUnpackInv, UnimplementedInv, SetMaskInv, SetRowInv,
       MicrocodeInv, UnpackS32Inv, UnpackV4Inv, SpinInv DEF VifTurn
  <2>5. CASE UNCHANGED vifVars
    <3>1. word_cycles' \in 0 .. WordCycles
      BY <2>5 DEF vifVars, VifInv, VifTypeOK
    <3> QED BY <2>5, <3>1, StandsStill DEF vifVars
  <2> QED BY <2>1, <2>2, <2>3, <2>4, <2>5 DEF VifNext
<1> QED BY <1>1, <1>2, PTL DEF VifSpec

\* The place of the VIF is what VifAligned asks for.
LEMMA VifPlaceAligned ==
  ASSUME VifInv
  PROVE  VifAligned
<1>1. vif_stream \in VifStreams /\ VifTypeOK
  BY DEF VifInv, VifTypeOK
<1>2. ASSUME ~vif_halted
      PROVE  IF subpacket_count = 0
             THEN \E k \in 1 .. Len(vif_stream) + 1 : Consumed = StartOf(k)
             ELSE \E k \in 1 .. Len(vif_stream) :
                    /\ command = vif_stream[k].head
                    /\ StartOf(k) < Consumed /\ Consumed + subpacket_count = StartOf(k + 1)
  BY <1>2 DEF VifInv, VifPlace, AtPacket, InPacket
<1> QED BY <1>1, <1>2 DEF VifAligned

\* VIF::tick takes for commands what was sent as commands and for data what was sent as
\* data, in every stream of packets that hold the words their commands announce, however
\* it is cut into pushes and after a reset in the middle of a packet.
THEOREM VifStaysAligned == VifSpec => []VifAligned
<1>1. VifInv => VifAligned
  BY VifPlaceAligned
<1> QED BY <1>1, VifInvariant, PTL

-----------------------------------------------------------------------------
(* What the packets say, up to the one at hand.                            *)

\* The meanings of the first packets of the stream, one behind the other.
SaidUpto(n, f) ==
  f = [k \in 1 .. n |-> IF k = 1 THEN vif_origin ELSE Meaning(f[k - 1], vif_stream[k - 1])]

\* Each follows from the one before.
LEMMA SaidUptoAt ==
  ASSUME NEW n \in Nat, NEW f, SaidUpto(n, f)
  PROVE  /\ n # 0 => f[1] = vif_origin
         /\ \A k \in Nat : k # 0 /\ k < n => f[k + 1] = Meaning(f[k], vif_stream[k])
<1> DEFINE e(j) == IF j = 1 THEN vif_origin ELSE Meaning(f[j - 1], vif_stream[j - 1])
<1>1. f = [j \in 1 .. n |-> e(j)]
  BY DEF SaidUpto
<1>2. \A j \in 1 .. n : f[j] = e(j)
  <2> HIDE DEF e
  <2> QED BY <1>1
<1>3. ASSUME NEW i \in Nat, i # 0, i < n PROVE f[i + 1] = Meaning(f[i], vif_stream[i])
  <2>1. i + 1 \in 1 .. n /\ i + 1 # 1 /\ (i + 1) - 1 = i
    BY <1>3
  <2>2. f[i + 1] = e(i + 1)
    <3> HIDE DEF e
    <3> QED BY <1>2, <2>1
  <2>3. e(i + 1) = Meaning(f[(i + 1) - 1], vif_stream[(i + 1) - 1])
    BY <2>1, Zenon
  <2> QED BY <2>1, <2>2, <2>3, Zenon
<1>4. n # 0 => f[1] = vif_origin
  BY <1>2
<1> QED BY <1>3, <1>4

\* They exist for any number of packets.
LEMMA SaidUptoExists ==
  ASSUME NEW n \in Nat
  PROVE  \E f : SaidUpto(n, f)
<1> DEFINE S == {m \in Nat : \E f : SaidUpto(m, f)}
<1>1. 0 \in S
  <2>1. SaidUpto(0, [i \in 1 .. 0 |-> 0])
    BY DEF SaidUpto
  <2> QED BY <2>1
<1>2. ASSUME NEW m \in Nat, m \in S PROVE m + 1 \in S
  <2>1. PICK f : SaidUpto(m, f)
    BY <1>2
  <2> DEFINE next == Meaning(f[m], vif_stream[m])
             g == [i \in 1 .. m + 1 |-> IF i = 1 THEN vif_origin ELSE IF i = m + 1 THEN next ELSE f[i]]
  <2>2. ASSUME NEW i \in 1 .. m + 1
        PROVE  g[i] = IF i = 1 THEN vif_origin ELSE Meaning(g[i - 1], vif_stream[i - 1])
    <3>1. CASE i = 1
      BY <3>1
    <3>2. CASE i # 1
      <4> DEFINE j == i - 1
      <4>1. j \in Nat /\ j # 0 /\ j <= m /\ i = j + 1 /\ j \in 1 .. m + 1 /\ j # m + 1
        BY <3>2
      <4> HIDE DEF j
      <4>2. j = 1 => f[j] = vif_origin
        BY <4>1, <2>1, SaidUptoAt
      <4>3. g[j] = f[j]
        <5> HIDE DEF next
        <5> QED BY <4>1, <4>2
      <4>4. j < m => f[j + 1] = Meaning(f[j], vif_stream[j])
        BY <4>1, <2>1, SaidUptoAt
      <4>5. CASE j = m
        <5>1. g[i] = next
          <6> HIDE DEF next
          <6> QED BY <3>2, <4>1, <4>5
        <5> HIDE DEF g
        <5> QED BY <3>2, <4>3, <4>5, <5>1 DEF j
      <4>6. CASE j < m
        <5>1. g[i] = f[i] /\ i = j + 1
          <6> HIDE DEF next
          <6> QED BY <3>2, <4>1, <4>6
        <5> HIDE DEF g
        <5> QED BY <3>2, <4>3, <4>4, <4>6, <5>1 DEF j
      <4> QED BY <4>1, <4>5, <4>6
    <3> QED BY <3>1, <3>2
  <2>3. SaidUpto(m + 1, g)
    <3> HIDE DEF g
    <3>1. g = [i \in 1 .. m + 1 |-> g[i]]
      BY DEF g
    <3> QED BY <2>2, <3>1 DEF SaidUpto
  <2> QED BY <2>3
<1>3. Nat \subseteq S
  <2> HIDE DEF S
  <2> QED BY <1>1, <1>2, SetInduction
<1> QED BY <1>3

\* What the packets say follows from what they say before the last one.
LEMMA SaidSteps ==
  ASSUME vif_stream \in VifStreams
  PROVE  /\ Said[1] = vif_origin
         /\ \A k \in 1 .. Len(vif_stream) : Said[k + 1] = Meaning(Said[k], vif_stream[k])
<1> DEFINE n == Len(vif_stream) + 1
           f == CHOOSE h : SaidUpto(n, h)
<1>1. Len(vif_stream) \in Nat /\ n \in Nat /\ n # 0
  BY VifStreamHere
<1>2. SaidUpto(n, f)
  BY <1>1, SaidUptoExists
<1>3. Said = f
  BY DEF Said, SaidUpto
<1> HIDE DEF f
<1>4. /\ f[1] = vif_origin
      /\ \A k \in Nat : k # 0 /\ k < n => f[k + 1] = Meaning(f[k], vif_stream[k])
  BY <1>1, <1>2, SaidUptoAt
<1> QED BY <1>1, <1>3, <1>4

\* A packet's data lie behind its head.
LEMMA BodyHere ==
  ASSUME vif_stream \in VifStreams, NEW k \in 1 .. Len(vif_stream)
  PROVE  /\ vif_stream[k].body \in Seq(Word)
         /\ \A j \in 1 .. Len(vif_stream[k].body) :
              Wire(vif_stream)[StartOf(k) + 1 + j] = vif_stream[k].body[j]
<1>1. vif_stream \in Seq(PacketsOver(Word))
  BY VifStreamsAssumption DEF PacketsOver
<1>2. Wire(vif_stream) = FlattenSeq(Wired(vif_stream)) /\ StartOf(k) = Start(vif_stream, k)
  BY DEF Wire, StartOf, Start, Wired
<1>3. \A j \in 1 .. Len(vif_stream[k].body) :
        FlattenSeq(Wired(vif_stream))[Start(vif_stream, k) + 1 + j] = vif_stream[k].body[j]
  BY <1>1, PacketsLaidOut
<1>4. vif_stream[k] \in PacketsOver(Word)
  BY <1>1
<1>5. vif_stream[k].body \in Seq(Word)
  BY <1>4 DEF PacketsOver
<1> QED BY <1>2, <1>3, <1>5

\* No two packets begin at the same word.
LEMMA StartsGrow ==
  ASSUME vif_stream \in VifStreams, NEW j \in 1 .. Len(vif_stream) + 1, NEW k \in 1 .. Len(vif_stream) + 1,
         StartOf(j) = StartOf(k)
  PROVE  j = k
<1> DEFINE n == Len(vif_stream)
<1>1. /\ n \in Nat /\ \A i \in 1 .. n + 1 : StartOf(i) \in Nat
      /\ \A i \in 1 .. n : StartOf(i + 1) = StartOf(i) + 1 + Len(vif_stream[i].body)
      /\ \A i \in 1 .. n : Len(vif_stream[i].body) \in Nat
  BY VifStreamHere
<1> HIDE DEF n
<1>2. ASSUME NEW from \in 1 .. n + 1, NEW to \in 1 .. n + 1, from < to
      PROVE  StartOf(from) < StartOf(to)
  <2> DEFINE S == {d \in Nat : from + 1 + d <= n + 1 => StartOf(from) < StartOf(from + 1 + d)}
  <2>1. 0 \in S
    <3>1. from + 1 + 0 = from + 1 /\ from \in Nat
      OBVIOUS
    <3>2. CASE from + 1 <= n + 1
      <4>1. from \in 1 .. n /\ from \in 1 .. n + 1
        BY <1>1, <3>2
      <4>2. /\ StartOf(from + 1) = StartOf(from) + 1 + Len(vif_stream[from].body)
            /\ StartOf(from) \in Nat /\ Len(vif_stream[from].body) \in Nat
        BY <1>1, <4>1
      <4> QED BY <3>1, <4>2
    <3> QED BY <3>1, <3>2
  <2>2. ASSUME NEW d \in Nat, d \in S PROVE d + 1 \in S
    <3> DEFINE i == from + 1 + d
    <3>1. from + 1 + (d + 1) = i + 1 /\ i \in Nat /\ i > 0
      OBVIOUS
    <3>2. SUFFICES ASSUME i + 1 <= n + 1 PROVE StartOf(from) < StartOf(i + 1)
      BY <3>1
    <3>3. StartOf(from) < StartOf(i) /\ i \in 1 .. n /\ i \in 1 .. n + 1
      BY <1>1, <2>2, <3>1, <3>2
    <3> HIDE DEF i
    <3>4. /\ StartOf(i + 1) = StartOf(i) + 1 + Len(vif_stream[i].body)
          /\ StartOf(i) \in Nat /\ Len(vif_stream[i].body) \in Nat /\ StartOf(from) \in Nat
      BY <1>1, <3>3
    <3> QED BY <3>3, <3>4
  <2>3. Nat \subseteq S
    <3> HIDE DEF S
    <3> QED BY <2>1, <2>2, SetInduction
  <2>4. to - from - 1 \in Nat /\ from + 1 + (to - from - 1) = to /\ to <= n + 1
    BY <1>1, <1>2
  <2> QED BY <2>3, <2>4
<1>3. j \in 1 .. n + 1 /\ k \in 1 .. n + 1
  BY DEF n
<1>4. StartOf(j) \in Nat
  BY <1>1, <1>3
<1> QED BY <1>1, <1>2, <1>3, <1>4

\* The words in the FIFO are the next ones of the stream.
LEMMA FrontWords ==
  ASSUME VifTypeOK, VifWaits, NEW i \in 1 .. Len(vif_fifo)
  PROVE  vif_fifo[i] = Wire(vif_stream)[Consumed + i] /\ vif_fifo[i] \in Word
<1> DEFINE w == Wire(vif_stream)
<1>1. /\ vif_stream \in VifStreams /\ vif_fifo \in Seq(Word) /\ vif_sent \in 0 .. WireLength
  BY DEF VifTypeOK
<1>2. w \in Seq(Word) /\ WireLength = Len(w) /\ WireLength \in Nat
  BY <1>1, VifStreamHere
<1>3. Len(vif_fifo) \in Nat /\ vif_fifo[i] \in Word /\ i \in Nat /\ 1 <= i /\ i <= Len(vif_fifo)
  BY <1>1
<1>4. Len(vif_fifo) <= vif_sent /\ vif_fifo = SubSeq(w, Consumed + 1, vif_sent)
  BY DEF VifWaits
<1>5. Consumed \in Nat /\ Consumed + i <= vif_sent /\ vif_sent <= Len(w) /\ vif_sent \in Nat
  BY <1>1, <1>2, <1>3, <1>4 DEF Consumed
<1> HIDE DEF w
<1>6. SubSeq(w, Consumed + 1, vif_sent)[i] = w[Consumed + i]
  BY <1>2, <1>3, <1>5
<1>7. vif_fifo[i] = w[Consumed + i]
  BY <1>4, <1>6, Zenon
<1> QED BY <1>3, <1>7 DEF w
-----------------------------------------------------------------------------
(* What the VIF has done of the packet at hand.                            *)

VuState == [data : VuData, code : VuCode, mask : Nat, rn : [1 .. 4 -> Nat], cn : [1 .. 4 -> Nat], base : Nat]

\* The first n of the values put into a memory, and into a row.
PutFirst(f, at, values, n) == [a \in DOMAIN f |-> IF a - at \in 0 .. n - 1 THEN values[a - at + 1] ELSE f[a]]
RowFirst(old, values, n)   == [i \in 1 .. 4 |-> IF i <= n THEN values[i] ELSE old[i]]

Values(p)     == [i \in DOMAIN p.body |-> p.body[i].imm]
PerQuadword(c) == IF c.format = "V4_32" THEN 4 ELSE 1
TakenOf(p)    == Len(p.body) - subpacket_count

\* The memories and the registers hold what the packets before say, and what this one says
\* so far.
PartUnpack(s, p) ==
  IF p.head.command = "UNPACK"
  THEN /\ data = PutFirst(s.data, p.head.imm, Quadwords(p), qwords_written)
       /\ TakenOf(p) = PerQuadword(p.head) * qwords_written
       /\ subpacket_count # 0 => address = p.head.imm + qwords_written
  ELSE data = s.data
PartMicrocode(s, p) ==
  IF p.head.command = "MPG"
  THEN code = PutFirst(s.code, 2 * p.head.imm, Values(p), TakenOf(p)) /\ address = 2 * p.head.imm + TakenOf(p)
  ELSE code = s.code
PartRegisters(s, p) ==
  /\ vif.mask = IF p.head.command = "STMASK" /\ subpacket_count = 0 THEN Values(p)[1] ELSE s.mask
  /\ vif.rn = IF p.head.command = "STROW" THEN RowFirst(s.rn, Values(p), TakenOf(p)) ELSE s.rn
  /\ vif.cn = IF p.head.command = "STCOL" THEN RowFirst(s.cn, Values(p), TakenOf(p)) ELSE s.cn
  /\ vif.base = s.base
PartSaid(s, p) == PartUnpack(s, p) /\ PartMicrocode(s, p) /\ PartRegisters(s, p)

\* CL is what the last STCYCL before packet k said.
CycleSaid(k) == \A j \in 1 .. k - 1 : LastCycle(j, k) => vif.cl = vif_stream[j].head.cl

SaidAt(k) == AtPacket(k) => CycleSaid(k) /\ Results(data, code, vif) = Said[k]
SaidIn(k) == InPacket(k) => CycleSaid(k) /\ Said[k] \in VuState /\ PartSaid(Said[k], vif_stream[k])
VifSaid   == vif.tops = 0 /\ (Contiguous /\ ~vif_halted => \A k \in Nat : SaidAt(k) /\ SaidIn(k))

\* Everything of a packet done is what the packet says.
WholePackets ==
  \A s \in VuState : \A p \in PacketsOver(Word) :
    /\ p.head.command \in DataCommands /\ Len(p.body) = Expected(p.head)
    /\ subpacket_count = 0 /\ qwords_written \in Nat /\ PartSaid(s, p)
    => Results(data, code, vif) = Meaning(s, p)

\* Put is PutFirst with all the values.
LEMMA PutAll ==
  ASSUME NEW f, NEW at \in Int, NEW D \in SUBSET Int, DOMAIN f = D, NEW n \in Nat,
         NEW values, DOMAIN values = 1 .. n
  PROVE  PutFirst(f, at, values, n) = Put(f, at, values)
<1>1. \A a \in D : a - at \in 0 .. n - 1 <=> (a - at) + 1 \in DOMAIN values
  OBVIOUS
<1> QED BY <1>1 DEF PutFirst, Put

\* PutFirst with none of them changes nothing.
LEMMA PutNone ==
  ASSUME NEW S, NEW V, NEW f \in [S -> V], NEW at, NEW values
  PROVE  PutFirst(f, at, values, 0) = f
<1>1. \A x : x \notin 0 .. 0 - 1
  OBVIOUS
<1> QED BY <1>1 DEF PutFirst

\* One more value put behind the others.
LEMMA PutNext ==
  ASSUME NEW lo \in Int, NEW hi \in Int, NEW f, DOMAIN f = lo .. hi, NEW at \in Int, NEW values, NEW n \in Nat,
         at + n \in lo .. hi
  PROVE  PutFirst(f, at, values, n + 1)
           = [PutFirst(f, at, values, n) EXCEPT ![at + n] = values[n + 1]]
<1> DEFINE D == lo .. hi
           g == PutFirst(f, at, values, n)
           e(a) == IF a - at \in 0 .. (n + 1) - 1 THEN values[a - at + 1] ELSE f[a]
           h == [g EXCEPT ![at + n] = values[n + 1]]
<1>1. g = [a \in D |-> IF a - at \in 0 .. n - 1 THEN values[a - at + 1] ELSE f[a]]
  BY DEF PutFirst
<1>2. ASSUME NEW a \in D PROVE h[a] = e(a)
  <2>1. CASE a = at + n
    <3>1. a - at \in 0 .. (n + 1) - 1 /\ a - at + 1 = n + 1
      BY <2>1
    <3>2. h[a] = values[n + 1]
      <4> HIDE DEF D
      <4> QED BY <1>1, <2>1
    <3> QED BY <3>1, <3>2
  <2>2. CASE a # at + n
    <3>1. a \in Int /\ (a - at \in 0 .. (n + 1) - 1 <=> a - at \in 0 .. n - 1)
      BY <2>2
    <3>2. h[a] = g[a]
      <4> HIDE DEF D
      <4> QED BY <1>1, <2>2
    <3>3. g[a] = IF a - at \in 0 .. n - 1 THEN values[a - at + 1] ELSE f[a]
      <4> HIDE DEF D
      <4> QED BY <1>1
    <3> QED BY <3>1, <3>2, <3>3
  <2> QED BY <2>1, <2>2
<1>3. h = [a \in D |-> h[a]]
  <2> HIDE DEF D
  <2> QED BY <1>1
<1>4. h = [a \in D |-> e(a)]
  <2> HIDE DEF D, e, h
  <2> QED BY <1>2, <1>3
<1> QED BY <1>4 DEF PutFirst

\* A packet done is what it says.
LEMMA WholePacketsHold == WholePackets
<1> SUFFICES ASSUME NEW s \in VuState, NEW p \in PacketsOver(Word),
                    p.head.command \in DataCommands, Len(p.body) = Expected(p.head),
                    subpacket_count = 0, qwords_written \in Nat, PartSaid(s, p)
             PROVE  Results(data, code, vif) = Meaning(s, p)
  BY DEF WholePackets
<1> DEFINE c == p.head
           n == Len(p.body)
           values == Values(p)
<1>1. /\ c \in Word /\ p.body \in Seq(Word) /\ n \in Nat /\ DOMAIN p.body = 1 .. n
  <2>1. p.head \in Word /\ p.body \in Seq(Word)
    BY DEF PacketsOver
  <2> QED BY <2>1
<1>2. c.imm \in Nat /\ c.num \in Nat /\ c.format \in UnpackFormats
  BY <1>1, VifSizesAssumption DEF Word
<1>3. DOMAIN values = 1 .. n /\ n = Expected(c) /\ TakenOf(p) = n
  BY <1>1 DEF Values, TakenOf
<1>4. /\ DOMAIN s.data = 0 .. VuQwords - 1 /\ DOMAIN s.code = 0 .. 4 * VuQwords - 1
      /\ VuQwords \in Nat
      /\ s = [data |-> s.data, code |-> s.code, mask |-> s.mask, rn |-> s.rn, cn |-> s.cn, base |-> s.base]
  BY VifSizesAssumption DEF VuState, VuData, VuCode
<1>5. PartUnpack(s, p) /\ PartMicrocode(s, p) /\ PartRegisters(s, p)
  BY DEF PartSaid
<1>6. vif.base = s.base
  BY <1>5 DEF PartRegisters
<1>7. CASE c.command = "STMASK"
  <2>1. data = s.data /\ code = s.code
    BY <1>5, <1>7 DEF PartUnpack, PartMicrocode
  <2>2. vif.mask = values[1] /\ vif.rn = s.rn /\ vif.cn = s.cn
    BY <1>5, <1>7 DEF PartRegisters
  <2>3. Meaning(s, p) = [s EXCEPT !.mask = values[1]]
    BY <1>7 DEF Meaning, Values
  <2> HIDE DEF values
  <2> QED BY <1>4, <1>6, <2>1, <2>2, <2>3 DEF Results
<1>8. CASE c.command = "STROW"
  <2>1. data = s.data /\ code = s.code
    BY <1>5, <1>8 DEF PartUnpack, PartMicrocode
  <2>2. vif.mask = s.mask /\ vif.rn = RowFirst(s.rn, values, n) /\ vif.cn = s.cn
    BY <1>3, <1>5, <1>8 DEF PartRegisters
  <2>3. n = 4
    BY <1>3, <1>8 DEF Expected
  <2>4. RowFirst(s.rn, values, n) = values
    <3>1. values = [i \in 1 .. 4 |-> values[i]]
      BY <1>3, <2>3 DEF Values
    <3> HIDE DEF values
    <3> QED BY <2>3, <3>1 DEF RowFirst
  <2>5. Meaning(s, p) = [s EXCEPT !.rn = values]
    BY <1>8 DEF Meaning, Values
  <2> HIDE DEF values
  <2> QED BY <1>4, <1>6, <2>1, <2>2, <2>4, <2>5 DEF Results
<1>9. CASE c.command = "STCOL"
  <2>1. data = s.data /\ code = s.code
    BY <1>5, <1>9 DEF PartUnpack, PartMicrocode
  <2>2. vif.mask = s.mask /\ vif.cn = RowFirst(s.cn, values, n) /\ vif.rn = s.rn
    BY <1>3, <1>5, <1>9 DEF PartRegisters
  <2>3. n = 4
    BY <1>3, <1>9 DEF Expected
  <2>4. RowFirst(s.cn, values, n) = values
    <3>1. values = [i \in 1 .. 4 |-> values[i]]
      BY <1>3, <2>3 DEF Values
    <3> HIDE DEF values
    <3> QED BY <2>3, <3>1 DEF RowFirst
  <2>5. Meaning(s, p) = [s EXCEPT !.cn = values]
    BY <1>9 DEF Meaning, Values
  <2> HIDE DEF values
  <2> QED BY <1>4, <1>6, <2>1, <2>2, <2>4, <2>5 DEF Results
<1>10. CASE c.command = "MPG"
  <2>1. data = s.data /\ code = PutFirst(s.code, 2 * c.imm, values, n)
    BY <1>3, <1>5, <1>10 DEF PartUnpack, PartMicrocode
  <2>2. vif.mask = s.mask /\ vif.rn = s.rn /\ vif.cn = s.cn
    BY <1>5, <1>10 DEF PartRegisters
  <2>3. PutFirst(s.code, 2 * c.imm, values, n) = Put(s.code, 2 * c.imm, values)
    <3>1. 2 * c.imm \in Int /\ 0 .. 4 * VuQwords - 1 \in SUBSET Int
      BY <1>2
    <3> HIDE DEF values, n
    <3> QED BY <1>1, <1>3, <1>4, <3>1, PutAll
  <2>4. Meaning(s, p) = [s EXCEPT !.code = Put(s.code, 2 * c.imm, values)]
    BY <1>10 DEF Meaning, Values
  <2> DEFINE new == Put(s.code, 2 * c.imm, values)
  <2> HIDE DEF values, new
  <2>5. code = new /\ Meaning(s, p) = [s EXCEPT !.code = new]
    BY <2>1, <2>3, <2>4 DEF new
  <2> QED BY <1>4, <1>6, <2>1, <2>2, <2>5 DEF Results
<1>11. CASE c.command = "UNPACK"
  <2> DEFINE qwords == Quadwords(p)
  <2>1. data = PutFirst(s.data, c.imm, qwords, qwords_written) /\ code = s.code
    BY <1>5, <1>11 DEF PartUnpack, PartMicrocode
  <2>2. vif.mask = s.mask /\ vif.rn = s.rn /\ vif.cn = s.cn
    BY <1>5, <1>11 DEF PartRegisters
  <2>3. qwords_written = c.num
    <3>1. n = PerQuadword(c) * qwords_written
      BY <1>3, <1>5, <1>11 DEF PartUnpack
    <3>2. n = PerQuadword(c) * c.num
      BY <1>3, <1>11 DEF Expected, PerQuadword
    <3> QED BY <1>2, <3>1, <3>2 DEF PerQuadword
  <2>4. DOMAIN qwords = 1 .. c.num
    BY DEF Quadwords
  <2>5. PutFirst(s.data, c.imm, qwords, c.num) = Put(s.data, c.imm, qwords)
    <3>1. c.imm \in Int /\ 0 .. VuQwords - 1 \in SUBSET Int
      BY <1>2
    <3> HIDE DEF qwords
    <3> QED BY <1>2, <1>4, <2>4, <3>1, PutAll
  <2>6. Meaning(s, p) = [s EXCEPT !.data = Put(s.data, c.imm, qwords)]
    BY <1>11 DEF Meaning
  <2> DEFINE new == Put(s.data, c.imm, qwords)
  <2> HIDE DEF qwords, new
  <2>7. data = new /\ Meaning(s, p) = [s EXCEPT !.data = new]
    BY <2>1, <2>3, <2>5, <2>6 DEF new
  <2> QED BY <1>4, <1>6, <2>1, <2>2, <2>7 DEF Results
<1> QED BY <1>7, <1>8, <1>9, <1>10, <1>11 DEF DataCommands

-----------------------------------------------------------------------------
(* What the packets say, from step to step.                                *)

\* A step that takes words leaves the stream, and what it says, as they are.
LEMMA SenderUnchanged ==
  ASSUME UNCHANGED sender
  PROVE  /\ Said' = Said /\ Contiguous' = Contiguous /\ vif_stream' = vif_stream
         /\ (\A k : StartOf(k)' = StartOf(k)) /\ (\A j, k : LastCycle(j, k)' = LastCycle(j, k))
BY DEF sender, Said, Contiguous, StartOf, Wire, LastCycle

\* While a packet goes on, and when it is done, the VIF holds what was said.
LEMMA PartGoesOn ==
  ASSUME VifInv, VifInv', UNCHANGED sender, NEW k \in 1 .. Len(vif_stream),
         vif_stream[k].head.command \in DataCommands, CycleSaid(k), vif'.cl = vif.cl, vif'.tops = 0,
         Said[k] \in VuState, PartSaid(Said[k], vif_stream[k])', Consumed' \in Nat,
         Consumed' + subpacket_count' = StartOf(k + 1)
  PROVE  VifSaid'
<1> DEFINE n == Len(vif_stream)
<1>1. /\ Said' = Said /\ vif_stream' = vif_stream /\ \A j : StartOf(j)' = StartOf(j)
      /\ \A i, j : LastCycle(i, j)' = LastCycle(i, j)
  BY SenderUnchanged
<1>2. /\ vif_stream \in VifStreams /\ n \in Nat /\ k \in Nat
      /\ subpacket_count' \in Nat /\ qwords_written' \in Nat
  BY VifStreamHere DEF VifInv, VifTypeOK
<1>3. SUFFICES ASSUME NEW j \in Nat PROVE SaidAt(j)' /\ SaidIn(j)'
  BY DEF VifSaid
<1>4. ASSUME NEW m \in 1 .. k PROVE CycleSaid(m)' \/ m # k
  BY <1>1 DEF CycleSaid
<1>5. SaidAt(j)'
  <2>1. SUFFICES ASSUME AtPacket(j)' PROVE CycleSaid(j)' /\ (Results(data, code, vif) = Said[j])'
    BY DEF SaidAt
  <2>2. j \in 1 .. n + 1 /\ subpacket_count' = 0 /\ Consumed' = StartOf(j)
    BY <1>1, <2>1 DEF AtPacket
  <2>3. j = k + 1
    <3>1. StartOf(j) = StartOf(k + 1) /\ k + 1 \in 1 .. n + 1
      BY <1>2, <2>2
    <3> QED BY <1>2, <2>2, <3>1, StartsGrow
  <2>4. CycleSaid(k + 1)'
    <3>1. SUFFICES ASSUME NEW i \in 1 .. (k + 1) - 1, LastCycle(i, k + 1)
                   PROVE  vif'.cl = vif_stream'[i].head.cl
      BY <1>1 DEF CycleSaid
    <3>2. i # k
      BY <3>1 DEF LastCycle, DataCommands
    <3>3. i \in 1 .. k - 1
      BY <1>2, <3>2
    <3>4. LastCycle(i, k)
      BY <1>2, <3>1, <3>3 DEF LastCycle
    <3> QED BY <1>1, <3>3, <3>4 DEF CycleSaid
  <2>5. (Results(data, code, vif) = Said[j])'
    <3> DEFINE s == Said[k]
               p == vif_stream[k]
    <3>1. /\ p \in PacketsOver(Word) /\ Len(p.body) = Expected(p.head)
          /\ Said[k + 1] = Meaning(s, p)
      <4>1. vif_stream \in Seq(PacketsOver(Word))
        BY <1>2, VifStreamsAssumption DEF PacketsOver
      <4>2. Len(p.body) = Expected(p.head)
        BY <1>2, VifStreamHere
      <4> QED BY <1>2, <4>1, <4>2, SaidSteps
    <3>2. WholePackets'
      BY WholePacketsHold, PTL
    <3>3. PartSaid(s, p)' /\ s' = s /\ p' = p
      BY <1>1
    <3> HIDE DEF s, p
    <3>4. s \in VuState /\ p.head.command \in DataCommands
      BY DEF s, p
    <3>5. Results(data', code', vif') = Meaning(s, p)
      BY <1>2, <2>2, <3>1, <3>2, <3>3, <3>4 DEF WholePackets, PartSaid, PartUnpack, PartMicrocode, PartRegisters, TakenOf
    <3> QED BY <1>1, <2>3, <3>1, <3>5
  <2> QED BY <2>3, <2>4, <2>5
<1>6. SaidIn(j)'
  <2>1. SUFFICES ASSUME InPacket(j)'
                 PROVE  CycleSaid(j)' /\ (Said[j] \in VuState)' /\ PartSaid(Said[j], vif_stream[j])'
    BY DEF SaidIn
  <2>2. j \in 1 .. n /\ Consumed' + subpacket_count' = StartOf(j + 1)
    BY <1>1, <2>1 DEF InPacket
  <2>3. j = k
    <3>1. StartOf(j + 1) = StartOf(k + 1) /\ k + 1 \in 1 .. n + 1 /\ j + 1 \in 1 .. n + 1
      BY <1>2, <2>2
    <3>2. j + 1 = k + 1
      BY <1>2, <3>1, StartsGrow
    <3> QED BY <1>2, <3>2
  <2>4. CycleSaid(k)'
    BY <1>1 DEF CycleSaid
  <2>5. (Said[k] \in VuState)'
    BY <1>1 DEF VuState, VuData, VuCode
  <2> QED BY <2>3, <2>4, <2>5
<1> QED BY <1>5, <1>6

\* The words in the FIFO are the data of the packet at hand that were not taken yet.
LEMMA DataHere ==
  ASSUME VifInv, NEW k \in Nat, InPacket(k)
  PROVE  LET p == vif_stream[k]
         IN  /\ k \in 1 .. Len(vif_stream) /\ command = p.head /\ TakenOf(p) \in Nat
             /\ p.head \in Word /\ p.body \in Seq(Word) /\ Consumed + subpacket_count = StartOf(k + 1)
             /\ TakenOf(p) + subpacket_count = Len(p.body) /\ Len(p.body) \in Nat
             /\ subpacket_count \in Nat /\ Len(vif_fifo) \in Nat
             /\ p.head.command \in DataCommands => Len(p.body) = Expected(p.head)
             /\ \A i \in 1 .. Len(vif_fifo) : i <= subpacket_count =>
                  vif_fifo[i] = p.body[TakenOf(p) + i] /\ vif_fifo[i].imm \in Nat
<1> DEFINE p == vif_stream[k]
           t == TakenOf(p)
           w == Wire(vif_stream)
           from == StartOf(k)
<1>1. /\ VifTypeOK /\ VifWaits /\ vif_stream \in VifStreams /\ subpacket_count \in Nat
      /\ k \in 1 .. Len(vif_stream) /\ command = p.head /\ from < Consumed
      /\ Consumed + subpacket_count = StartOf(k + 1)
  BY DEF VifInv, VifTypeOK, InPacket
<1>2. Consumed \in Nat /\ Len(vif_fifo) \in Nat
  BY <1>1 DEF Consumed, VifTypeOK, VifWaits
<1>3. /\ StartOf(k + 1) = from + 1 + Len(p.body) /\ from \in Nat /\ Len(p.body) \in Nat
      /\ p.head \in Word
      /\ p.head.command \in DataCommands => Len(p.body) = Expected(p.head)
  <2>1. Len(vif_stream) \in Nat
    BY <1>1, VifStreamHere
  <2>2. k \in 1 .. Len(vif_stream) + 1
    BY <1>1, <2>1
  <2> QED BY <1>1, <2>2, VifStreamHere
<1>4. p.body \in Seq(Word) /\ \A j \in 1 .. Len(p.body) : w[from + 1 + j] = p.body[j]
  BY <1>1, BodyHere
<1> HIDE DEF p, w, from
<1>5. t \in Nat /\ t + subpacket_count = Len(p.body) /\ Consumed = from + 1 + t
  <2> DEFINE to == StartOf(k + 1)
             l  == Len(p.body)
  <2>1. /\ from < Consumed /\ Consumed + subpacket_count = to /\ subpacket_count \in Nat /\ Consumed \in Nat
        /\ to = from + 1 + l /\ from \in Nat /\ l \in Nat
    BY <1>1, <1>2, <1>3
  <2>2. t = l - subpacket_count
    BY DEF TakenOf
  <2> HIDE DEF to, l, t
  <2>3. t \in Nat /\ t + subpacket_count = l /\ Consumed = from + 1 + t
    BY <2>1, <2>2
  <2> QED BY <2>3 DEF l
<1> HIDE DEF t
<1>6. ASSUME NEW i \in 1 .. Len(vif_fifo), i <= subpacket_count
      PROVE  vif_fifo[i] = p.body[t + i] /\ vif_fifo[i].imm \in Nat
  <2>1. vif_fifo[i] = w[Consumed + i] /\ vif_fifo[i] \in Word
    BY <1>1, FrontWords DEF w
  <2>2. t + i \in 1 .. Len(p.body) /\ Consumed + i = from + 1 + (t + i)
    BY <1>1, <1>2, <1>3, <1>5, <1>6
  <2> QED BY <1>4, <2>1, <2>2 DEF Word
<1>7. /\ k \in 1 .. Len(vif_stream) /\ command = p.head /\ t \in Nat
      /\ p.head \in Word /\ p.body \in Seq(Word) /\ Consumed + subpacket_count = StartOf(k + 1)
      /\ t + subpacket_count = Len(p.body) /\ Len(p.body) \in Nat
      /\ subpacket_count \in Nat /\ Len(vif_fifo) \in Nat
      /\ p.head.command \in DataCommands => Len(p.body) = Expected(p.head)
      /\ \A i \in 1 .. Len(vif_fifo) : i <= subpacket_count =>
           vif_fifo[i] = p.body[t + i] /\ vif_fifo[i].imm \in Nat
  BY <1>1, <1>2, <1>3, <1>4, <1>5, <1>6
<1> QED BY <1>7 DEF p, t

\* A turn in a packet that keeps PartSaid keeps what was said.
LEMMA DataSaid ==
  ASSUME VifInv, VifInv', VifSaid, NEW n \in Nat, n <= Len(vif_fifo), Take(n), UNCHANGED sender,
         command.command \in DataCommands, subpacket_count' = subpacket_count - n, subpacket_count # 0,
         vif'.cl = vif.cl, vif'.tops = vif.tops, UNCHANGED vif_halted, ~vif_halted,
         \A k \in Nat : InPacket(k) /\ Contiguous /\ CycleSaid(k) /\ Said[k] \in VuState
                        /\ PartSaid(Said[k], vif_stream[k]) => PartSaid(Said[k], vif_stream[k])'
  PROVE  VifSaid'
<1>1. PICK k \in Nat : InPacket(k)
  BY DEF VifInv, VifPlace, AtPacket
<1>2. vif'.tops = 0 /\ Contiguous' = Contiguous
  BY SenderUnchanged DEF VifSaid
<1>3. CASE ~Contiguous
  BY <1>2, <1>3 DEF VifSaid
<1>4. CASE Contiguous
  <2>1. CycleSaid(k) /\ Said[k] \in VuState /\ PartSaid(Said[k], vif_stream[k])
    BY <1>1, <1>4 DEF VifSaid, SaidIn
  <2>2. PartSaid(Said[k], vif_stream[k])'
    BY <1>1, <1>4, <2>1
  <2>3. /\ k \in 1 .. Len(vif_stream) /\ command = vif_stream[k].head /\ subpacket_count \in Nat
        /\ Consumed + subpacket_count = StartOf(k + 1)
    BY <1>1, DataHere
  <2>4. Consumed \in Nat /\ Consumed' = Consumed + n
    BY TakenInv DEF VifInv
  <2>5. Consumed' \in Nat /\ Consumed' + subpacket_count' = StartOf(k + 1)
    BY <2>3, <2>4
  <2> QED BY <1>2, <2>1, <2>2, <2>3, <2>5, PartGoesOn
<1> QED BY <1>3, <1>4

\* The next word of data is the next one of the packet.
LEMMA NextDatum ==
  ASSUME VifInv, NEW k \in Nat, InPacket(k), vif_fifo # <<>>, subpacket_count # 0
  PROVE  LET p == vif_stream[k]
             t == TakenOf(p)
         IN  /\ t + 1 \in 1 .. Len(p.body) /\ t \in Nat
             /\ Head_.imm = Values(p)[t + 1] /\ Head_.imm \in Nat
<1> DEFINE p == vif_stream[k]
           t == TakenOf(p)
<1>1. /\ t \in Nat /\ p.body \in Seq(Word) /\ t + subpacket_count = Len(p.body) /\ Len(p.body) \in Nat
      /\ subpacket_count \in Nat /\ Len(vif_fifo) \in Nat
      /\ \A i \in 1 .. Len(vif_fifo) : i <= subpacket_count =>
           vif_fifo[i] = p.body[t + i] /\ vif_fifo[i].imm \in Nat
  BY DataHere
<1>2. Len(vif_fifo) # 0 /\ Head_ = vif_fifo[1]
  <2>1. vif_fifo \in Seq(Word)
    BY DEF VifInv, VifTypeOK
  <2> QED BY <2>1 DEF Head_
<1> HIDE DEF p, t
<1>3. t + 1 \in 1 .. Len(p.body)
  BY <1>1
<1>4. Head_ = p.body[t + 1] /\ Head_.imm \in Nat
  <2>1. 1 \in 1 .. Len(vif_fifo) /\ 1 <= subpacket_count
    BY <1>1, <1>2
  <2> QED BY <1>1, <1>2, <2>1
<1>5. Values(p)[t + 1] = p.body[t + 1].imm
  <2>1. DOMAIN p.body = 1 .. Len(p.body)
    BY <1>1
  <2> QED BY <1>3, <2>1 DEF Values
<1>6. /\ t + 1 \in 1 .. Len(p.body) /\ t \in Nat
      /\ Head_.imm = Values(p)[t + 1] /\ Head_.imm \in Nat
  BY <1>1, <1>3, <1>4, <1>5
<1> QED BY <1>6 DEF p, t

\* One more value of a row or a column.
LEMMA RowNext ==
  ASSUME NEW old, NEW values, NEW n \in 0 .. 3
  PROVE  RowFirst(old, values, n + 1) = [RowFirst(old, values, n) EXCEPT ![n + 1] = values[n + 1]]
<1> DEFINE g == RowFirst(old, values, n)
           e(i) == IF i <= n + 1 THEN values[i] ELSE old[i]
           h == [g EXCEPT ![n + 1] = values[n + 1]]
<1>1. g = [i \in 1 .. 4 |-> IF i <= n THEN values[i] ELSE old[i]]
  BY DEF RowFirst
<1> HIDE DEF g
<1>2. \A i \in 1 .. 4 : h[i] = e(i)
  BY <1>1
<1>3. h = [i \in 1 .. 4 |-> h[i]]
  BY <1>1
<1> HIDE DEF h, e
<1>4. h = [i \in 1 .. 4 |-> e(i)]
  BY <1>2, <1>3
<1> QED BY <1>4 DEF RowFirst, h, g, e

\* A place in a memory does not wrap around.
LEMMA NoWrap ==
  ASSUME NEW a \in Nat, NEW b \in Nat \ {0}, a < b
  PROVE  a % b = a
BY SMT

\* execute_command: STMASK.
LEMMA SetMaskSaid ==
  ASSUME VifInv, VifInv', VifSaid, SetMask
  PROVE  VifSaid'
<1>1. /\ Take(1) /\ UNCHANGED sender /\ vif_fifo # <<>> /\ ~vif_halted /\ UNCHANGED vif_halted
      /\ command.command = "STMASK" /\ subpacket_count' = subpacket_count - 1 /\ subpacket_count # 0
      /\ data' = data /\ code' = code /\ vif' = [vif EXCEPT !.mask = Head_.imm] /\ command' = command
  BY DEF SetMask, ReadsData, Turn, memory
<1>2. /\ vif'.cl = vif.cl /\ vif'.tops = vif.tops /\ vif'.mask = Head_.imm /\ vif'.base = vif.base
      /\ vif'.rn = vif.rn /\ vif'.cn = vif.cn
  <2>1. vif \in VifRegs
    BY DEF VifInv, VifTypeOK
  <2> HIDE DEF Head_
  <2> QED BY <1>1, <2>1 DEF VifRegs
<1>3. ASSUME NEW k \in Nat, InPacket(k), PartSaid(Said[k], vif_stream[k])
      PROVE  PartSaid(Said[k], vif_stream[k])'
  <2> DEFINE p == vif_stream[k]
             s == Said[k]
             t == TakenOf(p)
  <2>1. p' = p /\ s' = s /\ command = p.head
    BY <1>1, <1>3, SenderUnchanged DEF InPacket
  <2>2. t + 1 \in 1 .. Len(p.body) /\ t \in Nat /\ Head_.imm = Values(p)[t + 1]
    BY <1>1, <1>3, NextDatum
  <2>3. Len(p.body) = 1 /\ t + subpacket_count = Len(p.body) /\ subpacket_count \in Nat
    <3>1. Len(p.body) = Expected(p.head) /\ t + subpacket_count = Len(p.body) /\ subpacket_count \in Nat
      BY <1>1, <1>3, <2>1, DataHere DEF DataCommands
    <3> QED BY <1>1, <2>1, <3>1 DEF Expected
  <2>4. t = 0 /\ subpacket_count' = 0
    <3> HIDE DEF t
    <3> QED BY <1>1, <2>2, <2>3
  <2>5. PartUnpack(s, p) /\ PartMicrocode(s, p) /\ PartRegisters(s, p)
    BY <1>3 DEF PartSaid
  <2> HIDE DEF p, s
  <2>6. p.head.command = "STMASK"
    BY <1>1, <2>1
  <2>7. PartUnpack(s, p)' /\ PartMicrocode(s, p)'
    BY <1>1, <2>1, <2>5, <2>6 DEF PartUnpack, PartMicrocode
  <2>8. PartRegisters(s, p)'
    <3>1. Head_.imm = Values(p)[1]
      BY <2>2, <2>4
    <3>2. Values(p)' = Values(p)
      BY <2>1 DEF Values
    <3> QED BY <1>2, <2>1, <2>4, <2>5, <2>6, <3>1, <3>2 DEF PartRegisters
  <2> QED BY <2>7, <2>8 DEF PartSaid, p, s
<1>4. 1 \in Nat /\ 1 <= Len(vif_fifo) /\ command.command \in DataCommands
  <2>1. vif_fifo \in Seq(Word)
    BY DEF VifInv, VifTypeOK
  <2> QED BY <1>1, <2>1 DEF DataCommands
<1> QED BY <1>1, <1>2, <1>3, <1>4, DataSaid

\* execute_command: STROW and STCOL.
LEMMA SetRowSaid ==
  ASSUME VifInv, VifInv', VifSaid, SetRow
  PROVE  VifSaid'
<1>1. /\ Take(1) /\ UNCHANGED sender /\ vif_fifo # <<>> /\ ~vif_halted /\ UNCHANGED vif_halted
      /\ command.command \in {"STROW", "STCOL"}
      /\ subpacket_count' = subpacket_count - 1 /\ subpacket_count # 0
      /\ data' = data /\ code' = code /\ command' = command
      /\ vif' = IF command.command = "STROW"
                THEN [vif EXCEPT !.rn[5 - subpacket_count] = Head_.imm]
                ELSE [vif EXCEPT !.cn[5 - subpacket_count] = Head_.imm]
  BY DEF SetRow, ReadsData, Turn, memory
<1>2. /\ vif'.cl = vif.cl /\ vif'.tops = vif.tops /\ vif'.mask = vif.mask /\ vif'.base = vif.base
      /\ vif'.rn = IF command.command = "STROW" THEN [vif.rn EXCEPT ![5 - subpacket_count] = Head_.imm]
                   ELSE vif.rn
      /\ vif'.cn = IF command.command = "STCOL" THEN [vif.cn EXCEPT ![5 - subpacket_count] = Head_.imm]
                   ELSE vif.cn
  <2>1. vif \in VifRegs
    BY DEF VifInv, VifTypeOK
  <2> DEFINE value == Head_.imm
             at == 5 - subpacket_count
  <2>2. vif' = IF command.command = "STROW" THEN [vif EXCEPT !.rn[at] = value] ELSE [vif EXCEPT !.cn[at] = value]
    BY <1>1
  <2> HIDE DEF value, at
  <2>3. /\ vif'.cl = vif.cl /\ vif'.tops = vif.tops /\ vif'.mask = vif.mask /\ vif'.base = vif.base
        /\ vif'.rn = IF command.command = "STROW" THEN [vif.rn EXCEPT ![at] = value] ELSE vif.rn
        /\ vif'.cn = IF command.command = "STCOL" THEN [vif.cn EXCEPT ![at] = value] ELSE vif.cn
    BY <1>1, <2>1, <2>2 DEF VifRegs
  <2> QED BY <2>3 DEF value, at
<1>3. ASSUME NEW k \in Nat, InPacket(k), PartSaid(Said[k], vif_stream[k])
      PROVE  PartSaid(Said[k], vif_stream[k])'
  <2> DEFINE p == vif_stream[k]
             s == Said[k]
             t == TakenOf(p)
  <2>1. p' = p /\ s' = s /\ command = p.head
    BY <1>1, <1>3, SenderUnchanged DEF InPacket
  <2>2. t + 1 \in 1 .. Len(p.body) /\ t \in Nat /\ Head_.imm = Values(p)[t + 1]
    BY <1>1, <1>3, NextDatum
  <2>3. Len(p.body) = 4 /\ t + subpacket_count = Len(p.body) /\ subpacket_count \in Nat
    <3>1. Len(p.body) = Expected(p.head) /\ t + subpacket_count = Len(p.body) /\ subpacket_count \in Nat
      BY <1>1, <1>3, <2>1, DataHere DEF DataCommands
    <3> QED BY <1>1, <2>1, <3>1 DEF Expected
  <2>4. t \in 0 .. 3 /\ 5 - subpacket_count = t + 1
    <3> HIDE DEF t
    <3> QED BY <1>1, <2>2, <2>3
  <2>5. PartUnpack(s, p) /\ PartMicrocode(s, p) /\ PartRegisters(s, p)
    BY <1>3 DEF PartSaid
  <2>6. TakenOf(p)' = t + 1
    BY <1>1, <2>1, <2>3 DEF TakenOf
  <2> HIDE DEF p, s, t
  <2>7. p.head.command \in {"STROW", "STCOL"}
    BY <1>1, <2>1
  <2>8. PartUnpack(s, p)' /\ PartMicrocode(s, p)'
    BY <1>1, <2>1, <2>5, <2>7 DEF PartUnpack, PartMicrocode
  <2>9. Values(p)' = Values(p)
    BY <2>1 DEF Values
  <2>10. PartRegisters(s, p)'
    <3>1. CASE p.head.command = "STROW"
      <4>1. vif.rn = RowFirst(s.rn, Values(p), t) /\ vif.cn = s.cn /\ vif.mask = s.mask /\ vif.base = s.base
        BY <2>5, <3>1 DEF PartRegisters, t
      <4>2. vif'.rn = [vif.rn EXCEPT ![t + 1] = Values(p)[t + 1]] /\ vif'.cn = vif.cn
        BY <1>2, <2>1, <2>2, <2>4, <3>1
      <4>3. vif'.rn = RowFirst(s.rn, Values(p), t + 1)
        BY <2>4, <4>1, <4>2, RowNext
      <4>4. RowFirst(s.rn, Values(p), TakenOf(p))' = RowFirst(s.rn, Values(p), t + 1)
        BY <2>1, <2>6, <2>9 DEF RowFirst
      <4> QED BY <1>2, <2>1, <3>1, <4>1, <4>2, <4>3, <4>4 DEF PartRegisters
    <3>2. CASE p.head.command = "STCOL"
      <4>1. vif.cn = RowFirst(s.cn, Values(p), t) /\ vif.rn = s.rn /\ vif.mask = s.mask /\ vif.base = s.base
        BY <2>5, <3>2 DEF PartRegisters, t
      <4>2. vif'.cn = [vif.cn EXCEPT ![t + 1] = Values(p)[t + 1]] /\ vif'.rn = vif.rn
        BY <1>2, <2>1, <2>2, <2>4, <3>2
      <4>3. vif'.cn = RowFirst(s.cn, Values(p), t + 1)
        BY <2>4, <4>1, <4>2, RowNext
      <4>4. RowFirst(s.cn, Values(p), TakenOf(p))' = RowFirst(s.cn, Values(p), t + 1)
        BY <2>1, <2>6, <2>9 DEF RowFirst
      <4> QED BY <1>2, <2>1, <3>2, <4>1, <4>2, <4>3, <4>4 DEF PartRegisters
    <3> QED BY <2>7, <3>1, <3>2
  <2> QED BY <2>8, <2>10 DEF PartSaid, p, s
<1>4. 1 \in Nat /\ 1 <= Len(vif_fifo) /\ command.command \in DataCommands
  <2>1. vif_fifo \in Seq(Word)
    BY DEF VifInv, VifTypeOK
  <2> QED BY <1>1, <2>1 DEF DataCommands
<1> QED BY <1>1, <1>2, <1>3, <1>4, DataSaid

\* execute_command: MPG.
LEMMA MicrocodeSaid ==
  ASSUME VifInv, VifInv', VifSaid, Microcode
  PROVE  VifSaid'
<1>1. /\ Take(1) /\ UNCHANGED sender /\ vif_fifo # <<>> /\ ~vif_halted /\ UNCHANGED vif_halted
      /\ command.command = "MPG" /\ subpacket_count' = subpacket_count - 1 /\ subpacket_count # 0
      /\ data' = data /\ vif' = vif /\ command' = command /\ address' = address + 1
      /\ code' = [code EXCEPT ![address % (4 * VuQwords)] = Head_.imm]
  BY DEF Microcode, ReadsData, Turn
<1>2. ASSUME NEW k \in Nat, InPacket(k), Contiguous, Said[k] \in VuState, PartSaid(Said[k], vif_stream[k])
      PROVE  PartSaid(Said[k], vif_stream[k])'
  <2> DEFINE p == vif_stream[k]
             s == Said[k]
             t == TakenOf(p)
             values == Values(p)
             at == 2 * p.head.imm
  <2>1. p' = p /\ s' = s /\ command = p.head /\ k \in DOMAIN vif_stream
    <3>1. k \in 1 .. Len(vif_stream)
      BY <1>2 DEF InPacket
    <3>2. DOMAIN vif_stream = 1 .. Len(vif_stream)
      BY VifStreamsAssumption DEF VifInv, VifTypeOK
    <3> QED BY <1>1, <1>2, <3>1, <3>2, SenderUnchanged DEF InPacket
  <2>2. t + 1 \in 1 .. Len(p.body) /\ t \in Nat /\ Head_.imm = values[t + 1]
    BY <1>1, <1>2, NextDatum
  <2>3. /\ Len(p.body) = Expected(p.head) /\ t + subpacket_count = Len(p.body) /\ subpacket_count \in Nat
        /\ p.head \in Word /\ Len(p.body) \in Nat
    BY <1>1, <1>2, <2>1, DataHere DEF DataCommands
  <2>4. p.head.imm \in Nat /\ at \in Nat
    BY <2>3 DEF Word
  <2>5. at + Len(p.body) <= 4 * VuQwords
    <3>1. p.head.command = "MPG" /\ DataWords(p.head) = Expected(p.head)
      BY <1>1, <2>1, <2>3, DataWordsExpected DEF DataCommands
    <3> QED BY <1>2, <2>1, <2>3, <3>1 DEF Contiguous
  <2>6. PartUnpack(s, p) /\ PartMicrocode(s, p) /\ PartRegisters(s, p)
    BY <1>2 DEF PartSaid
  <2>7. TakenOf(p)' = t + 1
    BY <1>1, <2>1, <2>3 DEF TakenOf
  <2>8. DOMAIN s.code = 0 .. 4 * VuQwords - 1
    BY <1>2 DEF VuState, VuCode
  <2>9. Values(p)' = values
    BY <2>1 DEF Values
  <2> HIDE DEF p, s, t, values, at
  <2>10. p.head.command = "MPG"
    BY <1>1, <2>1
  <2>11. code = PutFirst(s.code, at, values, t) /\ address = at + t
    BY <2>6, <2>10 DEF PartMicrocode, t, values, at
  <2>12. at + t \in 0 .. 4 * VuQwords - 1 /\ address % (4 * VuQwords) = at + t
    <3> DEFINE size == 4 * VuQwords
    <3>1. size \in Nat \ {0}
      BY VifSizesAssumption
    <3>2. at + t \in Nat /\ at + t < size
      <4> HIDE DEF size
      <4> QED BY <2>2, <2>3, <2>4, <2>5, <3>1 DEF size
    <3> HIDE DEF size
    <3>3. (at + t) % size = at + t
      BY <3>1, <3>2, NoWrap
    <3>4. at + t \in 0 .. size - 1
      BY <3>1, <3>2
    <3> QED BY <2>11, <3>3, <3>4 DEF size
  <2>13. code' = PutFirst(s.code, at, values, t + 1)
    <3>1. 4 * VuQwords - 1 \in Int /\ 0 \in Int /\ at \in Int
      BY <2>4, VifSizesAssumption
    <3>2. PutFirst(s.code, at, values, t + 1) = [PutFirst(s.code, at, values, t) EXCEPT ![at + t] = values[t + 1]]
      BY <2>2, <2>8, <2>12, <3>1, PutNext
    <3>3. code' = [code EXCEPT ![at + t] = values[t + 1]]
      BY <1>1, <2>2, <2>12
    <3> QED BY <2>11, <3>2, <3>3
  <2>14. PartMicrocode(s, p)'
    <3>1. PutFirst(s.code, 2 * p.head.imm, Values(p), TakenOf(p))' = PutFirst(s.code, at, values, t + 1)
      BY <2>1, <2>7, <2>9 DEF PutFirst, at
    <3>2. address' = at + (t + 1)
      BY <1>1, <2>2, <2>4, <2>11
    <3> QED BY <2>1, <2>7, <2>10, <2>13, <3>1, <3>2 DEF PartMicrocode, at
  <2>15. PartUnpack(s, p)' /\ PartRegisters(s, p)'
    BY <1>1, <2>1, <2>6, <2>10 DEF PartUnpack, PartRegisters
  <2> QED BY <2>14, <2>15 DEF PartSaid, p, s
<1>3. 1 \in Nat /\ 1 <= Len(vif_fifo) /\ command.command \in DataCommands
  <2>1. vif_fifo \in Seq(Word)
    BY DEF VifInv, VifTypeOK
  <2> QED BY <1>1, <2>1 DEF DataCommands
<1> QED BY <1>1, <1>2, <1>3, DataSaid

\* A packet that is contiguous has at most one quadword more than CL.
LEMMA WithinCycle ==
  ASSUME Contiguous, NEW k \in DOMAIN vif_stream, CycleSaid(k), vif.cl \in Nat,
         vif_stream[k].head.command = "UNPACK", vif_stream[k].head.num \in Nat
  PROVE  vif_stream[k].head.imm + vif_stream[k].head.num <= VuQwords /\ vif_stream[k].head.num <= vif.cl + 1
<1> DEFINE c == vif_stream[k].head
<1>1. /\ c.imm + c.num <= VuQwords
      /\ c.num <= 1 \/ \E j \in 1 .. k - 1 : LastCycle(j, k) /\ c.num <= vif_stream[j].head.cl + 1
  BY DEF Contiguous
<1>2. CASE c.num <= 1
  BY <1>1, <1>2
<1>3. CASE \E j \in 1 .. k - 1 : LastCycle(j, k) /\ c.num <= vif_stream[j].head.cl + 1
  BY <1>1, <1>3 DEF CycleSaid
<1> QED BY <1>1, <1>2, <1>3

\* unpack_packet: one more quadword, behind the others.
LEMMA UnpackedSaid ==
  ASSUME VifInv, NEW qword, Unpacked(PerQuadword(command), qword), UNCHANGED sender, subpacket_count # 0,
         command.command = "UNPACK", NEW k \in Nat, InPacket(k), Contiguous, CycleSaid(k),
         Said[k] \in VuState, PartSaid(Said[k], vif_stream[k]),
         qword = Quadwords(vif_stream[k])[qwords_written + 1]
  PROVE  PartSaid(Said[k], vif_stream[k])'
<1> DEFINE p == vif_stream[k]
           s == Said[k]
           t == TakenOf(p)
           q == qwords_written
           qwords == Quadwords(p)
           at == p.head.imm
           per == PerQuadword(p.head)
<1>1. p' = p /\ s' = s /\ command = p.head /\ k \in DOMAIN vif_stream
  <2>1. k \in 1 .. Len(vif_stream)
    BY DEF InPacket
  <2>2. DOMAIN vif_stream = 1 .. Len(vif_stream)
    BY VifStreamsAssumption DEF VifInv, VifTypeOK
  <2> QED BY <2>1, <2>2, SenderUnchanged DEF InPacket
<1>2. /\ q' = q + 1 /\ subpacket_count' = subpacket_count - per /\ Step
      /\ data' = [data EXCEPT ![address % VuQwords] = qword] /\ UNCHANGED <<command, vif, code>>
  BY <1>1 DEF Unpacked
<1>3. /\ Len(p.body) = Expected(p.head) /\ t + subpacket_count = Len(p.body) /\ subpacket_count \in Nat
      /\ p.head \in Word /\ Len(p.body) \in Nat /\ t \in Nat
  BY <1>1, DataHere DEF DataCommands
<1>4. at \in Nat /\ p.head.num \in Nat /\ q \in Nat /\ vif.cl \in Nat /\ per \in {1, 4}
  <2>1. p.head.imm \in Nat /\ p.head.num \in Nat
    BY <1>3, VifSizesAssumption DEF Word
  <2>2. vif.cl \in Nat /\ q \in Nat
    BY DEF VifInv, VifTypeOK, VifRegs
  <2> QED BY <2>1, <2>2 DEF PerQuadword
<1>5. PartUnpack(s, p) /\ PartMicrocode(s, p) /\ PartRegisters(s, p)
  BY DEF PartSaid
<1>6. p.head.command = "UNPACK" /\ qword = qwords[q + 1]
  BY <1>1
<1>7. at + p.head.num <= VuQwords /\ p.head.num <= vif.cl + 1
  BY <1>1, <1>4, <1>6, WithinCycle
<1>8. Len(p.body) = per * p.head.num
  BY <1>3, <1>6 DEF Expected, PerQuadword
<1>9. DOMAIN s.data = 0 .. VuQwords - 1
  BY DEF VuState, VuData
<1>10. Quadwords(p)' = qwords /\ PerQuadword(p.head)' = per
  BY <1>1 DEF Quadwords, PerQuadword
<1> HIDE DEF p, s, q, qwords, at, per
<1>11. data = PutFirst(s.data, at, qwords, q) /\ t = per * q /\ address = at + q
  BY <1>5, <1>6 DEF PartUnpack, q, qwords, at, per
<1> DEFINE num == p.head.num
           sub == subpacket_count
<1> HIDE DEF num, sub, t
<1>12. q < num /\ sub' = per * (num - (q + 1)) /\ t + per = per * (q + 1)
  <2>1. /\ num \in Nat /\ q \in Nat /\ sub \in Nat /\ per \in {1, 4} /\ sub # 0
        /\ per * q + sub = per * num /\ sub' = sub - per /\ t = per * q
    BY <1>2, <1>3, <1>4, <1>8, <1>11 DEF num, sub
  <2>2. CASE per = 1
    BY <2>1, <2>2
  <2>3. CASE per = 4
    BY <2>1, <2>3
  <2> QED BY <2>1, <2>2, <2>3
<1>13. at + q \in 0 .. VuQwords - 1 /\ address % VuQwords = at + q
  <2>1. VuQwords \in Nat \ {0}
    BY VifSizesAssumption
  <2>2. at + q \in Nat /\ at + q < VuQwords /\ at + q \in 0 .. VuQwords - 1
    BY <1>4, <1>7, <1>12, <2>1 DEF num
  <2>3. (at + q) % VuQwords = at + q
    BY <2>1, <2>2, NoWrap
  <2> QED BY <1>11, <2>2, <2>3
<1>14. data' = PutFirst(s.data, at, qwords, q + 1)
  <2>1. VuQwords - 1 \in Int /\ 0 \in Int /\ at \in Int
    BY <1>4, VifSizesAssumption
  <2>2. PutFirst(s.data, at, qwords, q + 1) = [PutFirst(s.data, at, qwords, q) EXCEPT ![at + q] = qwords[q + 1]]
    BY <1>4, <1>9, <1>13, <2>1, PutNext
  <2>3. data' = [data EXCEPT ![at + q] = qwords[q + 1]]
    BY <1>2, <1>6, <1>13
  <2> QED BY <1>11, <2>2, <2>3
<1>15. sub' # 0 => address' = at + (q + 1)
  <2>1. SUFFICES ASSUME sub' # 0 PROVE address' = at + (q + 1)
    OBVIOUS
  <2>2. q + 1 # num
    BY <1>4, <1>12, <2>1
  <2>3. q + 1 <= vif.cl
    BY <1>4, <1>7, <1>12, <2>2 DEF num
  <2>4. address' = address + 1 + (IF q' >= vif.cl THEN vif.cl - q' ELSE 0)
    BY <1>2 DEF Step, q
  <2> QED BY <1>2, <1>4, <1>11, <2>3, <2>4
<1>16. TakenOf(p)' = per * (q + 1)
  <2>1. TakenOf(p)' = Len(p.body) - sub'
    BY <1>1 DEF TakenOf, sub
  <2>2. t = Len(p.body) - sub /\ sub \in Nat /\ sub' = sub - per /\ t \in Nat
    BY <1>2, <1>3 DEF TakenOf, sub, t
  <2> DEFINE r == per * (q + 1)
             l == Len(p.body)
  <2>3. t + per = r /\ per \in {1, 4} /\ l \in Nat /\ t = l - sub /\ TakenOf(p)' = l - sub'
    BY <1>3, <1>4, <1>12, <2>1, <2>2
  <2> HIDE DEF r, l
  <2>4. TakenOf(p)' = r
    BY <2>2, <2>3
  <2> QED BY <2>4 DEF r
<1>17. PartUnpack(s, p)'
  <2>1. PutFirst(s.data, p.head.imm, Quadwords(p), qwords_written)' = PutFirst(s.data, at, qwords, q + 1)
    <3>1. s'.data = s.data /\ p'.head.imm = at /\ Quadwords(p)' = qwords /\ qwords_written' = q + 1
      BY <1>1, <1>2, <1>10 DEF at, q
    <3> QED BY <3>1 DEF PutFirst
  <2>2. qwords_written' = q + 1 /\ (subpacket_count' # 0 => address' = p'.head.imm + qwords_written')
    BY <1>1, <1>2, <1>15 DEF q, sub, at
  <2>3. TakenOf(p)' = PerQuadword(p.head)' * qwords_written'
    BY <1>10, <1>16, <2>2
  <2>4. p'.head.command = "UNPACK" /\ data' = PutFirst(s.data, p.head.imm, Quadwords(p), qwords_written)'
    BY <1>1, <1>6, <1>14, <2>1
  <2> QED BY <2>2, <2>3, <2>4 DEF PartUnpack
<1>18. PartMicrocode(s, p)' /\ PartRegisters(s, p)'
  BY <1>1, <1>2, <1>5, <1>6 DEF PartMicrocode, PartRegisters
<1> QED BY <1>17, <1>18 DEF PartSaid, p, s

\* unpack_packet: a word for a quadword.
LEMMA UnpackS32Said ==
  ASSUME VifInv, VifInv', VifSaid, UnpackS32
  PROVE  VifSaid'
<1>1. /\ Unpacked(1, Four(Head_.imm)) /\ UNCHANGED sender /\ vif_fifo # <<>> /\ ~vif_halted
      /\ command.command = "UNPACK" /\ command.format = "S_32" /\ subpacket_count # 0
  BY DEF UnpackS32, ReadsData, Turn
<1>2. Take(1) /\ subpacket_count' = subpacket_count - 1 /\ vif' = vif /\ UNCHANGED vif_halted
  BY <1>1 DEF Unpacked
<1>3. ASSUME NEW k \in Nat, InPacket(k), Contiguous, CycleSaid(k), Said[k] \in VuState,
             PartSaid(Said[k], vif_stream[k])
      PROVE  PartSaid(Said[k], vif_stream[k])'
  <2> DEFINE p == vif_stream[k]
             t == TakenOf(p)
  <2>1. /\ t + 1 \in 1 .. Len(p.body) /\ t \in Nat /\ Head_.imm = Values(p)[t + 1]
        /\ p.body \in Seq(Word)
    BY <1>1, <1>3, NextDatum, DataHere
  <2>2. /\ command = p.head /\ Len(p.body) = Expected(p.head) /\ p.head \in Word
    BY <1>1, <1>3, DataHere DEF DataCommands
  <2>3. PartUnpack(Said[k], p)
    BY <1>3 DEF PartSaid
  <2> HIDE DEF p, t
  <2>4. PerQuadword(command) = 1 /\ PerQuadword(p.head) = 1
    BY <1>1, <2>2 DEF PerQuadword
  <2>5. p.head.num \in Nat /\ Len(p.body) = p.head.num
    BY <1>1, <2>2, VifSizesAssumption DEF Expected, Word
  <2>6. qwords_written \in Nat
    BY DEF VifInv, VifTypeOK
  <2>7. t = qwords_written
    <3>1. t = PerQuadword(p.head) * qwords_written
      BY <1>1, <2>2, <2>3 DEF PartUnpack, t
    <3> QED BY <2>4, <2>6, <3>1
  <2>8. Quadwords(p)[t + 1] = Four(Head_.imm)
    <3>1. Quadwords(p) = [q \in 1 .. p.head.num |-> Four(p.body[q].imm)]
      BY <1>1, <2>2 DEF Quadwords
    <3>2. Values(p)[t + 1] = p.body[t + 1].imm
      <4>1. DOMAIN p.body = 1 .. Len(p.body)
        BY <2>1
      <4> QED BY <2>1, <4>1 DEF Values
    <3>3. t + 1 \in 1 .. p.head.num
      BY <2>1, <2>5
    <3>4. Quadwords(p)[t + 1] = Four(p.body[t + 1].imm)
      BY <3>1, <3>3
    <3> QED BY <2>1, <3>2, <3>4
  <2>9. Unpacked(PerQuadword(command), Four(Head_.imm))
    BY <1>1, <2>4
  <2> QED BY <1>1, <1>3, <2>7, <2>8, <2>9, UnpackedSaid DEF p
<1>4. 1 \in Nat /\ 1 <= Len(vif_fifo) /\ command.command \in DataCommands
  <2>1. vif_fifo \in Seq(Word)
    BY DEF VifInv, VifTypeOK
  <2> QED BY <1>1, <2>1 DEF DataCommands
<1> QED BY <1>1, <1>2, <1>3, <1>4, DataSaid

\* unpack_packet: four words for a quadword.
LEMMA UnpackV4Said ==
  ASSUME VifInv, VifInv', VifSaid, UnpackV4
  PROVE  VifSaid'
<1> DEFINE qword == [i \in 1 .. 4 |-> vif_fifo[i].imm]
<1>1. /\ Unpacked(4, qword) /\ UNCHANGED sender /\ ~vif_halted /\ Len(vif_fifo) >= 4
      /\ command.command = "UNPACK" /\ command.format = "V4_32" /\ subpacket_count # 0
  BY DEF UnpackV4, ReadsData, Turn
<1>2. Take(4) /\ subpacket_count' = subpacket_count - 4 /\ vif' = vif /\ UNCHANGED vif_halted
  BY <1>1 DEF Unpacked
<1>3. ASSUME NEW k \in Nat, InPacket(k), Contiguous, CycleSaid(k), Said[k] \in VuState,
             PartSaid(Said[k], vif_stream[k])
      PROVE  PartSaid(Said[k], vif_stream[k])'
  <2> DEFINE p == vif_stream[k]
             t == TakenOf(p)
  <2>1. /\ t \in Nat /\ t + subpacket_count = Len(p.body) /\ subpacket_count \in Nat
        /\ command = p.head /\ Len(p.body) = Expected(p.head) /\ p.head \in Word /\ Len(vif_fifo) \in Nat
        /\ \A i \in 1 .. Len(vif_fifo) : i <= subpacket_count => vif_fifo[i] = p.body[t + i]
    BY <1>1, <1>3, DataHere DEF DataCommands
  <2>2. 4 <= subpacket_count
    BY <1>1, QuadwordAwaited
  <2>3. PartUnpack(Said[k], p)
    BY <1>3 DEF PartSaid
  <2> HIDE DEF p, t
  <2>4. PerQuadword(command) = 4 /\ PerQuadword(p.head) = 4
    BY <1>1, <2>1 DEF PerQuadword
  <2>5. p.head.num \in Nat /\ Len(p.body) = 4 * p.head.num
    BY <1>1, <2>1, VifSizesAssumption DEF Expected, Word
  <2>6. qwords_written \in Nat
    BY DEF VifInv, VifTypeOK
  <2>7. t = 4 * qwords_written
    <3>1. t = PerQuadword(p.head) * qwords_written
      BY <1>1, <2>1, <2>3 DEF PartUnpack, t
    <3> QED BY <2>4, <2>6, <3>1
  <2>8. Quadwords(p)[qwords_written + 1] = qword
    <3> DEFINE q == qwords_written
    <3>1. Quadwords(p) = [j \in 1 .. p.head.num |-> [i \in 1 .. 4 |-> p.body[4 * (j - 1) + i].imm]]
      BY <1>1, <2>1 DEF Quadwords
    <3>2. q + 1 \in 1 .. p.head.num
      BY <2>1, <2>2, <2>5, <2>6, <2>7
    <3>3. Quadwords(p)[q + 1] = [i \in 1 .. 4 |-> p.body[4 * ((q + 1) - 1) + i].imm]
      <4> HIDE DEF q
      <4> QED BY <3>1, <3>2
    <3>4. \A i \in 1 .. 4 : vif_fifo[i].imm = p.body[4 * ((q + 1) - 1) + i].imm
      <4>1. SUFFICES ASSUME NEW i \in 1 .. 4 PROVE vif_fifo[i] = p.body[4 * ((q + 1) - 1) + i]
        OBVIOUS
      <4>2. i \in 1 .. Len(vif_fifo) /\ i <= subpacket_count
        BY <1>1, <2>1, <2>2
      <4>3. 4 * ((q + 1) - 1) + i = t + i
        BY <2>6, <2>7
      <4> QED BY <2>1, <4>2, <4>3
    <3> HIDE DEF q
    <3> QED BY <3>3, <3>4 DEF q
  <2>9. Unpacked(PerQuadword(command), qword)
    BY <1>1, <2>4
  <2> HIDE DEF qword
  <2> QED BY <1>1, <1>3, <2>8, <2>9, UnpackedSaid DEF p
<1>4. 4 \in Nat /\ 4 <= Len(vif_fifo) /\ command.command \in DataCommands
  <2>1. Len(vif_fifo) \in Nat
    BY DEF VifInv, VifTypeOK
  <2> QED BY <1>1, <2>1 DEF DataCommands
<1> HIDE DEF qword
<1> QED BY <1>1, <1>2, <1>3, <1>4, DataSaid

\* The VIF's state is one that packets can leave.
LEMMA ResultsType ==
  ASSUME VifTypeOK
  PROVE  Results(data, code, vif) \in VuState
BY DEF VifTypeOK, VifRegs, Results, VuState

\* process_command: a command whose data follow has changed nothing yet.
LEMMA AnnouncedSaid ==
  ASSUME VifInv, VifInv', VifSaid, ReadsCommand(Commands), Take(1), command' = Head_,
         Head_.command \in DataCommands, subpacket_count' = Expected(Head_),
         UNCHANGED <<vif, data, code, vif_halted, sender>>,
         Head_.command = "MPG" => address' = 2 * Head_.imm,
         Head_.command = "UNPACK" => address' = Head_.imm /\ qwords_written' = 0
  PROVE  VifSaid'
<1>1. PICK k \in 1 .. Len(vif_stream) : AtPacket(k) /\ Head_ = vif_stream[k].head
  BY CommandRead
<1>2. ~vif_halted /\ vif_fifo # <<>> /\ vif_stream \in VifStreams /\ VifTypeOK /\ VifWaits
  BY DEF ReadsCommand, Turn, VifInv, VifTypeOK
<1>3. vif'.tops = 0 /\ Contiguous' = Contiguous
  BY SenderUnchanged DEF VifSaid
<1>4. CASE ~Contiguous
  BY <1>3, <1>4 DEF VifSaid
<1>5. CASE Contiguous
  <2> DEFINE p == vif_stream[k]
             s == Said[k]
  <2>1. CycleSaid(k) /\ Results(data, code, vif) = s /\ s \in VuState
    <3>1. k \in Nat
      BY <1>1, <1>2, VifStreamHere
    <3> QED BY <1>1, <1>2, <1>5, <3>1, ResultsType DEF VifSaid, SaidAt
  <2>2. /\ Len(p.body) = Expected(p.head) /\ p.head \in Word /\ Len(p.body) \in Nat
        /\ StartOf(k + 1) = StartOf(k) + 1 + Len(p.body) /\ StartOf(k) \in Nat
    <3>1. Len(vif_stream) \in Nat
      BY <1>2, VifStreamHere
    <3>2. k \in 1 .. Len(vif_stream) + 1
      BY <3>1
    <3> QED BY <1>1, <1>2, <3>2, VifStreamHere
  <2>3. Consumed \in Nat /\ Consumed' = Consumed + 1 /\ Consumed = StartOf(k)
    <3>1. 1 \in Nat /\ 1 <= Len(vif_fifo)
      <4>1. vif_fifo \in Seq(Word)
        BY <1>2 DEF VifTypeOK
      <4> QED BY <1>2, <4>1
    <3> QED BY <1>1, <1>2, <3>1, TakenInv DEF AtPacket
  <2>4. Consumed' \in Nat /\ Consumed' + subpacket_count' = StartOf(k + 1)
    BY <1>1, <2>2, <2>3
  <2>5. p' = p /\ s' = s
    BY SenderUnchanged
  <2>6. /\ data' = s.data /\ code' = s.code /\ vif'.mask = s.mask /\ vif'.rn = s.rn /\ vif'.cn = s.cn
        /\ vif'.base = s.base
    BY <2>1 DEF Results
  <2>7. p.head.command \in DataCommands /\ Head_ = p.head
    BY <1>1
  <2> HIDE DEF p, s
  <2>8. TakenOf(p)' = 0
    BY <2>2, <2>5, <2>7 DEF TakenOf
  <2>9. /\ s.data \in [0 .. VuQwords - 1 -> [1 .. 4 -> Nat]] /\ s.code \in [0 .. 4 * VuQwords - 1 -> Nat]
        /\ s.rn \in [1 .. 4 -> Nat] /\ s.cn \in [1 .. 4 -> Nat] /\ p.head.imm \in Nat
    BY <2>1, <2>2 DEF VuState, VuData, VuCode, Word
  <2>10. PartUnpack(s, p)'
    <3>1. CASE p.head.command = "UNPACK"
      <4>1. data' = PutFirst(s.data, p.head.imm, Quadwords(p), qwords_written)'
        <5>1. PutFirst(s.data, p.head.imm, Quadwords(p)', 0) = s.data
          BY <2>9, PutNone
        <5>2. qwords_written' = 0 /\ s'.data = s.data /\ p'.head.imm = p.head.imm
          BY <2>5, <2>7, <3>1
        <5>3. PutFirst(s.data, p.head.imm, Quadwords(p), qwords_written)'
                = PutFirst(s.data, p.head.imm, Quadwords(p)', 0)
          BY <5>2 DEF PutFirst
        <5> QED BY <2>6, <5>1, <5>3
      <4>2. TakenOf(p)' = (PerQuadword(p.head) * qwords_written)'
        BY <2>7, <2>8, <3>1 DEF PerQuadword
      <4>3. address' = p'.head.imm + qwords_written'
        BY <2>5, <2>7, <2>9, <3>1
      <4> QED BY <2>5, <3>1, <4>1, <4>2, <4>3 DEF PartUnpack
    <3>2. CASE p.head.command # "UNPACK"
      BY <2>5, <2>6, <3>2 DEF PartUnpack
    <3> QED BY <3>1, <3>2
  <2>11. PartMicrocode(s, p)'
    <3>1. CASE p.head.command = "MPG"
      <4>1. code' = PutFirst(s.code, 2 * p.head.imm, Values(p), TakenOf(p))'
        <5>1. PutFirst(s.code, 2 * p.head.imm, Values(p)', 0) = s.code
          BY <2>9, PutNone
        <5>2. s'.code = s.code /\ p'.head.imm = p.head.imm
          BY <2>5
        <5>3. PutFirst(s.code, 2 * p.head.imm, Values(p), TakenOf(p))'
                = PutFirst(s.code, 2 * p.head.imm, Values(p)', 0)
          BY <2>8, <5>2 DEF PutFirst
        <5> QED BY <2>6, <5>1, <5>3
      <4>2. address' = 2 * p'.head.imm + TakenOf(p)'
        BY <2>5, <2>7, <2>8, <2>9, <3>1
      <4> QED BY <2>5, <3>1, <4>1, <4>2 DEF PartMicrocode
    <3>2. CASE p.head.command # "MPG"
      BY <2>5, <2>6, <3>2 DEF PartMicrocode
    <3> QED BY <3>1, <3>2
  <2>12. PartRegisters(s, p)'
    <3>1. \A values : \A old \in [1 .. 4 -> Nat] : RowFirst(old, values, 0) = old
      BY DEF RowFirst
    <3>2. /\ RowFirst(s.rn, Values(p), TakenOf(p))' = s.rn
          /\ RowFirst(s.cn, Values(p), TakenOf(p))' = s.cn
      <4>1. RowFirst(s.rn, Values(p)', 0) = s.rn /\ RowFirst(s.cn, Values(p)', 0) = s.cn
        BY <2>9, <3>1
      <4> QED BY <2>5, <2>8, <4>1 DEF RowFirst
    <3>3. ~ (p.head.command = "STMASK" /\ subpacket_count' = 0)
      BY <2>7 DEF Expected
    <3> QED BY <2>5, <2>6, <3>2, <3>3 DEF PartRegisters
  <2>13. PartSaid(s, p)'
    BY <2>10, <2>11, <2>12 DEF PartSaid
  <2> QED BY <1>3, <2>1, <2>4, <2>7, <2>13, PartGoesOn DEF p, s
<1> QED BY <1>4, <1>5

\* process_command: a command with data behind it, other than UNPACK.
LEMMA AnnounceSaid ==
  ASSUME VifInv, VifInv', VifSaid, Announce
  PROVE  VifSaid'
<1>1. /\ ReadsCommand(Commands) /\ Head_.command \in DataCommands /\ Take(1) /\ command' = Head_
      /\ UNCHANGED <<vif, data, code, vif_halted, sender>> /\ subpacket_count' = Expected(Head_)
      /\ Head_.command = "MPG" => address' = 2 * Head_.imm
      /\ Head_.command # "UNPACK"
  BY DEF Announce, ReadsCommand, Turn, Commands, DataCommands, memory
<1> QED BY <1>1, AnnouncedSaid

\* process_unpack: TOPS is zero for ever.
LEMMA AnnounceUnpackSaid ==
  ASSUME VifInv, VifInv', VifSaid, AnnounceUnpack
  PROVE  VifSaid'
<1>1. /\ ReadsCommand(Commands) /\ Head_.command \in DataCommands /\ Take(1) /\ command' = Head_
      /\ UNCHANGED <<vif, data, code, vif_halted, sender>> /\ subpacket_count' = Expected(Head_)
      /\ Head_.command = "UNPACK" /\ vif_fifo # <<>> /\ qwords_written' = 0
      /\ address' = Head_.imm + (IF Head_.flg THEN vif.tops ELSE 0)
  BY DEF AnnounceUnpack, ReadsCommand, Turn, Commands, DataCommands, memory
<1>2. Head_.imm \in Nat
  <2>1. Head_ \in Word
    BY <1>1, FrontIs DEF VifInv
  <2> QED BY <2>1 DEF Word
<1>3. address' = Head_.imm
  BY <1>1, <1>2 DEF VifSaid
<1> QED BY <1>1, <1>3, AnnouncedSaid

\* process_command: a command that carries its operand.
LEMMA ImmediateSaid ==
  ASSUME VifInv, VifInv', VifSaid, Immediate
  PROVE  VifSaid'
<1>1. /\ ReadsCommand(Commands) /\ Take(1) /\ UNCHANGED sender /\ vif_fifo # <<>> /\ ~vif_halted
      /\ Head_.command \in Immediates /\ subpacket_count' = 0
      /\ data' = data /\ code' = code /\ UNCHANGED vif_halted
  BY DEF Immediate, ReadsCommand, Turn, Commands, memory
<1>2. PICK k \in 1 .. Len(vif_stream) : AtPacket(k) /\ Head_ = vif_stream[k].head
  BY <1>1, CommandRead
<1>3. vif_stream \in VifStreams /\ VifTypeOK /\ VifWaits /\ vif \in VifRegs /\ Head_ \in Word
  BY <1>1, FrontIs DEF VifInv, VifTypeOK
<1>4. /\ Said' = Said /\ Contiguous' = Contiguous /\ vif_stream' = vif_stream
      /\ (\A i : StartOf(i)' = StartOf(i)) /\ (\A i, j : LastCycle(i, j)' = LastCycle(i, j))
  BY <1>1, SenderUnchanged
<1> DEFINE p == vif_stream[k]
           s == Said[k]
           h == Head_
           n == Len(vif_stream)
<1>5. /\ vif'.tops = 0 /\ vif'.mask = vif.mask /\ vif'.rn = vif.rn /\ vif'.cn = vif.cn
      /\ vif'.cl = IF h.command = "STCYCL" THEN h.cl ELSE vif.cl
      /\ vif'.base = IF h.command = "BASE" THEN h.imm ELSE IF h.command = "OFFSET" THEN 0 ELSE vif.base
  <2>1. vif' = CASE h.command = "STCYCL" -> [vif EXCEPT !.cl = h.cl, !.wl = h.wl]
                 [] h.command = "OFFSET" -> [vif EXCEPT !.ofst = h.imm, !.base = vif.tops]
                 [] h.command = "BASE"   -> [vif EXCEPT !.base = h.imm]
                 [] h.command = "ITOP"   -> [vif EXCEPT !.itop = h.imm]
                 [] h.command = "STMOD"  -> [vif EXCEPT !.mode = h.imm]
                 [] h.command = "MARK"   -> [vif EXCEPT !.mark = h.imm]
                 [] OTHER                -> vif
    BY DEF Immediate
  <2>2. vif.tops = 0
    BY DEF VifSaid
  <2> HIDE DEF h
  <2>3. CASE h.command = "STCYCL"
    BY <1>3, <2>1, <2>2, <2>3 DEF VifRegs
  <2>4. CASE h.command = "OFFSET"
    BY <1>3, <2>1, <2>2, <2>4 DEF VifRegs
  <2>5. CASE h.command = "BASE"
    BY <1>3, <2>1, <2>2, <2>5 DEF VifRegs
  <2>6. CASE h.command = "ITOP"
    BY <1>3, <2>1, <2>2, <2>6 DEF VifRegs
  <2>7. CASE h.command = "STMOD"
    BY <1>3, <2>1, <2>2, <2>7 DEF VifRegs
  <2>8. CASE h.command = "MARK"
    BY <1>3, <2>1, <2>2, <2>8 DEF VifRegs
  <2>9. CASE h.command \notin {"STCYCL", "OFFSET", "BASE", "ITOP", "STMOD", "MARK"}
    BY <1>3, <2>1, <2>2, <2>9 DEF VifRegs
  <2> QED BY <2>3, <2>4, <2>5, <2>6, <2>7, <2>8, <2>9
<1>6. /\ Len(p.body) = 0 /\ StartOf(k + 1) = StartOf(k) + 1 + Len(p.body) /\ StartOf(k) \in Nat
      /\ n \in Nat /\ k \in Nat
  <2>1. n \in Nat
    BY <1>3, VifStreamHere
  <2>2. k \in 1 .. n + 1
    BY <2>1
  <2> QED BY <1>1, <1>2, <1>3, <2>1, <2>2, VifStreamHere
<1>7. Consumed \in Nat /\ Consumed' = Consumed + 1 /\ Consumed = StartOf(k)
  <2>1. 1 \in Nat /\ 1 <= Len(vif_fifo)
    <3>1. vif_fifo \in Seq(Word)
      BY <1>3 DEF VifTypeOK
    <3> QED BY <1>1, <3>1
  <2> QED BY <1>1, <1>2, <1>3, <2>1, TakenInv DEF AtPacket
<1>8. SUFFICES ASSUME Contiguous, NEW j \in Nat PROVE SaidAt(j)' /\ SaidIn(j)'
  BY <1>4, <1>5 DEF VifSaid
<1>9. CycleSaid(k) /\ Results(data, code, vif) = s
  BY <1>1, <1>2, <1>6, <1>8 DEF VifSaid, SaidAt
<1>10. SaidIn(j)'
  BY <1>1 DEF SaidIn, InPacket
<1>11. SaidAt(j)'
  <2>1. SUFFICES ASSUME AtPacket(j)' PROVE CycleSaid(j)' /\ (Results(data, code, vif) = Said[j])'
    BY DEF SaidAt
  <2>2. j = k + 1
    <3>1. j \in 1 .. n + 1 /\ Consumed' = StartOf(j)
      BY <1>4, <2>1 DEF AtPacket
    <3>2. k + 1 \in 1 .. n + 1
      BY <1>6
    <3>3. StartOf(j) = StartOf(k + 1)
      BY <1>6, <1>7, <3>1
    <3> QED BY <1>3, <3>1, <3>2, <3>3, StartsGrow
  <2>3. CycleSaid(k + 1)'
    <3>1. SUFFICES ASSUME NEW i \in 1 .. (k + 1) - 1, LastCycle(i, k + 1)
                   PROVE  vif'.cl = vif_stream[i].head.cl
      BY <1>4 DEF CycleSaid
    <3>2. CASE i = k
      BY <1>2, <1>5, <3>1, <3>2 DEF LastCycle
    <3>3. CASE i # k
      <4>1. i \in 1 .. k - 1 /\ k \in i + 1 .. (k + 1) - 1
        BY <1>6, <3>3
      <4>2. LastCycle(i, k) /\ h.command # "STCYCL"
        BY <1>2, <1>6, <3>1, <4>1 DEF LastCycle
      <4> QED BY <1>5, <1>9, <4>1, <4>2 DEF CycleSaid
    <3> QED BY <3>2, <3>3
  <2>4. (Results(data, code, vif) = Said[k + 1])'
    <3>1. Said[k + 1] = Meaning(s, p)
      BY <1>3, SaidSteps
    <3>2. s = [data |-> data, code |-> code, mask |-> vif.mask, rn |-> vif.rn, cn |-> vif.cn, base |-> vif.base]
      BY <1>9 DEF Results
    <3> DEFINE t == [data |-> data, code |-> code, mask |-> vif.mask, rn |-> vif.rn, cn |-> vif.cn,
                     base |-> vif'.base]
    <3>3. Results(data', code', vif') = t
      BY <1>1, <1>5 DEF Results
    <3>4. Meaning(s, p) = IF h.command = "BASE" THEN [s EXCEPT !.base = h.imm]
                          ELSE IF h.command = "OFFSET" THEN [s EXCEPT !.base = 0] ELSE s
      BY <1>1, <1>2 DEF Meaning, Immediates
    <3> HIDE DEF p, s, h
    <3>5. Meaning(s, p) = t
      BY <1>5, <3>2, <3>4
    <3> QED BY <1>4, <3>1, <3>3, <3>5
  <2> QED BY <2>2, <2>3, <2>4
<1> QED BY <1>10, <1>11

\* A step that takes nothing changes nothing of what was said.
LEMMA NothingSaid ==
  ASSUME VifSaid, Consumed' = Consumed,
         UNCHANGED <<parser, vif, memory, vif_halted, vif_stream, vif_resets, vif_origin>>
  PROVE  VifSaid'
<1>1. /\ Said' = Said /\ Contiguous' = Contiguous /\ vif_stream' = vif_stream
      /\ (\A i : StartOf(i)' = StartOf(i)) /\ (\A i, j : LastCycle(i, j)' = LastCycle(i, j))
  BY DEF Said, Contiguous, StartOf, Wire, LastCycle
<1>2. /\ command' = command /\ subpacket_count' = subpacket_count /\ address' = address
      /\ qwords_written' = qwords_written /\ data' = data /\ code' = code /\ vif' = vif
      /\ vif_halted' = vif_halted
  BY DEF parser, memory
<1>3. ASSUME NEW k \in Nat PROVE SaidAt(k)' = SaidAt(k) /\ SaidIn(k)' = SaidIn(k)
  <2>1. AtPacket(k)' = AtPacket(k) /\ InPacket(k)' = InPacket(k)
    BY <1>1, <1>2 DEF AtPacket, InPacket
  <2>2. CycleSaid(k)' = CycleSaid(k)
    BY <1>1, <1>2 DEF CycleSaid
  <2>3. PartSaid(Said[k], vif_stream[k])' = PartSaid(Said[k], vif_stream[k])
    BY <1>1, <1>2 DEF PartSaid, PartUnpack, PartMicrocode, PartRegisters, TakenOf, PutFirst, RowFirst,
       Values, Quadwords, PerQuadword
  <2>4. (Results(data, code, vif) = Said[k])' = (Results(data, code, vif) = Said[k])
    BY <1>1, <1>2 DEF Results
  <2>5. (Said[k] \in VuState)' = (Said[k] \in VuState)
    BY <1>1 DEF VuState, VuData, VuCode
  <2> QED BY <2>1, <2>2, <2>3, <2>4, <2>5 DEF SaidAt, SaidIn
<1> QED BY <1>1, <1>2, <1>3 DEF VifSaid

\* At the beginning of a stream nothing was said.
SaidAtStart == VifAtStart /\ vif.tops = 0 /\ vif_origin = Results(data, code, vif)

\* Nothing said, nothing done.
LEMMA SaidAtStartHolds == SaidAtStart => VifSaid
<1> SUFFICES ASSUME SaidAtStart PROVE VifSaid
  OBVIOUS
<1>1. VifAtStart /\ vif.tops = 0 /\ vif_origin = Results(data, code, vif)
  BY DEF SaidAtStart
<1>2. vif_stream \in VifStreams /\ subpacket_count = 0 /\ vif_sent = 0 /\ Len(vif_fifo) = 0
  <2>1. Len(<<>>) = 0
    OBVIOUS
  <2> QED BY <1>1, <2>1 DEF VifAtStart
<1>3. Consumed = 0
  BY <1>2 DEF Consumed
<1>4. ASSUME NEW k \in Nat, AtPacket(k) PROVE CycleSaid(k) /\ Results(data, code, vif) = Said[k]
  <2>1. StartOf(1) = 0 /\ Len(vif_stream) \in Nat
    BY <1>2, VifStreamHere
  <2>2. k \in 1 .. Len(vif_stream) + 1 /\ StartOf(k) = StartOf(1) /\ 1 \in 1 .. Len(vif_stream) + 1
    BY <1>3, <1>4, <2>1 DEF AtPacket
  <2>3. k = 1
    BY <1>2, <2>2, StartsGrow
  <2>4. CycleSaid(1)
    BY DEF CycleSaid
  <2> QED BY <1>1, <1>2, <2>3, <2>4, SaidSteps
<1>5. ASSUME NEW k \in Nat PROVE ~InPacket(k)
  BY <1>2 DEF InPacket
<1> QED BY <1>1, <1>4, <1>5 DEF VifSaid, SaidAt, SaidIn

\* The VIF has said nothing when it begins.
LEMMA VifInitSaid ==
  ASSUME VifInit
  PROVE  VifSaid
<1>1. PICK c \in Garbage : vif = [ResetRegs EXCEPT !.cl = c[1], !.wl = c[2]]
  BY DEF VifInit
<1>2. /\ vif.tops = 0 /\ vif.mask = ResetRegs.mask /\ vif.rn = ResetRegs.rn /\ vif.cn = ResetRegs.cn
      /\ vif.base = ResetRegs.base
  BY <1>1 DEF ResetRegs
<1>3. vif_origin = Results(data, code, vif)
  BY <1>2 DEF VifInit, Results
<1>4. VifAtStart
  BY VifInitAtStart
<1> QED BY <1>2, <1>3, <1>4, SaidAtStartHolds DEF SaidAtStart

\* reset: what was said before counts for nothing.
LEMMA VifResetSaid ==
  ASSUME VifInv, Reset
  PROVE  VifSaid'
<1>1. VifAtStart'
  BY ResetRegsType DEF Reset, VifAtStart, VifInv, VifTypeOK, memory
<1>2. (vif.tops = 0)' /\ (vif_origin = Results(data, code, vif))'
  BY DEF Reset, ResetRegs, Results, memory
<1>3. SaidAtStart'
  BY <1>1, <1>2 DEF SaidAtStart
<1>4. SaidAtStart' => VifSaid'
  BY SaidAtStartHolds, PTL
<1> QED BY <1>3, <1>4

\* A command the VIF gives up at.
LEMMA UnimplementedSaid ==
  ASSUME VifSaid, Unimplemented
  PROVE  VifSaid'
BY DEF Unimplemented, Halt, VifSaid

\* Every step keeps what was said.
THEOREM VifSaidInvariant == VifSpec => []VifSaid
<1>1. VifInit => VifSaid
  BY VifInitSaid
<1>2. VifInv /\ VifInv' /\ VifSaid /\ [VifNext]_vifVars => VifSaid'
  <2> SUFFICES ASSUME VifInv, VifInv', VifSaid, [VifNext]_vifVars PROVE VifSaid'
    OBVIOUS
  <2>1. CASE VifSends
    <3>1. 2 \in Nat /\ 4 \in Nat
      OBVIOUS
    <3>2. Consumed' = Consumed
      BY <2>1, <3>1, FeedInv, StoreInv DEF VifSends
    <3>3. UNCHANGED <<parser, vif, memory, vif_halted, vif_stream, vif_resets, vif_origin>>
      BY <2>1 DEF VifSends, Feed, Store
    <3> QED BY <3>2, <3>3, NothingSaid
  <2>2. CASE Reset
    BY <2>2, VifResetSaid
  <2>3. CASE VifTick
    <3>1. UNCHANGED <<parser, vif, memory, vif_halted, vif_stream, vif_resets, vif_origin>>
      BY <2>3 DEF VifTick, sender
    <3>2. Consumed' = Consumed
      BY <2>3 DEF VifTick, sender, Consumed
    <3> QED BY <3>1, <3>2, NothingSaid
  <2>4. CASE VifTurn
    <3>1. CASE Spin
      <4>1. UNCHANGED <<parser, vif, memory, vif_halted, vif_stream, vif_resets, vif_origin>>
        BY <3>1 DEF Spin, ReadsData, Turn, sender
      <4>2. Consumed' = Consumed
        BY <3>1 DEF Spin, ReadsData, Turn, sender, Consumed
      <4> QED BY <4>1, <4>2, NothingSaid
    <3> QED BY <2>4, <3>1, ImmediateSaid, AnnounceSaid, AnnounceUnpackSaid, UnimplementedSaid, SetMaskSaid,
          SetRowSaid, MicrocodeSaid, UnpackS32Said, UnpackV4Said DEF VifTurn
  <2>5. CASE UNCHANGED vifVars
    <3>1. UNCHANGED <<parser, vif, memory, vif_halted, vif_stream, vif_resets, vif_origin>>
      BY <2>5 DEF vifVars, sender
    <3>2. Consumed' = Consumed
      BY <2>5 DEF vifVars, sender, Consumed
    <3> QED BY <3>1, <3>2, NothingSaid
  <2> QED BY <2>1, <2>2, <2>3, <2>4, <2>5 DEF VifNext
<1> QED BY <1>1, <1>2, VifInvariant, PTL DEF VifSpec

\* When VIF::tick has taken so many packets, its registers and the memories of the VU hold
\* exactly what these packets say, for every stream of packets that keep within the
\* memories and within CL.
THEOREM VifStaysFaithful == VifSpec => []VifFaithful
<1>1. VifInv /\ VifSaid => VifFaithful
  <2> SUFFICES ASSUME VifInv, VifSaid, subpacket_count = 0, ~vif_halted, Contiguous,
                      NEW k \in 1 .. Len(vif_stream) + 1, Consumed = StartOf(k)
               PROVE  Results(data, code, vif) = Said[k]
    BY DEF VifFaithful
  <2>1. Len(vif_stream) \in Nat
    BY VifStreamHere DEF VifInv, VifTypeOK
  <2>2. k \in Nat /\ AtPacket(k)
    BY <2>1 DEF AtPacket
  <2> QED BY <2>2 DEF VifSaid, SaidAt
<1> QED BY <1>1, VifInvariant, VifSaidInvariant, PTL

-----------------------------------------------------------------------------
(* The pixels of a transfer to VRAM: the tables of write_psmct32           *)
(* interleave the bits of the coordinates, so that no two pixels of a      *)
(* buffer share a place.                                                   *)

\* The bits of a number that a page's tables look at.
LEMMA BitsOf ==
  ASSUME NEW v \in Nat
  PROVE  /\ \A w \in {1, 2, 4, 8, 16, 32} : Bit(v, w) \in {0, 1}
         /\ v % 8 = Bit(v, 1) + 2 * Bit(v, 2) + 4 * Bit(v, 4)
         /\ (v \div 8) % 8 = Bit(v, 8) + 2 * Bit(v, 16) + 4 * Bit(v, 32)
         /\ (v \div 8) % 4 = Bit(v, 8) + 2 * Bit(v, 16)
         /\ v % 2 = Bit(v, 1)
         /\ v = 64 * (v \div 64) + 8 * ((v \div 8) % 8) + (v % 8)
         /\ v = 32 * (v \div 32) + 8 * ((v \div 8) % 4) + 2 * ((v \div 2) % 4) + (v % 2)
<1>1. \A w \in {1, 2, 4, 8, 16, 32} : Bit(v, w) \in {0, 1}
  BY DEF Bit
<1>2. v % 8 = Bit(v, 1) + 2 * Bit(v, 2) + 4 * Bit(v, 4)
  BY DEF Bit
<1>3. (v \div 8) % 8 = Bit(v, 8) + 2 * Bit(v, 16) + 4 * Bit(v, 32)
  BY DEF Bit
<1>4. (v \div 8) % 4 = Bit(v, 8) + 2 * Bit(v, 16)
  BY DEF Bit
<1>5. v % 2 = Bit(v, 1)
  BY DEF Bit
<1>6. v = 64 * (v \div 64) + 8 * ((v \div 8) % 8) + (v % 8)
  OBVIOUS
<1>7. v = 32 * (v \div 32) + 8 * ((v \div 8) % 4) + 2 * ((v \div 2) % 4) + (v % 2)
  OBVIOUS
<1> QED BY <1>1, <1>2, <1>3, <1>4, <1>5, <1>6, <1>7

\* The tables of write_psmct32 interleave the bits of x and of y.
LEMMA BlocksInterleave ==
  ASSUME NEW a \in {0, 1}, NEW b \in {0, 1}, NEW c \in {0, 1}, NEW d \in {0, 1}, NEW e \in {0, 1}
  PROVE  Blocks32[(b + 2 * d) + 1][(a + 2 * c + 4 * e) + 1] = a + 2 * b + 4 * c + 8 * d + 16 * e
BY DEF Blocks32

\* And within a column.
LEMMA PixelsInterleave ==
  ASSUME NEW a \in {0, 1}, NEW b \in {0, 1}, NEW c \in {0, 1}, NEW d \in {0, 1}
  PROVE  Pixels[b + 1][(a + 2 * c + 4 * d) + 1] = a + 2 * b + 4 * c + 8 * d
BY DEF Pixels

\* A number below two powers has one decomposition into digits.
LEMMA OneDecomposition ==
  ASSUME NEW w \in Nat, NEW a1 \in 0 .. w - 1, NEW a2 \in 0 .. w - 1, NEW b1 \in Nat, NEW b2 \in Nat,
         a1 + b1 * w = a2 + b2 * w
  PROVE  a1 = a2 /\ b1 = b2
<1>1. ASSUME NEW p \in Nat, NEW q \in Nat, p < q PROVE q * w >= p * w + w
  <2>1. PICK d \in Nat : q = p + 1 + d
    <3>1. q - p - 1 \in Nat /\ q = p + 1 + (q - p - 1)
      BY <1>1
    <3> QED BY <3>1
  <2>2. q * w = p * w + w + d * w
    BY <2>1
  <2>3. d * w \in Nat /\ p * w \in Nat
    OBVIOUS
  <2> QED BY <2>2, <2>3
<1>2. ~ (b1 < b2)
  <2> SUFFICES ASSUME b1 < b2 PROVE FALSE
    OBVIOUS
  <2>1. b2 * w >= b1 * w + w
    BY <1>1
  <2>2. b1 * w \in Nat /\ b2 * w \in Nat
    OBVIOUS
  <2> QED BY <2>1, <2>2
<1>3. ~ (b2 < b1)
  <2> SUFFICES ASSUME b2 < b1 PROVE FALSE
    OBVIOUS
  <2>1. b1 * w >= b2 * w + w
    BY <1>1
  <2>2. b1 * w \in Nat /\ b2 * w \in Nat
    OBVIOUS
  <2> QED BY <2>1, <2>2
<1>4. b1 = b2
  BY <1>2, <1>3
<1>5. b1 * w \in Nat
  OBVIOUS
<1> QED BY <1>4, <1>5

\* The n-th of the pixels that lie in rows of w has its column and its row.
LEMMA ColumnAndRow ==
  ASSUME NEW w \in Nat \ {0}, NEW n \in Nat
  PROVE  n % w \in 0 .. w - 1 /\ n \div w \in Nat /\ (n % w) + (n \div w) * w = n
OBVIOUS

\* Where write_psmct32 puts a pixel in its page.
LEMMA Offset32Interleaves ==
  ASSUME NEW x \in Nat, NEW y \in Nat, NEW m
  PROVE  Offset32(x, y) = PlaceOf(m, x, y)[2]
<1>1. Blocks32[((y \div 8) % 4) + 1][((x \div 8) % 8) + 1]
        = Bit(x, 8) + 2 * Bit(y, 8) + 4 * Bit(x, 16) + 8 * Bit(y, 16) + 16 * Bit(x, 32)
  <2>1. /\ (y \div 8) % 4 = Bit(y, 8) + 2 * Bit(y, 16)
        /\ (x \div 8) % 8 = Bit(x, 8) + 2 * Bit(x, 16) + 4 * Bit(x, 32)
    BY BitsOf
  <2>2. /\ Bit(x, 8) \in {0, 1} /\ Bit(x, 16) \in {0, 1} /\ Bit(x, 32) \in {0, 1}
        /\ Bit(y, 8) \in {0, 1} /\ Bit(y, 16) \in {0, 1}
    BY BitsOf
  <2>3. Blocks32[(Bit(y, 8) + 2 * Bit(y, 16)) + 1][(Bit(x, 8) + 2 * Bit(x, 16) + 4 * Bit(x, 32)) + 1]
          = Bit(x, 8) + 2 * Bit(y, 8) + 4 * Bit(x, 16) + 8 * Bit(y, 16) + 16 * Bit(x, 32)
    BY <2>2, BlocksInterleave
  <2> QED BY <2>1, <2>3
<1>2. Pixels[(y % 2) + 1][(x % 8) + 1] = Bit(x, 1) + 2 * Bit(y, 1) + 4 * Bit(x, 2) + 8 * Bit(x, 4)
  <2>1. y % 2 = Bit(y, 1) /\ x % 8 = Bit(x, 1) + 2 * Bit(x, 2) + 4 * Bit(x, 4)
    BY BitsOf
  <2>2. Bit(x, 1) \in {0, 1} /\ Bit(x, 2) \in {0, 1} /\ Bit(x, 4) \in {0, 1} /\ Bit(y, 1) \in {0, 1}
    BY BitsOf
  <2>3. Pixels[Bit(y, 1) + 1][(Bit(x, 1) + 2 * Bit(x, 2) + 4 * Bit(x, 4)) + 1]
          = Bit(x, 1) + 2 * Bit(y, 1) + 4 * Bit(x, 2) + 8 * Bit(x, 4)
    BY <2>2, PixelsInterleave
  <2> QED BY <2>1, <2>3
<1> QED BY <1>1, <1>2 DEF Offset32, PlaceOf

\* Two pixels of a buffer have one place only if they are one pixel, for every width.
LEMMA PlacesApart ==
  ASSUME NEW m, m.page \in Nat, m.width \in Nat,
         NEW x \in Nat, NEW y \in Nat, NEW x2 \in Nat, NEW y2 \in Nat,
         x \div 64 < m.width, x2 \div 64 < m.width, PlaceOf(m, x, y) = PlaceOf(m, x2, y2)
  PROVE  x = x2 /\ y = y2
<1>1. x \div 64 = x2 \div 64 /\ y \div 32 = y2 \div 32
  <2>1. PICK w \in Nat, p \in Nat, a \in Nat, b \in Nat, c \in Nat, d \in Nat :
          /\ w = m.width /\ p = m.page
          /\ a = x \div 64 /\ b = y \div 32 /\ c = x2 \div 64 /\ d = y2 \div 32
    OBVIOUS
  <2>2. p + a + b * w = p + c + d * w
    BY <2>1 DEF PlaceOf
  <2>3. b * w \in Nat /\ d * w \in Nat
    OBVIOUS
  <2>4. a + b * w = c + d * w
    BY <2>2, <2>3
  <2>5. a \in 0 .. w - 1 /\ c \in 0 .. w - 1
    BY <2>1
  <2>6. a = c /\ b = d
    BY <2>4, <2>5, OneDecomposition
  <2> QED BY <2>1, <2>6
<1>2a. /\ Bit(x, 1) \in {0, 1} /\ Bit(x, 2) \in {0, 1} /\ Bit(x, 4) \in {0, 1}
       /\ Bit(x, 8) \in {0, 1} /\ Bit(x, 16) \in {0, 1} /\ Bit(x, 32) \in {0, 1}
  BY BitsOf
<1>2b. /\ Bit(x2, 1) \in {0, 1} /\ Bit(x2, 2) \in {0, 1} /\ Bit(x2, 4) \in {0, 1}
       /\ Bit(x2, 8) \in {0, 1} /\ Bit(x2, 16) \in {0, 1} /\ Bit(x2, 32) \in {0, 1}
  BY BitsOf
<1>2c. /\ Bit(y, 1) \in {0, 1} /\ Bit(y, 8) \in {0, 1} /\ Bit(y, 16) \in {0, 1}
  BY BitsOf
<1>2d. /\ Bit(y2, 1) \in {0, 1} /\ Bit(y2, 8) \in {0, 1} /\ Bit(y2, 16) \in {0, 1}
  BY BitsOf
<1>2e. (y \div 2) % 4 \in 0 .. 3 /\ (y2 \div 2) % 4 \in 0 .. 3
  OBVIOUS
<1>3. 256 * (Bit(x, 8) + 2 * Bit(y, 8) + 4 * Bit(x, 16) + 8 * Bit(y, 16) + 16 * Bit(x, 32))
        + 64 * ((y \div 2) % 4)
        + 4 * (Bit(x, 1) + 2 * Bit(y, 1) + 4 * Bit(x, 2) + 8 * Bit(x, 4))
      = 256 * (Bit(x2, 8) + 2 * Bit(y2, 8) + 4 * Bit(x2, 16) + 8 * Bit(y2, 16) + 16 * Bit(x2, 32))
          + 64 * ((y2 \div 2) % 4)
          + 4 * (Bit(x2, 1) + 2 * Bit(y2, 1) + 4 * Bit(x2, 2) + 8 * Bit(x2, 4))
  BY DEF PlaceOf
<1>4. /\ Bit(x, 1) = Bit(x2, 1) /\ Bit(x, 2) = Bit(x2, 2) /\ Bit(x, 4) = Bit(x2, 4)
      /\ Bit(x, 8) = Bit(x2, 8) /\ Bit(x, 16) = Bit(x2, 16) /\ Bit(x, 32) = Bit(x2, 32)
      /\ Bit(y, 1) = Bit(y2, 1) /\ Bit(y, 8) = Bit(y2, 8) /\ Bit(y, 16) = Bit(y2, 16)
      /\ (y \div 2) % 4 = (y2 \div 2) % 4
  <2>1. PICK a \in {0, 1}, b \in {0, 1}, c \in {0, 1}, d \in {0, 1}, e \in {0, 1},
              f \in {0, 1}, g \in {0, 1}, h \in {0, 1}, i \in {0, 1}, k \in 0 .. 3 :
         /\ a = Bit(x, 8) /\ b = Bit(y, 8) /\ c = Bit(x, 16) /\ d = Bit(y, 16) /\ e = Bit(x, 32)
         /\ f = Bit(x, 1) /\ g = Bit(y, 1) /\ h = Bit(x, 2) /\ i = Bit(x, 4)
         /\ k = (y \div 2) % 4
    BY <1>2a, <1>2c, <1>2e
  <2>2. PICK a2 \in {0, 1}, b2 \in {0, 1}, c2 \in {0, 1}, d2 \in {0, 1}, e2 \in {0, 1},
              f2 \in {0, 1}, g2 \in {0, 1}, h2 \in {0, 1}, i2 \in {0, 1}, k2 \in 0 .. 3 :
         /\ a2 = Bit(x2, 8) /\ b2 = Bit(y2, 8) /\ c2 = Bit(x2, 16) /\ d2 = Bit(y2, 16) /\ e2 = Bit(x2, 32)
         /\ f2 = Bit(x2, 1) /\ g2 = Bit(y2, 1) /\ h2 = Bit(x2, 2) /\ i2 = Bit(x2, 4)
         /\ k2 = (y2 \div 2) % 4
    BY <1>2b, <1>2d, <1>2e
  <2>3. 256 * (a + 2 * b + 4 * c + 8 * d + 16 * e) + 64 * k + 4 * (f + 2 * g + 4 * h + 8 * i)
          = 256 * (a2 + 2 * b2 + 4 * c2 + 8 * d2 + 16 * e2) + 64 * k2 + 4 * (f2 + 2 * g2 + 4 * h2 + 8 * i2)
    BY <1>3, <2>1, <2>2
  <2>4. /\ a = a2 /\ b = b2 /\ c = c2 /\ d = d2 /\ e = e2
        /\ f = f2 /\ g = g2 /\ h = h2 /\ i = i2 /\ k = k2
    BY <2>3
  <2> QED BY <2>1, <2>2, <2>4
<1>5. \A v \in {x, x2} :
        v = 64 * (v \div 64) + 8 * (Bit(v, 8) + 2 * Bit(v, 16) + 4 * Bit(v, 32))
              + (Bit(v, 1) + 2 * Bit(v, 2) + 4 * Bit(v, 4))
  <2> SUFFICES ASSUME NEW v \in {x, x2}
               PROVE  v = 64 * (v \div 64) + 8 * (Bit(v, 8) + 2 * Bit(v, 16) + 4 * Bit(v, 32))
                            + (Bit(v, 1) + 2 * Bit(v, 2) + 4 * Bit(v, 4))
    OBVIOUS
  <2>1. v \in Nat
    OBVIOUS
  <2> QED BY <2>1, BitsOf
<1>6. \A v \in {y, y2} :
        v = 32 * (v \div 32) + 8 * (Bit(v, 8) + 2 * Bit(v, 16)) + 2 * ((v \div 2) % 4) + Bit(v, 1)
  <2> SUFFICES ASSUME NEW v \in {y, y2}
               PROVE  v = 32 * (v \div 32) + 8 * (Bit(v, 8) + 2 * Bit(v, 16)) + 2 * ((v \div 2) % 4) + Bit(v, 1)
    OBVIOUS
  <2>1. v \in Nat
    OBVIOUS
  <2> QED BY <2>1, BitsOf
<1>7. x = x2
  BY <1>1, <1>4, <1>5
<1>8. y = y2
  BY <1>1, <1>4, <1>6
<1> QED BY <1>7, <1>8

\* The buffer, of 32-bit pixels, that the registers name.
Destination == [page |-> regs["BITBLTBUF"][1] \div 32, width |-> regs["BITBLTBUF"][2]]

\* The registers name a buffer of 32-bit pixels and a rectangle that lies within its width.
TransferFits ==
  /\ regs["BITBLTBUF"][1] \in Nat /\ regs["BITBLTBUF"][2] \in Nat /\ regs["BITBLTBUF"][3] = PSMCT32
  /\ regs["TRXPOS"][1] \in Nat /\ regs["TRXPOS"][2] \in Nat /\ regs["TRXREG"][1] \in Nat \ {0}
  /\ regs["TRXPOS"][1] + regs["TRXREG"][1] <= 64 * regs["BITBLTBUF"][2]

\* GraphicsSynthesizer::write_hwreg and Page::write_psmct32 put the n-th pixel of a
\* transfer where the bits of its coordinates say, and no two pixels of a transfer in one
\* place, for every buffer and every rectangle within its width.
THEOREM TransferPlaces ==
  ASSUME TransferFits
  PROVE  /\ \A n \in Nat :
              Location(n) = PlaceOf(Destination, (n % regs["TRXREG"][1]) + regs["TRXPOS"][1],
                                    n \div regs["TRXREG"][1] + regs["TRXPOS"][2])
         /\ \A n1 \in Nat, n2 \in Nat : n1 # n2 => Location(n1) # Location(n2)
<1>1. PICK w \in Nat \ {0}, px \in Nat, py \in Nat, b \in Nat, bw \in Nat :
        /\ w = regs["TRXREG"][1] /\ px = regs["TRXPOS"][1] /\ py = regs["TRXPOS"][2]
        /\ b = regs["BITBLTBUF"][1] /\ bw = regs["BITBLTBUF"][2] /\ px + w <= 64 * bw
  BY DEF TransferFits
<1> DEFINE X(n) == (n % w) + px
           Y(n) == n \div w + py
<1>2. ASSUME NEW n \in Nat
      PROVE  /\ X(n) \in Nat /\ Y(n) \in Nat /\ X(n) \div 64 < bw
             /\ Location(n) = PlaceOf(Destination, X(n), Y(n))
  <2>1. n % w \in 0 .. w - 1 /\ n \div w \in Nat
    BY ColumnAndRow
  <2>2. X(n) \in Nat /\ Y(n) \in Nat /\ X(n) < 64 * bw
    BY <1>1, <2>1
  <2>3. X(n) \div 64 < bw /\ X(n) \div 64 \in Nat
    BY <2>2
  <2>4. (X(n) \div 64) % bw = X(n) \div 64
    <3>1. PICK q \in Nat : q = X(n) \div 64
      BY <2>3
    <3>2. q < bw
      BY <2>3, <3>1
    <3>3. q % bw = q
      BY <3>2
    <3> QED BY <3>1, <3>3
  <2>5. Offset32(X(n), Y(n)) = PlaceOf(Destination, X(n), Y(n))[2]
    BY <2>2, Offset32Interleaves
  <2>6. Location(n) = <<(b \div 32) + (X(n) \div 64) + (Y(n) \div 32) * bw, Offset32(X(n), Y(n))>>
    BY <1>1, <2>4 DEF Location, TransferFits
  <2>7. PlaceOf(Destination, X(n), Y(n)) =
          <<(b \div 32) + (X(n) \div 64) + (Y(n) \div 32) * bw, PlaceOf(Destination, X(n), Y(n))[2]>>
    BY <1>1 DEF PlaceOf, Destination
  <2> QED BY <2>2, <2>3, <2>5, <2>6, <2>7
<1>3. ASSUME NEW n1 \in Nat, NEW n2 \in Nat, Location(n1) = Location(n2) PROVE n1 = n2
  <2>1. Destination.page \in Nat /\ Destination.width = bw /\ Destination.width \in Nat
    BY <1>1 DEF Destination
  <2>2. PlaceOf(Destination, X(n1), Y(n1)) = PlaceOf(Destination, X(n2), Y(n2))
    BY <1>2, <1>3
  <2>3. X(n1) = X(n2) /\ Y(n1) = Y(n2)
    <3>1. /\ X(n1) \in Nat /\ Y(n1) \in Nat /\ X(n1) \div 64 < Destination.width
          /\ X(n2) \in Nat /\ Y(n2) \in Nat /\ X(n2) \div 64 < Destination.width
      <4> HIDE DEF X, Y
      <4> QED BY <1>2, <2>1
    <3> HIDE DEF X, Y
    <3> QED BY <3>1, <2>1, <2>2, PlacesApart
  <2>4. n1 % w = n2 % w /\ n1 \div w = n2 \div w
    <3>1. PICK a \in Nat, b1 \in Nat, c \in Nat, d \in Nat :
            a = n1 % w /\ b1 = n1 \div w /\ c = n2 % w /\ d = n2 \div w
      <4>1. n1 % w \in Nat /\ n1 \div w \in Nat /\ n2 % w \in Nat /\ n2 \div w \in Nat
        BY ColumnAndRow
      <4> QED BY <4>1
    <3>2. a + px = c + px /\ b1 + py = d + py
      BY <2>3, <3>1
    <3>3. a = c /\ b1 = d
      BY <3>2
    <3> QED BY <3>1, <3>3
  <2>5. n1 = (n1 % w) + (n1 \div w) * w /\ n2 = (n2 % w) + (n2 \div w) * w
    BY ColumnAndRow
  <2> QED BY <2>4, <2>5
<1> QED BY <1>1, <1>2, <1>3

\* GraphicsSynthesizer::write_hwreg leaves each pixel of its 64 bits in the place of the
\* next pixel of the transfer, and overwrites no other place of VRAM.
THEOREM PixelsWritten ==
  ASSUME TransferFits, NEW s, s.dir = HostLocal, s.halted = FALSE, s.written \in Nat,
         NEW pixels \in Seq(Nat)
  PROVE  LET written == Written(s.written, pixels)
         IN /\ HwReg(s, pixels).vram = Over(written, s.vram)
            /\ DOMAIN written = {Location(s.written + i - 1) : i \in DOMAIN pixels}
            /\ \A i \in DOMAIN pixels : written[Location(s.written + i - 1)] = pixels[i]
<1> DEFINE At(i) == Location(s.written + i - 1)
           Latest(l) == Max({i \in DOMAIN pixels : At(i) = l})
           written == [l \in {At(i) : i \in DOMAIN pixels} |-> pixels[Latest(l)]]
<1>1. HwReg(s, pixels).vram = Over(Written(s.written, pixels), s.vram)
  BY DEF HwReg, TransferFits
<1>2. ASSUME NEW i \in DOMAIN pixels PROVE Latest(At(i)) = i
  <2>1. \A j \in DOMAIN pixels : At(j) = At(i) => j = i
    <3> SUFFICES ASSUME NEW j \in DOMAIN pixels, j # i PROVE At(j) # At(i)
      OBVIOUS
    <3>1. s.written + i - 1 \in Nat /\ s.written + j - 1 \in Nat /\ s.written + i - 1 # s.written + j - 1
      OBVIOUS
    <3> QED BY <3>1, TransferPlaces
  <2>2. {j \in DOMAIN pixels : At(j) = At(i)} = {i}
    <3> HIDE DEF At
    <3> QED BY <2>1
  <2>3. Max({i}) = i
    <3>1. i \in Nat
      OBVIOUS
    <3> QED BY <3>1 DEF Max
  <2> HIDE DEF At
  <2> QED BY <2>2, <2>3
<1>3. /\ DOMAIN written = {At(i) : i \in DOMAIN pixels}
      /\ \A i \in DOMAIN pixels : written[At(i)] = pixels[i]
  <2> HIDE DEF At, Latest
  <2> QED BY <1>2
<1>4. Written(s.written, pixels) = written
  BY DEF Written
<1> HIDE DEF Latest, written
<1> QED BY <1>1, <1>3, <1>4

-----------------------------------------------------------------------------
(* The notes of a program are true of the GS: the registers it knows, the  *)
(* vertices that wait for the rest of their figure, and the triangles the  *)
(* renderer was given for the figures that are complete.                   *)

FigureTriangles(st) == [k \in DOMAIN st.figures |-> Halves(st.figures[k])]

KnownAs(a) == \A r \in Stored : a.known[r] # <<>> => regs[r] = a.known[r]

\* The p-th vertex sent for a figure, and the last three of n.
Suits(f, p, v) == p > f.spare => IsCorner(f, p - f.spare, v)
WaitsAs(f, n, queue) ==
  /\ Len(queue) = IF n < 3 THEN n ELSE 3
  /\ \A i \in 1 .. Len(queue) : Suits(f, n - Len(queue) + i, queue[i])
QueuedAs(st, a) == WaitsAs(st.figures[a.figures + 1], a.vertices, vqueue)

\* The vertices of the triangle that ends with the n-th vertex.
Triple(vs, n) == {vs[n - i].vertex : i \in 0 .. 2}

\* The triangles of vs from the o-th vertex on are those of h, and no vertex is left over.
Triangulates(vs, o, h) ==
  Len(vs) = o + 3 * Len(h) /\ \A n \in 1 .. Len(h) : Triple(vs, o + 3 * n) = h[n]

HandedAs(st, a) ==
  origin.submitted \in Nat /\ Triangulates(submitted, origin.submitted, Upto(FigureTriangles(st), a.figures))

\* Stream and note, as far as figures go.
FiguresOf(st)  == st.figures \in Seq(FigureRecords)
DrawnAs(st, a) == KnownAs(a) /\ QueuedAs(st, a) /\ HandedAs(st, a)

\* A note is a record of these fields.
LEMMA NoteFields ==
  ASSUME NEW st, NEW a \in Notes(st), FiguresOf(st)
  PROVE  /\ a.known \in [Stored \cup {"TRXDIR"} -> Seq(Nat)]
         /\ a.figures \in Nat /\ a.figures <= Len(st.figures) /\ Len(st.figures) \in Nat
         /\ a.vertices \in Nat /\ a.pixels \in Nat /\ a.sure \in BOOLEAN
<1>1. Len(st.figures) \in Nat
  BY DEF FiguresOf
<1> QED BY <1>1 DEF Notes

\* What a figure is.
LEMMA FigureFields ==
  ASSUME NEW f \in FigureRecords
  PROVE  /\ f.spare \in Nat /\ f.color \in Nat /\ Len(f.corners) \in Nat
         /\ \/ /\ f.kind = "triangle" /\ Len(f.corners) = 3 /\ Vertices(f) = f.spare + 3
               /\ \A c \in 1 .. 3 : f.corners[c] \in Int \X Int \X Int
            \/ /\ f.kind = "sprite" /\ Len(f.corners) = 2 /\ f.spare = 0 /\ Vertices(f) = 2
               /\ \A c \in 1 .. 2 : f.corners[c] \in Int \X Int
<1>1. CASE f \in [kind : {"triangle"}, corners : [1 .. 3 -> Int \X Int \X Int], color : Nat, spare : Nat]
  <2>1. /\ f.kind = "triangle" /\ f.corners \in [1 .. 3 -> Int \X Int \X Int]
        /\ f.color \in Nat /\ f.spare \in Nat
    BY <1>1
  <2>2. Len(f.corners) = 3
    BY <2>1
  <2> QED BY <2>1, <2>2 DEF Vertices
<1>2. CASE f \in [kind : {"sprite"}, corners : [1 .. 2 -> Int \X Int], color : Nat, spare : {0}]
  <2>1. f.kind = "sprite" /\ f.corners \in [1 .. 2 -> Int \X Int] /\ f.color \in Nat /\ f.spare = 0
    BY <1>2
  <2>2. Len(f.corners) = 2
    BY <2>1
  <2> QED BY <2>1, <2>2 DEF Vertices
<1> QED BY <1>1, <1>2 DEF FigureRecords

\* The triangles of a figure: one, or two.
LEMMA HalvesAre ==
  ASSUME NEW f \in FigureRecords
  PROVE  /\ f.kind = "triangle" =>
              Halves(f) = <<{[pos |-> f.corners[i], color |-> f.color] : i \in 1 .. 3}>>
         /\ f.kind = "sprite" =>
              LET C(i, j) == [pos |-> <<f.corners[i][1], f.corners[j][2], 0>>, color |-> 0]
              IN Halves(f) = <<{C(1, 1), C(2, 1), C(2, 2)}, {C(1, 1), C(1, 2), C(2, 2)}>>
BY DEF Halves

\* The triangles of a figure are sets of vertices.
LEMMA HalvesType ==
  ASSUME NEW f \in FigureRecords
  PROVE  Halves(f) \in Seq(SUBSET Vertex)
<1>1. CASE f.kind = "triangle"
  <2> DEFINE t == {[pos |-> f.corners[i], color |-> f.color] : i \in 1 .. 3}
  <2>1. t \in SUBSET Vertex
    <3>1. \A c \in 1 .. 3 : f.corners[c] \in Int \X Int \X Int
      BY <1>1, FigureFields
    <3>2. f.color \in Nat
      BY FigureFields
    <3> QED BY <3>1, <3>2 DEF Vertex
  <2>2. Halves(f) = <<t>>
    BY <1>1, HalvesAre
  <2> HIDE DEF t
  <2> QED BY <2>1, <2>2
<1>2. CASE f.kind = "sprite"
  <2> DEFINE C(i, j) == [pos |-> <<f.corners[i][1], f.corners[j][2], 0>>, color |-> 0]
             t == {C(1, 1), C(2, 1), C(2, 2)}
             s == {C(1, 1), C(1, 2), C(2, 2)}
  <2>1. \A i \in 1 .. 2, j \in 1 .. 2 : C(i, j) \in Vertex
    <3>1. \A c \in 1 .. 2 : f.corners[c] \in Int \X Int
      BY <1>2, FigureFields
    <3> QED BY <3>1 DEF Vertex
  <2>2. Halves(f) = <<t, s>>
    BY <1>2, HalvesAre
  <2>3. t \in SUBSET Vertex /\ s \in SUBSET Vertex
    <3>1. C(1, 1) \in Vertex /\ C(1, 2) \in Vertex /\ C(2, 1) \in Vertex /\ C(2, 2) \in Vertex
      BY <2>1
    <3> HIDE DEF C
    <3> QED BY <3>1
  <2> HIDE DEF t, s
  <2> QED BY <2>2, <2>3
<1> QED BY <1>1, <1>2, FigureFields

\* So are those of all figures.
LEMMA FigureTrianglesType ==
  ASSUME NEW st, FiguresOf(st)
  PROVE  /\ FigureTriangles(st) \in Seq(Seq(SUBSET Vertex)) /\ Len(FigureTriangles(st)) = Len(st.figures)
         /\ \A k \in 1 .. Len(st.figures) : FigureTriangles(st)[k] = Halves(st.figures[k])
<1>1. /\ DOMAIN st.figures = 1 .. Len(st.figures) /\ Len(st.figures) \in Nat
      /\ \A k \in 1 .. Len(st.figures) : st.figures[k] \in FigureRecords
  BY DEF FiguresOf
<1>2. \A k \in 1 .. Len(st.figures) : Halves(st.figures[k]) \in Seq(SUBSET Vertex)
  BY <1>1, HalvesType
<1> QED BY <1>1, <1>2 DEF FigureTriangles

\* The triangles of s are in u, so many vertices on.
SameTriples(u, d, s) == \A n \in 3 .. Len(s) : Triple(u, d + n) = Triple(s, n)

\* The triangles of two sequences are in their concatenation.
LEMMA TripleConcat ==
  ASSUME NEW T, NEW s \in Seq(T), NEW t \in Seq(T)
  PROVE  SameTriples(s \o t, 0, s) /\ SameTriples(s \o t, Len(s), t)
<1>1. /\ Len(s) \in Nat /\ Len(t) \in Nat
      /\ \A i \in 1 .. Len(s) : (s \o t)[i] = s[i]
      /\ \A i \in 1 .. Len(t) : (s \o t)[Len(s) + i] = t[i]
  BY ConcatParts
<1> DEFINE u == s \o t
<1> HIDE DEF u
<1>2. ASSUME NEW n \in 3 .. Len(s) PROVE Triple(u, 0 + n) = Triple(s, n)
  <2>1. \A i \in 0 .. 2 : n - i \in 1 .. Len(s) /\ 0 + n - i = n - i
    BY <1>1
  <2>2. \A i \in 0 .. 2 : u[0 + n - i] = s[n - i]
    BY <1>1, <2>1 DEF u
  <2> QED BY <2>2 DEF Triple
<1>3. ASSUME NEW n \in 3 .. Len(t) PROVE Triple(u, Len(s) + n) = Triple(t, n)
  <2>1. \A i \in 0 .. 2 : n - i \in 1 .. Len(t) /\ Len(s) + n - i = Len(s) + (n - i)
    BY <1>1
  <2>2. \A i \in 0 .. 2 : u[Len(s) + n - i] = t[n - i]
    BY <1>1, <2>1 DEF u
  <2> QED BY <2>2 DEF Triple
<1> QED BY <1>2, <1>3 DEF u, SameTriples

\* An account of triangles is carried on by more of them.
LEMMA TriplesAppend ==
  ASSUME NEW T, NEW s \in Seq(T), NEW t \in Seq(T), NEW V, NEW u \in Seq(V), NEW h \in Seq(V), NEW o \in Nat,
         Triangulates(s, o, u), Triangulates(t, 0, h)
  PROVE  Triangulates(s \o t, o, u \o h)
<1> DEFINE w == u \o h
           after == s \o t
<1>1. /\ Len(w) = Len(u) + Len(h) /\ Len(u) \in Nat /\ Len(h) \in Nat
      /\ \A n \in 1 .. Len(u) : w[n] = u[n]
      /\ \A n \in 1 .. Len(h) : w[Len(u) + n] = h[n]
  BY ConcatParts
<1>2. Len(after) = Len(s) + Len(t)
  BY ConcatParts
<1>3. SameTriples(after, 0, s) /\ SameTriples(after, Len(s), t)
  BY TripleConcat
<1>4. /\ Len(s) = o + 3 * Len(u) /\ \A n \in 1 .. Len(u) : Triple(s, o + 3 * n) = u[n]
      /\ Len(t) = 3 * Len(h) /\ \A n \in 1 .. Len(h) : Triple(t, 0 + 3 * n) = h[n]
  BY <1>1 DEF Triangulates
<1> HIDE DEF w, after
<1>5. Len(after) = o + 3 * Len(w)
  BY <1>1, <1>2, <1>4
<1>6. ASSUME NEW n \in 1 .. Len(w) PROVE Triple(after, o + 3 * n) = w[n]
  <2>1. CASE n <= Len(u)
    <3>1. n \in 1 .. Len(u) /\ o + 3 * n \in 3 .. Len(s) /\ 0 + (o + 3 * n) = o + 3 * n
      BY <1>1, <1>4, <2>1
    <3>2. Triple(after, 0 + (o + 3 * n)) = Triple(s, o + 3 * n)
      BY <1>3, <3>1 DEF SameTriples
    <3> QED BY <1>1, <1>4, <3>1, <3>2
  <2>2. CASE n > Len(u)
    <3>1. PICK m \in 1 .. Len(h) : n = Len(u) + m
      <4>1. n - Len(u) \in 1 .. Len(h) /\ n = Len(u) + (n - Len(u))
        BY <1>1, <2>2
      <4> QED BY <4>1
    <3>2. 3 * m \in 3 .. Len(t) /\ o + 3 * n = Len(s) + 3 * m /\ 0 + 3 * m = 3 * m
      BY <1>1, <1>4, <3>1
    <3>3. Triple(after, Len(s) + 3 * m) = Triple(t, 3 * m)
      BY <1>3, <3>2 DEF SameTriples
    <3>4. Triple(t, 0 + 3 * m) = h[m]
      BY <1>4
    <3> QED BY <1>1, <3>1, <3>2, <3>3, <3>4
  <2> QED BY <1>1, <2>1, <2>2
<1> QED BY <1>5, <1>6 DEF w, after, Triangulates

\* The triangles of one figure more are handed to the renderer.
LEMMA HandedMore ==
  ASSUME NEW st, NEW a \in Notes(st), NEW b, FiguresOf(st), HandedAs(st, a), submitted \in Seq(Tested),
         a.figures < Len(st.figures), b.figures = a.figures + 1,
         NEW new \in Seq(Tested), Triangulates(new, 0, Halves(st.figures[a.figures + 1])),
         submitted' = submitted \o new, origin' = origin
  PROVE  HandedAs(st, b)'
<1> DEFINE F == FigureTriangles(st)
           n == a.figures
           u == Upto(F, n)
           h == Halves(st.figures[n + 1])
           w == Upto(F, n + 1)
           o == origin.submitted
<1>1. n \in Nat /\ n < Len(st.figures) /\ n + 1 \in 1 .. Len(st.figures) /\ n <= Len(st.figures)
  BY NoteFields
<1>2. F \in Seq(Seq(SUBSET Vertex)) /\ Len(F) = Len(st.figures) /\ F[n + 1] = h
  BY <1>1, FigureTrianglesType
<1>3. w = u \o h
  <2> HIDE DEF F, n, h
  <2> QED BY <1>1, <1>2, UptoNext
<1>4. u \in Seq(SUBSET Vertex) /\ h \in Seq(SUBSET Vertex)
  <2>1. u \in Seq(SUBSET Vertex)
    <3> HIDE DEF F, n
    <3> QED BY <1>1, <1>2, UptoType
  <2>2. st.figures[n + 1] \in FigureRecords
    BY <1>1 DEF FiguresOf
  <2> QED BY <2>1, <2>2, HalvesType
<1>5. o \in Nat /\ Triangulates(submitted, o, u) /\ Triangulates(new, 0, h)
  BY DEF HandedAs
<1>6. Upto(FigureTriangles(st), b.figures) = w
  OBVIOUS
<1> HIDE DEF u, w, h, F, n
<1>7. Triangulates(submitted \o new, o, u \o h)
  <2>1. submitted \in Seq(Tested) /\ new \in Seq(Tested)
    OBVIOUS
  <2> QED BY <1>4, <1>5, <2>1, TriplesAppend
<1>8. (origin.submitted)' = o /\ submitted' = submitted \o new
  OBVIOUS
<1> HIDE DEF o
<1> QED BY <1>3, <1>5, <1>6, <1>7, <1>8, Zenon DEF HandedAs

\* The tail of three.
LEMMA TailOfThree ==
  ASSUME NEW T, NEW q \in Seq(T), Len(q) = 3
  PROVE  Tail(q) \in Seq(T) /\ Len(Tail(q)) = 2 /\ \A i \in 1 .. 2 : Tail(q)[i] = q[i + 1]
<1>1. q # <<>>
  OBVIOUS
<1>2. /\ Tail(q) \in Seq(T) /\ Len(Tail(q)) = Len(q) - 1
      /\ \A i \in 1 .. Len(Tail(q)) : Tail(q)[i] = q[i + 1]
  BY <1>1, HeadTailProperties
<1> DEFINE t == Tail(q)
<1> HIDE DEF t
<1>3. /\ t \in Seq(T) /\ Len(t) = Len(q) - 1
      /\ \A i \in 1 .. Len(t) : t[i] = q[i + 1]
  BY <1>2 DEF t
<1>4. Len(t) = 2
  BY <1>3
<1>5. \A i \in 1 .. 2 : t[i] = q[i + 1]
  BY <1>3, <1>4, Zenon
<1> QED BY <1>3, <1>4, <1>5, Zenon DEF t

\* The queue holds the vertices of the figure sent last, when there is one more.
LEMMA QueueNext ==
  ASSUME NEW f \in FigureRecords, NEW n \in Nat, NEW q \in Seq(Vertex), WaitsAs(f, n, q),
         NEW v \in Vertex, Suits(f, n + 1, v)
  PROVE  LET queue == Append(IF Len(q) < 3 THEN q ELSE Tail(q), v)
         IN queue \in Seq(Vertex) /\ WaitsAs(f, n + 1, queue)
<1> DEFINE kept  == IF Len(q) < 3 THEN q ELSE Tail(q)
           queue == Append(kept, v)
           m     == Len(queue)
<1>1. /\ Len(q) = (IF n < 3 THEN n ELSE 3)
      /\ \A i \in 1 .. Len(q) : Suits(f, n - Len(q) + i, q[i])
  BY DEF WaitsAs
<1>2. /\ kept \in Seq(Vertex) /\ Len(kept) = (IF n < 3 THEN n ELSE 2)
      /\ \A i \in 1 .. Len(kept) : kept[i] = IF n < 3 THEN q[i] ELSE q[i + 1]
  <2>1. Len(q) \in Nat
    OBVIOUS
  <2>2. CASE n < 3
    <3>1. kept = q /\ Len(q) = n
      BY <1>1, <2>2
    <3> HIDE DEF kept
    <3> QED BY <2>2, <3>1
  <2>3. CASE ~(n < 3)
    <3>1. Len(q) = 3 /\ kept = Tail(q)
      BY <1>1, <2>3
    <3>2. Tail(q) \in Seq(Vertex) /\ Len(Tail(q)) = 2 /\ \A i \in 1 .. 2 : Tail(q)[i] = q[i + 1]
      BY <3>1, TailOfThree
    <3> HIDE DEF kept
    <3> QED BY <2>3, <3>1, <3>2
  <2> QED BY <2>2, <2>3
<1> HIDE DEF kept
<1>3. /\ queue \in Seq(Vertex) /\ m = Len(kept) + 1 /\ queue[m] = v
      /\ \A i \in 1 .. Len(kept) : queue[i] = kept[i]
  <2>1. kept \in Seq(Vertex)
    BY <1>2
  <2> QED BY <2>1
<1> HIDE DEF queue, m
<1>4. m = IF n + 1 < 3 THEN n + 1 ELSE 3
  BY <1>2, <1>3
<1>5. ASSUME NEW i \in 1 .. m PROVE Suits(f, n + 1 - m + i, queue[i])
  <2>1. CASE i = m
    <3>1. n + 1 - m + i = n + 1
      BY <1>4, <2>1
    <3> QED BY <1>3, <2>1, <3>1
  <2>2. CASE i # m /\ n < 3
    <3>1. i \in 1 .. Len(q) /\ i \in 1 .. Len(kept) /\ n + 1 - m + i = n - Len(q) + i
      BY <1>1, <1>2, <1>3, <1>4, <2>2
    <3>2. queue[i] = q[i]
      BY <1>2, <1>3, <2>2, <3>1
    <3> QED BY <1>1, <3>1, <3>2
  <2>3. CASE i # m /\ ~(n < 3)
    <3>1. i + 1 \in 1 .. Len(q) /\ i \in 1 .. Len(kept) /\ n + 1 - m + i = n - Len(q) + (i + 1)
      BY <1>1, <1>2, <1>3, <1>4, <2>3
    <3>2. queue[i] = q[i + 1]
      BY <1>2, <1>3, <2>3, <3>1
    <3> QED BY <1>1, <3>1, <3>2
  <2> QED BY <2>1, <2>2, <2>3
<1>6. WaitsAs(f, n + 1, queue)
  BY <1>4, <1>5 DEF WaitsAs, m
<1> QED BY <1>3, <1>6 DEF queue, kept

\* What process_vertex makes of the queue, for the primitives there are.
LEMMA CompletedIs ==
  ASSUME NEW q
  PROVE  /\ regs["PRIM"][1] % 8 = Triangle => Completed(q) = IF Len(q) = 3 THEN q ELSE <<>>
         /\ regs["PRIM"][1] % 8 = Sprite => Completed(q) = IF Len(q) = 2 THEN SpriteCorners(q[1], q[2]) ELSE <<>>
<1>1. Triangle # Sprite
  BY DEF Triangle, Sprite
<1> QED BY <1>1, Zenon DEF Completed

\* Vertices as they are recorded.
Recorded(whole) == [i \in DOMAIN whole |-> [vertex |-> whole[i], test |-> depth]]

\* The three vertices that wait when a triangle is complete are its corners.
LEMMA TriangleHanded ==
  ASSUME NEW f \in FigureRecords, f.kind = "triangle", NEW q \in Seq(Vertex), WaitsAs(f, Vertices(f), q)
  PROVE  Len(q) = 3 /\ Triangulates(Recorded(q), 0, Halves(f))
<1> DEFINE Corner(i) == [pos |-> f.corners[i], color |-> f.color]
<1>1. f.spare \in Nat /\ Vertices(f) = f.spare + 3
  BY FigureFields
<1>2. Len(q) = 3
  BY <1>1 DEF WaitsAs
<1>3. \A i \in 1 .. 3 : q[i] = Corner(i)
  <2> SUFFICES ASSUME NEW i \in 1 .. 3 PROVE q[i] = Corner(i)
    OBVIOUS
  <2> DEFINE p == Vertices(f) - Len(q) + i
  <2>1. p > f.spare /\ p - f.spare = i
    BY <1>1, <1>2
  <2>2. Suits(f, p, q[i])
    BY <1>2 DEF WaitsAs
  <2> HIDE DEF p
  <2>3. IsCorner(f, p - f.spare, q[i])
    BY <2>1, <2>2, Zenon DEF Suits
  <2>4. IsCorner(f, i, q[i])
    BY <2>1, <2>3
  <2> QED BY <2>4 DEF IsCorner
<1> DEFINE r == Recorded(q)
<1>4. Len(r) = 3 /\ \A i \in 1 .. 3 : r[i].vertex = Corner(i)
  <2> HIDE DEF Corner
  <2> QED BY <1>2, <1>3 DEF Recorded
<1>5. Triple(r, 3) = {Corner(i) : i \in 1 .. 3}
  <2>1. \A i \in 0 .. 2 : 3 - i \in 1 .. 3 /\ r[3 - i].vertex = Corner(3 - i)
    <3> HIDE DEF Corner, r
    <3> QED BY <1>4
  <2>2. \A j \in 1 .. 3 : 3 - j \in 0 .. 2 /\ 3 - (3 - j) = j
    OBVIOUS
  <2>3. Triple(r, 3) = {Corner(3 - i) : i \in 0 .. 2}
    <3> HIDE DEF Corner, r
    <3> QED BY <2>1 DEF Triple
  <2>4. {Corner(3 - i) : i \in 0 .. 2} = {Corner(i) : i \in 1 .. 3}
    <3> HIDE DEF Corner
    <3> QED BY <2>1, <2>2
  <2> QED BY <2>3, <2>4
<1>6. Halves(f) = <<{Corner(i) : i \in 1 .. 3}>>
  BY HalvesAre
<1>7. Triangulates(r, 0, Halves(f))
  <2> DEFINE t == {Corner(i) : i \in 1 .. 3}
             h == Halves(f)
  <2>1. h = <<t>> /\ Triple(r, 3) = t
    BY <1>5, <1>6
  <2> HIDE DEF t, h, r
  <2>2. Len(h) = 1 /\ h[1] = t /\ Len(r) = 0 + 3 * Len(h)
    BY <1>4, <2>1
  <2>3. \A n \in 1 .. Len(h) : n = 1 /\ 0 + 3 * n = 3
    BY <2>2
  <2>4. \A n \in 1 .. Len(h) : Triple(r, 0 + 3 * n) = h[n]
    BY <2>1, <2>2, <2>3
  <2>5. Triangulates(r, 0, h)
    BY <2>2, <2>4 DEF Triangulates
  <2> QED BY <2>5 DEF h
<1> QED BY <1>2, <1>7

\* The two triangles of a sprite are the halves of its rectangle.
LEMMA SpriteHanded ==
  ASSUME NEW f \in FigureRecords, f.kind = "sprite", NEW q \in Seq(Vertex), WaitsAs(f, Vertices(f), q)
  PROVE  /\ Len(q) = 2 /\ Triangulates(Recorded(SpriteCorners(q[1], q[2])), 0, Halves(f))
         /\ SpriteCorners(q[1], q[2]) # <<>>
<1> DEFINE C(i, j) == [pos |-> <<f.corners[i][1], f.corners[j][2], 0>>, color |-> 0]
           whole == SpriteCorners(q[1], q[2])
           r == Recorded(whole)
           s == {C(1, 1), C(2, 1), C(2, 2)}
           t == {C(1, 1), C(1, 2), C(2, 2)}
           h == Halves(f)
<1>1. f.spare = 0 /\ Vertices(f) = 2
  BY FigureFields
<1>2. Len(q) = 2
  BY <1>1 DEF WaitsAs
<1>3. \A i \in 1 .. 2 : q[i].pos[1] = f.corners[i][1] /\ q[i].pos[2] = f.corners[i][2]
  <2> SUFFICES ASSUME NEW i \in 1 .. 2 PROVE q[i].pos[1] = f.corners[i][1] /\ q[i].pos[2] = f.corners[i][2]
    OBVIOUS
  <2> DEFINE p == Vertices(f) - Len(q) + i
  <2>1. p > f.spare /\ p - f.spare = i
    BY <1>1, <1>2
  <2>2. Suits(f, p, q[i])
    BY <1>2 DEF WaitsAs
  <2> HIDE DEF p
  <2>3. IsCorner(f, p - f.spare, q[i])
    BY <2>1, <2>2, Zenon DEF Suits
  <2>4. IsCorner(f, i, q[i])
    BY <2>1, <2>3
  <2> QED BY <2>4 DEF IsCorner
<1>4. whole = <<C(2, 1), C(2, 2), C(1, 1), C(2, 2), C(1, 2), C(1, 1)>>
  <2> DEFINE At(x, y) == [pos |-> <<x.pos[1], y.pos[2], 0>>, color |-> 0]
  <2>1. /\ q[1].pos[1] = f.corners[1][1] /\ q[1].pos[2] = f.corners[1][2]
        /\ q[2].pos[1] = f.corners[2][1] /\ q[2].pos[2] = f.corners[2][2]
    BY <1>3
  <2>2. At(q[1], q[1]) = C(1, 1) /\ At(q[1], q[2]) = C(1, 2) /\ At(q[2], q[1]) = C(2, 1) /\ At(q[2], q[2]) = C(2, 2)
    BY <2>1
  <2>3. whole = <<At(q[2], q[1]), At(q[2], q[2]), At(q[1], q[1]), At(q[2], q[2]), At(q[1], q[2]), At(q[1], q[1])>>
    BY DEF SpriteCorners
  <2> HIDE DEF At, C
  <2> QED BY <2>2, <2>3
<1>5. h = <<s, t>>
  BY HalvesAre
<1> HIDE DEF C, h, whole
<1>6. Len(whole) = 6 /\ DOMAIN whole = 1 .. 6
  BY <1>4
<1>7. /\ Len(r) = 6 /\ r[1].vertex = C(2, 1) /\ r[2].vertex = C(2, 2) /\ r[3].vertex = C(1, 1)
      /\ r[4].vertex = C(2, 2) /\ r[5].vertex = C(1, 2) /\ r[6].vertex = C(1, 1)
  BY <1>4, <1>6 DEF Recorded
<1> HIDE DEF r
<1>8. Triple(r, 3) = {r[1].vertex, r[2].vertex, r[3].vertex} /\ Triple(r, 6) = {r[4].vertex, r[5].vertex, r[6].vertex}
  <2>1. 0 .. 2 = {0, 1, 2}
    OBVIOUS
  <2>2. 3 - 0 = 3 /\ 3 - 1 = 2 /\ 3 - 2 = 1 /\ 6 - 0 = 6 /\ 6 - 1 = 5 /\ 6 - 2 = 4
    OBVIOUS
  <2>3. Triple(r, 3) = {r[3 - 0].vertex, r[3 - 1].vertex, r[3 - 2].vertex}
    BY <2>1, Zenon DEF Triple
  <2>4. Triple(r, 6) = {r[6 - 0].vertex, r[6 - 1].vertex, r[6 - 2].vertex}
    BY <2>1, Zenon DEF Triple
  <2> QED BY <2>2, <2>3, <2>4
<1>9. Triple(r, 3) = s /\ Triple(r, 6) = t
  BY <1>7, <1>8
<1> HIDE DEF s, t
<1>10. Len(h) = 2 /\ h[1] = s /\ h[2] = t /\ Len(r) = 0 + 3 * Len(h)
  BY <1>5, <1>7
<1>11. ASSUME NEW n \in 1 .. Len(h) PROVE Triple(r, 0 + 3 * n) = h[n]
  <2>1. (n = 1 /\ 0 + 3 * n = 3) \/ (n = 2 /\ 0 + 3 * n = 6)
    BY <1>10
  <2> QED BY <1>9, <1>10, <2>1
<1>12. Triangulates(r, 0, h)
  BY <1>10, <1>11 DEF Triangulates
<1>13. whole # <<>>
  <2>1. DOMAIN whole # {}
    BY <1>6
  <2>2. DOMAIN <<>> = {}
    OBVIOUS
  <2> QED BY <2>1, <2>2, Zenon
<1> QED BY <1>2, <1>12, <1>13 DEF r, h, whole

\* A note by its fields.
NoteOf(known, figures, vertices, images, pixels, sure) ==
  [known |-> known, figures |-> figures, vertices |-> vertices, images |-> images, pixels |-> pixels, sure |-> sure]

\* Every note is one of those, and they are notes.
LEMMA NoteByFields ==
  ASSUME NEW st
  PROVE  /\ \A a \in Notes(st) : a = NoteOf(a.known, a.figures, a.vertices, a.images, a.pixels, a.sure)
         /\ \A k \in [Stored \cup {"TRXDIR"} -> Seq(Nat)], f \in 0 .. Len(st.figures), v \in Nat,
              i \in 0 .. Len(st.images), p \in Nat, s \in BOOLEAN : NoteOf(k, f, v, i, p, s) \in Notes(st)
         /\ \A a \in Notes(st) :
              /\ a.known \in [Stored \cup {"TRXDIR"} -> Seq(Nat)] /\ a.figures \in 0 .. Len(st.figures)
              /\ a.vertices \in Nat /\ a.images \in 0 .. Len(st.images) /\ a.pixels \in Nat
              /\ a.sure \in BOOLEAN
<1> DEFINE K == [Stored \cup {"TRXDIR"} -> Seq(Nat)]
           F == 0 .. Len(st.figures)
           I == 0 .. Len(st.images)
<1>1. Notes(st) = [known : K, figures : F, vertices : Nat, images : I, pixels : Nat, sure : BOOLEAN]
  BY DEF Notes
<1> HIDE DEF K, F, I
<1>2. \A a \in Notes(st) : a = NoteOf(a.known, a.figures, a.vertices, a.images, a.pixels, a.sure)
  BY <1>1 DEF NoteOf
<1>3. \A k \in K, f \in F, v \in Nat, i \in I, p \in Nat, s \in BOOLEAN : NoteOf(k, f, v, i, p, s) \in Notes(st)
  BY <1>1 DEF NoteOf
<1>4. \A a \in Notes(st) : /\ a.known \in K /\ a.figures \in F /\ a.vertices \in Nat /\ a.images \in I
                            /\ a.pixels \in Nat /\ a.sure \in BOOLEAN
  BY <1>1
<1> QED BY <1>2, <1>3, <1>4 DEF K, F, I

\* What a program notes of a vertex it sends.
LEMMA VertexSentFields ==
  ASSUME NEW st, NEW a \in Notes(st), FiguresOf(st), a.figures < Len(st.figures)
  PROVE  /\ VertexSent(st, a) \in Notes(st) /\ VertexSent(st, a).known = a.known
         /\ a.vertices + 1 = Vertices(st.figures[a.figures + 1]) =>
              VertexSent(st, a).figures = a.figures + 1 /\ VertexSent(st, a).vertices = 0
         /\ a.vertices + 1 # Vertices(st.figures[a.figures + 1]) =>
              VertexSent(st, a).figures = a.figures /\ VertexSent(st, a).vertices = a.vertices + 1
         /\ VertexSent(st, a).images = a.images /\ VertexSent(st, a).pixels = a.pixels
         /\ VertexSent(st, a).sure = a.sure
<1> DEFINE n == Vertices(st.figures[a.figures + 1])
           b == VertexSent(st, a)
           k == a.known
           f == a.figures
           v == a.vertices
           i == a.images
           p == a.pixels
           s == a.sure
<1>1. f + 1 \in 0 .. Len(st.figures) /\ v + 1 \in Nat /\ 0 \in Nat
  BY NoteFields
<1>2. a = NoteOf(k, f, v, i, p, s)
  BY NoteByFields
<1>3. /\ k \in [Stored \cup {"TRXDIR"} -> Seq(Nat)] /\ f \in 0 .. Len(st.figures)
      /\ i \in 0 .. Len(st.images) /\ p \in Nat /\ s \in BOOLEAN
  BY NoteByFields
<1>4. v + 1 = n => b = [a EXCEPT !.figures = @ + 1, !.vertices = 0]
  BY DEF VertexSent
<1>5. v + 1 # n => b = [a EXCEPT !.vertices = @ + 1]
  BY DEF VertexSent
<1> HIDE DEF n, b, k, f, v, i, p, s
<1>6. v + 1 = n => b = NoteOf(k, f + 1, 0, i, p, s)
  BY <1>2, <1>4 DEF NoteOf
<1>7. v + 1 # n => b = NoteOf(k, f, v + 1, i, p, s)
  BY <1>2, <1>5 DEF NoteOf
<1>8. v + 1 = n =>
         b \in Notes(st) /\ b.known = k /\ b.figures = f + 1 /\ b.vertices = 0 /\ b.images = i /\ b.pixels = p /\ b.sure = s
  <2>1. NoteOf(k, f + 1, 0, i, p, s) \in Notes(st)
    BY <1>1, <1>3, NoteByFields
  <2> QED BY <1>6, <2>1 DEF NoteOf
<1>9. v + 1 # n =>
         b \in Notes(st) /\ b.known = k /\ b.figures = f /\ b.vertices = v + 1 /\ b.images = i /\ b.pixels = p /\ b.sure = s
  <2>1. NoteOf(k, f, v + 1, i, p, s) \in Notes(st)
    BY <1>1, <1>3, NoteByFields
  <2> QED BY <1>7, <2>1 DEF NoteOf
<1> QED BY <1>8, <1>9 DEF n, b, k, f, v, i, p, s

\* The elements of a pair.
LEMMA BothOf ==
  ASSUME NEW T, NEW q \in Seq(T), Len(q) = 2
  PROVE  q[1] \in T /\ q[2] \in T
OBVIOUS

\* A vertex of a figure reaches the GS as the program noted.
LEMMA VertexNoted ==
  ASSUME NEW st, NEW a \in Notes(st), FiguresOf(st), GsTypeOK, DrawnAs(st, a),
         NEW register, NEW value \in Seq(Nat), Len(value) >= 3, VertexDue(st, a, register, value),
         ProcessVertex(value, register \in Kicks), origin' = origin
  PROVE  DrawnAs(st, VertexSent(st, a))'
<1> DEFINE f == st.figures[a.figures + 1]
           n == a.vertices + 1
           b == VertexSent(st, a)
           kick == register \in Kicks
           v == [pos   |-> <<value[1] - regs["XYOFFSET_1"][1], value[2] - regs["XYOFFSET_1"][2], value[3]>>,
                 color |-> regs["RGBAQ"][1]]
           queue == Append(IF Len(vqueue) < 3 THEN vqueue ELSE Tail(vqueue), v)
           whole == IF kick THEN Completed(queue) ELSE <<>>
<1>1. /\ vqueue' = IF whole = <<>> THEN queue ELSE <<>>
      /\ submitted' = submitted \o Recorded(whole)
      /\ regs' = regs
  BY DEF ProcessVertex, Recorded
<1>2. /\ a.figures \in Nat /\ a.figures < Len(st.figures) /\ f \in FigureRecords /\ n \in Nat /\ n >= 1
      /\ a.vertices \in Nat /\ n <= Vertices(f) /\ Vertices(f) \in Nat
  <2>1. a.figures < Len(st.figures) /\ n <= Vertices(f)
    BY DEF VertexDue
  <2>2. a.figures \in Nat /\ a.vertices \in Nat /\ Len(st.figures) \in Nat
    BY NoteFields
  <2>3. f \in FigureRecords
    BY <2>1, <2>2 DEF FiguresOf
  <2>4. Vertices(f) \in Nat
    <3> HIDE DEF f
    <3>1. f.spare \in Nat /\ (Vertices(f) = f.spare + 3 \/ Vertices(f) = 2)
      BY <2>3, FigureFields
    <3> QED BY <3>1
  <2> QED BY <2>1, <2>2, <2>3, <2>4
<1>3. v \in Vertex
  <2>1. /\ regs["XYOFFSET_1"] \in Seq(Nat) /\ Len(regs["XYOFFSET_1"]) >= 3
        /\ regs["RGBAQ"] \in Seq(Nat) /\ Len(regs["RGBAQ"]) >= 3
    BY DEF GsTypeOK, Stored
  <2>2. /\ value[1] \in Nat /\ value[2] \in Nat /\ value[3] \in Nat /\ regs["RGBAQ"][1] \in Nat
        /\ regs["XYOFFSET_1"][1] \in Nat /\ regs["XYOFFSET_1"][2] \in Nat
    BY <2>1, FirstFields
  <2> QED BY <2>2 DEF Vertex
<1>4. /\ regs["PRIM"] = a.known["PRIM"] /\ regs["RGBAQ"] = a.known["RGBAQ"]
      /\ regs["XYOFFSET_1"] = a.known["XYOFFSET_1"]
  <2>1. \A r \in {"PRIM", "RGBAQ", "XYOFFSET_1"} : a.known[r] # <<>>
    BY DEF VertexDue
  <2>2. \A r \in {"PRIM", "RGBAQ", "XYOFFSET_1"} : r \in Stored
    BY DEF Stored
  <2>3. \A r \in {"PRIM", "RGBAQ", "XYOFFSET_1"} : regs[r] = a.known[r]
    BY <2>1, <2>2 DEF DrawnAs, KnownAs
  <2> QED BY <2>3
<1>5. Suits(f, n, v)
  <2> DEFINE u == [pos   |-> <<value[1] - a.known["XYOFFSET_1"][1], value[2] - a.known["XYOFFSET_1"][2], value[3]>>,
                   color |-> a.known["RGBAQ"][1]]
  <2>1. n > f.spare => IsCorner(f, n - f.spare, u)
    BY Zenon DEF VertexDue
  <2>2. v = u
    BY <1>4
  <2> HIDE DEF u, v, f, n
  <2> QED BY <2>1, <2>2 DEF Suits
<1>6. /\ regs["PRIM"][1] % 8 = IF f.kind = "triangle" THEN Triangle ELSE Sprite
      /\ kick => n < Len(f.corners) \/ n = Vertices(f)
      /\ n = Vertices(f) => kick
  <2>1. /\ a.known["PRIM"][1] % 8 = IF f.kind = "triangle" THEN Triangle ELSE Sprite
        /\ kick => n < Len(f.corners) \/ n = Vertices(f)
        /\ n = Vertices(f) => kick
    BY Zenon DEF VertexDue
  <2> QED BY <1>4, <2>1
<1>7. queue \in Seq(Vertex) /\ WaitsAs(f, n, queue)
  <2>1. vqueue \in Seq(Vertex) /\ WaitsAs(f, a.vertices, vqueue)
    BY DEF GsTypeOK, DrawnAs, QueuedAs
  <2> HIDE DEF v, f
  <2> QED BY <1>2, <1>3, <1>5, <2>1, QueueNext
<1>8. /\ b \in Notes(st) /\ b.known = a.known
      /\ n = Vertices(f) => b.figures = a.figures + 1 /\ b.vertices = 0
      /\ n # Vertices(f) => b.figures = a.figures /\ b.vertices = n
  BY <1>2, VertexSentFields
<1>9. KnownAs(b)'
  <2>1. KnownAs(a)
    BY DEF DrawnAs
  <2> HIDE DEF b
  <2> QED BY <1>1, <1>8, <2>1 DEF KnownAs
<1>10. HandedAs(st, a) /\ submitted \in Seq(Tested) /\ depth \in Depths
  BY DEF DrawnAs, GsTypeOK
<1> HIDE DEF v, queue, f, n, b, kick
<1>11. ASSUME kick
       PROVE  /\ f.kind = "triangle" => whole = IF Len(queue) = 3 THEN queue ELSE <<>>
              /\ f.kind # "triangle" => whole = IF Len(queue) = 2 THEN SpriteCorners(queue[1], queue[2]) ELSE <<>>
  <2>1. whole = Completed(queue)
    BY <1>11
  <2> HIDE DEF whole
  <2> QED BY <1>6, <2>1, CompletedIs
<1>12. /\ f.kind = "triangle" => Len(f.corners) = 3 /\ Vertices(f) = f.spare + 3 /\ f.spare \in Nat
       /\ f.kind # "triangle" => f.kind = "sprite" /\ Len(f.corners) = 2 /\ Vertices(f) = 2
  BY <1>2, FigureFields
<1>13. Len(queue) = IF n < 3 THEN n ELSE 3
  BY <1>7 DEF WaitsAs
<1> HIDE DEF whole
<1>14. CASE n = Vertices(f)
  <2>1. kick /\ WaitsAs(f, Vertices(f), queue)
    BY <1>6, <1>7, <1>14
  <2>2. whole \in Seq(Vertex) /\ whole # <<>> /\ Triangulates(Recorded(whole), 0, Halves(f))
    <3>1. CASE f.kind = "triangle"
      <4>1. Len(queue) = 3 /\ Triangulates(Recorded(queue), 0, Halves(f))
        BY <1>2, <1>7, <2>1, <3>1, TriangleHanded
      <4>2. whole = queue
        BY <1>11, <2>1, <3>1, <4>1
      <4>3. queue # <<>>
        <5>1. Len(queue) = 3 /\ Len(<<>>) = 0 /\ 3 # 0
          BY <4>1
        <5> QED BY <5>1, Zenon
      <4> QED BY <1>7, <4>1, <4>2, <4>3
    <3>2. CASE f.kind # "triangle"
      <4>1. /\ Len(queue) = 2 /\ Triangulates(Recorded(SpriteCorners(queue[1], queue[2])), 0, Halves(f))
            /\ SpriteCorners(queue[1], queue[2]) # <<>>
        BY <1>2, <1>7, <1>12, <2>1, <3>2, SpriteHanded
      <4>2. whole = SpriteCorners(queue[1], queue[2])
        BY <1>11, <2>1, <3>2, <4>1
      <4>3. whole \in Seq(Vertex)
        <5>1. queue[1] \in Vertex /\ queue[2] \in Vertex
          BY <1>7, <4>1, BothOf
        <5> QED BY <4>2, <5>1, CornersType
      <4> QED BY <4>1, <4>2, <4>3
    <3> QED BY <3>1, <3>2
  <2>3. Recorded(whole) \in Seq(Tested)
    BY <1>10, <2>2, RecordedType DEF Recorded
  <2>4. vqueue' = <<>>
    BY <1>1, <2>2
  <2>5. b.figures = a.figures + 1 /\ b.vertices = 0
    BY <1>8, <1>14
  <2>6. HandedAs(st, b)'
    <3>1. Triangulates(Recorded(whole), 0, Halves(st.figures[a.figures + 1]))
      BY <2>2 DEF f
    <3> DEFINE new == Recorded(whole)
    <3>2. new \in Seq(Tested) /\ Triangulates(new, 0, Halves(st.figures[a.figures + 1])) /\ submitted' = submitted \o new
      BY <1>1, <2>3, <3>1
    <3> HIDE DEF new
    <3> QED BY <1>2, <1>10, <2>5, <3>2, HandedMore
  <2>7. QueuedAs(st, b)'
    <3>1. WaitsAs(st.figures[b.figures + 1], 0, <<>>)
      BY DEF WaitsAs
    <3> QED BY <2>4, <2>5, <3>1 DEF QueuedAs
  <2> QED BY <1>9, <2>6, <2>7 DEF DrawnAs, b
<1>15. CASE n # Vertices(f)
  <2>1. whole = <<>>
    <3>1. CASE ~kick
      BY <3>1 DEF whole
    <3>2. CASE kick /\ f.kind = "triangle"
      <4>1. n < 3
        BY <1>6, <1>12, <1>15, <3>2
      <4>2. Len(queue) # 3
        BY <1>13, <4>1
      <4> QED BY <1>11, <3>2, <4>2
    <3>3. CASE kick /\ f.kind # "triangle"
      <4>1. n < 2
        BY <1>6, <1>12, <1>15, <3>3
      <4>2. Len(queue) # 2
        BY <1>2, <1>13, <4>1
      <4> QED BY <1>11, <3>3, <4>2
    <3> QED BY <3>1, <3>2, <3>3
  <2>2. vqueue' = queue
    BY <1>1, <2>1
  <2>3. submitted' = submitted
    <3>1. Recorded(<<>>) = <<>>
      BY DEF Recorded
    <3>2. submitted' = submitted \o <<>>
      BY <1>1, <2>1, <3>1
    <3> QED BY <1>10, <3>2
  <2>4. b.figures = a.figures /\ b.vertices = n
    BY <1>8, <1>15
  <2>5. HandedAs(st, b)'
    BY <1>10, <2>3, <2>4 DEF HandedAs
  <2>6. QueuedAs(st, b)'
    BY <1>7, <2>2, <2>4 DEF QueuedAs, f
  <2> QED BY <1>9, <2>5, <2>6 DEF DrawnAs, b
<1> QED BY <1>14, <1>15

\* What a program notes of a register it sets.
LEMMA LearntFields ==
  ASSUME NEW st, NEW a \in Notes(st), NEW register \in Stored \cup {"TRXDIR"}, NEW value \in Seq(Nat)
  PROVE  /\ Learnt(a, register, value) \in Notes(st)
         /\ Learnt(a, register, value).known = [a.known EXCEPT ![register] = value]
         /\ Learnt(a, register, value).figures = a.figures /\ Learnt(a, register, value).vertices = a.vertices
         /\ Learnt(a, register, value).images = a.images /\ Learnt(a, register, value).pixels = a.pixels
         /\ Learnt(a, register, value).sure = a.sure
<1> DEFINE K == [Stored \cup {"TRXDIR"} -> Seq(Nat)]
           b == Learnt(a, register, value)
           k == a.known
           l == [k EXCEPT ![register] = value]
           f == a.figures
           v == a.vertices
           i == a.images
           p == a.pixels
           s == a.sure
<1>1. a = NoteOf(k, f, v, i, p, s)
  BY NoteByFields
<1>2. /\ k \in K /\ f \in 0 .. Len(st.figures) /\ v \in Nat
      /\ i \in 0 .. Len(st.images) /\ p \in Nat /\ s \in BOOLEAN
  BY NoteByFields
<1>3. l \in K
  BY <1>2
<1>4. b = [a EXCEPT !.known[register] = value]
  BY DEF Learnt
<1>5. NoteOf(l, f, v, i, p, s) \in Notes(st)
  BY <1>2, <1>3, NoteByFields
<1> HIDE DEF K, b, f, v, i, p, s
<1>6. b = [a EXCEPT !.known = [@ EXCEPT ![register] = value]]
  BY <1>4
<1>7. b = NoteOf(l, f, v, i, p, s)
  BY <1>1, <1>6 DEF NoteOf
<1>8. b.known = l /\ b.figures = f /\ b.vertices = v /\ b.images = i /\ b.pixels = p /\ b.sure = s
  BY <1>7 DEF NoteOf
<1> HIDE DEF l
<1>9. b \in Notes(st)
  BY <1>5, <1>7
<1> QED BY <1>8, <1>9 DEF b, l, f, v, i, p, s

\* What a note says of figures holds where nothing it speaks of changes.
LEMMA DrawnKeeps ==
  ASSUME NEW st, NEW a, NEW b, DrawnAs(st, a),
         regs' = regs, vqueue' = vqueue, submitted' = submitted, origin' = origin,
         b.figures = a.figures, b.vertices = a.vertices, \A r \in Stored : b.known[r] = a.known[r]
  PROVE  DrawnAs(st, b)'
BY DEF DrawnAs, KnownAs, QueuedAs, HandedAs

\* A program knows a register it has set.
LEMMA StoreNoted ==
  ASSUME NEW st, NEW a \in Notes(st), DrawnAs(st, a), GsTypeOK, NEW register \in Stored, NEW value \in Seq(Nat),
         regs' = [regs EXCEPT ![register] = value], vqueue' = vqueue, submitted' = submitted, origin' = origin
  PROVE  DrawnAs(st, Learnt(a, register, value))'
<1> DEFINE b == Learnt(a, register, value)
<1>1. /\ b.known = [a.known EXCEPT ![register] = value] /\ b.figures = a.figures /\ b.vertices = a.vertices
  BY LearntFields
<1>2. a.known \in [Stored \cup {"TRXDIR"} -> Seq(Nat)] /\ regs \in [Stored -> Seq(Nat)]
  BY NoteByFields DEF GsTypeOK
<1>3. KnownAs(a) /\ QueuedAs(st, a) /\ HandedAs(st, a)
  BY DEF DrawnAs
<1> HIDE DEF b
<1>4. KnownAs(b)'
  <2>1. ASSUME NEW r \in Stored, b.known[r] # <<>> PROVE regs'[r] = b.known[r]
    <3>1. CASE r = register
      BY <1>1, <1>2, <3>1
    <3>2. CASE r # register
      <4>1. b.known[r] = a.known[r] /\ regs'[r] = regs[r]
        BY <1>1, <1>2, <3>2
      <4> QED BY <1>3, <2>1, <4>1 DEF KnownAs
    <3> QED BY <3>1, <3>2
  <2> QED BY <2>1 DEF KnownAs
<1>5. QueuedAs(st, b)' /\ HandedAs(st, b)'
  BY <1>1, <1>3 DEF QueuedAs, HandedAs
<1> QED BY <1>4, <1>5 DEF DrawnAs, b

\* A write to any register takes what is noted before it to what is noted behind it.
LEMMA WriteNoted ==
  ASSUME NEW st, NEW a \in Notes(st), NEW b, FiguresOf(st), GsTypeOK, DrawnAs(st, a),
         NEW register, NEW value \in Seq(Nat), Len(value) >= 4,
         Noted(st, a, b, register, value), GsWrite(register, value), origin' = origin
  PROVE  gs_halted' \/ DrawnAs(st, b)'
<1>1. CASE register \in Stored
  <2>1. b = Learnt(a, register, value)
    BY <1>1, Zenon DEF Noted, Stored, Kicks
  <2>2. regs' = [regs EXCEPT ![register] = value] /\ UNCHANGED <<transfer, vqueue, renderer, frame, gs_halted>>
    BY <1>1, Zenon DEF GsWrite, Stored, Kicks
  <2>3. vqueue' = vqueue /\ submitted' = submitted
    BY <2>2 DEF renderer
  <2> QED BY <1>1, <2>1, <2>2, <2>3, StoreNoted
<1>2. CASE register \in Kicks \cup {"XYZ3"}
  <2>1. VertexDue(st, a, register, value) /\ b = VertexSent(st, a)
    BY <1>2, Zenon DEF Noted, Stored, Kicks
  <2>2. ProcessVertex(value, register \in Kicks)
    <3>1. register \in Kicks => ProcessVertex(value, TRUE)
      BY <1>2, Zenon DEF GsWrite, Stored, Kicks
    <3>2. register \notin Kicks => ProcessVertex(value, FALSE)
      BY <1>2, Zenon DEF GsWrite, Stored, Kicks
    <3>3. CASE register \in Kicks
      <4>1. (register \in Kicks) = TRUE
        BY <3>3
      <4> QED BY <3>1, <4>1, Zenon
    <3>4. CASE register \notin Kicks
      <4>1. (register \in Kicks) = FALSE
        BY <3>4
      <4> QED BY <3>2, <4>1, Zenon
    <3> QED BY <3>3, <3>4
  <2>3. Len(value) >= 3
    OBVIOUS
  <2> QED BY <2>1, <2>2, <2>3, VertexNoted
<1>3. CASE register = "TEST"
  <2>1. value[1] # 2 => b = a
    BY <1>3, Zenon DEF Noted, Stored, Kicks
  <2>2. WriteTest(value[1]) \/ GsHalt
    BY <1>3, Zenon DEF GsWrite, Stored, Kicks
  <2>3. CASE WriteTest(value[1])
    <3>1. value[1] \in {0, 1, 3} /\ UNCHANGED <<regs, transfer, vqueue, draw_data, submitted, frame, gs_halted>>
      BY <2>3 DEF WriteTest
    <3>2. b = a
      BY <2>1, <3>1
    <3> QED BY <3>1, <3>2, DrawnKeeps
  <2>4. CASE GsHalt
    BY <2>4 DEF GsHalt
  <2> QED BY <2>2, <2>3, <2>4
<1>4. CASE register = "TRXDIR"
  <2>1. b = Learnt(a, "TRXDIR", value)
    BY <1>4, Zenon DEF Noted, Stored, Kicks
  <2>2. UNCHANGED <<regs, vram, vqueue, renderer, frame, gs_halted>>
    BY <1>4, Zenon DEF GsWrite, Stored, Kicks
  <2>3. b.known = [a.known EXCEPT !["TRXDIR"] = value] /\ b.figures = a.figures /\ b.vertices = a.vertices
    BY <2>1, LearntFields
  <2>4. \A r \in Stored : b.known[r] = a.known[r]
    <3>1. a.known \in [Stored \cup {"TRXDIR"} -> Seq(Nat)] /\ "TRXDIR" \notin Stored
      BY NoteByFields DEF Stored
    <3> QED BY <2>3, <3>1
  <2>5. vqueue' = vqueue /\ submitted' = submitted /\ regs' = regs
    BY <2>2 DEF renderer
  <2> QED BY <2>3, <2>4, <2>5, DrawnKeeps
<1>5. CASE register \in {"XYZF3", "UNKNOWN"}
  <2>1. GsHalt
    BY <1>5, Zenon DEF GsWrite, Stored, Kicks
  <2> QED BY <2>1 DEF GsHalt
<1> QED BY <1>1, <1>2, <1>3, <1>4, <1>5 DEF Noted

-----------------------------------------------------------------------------
(* And its notes are true of VRAM: the images that are complete are in     *)
(* their places, and so is what was sent of the next one.                  *)

\* The n-th pixel of an image, and the first so many of them.
Spot(m, n) == PlaceOf(m, (n % m.w) + m.x, (n \div m.w) + m.y)
Begun(m, count) ==
  [l \in {Spot(m, n) : n \in 0 .. count - 1} |->
     m.pixels[(CHOOSE n \in 0 .. count - 1 : Spot(m, n) = l) + 1]]

\* An image within the width of its buffer.
Fitting(m) ==
  /\ m.page \in Nat /\ m.width \in Nat /\ m.x \in Nat /\ m.y \in Nat /\ m.w \in Nat \ {0} /\ m.h \in Nat \ {0}
  /\ m.pixels \in Seq(Nat) /\ Len(m.pixels) = m.w * m.h /\ m.x + m.w <= 64 * m.width

\* No two pixels of an image share a place.
LEMMA SpotsApart ==
  ASSUME NEW m, Fitting(m)
  PROVE  \A n1 \in Nat, n2 \in Nat : Spot(m, n1) = Spot(m, n2) => n1 = n2
<1>1. PICK w \in Nat \ {0}, px \in Nat, py \in Nat, bw \in Nat :
        w = m.w /\ px = m.x /\ py = m.y /\ bw = m.width /\ px + w <= 64 * bw
  BY DEF Fitting
<1> DEFINE X(n) == (n % w) + px
           Y(n) == (n \div w) + py
<1>2. ASSUME NEW n \in Nat
      PROVE  X(n) \in Nat /\ Y(n) \in Nat /\ X(n) \div 64 < bw /\ Spot(m, n) = PlaceOf(m, X(n), Y(n))
  <2>1. n % w \in 0 .. w - 1 /\ n \div w \in Nat
    BY ColumnAndRow
  <2>2. X(n) \in Nat /\ Y(n) \in Nat /\ X(n) < 64 * bw
    BY <1>1, <2>1
  <2>3. X(n) \div 64 < bw
    BY <2>2
  <2>4. Spot(m, n) = PlaceOf(m, X(n), Y(n))
    BY <1>1 DEF Spot
  <2> QED BY <2>2, <2>3, <2>4
<1>3. ASSUME NEW n1 \in Nat, NEW n2 \in Nat, Spot(m, n1) = Spot(m, n2) PROVE n1 = n2
  <2>1. m.page \in Nat /\ m.width \in Nat /\ m.width = bw
    BY <1>1 DEF Fitting
  <2>2. X(n1) = X(n2) /\ Y(n1) = Y(n2)
    <3>1. /\ X(n1) \in Nat /\ Y(n1) \in Nat /\ X(n1) \div 64 < m.width
          /\ X(n2) \in Nat /\ Y(n2) \in Nat /\ X(n2) \div 64 < m.width
          /\ PlaceOf(m, X(n1), Y(n1)) = PlaceOf(m, X(n2), Y(n2))
      <4> HIDE DEF X, Y
      <4> QED BY <1>2, <1>3, <2>1
    <3> HIDE DEF X, Y
    <3> QED BY <2>1, <3>1, PlacesApart
  <2>3. n1 % w = n2 % w /\ n1 \div w = n2 \div w
    <3>1. PICK a \in Nat, b \in Nat, c \in Nat, d \in Nat :
            a = n1 % w /\ b = n1 \div w /\ c = n2 % w /\ d = n2 \div w
      <4>1. n1 % w \in Nat /\ n1 \div w \in Nat /\ n2 % w \in Nat /\ n2 \div w \in Nat
        BY ColumnAndRow
      <4> QED BY <4>1
    <3>2. a + px = c + px /\ b + py = d + py
      BY <2>2, <3>1
    <3>3. a = c /\ b = d
      BY <3>2
    <3> QED BY <3>1, <3>3
  <2>4. n1 = (n1 % w) + (n1 \div w) * w /\ n2 = (n2 % w) + (n2 \div w) * w
    BY ColumnAndRow
  <2> QED BY <2>3, <2>4
<1> QED BY <1>3

\* What was sent of an image is in its places.
LEMMA BegunIs ==
  ASSUME NEW m, Fitting(m), NEW count \in Nat
  PROVE  /\ DOMAIN Begun(m, count) = {Spot(m, n) : n \in 0 .. count - 1}
         /\ \A n \in 0 .. count - 1 : Begun(m, count)[Spot(m, n)] = m.pixels[n + 1]
<1> DEFINE S(n) == Spot(m, n)
           Which(l) == CHOOSE n \in 0 .. count - 1 : S(n) = l
<1>1. ASSUME NEW n \in 0 .. count - 1 PROVE Which(S(n)) = n
  <2>1. \A k \in 0 .. count - 1 : S(k) = S(n) => k = n
    <3>1. \A k \in 0 .. count - 1 : k \in Nat
      OBVIOUS
    <3> QED BY <3>1, SpotsApart
  <2> HIDE DEF S
  <2> QED BY <2>1
<1>2. Begun(m, count) = [l \in {S(n) : n \in 0 .. count - 1} |-> m.pixels[Which(l) + 1]]
  BY DEF Begun
<1> HIDE DEF S, Which
<1>3. /\ DOMAIN Begun(m, count) = {S(n) : n \in 0 .. count - 1}
      /\ \A n \in 0 .. count - 1 : Begun(m, count)[S(n)] = m.pixels[n + 1]
  BY <1>1, <1>2
<1> QED BY <1>3 DEF S

\* A layer that is two of them, one over the other.
Layered(g, top, f) ==
  /\ DOMAIN g = DOMAIN top \cup DOMAIN f /\ \A l \in DOMAIN top : g[l] = top[l]
  /\ \A l \in DOMAIN f : l \notin DOMAIN top => g[l] = f[l]

\* Layers over one another are one layer.
LEMMA OverOver ==
  ASSUME NEW top, NEW f, NEW g, NEW base, Layered(g, top, f)
  PROVE  Over(top, Over(f, base)) = Over(g, base)
<1> DEFINE D == DOMAIN top
           E == DOMAIN f
           B == DOMAIN base
           under == Over(f, base)
<1>1. DOMAIN under = E \cup B /\ \A l \in E \cup B : under[l] = IF l \in E THEN f[l] ELSE base[l]
  BY DEF Over
<1>2. Over(top, under) = [l \in D \cup DOMAIN under |-> IF l \in D THEN top[l] ELSE under[l]]
  BY DEF Over
<1>3. Over(g, base) = [l \in DOMAIN g \cup B |-> IF l \in DOMAIN g THEN g[l] ELSE base[l]]
  BY DEF Over
<1>4. D \cup DOMAIN under = DOMAIN g \cup B
  BY <1>1 DEF Layered
<1>5. ASSUME NEW l \in DOMAIN g \cup B
      PROVE  (IF l \in D THEN top[l] ELSE under[l]) = (IF l \in DOMAIN g THEN g[l] ELSE base[l])
  <2>1. CASE l \in D
    BY <2>1 DEF Layered
  <2>2. CASE l \notin D /\ l \in E
    BY <1>1, <2>2 DEF Layered
  <2>3. CASE l \notin D /\ l \notin E
    BY <1>1, <2>3 DEF Layered
  <2> QED BY <2>1, <2>2, <2>3
<1> HIDE DEF under, D, B
<1> QED BY <1>2, <1>3, <1>4, <1>5 DEF under

\* The layer of the pixels s of an image, behind so many others.
LayerOf(top, m, count, s) ==
  /\ \A i \in 1 .. Len(s) : s[i] = m.pixels[count + i]
  /\ DOMAIN top = {Spot(m, count + i - 1) : i \in 1 .. Len(s)}
  /\ \A i \in 1 .. Len(s) : top[Spot(m, count + i - 1)] = s[i]

\* More pixels of an image reach their places.
LEMMA BegunMore ==
  ASSUME NEW m, Fitting(m), NEW count \in Nat, NEW s \in Seq(Nat), NEW base, NEW top, LayerOf(top, m, count, s)
  PROVE  Over(top, Over(Begun(m, count), base)) = Over(Begun(m, count + Len(s)), base)
<1> DEFINE S(n) == Spot(m, n)
           f == Begun(m, count)
           g == Begun(m, count + Len(s))
<1>1. Len(s) \in Nat /\ count + Len(s) \in Nat
  OBVIOUS
<1>2. DOMAIN f = {S(n) : n \in 0 .. count - 1} /\ \A n \in 0 .. count - 1 : f[S(n)] = m.pixels[n + 1]
  BY BegunIs
<1>3. DOMAIN g = {S(n) : n \in 0 .. count + Len(s) - 1} /\ \A n \in 0 .. count + Len(s) - 1 : g[S(n)] = m.pixels[n + 1]
  <2>1. PICK total \in Nat : total = count + Len(s)
    BY <1>1
  <2>2. /\ DOMAIN Begun(m, total) = {Spot(m, n) : n \in 0 .. total - 1}
        /\ \A n \in 0 .. total - 1 : Begun(m, total)[Spot(m, n)] = m.pixels[n + 1]
    BY BegunIs
  <2> QED BY <2>1, <2>2
<1>4. /\ DOMAIN top = {S(count + i - 1) : i \in 1 .. Len(s)}
      /\ \A i \in 1 .. Len(s) : top[S(count + i - 1)] = m.pixels[count + i]
  BY DEF LayerOf
<1> HIDE DEF S, f, g
<1>5. \A i \in 1 .. Len(s) : count + i - 1 \in 0 .. count + Len(s) - 1 /\ count + i - 1 + 1 = count + i
  BY <1>1
<1>6. \A n \in 0 .. count - 1 : n \in 0 .. count + Len(s) - 1
  BY <1>1
<1>7. \A n \in 0 .. count + Len(s) - 1 :
        n \in 0 .. count - 1 \/ (n - count + 1 \in 1 .. Len(s) /\ n = count + (n - count + 1) - 1)
  BY <1>1
<1>8. DOMAIN g = DOMAIN top \cup DOMAIN f
  <2>1. DOMAIN top \subseteq DOMAIN g
    BY <1>3, <1>4, <1>5
  <2>2. DOMAIN f \subseteq DOMAIN g
    BY <1>2, <1>3, <1>6
  <2>3. ASSUME NEW l \in DOMAIN g PROVE l \in DOMAIN top \cup DOMAIN f
    <3>1. PICK n \in 0 .. count + Len(s) - 1 : l = S(n)
      BY <1>3
    <3>2. CASE n \in 0 .. count - 1
      BY <1>2, <3>1, <3>2
    <3>3. CASE n \notin 0 .. count - 1
      <4>1. PICK i \in 1 .. Len(s) : n = count + i - 1
        BY <1>7, <3>3
      <4> QED BY <1>4, <3>1, <4>1
    <3> QED BY <3>2, <3>3
  <2> QED BY <2>1, <2>2, <2>3
<1>9. ASSUME NEW l \in DOMAIN top PROVE g[l] = top[l]
  <2>1. PICK i \in 1 .. Len(s) : l = S(count + i - 1)
    BY <1>4
  <2> QED BY <1>3, <1>4, <1>5, <2>1
<1>10. ASSUME NEW l \in DOMAIN f PROVE g[l] = f[l]
  <2>1. PICK n \in 0 .. count - 1 : l = S(n)
    BY <1>2
  <2> QED BY <1>2, <1>3, <1>6, <2>1
<1>11. Over(top, Over(f, base)) = Over(g, base)
  <2>1. \A l \in DOMAIN top : g[l] = top[l]
    BY <1>9
  <2>2. \A l \in DOMAIN f : l \notin DOMAIN top => g[l] = f[l]
    BY <1>10
  <2>3. Layered(g, top, f)
    BY <1>8, <2>1, <2>2, Zenon DEF Layered
  <2> QED BY <2>3, OverOver
<1> QED BY <1>11 DEF f, g

\* Nothing was sent of an image.
LEMMA BegunNone ==
  ASSUME NEW m, NEW f, f = [l \in DOMAIN f |-> f[l]]
  PROVE  Over(Begun(m, 0), f) = f
<1>1. DOMAIN Begun(m, 0) = {}
  <2>1. 0 .. 0 - 1 = {}
    OBVIOUS
  <2> QED BY <2>1 DEF Begun
<1> DEFINE b == Begun(m, 0)
<1> HIDE DEF b
<1>2. DOMAIN b = {}
  BY <1>1 DEF b
<1>3. Over(b, f) = [l \in DOMAIN f |-> f[l]]
  BY <1>2 DEF Over
<1> QED BY <1>3 DEF b

\* Over yields a function.
LEMMA OverIsFunction ==
  ASSUME NEW f, NEW g
  PROVE  Over(f, g) = [l \in DOMAIN Over(f, g) |-> Over(f, g)[l]]
BY DEF Over

\* The cells of a rectangle, row by row.
LEMMA RectangleCells ==
  ASSUME NEW w \in Nat \ {0}, NEW h \in Nat \ {0}
  PROVE  /\ w * h \in Nat
         /\ \A x \in 0 .. w - 1, y \in 0 .. h - 1 :
              y * w + x \in 0 .. w * h - 1 /\ (y * w + x) % w = x /\ (y * w + x) \div w = y
         /\ \A n \in 0 .. w * h - 1 : n % w \in 0 .. w - 1 /\ n \div w \in 0 .. h - 1 /\ (n \div w) * w + (n % w) = n
<1>1. w * h \in Nat
  OBVIOUS
<1>2. ASSUME NEW y \in 0 .. h - 1 PROVE y * w \in Nat /\ y * w + w <= w * h
  <2>1. PICK d \in Nat : h = y + 1 + d
    <3>1. h - y - 1 \in Nat /\ h = y + 1 + (h - y - 1)
      OBVIOUS
    <3> QED BY <3>1
  <2>2. w * h = y * w + w + d * w /\ d * w \in Nat /\ y * w \in Nat
    BY <2>1
  <2> QED BY <2>2
<1>3. ASSUME NEW x \in 0 .. w - 1, NEW y \in 0 .. h - 1
      PROVE  y * w + x \in 0 .. w * h - 1 /\ (y * w + x) % w = x /\ (y * w + x) \div w = y
  <2>1. PICK n \in Nat : n = y * w + x
    BY <1>2
  <2>2. n \in 0 .. w * h - 1
    BY <1>1, <1>2, <2>1
  <2>3. n % w \in 0 .. w - 1 /\ n \div w \in Nat /\ (n % w) + (n \div w) * w = n
    BY ColumnAndRow
  <2>4. PICK a \in 0 .. w - 1, b \in Nat : a = n % w /\ b = n \div w
    BY <2>3
  <2>5. x + y * w = n
    BY <1>2, <2>1
  <2>6. a + b * w = x + y * w
    BY <2>3, <2>4, <2>5
  <2>7. a = x /\ b = y
    BY <2>6, OneDecomposition
  <2> QED BY <2>1, <2>2, <2>4, <2>7
<1>4. ASSUME NEW n \in 0 .. w * h - 1
      PROVE  n % w \in 0 .. w - 1 /\ n \div w \in 0 .. h - 1 /\ (n \div w) * w + (n % w) = n
  <2>1. n \in Nat /\ n < w * h
    BY <1>1
  <2>2. n % w \in 0 .. w - 1 /\ n \div w \in Nat /\ (n % w) + (n \div w) * w = n
    BY <2>1, ColumnAndRow
  <2>3. PICK a \in Nat, b \in Nat : a = n % w /\ b = n \div w
    BY <2>2
  <2>4. b * w \in Nat /\ a + b * w = n
    BY <2>2, <2>3
  <2>5. b < h
    <3> SUFFICES ASSUME b >= h PROVE FALSE
      OBVIOUS
    <3>1. PICK d \in Nat : b = h + d
      <4>1. b - h \in Nat /\ b = h + (b - h)
        OBVIOUS
      <4> QED BY <4>1
    <3>2. b * w = w * h + d * w /\ d * w \in Nat
      BY <3>1
    <3> QED BY <1>1, <2>1, <2>4, <3>2
  <2>6. b * w + a = n /\ b \in 0 .. h - 1
    BY <2>4, <2>5
  <2> QED BY <2>2, <2>3, <2>6
<1> QED BY <1>1, <1>3, <1>4

\* An image of which every pixel was sent is in its place.
LEMMA PlacedIsBegun ==
  ASSUME NEW m, Fitting(m)
  PROVE  Placed(m) = Begun(m, m.w * m.h)
<1>1. PICK w \in Nat \ {0}, h \in Nat \ {0} : w = m.w /\ h = m.h
  BY DEF Fitting
<1>2. PICK total \in Nat : total = w * h
  BY RectangleCells
<1>a. \A x \in 0 .. w - 1, y \in 0 .. h - 1 :
        y * w + x \in 0 .. w * h - 1 /\ (y * w + x) % w = x /\ (y * w + x) \div w = y
  BY RectangleCells, Zenon
<1> DEFINE area == (0 .. w - 1) \X (0 .. h - 1)
           At(p) == PlaceOf(m, m.x + p[1], m.y + p[2])
           N(p) == p[2] * w + p[1]
           S(n) == Spot(m, n)
           Which(l) == CHOOSE q \in area : At(q) = l
           Cell(n) == <<n % w, n \div w>>
<1>3. ASSUME NEW p \in area PROVE N(p) \in 0 .. total - 1 /\ At(p) = S(N(p)) /\ Cell(N(p)) = p
  <2>1. p[1] \in 0 .. w - 1 /\ p[2] \in 0 .. h - 1 /\ p = <<p[1], p[2]>>
    OBVIOUS
  <2>2. N(p) \in 0 .. w * h - 1 /\ N(p) % w = p[1] /\ N(p) \div w = p[2]
    <3>1. PICK x \in 0 .. w - 1, y \in 0 .. h - 1 : x = p[1] /\ y = p[2]
      BY <2>1
    <3>2. y * w + x \in 0 .. w * h - 1 /\ (y * w + x) % w = x /\ (y * w + x) \div w = y
      BY <1>a, Zenon
    <3>3. N(p) = y * w + x
      BY <3>1
    <3> HIDE DEF N
    <3> QED BY <3>1, <3>2, <3>3
  <2>3. m.x + p[1] = p[1] + m.x /\ m.y + p[2] = p[2] + m.y
    BY <2>1 DEF Fitting
  <2>4. At(p) = PlaceOf(m, p[1] + m.x, p[2] + m.y)
    BY <2>3
  <2> HIDE DEF N, At
  <2>5. At(p) = S(N(p))
    BY <1>1, <2>2, <2>4 DEF Spot
  <2> QED BY <1>2, <2>1, <2>2, <2>5
<1>4. ASSUME NEW n \in 0 .. total - 1 PROVE Cell(n) \in area /\ N(Cell(n)) = n /\ At(Cell(n)) = S(n)
  <2>1. n \in 0 .. w * h - 1
    BY <1>2
  <2>2. n % w \in 0 .. w - 1 /\ n \div w \in 0 .. h - 1 /\ (n \div w) * w + (n % w) = n
    BY <2>1, RectangleCells
  <2>3. Cell(n) \in area /\ N(Cell(n)) = n
    BY <2>2
  <2> HIDE DEF Cell, area, N, At, S
  <2> QED BY <1>3, <2>3
<1>5. Placed(m) = [l \in {At(p) : p \in area} |-> m.pixels[N(Which(l)) + 1]]
  BY <1>1 DEF Placed
<1>6. /\ DOMAIN Begun(m, total) = {S(n) : n \in 0 .. total - 1}
      /\ \A n \in 0 .. total - 1 : Begun(m, total)[S(n)] = m.pixels[n + 1]
  BY BegunIs
<1>7. \A n1 \in Nat, n2 \in Nat : S(n1) = S(n2) => n1 = n2
  BY SpotsApart
<1>8. Begun(m, total) = [l \in DOMAIN Begun(m, total) |-> Begun(m, total)[l]]
  BY DEF Begun
<1> DEFINE b == Begun(m, total)
<1> HIDE DEF area, At, N, S, Cell, b
<1>9. \A p \in area : Which(At(p)) = p
  <2> SUFFICES ASSUME NEW p \in area PROVE Which(At(p)) = p
    OBVIOUS
  <2>1. ASSUME NEW q \in area, At(q) = At(p) PROVE q = p
    <3>1. S(N(q)) = S(N(p)) /\ N(q) \in Nat /\ N(p) \in Nat
      BY <1>3, <2>1
    <3>2. N(q) = N(p)
      BY <1>7, <3>1
    <3> QED BY <1>3, <3>2
  <2> QED BY <2>1
<1> HIDE DEF Which
<1>10. {At(p) : p \in area} = {S(n) : n \in 0 .. total - 1}
  <2>1. \A p \in area : At(p) \in {S(n) : n \in 0 .. total - 1}
    BY <1>3
  <2>2. \A n \in 0 .. total - 1 : S(n) \in {At(p) : p \in area}
    BY <1>4
  <2> QED BY <2>1, <2>2
<1>11. DOMAIN b = {At(p) : p \in area}
  BY <1>6, <1>10 DEF b
<1>12. ASSUME NEW l \in DOMAIN b PROVE m.pixels[N(Which(l)) + 1] = b[l]
  <2>1. PICK p \in area : l = At(p)
    BY <1>11
  <2>2. Which(l) = p /\ l = S(N(p)) /\ N(p) \in 0 .. total - 1
    BY <1>3, <1>9, <2>1
  <2>3. b[S(N(p))] = m.pixels[N(p) + 1]
    BY <1>6, <2>2 DEF b
  <2> QED BY <2>2, <2>3
<1>13. Placed(m) = [l \in DOMAIN b |-> b[l]]
  BY <1>5, <1>11, <1>12
<1> QED BY <1>1, <1>2, <1>8, <1>13 DEF b

\* The last of some numbers.
LEMMA MaxOf ==
  ASSUME NEW k \in Nat, NEW S \in SUBSET (1 .. k), S # {}
  PROVE  Max(S) \in S /\ \A y \in S : Max(S) >= y
<1> DEFINE Topped(n) == \A R \in SUBSET (1 .. n) : R # {} => \E x \in R : \A y \in R : x >= y
           T == {n \in Nat : Topped(n)}
<1>1. 0 \in T
  <2>1. 1 .. 0 = {}
    OBVIOUS
  <2> QED BY <2>1
<1>2. ASSUME NEW n \in Nat, n \in T PROVE n + 1 \in T
  <2> SUFFICES ASSUME NEW R \in SUBSET (1 .. n + 1), R # {} PROVE \E x \in R : \A y \in R : x >= y
    OBVIOUS
  <2>1. CASE n + 1 \in R
    <3>1. \A y \in R : n + 1 >= y
      OBVIOUS
    <3> QED BY <2>1, <3>1
  <2>2. CASE n + 1 \notin R
    <3>1. R \in SUBSET (1 .. n)
      BY <2>2
    <3> QED BY <1>2, <3>1
  <2> QED BY <2>1, <2>2
<1>3. Nat \subseteq T
  <2> HIDE DEF T
  <2> QED BY <1>1, <1>2, SetInduction
<1>4. \E x \in S : \A y \in S : x >= y
  BY <1>3
<1>5. Max(S) = CHOOSE x \in S : \A y \in S : x >= y
  BY DEF Max
<1> QED BY <1>4, <1>5

\* The first k images, one over the other.
LEMMA PaintedOf ==
  ASSUME NEW T, NEW images \in Seq(T), NEW k \in Nat, k <= Len(images)
  PROVE  Painted(SubSeq(images, 1, k)) =
           [l \in UNION {DOMAIN Placed(images[m]) : m \in 1 .. k} |->
              Placed(images[Max({m \in 1 .. k : l \in DOMAIN Placed(images[m])})])[l]]
<1> DEFINE P(m) == Placed(images[m])
           first == SubSeq(images, 1, k)
           placed == [m \in DOMAIN first |-> Placed(first[m])]
           H(l) == {m \in 1 .. k : l \in DOMAIN P(m)}
           U == UNION {DOMAIN P(m) : m \in 1 .. k}
<1>1. DOMAIN first = 1 .. k /\ \A m \in 1 .. k : first[m] = images[m]
  OBVIOUS
<1>2. DOMAIN placed = 1 .. k /\ \A m \in 1 .. k : placed[m] = P(m)
  <2> HIDE DEF first
  <2> QED BY <1>1
<1>3. Painted(first) = [l \in UNION {DOMAIN placed[m] : m \in DOMAIN first} |->
                          placed[Max({m \in DOMAIN first : l \in DOMAIN placed[m]})][l]]
  BY DEF Painted
<1> HIDE DEF first, placed, P
<1>4. UNION {DOMAIN placed[m] : m \in DOMAIN first} = U
  BY <1>1, <1>2
<1>5. \A l : {m \in DOMAIN first : l \in DOMAIN placed[m]} = H(l)
  BY <1>1, <1>2
<1>6. ASSUME NEW l \in U PROVE placed[Max(H(l))] = P(Max(H(l)))
  <2>1. H(l) \in SUBSET (1 .. k) /\ H(l) # {}
    OBVIOUS
  <2>2. Max(H(l)) \in H(l)
    <3> HIDE DEF H
    <3> QED BY <2>1, MaxOf
  <2>3. Max(H(l)) \in 1 .. k
    BY <2>1, <2>2
  <2> QED BY <1>2, <2>3
<1> HIDE DEF H, U
<1>7. Painted(first) = [l \in U |-> P(Max(H(l)))[l]]
  BY <1>3, <1>4, <1>5, <1>6
<1> QED BY <1>7 DEF first, U, H, P

\* Nothing is painted of no images.
LEMMA PaintedNone ==
  ASSUME NEW T, NEW images \in Seq(T)
  PROVE  DOMAIN Painted(SubSeq(images, 1, 0)) = {}
<1>1. 1 .. 0 = {} /\ 0 <= Len(images) /\ 0 \in Nat
  OBVIOUS
<1>2. Painted(SubSeq(images, 1, 0)) =
        [l \in UNION {DOMAIN Placed(images[m]) : m \in 1 .. 0} |->
           Placed(images[Max({m \in 1 .. 0 : l \in DOMAIN Placed(images[m])})])[l]]
  BY <1>1, PaintedOf
<1>3. DOMAIN Painted(SubSeq(images, 1, 0)) = UNION {DOMAIN Placed(images[m]) : m \in 1 .. 0}
  BY <1>2
<1> QED BY <1>1, <1>3

\* One image more lies over those before.
LEMMA PaintedMore ==
  ASSUME NEW T, NEW images \in Seq(T), NEW k \in Nat, k < Len(images)
  PROVE  Painted(SubSeq(images, 1, k + 1)) = Over(Placed(images[k + 1]), Painted(SubSeq(images, 1, k)))
<1> DEFINE P(m) == Placed(images[m])
           H(n, l) == {m \in 1 .. n : l \in DOMAIN P(m)}
           U(n) == UNION {DOMAIN P(m) : m \in 1 .. n}
           old == Painted(SubSeq(images, 1, k))
           new == Painted(SubSeq(images, 1, k + 1))
<1>1. k + 1 \in Nat /\ k + 1 <= Len(images) /\ k <= Len(images)
  OBVIOUS
<1>2. old = [l \in U(k) |-> P(Max(H(k, l)))[l]]
  BY <1>1, PaintedOf
<1>3. new = [l \in U(k + 1) |-> P(Max(H(k + 1, l)))[l]]
  BY <1>1, PaintedOf
<1> HIDE DEF old, new, P
<1>4. U(k + 1) = DOMAIN P(k + 1) \cup U(k)
  <2>1. 1 .. k + 1 = (1 .. k) \cup {k + 1}
    OBVIOUS
  <2> QED BY <2>1
<1>5. ASSUME NEW l \in U(k + 1)
      PROVE  P(Max(H(k + 1, l)))[l] = IF l \in DOMAIN P(k + 1) THEN P(k + 1)[l] ELSE old[l]
  <2>1. CASE l \in DOMAIN P(k + 1)
    <3>1. H(k + 1, l) \in SUBSET (1 .. k + 1) /\ k + 1 \in H(k + 1, l)
      BY <2>1
    <3>2. Max(H(k + 1, l)) \in H(k + 1, l) /\ Max(H(k + 1, l)) >= k + 1
      <4> HIDE DEF H
      <4> QED BY <1>1, <3>1, MaxOf
    <3>3. \A x \in 1 .. k + 1 : x >= k + 1 => x = k + 1
      OBVIOUS
    <3>4. Max(H(k + 1, l)) = k + 1
      <4> HIDE DEF H
      <4> QED BY <3>1, <3>2, <3>3
    <3> QED BY <2>1, <3>4
  <2>2. CASE l \notin DOMAIN P(k + 1)
    <3>1. H(k + 1, l) = H(k, l)
      <4>1. 1 .. k + 1 = (1 .. k) \cup {k + 1}
        OBVIOUS
      <4> QED BY <2>2, <4>1
    <3>2. l \in U(k)
      BY <1>4, <2>2
    <3>3. old[l] = P(Max(H(k, l)))[l]
      <4> HIDE DEF H, U
      <4> QED BY <1>2, <3>2
    <3> HIDE DEF H
    <3> QED BY <2>2, <3>1, <3>3
  <2> QED BY <2>1, <2>2
<1> HIDE DEF H, U
<1>6. DOMAIN old = U(k)
  BY <1>2
<1>7. new = [l \in DOMAIN P(k + 1) \cup DOMAIN old |-> IF l \in DOMAIN P(k + 1) THEN P(k + 1)[l] ELSE old[l]]
  BY <1>3, <1>4, <1>5, <1>6
<1>8. new = Over(P(k + 1), old)
  BY <1>7 DEF Over
<1> QED BY <1>8 DEF new, old, P

\* What is in VRAM when so many images are complete, and so many pixels of the next one sent.
Shown(st, images, pixels) ==
  Over(Begun(st.images[images + 1], pixels), Over(Painted(SubSeq(st.images, 1, images)), origin.vram))

PixelsAs(st, a) ==
  a.sure => /\ a.known["TRXDIR"] # <<>> => trxdir = a.known["TRXDIR"][1] /\ data_written = a.pixels
            /\ vram = Shown(st, a.images, a.pixels)

\* Stream, as far as images go.
ImagesOf(st) == st.images \in Seq(ImageRecords) /\ \A m \in DOMAIN st.images : Fitting(st.images[m])

\* The registers name the place of an image.
Names(m) ==
  /\ regs["BITBLTBUF"][1] \div 32 = m.page /\ regs["BITBLTBUF"][2] = m.width /\ regs["BITBLTBUF"][3] = PSMCT32
  /\ regs["TRXPOS"][1] = m.x /\ regs["TRXPOS"][2] = m.y /\ regs["TRXREG"][1] = m.w /\ regs["TRXREG"][2] = m.h

\* A transfer of which so many pixels were written, and the pixels that are next.
Underway(s, m, p, base) == s.dir = HostLocal /\ s.halted = FALSE /\ s.written = p /\ s.vram = Over(Begun(m, p), base)
NextOf(px, m, p)        == \A i \in 1 .. Len(px) : px[i] = m.pixels[p + i]

\* A transfer that has reached the n-th pixel, which may be the last.
Reached(s, m, n, base) ==
  /\ s.halted = FALSE /\ s.vram = Over(Begun(m, n), base)
  /\ n < m.w * m.h => s.dir = HostLocal /\ s.written = n
  /\ n = m.w * m.h => s.dir = None /\ s.written = 0

\* The pixels of 64 bits reach the image they belong to, and the last ones end the transfer.
LEMMA HalfShown ==
  ASSUME GsTypeOK, NEW m, Fitting(m), Names(m), NEW s, NEW p \in Nat, NEW base,
         Underway(s, m, p, base), NEW px \in Seq(Nat), NextOf(px, m, p)
  PROVE  Reached(HwReg(s, px), m, p + Len(px), base)
<1>a. /\ s.dir = HostLocal /\ s.halted = FALSE /\ s.written = p /\ s.vram = Over(Begun(m, p), base)
      /\ \A i \in 1 .. Len(px) : px[i] = m.pixels[p + i]
  BY DEF Underway, NextOf
<1>1. /\ m.w \in Nat \ {0} /\ m.h \in Nat \ {0} /\ m.x \in Nat /\ m.y \in Nat /\ m.width \in Nat /\ m.page \in Nat
      /\ m.x + m.w <= 64 * m.width
  BY DEF Fitting
<1>2. /\ regs["BITBLTBUF"][1] \in Nat
      /\ regs["BITBLTBUF"][1] \div 32 = m.page /\ regs["BITBLTBUF"][2] = m.width /\ regs["BITBLTBUF"][3] = PSMCT32
      /\ regs["TRXPOS"][1] = m.x /\ regs["TRXPOS"][2] = m.y /\ regs["TRXREG"][1] = m.w /\ regs["TRXREG"][2] = m.h
  <2>1. regs["BITBLTBUF"] \in Seq(Nat) /\ Len(regs["BITBLTBUF"]) >= 3
    BY DEF GsTypeOK, Stored
  <2>2. regs["BITBLTBUF"][1] \in Nat
    BY <2>1, FirstFields
  <2> QED BY <2>2 DEF Names
<1>3. TransferFits
  BY <1>1, <1>2 DEF TransferFits
<1>4. \A n \in Nat : Location(n) = Spot(m, n)
  <2>1. \A n \in Nat : Location(n) = PlaceOf(Destination, (n % regs["TRXREG"][1]) + regs["TRXPOS"][1],
                                             n \div regs["TRXREG"][1] + regs["TRXPOS"][2])
    BY <1>3, TransferPlaces
  <2>2. Destination.page = m.page /\ Destination.width = m.width
    BY <1>2 DEF Destination
  <2>3. \A x, y : PlaceOf(Destination, x, y) = PlaceOf(m, x, y)
    BY <2>2, Zenon DEF PlaceOf
  <2>4. \A n \in Nat : Location(n) = PlaceOf(m, (n % m.w) + m.x, n \div m.w + m.y)
    BY <1>2, <2>1, <2>3
  <2> QED BY <2>4 DEF Spot
<1> DEFINE written == Written(p, px)
           next == p + Len(px)
           done == next >= m.w * m.h
           t == HwReg(s, px)
<1>5. /\ t.vram = Over(written, s.vram)
      /\ DOMAIN written = {Location(p + i - 1) : i \in DOMAIN px}
      /\ \A i \in DOMAIN px : written[Location(p + i - 1)] = px[i]
  <2>1. LET above == Written(s.written, px)
        IN /\ HwReg(s, px).vram = Over(above, s.vram)
           /\ DOMAIN above = {Location(s.written + i - 1) : i \in DOMAIN px}
           /\ \A i \in DOMAIN px : above[Location(s.written + i - 1)] = px[i]
    <3>1. s.written \in Nat /\ s.dir = HostLocal /\ s.halted = FALSE
      BY <1>a
    <3> QED BY <1>3, <3>1, PixelsWritten
  <2> QED BY <1>a, <2>1
<1>6. t = [dir |-> IF done THEN None ELSE s.dir, written |-> IF done THEN 0 ELSE next,
           vram |-> Over(written, s.vram), halted |-> FALSE]
  <2>1. ~(s.halted \/ s.dir # HostLocal \/ regs["BITBLTBUF"][3] \notin {PSMCT32, PSMCT16})
    BY <1>2, <1>a
  <2>2. regs["TRXREG"][1] * regs["TRXREG"][2] = m.w * m.h
    BY <1>2
  <2> QED BY <1>a, <2>1, <2>2 DEF HwReg
<1>7. DOMAIN px = 1 .. Len(px) /\ Len(px) \in Nat /\ next \in Nat /\ m.w * m.h \in Nat
  BY <1>1
<1> HIDE DEF t, written
<1>8. t.vram = Over(Begun(m, p + Len(px)), base)
  <2>1. \A i \in 1 .. Len(px) : p + i - 1 \in Nat
    OBVIOUS
  <2>2. DOMAIN written = {Spot(m, p + i - 1) : i \in 1 .. Len(px)}
    BY <1>4, <1>5, <1>7, <2>1
  <2>3. \A i \in 1 .. Len(px) : written[Spot(m, p + i - 1)] = px[i]
    BY <1>4, <1>5, <1>7, <2>1
  <2>4. Over(written, Over(Begun(m, p), base)) = Over(Begun(m, p + Len(px)), base)
    <3>1. LayerOf(written, m, p, px)
      BY <1>a, <2>2, <2>3, Zenon DEF LayerOf
    <3> QED BY <3>1, BegunMore
  <2> QED BY <1>5, <1>a, <2>4
<1>9. /\ t.halted = FALSE
      /\ next < m.w * m.h => t.dir = HostLocal /\ t.written = next
      /\ next = m.w * m.h => t.dir = None /\ t.written = 0
  BY <1>6, <1>7, <1>a
<1>10. Reached(t, m, next, base)
  BY <1>8, <1>9, Zenon DEF Reached
<1> QED BY <1>10 DEF t

\* Note b, behind so many pixels of image m sent under note a.
Counted(a, b, m, count) ==
  /\ b.figures = a.figures /\ b.vertices = a.vertices /\ b.sure = a.sure
  /\ a.pixels + count = m.w * m.h =>
       b.images = a.images + 1 /\ b.pixels = 0 /\ b.known = [a.known EXCEPT !["TRXDIR"] = <<None>>]
  /\ a.pixels + count # m.w * m.h => b.images = a.images /\ b.pixels = a.pixels + count /\ b.known = a.known

\* What a program notes of pixels it sends.
LEMMA PixelsSentFields ==
  ASSUME NEW st, NEW a \in Notes(st), a.images < Len(st.images), Len(st.images) \in Nat, NEW count \in Nat
  PROVE  /\ PixelsSent(st, a, count) \in Notes(st)
         /\ Counted(a, PixelsSent(st, a, count), st.images[a.images + 1], count)
<1> DEFINE total == st.images[a.images + 1].w * st.images[a.images + 1].h
           b == PixelsSent(st, a, count)
           l == Learnt(a, "TRXDIR", <<None>>)
           k == a.known
           h == l.known
           f == a.figures
           v == a.vertices
           i == a.images
           p == a.pixels
           s == a.sure
<1>1. /\ a = NoteOf(k, f, v, i, p, s)
      /\ k \in [Stored \cup {"TRXDIR"} -> Seq(Nat)] /\ f \in 0 .. Len(st.figures) /\ v \in Nat
      /\ i \in 0 .. Len(st.images) /\ p \in Nat /\ s \in BOOLEAN
  BY NoteByFields
<1>2. <<None>> \in Seq(Nat)
  BY DEF None
<1>3. /\ l \in Notes(st) /\ h = [k EXCEPT !["TRXDIR"] = <<None>>]
      /\ l.figures = f /\ l.vertices = v /\ l.images = i /\ l.pixels = p /\ l.sure = s
  <2>1. PICK none \in Seq(Nat) : none = <<None>>
    BY <1>2
  <2>2. PICK dir \in Stored \cup {"TRXDIR"} : dir = "TRXDIR"
    OBVIOUS
  <2>3. /\ Learnt(a, dir, none) \in Notes(st) /\ Learnt(a, dir, none).known = [a.known EXCEPT ![dir] = none]
        /\ Learnt(a, dir, none).figures = a.figures /\ Learnt(a, dir, none).vertices = a.vertices
        /\ Learnt(a, dir, none).images = a.images /\ Learnt(a, dir, none).pixels = a.pixels
        /\ Learnt(a, dir, none).sure = a.sure
    BY LearntFields
  <2>4. l = Learnt(a, dir, none)
    BY <2>1, <2>2
  <2> HIDE DEF l
  <2> QED BY <2>1, <2>2, <2>3, <2>4
<1>4. l = NoteOf(h, f, v, i, p, s) /\ h \in [Stored \cup {"TRXDIR"} -> Seq(Nat)]
  <2>1. l = NoteOf(l.known, l.figures, l.vertices, l.images, l.pixels, l.sure)
    BY <1>3, NoteByFields
  <2>2. l.known \in [Stored \cup {"TRXDIR"} -> Seq(Nat)]
    BY <1>3, NoteByFields
  <2> HIDE DEF l
  <2> QED BY <1>3, <2>1, <2>2
<1>5. i + 1 \in 0 .. Len(st.images) /\ p + count \in Nat /\ 0 \in Nat
  BY <1>1
<1>6. p + count = total => b = [l EXCEPT !.images = @ + 1, !.pixels = 0]
  BY DEF PixelsSent
<1>7. p + count # total => b = [a EXCEPT !.pixels = @ + count]
  BY DEF PixelsSent
<1> HIDE DEF total, b, l, k, h, f, v, i, p, s
<1>8. p + count = total => b = NoteOf(h, f, v, i + 1, 0, s)
  BY <1>4, <1>6 DEF NoteOf
<1>9. p + count # total => b = NoteOf(k, f, v, i, p + count, s)
  BY <1>1, <1>7 DEF NoteOf
<1>10. p + count = total =>
         b \in Notes(st) /\ b.figures = f /\ b.vertices = v /\ b.sure = s /\ b.images = i + 1 /\ b.pixels = 0 /\ b.known = h
  <2>1. NoteOf(h, f, v, i + 1, 0, s) \in Notes(st)
    BY <1>1, <1>4, <1>5, NoteByFields
  <2> QED BY <1>8, <2>1 DEF NoteOf
<1>11. p + count # total =>
         b \in Notes(st) /\ b.figures = f /\ b.vertices = v /\ b.sure = s /\ b.images = i /\ b.pixels = p + count /\ b.known = k
  <2>1. NoteOf(k, f, v, i, p + count, s) \in Notes(st)
    BY <1>1, <1>5, NoteByFields
  <2> QED BY <1>9, <2>1 DEF NoteOf
<1>12. /\ b \in Notes(st) /\ b.figures = f /\ b.vertices = v /\ b.sure = s
       /\ p + count = total => b.images = i + 1 /\ b.pixels = 0 /\ b.known = [k EXCEPT !["TRXDIR"] = <<None>>]
       /\ p + count # total => b.images = i /\ b.pixels = p + count /\ b.known = k
  BY <1>3, <1>10, <1>11
<1> QED BY <1>12 DEF total, b, k, f, v, i, p, s, Counted

\* What a note says of images holds where nothing it speaks of changes.
LEMMA PixelsKeep ==
  ASSUME NEW st, NEW a, NEW b, PixelsAs(st, a), UNCHANGED transfer, origin' = origin,
         b.images = a.images, b.pixels = a.pixels, b.sure = a.sure, b.known["TRXDIR"] = a.known["TRXDIR"]
  PROVE  PixelsAs(st, b)'
<1>1. trxdir' = trxdir /\ data_written' = data_written /\ vram' = vram
  BY DEF transfer
<1>2. Shown(st, a.images, a.pixels)' = Shown(st, a.images, a.pixels)
  BY DEF Shown
<1> QED BY <1>1, <1>2 DEF PixelsAs

\* The two writes of a quadword of an image, one after the other.
LEMMA ImageWrites ==
  ASSUME NEW pixels, GsImage(pixels)
  PROVE  LET half  == Len(pixels) \div 2
             first == HwReg(Now, SubSeq(pixels, 1, half))
             after == HwReg(first, SubSeq(pixels, half + 1, 2 * half))
         IN /\ trxdir' = after.dir /\ data_written' = after.written /\ vram' = after.vram
            /\ gs_halted' = after.halted /\ UNCHANGED <<regs, vqueue, renderer, frame>>
<1> DEFINE half  == Len(pixels) \div 2
           first == HwReg(Now, SubSeq(pixels, 1, half))
           After(f) == HwReg(f, SubSeq(pixels, half + 1, 2 * half))
<1>1. \E f \in {first} : \E e \in {After(f)} :
        /\ trxdir' = e.dir /\ data_written' = e.written /\ vram' = e.vram
        /\ gs_halted' = e.halted /\ UNCHANGED <<regs, vqueue, renderer, frame>>
  BY DEF GsImage
<1> HIDE DEF first, After
<1>2. /\ trxdir' = After(first).dir /\ data_written' = After(first).written /\ vram' = After(first).vram
      /\ gs_halted' = After(first).halted /\ UNCHANGED <<regs, vqueue, renderer, frame>>
  BY <1>1
<1> QED BY <1>2 DEF first, After

\* A transfer that is not from the host halts the GS.
LEMMA ImageRefused ==
  ASSUME NEW pixels, GsImage(pixels), trxdir # HostLocal
  PROVE  gs_halted'
<1> DEFINE half  == Len(pixels) \div 2
           first == HwReg(Now, SubSeq(pixels, 1, half))
           after == HwReg(first, SubSeq(pixels, half + 1, 2 * half))
<1>1. gs_halted' = after.halted
  BY ImageWrites
<1>2. first = [Now EXCEPT !.halted = TRUE]
  BY DEF HwReg, Now
<1>3. first.halted = TRUE
  BY <1>2 DEF Now
<1>4. after = [first EXCEPT !.halted = TRUE]
  <2> HIDE DEF first
  <2> QED BY <1>3 DEF HwReg
<1>5. after.halted = TRUE
  <2> DEFINE s == [Now EXCEPT !.halted = TRUE]
  <2>1. [s EXCEPT !.halted = TRUE].halted = TRUE
    BY DEF Now
  <2> HIDE DEF first, after
  <2> QED BY <1>2, <1>4, <2>1
<1> QED BY <1>1, <1>5

\* An image that is complete is painted.
LEMMA ShownWhole ==
  ASSUME NEW st, ImagesOf(st), NEW k \in Nat, k < Len(st.images)
  PROVE  Shown(st, k, st.images[k + 1].w * st.images[k + 1].h) = Shown(st, k + 1, 0)
<1> DEFINE m == st.images[k + 1]
           top == Placed(m)
           old == Painted(SubSeq(st.images, 1, k))
           new == Painted(SubSeq(st.images, 1, k + 1))
           base == origin.vram
<1>1. st.images \in Seq(ImageRecords) /\ Fitting(m)
  BY DEF ImagesOf
<1>2. new = Over(top, old)
  BY <1>1, PaintedMore
<1>3. Begun(m, m.w * m.h) = top
  <2> HIDE DEF m
  <2> QED BY <1>1, PlacedIsBegun
<1>4. Shown(st, k, m.w * m.h) = Over(top, Over(old, base))
  BY <1>3 DEF Shown
<1>5. Shown(st, k + 1, 0) = Over(Begun(st.images[k + 1 + 1], 0), Over(new, base))
  BY DEF Shown
<1> HIDE DEF top, old, new, base, m
<1>6. Layered(new, top, old)
  BY <1>2 DEF Layered, Over
<1>7. Over(top, Over(old, base)) = Over(new, base)
  BY <1>6, OverOver
<1>8. Over(Begun(st.images[k + 1 + 1], 0), Over(new, base)) = Over(new, base)
  <2> DEFINE f == Over(new, base)
  <2>1. f = [l \in DOMAIN f |-> f[l]]
    BY OverIsFunction
  <2> HIDE DEF f
  <2>2. Over(Begun(st.images[k + 1 + 1], 0), f) = f
    BY <2>1, BegunNone
  <2> QED BY <2>2 DEF f
<1> QED BY <1>4, <1>5, <1>7, <1>8 DEF m

\* The pixels of a quadword reach the image the program noted.
LEMMA PixelsNoted ==
  ASSUME NEW st, NEW a \in Notes(st), ImagesOf(st), GsTypeOK, KnownAs(a), PixelsAs(st, a),
         NEW value \in Seq(Nat), Len(value) >= 4, PixelsDue(st, a, value), GsImage(value), origin' = origin
  PROVE  PixelsAs(st, PixelsSent(st, a, 2 * (Len(value) \div 2)))'
<1> DEFINE m == st.images[a.images + 1]
           half == Len(value) \div 2
           p == a.pixels
           b == PixelsSent(st, a, 2 * half)
           base == Over(Painted(SubSeq(st.images, 1, a.images)), origin.vram)
           total == m.w * m.h
           one == SubSeq(value, 1, half)
           two == SubSeq(value, half + 1, 2 * half)
           first == HwReg(Now, one)
           after == HwReg(first, two)
<1>1. /\ a.images \in Nat /\ a.images < Len(st.images) /\ p \in Nat /\ Len(st.images) \in Nat /\ a.sure
      /\ a.known \in [Stored \cup {"TRXDIR"} -> Seq(Nat)]
  <2>1. a.images < Len(st.images) /\ a.sure
    BY DEF PixelsDue
  <2>2. a.images \in Nat /\ p \in Nat /\ a.known \in [Stored \cup {"TRXDIR"} -> Seq(Nat)]
    <3>1. Len(st.images) \in Nat
      BY DEF ImagesOf
    <3>2. a.images \in 0 .. Len(st.images) /\ p \in Nat /\ a.known \in [Stored \cup {"TRXDIR"} -> Seq(Nat)]
      BY NoteByFields
    <3> HIDE DEF p
    <3> QED BY <3>1, <3>2
  <2> QED BY <2>1, <2>2 DEF ImagesOf
<1>2. Fitting(m)
  BY <1>1 DEF ImagesOf
<1>3. \A r \in {"BITBLTBUF", "TRXPOS", "TRXREG"} : regs[r] = a.known[r]
  <2>1. \A r \in {"BITBLTBUF", "TRXPOS", "TRXREG"} : a.known[r] # <<>> /\ r \in Stored
    BY DEF PixelsDue, Stored
  <2> QED BY <2>1 DEF KnownAs
<1>4. Names(m)
  BY <1>3 DEF PixelsDue, Names
<1>5. trxdir = HostLocal /\ data_written = p /\ vram = Over(Begun(m, p), base)
  <2>1. a.known["TRXDIR"] # <<>> /\ a.known["TRXDIR"][1] = HostLocal
    BY DEF PixelsDue
  <2> QED BY <1>1, <2>1 DEF PixelsAs, Shown
<1>6. /\ half \in Nat /\ 2 * half <= Len(value) /\ 2 * half \in Nat /\ p + half < total /\ p + 2 * half <= total
      /\ \A i \in 1 .. 2 * half : value[i] = m.pixels[p + i]
  <2>1. /\ p + half < total /\ p + 2 * half <= total
        /\ \A i \in 1 .. 2 * half : value[i] = m.pixels[p + i]
    BY DEF PixelsDue
  <2>2. half \in Nat /\ 2 * half <= Len(value) /\ 2 * half \in Nat
    OBVIOUS
  <2> QED BY <2>1, <2>2
<1>7. trxdir' = after.dir /\ data_written' = after.written /\ vram' = after.vram
  BY ImageWrites
<1> HIDE DEF half, m, base
<1>8. /\ one \in Seq(Nat) /\ Len(one) = half /\ \A i \in 1 .. Len(one) : one[i] = value[i]
      /\ two \in Seq(Nat) /\ Len(two) = half /\ \A i \in 1 .. Len(two) : two[i] = value[half + i]
  BY <1>6
<1>9. /\ \A i \in 1 .. Len(one) : one[i] = m.pixels[p + i]
      /\ \A i \in 1 .. Len(two) : two[i] = m.pixels[p + half + i]
  <2>1. ASSUME NEW i \in 1 .. half PROVE value[i] = m.pixels[p + i]
    <3>1. i \in 1 .. 2 * half
      BY <1>6
    <3> QED BY <1>6, <3>1
  <2>2. ASSUME NEW i \in 1 .. half PROVE value[half + i] = m.pixels[p + half + i]
    <3>1. half + i \in 1 .. 2 * half /\ p + (half + i) = p + half + i
      BY <1>1, <1>6
    <3> QED BY <1>6, <3>1
  <2> HIDE DEF one, two, p
  <2> QED BY <1>8, <2>1, <2>2
<1> DEFINE now == Now
<1>10. now.dir = HostLocal /\ now.halted = FALSE /\ now.written = p /\ now.vram = Over(Begun(m, p), base)
  BY <1>5 DEF Now
<1>11. first = HwReg(now, one)
  OBVIOUS
<1> HIDE DEF one, two, first, after, now, p
<1>12. /\ first.halted = FALSE /\ first.vram = Over(Begun(m, p + half), base)
       /\ first.dir = HostLocal /\ first.written = p + half
  <2>1. Reached(HwReg(now, one), m, p + Len(one), base)
    <3>1. Underway(now, m, p, base) /\ NextOf(one, m, p) /\ p \in Nat /\ one \in Seq(Nat)
      BY <1>1, <1>8, <1>9, <1>10 DEF Underway, NextOf
    <3>2. PICK s, under : s = now /\ under = base
      OBVIOUS
    <3>3. Underway(s, m, p, under)
      BY <3>1, <3>2
    <3>4. Reached(HwReg(s, one), m, p + Len(one), under)
      BY <1>2, <1>4, <3>1, <3>3, HalfShown
    <3> QED BY <3>2, <3>4
  <2>2. Reached(first, m, p + half, base)
    BY <1>8, <1>11, <2>1
  <2> QED BY <1>6, <2>2 DEF Reached, total
<1>13. p + half \in Nat /\ p + half + half = p + 2 * half
  BY <1>1, <1>6
<1>14. /\ after.vram = Over(Begun(m, p + 2 * half), base)
       /\ p + 2 * half < total => after.dir = HostLocal /\ after.written = p + 2 * half
       /\ p + 2 * half = total => after.dir = None /\ after.written = 0
  <2>1. PICK q \in Nat : q = p + half
    BY <1>13
  <2>2. Reached(HwReg(first, two), m, q + Len(two), base)
    <3>1. Underway(first, m, q, base) /\ NextOf(two, m, q) /\ two \in Seq(Nat)
      BY <1>8, <1>9, <1>12, <2>1 DEF Underway, NextOf
    <3>2. PICK s, under : s = first /\ under = base
      OBVIOUS
    <3>3. Underway(s, m, q, under)
      BY <3>1, <3>2
    <3>4. Reached(HwReg(s, two), m, q + Len(two), under)
      BY <1>2, <1>4, <3>1, <3>3, HalfShown
    <3> QED BY <3>2, <3>4
  <2>3. after = HwReg(first, two) /\ q + Len(two) = p + 2 * half
    BY <1>8, <1>13, <2>1 DEF after
  <2>4. Reached(after, m, p + 2 * half, base)
    BY <2>2, <2>3
  <2> QED BY <2>4 DEF Reached, total
<1>15. /\ b.sure = a.sure
       /\ p + 2 * half = total => b.images = a.images + 1 /\ b.pixels = 0 /\ b.known = [a.known EXCEPT !["TRXDIR"] = <<None>>]
       /\ p + 2 * half # total => b.images = a.images /\ b.pixels = p + 2 * half /\ b.known = a.known
  <2>1. PICK count \in Nat : count = 2 * half
    BY <1>6
  <2>2. Counted(a, PixelsSent(st, a, count), st.images[a.images + 1], count)
    BY <1>1, PixelsSentFields
  <2>3. Counted(a, b, m, 2 * half)
    BY <2>1, <2>2 DEF m
  <2> HIDE DEF b
  <2> QED BY <2>3 DEF Counted, p
<1>16. Shown(st, a.images, p + 2 * half) = Over(Begun(m, p + 2 * half), base)
  BY DEF Shown, m, base
<1>17. \A i, n : Shown(st, i, n)' = Shown(st, i, n)
  BY DEF Shown
<1>18. p + 2 * half = total \/ p + 2 * half < total
  <2>1. total \in Nat
    BY <1>2 DEF Fitting
  <2> HIDE DEF total
  <2>2. p \in Nat
    BY <1>1
  <2> QED BY <1>6, <2>1, <2>2
<1> HIDE DEF b
<1>19. CASE p + 2 * half = total
  <2>1. Shown(st, a.images, m.w * m.h) = Shown(st, a.images + 1, 0)
    BY <1>1, ShownWhole DEF m
  <2>2. vram' = Shown(st, b.images, b.pixels)
    BY <1>7, <1>14, <1>15, <1>16, <1>19, <2>1
  <2>3. b.known["TRXDIR"] = <<None>>
    BY <1>1, <1>15, <1>19
  <2>4. trxdir' = b.known["TRXDIR"][1] /\ data_written' = b.pixels
    BY <1>7, <1>14, <1>15, <1>19, <2>3
  <2>5. PixelsAs(st, b)'
    BY <1>17, <2>2, <2>4 DEF PixelsAs
  <2> QED BY <2>5 DEF b, half
<1>20. CASE p + 2 * half < total
  <2>1. p + 2 * half # total
    <3> HIDE DEF total
    <3>1. total \in Nat
      BY <1>2 DEF Fitting, total
    <3> QED BY <1>1, <1>6, <1>20, <3>1
  <2>2. vram' = Shown(st, b.images, b.pixels)
    BY <1>7, <1>14, <1>15, <1>16, <2>1
  <2>3. a.known["TRXDIR"][1] = HostLocal
    BY DEF PixelsDue
  <2>4. trxdir' = b.known["TRXDIR"][1] /\ data_written' = b.pixels
    BY <1>7, <1>14, <1>15, <1>20, <2>1, <2>3
  <2>5. PixelsAs(st, b)'
    BY <1>17, <2>2, <2>4 DEF PixelsAs
  <2> QED BY <2>5 DEF b, half
<1> QED BY <1>18, <1>19, <1>20

\* A write to any register keeps what is noted of images.
LEMMA WriteShown ==
  ASSUME NEW st, NEW a \in Notes(st), NEW b, FiguresOf(st), PixelsAs(st, a),
         NEW register, NEW value \in Seq(Nat),
         Noted(st, a, b, register, value), GsWrite(register, value), origin' = origin
  PROVE  gs_halted' \/ PixelsAs(st, b)'
<1>0. a.known \in [Stored \cup {"TRXDIR"} -> Seq(Nat)] /\ "TRXDIR" \notin Stored
  BY NoteByFields DEF Stored
<1>1. CASE register \in Stored
  <2>1. b = Learnt(a, register, value)
    BY <1>1, Zenon DEF Noted, Stored, Kicks
  <2>2. UNCHANGED transfer
    <3>1. UNCHANGED <<transfer, vqueue, renderer, frame, gs_halted>>
      BY <1>1, Zenon DEF GsWrite, Stored, Kicks
    <3> QED BY <3>1
  <2>3. /\ b.known = [a.known EXCEPT ![register] = value]
        /\ b.images = a.images /\ b.pixels = a.pixels /\ b.sure = a.sure
    BY <1>1, <2>1, LearntFields
  <2>4. b.known["TRXDIR"] = a.known["TRXDIR"]
    BY <1>0, <1>1, <2>3
  <2> QED BY <2>2, <2>3, <2>4, PixelsKeep
<1>2. CASE register \in Kicks \cup {"XYZ3"}
  <2>1. VertexDue(st, a, register, value) /\ b = VertexSent(st, a)
    BY <1>2, Zenon DEF Noted, Stored, Kicks
  <2>2. ProcessVertex(value, TRUE) \/ ProcessVertex(value, FALSE)
    BY <1>2, Zenon DEF GsWrite, Stored, Kicks
  <2>3. UNCHANGED transfer
    <3>1. \A kick : ProcessVertex(value, kick) => UNCHANGED <<regs, transfer, depth, draws, late, frame, gs_halted>>
      BY DEF ProcessVertex
    <3>2. UNCHANGED <<regs, transfer, depth, draws, late, frame, gs_halted>>
      BY <2>2, <3>1, Zenon
    <3> QED BY <3>2
  <2>4. a.figures < Len(st.figures)
    BY <2>1 DEF VertexDue
  <2>5. b.known = a.known /\ b.images = a.images /\ b.pixels = a.pixels /\ b.sure = a.sure
    BY <2>1, <2>4, VertexSentFields
  <2> QED BY <2>3, <2>5, PixelsKeep
<1>3. CASE register = "TEST"
  <2>1. value[1] # 2 => b = a
    BY <1>3, Zenon DEF Noted, Stored, Kicks
  <2>2. WriteTest(value[1]) \/ GsHalt
    BY <1>3, Zenon DEF GsWrite, Stored, Kicks
  <2>3. CASE WriteTest(value[1])
    <3>1. value[1] \in {0, 1, 3} /\ UNCHANGED <<regs, transfer, vqueue, draw_data, submitted, frame, gs_halted>>
      BY <2>3 DEF WriteTest
    <3>2. b = a
      BY <2>1, <3>1
    <3> QED BY <3>1, <3>2, PixelsKeep
  <2>4. CASE GsHalt
    BY <2>4 DEF GsHalt
  <2> QED BY <2>2, <2>3, <2>4
<1>4. CASE register = "TRXDIR"
  <2>1. b = Learnt(a, "TRXDIR", value) /\ a.pixels = 0
    BY <1>4, Zenon DEF Noted, Stored, Kicks
  <2>2. trxdir' = value[1] /\ data_written' = 0 /\ vram' = vram
    <3>1. trxdir' = value[1] /\ data_written' = 0 /\ UNCHANGED <<regs, vram, vqueue, renderer, frame, gs_halted>>
      BY <1>4, Zenon DEF GsWrite, Stored, Kicks
    <3> QED BY <3>1
  <2>3. /\ b.known = [a.known EXCEPT !["TRXDIR"] = value]
        /\ b.images = a.images /\ b.pixels = a.pixels /\ b.sure = a.sure
    BY <2>1, LearntFields
  <2>4. b.known["TRXDIR"] = value
    BY <1>0, <2>3
  <2>5. Shown(st, a.images, a.pixels)' = Shown(st, a.images, a.pixels)
    BY DEF Shown
  <2> QED BY <2>1, <2>2, <2>3, <2>4, <2>5 DEF PixelsAs
<1>5. CASE register \in {"XYZF3", "UNKNOWN"}
  <2>1. GsHalt
    BY <1>5, Zenon DEF GsWrite, Stored, Kicks
  <2> QED BY <2>1 DEF GsHalt
<1> QED BY <1>1, <1>2, <1>3, <1>4, <1>5 DEF Noted

\* All of a note.
SentAs(st, a) == DrawnAs(st, a) /\ PixelsAs(st, a)

\* A quadword of an image takes what is noted before it to what is noted behind it.
LEMMA ImageSent ==
  ASSUME NEW st, NEW a \in Notes(st), NEW b, FiguresOf(st), ImagesOf(st), GsTypeOK, SentAs(st, a),
         NEW value \in Seq(Nat), Len(value) >= 4, ImageNoted(st, a, b, value), GsImage(value), origin' = origin
  PROVE  gs_halted' \/ SentAs(st, b)'
<1>0. DrawnAs(st, a) /\ PixelsAs(st, a)
  BY DEF SentAs
<1>1. regs' = regs /\ vqueue' = vqueue /\ submitted' = submitted
  <2>1. UNCHANGED <<regs, vqueue, renderer, frame>>
    BY ImageWrites
  <2> QED BY <2>1 DEF renderer
<1>2. CASE PixelsDue(st, a, value) /\ b = PixelsSent(st, a, 2 * (Len(value) \div 2))
  <2>1. PixelsAs(st, b)'
    <3>1. KnownAs(a)
      BY <1>0 DEF DrawnAs
    <3>2. PixelsAs(st, PixelsSent(st, a, 2 * (Len(value) \div 2)))'
      BY <1>0, <1>2, <3>1, PixelsNoted
    <3> QED BY <1>2, <3>2
  <2>2. /\ b.figures = a.figures /\ b.vertices = a.vertices
        /\ \A r \in Stored : b.known[r] = a.known[r]
    <3>1. PICK count \in Nat : count = 2 * (Len(value) \div 2)
      OBVIOUS
    <3>2. a.images < Len(st.images) /\ Len(st.images) \in Nat
      BY <1>2 DEF PixelsDue, ImagesOf
    <3>3. Counted(a, PixelsSent(st, a, count), st.images[a.images + 1], count)
      BY <3>2, PixelsSentFields
    <3>4. Counted(a, b, st.images[a.images + 1], count)
      BY <1>2, <3>1, <3>3
    <3>5. /\ b.figures = a.figures /\ b.vertices = a.vertices
          /\ b.known = [a.known EXCEPT !["TRXDIR"] = <<None>>] \/ b.known = a.known
      BY <3>4, Zenon DEF Counted
    <3>6. a.known \in [Stored \cup {"TRXDIR"} -> Seq(Nat)] /\ "TRXDIR" \notin Stored
      BY NoteByFields DEF Stored
    <3> QED BY <3>5, <3>6
  <2>3. DrawnAs(st, b)'
    BY <1>0, <1>1, <2>2, DrawnKeeps
  <2> QED BY <2>1, <2>3 DEF SentAs
<1>3. CASE b = [a EXCEPT !.sure = FALSE]
  <2>1. a = NoteOf(a.known, a.figures, a.vertices, a.images, a.pixels, a.sure)
    BY NoteByFields
  <2>2. b.sure = FALSE /\ b.known = a.known /\ b.figures = a.figures /\ b.vertices = a.vertices
    BY <1>3, <2>1 DEF NoteOf
  <2>3. DrawnAs(st, b)'
    BY <1>0, <1>1, <2>2, DrawnKeeps
  <2> QED BY <2>2, <2>3 DEF SentAs, PixelsAs
<1>4. CASE a.sure /\ a.known["TRXDIR"] # <<>> /\ a.known["TRXDIR"][1] # HostLocal
  <2>1. trxdir # HostLocal
    BY <1>0, <1>4 DEF PixelsAs
  <2> QED BY <2>1, ImageRefused
<1> QED BY <1>2, <1>3, <1>4 DEF ImageNoted

\* So does a write to any register.
LEMMA WriteSent ==
  ASSUME NEW st, NEW a \in Notes(st), NEW b, FiguresOf(st), GsTypeOK, SentAs(st, a),
         NEW register, NEW value \in Seq(Nat), Len(value) >= 4,
         Noted(st, a, b, register, value), GsWrite(register, value), origin' = origin
  PROVE  gs_halted' \/ SentAs(st, b)'
<1>1. DrawnAs(st, a) /\ PixelsAs(st, a)
  BY DEF SentAs
<1>2. gs_halted' \/ DrawnAs(st, b)'
  BY <1>1, WriteNoted
<1>3. gs_halted' \/ PixelsAs(st, b)'
  BY <1>1, WriteShown
<1> QED BY <1>2, <1>3 DEF SentAs

\* What a note says holds where nothing it speaks of changes.
LEMMA SentKeeps ==
  ASSUME NEW st, NEW a, SentAs(st, a), UNCHANGED <<regs, transfer, vqueue, submitted, origin>>
  PROVE  SentAs(st, a)'
<1>1. DrawnAs(st, a)'
  BY DrawnKeeps DEF SentAs
<1>2. PixelsAs(st, a)'
  BY PixelsKeep DEF SentAs
<1> QED BY <1>1, <1>2 DEF SentAs

\* Where nothing of a stream was sent, a program knows nothing.
LEMMA BlankSent ==
  ASSUME NEW st, FiguresOf(st), ImagesOf(st), vqueue = <<>>, origin = [submitted |-> Len(submitted), vram |-> vram],
         submitted \in Seq(Tested), vram = [l \in DOMAIN vram |-> vram[l]]
  PROVE  SentAs(st, Blank)
<1>1. /\ Blank.known = [r \in Stored \cup {"TRXDIR"} |-> <<>>] /\ Blank.figures = 0 /\ Blank.vertices = 0
      /\ Blank.images = 0 /\ Blank.pixels = 0
  BY DEF Blank
<1>2. KnownAs(Blank)
  BY <1>1 DEF KnownAs
<1>3. QueuedAs(st, Blank)
  <2>1. WaitsAs(st.figures[Blank.figures + 1], 0, <<>>)
    BY DEF WaitsAs
  <2> QED BY <1>1, <2>1 DEF QueuedAs
<1>4. HandedAs(st, Blank)
  <2>1. Upto(FigureTriangles(st), 0) = <<>>
    BY FigureTrianglesType, UptoEnds
  <2>2. origin.submitted = Len(submitted) /\ Len(submitted) \in Nat
    OBVIOUS
  <2>3. Triangulates(submitted, Len(submitted), <<>>)
    <3>1. Len(submitted) = Len(submitted) + 3 * 0
      BY <2>2
    <3> QED BY <3>1 DEF Triangulates
  <2> QED BY <1>1, <2>1, <2>2, <2>3 DEF HandedAs
<1>5. PixelsAs(st, Blank)
  <2> DEFINE painted == Painted(SubSeq(st.images, 1, 0))
             base == Over(painted, origin.vram)
             v == vram
  <2>1. DOMAIN painted = {}
    BY PaintedNone DEF ImagesOf
  <2>2. Shown(st, 0, 0) = Over(Begun(st.images[0 + 1], 0), base)
    BY DEF Shown
  <2>3. origin.vram = v /\ v = [l \in DOMAIN v |-> v[l]]
    OBVIOUS
  <2> HIDE DEF painted, v
  <2>4. base = [l \in DOMAIN v |-> v[l]]
    BY <2>1, <2>3 DEF Over
  <2> HIDE DEF base
  <2>5. base = v /\ base = [l \in DOMAIN base |-> base[l]]
    BY <2>3, <2>4
  <2>6. Over(Begun(st.images[0 + 1], 0), base) = base
    BY <2>5, BegunNone
  <2>7. vram = Shown(st, 0, 0)
    BY <2>2, <2>5, <2>6 DEF v
  <2>8. Blank.known["TRXDIR"] = <<>>
    BY <1>1
  <2> QED BY <1>1, <2>7, <2>8 DEF PixelsAs
<1> QED BY <1>2, <1>3, <1>4, <1>5 DEF SentAs, DrawnAs

-----------------------------------------------------------------------------
(* The note of each quadword is the one of the place the GIF has reached.  *)

St       == GifStreams[stream]
NoteHere == St.notes[Taken + 1]

\* VRAM is a function, and what the program noted last is true.
NotesInv == vram = [l \in DOMAIN vram |-> vram[l]] /\ (~gs_halted => SentAs(St, NoteHere))

\* The stream being sent, with its notes.
LEMMA StreamNotes ==
  ASSUME stream \in DOMAIN GifStreams
  PROVE  /\ FiguresOf(St) /\ ImagesOf(St)
         /\ St.notes \in Seq(Notes(St)) /\ Len(St.notes) = GifLength + 1 /\ St.notes[1] = Blank
         /\ St.notes[GifLength + 1].figures = Len(St.figures) /\ St.notes[GifLength + 1].images = Len(St.images)
         /\ St.notes[GifLength + 1].pixels = 0 /\ St.notes[GifLength + 1].sure
         /\ \A k \in DOMAIN Packets : PacketNoted(St, Packets[k], FirstOf(k))
<1>1. /\ St.figures \in Seq(FigureRecords) /\ St.images \in Seq(ImageRecords)
      /\ \A m \in DOMAIN St.images :
           /\ Len(St.images[m].pixels) = St.images[m].w * St.images[m].h
           /\ St.images[m].x + St.images[m].w <= 64 * St.images[m].width
      /\ St.notes \in Seq(Notes(St)) /\ Len(St.notes) = GifLength + 1 /\ St.notes[1] = Blank
      /\ St.notes[GifLength + 1].figures = Len(St.figures) /\ St.notes[GifLength + 1].images = Len(St.images)
      /\ St.notes[GifLength + 1].pixels = 0 /\ St.notes[GifLength + 1].sure
      /\ \A k \in DOMAIN St.packets : PacketNoted(St, St.packets[k], FirstOfs[stream][k])
  BY GifNotesAssumption, Zenon DEF St, GifLength
<1>2. FiguresOf(St)
  BY <1>1 DEF FiguresOf
<1>3. ImagesOf(St)
  <2> DEFINE images == St.images
  <2>1. /\ images \in Seq(ImageRecords)
        /\ \A m \in DOMAIN images : /\ Len(images[m].pixels) = images[m].w * images[m].h
                                    /\ images[m].x + images[m].w <= 64 * images[m].width
    BY <1>1
  <2> HIDE DEF images
  <2>2. ASSUME NEW m \in DOMAIN images PROVE Fitting(images[m])
    <3>1. images[m] \in ImageRecords
      BY <2>1
    <3> QED BY <2>1, <3>1 DEF ImageRecords, Fitting
  <2> QED BY <2>1, <2>2 DEF images, ImagesOf
<1>4. \A k \in DOMAIN Packets : PacketNoted(St, Packets[k], FirstOf(k))
  BY <1>1 DEF Packets, FirstOf, St
<1> QED BY <1>1, <1>2, <1>3, <1>4

\* The loop and the descriptor of the next quadword of a packed body.
LEMMA LoopAndDesc ==
  ASSUME NEW nloop \in Nat, NEW d \in Nat, d >= 1, NEW L \in Nat, NEW r \in 1 .. L, NEW i \in 1 .. nloop * L,
         i + ((d - 1) * L + r) = nloop * L + 1
  PROVE  nloop - d \in 0 .. nloop - 1 /\ L - r + 1 \in 1 .. L /\ i = (nloop - d) * L + (L - r + 1)
<1>1. L >= 1 /\ L - r + 1 \in 1 .. L
  OBVIOUS
<1>2. d <= nloop
  <2> SUFFICES ASSUME d > nloop PROVE FALSE
    OBVIOUS
  <2>1. PICK e \in Nat : d = nloop + 1 + e
    <3>1. d - nloop - 1 \in Nat /\ d = nloop + 1 + (d - nloop - 1)
      OBVIOUS
    <3> QED BY <3>1
  <2>2. (d - 1) * L = nloop * L + e * L /\ e * L \in Nat /\ nloop * L \in Nat
    BY <2>1
  <2> QED BY <2>2
<1>3. PICK e \in Nat : nloop = d + e
  <2>1. nloop - d \in Nat /\ nloop = d + (nloop - d)
    BY <1>2
  <2> QED BY <2>1
<1>4. nloop * L = (d - 1) * L + L + e * L /\ nloop - d = e /\ (d - 1) * L \in Nat /\ e * L \in Nat
  BY <1>3
<1>5. i = e * L + (L - r + 1)
  BY <1>4
<1> QED BY <1>1, <1>3, <1>4, <1>5

\* The notes of a packet.
Note(st, first, i) == st.notes[first + 1 + i]

\* What a tag does is noted.
LEMMA TagNoted ==
  ASSUME NEW st, NEW p, NEW first \in Nat, PacketNoted(st, p, first)
  PROVE  st.notes[first + 2] =
           IF p.head.pre THEN Learnt(st.notes[first + 1], "PRIM", <<p.head.prim>>) ELSE st.notes[first + 1]
<1>1. Note(st, first, 1) =
        IF p.head.pre THEN Learnt(Note(st, first, 0), "PRIM", <<p.head.prim>>) ELSE Note(st, first, 0)
  BY Zenon DEF PacketNoted, Note
<1>2. first + 1 + 1 = first + 2 /\ first + 1 + 0 = first + 1
  OBVIOUS
<1> QED BY <1>1, <1>2 DEF Note

\* The notes before and behind the i-th quadword of a body.
LEMMA NotePlaces ==
  ASSUME NEW first \in Nat, NEW i \in Nat
  PROVE  first + 1 + i = first + i + 1 /\ first + 1 + (i + 1) = first + i + 2
OBVIOUS

\* So is what each quadword of a packed body does.
LEMMA PackedNoted ==
  ASSUME NEW st, NEW p, NEW first \in Nat, PacketNoted(st, p, first), p.head.flg = "Packed",
         NEW loop \in 0 .. p.head.nloop - 1, NEW j \in DOMAIN p.head.regs, NEW i \in Nat, i = loop * Len(p.head.regs) + j
  PROVE  Noted(st, st.notes[first + i + 1], st.notes[first + i + 2],
               Addressed(p.head.regs[j], p.body[i]), p.body[i].value)
<1> DEFINE at == loop * Len(p.head.regs) + j
<1>1. Noted(st, Note(st, first, at), Note(st, first, at + 1), Addressed(p.head.regs[j], p.body[at]), p.body[at].value)
  BY Zenon DEF PacketNoted, Note
<1>2. at = i
  OBVIOUS
<1> HIDE DEF at
<1>3. first + 1 + at = first + i + 1 /\ first + 1 + (at + 1) = first + i + 2
  BY <1>2, NotePlaces
<1> QED BY <1>1, <1>2, <1>3 DEF Note

\* And what each quadword of an image does.
LEMMA ImagesNoted ==
  ASSUME NEW st, NEW p, NEW first \in Nat, PacketNoted(st, p, first), p.head.flg = "Image",
         NEW i \in DOMAIN p.body, i \in Nat
  PROVE  ImageNoted(st, st.notes[first + i + 1], st.notes[first + i + 2], p.body[i].value)
<1>1. ImageNoted(st, Note(st, first, i), Note(st, first, i + 1), p.body[i].value)
  BY Zenon DEF PacketNoted, Note
<1>2. first + 1 + i = first + i + 1 /\ first + 1 + (i + 1) = first + i + 2
  BY NotePlaces
<1> QED BY <1>1, <1>2 DEF Note

\* What holds of the note reached holds of the note there.
LEMMA SentThere ==
  ASSUME NEW st, NEW b, St' = st, NoteHere' = b, SentAs(st, b)'
  PROVE  SentAs(St, NoteHere)'
BY Zenon DEF SentAs, DrawnAs, KnownAs, QueuedAs, HandedAs, PixelsAs, Shown

\* The note of the quadword that is taken, and the next one.
LEMMA NotesTaken ==
  ASSUME GifInv, Takes
  PROVE  /\ St' = St /\ NoteHere \in Notes(St) /\ NoteHere' = St.notes[Taken + 2] /\ FiguresOf(St) /\ ImagesOf(St)
         /\ stream \in DOMAIN GifStreams /\ origin' = origin /\ ~gs_halted
<1>1. /\ Taken \in Nat /\ Taken < GifLength /\ GifLength \in Nat /\ Taken' = Taken + 1 /\ stream' = stream /\ ~gs_halted
  BY TakesInv
<1>2. stream \in DOMAIN GifStreams
  BY ParserTypes
<1>3. St.notes \in Seq(Notes(St)) /\ Len(St.notes) = GifLength + 1 /\ FiguresOf(St) /\ ImagesOf(St)
  BY <1>2, StreamNotes
<1>4. St' = St
  BY <1>1 DEF St
<1>5. NoteHere \in Notes(St)
  <2> DEFINE notes == St.notes
  <2>1. notes \in Seq(Notes(St)) /\ Len(notes) = GifLength + 1
    BY <1>3
  <2>2. Taken + 1 \in 1 .. GifLength + 1
    BY <1>1
  <2> HIDE DEF notes
  <2>3. notes[Taken + 1] \in Notes(St)
    BY <2>1, <2>2
  <2> QED BY <2>3 DEF notes, NoteHere
<1>6. NoteHere' = St.notes[Taken + 2]
  <2>1. NoteHere' = (St').notes[Taken' + 1]
    BY DEF NoteHere
  <2>2. Taken + 1 + 1 = Taken + 2
    BY <1>1
  <2> QED BY <1>1, <1>4, <2>1, <2>2
<1>7. origin' = origin
  BY DEF Takes, gifSender
<1> QED BY <1>1, <1>2, <1>3, <1>4, <1>5, <1>6, <1>7

\* process_tag.
LEMMA ProcessTagSent ==
  ASSUME GifInv, NotesInv, ProcessTag
  PROVE  NotesInv'
<1>1. /\ data_count = 0 /\ Takes
      /\ regs' = IF Qword.pre THEN [regs EXCEPT !["PRIM"] = <<Qword.prim>>] ELSE regs
      /\ UNCHANGED <<transfer, vqueue, renderer, frame, gs_halted>>
  BY DEF ProcessTag
<1>2. PICK k \in DOMAIN Packets : Taken = FirstOf(k) /\ Qword = Packets[k].head
  BY <1>1, TagHere
<1>3. /\ St' = St /\ NoteHere \in Notes(St) /\ NoteHere' = St.notes[Taken + 2] /\ FiguresOf(St) /\ ImagesOf(St)
      /\ stream \in DOMAIN GifStreams /\ origin' = origin /\ ~gs_halted
  BY <1>1, NotesTaken
<1>4. SentAs(St, NoteHere) /\ vram = [l \in DOMAIN vram |-> vram[l]] /\ GsTypeOK
  BY <1>3 DEF NotesInv, GifInv, FramesOK
<1>5. PICK st, a, b, p, first, q :
        st = St /\ a = NoteHere /\ b = St.notes[Taken + 2] /\ p = Packets[k] /\ first = FirstOf(k) /\ q = Qword
  OBVIOUS
<1>6. a \in Notes(st) /\ FiguresOf(st) /\ SentAs(st, a)
  BY <1>3, <1>4, <1>5
<1>7. b = IF q.pre THEN Learnt(a, "PRIM", <<q.prim>>) ELSE a
  <2>1. PacketNoted(st, p, first) /\ first \in Nat
    <3>1. PacketNoted(st, p, first)
      BY <1>3, <1>5, StreamNotes
    <3>2. Taken \in Nat
      BY <1>1, TakesInv
    <3> QED BY <1>2, <1>5, <3>1, <3>2
  <2>2. st.notes[first + 2] =
          IF p.head.pre THEN Learnt(st.notes[first + 1], "PRIM", <<p.head.prim>>) ELSE st.notes[first + 1]
    BY <2>1, TagNoted
  <2>3. first = Taken /\ st.notes[first + 1] = a /\ st.notes[first + 2] = b /\ p.head = q
    BY <1>2, <1>5 DEF NoteHere
  <2> QED BY <2>2, <2>3
<1>8. regs' = (IF q.pre THEN [regs EXCEPT !["PRIM"] = <<q.prim>>] ELSE regs) /\ origin' = origin
      /\ vqueue' = vqueue /\ submitted' = submitted /\ UNCHANGED transfer
  BY <1>1, <1>3, <1>5 DEF renderer
<1>9. SentAs(st, b)'
  <2>1. CASE q.pre
    <3>1. <<q.prim>> \in Seq(Nat)
      <4>1. Qword \in Quadword
        BY <1>1, TakesInv
      <4>2. q.prim \in Nat
        BY <1>5, <4>1 DEF Quadword
      <4> QED BY <4>2
    <3>2. PICK register \in Stored, value \in Seq(Nat) : register = "PRIM" /\ value = <<q.prim>>
      BY <3>1 DEF Stored
    <3>3. b = Learnt(a, register, value) /\ regs' = [regs EXCEPT ![register] = value]
      BY <1>7, <1>8, <2>1, <3>2
    <3>4. DrawnAs(st, Learnt(a, register, value))'
      <4>1. DrawnAs(st, a)
        BY <1>6 DEF SentAs
      <4> QED BY <1>4, <1>6, <1>8, <3>3, <4>1, StoreNoted
    <3>5. PixelsAs(st, b)'
      <4>1. PixelsAs(st, a)
        BY <1>6 DEF SentAs
      <4>2. register \in Stored \cup {"TRXDIR"} /\ register # "TRXDIR"
        BY <3>2
      <4>3. /\ b.known = [a.known EXCEPT ![register] = value]
            /\ b.images = a.images /\ b.pixels = a.pixels /\ b.sure = a.sure
        BY <1>6, <3>3, <4>2, LearntFields
      <4>4. a.known \in [Stored \cup {"TRXDIR"} -> Seq(Nat)]
        BY <1>6, NoteByFields
      <4>5. b.known["TRXDIR"] = a.known["TRXDIR"]
        BY <4>2, <4>3, <4>4
      <4> QED BY <1>8, <4>1, <4>3, <4>5, PixelsKeep
    <3> QED BY <3>3, <3>4, <3>5 DEF SentAs
  <2>2. CASE ~q.pre
    <3>1. b = a /\ regs' = regs
      BY <1>7, <1>8, <2>2
    <3> QED BY <1>6, <1>8, <3>1, SentKeeps
  <2> QED BY <2>1, <2>2
<1>10. SentAs(St, NoteHere)'
  <2>1. St' = st /\ NoteHere' = b
    BY <1>3, <1>5
  <2> QED BY <1>9, <2>1, SentThere
<1>11. vram' = vram
  BY <1>8 DEF transfer
<1> QED BY <1>4, <1>10, <1>11 DEF NotesInv

\* A write to a register leaves VRAM alone.
LEMMA WriteLeavesVram ==
  ASSUME NEW register, NEW value, GsWrite(register, value)
  PROVE  vram' = vram
<1>1. \A kick : ProcessVertex(value, kick) => UNCHANGED <<regs, transfer, depth, draws, late, frame, gs_halted>>
  BY DEF ProcessVertex
<1>2. WriteTest(value[1]) => UNCHANGED transfer
  BY DEF WriteTest
<1>3. GsHalt => UNCHANGED transfer
  BY DEF GsHalt
<1>4. \A kick : ProcessVertex(value, kick) => UNCHANGED transfer
  BY <1>1
<1>5. CASE UNCHANGED transfer
  BY <1>5 DEF transfer
<1>6. UNCHANGED transfer \/ vram' = vram
  BY <1>2, <1>3, <1>4 DEF GsWrite
<1> QED BY <1>5, <1>6

\* A packed quadword.
LEMMA PackedSent ==
  ASSUME GifInv, NotesInv, Packed
  PROVE  NotesInv'
<1> DEFINE L == Len(tag.regs)
           desc == tag.regs[L - reg_count + 1]
           register == Addressed(desc, Qword)
<1>1. data_count > 0 /\ tag.flg = "Packed" /\ Takes /\ GsWrite(register, Qword.value)
  BY DEF Packed
<1>2. /\ St' = St /\ NoteHere \in Notes(St) /\ NoteHere' = St.notes[Taken + 2] /\ FiguresOf(St) /\ ImagesOf(St)
      /\ stream \in DOMAIN GifStreams /\ origin' = origin /\ ~gs_halted
  BY <1>1, NotesTaken
<1>3. SentAs(St, NoteHere) /\ vram = [l \in DOMAIN vram |-> vram[l]] /\ GsTypeOK
  BY <1>2 DEF NotesInv, GifInv, FramesOK
<1>4. /\ data_count \in Nat /\ data_count # 0 /\ data_count >= 1 /\ reg_count \in Nat /\ reg_count <= L /\ L \in Nat
      /\ tag.nloop \in Nat
  BY <1>1, ParserTypes
<1>5. reg_count \in 1 .. L
  BY <1>1, <1>2, <1>4 DEF GifInv, GifPlace
<1>6. PICK k \in DOMAIN Packets : \E i \in 1 .. Announced(Packets[k].head) :
        /\ tag = Packets[k].head /\ Taken = FirstOf(k) + i /\ FirstOf(k) \in Nat
        /\ Qword = Packets[k].body[i] /\ i + Remaining = Announced(Packets[k].head) + 1
        /\ Announced(Packets[k].head) \in Nat /\ DOMAIN Packets[k].body = 1 .. Announced(Packets[k].head)
  BY <1>1, <1>4, BodyQword
<1>7. PICK i \in 1 .. Announced(Packets[k].head) :
        /\ tag = Packets[k].head /\ Taken = FirstOf(k) + i /\ FirstOf(k) \in Nat
        /\ Qword = Packets[k].body[i] /\ i + Remaining = Announced(Packets[k].head) + 1
        /\ Announced(Packets[k].head) \in Nat
  BY <1>6
<1>8. PICK st, a, b, p, first, value, reg :
        /\ st = St /\ a = NoteHere /\ b = St.notes[Taken + 2] /\ p = Packets[k] /\ first = FirstOf(k)
        /\ value = Qword.value /\ reg = register
  OBVIOUS
<1>9. a \in Notes(st) /\ FiguresOf(st) /\ SentAs(st, a)
  BY <1>2, <1>3, <1>8
<1>10. value \in Seq(Nat) /\ Len(value) >= 4
  BY <1>1, <1>4, <1>8, DataQword
<1>11. Noted(st, a, b, reg, value)
  <2>1. PacketNoted(st, p, first) /\ first \in Nat /\ p.head.flg = "Packed" /\ p.head = tag
    <3>1. PacketNoted(st, p, first)
      BY <1>2, <1>8, StreamNotes
    <3> QED BY <1>1, <1>7, <1>8, <3>1
  <2>2. PICK nloop \in Nat, len \in Nat, d \in Nat, r \in Nat :
          nloop = tag.nloop /\ len = L /\ d = data_count /\ r = reg_count /\ r \in 1 .. len
    BY <1>4, <1>5
  <2>3. Announced(Packets[k].head) = nloop * len
    BY <1>1, <1>7, <2>2 DEF Announced
  <2>4. Remaining = (d - 1) * len + r
    BY <1>1, <2>2 DEF Remaining
  <2>5. i \in 1 .. nloop * len /\ i + ((d - 1) * len + r) = nloop * len + 1 /\ d >= 1
    BY <1>4, <1>7, <2>2, <2>3, <2>4
  <2>6. nloop - d \in 0 .. nloop - 1 /\ len - r + 1 \in 1 .. len /\ i = (nloop - d) * len + (len - r + 1)
    <3>1. r \in 1 .. len /\ d >= 1 /\ i \in 1 .. nloop * len /\ i + ((d - 1) * len + r) = nloop * len + 1
      BY <2>2, <2>5
    <3>2. nloop \in Nat /\ d \in Nat /\ len \in Nat
      BY <2>2
    <3> QED BY <3>1, <3>2, LoopAndDesc
  <2>7. PICK loop \in 0 .. nloop - 1, j \in 1 .. len : loop = nloop - d /\ j = len - r + 1
    BY <2>6
  <2>8. i = loop * len + j /\ i \in Nat
    BY <2>5, <2>6, <2>7
  <2>9. loop \in 0 .. p.head.nloop - 1 /\ j \in DOMAIN p.head.regs /\ Len(p.head.regs) = len
    <3>1. DOMAIN tag.regs = 1 .. len
      <4>1. tag.regs \in Seq(RegDescs)
        BY ParserTypes
      <4> QED BY <2>2, <4>1
    <3> QED BY <2>1, <2>2, <2>7, <3>1
  <2>10. i = loop * Len(p.head.regs) + j
    BY <2>8, <2>9
  <2>11. Noted(st, st.notes[first + i + 1], st.notes[first + i + 2],
               Addressed(p.head.regs[j], p.body[i]), p.body[i].value)
    BY <2>1, <2>8, <2>9, <2>10, PackedNoted
  <2>12. reg = Addressed(p.head.regs[j], p.body[i]) /\ value = p.body[i].value
    <3>1. j = L - reg_count + 1 /\ p.head.regs = tag.regs /\ p.body[i] = Qword
      BY <1>7, <1>8, <2>1, <2>2, <2>7
    <3> QED BY <1>8, <3>1
  <2>13. a = st.notes[first + i + 1] /\ b = st.notes[first + i + 2]
    BY <1>7, <1>8 DEF NoteHere
  <2> QED BY <2>11, <2>12, <2>13
<1>12. gs_halted' \/ SentAs(st, b)'
  <2>1. GsWrite(reg, value) /\ origin' = origin
    BY <1>1, <1>2, <1>8
  <2> QED BY <1>3, <1>9, <1>10, <1>11, <2>1, WriteSent
<1>13. gs_halted' \/ SentAs(St, NoteHere)'
  <2>1. St' = st /\ NoteHere' = b
    BY <1>2, <1>8
  <2> QED BY <1>12, <2>1, SentThere
<1>14. vram' = vram
  BY <1>1, WriteLeavesVram
<1> QED BY <1>3, <1>13, <1>14 DEF NotesInv

\* What reaches VRAM leaves a function of the places there.
LEMMA VramIsFunction ==
  ASSUME NEW pixels, GsImage(pixels), vram = [l \in DOMAIN vram |-> vram[l]]
  PROVE  (vram = [l \in DOMAIN vram |-> vram[l]])'
<1> DEFINE half  == Len(pixels) \div 2
           one   == SubSeq(pixels, 1, half)
           two   == SubSeq(pixels, half + 1, 2 * half)
           first == HwReg(Now, one)
           after == HwReg(first, two)
           Whole(f) == f = [l \in DOMAIN f |-> f[l]]
<1>1. vram' = after.vram
  BY ImageWrites
<1>2. \A s, px : s.halted \/ s.dir # HostLocal \/ regs["BITBLTBUF"][3] \notin {PSMCT32, PSMCT16}
        => HwReg(s, px) = [s EXCEPT !.halted = TRUE]
  BY DEF HwReg
<1>3. \A s, px : ~(s.halted \/ s.dir # HostLocal \/ regs["BITBLTBUF"][3] \notin {PSMCT32, PSMCT16})
        => HwReg(s, px).vram = Over(Written(s.written, px), s.vram)
  BY DEF HwReg
<1>4. \A f, g : Whole(Over(f, g))
  BY OverIsFunction
<1>5. Whole(vram)
  OBVIOUS
<1> HIDE DEF half, one, two
<1>6. /\ first.vram = vram \/ Whole(first.vram)
      /\ first = [Now EXCEPT !.halted = TRUE]
           \/ ~(Now.halted \/ Now.dir # HostLocal \/ regs["BITBLTBUF"][3] \notin {PSMCT32, PSMCT16})
  <2>1. first = [Now EXCEPT !.halted = TRUE] => first.vram = vram
    BY DEF Now
  <2>2. first = [Now EXCEPT !.halted = TRUE] \/ first.vram = Over(Written(Now.written, one), Now.vram)
    BY <1>2, <1>3
  <2> HIDE DEF first, Whole
  <2> QED BY <1>2, <1>4, <2>1, <2>2 DEF first
<1>7. Whole(first.vram)
  <2> HIDE DEF first, Whole
  <2> QED BY <1>5, <1>6
<1>8. after.vram = first.vram \/ Whole(after.vram)
  <2>1. CASE first.halted \/ first.dir # HostLocal \/ regs["BITBLTBUF"][3] \notin {PSMCT32, PSMCT16}
    <3>1. after = [first EXCEPT !.halted = TRUE]
      BY <1>2, <2>1
    <3> HIDE DEF first, after, Whole
    <3>2. "vram" \in DOMAIN first => after.vram = first.vram
      BY <3>1
    <3>3. "vram" \in DOMAIN first
      <4>1. first = [Now EXCEPT !.halted = TRUE] => "vram" \in DOMAIN first
        BY DEF Now
      <4>2. ~(Now.halted \/ Now.dir # HostLocal \/ regs["BITBLTBUF"][3] \notin {PSMCT32, PSMCT16}) =>
              "vram" \in DOMAIN first
        BY DEF first, HwReg
      <4> QED BY <1>6, <4>1, <4>2
    <3> QED BY <3>2, <3>3
  <2>2. CASE ~(first.halted \/ first.dir # HostLocal \/ regs["BITBLTBUF"][3] \notin {PSMCT32, PSMCT16})
    <3>1. after.vram = Over(Written(first.written, two), first.vram)
      BY <1>3, <2>2
    <3> HIDE DEF first, after, Whole
    <3> QED BY <1>4, <3>1
  <2> QED BY <2>1, <2>2
<1>9. Whole(after.vram)
  <2> HIDE DEF first, after, Whole
  <2> QED BY <1>7, <1>8
<1> HIDE DEF after
<1>10. Whole(vram')
  BY <1>1, <1>9
<1> QED BY <1>10

\* A quadword of an image.
LEMMA ImageTaken ==
  ASSUME GifInv, NotesInv, Image
  PROVE  NotesInv'
<1>1. data_count > 0 /\ tag.flg = "Image" /\ Takes /\ GsImage(Qword.value)
  BY DEF Image
<1>2. /\ St' = St /\ NoteHere \in Notes(St) /\ NoteHere' = St.notes[Taken + 2] /\ FiguresOf(St) /\ ImagesOf(St)
      /\ stream \in DOMAIN GifStreams /\ origin' = origin /\ ~gs_halted
  BY <1>1, NotesTaken
<1>3. SentAs(St, NoteHere) /\ vram = [l \in DOMAIN vram |-> vram[l]] /\ GsTypeOK
  BY <1>2 DEF NotesInv, GifInv, FramesOK
<1>4. data_count \in Nat /\ data_count # 0
  BY <1>1, ParserTypes
<1>5. PICK k \in DOMAIN Packets : \E i \in 1 .. Announced(Packets[k].head) :
        /\ tag = Packets[k].head /\ Taken = FirstOf(k) + i /\ FirstOf(k) \in Nat
        /\ Qword = Packets[k].body[i] /\ i + Remaining = Announced(Packets[k].head) + 1
        /\ Announced(Packets[k].head) \in Nat /\ DOMAIN Packets[k].body = 1 .. Announced(Packets[k].head)
  BY <1>1, <1>4, BodyQword
<1>6. PICK i \in 1 .. Announced(Packets[k].head) :
        /\ tag = Packets[k].head /\ Taken = FirstOf(k) + i /\ FirstOf(k) \in Nat
        /\ Qword = Packets[k].body[i]
        /\ Announced(Packets[k].head) \in Nat /\ DOMAIN Packets[k].body = 1 .. Announced(Packets[k].head)
  BY <1>5
<1>7. PICK st, a, b, p, first, value :
        /\ st = St /\ a = NoteHere /\ b = St.notes[Taken + 2] /\ p = Packets[k] /\ first = FirstOf(k)
        /\ value = Qword.value
  OBVIOUS
<1>8. a \in Notes(st) /\ FiguresOf(st) /\ ImagesOf(st) /\ SentAs(st, a)
  BY <1>2, <1>3, <1>7
<1>9. value \in Seq(Nat) /\ Len(value) >= 4
  BY <1>1, <1>4, <1>7, DataQword
<1>10. ImageNoted(st, a, b, value)
  <2>1. PacketNoted(st, p, first) /\ first \in Nat /\ p.head.flg = "Image" /\ i \in DOMAIN p.body /\ i \in Nat
    <3>1. PacketNoted(st, p, first)
      BY <1>2, <1>7, StreamNotes
    <3>2. i \in DOMAIN Packets[k].body /\ i \in Nat
      BY <1>6
    <3> QED BY <1>1, <1>6, <1>7, <3>1, <3>2
  <2>2. ImageNoted(st, st.notes[first + i + 1], st.notes[first + i + 2], p.body[i].value)
    BY <2>1, ImagesNoted
  <2>3. a = st.notes[first + i + 1] /\ b = st.notes[first + i + 2] /\ value = p.body[i].value
    BY <1>6, <1>7 DEF NoteHere
  <2> QED BY <2>2, <2>3
<1>11. gs_halted' \/ SentAs(st, b)'
  <2>1. GsImage(value) /\ origin' = origin
    BY <1>1, <1>2, <1>7
  <2> QED BY <1>3, <1>8, <1>9, <1>10, <2>1, ImageSent
<1>12. gs_halted' \/ SentAs(St, NoteHere)'
  <2>1. St' = st /\ NoteHere' = b
    BY <1>2, <1>7
  <2> QED BY <1>11, <2>1, SentThere
<1>13. (vram = [l \in DOMAIN vram |-> vram[l]])'
  BY <1>1, <1>3, VramIsFunction
<1> QED BY <1>12, <1>13 DEF NotesInv

\* Nothing is taken, and nothing a note speaks of changes.
LEMMA NotesStay ==
  ASSUME NotesInv, stream' = stream, Taken' = Taken, gs_halted' = gs_halted,
         UNCHANGED <<regs, transfer, vqueue, submitted, origin>>
  PROVE  NotesInv'
<1>1. St' = St /\ NoteHere' = NoteHere
  BY DEF NoteHere, St
<1>2. vram' = vram
  BY DEF transfer
<1>3. PICK st, a : st = St /\ a = NoteHere
  OBVIOUS
<1>4. ASSUME ~gs_halted' PROVE SentAs(St, NoteHere)'
  <2>1. SentAs(st, a)
    BY <1>3, <1>4 DEF NotesInv
  <2>2. SentAs(st, a)'
    BY <2>1, SentKeeps
  <2> QED BY <1>1, <1>3, <2>2, SentThere
<1> QED BY <1>2, <1>4 DEF NotesInv

\* A stream of which nothing was sent.
NoneSent ==
  /\ stream \in DOMAIN GifStreams /\ Taken = 0 /\ vqueue = <<>>
  /\ origin = [submitted |-> Len(submitted), vram |-> vram]
  /\ submitted \in Seq(Tested) /\ vram = [l \in DOMAIN vram |-> vram[l]]

\* A program knows nothing of it yet.
LEMMA NoneSentNoted == NoneSent => NotesInv
<1> SUFFICES ASSUME NoneSent PROVE NotesInv
  OBVIOUS
<1>1. /\ stream \in DOMAIN GifStreams /\ Taken = 0 /\ vqueue = <<>>
      /\ origin = [submitted |-> Len(submitted), vram |-> vram]
      /\ submitted \in Seq(Tested) /\ vram = [l \in DOMAIN vram |-> vram[l]]
  BY DEF NoneSent
<1>2. FiguresOf(St) /\ ImagesOf(St) /\ St.notes[1] = Blank
  BY <1>1, StreamNotes
<1>3. NoteHere = Blank
  <2>1. Taken + 1 = 1
    BY <1>1
  <2> QED BY <1>2, <2>1 DEF NoteHere
<1>4. SentAs(St, Blank)
  <2>1. PICK st : st = St
    OBVIOUS
  <2>2. FiguresOf(st) /\ ImagesOf(st)
    BY <1>2, <2>1
  <2>3. SentAs(st, Blank)
    BY <1>1, <2>2, BlankSent
  <2> QED BY <2>1, <2>3
<1> QED BY <1>1, <1>3, <1>4 DEF NotesInv

\* reset, between two primitives.
LEMMA GifResetNoted ==
  ASSUME GifInv, NotesInv, GifReset
  PROVE  NotesInv'
<1>1. /\ vqueue = <<>> /\ gif_fifo' = <<>> /\ sent' = 0
      /\ origin' = [submitted |-> Len(submitted), vram |-> vram]
      /\ vqueue' = vqueue /\ submitted' = submitted /\ vram' = vram
  BY DEF GifReset, gsVars, renderer, transfer
<1>2. Taken' = 0
  <2>1. Taken' = sent' - Len(gif_fifo')
    BY DEF Taken
  <2>2. Len(gif_fifo') = 0
    BY <1>1
  <2>3. 0 - 0 = 0
    OBVIOUS
  <2> QED BY <1>1, <2>1, <2>2, <2>3
<1>3. stream' \in DOMAIN GifStreams
  BY GifResetInv DEF GifInv, GifTypeOK
<1>4. submitted \in Seq(Tested)
  BY DEF GifInv, FramesOK, GsTypeOK
<1>5. NoneSent'
  BY <1>1, <1>2, <1>3, <1>4 DEF NoneSent, NotesInv
<1>6. NoneSent' => NotesInv'
  BY NoneSentNoted, PTL
<1> QED BY <1>5, <1>6

\* write_path3, the frame, and no step at all.
LEMMA OthersNoted ==
  ASSUME GifInv, NotesInv, WritePath3 \/ FramesTurn \/ UNCHANGED gifVars
  PROVE  NotesInv'
<1>1. CASE WritePath3
  <2>1. /\ gif_fifo' = Append(gif_fifo, GifWires[stream][sent + 1]) /\ sent' = sent + 1
        /\ UNCHANGED <<gsVars, stream, origin>>
    BY <1>1 DEF WritePath3
  <2>2. Len(gif_fifo') = Len(gif_fifo) + 1 /\ Len(gif_fifo) \in Nat /\ sent \in Nat
    <3>1. gif_fifo \in Seq(Quadword) /\ sent \in 0 .. GifLength /\ stream \in DOMAIN GifStreams
      BY DEF GifInv, GifTypeOK
    <3>2. GifLength \in Nat
      BY <3>1, StreamHere
    <3> QED BY <2>1, <3>1, <3>2
  <2>3. Taken' = Taken
    BY <2>1, <2>2 DEF Taken
  <2> QED BY <2>1, <2>3, NotesStay DEF gsVars, renderer
<1>2. CASE FramesTurn
  <2>1. UNCHANGED <<gif_fifo, gifParser, gifSender>> /\ UNCHANGED <<regs, transfer, vqueue, submitted, gs_halted>>
    BY <1>2 DEF FramesTurn, Frames, Render, NextFrame
  <2> QED BY <2>1, NotesStay DEF gifSender, Taken
<1>3. CASE UNCHANGED gifVars
  <2>1. UNCHANGED <<gsVars, gif_fifo, gifParser, gifSender>>
    BY <1>3 DEF gifVars
  <2> QED BY <2>1, NotesStay DEF gsVars, renderer, gifSender, Taken
<1> QED BY <1>1, <1>2, <1>3

\* A REGLIST stops the GIF.
LEMMA UnknownNoted ==
  ASSUME NotesInv, UnknownFormat
  PROVE  NotesInv'
<1>1. gs_halted' /\ vram' = vram
  BY DEF UnknownFormat, GsHalt, transfer
<1> QED BY <1>1 DEF NotesInv

\* Whatever a program sends whose notes say what it sends, the notes are true of the GS, wherever the
\* FIFO is full, the frames end and the GIF is reset.
THEOREM GifNotesInvariant == GraphicsSpec => []NotesInv
<1>1. GifInit => NotesInv
  <2> SUFFICES ASSUME GifInit PROVE NotesInv
    OBVIOUS
  <2>1. /\ GsInit /\ gif_fifo = <<>> /\ stream \in DOMAIN GifStreams /\ sent = 0
        /\ origin = [submitted |-> 0, vram |-> <<>>]
    BY DEF GifInit
  <2>2. vqueue = <<>> /\ submitted = <<>> /\ vram = <<>>
    BY <2>1 DEF GsInit
  <2>3. Len(<<>>) = 0 /\ <<>> = [l \in DOMAIN <<>> |-> <<>>[l]] /\ <<>> \in Seq(Tested)
    OBVIOUS
  <2>4. Taken = 0
    <3>1. Len(gif_fifo) = 0
      BY <2>1
    <3>2. sent = 0 /\ 0 - 0 = 0
      BY <2>1
    <3> QED BY <3>1, <3>2 DEF Taken
  <2>5. NoneSent
    BY <2>1, <2>2, <2>3, <2>4 DEF NoneSent
  <2> QED BY <2>5, NoneSentNoted
<1>2. GifInv /\ NotesInv /\ [GraphicsNext]_gifVars => NotesInv'
  <2> SUFFICES ASSUME GifInv, NotesInv, [GraphicsNext]_gifVars PROVE NotesInv'
    OBVIOUS
  <2>1. CASE GifReset
    BY <2>1, GifResetNoted
  <2>2. CASE GifTurn
    BY <2>2, ProcessTagSent, PackedSent, ImageTaken, UnknownNoted DEF GifTurn
  <2>3. CASE WritePath3 \/ FramesTurn \/ UNCHANGED gifVars
    BY <2>3, OthersNoted
  <2> QED BY <2>1, <2>2, <2>3 DEF GraphicsNext
<1> QED BY <1>1, <1>2, GifInvariant, PTL DEF GraphicsSpec

\* At the end of a stream everything it was meant to draw and to write is noted.
LEMMA NotedAll ==
  ASSUME GifInv, Taken = GifLength
  PROVE  NoteHere.figures = Len(St.figures) /\ NoteHere.images = Len(St.images) /\ NoteHere.pixels = 0 /\ NoteHere.sure
<1>1. NoteHere = St.notes[GifLength + 1]
  BY DEF NoteHere
<1>2. stream \in DOMAIN GifStreams
  BY ParserTypes
<1> QED BY <1>1, <1>2, StreamNotes

\* A note is one of the stream's.
LEMMA NoteHereType ==
  ASSUME GifInv, ~gs_halted
  PROVE  NoteHere \in Notes(St) /\ FiguresOf(St) /\ ImagesOf(St)
<1> DEFINE notes == St.notes
<1>1. stream \in DOMAIN GifStreams /\ sent \in 0 .. GifLength /\ gif_fifo \in Seq(Quadword) /\ Len(gif_fifo) <= sent
  BY DEF GifInv, GifTypeOK, GifWaits
<1>2. GifLength \in Nat
  BY <1>1, StreamHere
<1>3. notes \in Seq(Notes(St)) /\ Len(notes) = GifLength + 1 /\ FiguresOf(St) /\ ImagesOf(St)
  BY <1>1, StreamNotes
<1>4. Taken + 1 \in 1 .. GifLength + 1
  <2>1. Len(gif_fifo) \in Nat /\ sent \in Nat /\ sent <= GifLength
    BY <1>1, <1>2
  <2> QED BY <1>1, <1>2, <2>1 DEF Taken
<1> HIDE DEF notes
<1>5. notes[Taken + 1] \in Notes(St)
  BY <1>3, <1>4
<1> QED BY <1>3, <1>5 DEF NoteHere, notes

\* What was submitted since a stream began, in triangles.
LEMMA TriplesAfter ==
  ASSUME NEW T, NEW vs \in Seq(T), NEW o \in Nat, NEW h, Len(h) \in Nat, Triangulates(vs, o, h)
  PROVE  LET new == SubSeq(vs, o + 1, Len(vs))
         IN /\ Len(new) = 3 * Len(h)
            /\ \A t \in 1 .. Len(h) : {new[3 * t - i].vertex : i \in 0 .. 2} = h[t]
<1> DEFINE new == SubSeq(vs, o + 1, Len(vs))
           n == Len(h)
<1>1. n \in Nat /\ Len(vs) = o + 3 * n /\ Len(vs) \in Nat /\ \A t \in 1 .. n : Triple(vs, o + 3 * t) = h[t]
  BY DEF Triangulates
<1> HIDE DEF n
<1>2. Len(new) = 3 * n /\ \A j \in 1 .. 3 * n : new[j] = vs[o + j]
  BY <1>1
<1> HIDE DEF new
<1>3. ASSUME NEW t \in 1 .. n PROVE {new[3 * t - i].vertex : i \in 0 .. 2} = h[t]
  <2>1. ASSUME NEW i \in 0 .. 2 PROVE new[3 * t - i] = vs[o + 3 * t - i]
    <3>1. PICK j \in 1 .. 3 * n : j = 3 * t - i /\ o + j = o + 3 * t - i
      <4>1. 3 * t - i \in 1 .. 3 * n /\ o + (3 * t - i) = o + 3 * t - i
        BY <1>1
      <4> QED BY <4>1
    <3>2. new[j] = vs[o + j]
      BY <1>2, Zenon
    <3> QED BY <3>1, <3>2, Zenon
  <2>2. \A i \in 0 .. 2 : new[3 * t - i] = vs[o + 3 * t - i]
    BY <2>1, Zenon
  <2> DEFINE one(i) == new[3 * t - i].vertex
             two(i) == vs[o + 3 * t - i].vertex
  <2>3. \A i \in 0 .. 2 : one(i) = two(i)
    BY <2>2, Zenon
  <2> HIDE DEF one, two
  <2>4. {one(i) : i \in 0 .. 2} = {two(i) : i \in 0 .. 2}
    BY <2>3
  <2>5. {two(i) : i \in 0 .. 2} = Triple(vs, o + 3 * t)
    BY DEF Triple, two
  <2>6. {one(i) : i \in 0 .. 2} = h[t]
    BY <1>1, <2>4, <2>5, Zenon
  <2> QED BY <2>6, Zenon DEF one
<1> QED BY <1>2, <1>3 DEF n, new

\* The renderer gets whole primitives, the ones the stream was meant to draw, whatever program sends them
\* and however it mixes them with images, tests and vertices that do not draw.
THEOREM GraphicsPrimitivesWhole == GraphicsSpec => []PrimitivesWhole
<1>1. GifInv /\ NotesInv => PrimitivesWhole
  <2> SUFFICES ASSUME GifInv, NotesInv, ~gs_halted
               PROVE  LET new   == SubSeq(submitted, origin.submitted + 1, Len(submitted))
                          count == Len(new) \div 3
                      IN /\ Len(new) % 3 = 0 /\ count <= Len(Meant)
                         /\ \A t \in 1 .. count : {new[3 * t - i].vertex : i \in 0 .. 2} = Meant[t]
                         /\ Taken = GifLength => count = Len(Meant)
    BY DEF PrimitivesWhole
  <2> DEFINE new == SubSeq(submitted, origin.submitted + 1, Len(submitted))
             count == Len(new) \div 3
             F == FigureTriangles(St)
             figures == NoteHere.figures
             u == Upto(F, figures)
  <2>1. NoteHere \in Notes(St) /\ FiguresOf(St)
    BY NoteHereType
  <2>2. figures \in Nat /\ figures <= Len(St.figures) /\ Len(St.figures) \in Nat
    BY <2>1, NoteFields
  <2>3. F \in Seq(Seq(SUBSET Vertex)) /\ Len(F) = Len(St.figures)
    BY <2>1, FigureTrianglesType
  <2>4. Meant = FlattenSeq(F)
    <3>1. stream \in DOMAIN GifStreams
      BY ParserTypes
    <3> QED BY <3>1 DEF Meant, Triangles, FigureTriangles, St
  <2>5. submitted \in Seq(Tested) /\ origin.submitted \in Nat /\ Triangulates(submitted, origin.submitted, u)
    BY DEF GifInv, FramesOK, GsTypeOK, NotesInv, SentAs, DrawnAs, HandedAs
  <2> HIDE DEF F, figures
  <2>6. /\ u \in Seq(SUBSET Vertex) /\ Len(u) <= Len(FlattenSeq(F)) /\ Upto(F, Len(F)) = FlattenSeq(F)
        /\ \A j \in 1 .. Len(u) : FlattenSeq(F)[j] = u[j]
    <3>1. figures <= Len(F)
      BY <2>2, <2>3
    <3> QED BY <2>2, <2>3, <3>1, UptoType, UptoPrefix, UptoEnds
  <2> HIDE DEF u
  <2>7. Len(u) \in Nat
    BY <2>6
  <2>8. Len(new) = 3 * Len(u) /\ \A t \in 1 .. Len(u) : {new[3 * t - i].vertex : i \in 0 .. 2} = u[t]
    <3>1. PICK o \in Nat : o = origin.submitted
      BY <2>5
    <3>2. Triangulates(submitted, o, u)
      BY <2>5, <3>1
    <3>3. /\ Len(SubSeq(submitted, o + 1, Len(submitted))) = 3 * Len(u)
          /\ \A t \in 1 .. Len(u) :
               {SubSeq(submitted, o + 1, Len(submitted))[3 * t - i].vertex : i \in 0 .. 2} = u[t]
      BY <2>5, <2>7, <3>2, TriplesAfter
    <3> QED BY <3>1, <3>3
  <2> HIDE DEF new
  <2>9. Len(new) % 3 = 0 /\ count = Len(u)
    BY <2>7, <2>8
  <2>10. Taken = GifLength => u = FlattenSeq(F)
    <3>1. Taken = GifLength => figures = Len(F)
      BY <2>3, NotedAll DEF figures
    <3> QED BY <2>6, <3>1 DEF u
  <2> HIDE DEF count
  <2>11. \A t \in 1 .. count : {new[3 * t - i].vertex : i \in 0 .. 2} = Meant[t]
    BY <2>4, <2>6, <2>8, <2>9
  <2>12. count <= Len(Meant) /\ (Taken = GifLength => count = Len(Meant))
    BY <2>4, <2>6, <2>9, <2>10
  <2> QED BY <2>9, <2>11, <2>12 DEF new, count
<1> QED BY <1>1, GifInvariant, GifNotesInvariant, PTL

\* The images of a stream are in VRAM where buffers of their widths have their rectangles, the later ones
\* over the earlier, and nothing else was written there, for images of every size, place and width.
THEOREM GraphicsImagePlaced == GraphicsSpec => []ImagePlaced
<1>1. GifInv /\ NotesInv => ImagePlaced
  <2> SUFFICES ASSUME GifInv, NotesInv, ~gs_halted, Taken = GifLength
               PROVE  vram = Over(Pictures[stream], origin.vram)
    BY DEF ImagePlaced
  <2>1. /\ NoteHere.images = Len(St.images) /\ NoteHere.pixels = 0 /\ NoteHere.sure
    BY NotedAll
  <2>2. ImagesOf(St)
    BY NoteHereType
  <2>3. PixelsAs(St, NoteHere)
    BY DEF NotesInv, SentAs
  <2>4. vram = Shown(St, Len(St.images), 0)
    BY <2>1, <2>3 DEF PixelsAs
  <2> DEFINE images == St.images
             painted == Over(Painted(images), origin.vram)
  <2>5. SubSeq(images, 1, Len(images)) = images
    <3>1. images \in Seq(ImageRecords)
      BY <2>2 DEF ImagesOf
    <3> HIDE DEF images
    <3> QED BY <3>1
  <2>6. vram = Over(Begun(images[Len(images) + 1], 0), painted)
    BY <2>4, <2>5 DEF Shown
  <2>7. painted = [l \in DOMAIN painted |-> painted[l]]
    BY OverIsFunction
  <2>8. Pictures[stream] = Painted(images)
    <3>1. stream \in DOMAIN GifStreams
      BY ParserTypes
    <3> QED BY <3>1 DEF Pictures, St
  <2> HIDE DEF painted, images
  <2>9. vram = painted
    BY <2>6, <2>7, BegunNone
  <2> QED BY <2>8, <2>9 DEF painted
<1> QED BY <1>1, GifInvariant, GifNotesInvariant, PTL
=============================================================================
