-------------------------- MODULE RingQueueProofs --------------------------
(***************************************************************************)
(* Proofs about util::Queue (module RingQueue) for every element type,     *)
(* capacity and set of word counts: the invariant that ties the two        *)
(* indices and the count together, and that the ring implements a bounded  *)
(* first-in first-out buffer.                                              *)
(***************************************************************************)
EXTENDS RingQueue, TLAPS

-----------------------------------------------------------------------------
(* Arithmetic modulo the capacity.  Every sum the code reduces is below    *)
(* 2 * N and every difference above -N, so that reducing it is one         *)
(* conditional subtraction or addition.                                    *)

\* Reducing a sum of two slot-sized numbers modulo N.
LEMMA ModSum ==
  \A i \in 0 .. 2 * N - 1 : /\ i < N => i % N = i
                            /\ ~(i < N) => i % N = i - N
  BY NAssumption, SMT

\* Reducing the difference of two slots modulo N.
LEMMA ModDifference ==
  ASSUME NEW s \in Slot, NEW t \in Slot
  PROVE  Distance(t, s) = IF s >= t THEN s - t ELSE s - t + N
<1>1. CASE s >= t
  BY <1>1, NAssumption, SMT DEF Slot, Distance
<1>2. CASE s < t
  <2>1. s - t + N \in 1 .. N - 1
    BY <1>2, NAssumption DEF Slot
  <2>2. s - t = (s - t + N) + (-1) * N
    BY NAssumption DEF Slot
  <2> QED
    BY <1>2, <2>1, <2>2, NAssumption, SMT DEF Slot, Distance
<1> QED
  BY <1>1, <1>2, NAssumption DEF Slot

\* Moving at most N slots on from a slot reaches a slot.
LEMMA ModIsSlot ==
  ASSUME NEW s \in Slot, NEW d \in 0 .. N
  PROVE  (s + d) % N \in Slot
<1>1. PICK i \in 0 .. 2 * N - 1 : i = s + d
  BY NAssumption DEF Slot
<1>2. i % N \in Slot
  BY ModSum, NAssumption DEF Slot
<1> QED
  BY <1>1, <1>2

\* Moving d and then e slots on is moving d + e slots on.
LEMMA ModAdd ==
  ASSUME NEW s \in Slot, NEW d \in Nat, NEW e \in Nat, d + e <= N
  PROVE  (((s + d) % N) + e) % N = (s + (d + e)) % N
<1>1. PICK i \in 0 .. 2 * N - 1 : i = s + d
  BY NAssumption DEF Slot
<1>2. /\ i < N => i % N = i
      /\ ~(i < N) => i % N = i - N
  BY ModSum
<1>3. (i % N) + e \in 0 .. 2 * N - 1
  BY <1>1, <1>2, NAssumption DEF Slot
<1>4. PICK j \in 0 .. 2 * N - 1 : j = (i % N) + e
  BY <1>3
<1>5. PICK k \in 0 .. 2 * N - 1 : k = s + (d + e)
  BY NAssumption DEF Slot
<1>6. /\ j < N => j % N = j
      /\ ~(j < N) => j % N = j - N
      /\ k < N => k % N = k
      /\ ~(k < N) => k % N = k - N
  BY ModSum
<1>7. j % N = k % N
  BY <1>1, <1>2, <1>4, <1>5, <1>6, NAssumption DEF Slot
<1> QED
  BY <1>1, <1>4, <1>5, <1>7

-----------------------------------------------------------------------------
(* Sequences of a given length.                                            *)

\* The argument of a call that moves ratio words is a sequence of that length.
LEMMA ValuesAreSeqs ==
  ASSUME NEW ratio \in Nat, NEW value \in Values(ratio)
  PROVE  /\ value \in Seq(Word)
         /\ Len(value) = ratio
         /\ \A k \in 1 .. ratio : value[k] \in Word
  BY DEF Values

\* The result of a call that hands nothing out is of the result type.
LEMMA EmptyResults == Ok(<<>>) \in Results /\ Failed \in Results
<1>1. <<>> \in Values(0)
  BY DEF Values
<1> QED
  BY <1>1 DEF Ok, Failed, Results

-----------------------------------------------------------------------------
(* The invariant.                                                          *)

\* The initial state satisfies the invariant.
LEMMA InitInv == Init => IInv
<1> SUFFICES ASSUME Init PROVE IInv
  OBVIOUS
<1>1. TypeOK
  BY EmptyResults, NAssumption, ZeroAssumption DEF Init, TypeOK, Slot
<1>2. RearFollowsFront
  BY NAssumption, ModSum DEF Init, RearFollowsFront
<1> QED
  BY <1>1, <1>2 DEF IInv

\* Storing a value changes nothing but slots, and only into words.
LEMMA StoreType ==
  ASSUME TypeOK, NEW ratio \in Nat, NEW value \in Values(ratio)
  PROVE  Store(value) \in [Slot -> Word]
<1>1. ASSUME NEW s \in Slot
      PROVE  Distance(rear, s) \in Nat
  <2>1. Distance(rear, s) = IF s >= rear THEN s - rear ELSE s - rear + N
    BY ModDifference DEF TypeOK
  <2> QED
    BY <2>1, NAssumption DEF TypeOK, Slot
<1> QED
  BY <1>1, ValuesAreSeqs DEF TypeOK, Store

\* The slot k words into the queue is a slot.
LEMMA PeekSlot ==
  ASSUME TypeOK, NEW k \in 1 .. N
  PROVE  (front + k - 1) % N \in Slot
<1>1. /\ k - 1 \in 0 .. N
      /\ front + k - 1 = front + (k - 1)
  BY NAssumption DEF TypeOK, Slot
<1>2. (front + (k - 1)) % N \in Slot
  BY <1>1, ModIsSlot DEF TypeOK
<1> QED
  BY <1>1, <1>2

\* A push of a value of the word type keeps the invariant.
LEMMA PushInv ==
  ASSUME IInv, NEW ratio \in Ratios, NEW value \in Values(ratio), Push(value)
  PROVE  IInv'
<1>1. ratio \in Nat \ {0} /\ Len(value) = ratio
  BY RatiosAssumption, ValuesAreSeqs
<1>2. CASE count + Len(value) <= N /\ buffer' = Store(value)
           /\ rear' = (rear + Len(value)) % N /\ count' = count + Len(value)
           /\ ret' = Ok(<<>>) /\ UNCHANGED front
  <2>1. TypeOK'
    <3>1. buffer' \in [Slot -> Word]
      BY <1>1, <1>2, StoreType DEF IInv
    <3>2. rear' \in Slot
      BY <1>1, <1>2, ModIsSlot, NAssumption DEF IInv, TypeOK
    <3>3. ret' \in Results
      BY <1>2, EmptyResults
    <3> QED
      BY <1>1, <1>2, <3>1, <3>2, <3>3, NAssumption DEF IInv, TypeOK
  <2>2. RearFollowsFront'
    <3>1. (((front + count) % N) + ratio) % N = (front + (count + ratio)) % N
      BY <1>1, <1>2, ModAdd DEF IInv, TypeOK
    <3> QED
      BY <1>1, <1>2, <3>1 DEF IInv, RearFollowsFront
  <2> QED
    BY <2>1, <2>2 DEF IInv
<1>3. CASE ret' = Failed /\ UNCHANGED <<buffer, front, rear, count>>
  <2>1. Failed \in Results
    BY EmptyResults
  <2> QED
    BY <1>3, <2>1 DEF IInv, TypeOK, RearFollowsFront
<1> QED
  BY <1>2, <1>3 DEF Push

\* A pop keeps the invariant.
LEMMA PopInv ==
  ASSUME IInv, NEW ratio \in Ratios, Pop(ratio)
  PROVE  IInv'
<1>1. ratio \in Nat \ {0}
  BY RatiosAssumption
<1>2. CASE count >= ratio /\ front' = (front + ratio) % N /\ count' = count - ratio
           /\ ret' = Ok(<<>>) /\ UNCHANGED <<buffer, rear>>
  <2>1. TypeOK'
    <3>1. front' \in Slot
      BY <1>1, <1>2, ModIsSlot, NAssumption DEF IInv, TypeOK
    <3>2. ret' \in Results
      BY <1>2, EmptyResults
    <3> QED
      BY <1>1, <1>2, <3>1, <3>2, NAssumption DEF IInv, TypeOK
  <2>2. RearFollowsFront'
    <3>1. /\ count - ratio \in Nat
          /\ ratio + (count - ratio) = count
          /\ ratio + (count - ratio) <= N
      BY <1>1, <1>2, NAssumption DEF IInv, TypeOK
    <3>2. (((front + ratio) % N) + (count - ratio)) % N = (front + (ratio + (count - ratio))) % N
      BY <1>1, <3>1, ModAdd DEF IInv, TypeOK
    <3> QED
      BY <1>1, <1>2, <3>1, <3>2 DEF IInv, RearFollowsFront
  <2> QED
    BY <2>1, <2>2 DEF IInv
<1>3. CASE ret' = Failed /\ UNCHANGED <<buffer, front, rear, count>>
  <2>1. Failed \in Results
    BY EmptyResults
  <2> QED
    BY <1>3, <2>1 DEF IInv, TypeOK, RearFollowsFront
<1> QED
  BY <1>2, <1>3 DEF Pop

\* A read keeps the invariant.
LEMMA ReadInv ==
  ASSUME IInv, NEW ratio \in Ratios, Read(ratio)
  PROVE  IInv'
<1>1. ratio \in Nat \ {0}
  BY RatiosAssumption
<1>2. ret' \in Results
  <2>1. CASE count >= ratio /\ ret' = Ok([k \in 1 .. ratio |-> Peek(k)])
    <3>1. ASSUME NEW k \in 1 .. ratio
          PROVE  Peek(k) \in Word
      <4>1. k \in 1 .. N
        BY <1>1, <2>1, NAssumption DEF IInv, TypeOK
      <4>2. (front + k - 1) % N \in Slot
        BY <4>1, PeekSlot DEF IInv
      <4> QED
        BY <4>2 DEF Peek, IInv, TypeOK
    <3>2. [k \in 1 .. ratio |-> Peek(k)] \in Values(ratio)
      BY <3>1 DEF Values
    <3> QED
      BY <2>1, <3>2 DEF Ok, Results
  <2>2. CASE ret' = Failed
    BY <2>2, EmptyResults
  <2> QED
    BY <2>1, <2>2 DEF Read
<1> QED
  BY <1>2 DEF Read, IInv, TypeOK, RearFollowsFront

\* A reset re-establishes the invariant.
LEMMA ResetInv == Reset => IInv'
<1> SUFFICES ASSUME Reset PROVE IInv'
  OBVIOUS
<1>1. TypeOK'
  BY EmptyResults, NAssumption, ZeroAssumption DEF Reset, TypeOK, Slot
<1>2. RearFollowsFront'
  BY NAssumption, ModSum DEF Reset, RearFollowsFront
<1> QED
  BY <1>1, <1>2 DEF IInv

\* Every step keeps the invariant.
LEMMA NextInv == IInv /\ [Next]_vars => IInv'
<1> SUFFICES ASSUME IInv, [Next]_vars
             PROVE  IInv'
  OBVIOUS
<1>1. ASSUME NEW ratio \in Ratios, NEW value \in Values(ratio), Push(value)
      PROVE  IInv'
  BY <1>1, PushInv
<1>2. ASSUME NEW ratio \in Ratios, Pop(ratio)
      PROVE  IInv'
  BY <1>2, PopInv
<1>3. ASSUME NEW ratio \in Ratios, Read(ratio)
      PROVE  IInv'
  BY <1>3, ReadInv
<1>4. CASE Reset
  BY <1>4, ResetInv
<1>5. CASE UNCHANGED vars
  BY <1>5 DEF vars, IInv, TypeOK, RearFollowsFront
<1> QED
  BY <1>1, <1>2, <1>3, <1>4, <1>5 DEF Next

\* util::Queue keeps its indices inside the buffer, its count between zero and
\* the capacity, and its results well formed.
THEOREM TypeCorrect == Spec => []TypeOK
<1>1. Init => IInv
  BY InitInv
<1>2. IInv /\ [Next]_vars => IInv'
  BY NextInv
<1>3. IInv => TypeOK
  BY DEF IInv
<1> QED
  BY <1>1, <1>2, <1>3, PTL DEF Spec

\* util::Queue's write index is always count slots after its read index.
THEOREM IndicesAgree == Spec => []RearFollowsFront
<1>1. Init => IInv
  BY InitInv
<1>2. IInv /\ [Next]_vars => IInv'
  BY NextInv
<1>3. IInv => RearFollowsFront
  BY DEF IInv
<1> QED
  BY <1>1, <1>2, <1>3, PTL DEF Spec

-----------------------------------------------------------------------------
(* The ring implements the bounded FIFO.                                   *)

\* What the queue holds is a sequence of count words.
LEMMA ContentsType ==
  ASSUME IInv
  PROVE  /\ Contents \in Seq(Word)
         /\ Len(Contents) = count
         /\ \A k \in 1 .. count : Contents[k] = Peek(k)
<1>1. ASSUME NEW k \in 1 .. count
      PROVE  Peek(k) \in Word
  <2>1. k \in 1 .. N
    BY NAssumption DEF IInv, TypeOK
  <2>2. (front + k - 1) % N \in Slot
    BY <2>1, PeekSlot DEF IInv
  <2> QED
    BY <2>2 DEF Peek, IInv, TypeOK
<1>2. count \in Nat
  BY NAssumption DEF IInv, TypeOK
<1> QED
  BY <1>1, <1>2 DEF Contents

\* After a value that fits is stored, the k-th slot of the queue still holds
\* the old k-th word, or, past the old words, the next word of the value.
LEMMA StorePeek ==
  ASSUME IInv, NEW ratio \in Nat \ {0}, NEW value \in Values(ratio),
         count + ratio <= N, NEW k \in 1 .. count + ratio
  PROVE  Store(value)[(front + k - 1) % N] = IF k <= count THEN Peek(k) ELSE value[k - count]
<1> USE NAssumption
<1>1. count \in 0 .. N /\ front \in 0 .. N - 1 /\ rear \in 0 .. N - 1
  BY DEF IInv, TypeOK, Slot
<1>2. k \in 1 .. N
  BY <1>1
<1>3. PICK i \in 0 .. 2 * N - 1 : i = front + k - 1
  BY <1>1, <1>2
<1>4. PICK j \in 0 .. 2 * N - 1 : j = front + count
  BY <1>1
<1>5. PICK s \in Slot : s = (front + k - 1) % N
  BY <1>2, PeekSlot DEF IInv
<1>6. /\ i < N => s = i
      /\ ~(i < N) => s = i - N
  BY <1>3, <1>5, ModSum
<1>7. /\ j < N => rear = j
      /\ ~(j < N) => rear = j - N
  BY <1>4, ModSum DEF IInv, RearFollowsFront
<1>8. Distance(rear, s) = IF s >= rear THEN s - rear ELSE s - rear + N
  BY <1>1, ModDifference DEF Slot
<1>9. Len(value) = ratio
  BY ValuesAreSeqs
<1>10. CASE k <= count
  <2>1. ~(Distance(rear, s) < ratio)
    BY <1>1, <1>2, <1>3, <1>4, <1>6, <1>7, <1>8, <1>10 DEF Slot
  <2> QED
    BY <1>5, <1>9, <1>10, <2>1 DEF Store, Peek
<1>11. CASE k > count
  <2>1. Distance(rear, s) = k - 1 - count
    BY <1>1, <1>2, <1>3, <1>4, <1>6, <1>7, <1>8, <1>11 DEF Slot
  <2>2. Distance(rear, s) < ratio /\ Distance(rear, s) + 1 = k - count
    BY <1>1, <2>1
  <2> QED
    BY <1>1, <1>5, <1>9, <1>11, <2>2 DEF Store
<1> QED
  BY <1>1, <1>10, <1>11

\* A push on the ring is a push on the FIFO.
LEMMA PushRefines ==
  ASSUME IInv, NEW ratio \in Ratios, NEW value \in Values(ratio), Push(value)
  PROVE  Fifo!Push(value)
<1>1. ratio \in Nat \ {0} /\ Len(value) = ratio /\ value \in Seq(Word)
  BY RatiosAssumption, ValuesAreSeqs
<1>2. Len(Contents) = count /\ Contents \in Seq(Word) /\ count \in Nat
  BY ContentsType, NAssumption DEF IInv, TypeOK
<1>3. CASE count + Len(value) <= N /\ buffer' = Store(value)
           /\ count' = count + Len(value) /\ ret' = Ok(<<>>) /\ UNCHANGED front
  <2> DEFINE joined == Contents \o value
  <2>1. ASSUME NEW k \in 1 .. count + ratio
        PROVE  Peek(k)' = joined[k]
    <3>1. Peek(k)' = IF k <= count THEN Peek(k) ELSE value[k - count]
      BY <1>1, <1>3, StorePeek DEF Peek
    <3>2. joined[k] = IF k <= count THEN Contents[k] ELSE value[k - count]
      BY <1>1, <1>2
    <3> QED
      BY <1>2, <3>1, <3>2, ContentsType
  <2>2. /\ joined \in Seq(Word)
        /\ Len(joined) = count + ratio
    BY <1>1, <1>2
  <2> HIDE DEF joined
  <2>3. Contents' = [k \in 1 .. count + ratio |-> joined[k]]
    BY <1>1, <1>3, <2>1 DEF Contents
  <2>4. Contents' = joined
    BY <2>2, <2>3
  <2> QED
    BY <1>1, <1>2, <1>3, <2>4 DEF joined, Fifo!Push, Fifo!Ok, Ok
<1>4. CASE count + Len(value) > N /\ ret' = Failed /\ UNCHANGED <<buffer, front, rear, count>>
  <2>1. UNCHANGED Contents
    BY <1>4 DEF Contents, Peek
  <2> QED
    BY <1>1, <1>2, <1>4, <2>1 DEF Fifo!Push, Fifo!Failed, Failed
<1> QED
  BY <1>3, <1>4 DEF Push

\* A pop on the ring is a pop on the FIFO.
LEMMA PopRefines ==
  ASSUME IInv, NEW ratio \in Ratios, Pop(ratio)
  PROVE  Fifo!Pop(ratio)
<1>1. ratio \in Nat \ {0}
  BY RatiosAssumption
<1>2. Len(Contents) = count /\ Contents \in Seq(Word) /\ count \in 0 .. N
  BY ContentsType DEF IInv, TypeOK
<1>3. CASE count >= ratio /\ front' = (front + ratio) % N /\ count' = count - ratio
           /\ ret' = Ok(<<>>) /\ UNCHANGED <<buffer, rear>>
  <2> DEFINE rest == SubSeq(Contents, ratio + 1, Len(Contents))
  <2>1. /\ rest \in Seq(Word)
        /\ Len(rest) = count - ratio
        /\ \A k \in 1 .. count - ratio : rest[k] = Contents[ratio + k]
    BY <1>1, <1>2, <1>3, NAssumption
  <2>2. ASSUME NEW k \in 1 .. count - ratio
        PROVE  Peek(k)' = rest[k]
    <3>1. /\ k - 1 \in Nat /\ ratio + (k - 1) <= N
          /\ front \in Slot
          /\ ratio + k \in 1 .. count
      BY <1>1, <1>2, <1>3, NAssumption DEF IInv, TypeOK
    <3>2. (((front + ratio) % N) + (k - 1)) % N = (front + (ratio + (k - 1))) % N
      BY <1>1, <3>1, ModAdd
    <3>3. /\ (front + ratio) % N \in Int
          /\ front + (ratio + (k - 1)) = front + (ratio + k) - 1
      BY <1>1, <1>2, <1>3, <3>1, ModIsSlot, NAssumption DEF Slot
    <3>4. ((front + ratio) % N) + k - 1 = ((front + ratio) % N) + (k - 1)
      BY <3>3
    <3>5. Peek(k)' = Peek(ratio + k)
      BY <1>3, <3>2, <3>3, <3>4 DEF Peek
    <3> QED
      BY <2>1, <3>1, <3>5, ContentsType
  <2>3. Contents' = [k \in 1 .. count - ratio |-> rest[k]]
    BY <1>3, <2>2 DEF Contents
  <2>4. Contents' = rest
    BY <2>1, <2>3
  <2> QED
    BY <1>2, <1>3, <2>4 DEF Fifo!Pop, Fifo!Ok, Ok
<1>4. CASE count < ratio /\ ret' = Failed /\ UNCHANGED <<buffer, front, rear, count>>
  <2>1. UNCHANGED Contents
    BY <1>4 DEF Contents, Peek
  <2> QED
    BY <1>2, <1>4, <2>1 DEF Fifo!Pop, Fifo!Failed, Failed
<1> QED
  BY <1>3, <1>4 DEF Pop

\* A read on the ring is a read on the FIFO.
LEMMA ReadRefines ==
  ASSUME IInv, NEW ratio \in Ratios, Read(ratio)
  PROVE  Fifo!Read(ratio)
<1>1. ratio \in Nat \ {0}
  BY RatiosAssumption
<1>2. Len(Contents) = count /\ Contents \in Seq(Word) /\ count \in 0 .. N
  BY ContentsType DEF IInv, TypeOK
<1>3. UNCHANGED Contents
  BY DEF Read, Contents, Peek
<1>4. CASE count >= ratio /\ ret' = Ok([k \in 1 .. ratio |-> Peek(k)])
  <2> DEFINE taken == SubSeq(Contents, 1, ratio)
  <2>1. /\ taken \in Seq(Word)
        /\ Len(taken) = ratio
        /\ \A k \in 1 .. ratio : taken[k] = Contents[k]
    BY <1>1, <1>2, <1>4, NAssumption
  <2>2. \A k \in 1 .. ratio : taken[k] = Peek(k)
    BY <1>1, <1>2, <1>4, <2>1, ContentsType, NAssumption
  <2>3. taken = [k \in 1 .. ratio |-> Peek(k)]
    BY <2>1, <2>2
  <2> QED
    BY <1>2, <1>3, <1>4, <2>3 DEF Fifo!Read, Fifo!Ok, Ok
<1>5. CASE count < ratio /\ ret' = Failed
  BY <1>2, <1>3, <1>5 DEF Fifo!Read, Fifo!Failed, Failed
<1> QED
  BY <1>4, <1>5 DEF Read

\* util::Queue implements the bounded FIFO for every word type, capacity and
\* set of word counts: first in first out, all or nothing, nothing lost.
THEOREM Refinement == Spec => ImplementsFifo
<1>1. Init => IInv
  BY InitInv
<1>2. IInv /\ [Next]_vars => IInv'
  BY NextInv
<1>3. Init => Fifo!Init
  BY DEF Init, Fifo!Init, Contents, Failed, Fifo!Failed
<1>4. IInv /\ [Next]_vars => [Fifo!Next]_(Fifo!vars)
  <2> SUFFICES ASSUME IInv, [Next]_vars
               PROVE  [Fifo!Next]_(Fifo!vars)
    OBVIOUS
  <2>1. ASSUME NEW ratio \in Ratios, NEW value \in Values(ratio), Push(value)
        PROVE  Fifo!Next
    BY <2>1, PushRefines DEF Fifo!Next, Values
  <2>2. ASSUME NEW ratio \in Ratios, Pop(ratio)
        PROVE  Fifo!Next
    BY <2>2, PopRefines DEF Fifo!Next
  <2>3. ASSUME NEW ratio \in Ratios, Read(ratio)
        PROVE  Fifo!Next
    BY <2>3, ReadRefines DEF Fifo!Next
  <2>4. CASE Reset
    BY <2>4 DEF Reset, Fifo!Next, Fifo!Reset, Contents, Failed, Fifo!Failed
  <2>5. CASE UNCHANGED vars
    BY <2>5 DEF vars, Fifo!vars, Contents, Peek
  <2> QED
    BY <2>1, <2>2, <2>3, <2>4, <2>5 DEF Next
<1> QED
  BY <1>1, <1>2, <1>3, <1>4, PTL DEF Spec, ImplementsFifo, Fifo!Spec
=============================================================================
