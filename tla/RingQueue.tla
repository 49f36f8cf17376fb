----------------------------- MODULE RingQueue -----------------------------
(***************************************************************************)
(* util::Queue<_Ty, N> of src/utils/queue.h: a ring of N words with a read *)
(* index, a write index and a count.  One call moves ratio words, the      *)
(* TRATIO of the method's template argument.                               *)
(***************************************************************************)
EXTENDS Integers, Sequences

CONSTANTS
  Word,     \* the element type _Ty
  Zero,     \* the value-initialized element
  N,        \* the capacity in words
  Ratios    \* the values of TRATIO the program instantiates

ASSUME NAssumption == N \in Nat \ {0}
ASSUME ZeroAssumption == Zero \in Word
ASSUME RatiosAssumption == Ratios \subseteq Nat \ {0}

VARIABLES
  buffer,   \* the N slots
  front,    \* the slot read next
  rear,     \* the slot written next
  count,    \* the number of words held
  ret       \* the result of the last call and what it stored in *out

vars == <<buffer, front, rear, count, ret>>

Slot == 0 .. N - 1

Values(ratio) == [1 .. ratio -> Word]

\* What a call returns: its bool, and the words read<T> stored in *out.
Results == [ok : BOOLEAN, out : UNION {Values(r) : r \in Ratios \cup {0}}]

TypeOK ==
  /\ buffer \in [Slot -> Word]
  /\ front \in Slot
  /\ rear \in Slot
  /\ count \in 0 .. N
  /\ ret \in Results

Ok(out) == [ok |-> TRUE, out |-> out]
Failed  == [ok |-> FALSE, out |-> <<>>]

Init ==
  /\ buffer = [s \in Slot |-> Zero]
  /\ front = 0 /\ rear = 0 /\ count = 0
  /\ ret = Failed

-----------------------------------------------------------------------------

\* How far slot s lies behind slot "from" on the ring.
Distance(from, s) == (s - from) % N

\* A mutant of Store: a push that starts at the read index.
StoreFromFront(value) ==
  [s \in Slot |-> IF Distance(front, s) < Len(value)
                  THEN value[Distance(front, s) + 1]
                  ELSE buffer[s]]

\* The slots after the loop that stores value from slot "rear" on.
Store(value) ==
  [s \in Slot |-> IF Distance(rear, s) < Len(value)
                  THEN value[Distance(rear, s) + 1]
                  ELSE buffer[s]]

\* The k-th word of the queue, counted from 1.
Peek(k) == buffer[(front + k - 1) % N]

\* A mutant of Push: it counts values, not words.
PushCountsOne(value) ==
  /\ count + Len(value) <= N
  /\ buffer' = Store(value)
  /\ rear' = (rear + Len(value)) % N
  /\ count' = count + 1
  /\ ret' = Ok(<<>>)
  /\ UNCHANGED front

Push(value) ==
  \/ /\ count + Len(value) <= N
     /\ buffer' = Store(value)
     /\ rear' = (rear + Len(value)) % N
     /\ count' = count + Len(value)
     /\ ret' = Ok(<<>>)
     /\ UNCHANGED front
  \/ /\ count + Len(value) > N
     /\ ret' = Failed
     /\ UNCHANGED <<buffer, front, rear, count>>

\* A mutant of Pop: the read index does not wrap.
PopUnwrapped(ratio) ==
  /\ count >= ratio
  /\ front' = front + ratio
  /\ count' = count - ratio
  /\ ret' = Ok(<<>>)
  /\ UNCHANGED <<buffer, rear>>

Pop(ratio) ==
  \/ /\ count >= ratio
     /\ front' = (front + ratio) % N
     /\ count' = count - ratio
     /\ ret' = Ok(<<>>)
     /\ UNCHANGED <<buffer, rear>>
  \/ /\ count < ratio
     /\ ret' = Failed
     /\ UNCHANGED <<buffer, front, rear, count>>

Read(ratio) ==
  /\ \/ count >= ratio /\ ret' = Ok([k \in 1 .. ratio |-> Peek(k)])
     \/ count < ratio /\ ret' = Failed
  /\ UNCHANGED <<buffer, front, rear, count>>

\* A whole queue is replaced by a fresh one ("fifo = {}" in VIF::reset and
\* GIF::reset).
Reset ==
  /\ buffer' = [s \in Slot |-> Zero]
  /\ front' = 0 /\ rear' = 0 /\ count' = 0
  /\ ret' = Failed

Next ==
  \/ \E ratio \in Ratios :
       (\E value \in Values(ratio) : Push(value)) \/ Pop(ratio) \/ Read(ratio)
  \/ Reset

Spec == Init /\ [][Next]_vars

-----------------------------------------------------------------------------

\* The two indices and the count say the same thing: the write index is count
\* slots after the read index.  Each call updates them separately (rear and
\* count in push, front and count in pop), nothing else ties them together.
RearFollowsFront == rear = (front + count) % N

\* The words held, oldest first.
Contents == [k \in 1 .. count |-> Peek(k)]

Fifo == INSTANCE BoundedFifo WITH fifo <- Contents

\* util::Queue is a bounded first-in first-out buffer: no word is lost,
\* reordered, duplicated or overwritten while held, and a call that does not
\* fit or finds too little changes nothing, for every mix of word counts.
ImplementsFifo == Fifo!Spec

\* The invariant that carries the proofs.
IInv == TypeOK /\ RearFollowsFront
=============================================================================
