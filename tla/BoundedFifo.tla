---------------------------- MODULE BoundedFifo ----------------------------
(***************************************************************************)
(* What util::Queue (src/utils/queue.h) promises its users, the VIF and    *)
(* GIF FIFOs and the GS vertex queue: a first-in first-out buffer of at    *)
(* most N words.  A write or a removal of several words either happens     *)
(* completely or leaves the buffer alone and says so in its result.        *)
(***************************************************************************)
EXTENDS Naturals, Sequences

CONSTANTS
  Word,     \* the element type _Ty
  N,        \* the capacity in words
  Ratios    \* the numbers of words the callers move in one call (TRATIO)

VARIABLES
  fifo,     \* the words held, oldest first
  ret       \* the result of the last call and what it stored in *out

vars == <<fifo, ret>>

Ok(out) == [ok |-> TRUE, out |-> out]
Failed  == [ok |-> FALSE, out |-> <<>>]

Init == fifo = <<>> /\ ret = Failed

Push(value) ==
  \/ /\ Len(fifo) + Len(value) <= N
     /\ fifo' = fifo \o value
     /\ ret' = Ok(<<>>)
  \/ /\ Len(fifo) + Len(value) > N
     /\ ret' = Failed
     /\ UNCHANGED fifo

Pop(ratio) ==
  \/ /\ Len(fifo) >= ratio
     /\ fifo' = SubSeq(fifo, ratio + 1, Len(fifo))
     /\ ret' = Ok(<<>>)
  \/ /\ Len(fifo) < ratio
     /\ ret' = Failed
     /\ UNCHANGED fifo

Read(ratio) ==
  /\ \/ Len(fifo) >= ratio /\ ret' = Ok(SubSeq(fifo, 1, ratio))
     \/ Len(fifo) < ratio /\ ret' = Failed
  /\ UNCHANGED fifo

Reset == fifo' = <<>> /\ ret' = Failed

Next ==
  \/ \E ratio \in Ratios :
       (\E value \in [1..ratio -> Word] : Push(value)) \/ Pop(ratio) \/ Read(ratio)
  \/ Reset

Spec == Init /\ [][Next]_vars
=============================================================================
