------------------------------ MODULE VuMacro ------------------------------
(***************************************************************************)
(* The macro instructions of VU0, which the EE executes (src/cpu/vu/vu.cc),*)
(* as functions of the unit: [vi, vf, acc, data].  The arithmetic of floats*)
(* is the host's: any functions of words.  Component 0 is X, 3 is W.       *)
(***************************************************************************)
EXTENDS Words

CONSTANTS
  FAdd(_, _), FSub(_, _), FMul(_, _),
  VuQwords      \* quadwords of data memory below the limit of the stores

\* The fields of an instruction, by those of the EE's.
Fd(ins) == ins.sa
Fs(ins) == ins.rd
Ft(ins) == ins.rt
Dest(ins) == ins.rs % 16

\* A vector with the components of the mask taken from another.
Masked(ins, new, old) == [i \in 0 .. 3 |-> IF Bit(Dest(ins), 3 - i) = 1 THEN new[i] ELSE old[i]]
S(vu, ins) == vu.vf[Fs(ins)]
T(vu, ins) == vu.vf[Ft(ins)]
Sum(x, y)        == [i \in 0 .. 3 |-> FAdd(x[i], y[i])]
Difference(x, y) == [i \in 0 .. 3 |-> FSub(x[i], y[i])]
Product(x, y)    == [i \in 0 .. 3 |-> FMul(x[i], y[i])]

op_vadd(vu, ins)   == [vu EXCEPT !.vf[Fd(ins)] = Masked(ins, Sum(S(vu, ins), T(vu, ins)), @)]
op_vsub(vu, ins)   == [vu EXCEPT !.vf[Fd(ins)] = Masked(ins, Difference(S(vu, ins), T(vu, ins)), @)]
op_vsuba(vu, ins)  == [vu EXCEPT !.acc = Masked(ins, Difference(S(vu, ins), T(vu, ins)), @)]
op_vmadda(vu, ins) == [vu EXCEPT !.acc = Masked(ins, Sum(@, Product(S(vu, ins), T(vu, ins))), @)]
op_vmsuba(vu, ins) == [vu EXCEPT !.acc = Masked(ins, Difference(@, Product(S(vu, ins), T(vu, ins))), @)]

\* The components are written in order: if fs is ft, W may come from an X already written.
op_vmr32(vu, ins) ==
  LET x == IF Ft(ins) = Fs(ins) /\ Bit(Dest(ins), 3) = 1 THEN S(vu, ins)[1] ELSE S(vu, ins)[0]
      rotated == [i \in 0 .. 3 |-> IF i = 3 THEN x ELSE S(vu, ins)[i + 1]]
  IN [vu EXCEPT !.vf[Ft(ins)] = Masked(ins, rotated, @)]

op_viadd(vu, ins) == [vu EXCEPT !.vi[Fd(ins)] = (vu.vi[Fs(ins)] + vu.vi[Ft(ins)]) % W]

\* Stores to VU memory, at addresses of 32 bits; what lies behind its first 256
\* quadwords is not written.
\* VISWR reads the mask from the other end, and does not ask for the register's
\* upper half.
op_viswr(vu, ins) ==
  LET at == vu.vi[Fs(ins)] % (W \div 16)
  IN IF at >= VuQwords THEN vu
     ELSE [vu EXCEPT !.data[at] = [i \in 0 .. 3 |-> IF Bit(Dest(ins), i) = 1 THEN vu.vi[Ft(ins)] % H ELSE @[i]]]
op_vsqi(vu, ins) ==
  LET at == vu.vi[Ft(ins)] % (W \div 16)
  IN IF at >= VuQwords THEN vu
     ELSE [vu EXCEPT !.data[at] = Masked(ins, S(vu, ins), @), !.vi[Ft(ins)] = (@ + 1) % W]
=============================================================================
