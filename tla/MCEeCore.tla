------------------------------ MODULE MCEeCore ------------------------------
(* Small programs for EeCore.                                              *)
EXTENDS EeCore, FiniteSets

I(kind)      == [kind |-> kind, target |-> 0]
To(kind, a)  == [kind |-> kind, target |-> a]
MCLast       == 14
Memory(code_) == [a \in 0 .. MCLast |-> IF a < Len(code_) THEN code_[a + 1] ELSE I("unknown")]

\* Every loop of seven instructions with at most two branches, of any kind and
\* wherever they lead, behind which comes an ordinary delay slot, before the last.
Branches   == {To(kind, a) : kind \in {"jump", "branch", "likely"}, a \in 0 .. 6}
Loop(f)    == [a \in 0 .. MCLast |->
                 IF a \in DOMAIN f THEN f[a]
                 ELSE IF a < 6 THEN I("op")
                 ELSE IF a = 6 THEN To("jump", 0)
                 ELSE IF a = 7 THEN I("none") ELSE I("unknown")]
Placements == {S \in SUBSET (0 .. 4) : Cardinality(S) <= 2 /\ \A a \in S : a + 1 \notin S}
Loops      == {Loop(f) : f \in UNION {[S -> Branches] : S \in Placements}}

\* Returns at error level and at exception level, with their addresses set just
\* before, and the interrupt switches in a delay slot.
Returns == Memory(<<To("mtc0_error", 4), I("ei"), I("op"), I("eret"),
                    To("mtc0_epc", 7), I("eret"), I("op"), To("jump", 4), I("di")>>)
Switches == Memory(<<I("mtc0_status"), I("none"), To("branch", 2), I("ei"),
                     To("mtc0_epc", 1), I("di"), I("eret"), To("jump", 4), I("op")>>)

\* What the first ERET may load behind them, and start.
Elf == [code  |-> [a \in 10 .. 14 |-> <<I("op"), To("likely", 10), I("ei"), To("jump", 11),
                                       To("mtc0_epc", 10)>>[a - 9]],
        entry |-> 10]

FlowImages == Loops \cup {Returns, Switches}
OneElf     == {Elf}

\* Programs that raise exceptions, with the handlers at 4 (common) and at 6.  Nothing
\* that decodes lies behind their last ERET: a return that starts a block would
\* execute it.
Accesses == Memory(<<I("access"), I("mtc0_status"), I("access"), To("likely", 0), I("access"),
                     I("op"), I("op"), I("op"), I("eret")>>)
Syscalls == Memory(<<I("mtc0_status"), I("syscall"), To("jump", 0), I("di"), To("branch", 8),
                     I("op"), I("syscall"), I("op"), I("eret")>>)
Broken   == Memory(<<I("mtc0_status"), To("jump", 3), I("op")>>)

ExceptionImages == {Accesses, Syscalls, Broken}

AllImages == FlowImages \cup ExceptionImages
=============================================================================
