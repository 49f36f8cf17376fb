------------------------------ MODULE SifRegs ------------------------------
(***************************************************************************)
(* The SIF's mailbox registers, src/common/sif.cc, which the programs of   *)
(* the EE and the IOP both write.  Every register but SIF_CTRL is what was *)
(* written last, by either of them.  A word is the set of its bits.        *)
(***************************************************************************)
EXTENDS Integers

CONSTANTS
  SifData,     \* what the programs write, each value the set of bits that are one
  SifMailboxes \* the plain registers

ASSUME SifDataAssumption == SifData \subseteq SUBSET (0 .. 31)

VARIABLES
  mailbox, ctrl,
  ee_said    \* whether the EE last said that it is ready

sifRegsVars == <<mailbox, ctrl, ee_said>>

EeReady == 8
IopBits == 4 .. 7
Nibble3 == 12 .. 15
Set3    == 13

SifRegsInit ==
  /\ mailbox = [r \in SifMailboxes |-> {}] /\ ctrl = {} /\ ee_said = FALSE

SifRegsTypeOK ==
  /\ mailbox \in [SifMailboxes -> SifData \cup {{}}]
  /\ ctrl \subseteq 0 .. 31 /\ ee_said \in BOOLEAN

\* SIF::write to any other register.
WriteMailbox(r, data) ==
  /\ mailbox' = [mailbox EXCEPT ![r] = data] /\ UNCHANGED <<ctrl, ee_said>>

\* Mutant of IopCtrl: the IOP's bits are taken as they come.
IopCtrlPlain(data) == (ctrl \ IopBits) \cup (data \cap (0 .. 15))

\* A write of the IOP to SIF_CTRL: bits 5 and 7 set the third nibble, and the bits it
\* writes are all cleared when one of them was set.
IopCtrl(data) ==
  LET temp == data \cap IopBits
      c    == IF data \cap {5, 7} # {} THEN (ctrl \ Nibble3) \cup {Set3} ELSE ctrl
  IN IF c \cap temp # {} THEN c \ temp ELSE c \cup temp

\* A write of the EE to SIF_CTRL.
EeCtrl(data) == IF EeReady \notin data THEN ctrl \ {EeReady} ELSE ctrl \cup {EeReady}

IopWritesCtrl(data) == ctrl' = IopCtrl(data) /\ UNCHANGED <<mailbox, ee_said>>
EeWritesCtrl(data) ==
  ctrl' = EeCtrl(data) /\ ee_said' = (EeReady \in data) /\ UNCHANGED mailbox

SifRegsNext ==
  \E data \in SifData :
    \/ IopWritesCtrl(data) \/ EeWritesCtrl(data)
    \/ \E r \in SifMailboxes : WriteMailbox(r, data)

SifRegsSpec == SifRegsInit /\ [][SifRegsNext]_sifRegsVars

\* SIF_CTRL tells the IOP whether the EE is ready, and nothing the IOP writes to it
\* changes that; its third nibble is never anything but empty or bit 13.
CtrlAgrees ==
  /\ SifRegsTypeOK
  /\ EeReady \in ctrl <=> ee_said
  /\ ctrl \cap Nibble3 \in {{}, {Set3}}
=============================================================================
