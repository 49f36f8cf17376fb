--------------------------- MODULE MCPeripherals ---------------------------
(***************************************************************************)
(* The devices on the IOP's bus share no state, nor does a util::Queue     *)
(* with any of them: a behaviour has one of these at work, and the others  *)
(* as they were reset.                                                     *)
(***************************************************************************)
EXTENDS Sio2, Cdvd, SifRegs, RingQueue

VARIABLES focus
peripheralVars == <<sio2Vars, cdvdVars, sifRegsVars, vars, focus>>

Pad(cmd, operand) == <<Controller, cmd, 0, operand, 0, 0, 0, 0, 0>>
Poll == SubSeq(Pad(READ_DATA, 0), 1, 5)
Enter == Pad(CONFIG_MODE, 1)
Leave == Pad(CONFIG_MODE, 0)
Card == <<MemCard, 17, 0>>
\* What a driver knows of the pad, before its first transfer and behind an exchange.
Unused == [modes |-> [config_mode |-> FALSE, mode |-> Digital], chained |-> FALSE]
Behind(known, e) ==
  IF e = <<>> THEN known
  ELSE [modes |-> Became(known.modes, e), chained |-> Chained(known.modes, known.chained, e)]
\* A transfer from its exchanges and what is known before it, and a script from its
\* transfers; an exchange that is described as empty still sends a byte.
Built(exchanges, known) ==
  LET knowns == FoldLeft(LAMBDA a, e : Append(a, Behind(Last(a), e)), <<known>>, exchanges)
  IN [bytes   |-> FlattenSeq(exchanges) \o (IF Last(exchanges) = <<>> THEN <<0>> ELSE <<>>),
      starts  |-> FoldLeft(LAMBDA a, e : Append(a, Last(a) + Len(e)), <<0>>, exchanges),
      modes   |-> [k \in DOMAIN knowns |-> knowns[k].modes],
      chained |-> [k \in DOMAIN knowns |-> knowns[k].chained]]
Script(transfers, legal) ==
  LET AndNext(a, t) == [built |-> Append(a.built, Built(t, a.known)), known |-> FoldLeft(Behind, a.known, t)]
  IN [transfers |-> FoldLeft(AndNext, [built |-> <<>>, known |-> Unused], transfers).built, legal |-> legal]
\* The second script asks for the model and the combinations while a read of the buttons is
\* chained.
MCSio2Scripts == {
  Script(<< <<Poll>>, <<Enter, Pad(QUERY_MODE, 0), Pad(QUERY_MODEL, 0)>>, <<Pad(SET_MAIN_MODE, 1), Leave, Poll>>, <<Poll, Card>> >>, TRUE),
  Script(<< <<Enter, Pad(QUERY_MODEL, 0)>>, <<Poll, Card, Pad(QUERY_COMB, 0)>>, <<Pad(QUERY_ACT, 0), Pad(QUERY_MODEL, 0)>> >>, TRUE),
  Script(<< <<Enter>>, <<Pad(QUERY_ACT, 0), Pad(QUERY_ACT, 1), Pad(QUERY_COMB, 0)>>, <<Pad(QUERY_MODE, 0), Pad(QUERY_MODE, 1), Leave>> >>, TRUE),
  Script(<< <<Enter, Pad(SET_MAIN_MODE, 1), Pad(QUERY_MODEL, 0)>>, <<Pad(SET_MAIN_MODE, 0), Pad(READ_DATA, 0), Enter>>, <<Pad(QUERY_MODEL, 0), Leave, Leave>> >>, TRUE),
  Script(<< <<Card, Poll, Card>>, <<Leave, Poll>> >>, TRUE),
  Script(<< <<Poll>>, <<Pad(QUERY_MODEL, 0)>> >>, FALSE), Script(<< <<Enter>>, <<Pad(64, 0)>> >>, FALSE),
  Script(<< << <<33, 0>> >> >>, FALSE), Script(<< << <<>> >> >>, FALSE) }
\* The exchanges of docs/padspecs.txt:58-59, 72-73 and 56-57.
MCListedScripts == { Script(<< <<SubSeq(Enter, 1, 5), Pad(QUERY_MODEL, 90), Leave>> >>, TRUE) }
MCSifData == {{}, {4}, {5}, {7}, {5, 7}, 4 .. 7, {8}, {4, 8}, {5, 7, 8}, 0 .. 15}
MCMailboxes == {"MSFLG", "SMFLG"}

\* Calls of one, two and four words: uint32_t, uint64_t and uint128_t on words.
MCRatios == {1, 2, 4}

PeripheralsInit ==
  /\ Sio2Init /\ CdvdInit /\ SifRegsInit /\ Init
  /\ focus \in {"sio2", "cdvd", "sif", "queue"}
  /\ focus = "sio2" \/ script = CHOOSE s \in Sio2Scripts : TRUE
Sio2At(A) == focus = "sio2" /\ A /\ UNCHANGED <<cdvdVars, sifRegsVars, vars, focus>>
CdvdAt(A) == focus = "cdvd" /\ A /\ UNCHANGED <<sio2Vars, sifRegsVars, vars, focus>>
PeripheralsNext ==
  \/ Sio2At(Sio2Next) \/ CdvdAt(CdvdNext)
  \/ focus = "sif" /\ SifRegsNext /\ UNCHANGED <<sio2Vars, cdvdVars, vars, focus>>
  \/ focus = "queue" /\ Next /\ UNCHANGED <<sio2Vars, cdvdVars, sifRegsVars, focus>>
PeripheralsSpec ==
  /\ PeripheralsInit /\ [][PeripheralsNext]_peripheralVars
  /\ WF_peripheralVars(Sio2At(Sio2Steps)) /\ WF_peripheralVars(CdvdAt(CdvdWorks))

\* No driver waits for ever, be it for the replies of its transfers or for the status
\* of the CDVD controller.
Served == (focus = "sio2" => Sio2Serves) /\ StatusTurns
=============================================================================
