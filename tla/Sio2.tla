-------------------------------- MODULE Sio2 --------------------------------
(***************************************************************************)
(* The SIO2 and the gamepad behind it: src/media/sio2.cc and gamepad.cc.   *)
(* The IOP's driver describes the exchanges of a transfer in SEND3,        *)
(* uploads their bytes (through FIFOIN or by DMA) and fetches one reply    *)
(* for each.  The pad answers byte by byte, from tables that commands      *)
(* rewrite.  Nobody presses a button: they read as 65535 for ever.         *)
(***************************************************************************)
EXTENDS Integers, SequencesExt

CONSTANTS
  Sio2Scripts,  \* what drivers do: records [transfers, legal]; a transfer is the bytes
                \* it uploads, how many of them come before each exchange and before
                \* its end (starts), the modes in which each exchange finds the pad, and the
                \* next transfer will (modes), and whether a read of the buttons may be
                \* chained then (chained)
  Slots,        \* entries of SEND3
  Retries       \* bound on how often a driver gives a transfer up

VARIABLES
  send3, command, current_device, sio2_fifo,
  pad,          \* the members of Gamepad
  sio2_intr,    \* the SIO2's bit of I_STAT
  sio2_halted,
  script, turn, \* what the driver does, the number of its transfer,
  stage,        \* how far it is with it,
  uploaded,     \* the bytes uploaded and
  received,     \* the replies fetched
  retries

sio2Dev  == <<send3, command, current_device, sio2_fifo, pad, sio2_intr, sio2_halted>>
sio2Drv  == <<script, turn, stage, uploaded, received, retries>>
sio2Vars == <<sio2Dev, sio2Drv>>

Controller == 1
MemCard == 129

READ_DATA == 66
CONFIG_MODE == 67
SET_MAIN_MODE == 68
QUERY_MODEL == 69
QUERY_ACT == 70
QUERY_COMB == 71
QUERY_MODE == 76
PadCommands ==
  {READ_DATA, CONFIG_MODE, SET_MAIN_MODE, QUERY_MODEL, QUERY_ACT, QUERY_COMB, QUERY_MODE}

Digital == 0
\* (buttons >> offset) & 0xff at the offsets 0 and 1.
Released == 255
Row(values) == [i \in 0 .. 17 |-> IF i + 1 \in DOMAIN values THEN values[i + 1] ELSE 0]
Zeros == <<0, 0, 0, 0, 0, 0>>
QueryModelRow == <<1, 2, 0, 2, 1, 0>>
QueryCombRow  == <<0, 0, 2, 0, 1, 0>>
Constants(half) == IF half = 0 THEN <<0, 0, 1, 2, 0, 10>> ELSE <<0, 0, 1, 1, 1, 20>>

GamepadInit ==
  [written |-> 0, custom_response |-> -1, response |-> "none", command |-> 0,
   mode |-> Digital, config_mode |-> FALSE,
   responses |-> [r \in 0 .. 15 |-> Row(CASE r = 5 -> QueryModelRow [] r = 7 -> QueryCombRow
                                         [] OTHER -> Zeros)]]

Transfers == script.transfers
Transfer  == Transfers[turn]

Sio2Init ==
  /\ send3 = [i \in 0 .. Slots - 1 |-> 0]
  /\ command = [index |-> 0, size |-> 0] /\ current_device = 0 /\ sio2_fifo = <<>>
  /\ pad = GamepadInit /\ sio2_intr = FALSE /\ sio2_halted = FALSE
  /\ script \in Sio2Scripts /\ turn = 1 /\ stage = "reset"
  /\ uploaded = 0 /\ received = <<>> /\ retries = 0

Sio2TypeOK ==
  /\ command.index \in 0 .. Slots /\ command.size \in 0 .. 511
  /\ sio2_fifo \in Seq(0 .. 255) /\ received \in Seq(0 .. 255)
  /\ pad.custom_response \in {-1, 4, 5} /\ pad.written \in Nat
  /\ pad.config_mode \in BOOLEAN /\ pad.mode \in {0, 1}
  /\ \A r \in 0 .. 15 : \A i \in 0 .. 17 : pad.responses[r][i] \in 0 .. 255
  /\ turn \in 1 .. Len(Transfers) + 1

-----------------------------------------------------------------------------
(* The gamepad.                                                            *)

SetResponse(p, byte_id, response) ==
  [p EXCEPT !.custom_response = byte_id + 1, !.response = response]

CurrentRow(p) == p.command % 16

\* read_buttons: no button is pressed; it chains itself to byte 5,
\* and from there again, where nothing takes it back.
ReadButtons(p) ==
  LET offset == p.written - 4
  IN SetResponse([p EXCEPT !.responses[CurrentRow(p)][offset] = Released],
                 4, "read_buttons")

\* set_config: outside of config mode the command reads the buttons.
SetConfig(p, value) ==
  [(IF ~p.config_mode THEN ReadButtons(p)
    ELSE [p EXCEPT !.responses[CurrentRow(p)][0] = 0, !.responses[CurrentRow(p)][1] = 0])
   EXCEPT !.config_mode = value # 0]

Respond(p, byte) ==
  CASE p.response = "read_buttons" -> ReadButtons(p)
    [] p.response = "set_config"   -> SetConfig(p, byte)
    [] p.response = "switch_mode"  -> [p EXCEPT !.mode = byte]
    [] p.response = "query"        ->
         [p EXCEPT !.responses[CurrentRow(p)] =
            [i \in 0 .. 17 |-> IF i < 6 THEN Constants(byte)[i + 1] ELSE @[i]]]
    [] p.response = "query_mode"   -> [p EXCEPT !.responses[CurrentRow(p)][3] = (4 + byte * 3) % 256]

Allowed(p, cmd) == cmd \in PadCommands /\ (p.config_mode \/ cmd \in {READ_DATA, CONFIG_MODE})

\* Mutant of ProcessCommand: QUERY_MODEL forgets the mode.
ProcessCommandBare(p, cmd) ==
  LET q == [p EXCEPT !.command = cmd]
  IN CASE cmd = READ_DATA     -> SetResponse(q, 3, "read_buttons")
       [] cmd = CONFIG_MODE   -> SetResponse(q, 3, "set_config")
       [] cmd = SET_MAIN_MODE -> SetResponse(q, 3, "switch_mode")
       [] cmd = QUERY_ACT     -> SetResponse(q, 3, "query")
       [] cmd = QUERY_MODE    -> SetResponse(q, 3, "query_mode")
       [] OTHER               -> q

\* process_command.
ProcessCommand(p, cmd) ==
  LET q == [p EXCEPT !.command = cmd]
  IN CASE cmd = READ_DATA     -> SetResponse(q, 3, "read_buttons")
       [] cmd = CONFIG_MODE   -> SetResponse(q, 3, "set_config")
       [] cmd = SET_MAIN_MODE -> SetResponse(q, 3, "switch_mode")
       [] cmd = QUERY_MODEL   -> [q EXCEPT !.responses[5][2] = p.mode]
       [] cmd = QUERY_ACT     -> SetResponse(q, 3, "query")
       [] cmd = QUERY_COMB    -> q
       [] cmd = QUERY_MODE    -> SetResponse(q, 3, "query_mode")
Header(p, cmd) ==
  IF cmd \in {READ_DATA, CONFIG_MODE} THEN (IF p.mode = Digital THEN 65 ELSE 115) ELSE 243

\* write_byte: the pad behind a byte, and its reply.
WriteByte(p, byte) ==
  LET n == p.written + 1
      q == [p EXCEPT !.written = n]
      answered == Respond([q EXCEPT !.custom_response = -1], byte)
      Listed(r) == [pad |-> r, reply |-> r.responses[CurrentRow(r)][n - 4]]
  IN CASE n = p.custom_response -> Listed(answered)
       [] n # p.custom_response /\ n = 1 -> [pad |-> q, reply |-> 255]
       [] n # p.custom_response /\ n = 2 -> [pad |-> ProcessCommand(q, byte), reply |-> Header(q, byte)]
       [] n # p.custom_response /\ n = 3 -> [pad |-> q, reply |-> 90]
       [] n # p.custom_response /\ n > 3 -> Listed(q)

-----------------------------------------------------------------------------
(* The pad, one exchange at a time.                                        *)

\* The replies to an exchange, by its command and operand, and what becomes of the pad:
\* the data that docs/padspecs.txt lists for the command (an analog pad's sticks are
\* not in the code), behind the header of gamepad.cc:136, by which 0x43 is answered like
\* 0x42 in config mode, too.
DataOf(p, cmd, operand) ==
  CASE cmd = READ_DATA                       -> <<255, 255, 0, 0, 0, 0>>
    [] cmd = CONFIG_MODE                     -> IF p.config_mode THEN Zeros ELSE <<255, 255, 0, 0, 0, 0>>
    [] cmd = SET_MAIN_MODE                   -> Zeros
    [] cmd = QUERY_MODEL                     -> <<1, 2, p.mode, 2, 1, 0>>
    [] cmd = QUERY_ACT                       -> Constants(operand)
    [] cmd = QUERY_COMB                      -> <<0, 0, 2, 0, 1, 0>>
    [] cmd = QUERY_MODE                      -> <<0, 0, 0, (4 + operand * 3) % 256, 0, 0>>
RepliesTo(p, e) ==
  IF e[1] = MemCard THEN [i \in DOMAIN e |-> 255]
  ELSE SubSeq(<<255, Header(p, e[2]), 90>> \o DataOf(p, e[2], e[4]), 1, Len(e))
Became(p, e) ==
  CASE e[1] = Controller /\ e[2] = CONFIG_MODE   -> [p EXCEPT !.config_mode = e[4] # 0]
    [] e[1] = Controller /\ e[2] = SET_MAIN_MODE -> [p EXCEPT !.mode = e[4]]
    [] OTHER -> p

-----------------------------------------------------------------------------
(* What drivers upload.                                                    *)

Count(t)       == Len(t.starts) - 1
Size(t, j)     == t.starts[j + 1] - t.starts[j]
Exchange(t, j) == SubSeq(t.bytes, t.starts[j] + 1, t.starts[j + 1])
Commands(e)    == Len(e) > 1 /\ e[1] = Controller

\* An exchange that is answered, and one at which the emulator stops.
Lawful(m, e) ==
  \/ e # <<>> /\ e[1] = MemCard
  \/ /\ Len(e) \in 4 .. 9 /\ e[1] = Controller /\ Allowed(m, e[2])
     /\ e[2] \in {SET_MAIN_MODE, QUERY_ACT} => e[4] \in {0, 1}
Unlawful(m, e) ==
  \/ e = <<>>
  \/ e[1] \notin {Controller, MemCard}
  \/ Commands(e) /\ ~Allowed(m, e[2])

\* No exchange of the transfer changes a mode.
Repeatable(t) ==
  \A j \in 1 .. Count(t) :
    Size(t, j) > 1 => Exchange(t, j)[2] \notin {CONFIG_MODE, SET_MAIN_MODE}

\* The command has a response of its own: the others get what the last one left.
SetsResponse(e) == Commands(e) /\ e[2] \notin {QUERY_MODEL, QUERY_COMB}
SetsNone(e)     == Commands(e) /\ e[2] \in {QUERY_MODEL, QUERY_COMB}

\* The response of these commands reads the buttons, and chains itself; that of the others
\* is taken away when it has answered.
ReadsButtons(m, e) ==
  SetsResponse(e) /\ e[2] \in (IF m.config_mode THEN {READ_DATA} ELSE {READ_DATA, CONFIG_MODE})
Chained(m, before, e) == IF SetsResponse(e) THEN ReadsButtons(m, e) ELSE before

\* A driver that never sends QUERY_MODEL or QUERY_COMB while a read may be chained: between
\* it and them it has the pad answer another command.
Clears(s) ==
  \A k \in DOMAIN s.transfers : \A j \in 1 .. Count(s.transfers[k]) :
    SetsNone(Exchange(s.transfers[k], j)) => ~s.transfers[k].chained[j]

\* A transfer is as long as its description, and one byte longer when the last exchange
\* is described as empty.
Described(t) ==
  /\ t.bytes \in Seq(0 .. 255) /\ t.starts \in Seq(Nat) /\ Count(t) \in 1 .. Slots
  /\ t.starts[1] = 0 /\ \A i, j \in 1 .. Count(t) + 1 : i <= j => t.starts[i] <= t.starts[j]
  /\ \A j \in 1 .. Count(t) : Size(t, j) <= 511
  /\ Len(t.bytes) = t.starts[Count(t) + 1] + (IF Size(t, Count(t)) = 0 THEN 1 ELSE 0)
  /\ t.modes \in Seq([config_mode : BOOLEAN, mode : {0, 1}]) /\ Len(t.modes) = Count(t) + 1

\* A driver knows the modes its own exchanges put the pad in; one that may repeat a
\* transfer begins it, if any command of it has a response of its own, with such a one.
ASSUME Sio2ScriptsAssumption ==
  /\ Slots \in Nat
  /\ \A s \in Sio2Scripts :
       /\ s.legal \in BOOLEAN /\ Len(s.transfers) \in Nat /\ DOMAIN s.transfers = 1 .. Len(s.transfers)
       /\ s.transfers # <<>> => s.transfers[1].modes[1] = [config_mode |-> FALSE, mode |-> Digital]
       /\ \A k \in DOMAIN s.transfers :
            LET t == s.transfers[k]
            IN /\ Described(t)
               /\ k < Len(s.transfers) => s.transfers[k + 1].modes[1] = t.modes[Count(t) + 1]
               /\ \A j \in 1 .. Count(t) :
                    IF Lawful(t.modes[j], Exchange(t, j))
                    THEN t.modes[j + 1] = Became(t.modes[j], Exchange(t, j))
                    ELSE ~s.legal /\ Unlawful(t.modes[j], Exchange(t, j))
               /\ Repeatable(t) =>
                    \A i, j \in 1 .. Count(t) :
                      SetsResponse(Exchange(t, i)) /\ SetsNone(Exchange(t, j)) =>
                        \E h \in 1 .. j - 1 : SetsResponse(Exchange(t, h))

\* A driver also knows which of its commands read the buttons.
ASSUME Sio2ChainedAssumption ==
  \A s \in Sio2Scripts :
    /\ s.transfers # <<>> => ~s.transfers[1].chained[1]
    /\ \A k \in DOMAIN s.transfers :
         LET t == s.transfers[k]
         IN /\ t.chained \in Seq(BOOLEAN) /\ Len(t.chained) = Count(t) + 1
            /\ k < Len(s.transfers) => (s.transfers[k + 1].chained[1] <=> t.chained[Count(t) + 1])
            /\ \A j \in 1 .. Count(t) :
                 Lawful(t.modes[j], Exchange(t, j)) =>
                   (t.chained[j + 1] <=> Chained(t.modes[j], t.chained[j], Exchange(t, j)))

-----------------------------------------------------------------------------
(* The SIO2 and its driver.                                                *)

Sio2Idle(s) == ~sio2_halted /\ turn <= Len(Transfers) /\ stage = s

\* SIO2_CTRL with bits 2 and 3: the replies and the pad stay as they are.
ResetSio2 ==
  /\ Sio2Idle("reset")
  /\ command' = [index |-> 0, size |-> 0] /\ current_device' = 0
  /\ stage' = "describe"
  /\ UNCHANGED <<send3, sio2_fifo, pad, sio2_intr, sio2_halted, script, turn, uploaded, received, retries>>

\* SEND3: a register for each exchange, with its size from bit 8 on.
WriteSend3 ==
  /\ Sio2Idle("describe")
  /\ send3' = [i \in 0 .. Slots - 1 |->
                 IF i >= Count(Transfer) THEN send3[i]
                 ELSE IF Size(Transfer, i + 1) = 0 THEN 0 ELSE 256 * Size(Transfer, i + 1) + 64]
  /\ stage' = "upload"
  /\ UNCHANGED <<command, current_device, sio2_fifo, pad, sio2_intr, sio2_halted,
                 script, turn, uploaded, received, retries>>

NextByte == Transfer.bytes[uploaded + 1]
Starts   == command.size = 0
Device   == IF Starts THEN NextByte ELSE current_device
Params   == send3[command.index]

\* Mutant of Counted: the byte that names the device does not count.
Counted0 ==
  IF Starts THEN [index |-> command.index + 1, size |-> (Params \div 256) % 512]
  ELSE [command EXCEPT !.size = @ - 1]

\* What is left of the exchange.
Counted ==
  IF Starts THEN [index |-> command.index + 1, size |-> ((Params \div 256) % 512) - 1]
  ELSE [command EXCEPT !.size = @ - 1]

Restarted == IF Starts THEN [pad EXCEPT !.written = 0] ELSE pad

Uploading ==
  /\ Sio2Idle("upload") /\ uploaded < Len(Transfer.bytes)
  /\ uploaded' = uploaded + 1
  /\ UNCHANGED <<send3, sio2_intr, script, turn, stage, received, retries>>

\* upload_command.
UploadPad ==
  /\ Uploading
  /\ (Starts => Params # 0) /\ Device = Controller
  /\ Restarted.written + 1 = 2 => Allowed(pad, NextByte)
  /\ LET w == WriteByte(Restarted, NextByte)
     IN pad' = w.pad /\ sio2_fifo' = Append(sio2_fifo, w.reply)
  /\ command' = Counted /\ current_device' = Device
  /\ UNCHANGED sio2_halted

UploadCard ==
  /\ Uploading
  /\ (Starts => Params # 0) /\ Device = MemCard
  /\ sio2_fifo' = Append(sio2_fifo, 255)
  /\ command' = Counted /\ current_device' = Device
  /\ UNCHANGED <<pad, sio2_halted>>

Refused ==
  \/ Starts /\ Params = 0
  \/ Device \notin {Controller, MemCard}
  \/ Device = Controller /\ Restarted.written + 1 = 2 /\ ~Allowed(pad, NextByte)
UploadRefused ==
  /\ Uploading /\ Refused
  /\ sio2_halted' = TRUE
  /\ UNCHANGED <<command, current_device, sio2_fifo, pad>>

\* SIO2_CTRL with bit 0: the transfer is complete at once.
StartSio2 ==
  /\ Sio2Idle("upload") /\ uploaded = Len(Transfer.bytes)
  /\ sio2_intr' = TRUE /\ stage' = "wait"
  /\ UNCHANGED <<send3, command, current_device, sio2_fifo, pad, sio2_halted,
                 script, turn, uploaded, received, retries>>

\* The interrupt handler: the driver goes on when it has every reply.
Sio2Interrupt ==
  /\ Sio2Idle("wait") /\ sio2_intr
  /\ sio2_intr' = FALSE /\ stage' = "fetch"
  /\ UNCHANGED <<send3, command, current_device, sio2_fifo, pad, sio2_halted,
                 script, turn, uploaded, received, retries>>

\* read_fifo, while bytes are still uploaded or behind it; nobody reads an empty queue.
ReadFifo ==
  /\ ~sio2_halted /\ sio2_fifo # <<>>
  /\ sio2_fifo' = Tail(sio2_fifo) /\ received' = Append(received, Head(sio2_fifo))
  /\ UNCHANGED <<send3, command, current_device, pad, sio2_intr, sio2_halted,
                 script, turn, stage, uploaded, retries>>

NextTransfer ==
  /\ Sio2Idle("fetch") /\ Len(received) = uploaded
  /\ turn' = turn + 1 /\ stage' = "reset" /\ uploaded' = 0 /\ received' = <<>>
  /\ UNCHANGED <<sio2Dev, script, retries>>

\* The driver gives up in the middle of a transfer that changes no mode, with every
\* reply so far fetched, and begins it again.
GiveUp ==
  /\ Sio2Idle("upload") /\ retries < Retries /\ uploaded > 0 /\ sio2_fifo = <<>>
  /\ Repeatable(Transfer)
  /\ retries' = retries + 1 /\ stage' = "reset" /\ uploaded' = 0 /\ received' = <<>>
  /\ UNCHANGED <<sio2Dev, script, turn>>

Sio2Steps ==
  \/ ResetSio2 \/ WriteSend3 \/ UploadPad \/ UploadCard \/ UploadRefused
  \/ StartSio2 \/ Sio2Interrupt \/ ReadFifo \/ NextTransfer
Sio2Next == Sio2Steps \/ GiveUp

Sio2Spec == Sio2Init /\ [][Sio2Next]_sio2Vars /\ WF_sio2Vars(Sio2Steps)

-----------------------------------------------------------------------------
\* A reply is the one that belongs to the i-th byte of the j-th exchange.  The exception is
\* the defect of gamepad.cc:51: a read that is still chained overwrites byte 2 of the table
\* of QUERY_MODEL or QUERY_COMB, for good, and only a driver that clears it first is safe.
Own(t, j, i, reply) ==
  \/ reply = RepliesTo(t.modes[j], Exchange(t, j))[i]
  \/ ~Clears(script) /\ SetsNone(Exchange(t, j)) /\ i = 5 /\ reply = Released

\* Each byte gets the reply of the exchange it belongs to, in order, through every
\* change of the pad's modes, while replies are fetched behind the uploads, and when a
\* transfer is given up and repeated.
RepliesOwn ==
  /\ Sio2TypeOK
  /\ script.legal /\ turn <= Len(Transfers) =>
       LET got     == received \o sio2_fifo
           From(j) == Transfer.starts[j]
       IN /\ Len(got) = uploaded
          /\ \A j \in 1 .. Count(Transfer) : \A i \in 1 .. Size(Transfer, j) :
               From(j) + i <= uploaded => Own(Transfer, j, i, got[From(j) + i])

\* The header by docs/padspecs.txt:5-15 and 57: a pad in config mode is an F3.
ListedHeader(m) == IF m.config_mode THEN 243 ELSE IF m.mode = Digital THEN 65 ELSE 115
ListedReplies(m, e) ==
  IF Commands(e) THEN [RepliesTo(m, e) EXCEPT ![2] = ListedHeader(m)] ELSE RepliesTo(m, e)

\* A driver that has all the replies of a transfer has the ones that docs/padspecs.txt
\* lists for its commands.  The code breaks this in two places: QUERY_MODEL after the
\* command that enters config mode (gamepad.cc:51), and the one that leaves it (gamepad.cc:104).
RepliesListed ==
  script.legal /\ turn <= Len(Transfers) /\ stage = "fetch" /\ Len(received) = uploaded =>
    \A j \in 1 .. Count(Transfer) : \A i \in 1 .. Size(Transfer, j) :
      received[Transfer.starts[j] + i] = ListedReplies(Transfer.modes[j], Exchange(Transfer, j))[i]

\* A driver that enters config mode before the commands that ask for it is never
\* refused, and gets through its transfers.
Sio2Serves == <>(IF script.legal THEN turn > Len(Transfers) ELSE sio2_halted)
=============================================================================
