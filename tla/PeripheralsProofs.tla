------------------------- MODULE PeripheralsProofs -------------------------
(***************************************************************************)
(* The drivers on the IOP's bus get the answers to their own questions:    *)
(* those of the CDVD controller the results of their commands, those of    *)
(* the SIO2 the replies of the pad to their exchanges.                     *)
(***************************************************************************)
EXTENDS Cdvd, Sio2, SequenceTheorems, TLAPS

\* The status is that of the queue of results; a driver finds it empty when it sends its
\* command, and what it has read and what it can still read are the command's results.
StatusTells == ~cdvd_halted => (S.ready <=> S.result = <<>>)
Flushed     == caller \in {"params", "command"} => S.ready /\ answer = <<>>
NoParams    == ~cdvd_halted /\ caller # "command" => S.params = <<>>
AnswerGoesOn ==
  caller = "read" /\ ~cdvd_halted => S.command \in Known /\ answer \o S.result = ResultOf(S.command)
CdvdInv == CdvdTypeOK /\ StatusTells /\ Flushed /\ NoParams /\ AnswerGoesOn

\* The results of an S command: at least one, at most sixteen.
LEMMA ResultType ==
  ASSUME NEW cmd \in Known
  PROVE  ResultOf(cmd) \in Seq(Nat) /\ Len(ResultOf(cmd)) # 0 /\ Len(ResultOf(cmd)) <= 16
<1>1. CASE cmd = ForbidDVD
  BY <1>1 DEF ResultOf, Known, ForbidDVD, OpenConfig, ReadConfig, CloseConfig
<1>2. CASE cmd = OpenConfig
  BY <1>2 DEF ResultOf, Known, ForbidDVD, OpenConfig, ReadConfig, CloseConfig
<1>3. CASE cmd = ReadConfig
  <2>1. ResultOf(cmd) = [i \in 1 .. 16 |-> 0]
    BY <1>3 DEF ResultOf, Known, ForbidDVD, OpenConfig, ReadConfig, CloseConfig
  <2>2. [i \in 1 .. 16 |-> 0] \in Seq(Nat) /\ Len([i \in 1 .. 16 |-> 0]) = 16
    OBVIOUS
  <2> QED BY <2>1, <2>2
<1>4. CASE cmd = CloseConfig
  BY <1>4 DEF ResultOf, Known, ForbidDVD, OpenConfig, ReadConfig, CloseConfig
<1> QED BY <1>1, <1>2, <1>3, <1>4 DEF Known

\* One result is taken from the front of the queue.
LEMMA LastTaken ==
  ASSUME NEW r \in Seq(Nat), r # <<>>
  PROVE  Tail(r) \in Seq(Nat) /\ Len(Tail(r)) = Len(r) - 1 /\ (Len(r) = 1 <=> Tail(r) = <<>>)
<1>1. Tail(r) \in Seq(Nat) /\ Len(Tail(r)) = Len(r) - 1 /\ Len(r) \in Nat
  OBVIOUS
<1>2. Tail(r) = <<>> <=> Len(Tail(r)) = 0
  BY <1>1, EmptySeq
<1> QED BY <1>1, <1>2

\* read_S_result: the status turns with the last result.
LEMMA TakenType ==
  ASSUME CdvdTypeOK, StatusTells, ~cdvd_halted, ~S.ready
  PROVE  /\ Taken \in SCommands
         /\ Len(Taken.result) <= 16 /\ Taken.params = S.params /\ Taken.command = S.command
         /\ Taken.ready <=> Taken.result = <<>>
         /\ Taken.result = Tail(S.result)
<1>1. S.result # <<>> /\ S.result \in Seq(Nat) /\ S \in SCommands /\ Len(S.result) <= 16
  BY DEF StatusTells, CdvdTypeOK, SCommands
<1> DEFINE rest  == Tail(S.result)
           ready == Len(S.result) = 1 \/ S.ready
<1>2. rest \in Seq(Nat) /\ Len(rest) <= 16
  BY <1>1, LastTaken
<1>3. ready \in BOOLEAN /\ (ready <=> rest = <<>>)
  BY <1>1, LastTaken
<1>4. Taken = [S EXCEPT !.result = rest, !.ready = ready]
  BY DEF Taken
<1> HIDE DEF rest, ready
<1>5. /\ Taken \in SCommands /\ Taken.result = rest /\ Taken.ready = ready
      /\ Taken.params = S.params /\ Taken.command = S.command
  BY <1>1, <1>2, <1>3, <1>4 DEF SCommands
<1> QED BY <1>2, <1>3, <1>5 DEF rest

\* A driver reads what another has left.
LEMMA FlushInv ==
  ASSUME CdvdInv, Flush
  PROVE  CdvdInv'
<1>1. CASE S.ready
  <2>1. S' = S /\ caller' = "params" /\ answer' = <<>> /\ UNCHANGED <<cdvd_halted, commands>>
    BY <1>1 DEF Flush, CdvdStep
  <2>2. ~cdvd_halted /\ caller = "flush"
    BY DEF Flush, CdvdStep
  <2>3. CdvdTypeOK'
    BY <2>1 DEF CdvdInv, CdvdTypeOK
  <2>4. StatusTells' /\ Flushed' /\ NoParams' /\ AnswerGoesOn'
    BY <1>1, <2>1, <2>2 DEF CdvdInv, StatusTells, Flushed, NoParams, AnswerGoesOn
  <2> QED BY <2>3, <2>4 DEF CdvdInv
<1>2. CASE ~S.ready
  <2>1. ~cdvd_halted /\ caller = "flush" /\ caller' = "flush" /\ UNCHANGED <<cdvd_halted, commands>>
    BY <1>2 DEF Flush, CdvdStep
  <2>2. S.result # <<>>
    BY <1>2, <2>1 DEF CdvdInv, StatusTells
  <2>3. S' = Taken /\ answer' = <<>>
    BY <1>2, <2>2 DEF Flush
  <2>4. /\ Taken \in SCommands
        /\ Len(Taken.result) <= 16 /\ Taken.params = S.params
        /\ Taken.ready <=> Taken.result = <<>>
    BY <1>2, <2>1, TakenType DEF CdvdInv
  <2> HIDE DEF Taken
  <2>5. CdvdTypeOK'
    BY <2>1, <2>3, <2>4 DEF CdvdInv, CdvdTypeOK
  <2>6. StatusTells' /\ Flushed' /\ NoParams' /\ AnswerGoesOn'
    BY <2>1, <2>3, <2>4 DEF CdvdInv, StatusTells, Flushed, NoParams, AnswerGoesOn
  <2> QED BY <2>5, <2>6 DEF CdvdInv
<1> QED BY <1>1, <1>2

\* A driver writes a parameter.
LEMMA WriteParamInv ==
  ASSUME CdvdInv, WriteParam
  PROVE  CdvdInv'
<1>1. /\ ~cdvd_halted /\ caller = "params" /\ caller' = "command"
      /\ UNCHANGED <<answer, cdvd_halted, commands>>
  BY DEF WriteParam, CdvdStep
<1>2. S.params = <<>>
  BY <1>1 DEF CdvdInv, NoParams
<1>3. /\ S'.command = S.command /\ S'.ready = S.ready /\ S'.result = S.result
      /\ S'.params \in Seq({1}) /\ Len(S'.params) <= 1
      /\ S' \in SCommands
  <2>1. S \in SCommands
    BY DEF CdvdInv, CdvdTypeOK
  <2> DEFINE params == Append(S.params, 1)
  <2>2. params \in Seq({1}) /\ Len(params) <= 1
    BY <1>2
  <2>3. S' = [S EXCEPT !.params = params] \/ S' = S
    BY DEF WriteParam
  <2> HIDE DEF params
  <2> QED BY <1>2, <2>1, <2>2, <2>3 DEF SCommands
<1>4. CdvdTypeOK'
  BY <1>1, <1>3 DEF CdvdInv, CdvdTypeOK
<1>5. StatusTells' /\ Flushed' /\ NoParams' /\ AnswerGoesOn'
  BY <1>1, <1>3 DEF CdvdInv, StatusTells, Flushed, NoParams, AnswerGoesOn
<1> QED BY <1>4, <1>5 DEF CdvdInv

\* process_S_command: the queue is empty, and holds the results of this command.
LEMMA SCommandInv ==
  ASSUME CdvdInv, NEW cmd \in Known \cup {Unknown}, SCommand(cmd)
  PROVE  CdvdInv'
<1>1. /\ ~cdvd_halted /\ caller = "command" /\ caller' = "read" /\ answer' = answer
      /\ commands' = commands + 1
  BY DEF SCommand
<1>2. S.ready /\ S.result = <<>>
  BY <1>1 DEF CdvdInv, Flushed, StatusTells
<1>3. answer = <<>>
  BY <1>1 DEF CdvdInv, Flushed
<1>4. CASE cmd \in Known
  <2>1. /\ S' = [command |-> cmd, ready |-> FALSE, params |-> <<>>, result |-> S.result \o ResultOf(cmd)]
        /\ UNCHANGED cdvd_halted
    BY <1>4 DEF SCommand
  <2> DEFINE r == ResultOf(cmd)
  <2>2. r \in Seq(Nat) /\ Len(r) # 0 /\ Len(r) <= 16
    BY <1>4, ResultType
  <2> HIDE DEF r
  <2>3. <<>> \o r = r /\ r # <<>>
    <3>1. <<>> \o r = r
      BY <2>2, ConcatEmptySeq
    <3>2. Len(<<>>) = 0
      OBVIOUS
    <3>3. Len(r) # 0
      BY <2>2
    <3> QED BY <3>1, <3>2, <3>3
  <2>4. S' = [command |-> cmd, ready |-> FALSE, params |-> <<>>, result |-> r]
    BY <1>2, <2>1, <2>3 DEF r
  <2>5. /\ S' \in SCommands
        /\ Len(S'.result) <= 16 /\ Len(S'.params) <= 1
    <3>1. <<>> \in Seq({1}) /\ Len(<<>>) <= 1
      OBVIOUS
    <3>2. cmd \in Known \cup {0, Unknown} /\ r \in Seq(Nat) /\ Len(r) <= 16
      BY <1>4, <2>2
    <3>3. S'.result = r /\ S'.params = <<>>
      BY <2>4
    <3>4. S' \in SCommands
      BY <2>4, <3>1, <3>2 DEF SCommands
    <3> QED BY <3>1, <3>2, <3>3, <3>4
  <2>6. CdvdTypeOK'
    BY <1>1, <2>1, <2>5 DEF CdvdInv, CdvdTypeOK
  <2>7. StatusTells' /\ Flushed' /\ NoParams'
    BY <1>1, <2>1, <2>3, <2>4 DEF StatusTells, Flushed, NoParams
  <2>8. AnswerGoesOn'
    <3>1. answer' \o S'.result = r
      BY <1>1, <1>3, <2>3, <2>4
    <3> QED BY <1>4, <2>4, <3>1 DEF AnswerGoesOn, r
  <2> QED BY <2>6, <2>7, <2>8 DEF CdvdInv
<1>5. CASE cmd \notin Known
  <2>1. S' = [S EXCEPT !.command = cmd, !.ready = FALSE] /\ cdvd_halted' = TRUE
    BY <1>5 DEF SCommand
  <2>2. CdvdTypeOK'
    <3>1. S \in SCommands /\ cmd = Unknown
      BY <1>5 DEF CdvdInv, CdvdTypeOK
    <3>2. S' \in SCommands /\ S'.result = S.result /\ S'.params = S.params
      BY <2>1, <3>1 DEF SCommands
    <3> QED BY <1>1, <2>1, <3>2 DEF CdvdInv, CdvdTypeOK
  <2> QED BY <1>1, <2>1, <2>2 DEF CdvdInv, StatusTells, Flushed, NoParams, AnswerGoesOn
<1> QED BY <1>4, <1>5

\* An element moves from the front of a queue to the end of what was read from it.
LEMMA MovedFront ==
  ASSUME NEW T, NEW s \in Seq(T), NEW r \in Seq(T), r # <<>>
  PROVE  Append(s, Head(r)) \o Tail(r) = s \o r /\ Append(s, Head(r)) \in Seq(T)
OBVIOUS

\* A driver reads a result of its command.
LEMMA ReadResultInv ==
  ASSUME CdvdInv, ReadResult
  PROVE  CdvdInv'
<1>1. ~cdvd_halted /\ caller = "read" /\ ~S.ready /\ UNCHANGED <<caller, cdvd_halted, commands>>
  BY DEF ReadResult, CdvdStep
<1>2. S.result # <<>> /\ S.result \in Seq(Nat) /\ answer \in Seq(Nat)
  BY <1>1 DEF CdvdInv, StatusTells, CdvdTypeOK, SCommands
<1>3. S' = Taken /\ answer' = Append(answer, Head(S.result))
  BY <1>2 DEF ReadResult
<1>4. /\ Taken \in SCommands
      /\ Len(Taken.result) <= 16 /\ Taken.params = S.params /\ Taken.command = S.command
      /\ Taken.ready <=> Taken.result = <<>>
      /\ Taken.result = Tail(S.result)
  BY <1>1, TakenType DEF CdvdInv
<1> HIDE DEF Taken
<1>5. answer' \o S'.result = answer \o S.result /\ answer' \in Seq(Nat)
  BY <1>2, <1>3, <1>4, MovedFront, ZenonT(60)
<1>6. CdvdTypeOK'
  BY <1>1, <1>3, <1>4, <1>5 DEF CdvdInv, CdvdTypeOK
<1>7. StatusTells' /\ Flushed' /\ NoParams'
  BY <1>1, <1>3, <1>4 DEF CdvdInv, StatusTells, Flushed, NoParams
<1>8. AnswerGoesOn'
  <2>1. S.command \in Known /\ answer \o S.result = ResultOf(S.command)
    BY <1>1 DEF CdvdInv, AnswerGoesOn
  <2> QED BY <1>3, <1>4, <1>5, <2>1 DEF AnswerGoesOn
<1> QED BY <1>6, <1>7, <1>8 DEF CdvdInv

\* A driver returns, with results unread.
LEMMA ReturnInv ==
  ASSUME CdvdInv, Return
  PROVE  CdvdInv'
BY DEF CdvdInv, Return, CdvdStep, CdvdTypeOK, StatusTells, Flushed, NoParams, AnswerGoesOn

\* The CDVD controller as it was made.
LEMMA CdvdInitInv ==
  ASSUME CdvdInit
  PROVE  CdvdInv
<1>1. /\ S \in SCommands /\ S.ready /\ S.result = <<>> /\ S.params = <<>>
      /\ Len(<<>>) = 0 /\ <<>> \in Seq(Nat)
  <2>1. S = [command |-> 0, ready |-> TRUE, params |-> <<>>, result |-> <<>>]
    BY DEF CdvdInit
  <2>2. <<>> \in Seq({1}) /\ <<>> \in Seq(Nat) /\ Len(<<>>) = 0
    OBVIOUS
  <2> QED BY <2>1, <2>2 DEF SCommands
<1>2. Len(S.result) <= 16 /\ Len(S.params) <= 1
  BY <1>1
<1>3. CdvdTypeOK
  <2>1. cdvd_halted = FALSE /\ caller = "flush" /\ answer = <<>> /\ commands = 0
    BY DEF CdvdInit
  <2>2. answer \in Seq(Nat)
    BY <1>1, <2>1
  <2> QED BY <1>1, <1>2, <2>1, <2>2 DEF CdvdTypeOK
<1> QED BY <1>1, <1>3 DEF CdvdInit, CdvdInv, StatusTells, Flushed, NoParams, AnswerGoesOn

\* What the driver has read begins the results of its command.
LEMMA AnswerIsPrefix ==
  ASSUME CdvdInv
  PROVE  AnswersOwn
<1>1. CdvdTypeOK
  BY DEF CdvdInv
<1>2. ASSUME caller = "read", ~cdvd_halted
      PROVE  IsPrefix(answer, ResultOf(S.command)) /\ (S.ready => answer = ResultOf(S.command))
  <2> DEFINE rest  == S.result
             whole == ResultOf(S.command)
  <2>1. answer \o rest = whole /\ answer \in Seq(Nat) /\ rest \in Seq(Nat)
    BY <1>2 DEF CdvdInv, AnswerGoesOn, CdvdTypeOK, SCommands
  <2>2. S.ready => rest = <<>>
    BY <1>2 DEF CdvdInv, StatusTells
  <2> HIDE DEF rest, whole
  <2>3. IsPrefix(answer, answer \o rest) /\ (rest = <<>> => answer \o rest = answer)
    BY <2>1, SMTT(30) DEF IsPrefix
  <2>4. IsPrefix(answer, whole) /\ (S.ready => answer = whole)
    BY <2>1, <2>2, <2>3
  <2> QED BY <2>4 DEF whole
<1> QED BY <1>1, <1>2 DEF AnswersOwn

\* Every step keeps the status in agreement with the queue of results, and what is read
\* and left to read with the command, for any number of commands.
THEOREM CdvdInvariant == CdvdSpec => []CdvdInv
<1>1. CdvdInit => CdvdInv
  BY CdvdInitInv
<1>2. CdvdInv /\ [CdvdNext]_cdvdVars => CdvdInv'
  <2> SUFFICES ASSUME CdvdInv, [CdvdNext]_cdvdVars PROVE CdvdInv'
    OBVIOUS
  <2>1. CASE Flush
    BY <2>1, FlushInv
  <2>2. CASE WriteParam
    BY <2>2, WriteParamInv
  <2>3. CASE \E cmd \in Known \cup {Unknown} : SCommand(cmd)
    BY <2>3, SCommandInv
  <2>4. CASE ReadResult
    BY <2>4, ReadResultInv
  <2>5. CASE Return
    BY <2>5, ReturnInv
  <2>6. CASE UNCHANGED cdvdVars
    BY <2>6 DEF cdvdVars, CdvdInv, CdvdTypeOK, StatusTells, Flushed, NoParams, AnswerGoesOn
  <2> QED BY <2>1, <2>2, <2>3, <2>4, <2>5, <2>6 DEF CdvdNext, CdvdWorks
<1> QED BY <1>1, <1>2, PTL DEF CdvdSpec

\* A driver of the CDVD controller reads the results of its own command from the first one
\* on, whatever the driver before it left unread, and has all of them when the status
\* says so, for any number of commands.
THEOREM CdvdAnswersOwn == CdvdSpec => []AnswersOwn
<1>1. CdvdInv => AnswersOwn
  BY AnswerIsPrefix
<1> QED BY <1>1, CdvdInvariant, PTL

-----------------------------------------------------------------------------
\* The SIO2: what its driver and the pad keep.

Bytes     == 0 .. 255
Modes     == [config_mode : BOOLEAN, mode : {0, 1}]
Responses == {"none", "read_buttons", "set_config", "switch_mode", "query", "query_mode"}
PadType ==
  [written : Nat, custom_response : {-1, 4, 5}, response : Responses, command : Bytes,
   mode : {0, 1}, config_mode : BOOLEAN, responses : [0 .. 15 -> [0 .. 17 -> Bytes]]]

\* What no command writes in the rows of responses.
Tables(rows) ==
  /\ \A k \in 2 .. 5 : rows[2][k] = 0 /\ rows[3][k] = 0
  /\ \A k \in 0 .. 5 : rows[4][k] = 0
  /\ rows[5][0] = 1 /\ rows[5][3] = 2 /\ rows[5][4] = 1 /\ rows[5][5] = 0
  /\ rows[7][0] = 0 /\ rows[7][2] = 2 /\ rows[7][3] = 0 /\ rows[7][4] = 1 /\ rows[7][5] = 0
  /\ \A k \in {0, 1, 2, 4, 5} : rows[12][k] = 0
PadOK(p) ==
  /\ p \in PadType /\ Tables(p.responses)
  /\ p.custom_response = 5 => p.response = "read_buttons"

ModesAre(p, m) == p.config_mode = m.config_mode /\ p.mode = m.mode

\* The response a command sets for byte 4.
ResponseOf(cmd) ==
  CASE cmd = READ_DATA     -> "read_buttons"
    [] cmd = CONFIG_MODE   -> "set_config"
    [] cmd = SET_MAIN_MODE -> "switch_mode"
    [] cmd = QUERY_ACT     -> "query"
    [] cmd = QUERY_MODE    -> "query_mode"

\* The data of a command as far as the exchange alone tells: byte 2 of the tables of
\* QUERY_MODEL and QUERY_COMB depends on what came before them (RowsKnown, below).
Whatever == -1
KnownData(m, cmd, operand) ==
  CASE cmd = QUERY_MODEL -> <<1, Whatever, m.mode, 2, 1, 0>>
    [] cmd = QUERY_COMB  -> <<0, Whatever, 2, 0, 1, 0>>
    [] OTHER             -> DataOf(m, cmd, operand)
Listing(m, e, data) ==
  IF e[1] = MemCard THEN [i \in DOMAIN e |-> 255]
  ELSE SubSeq(<<255, Header(m, e[2]), 90>> \o data, 1, Len(e))
KnownReplies(m, e) == Listing(m, e, KnownData(m, e[2], e[4]))

\* A byte of the row that the command is answered from is what it should be, or will be
\* when the buttons are read.
Expected(m, e, k) == KnownData(m, e[2], e[4])[k + 1]
RowAnswers(p, m, e, i) ==
  /\ i = 4 /\ p.custom_response = 5 => Expected(m, e, 1) \in {Whatever, Released}
  /\ \A k \in i - 3 .. 5 :
       \/ Expected(m, e, k) \in {Whatever, p.responses[CurrentRow(p)][k]}
       \/ k = 1 /\ i = 4 /\ p.custom_response = 5

\* The pad behind i bytes of an exchange that found it in certain modes.
Named(p, m, e) == ModesAre(p, m) /\ (p.custom_response = 4 => SetsResponse(e))
Commanded(p, m, e) ==
  /\ Lawful(m, e) /\ ModesAre(p, m) /\ p.command = e[2]
  /\ IF SetsResponse(e) THEN p.custom_response = 4 /\ p.response = ResponseOf(e[2])
     ELSE p.custom_response # 4
  /\ e[2] = QUERY_MODEL => p.responses[5][2] = m.mode
Answering(p, m, e, i) ==
  /\ Lawful(m, e) /\ ModesAre(p, Became(m, e)) /\ p.command = e[2] /\ p.custom_response # 4
  /\ RowAnswers(p, m, e, i)
InExchange(p, m, e, i) ==
  /\ i >= 1 /\ p.written = i
  /\ i = 1 => Named(p, m, e)
  /\ i \in {2, 3} => Commanded(p, m, e)
  /\ i >= 4 => Answering(p, m, e, i)

\* The pad between exchanges, j of them behind it: what an exchange given up has left is
\* there only until the next command.
LeftOver(t, j) ==
  /\ Repeatable(t) /\ \E i \in 1 .. Count(t) : SetsResponse(Exchange(t, i))
  /\ \A i \in 1 .. j : ~Commands(Exchange(t, i))
Boundary(p, t, j) ==
  /\ ModesAre(p, t.modes[j + 1])
  /\ p.custom_response = 4 => LeftOver(t, j)

Idle    == turn > Len(Transfers) \/ sio2_halted
Begun   == stage \in {"upload", "wait", "fetch"}
Index   == IF Begun THEN command.index ELSE 0
Left    == IF Begun THEN command.size ELSE 0
Current == Exchange(Transfer, Index)
Done    == uploaded - Transfer.starts[Index]

Sio2Types ==
  /\ script \in Sio2Scripts /\ turn \in 1 .. Len(Transfers) + 1
  /\ stage \in {"reset", "describe", "upload", "wait", "fetch"}
  /\ sio2_halted \in BOOLEAN /\ (script.legal => ~sio2_halted)
  /\ command \in [index : 0 .. Slots, size : 0 .. 511] /\ DOMAIN send3 = 0 .. Slots - 1
  /\ uploaded \in Nat /\ sio2_fifo \in Seq(Bytes) /\ received \in Seq(Bytes)
  /\ PadOK(pad)

\* The SIO2 counts the exchanges as they were described.
Sio2Framed ==
  /\ Index \in 0 .. Count(Transfer) /\ Left \in 0 .. 511
  /\ uploaded = Transfer.starts[Index + 1] - Left
  /\ stage = "describe" => command = [index |-> 0, size |-> 0]
  /\ Begun => \A i \in 1 .. Count(Transfer) :
                send3[i - 1] = IF Size(Transfer, i) = 0 THEN 0 ELSE 256 * Size(Transfer, i) + 64
  /\ stage \in {"wait", "fetch"} => Index = Count(Transfer) /\ Left = 0
  /\ Index # 0 => Size(Transfer, Index) # 0
  /\ Left # 0 => Index # 0 /\ Left < Size(Transfer, Index) /\ current_device = Current[1]
  /\ Repeatable(Transfer) =>
       Transfer.modes[IF Left = 0 THEN Index + 1 ELSE Index] = Transfer.modes[1]

\* The pad is in the exchange that the driver is in.
Sio2Follows ==
  IF Left = 0 THEN Boundary(pad, Transfer, Index)
  ELSE \/ Current[1] = Controller /\ InExchange(pad, Transfer.modes[Index], Current, Done)
       \/ Current[1] = MemCard /\ Boundary(pad, Transfer, Index - 1)

\* Byte 2 of the tables of QUERY_MODEL and QUERY_COMB is as it was built until a chained read
\* of the buttons meets one of them, which a driver that clears it never has.
RowsKnown(clears, rows) ==
  /\ rows[5][1] = 2 \/ (~clears /\ rows[5][1] = Released)
  /\ rows[7][1] = 0 \/ (~clears /\ rows[7][1] = Released)

\* A read is chained only where the driver knows of one, or where a transfer that was
\* given up has left it before the first command of the next attempt.
Waits(t, j) == t.chained[j + 1] \/ LeftOver(t, j)
ReadWaits ==
  IF Left = 0 THEN Waits(Transfer, Index)
  ELSE IF Current[1] = MemCard \/ Done = 1 THEN Waits(Transfer, Index - 1)
  ELSE Transfer.chained[Index + 1]
Sio2Chained ==
  /\ RowsKnown(Clears(script), pad.responses)
  /\ pad.custom_response = 5 => ReadWaits /\ (Repeatable(Transfer) => Waits(Transfer, 0))

Replies == received \o sio2_fifo
Sio2Answered ==
  /\ Len(Replies) = uploaded
  /\ script.legal =>
       \A j \in 1 .. Count(Transfer) : \A i \in 1 .. Size(Transfer, j) :
         Transfer.starts[j] + i <= uploaded => Own(Transfer, j, i, Replies[Transfer.starts[j] + i])

Sio2Inv == Sio2Types /\ (~Idle => Sio2Framed /\ Sio2Follows /\ Sio2Chained /\ Sio2Answered)

-----------------------------------------------------------------------------
\* The gamepad, byte by byte.

\* The commands of the pad are different, and each has a row of its own.
LEMMA CommandRows ==
  ASSUME NEW cmd \in PadCommands
  PROVE  /\ cmd \in Bytes /\ cmd % 16 \in {2, 3, 4, 5, 6, 7, 12}
         /\ cmd = READ_DATA     => cmd % 16 = 2
         /\ cmd = CONFIG_MODE   => cmd % 16 = 3
         /\ cmd = SET_MAIN_MODE => cmd % 16 = 4
         /\ cmd = QUERY_MODEL   => cmd % 16 = 5
         /\ cmd = QUERY_ACT     => cmd % 16 = 6
         /\ cmd = QUERY_COMB    => cmd % 16 = 7
         /\ cmd = QUERY_MODE    => cmd % 16 = 12
BY DEF PadCommands, READ_DATA, CONFIG_MODE, SET_MAIN_MODE, QUERY_MODEL, QUERY_ACT, QUERY_COMB,
       QUERY_MODE, Bytes

\* What commands write in the rows of responses.
Rewritten(i, k) ==
  \/ i \in {2, 3} /\ k \in {0, 1}
  \/ i = 5 /\ k \in {1, 2}
  \/ i = 6
  \/ i = 7 /\ k = 1
  \/ i = 12 /\ k = 3

RestStays(rows, next) ==
  \A i \in 0 .. 15 : \A k \in 0 .. 5 : next[i][k] = rows[i][k] \/ Rewritten(i, k)

\* What commands do not write stays.
LEMMA TablesKept ==
  ASSUME NEW rows, NEW next, Tables(rows), RestStays(rows, next)
  PROVE  Tables(next)
<1>1. \A i \in 0 .. 15 : \A k \in 0 .. 5 : ~Rewritten(i, k) => next[i][k] = rows[i][k]
  BY DEF RestStays
<1>2. \A k \in 2 .. 5 : next[2][k] = 0 /\ next[3][k] = 0
  BY <1>1 DEF Tables, Rewritten
<1>3. \A k \in 0 .. 5 : next[4][k] = 0
  BY <1>1 DEF Tables, Rewritten
<1>4. next[5][0] = 1 /\ next[5][3] = 2 /\ next[5][4] = 1 /\ next[5][5] = 0
  BY <1>1 DEF Tables, Rewritten
<1>5. next[7][0] = 0 /\ next[7][2] = 2 /\ next[7][3] = 0 /\ next[7][4] = 1 /\ next[7][5] = 0
  BY <1>1 DEF Tables, Rewritten
<1>6. \A k \in {0, 1, 2, 4, 5} : next[12][k] = 0
  BY <1>1 DEF Tables, Rewritten
<1> QED BY <1>2, <1>3, <1>4, <1>5, <1>6 DEF Tables

\* read_buttons writes one byte of the row, and chains itself to byte 5.
LEMMA ReadButtonsEffect ==
  ASSUME NEW p \in PadType, p.written \in {4, 5}
  PROVE  LET q == ReadButtons(p)
         IN /\ q \in PadType /\ q.custom_response = 5 /\ q.response = "read_buttons"
            /\ q.written = p.written /\ q.command = p.command
            /\ q.mode = p.mode /\ q.config_mode = p.config_mode
            /\ \A r \in 0 .. 15 : \A k \in 0 .. 17 :
                 q.responses[r][k] = IF r = CurrentRow(p) /\ k = p.written - 4 THEN Released
                                     ELSE p.responses[r][k]
<1> DEFINE rows == [p.responses EXCEPT ![CurrentRow(p)][p.written - 4] = Released]
           q    == [p EXCEPT !.responses = rows, !.custom_response = 5, !.response = "read_buttons"]
<1>1. CurrentRow(p) \in 0 .. 15 /\ p.written - 4 \in 0 .. 17 /\ Released \in Bytes
  BY SMTT(40) DEF PadType, CurrentRow, Bytes, Released
<1>2. /\ rows \in [0 .. 15 -> [0 .. 17 -> Bytes]]
      /\ \A r \in 0 .. 15 : \A k \in 0 .. 17 :
           rows[r][k] = IF r = CurrentRow(p) /\ k = p.written - 4 THEN Released ELSE p.responses[r][k]
  <2>1. p.responses \in [0 .. 15 -> [0 .. 17 -> Bytes]]
    BY DEF PadType
  <2> QED BY <1>1, <2>1
<1>3. ReadButtons(p) = q
  BY DEF ReadButtons, SetResponse, PadType
<1> HIDE DEF rows
<1>4. q \in PadType
  BY <1>2 DEF PadType, Responses
<1>5. /\ q.custom_response = 5 /\ q.response = "read_buttons" /\ q.responses = rows
      /\ q.written = p.written /\ q.command = p.command
      /\ q.mode = p.mode /\ q.config_mode = p.config_mode
  BY DEF PadType
<1> HIDE DEF q
<1> QED BY <1>2, <1>3, <1>4, <1>5

\* A byte leaves a read of the buttons chained if one was chained before, to a command
\* that sets none of its own, or if its response is one; and a read that is chained is
\* what overwrites byte 2 of the tables of QUERY_MODEL and QUERY_COMB.
Reads(p, w, m, e, i) ==
  /\ w.pad.custom_response = 5 =>
       \/ i = 4 /\ ReadsButtons(m, e)
       \/ p.custom_response = 5 /\ (i = 2 => SetsNone(e))
  /\ \A r \in {5, 7} :
       \/ w.pad.responses[r][1] = p.responses[r][1]
       \/ SetsNone(e) /\ i = 5 /\ p.custom_response = 5 /\ w.pad.responses[r][1] = Released
  /\ SetsNone(e) /\ i = 5 => w.reply = w.pad.responses[e[2] % 16][1]

\* The first byte of an exchange, the device's, moves nothing but the count.
LEMMA PadBegins ==
  ASSUME NEW p, PadOK(p), NEW byte \in Bytes
  PROVE  LET w == WriteByte([p EXCEPT !.written = 0], byte)
         IN w.pad = [p EXCEPT !.written = 1] /\ PadOK(w.pad) /\ w.reply = 255
<1> DEFINE z == [p EXCEPT !.written = 0]
           q == [p EXCEPT !.written = 1]
<1>1. z \in PadType /\ z.written = 0 /\ z.custom_response = p.custom_response /\ z.custom_response # 1
  BY DEF PadOK, PadType
<1>2. [z EXCEPT !.written = 1] = q
  <2>1. p \in PadType
    BY DEF PadOK
  <2> QED BY <2>1 DEF PadType
<1>3. PadOK(q)
  BY DEF PadOK, PadType, Tables
<1> HIDE DEF z, q
<1>4. WriteByte(z, byte) = [pad |-> q, reply |-> 255]
  BY <1>1, <1>2 DEF WriteByte
<1> QED BY <1>3, <1>4 DEF z, q

\* What process_command does to the pad, for a command that it takes.
LEMMA ProcessCommandEffect ==
  ASSUME NEW p \in PadType, NEW cmd \in PadCommands
  PROVE  LET q == ProcessCommand(p, cmd)
         IN /\ q \in PadType /\ q.command = cmd /\ q.written = p.written
            /\ q.mode = p.mode /\ q.config_mode = p.config_mode
            /\ cmd \notin {QUERY_MODEL, QUERY_COMB} =>
                 q.custom_response = 4 /\ q.response = ResponseOf(cmd)
            /\ cmd \in {QUERY_MODEL, QUERY_COMB} =>
                 q.custom_response = p.custom_response /\ q.response = p.response
            /\ cmd # QUERY_MODEL => q.responses = p.responses
            /\ cmd = QUERY_MODEL => q.responses = [p.responses EXCEPT ![5][2] = p.mode]
<1>1. cmd \in Bytes
  BY CommandRows
<1> DEFINE q == [p EXCEPT !.command = cmd]
<1>2. /\ q \in PadType /\ q.command = cmd /\ q.written = p.written /\ q.responses = p.responses
      /\ q.mode = p.mode /\ q.config_mode = p.config_mode
      /\ q.custom_response = p.custom_response /\ q.response = p.response
  BY <1>1 DEF PadType
<1> HIDE DEF q
<1>3. ASSUME NEW name \in Responses
      PROVE  LET r == SetResponse(q, 3, name)
             IN /\ r \in PadType /\ r.command = cmd /\ r.written = p.written
                /\ r.mode = p.mode /\ r.config_mode = p.config_mode
                /\ r.custom_response = 4 /\ r.response = name /\ r.responses = p.responses
  <2> DEFINE r == [q EXCEPT !.custom_response = 4, !.response = name]
  <2>1. SetResponse(q, 3, name) = r
    BY DEF SetResponse
  <2>2. r \in PadType
    BY <1>2 DEF PadType
  <2>3. /\ r.command = cmd /\ r.written = p.written /\ r.responses = p.responses
        /\ r.mode = p.mode /\ r.config_mode = p.config_mode
        /\ r.custom_response = 4 /\ r.response = name
    BY <1>2 DEF PadType
  <2> HIDE DEF r
  <2> QED BY <2>1, <2>2, <2>3
<1>4. CASE cmd = READ_DATA
  <2>1. ProcessCommand(p, cmd) = SetResponse(q, 3, "read_buttons") /\ ResponseOf(cmd) = "read_buttons"
    BY <1>4 DEF ProcessCommand, ResponseOf, q, READ_DATA, CONFIG_MODE, SET_MAIN_MODE, QUERY_MODEL,
         QUERY_ACT, QUERY_COMB, QUERY_MODE
  <2>2. cmd \notin {QUERY_MODEL, QUERY_COMB}
    BY <1>4 DEF READ_DATA, QUERY_MODEL, QUERY_COMB
  <2> QED BY <1>3, <2>1, <2>2 DEF Responses
<1>5. CASE cmd = CONFIG_MODE
  <2>1. ProcessCommand(p, cmd) = SetResponse(q, 3, "set_config") /\ ResponseOf(cmd) = "set_config"
    BY <1>5 DEF ProcessCommand, ResponseOf, q, READ_DATA, CONFIG_MODE, SET_MAIN_MODE, QUERY_MODEL,
         QUERY_ACT, QUERY_COMB, QUERY_MODE
  <2>2. cmd \notin {QUERY_MODEL, QUERY_COMB}
    BY <1>5 DEF CONFIG_MODE, QUERY_MODEL, QUERY_COMB
  <2> QED BY <1>3, <2>1, <2>2 DEF Responses
<1>6. CASE cmd = SET_MAIN_MODE
  <2>1. ProcessCommand(p, cmd) = SetResponse(q, 3, "switch_mode") /\ ResponseOf(cmd) = "switch_mode"
    BY <1>6 DEF ProcessCommand, ResponseOf, q, READ_DATA, CONFIG_MODE, SET_MAIN_MODE, QUERY_MODEL,
         QUERY_ACT, QUERY_COMB, QUERY_MODE
  <2>2. cmd \notin {QUERY_MODEL, QUERY_COMB}
    BY <1>6 DEF SET_MAIN_MODE, QUERY_MODEL, QUERY_COMB
  <2> QED BY <1>3, <2>1, <2>2 DEF Responses
<1>7. CASE cmd = QUERY_ACT
  <2>1. ProcessCommand(p, cmd) = SetResponse(q, 3, "query") /\ ResponseOf(cmd) = "query"
    BY <1>7 DEF ProcessCommand, ResponseOf, q, READ_DATA, CONFIG_MODE, SET_MAIN_MODE, QUERY_MODEL,
         QUERY_ACT, QUERY_COMB, QUERY_MODE
  <2>2. cmd \notin {QUERY_MODEL, QUERY_COMB}
    BY <1>7 DEF QUERY_ACT, QUERY_MODEL, QUERY_COMB
  <2> QED BY <1>3, <2>1, <2>2 DEF Responses
<1>8. CASE cmd = QUERY_MODE
  <2>1. ProcessCommand(p, cmd) = SetResponse(q, 3, "query_mode") /\ ResponseOf(cmd) = "query_mode"
    BY <1>8 DEF ProcessCommand, ResponseOf, q, READ_DATA, CONFIG_MODE, SET_MAIN_MODE, QUERY_MODEL,
         QUERY_ACT, QUERY_COMB, QUERY_MODE
  <2>2. cmd \notin {QUERY_MODEL, QUERY_COMB}
    BY <1>8 DEF QUERY_MODE, QUERY_MODEL, QUERY_COMB
  <2> QED BY <1>3, <2>1, <2>2 DEF Responses
<1>9. CASE cmd = QUERY_MODEL
  <2>1. ProcessCommand(p, cmd) = [q EXCEPT !.responses[5][2] = p.mode]
    BY <1>9 DEF ProcessCommand, q, READ_DATA, CONFIG_MODE, SET_MAIN_MODE, QUERY_MODEL,
         QUERY_ACT, QUERY_COMB, QUERY_MODE
  <2> DEFINE rows == [p.responses EXCEPT ![5][2] = p.mode]
  <2>2. rows \in [0 .. 15 -> [0 .. 17 -> Bytes]]
    <3>1. p.mode \in {0, 1} /\ p.responses \in [0 .. 15 -> [0 .. 17 -> Bytes]]
      BY DEF PadType
    <3>2. p.mode \in Bytes
      <4>1. PICK v \in {0, 1} : v = p.mode
        BY <3>1
      <4>2. v \in Bytes
        BY DEF Bytes
      <4> QED BY <4>1, <4>2
    <3> QED BY <3>1, <3>2
  <2>3. ProcessCommand(p, cmd) = [q EXCEPT !.responses = rows]
    BY <1>2, <2>1
  <2> HIDE DEF rows
  <2>4. [q EXCEPT !.responses = rows] \in PadType
    BY <1>2, <2>2 DEF PadType
  <2>5. cmd # QUERY_COMB
    BY <1>9 DEF QUERY_MODEL, QUERY_COMB
  <2> QED BY <1>2, <1>9, <2>3, <2>4, <2>5 DEF PadType, rows
<1>10. CASE cmd = QUERY_COMB
  <2>1. ProcessCommand(p, cmd) = q
    BY <1>10 DEF ProcessCommand, q, READ_DATA, CONFIG_MODE, SET_MAIN_MODE, QUERY_MODEL,
         QUERY_ACT, QUERY_COMB, QUERY_MODE
  <2>2. cmd # QUERY_MODEL
    BY <1>10 DEF QUERY_MODEL, QUERY_COMB
  <2> QED BY <1>2, <1>10, <2>1, <2>2
<1> QED BY <1>4, <1>5, <1>6, <1>7, <1>8, <1>9, <1>10 DEF PadCommands

\* The second byte: the pad takes the command, in the modes in which the exchange found it.
LEMMA PadCommanded ==
  ASSUME NEW p, PadOK(p), NEW m \in Modes, NEW e \in Seq(Bytes), Lawful(m, e), e[1] = Controller,
         p.written = 1, Named(p, m, e)
  PROVE  LET w == WriteByte(p, e[2])
         IN /\ PadOK(w.pad) /\ w.pad.written = 2 /\ Commanded(w.pad, m, e)
            /\ w.reply = Header(m, e[2]) /\ Reads(p, w, m, e, 2)
<1> DEFINE cmd == e[2]
           q == [p EXCEPT !.written = 2]
           r == ProcessCommand(q, cmd)
<1>1. cmd \in PadCommands /\ Commands(e)
  <2>1. Controller # MemCard
    BY DEF Controller, MemCard
  <2> QED BY <2>1 DEF Lawful, Allowed, Commands
<1>2. p \in PadType
  BY DEF PadOK
<1>3. /\ q \in PadType /\ q.written = 2 /\ q.mode = p.mode /\ q.config_mode = p.config_mode
      /\ q.custom_response = p.custom_response /\ q.response = p.response /\ q.responses = p.responses
  BY <1>2 DEF PadType
<1>4. p.written + 1 = 2 /\ p.custom_response # 2
  BY <1>2 DEF PadType
<1> HIDE DEF cmd, q, r
<1>5. WriteByte(p, e[2]) = [pad |-> r, reply |-> Header(q, cmd)]
  <2>1. [p EXCEPT !.written = p.written + 1] = q
    BY <1>4 DEF q
  <2> QED BY <1>4, <2>1 DEF WriteByte, r, cmd
<1>6. /\ r \in PadType /\ r.command = cmd /\ r.written = 2
      /\ r.mode = p.mode /\ r.config_mode = p.config_mode
      /\ cmd \notin {QUERY_MODEL, QUERY_COMB} => r.custom_response = 4 /\ r.response = ResponseOf(cmd)
      /\ cmd \in {QUERY_MODEL, QUERY_COMB} =>
           r.custom_response = p.custom_response /\ r.response = p.response
      /\ cmd # QUERY_MODEL => r.responses = p.responses
      /\ cmd = QUERY_MODEL => r.responses = [p.responses EXCEPT ![5][2] = p.mode]
  <2>1. /\ r \in PadType /\ r.command = cmd /\ r.written = q.written
        /\ r.mode = q.mode /\ r.config_mode = q.config_mode
        /\ cmd \notin {QUERY_MODEL, QUERY_COMB} => r.custom_response = 4 /\ r.response = ResponseOf(cmd)
        /\ cmd \in {QUERY_MODEL, QUERY_COMB} =>
             r.custom_response = q.custom_response /\ r.response = q.response
        /\ cmd # QUERY_MODEL => r.responses = q.responses
        /\ cmd = QUERY_MODEL => r.responses = [q.responses EXCEPT ![5][2] = q.mode]
    BY <1>1, <1>3, ProcessCommandEffect DEF r
  <2> QED BY <1>3, <2>1
<1>7. Tables(r.responses)
  <2>1. Tables(p.responses) /\ p.responses \in [0 .. 15 -> [0 .. 17 -> Bytes]]
    BY <1>2 DEF PadOK, PadType
  <2>2. CASE cmd # QUERY_MODEL
    BY <1>6, <2>1, <2>2
  <2>3. CASE cmd = QUERY_MODEL
    <3>1. \A i \in 0 .. 15 : \A k \in 0 .. 17 :
            ~ (i = 5 /\ k = 2) => r.responses[i][k] = p.responses[i][k]
      <4>1. PICK rows \in [0 .. 15 -> [0 .. 17 -> Bytes]] : rows = p.responses
        BY <2>1
      <4>2. r.responses = [rows EXCEPT ![5][2] = p.mode]
        BY <1>6, <2>3, <4>1
      <4>3. PICK next : next = r.responses
        OBVIOUS
      <4>4. PICK mode : mode = p.mode
        OBVIOUS
      <4>5. next = [rows EXCEPT ![5] = [rows[5] EXCEPT ![2] = mode]]
        BY <4>2, <4>3, <4>4
      <4> HIDE DEF r
      <4>6. \A i \in 0 .. 15 : \A k \in 0 .. 17 : ~ (i = 5 /\ k = 2) => next[i][k] = rows[i][k]
        BY <4>5
      <4> QED BY <4>1, <4>3, <4>6
    <3>2. RestStays(p.responses, r.responses)
      <4> SUFFICES ASSUME NEW i \in 0 .. 15, NEW k \in 0 .. 5, ~Rewritten(i, k)
                   PROVE  r.responses[i][k] = p.responses[i][k]
        BY DEF RestStays
      <4>1. k \in 0 .. 17 /\ ~ (i = 5 /\ k = 2)
        BY DEF Rewritten
      <4> QED BY <3>1, <4>1
    <3> QED BY <2>1, <3>2, TablesKept
  <2> QED BY <2>2, <2>3
<1>8. r.custom_response = 5 => r.response = "read_buttons"
  BY <1>6 DEF PadOK
<1>9. PadOK(r)
  BY <1>6, <1>7, <1>8 DEF PadOK
<1>10. SetsResponse(e) <=> cmd \notin {QUERY_MODEL, QUERY_COMB}
  BY <1>1 DEF SetsResponse, cmd
<1>11. Commanded(r, m, e)
  <2>1. ModesAre(r, m)
    BY <1>6 DEF Named, ModesAre
  <2>2. ~SetsResponse(e) => r.custom_response # 4
    BY <1>6, <1>10 DEF Named
  <2>3. cmd = QUERY_MODEL => r.responses[5][2] = m.mode
    <3>1. p.responses \in [0 .. 15 -> [0 .. 17 -> Bytes]] /\ p.mode = m.mode
      BY <1>2 DEF PadType, Named, ModesAre
    <3> QED BY <1>6, <3>1
  <2> QED BY <1>6, <1>10, <2>1, <2>2, <2>3 DEF Commanded, cmd
<1>12. Header(q, cmd) = Header(m, cmd)
  BY <1>3 DEF Header, Named, ModesAre
<1>13. \A k \in {5, 7} : r.responses[k][1] = p.responses[k][1]
  <2>1. CASE cmd # QUERY_MODEL
    BY <1>6, <2>1
  <2>2. CASE cmd = QUERY_MODEL
    <3>1. PICK rows \in [0 .. 15 -> [0 .. 17 -> Bytes]] : rows = p.responses
      BY <1>2 DEF PadType
    <3>2. PICK mode : mode = p.mode
      OBVIOUS
    <3>3. PICK next : next = r.responses
      OBVIOUS
    <3>4. next = [rows EXCEPT ![5] = [rows[5] EXCEPT ![2] = mode]]
      BY <1>6, <2>2, <3>1, <3>2, <3>3
    <3>5. next[5][1] = rows[5][1] /\ next[7][1] = rows[7][1]
      BY <3>4
    <3> QED BY <3>1, <3>3, <3>5
  <2> QED BY <2>1, <2>2
<1>14. r.custom_response = 5 => p.custom_response = 5 /\ SetsNone(e)
  BY <1>1, <1>6 DEF SetsNone, cmd
<1>15. LET w == WriteByte(p, e[2]) IN Reads(p, w, m, e, 2)
  BY <1>5, <1>13, <1>14 DEF Reads
<1> QED BY <1>5, <1>6, <1>9, <1>11, <1>12, <1>15 DEF cmd

\* The third byte is padding.
LEMMA PadWaits ==
  ASSUME NEW p, PadOK(p), NEW m \in Modes, NEW e \in Seq(Bytes), NEW byte \in Bytes,
         p.written = 2, Commanded(p, m, e)
  PROVE  LET w == WriteByte(p, byte)
         IN /\ PadOK(w.pad) /\ w.pad.written = 3 /\ Commanded(w.pad, m, e) /\ w.reply = 90
            /\ Reads(p, w, m, e, 3)
<1> DEFINE q == [p EXCEPT !.written = 3]
<1>1. p \in PadType
  BY DEF PadOK
<1>2. /\ q \in PadType /\ q.written = 3 /\ q.mode = p.mode /\ q.config_mode = p.config_mode
      /\ q.custom_response = p.custom_response /\ q.response = p.response /\ q.responses = p.responses
      /\ q.command = p.command
  BY <1>1 DEF PadType
<1>3. p.written + 1 = 3 /\ p.custom_response # 3
  BY <1>1 DEF PadType
<1>4. [p EXCEPT !.written = p.written + 1] = q
  BY <1>3
<1> HIDE DEF q
<1>5. WriteByte(p, byte) = [pad |-> q, reply |-> 90]
  BY <1>3, <1>4 DEF WriteByte
<1>6. PadOK(q)
  BY <1>2 DEF PadOK
<1>7. Commanded(q, m, e)
  BY <1>2 DEF Commanded, ModesAre
<1>8. Reads(p, [pad |-> q, reply |-> 90], m, e, 3)
  BY <1>2 DEF Reads
<1> QED BY <1>2, <1>5, <1>6, <1>7, <1>8

\* The data a command is answered with.
LEMMA DataIs ==
  ASSUME NEW m \in Modes, NEW cmd \in PadCommands, NEW operand
  PROVE  /\ cmd \notin {QUERY_MODEL, QUERY_COMB} => DataOf(m, cmd, operand) = KnownData(m, cmd, operand)
         /\ cmd = QUERY_MODEL => DataOf(m, cmd, operand) = <<1, 2, m.mode, 2, 1, 0>>
         /\ cmd = QUERY_COMB  => DataOf(m, cmd, operand) = <<0, 0, 2, 0, 1, 0>>
         /\ cmd = READ_DATA \/ (cmd = CONFIG_MODE /\ ~m.config_mode) =>
              KnownData(m, cmd, operand) = <<255, 255, 0, 0, 0, 0>>
         /\ (cmd = CONFIG_MODE /\ m.config_mode) \/ cmd = SET_MAIN_MODE =>
              KnownData(m, cmd, operand) = <<0, 0, 0, 0, 0, 0>>
         /\ cmd = QUERY_MODEL => KnownData(m, cmd, operand) = <<1, Whatever, m.mode, 2, 1, 0>>
         /\ cmd = QUERY_ACT   => KnownData(m, cmd, operand) = Constants(operand)
         /\ cmd = QUERY_COMB  => KnownData(m, cmd, operand) = <<0, Whatever, 2, 0, 1, 0>>
         /\ cmd = QUERY_MODE  => KnownData(m, cmd, operand) = <<0, 0, 0, (4 + operand * 3) % 256, 0, 0>>
<1>1. CASE cmd = READ_DATA
  BY <1>1 DEF KnownData, DataOf, Zeros, READ_DATA, CONFIG_MODE, SET_MAIN_MODE, QUERY_MODEL, QUERY_ACT, QUERY_COMB,
       QUERY_MODE
<1>2. CASE cmd = CONFIG_MODE
  <2>1. CASE m.config_mode
    BY <1>2, <2>1 DEF KnownData, DataOf, Zeros, READ_DATA, CONFIG_MODE, SET_MAIN_MODE, QUERY_MODEL, QUERY_ACT, QUERY_COMB,
         QUERY_MODE
  <2>2. CASE ~m.config_mode
    BY <1>2, <2>2 DEF KnownData, DataOf, Zeros, READ_DATA, CONFIG_MODE, SET_MAIN_MODE, QUERY_MODEL, QUERY_ACT, QUERY_COMB,
         QUERY_MODE
  <2> QED BY <2>1, <2>2
<1>3. CASE cmd = SET_MAIN_MODE
  BY <1>3 DEF KnownData, DataOf, Zeros, READ_DATA, CONFIG_MODE, SET_MAIN_MODE, QUERY_MODEL, QUERY_ACT, QUERY_COMB,
       QUERY_MODE
<1>4. CASE cmd = QUERY_MODEL
  BY <1>4 DEF KnownData, DataOf, Zeros, READ_DATA, CONFIG_MODE, SET_MAIN_MODE, QUERY_MODEL, QUERY_ACT, QUERY_COMB,
       QUERY_MODE
<1>5. CASE cmd = QUERY_ACT
  BY <1>5 DEF KnownData, DataOf, Zeros, READ_DATA, CONFIG_MODE, SET_MAIN_MODE, QUERY_MODEL, QUERY_ACT, QUERY_COMB,
       QUERY_MODE
<1>6. CASE cmd = QUERY_COMB
  BY <1>6 DEF KnownData, DataOf, Zeros, READ_DATA, CONFIG_MODE, SET_MAIN_MODE, QUERY_MODEL, QUERY_ACT, QUERY_COMB,
       QUERY_MODE
<1>7. CASE cmd = QUERY_MODE
  BY <1>7 DEF KnownData, DataOf, Zeros, READ_DATA, CONFIG_MODE, SET_MAIN_MODE, QUERY_MODEL, QUERY_ACT, QUERY_COMB,
       QUERY_MODE
<1> QED BY <1>1, <1>2, <1>3, <1>4, <1>5, <1>6, <1>7 DEF PadCommands

\* The pad at the fourth byte, before and behind the response.
Asked(p, m, e) ==
  /\ PadOK(p) /\ p.written = 4 /\ p.command = e[2] /\ ModesAre(p, m)
  /\ m \in Modes /\ e \in Seq(Bytes) /\ Lawful(m, e) /\ e[1] = Controller
Responded(p, m, e) ==
  /\ PadOK(p) /\ p.written = 4 /\ Answering(p, m, e, 4)
  /\ Expected(m, e, 0) \in {Whatever, p.responses[CurrentRow(p)][0]}

\* The answer, byte by byte.
LEMMA SixAnswers ==
  ASSUME NEW p, NEW m, NEW e, PadOK(p), p.written = 4, p.command = e[2], p.custom_response # 4,
         Lawful(m, e), ModesAre(p, Became(m, e)), NEW row, row = p.responses[CurrentRow(p)],
         NEW d0, NEW d1, NEW d2, NEW d3, NEW d4, NEW d5,
         KnownData(m, e[2], e[4]) = <<d0, d1, d2, d3, d4, d5>>,
         d0 \in {Whatever, row[0]}, d2 \in {Whatever, row[2]}, d3 \in {Whatever, row[3]},
         d4 \in {Whatever, row[4]}, d5 \in {Whatever, row[5]},
         IF p.custom_response = 5 THEN d1 \in {Whatever, Released} ELSE d1 \in {Whatever, row[1]}
  PROVE  Responded(p, m, e)
<1>1. /\ Expected(m, e, 0) = d0 /\ Expected(m, e, 1) = d1 /\ Expected(m, e, 2) = d2
      /\ Expected(m, e, 3) = d3 /\ Expected(m, e, 4) = d4 /\ Expected(m, e, 5) = d5
  BY DEF Expected
<1>2. RowAnswers(p, m, e, 4)
  <2>1. \A k \in 4 - 3 .. 5 : k = 1 \/ k = 2 \/ k = 3 \/ k = 4 \/ k = 5
    OBVIOUS
  <2>2. \A k \in 4 - 3 .. 5 : \/ Expected(m, e, k) \in {Whatever, row[k]}
                              \/ k = 1 /\ p.custom_response = 5
    BY <1>1, <2>1
  <2> QED BY <1>1, <2>2 DEF RowAnswers
<1> QED BY <1>1, <1>2 DEF Responded, Answering

\* read_buttons at byte 4.
LEMMA ButtonsAnswer ==
  ASSUME NEW p, PadOK(p), p.written = 4, NEW c, c = CurrentRow(p), c \in {2, 3}
  PROVE  LET r == ReadButtons(p)
         IN /\ PadOK(r) /\ r.written = 4 /\ r.command = p.command
            /\ r.mode = p.mode /\ r.config_mode = p.config_mode /\ r.custom_response = 5
            /\ r.response = "read_buttons"
            /\ r.responses[c][0] = 255
            /\ r.responses[c][2] = 0 /\ r.responses[c][3] = 0
            /\ r.responses[c][4] = 0 /\ r.responses[c][5] = 0
<1> DEFINE r == ReadButtons(p)
<1>1. p \in PadType /\ c \in 0 .. 15
  BY DEF PadOK
<1>2. /\ r \in PadType /\ r.custom_response = 5 /\ r.response = "read_buttons"
      /\ r.written = p.written /\ r.command = p.command
      /\ r.mode = p.mode /\ r.config_mode = p.config_mode
      /\ \A i \in 0 .. 15 : \A k \in 0 .. 17 :
           r.responses[i][k] = IF i = CurrentRow(p) /\ k = p.written - 4 THEN Released
                               ELSE p.responses[i][k]
  BY <1>1, ReadButtonsEffect
<1> HIDE DEF r
<1>3. r.responses[c][0] = 255
  BY <1>1, <1>2 DEF Released
<1>4. Tables(r.responses)
  <2>1. Tables(p.responses)
    BY DEF PadOK
  <2>2. RestStays(p.responses, r.responses)
    <3> SUFFICES ASSUME NEW i \in 0 .. 15, NEW k \in 0 .. 5, ~Rewritten(i, k)
                 PROVE  r.responses[i][k] = p.responses[i][k]
      BY DEF RestStays
    <3>1. k \in 0 .. 17
      OBVIOUS
    <3>2. ~ (i = c /\ k = 0)
      <4>1. ~ (i = 2 /\ k = 0) /\ ~ (i = 3 /\ k = 0)
        BY DEF Rewritten
      <4> QED BY <4>1
    <3>3. p.written - 4 = 0
      OBVIOUS
    <3>4. r.responses[i][k] = IF i = CurrentRow(p) /\ k = p.written - 4 THEN Released
                              ELSE p.responses[i][k]
      BY <1>2, <3>1
    <3> QED BY <3>2, <3>3, <3>4
  <2> QED BY <2>1, <2>2, TablesKept
<1>5. r.responses[c][2] = 0 /\ r.responses[c][3] = 0 /\ r.responses[c][4] = 0 /\ r.responses[c][5] = 0
  BY <1>4 DEF Tables
<1>6. PadOK(r)
  BY <1>2, <1>4 DEF PadOK
<1> QED BY <1>2, <1>3, <1>5, <1>6 DEF r

Updated(z, rows, mode, on) == [z EXCEPT !.responses = rows, !.mode = mode, !.config_mode = on]

\* A pad with other rows and modes.
LEMMA RowsWritten ==
  ASSUME NEW z, PadOK(z), NEW rows \in [0 .. 15 -> [0 .. 17 -> Bytes]],
         NEW mode \in {0, 1}, NEW on \in BOOLEAN,
         RestStays(z.responses, rows)
  PROVE  LET r == Updated(z, rows, mode, on)
         IN /\ PadOK(r) /\ r.written = z.written /\ r.command = z.command
            /\ r.custom_response = z.custom_response /\ r.response = z.response
            /\ r.mode = mode /\ r.config_mode = on /\ r.responses = rows
<1> DEFINE r == [z EXCEPT !.responses = rows, !.mode = mode, !.config_mode = on]
<1>1. z \in PadType /\ Tables(z.responses) /\ (z.custom_response = 5 => z.response = "read_buttons")
  BY DEF PadOK
<1>2. /\ r.written = z.written /\ r.command = z.command
      /\ r.custom_response = z.custom_response /\ r.response = z.response
      /\ r.mode = mode /\ r.config_mode = on /\ r.responses = rows
  BY <1>1 DEF PadType
<1>3. r \in PadType
  BY <1>1 DEF PadType
<1>4. Tables(rows)
  BY <1>1, TablesKept
<1> HIDE DEF r
<1>5. PadOK(r)
  BY <1>1, <1>2, <1>3, <1>4 DEF PadOK
<1>6. r = Updated(z, rows, mode, on)
  BY DEF r, Updated
<1> QED BY <1>2, <1>5, <1>6

\* READ_DATA, and CONFIG_MODE outside of config mode: the buttons, and four zeros.
LEMMA ButtonsRespond ==
  ASSUME NEW z, NEW m, NEW e, Asked(z, m, e), e[2] \in {READ_DATA, CONFIG_MODE},
         e[2] = CONFIG_MODE => ~m.config_mode,
         z.response = ResponseOf(e[2])
  PROVE  Responded(Respond(z, e[4]), m, e)
<1> DEFINE c == CurrentRow(z)
           r == ReadButtons(z)
<1>1. PadOK(z) /\ z.written = 4 /\ m \in Modes /\ ModesAre(z, m) /\ z.command = e[2] /\ Lawful(m, e)
      /\ e[1] = Controller
  BY DEF Asked
<1>2. e[2] \in PadCommands /\ c \in {2, 3}
  BY <1>1, CommandRows DEF PadCommands, CurrentRow
<1> HIDE DEF c, r
<1>3. /\ PadOK(r) /\ r.written = 4 /\ r.command = z.command
      /\ r.mode = z.mode /\ r.config_mode = z.config_mode /\ r.custom_response = 5
      /\ r.response = "read_buttons"
      /\ r.responses[c][0] = 255
      /\ r.responses[c][2] = 0 /\ r.responses[c][3] = 0
      /\ r.responses[c][4] = 0 /\ r.responses[c][5] = 0
  BY <1>1, <1>2, ButtonsAnswer DEF c, r
<1>4. KnownData(m, e[2], e[4]) = <<255, 255, 0, 0, 0, 0>>
  BY <1>1, <1>2, DataIs
<1>5. CurrentRow(r) = c
  BY <1>3 DEF CurrentRow, c
<1>6. ASSUME NEW q, PadOK(q), q.written = 4, q.command = z.command, q.custom_response = 5,
             q.responses = r.responses, ModesAre(q, Became(m, e))
      PROVE  Responded(q, m, e)
  <2>1. q.responses[CurrentRow(q)] = r.responses[c]
    BY <1>3, <1>5, <1>6 DEF CurrentRow
  <2> DEFINE row == r.responses[c]
  <2>2. row[0] = 255 /\ row[2] = 0 /\ row[3] = 0 /\ row[4] = 0 /\ row[5] = 0
    BY <1>3
  <2> HIDE DEF row
  <2>3. 255 \in {Whatever, row[0]} /\ 0 \in {Whatever, row[2]} /\ 0 \in {Whatever, row[3]}
        /\ 0 \in {Whatever, row[4]} /\ 0 \in {Whatever, row[5]}
    BY <2>2
  <2>4. IF q.custom_response = 5 THEN 255 \in {Whatever, Released} ELSE 255 \in {Whatever, row[1]}
    BY <1>6 DEF Released
  <2>5. q.custom_response # 4 /\ q.command = e[2] /\ row = q.responses[CurrentRow(q)]
    BY <1>1, <1>6, <2>1 DEF row
  <2> QED BY <1>1, <1>4, <1>6, <2>3, <2>4, <2>5, SixAnswers
<1>7. CASE e[2] = READ_DATA
  <2>1. ResponseOf(e[2]) = "read_buttons"
    BY <1>7 DEF ResponseOf, READ_DATA, CONFIG_MODE, SET_MAIN_MODE, QUERY_ACT, QUERY_MODE
  <2>2. Respond(z, e[4]) = r
    BY <2>1 DEF Respond, r
  <2>3. Became(m, e) = m
    BY <1>7 DEF Became, READ_DATA, CONFIG_MODE, SET_MAIN_MODE
  <2>4. ModesAre(r, m)
    BY <1>1, <1>3 DEF ModesAre
  <2> QED BY <1>3, <1>6, <2>2, <2>3, <2>4
<1>8. CASE e[2] = CONFIG_MODE
  <2> DEFINE on == e[4] # 0
             q == [r EXCEPT !.config_mode = on]
  <2>1. ResponseOf(e[2]) = "set_config"
    BY <1>8 DEF ResponseOf, READ_DATA, CONFIG_MODE, SET_MAIN_MODE, QUERY_ACT, QUERY_MODE
  <2>2. Respond(z, e[4]) = SetConfig(z, e[4])
    BY <2>1 DEF Respond
  <2>3. ~z.config_mode
    BY <1>1, <1>8 DEF ModesAre
  <2>4. SetConfig(z, e[4]) = q
    BY <2>3 DEF SetConfig, r
  <2>5. Became(m, e) = [m EXCEPT !.config_mode = on]
    BY <1>1, <1>8 DEF Became, CONFIG_MODE, SET_MAIN_MODE
  <2>6. on \in BOOLEAN /\ r \in PadType
    BY <1>3 DEF PadOK
  <2> HIDE DEF on
  <2>7. q \in PadType
    BY <2>6 DEF PadType
  <2>8. /\ q.written = r.written /\ q.command = r.command /\ q.custom_response = r.custom_response
        /\ q.response = r.response /\ q.responses = r.responses /\ q.mode = r.mode /\ q.config_mode = on
    BY <2>6 DEF PadType
  <2> HIDE DEF q
  <2>9. PadOK(q)
    BY <1>3, <2>7, <2>8 DEF PadOK
  <2>10. ModesAre(q, Became(m, e))
    <3>1. Became(m, e).mode = m.mode /\ Became(m, e).config_mode = on
      BY <1>1, <2>5 DEF Modes
    <3> QED BY <1>1, <1>3, <2>8, <3>1 DEF ModesAre
  <2> QED BY <1>3, <1>6, <2>2, <2>4, <2>8, <2>9, <2>10
<1> QED BY <1>7, <1>8

\* CONFIG_MODE in config mode: zeros.
LEMMA ConfigResponds ==
  ASSUME NEW z, NEW m, NEW e, Asked(z, m, e), e[2] = CONFIG_MODE, m.config_mode,
         z.response = ResponseOf(e[2]), z.custom_response # 4, z.custom_response # 5
  PROVE  Responded(Respond(z, e[4]), m, e)
<1> DEFINE rows == [z.responses EXCEPT ![3][0] = 0, ![3][1] = 0]
           on   == e[4] # 0
           r    == Updated(z, rows, z.mode, on)
<1>1. PadOK(z) /\ z.written = 4 /\ m \in Modes /\ ModesAre(z, m) /\ z.command = e[2] /\ Lawful(m, e)
      /\ e[1] = Controller /\ z \in PadType
  BY DEF Asked, PadOK
<1>2. CurrentRow(z) = 3
  BY <1>1 DEF CurrentRow, CONFIG_MODE
<1>3. /\ rows \in [0 .. 15 -> [0 .. 17 -> Bytes]]
      /\ rows[3][0] = 0 /\ rows[3][1] = 0
      /\ \A i \in 0 .. 15 : \A k \in 0 .. 17 : ~ (i = 3 /\ k \in {0, 1}) => rows[i][k] = z.responses[i][k]
  <2>1. z.responses \in [0 .. 15 -> [0 .. 17 -> Bytes]]
    BY <1>1 DEF PadType
  <2>2. 0 \in Bytes
    BY DEF Bytes
  <2> QED BY <2>1, <2>2
<1>4. Respond(z, e[4]) = r
  <2>1. ResponseOf(e[2]) = "set_config"
    BY DEF ResponseOf, READ_DATA, CONFIG_MODE, SET_MAIN_MODE, QUERY_ACT, QUERY_MODE
  <2>2. Respond(z, e[4]) = SetConfig(z, e[4])
    BY <2>1 DEF Respond
  <2>3. z.config_mode
    BY <1>1 DEF ModesAre
  <2>4. SetConfig(z, e[4]) = [[z EXCEPT !.responses[3][0] = 0, !.responses[3][1] = 0] EXCEPT !.config_mode = on]
    BY <1>2, <2>3 DEF SetConfig
  <2>5. [[z EXCEPT !.responses[3][0] = 0, !.responses[3][1] = 0] EXCEPT !.config_mode = on] = r
    BY <1>1, ZenonT(60) DEF PadType, Updated
  <2> QED BY <2>2, <2>4, <2>5
<1>5. RestStays(z.responses, rows)
  <2> SUFFICES ASSUME NEW i \in 0 .. 15, NEW k \in 0 .. 5, ~Rewritten(i, k)
               PROVE  rows[i][k] = z.responses[i][k]
    BY DEF RestStays
  <2>1. k \in 0 .. 17 /\ ~ (i = 3 /\ k \in {0, 1})
    BY DEF Rewritten
  <2> QED BY <1>3, <2>1
<1>6. z.mode \in {0, 1} /\ on \in BOOLEAN
  BY <1>1 DEF PadType
<1> HIDE DEF rows
<1>7. /\ PadOK(r) /\ r.written = z.written /\ r.command = z.command
      /\ r.custom_response = z.custom_response /\ r.response = z.response
      /\ r.mode = z.mode /\ r.config_mode = on /\ r.responses = rows
  <2>1. PICK mode \in {0, 1} : mode = z.mode
    BY <1>6
  <2> HIDE DEF on
  <2>2. LET q == Updated(z, rows, mode, on)
        IN /\ PadOK(q) /\ q.written = z.written /\ q.command = z.command
           /\ q.custom_response = z.custom_response /\ q.response = z.response
           /\ q.mode = mode /\ q.config_mode = on /\ q.responses = rows
    BY <1>1, <1>3, <1>5, <1>6, RowsWritten, SMTT(40)
  <2> QED BY <2>1, <2>2, SMTT(30)
<1> HIDE DEF r
<1>8. Became(m, e) = [m EXCEPT !.config_mode = on]
  BY <1>1 DEF Became, CONFIG_MODE, SET_MAIN_MODE
<1>9. ModesAre(r, Became(m, e))
  <2>1. Became(m, e).mode = m.mode /\ Became(m, e).config_mode = on
    BY <1>1, <1>8 DEF Modes
  <2> QED BY <1>1, <1>7, <2>1 DEF ModesAre
<1>10. KnownData(m, e[2], e[4]) = <<0, 0, 0, 0, 0, 0>>
  BY <1>1, DataIs DEF PadCommands
<1> DEFINE row == r.responses[3]
<1>11. row[0] = 0 /\ row[1] = 0 /\ row[2] = 0 /\ row[3] = 0 /\ row[4] = 0 /\ row[5] = 0
  <2>1. Tables(r.responses)
    BY <1>7 DEF PadOK
  <2> QED BY <1>3, <1>7, <2>1 DEF Tables
<1>12. row = r.responses[CurrentRow(r)]
  BY <1>2, <1>7 DEF CurrentRow
<1> HIDE DEF row
<1>13. 0 \in {Whatever, row[0]} /\ 0 \in {Whatever, row[1]} /\ 0 \in {Whatever, row[2]}
       /\ 0 \in {Whatever, row[3]} /\ 0 \in {Whatever, row[4]} /\ 0 \in {Whatever, row[5]}
  BY <1>11
<1>14. IF r.custom_response = 5 THEN 0 \in {Whatever, Released} ELSE 0 \in {Whatever, row[1]}
  BY <1>7, <1>13
<1>15. Responded(r, m, e)
  <2>1. r.written = 4 /\ r.command = e[2] /\ r.custom_response # 4
    BY <1>1, <1>7
  <2> QED BY <1>1, <1>7, <1>9, <1>10, <1>12, <1>13, <1>14, <2>1, SixAnswers
<1> QED BY <1>4, <1>15

\* SET_MAIN_MODE: the operand is the mode, and the answer zeros.
LEMMA ModeResponds ==
  ASSUME NEW z, NEW m, NEW e, Asked(z, m, e), e[2] = SET_MAIN_MODE,
         z.response = ResponseOf(e[2]), z.custom_response # 4, z.custom_response # 5
  PROVE  Responded(Respond(z, e[4]), m, e)
<1> DEFINE mode == e[4]
           r    == Updated(z, z.responses, mode, z.config_mode)
<1>1. PadOK(z) /\ z.written = 4 /\ m \in Modes /\ ModesAre(z, m) /\ z.command = e[2] /\ Lawful(m, e)
      /\ e[1] = Controller /\ z \in PadType
  BY DEF Asked, PadOK
<1>2. CurrentRow(z) = 4
  BY <1>1 DEF CurrentRow, SET_MAIN_MODE
<1>3. mode \in {0, 1}
  <2>1. Controller # MemCard
    BY DEF Controller, MemCard
  <2> QED BY <1>1, <2>1 DEF Lawful
<1>4. Respond(z, e[4]) = r
  <2>1. ResponseOf(e[2]) = "switch_mode"
    BY DEF ResponseOf, READ_DATA, CONFIG_MODE, SET_MAIN_MODE, QUERY_ACT, QUERY_MODE
  <2>2. Respond(z, e[4]) = [z EXCEPT !.mode = mode]
    BY <2>1 DEF Respond
  <2>3. [z EXCEPT !.mode = mode] = r
    BY <1>1 DEF PadType, Updated
  <2> QED BY <2>2, <2>3
<1> HIDE DEF mode
<1>5. z.responses \in [0 .. 15 -> [0 .. 17 -> Bytes]] /\ z.config_mode \in BOOLEAN
  BY <1>1 DEF PadType
<1>6. /\ PadOK(r) /\ r.written = z.written /\ r.command = z.command
      /\ r.custom_response = z.custom_response /\ r.response = z.response
      /\ r.mode = mode /\ r.config_mode = z.config_mode /\ r.responses = z.responses
  <2>1. PICK on \in BOOLEAN : on = z.config_mode
    BY <1>5
  <2>2. PICK rows \in [0 .. 15 -> [0 .. 17 -> Bytes]] : rows = z.responses
    BY <1>5
  <2>3. RestStays(z.responses, rows)
    BY <2>2 DEF RestStays
  <2>4. LET q == Updated(z, rows, mode, on)
        IN /\ PadOK(q) /\ q.written = z.written /\ q.command = z.command
           /\ q.custom_response = z.custom_response /\ q.response = z.response
           /\ q.mode = mode /\ q.config_mode = on /\ q.responses = rows
    BY <1>1, <1>3, <2>3, RowsWritten
  <2> QED BY <2>1, <2>2, <2>4
<1> HIDE DEF r
<1>7. Became(m, e) = [m EXCEPT !.mode = mode]
  BY <1>1 DEF Became, CONFIG_MODE, SET_MAIN_MODE, mode
<1>8. ModesAre(r, Became(m, e))
  <2>1. Became(m, e).mode = mode /\ Became(m, e).config_mode = m.config_mode
    BY <1>1, <1>7 DEF Modes
  <2> QED BY <1>1, <1>6, <2>1 DEF ModesAre
<1>9. KnownData(m, e[2], e[4]) = <<0, 0, 0, 0, 0, 0>>
  BY <1>1, DataIs DEF PadCommands
<1> DEFINE row == r.responses[4]
<1>10. row[0] = 0 /\ row[1] = 0 /\ row[2] = 0 /\ row[3] = 0 /\ row[4] = 0 /\ row[5] = 0
  <2>1. Tables(r.responses)
    BY <1>6 DEF PadOK
  <2> QED BY <2>1 DEF Tables
<1>11. row = r.responses[CurrentRow(r)]
  BY <1>2, <1>6 DEF CurrentRow
<1> HIDE DEF row
<1>12. 0 \in {Whatever, row[0]} /\ 0 \in {Whatever, row[1]} /\ 0 \in {Whatever, row[2]}
       /\ 0 \in {Whatever, row[3]} /\ 0 \in {Whatever, row[4]} /\ 0 \in {Whatever, row[5]}
  BY <1>10
<1>13. IF r.custom_response = 5 THEN 0 \in {Whatever, Released} ELSE 0 \in {Whatever, row[1]}
  BY <1>6, <1>12
<1>14. Responded(r, m, e)
  <2>1. r.written = 4 /\ r.command = e[2] /\ r.custom_response # 4
    BY <1>1, <1>6
  <2> QED BY <1>1, <1>6, <1>8, <1>9, <1>11, <1>12, <1>13, <2>1, SixAnswers
<1> QED BY <1>4, <1>14

\* QUERY_ACT: the constants of the half that the operand names.
LEMMA ActResponds ==
  ASSUME NEW z, NEW m, NEW e, Asked(z, m, e), e[2] = QUERY_ACT,
         z.response = ResponseOf(e[2]), z.custom_response # 4, z.custom_response # 5
  PROVE  Responded(Respond(z, e[4]), m, e)
<1> DEFINE of   == Constants(e[4])
           six  == [i \in 0 .. 17 |-> IF i < 6 THEN of[i + 1] ELSE z.responses[6][i]]
           rows == [z.responses EXCEPT ![6] = six]
           r    == Updated(z, rows, z.mode, z.config_mode)
<1>1. PadOK(z) /\ z.written = 4 /\ m \in Modes /\ ModesAre(z, m) /\ z.command = e[2] /\ Lawful(m, e)
      /\ e[1] = Controller /\ z \in PadType
  BY DEF Asked, PadOK
<1>2. CurrentRow(z) = 6
  BY <1>1 DEF CurrentRow, QUERY_ACT
<1>3. e[4] \in {0, 1}
  <2>1. Controller # MemCard
    BY DEF Controller, MemCard
  <2> QED BY <1>1, <2>1 DEF Lawful
<1>4. of = <<of[1], of[2], of[3], of[4], of[5], of[6]>> /\ \A i \in 1 .. 6 : of[i] \in Bytes
  BY <1>3 DEF Constants, Bytes
<1>5. z.responses \in [0 .. 15 -> [0 .. 17 -> Bytes]] /\ z.config_mode \in BOOLEAN /\ z.mode \in {0, 1}
  BY <1>1 DEF PadType
<1> HIDE DEF of
<1>6. six \in [0 .. 17 -> Bytes] /\ \A i \in 0 .. 5 : six[i] = of[i + 1]
  BY <1>4, <1>5
<1>7. Respond(z, e[4]) = r
  <2>1. ResponseOf(e[2]) = "query"
    BY DEF ResponseOf, READ_DATA, CONFIG_MODE, SET_MAIN_MODE, QUERY_ACT, QUERY_MODE
  <2>2. Respond(z, e[4]) = [z EXCEPT !.responses[6] = [i \in 0 .. 17 |-> IF i < 6 THEN of[i + 1] ELSE @[i]]]
    BY <1>2, <2>1 DEF Respond, of
  <2>3. [z EXCEPT !.responses[6] = [i \in 0 .. 17 |-> IF i < 6 THEN of[i + 1] ELSE @[i]]] = r
    BY <1>1 DEF PadType, Updated
  <2> QED BY <2>2, <2>3
<1> HIDE DEF six
<1>8. /\ rows \in [0 .. 15 -> [0 .. 17 -> Bytes]] /\ rows[6] = six
      /\ \A i \in 0 .. 15 : i # 6 => rows[i] = z.responses[i]
  BY <1>5, <1>6
<1> HIDE DEF rows
<1>9. RestStays(z.responses, rows)
  <2> SUFFICES ASSUME NEW i \in 0 .. 15, NEW k \in 0 .. 5, ~Rewritten(i, k)
               PROVE  rows[i][k] = z.responses[i][k]
    BY DEF RestStays
  <2>1. i # 6
    BY DEF Rewritten
  <2> QED BY <1>8, <2>1
<1>10. /\ PadOK(r) /\ r.written = z.written /\ r.command = z.command
       /\ r.custom_response = z.custom_response /\ r.response = z.response
       /\ r.mode = z.mode /\ r.config_mode = z.config_mode /\ r.responses = rows
  <2>1. PICK on \in BOOLEAN : on = z.config_mode
    BY <1>5
  <2>2. PICK mode \in {0, 1} : mode = z.mode
    BY <1>5
  <2>3. LET q == Updated(z, rows, mode, on)
        IN /\ PadOK(q) /\ q.written = z.written /\ q.command = z.command
           /\ q.custom_response = z.custom_response /\ q.response = z.response
           /\ q.mode = mode /\ q.config_mode = on /\ q.responses = rows
    BY <1>1, <1>8, <1>9, RowsWritten
  <2> QED BY <2>1, <2>2, <2>3
<1> HIDE DEF r
<1>11. ModesAre(r, Became(m, e))
  <2>1. Became(m, e) = m
    BY DEF Became, CONFIG_MODE, SET_MAIN_MODE, QUERY_ACT
  <2> QED BY <1>1, <1>10, <2>1 DEF ModesAre
<1>12. KnownData(m, e[2], e[4]) = <<of[1], of[2], of[3], of[4], of[5], of[6]>>
  <2>1. e[2] \in PadCommands
    BY DEF PadCommands
  <2>2. KnownData(m, e[2], e[4]) = Constants(e[4])
    BY <1>1, <2>1, DataIs
  <2> QED BY <1>4, <2>2 DEF of
<1>13. six = r.responses[CurrentRow(r)]
  BY <1>2, <1>8, <1>10 DEF CurrentRow
<1>14. of[1] = six[0] /\ of[2] = six[1] /\ of[3] = six[2] /\ of[4] = six[3] /\ of[5] = six[4] /\ of[6] = six[5]
  BY <1>6
<1>15. of[1] \in {Whatever, six[0]} /\ of[2] \in {Whatever, six[1]} /\ of[3] \in {Whatever, six[2]}
       /\ of[4] \in {Whatever, six[3]} /\ of[5] \in {Whatever, six[4]} /\ of[6] \in {Whatever, six[5]}
  BY <1>14
<1>16. IF r.custom_response = 5 THEN of[2] \in {Whatever, Released} ELSE of[2] \in {Whatever, six[1]}
  BY <1>10, <1>15
<1>17. Responded(r, m, e)
  <2>1. r.written = 4 /\ r.command = e[2] /\ r.custom_response # 4
    BY <1>1, <1>10
  <2> QED BY <1>1, <1>10, <1>11, <1>12, <1>13, <1>15, <1>16, <2>1, SixAnswers
<1> QED BY <1>7, <1>17

\* QUERY_MODE: the operand's code in the fourth byte, in a byte's width.
LEMMA CodeResponds ==
  ASSUME NEW z, NEW m, NEW e, Asked(z, m, e), e[2] = QUERY_MODE,
         z.response = ResponseOf(e[2]), z.custom_response # 4, z.custom_response # 5
  PROVE  Responded(Respond(z, e[4]), m, e)
<1> DEFINE code == (4 + e[4] * 3) % 256
           rows == [z.responses EXCEPT ![12][3] = code]
           r    == Updated(z, rows, z.mode, z.config_mode)
<1>1. PadOK(z) /\ z.written = 4 /\ m \in Modes /\ ModesAre(z, m) /\ z.command = e[2] /\ Lawful(m, e)
      /\ e[1] = Controller /\ z \in PadType /\ e \in Seq(Bytes)
  BY DEF Asked, PadOK
<1>2. CurrentRow(z) = 12
  BY <1>1 DEF CurrentRow, QUERY_MODE
<1>3. code \in Bytes
  <2>1. Controller # MemCard
    BY DEF Controller, MemCard
  <2>2. Len(e) \in 4 .. 9
    BY <1>1, <2>1 DEF Lawful
  <2>3. e[4] \in Bytes
    BY <1>1, <2>2
  <2> QED BY <2>3 DEF Bytes
<1>4. z.responses \in [0 .. 15 -> [0 .. 17 -> Bytes]] /\ z.config_mode \in BOOLEAN /\ z.mode \in {0, 1}
  BY <1>1 DEF PadType
<1>5. Respond(z, e[4]) = r
  <2>1. ResponseOf(e[2]) = "query_mode"
    BY DEF ResponseOf, READ_DATA, CONFIG_MODE, SET_MAIN_MODE, QUERY_ACT, QUERY_MODE
  <2>2. Respond(z, e[4]) = [z EXCEPT !.responses[12][3] = code]
    BY <1>2, <2>1 DEF Respond
  <2> HIDE DEF code
  <2>3. [z EXCEPT !.responses[12][3] = code] = r
    BY <1>1 DEF PadType, Updated
  <2> QED BY <2>2, <2>3
<1>6. KnownData(m, e[2], e[4]) = <<0, 0, 0, code, 0, 0>>
  BY <1>1, DataIs DEF PadCommands
<1> HIDE DEF code
<1>7. /\ rows \in [0 .. 15 -> [0 .. 17 -> Bytes]] /\ rows[12][3] = code
      /\ \A i \in 0 .. 15 : \A k \in 0 .. 17 : ~ (i = 12 /\ k = 3) => rows[i][k] = z.responses[i][k]
  BY <1>3, <1>4
<1> HIDE DEF rows
<1>8. RestStays(z.responses, rows)
  <2> SUFFICES ASSUME NEW i \in 0 .. 15, NEW k \in 0 .. 5, ~Rewritten(i, k)
               PROVE  rows[i][k] = z.responses[i][k]
    BY DEF RestStays
  <2>1. k \in 0 .. 17 /\ ~ (i = 12 /\ k = 3)
    BY DEF Rewritten
  <2> QED BY <1>7, <2>1
<1>9. /\ PadOK(r) /\ r.written = z.written /\ r.command = z.command
      /\ r.custom_response = z.custom_response /\ r.response = z.response
      /\ r.mode = z.mode /\ r.config_mode = z.config_mode /\ r.responses = rows
  <2>1. PICK on \in BOOLEAN : on = z.config_mode
    BY <1>4
  <2>2. PICK mode \in {0, 1} : mode = z.mode
    BY <1>4
  <2>3. LET q == Updated(z, rows, mode, on)
        IN /\ PadOK(q) /\ q.written = z.written /\ q.command = z.command
           /\ q.custom_response = z.custom_response /\ q.response = z.response
           /\ q.mode = mode /\ q.config_mode = on /\ q.responses = rows
    BY <1>1, <1>7, <1>8, RowsWritten, SMTT(40)
  <2> QED BY <2>1, <2>2, <2>3, SMTT(30)
<1> HIDE DEF r
<1>10. ModesAre(r, Became(m, e))
  <2>1. Became(m, e) = m
    BY DEF Became, CONFIG_MODE, SET_MAIN_MODE, QUERY_MODE
  <2> QED BY <1>1, <1>9, <2>1 DEF ModesAre
<1> DEFINE row == r.responses[12]
<1>11. row[0] = 0 /\ row[1] = 0 /\ row[2] = 0 /\ row[3] = code /\ row[4] = 0 /\ row[5] = 0
  <2>1. Tables(r.responses)
    BY <1>9 DEF PadOK
  <2> QED BY <1>7, <1>9, <2>1 DEF Tables
<1>12. row = r.responses[CurrentRow(r)]
  BY <1>2, <1>9 DEF CurrentRow
<1> HIDE DEF row
<1>13. 0 \in {Whatever, row[0]} /\ 0 \in {Whatever, row[1]} /\ 0 \in {Whatever, row[2]}
       /\ code \in {Whatever, row[3]} /\ 0 \in {Whatever, row[4]} /\ 0 \in {Whatever, row[5]}
  BY <1>11
<1>14. IF r.custom_response = 5 THEN 0 \in {Whatever, Released} ELSE 0 \in {Whatever, row[1]}
  BY <1>9, <1>13
<1>15. Responded(r, m, e)
  <2>1. r.written = 4 /\ r.command = e[2] /\ r.custom_response # 4
    BY <1>1, <1>9
  <2> QED BY <1>1, <1>6, <1>9, <1>10, <1>12, <1>13, <1>14, <2>1, SixAnswers
<1> QED BY <1>5, <1>15

\* QUERY_MODEL and QUERY_COMB have no response of their own; what the last one left reads
\* the buttons at byte 5.
LEMMA TableResponds ==
  ASSUME NEW q, NEW m, NEW e, Asked(q, m, e), e[2] \in {QUERY_MODEL, QUERY_COMB},
         q.custom_response # 4, e[2] = QUERY_MODEL => q.responses[5][2] = m.mode
  PROVE  Responded(q, m, e)
<1>1. PadOK(q) /\ q.written = 4 /\ m \in Modes /\ ModesAre(q, m) /\ q.command = e[2] /\ Lawful(m, e)
      /\ e[1] = Controller /\ Tables(q.responses)
  BY DEF Asked, PadOK
<1>2. ModesAre(q, Became(m, e))
  <2>1. Became(m, e) = m
    BY DEF Became, CONFIG_MODE, SET_MAIN_MODE, QUERY_MODEL, QUERY_COMB
  <2> QED BY <1>1, <2>1
<1> DEFINE row == q.responses[CurrentRow(q)]
<1>3. IF q.custom_response = 5 THEN Whatever \in {Whatever, Released} ELSE Whatever \in {Whatever, row[1]}
  OBVIOUS
<1>4. CASE e[2] = QUERY_MODEL
  <2>1. CurrentRow(q) = 5
    BY <1>1, <1>4 DEF CurrentRow, QUERY_MODEL
  <2>2. row[0] = 1 /\ row[2] = m.mode /\ row[3] = 2 /\ row[4] = 1 /\ row[5] = 0
    BY <1>1, <1>4, <2>1 DEF Tables
  <2>3. KnownData(m, e[2], e[4]) = <<1, Whatever, m.mode, 2, 1, 0>>
    BY <1>1, <1>4, DataIs DEF PadCommands
  <2>4. row = q.responses[CurrentRow(q)]
    OBVIOUS
  <2> HIDE DEF row
  <2>5. 1 \in {Whatever, row[0]} /\ m.mode \in {Whatever, row[2]} /\ 2 \in {Whatever, row[3]}
        /\ 1 \in {Whatever, row[4]} /\ 0 \in {Whatever, row[5]}
    BY <2>2
  <2> QED BY <1>1, <1>2, <1>3, <2>3, <2>4, <2>5, SixAnswers
<1>5. CASE e[2] = QUERY_COMB
  <2>1. CurrentRow(q) = 7
    BY <1>1, <1>5 DEF CurrentRow, QUERY_COMB
  <2>2. row[0] = 0 /\ row[2] = 2 /\ row[3] = 0 /\ row[4] = 1 /\ row[5] = 0
    BY <1>1, <2>1 DEF Tables
  <2>3. KnownData(m, e[2], e[4]) = <<0, Whatever, 2, 0, 1, 0>>
    BY <1>1, <1>5, DataIs DEF PadCommands
  <2>4. row = q.responses[CurrentRow(q)]
    OBVIOUS
  <2> HIDE DEF row
  <2>5. 0 \in {Whatever, row[0]} /\ 2 \in {Whatever, row[2]} /\ 0 \in {Whatever, row[3]}
        /\ 1 \in {Whatever, row[4]} /\ 0 \in {Whatever, row[5]}
    BY <2>2
  <2> QED BY <1>1, <1>2, <1>3, <2>3, <2>4, <2>5, SixAnswers
<1> QED BY <1>4, <1>5

\* The rows hold bytes.
LEMMA RowByte ==
  ASSUME NEW r, PadOK(r), NEW k \in 0 .. 17
  PROVE  r.responses[CurrentRow(r)][k] \in Bytes
<1>1. r \in PadType
  BY DEF PadOK
<1>2. CurrentRow(r) \in 0 .. 15
  BY <1>1, SMTT(40) DEF PadType, CurrentRow, Bytes
<1>3. r.responses \in [0 .. 15 -> [0 .. 17 -> Bytes]]
  BY <1>1 DEF PadType
<1> QED BY <1>2, <1>3

\* Behind the third byte the pad replies from the row of its command: at the byte that a
\* response waits for, behind the response.
LEMMA ListedByte ==
  ASSUME NEW p, NEW byte, NEW n \in Nat, n = p.written + 1, n > 3, p.custom_response # n
  PROVE  LET q == [p EXCEPT !.written = n]
         IN WriteByte(p, byte) = [pad |-> q, reply |-> q.responses[CurrentRow(q)][n - 4]]
<1>1. ~ (n = 1) /\ ~ (n = 2) /\ ~ (n = 3) /\ ~ (n = p.custom_response)
  OBVIOUS
<1> QED BY <1>1 DEF WriteByte

\* The reply of a byte that a response waits for is the row's behind the response.
LEMMA RespondedByte ==
  ASSUME NEW p, NEW byte, NEW n \in Nat, n = p.written + 1, p.custom_response = n
  PROVE  LET r == Respond([[p EXCEPT !.written = n] EXCEPT !.custom_response = -1], byte)
         IN WriteByte(p, byte) = [pad |-> r, reply |-> r.responses[CurrentRow(r)][n - 4]]
<1> QED BY DEF WriteByte

\* A response moves nothing in the rows of QUERY_MODEL and QUERY_COMB, and chains itself
\* if it reads the buttons.
LEMMA RespondElsewhere ==
  ASSUME NEW z \in PadType, z.written = 4, z.custom_response = -1, NEW byte,
         NEW cmd \in {READ_DATA, CONFIG_MODE, SET_MAIN_MODE, QUERY_ACT, QUERY_MODE},
         z.response = ResponseOf(cmd), z.command = cmd
  PROVE  LET r == Respond(z, byte)
         IN /\ r.responses[5][1] = z.responses[5][1] /\ r.responses[7][1] = z.responses[7][1]
            /\ r.custom_response = 5 => cmd = READ_DATA \/ (cmd = CONFIG_MODE /\ ~z.config_mode)
<1> DEFINE c == CurrentRow(z)
           b == ReadButtons(z)
           r == Respond(z, byte)
<1>1. cmd \in PadCommands
  BY DEF PadCommands
<1>2. c \in {2, 3, 4, 6, 12}
  BY <1>1, CommandRows DEF CurrentRow
<1>3. PICK rows \in [0 .. 15 -> [0 .. 17 -> Bytes]] : rows = z.responses
  BY DEF PadType
<1> HIDE DEF c, b
<1>4. /\ b \in PadType /\ b.responses[5][1] = rows[5][1] /\ b.responses[7][1] = rows[7][1]
  <2>1. /\ b \in PadType
        /\ \A i \in 0 .. 15 : \A k \in 0 .. 17 :
             b.responses[i][k] = IF i = CurrentRow(z) /\ k = z.written - 4 THEN Released
                                 ELSE z.responses[i][k]
    BY ReadButtonsEffect DEF b
  <2>2. 5 \in 0 .. 15 /\ 7 \in 0 .. 15 /\ 1 \in 0 .. 17 /\ CurrentRow(z) # 5 /\ CurrentRow(z) # 7
    BY <1>2 DEF c
  <2> QED BY <1>3, <2>1, <2>2
<1>10. /\ ResponseOf(READ_DATA) = "read_buttons" /\ ResponseOf(CONFIG_MODE) = "set_config"
       /\ ResponseOf(SET_MAIN_MODE) = "switch_mode" /\ ResponseOf(QUERY_ACT) = "query"
       /\ ResponseOf(QUERY_MODE) = "query_mode"
  BY DEF ResponseOf, READ_DATA, CONFIG_MODE, SET_MAIN_MODE, QUERY_ACT, QUERY_MODE
<1>5. CASE cmd = READ_DATA
  <2>1. z.response = "read_buttons"
    BY <1>5, <1>10
  <2>2. r = b
    BY <2>1 DEF Respond, b
  <2> HIDE DEF r
  <2> QED BY <1>3, <1>4, <1>5, <2>2 DEF r
<1>6. CASE cmd = CONFIG_MODE
  <2>1. z.response = "set_config"
    BY <1>6, <1>10
  <2>2. r = SetConfig(z, byte)
    BY <2>1 DEF Respond
  <2>3. CASE ~z.config_mode
    <3>1. r = [b EXCEPT !.config_mode = byte # 0]
      BY <2>2, <2>3 DEF SetConfig, b
    <3>2. r.responses = b.responses
      BY <1>4, <3>1 DEF PadType
    <3> HIDE DEF r
    <3> QED BY <1>3, <1>4, <1>6, <2>3, <3>2 DEF r
  <2>4. CASE z.config_mode
    <3> DEFINE next == [z.responses EXCEPT ![c][0] = 0, ![c][1] = 0]
    <3>1. r = [[z EXCEPT !.responses = next] EXCEPT !.config_mode = byte # 0]
      BY <2>2, <2>4 DEF SetConfig, c, PadType
    <3>2. next[5] = rows[5] /\ next[7] = rows[7]
      BY <1>2, <1>3
    <3> HIDE DEF next
    <3>3. r.responses = next /\ r.custom_response = -1
      BY <3>1 DEF PadType
    <3> HIDE DEF r
    <3> QED BY <1>3, <3>2, <3>3 DEF r
  <2> QED BY <2>3, <2>4
<1>7. CASE cmd = SET_MAIN_MODE
  <2>1. z.response = "switch_mode"
    BY <1>7, <1>10
  <2>2. r = [z EXCEPT !.mode = byte]
    BY <2>1 DEF Respond
  <2>3. r.responses = z.responses /\ r.custom_response = -1
    BY <2>2 DEF PadType
  <2> HIDE DEF r
  <2> QED BY <2>3 DEF r
<1>8. CASE cmd = QUERY_ACT
  <2>1. z.response = "query"
    BY <1>8, <1>10
  <2> DEFINE row == [i \in 0 .. 17 |-> IF i < 6 THEN Constants(byte)[i + 1] ELSE z.responses[c][i]]
             next == [z.responses EXCEPT ![c] = row]
  <2>2. r = [z EXCEPT !.responses = next]
    <3>1. r = [z EXCEPT !.responses[CurrentRow(z)] =
                 [i \in 0 .. 17 |-> IF i < 6 THEN Constants(byte)[i + 1] ELSE @[i]]]
      BY <2>1 DEF Respond
    <3> QED BY <3>1 DEF PadType, c
  <2> HIDE DEF row
  <2>3. next[5] = rows[5] /\ next[7] = rows[7]
    BY <1>2, <1>3
  <2> HIDE DEF next
  <2>4. r.responses = next /\ r.custom_response = -1
    BY <2>2 DEF PadType
  <2> HIDE DEF r
  <2> QED BY <1>3, <2>3, <2>4 DEF r
<1>9. CASE cmd = QUERY_MODE
  <2>1. z.response = "query_mode"
    BY <1>9, <1>10
  <2> DEFINE code == (4 + byte * 3) % 256
             next == [z.responses EXCEPT ![c][3] = code]
  <2> HIDE DEF code
  <2>2. r = [z EXCEPT !.responses = next]
    BY <2>1 DEF Respond, c, code, PadType
  <2>3. next[5] = rows[5] /\ next[7] = rows[7]
    BY <1>2, <1>3
  <2> HIDE DEF next
  <2>4. r.responses = next /\ r.custom_response = -1
    BY <2>2 DEF PadType
  <2> HIDE DEF r
  <2> QED BY <1>3, <2>3, <2>4 DEF r
<1> QED BY <1>5, <1>6, <1>7, <1>8, <1>9

\* The fourth byte: the operand, and the response that the command has set.
LEMMA PadFourth ==
  ASSUME NEW p, PadOK(p), NEW m \in Modes, NEW e \in Seq(Bytes), Lawful(m, e), e[1] = Controller,
         p.written = 3, Commanded(p, m, e)
  PROVE  LET w == WriteByte(p, e[4])
         IN /\ PadOK(w.pad) /\ w.pad.written = 4 /\ Answering(w.pad, m, e, 4)
            /\ Expected(m, e, 0) \in {Whatever, w.reply} /\ w.reply \in Bytes
            /\ Reads(p, w, m, e, 4)
<1> DEFINE q == [p EXCEPT !.written = 4]
           z == [q EXCEPT !.custom_response = -1]
           a == Respond(z, e[4])
           Listed(r) == [pad |-> r, reply |-> r.responses[CurrentRow(r)][0]]
<1>1. p \in PadType /\ Tables(p.responses) /\ (p.custom_response = 5 => p.response = "read_buttons")
  BY DEF PadOK
<1>2. e[2] \in PadCommands
  <2>1. Controller # MemCard
    BY DEF Controller, MemCard
  <2> QED BY <2>1 DEF Lawful, Allowed
<1>3. SetsResponse(e) <=> e[2] \notin {QUERY_MODEL, QUERY_COMB}
  <2>1. Len(e) > 1
    <3>1. Controller # MemCard
      BY DEF Controller, MemCard
    <3>2. Len(e) \in 4 .. 9
      BY <3>1 DEF Lawful
    <3> QED BY <3>2, SMTT(40)
  <2> QED BY <2>1 DEF SetsResponse, Commands
<1>4. /\ q \in PadType /\ q.written = 4 /\ q.mode = p.mode /\ q.config_mode = p.config_mode
      /\ q.custom_response = p.custom_response /\ q.response = p.response /\ q.responses = p.responses
      /\ q.command = p.command
  BY <1>1 DEF PadType
<1>5. [p EXCEPT !.written = p.written + 1] = q /\ p.written + 1 = 4
  OBVIOUS
<1> HIDE DEF q
<1>6. /\ z \in PadType /\ z.written = 4 /\ z.mode = p.mode /\ z.config_mode = p.config_mode
      /\ z.custom_response = -1 /\ z.response = p.response /\ z.responses = p.responses
      /\ z.command = p.command
  BY <1>4 DEF PadType
<1> HIDE DEF z, a
<1>7. ASSUME NEW r, Responded(r, m, e), WriteByte(p, e[4]) = Listed(r), Reads(p, Listed(r), m, e, 4)
      PROVE  LET w == WriteByte(p, e[4])
             IN /\ PadOK(w.pad) /\ w.pad.written = 4 /\ Answering(w.pad, m, e, 4)
                /\ Expected(m, e, 0) \in {Whatever, w.reply} /\ w.reply \in Bytes
                /\ Reads(p, w, m, e, 4)
  <2>1. r.responses[CurrentRow(r)][0] \in Bytes
    BY <1>7, RowByte DEF Responded
  <2> QED BY <1>7, <2>1 DEF Responded
<1>8. CASE p.custom_response = 4
  <2>1. WriteByte(p, e[4]) = Listed(a)
    <3>1. LET r == Respond([[p EXCEPT !.written = 4] EXCEPT !.custom_response = -1], e[4])
          IN WriteByte(p, e[4]) = [pad |-> r, reply |-> r.responses[CurrentRow(r)][4 - 4]]
      BY <1>5, <1>8, RespondedByte
    <3> QED BY <3>1 DEF a, z, q
  <2>2. Asked(z, m, e)
    <3>1. PadOK(z)
      BY <1>1, <1>6 DEF PadOK
    <3> QED BY <1>6, <3>1 DEF Asked, Commanded, ModesAre
  <2>3. SetsResponse(e)
    BY <1>8 DEF Commanded
  <2>4. z.response = ResponseOf(e[2])
    BY <1>6, <2>3 DEF Commanded
  <2>5. z.custom_response # 4 /\ z.custom_response # 5
    BY <1>6
  <2>6. e[2] \in {READ_DATA, CONFIG_MODE, SET_MAIN_MODE, QUERY_ACT, QUERY_MODE}
    BY <1>2, <1>3, <2>3 DEF PadCommands
  <2>12. Reads(p, Listed(a), m, e, 4)
    <3>1. PICK cmd \in {READ_DATA, CONFIG_MODE, SET_MAIN_MODE, QUERY_ACT, QUERY_MODE} : cmd = e[2]
      BY <2>6
    <3>2. z.response = ResponseOf(cmd) /\ z.command = cmd
      BY <1>6, <2>4, <3>1 DEF Commanded
    <3>3. /\ a.responses[5][1] = z.responses[5][1] /\ a.responses[7][1] = z.responses[7][1]
          /\ a.custom_response = 5 => cmd = READ_DATA \/ (cmd = CONFIG_MODE /\ ~z.config_mode)
      BY <1>6, <3>2, RespondElsewhere DEF a
    <3>4. z.config_mode = m.config_mode
      BY <1>6 DEF Commanded, ModesAre
    <3>5. a.custom_response = 5 => ReadsButtons(m, e)
      BY <2>3, <3>1, <3>3, <3>4 DEF ReadsButtons
    <3> QED BY <1>6, <3>3, <3>5 DEF Reads
  <2>7. CASE e[2] = READ_DATA \/ (e[2] = CONFIG_MODE /\ ~m.config_mode)
    <3>1. e[2] = CONFIG_MODE => ~m.config_mode
      BY <2>7 DEF READ_DATA, CONFIG_MODE
    <3>2. Responded(a, m, e)
      BY <2>2, <2>4, <2>7, <3>1, ButtonsRespond DEF a
    <3> QED BY <1>7, <2>1, <2>12, <3>2
  <2>8. CASE e[2] = CONFIG_MODE /\ m.config_mode
    <3>1. Responded(a, m, e)
      BY <2>2, <2>4, <2>5, <2>8, ConfigResponds DEF a
    <3> QED BY <1>7, <2>1, <2>12, <3>1
  <2>9. CASE e[2] = SET_MAIN_MODE
    <3>1. Responded(a, m, e)
      BY <2>2, <2>4, <2>5, <2>9, ModeResponds DEF a
    <3> QED BY <1>7, <2>1, <2>12, <3>1
  <2>10. CASE e[2] = QUERY_ACT
    <3>1. Responded(a, m, e)
      BY <2>2, <2>4, <2>5, <2>10, ActResponds DEF a
    <3> QED BY <1>7, <2>1, <2>12, <3>1
  <2>11. CASE e[2] = QUERY_MODE
    <3>1. Responded(a, m, e)
      BY <2>2, <2>4, <2>5, <2>11, CodeResponds DEF a
    <3> QED BY <1>7, <2>1, <2>12, <3>1
  <2> QED BY <2>6, <2>7, <2>8, <2>9, <2>10, <2>11
<1>9. CASE p.custom_response # 4
  <2>1. WriteByte(p, e[4]) = Listed(q)
    <3>1. LET r == [p EXCEPT !.written = 4]
          IN WriteByte(p, e[4]) = [pad |-> r, reply |-> r.responses[CurrentRow(r)][4 - 4]]
      <4>1. 4 \in Nat /\ 4 > 3 /\ 4 = p.written + 1 /\ p.custom_response # 4
        BY <1>9
      <4> QED BY <4>1, ListedByte, Zenon
    <3> QED BY <3>1 DEF q
  <2>2. e[2] \in {QUERY_MODEL, QUERY_COMB}
    BY <1>3, <1>9 DEF Commanded
  <2>3. Asked(q, m, e)
    <3>1. PadOK(q)
      BY <1>1, <1>4 DEF PadOK
    <3> QED BY <1>4, <3>1 DEF Asked, Commanded, ModesAre
  <2>4. e[2] = QUERY_MODEL => q.responses[5][2] = m.mode
    BY <1>4 DEF Commanded
  <2>5. Responded(q, m, e)
    BY <1>4, <1>9, <2>2, <2>3, <2>4, TableResponds
  <2>6. Reads(p, Listed(q), m, e, 4)
    BY <1>4 DEF Reads
  <2> QED BY <1>7, <2>1, <2>5, <2>6
<1> QED BY <1>8, <1>9

\* An exchange with the pad that is answered names a command.
LEMMA LongEnough ==
  ASSUME NEW m, NEW e, Lawful(m, e), e[1] = Controller
  PROVE  Len(e) \in 4 .. 9 /\ Len(e) > 1 /\ e[2] \in PadCommands /\ Commands(e)
<1>1. Controller # MemCard
  BY DEF Controller, MemCard
<1>2. Len(e) \in 4 .. 9 /\ e[2] \in PadCommands
  BY <1>1 DEF Lawful, Allowed
<1>3. PICK n \in 4 .. 9 : n = Len(e)
  BY <1>2
<1>4. Len(e) > 1
  BY <1>3
<1> QED BY <1>2, <1>4 DEF Commands

\* The pad is answering a command that reads the buttons at byte 5: one whose row nothing
\* is promised of there.
LEMMA LateButtons ==
  ASSUME NEW p, PadOK(p), NEW m \in Modes, NEW e, e[1] = Controller, Answering(p, m, e, 4),
         p.custom_response = 5
  PROVE  CurrentRow(p) \in {2, 3, 5, 6, 7}
<1>1. e[2] \in PadCommands
  <2>1. Controller # MemCard
    BY DEF Controller, MemCard
  <2> QED BY <2>1 DEF Answering, Lawful, Allowed
<1>2. Expected(m, e, 1) \in {-1, 255}
  BY DEF Answering, RowAnswers, Whatever, Released
<1>3. e[2] # SET_MAIN_MODE
  <2>1. SUFFICES ASSUME e[2] = SET_MAIN_MODE PROVE FALSE
    OBVIOUS
  <2>2. KnownData(m, e[2], e[4]) = <<0, 0, 0, 0, 0, 0>>
    BY <1>1, <2>1, DataIs
  <2>3. Expected(m, e, 1) = 0
    BY <2>2 DEF Expected
  <2> QED BY <1>2, <2>3
<1>4. e[2] # QUERY_MODE
  <2>1. SUFFICES ASSUME e[2] = QUERY_MODE PROVE FALSE
    OBVIOUS
  <2>2. KnownData(m, e[2], e[4]) = <<0, 0, 0, (4 + e[4] * 3) % 256, 0, 0>>
    BY <1>1, <2>1, DataIs
  <2> DEFINE code == (4 + e[4] * 3) % 256
  <2> HIDE DEF code
  <2>3. <<0, 0, 0, code, 0, 0>>[2] = 0
    OBVIOUS
  <2>4. Expected(m, e, 1) = 0
    BY <2>2, <2>3 DEF Expected, code
  <2> QED BY <1>2, <2>4
<1>5. p.command = e[2]
  BY DEF Answering
<1> QED BY <1>1, <1>3, <1>4, <1>5, CommandRows DEF PadCommands, CurrentRow

\* The bytes behind it: the pad lists the row, and reads the buttons where a response
\* waits for the fifth.
LEMMA PadNext ==
  ASSUME NEW p, PadOK(p), NEW m \in Modes, NEW e, e[1] = Controller,
         NEW i \in 4 .. 8, p.written = i, Answering(p, m, e, i), NEW byte
  PROVE  LET w == WriteByte(p, byte)
         IN /\ PadOK(w.pad) /\ w.pad.written = i + 1 /\ Answering(w.pad, m, e, i + 1)
            /\ Expected(m, e, i - 3) \in {Whatever, w.reply} /\ w.reply \in Bytes
            /\ Reads(p, w, m, e, i + 1)
<1> DEFINE n == i + 1
           q == [p EXCEPT !.written = n]
           z == [q EXCEPT !.custom_response = -1]
           a == ReadButtons(z)
           c == CurrentRow(p)
<1>1. p \in PadType /\ Tables(p.responses) /\ (p.custom_response = 5 => p.response = "read_buttons")
  BY DEF PadOK
<1>2. n \in Nat /\ n = p.written + 1 /\ n > 3 /\ n - 4 = i - 3 /\ n \in 5 .. 9 /\ n = i + 1
  OBVIOUS
<1>3. /\ q \in PadType /\ q.written = n /\ q.mode = p.mode /\ q.config_mode = p.config_mode
      /\ q.custom_response = p.custom_response /\ q.response = p.response /\ q.responses = p.responses
      /\ q.command = p.command
  BY <1>1, <1>2 DEF PadType
<1> HIDE DEF q
<1>4. /\ z \in PadType /\ z.written = n /\ z.mode = p.mode /\ z.config_mode = p.config_mode
      /\ z.custom_response = -1 /\ z.response = p.response /\ z.responses = p.responses
      /\ z.command = p.command
  BY <1>3 DEF PadType
<1>5. /\ Lawful(m, e) /\ ModesAre(p, Became(m, e)) /\ p.command = e[2] /\ p.custom_response # 4
      /\ RowAnswers(p, m, e, i)
  BY DEF Answering
<1>6. CASE p.custom_response = n
  <2>1. n = 5 /\ i = 4 /\ p.custom_response = 5 /\ p.response = "read_buttons"
    <3>1. p.custom_response \in {-1, 4, 5}
      BY <1>1 DEF PadType
    <3>2. n = 5
      BY <1>2, <1>6, <3>1
    <3> QED BY <1>1, <1>2, <1>6, <3>2
  <2>2. WriteByte(p, byte) = [pad |-> a, reply |-> a.responses[CurrentRow(a)][n - 4]]
    <3>1. LET r == Respond([[p EXCEPT !.written = n] EXCEPT !.custom_response = -1], byte)
          IN WriteByte(p, byte) = [pad |-> r, reply |-> r.responses[CurrentRow(r)][n - 4]]
      <4> HIDE DEF n
      <4> QED BY <1>2, <1>6, RespondedByte, Zenon
    <3>2. Respond(z, byte) = a
      BY <1>4, <2>1 DEF Respond
    <3> QED BY <3>1, <3>2 DEF z, q
  <2> HIDE DEF z, n
  <2>3. z.written \in {4, 5}
    BY <1>4, <2>1
  <2>4. /\ a \in PadType /\ a.custom_response = 5 /\ a.response = "read_buttons"
        /\ a.written = z.written /\ a.command = z.command
        /\ a.mode = z.mode /\ a.config_mode = z.config_mode
        /\ \A r \in 0 .. 15 : \A k \in 0 .. 17 :
             a.responses[r][k] = IF r = CurrentRow(z) /\ k = z.written - 4 THEN Released
                                 ELSE z.responses[r][k]
    BY <1>4, <2>3, ReadButtonsEffect
  <2> HIDE DEF a
  <2>5. c \in {2, 3, 5, 6, 7} /\ c \in 0 .. 15
    <3>1. Answering(p, m, e, 4)
      BY <2>1
    <3>2. CurrentRow(p) \in {2, 3, 5, 6, 7}
      BY <2>1, <3>1, LateButtons
    <3> QED BY <3>2
  <2>6. CurrentRow(z) = c /\ CurrentRow(a) = c
    BY <1>4, <2>4 DEF CurrentRow
  <2> HIDE DEF c
  <2>7. \A r \in 0 .. 15 : \A k \in 0 .. 17 :
          a.responses[r][k] = IF r = c /\ k = 1 THEN Released ELSE p.responses[r][k]
    <3>1. z.written - 4 = 1
      BY <1>4, <2>1
    <3> QED BY <1>4, <2>4, <2>6, <3>1, SMTT(40)
  <2>8. RestStays(p.responses, a.responses)
    <3> SUFFICES ASSUME NEW j \in 0 .. 15, NEW k \in 0 .. 5, ~Rewritten(j, k)
                 PROVE  a.responses[j][k] = p.responses[j][k]
      BY DEF RestStays
    <3>1. k \in 0 .. 17 /\ ~ (j = c /\ k = 1)
      BY <2>5 DEF Rewritten
    <3> QED BY <2>7, <3>1
  <2>9. PadOK(a)
    BY <1>1, <2>4, <2>8, TablesKept DEF PadOK
  <2>10. a.written = i + 1
    BY <1>2, <1>4, <2>4
  <2>11. RowAnswers(a, m, e, i + 1)
    <3>1. \A k \in 1 .. 5 : Expected(m, e, k) \in {Whatever, p.responses[c][k]} \/ k = 1
      BY <1>5, <2>1 DEF RowAnswers, c
    <3>2. \A k \in 2 .. 5 : a.responses[c][k] = p.responses[c][k]
      <4> SUFFICES ASSUME NEW k \in 2 .. 5
                   PROVE  a.responses[c][k] = p.responses[c][k]
        OBVIOUS
      <4>1. k \in 0 .. 17 /\ k # 1
        OBVIOUS
      <4> QED BY <2>5, <2>7, <4>1
    <3>3. \A k \in (i + 1) - 3 .. 5 : Expected(m, e, k) \in {Whatever, a.responses[c][k]}
      <4> SUFFICES ASSUME NEW k \in (i + 1) - 3 .. 5
                   PROVE  Expected(m, e, k) \in {Whatever, a.responses[c][k]}
        OBVIOUS
      <4>1. k \in 1 .. 5 /\ k \in 2 .. 5 /\ k # 1
        BY <2>1
      <4> QED BY <3>1, <3>2, <4>1
    <3>4. i + 1 # 4
      BY <2>1
    <3> QED BY <2>6, <3>3, <3>4 DEF RowAnswers
  <2>12. ModesAre(a, Became(m, e))
    BY <1>4, <1>5, <2>4 DEF ModesAre
  <2>13. Answering(a, m, e, i + 1)
    BY <1>4, <1>5, <2>4, <2>11, <2>12 DEF Answering
  <2>14. Expected(m, e, i - 3) \in {Whatever, Released}
    BY <1>5, <2>1 DEF RowAnswers
  <2>15. a.responses[CurrentRow(a)][n - 4] = Released
    <3>1. n - 4 = 1 /\ 1 \in 0 .. 17
      BY <2>1
    <3> QED BY <2>5, <2>6, <2>7, <3>1
  <2>16. Released \in Bytes
    BY DEF Released, Bytes
  <2>17. ASSUME NEW k \in {5, 7}, a.responses[k][1] # p.responses[k][1]
         PROVE  SetsNone(e) /\ a.responses[k][1] = Released
    <3>1. k \in 0 .. 15 /\ 1 \in 0 .. 17
      OBVIOUS
    <3>2. a.responses[k][1] = IF k = c /\ 1 = 1 THEN Released ELSE p.responses[k][1]
      BY <2>7, <3>1
    <3>3. k = c /\ a.responses[k][1] = Released
      BY <2>17, <3>2
    <3>4. e[2] \in PadCommands /\ Len(e) > 1
      BY <1>5, LongEnough
    <3>5. c = e[2] % 16
      BY <1>5 DEF c, CurrentRow
    <3>6. e[2] \in {QUERY_MODEL, QUERY_COMB}
      BY <3>3, <3>4, <3>5, CommandRows DEF PadCommands
    <3> QED BY <3>3, <3>4, <3>6 DEF SetsNone, Commands
  <2>18. CurrentRow(a) = e[2] % 16 /\ n - 4 = 1
    BY <1>5, <2>1, <2>6 DEF c, CurrentRow, n
  <2>19. Reads(p, [pad |-> a, reply |-> a.responses[CurrentRow(a)][n - 4]], m, e, i + 1)
    BY <2>1, <2>17, <2>18 DEF Reads
  <2> QED BY <2>2, <2>9, <2>10, <2>13, <2>14, <2>15, <2>16, <2>19
<1>7. CASE p.custom_response # n
  <2>1. WriteByte(p, byte) = [pad |-> q, reply |-> q.responses[CurrentRow(q)][n - 4]]
    <3>1. LET r == [p EXCEPT !.written = n]
          IN WriteByte(p, byte) = [pad |-> r, reply |-> r.responses[CurrentRow(r)][n - 4]]
      <4> HIDE DEF n
      <4> QED BY <1>2, <1>7, ListedByte, Zenon
    <3> QED BY <3>1 DEF q
  <2> HIDE DEF n
  <2>2. PadOK(q)
    BY <1>1, <1>3 DEF PadOK
  <2>3. CurrentRow(q) = c
    BY <1>3 DEF CurrentRow
  <2> HIDE DEF c
  <2>4. ~ (i = 4 /\ p.custom_response = 5)
    BY <1>2, <1>7
  <2>5. \A k \in i - 3 .. 5 : Expected(m, e, k) \in {Whatever, p.responses[c][k]}
    BY <1>5, <2>4 DEF RowAnswers, c
  <2>6. RowAnswers(q, m, e, i + 1)
    <3>1. \A k \in (i + 1) - 3 .. 5 : k \in i - 3 .. 5
      OBVIOUS
    <3>2. i + 1 # 4
      OBVIOUS
    <3> QED BY <1>3, <2>3, <2>5, <3>1, <3>2 DEF RowAnswers
  <2>7. Answering(q, m, e, i + 1)
    BY <1>3, <1>5, <2>6 DEF Answering, ModesAre
  <2>8. Expected(m, e, i - 3) \in {Whatever, q.responses[CurrentRow(q)][n - 4]}
    <3>1. i - 3 \in i - 3 .. 5 /\ n - 4 = i - 3
      BY <1>2
    <3> QED BY <1>3, <2>3, <2>5, <3>1
  <2>9. q.responses[CurrentRow(q)][n - 4] \in Bytes
    <3>1. n - 4 \in 0 .. 17
      BY <1>2
    <3> QED BY <2>2, <3>1, RowByte
  <2>10. CurrentRow(q) = e[2] % 16
    BY <1>3, <1>5 DEF CurrentRow
  <2>11. i + 1 = 5 => n - 4 = 1
    BY <1>2
  <2>12. Reads(p, [pad |-> q, reply |-> q.responses[CurrentRow(q)][n - 4]], m, e, i + 1)
    BY <1>3, <2>10, <2>11 DEF Reads
  <2> QED BY <1>2, <1>3, <2>1, <2>2, <2>7, <2>8, <2>9, <2>12
<1> QED BY <1>6, <1>7

-----------------------------------------------------------------------------
\* The driver's steps.

\* The data of an answer are six numbers.
LEMMA DataSeq ==
  ASSUME NEW m \in Modes, NEW e \in Seq(Bytes), Lawful(m, e), e[1] = Controller
  PROVE  KnownData(m, e[2], e[4]) \in Seq(Int) /\ Len(KnownData(m, e[2], e[4])) = 6
<1> DEFINE cmd == e[2]
           operand == e[4]
           data == KnownData(m, cmd, operand)
<1>1. Len(e) \in 4 .. 9 /\ cmd \in PadCommands /\ (cmd = QUERY_ACT => operand \in {0, 1})
  <2>1. Controller # MemCard
    BY DEF Controller, MemCard
  <2> QED BY <2>1 DEF Lawful, Allowed
<1>2. operand \in Bytes
  BY <1>1
<1>3. m.mode \in Int
  BY DEF Modes
<1> HIDE DEF cmd, operand
<1>4. CASE cmd = READ_DATA \/ (cmd = CONFIG_MODE /\ ~m.config_mode)
  <2>1. data = <<255, 255, 0, 0, 0, 0>>
    BY <1>1, <1>4, DataIs
  <2> HIDE DEF data
  <2> QED BY <2>1 DEF data, cmd, operand
<1>5. CASE (cmd = CONFIG_MODE /\ m.config_mode) \/ cmd = SET_MAIN_MODE
  <2>1. data = <<0, 0, 0, 0, 0, 0>>
    BY <1>1, <1>5, DataIs
  <2> HIDE DEF data
  <2> QED BY <2>1 DEF data, cmd, operand
<1>6. CASE cmd = QUERY_MODEL
  <2>1. data = <<1, Whatever, m.mode, 2, 1, 0>>
    BY <1>1, <1>6, DataIs
  <2> HIDE DEF data
  <2>2. PICK mode \in Int : mode = m.mode
    BY <1>3
  <2> QED BY <2>1, <2>2 DEF data, cmd, operand, Whatever
<1>7. CASE cmd = QUERY_ACT
  <2>1. data = Constants(operand)
    BY <1>1, <1>7, DataIs
  <2> HIDE DEF data
  <2>2. Constants(operand) \in Seq(Int) /\ Len(Constants(operand)) = 6
    BY <1>1, <1>7 DEF Constants
  <2> QED BY <2>1, <2>2 DEF data, cmd, operand
<1>8. CASE cmd = QUERY_COMB
  <2>1. data = <<0, Whatever, 2, 0, 1, 0>>
    BY <1>1, <1>8, DataIs
  <2> HIDE DEF data
  <2> QED BY <2>1 DEF data, cmd, operand, Whatever
<1>9. CASE cmd = QUERY_MODE
  <2>1. data = <<0, 0, 0, (4 + operand * 3) % 256, 0, 0>>
    BY <1>1, <1>9, DataIs
  <2> HIDE DEF data
  <2>2. PICK code \in Int : code = (4 + operand * 3) % 256
    BY <1>2 DEF Bytes
  <2>3. data = <<0, 0, 0, code, 0, 0>>
    BY <2>1, <2>2
  <2>4. data \in Seq(Int) /\ Len(data) = 6
    BY <2>3
  <2> QED BY <2>4 DEF data, cmd, operand
<1> QED BY <1>1, <1>4, <1>5, <1>6, <1>7, <1>8, <1>9 DEF PadCommands

\* The replies to an exchange, byte by byte.
LEMMA ListingIs ==
  ASSUME NEW m \in Modes, NEW e \in Seq(Bytes), Lawful(m, e), NEW i \in 1 .. Len(e),
         NEW data, e[1] = Controller => data \in Seq(Int) /\ Len(data) = 6
  PROVE  /\ e[1] = MemCard => Listing(m, e, data)[i] = 255
         /\ e[1] = Controller =>
              /\ i = 1 => Listing(m, e, data)[i] = 255
              /\ i = 2 => Listing(m, e, data)[i] = Header(m, e[2])
              /\ i = 3 => Listing(m, e, data)[i] = 90
              /\ i >= 4 => i \in 4 .. 9 /\ Listing(m, e, data)[i] = data[i - 3]
<1>1. CASE e[1] = MemCard
  <2>1. Listing(m, e, data) = [k \in DOMAIN e |-> 255] /\ DOMAIN e = 1 .. Len(e)
    BY <1>1 DEF Listing
  <2>2. Controller # MemCard
    BY DEF Controller, MemCard
  <2> QED BY <1>1, <2>1, <2>2
<1>2. CASE e[1] = Controller
  <2> DEFINE head == <<255, Header(m, e[2]), 90>>
  <2>1. e[1] # MemCard /\ Len(e) \in 4 .. 9
    <3>1. Controller # MemCard
      BY DEF Controller, MemCard
    <3> QED BY <1>2, <3>1 DEF Lawful
  <2>2. data \in Seq(Int) /\ Len(data) = 6
    BY <1>2
  <2>4. Listing(m, e, data) = SubSeq(head \o data, 1, Len(e))
    BY <2>1 DEF Listing
  <2>5. Header(m, e[2]) \in Int
    BY DEF Header
  <2>6. /\ head \in Seq(Int) /\ Len(head) = 3
        /\ head[1] = 255 /\ head[2] = Header(m, e[2]) /\ head[3] = 90
    BY <2>5
  <2> HIDE DEF head
  <2> DEFINE whole == head \o data
  <2>7. /\ whole \in Seq(Int) /\ Len(whole) = 9
        /\ \A k \in 1 .. 9 : whole[k] = IF k <= 3 THEN head[k] ELSE data[k - 3]
    <3>1. /\ whole \in Seq(Int) /\ Len(whole) = Len(head) + Len(data)
          /\ \A k \in 1 .. Len(head) + Len(data) :
               whole[k] = IF k <= Len(head) THEN head[k] ELSE data[k - Len(head)]
      <4>1. head \in Seq(Int) /\ data \in Seq(Int)
        BY <2>2, <2>6
      <4> QED BY <4>1, ConcatProperties, Zenon
    <3>2. Len(head) + Len(data) = 9 /\ Len(head) = 3
      BY <2>2, <2>6
    <3> HIDE DEF whole
    <3> QED BY <3>1, <3>2
  <2>8. Listing(m, e, data) = SubSeq(whole, 1, Len(e))
    BY <2>4
  <2> HIDE DEF whole
  <2>9. i \in 1 .. 9 /\ Listing(m, e, data)[i] = whole[i]
    <3>1. \A k \in 1 .. Len(e) : SubSeq(whole, 1, Len(e))[k] = whole[k]
      BY <2>1, <2>7
    <3>2. i \in 1 .. 9
      <4>1. PICK n \in 4 .. 9 : n = Len(e)
        BY <2>1
      <4>2. i \in 1 .. n
        BY <4>1
      <4> QED BY <4>2
    <3>3. SubSeq(whole, 1, Len(e))[i] = whole[i]
      BY <3>1
    <3> QED BY <2>8, <3>2, <3>3
  <2>10. i >= 4 => whole[i] = data[i - 3]
    BY <2>7, <2>9
  <2> QED BY <2>1, <2>6, <2>7, <2>9, <2>10
<1>3. e[1] \in {Controller, MemCard}
  BY DEF Lawful
<1> QED BY <1>1, <1>2, <1>3

\* What is known of the replies from the exchange alone.
LEMMA KnownRepliesIs ==
  ASSUME NEW m \in Modes, NEW e \in Seq(Bytes), Lawful(m, e), NEW i \in 1 .. Len(e)
  PROVE  /\ e[1] = MemCard => KnownReplies(m, e)[i] = 255
         /\ e[1] = Controller =>
              /\ i = 1 => KnownReplies(m, e)[i] = 255
              /\ i = 2 => KnownReplies(m, e)[i] = Header(m, e[2])
              /\ i = 3 => KnownReplies(m, e)[i] = 90
              /\ i >= 4 => KnownReplies(m, e)[i] = Expected(m, e, i - 4)
<1> DEFINE data == KnownData(m, e[2], e[4])
<1>1. e[1] = Controller => data \in Seq(Int) /\ Len(data) = 6
  BY DataSeq
<1>2. KnownReplies(m, e) = Listing(m, e, data)
  BY DEF KnownReplies
<1>3. Expected(m, e, i - 4) = data[(i - 4) + 1]
  BY DEF Expected
<1> HIDE DEF data
<1>4. (i - 4) + 1 = i - 3
  OBVIOUS
<1>5. /\ e[1] = MemCard => Listing(m, e, data)[i] = 255
      /\ e[1] = Controller =>
           /\ i = 1 => Listing(m, e, data)[i] = 255
           /\ i = 2 => Listing(m, e, data)[i] = Header(m, e[2])
           /\ i = 3 => Listing(m, e, data)[i] = 90
           /\ i >= 4 => i \in 4 .. 9 /\ Listing(m, e, data)[i] = data[i - 3]
  BY <1>1, ListingIs
<1> QED BY <1>2, <1>3, <1>4, <1>5

\* What is known of the data is the data, and where nothing is known it is byte 2 of the
\* tables of QUERY_MODEL and QUERY_COMB.
LEMMA KnownAgrees ==
  ASSUME NEW m \in Modes, NEW cmd \in PadCommands, NEW operand \in Bytes,
         cmd = QUERY_ACT => operand \in {0, 1}
  PROVE  /\ DataOf(m, cmd, operand) \in Seq(Int) /\ Len(DataOf(m, cmd, operand)) = 6
         /\ cmd = QUERY_MODEL => DataOf(m, cmd, operand)[2] = 2
         /\ cmd = QUERY_COMB  => DataOf(m, cmd, operand)[2] = 0
         /\ \A k \in 1 .. 6 :
              \/ cmd \in {QUERY_MODEL, QUERY_COMB} /\ k = 2
              \/ /\ KnownData(m, cmd, operand)[k] = DataOf(m, cmd, operand)[k]
                 /\ KnownData(m, cmd, operand)[k] # Whatever
<1> DEFINE data == DataOf(m, cmd, operand)
           known == KnownData(m, cmd, operand)
<1>1. QUERY_MODEL # QUERY_COMB
  BY DEF QUERY_MODEL, QUERY_COMB
<1> HIDE DEF data, known
<1>2. CASE cmd = READ_DATA \/ (cmd = CONFIG_MODE /\ ~m.config_mode)
  <2>1. known = <<255, 255, 0, 0, 0, 0>> /\ data = known /\ cmd \notin {QUERY_MODEL, QUERY_COMB}
    BY <1>2, DataIs DEF data, known, READ_DATA, CONFIG_MODE, QUERY_MODEL, QUERY_COMB
  <2>2. data \in Seq(Int) /\ Len(data) = 6 /\ \A k \in 1 .. 6 : known[k] # -1
    BY <2>1
  <2> QED BY <2>1, <2>2 DEF data, known, Whatever
<1>3. CASE (cmd = CONFIG_MODE /\ m.config_mode) \/ cmd = SET_MAIN_MODE
  <2>1. known = <<0, 0, 0, 0, 0, 0>> /\ data = known /\ cmd \notin {QUERY_MODEL, QUERY_COMB}
    BY <1>3, DataIs DEF data, known, CONFIG_MODE, SET_MAIN_MODE, QUERY_MODEL, QUERY_COMB
  <2>2. data \in Seq(Int) /\ Len(data) = 6 /\ \A k \in 1 .. 6 : known[k] # -1
    BY <2>1
  <2> QED BY <2>1, <2>2 DEF data, known, Whatever
<1>4. CASE cmd = QUERY_MODEL
  <2>1. PICK mode \in {0, 1} : mode = m.mode
    BY DEF Modes
  <2>2. known = <<1, -1, mode, 2, 1, 0>> /\ data = <<1, 2, mode, 2, 1, 0>>
    <3>1. /\ KnownData(m, cmd, operand) = <<1, Whatever, m.mode, 2, 1, 0>>
          /\ DataOf(m, cmd, operand) = <<1, 2, m.mode, 2, 1, 0>>
      BY <1>4, DataIs
    <3> QED BY <2>1, <3>1 DEF data, known, Whatever
  <2>3. data \in Seq(Int) /\ Len(data) = 6 /\ data[2] = 2
    BY <2>2
  <2>4. \A k \in 1 .. 6 : k = 2 \/ (known[k] = data[k] /\ known[k] # -1)
    BY <2>2
  <2> QED BY <1>1, <1>4, <2>3, <2>4 DEF data, known, Whatever
<1>5. CASE cmd = QUERY_ACT
  <2>1. known = Constants(operand) /\ data = known /\ cmd \notin {QUERY_MODEL, QUERY_COMB}
    BY <1>5, DataIs DEF data, known, QUERY_ACT, QUERY_MODEL, QUERY_COMB
  <2>2. data \in Seq(Int) /\ Len(data) = 6 /\ \A k \in 1 .. 6 : known[k] # -1
    BY <1>5, <2>1 DEF Constants
  <2> QED BY <2>1, <2>2 DEF data, known, Whatever
<1>6. CASE cmd = QUERY_COMB
  <2>1. known = <<0, -1, 2, 0, 1, 0>> /\ data = <<0, 0, 2, 0, 1, 0>>
    <3>1. /\ KnownData(m, cmd, operand) = <<0, Whatever, 2, 0, 1, 0>>
          /\ DataOf(m, cmd, operand) = <<0, 0, 2, 0, 1, 0>>
      BY <1>6, DataIs
    <3> QED BY <3>1 DEF data, known, Whatever
  <2>2. data \in Seq(Int) /\ Len(data) = 6 /\ data[2] = 0
    BY <2>1
  <2>3. \A k \in 1 .. 6 : k = 2 \/ (known[k] = data[k] /\ known[k] # -1)
    BY <2>1
  <2> QED BY <1>1, <1>6, <2>2, <2>3 DEF data, known, Whatever
<1>7. CASE cmd = QUERY_MODE
  <2>1. PICK code \in Nat : code = (4 + operand * 3) % 256
    BY DEF Bytes
  <2>2. known = <<0, 0, 0, code, 0, 0>> /\ data = known /\ cmd \notin {QUERY_MODEL, QUERY_COMB}
    BY <1>7, <2>1, DataIs DEF data, known, QUERY_MODE, QUERY_MODEL, QUERY_COMB
  <2>3. data \in Seq(Int) /\ Len(data) = 6 /\ \A k \in 1 .. 6 : known[k] # -1
    BY <2>2
  <2> QED BY <2>2, <2>3 DEF data, known, Whatever
<1> QED BY <1>2, <1>3, <1>4, <1>5, <1>6, <1>7 DEF PadCommands

\* A reply of the pad is the one the exchange asks for, or the released buttons that a
\* read has left at byte 2 of the table of QUERY_MODEL or QUERY_COMB.
LEMMA OwnReply ==
  ASSUME NEW m \in Modes, NEW e \in Seq(Bytes), Lawful(m, e), e[1] = Controller,
         NEW i \in 1 .. Len(e), NEW reply \in Bytes, KnownReplies(m, e)[i] \in {Whatever, reply},
         NEW clears, NEW rows, RowsKnown(clears, rows),
         SetsNone(e) /\ i = 5 => reply = rows[e[2] % 16][1]
  PROVE  \/ reply = RepliesTo(m, e)[i]
         \/ ~clears /\ SetsNone(e) /\ i = 5 /\ reply = Released
<1> DEFINE cmd == e[2]
           operand == e[4]
           data == DataOf(m, cmd, operand)
           known == KnownData(m, cmd, operand)
<1>1. cmd \in PadCommands /\ Commands(e) /\ Len(e) \in 4 .. 9 /\ (cmd = QUERY_ACT => operand \in {0, 1})
  <2>1. Controller # MemCard
    BY DEF Controller, MemCard
  <2>2. cmd \in PadCommands /\ Commands(e) /\ Len(e) \in 4 .. 9
    BY LongEnough
  <2> QED BY <2>1, <2>2 DEF Lawful
<1>2. operand \in Bytes
  <2>1. PICK n \in 4 .. 9 : n = Len(e)
    BY <1>1
  <2>2. 4 \in 1 .. Len(e)
    BY <2>1
  <2> QED BY <2>2
<1>3. RepliesTo(m, e) = Listing(m, e, data) /\ KnownReplies(m, e) = Listing(m, e, known)
  BY DEF RepliesTo, KnownReplies, Listing
<1>4. known \in Seq(Int) /\ Len(known) = 6
  BY DataSeq
<1> HIDE DEF cmd, operand
<1>5. /\ data \in Seq(Int) /\ Len(data) = 6
      /\ cmd = QUERY_MODEL => data[2] = 2
      /\ cmd = QUERY_COMB  => data[2] = 0
      /\ \A k \in 1 .. 6 : \/ cmd \in {QUERY_MODEL, QUERY_COMB} /\ k = 2
                           \/ known[k] = data[k] /\ known[k] # Whatever
  BY <1>1, <1>2, KnownAgrees
<1> HIDE DEF data, known
<1>6. /\ i = 1 => Listing(m, e, data)[i] = 255
      /\ i = 2 => Listing(m, e, data)[i] = Header(m, e[2])
      /\ i = 3 => Listing(m, e, data)[i] = 90
      /\ i >= 4 => i \in 4 .. 9 /\ Listing(m, e, data)[i] = data[i - 3]
  BY <1>5, ListingIs
<1>7. /\ i = 1 => Listing(m, e, known)[i] = 255
      /\ i = 2 => Listing(m, e, known)[i] = Header(m, e[2])
      /\ i = 3 => Listing(m, e, known)[i] = 90
      /\ i >= 4 => i \in 4 .. 9 /\ Listing(m, e, known)[i] = known[i - 3]
  BY <1>4, ListingIs
<1>8. CASE i \in {1, 2, 3}
  <2>1. Listing(m, e, known)[i] = Listing(m, e, data)[i] /\ Listing(m, e, known)[i] # Whatever
    BY <1>6, <1>7, <1>8 DEF Header, Whatever
  <2> QED BY <1>3, <2>1
<1>9. CASE i >= 4 /\ ~ (SetsNone(e) /\ i = 5)
  <2>1. PICK k \in 1 .. 6 : k = i - 3
    BY <1>6, <1>9
  <2>2. ~ (cmd \in {QUERY_MODEL, QUERY_COMB} /\ k = 2)
    BY <1>1, <1>9, <2>1 DEF SetsNone, cmd
  <2>3. known[k] = data[k] /\ known[k] # Whatever
    BY <1>5, <2>2
  <2> QED BY <1>3, <1>6, <1>7, <1>9, <2>1, <2>3
<1>10. CASE SetsNone(e) /\ i = 5
  <2>1. reply = rows[cmd % 16][1] /\ cmd \in {QUERY_MODEL, QUERY_COMB}
    BY <1>10 DEF SetsNone, cmd
  <2>2. RepliesTo(m, e)[i] = data[2]
    BY <1>3, <1>6, <1>10
  <2>3. CASE cmd = QUERY_MODEL
    <3>1. cmd % 16 = 5
      BY <1>1, <2>3, CommandRows
    <3> QED BY <1>5, <1>10, <2>1, <2>2, <2>3, <3>1 DEF RowsKnown
  <2>4. CASE cmd = QUERY_COMB
    <3>1. cmd % 16 = 7
      BY <1>1, <2>4, CommandRows
    <3> QED BY <1>5, <1>10, <2>1, <2>2, <2>4, <3>1 DEF RowsKnown
  <2> QED BY <2>1, <2>3, <2>4
<1> QED BY <1>8, <1>9, <1>10

\* The bytes of an exchange in those of its transfer.
LEMMA ExchangeIs ==
  ASSUME NEW t, Described(t), NEW j \in 1 .. Count(t)
  PROVE  /\ Count(t) \in Nat /\ t.starts[j] \in Nat /\ t.starts[j + 1] \in Nat
         /\ Size(t, j) \in 0 .. 511 /\ t.starts[j + 1] = t.starts[j] + Size(t, j)
         /\ t.starts[j + 1] <= Len(t.bytes) /\ t.bytes \in Seq(Bytes)
         /\ Exchange(t, j) \in Seq(Bytes) /\ Len(Exchange(t, j)) = Size(t, j)
         /\ \A i \in 1 .. Size(t, j) : Exchange(t, j)[i] = t.bytes[t.starts[j] + i]
<1> DEFINE a == t.starts[j]
           b == t.starts[j + 1]
           c == t.starts[Count(t) + 1]
<1>1. t.starts \in Seq(Nat) /\ Count(t) \in 1 .. Slots /\ t.bytes \in Seq(Bytes) /\ Slots \in Nat
  BY Sio2ScriptsAssumption DEF Described, Bytes
<1>2. Len(t.starts) \in Nat /\ Len(t.starts) = Count(t) + 1 /\ j + 1 \in 1 .. Len(t.starts)
      /\ j \in 1 .. Len(t.starts) /\ Count(t) \in Nat
  BY <1>1 DEF Count
<1>3. a \in Nat /\ b \in Nat /\ c \in Nat
  BY <1>1, <1>2
<1>4. a <= b /\ b <= c
  BY <1>2 DEF Described
<1>5. Size(t, j) = b - a /\ Size(t, j) <= 511
  BY DEF Size, Described
<1>6. c <= Len(t.bytes) /\ Len(t.bytes) \in Nat
  <2>1. Len(t.bytes) = c + (IF Size(t, Count(t)) = 0 THEN 1 ELSE 0)
    BY DEF Described
  <2> QED BY <1>3, <2>1
<1>7. Exchange(t, j) = SubSeq(t.bytes, a + 1, b)
  BY DEF Exchange
<1> HIDE DEF a, b, c
<1>8. \A i \in a + 1 .. b : t.bytes[i] \in Bytes
  BY <1>1, <1>3, <1>4, <1>6
<1>9. /\ SubSeq(t.bytes, a + 1, b) \in Seq(Bytes)
      /\ Len(SubSeq(t.bytes, a + 1, b)) = IF a + 1 <= b THEN b - (a + 1) + 1 ELSE 0
      /\ \A i \in 1 .. b - (a + 1) + 1 : SubSeq(t.bytes, a + 1, b)[i] = t.bytes[(a + 1) + i - 1]
  <2>1. a + 1 \in Int /\ b \in Int
    BY <1>3
  <2> QED BY <1>8, <2>1, SubSeqProperties
<1>10. Len(Exchange(t, j)) = Size(t, j)
  BY <1>3, <1>4, <1>5, <1>7, <1>9
<1>11. \A i \in 1 .. Size(t, j) : Exchange(t, j)[i] = t.bytes[a + i]
  <2> SUFFICES ASSUME NEW i \in 1 .. Size(t, j)
               PROVE  Exchange(t, j)[i] = t.bytes[a + i]
    OBVIOUS
  <2>1. i \in 1 .. b - (a + 1) + 1 /\ (a + 1) + i - 1 = a + i
    BY <1>3, <1>4, <1>5
  <2> QED BY <1>7, <1>9, <2>1
<1>12. b = a + Size(t, j) /\ Size(t, j) \in 0 .. 511
  BY <1>3, <1>4, <1>5
<1>13. Exchange(t, j) \in Seq(Bytes) /\ b <= Len(t.bytes)
  BY <1>3, <1>4, <1>6, <1>7, <1>9
<1> QED BY <1>1, <1>2, <1>3, <1>10, <1>11, <1>12, <1>13 DEF a, b

\* What the driver knows of the transfer it is at.
LEMMA TransferIs ==
  ASSUME Sio2Types, ~Idle
  PROVE  /\ Described(Transfer) /\ turn \in 1 .. Len(Transfers) /\ Len(Transfers) \in Nat
         /\ script \in Sio2Scripts /\ script.legal \in BOOLEAN /\ ~sio2_halted
         /\ \A j \in 1 .. Count(Transfer) :
              IF Lawful(Transfer.modes[j], Exchange(Transfer, j))
              THEN Transfer.modes[j + 1] = Became(Transfer.modes[j], Exchange(Transfer, j))
              ELSE ~script.legal /\ Unlawful(Transfer.modes[j], Exchange(Transfer, j))
         /\ Repeatable(Transfer) =>
              \A i, j \in 1 .. Count(Transfer) :
                SetsResponse(Exchange(Transfer, i)) /\ SetsNone(Exchange(Transfer, j)) =>
                  \E h \in 1 .. j - 1 : SetsResponse(Exchange(Transfer, h))
<1>1. script \in Sio2Scripts /\ turn \in 1 .. Len(Transfers) + 1 /\ ~sio2_halted /\ ~ (turn > Len(Transfers))
  BY DEF Sio2Types, Idle
<1>2. /\ script.legal \in BOOLEAN /\ Len(Transfers) \in Nat
      /\ DOMAIN script.transfers = 1 .. Len(script.transfers)
  BY <1>1, Sio2ScriptsAssumption DEF Transfers
<1>3. turn \in 1 .. Len(Transfers)
  BY <1>1, <1>2
<1>4. turn \in DOMAIN script.transfers
  BY <1>2, <1>3 DEF Transfers
<1>5. LET t == script.transfers[turn]
      IN /\ Described(t)
         /\ \A j \in 1 .. Count(t) :
              IF Lawful(t.modes[j], Exchange(t, j))
              THEN t.modes[j + 1] = Became(t.modes[j], Exchange(t, j))
              ELSE ~script.legal /\ Unlawful(t.modes[j], Exchange(t, j))
         /\ Repeatable(t) =>
              \A i, j \in 1 .. Count(t) :
                SetsResponse(Exchange(t, i)) /\ SetsNone(Exchange(t, j)) =>
                  \E h \in 1 .. j - 1 : SetsResponse(Exchange(t, h))
  BY <1>1, <1>4, Sio2ScriptsAssumption
<1> QED BY <1>1, <1>2, <1>3, <1>5 DEF Transfer, Transfers

\* What the driver knows of chained reads in the transfer it is at.
LEMMA ChainedIs ==
  ASSUME Sio2Types, ~Idle, NEW j \in 1 .. Count(Transfer)
  PROVE  /\ Lawful(Transfer.modes[j], Exchange(Transfer, j)) =>
              (Transfer.chained[j + 1]
                <=> Chained(Transfer.modes[j], Transfer.chained[j], Exchange(Transfer, j)))
         /\ Clears(script) /\ SetsNone(Exchange(Transfer, j)) => ~Transfer.chained[j]
<1>1. script \in Sio2Scripts /\ turn \in DOMAIN script.transfers
  <2>1. script \in Sio2Scripts /\ turn \in 1 .. Len(Transfers)
    BY TransferIs
  <2> QED BY <2>1, Sio2ScriptsAssumption DEF Transfers
<1>2. LET t == script.transfers[turn]
      IN \A k \in 1 .. Count(t) :
           Lawful(t.modes[k], Exchange(t, k)) =>
             (t.chained[k + 1] <=> Chained(t.modes[k], t.chained[k], Exchange(t, k)))
  BY <1>1, Sio2ChainedAssumption
<1>3. Clears(script) => \A k \in 1 .. Count(script.transfers[turn]) :
        SetsNone(Exchange(script.transfers[turn], k)) => ~script.transfers[turn].chained[k]
  BY <1>1 DEF Clears
<1> QED BY <1>2, <1>3 DEF Transfer, Transfers

\* The transfer that follows finds the pad as this one leaves it, and the first one finds
\* it as it was reset.
LEMMA NextTransferIs ==
  ASSUME Sio2Types, ~Idle, turn < Len(Transfers)
  PROVE  /\ Described(Transfers[turn + 1])
         /\ Transfers[turn + 1].modes[1] = Transfer.modes[Count(Transfer) + 1]
         /\ Transfers[turn + 1].chained[1] <=> Transfer.chained[Count(Transfer) + 1]
<1>1. script \in Sio2Scripts /\ turn \in 1 .. Len(Transfers) /\ Len(Transfers) \in Nat
  BY TransferIs
<1>2. DOMAIN script.transfers = 1 .. Len(script.transfers)
  BY <1>1, Sio2ScriptsAssumption
<1>3. turn \in DOMAIN script.transfers /\ turn + 1 \in DOMAIN script.transfers
      /\ turn < Len(script.transfers)
  BY <1>1, <1>2 DEF Transfers
<1>4. Described(script.transfers[turn + 1])
  BY <1>1, <1>3, Sio2ScriptsAssumption
<1>5. script.transfers[turn + 1].modes[1]
        = script.transfers[turn].modes[Count(script.transfers[turn]) + 1]
  BY <1>1, <1>3, Sio2ScriptsAssumption
<1>6. script.transfers[turn + 1].chained[1]
        <=> script.transfers[turn].chained[Count(script.transfers[turn]) + 1]
  BY <1>1, <1>3, Sio2ChainedAssumption
<1> QED BY <1>4, <1>5, <1>6 DEF Transfer, Transfers

\* A byte is left to upload behind the last exchange only if that is described as empty,
\* and then it is never begun.
LEMMA NotBeyond ==
  ASSUME Sio2Inv, ~Idle, uploaded < Len(Transfer.bytes), Left = 0
  PROVE  Index < Count(Transfer) /\ Index \in Nat
<1> DEFINE n == Count(Transfer)
           s == Transfer.starts[n + 1]
<1>1. Described(Transfer) /\ Sio2Framed
  BY TransferIs DEF Sio2Inv
<1>2. n \in 1 .. Slots /\ Slots \in Nat /\ Transfer.starts \in Seq(Nat) /\ Len(Transfer.starts) \in Nat
  BY <1>1, Sio2ScriptsAssumption DEF Described
<1>3. n \in Nat /\ n >= 1 /\ Index \in 0 .. n
  BY <1>1, <1>2 DEF Sio2Framed
<1>4. s \in Nat
  <2>1. n + 1 \in 1 .. Len(Transfer.starts)
    BY <1>2, <1>3 DEF Count
  <2> QED BY <1>2, <2>1
<1>5. Len(Transfer.bytes) = s + (IF Size(Transfer, n) = 0 THEN 1 ELSE 0)
  BY <1>1 DEF Described
<1>6. uploaded = Transfer.starts[Index + 1] - Left
  BY <1>1 DEF Sio2Framed
<1>7. Index # 0 => Size(Transfer, Index) # 0
  BY <1>1 DEF Sio2Framed
<1>8. ASSUME Index = n PROVE FALSE
  <2>1. uploaded = s - 0
    BY <1>6, <1>8
  <2>2. Index # 0
    BY <1>3, <1>8
  <2>3. Size(Transfer, n) # 0
    BY <1>7, <1>8, <2>2
  <2> HIDE DEF s, n
  <2> QED BY <1>4, <1>5, <2>1, <2>3
<1> HIDE DEF n
<1> QED BY <1>3, <1>8 DEF n

\* Where the byte to upload belongs: it is the i-th one of the j-th exchange.
Uploads(j, i) ==
  /\ IF Starts THEN Index = j - 1 /\ i = 1 /\ Left = 0
     ELSE Index = j /\ Left # 0 /\ Done = i - 1 /\ i > 1
  /\ uploaded + 1 = Transfer.starts[j] + i
  /\ NextByte = Exchange(Transfer, j)[i] /\ Device = Exchange(Transfer, j)[1]
  /\ Counted = [index |-> j, size |-> Size(Transfer, j) - i]

\* The byte to upload has a place in the exchange that the driver is in.
LEMMA UploadAt ==
  ASSUME Sio2Inv, ~Idle, stage = "upload", uploaded < Len(Transfer.bytes), Starts => Params # 0
  PROVE  \E j \in 1 .. Count(Transfer) : \E i \in 1 .. Size(Transfer, j) : Uploads(j, i)
<1>1. Described(Transfer) /\ Sio2Framed /\ Sio2Types
  BY TransferIs DEF Sio2Inv
<1>2. Begun /\ Index = command.index /\ Left = command.size
  BY DEF Begun, Index, Left
<1>3. command \in [index : 0 .. Slots, size : 0 .. 511] /\ uploaded \in Nat
  BY <1>1 DEF Sio2Types
<1>4. /\ Index \in 0 .. Count(Transfer) /\ Left \in 0 .. 511
      /\ uploaded = Transfer.starts[Index + 1] - Left
      /\ Left # 0 => Index # 0 /\ Left < Size(Transfer, Index) /\ current_device = Current[1]
      /\ \A k \in 1 .. Count(Transfer) :
           send3[k - 1] = IF Size(Transfer, k) = 0 THEN 0 ELSE 256 * Size(Transfer, k) + 64
  BY <1>1, <1>2 DEF Sio2Framed
<1>5. Count(Transfer) \in Nat
  <2>1. Count(Transfer) \in 1 .. Slots /\ Slots \in Nat
    BY <1>1, Sio2ScriptsAssumption DEF Described
  <2> QED BY <2>1
<1>6. CASE Starts
  <2> DEFINE j == Index + 1
             sz == Size(Transfer, j)
  <2>1. Left = 0
    BY <1>2, <1>6 DEF Starts
  <2>2. Index < Count(Transfer) /\ Index \in Nat
    BY <2>1, NotBeyond
  <2>3. j \in 1 .. Count(Transfer) /\ j - 1 = Index
    BY <1>5, <2>2
  <2>4. /\ Transfer.starts[j] \in Nat /\ sz \in 0 .. 511
        /\ \A i \in 1 .. sz : Exchange(Transfer, j)[i] = Transfer.bytes[Transfer.starts[j] + i]
    <3>1. PICK h : h = j
      OBVIOUS
    <3>2. h \in 1 .. Count(Transfer)
      BY <2>3, <3>1
    <3>3. /\ Transfer.starts[h] \in Nat /\ Size(Transfer, h) \in 0 .. 511
          /\ \A i \in 1 .. Size(Transfer, h) :
               Exchange(Transfer, h)[i] = Transfer.bytes[Transfer.starts[h] + i]
      BY <1>1, <3>2, ExchangeIs
    <3> QED BY <3>1, <3>3, Zenon
  <2>5. Params = IF sz = 0 THEN 0 ELSE 256 * sz + 64
    <3>1. send3[j - 1] = IF sz = 0 THEN 0 ELSE 256 * sz + 64
      BY <1>4, <2>3
    <3> QED BY <1>2, <2>3, <3>1 DEF Params
  <2>6. uploaded = Transfer.starts[j]
    BY <1>4, <2>1, <2>4
  <2> HIDE DEF j, sz
  <2>7. sz \in 1 .. 511
    BY <1>6, <2>4, <2>5
  <2>8. ((Params \div 256) % 512) - 1 = sz - 1
    <3>1. Params = 256 * sz + 64
      BY <2>5, <2>7
    <3>2. (256 * sz + 64) \div 256 = sz /\ sz % 512 = sz
      BY <2>7
    <3> QED BY <3>1, <3>2
  <2>9. Counted = [index |-> j, size |-> sz - 1]
    <3>1. command.index + 1 = j
      BY <1>2 DEF j
    <3> QED BY <1>6, <2>8, <3>1 DEF Counted
  <2>10. 1 \in 1 .. sz /\ Exchange(Transfer, j)[1] = Transfer.bytes[uploaded + 1]
    BY <2>4, <2>6, <2>7
  <2>11. NextByte = Exchange(Transfer, j)[1] /\ Device = Exchange(Transfer, j)[1]
    BY <1>6, <2>10 DEF NextByte, Device
  <2>12. Uploads(j, 1)
    <3>1. uploaded + 1 = Transfer.starts[j] + 1
      BY <2>6
    <3>2. Index = j - 1
      BY <2>3
    <3> QED BY <1>6, <2>1, <2>9, <2>11, <3>1, <3>2 DEF Uploads, sz
  <2> QED BY <2>3, <2>10, <2>12 DEF sz
<1>7. CASE ~Starts
  <2> DEFINE j == Index
             sz == Size(Transfer, j)
             i == sz - Left + 1
  <2>1. Left # 0 /\ Left \in 1 .. 511
    BY <1>2, <1>4, <1>7 DEF Starts
  <2>2. j \in 1 .. Count(Transfer) /\ Left < sz /\ current_device = Exchange(Transfer, j)[1]
    BY <1>4, <1>5, <2>1 DEF Current
  <2>3. /\ Transfer.starts[j] \in Nat /\ sz \in 0 .. 511
        /\ Transfer.starts[j + 1] = Transfer.starts[j] + sz
        /\ \A k \in 1 .. sz : Exchange(Transfer, j)[k] = Transfer.bytes[Transfer.starts[j] + k]
    BY <1>1, <2>2, ExchangeIs
  <2>4. uploaded = Transfer.starts[j + 1] - Left
    BY <1>4
  <2> DEFINE L == Left
             a == Transfer.starts[j]
  <2>5. Counted = [index |-> j, size |-> L - 1]
    <3>1. Counted = [command EXCEPT !.size = @ - 1]
      BY <1>7 DEF Counted
    <3> QED BY <1>2, <1>3, <3>1
  <2>6. L \in 1 .. 511 /\ L < sz /\ a \in Nat /\ sz \in 0 .. 511 /\ uploaded = (a + sz) - L
    BY <2>1, <2>2, <2>3, <2>4
  <2>7. Done = uploaded - a
    BY DEF Done
  <2> HIDE DEF sz, L, a
  <2>8. i \in 1 .. sz /\ i > 1 /\ uploaded + 1 = a + i /\ sz - i = L - 1 /\ Done = i - 1
    BY <2>6, <2>7 DEF L
  <2>9. NextByte = Exchange(Transfer, j)[i]
    <3>1. Exchange(Transfer, j)[i] = Transfer.bytes[a + i]
      BY <2>3, <2>8 DEF sz, a
    <3> QED BY <2>8, <3>1 DEF NextByte
  <2>10. Device = Exchange(Transfer, j)[1]
    BY <1>7, <2>2 DEF Device
  <2> HIDE DEF i, j
  <2>11. Uploads(j, i)
    <3>1. Index = j
      BY DEF j
    <3> QED BY <1>7, <2>1, <2>5, <2>8, <2>9, <2>10, <3>1 DEF Uploads, sz, a
  <2> QED BY <2>2, <2>8, <2>11 DEF sz
<1> QED BY <1>6, <1>7

\* The modes an exchange is described to find are modes of the pad.
LEMMA ModesOf ==
  ASSUME NEW t, Described(t), NEW j \in 1 .. Count(t) + 1
  PROVE  t.modes[j] \in Modes
<1>1. t.modes \in Seq(Modes) /\ Len(t.modes) = Count(t) + 1
  BY DEF Described, Modes
<1> QED BY <1>1

\* An exchange with the pad that goes beyond its first byte has a command; if the pad takes
\* it, the exchange is a lawful one.
LEMMA LawfulWhenAllowed ==
  ASSUME Sio2Types, ~Idle, NEW j \in 1 .. Count(Transfer), NEW m, m = Transfer.modes[j],
         NEW e, e = Exchange(Transfer, j), e[1] = Controller, Size(Transfer, j) >= 1
  PROVE  /\ Size(Transfer, j) > 1
         /\ Allowed(m, e[2]) => Lawful(m, e)
         /\ script.legal => Lawful(m, e)
<1>1. Described(Transfer) /\ (IF Lawful(m, e) THEN TRUE ELSE ~script.legal /\ Unlawful(m, e))
  BY TransferIs
<1>2. e \in Seq(Bytes) /\ Len(e) = Size(Transfer, j) /\ Len(e) \in Nat
  BY <1>1, ExchangeIs
<1>3. Controller # MemCard
  BY DEF Controller, MemCard
<1>4. ASSUME Lawful(m, e) PROVE Len(e) > 1
  <2>1. Len(e) \in 4 .. 9
    BY <1>3, <1>4 DEF Lawful
  <2> QED BY <2>1, SMTT(40)
<1>5. Unlawful(m, e) => Commands(e) /\ ~Allowed(m, e[2])
  <2>1. e # <<>>
    BY <1>2
  <2> QED BY <1>3, <2>1 DEF Unlawful
<1>6. Commands(e) => Len(e) > 1
  BY DEF Commands
<1> QED BY <1>1, <1>2, <1>4, <1>5, <1>6

\* A pad that waits for byte 4 has been left by a transfer that is begun again: the command
\* it meets first has a response of its own.
LEMMA LeftOverEnds ==
  ASSUME Sio2Types, ~Idle, NEW j \in 1 .. Count(Transfer), NEW e, e = Exchange(Transfer, j),
         Commands(e), LeftOver(Transfer, j - 1)
  PROVE  SetsResponse(e)
<1>1. Repeatable(Transfer) =>
        \A i, k \in 1 .. Count(Transfer) :
          SetsResponse(Exchange(Transfer, i)) /\ SetsNone(Exchange(Transfer, k)) =>
            \E h \in 1 .. k - 1 : SetsResponse(Exchange(Transfer, h))
  BY TransferIs
<1>2. PICK i \in 1 .. Count(Transfer) : SetsResponse(Exchange(Transfer, i))
  BY DEF LeftOver
<1>3. ASSUME ~SetsResponse(e) PROVE FALSE
  <2>1. SetsNone(e)
    BY <1>3 DEF SetsResponse, SetsNone
  <2>2. PICK h \in 1 .. j - 1 : SetsResponse(Exchange(Transfer, h))
    BY <1>1, <1>2, <2>1 DEF LeftOver
  <2>3. ~Commands(Exchange(Transfer, h))
    BY DEF LeftOver
  <2> QED BY <2>2, <2>3 DEF SetsResponse
<1> QED BY <1>3

\* The pad behind the i-th byte of an exchange with it, and its reply.
PadServes(w, m, e, i) ==
  /\ PadOK(w.pad) /\ w.reply \in Bytes
  /\ IF i = Len(e) THEN Lawful(m, e) /\ ModesAre(w.pad, Became(m, e)) /\ w.pad.custom_response # 4
     ELSE InExchange(w.pad, m, e, i)
  /\ Lawful(m, e) => KnownReplies(m, e)[i] \in {Whatever, w.reply}

\* The byte that names the pad starts an exchange with it, whatever the last one left.
LEMMA PadStarts ==
  ASSUME Sio2Inv, ~Idle, NEW j \in 1 .. Count(Transfer), Size(Transfer, j) >= 1, Starts,
         Uploads(j, 1), NEW m, m = Transfer.modes[j], NEW e, e = Exchange(Transfer, j), e[1] = Controller
  PROVE  /\ PadServes(WriteByte(Restarted, NextByte), m, e, 1)
         /\ Reads(pad, WriteByte(Restarted, NextByte), m, e, 1)
<1>1. Described(Transfer) /\ Sio2Types /\ Sio2Follows
  BY TransferIs DEF Sio2Inv
<1>2. e \in Seq(Bytes) /\ Len(e) = Size(Transfer, j) /\ Len(e) \in Nat
  BY <1>1, ExchangeIs
<1>3. m \in Modes /\ Len(e) > 1
  <2>1. Count(Transfer) \in Nat
    BY <1>1, ExchangeIs
  <2>2. j \in 1 .. Count(Transfer) + 1
    BY <2>1
  <2> QED BY <1>1, <1>2, <2>2, ModesOf, LawfulWhenAllowed
<1>4. Left = 0 /\ Index = j - 1 /\ NextByte = e[1]
  BY DEF Uploads
<1>5. Boundary(pad, Transfer, j - 1)
  BY <1>1, <1>4 DEF Sio2Follows
<1>6. ModesAre(pad, m)
  <2>1. (j - 1) + 1 = j
    OBVIOUS
  <2> QED BY <1>5, <2>1 DEF Boundary
<1>7. pad.custom_response = 4 => SetsResponse(e)
  <2>1. Commands(e)
    BY <1>3 DEF Commands
  <2> QED BY <1>1, <1>5, <2>1, LeftOverEnds DEF Boundary
<1>8. PadOK(pad) /\ pad \in PadType
  BY <1>1 DEF Sio2Types, PadOK
<1>9. Restarted = [pad EXCEPT !.written = 0]
  BY DEF Restarted
<1> DEFINE w == WriteByte([pad EXCEPT !.written = 0], NextByte)
           q == [pad EXCEPT !.written = 1]
<1>10. NextByte \in Bytes
  BY <1>4 DEF Controller, Bytes
<1>11. w.pad = q /\ PadOK(w.pad) /\ w.reply = 255
  BY <1>8, <1>10, PadBegins
<1>12. q.written = 1 /\ q.mode = pad.mode /\ q.config_mode = pad.config_mode
       /\ q.custom_response = pad.custom_response /\ q.responses = pad.responses
  BY <1>8 DEF PadType
<1> HIDE DEF w, q
<1>13. InExchange(q, m, e, 1)
  <2>1. Named(q, m, e)
    BY <1>6, <1>7, <1>12 DEF Named, ModesAre
  <2> QED BY <1>12, <2>1 DEF InExchange
<1>14. Lawful(m, e) => KnownReplies(m, e)[1] = 255
  <2>1. 1 \in 1 .. Len(e)
    BY <1>2, <1>3
  <2> QED BY <1>2, <1>3, <2>1, KnownRepliesIs
<1>15. 1 # Len(e) /\ 255 \in Bytes
  <2>1. 255 \in Bytes
    BY DEF Bytes
  <2> QED BY <1>2, <1>3, <2>1
<1>16. PadServes(w, m, e, 1)
  BY <1>11, <1>13, <1>14, <1>15 DEF PadServes
<1>17. Reads(pad, w, m, e, 1)
  BY <1>11, <1>12 DEF Reads
<1> QED BY <1>9, <1>16, <1>17 DEF w

\* Any further byte of an exchange with the pad goes where its place in the exchange says.
LEMMA PadGoesOn ==
  ASSUME Sio2Inv, ~Idle, NEW j \in 1 .. Count(Transfer), NEW i \in 1 .. Size(Transfer, j), ~Starts,
         Uploads(j, i), NEW m, m = Transfer.modes[j], NEW e, e = Exchange(Transfer, j), e[1] = Controller,
         pad.written + 1 = 2 => Allowed(pad, NextByte)
  PROVE  PadServes(WriteByte(pad, NextByte), m, e, i) /\ Reads(pad, WriteByte(pad, NextByte), m, e, i)
<1>1. Described(Transfer) /\ Sio2Types /\ Sio2Follows
  BY TransferIs DEF Sio2Inv
<1>2. e \in Seq(Bytes) /\ Len(e) = Size(Transfer, j) /\ Len(e) \in Nat
  BY <1>1, ExchangeIs
<1>3. m \in Modes
  <2>1. Count(Transfer) \in Nat
    BY <1>1, ExchangeIs
  <2>2. j \in 1 .. Count(Transfer) + 1
    BY <2>1
  <2> QED BY <1>1, <2>2, ModesOf
<1>4. Left # 0 /\ Index = j /\ NextByte = e[i] /\ Done = i - 1 /\ i > 1
  BY DEF Uploads
<1>5. i \in 1 .. Len(e) /\ i \in Nat /\ e[i] \in Bytes
  BY <1>2
<1>6. InExchange(pad, m, e, i - 1)
  <2>1. Controller # MemCard
    BY DEF Controller, MemCard
  <2> QED BY <1>1, <1>4, <2>1 DEF Sio2Follows, Current
<1>7. pad.written = i - 1 /\ PadOK(pad)
  BY <1>1, <1>6 DEF InExchange, Sio2Types
<1>8. Lawful(m, e)
  <2>1. CASE i = 2
    <3>1. Allowed(pad, e[2])
      BY <1>4, <1>7, <2>1
    <3>2. ModesAre(pad, m)
      BY <1>6, <2>1 DEF InExchange, Named
    <3>3. Allowed(m, e[2])
      BY <3>1, <3>2 DEF Allowed, ModesAre
    <3>4. Size(Transfer, j) >= 1
      BY <1>2, <1>5
    <3> QED BY <1>1, <3>3, <3>4, LawfulWhenAllowed
  <2>2. CASE i - 1 \in {2, 3}
    BY <1>6, <2>2 DEF InExchange, Commanded
  <2>3. CASE i - 1 >= 4
    BY <1>6, <2>3 DEF InExchange, Answering
  <2> QED BY <1>4, <1>5, <2>1, <2>2, <2>3
<1>9. Len(e) \in 4 .. 9
  <2>1. Controller # MemCard
    BY DEF Controller, MemCard
  <2> QED BY <1>8, <2>1 DEF Lawful
<1> DEFINE w == WriteByte(pad, e[i])
<1>10. /\ i = 2 => KnownReplies(m, e)[i] = Header(m, e[2])
       /\ i = 3 => KnownReplies(m, e)[i] = 90
       /\ i >= 4 => KnownReplies(m, e)[i] = Expected(m, e, i - 4)
  BY <1>2, <1>3, <1>5, <1>8, KnownRepliesIs
<1>11. CASE i = 2
  <2>1. pad.written = 1 /\ Named(pad, m, e)
    BY <1>6, <1>7, <1>11 DEF InExchange
  <2>2. /\ PadOK(w.pad) /\ w.pad.written = 2 /\ Commanded(w.pad, m, e) /\ w.reply = Header(m, e[2])
        /\ Reads(pad, w, m, e, 2)
    BY <1>2, <1>3, <1>7, <1>8, <1>11, <2>1, PadCommanded
  <2> HIDE DEF w
  <2>3. InExchange(w.pad, m, e, 2)
    BY <2>2 DEF InExchange
  <2>4. w.reply \in Bytes
    BY <2>2 DEF Header, Bytes
  <2>5. 2 # Len(e)
    BY <1>9
  <2>6. PadServes(w, m, e, 2)
    BY <1>10, <1>11, <2>2, <2>3, <2>4, <2>5 DEF PadServes
  <2> QED BY <1>4, <1>11, <2>2, <2>6 DEF w
<1>12. CASE i = 3
  <2>1. pad.written = 2 /\ Commanded(pad, m, e)
    BY <1>6, <1>7, <1>12 DEF InExchange
  <2>2. /\ PadOK(w.pad) /\ w.pad.written = 3 /\ Commanded(w.pad, m, e) /\ w.reply = 90
        /\ Reads(pad, w, m, e, 3)
    BY <1>2, <1>3, <1>5, <1>7, <2>1, PadWaits
  <2> HIDE DEF w
  <2>3. InExchange(w.pad, m, e, 3)
    BY <2>2 DEF InExchange
  <2>4. w.reply \in Bytes
    BY <2>2 DEF Bytes
  <2>5. 3 # Len(e)
    BY <1>9
  <2>6. PadServes(w, m, e, 3)
    BY <1>10, <1>12, <2>2, <2>3, <2>4, <2>5 DEF PadServes
  <2> QED BY <1>4, <1>12, <2>2, <2>6 DEF w
<1>13. ASSUME i >= 4, PadOK(w.pad), w.pad.written = i, Answering(w.pad, m, e, i),
              Expected(m, e, i - 4) \in {Whatever, w.reply}, w.reply \in Bytes, Reads(pad, w, m, e, i)
       PROVE  PadServes(WriteByte(pad, NextByte), m, e, i) /\ Reads(pad, WriteByte(pad, NextByte), m, e, i)
  <2> HIDE DEF w
  <2>1. InExchange(w.pad, m, e, i)
    BY <1>13 DEF InExchange
  <2>2. ModesAre(w.pad, Became(m, e)) /\ w.pad.custom_response # 4
    BY <1>13 DEF Answering
  <2>3. KnownReplies(m, e)[i] \in {Whatever, w.reply}
    BY <1>10, <1>13
  <2>4. PadServes(w, m, e, i)
    BY <1>8, <1>13, <2>1, <2>2, <2>3 DEF PadServes
  <2> QED BY <1>4, <1>13, <2>4 DEF w
<1>14. CASE i = 4
  <2>1. pad.written = 3 /\ Commanded(pad, m, e)
    BY <1>6, <1>7, <1>14 DEF InExchange
  <2>2. /\ PadOK(w.pad) /\ w.pad.written = 4 /\ Answering(w.pad, m, e, 4)
        /\ Expected(m, e, 0) \in {Whatever, w.reply} /\ w.reply \in Bytes /\ Reads(pad, w, m, e, 4)
    BY <1>2, <1>3, <1>7, <1>8, <1>14, <2>1, PadFourth
  <2>3. i - 4 = 0
    BY <1>14
  <2> HIDE DEF w
  <2> QED BY <1>13, <1>14, <2>2, <2>3
<1>15. CASE i > 4
  <2> DEFINE k == i - 1
  <2>1. k \in 4 .. 8 /\ k + 1 = i /\ k - 3 = i - 4
    BY <1>5, <1>9, <1>15, SMTT(40)
  <2>2. pad.written = k /\ Answering(pad, m, e, k)
    BY <1>6, <1>7, <2>1 DEF InExchange
  <2> HIDE DEF k
  <2>3. /\ PadOK(w.pad) /\ w.pad.written = k + 1 /\ Answering(w.pad, m, e, k + 1)
        /\ Expected(m, e, k - 3) \in {Whatever, w.reply} /\ w.reply \in Bytes
        /\ Reads(pad, w, m, e, k + 1)
    BY <1>3, <1>7, <2>1, <2>2, PadNext
  <2> HIDE DEF w
  <2> QED BY <1>13, <1>15, <2>1, <2>3
<1> QED BY <1>4, <1>5, <1>11, <1>12, <1>14, <1>15

\* What a byte for the pad leaves chained its driver knows of, and it overwrites nothing of
\* a driver that clears it.
LEMMA ReadsKeeps ==
  ASSUME Sio2Inv, ~Idle, NEW j \in 1 .. Count(Transfer), NEW i \in 1 .. Size(Transfer, j),
         Uploads(j, i), NEW m, m = Transfer.modes[j], NEW e, e = Exchange(Transfer, j),
         e[1] = Controller, i # 1 => Lawful(m, e), NEW w, Reads(pad, w, m, e, i)
  PROVE  /\ RowsKnown(Clears(script), w.pad.responses)
         /\ w.pad.custom_response = 5 =>
              /\ IF i = 1 THEN Waits(Transfer, j - 1) ELSE Transfer.chained[j + 1]
              /\ Repeatable(Transfer) => Waits(Transfer, 0)
<1>1. Sio2Types /\ Sio2Chained /\ Described(Transfer)
  BY TransferIs DEF Sio2Inv
<1>2. Controller # MemCard /\ i \in Nat /\ i >= 1 /\ j \in Nat
  <2>1. Size(Transfer, j) \in 0 .. 511 /\ Count(Transfer) \in Nat
    BY <1>1, ExchangeIs
  <2> QED BY <2>1 DEF Controller, MemCard
<1>3. pad.custom_response = 5 => (IF i <= 2 THEN Waits(Transfer, j - 1) ELSE Transfer.chained[j + 1])
  <2> SUFFICES ASSUME pad.custom_response = 5
               PROVE  IF i <= 2 THEN Waits(Transfer, j - 1) ELSE Transfer.chained[j + 1]
    OBVIOUS
  <2>1. ReadWaits
    BY <1>1 DEF Sio2Chained
  <2>2. CASE Starts
    <3>1. Left = 0 /\ Index = j - 1 /\ i = 1
      BY <2>2 DEF Uploads
    <3> QED BY <2>1, <3>1 DEF ReadWaits
  <2>3. CASE ~Starts
    <3>1. Left # 0 /\ Index = j /\ Done = i - 1 /\ i > 1
      BY <2>3 DEF Uploads
    <3>2. Current[1] # MemCard
      BY <1>2, <3>1 DEF Current
    <3>3. IF i = 2 THEN Waits(Transfer, j - 1) ELSE Transfer.chained[j + 1]
      <4>1. Done = 1 <=> i = 2
        BY <1>2, <3>1
      <4> QED BY <2>1, <3>1, <3>2, <4>1 DEF ReadWaits
    <3>4. i <= 2 <=> i = 2
      BY <1>2, <3>1
    <3> QED BY <3>3, <3>4
  <2> QED BY <2>2, <2>3
<1>4. i # 1 => Commands(e) /\ (Transfer.chained[j + 1] <=> Chained(m, Transfer.chained[j], e))
  BY <1>1, LongEnough, ChainedIs
<1>5. Waits(Transfer, j - 1) /\ Commands(e) /\ SetsNone(e) => Transfer.chained[j]
  <2>1. (j - 1) + 1 = j
    BY <1>2
  <2>2. LeftOver(Transfer, j - 1) /\ Commands(e) => SetsResponse(e)
    BY <1>1, LeftOverEnds
  <2>3. ~ (SetsNone(e) /\ SetsResponse(e))
    BY DEF SetsNone, SetsResponse
  <2> QED BY <2>1, <2>2, <2>3 DEF Waits
<1>6. i # 1 /\ SetsNone(e) => (Transfer.chained[j + 1] <=> Transfer.chained[j])
  <2>1. ~ (SetsNone(e) /\ SetsResponse(e))
    BY DEF SetsNone, SetsResponse
  <2> QED BY <1>4, <2>1 DEF Chained
<1>7. ASSUME w.pad.custom_response = 5
      PROVE  /\ IF i = 1 THEN Waits(Transfer, j - 1) ELSE Transfer.chained[j + 1]
             /\ Repeatable(Transfer) => Waits(Transfer, 0)
  <2>1. CASE i = 4 /\ ReadsButtons(m, e)
    <3>1. SetsResponse(e)
      BY <2>1 DEF ReadsButtons
    <3>2. Transfer.chained[j + 1]
      BY <1>4, <2>1, <3>1 DEF Chained
    <3>3. Repeatable(Transfer) => LeftOver(Transfer, 0)
      BY <3>1 DEF LeftOver
    <3> QED BY <2>1, <3>2, <3>3 DEF Waits
  <2>2. CASE pad.custom_response = 5 /\ (i = 2 => SetsNone(e))
    <3>1. Repeatable(Transfer) => Waits(Transfer, 0)
      BY <1>1, <2>2 DEF Sio2Chained
    <3>2. CASE i = 1
      BY <1>3, <2>2, <3>1, <3>2
    <3>3. CASE i = 2
      BY <1>3, <1>4, <1>5, <1>6, <2>2, <3>1, <3>3
    <3>4. CASE i # 1 /\ i # 2
      <4>1. ~ (i <= 2)
        BY <1>2, <3>4
      <4> QED BY <1>3, <2>2, <3>1, <3>4, <4>1
    <3> QED BY <3>2, <3>3, <3>4
  <2> QED BY <1>7, <2>1, <2>2 DEF Reads
<1>8. SetsNone(e) /\ i = 5 /\ pad.custom_response = 5 => ~Clears(script)
  <2>1. i = 5 => ~ (i <= 2) /\ i # 1
    OBVIOUS
  <2>2. Clears(script) /\ SetsNone(e) => ~Transfer.chained[j]
    BY <1>1, ChainedIs
  <2> QED BY <1>3, <1>6, <2>1, <2>2
<1>9. RowsKnown(Clears(script), w.pad.responses)
  <2>1. RowsKnown(Clears(script), pad.responses)
    BY <1>1 DEF Sio2Chained
  <2>2. \A r \in {5, 7} :
          \/ w.pad.responses[r][1] = pad.responses[r][1]
          \/ ~Clears(script) /\ w.pad.responses[r][1] = Released
    BY <1>8 DEF Reads
  <2> QED BY <2>1, <2>2 DEF RowsKnown
<1> QED BY <1>7, <1>9

\* An exchange of a transfer that may be repeated leaves the modes as they are.
LEMMA RepeatableBecomes ==
  ASSUME NEW t, Described(t), Repeatable(t), NEW j \in 1 .. Count(t), NEW m,
         Lawful(m, Exchange(t, j))
  PROVE  Became(m, Exchange(t, j)) = m
<1> DEFINE e == Exchange(t, j)
<1>1. Len(e) = Size(t, j)
  BY ExchangeIs
<1>2. ASSUME e[1] = Controller PROVE e[2] \notin {CONFIG_MODE, SET_MAIN_MODE}
  <2>1. Controller # MemCard
    BY DEF Controller, MemCard
  <2>2. Len(e) \in 4 .. 9
    BY <1>2, <2>1 DEF Lawful
  <2>3. Size(t, j) > 1
    BY <1>1, <2>2
  <2> QED BY <2>3 DEF Repeatable
<1> HIDE DEF e
<1> QED BY <1>2 DEF Became, e

\* What is left of an exchange fits its count.
LEMMA Remains ==
  ASSUME NEW n \in 0 .. 511, NEW k \in 1 .. n
  PROVE  n - k \in 0 .. 511
OBVIOUS

\* The i-th byte of the j-th exchange goes up, and is replied to.
Place(c, j, sz, i) ==
  c \in Nat /\ c = Count(Transfer) /\ j \in 1 .. c /\ sz \in 0 .. 511 /\ sz = Size(Transfer, j) /\ i \in 1 .. sz
UploadStep(j, i) ==
  /\ Uploads(j, i) /\ (i = Size(Transfer, j) => Lawful(Transfer.modes[j], Exchange(Transfer, j)))
  /\ UNCHANGED <<send3, script, turn, stage>> /\ uploaded' = uploaded + 1
  /\ command' = Counted /\ current_device' = Device
ReplyStep(j, i, reply) ==
  /\ Uploads(j, i) /\ (script.legal => Own(Transfer, j, i, reply))
  /\ UNCHANGED <<script, turn, received>> /\ uploaded' = uploaded + 1
  /\ sio2_fifo' = Append(sio2_fifo, reply)

\* The count of a byte keeps the frame.
LEMMA UploadFramed ==
  ASSUME Sio2Inv, ~Idle, stage = "upload",
         NEW c, NEW j, NEW sz, NEW i, Place(c, j, sz, i), UploadStep(j, i)
  PROVE  /\ Sio2Framed'
         /\ Index' = j /\ Left' = sz - i /\ Transfer' = Transfer /\ Done' = i
         /\ Current' = Exchange(Transfer, j)
<1> c \in Nat /\ c = Count(Transfer) /\ j \in 1 .. c /\ sz \in 0 .. 511 /\ sz = Size(Transfer, j) /\ i \in 1 .. sz
  BY DEF Place
<1>1. PICK t : t = Transfer
  OBVIOUS
<1>2. Transfer' = t
  BY <1>1 DEF UploadStep, Transfer, Transfers
<1>3. Described(t) /\ Sio2Framed
  BY <1>1, TransferIs DEF Sio2Inv
<1>4. sz = Size(t, j)
  BY <1>1
<1>5. PICK a \in Nat : a = t.starts[j] /\ t.starts[j + 1] = a + sz
  <2>1. j \in 1 .. Count(t)
    BY <1>1
  <2>2. t.starts[j] \in Nat /\ t.starts[j + 1] = t.starts[j] + Size(t, j)
    BY <1>3, <2>1, ExchangeIs
  <2> QED BY <1>4, <2>2
<1>6. Count(t) = c
  BY <1>1
<1>7. command' = [index |-> j, size |-> sz - i] /\ uploaded + 1 = a + i /\ Device = Exchange(t, j)[1]
  BY <1>1, <1>4, <1>5 DEF UploadStep, Uploads
<1>8. Index' = j /\ Left' = sz - i /\ Done' = i /\ Current' = Exchange(t, j)
  <2>1. Begun'
    BY DEF UploadStep, Begun
  <2>2. Index' = j
    BY <1>7, <2>1 DEF Index
  <2>3. Left' = sz - i
    BY <1>7, <2>1 DEF Left
  <2>4. Done' = uploaded' - a
    BY <1>2, <1>5, <2>2 DEF Done
  <2>5. Done' = i
    <3>1. uploaded' = a + i
      BY <1>7 DEF UploadStep
    <3> QED BY <2>4, <3>1
  <2>6. Current' = Exchange(t, j)
    BY <1>2, <2>2 DEF Current
  <2> QED BY <2>2, <2>3, <2>5, <2>6
<1>9. Repeatable(t) => t.modes[j] = t.modes[1]
  <2>1. Repeatable(t) => t.modes[IF Left = 0 THEN Index + 1 ELSE Index] = t.modes[1]
    BY <1>1, <1>3 DEF Sio2Framed
  <2>2. CASE Starts
    <3>1. Left = 0 /\ Index + 1 = j
      BY <2>2 DEF UploadStep, Uploads
    <3> QED BY <2>1, <3>1
  <2>3. CASE ~Starts
    <3>1. Left # 0 /\ Index = j
      BY <2>3 DEF UploadStep, Uploads
    <3> QED BY <2>1, <3>1
  <2> QED BY <2>2, <2>3
<1>10. ASSUME i = sz, Repeatable(t) PROVE t.modes[j + 1] = t.modes[1]
  <2>1. Lawful(t.modes[j], Exchange(t, j))
    BY <1>1, <1>4, <1>10 DEF UploadStep
  <2>2. t.modes[j + 1] = Became(t.modes[j], Exchange(t, j))
    BY <1>1, <2>1, TransferIs DEF Sio2Inv
  <2>3. Became(t.modes[j], Exchange(t, j)) = t.modes[j]
    BY <1>3, <1>6, <1>10, <2>1, RepeatableBecomes
  <2> QED BY <1>9, <1>10, <2>2, <2>3
<1>11. /\ Index' \in 0 .. Count(t) /\ Left' \in 0 .. 511
       /\ uploaded' = t.starts[Index' + 1] - Left'
       /\ Index' # 0 => Size(t, Index') # 0
  <2>1. uploaded' = (a + sz) - (sz - i)
    BY <1>5, <1>6, <1>7 DEF UploadStep
  <2>2. j \in 0 .. Count(t) /\ sz - i \in 0 .. 511 /\ sz # 0
    <3>1. sz # 0
      OBVIOUS
    <3>2. sz - i \in 0 .. 511
      BY Remains, Zenon
    <3>3. j \in 0 .. c /\ c = Count(t)
      BY <1>1
    <3> QED BY <3>1, <3>2, <3>3
  <2>3. uploaded' = t.starts[j + 1] - (sz - i) /\ Size(t, j) # 0
    BY <1>4, <1>5, <2>1, <2>2
  <2> QED BY <1>8, <2>2, <2>3
<1>12. stage' \notin {"describe", "wait", "fetch"}
  BY DEF UploadStep
<1>13. \A k \in 1 .. Count(t) :
         send3'[k - 1] = IF Size(t, k) = 0 THEN 0 ELSE 256 * Size(t, k) + 64
  BY <1>1, <1>3 DEF UploadStep, Sio2Framed, Begun
<1>14. Left' # 0 => Index' # 0 /\ Left' < Size(t, Index') /\ current_device' = Current'[1]
  <2>1. sz - i < sz /\ j # 0
    OBVIOUS
  <2>2. current_device' = Exchange(t, j)[1]
    BY <1>7 DEF UploadStep
  <2> QED BY <1>4, <1>8, <2>1, <2>2
<1>15. Repeatable(t) => t.modes[IF Left' = 0 THEN Index' + 1 ELSE Index'] = t.modes[1]
  <2>1. sz - i = 0 => i = sz
    OBVIOUS
  <2> QED BY <1>8, <1>9, <1>10, <2>1
<1>16. Sio2Framed'
  BY <1>2, <1>11, <1>12, <1>13, <1>14, <1>15 DEF Sio2Framed
<1> QED BY <1>1, <1>2, <1>4, <1>8, <1>16

\* The reply to a byte is behind the others.
LEMMA UploadAnswered ==
  ASSUME Sio2Inv, ~Idle,
         NEW c, NEW j, NEW sz, NEW i, Place(c, j, sz, i), NEW reply \in Bytes, ReplyStep(j, i, reply)
  PROVE  Sio2Answered' /\ sio2_fifo' \in Seq(Bytes)
<1> c \in Nat /\ c = Count(Transfer) /\ j \in 1 .. c /\ sz \in 0 .. 511 /\ sz = Size(Transfer, j) /\ i \in 1 .. sz
  BY DEF Place
<1>1. PICK t : t = Transfer
  OBVIOUS
<1>2. Transfer' = t
  BY <1>1 DEF ReplyStep, Transfer, Transfers
<1>3. Described(t) /\ Sio2Answered /\ Sio2Types
  BY <1>1, TransferIs DEF Sio2Inv
<1>4. PICK r \in Seq(Bytes) : r = received
  BY <1>3 DEF Sio2Types
<1>5. PICK f \in Seq(Bytes) : f = sio2_fifo
  BY <1>3 DEF Sio2Types
<1>6. PICK n \in Nat : n = uploaded
  BY <1>3 DEF Sio2Types
<1>7. Append(f, reply) \in Seq(Bytes)
  OBVIOUS
<1>8. r \o f \in Seq(Bytes) /\ Len(r \o f) = n
  <2>1. Replies = r \o f
    BY <1>4, <1>5 DEF Replies
  <2> QED BY <1>3, <1>6, <2>1 DEF Sio2Answered
<1>9. r \o Append(f, reply) = Append(r \o f, reply)
  OBVIOUS
<1>10. /\ Len(Append(r \o f, reply)) = n + 1
       /\ \A k \in 1 .. n : Append(r \o f, reply)[k] = (r \o f)[k]
       /\ Append(r \o f, reply)[n + 1] = reply
  BY <1>8
<1>11. Replies' = Append(r \o f, reply) /\ Replies = r \o f
  BY <1>4, <1>5, <1>9 DEF ReplyStep, Replies
<1>12. Len(Replies') = uploaded'
  BY <1>6, <1>10, <1>11 DEF ReplyStep
<1>13. ASSUME script.legal,
              NEW k \in 1 .. c, NEW sb \in 0 .. 511, sb = Size(t, k), NEW h \in 1 .. sb,
              t.starts[k] + h <= n + 1
       PROVE  Own(t, k, h, Replies'[t.starts[k] + h])
  <2>1. PICK a \in Nat : a = t.starts[j] /\ t.starts[j + 1] = a + sz /\ n + 1 = a + i
    BY <1>1, <1>3, <1>6, ExchangeIs DEF ReplyStep, Uploads
  <2>2. PICK b \in Nat : b = t.starts[k] /\ t.starts[k + 1] = b + sb
    BY <1>1, <1>3, <1>13, ExchangeIs
  <2>3. Count(t) = c
    BY <1>1
  <2>6. n + 1 = a + i
    BY <2>1
  <2>4. CASE b + h <= n
    <3>1. Own(t, k, h, Replies[b + h])
      BY <1>1, <1>3, <1>6, <1>13, <2>2, <2>4 DEF Sio2Answered
    <3>2. b + h \in 1 .. n
      BY <2>4
    <3> QED BY <1>10, <1>11, <2>2, <3>1, <3>2
  <2>5. CASE b + h = n + 1
    <3>1. k = j
      <4>1. CASE k < j
        <5>1. t.starts[k + 1] <= t.starts[j]
          <6>1. k + 1 \in 1 .. c + 1 /\ j \in 1 .. c + 1 /\ k + 1 <= j
            BY <4>1
          <6> QED BY <1>3, <2>3, <6>1 DEF Described
        <5>2. b + sb <= a
          BY <2>1, <2>2, <5>1
        <5> QED BY <2>5, <2>6, <5>2
      <4>2. CASE j < k
        <5>1. t.starts[j + 1] <= t.starts[k]
          <6>1. j + 1 \in 1 .. c + 1 /\ k \in 1 .. c + 1 /\ j + 1 <= k
            BY <4>2
          <6> QED BY <1>3, <2>3, <6>1 DEF Described
        <5>2. a + sz <= b
          BY <2>1, <2>2, <5>1
        <5> QED BY <2>5, <2>6, <5>2
      <4>3. j \in Nat /\ k \in Nat
        OBVIOUS
      <4> QED BY <4>1, <4>2, <4>3
    <3>2. h = i
      <4>1. a = b
        BY <2>1, <2>2, <3>1
      <4> QED BY <2>5, <2>6, <4>1
    <3>3. Replies'[t.starts[k] + h] = reply
      BY <1>10, <1>11, <2>2, <2>5
    <3>4. Own(t, j, i, reply)
      BY <1>1, <1>13 DEF ReplyStep
    <3>5. Own(t, k, h, reply)
      BY <3>1, <3>2, <3>4
    <3> QED BY <3>3, <3>5
  <2>7. b + h <= n + 1
    BY <1>13, <2>2
  <2>8. b + h <= n \/ b + h = n + 1
    BY <2>7
  <2> QED BY <2>4, <2>5, <2>8
<1>14. Sio2Answered'
  <2>1. script' = script /\ uploaded' = n + 1
    BY <1>6 DEF ReplyStep
  <2>2. ASSUME script.legal, NEW k \in 1 .. Count(t), NEW h \in 1 .. Size(t, k), t.starts[k] + h <= n + 1
        PROVE  Own(t, k, h, Replies'[t.starts[k] + h])
    <3>1. PICK sb \in 0 .. 511 : sb = Size(t, k)
      BY <1>3, ExchangeIs
    <3>3. k \in 1 .. c
      BY <1>1
    <3>2. h \in 1 .. sb
      BY <3>1
    <3> QED BY <1>13, <2>2, <3>1, <3>2, <3>3
  <2> QED BY <1>2, <1>12, <2>1, <2>2 DEF Sio2Answered, Own
<1> QED BY <1>5, <1>7, <1>14 DEF ReplyStep

\* A driver at a stage has a transfer to make.
LEMMA AtStage ==
  ASSUME Sio2Inv, NEW s, Sio2Idle(s)
  PROVE  ~Idle /\ stage = s
<1>1. Len(Transfers) \in Nat /\ turn \in Nat
  <2>1. script \in Sio2Scripts /\ turn \in 1 .. Len(Transfers) + 1
    BY DEF Sio2Inv, Sio2Types
  <2>2. Len(Transfers) \in Nat
    BY <2>1, Sio2ScriptsAssumption DEF Transfers
  <2> QED BY <2>1, <2>2
<1> QED BY <1>1 DEF Sio2Idle, Idle

\* The types of what an upload changes.
LEMMA UploadTypes ==
  ASSUME Sio2Inv, ~Idle, NEW c, NEW j, NEW sz, NEW i, Place(c, j, sz, i), UploadStep(j, i),
         received' = received, sio2_halted' = sio2_halted, sio2_fifo' \in Seq(Bytes), PadOK(pad')
  PROVE  Sio2Types'
<1> c \in Nat /\ c = Count(Transfer) /\ j \in 1 .. c /\ sz \in 0 .. 511 /\ sz = Size(Transfer, j) /\ i \in 1 .. sz
  BY DEF Place
<1>1. Sio2Types /\ Described(Transfer)
  BY TransferIs DEF Sio2Inv
<1>2. c \in 1 .. Slots /\ Slots \in Nat
  BY <1>1, Sio2ScriptsAssumption DEF Described
<1>3. command' = [index |-> j, size |-> sz - i]
  BY DEF UploadStep, Uploads
<1>4. j \in 0 .. Slots /\ sz - i \in 0 .. 511
  <2>1. sz - i \in 0 .. 511
    BY Remains, Zenon
  <2>2. c <= Slots
    BY <1>2
  <2>3. j \in 0 .. Slots
    BY <1>2, <2>2
  <2> QED BY <2>1, <2>3
<1>5. uploaded' \in Nat
  <2>1. uploaded \in Nat /\ uploaded' = uploaded + 1
    BY <1>1 DEF Sio2Types, UploadStep
  <2> QED BY <2>1
<1>6. /\ script' \in Sio2Scripts /\ turn' \in 1 .. Len(Transfers') + 1
      /\ stage' \in {"reset", "describe", "upload", "wait", "fetch"}
      /\ sio2_halted' \in BOOLEAN /\ (script'.legal => ~sio2_halted') /\ DOMAIN send3' = 0 .. Slots - 1
      /\ received' \in Seq(Bytes)
  BY <1>1 DEF Sio2Types, UploadStep, Transfers
<1>7. command' \in [index : 0 .. Slots, size : 0 .. 511]
  BY <1>3, <1>4
<1> QED BY <1>5, <1>6, <1>7 DEF Sio2Types

\* A byte for the pad.
LEMMA UploadPadKeeps ==
  ASSUME Sio2Inv, UploadPad
  PROVE  Sio2Inv'
<1>1. ~Idle /\ stage = "upload" /\ uploaded < Len(Transfer.bytes) /\ uploaded' = uploaded + 1
      /\ UNCHANGED <<send3, script, turn, stage, received>>
  BY AtStage DEF UploadPad, Uploading
<1>2. (Starts => Params # 0) /\ Device = Controller
      /\ (Restarted.written + 1 = 2 => Allowed(pad, NextByte))
      /\ command' = Counted /\ current_device' = Device /\ sio2_halted' = sio2_halted
  BY DEF UploadPad
<1>3. Described(Transfer) /\ Sio2Types /\ script.legal \in BOOLEAN
  BY <1>1, TransferIs DEF Sio2Inv
<1>4. PICK c \in Nat : c = Count(Transfer)
  <2>1. Count(Transfer) \in 1 .. Slots /\ Slots \in Nat
    BY <1>3, Sio2ScriptsAssumption DEF Described
  <2> QED BY <2>1
<1>5. PICK j \in 1 .. c : \E i \in 1 .. Size(Transfer, j) : Uploads(j, i)
  BY <1>1, <1>2, <1>4, UploadAt
<1>6. PICK sz \in 0 .. 511 : sz = Size(Transfer, j)
  BY <1>3, <1>4, ExchangeIs
<1>7. PICK i \in 1 .. sz : Uploads(j, i)
  BY <1>5, <1>6
<1>8. PICK m : m = Transfer.modes[j]
  OBVIOUS
<1>9. PICK e : e = Exchange(Transfer, j)
  OBVIOUS
<1>10. e[1] = Controller /\ Len(e) = sz
  <2>1. e[1] = Controller
    BY <1>2, <1>7, <1>9 DEF Uploads
  <2>2. Len(e) = sz
    BY <1>3, <1>4, <1>6, <1>9, ExchangeIs
  <2> QED BY <2>1, <2>2
<1>11. PICK w : w = WriteByte(Restarted, NextByte)
  OBVIOUS
<1>12. pad' = w.pad /\ sio2_fifo' = Append(sio2_fifo, w.reply)
  BY <1>11 DEF UploadPad
<1>13. sz >= 1
  OBVIOUS
<1>14. PadServes(w, m, e, i) /\ Reads(pad, w, m, e, i)
  <2>1. CASE Starts
    <3>1. i = 1
      BY <1>7, <2>1 DEF Uploads
    <3>2. Uploads(j, 1) /\ Size(Transfer, j) >= 1 /\ j \in 1 .. Count(Transfer)
      BY <1>4, <1>6, <1>7, <1>13, <3>1
    <3>3. /\ PadServes(WriteByte(Restarted, NextByte), m, e, 1)
          /\ Reads(pad, WriteByte(Restarted, NextByte), m, e, 1)
      BY <1>1, <1>8, <1>9, <1>10, <2>1, <3>2, PadStarts
    <3> QED BY <1>11, <3>1, <3>3
  <2>2. CASE ~Starts
    <3>1. Restarted = pad
      BY <2>2 DEF Restarted
    <3>2. i \in 1 .. Size(Transfer, j) /\ j \in 1 .. Count(Transfer)
      BY <1>4, <1>6
    <3>3. pad.written + 1 = 2 => Allowed(pad, NextByte)
      BY <1>2, <3>1
    <3>4. PadServes(WriteByte(pad, NextByte), m, e, i) /\ Reads(pad, WriteByte(pad, NextByte), m, e, i)
      BY <1>1, <1>7, <1>8, <1>9, <1>10, <2>2, <3>2, <3>3, PadGoesOn
    <3> QED BY <1>11, <3>1, <3>4
  <2> QED BY <2>1, <2>2
<1>15. script.legal => Lawful(m, e)
  <2>1. Size(Transfer, j) >= 1 /\ j \in 1 .. Count(Transfer)
    BY <1>4, <1>6, <1>13
  <2> QED BY <1>1, <1>3, <1>8, <1>9, <1>10, <2>1, LawfulWhenAllowed
<1>16. UploadStep(j, i)
  <2>1. i = Size(Transfer, j) => Lawful(Transfer.modes[j], Exchange(Transfer, j))
    BY <1>6, <1>8, <1>9, <1>10, <1>14 DEF PadServes
  <2> QED BY <1>1, <1>2, <1>7, <2>1 DEF UploadStep
<1>17. PICK reply \in Bytes : reply = w.reply
  BY <1>14 DEF PadServes
<1>25. i # 1 => Lawful(m, e)
  <2>1. CASE i = Len(e)
    BY <1>14, <2>1 DEF PadServes
  <2>2. CASE i # Len(e) /\ i # 1
    <3>1. InExchange(w.pad, m, e, i)
      BY <1>14, <2>2 DEF PadServes
    <3>2. i \in {2, 3} \/ i >= 4
      BY <2>2
    <3> QED BY <3>1, <3>2 DEF InExchange, Commanded, Answering
  <2> QED BY <2>1, <2>2
<1>26. /\ RowsKnown(Clears(script), w.pad.responses)
       /\ w.pad.custom_response = 5 =>
            /\ IF i = 1 THEN Waits(Transfer, j - 1) ELSE Transfer.chained[j + 1]
            /\ Repeatable(Transfer) => Waits(Transfer, 0)
  <2>1. i \in 1 .. Size(Transfer, j) /\ j \in 1 .. Count(Transfer)
    BY <1>4, <1>6
  <2> QED BY <1>1, <1>7, <1>8, <1>9, <1>10, <1>14, <1>25, <2>1, ReadsKeeps
<1>27. m \in Modes /\ e \in Seq(Bytes)
  <2>1. j \in 1 .. Count(Transfer) + 1
    BY <1>4
  <2>2. e \in Seq(Bytes)
    BY <1>3, <1>4, <1>9, ExchangeIs
  <2> QED BY <1>3, <1>8, <2>1, <2>2, ModesOf
<1>18. ReplyStep(j, i, reply)
  <2>1. ASSUME script.legal PROVE Own(Transfer, j, i, reply)
    <3>1. Lawful(m, e) /\ i \in 1 .. Len(e)
      BY <1>10, <1>15, <2>1
    <3>2. KnownReplies(m, e)[i] \in {Whatever, reply}
      BY <1>14, <1>17, <3>1 DEF PadServes
    <3>3. SetsNone(e) /\ i = 5 => reply = w.pad.responses[e[2] % 16][1]
      BY <1>14, <1>17 DEF Reads
    <3>4. \/ reply = RepliesTo(m, e)[i]
          \/ ~Clears(script) /\ SetsNone(e) /\ i = 5 /\ reply = Released
      BY <1>10, <1>26, <1>27, <3>1, <3>2, <3>3, OwnReply
    <3> QED BY <1>8, <1>9, <3>4 DEF Own
  <2> QED BY <1>1, <1>7, <1>12, <1>17, <2>1 DEF ReplyStep
<1>24. Place(c, j, sz, i)
  BY <1>4, <1>6 DEF Place
<1>19. /\ Sio2Framed' /\ Index' = j /\ Left' = sz - i /\ Transfer' = Transfer /\ Done' = i
       /\ Current' = e
  <2>1. /\ Sio2Framed' /\ Index' = j /\ Left' = sz - i /\ Transfer' = Transfer /\ Done' = i
        /\ Current' = Exchange(Transfer, j)
    BY <1>1, <1>16, <1>24, UploadFramed
  <2> QED BY <1>9, <2>1
<1>20. Sio2Answered' /\ sio2_fifo' \in Seq(Bytes)
  BY <1>1, <1>18, <1>24, UploadAnswered
<1>21. PadOK(pad')
  BY <1>12, <1>14 DEF PadServes
<1>22. Sio2Types'
  BY <1>1, <1>2, <1>16, <1>20, <1>21, <1>24, UploadTypes
<1>23. Sio2Follows'
  <2>1. CASE i = sz
    <3>1. Left' = 0
      BY <1>19, <2>1
    <3>2. Lawful(m, e) /\ ModesAre(pad', Became(m, e)) /\ pad'.custom_response # 4
      BY <1>10, <1>12, <1>14, <2>1 DEF PadServes
    <3>3. Transfer.modes[j + 1] = Became(m, e)
      BY <1>1, <1>3, <1>4, <1>8, <1>9, <3>2, TransferIs
    <3>4. Boundary(pad', Transfer, j)
      BY <3>2, <3>3 DEF Boundary
    <3>5. Boundary(pad', Transfer', Index')
      BY <1>19, <3>4
    <3> QED BY <3>1, <3>5 DEF Sio2Follows
  <2>2. CASE i # sz
    <3>1. Left' # 0
      BY <1>19, <2>2
    <3>2. InExchange(pad', m, e, i)
      BY <1>10, <1>12, <1>14, <2>2 DEF PadServes
    <3>3. InExchange(pad', Transfer'.modes[Index'], Current', Done') /\ Current'[1] = Controller
      BY <1>8, <1>10, <1>19, <3>2
    <3> QED BY <3>1, <3>3 DEF Sio2Follows
  <2> QED BY <2>1, <2>2
<1>28. Sio2Chained'
  <2>1. script' = script
    BY <1>1
  <2>2. RowsKnown(Clears(script'), pad'.responses)
    BY <1>12, <1>26, <2>1
  <2>3. pad'.custom_response = 5 => (Repeatable(Transfer') => Waits(Transfer', 0))
    BY <1>12, <1>19, <1>26
  <2>4. pad'.custom_response = 5 => ReadWaits'
    <3>1. CASE i = 1
      <4>1. Left' # 0 /\ Done' = 1
        <5>1. Len(e) = 1 => ~Lawful(m, e)
          BY <1>10, LongEnough
        <5>2. i = Len(e) => Lawful(m, e)
          BY <1>14 DEF PadServes
        <5>3. i # sz
          BY <1>10, <3>1, <5>1, <5>2
        <5>4. sz - i # 0
          BY <5>3
        <5> QED BY <1>19, <3>1, <5>4
      <4>2. Waits(Transfer, j - 1) => ReadWaits'
        BY <1>19, <4>1 DEF ReadWaits
      <4> QED BY <1>12, <1>26, <3>1, <4>2
    <3>2. CASE i # 1
      <4>1. Done' # 1 /\ Current'[1] # MemCard
        <5>1. Controller # MemCard
          BY DEF Controller, MemCard
        <5> QED BY <1>10, <1>19, <3>2, <5>1
      <4>2. Transfer.chained[j + 1] => ReadWaits'
        BY <1>19, <4>1 DEF ReadWaits, Waits
      <4> QED BY <1>12, <1>26, <3>2, <4>2
    <3> QED BY <3>1, <3>2
  <2> QED BY <2>2, <2>3, <2>4 DEF Sio2Chained
<1> QED BY <1>19, <1>20, <1>22, <1>23, <1>28 DEF Sio2Inv

\* A byte for a memory card: there is none, and the pad does not see it.
LEMMA UploadCardKeeps ==
  ASSUME Sio2Inv, UploadCard
  PROVE  Sio2Inv'
<1>1. ~Idle /\ stage = "upload" /\ uploaded < Len(Transfer.bytes) /\ uploaded' = uploaded + 1
      /\ UNCHANGED <<send3, script, turn, stage, received>>
  BY AtStage DEF UploadCard, Uploading
<1>2. (Starts => Params # 0) /\ Device = MemCard /\ sio2_fifo' = Append(sio2_fifo, 255) /\ pad' = pad
      /\ command' = Counted /\ current_device' = Device /\ sio2_halted' = sio2_halted
  BY DEF UploadCard
<1>3. Described(Transfer) /\ Sio2Types /\ script.legal \in BOOLEAN /\ Sio2Follows
  BY <1>1, TransferIs DEF Sio2Inv
<1>4. PICK c \in Nat : c = Count(Transfer)
  <2>1. Count(Transfer) \in 1 .. Slots /\ Slots \in Nat
    BY <1>3, Sio2ScriptsAssumption DEF Described
  <2> QED BY <2>1
<1>5. PICK j \in 1 .. c : \E i \in 1 .. Size(Transfer, j) : Uploads(j, i)
  BY <1>1, <1>2, <1>4, UploadAt
<1>6. PICK sz \in 0 .. 511 : sz = Size(Transfer, j)
  BY <1>3, <1>4, ExchangeIs
<1>7. PICK i \in 1 .. sz : Uploads(j, i)
  BY <1>5, <1>6
<1>8. PICK m : m = Transfer.modes[j]
  OBVIOUS
<1>9. PICK e : e = Exchange(Transfer, j)
  OBVIOUS
<1>10. e[1] = MemCard /\ Len(e) = sz /\ e \in Seq(Bytes) /\ m \in Modes /\ e[1] # Controller
  <2>1. e[1] = MemCard
    BY <1>2, <1>7, <1>9 DEF Uploads
  <2>2. Len(e) = sz /\ e \in Seq(Bytes)
    BY <1>3, <1>4, <1>6, <1>9, ExchangeIs
  <2>3. j \in 1 .. Count(Transfer) + 1
    BY <1>4
  <2>4. Controller # MemCard
    BY DEF Controller, MemCard
  <2> QED BY <1>3, <1>8, <2>1, <2>2, <2>3, <2>4, ModesOf
<1>11. Lawful(m, e) /\ Became(m, e) = m /\ Transfer.modes[j + 1] = m
  <2>1. sz # 0
    OBVIOUS
  <2>2. Lawful(m, e)
    BY <1>10, <2>1 DEF Lawful
  <2>3. Became(m, e) = m
    BY <1>10 DEF Became
  <2>4. Transfer.modes[j + 1] = Became(m, e)
    BY <1>1, <1>3, <1>4, <1>8, <1>9, <2>2, TransferIs
  <2> QED BY <2>2, <2>3, <2>4
<1>12. RepliesTo(m, e)[i] = 255
  <2>1. i \in DOMAIN e
    BY <1>10
  <2> QED BY <1>10, <2>1 DEF RepliesTo
<1>13. UploadStep(j, i)
  BY <1>1, <1>2, <1>7, <1>8, <1>9, <1>11 DEF UploadStep
<1>14. 255 \in Bytes
  BY DEF Bytes
<1>15. ReplyStep(j, i, 255)
  <2>1. script.legal => Own(Transfer, j, i, 255)
    BY <1>8, <1>9, <1>12 DEF Own
  <2> QED BY <1>1, <1>2, <1>7, <2>1 DEF ReplyStep
<1>22. Place(c, j, sz, i)
  BY <1>4, <1>6 DEF Place
<1>16. /\ Sio2Framed' /\ Index' = j /\ Left' = sz - i /\ Transfer' = Transfer /\ Done' = i
       /\ Current' = e
  <2>1. /\ Sio2Framed' /\ Index' = j /\ Left' = sz - i /\ Transfer' = Transfer /\ Done' = i
        /\ Current' = Exchange(Transfer, j)
    BY <1>1, <1>13, <1>22, UploadFramed
  <2> QED BY <1>9, <2>1
<1>17. Sio2Answered' /\ sio2_fifo' \in Seq(Bytes)
  BY <1>1, <1>14, <1>15, <1>22, UploadAnswered
<1>18. PadOK(pad')
  BY <1>2, <1>3 DEF Sio2Types
<1>19. Sio2Types'
  BY <1>1, <1>2, <1>13, <1>17, <1>18, <1>22, UploadTypes
<1>20. Boundary(pad, Transfer, j - 1)
  <2>1. CASE Starts
    <3>1. Left = 0 /\ Index = j - 1
      BY <1>7, <2>1 DEF Uploads
    <3> QED BY <1>3, <3>1 DEF Sio2Follows
  <2>2. CASE ~Starts
    <3>1. Left # 0 /\ Index = j
      BY <1>7, <2>2 DEF Uploads
    <3> QED BY <1>3, <1>9, <1>10, <3>1 DEF Sio2Follows, Current
  <2> QED BY <2>1, <2>2
<1>21. Sio2Follows'
  <2>1. CASE i = sz
    <3>1. Left' = 0
      BY <1>16, <2>1
    <3>2. ModesAre(pad, Transfer.modes[j + 1])
      <4>1. (j - 1) + 1 = j
        OBVIOUS
      <4> QED BY <1>8, <1>11, <1>20, <4>1 DEF Boundary
    <3>3. pad.custom_response = 4 => LeftOver(Transfer, j)
      <4>1. ~Commands(e)
        BY <1>10 DEF Commands
      <4>2. \A h \in 1 .. j : h \in 1 .. j - 1 \/ h = j
        OBVIOUS
      <4> QED BY <1>9, <1>20, <4>1, <4>2 DEF Boundary, LeftOver
    <3>4. Boundary(pad, Transfer, j)
      BY <3>2, <3>3 DEF Boundary
    <3>5. Boundary(pad', Transfer', Index')
      BY <1>2, <1>16, <3>4
    <3> QED BY <3>1, <3>5 DEF Sio2Follows
  <2>2. CASE i # sz
    <3>1. Left' # 0
      BY <1>16, <2>2
    <3>2. Boundary(pad', Transfer', Index' - 1) /\ Current'[1] = MemCard
      BY <1>2, <1>10, <1>16, <1>20
    <3> QED BY <3>1, <3>2 DEF Sio2Follows
  <2> QED BY <2>1, <2>2
<1>23. pad.custom_response = 5 => Waits(Transfer, j - 1) /\ (Repeatable(Transfer) => Waits(Transfer, 0))
  <2> SUFFICES ASSUME pad.custom_response = 5
               PROVE  Waits(Transfer, j - 1) /\ (Repeatable(Transfer) => Waits(Transfer, 0))
    OBVIOUS
  <2>1. ReadWaits /\ (Repeatable(Transfer) => Waits(Transfer, 0))
    BY <1>1 DEF Sio2Inv, Sio2Chained
  <2>2. CASE Starts
    <3>1. Left = 0 /\ Index = j - 1
      BY <1>7, <2>2 DEF Uploads
    <3> QED BY <2>1, <3>1 DEF ReadWaits
  <2>3. CASE ~Starts
    <3>1. Left # 0 /\ Index = j
      BY <1>7, <2>3 DEF Uploads
    <3> QED BY <1>9, <1>10, <2>1, <3>1 DEF ReadWaits, Current
  <2> QED BY <2>2, <2>3
<1>24. Waits(Transfer, j - 1) => Waits(Transfer, j)
  <2>1. ~Commands(e)
    BY <1>10 DEF Commands
  <2>2. LeftOver(Transfer, j - 1) => LeftOver(Transfer, j)
    <3>1. \A h \in 1 .. j : h \in 1 .. j - 1 \/ h = j
      OBVIOUS
    <3> QED BY <1>9, <2>1, <3>1 DEF LeftOver
  <2>3. Transfer.chained[j + 1] <=> Transfer.chained[j]
    <3>1. Transfer.chained[j + 1] <=> Chained(m, Transfer.chained[j], e)
      BY <1>1, <1>3, <1>4, <1>8, <1>9, <1>11, ChainedIs
    <3> QED BY <2>1, <3>1 DEF Chained, SetsResponse
  <2>4. (j - 1) + 1 = j
    OBVIOUS
  <2> QED BY <2>2, <2>3, <2>4 DEF Waits
<1>25. Sio2Chained'
  <2>1. RowsKnown(Clears(script'), pad'.responses)
    BY <1>1, <1>2 DEF Sio2Inv, Sio2Chained
  <2>2. pad'.custom_response = 5 => (Repeatable(Transfer') => Waits(Transfer', 0))
    BY <1>2, <1>16, <1>23
  <2>3. pad'.custom_response = 5 => ReadWaits'
    <3>1. Waits(Transfer, j) /\ Waits(Transfer, j - 1) => ReadWaits'
      BY <1>10, <1>16 DEF ReadWaits
    <3> QED BY <1>2, <1>23, <1>24, <3>1
  <2> QED BY <2>1, <2>2, <2>3 DEF Sio2Chained
<1> QED BY <1>16, <1>17, <1>19, <1>21, <1>25 DEF Sio2Inv

\* The emulator stops at no byte of a legal driver.
LEMMA LegalTaken ==
  ASSUME Sio2Inv, ~Idle, stage = "upload", uploaded < Len(Transfer.bytes), script.legal
  PROVE  ~Refused
<1>1. Described(Transfer) /\ Sio2Types /\ Sio2Framed /\ Sio2Follows
  BY TransferIs DEF Sio2Inv
<1>2. \A j \in 1 .. Count(Transfer) : Lawful(Transfer.modes[j], Exchange(Transfer, j))
  BY TransferIs, <1>1
<1>3. PICK c \in Nat : c = Count(Transfer)
  <2>1. Count(Transfer) \in 1 .. Slots /\ Slots \in Nat
    BY <1>1, Sio2ScriptsAssumption DEF Described
  <2> QED BY <2>1
<1>4. Starts => Params # 0
  <2> SUFFICES ASSUME Starts PROVE Params # 0
    OBVIOUS
  <2>1. Begun /\ Index = command.index /\ Left = 0
    BY DEF Begun, Index, Left, Starts
  <2>2. Index < c /\ Index \in Nat
    BY <1>3, <2>1, NotBeyond
  <2>3. PICK j \in 1 .. c : j = Index + 1
    BY <2>2
  <2>4. PICK sz \in 0 .. 511 : sz = Size(Transfer, j)
    BY <1>1, <1>3, ExchangeIs
  <2>5. sz # 0
    <3>1. Lawful(Transfer.modes[j], Exchange(Transfer, j))
      BY <1>2, <1>3
    <3>2. Len(Exchange(Transfer, j)) = sz /\ Exchange(Transfer, j) \in Seq(Bytes)
      BY <1>1, <1>3, <2>4, ExchangeIs
    <3>3. ASSUME sz = 0 PROVE FALSE
      <4>1. Exchange(Transfer, j) = <<>>
        BY <3>2, <3>3
      <4>2. Len(<<>>) \notin 4 .. 9
        OBVIOUS
      <4> QED BY <3>1, <4>1, <4>2 DEF Lawful
    <3> QED BY <3>3
  <2>6. send3[j - 1] = 256 * sz + 64
    BY <1>1, <1>3, <2>1, <2>4, <2>5 DEF Sio2Framed
  <2>7. Params = 256 * sz + 64
    <3>1. j - 1 = Index
      BY <2>2, <2>3
    <3> QED BY <2>1, <2>6, <3>1 DEF Params
  <2> QED BY <2>7
<1>5. PICK j \in 1 .. c : \E i \in 1 .. Size(Transfer, j) : Uploads(j, i)
  BY <1>3, <1>4, UploadAt
<1>6. PICK i : i \in 1 .. Size(Transfer, j) /\ Uploads(j, i)
  BY <1>5
<1>7. PICK e : e = Exchange(Transfer, j)
  OBVIOUS
<1>8. PICK m : m = Transfer.modes[j]
  OBVIOUS
<1>9. Lawful(m, e)
  BY <1>2, <1>3, <1>7, <1>8
<1>10. Device = e[1] /\ e[1] \in {Controller, MemCard}
  BY <1>6, <1>7, <1>9 DEF Uploads, Lawful
<1>11. ASSUME Device = Controller, Restarted.written + 1 = 2 PROVE Allowed(pad, NextByte)
  <2>1. Controller # MemCard
    BY DEF Controller, MemCard
  <2>2. CASE Starts
    <3>1. pad \in PadType /\ Restarted = [pad EXCEPT !.written = 0]
      BY <1>1, <2>2 DEF Restarted, Sio2Types, PadOK
    <3>2. Restarted.written = 0
      BY <3>1 DEF PadType
    <3> QED BY <1>11, <3>2
  <2>3. CASE ~Starts
    <3>1. Restarted = pad
      BY <2>3 DEF Restarted
    <3>2. Left # 0 /\ Index = j /\ NextByte = e[i] /\ Done = i - 1
      BY <1>6, <1>7, <2>3 DEF Uploads
    <3>3. InExchange(pad, m, e, i - 1)
      BY <1>1, <1>7, <1>8, <1>10, <1>11, <2>1, <3>2 DEF Sio2Follows, Current
    <3>4. pad.written = i - 1 /\ i \in Int
      BY <1>6, <3>3 DEF InExchange
    <3>5. i = 2
      BY <1>11, <3>1, <3>4
    <3>6. ModesAre(pad, m)
      BY <3>3, <3>5 DEF InExchange, Named
    <3>7. Allowed(m, e[2])
      BY <1>9, <1>10, <1>11, <2>1 DEF Lawful
    <3> QED BY <3>2, <3>5, <3>6, <3>7 DEF Allowed, ModesAre
  <2> QED BY <2>2, <2>3
<1> QED BY <1>4, <1>10, <1>11 DEF Refused

\* The emulator stops at a byte that it refuses: only a driver that is not legal has one.
LEMMA RefusedKeeps ==
  ASSUME Sio2Inv, UploadRefused
  PROVE  Sio2Inv'
<1>1. ~Idle /\ stage = "upload" /\ uploaded < Len(Transfer.bytes) /\ uploaded' = uploaded + 1 /\ Refused
      /\ UNCHANGED <<send3, script, turn, stage, received, command, sio2_fifo, pad>> /\ sio2_halted' = TRUE
  BY AtStage DEF UploadRefused, Uploading
<1>2. ~script.legal
  BY <1>1, LegalTaken
<1>3. Sio2Types
  BY DEF Sio2Inv
<1>4. uploaded' \in Nat
  <2>1. uploaded \in Nat
    BY <1>3 DEF Sio2Types
  <2> QED BY <1>1, <2>1
<1>5. Sio2Types'
  BY <1>1, <1>2, <1>3, <1>4 DEF Sio2Types, Transfers
<1> QED BY <1>1, <1>5 DEF Sio2Inv, Idle

\* What a step that moves neither pad nor bytes keeps.
LEMMA FollowsKept ==
  ASSUME Sio2Follows, Transfer' = Transfer, Index' = Index, Left' = Left,
         uploaded' = uploaded, pad' = pad
  PROVE  Sio2Follows'
<1>1. Current' = Current
  BY DEF Current
<1>2. Done' = Done
  BY DEF Done
<1>3. \A t, k : Boundary(pad', t, k) <=> Boundary(pad, t, k)
  OBVIOUS
<1>4. CASE Left = 0
  <2>1. Boundary(pad', Transfer', Index')
    BY <1>4 DEF Sio2Follows
  <2> QED BY <1>4, <2>1 DEF Sio2Follows
<1>5. CASE Left # 0
  <2>1. \/ Current'[1] = Controller /\ InExchange(pad', Transfer'.modes[Index'], Current', Done')
        \/ Current'[1] = MemCard /\ Boundary(pad', Transfer', Index' - 1)
    BY <1>1, <1>2, <1>5 DEF Sio2Follows
  <2> QED BY <1>5, <2>1 DEF Sio2Follows
<1> QED BY <1>4, <1>5

\* What is chained is known as before.
LEMMA ChainedKept ==
  ASSUME Sio2Chained, Transfer' = Transfer, Index' = Index, Left' = Left, script' = script,
         uploaded' = uploaded, pad' = pad
  PROVE  Sio2Chained'
<1>1. Current' = Current
  BY DEF Current
<1>2. Done' = Done
  BY DEF Done
<1>3. ReadWaits' <=> ReadWaits
  BY <1>1, <1>2 DEF ReadWaits
<1>4. RowsKnown(Clears(script'), pad'.responses)
  BY DEF Sio2Chained
<1>5. pad'.custom_response = 5 => ReadWaits /\ (Repeatable(Transfer') => Waits(Transfer', 0))
  BY DEF Sio2Chained
<1> QED BY <1>3, <1>4, <1>5 DEF Sio2Chained

\* Nor do the replies change.
LEMMA AnsweredKept ==
  ASSUME Sio2Answered, Transfer' = Transfer, script' = script, uploaded' = uploaded, Replies' = Replies
  PROVE  Sio2Answered'
<1>1. Len(Replies') = uploaded'
  BY DEF Sio2Answered
<1>2. script'.legal =>
        \A j \in 1 .. Count(Transfer') : \A i \in 1 .. Size(Transfer', j) :
          Transfer'.starts[j] + i <= uploaded' =>
            Own(Transfer', j, i, Replies'[Transfer'.starts[j] + i])
  BY DEF Sio2Answered
<1> QED BY <1>1, <1>2 DEF Sio2Answered, Own

\* A reply that is fetched is the next one.
LEMMA ReadFifoKeeps ==
  ASSUME Sio2Inv, ReadFifo
  PROVE  Sio2Inv'
<1>1. Sio2Types
  BY DEF Sio2Inv
<1>2. PICK r \in Seq(Bytes) : r = received
  BY <1>1 DEF Sio2Types
<1>3. PICK f \in Seq(Bytes) : f = sio2_fifo /\ f # <<>>
  BY <1>1 DEF Sio2Types, ReadFifo
<1>4. /\ Append(r, Head(f)) \in Seq(Bytes) /\ Tail(f) \in Seq(Bytes)
      /\ Append(r, Head(f)) \o Tail(f) = r \o f
  BY <1>3
<1>5. received' = Append(r, Head(f)) /\ sio2_fifo' = Tail(f)
  BY <1>2, <1>3 DEF ReadFifo
<1>6. UNCHANGED <<send3, command, current_device, pad, sio2_halted, script, turn, stage, uploaded>>
  BY DEF ReadFifo
<1>7. Sio2Types'
  BY <1>1, <1>4, <1>5, <1>6 DEF Sio2Types, Transfers
<1>8. ASSUME ~Idle' PROVE Sio2Framed' /\ Sio2Follows' /\ Sio2Chained' /\ Sio2Answered'
  <2>1. Transfer' = Transfer /\ Index' = Index /\ Left' = Left
    BY <1>6 DEF Transfer, Transfers, Index, Left, Begun
  <2>2. ~Idle /\ Sio2Framed /\ Sio2Follows /\ Sio2Chained /\ Sio2Answered
    BY <1>6, <1>8 DEF Idle, Transfers, Sio2Inv
  <2>3. Replies' = Replies
    BY <1>2, <1>3, <1>4, <1>5 DEF Replies
  <2>4. Sio2Framed'
    BY <1>6, <2>1, <2>2 DEF Sio2Framed, Current, Begun
  <2> QED BY <1>6, <2>1, <2>2, <2>3, <2>4, FollowsKept, ChainedKept, AnsweredKept
<1> QED BY <1>7, <1>8 DEF Sio2Inv

\* The driver's steps that only the stage of its transfer follows.
Stages ==
  /\ UNCHANGED <<sio2_fifo, pad, sio2_halted, script, turn, uploaded, received>>

\* They keep the invariant if they keep the count of the exchanges.
LEMMA StageKeeps ==
  ASSUME Sio2Inv, ~Idle, Stages, Sio2Framed', Index' = Index, Left' = Left,
         stage' \in {"reset", "describe", "upload", "wait", "fetch"},
         command' \in [index : 0 .. Slots, size : 0 .. 511], DOMAIN send3' = 0 .. Slots - 1
  PROVE  Sio2Inv'
<1>1. Sio2Types /\ Sio2Follows /\ Sio2Chained /\ Sio2Answered
  BY DEF Sio2Inv
<1>2. Transfer' = Transfer /\ Replies' = Replies
  BY DEF Stages, Transfer, Transfers, Replies
<1>3. Sio2Types'
  BY <1>1 DEF Sio2Types, Stages, Transfers
<1>4. Sio2Follows'
  BY <1>1, <1>2, FollowsKept DEF Stages
<1>5. Sio2Answered'
  BY <1>1, <1>2, AnsweredKept DEF Stages
<1>6. Sio2Chained'
  BY <1>1, <1>2, ChainedKept DEF Stages
<1> QED BY <1>3, <1>4, <1>5, <1>6 DEF Sio2Inv

\* SIO2_CTRL's reset.
LEMMA ResetKeeps ==
  ASSUME Sio2Inv, ResetSio2
  PROVE  Sio2Inv'
<1>1. ~Idle /\ stage = "reset" /\ Sio2Types /\ Sio2Framed
  BY AtStage DEF ResetSio2, Sio2Inv
<1>2. stage' = "describe" /\ command' = [index |-> 0, size |-> 0] /\ send3' = send3 /\ Stages
  BY DEF ResetSio2, Stages
<1>3. ~Begun /\ ~Begun'
  BY <1>1, <1>2 DEF Begun
<1>4. Index = 0 /\ Index' = 0 /\ Left = 0 /\ Left' = 0
  BY <1>3 DEF Index, Left
<1>5. Transfer' = Transfer /\ uploaded' = uploaded
  BY <1>2 DEF Stages, Transfer, Transfers
<1>6. Sio2Framed'
  BY <1>1, <1>2, <1>3, <1>4, <1>5 DEF Sio2Framed
<1>7. command' \in [index : 0 .. Slots, size : 0 .. 511]
  <2>1. 0 \in 0 .. Slots /\ 0 \in 0 .. 511
    BY Sio2ScriptsAssumption
  <2> QED BY <1>2, <2>1
<1>8. DOMAIN send3' = 0 .. Slots - 1
  BY <1>1, <1>2 DEF Sio2Types
<1> QED BY <1>1, <1>2, <1>4, <1>6, <1>7, <1>8, StageKeeps

\* The description of the transfer in SEND3.
LEMMA WriteSend3Keeps ==
  ASSUME Sio2Inv, WriteSend3
  PROVE  Sio2Inv'
<1>1. ~Idle /\ stage = "describe" /\ Sio2Types /\ Sio2Framed
  BY AtStage DEF WriteSend3, Sio2Inv
<1>2. stage' = "upload" /\ command' = command /\ Stages
  BY DEF WriteSend3, Stages
<1>3. command = [index |-> 0, size |-> 0]
  BY <1>1 DEF Sio2Framed
<1>4. ~Begun /\ Begun'
  BY <1>1, <1>2 DEF Begun
<1>5. Index = 0 /\ Index' = 0 /\ Left = 0 /\ Left' = 0
  BY <1>2, <1>3, <1>4 DEF Index, Left
<1>6. Transfer' = Transfer /\ uploaded' = uploaded
  BY <1>2 DEF Stages, Transfer, Transfers
<1>7. Described(Transfer)
  BY <1>1, TransferIs
<1>8. PICK c \in Nat : c = Count(Transfer) /\ c <= Slots /\ Slots \in Nat
  <2>1. Count(Transfer) \in 1 .. Slots /\ Slots \in Nat
    BY <1>7, Sio2ScriptsAssumption DEF Described
  <2> QED BY <2>1
<1>9. \A i \in 1 .. c :
        send3'[i - 1] = IF Size(Transfer, i) = 0 THEN 0 ELSE 256 * Size(Transfer, i) + 64
  <2> SUFFICES ASSUME NEW i \in 1 .. c
               PROVE  send3'[i - 1] = IF Size(Transfer, i) = 0 THEN 0 ELSE 256 * Size(Transfer, i) + 64
    OBVIOUS
  <2>1. PICK k \in 0 .. Slots - 1 : k = i - 1 /\ ~ (k >= c) /\ k + 1 = i
    BY <1>8
  <2>2. send3' = [h \in 0 .. Slots - 1 |->
                    IF h >= c THEN send3[h]
                    ELSE IF Size(Transfer, h + 1) = 0 THEN 0 ELSE 256 * Size(Transfer, h + 1) + 64]
    BY <1>8 DEF WriteSend3
  <2>3. send3'[k] = IF Size(Transfer, i) = 0 THEN 0 ELSE 256 * Size(Transfer, i) + 64
    BY <2>1, <2>2
  <2> QED BY <2>1, <2>3
<1>10. Sio2Framed'
  BY <1>1, <1>2, <1>5, <1>6, <1>8, <1>9 DEF Sio2Framed
<1>11. DOMAIN send3' = 0 .. Slots - 1
  BY DEF WriteSend3
<1>12. command' \in [index : 0 .. Slots, size : 0 .. 511]
  BY <1>1, <1>2 DEF Sio2Types
<1> QED BY <1>1, <1>2, <1>5, <1>10, <1>11, <1>12, StageKeeps

\* The start: every byte is uploaded, so the last exchange is at its end.
LEMMA StartKeeps ==
  ASSUME Sio2Inv, StartSio2
  PROVE  Sio2Inv'
<1>1. ~Idle /\ stage = "upload" /\ Sio2Types /\ Sio2Framed
  BY AtStage DEF StartSio2, Sio2Inv
<1>2. stage' = "wait" /\ command' = command /\ current_device' = current_device /\ send3' = send3 /\ Stages
  BY DEF StartSio2, Stages
<1>3. Begun /\ Begun'
  BY <1>1, <1>2 DEF Begun
<1>4. Index' = Index /\ Left' = Left
  BY <1>2, <1>3 DEF Index, Left
<1>5. Transfer' = Transfer /\ uploaded' = uploaded
  BY <1>2 DEF Stages, Transfer, Transfers
<1>6. PICK t : t = Transfer
  OBVIOUS
<1>7. Described(t)
  BY <1>1, <1>6, TransferIs
<1>8. PICK c \in Nat : c = Count(t) /\ c >= 1
  <2>1. Count(t) \in 1 .. Slots /\ Slots \in Nat
    BY <1>7, Sio2ScriptsAssumption DEF Described
  <2> QED BY <2>1
<1>17. c \in 1 .. Count(t)
  BY <1>8
<1>9. PICK sz \in 0 .. 511 : sz = Size(t, c)
  BY <1>7, <1>17, ExchangeIs
<1>10. PICK a \in Nat : a = t.starts[c] /\ t.starts[c + 1] = a + sz
  <2>1. t.starts[c] \in Nat /\ t.starts[c + 1] = t.starts[c] + Size(t, c)
    BY <1>7, <1>17, ExchangeIs
  <2> QED BY <1>9, <2>1
<1>11. PICK n \in 0 .. c : n = Index
  BY <1>1, <1>6, <1>8 DEF Sio2Framed
<1>12. PICK l \in 0 .. 511 : l = Left
  BY <1>1 DEF Sio2Framed
<1>13. t.starts[n + 1] - l = a + sz + (IF sz = 0 THEN 1 ELSE 0)
  <2>1. uploaded = t.starts[n + 1] - l
    BY <1>1, <1>6, <1>11, <1>12 DEF Sio2Framed
  <2>2. uploaded = Len(t.bytes)
    BY <1>6 DEF StartSio2
  <2>3. Len(t.bytes) = t.starts[c + 1] + (IF sz = 0 THEN 1 ELSE 0)
    BY <1>7, <1>8, <1>9 DEF Described
  <2> QED BY <1>10, <2>1, <2>2, <2>3
<1>14. n = c /\ l = 0
  <2>1. PICK b \in Nat : b = t.starts[n + 1]
    <3>1. t.starts \in Seq(Nat) /\ Len(t.starts) = c + 1
      BY <1>7, <1>8 DEF Described, Count
    <3>2. n + 1 \in 1 .. Len(t.starts)
      BY <1>11, <3>1
    <3> QED BY <3>1, <3>2
  <2>2. b - l = a + sz + (IF sz = 0 THEN 1 ELSE 0)
    BY <1>13, <2>1
  <2>3. CASE n < c
    <3>1. b <= a
      <4>1. n + 1 \in 1 .. c + 1 /\ c \in 1 .. c + 1 /\ n + 1 <= c
        BY <1>8, <2>3
      <4> QED BY <1>7, <1>8, <1>10, <2>1, <4>1 DEF Described
    <3> QED BY <2>2, <3>1
  <2>4. CASE n = c
    <3>1. b = a + sz
      BY <1>10, <2>1, <2>4
    <3> QED BY <2>2, <2>4, <3>1
  <2> QED BY <2>3, <2>4
<1>15. Sio2Framed'
  <2>1. Index' = Count(Transfer') /\ Left' = 0
    BY <1>4, <1>5, <1>6, <1>8, <1>11, <1>12, <1>14
  <2> QED BY <1>1, <1>2, <1>3, <1>4, <1>5, <2>1 DEF Sio2Framed
<1>16. command' \in [index : 0 .. Slots, size : 0 .. 511] /\ DOMAIN send3' = 0 .. Slots - 1
  BY <1>1, <1>2 DEF Sio2Types
<1> QED BY <1>1, <1>2, <1>4, <1>15, <1>16, StageKeeps

\* The interrupt.
LEMMA InterruptKeeps ==
  ASSUME Sio2Inv, Sio2Interrupt
  PROVE  Sio2Inv'
<1>1. ~Idle /\ stage = "wait" /\ Sio2Types /\ Sio2Framed
  BY AtStage DEF Sio2Interrupt, Sio2Inv
<1>2. stage' = "fetch" /\ command' = command /\ current_device' = current_device /\ send3' = send3 /\ Stages
  BY DEF Sio2Interrupt, Stages
<1>3. Begun /\ Begun'
  BY <1>1, <1>2 DEF Begun
<1>4. Index' = Index /\ Left' = Left
  BY <1>2, <1>3 DEF Index, Left
<1>5. Transfer' = Transfer /\ uploaded' = uploaded
  BY <1>2 DEF Stages, Transfer, Transfers
<1>6. Sio2Framed'
  BY <1>1, <1>2, <1>3, <1>4, <1>5 DEF Sio2Framed, Current
<1>7. command' \in [index : 0 .. Slots, size : 0 .. 511] /\ DOMAIN send3' = 0 .. Slots - 1
  BY <1>1, <1>2 DEF Sio2Types
<1> QED BY <1>1, <1>2, <1>4, <1>6, <1>7, StageKeeps

\* A transfer that begins, with every reply before it fetched and the pad in the modes it
\* was described for.
Anew ==
  /\ sio2_fifo = <<>> /\ uploaded' = 0 /\ received' = <<>> /\ stage' = "reset"
  /\ UNCHANGED <<send3, command, current_device, sio2_fifo, pad, sio2_halted, script>>
\* A transfer that begins keeps the invariant.
LEMMA AnewKeeps ==
  ASSUME Sio2Types, Anew, turn' \in 1 .. Len(Transfers) + 1,
         turn' <= Len(Transfers) =>
           /\ Described(Transfer') /\ Boundary(pad, Transfer', 0)
           /\ RowsKnown(Clears(script), pad.responses)
           /\ pad.custom_response = 5 => Waits(Transfer', 0)
  PROVE  Sio2Inv'
<1>1. Transfers' = Transfers /\ Len(Transfers) \in Nat
  <2>1. script \in Sio2Scripts
    BY DEF Sio2Types
  <2> QED BY <2>1, Sio2ScriptsAssumption DEF Anew, Transfers
<1>2. Sio2Types'
  <2>1. uploaded' \in Nat /\ sio2_fifo' \in Seq(Bytes) /\ received' \in Seq(Bytes)
    BY DEF Anew, Sio2Types
  <2> QED BY <1>1, <2>1 DEF Anew, Sio2Types
<1>3. ~Begun'
  BY DEF Anew, Begun
<1>4. Index' = 0 /\ Left' = 0
  BY <1>3 DEF Index, Left
<1>5. ASSUME ~Idle' PROVE Sio2Framed' /\ Sio2Follows' /\ Sio2Chained' /\ Sio2Answered'
  <2>1. turn' <= Len(Transfers)
    <3>1. ~ (turn' > Len(Transfers))
      BY <1>1, <1>5 DEF Idle
    <3> QED BY <1>1, <3>1
  <2>2. Described(Transfer') /\ Boundary(pad', Transfer', 0)
    BY <2>1 DEF Anew
  <2>3. PICK t : t = Transfer'
    OBVIOUS
  <2>4. Count(t) \in Nat /\ t.starts[1] = 0
    <3>1. Count(t) \in 1 .. Slots /\ t.starts[1] = 0 /\ Slots \in Nat
      BY <2>2, <2>3, Sio2ScriptsAssumption DEF Described
    <3> QED BY <3>1
  <2>5. Sio2Framed'
    <3>1. Index' \in 0 .. Count(t) /\ Left' \in 0 .. 511 /\ Index' + 1 = 1
      BY <1>4, <2>4
    <3>2. uploaded' = t.starts[Index' + 1] - Left'
      BY <1>4, <2>4, <3>1 DEF Anew
    <3>3. t.modes[IF Left' = 0 THEN Index' + 1 ELSE Index'] = t.modes[1]
      BY <1>4, <3>1
    <3> QED BY <1>3, <1>4, <2>3, <3>1, <3>2, <3>3 DEF Sio2Framed, Anew
  <2>6. Sio2Follows'
    BY <1>4, <2>2 DEF Sio2Follows
  <2>7. Sio2Answered'
    <3>1. Replies' = <<>> /\ Len(Replies') = uploaded'
      BY DEF Replies, Anew
    <3>2. ASSUME NEW j \in 1 .. Count(t), NEW i \in 1 .. Size(t, j), t.starts[j] + i <= uploaded'
          PROVE  FALSE
      <4>1. t.starts[j] \in Nat /\ Size(t, j) \in 0 .. 511
        BY <2>2, <2>3, ExchangeIs
      <4>2. uploaded' = 0
        BY DEF Anew
      <4>3. PICK s \in Nat : s = t.starts[j]
        BY <4>1
      <4> QED BY <3>2, <4>1, <4>2, <4>3
    <3> QED BY <2>3, <3>1, <3>2 DEF Sio2Answered
  <2>8. Sio2Chained'
    <3>1. RowsKnown(Clears(script'), pad'.responses)
      BY <2>1 DEF Anew
    <3>2. pad'.custom_response = 5 => Waits(Transfer', 0)
      BY <2>1 DEF Anew
    <3>3. Waits(Transfer', 0) => ReadWaits'
      BY <1>4 DEF ReadWaits
    <3> QED BY <3>1, <3>2, <3>3 DEF Sio2Chained
  <2> QED BY <2>5, <2>6, <2>7, <2>8
<1> QED BY <1>2, <1>5 DEF Sio2Inv

\* The next transfer: every reply is fetched, and no command waits for its operand.
LEMMA NextTransferKeeps ==
  ASSUME Sio2Inv, NextTransfer
  PROVE  Sio2Inv'
<1>1. ~Idle /\ stage = "fetch" /\ Sio2Types /\ Sio2Framed /\ Sio2Follows /\ Sio2Chained /\ Sio2Answered
  BY AtStage DEF NextTransfer, Sio2Inv
<1>2. Index = Count(Transfer) /\ Left = 0
  BY <1>1 DEF Sio2Framed
<1>3. Boundary(pad, Transfer, Count(Transfer))
  BY <1>1, <1>2 DEF Sio2Follows
<1>4. pad.custom_response # 4 /\ (pad.custom_response = 5 => Transfer.chained[Count(Transfer) + 1])
  <2>1. ASSUME LeftOver(Transfer, Count(Transfer)) PROVE FALSE
    <3>1. PICK i \in 1 .. Count(Transfer) : SetsResponse(Exchange(Transfer, i))
      BY <2>1 DEF LeftOver
    <3>2. ~Commands(Exchange(Transfer, i))
      BY <2>1 DEF LeftOver
    <3> QED BY <3>1, <3>2 DEF SetsResponse
  <2>2. pad.custom_response = 5 => Waits(Transfer, Count(Transfer))
    BY <1>1, <1>2 DEF Sio2Chained, ReadWaits
  <2> QED BY <1>3, <2>1, <2>2 DEF Boundary, Waits
<1>5. sio2_fifo = <<>>
  <2>1. PICK r \in Seq(Bytes) : r = received
    BY <1>1 DEF Sio2Types
  <2>2. PICK f \in Seq(Bytes) : f = sio2_fifo
    BY <1>1 DEF Sio2Types
  <2>3. Len(r \o f) = Len(r)
    BY <1>1, <2>1, <2>2 DEF NextTransfer, Sio2Answered, Replies
  <2> QED BY <2>1, <2>2, <2>3
<1>6. Anew
  BY <1>5 DEF NextTransfer, Anew, sio2Dev
<1>7. turn' = turn + 1 /\ turn \in 1 .. Len(Transfers) /\ Len(Transfers) \in Nat
  BY <1>1, TransferIs DEF NextTransfer
<1>8. turn' \in 1 .. Len(Transfers) + 1
  BY <1>7
<1>9. ASSUME turn' <= Len(Transfers)
      PROVE  /\ Described(Transfer') /\ Boundary(pad, Transfer', 0)
             /\ RowsKnown(Clears(script), pad.responses)
             /\ pad.custom_response = 5 => Waits(Transfer', 0)
  <2>1. turn < Len(Transfers)
    BY <1>7, <1>9
  <2>2. /\ Described(Transfers[turn + 1])
        /\ Transfers[turn + 1].modes[1] = Transfer.modes[Count(Transfer) + 1]
        /\ Transfers[turn + 1].chained[1] <=> Transfer.chained[Count(Transfer) + 1]
    BY <1>1, <2>1, NextTransferIs
  <2>3. Transfer' = Transfers[turn + 1]
    BY <1>7 DEF NextTransfer, Transfer, Transfers
  <2>4. ModesAre(pad, Transfer'.modes[0 + 1])
    BY <1>3, <2>2, <2>3 DEF Boundary
  <2>5. Boundary(pad, Transfer', 0)
    BY <1>4, <2>4 DEF Boundary
  <2>6. pad.custom_response = 5 => Transfer'.chained[0 + 1]
    BY <1>4, <2>2, <2>3
  <2> QED BY <1>1, <2>2, <2>3, <2>5, <2>6 DEF Sio2Chained, Waits
<1> QED BY <1>1, <1>6, <1>8, <1>9, AnewKeeps

\* What an exchange that is given up has set is there for the transfer's next attempt.
LEMMA LeftOverFirst ==
  ASSUME NEW t, NEW j \in Nat, LeftOver(t, j)
  PROVE  LeftOver(t, 0)
BY DEF LeftOver

\* The driver begins again: the transfer changes no mode, so the pad is as it found it.
LEMMA GiveUpKeeps ==
  ASSUME Sio2Inv, GiveUp
  PROVE  Sio2Inv'
<1>1. ~Idle /\ stage = "upload" /\ Sio2Types /\ Sio2Framed /\ Sio2Follows
  BY AtStage DEF GiveUp, Sio2Inv
<1>2. Repeatable(Transfer)
  BY DEF GiveUp
<1>3. PICK t : t = Transfer
  OBVIOUS
<1>4. Described(t) /\ turn \in 1 .. Len(Transfers) /\ Len(Transfers) \in Nat
  BY <1>1, <1>3, TransferIs
<1>5. PICK n \in Nat : n = Index
  <2>1. Index \in 0 .. Count(t)
    BY <1>1, <1>3 DEF Sio2Framed
  <2> QED BY <2>1
<1>6. t.modes[IF Left = 0 THEN n + 1 ELSE n] = t.modes[1]
  BY <1>1, <1>2, <1>3, <1>5 DEF Sio2Framed
<1>7. Boundary(pad, t, 0)
  <2>1. CASE Left = 0
    <3>1. Boundary(pad, t, n)
      BY <1>1, <1>3, <1>5, <2>1 DEF Sio2Follows
    <3>2. pad.custom_response = 4 => LeftOver(t, 0)
      BY <3>1, LeftOverFirst DEF Boundary
    <3>3. ModesAre(pad, t.modes[0 + 1])
      BY <1>6, <2>1, <3>1 DEF Boundary
    <3> QED BY <3>2, <3>3 DEF Boundary
  <2>2. CASE Left # 0
    <3>1. n \in 1 .. Count(t) /\ t.modes[n] = t.modes[1]
      <4>1. Index # 0 /\ Index \in 0 .. Count(t)
        BY <1>1, <1>3, <2>2 DEF Sio2Framed
      <4> QED BY <1>5, <1>6, <2>2, <4>1
    <3>2. PICK e : e = Exchange(t, n)
      OBVIOUS
    <3>3. PICK d : d = Done
      OBVIOUS
    <3>4. PICK m : m = t.modes[1]
      OBVIOUS
    <3>5. \/ e[1] = Controller /\ InExchange(pad, m, e, d)
          \/ e[1] = MemCard /\ Boundary(pad, t, n - 1)
      BY <1>1, <1>3, <1>5, <2>2, <3>1, <3>2, <3>3, <3>4 DEF Sio2Follows, Current
    <3>6. SetsResponse(e) => LeftOver(t, 0)
      BY <1>2, <1>3, <3>1, <3>2 DEF LeftOver
    <3>7. CASE e[1] = MemCard /\ Boundary(pad, t, n - 1)
      <4>1. n - 1 \in Nat /\ (n - 1) + 1 = n
        BY <3>1
      <4>2. pad.custom_response = 4 => LeftOver(t, 0)
        BY <3>7, <4>1, LeftOverFirst DEF Boundary
      <4>3. ModesAre(pad, t.modes[0 + 1])
        BY <3>1, <3>7, <4>1 DEF Boundary
      <4> QED BY <4>2, <4>3 DEF Boundary
    <3>8. CASE InExchange(pad, m, e, d)
      <4>1. d \in Nat /\ d >= 1
        BY <1>1, <3>8 DEF InExchange, Sio2Types, PadOK, PadType
      <4>2. ModesAre(pad, m) /\ (pad.custom_response = 4 => SetsResponse(e))
        <5>1. CASE d = 1
          BY <3>8, <5>1 DEF InExchange, Named
        <5>2. CASE d \in {2, 3}
          BY <3>8, <5>2 DEF InExchange, Commanded
        <5>3. CASE d >= 4
          <6>1. Lawful(m, e) /\ ModesAre(pad, Became(m, e)) /\ pad.custom_response # 4
            BY <3>8, <5>3 DEF InExchange, Answering
          <6>2. Became(m, e) = m
            BY <1>2, <1>3, <1>4, <3>1, <3>2, <6>1, RepeatableBecomes
          <6> QED BY <6>1, <6>2
        <5> QED BY <4>1, <5>1, <5>2, <5>3
      <4>3. ModesAre(pad, t.modes[0 + 1])
        BY <3>4, <4>2
      <4> QED BY <3>6, <4>2, <4>3 DEF Boundary
    <3> QED BY <3>5, <3>7, <3>8
  <2> QED BY <2>1, <2>2
<1>8. Anew
  BY DEF GiveUp, Anew, sio2Dev
<1>9. Transfer' = t /\ turn' = turn
  BY <1>3 DEF GiveUp, Transfer, Transfers
<1>10. turn' \in 1 .. Len(Transfers) + 1
  BY <1>4, <1>9
<1>11. RowsKnown(Clears(script), pad.responses) /\ (pad.custom_response = 5 => Waits(t, 0))
  BY <1>1, <1>2, <1>3 DEF Sio2Inv, Sio2Chained
<1>12. /\ Described(Transfer') /\ Boundary(pad, Transfer', 0)
       /\ pad.custom_response = 5 => Waits(Transfer', 0)
  BY <1>4, <1>7, <1>9, <1>11
<1> QED BY <1>1, <1>8, <1>10, <1>11, <1>12, AnewKeeps

\* The SIO2 as it was reset, and its driver before its first transfer.
LEMMA Sio2InitInv ==
  ASSUME Sio2Init
  PROVE  Sio2Inv
<1>1. script \in Sio2Scripts /\ turn = 1 /\ stage = "reset"
  BY DEF Sio2Init
<1>2. /\ Len(Transfers) \in Nat /\ DOMAIN Transfers = 1 .. Len(Transfers)
      /\ Transfers # <<>> => Transfers[1].modes[1] = [config_mode |-> FALSE, mode |-> Digital]
      /\ \A k \in DOMAIN Transfers : Described(Transfers[k])
  BY <1>1, Sio2ScriptsAssumption DEF Transfers
<1>3. PadOK(pad)
  <2>1. pad = GamepadInit
    BY DEF Sio2Init
  <2>2. \A r \in 0 .. 15 : GamepadInit.responses[r] \in [0 .. 17 -> Bytes]
    <3>1. /\ Row(QueryModelRow) \in [0 .. 17 -> Bytes] /\ Row(QueryCombRow) \in [0 .. 17 -> Bytes]
          /\ Row(Zeros) \in [0 .. 17 -> Bytes]
      BY SMTT(30) DEF Row, QueryModelRow, QueryCombRow, Zeros, Bytes
    <3> QED BY <3>1 DEF GamepadInit
  <2>3. GamepadInit \in PadType
    <3>1. GamepadInit.responses \in [0 .. 15 -> [0 .. 17 -> Bytes]]
      BY <2>2 DEF GamepadInit
    <3>2. PICK rows \in [0 .. 15 -> [0 .. 17 -> Bytes]] : rows = GamepadInit.responses
      BY <3>1
    <3>3. GamepadInit =
            [written |-> 0, custom_response |-> -1, response |-> "none", command |-> 0,
             mode |-> 0, config_mode |-> FALSE, responses |-> rows]
      BY <3>2 DEF GamepadInit, Digital
    <3>4. 0 \in Nat /\ -1 \in {-1, 4, 5} /\ "none" \in Responses /\ 0 \in Bytes
          /\ 0 \in {0, 1} /\ FALSE \in BOOLEAN
      BY SMTT(40) DEF Responses, Bytes
    <3>5. \A w \in Nat, cr \in {-1, 4, 5}, rs \in Responses, cmd \in Bytes, md \in {0, 1}, cm \in BOOLEAN :
            [written |-> w, custom_response |-> cr, response |-> rs, command |-> cmd,
             mode |-> md, config_mode |-> cm, responses |-> rows] \in PadType
      BY <3>2 DEF PadType
    <3>6. PICK cr : cr = -1
      OBVIOUS
    <3>7. GamepadInit =
            [written |-> 0, custom_response |-> cr, response |-> "none", command |-> 0,
             mode |-> 0, config_mode |-> FALSE, responses |-> rows]
      BY <3>3, <3>6
    <3>8. cr \in {-1, 4, 5}
      BY <3>6
    <3> QED BY <3>4, <3>5, <3>7, <3>8, Zenon
  <2>4. Tables(GamepadInit.responses)
    BY DEF GamepadInit, Tables, Row, QueryModelRow, QueryCombRow, Zeros
  <2>5. GamepadInit.custom_response = -1
    BY DEF GamepadInit
  <2> QED BY <2>1, <2>3, <2>4, <2>5 DEF PadOK
<1>4. Sio2Types
  <2>1. command \in [index : 0 .. Slots, size : 0 .. 511]
    <3>1. 0 \in 0 .. Slots /\ 0 \in 0 .. 511
      BY Sio2ScriptsAssumption
    <3> QED BY <3>1 DEF Sio2Init
  <2>2. turn \in 1 .. Len(Transfers) + 1
    BY <1>1, <1>2
  <2>3. /\ sio2_halted = FALSE /\ DOMAIN send3 = 0 .. Slots - 1
        /\ uploaded \in Nat /\ sio2_fifo \in Seq(Bytes) /\ received \in Seq(Bytes)
    BY DEF Sio2Init
  <2> QED BY <1>1, <1>3, <2>1, <2>2, <2>3 DEF Sio2Types
<1>5. ~Begun
  BY <1>1 DEF Begun
<1>6. Index = 0 /\ Left = 0
  BY <1>5 DEF Index, Left
<1>7. ASSUME ~Idle PROVE Sio2Framed /\ Sio2Follows /\ Sio2Chained /\ Sio2Answered
  <2>1. PICK t : t = Transfer
    OBVIOUS
  <2>2. Described(t) /\ t.modes[1] = [config_mode |-> FALSE, mode |-> Digital]
    <3>1. ~ (1 > Len(Transfers))
      BY <1>1, <1>7 DEF Idle
    <3>2. 1 \in DOMAIN Transfers /\ Transfers # <<>>
      BY <1>2, <3>1
    <3> QED BY <1>1, <1>2, <2>1, <3>2 DEF Transfer
  <2>3. Count(t) \in Nat /\ t.starts[1] = 0
    <3>1. Count(t) \in 1 .. Slots /\ t.starts[1] = 0 /\ Slots \in Nat
      BY <2>2, Sio2ScriptsAssumption DEF Described
    <3> QED BY <3>1
  <2>4. uploaded = 0 /\ received = <<>> /\ sio2_fifo = <<>> /\ pad = GamepadInit
    BY DEF Sio2Init
  <2>5. Sio2Framed
    <3>1. Index \in 0 .. Count(t) /\ Left \in 0 .. 511 /\ Index + 1 = 1
      BY <1>6, <2>3
    <3>2. uploaded = t.starts[Index + 1] - Left
      BY <1>6, <2>3, <2>4, <3>1
    <3>3. t.modes[IF Left = 0 THEN Index + 1 ELSE Index] = t.modes[1]
      BY <1>6, <3>1
    <3> QED BY <1>1, <1>5, <1>6, <2>1, <3>1, <3>2, <3>3 DEF Sio2Framed
  <2>6. Sio2Follows
    <3>1. pad.config_mode = FALSE /\ pad.mode = Digital /\ pad.custom_response # 4
      BY <2>4 DEF GamepadInit
    <3>2. t.modes[1].config_mode = FALSE /\ t.modes[1].mode = Digital /\ 0 + 1 = 1
      BY <2>2
    <3>3. ModesAre(pad, t.modes[0 + 1])
      BY <3>1, <3>2 DEF ModesAre
    <3>4. Boundary(pad, t, 0)
      BY <3>1, <3>3 DEF Boundary
    <3> QED BY <1>6, <2>1, <3>4 DEF Sio2Follows
  <2>7. Sio2Answered
    <3>1. Replies = <<>> /\ Len(Replies) = uploaded
      BY <2>4 DEF Replies
    <3>2. ASSUME NEW j \in 1 .. Count(t), NEW i \in 1 .. Size(t, j), t.starts[j] + i <= uploaded
          PROVE  FALSE
      <4>1. t.starts[j] \in Nat /\ Size(t, j) \in 0 .. 511
        BY <2>2, ExchangeIs
      <4>2. PICK s \in Nat : s = t.starts[j]
        BY <4>1
      <4> QED BY <2>4, <3>2, <4>1, <4>2
    <3> QED BY <2>1, <3>1, <3>2 DEF Sio2Answered
  <2>8. Sio2Chained
    <3>1. GamepadInit.custom_response # 5
      BY DEF GamepadInit
    <3>2. GamepadInit.responses[5][1] = 2 /\ GamepadInit.responses[7][1] = 0
      BY DEF GamepadInit, Row, QueryModelRow, QueryCombRow
    <3> QED BY <2>4, <3>1, <3>2 DEF Sio2Chained, RowsKnown
  <2> QED BY <2>5, <2>6, <2>7, <2>8
<1> QED BY <1>4, <1>7 DEF Sio2Inv

\* Nothing moves.
LEMMA Sio2Stutters ==
  ASSUME Sio2Inv, UNCHANGED sio2Vars
  PROVE  Sio2Inv'
<1>1. /\ UNCHANGED <<send3, command, current_device, sio2_fifo, pad, sio2_halted,
                     script, turn, stage, uploaded, received>>
  BY DEF sio2Vars, sio2Dev, sio2Drv
<1>2. Sio2Types /\ Sio2Types'
  BY <1>1 DEF Sio2Inv, Sio2Types, Transfers
<1>3. Transfer' = Transfer /\ Index' = Index /\ Left' = Left
  BY <1>1 DEF Transfer, Transfers, Index, Left, Begun
<1>4. ASSUME ~Idle' PROVE Sio2Framed' /\ Sio2Follows' /\ Sio2Chained' /\ Sio2Answered'
  <2>1. Sio2Framed /\ Sio2Follows /\ Sio2Chained /\ Sio2Answered
    BY <1>1, <1>4 DEF Idle, Transfers, Sio2Inv
  <2>2. Replies' = Replies
    BY <1>1 DEF Replies
  <2>3. Sio2Framed'
    BY <1>1, <1>3, <2>1 DEF Sio2Framed, Current, Begun
  <2> QED BY <1>1, <1>3, <2>1, <2>2, <2>3, FollowsKept, ChainedKept, AnsweredKept
<1> QED BY <1>2, <1>4 DEF Sio2Inv

\* The driver and the pad stay in step: the SIO2 counts the exchanges that were described,
\* the pad is in the one its driver is in and in the modes the driver knows, what no
\* command writes in its tables is as it was built, the driver knows when a read of the
\* buttons is chained, byte 2 of the tables of QUERY_MODEL and QUERY_COMB is as it was
\* built if the driver clears such reads, and one that enters config mode before the
\* commands that ask for it is never refused.
THEOREM Sio2Invariant == Sio2Spec => []Sio2Inv
<1>1. Sio2Init => Sio2Inv
  BY Sio2InitInv
<1>2. Sio2Inv /\ [Sio2Next]_sio2Vars => Sio2Inv'
  <2> SUFFICES ASSUME Sio2Inv, [Sio2Next]_sio2Vars
               PROVE  Sio2Inv'
    OBVIOUS
  <2>1. CASE ResetSio2
    BY <2>1, ResetKeeps
  <2>2. CASE WriteSend3
    BY <2>2, WriteSend3Keeps
  <2>3. CASE UploadPad
    BY <2>3, UploadPadKeeps
  <2>4. CASE UploadCard
    BY <2>4, UploadCardKeeps
  <2>5. CASE UploadRefused
    BY <2>5, RefusedKeeps
  <2>6. CASE StartSio2
    BY <2>6, StartKeeps
  <2>7. CASE Sio2Interrupt
    BY <2>7, InterruptKeeps
  <2>8. CASE ReadFifo
    BY <2>8, ReadFifoKeeps
  <2>9. CASE NextTransfer
    BY <2>9, NextTransferKeeps
  <2>10. CASE GiveUp
    BY <2>10, GiveUpKeeps
  <2>11. CASE UNCHANGED sio2Vars
    BY <2>11, Sio2Stutters
  <2> QED BY <2>1, <2>2, <2>3, <2>4, <2>5, <2>6, <2>7, <2>8, <2>9, <2>10, <2>11 DEF Sio2Next, Sio2Steps
<1> QED BY <1>1, <1>2, PTL DEF Sio2Spec

\* Each byte gets the reply of the exchange it belongs to, in order, through every change
\* of the pad's modes and every repetition of a transfer (RepliesOwn): the exact byte for
\* a driver that clears chained reads (Clears), and for any other the exact byte everywhere
\* but at byte 2 of QUERY_MODEL and QUERY_COMB, where it may get the buttons (gamepad.cc:51).
THEOREM Sio2RepliesOwn == Sio2Spec => []RepliesOwn
<1>1. Sio2Inv => RepliesOwn
  <2> SUFFICES ASSUME Sio2Inv
               PROVE  RepliesOwn
    OBVIOUS
  <2>1. Sio2Types
    BY DEF Sio2Inv
  <2>2. Sio2TypeOK
    <3>1. /\ pad.custom_response \in {-1, 4, 5} /\ pad.written \in Nat
          /\ pad.config_mode \in BOOLEAN /\ pad.mode \in {0, 1}
          /\ pad.responses \in [0 .. 15 -> [0 .. 17 -> Bytes]]
      BY <2>1 DEF Sio2Types, PadOK, PadType
    <3>2. \A r \in 0 .. 15 : \A i \in 0 .. 17 : pad.responses[r][i] \in 0 .. 255
      <4>1. PICK rows \in [0 .. 15 -> [0 .. 17 -> Bytes]] : rows = pad.responses
        BY <3>1
      <4>2. \A r \in 0 .. 15 : \A i \in 0 .. 17 : rows[r][i] \in Bytes
        OBVIOUS
      <4> QED BY <4>1, <4>2 DEF Bytes
    <3>3. command.index \in 0 .. Slots /\ command.size \in 0 .. 511
      BY <2>1 DEF Sio2Types
    <3> QED BY <2>1, <3>1, <3>2, <3>3 DEF Sio2TypeOK, Sio2Types, Bytes
  <2>3. ASSUME script.legal, turn <= Len(Transfers) PROVE Sio2Answered
    <3>1. turn \in 1 .. Len(Transfers) + 1 /\ Len(Transfers) \in Nat
      <4>1. script \in Sio2Scripts /\ turn \in 1 .. Len(Transfers) + 1
        BY <2>1 DEF Sio2Types
      <4> QED BY <4>1, Sio2ScriptsAssumption DEF Transfers
    <3>2. ~ (turn > Len(Transfers)) /\ ~sio2_halted
      BY <2>1, <2>3, <3>1 DEF Sio2Types
    <3> QED BY <3>2 DEF Sio2Inv, Idle
  <2> QED BY <2>2, <2>3 DEF RepliesOwn, Sio2Answered, Replies
<1> QED BY <1>1, Sio2Invariant, PTL
=============================================================================
