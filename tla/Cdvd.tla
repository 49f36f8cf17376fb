-------------------------------- MODULE Cdvd --------------------------------
(***************************************************************************)
(* The CDVD controller's S commands, src/media/cdvd.cc, and the drivers of *)
(* the IOP that share it.                                                  *)
(***************************************************************************)
EXTENDS Integers, SequencesExt

CONSTANTS
  CdvdLimit    \* bound on how many commands the drivers send

VARIABLES
  S,           \* the S commands: [command, ready, params, result]; ready is bit 6 of the
               \* status
  cdvd_halted,
  caller,      \* what the driver at work is doing,
  answer,      \* and what it has been told
  commands     \* how many commands were sent

cdvdVars == <<S, cdvd_halted, caller, answer, commands>>

ForbidDVD == 21
OpenConfig == 64
ReadConfig == 65
CloseConfig == 67
Known == {ForbidDVD, OpenConfig, ReadConfig, CloseConfig}
Unknown == 3

\* The results of a command.
ResultOf(cmd) ==
  CASE cmd = ForbidDVD  -> <<5>>
    [] cmd = OpenConfig -> <<0>>
    [] cmd = ReadConfig -> [i \in 1 .. 16 |-> 0]
    [] cmd = CloseConfig -> <<0>>

CdvdInit ==
  /\ S = [command |-> 0, ready |-> TRUE, params |-> <<>>, result |-> <<>>]
  /\ cdvd_halted = FALSE /\ caller = "flush" /\ answer = <<>> /\ commands = 0

SCommands ==
  [command : Known \cup {0, Unknown}, ready : BOOLEAN, params : Seq({1}), result : Seq(Nat)]

CdvdTypeOK ==
  /\ S \in SCommands
  /\ Len(S.result) <= 16 /\ Len(S.params) <= 1
  /\ cdvd_halted \in BOOLEAN /\ answer \in Seq(Nat) /\ commands \in Nat
  /\ caller \in {"flush", "params", "command", "read"}

\* Mutant of Taken: the status tells of the last result before it is read.
TakenEarly == [S EXCEPT !.result = Tail(@), !.ready = Len(S.result) <= 2 \/ S.ready]

\* read_S_result.
Taken == [S EXCEPT !.result = Tail(@), !.ready = (Len(S.result) = 1 \/ S.ready)]

CdvdStep(from) == ~cdvd_halted /\ caller = from /\ UNCHANGED commands

\* A driver first reads what another has left behind.
Flush ==
  /\ CdvdStep("flush")
  /\ IF S.ready THEN S' = S /\ caller' = "params"
     ELSE S' = (IF S.result = <<>> THEN S ELSE Taken) /\ UNCHANGED caller
  /\ answer' = <<>> /\ UNCHANGED cdvd_halted

WriteParam ==
  /\ CdvdStep("params")
  /\ \/ S' = [S EXCEPT !.params = Append(@, 1)] \/ S' = S
  /\ caller' = "command" /\ UNCHANGED <<answer, cdvd_halted>>

\* process_S_command.
SCommand(cmd) ==
  /\ ~cdvd_halted /\ caller = "command" /\ commands < CdvdLimit
  /\ commands' = commands + 1
  /\ IF cmd \in Known
     THEN /\ S' = [command |-> cmd, ready |-> FALSE, params |-> <<>>, result |-> S.result \o ResultOf(cmd)]
          /\ UNCHANGED cdvd_halted
     ELSE S' = [S EXCEPT !.command = cmd, !.ready = FALSE] /\ cdvd_halted' = TRUE
  /\ caller' = "read" /\ UNCHANGED answer

\* The driver reads as long as the status says that there is something.
ReadResult ==
  /\ CdvdStep("read") /\ ~S.ready
  /\ S' = (IF S.result = <<>> THEN S ELSE Taken)
  /\ answer' = Append(answer, IF S.result = <<>> THEN 0 ELSE Head(S.result))
  /\ UNCHANGED <<caller, cdvd_halted>>

\* It returns, or gives up with results unread, and the next driver begins.
Return ==
  /\ CdvdStep("read")
  /\ caller' = "flush" /\ UNCHANGED <<S, answer, cdvd_halted>>

CdvdWorks == Flush \/ WriteParam \/ (\E cmd \in Known \cup {Unknown} : SCommand(cmd)) \/ ReadResult
CdvdNext  == CdvdWorks \/ Return

CdvdSpec == CdvdInit /\ [][CdvdNext]_cdvdVars /\ WF_cdvdVars(CdvdWorks)

-----------------------------------------------------------------------------
\* A driver reads the results of its own command from the first one on, whatever the
\* driver before it left unread; and when the status says that nothing is left, it has
\* all of them.
AnswersOwn ==
  /\ CdvdTypeOK
  /\ caller = "read" /\ ~cdvd_halted =>
       /\ IsPrefix(answer, ResultOf(S.command))
       /\ S.ready => answer = ResultOf(S.command)

\* A driver that waits for the status does not wait for ever.
StatusTurns == ~S.ready ~> (S.ready \/ cdvd_halted)
=============================================================================
