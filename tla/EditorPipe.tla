----------------------------- MODULE EditorPipe -----------------------------
(***************************************************************************)
(* A level under test, and the editor it comes from: lib/InterProcess and  *)
(* what editor/editor.cpp does with it.  The editor is another process.    *)
(* The thread of EditorPipe reads what it sends, the game's thread asks it *)
(* for the level and carries out its commands.                             *)
(*                                                                         *)
(* A level is a sequence of parts.  The editor here is one that keeps to   *)
(* the protocol: it answers one request after the other and sends nothing  *)
(* else before a level is complete.  It may go away at any point.          *)
(***************************************************************************)
EXTENDS Integers, SequencesExt

CONSTANTS
  CommandKinds,     \* of the editor's commands, MsgBox among them
  NumParts,         \* the parts of a level
  MaxAttempts,      \* how often the game asks again before it gives up: 4
  MagicHand,        \* --magic-hand, a switch apart from --interprocessing
  MaxTests,         \* bound: levels tested
  MaxCommands       \* bound: commands sent

ASSUME KindsAssumption ==
  "MsgBox" \in CommandKinds /\ CommandKinds \cap {"none", "SEND_LVLX", "DATA", "PARSE_LVLX"} = {}
ASSUME PartsAssumption == NumParts \in Nat \ {0}
ASSUME HandAssumption == MagicHand \in BOOLEAN
ASSUME BoundsAssumption == MaxAttempts \in Nat /\ MaxTests \in Nat /\ MaxCommands \in Nat

VARIABLES
  to_game, to_editor,   \* stdin and stdout of the game
  serving,              \* the editor: the request it answers, what of the level is left
  editor_here,
  reader,               \* the message that the reader thread is at
  m_doAcceptLevelData, m_doAcceptLevelDataParts,
  m_acceptedRawData, m_accepted_lvl_path,
  m_acceptedLevel,      \* a place in the raw data: it keeps no copy
  m_levelAccepted,
  s_cmd_queue, s_cmd_recentType, s_has_command,
  game,                 \* where the game thread is
  elapsed,              \* 1500 ms have gone by
  attempts,
  level,                \* what the game has read: [path, parts]
  tests, asks, sent, done   \* history: tests and requests, commands sent and carried out

editor_vars == <<serving, editor_here>>
level_vars  == <<m_doAcceptLevelData, m_doAcceptLevelDataParts, m_acceptedRawData,
                 m_accepted_lvl_path, m_acceptedLevel>>
cmd_vars    == <<s_cmd_queue, s_cmd_recentType, s_has_command>>
wait_vars   == <<elapsed, attempts, tests, asks>>
vars == <<to_game, to_editor, editor_vars, reader, level_vars, m_levelAccepted, cmd_vars, game,
          wait_vars, level, sent, done>>

NoMessage == [kind |-> "none"]
NoLevel   == [path |-> 0, parts |-> <<>>]

\* The level as it was when the editor was asked.
Whole(ask) == [k \in 1..NumParts |-> <<ask, k>>]

-----------------------------------------------------------------------------
(* The editor.                                                             *)

NotServing == [ask |-> 0, left |-> <<>>]

IsRequest(message) == message.kind = "CONNECT"

Answer ==
  /\ editor_here /\ serving = NotServing
  /\ \E m \in DOMAIN to_editor :
       /\ IsRequest(to_editor[m]) /\ \A k \in 1..(m - 1) : ~IsRequest(to_editor[k])
       /\ serving' = [ask |-> to_editor[m].ask, left |-> Whole(to_editor[m].ask)]
       /\ to_editor' = RemoveAt(to_editor, m)
  /\ \E parts \in BOOLEAN :
       to_game' = Append(to_game, [kind |-> "SEND_LVLX", path |-> serving'.ask, parts |-> parts])
  /\ UNCHANGED <<editor_here, reader, level_vars, m_levelAccepted, cmd_vars, game, wait_vars, level,
                 sent, done>>

\* READY is answered with the level and its end, READY_PARTS and LVLX_NEXT with one
\* part or the end.  A request that comes before waits.
Serve(m) ==
  /\ editor_here /\ serving # NotServing
  /\ m \in DOMAIN to_editor /\ ~IsRequest(to_editor[m])
  /\ to_editor' = RemoveAt(to_editor, m)
  /\ LET some == IF to_editor[m].kind = "READY" \/ serving.left = <<>> THEN serving.left
                 ELSE <<Head(serving.left)>>
         data == IF some = <<>> THEN <<>> ELSE << [kind |-> "DATA", parts |-> some] >>
         ends == some = <<>> \/ to_editor[m].kind = "READY"
     IN /\ to_game' = to_game \o data \o (IF ends THEN << [kind |-> "PARSE_LVLX"] >> ELSE <<>>)
        /\ serving' = IF ends THEN NotServing
                      ELSE [serving EXCEPT !.left = Tail(@)]
  /\ UNCHANGED <<editor_here, reader, level_vars, m_levelAccepted, cmd_vars, game, wait_vars, level,
                 sent, done>>

SendCommand ==
  /\ editor_here /\ serving = NotServing /\ game # "over"
  /\ Len(sent) < MaxCommands
  /\ \E kind \in CommandKinds :
       /\ sent' = Append(sent, kind)
       /\ to_game' = Append(to_game, [kind |-> kind, number |-> Len(sent')])
  /\ UNCHANGED <<to_editor, editor_vars, reader, level_vars, m_levelAccepted, cmd_vars, game,
                 wait_vars, level, done>>

GoAway ==
  /\ editor_here /\ game # "over"
  /\ editor_here' = FALSE /\ serving' = NotServing /\ to_editor' = <<>>
  /\ UNCHANGED <<to_game, reader, level_vars, m_levelAccepted, cmd_vars, game, wait_vars, level,
                 sent, done>>

Sent(message) == IF editor_here THEN Append(to_editor, message) ELSE <<>>

-----------------------------------------------------------------------------
(* The reader thread: EditorPipe::icomingData.                             *)

\* PARSE_LVLX ends the data before anything else is looked at.
StillAccepting == m_doAcceptLevelData    \* mutant: it does not
Accepting == m_doAcceptLevelData /\ Head(to_game).kind # "PARSE_LVLX"

Receive ==
  /\ reader = NoMessage /\ to_game # <<>>
  /\ to_game' = Tail(to_game)
  /\ m_doAcceptLevelData' = Accepting
  /\ LET m == Head(to_game)
     IN \/ \* Any message is a part of the level.
           /\ Accepting
           /\ m_acceptedRawData' = m_acceptedRawData \o (IF m.kind = "DATA" THEN m.parts ELSE << <<0, 0>> >>)
           /\ to_editor' = IF m_doAcceptLevelDataParts THEN Sent([kind |-> "LVLX_NEXT"])
                           ELSE to_editor
           /\ UNCHANGED reader
        \/ \* SEND_LVLX, PARSE_LVLX and the commands go on.
           /\ ~Accepting /\ m.kind # "DATA"
           /\ reader' = m
           /\ UNCHANGED <<m_acceptedRawData, to_editor>>
        \/ \* Data that nobody announced.
           /\ ~Accepting /\ m.kind = "DATA"
           /\ UNCHANGED <<reader, m_acceptedRawData, to_editor>>
  /\ UNCHANGED <<editor_vars, m_doAcceptLevelDataParts, m_accepted_lvl_path, m_acceptedLevel,
                 m_levelAccepted, cmd_vars, game, wait_vars, level, sent, done>>

\* SEND_LVLX and SEND_LVLX_PARTS.
BeginLevel ==
  /\ reader.kind = "SEND_LVLX"
  /\ reader' = NoMessage
  /\ m_doAcceptLevelDataParts' = reader.parts
  /\ m_acceptedRawData' = <<>>
  /\ m_accepted_lvl_path' = reader.path
  /\ m_doAcceptLevelData' = TRUE
  /\ to_editor' = Sent([kind |-> IF reader.parts THEN "READY_PARTS" ELSE "READY"])
  /\ UNCHANGED <<to_game, editor_vars, m_acceptedLevel, m_levelAccepted, cmd_vars, game, wait_vars,
                 level, sent, done>>

EndLevel ==
  /\ reader.kind = "PARSE_LVLX"
  /\ reader' = NoMessage
  /\ m_doAcceptLevelDataParts' = FALSE
  /\ m_acceptedLevel' = 0
  /\ m_levelAccepted' = TRUE
  /\ UNCHANGED <<to_game, to_editor, editor_vars, m_doAcceptLevelData, m_acceptedRawData,
                 m_accepted_lvl_path, cmd_vars, game, wait_vars, level, sent, done>>

\* s_cmd_mutex, which the game holds while the player reads a message.
Locked == game = "message"

KeptType(kind)   == s_cmd_recentType     \* mutant: the type is only set when one is taken
StoredType(kind) == kind

Ahead(queue, command)  == <<command>> \o queue   \* mutant: at the end that it is taken from
Behind(queue, command) == Append(queue, command)

storeCommand ==
  /\ reader.kind \in CommandKinds
  /\ ~Locked
  /\ reader' = NoMessage
  /\ s_cmd_queue' = Behind(s_cmd_queue, [number |-> reader.number, type |-> reader.kind])
  /\ s_cmd_recentType' = StoredType(reader.kind)
  /\ s_has_command' = TRUE
  /\ UNCHANGED <<to_game, to_editor, editor_vars, level_vars, m_levelAccepted, game, wait_vars,
                 level, sent, done>>

-----------------------------------------------------------------------------
(* The game: zTestLevel.                                                   *)

Connect ==
  /\ asks' = asks + 1
  /\ to_editor' = Sent([kind |-> "CONNECT", ask |-> asks'])
  /\ elapsed' = FALSE

zTestLevel ==
  /\ game = "idle" /\ tests < MaxTests
  /\ game' = "wait"
  /\ Connect /\ attempts' = 0 /\ tests' = tests + 1
  /\ UNCHANGED <<to_game, editor_vars, reader, level_vars, m_levelAccepted, cmd_vars, level, sent, done>>

Elapse ==
  /\ game \in {"wait", "check"} /\ ~elapsed
  /\ elapsed' = TRUE
  /\ UNCHANGED <<to_game, to_editor, editor_vars, reader, level_vars, m_levelAccepted, cmd_vars,
                 game, attempts, tests, asks, level, sent, done>>

NotTaken == m_levelAccepted              \* mutant: the level stays there for the next test
Taken    == FALSE

hasLevelData ==
  /\ game = "wait"
  /\ game' = IF m_levelAccepted THEN "open" ELSE "check"
  /\ m_levelAccepted' = Taken
  /\ UNCHANGED <<to_game, to_editor, editor_vars, reader, level_vars, cmd_vars, wait_vars, level,
                 sent, done>>

AskAgain ==
  /\ game = "check"
  /\ ~m_doAcceptLevelData /\ elapsed
  /\ Connect /\ attempts' = attempts + 1
  /\ game' = IF attempts' > MaxAttempts THEN "over" ELSE "wait"
  /\ UNCHANGED <<to_game, editor_vars, reader, level_vars, m_levelAccepted, cmd_vars, tests, level,
                 sent, done>>

WaitOn ==
  /\ game = "check"
  /\ m_doAcceptLevelData \/ ~elapsed
  /\ game' = "wait"
  /\ UNCHANGED <<to_game, to_editor, editor_vars, reader, level_vars, m_levelAccepted, cmd_vars,
                 wait_vars, level, sent, done>>

OpenLevelData ==
  /\ game = "open"
  /\ game' = "read"
  /\ level' = [path |-> m_accepted_lvl_path, parts |-> <<>>]
  /\ UNCHANGED <<to_game, to_editor, editor_vars, reader, level_vars, m_levelAccepted, cmd_vars,
                 wait_vars, sent, done>>

ReadPart ==
  /\ game = "read"
  /\ m_acceptedLevel < Len(m_acceptedRawData)
  /\ m_acceptedLevel' = m_acceptedLevel + 1
  /\ level' = [level EXCEPT !.parts = Append(@, m_acceptedRawData[m_acceptedLevel'])]
  /\ UNCHANGED <<to_game, to_editor, editor_vars, reader, m_doAcceptLevelData,
                 m_doAcceptLevelDataParts, m_acceptedRawData, m_accepted_lvl_path, m_levelAccepted,
                 cmd_vars, game, wait_vars, sent, done>>

\* A file that is not valid ends the game; which ones are found out is left open.
ReadEnd ==
  /\ game = "read"
  /\ m_acceptedLevel >= Len(m_acceptedRawData)
  /\ game' = "play" \/ (game' = "over" /\ level # [path |-> tests, parts |-> Whole(tests)])
  /\ UNCHANGED <<to_game, to_editor, editor_vars, reader, level_vars, m_levelAccepted, cmd_vars,
                 wait_vars, level, sent, done>>

\* The level is left, or the window is closed.
Leave ==
  /\ game \in {"play", "wait"}
  /\ game' = "over" \/ (game = "play" /\ game' = "idle")
  /\ level' = NoLevel
  /\ UNCHANGED <<to_game, to_editor, editor_vars, reader, level_vars, m_levelAccepted, cmd_vars,
                 wait_vars, sent, done>>

-----------------------------------------------------------------------------
(* UpdateInterprocess: the next command, once a frame, as the kind that    *)
(* commandType says.  Only UpdateEditor calls it, and GameLoop calls that  *)
(* only with MagicHand and in a frame that is not paused.                  *)

UpdateEditor == game = "play" /\ MagicHand

FlagCleared == FALSE                     \* mutant: one was taken, so none is left
FlagAfter   == Len(s_cmd_queue) > 1

UpdateInterprocess ==
  /\ UpdateEditor /\ s_has_command
  /\ LET cmd  == Head(s_cmd_queue)
         rest == Tail(s_cmd_queue)
     IN /\ s_cmd_queue' = rest
        /\ s_cmd_recentType' = IF rest = <<>> THEN s_cmd_recentType ELSE Head(rest).type
        /\ s_has_command' = FlagAfter
        /\ done' = Append(done, [number |-> cmd.number, as |-> s_cmd_recentType,
                                 alone |-> rest = <<>>])
  /\ game' = IF s_cmd_recentType = "MsgBox" THEN "message" ELSE game
  /\ UNCHANGED <<to_game, to_editor, editor_vars, reader, level_vars, m_levelAccepted, wait_vars,
                 level, sent>>

\* The player pauses the game, or it has a message of its own.
Pause ==
  /\ game = "play"
  /\ game' = "pause"
  /\ UNCHANGED <<to_game, to_editor, editor_vars, reader, level_vars, m_levelAccepted, cmd_vars,
                 wait_vars, level, sent, done>>

CloseMessage ==
  /\ game \in {"message", "pause"}
  /\ game' = "play"
  /\ UNCHANGED <<to_game, to_editor, editor_vars, reader, level_vars, m_levelAccepted, cmd_vars,
                 wait_vars, level, sent, done>>

-----------------------------------------------------------------------------
Init ==
  /\ to_game = <<>> /\ to_editor = <<>> /\ serving = NotServing /\ editor_here = TRUE
  /\ reader = NoMessage
  /\ m_doAcceptLevelData = FALSE /\ m_doAcceptLevelDataParts = FALSE
  /\ m_acceptedRawData = <<>> /\ m_accepted_lvl_path = 0 /\ m_acceptedLevel = 0
  /\ m_levelAccepted = FALSE
  /\ s_cmd_queue = <<>> /\ s_cmd_recentType = "MsgBox" /\ s_has_command = FALSE
  /\ game = "idle" /\ elapsed = FALSE /\ attempts = 0 /\ level = NoLevel
  /\ tests = 0 /\ asks = 0 /\ sent = <<>> /\ done = <<>>

Editor == Answer \/ (\E m \in DOMAIN to_editor : Serve(m))
Reader == Receive \/ BeginLevel \/ EndLevel \/ storeCommand
Waiting == hasLevelData \/ AskAgain \/ WaitOn
Loading == OpenLevelData \/ ReadPart \/ ReadEnd

Next ==
  \/ Editor \/ SendCommand \/ GoAway \/ Reader
  \/ zTestLevel \/ Elapse \/ Waiting \/ Loading \/ Leave
  \/ UpdateInterprocess \/ Pause \/ CloseMessage

Spec == Init /\ [][Next]_vars

\* Threads run, time goes by, the player closes messages and ends pauses, and an
\* editor that is there answers.  A game that is paused again and again comes to
\* UpdateEditor in between: it is the first that a frame calls.
FairSpec ==
  Spec /\ WF_vars(Editor) /\ WF_vars(Reader) /\ WF_vars(Elapse) /\ WF_vars(Waiting)
       /\ WF_vars(Loading) /\ SF_vars(UpdateInterprocess) /\ WF_vars(CloseMessage)

-----------------------------------------------------------------------------
(* Properties.                                                             *)

Playing == game \in {"play", "pause", "message"}

\* A level that is played is the whole level that was asked for, under its own name,
\* if no test has asked twice: nothing of the test before it, and no part missing.
LevelWhole ==
  Playing /\ asks = tests => level = [path |-> tests, parts |-> Whole(tests)]

IsCommand(message) == message.kind \in CommandKinds
Received == Len(done) + Len(s_cmd_queue) + (IF IsCommand(reader) THEN 1 ELSE 0)

\* Every command is carried out once, in the order they were sent, or still on its way:
\* none is taken for a part of a level, dropped between the threads or done twice.
CommandsInOrder ==
  /\ \A k \in DOMAIN done : done[k].number = k
  /\ \A k \in DOMAIN s_cmd_queue : s_cmd_queue[k].number = Len(done) + k
  /\ IsCommand(reader) => reader.number = Received
  /\ \A n \in (Received + 1)..Len(sent) :
       \E m \in DOMAIN to_game : IsCommand(to_game[m]) /\ to_game[m].number = n
  /\ \A m \in DOMAIN to_game : IsCommand(to_game[m]) =>
       /\ to_game[m].number \in (Received + 1)..Len(sent)
       /\ \A l \in 1..(m - 1) : IsCommand(to_game[l]) => to_game[l].number < to_game[m].number

\* One that is alone when it is carried out is carried out as what it is.
AloneAsSent == \A k \in DOMAIN done : done[k].alone => done[k].as = sent[done[k].number]

\* With MagicHand, what is sent while a level is played is carried out unless the level
\* is left, whatever else arrives: a message that the player reads stops the editor's
\* thread, and a pause the game's, but not for good.
CommandsDone ==
  MagicHand => \A n \in 1..MaxCommands : Len(sent) >= n ~> (Len(done) >= n \/ ~Playing)

\* A game that waits for its level gets it or gives up, but for one case: the editor
\* has gone away in the middle of it.
WaitEnds ==
  game \in {"wait", "check"} ~> (game \notin {"wait", "check"} \/ (m_doAcceptLevelData /\ ~editor_here))
=============================================================================
