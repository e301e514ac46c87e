-------------------------- MODULE EditorPipeProofs --------------------------
(***************************************************************************)
(* What reaches a level under test from its editor, proved for every number *)
(* of tests, commands and parts of a level, and every schedule of the      *)
(* editor, the thread that reads its messages, and the game.               *)
(***************************************************************************)
EXTENDS EditorPipe, SequenceTheorems, TLAPS

-----------------------------------------------------------------------------
(* Types.                                                                  *)

Part    == Nat \X Nat
Command == [kind : CommandKinds, number : Nat]
Announcement == [kind : {"SEND_LVLX"}, path : Nat, parts : BOOLEAN]
Data    == [kind : {"DATA"}, parts : Seq(Part)]
Closing == [kind : {"PARSE_LVLX"}]
Message == Command \cup Announcement \cup Data \cup Closing
Request == [kind : {"CONNECT"}, ask : Nat \ {0}]
Reply   == [kind : {"READY", "READY_PARTS", "LVLX_NEXT"}]

PipeTypeOK ==
  /\ to_game \in Seq(Message) /\ to_editor \in Seq(Request \cup Reply)
  /\ serving \in [ask : Nat, left : Seq(Part)]
  /\ editor_here \in BOOLEAN
  /\ reader \in Command \cup Announcement \cup Closing \cup {NoMessage}
  /\ m_doAcceptLevelData \in BOOLEAN /\ m_doAcceptLevelDataParts \in BOOLEAN
  /\ m_acceptedRawData \in Seq(Part) /\ m_accepted_lvl_path \in Nat
  /\ m_acceptedLevel \in Nat /\ m_levelAccepted \in BOOLEAN
CommandTypeOK ==
  /\ s_cmd_queue \in Seq([number : Nat, type : CommandKinds])
  /\ s_cmd_recentType \in CommandKinds /\ s_has_command \in BOOLEAN
  /\ sent \in Seq(CommandKinds)
  /\ done \in Seq([number : Nat, as : CommandKinds, alone : BOOLEAN])
GameTypeOK ==
  /\ game \in {"idle", "wait", "check", "open", "read", "play", "pause", "message", "over"}
  /\ elapsed \in BOOLEAN /\ attempts \in Nat
  /\ level \in [path : Nat, parts : Seq(Part)]
  /\ tests \in Nat /\ asks \in Nat
TypeOK == PipeTypeOK /\ CommandTypeOK /\ GameTypeOK

-----------------------------------------------------------------------------
(* The invariant.                                                          *)

Has(queue, kind) == \E m \in 1..Len(queue) : queue[m].kind = kind
InData(queue) == IF queue # <<>> /\ queue[1].kind = "DATA" THEN queue[1].parts ELSE <<>>

\* Between the beginning of a level and its end there is nothing but its data.
Framed(queue, accept) ==
  \A m \in 1..Len(queue) :
    /\ queue[m].kind = "DATA" => m = 1 /\ accept
    /\ queue[m].kind = "PARSE_LVLX" => accept /\ (m = 1 \/ (m = 2 /\ queue[1].kind = "DATA"))
    /\ queue[m].kind = "SEND_LVLX" => m = Len(queue)
    /\ queue[m].kind \notin {"DATA", "PARSE_LVLX"} /\ accept =>
         \E k \in 1..(m - 1) : queue[k].kind = "PARSE_LVLX"
Framing ==
  /\ Framed(to_game, m_doAcceptLevelData)
  /\ reader.kind = "SEND_LVLX" => to_game = <<>>
  /\ m_doAcceptLevelData => reader = NoMessage
  /\ serving # NotServing => serving.ask # 0

AllRequests(queue) == \A m \in 1..Len(queue) : IsRequest(queue[m])
OneReply(queue, kinds) ==
  \E m \in 1..Len(queue) :
    /\ queue[m].kind \in kinds
    /\ \A l \in 1..Len(queue) : l # m => IsRequest(queue[l])
Awaited == IF m_doAcceptLevelDataParts THEN {"READY_PARTS", "LVLX_NEXT"} ELSE {"READY"}

\* What the editor that answers a request waits for, or the game waits for.
Gone      == ~editor_here /\ serving = NotServing /\ to_editor = <<>>
Resting   == /\ editor_here /\ serving = NotServing /\ AllRequests(to_editor)
             /\ ~Has(to_game, "SEND_LVLX") /\ reader.kind # "SEND_LVLX"
             /\ m_doAcceptLevelData => Has(to_game, "PARSE_LVLX")
             /\ Has(to_game, "DATA") => ~m_doAcceptLevelDataParts
Announced == /\ editor_here /\ serving # NotServing /\ AllRequests(to_editor)
             /\ to_game # <<>> /\ to_game[Len(to_game)].kind = "SEND_LVLX"
             /\ to_game[Len(to_game)].path = serving.ask
             /\ serving.left = Whole(serving.ask)
             /\ Has(to_game, "DATA") => ~m_doAcceptLevelDataParts
Noticed   == /\ editor_here /\ serving # NotServing /\ AllRequests(to_editor)
             /\ reader.kind = "SEND_LVLX" /\ reader.path = serving.ask
             /\ serving.left = Whole(serving.ask)
Asked     == /\ editor_here /\ serving # NotServing
             /\ OneReply(to_editor, Awaited)
             /\ m_doAcceptLevelData /\ to_game = <<>>
             /\ m_accepted_lvl_path = serving.ask
             /\ m_acceptedRawData \o serving.left = Whole(serving.ask)
PartSent  == /\ editor_here /\ serving # NotServing /\ AllRequests(to_editor)
             /\ m_doAcceptLevelData /\ m_doAcceptLevelDataParts
             /\ Len(to_game) = 1 /\ to_game[1].kind = "DATA"
             /\ m_accepted_lvl_path = serving.ask
             /\ m_acceptedRawData \o (to_game[1].parts \o serving.left) = Whole(serving.ask)
Turn == Gone \/ Resting \/ Announced \/ Noticed \/ Asked \/ PartSent

\* What has been received of a level is the level, once its end has been sent.
Content ==
  /\ Has(to_game, "PARSE_LVLX") =>
       m_acceptedRawData \o InData(to_game) = Whole(m_accepted_lvl_path)
  /\ ~m_doAcceptLevelData /\ m_accepted_lvl_path # 0 =>
       m_acceptedRawData = Whole(m_accepted_lvl_path)

\* A test that asked once: its level is in one place.
Requested == Has(to_editor, "CONNECT")
Incoming  == \/ serving # NotServing \/ m_doAcceptLevelData
             \/ reader.kind \in {"SEND_LVLX", "PARSE_LVLX"}
             \/ Has(to_game, "SEND_LVLX")
OneRequest(queue, ask) ==
  \A m \in 1..Len(queue) : IsRequest(queue[m]) =>
    queue[m].ask = ask /\ \A l \in 1..Len(queue) : IsRequest(queue[l]) => l = m
AllOpen(queue, path) ==
  \A m \in 1..Len(queue) : queue[m].kind = "SEND_LVLX" => queue[m].path = path
OnePlace ==
  /\ Requested => ~Incoming /\ ~m_levelAccepted
  /\ Incoming => ~m_levelAccepted
  /\ reader.kind = "PARSE_LVLX" \/ Has(to_game, "PARSE_LVLX") =>
       serving = NotServing /\ ~Has(to_game, "SEND_LVLX")
  /\ Requested \/ Incoming \/ m_levelAccepted => game \in {"wait", "check"}
  /\ OneRequest(to_editor, tests)
Named ==
  /\ serving # NotServing => serving.ask = tests
  /\ AllOpen(to_game, tests)
  /\ reader.kind = "SEND_LVLX" => reader.path = tests
  /\ m_doAcceptLevelData \/ reader.kind = "PARSE_LVLX" \/ m_levelAccepted
       \/ game \in {"open", "read"} => m_accepted_lvl_path = tests
  /\ m_levelAccepted \/ game = "open" => m_acceptedLevel = 0
  /\ game # "idle" => tests > 0
LevelRead ==
  /\ game = "read" => /\ level.path = tests /\ m_acceptedLevel <= Len(m_acceptedRawData)
                      /\ level.parts = SubSeq(m_acceptedRawData, 1, m_acceptedLevel)
  /\ Playing => level = [path |-> tests, parts |-> Whole(tests)]

OnceAsked == asks = tests /\ game # "over" => OnePlace /\ Named /\ LevelRead

\* The kinds of the commands.
KindsKept ==
  /\ \A m \in 1..Len(to_game) : IsCommand(to_game[m]) =>
       to_game[m].number \in 1..Len(sent) /\ to_game[m].kind = sent[to_game[m].number]
  /\ IsCommand(reader) =>
       reader.number \in 1..Len(sent) /\ reader.kind = sent[reader.number]
  /\ \A k \in 1..Len(s_cmd_queue) :
       /\ s_cmd_queue[k].number \in 1..Len(sent)
       /\ s_cmd_queue[k].type = sent[s_cmd_queue[k].number]
  /\ \A k \in 1..Len(done) : done[k].number \in 1..Len(sent)
  /\ Len(s_cmd_queue) = 1 => s_cmd_recentType = s_cmd_queue[1].type
  /\ s_has_command => s_cmd_queue # <<>>

PipeInv ==
  /\ TypeOK /\ Framing /\ Turn /\ Content
  /\ asks >= tests /\ OnceAsked
  /\ CommandsInOrder /\ KindsKept /\ AloneAsSent

-----------------------------------------------------------------------------
(* Messages and sequences.                                                 *)

USE DEF editor_vars, level_vars, cmd_vars, wait_vars

LEMMA MessageKinds ==
  ASSUME NEW m \in Message
  PROVE  /\ IsCommand(m) => m \in Command
         /\ m.kind = "SEND_LVLX" => m \in Announcement
         /\ m.kind = "DATA" => m \in Data
         /\ m.kind = "PARSE_LVLX" => m \in Closing
         /\ IsCommand(m) \/ m.kind \in {"SEND_LVLX", "DATA", "PARSE_LVLX"}
         /\ m.kind # "none"
BY KindsAssumption DEF Message, Command, Announcement, Data, Closing, IsCommand

LEMMA CommandFields ==
  /\ \A m \in Command : m.number \in Nat /\ m.kind \in CommandKinds /\ IsCommand(m)
  /\ \A m \in Announcement : m.kind = "SEND_LVLX" /\ m.path \in Nat /\ m.parts \in BOOLEAN
  /\ \A m \in Data : m.kind = "DATA" /\ m.parts \in Seq(Part)
  /\ \A m \in Closing : m.kind = "PARSE_LVLX"
BY DEF Command, Announcement, Data, Closing, IsCommand

LEMMA ReaderKinds ==
  ASSUME reader \in Command \cup Announcement \cup Closing \cup {NoMessage}
  PROVE  /\ IsCommand(reader) => reader \in Command
         /\ reader.kind = "SEND_LVLX" => reader \in Announcement
         /\ reader.kind = "PARSE_LVLX" => reader \in Closing
         /\ reader # NoMessage => reader.kind # "none"
         /\ reader.kind # "none" => reader # NoMessage
BY KindsAssumption DEF Command, Announcement, Closing, IsCommand, NoMessage

LEMMA NoMessageKind ==
  ~IsCommand(NoMessage) /\ NoMessage.kind = "none"
BY KindsAssumption DEF NoMessage, IsCommand

LEMMA RequestKinds ==
  /\ \A r \in Request : IsRequest(r) /\ r.ask \in Nat \ {0}
  /\ \A r \in Reply : ~IsRequest(r) /\ r.kind \in {"READY", "READY_PARTS", "LVLX_NEXT"}
BY DEF Request, Reply, IsRequest

LEMMA AppendAt ==
  ASSUME NEW S, NEW s \in Seq(S), NEW x \in S
  PROVE  /\ Append(s, x) \in Seq(S) /\ Len(Append(s, x)) = Len(s) + 1 /\ Len(s) \in Nat
         /\ Append(s, x)[Len(s) + 1] = x
         /\ \A i \in 1..Len(s) : Append(s, x)[i] = s[i]
OBVIOUS

LEMMA TailAt ==
  ASSUME NEW S, NEW s \in Seq(S), s # <<>>
  PROVE  /\ Head(s) \in S /\ Head(s) = s[1] /\ 1 \in 1..Len(s) /\ Len(s) \in Nat
         /\ Tail(s) \in Seq(S) /\ Len(Tail(s)) = Len(s) - 1
         /\ \A i \in 1..Len(Tail(s)) : i + 1 \in 1..Len(s) /\ Tail(s)[i] = s[i + 1]
OBVIOUS

LEMMA RemoveAtAt ==
  ASSUME NEW S, NEW s \in Seq(S), NEW m \in 1..Len(s)
  PROVE  /\ RemoveAt(s, m) \in Seq(S) /\ Len(RemoveAt(s, m)) = Len(s) - 1
         /\ \A i \in 1..Len(RemoveAt(s, m)) :
              LET j == IF i < m THEN i ELSE i + 1
              IN j \in 1..Len(s) /\ j # m /\ RemoveAt(s, m)[i] = s[j]
<1>1. /\ Len(s) \in Nat /\ m \in Nat
      /\ SubSeq(s, 1, m - 1) \in Seq(S) /\ Len(SubSeq(s, 1, m - 1)) = m - 1
      /\ SubSeq(s, m + 1, Len(s)) \in Seq(S) /\ Len(SubSeq(s, m + 1, Len(s))) = Len(s) - m
      /\ \A i \in 1..(m - 1) : SubSeq(s, 1, m - 1)[i] = s[i]
      /\ \A i \in 1..(Len(s) - m) : SubSeq(s, m + 1, Len(s))[i] = s[m + i]
  OBVIOUS
<1> DEFINE a == SubSeq(s, 1, m - 1)
           b == SubSeq(s, m + 1, Len(s))
<1>2. RemoveAt(s, m) = a \o b
  BY DEF RemoveAt
<1> HIDE DEF a, b
<1>3. a \in Seq(S) /\ b \in Seq(S) /\ Len(a) = m - 1 /\ Len(b) = Len(s) - m
  BY <1>1 DEF a, b
<1>4. /\ a \o b \in Seq(S) /\ Len(a \o b) = Len(a) + Len(b)
      /\ \A i \in 1..(Len(a) + Len(b)) : (a \o b)[i] = IF i <= Len(a) THEN a[i] ELSE b[i - Len(a)]
  BY <1>3, ConcatProperties
<1>5. ASSUME NEW i \in 1..(Len(s) - 1)
      PROVE  LET j == IF i < m THEN i ELSE i + 1
             IN j \in 1..Len(s) /\ j # m /\ RemoveAt(s, m)[i] = s[j]
  <2>1. CASE i < m
    <3>1. i <= Len(a) /\ i \in 1..(m - 1) /\ i \in 1..(Len(a) + Len(b))
      BY <1>1, <1>3, <2>1
    <3> QED BY <1>1, <1>2, <1>4, <2>1, <3>1 DEF a
  <2>2. CASE ~(i < m)
    <3>1. ~(i <= m - 1) /\ i - (m - 1) \in 1..(Len(s) - m)
          /\ i \in 1..((m - 1) + (Len(s) - m))
          /\ m + (i - (m - 1)) = i + 1 /\ i + 1 \in 1..Len(s) /\ i + 1 # m
      BY <1>1, <2>2
    <3>2. RemoveAt(s, m)[i] = b[i - (m - 1)]
      BY <1>2, <1>3, <1>4, <3>1
    <3>3. b[i - (m - 1)] = s[m + (i - (m - 1))]
      BY <1>1, <3>1 DEF b
    <3> QED BY <2>2, <3>1, <3>2, <3>3
  <2> QED BY <2>1, <2>2
<1>6. Len(a \o b) = Len(s) - 1
  BY <1>1, <1>3, <1>4
<1> QED BY <1>2, <1>4, <1>5, <1>6

LEMMA WholeIs ==
  ASSUME NEW ask \in Nat
  PROVE  Whole(ask) \in Seq(Part) /\ Whole(ask) # <<>>
<1>1. NumParts \in Nat /\ NumParts >= 1
  BY PartsAssumption
<1>2. \A k \in 1..NumParts : <<ask, k>> \in Part
  BY <1>1 DEF Part
<1>3. Whole(ask) \in [1..NumParts -> Part]
  BY <1>2 DEF Whole
<1>4. Whole(ask) \in Seq(Part) /\ Len(Whole(ask)) = NumParts
  BY <1>1, <1>3
<1> QED BY <1>1, <1>4

LEMMA SentIs ==
  ASSUME to_editor \in Seq(Request \cup Reply), NEW r \in Request \cup Reply
  PROVE  /\ Sent(r) \in Seq(Request \cup Reply)
         /\ editor_here => Sent(r) = Append(to_editor, r)
         /\ ~editor_here => Sent(r) = <<>>
BY DEF Sent

-----------------------------------------------------------------------------
(* Types.                                                                  *)

LEMMA EmptyIsSeq == \A S : <<>> \in Seq(S)
OBVIOUS

LEMMA InitTypes == Init => TypeOK
<1> SUFFICES ASSUME Init PROVE TypeOK
  OBVIOUS
<1>1. NotServing \in [ask : Nat, left : Seq(Part)] /\ NoLevel \in [path : Nat, parts : Seq(Part)]
  BY DEF NotServing, NoLevel
<1>2. PipeTypeOK
  <2>1. to_game \in Seq(Message) /\ to_editor \in Seq(Request \cup Reply) /\ m_acceptedRawData \in Seq(Part)
    BY EmptyIsSeq DEF Init
  <2>2. reader \in Command \cup Announcement \cup Closing \cup {NoMessage}
    BY DEF Init
  <2> QED BY <1>1, <2>1, <2>2 DEF Init, PipeTypeOK
<1>3. CommandTypeOK
  <2>1. /\ s_cmd_queue \in Seq([number : Nat, type : CommandKinds])
        /\ sent \in Seq(CommandKinds)
        /\ done \in Seq([number : Nat, as : CommandKinds, alone : BOOLEAN])
    BY EmptyIsSeq, Zenon DEF Init
  <2>2. s_cmd_recentType \in CommandKinds /\ s_has_command \in BOOLEAN
    BY KindsAssumption DEF Init
  <2> QED BY <2>1, <2>2 DEF CommandTypeOK
<1>4. GameTypeOK
  BY <1>1 DEF Init, GameTypeOK
<1> QED BY <1>2, <1>3, <1>4 DEF TypeOK

\* What the steps of one part leave alone.
PipeStays ==
  /\ to_game' = to_game /\ to_editor' = to_editor /\ serving' = serving
  /\ editor_here' = editor_here /\ reader' = reader
  /\ m_doAcceptLevelData' = m_doAcceptLevelData
  /\ m_doAcceptLevelDataParts' = m_doAcceptLevelDataParts
  /\ m_acceptedRawData' = m_acceptedRawData
  /\ m_accepted_lvl_path' = m_accepted_lvl_path
CommandsStay ==
  /\ s_cmd_queue' = s_cmd_queue /\ s_cmd_recentType' = s_cmd_recentType
  /\ s_has_command' = s_has_command /\ sent' = sent /\ done' = done
GameStays ==
  /\ game' = game /\ level' = level /\ tests' = tests /\ asks' = asks
  /\ elapsed' = elapsed /\ attempts' = attempts
LevelStays ==
  m_acceptedLevel' = m_acceptedLevel /\ m_levelAccepted' = m_levelAccepted

LEMMA StaysTypes ==
  /\ PipeTypeOK /\ PipeStays /\ LevelStays => PipeTypeOK'
  /\ CommandTypeOK /\ CommandsStay => CommandTypeOK'
  /\ GameTypeOK /\ GameStays => GameTypeOK'
BY DEF PipeTypeOK, CommandTypeOK, GameTypeOK, PipeStays, LevelStays, CommandsStay, GameStays

\* Who changes what.
EditorStep == Answer \/ (\E m \in DOMAIN to_editor : Serve(m)) \/ GoAway
LoaderStep == \/ Elapse \/ hasLevelData \/ WaitOn \/ OpenLevelData \/ ReadPart \/ ReadEnd
              \/ Leave
PlayerStep == Pause \/ CloseMessage

LEMMA Scopes ==
  /\ EditorStep => CommandsStay /\ GameStays /\ LevelStays
  /\ SendCommand => GameStays /\ LevelStays
  /\ Receive \/ BeginLevel => CommandsStay /\ GameStays /\ LevelStays
  /\ EndLevel => CommandsStay /\ GameStays
  /\ storeCommand => GameStays /\ LevelStays
  /\ zTestLevel \/ AskAgain => CommandsStay /\ LevelStays
  /\ LoaderStep => PipeStays /\ CommandsStay
  /\ UpdateInterprocess => PipeStays /\ LevelStays
  /\ PlayerStep => PipeStays /\ LevelStays /\ CommandsStay
  /\ UNCHANGED vars => PipeStays /\ LevelStays /\ CommandsStay /\ GameStays
<1>1. EditorStep => CommandsStay /\ GameStays /\ LevelStays
  BY DEF EditorStep, Answer, Serve, GoAway, CommandsStay, GameStays, LevelStays
<1>2. SendCommand => GameStays /\ LevelStays
  BY DEF SendCommand, GameStays, LevelStays
<1>3. Receive \/ BeginLevel => CommandsStay /\ GameStays /\ LevelStays
  BY DEF Receive, BeginLevel, CommandsStay, GameStays, LevelStays
<1>4. EndLevel => CommandsStay /\ GameStays
  BY DEF EndLevel, CommandsStay, GameStays
<1>5. storeCommand => GameStays /\ LevelStays
  BY DEF storeCommand, GameStays, LevelStays
<1>6. zTestLevel \/ AskAgain => CommandsStay /\ LevelStays
  BY DEF zTestLevel, AskAgain, Connect, CommandsStay, LevelStays
<1>7. LoaderStep => PipeStays /\ CommandsStay
  BY DEF LoaderStep, Elapse, hasLevelData, WaitOn, OpenLevelData, ReadPart, ReadEnd, Leave,
         PipeStays, CommandsStay
<1>8. UpdateInterprocess => PipeStays /\ LevelStays
  BY DEF UpdateInterprocess, PipeStays, LevelStays
<1>9. PlayerStep => PipeStays /\ LevelStays /\ CommandsStay
  BY DEF PlayerStep, Pause, CloseMessage, PipeStays, LevelStays, CommandsStay
<1>10. UNCHANGED vars => PipeStays /\ LevelStays /\ CommandsStay /\ GameStays
  BY DEF vars, PipeStays, LevelStays, CommandsStay, GameStays
<1> QED BY <1>1, <1>2, <1>3, <1>4, <1>5, <1>6, <1>7, <1>8, <1>9, <1>10

LEMMA EditorTypes ==
  ASSUME PipeTypeOK, EditorStep
  PROVE  PipeTypeOK'
<1>1. /\ to_game \in Seq(Message) /\ to_editor \in Seq(Request \cup Reply)
      /\ serving \in [ask : Nat, left : Seq(Part)]
  BY DEF PipeTypeOK
<1>2. /\ reader' = reader /\ m_doAcceptLevelData' = m_doAcceptLevelData
      /\ m_doAcceptLevelDataParts' = m_doAcceptLevelDataParts
      /\ m_acceptedRawData' = m_acceptedRawData /\ m_accepted_lvl_path' = m_accepted_lvl_path
      /\ m_acceptedLevel' = m_acceptedLevel /\ m_levelAccepted' = m_levelAccepted
  BY DEF EditorStep, Answer, Serve, GoAway
<1>3. SUFFICES /\ to_game' \in Seq(Message) /\ to_editor' \in Seq(Request \cup Reply)
               /\ serving' \in [ask : Nat, left : Seq(Part)] /\ editor_here' \in BOOLEAN
  BY <1>2 DEF PipeTypeOK
<1>4. NotServing \in [ask : Nat, left : Seq(Part)]
  BY DEF NotServing
<1>5. CASE Answer
  <2>1. PICK m \in 1..Len(to_editor) :
          /\ IsRequest(to_editor[m])
          /\ serving' = [ask |-> to_editor[m].ask, left |-> Whole(to_editor[m].ask)]
          /\ to_editor' = RemoveAt(to_editor, m)
    BY <1>1, <1>5 DEF Answer
  <2>2. to_editor[m] \in Request \cup Reply
    BY <1>1
  <2>3. to_editor[m].ask \in Nat
    BY <2>1, <2>2, RequestKinds
  <2>4. serving' \in [ask : Nat, left : Seq(Part)] /\ serving'.ask \in Nat
    BY <2>1, <2>3, WholeIs
  <2>5. PICK parts \in BOOLEAN :
          to_game' = Append(to_game, [kind |-> "SEND_LVLX", path |-> serving'.ask, parts |-> parts])
    BY <1>5 DEF Answer
  <2>6. [kind |-> "SEND_LVLX", path |-> serving'.ask, parts |-> parts] \in Message
    BY <2>4 DEF Message, Announcement
  <2>7. to_game' \in Seq(Message)
    BY <1>1, <2>5, <2>6
  <2>8. to_editor' \in Seq(Request \cup Reply)
    BY <1>1, <2>1, RemoveAtAt
  <2> QED BY <1>5, <2>4, <2>7, <2>8 DEF Answer, PipeTypeOK
<1>6. CASE \E m \in DOMAIN to_editor : Serve(m)
  <2>1. PICK m \in 1..Len(to_editor) : Serve(m)
    BY <1>1, <1>6
  <2> DEFINE some == IF to_editor[m].kind = "READY" \/ serving.left = <<>> THEN serving.left
                     ELSE <<Head(serving.left)>>
             data == IF some = <<>> THEN <<>> ELSE << [kind |-> "DATA", parts |-> some] >>
             ends == some = <<>> \/ to_editor[m].kind = "READY"
             end  == IF ends THEN << [kind |-> "PARSE_LVLX"] >> ELSE <<>>
  <2>2. /\ to_game' = to_game \o data \o end
        /\ serving' = IF ends THEN NotServing ELSE [serving EXCEPT !.left = Tail(@)]
        /\ to_editor' = RemoveAt(to_editor, m) /\ editor_here' = editor_here
    BY <2>1 DEF Serve
  <2>3. serving.left \in Seq(Part)
    BY <1>1
  <2>4. some \in Seq(Part)
    BY <2>3
  <2>5. ~ends => serving.left # <<>>
    OBVIOUS
  <2> HIDE DEF some, ends
  <2>6. [kind |-> "DATA", parts |-> some] \in Message /\ [kind |-> "PARSE_LVLX"] \in Message
    BY <2>4 DEF Message, Data, Closing
  <2>7. data \in Seq(Message) /\ end \in Seq(Message)
    BY <2>6
  <2> HIDE DEF data, end
  <2>8. to_game' \in Seq(Message)
    BY <1>1, <2>2, <2>7, ConcatProperties
  <2>9. serving' \in [ask : Nat, left : Seq(Part)]
    <3>1. ~ends => Tail(serving.left) \in Seq(Part)
      BY <2>3, <2>5, TailAt
    <3>2. ~ends => serving' = [serving EXCEPT !.left = Tail(serving.left)]
      BY <2>2
    <3>3. CASE ~ends
      BY <1>1, <3>1, <3>2, <3>3
    <3>4. CASE ends
      BY <1>4, <2>2, <3>4
    <3> QED BY <3>3, <3>4
  <2>10. to_editor' \in Seq(Request \cup Reply)
    BY <1>1, <2>2, RemoveAtAt
  <2> QED BY <2>2, <2>8, <2>9, <2>10 DEF PipeTypeOK
<1>7. CASE GoAway
  BY <1>1, <1>4, <1>7, EmptyIsSeq DEF GoAway
<1> QED BY <1>5, <1>6, <1>7 DEF EditorStep

LEMMA SendCommandTypes ==
  ASSUME PipeTypeOK, CommandTypeOK, SendCommand
  PROVE  PipeTypeOK' /\ CommandTypeOK'
<1>1. to_game \in Seq(Message) /\ sent \in Seq(CommandKinds)
  BY DEF PipeTypeOK, CommandTypeOK
<1>2. PICK kind \in CommandKinds :
        /\ sent' = Append(sent, kind)
        /\ to_game' = Append(to_game, [kind |-> kind, number |-> Len(sent')])
  BY DEF SendCommand
<1>3. sent' \in Seq(CommandKinds)
  BY <1>1, <1>2
<1>4. [kind |-> kind, number |-> Len(sent')] \in Message
  BY <1>3 DEF Message, Command
<1>5. to_game' \in Seq(Message)
  BY <1>1, <1>2, <1>4
<1>6. PipeTypeOK'
  BY <1>5 DEF SendCommand, PipeTypeOK
<1>7. CommandTypeOK'
  BY <1>3 DEF SendCommand, CommandTypeOK
<1> QED BY <1>6, <1>7

LEMMA ReceiveTypes ==
  ASSUME PipeTypeOK, Receive
  PROVE  PipeTypeOK'
<1> DEFINE h == Head(to_game)
           piece == IF h.kind = "DATA" THEN h.parts ELSE << <<0, 0>> >>
<1>1. /\ to_game \in Seq(Message) /\ to_editor \in Seq(Request \cup Reply)
      /\ m_acceptedRawData \in Seq(Part) /\ to_game # <<>>
  BY DEF PipeTypeOK, Receive
<1>2. /\ to_game' = Tail(to_game) /\ m_doAcceptLevelData' = Accepting
      /\ \/ /\ m_acceptedRawData' = m_acceptedRawData \o piece
            /\ to_editor' = IF m_doAcceptLevelDataParts THEN Sent([kind |-> "LVLX_NEXT"]) ELSE to_editor
            /\ reader' = reader
         \/ /\ h.kind # "DATA" /\ reader' = h
            /\ m_acceptedRawData' = m_acceptedRawData /\ to_editor' = to_editor
         \/ /\ reader' = reader
            /\ m_acceptedRawData' = m_acceptedRawData /\ to_editor' = to_editor
  BY DEF Receive
<1>3. h \in Message /\ to_game' \in Seq(Message)
  BY <1>1, <1>2, TailAt
<1> HIDE DEF h
<1>4. piece \in Seq(Part)
  <2>1. <<0, 0>> \in Part
    BY DEF Part
  <2>2. << <<0, 0>> >> \in Seq(Part)
    BY <2>1
  <2> QED BY <1>3, <2>2, MessageKinds, CommandFields
<1> HIDE DEF piece
<1>5. m_acceptedRawData' \in Seq(Part)
  BY <1>1, <1>2, <1>4, ConcatProperties
<1>6. to_editor' \in Seq(Request \cup Reply)
  <2>1. [kind |-> "LVLX_NEXT"] \in Request \cup Reply
    BY DEF Reply
  <2> QED BY <1>1, <1>2, <2>1, SentIs
<1>7. reader' \in Command \cup Announcement \cup Closing \cup {NoMessage}
  <2>1. h.kind # "DATA" => h \in Command \cup Announcement \cup Closing
    BY <1>3, MessageKinds
  <2> QED BY <1>2, <2>1 DEF PipeTypeOK
<1>8. m_doAcceptLevelData' \in BOOLEAN
  BY <1>2 DEF Accepting, PipeTypeOK
<1> QED BY <1>3, <1>5, <1>6, <1>7, <1>8 DEF PipeTypeOK, Receive

LEMMA ReaderTypes ==
  ASSUME TypeOK, BeginLevel \/ EndLevel \/ storeCommand
  PROVE  PipeTypeOK' /\ CommandTypeOK'
<1>1. /\ reader \in Command \cup Announcement \cup Closing \cup {NoMessage}
      /\ to_editor \in Seq(Request \cup Reply)
      /\ s_cmd_queue \in Seq([number : Nat, type : CommandKinds])
  BY DEF TypeOK, PipeTypeOK, CommandTypeOK
<1>2. reader' \in Command \cup Announcement \cup Closing \cup {NoMessage}
  BY DEF BeginLevel, EndLevel, storeCommand
<1>3. CASE BeginLevel
  <2>1. reader.path \in Nat /\ reader.parts \in BOOLEAN
    BY <1>1, <1>3, ReaderKinds, CommandFields DEF BeginLevel
  <2>2. [kind |-> IF reader.parts THEN "READY_PARTS" ELSE "READY"] \in Request \cup Reply
    BY DEF Reply
  <2>3. to_editor' \in Seq(Request \cup Reply)
    BY <1>1, <1>3, <2>2, SentIs DEF BeginLevel
  <2>4. PipeTypeOK'
    BY <1>2, <1>3, <2>1, <2>3, EmptyIsSeq DEF BeginLevel, TypeOK, PipeTypeOK
  <2> QED BY <1>3, <2>4, Scopes, StaysTypes DEF TypeOK
<1>4. CASE EndLevel
  <2>1. PipeTypeOK'
    BY <1>2, <1>4 DEF EndLevel, TypeOK, PipeTypeOK
  <2> QED BY <1>4, <2>1, Scopes, StaysTypes DEF TypeOK
<1>5. CASE storeCommand
  <2>1. PipeTypeOK'
    BY <1>2, <1>5 DEF storeCommand, TypeOK, PipeTypeOK
  <2>2. reader.number \in Nat /\ reader.kind \in CommandKinds
    BY <1>1, <1>5, ReaderKinds, CommandFields DEF storeCommand, IsCommand
  <2>3. [number |-> reader.number, type |-> reader.kind] \in [number : Nat, type : CommandKinds]
    BY <2>2
  <2>4. s_cmd_queue' \in Seq([number : Nat, type : CommandKinds])
    BY <1>1, <1>5, <2>3, AppendAt DEF storeCommand, Behind
  <2>5. CommandTypeOK'
    BY <1>5, <2>2, <2>4 DEF storeCommand, StoredType, TypeOK, CommandTypeOK
  <2> QED BY <2>1, <2>5
<1> QED BY <1>3, <1>4, <1>5

LEMMA ConnectTypes ==
  ASSUME TypeOK, zTestLevel \/ AskAgain
  PROVE  TypeOK'
<1>1. /\ to_editor \in Seq(Request \cup Reply) /\ asks \in Nat /\ tests \in Nat /\ attempts \in Nat
  BY DEF TypeOK, PipeTypeOK, GameTypeOK
<1>2. /\ asks' = asks + 1 /\ to_editor' = Sent([kind |-> "CONNECT", ask |-> asks'])
      /\ elapsed' = FALSE
  BY DEF zTestLevel, AskAgain, Connect
<1>3. [kind |-> "CONNECT", ask |-> asks'] \in Request \cup Reply
  BY <1>1, <1>2 DEF Request
<1>4. to_editor' \in Seq(Request \cup Reply)
  BY <1>1, <1>2, <1>3, SentIs
<1>5. PipeTypeOK'
  BY <1>4 DEF zTestLevel, AskAgain, Connect, TypeOK, PipeTypeOK
<1>6. CommandTypeOK'
  BY Scopes, StaysTypes DEF TypeOK
<1>7. GameTypeOK'
  <2>1. game' \in {"wait", "over"} /\ level' = level
    BY DEF zTestLevel, AskAgain
  <2>3. asks' = asks + 1 /\ elapsed' = FALSE
    BY <1>2
  <2>2. attempts' \in Nat /\ tests' \in Nat
    BY <1>1 DEF zTestLevel, AskAgain
  <2>4. asks' \in Nat
    BY <1>1, <2>3
  <2>5. elapsed' \in BOOLEAN
    BY <2>3, Zenon
  <2> QED BY <2>1, <2>2, <2>4, <2>5 DEF TypeOK, GameTypeOK
<1> QED BY <1>5, <1>6, <1>7 DEF TypeOK

LEMMA LoaderTypes ==
  ASSUME TypeOK, LoaderStep
  PROVE  TypeOK'
<1>1. /\ m_acceptedLevel \in Nat /\ m_acceptedRawData \in Seq(Part) /\ m_accepted_lvl_path \in Nat
      /\ level \in [path : Nat, parts : Seq(Part)]
  BY DEF TypeOK, PipeTypeOK, GameTypeOK
<1>2. PipeStays /\ CommandsStay
  BY Scopes
<1>3. /\ m_acceptedLevel' \in Nat /\ m_levelAccepted' \in BOOLEAN
  <2>1. m_levelAccepted' = m_levelAccepted \/ m_levelAccepted' = FALSE
    BY DEF LoaderStep, Elapse, hasLevelData, Taken, WaitOn, OpenLevelData, ReadPart, ReadEnd, Leave
  <2>2. m_acceptedLevel' = m_acceptedLevel \/ m_acceptedLevel' = m_acceptedLevel + 1
    BY DEF LoaderStep, Elapse, hasLevelData, WaitOn, OpenLevelData, ReadPart, ReadEnd, Leave
  <2>3. m_levelAccepted \in BOOLEAN
    BY DEF TypeOK, PipeTypeOK
  <2>4. m_levelAccepted' \in BOOLEAN
    BY <2>1, <2>3
  <2> QED BY <1>1, <2>2, <2>4
<1>4. PipeTypeOK'
  BY <1>2, <1>3 DEF TypeOK, PipeTypeOK, PipeStays
<1>5. /\ game' \in {"idle", "wait", "check", "open", "read", "play", "pause", "message", "over"}
      /\ elapsed' \in BOOLEAN /\ attempts' \in Nat /\ tests' \in Nat /\ asks' \in Nat
  BY DEF LoaderStep, Elapse, hasLevelData, WaitOn, OpenLevelData, ReadPart, ReadEnd,
     Leave, TypeOK, GameTypeOK
<1>6. level' \in [path : Nat, parts : Seq(Part)]
  <2>1. CASE ReadPart
    <3>1. m_acceptedLevel' \in 1..Len(m_acceptedRawData)
      BY <1>1, <2>1 DEF ReadPart
    <3>2. m_acceptedRawData[m_acceptedLevel'] \in Part
      BY <1>1, <3>1
    <3>3. level' = [level EXCEPT !.parts = Append(level.parts, m_acceptedRawData[m_acceptedLevel'])]
      BY <2>1 DEF ReadPart
    <3>4. level.parts \in Seq(Part)
      BY <1>1
    <3>5. Append(level.parts, m_acceptedRawData[m_acceptedLevel']) \in Seq(Part)
      BY <3>2, <3>4, AppendAt
    <3> QED BY <1>1, <3>3, <3>5
  <2>2. CASE OpenLevelData \/ Leave
    <3>1. <<>> \in Seq(Part)
      BY EmptyIsSeq
    <3>2. \/ level' = [path |-> m_accepted_lvl_path, parts |-> <<>>]
          \/ level' = [path |-> 0, parts |-> <<>>]
      BY <2>2 DEF OpenLevelData, Leave, NoLevel
    <3>3. \A n \in Nat, q \in Seq(Part) : [path |-> n, parts |-> q] \in [path : Nat, parts : Seq(Part)]
      OBVIOUS
    <3> QED BY <1>1, <3>1, <3>2, <3>3
  <2>3. CASE level' = level
    BY <1>1, <2>3
  <2> QED BY <2>1, <2>2, <2>3 DEF LoaderStep, Elapse, hasLevelData, WaitOn, ReadEnd
<1>7. GameTypeOK'
  BY <1>5, <1>6 DEF GameTypeOK
<1> QED BY <1>2, <1>4, <1>7, StaysTypes DEF TypeOK

LEMMA UpdateTypes ==
  ASSUME TypeOK, s_has_command => s_cmd_queue # <<>>, UpdateInterprocess
  PROVE  TypeOK'
<1> DEFINE C == [number : Nat, type : CommandKinds]
           D == [number : Nat, as : CommandKinds, alone : BOOLEAN]
           cmd  == Head(s_cmd_queue)
           rest == Tail(s_cmd_queue)
<1>1. /\ s_cmd_queue \in Seq(C) /\ s_cmd_queue # <<>> /\ done \in Seq(D)
      /\ s_cmd_recentType \in CommandKinds
  BY DEF TypeOK, CommandTypeOK, UpdateInterprocess
<1>2. /\ s_cmd_queue' = rest
      /\ s_cmd_recentType' = IF rest = <<>> THEN s_cmd_recentType ELSE Head(rest).type
      /\ s_has_command' \in BOOLEAN /\ sent' = sent
      /\ done' = Append(done, [number |-> cmd.number, as |-> s_cmd_recentType,
                               alone |-> rest = <<>>])
  BY DEF UpdateInterprocess, FlagAfter
<1>3. \A c \in C : c.number \in Nat /\ c.type \in CommandKinds
  OBVIOUS
<1> HIDE DEF C
<1>4. cmd \in C /\ rest \in Seq(C)
  BY <1>1, TailAt
<1>5. rest # <<>> => Head(rest) \in C
  BY <1>4, TailAt
<1> HIDE DEF cmd, rest
<1>6. s_cmd_recentType' \in CommandKinds
  BY <1>1, <1>2, <1>3, <1>5
<1>7. [number |-> cmd.number, as |-> s_cmd_recentType, alone |-> rest = <<>>] \in D
  BY <1>1, <1>3, <1>4
<1> HIDE DEF D
<1>8. done' \in Seq(D)
  BY <1>1, <1>2, <1>7
<1>9. CommandTypeOK'
  BY <1>2, <1>4, <1>6, <1>8 DEF TypeOK, CommandTypeOK, C, D
<1>10. GameTypeOK'
  BY DEF UpdateInterprocess, TypeOK, GameTypeOK
<1> QED BY <1>9, <1>10, Scopes, StaysTypes DEF TypeOK

LEMMA NextTypes ==
  ASSUME TypeOK, s_has_command => s_cmd_queue # <<>>, [Next]_vars
  PROVE  TypeOK'
<1>1. CASE EditorStep
  BY <1>1, EditorTypes, Scopes, StaysTypes DEF TypeOK
<1>2. CASE SendCommand
  BY <1>2, SendCommandTypes, Scopes, StaysTypes DEF TypeOK
<1>3. CASE Receive
  BY <1>3, ReceiveTypes, Scopes, StaysTypes DEF TypeOK
<1>4. CASE BeginLevel \/ EndLevel \/ storeCommand
  BY <1>4, ReaderTypes, Scopes, StaysTypes DEF TypeOK
<1>5. CASE zTestLevel \/ AskAgain
  BY <1>5, ConnectTypes
<1>6. CASE LoaderStep
  BY <1>6, LoaderTypes
<1>7. CASE UpdateInterprocess
  BY <1>7, UpdateTypes
<1>8. CASE PlayerStep
  <2>1. GameTypeOK'
    BY <1>8 DEF PlayerStep, Pause, CloseMessage, TypeOK, GameTypeOK
  <2> QED BY <1>8, <2>1, Scopes, StaysTypes DEF TypeOK
<1>9. CASE UNCHANGED vars
  BY <1>9, Scopes, StaysTypes DEF TypeOK
<1> QED BY <1>1, <1>2, <1>3, <1>4, <1>5, <1>6, <1>7, <1>8, <1>9
        DEF Next, Editor, Reader, Waiting, Loading, EditorStep, LoaderStep, PlayerStep

-----------------------------------------------------------------------------
(* The way of a level through the pipe.                                    *)

LEMMA PipeTypes ==
  ASSUME TypeOK
  PROVE  /\ to_game \in Seq(Message) /\ to_editor \in Seq(Request \cup Reply)
         /\ Len(to_game) \in Nat /\ Len(to_editor) \in Nat
         /\ DOMAIN to_game = 1..Len(to_game) /\ DOMAIN to_editor = 1..Len(to_editor)
         /\ serving \in [ask : Nat, left : Seq(Part)]
         /\ serving.ask \in Nat /\ serving.left \in Seq(Part)
         /\ m_acceptedRawData \in Seq(Part) /\ m_accepted_lvl_path \in Nat
         /\ reader \in Command \cup Announcement \cup Closing \cup {NoMessage}
         /\ editor_here \in BOOLEAN
         /\ m_doAcceptLevelData \in BOOLEAN /\ m_doAcceptLevelDataParts \in BOOLEAN
<1>1. /\ to_game \in Seq(Message) /\ to_editor \in Seq(Request \cup Reply)
      /\ serving \in [ask : Nat, left : Seq(Part)]
      /\ reader \in Command \cup Announcement \cup Closing \cup {NoMessage}
      /\ m_acceptedRawData \in Seq(Part) /\ m_accepted_lvl_path \in Nat
  BY DEF TypeOK, PipeTypeOK
<1>2. editor_here \in BOOLEAN
      /\ m_doAcceptLevelData \in BOOLEAN /\ m_doAcceptLevelDataParts \in BOOLEAN
  BY Zenon DEF TypeOK, PipeTypeOK
<1> QED BY <1>1, <1>2

\* What a message at the end changes, and one that is taken from the front.
LEMMA HasAppend ==
  ASSUME NEW S, NEW q \in Seq(S), NEW x \in S, NEW kind
  PROVE  Has(Append(q, x), kind) <=> Has(q, kind) \/ x.kind = kind
<1>1. /\ Len(Append(q, x)) = Len(q) + 1 /\ Len(q) \in Nat
      /\ Append(q, x)[Len(q) + 1] = x
      /\ \A i \in 1..Len(q) : Append(q, x)[i] = q[i]
  BY AppendAt
<1> QED BY <1>1 DEF Has

LEMMA HasTail ==
  ASSUME NEW S, NEW q \in Seq(S), q # <<>>, NEW kind
  PROVE  /\ Has(q, kind) <=> q[1].kind = kind \/ Has(Tail(q), kind)
         /\ q[1] = Head(q) /\ Head(q) \in S /\ Tail(q) \in Seq(S)
<1>1. /\ Head(q) \in S /\ Head(q) = q[1] /\ 1 \in 1..Len(q) /\ Len(q) \in Nat
      /\ Tail(q) \in Seq(S) /\ Len(Tail(q)) = Len(q) - 1
      /\ \A i \in 1..Len(Tail(q)) : i + 1 \in 1..Len(q) /\ Tail(q)[i] = q[i + 1]
  BY TailAt
<1>2. ASSUME NEW m \in 1..Len(q), m # 1
      PROVE  m - 1 \in 1..Len(Tail(q)) /\ Tail(q)[m - 1] = q[m]
  <2>1. m - 1 \in 1..Len(Tail(q)) /\ (m - 1) + 1 = m
    BY <1>1, <1>2
  <2> QED BY <1>1, <2>1
<1> QED BY <1>1, <1>2 DEF Has

LEMMA HasNone == \A kind : ~Has(<<>>, kind)
BY DEF Has

LEMMA FramedNone == \A accept : Framed(<<>>, accept)
BY DEF Framed

\* A command or the beginning of a level, behind all the others.
LEMMA FramedAppend ==
  ASSUME NEW q \in Seq(Message), NEW x \in Message, NEW accept \in BOOLEAN,
         Framed(q, accept), x.kind \notin {"DATA", "PARSE_LVLX"},
         ~Has(q, "SEND_LVLX"), accept => Has(q, "PARSE_LVLX")
  PROVE  Framed(Append(q, x), accept) /\ (Has(q, "PARSE_LVLX") => InData(Append(q, x)) = InData(q))
<1> DEFINE p == Append(q, x)
<1>1. /\ Len(p) = Len(q) + 1 /\ Len(q) \in Nat
      /\ p[Len(q) + 1] = x
      /\ \A i \in 1..Len(q) : p[i] = q[i]
  BY AppendAt
<1> HIDE DEF p
<1>2. ASSUME NEW m \in 1..Len(p)
      PROVE  /\ p[m].kind = "DATA" => m = 1 /\ accept
             /\ p[m].kind = "PARSE_LVLX" => accept /\ (m = 1 \/ (m = 2 /\ p[1].kind = "DATA"))
             /\ p[m].kind = "SEND_LVLX" => m = Len(p)
             /\ p[m].kind \notin {"DATA", "PARSE_LVLX"} /\ accept =>
                  \E k \in 1..(m - 1) : p[k].kind = "PARSE_LVLX"
  <2>1. CASE m = Len(q) + 1
    <3>1. (m - 1) = Len(q)
      BY <1>1, <2>1
    <3>2. accept => \E k \in 1..Len(q) : p[k].kind = "PARSE_LVLX"
      BY <1>1 DEF Has
    <3> QED BY <1>1, <2>1, <3>1, <3>2
  <2>2. CASE m # Len(q) + 1
    <3>1. m \in 1..Len(q) /\ 1 \in 1..Len(q) /\ p[m] = q[m] /\ p[1] = q[1]
      BY <1>1, <2>2
    <3>2. q[m].kind # "SEND_LVLX"
      BY <3>1 DEF Has
    <3>3. \A k \in 1..(m - 1) : p[k] = q[k]
      BY <1>1, <3>1
    <3> QED BY <3>1, <3>2, <3>3 DEF Framed
  <2> QED BY <2>1, <2>2
<1>3. Framed(p, accept)
  BY <1>2 DEF Framed
<1>4. Has(q, "PARSE_LVLX") => InData(p) = InData(q)
  <2> SUFFICES ASSUME Has(q, "PARSE_LVLX") PROVE InData(p) = InData(q)
    OBVIOUS
  <2>1. 1 \in 1..Len(q)
    BY <1>1 DEF Has
  <2>2. p[1] = q[1] /\ p # <<>> /\ q # <<>>
    BY <1>1, <2>1
  <2> QED BY <2>2 DEF InData
<1> QED BY <1>3, <1>4 DEF p

\* What the first message says of those behind it.
LEMMA FramedTail ==
  ASSUME NEW q \in Seq(Message), NEW accept \in BOOLEAN, Framed(q, accept), q # <<>>
  PROVE  /\ Framed(Tail(q), accept /\ q[1].kind # "PARSE_LVLX")
         /\ InData(Tail(q)) = <<>> /\ ~Has(Tail(q), "DATA")
         /\ q[1].kind \in {"DATA", "PARSE_LVLX"} <=> accept
         /\ q[1].kind = "SEND_LVLX" => Tail(q) = <<>> /\ Len(q) = 1
         /\ q[1].kind # "DATA" => ~Has(Tail(q), "PARSE_LVLX")
<1> DEFINE p == Tail(q)
           keeps == accept /\ q[1].kind # "PARSE_LVLX"
<1>1. /\ 1 \in 1..Len(q) /\ Len(q) \in Nat /\ q[1] \in Message
      /\ p \in Seq(Message) /\ Len(p) = Len(q) - 1
      /\ \A i \in 1..Len(p) : i + 1 \in 1..Len(q) /\ p[i] = q[i + 1]
  BY TailAt
<1>2. /\ q[1].kind = "DATA" => accept
      /\ q[1].kind = "PARSE_LVLX" => accept
      /\ q[1].kind = "SEND_LVLX" => Len(q) = 1
  BY <1>1 DEF Framed
<1>3. accept => q[1].kind \in {"DATA", "PARSE_LVLX"}
  <2>1. q[1].kind \notin {"DATA", "PARSE_LVLX"} /\ accept =>
          \E k \in 1..(1 - 1) : q[k].kind = "PARSE_LVLX"
    BY <1>1 DEF Framed
  <2>2. 1..(1 - 1) = {}
    OBVIOUS
  <2> QED BY <2>1, <2>2
<1> HIDE DEF p
<1>4. ASSUME NEW m \in 1..Len(p)
      PROVE  /\ p[m].kind # "DATA"
             /\ p[m].kind = "PARSE_LVLX" => accept /\ m = 1 /\ q[1].kind = "DATA"
             /\ p[m].kind = "SEND_LVLX" => m = Len(p)
             /\ p[m].kind # "PARSE_LVLX" /\ keeps =>
                  \E k \in 1..(m - 1) : p[k].kind = "PARSE_LVLX"
  <2>1. m + 1 \in 1..Len(q) /\ p[m] = q[m + 1] /\ m + 1 # 1 /\ m \in Nat
    BY <1>1
  <2>2. p[m].kind # "DATA"
    BY <2>1 DEF Framed
  <2>3. p[m].kind = "PARSE_LVLX" => accept /\ m = 1 /\ q[1].kind = "DATA"
    BY <2>1 DEF Framed
  <2>4. p[m].kind = "SEND_LVLX" => m = Len(p)
    BY <1>1, <2>1 DEF Framed
  <2>5. ASSUME p[m].kind # "PARSE_LVLX", keeps
        PROVE  \E k \in 1..(m - 1) : p[k].kind = "PARSE_LVLX"
    <3>1. PICK k \in 1..((m + 1) - 1) : q[k].kind = "PARSE_LVLX"
      BY <2>1, <2>2, <2>5 DEF Framed
    <3>2. k # 1
      BY <2>5, <3>1
    <3>3. k - 1 \in 1..Len(p) /\ k - 1 \in 1..(m - 1) /\ (k - 1) + 1 = k
      BY <2>1, <3>2, <1>1
    <3>4. p[k - 1] = q[k]
      BY <1>1, <3>3
    <3> QED BY <3>1, <3>3, <3>4
  <2> QED BY <2>2, <2>3, <2>4, <2>5
<1>5. Framed(p, keeps)
  <2>1. \A m \in 1..Len(p) : p[m].kind = "PARSE_LVLX" => keeps
    BY <1>4
  <2> HIDE DEF keeps
  <2> QED BY <1>4, <2>1 DEF Framed
<1>6. ~Has(p, "DATA") /\ (q[1].kind # "DATA" => ~Has(p, "PARSE_LVLX"))
  BY <1>4 DEF Has
<1>7. InData(p) = <<>>
  <2>1. p # <<>> => 1 \in 1..Len(p)
    BY <1>1
  <2> QED BY <1>4, <2>1 DEF InData
<1>8. q[1].kind = "SEND_LVLX" => p = <<>>
  BY <1>1, <1>2
<1> QED BY <1>2, <1>3, <1>5, <1>6, <1>7, <1>8 DEF p

LEMMA PipeStaysInv ==
  ASSUME Framing, Turn, Content, PipeStays
  PROVE  Framing' /\ Turn' /\ Content'
<1>1. Framing'
  BY DEF Framing, PipeStays
<1>2. Content'
  BY DEF Content, PipeStays
<1>3. Turn'
  BY DEF Turn, Gone, Resting, Announced, Noticed, Asked, PartSent, Awaited, PipeStays
<1> QED BY <1>1, <1>2, <1>3

\* Each turn by what the others exclude.
LEMMA TurnByServing ==
  ASSUME Turn
  PROVE  /\ serving = NotServing => Gone \/ Resting
         /\ serving # NotServing => Announced \/ Noticed \/ Asked \/ PartSent
         /\ ~AllRequests(to_editor) => Asked
<1>1. AllRequests(<<>>)
  BY DEF AllRequests
<1> QED BY <1>1 DEF Turn, Gone, Resting, Announced, Noticed, Asked, PartSent

\* A request at the end of those that wait.
LEMMA RequestAppended ==
  ASSUME NEW q \in Seq(Request \cup Reply), NEW r \in Request
  PROVE  /\ AllRequests(q) => AllRequests(Append(q, r))
         /\ \A kinds : OneReply(q, kinds) => OneReply(Append(q, r), kinds)
<1>1. /\ Len(Append(q, r)) = Len(q) + 1 /\ Len(q) \in Nat
      /\ Append(q, r)[Len(q) + 1] = r
      /\ \A i \in 1..Len(q) : Append(q, r)[i] = q[i]
  BY AppendAt
<1>2. IsRequest(r)
  BY RequestKinds
<1>3. AllRequests(q) => AllRequests(Append(q, r))
  BY <1>1, <1>2 DEF AllRequests
<1>4. ASSUME NEW kinds, OneReply(q, kinds) PROVE OneReply(Append(q, r), kinds)
  <2>1. PICK m \in 1..Len(q) : /\ q[m].kind \in kinds
                               /\ \A l \in 1..Len(q) : l # m => IsRequest(q[l])
    BY <1>4 DEF OneReply
  <2>2. m \in 1..Len(Append(q, r)) /\ Append(q, r)[m].kind \in kinds
    BY <1>1, <2>1
  <2>3. \A l \in 1..Len(Append(q, r)) : l # m => IsRequest(Append(q, r)[l])
    BY <1>1, <1>2, <2>1
  <2> QED BY <2>2, <2>3 DEF OneReply
<1> QED BY <1>3, <1>4

LEMMA ConnectPipe ==
  ASSUME TypeOK, Framing, Turn, Content, zTestLevel \/ AskAgain
  PROVE  Framing' /\ Turn' /\ Content'
<1> DEFINE r == [kind |-> "CONNECT", ask |-> asks + 1]
<1>1. /\ to_game' = to_game /\ serving' = serving /\ editor_here' = editor_here
      /\ reader' = reader /\ m_doAcceptLevelData' = m_doAcceptLevelData
      /\ m_doAcceptLevelDataParts' = m_doAcceptLevelDataParts
      /\ m_acceptedRawData' = m_acceptedRawData
      /\ m_accepted_lvl_path' = m_accepted_lvl_path
      /\ to_editor' = Sent(r)
  BY DEF zTestLevel, AskAgain, Connect
<1>2. r \in Request /\ to_editor \in Seq(Request \cup Reply)
  BY PipeTypes DEF TypeOK, GameTypeOK, Request
<1> HIDE DEF r
<1>3. /\ ~editor_here => to_editor' = <<>>
      /\ editor_here => to_editor' = Append(to_editor, r)
  BY <1>1, <1>2, SentIs
<1>4. editor_here /\ AllRequests(to_editor) => AllRequests(to_editor')
  BY <1>2, <1>3, RequestAppended
<1>5. editor_here /\ OneReply(to_editor, Awaited) => OneReply(to_editor', Awaited)
  BY <1>2, <1>3, RequestAppended
<1>6. Framing'
  BY <1>1 DEF Framing
<1>7. Content'
  BY <1>1 DEF Content
<1>8. Turn'
  <2>1. Gone => Gone'
    BY <1>1, <1>3 DEF Gone
  <2>2. Resting => Resting'
    BY <1>1, <1>4 DEF Resting
  <2>3. Announced => Announced'
    BY <1>1, <1>4 DEF Announced
  <2>4. Noticed => Noticed'
    BY <1>1, <1>4 DEF Noticed
  <2>5. Asked => Asked'
    BY <1>1, <1>5 DEF Asked, Awaited
  <2>6. PartSent => PartSent'
    BY <1>1, <1>4 DEF PartSent
  <2> QED BY <2>1, <2>2, <2>3, <2>4, <2>5, <2>6 DEF Turn
<1> QED BY <1>6, <1>7, <1>8

LEMMA StorePipe ==
  ASSUME TypeOK, Framing, Turn, Content, storeCommand
  PROVE  Framing' /\ Turn' /\ Content'
<1>1. /\ to_game' = to_game /\ to_editor' = to_editor /\ serving' = serving
      /\ editor_here' = editor_here
      /\ m_doAcceptLevelData' = m_doAcceptLevelData
      /\ m_doAcceptLevelDataParts' = m_doAcceptLevelDataParts
      /\ m_acceptedRawData' = m_acceptedRawData
      /\ m_accepted_lvl_path' = m_accepted_lvl_path /\ reader' = NoMessage
  BY DEF storeCommand
<1>2. reader.kind # "SEND_LVLX" /\ NoMessage.kind # "SEND_LVLX"
  BY KindsAssumption DEF storeCommand, NoMessage
<1>3. Framing'
  BY <1>1, <1>2 DEF Framing
<1>4. Content'
  BY <1>1 DEF Content
<1>5. Turn'
  BY <1>1, <1>2 DEF Turn, Gone, Resting, Announced, Noticed, Asked, PartSent, Awaited
<1> QED BY <1>3, <1>4, <1>5

LEMMA GoAwayPipe ==
  ASSUME Framing, Turn, Content, GoAway
  PROVE  Framing' /\ Turn' /\ Content'
<1>1. /\ to_game' = to_game /\ to_editor' = <<>> /\ serving' = NotServing
      /\ editor_here' = FALSE /\ reader' = reader
      /\ m_doAcceptLevelData' = m_doAcceptLevelData
      /\ m_doAcceptLevelDataParts' = m_doAcceptLevelDataParts
      /\ m_acceptedRawData' = m_acceptedRawData
      /\ m_accepted_lvl_path' = m_accepted_lvl_path
  BY DEF GoAway
<1>2. Framing'
  BY <1>1 DEF Framing
<1>3. Content'
  BY <1>1 DEF Content
<1> QED BY <1>1, <1>2, <1>3 DEF Turn, Gone

LEMMA SendCommandDoes ==
  ASSUME TypeOK, SendCommand
  PROVE  \E x \in Command :
           /\ to_game' = Append(to_game, x) /\ sent' = Append(sent, x.kind)
           /\ x.number = Len(sent) + 1 /\ x.kind \in CommandKinds
           /\ x \in Message /\ x.kind \notin {"SEND_LVLX", "DATA", "PARSE_LVLX"}
<1>1. PICK kind \in CommandKinds :
        /\ sent' = Append(sent, kind)
        /\ to_game' = Append(to_game, [kind |-> kind, number |-> Len(sent')])
  BY DEF SendCommand
<1>2. Len(sent') = Len(sent) + 1 /\ Len(sent) \in Nat
  BY <1>1 DEF TypeOK, CommandTypeOK
<1> DEFINE x == [kind |-> kind, number |-> Len(sent')]
<1>3. x \in Command /\ x.kind = kind /\ x.number = Len(sent) + 1
  BY <1>2 DEF Command
<1>4. x \in Message /\ x.kind \notin {"SEND_LVLX", "DATA", "PARSE_LVLX"}
  BY <1>3, KindsAssumption DEF Message
<1> QED BY <1>1, <1>3, <1>4

LEMMA SendCommandPipe ==
  ASSUME TypeOK, Framing, Turn, Content, SendCommand
  PROVE  Framing' /\ Turn' /\ Content'
<1>1. PICK x \in Command :
        /\ to_game' = Append(to_game, x)
        /\ x \in Message /\ x.kind \notin {"SEND_LVLX", "DATA", "PARSE_LVLX"}
  BY SendCommandDoes
<1>2. /\ to_editor' = to_editor /\ serving' = serving /\ editor_here' = editor_here
      /\ reader' = reader /\ m_doAcceptLevelData' = m_doAcceptLevelData
      /\ m_doAcceptLevelDataParts' = m_doAcceptLevelDataParts
      /\ m_acceptedRawData' = m_acceptedRawData
      /\ m_accepted_lvl_path' = m_accepted_lvl_path
  BY DEF SendCommand
<1>3. x \in Message /\ x.kind \notin {"SEND_LVLX", "DATA", "PARSE_LVLX"}
  BY <1>1
<1>4. Resting
  BY TurnByServing DEF SendCommand, Gone
<1>5. \A kind \in {"SEND_LVLX", "DATA", "PARSE_LVLX"} : Has(to_game', kind) <=> Has(to_game, kind)
  BY <1>1, <1>3, HasAppend, PipeTypes
<1>6. /\ Framed(to_game', m_doAcceptLevelData)
      /\ Has(to_game, "PARSE_LVLX") => InData(to_game') = InData(to_game)
  BY <1>1, <1>3, <1>4, FramedAppend, PipeTypes DEF Framing, Resting
<1>7. Framing'
  BY <1>2, <1>4, <1>6 DEF Framing, Resting
<1>8. Content'
  BY <1>2, <1>5, <1>6 DEF Content
<1>9. Resting'
  BY <1>2, <1>4, <1>5 DEF Resting
<1> QED BY <1>7, <1>8, <1>9 DEF Turn

\* What is left of the requests when one is answered, or the reply is taken.
LEMMA RequestsRemoved ==
  ASSUME NEW q \in Seq(Request \cup Reply), NEW m \in 1..Len(q)
  PROVE  /\ AllRequests(q) => AllRequests(RemoveAt(q, m))
         /\ \A kinds : OneReply(q, kinds) /\ ~IsRequest(q[m]) /\ "CONNECT" \notin kinds =>
              AllRequests(RemoveAt(q, m)) /\ q[m].kind \in kinds
<1>1. \A i \in 1..Len(RemoveAt(q, m)) :
        \E j \in 1..Len(q) : j # m /\ RemoveAt(q, m)[i] = q[j]
  BY RemoveAtAt
<1>2. AllRequests(q) => AllRequests(RemoveAt(q, m))
  BY <1>1 DEF AllRequests
<1>3. ASSUME NEW kinds, OneReply(q, kinds), ~IsRequest(q[m])
      PROVE  AllRequests(RemoveAt(q, m)) /\ q[m].kind \in kinds
  <2>1. PICK n \in 1..Len(q) : /\ q[n].kind \in kinds
                               /\ \A l \in 1..Len(q) : l # n => IsRequest(q[l])
    BY <1>3 DEF OneReply
  <2>2. n = m
    BY <1>3, <2>1
  <2> QED BY <1>1, <2>1, <2>2 DEF AllRequests
<1> QED BY <1>2, <1>3

LEMMA AnswerPipe ==
  ASSUME TypeOK, Framing, Turn, Content, Answer
  PROVE  Framing' /\ Turn' /\ Content'
<1>1. PICK m \in 1..Len(to_editor) :
        /\ IsRequest(to_editor[m])
        /\ serving' = [ask |-> to_editor[m].ask, left |-> Whole(to_editor[m].ask)]
        /\ to_editor' = RemoveAt(to_editor, m)
  BY PipeTypes DEF Answer
<1>2. PICK parts \in BOOLEAN :
        to_game' = Append(to_game, [kind |-> "SEND_LVLX", path |-> serving'.ask, parts |-> parts])
  BY DEF Answer
<1> DEFINE x == [kind |-> "SEND_LVLX", path |-> serving'.ask, parts |-> parts]
<1>3. /\ editor_here' = editor_here
      /\ reader' = reader /\ m_doAcceptLevelData' = m_doAcceptLevelData
      /\ m_doAcceptLevelDataParts' = m_doAcceptLevelDataParts
      /\ m_acceptedRawData' = m_acceptedRawData
      /\ m_accepted_lvl_path' = m_accepted_lvl_path
  BY DEF Answer
<1>4. Resting
  BY TurnByServing DEF Answer, Gone
<1>5. to_editor[m] \in Request \cup Reply /\ to_editor \in Seq(Request \cup Reply)
  BY PipeTypes
<1>6. serving'.ask \in Nat \ {0} /\ serving'.left = Whole(serving'.ask)
  BY <1>1, <1>5, RequestKinds
<1>7. serving' # NotServing
  BY <1>6 DEF NotServing
<1>8. x \in Message /\ x.kind = "SEND_LVLX" /\ x.path = serving'.ask
  BY <1>6 DEF Message, Announcement
<1> HIDE DEF x
<1>9. to_game' = Append(to_game, x)
  BY <1>2 DEF x
<1>10. \A kind \in {"DATA", "PARSE_LVLX"} : Has(to_game', kind) <=> Has(to_game, kind)
  BY <1>8, <1>9, HasAppend, PipeTypes
<1>11. /\ Framed(to_game', m_doAcceptLevelData)
       /\ Has(to_game, "PARSE_LVLX") => InData(to_game') = InData(to_game)
  BY <1>4, <1>8, <1>9, FramedAppend, PipeTypes DEF Framing, Resting
<1>12. Framing'
  BY <1>3, <1>4, <1>6, <1>11 DEF Framing, Resting
<1>13. Content'
  BY <1>3, <1>10, <1>11 DEF Content
<1>14. to_game' # <<>> /\ to_game'[Len(to_game')] = x
  <2>1. /\ Len(to_game') = Len(to_game) + 1 /\ Len(to_game) \in Nat
        /\ to_game'[Len(to_game) + 1] = x
    BY <1>8, <1>9, PipeTypes, AppendAt
  <2>2. Len(to_game') # 0 /\ to_game'[Len(to_game')] = x
    BY <2>1
  <2> QED BY <2>2
<1>15. AllRequests(to_editor')
  BY <1>1, <1>4, <1>5, RequestsRemoved DEF Resting
<1>16. Announced'
  BY <1>3, <1>4, <1>6, <1>7, <1>8, <1>10, <1>14, <1>15 DEF Announced, Resting
<1> QED BY <1>12, <1>13, <1>16 DEF Turn

\* What is sent at once when nothing is under way.
LEMMA Joined ==
  /\ \A x : <<>> \o <<>> \o <<x>> = <<x>> /\ <<>> \o <<x>> \o <<>> = <<x>>
  /\ \A x, y : <<>> \o <<x>> \o <<y>> = <<x, y>>
<1>1. ASSUME NEW x, NEW y
      PROVE  /\ <<>> \o <<>> \o <<x>> = <<x>> /\ <<>> \o <<x>> \o <<>> = <<x>>
             /\ <<>> \o <<x>> \o <<y>> = <<x, y>>
  <2> DEFINE S == {x, y}
  <2>1. <<>> \in Seq(S) /\ <<x>> \in Seq(S) /\ <<y>> \in Seq(S)
    OBVIOUS
  <2>2. \A s \in Seq(S) : <<>> \o s = s /\ s \o <<>> = s
    BY ConcatEmptySeq
  <2>3. <<x>> \o <<y>> = <<x, y>>
    <3> DEFINE a == <<x>>
               b == <<y>>
               s == a \o b
               p == <<x, y>>
    <3>1. Len(a) = 1 /\ Len(b) = 1 /\ a[1] = x /\ b[1] = y /\ a \in Seq(S) /\ b \in Seq(S)
      OBVIOUS
    <3>2. p \in Seq(S) /\ Len(p) = 2 /\ p[1] = x /\ p[2] = y
      OBVIOUS
    <3> HIDE DEF a, b, p, S
    <3>3. s \in Seq(S) /\ Len(s) = 2 /\ s[1] = a[1] /\ s[2] = b[1]
      BY <3>1, ConcatProperties
    <3> HIDE DEF s
    <3>4. \A i \in 1..Len(s) : s[i] = p[i]
      BY <3>1, <3>2, <3>3
    <3>5. s = p
      BY <3>2, <3>3, <3>4, SeqEqual
    <3> QED BY <3>5 DEF s, a, b, p
  <2> QED BY <2>1, <2>2, <2>3
<1> QED BY <1>1

LEMMA ServePipe ==
  ASSUME TypeOK, Framing, Turn, Content, NEW m \in DOMAIN to_editor, Serve(m)
  PROVE  /\ Framing' /\ Turn' /\ Content' /\ Asked
         /\ Resting' \/ (PartSent' /\ serving'.ask = serving.ask)
         /\ \A i \in 1..Len(to_game') : ~IsCommand(to_game'[i])
<1> DEFINE some == IF to_editor[m].kind = "READY" \/ serving.left = <<>> THEN serving.left
                   ELSE <<Head(serving.left)>>
           data == IF some = <<>> THEN <<>> ELSE << [kind |-> "DATA", parts |-> some] >>
           ends == some = <<>> \/ to_editor[m].kind = "READY"
           end  == IF ends THEN << [kind |-> "PARSE_LVLX"] >> ELSE <<>>
<1>1. /\ to_game' = to_game \o data \o end
      /\ serving' = IF ends THEN NotServing ELSE [serving EXCEPT !.left = Tail(@)]
      /\ to_editor' = RemoveAt(to_editor, m)
  BY DEF Serve
<1>2. /\ editor_here /\ serving # NotServing /\ ~IsRequest(to_editor[m])
      /\ editor_here' = editor_here
      /\ reader' = reader /\ m_doAcceptLevelData' = m_doAcceptLevelData
      /\ m_doAcceptLevelDataParts' = m_doAcceptLevelDataParts
      /\ m_acceptedRawData' = m_acceptedRawData
      /\ m_accepted_lvl_path' = m_accepted_lvl_path
  BY DEF Serve
<1>3. m \in 1..Len(to_editor) /\ to_editor \in Seq(Request \cup Reply)
  BY PipeTypes
<1>4. Asked
  BY <1>2, <1>3, TurnByServing DEF AllRequests
<1>5. /\ AllRequests(to_editor') /\ to_editor[m].kind \in Awaited
      /\ to_game = <<>> /\ reader = NoMessage /\ NoMessage.kind = "none"
  <2>1. "CONNECT" \notin Awaited
    BY DEF Awaited
  <2>2. AllRequests(to_editor') /\ to_editor[m].kind \in Awaited
    BY <1>1, <1>2, <1>3, <1>4, <2>1, RequestsRemoved DEF Asked
  <2> QED BY <1>4, <2>2, NoMessageKind DEF Asked, Framing
<1>6. m_acceptedRawData \in Seq(Part) /\ serving.left \in Seq(Part) /\ serving.ask # 0
  BY <1>2, PipeTypes DEF Framing
<1>7. to_editor[m].kind = "READY" <=> ~m_doAcceptLevelDataParts
  BY <1>5, PipeTypes DEF Awaited
<1>8. CASE some = <<>>
  <2>1. to_game' = << [kind |-> "PARSE_LVLX"] >> /\ serving' = NotServing
    <3>1. data = <<>> /\ end = << [kind |-> "PARSE_LVLX"] >> /\ ends
      BY <1>8
    <3> QED BY <1>1, <1>5, <3>1, Joined
  <2>2. serving.left = <<>>
    BY <1>8
  <2> HIDE DEF some, data, ends, end
  <2>3. m_acceptedRawData = Whole(m_accepted_lvl_path)
    BY <1>4, <1>6, <2>2 DEF Asked
  <2>4. /\ Has(to_game', "PARSE_LVLX") /\ ~Has(to_game', "SEND_LVLX") /\ ~Has(to_game', "DATA")
        /\ InData(to_game') = <<>> /\ Framed(to_game', TRUE)
    BY <2>1 DEF Has, InData, Framed
  <2>5. Framing'
    BY <1>2, <1>4, <1>5, <2>1, <2>4 DEF Framing, Asked
  <2>6. Content'
    BY <1>2, <1>4, <1>6, <2>3, <2>4 DEF Content, Asked
  <2>7. Resting'
    BY <1>2, <1>5, <2>1, <2>4 DEF Resting
  <2>8. \A i \in 1..Len(to_game') : ~IsCommand(to_game'[i])
    BY <2>1, KindsAssumption DEF IsCommand
  <2> QED BY <1>4, <2>5, <2>6, <2>7, <2>8 DEF Turn
<1>9. CASE some # <<>> /\ ~m_doAcceptLevelDataParts
  <2> DEFINE d == [kind |-> "DATA", parts |-> serving.left]
  <2>1. some = serving.left
    BY <1>7, <1>9
  <2>2. to_game' = << d, [kind |-> "PARSE_LVLX"] >> /\ serving' = NotServing
    <3>1. data = <<d>> /\ end = << [kind |-> "PARSE_LVLX"] >> /\ ends
      BY <1>7, <1>9, <2>1
    <3> QED BY <1>1, <1>5, <3>1, Joined
  <2> HIDE DEF some, data, ends, end
  <2>3. d.kind = "DATA" /\ d.parts = serving.left
    OBVIOUS
  <2> HIDE DEF d
  <2>4. /\ Len(to_game') = 2 /\ to_game' # <<>> /\ to_game'[1] = d
        /\ to_game'[2].kind = "PARSE_LVLX"
    BY <2>2
  <2>5. 1..Len(to_game') = {1, 2}
    BY <2>4
  <2>6. /\ Has(to_game', "PARSE_LVLX") /\ ~Has(to_game', "SEND_LVLX")
        /\ InData(to_game') = serving.left /\ Framed(to_game', TRUE)
    BY <2>3, <2>4, <2>5 DEF Has, InData, Framed
  <2>7. Framing'
    BY <1>2, <1>4, <1>5, <2>2, <2>6 DEF Framing, Asked
  <2>8. Content'
    BY <1>2, <1>4, <2>6 DEF Content, Asked
  <2>9. Resting'
    BY <1>2, <1>5, <1>9, <2>2, <2>6 DEF Resting
  <2>10. \A i \in 1..Len(to_game') : ~IsCommand(to_game'[i])
    BY <2>3, <2>4, <2>5, KindsAssumption DEF IsCommand
  <2> QED BY <1>4, <2>7, <2>8, <2>9, <2>10 DEF Turn
<1>10. CASE some # <<>> /\ m_doAcceptLevelDataParts
  <2>1. to_editor[m].kind # "READY" /\ serving.left # <<>> /\ some = <<Head(serving.left)>>
    BY <1>7, <1>10
  <2> DEFINE d == [kind |-> "DATA", parts |-> <<Head(serving.left)>>]
  <2>2. to_game' = <<d>> /\ serving' = [serving EXCEPT !.left = Tail(@)]
    <3>1. data = <<d>> /\ end = <<>> /\ ~ends
      BY <1>10, <2>1
    <3> QED BY <1>1, <1>5, <3>1, Joined
  <2> HIDE DEF some, data, ends, end
  <2>3. d.kind = "DATA" /\ d.parts = <<Head(serving.left)>>
    OBVIOUS
  <2>4. serving'.ask = serving.ask /\ serving'.left = Tail(serving.left)
    BY <2>2, PipeTypes
  <2>5. <<Head(serving.left)>> \o Tail(serving.left) = serving.left
    BY <1>6, <2>1
  <2> HIDE DEF d
  <2>6. Len(to_game') = 1 /\ to_game' # <<>> /\ to_game'[1] = d /\ 1..Len(to_game') = {1}
    BY <2>2
  <2>7. ~Has(to_game', "PARSE_LVLX") /\ Framed(to_game', TRUE)
    BY <2>3, <2>6 DEF Has, Framed
  <2>8. serving' # NotServing
    BY <1>6, <2>4 DEF NotServing
  <2>9. Framing'
    BY <1>2, <1>4, <1>5, <1>6, <2>4, <2>7 DEF Framing, Asked
  <2>10. Content'
    BY <1>2, <1>4, <2>7 DEF Content, Asked
  <2>11. PartSent'
    BY <1>2, <1>4, <1>5, <1>10, <2>3, <2>4, <2>5, <2>6, <2>8 DEF PartSent, Asked
  <2>12. \A i \in 1..Len(to_game') : ~IsCommand(to_game'[i])
    BY <2>3, <2>6, KindsAssumption DEF IsCommand
  <2> QED BY <1>4, <2>4, <2>9, <2>10, <2>11, <2>12 DEF Turn
<1> QED BY <1>8, <1>9, <1>10, PipeTypes

LEMMA BeginPipe ==
  ASSUME TypeOK, Framing, Turn, Content, BeginLevel
  PROVE  Framing' /\ Turn' /\ Content'
<1> DEFINE r == [kind |-> IF reader.parts THEN "READY_PARTS" ELSE "READY"]
<1>1. /\ reader.kind = "SEND_LVLX" /\ to_game' = to_game /\ serving' = serving
      /\ editor_here' = editor_here
      /\ reader' = NoMessage /\ m_doAcceptLevelData' = TRUE
      /\ m_doAcceptLevelDataParts' = reader.parts
      /\ m_acceptedRawData' = <<>>
      /\ m_accepted_lvl_path' = reader.path
      /\ to_editor' = Sent(r)
  BY DEF BeginLevel
<1>2. to_game = <<>> /\ ~m_doAcceptLevelData /\ reader # NoMessage
  BY <1>1, NoMessageKind, PipeTypes DEF Framing
<1>3. r \in Reply /\ to_editor \in Seq(Request \cup Reply)
  BY PipeTypes DEF Reply
<1>4. r.kind = IF reader.parts THEN "READY_PARTS" ELSE "READY"
  OBVIOUS
<1> HIDE DEF r
<1>5. /\ ~editor_here => to_editor' = <<>>
      /\ editor_here => to_editor' = Append(to_editor, r)
  BY <1>1, <1>3, SentIs
<1>6. Framing'
  BY <1>1, <1>2, NoMessageKind, FramedNone DEF Framing
<1>7. Content'
  BY <1>1, <1>2, HasNone DEF Content
<1>8. Gone \/ Noticed
  BY <1>1, <1>2, PipeTypes DEF Turn, Resting, Announced, Asked, PartSent
<1>9. Gone => Gone'
  BY <1>1, <1>5 DEF Gone
<1>10. ASSUME Noticed PROVE Asked'
  <2>1. to_editor' = Append(to_editor, r) /\ AllRequests(to_editor)
    BY <1>5, <1>10 DEF Noticed
  <2>2. /\ Len(to_editor') = Len(to_editor) + 1 /\ Len(to_editor) \in Nat
        /\ to_editor'[Len(to_editor) + 1] = r
        /\ \A i \in 1..Len(to_editor) : to_editor'[i] = to_editor[i]
    BY <1>3, <2>1, AppendAt
  <2>3. r.kind \in Awaited'
    BY <1>1, <1>4 DEF Awaited
  <2> DEFINE n == Len(to_editor) + 1
             q == to_editor'
  <2>4. n \in 1..Len(q) /\ q[n].kind \in Awaited'
    BY <2>2, <2>3
  <2>5. \A l \in 1..Len(q) : l # n => IsRequest(q[l])
    BY <2>1, <2>2 DEF AllRequests
  <2>6. OneReply(q, Awaited')
    BY <2>4, <2>5 DEF OneReply
  <2>7. m_acceptedRawData' \o serving.left = serving.left
    BY <1>1, PipeTypes
  <2> QED BY <1>1, <1>2, <1>10, <2>6, <2>7 DEF Noticed, Asked
<1> QED BY <1>6, <1>7, <1>8, <1>9, <1>10 DEF Turn

LEMMA EndPipe ==
  ASSUME TypeOK, Framing, Turn, Content, EndLevel
  PROVE  Framing' /\ Turn' /\ Content'
<1>1. /\ reader.kind = "PARSE_LVLX" /\ to_game' = to_game /\ to_editor' = to_editor
      /\ serving' = serving /\ editor_here' = editor_here
      /\ reader' = NoMessage /\ m_doAcceptLevelData' = m_doAcceptLevelData
      /\ m_doAcceptLevelDataParts' = FALSE
      /\ m_acceptedRawData' = m_acceptedRawData
      /\ m_accepted_lvl_path' = m_accepted_lvl_path
  BY DEF EndLevel
<1>2. ~m_doAcceptLevelData /\ reader # NoMessage
  BY <1>1, NoMessageKind DEF Framing
<1>3. Framing'
  BY <1>1, <1>2, NoMessageKind DEF Framing
<1>4. Content'
  BY <1>1 DEF Content
<1>5. Turn'
  BY <1>1, <1>2, NoMessageKind DEF Turn, Gone, Resting, Announced, Noticed, Asked, PartSent
<1> QED BY <1>3, <1>4, <1>5

LEMMA LastOfTail ==
  ASSUME NEW S, NEW q \in Seq(S), q # <<>>, Len(q) # 1
  PROVE  Tail(q) # <<>> /\ Tail(q)[Len(Tail(q))] = q[Len(q)]
<1> DEFINE p == Tail(q)
<1>1. /\ 1 \in 1..Len(q) /\ Len(q) \in Nat /\ Len(p) = Len(q) - 1
      /\ \A i \in 1..Len(p) : p[i] = q[i + 1]
  BY TailAt
<1> HIDE DEF p
<1>2. Len(p) \in 1..Len(p) /\ Len(p) + 1 = Len(q)
  BY <1>1
<1>3. p[Len(p)] = q[Len(q)] /\ Len(p) # 0
  BY <1>1, <1>2
<1>4. p # <<>>
  BY <1>3
<1> QED BY <1>3, <1>4 DEF p

LEMMA Regrouped == \A a, b, c \in Seq(Part) : (a \o b) \o c = a \o (b \o c)
BY ConcatAssociative

\* What Receive does, by the message that is there.
LEMMA ReceiveDoes ==
  ASSUME TypeOK, Framing, Receive
  PROVE  /\ to_game # <<>> /\ reader = NoMessage /\ to_game' = Tail(to_game)
         /\ to_game[1] \in Message
         /\ serving' = serving /\ editor_here' = editor_here
         /\ m_doAcceptLevelDataParts' = m_doAcceptLevelDataParts
         /\ m_accepted_lvl_path' = m_accepted_lvl_path
         /\ m_doAcceptLevelData' = (m_doAcceptLevelData /\ to_game[1].kind # "PARSE_LVLX")
         /\ to_game[1].kind = "DATA" =>
              /\ m_doAcceptLevelData /\ reader' = reader
              /\ m_acceptedRawData' = m_acceptedRawData \o to_game[1].parts
              /\ to_editor' = IF m_doAcceptLevelDataParts THEN Sent([kind |-> "LVLX_NEXT"])
                              ELSE to_editor
         /\ to_game[1].kind # "DATA" =>
              /\ reader' = to_game[1] /\ m_acceptedRawData' = m_acceptedRawData
              /\ to_editor' = to_editor
              /\ m_doAcceptLevelData <=> to_game[1].kind = "PARSE_LVLX"
<1>1. to_game # <<>> /\ to_game' = Tail(to_game)
  BY DEF Receive
<1>2. Head(to_game) = to_game[1] /\ to_game[1] \in Message
  BY <1>1, TailAt, PipeTypes
<1>3. to_game[1].kind \in {"DATA", "PARSE_LVLX"} <=> m_doAcceptLevelData
  BY <1>1, FramedTail, PipeTypes DEF Framing
<1>4. CASE to_game[1].kind = "DATA"
  BY <1>1, <1>2, <1>3, <1>4 DEF Receive, Accepting
<1>5. CASE to_game[1].kind # "DATA"
  BY <1>1, <1>2, <1>3, <1>5 DEF Receive, Accepting
<1> QED BY <1>4, <1>5

LEMMA ReceivePipe ==
  ASSUME TypeOK, Framing, Turn, Content, Receive
  PROVE  Framing' /\ Turn' /\ Content'
<1> DEFINE h == to_game[1]
<1>1. /\ to_game # <<>> /\ reader = NoMessage /\ to_game' = Tail(to_game)
      /\ h \in Message
      /\ serving' = serving /\ editor_here' = editor_here
      /\ m_doAcceptLevelDataParts' = m_doAcceptLevelDataParts
      /\ m_accepted_lvl_path' = m_accepted_lvl_path
      /\ m_doAcceptLevelData' = (m_doAcceptLevelData /\ h.kind # "PARSE_LVLX")
  BY ReceiveDoes
<1>2. h.kind = "DATA" =>
        /\ m_doAcceptLevelData /\ reader' = reader
        /\ m_acceptedRawData' = m_acceptedRawData \o h.parts
        /\ to_editor' = IF m_doAcceptLevelDataParts THEN Sent([kind |-> "LVLX_NEXT"])
                        ELSE to_editor
  BY ReceiveDoes
<1>3. h.kind # "DATA" =>
        /\ reader' = h /\ m_acceptedRawData' = m_acceptedRawData
        /\ to_editor' = to_editor
        /\ m_doAcceptLevelData <=> h.kind = "PARSE_LVLX"
  BY ReceiveDoes
<1>4. /\ Framed(to_game', m_doAcceptLevelData')
      /\ InData(to_game') = <<>> /\ ~Has(to_game', "DATA")
      /\ h.kind = "SEND_LVLX" => to_game' = <<>> /\ Len(to_game) = 1
      /\ h.kind # "DATA" => ~Has(to_game', "PARSE_LVLX")
  BY <1>1, FramedTail, PipeTypes DEF Framing
<1>5. \A kind : Has(to_game, kind) <=> h.kind = kind \/ Has(to_game', kind)
  BY <1>1, HasTail, PipeTypes
<1>6. /\ InData(to_game) = IF h.kind = "DATA" THEN h.parts ELSE <<>>
      /\ h.kind = "DATA" => h.parts \in Seq(Part)
      /\ NoMessage.kind = "none"
  BY <1>1, MessageKinds, CommandFields, NoMessageKind DEF InData
<1>7. /\ Len(to_game) # 1 => to_game' # <<>> /\ to_game'[Len(to_game')] = to_game[Len(to_game)]
      /\ to_editor \in Seq(Request \cup Reply) /\ [kind |-> "LVLX_NEXT"] \in Reply
  BY <1>1, LastOfTail, PipeTypes DEF Reply
<1> HIDE DEF h
<1>8. CASE h.kind = "DATA"
  <2>1. Framing'
    BY <1>1, <1>2, <1>4, <1>6, <1>8 DEF Framing
  <2>2. m_acceptedRawData' \in Seq(Part) /\ m_acceptedRawData' \o <<>> = m_acceptedRawData'
    <3>1. m_acceptedRawData \in Seq(Part) /\ h.parts \in Seq(Part)
      BY <1>6, <1>8, PipeTypes
    <3>2. m_acceptedRawData \o h.parts \in Seq(Part)
      BY <3>1, ConcatProperties
    <3>3. (m_acceptedRawData \o h.parts) \o <<>> = m_acceptedRawData \o h.parts
      BY <3>2, ConcatEmptySeq
    <3> QED BY <1>2, <1>8, <3>2, <3>3
  <2>3. Content'
    BY <1>1, <1>2, <1>4, <1>5, <1>6, <1>8, <2>2 DEF Content
  <2>4. Gone => Gone'
    BY <1>1, <1>2, <1>8 DEF Gone, Sent
  <2>5. Resting => Resting'
    BY <1>1, <1>2, <1>5, <1>8 DEF Resting
  <2>6. ASSUME Announced PROVE Announced'
    <3>1. Len(to_game) # 1
      BY <1>8, <2>6 DEF Announced, h
    <3>2. to_editor' = to_editor
      BY <1>2, <1>5, <1>8, <2>6 DEF Announced
    <3> QED BY <1>1, <1>4, <1>7, <2>6, <3>1, <3>2 DEF Announced
  <2>7. ~Noticed /\ ~Asked
    BY <1>1, <1>6 DEF Noticed, Asked
  <2>8. ASSUME PartSent PROVE Asked'
    <3>1. /\ editor_here /\ AllRequests(to_editor) /\ m_doAcceptLevelDataParts
          /\ to_game' = <<>>
      <4>1. to_game' \in Seq(Message) /\ Len(to_game') = Len(to_game) - 1
        BY <1>1, TailAt, PipeTypes
      <4> QED BY <2>8, <4>1 DEF PartSent
    <3>2. to_editor' = Append(to_editor, [kind |-> "LVLX_NEXT"])
      BY <1>2, <1>7, <1>8, <3>1, SentIs
    <3> DEFINE n == Len(to_editor) + 1
               q == to_editor'
    <3>3. /\ Len(q) = n /\ Len(to_editor) \in Nat /\ q[n] = [kind |-> "LVLX_NEXT"]
          /\ \A i \in 1..Len(to_editor) : q[i] = to_editor[i]
      BY <1>7, <3>2, AppendAt
    <3>4. n \in 1..Len(q) /\ q[n].kind \in {"READY_PARTS", "LVLX_NEXT"}
      BY <3>3
    <3>5. \A l \in 1..Len(q) : l # n => IsRequest(q[l])
      BY <3>1, <3>3 DEF AllRequests
    <3> HIDE DEF n, q
    <3>6. OneReply(q, {"READY_PARTS", "LVLX_NEXT"})
      BY <3>4, <3>5 DEF OneReply
    <3>7. Awaited' = {"READY_PARTS", "LVLX_NEXT"}
      BY <1>1, <3>1 DEF Awaited
    <3>8. m_acceptedRawData' \o serving.left = m_acceptedRawData \o (h.parts \o serving.left)
      <4>1. /\ m_acceptedRawData \in Seq(Part) /\ h.parts \in Seq(Part)
            /\ serving.left \in Seq(Part)
        BY <1>6, <1>8, PipeTypes
      <4>2. (m_acceptedRawData \o h.parts) \o serving.left
              = m_acceptedRawData \o (h.parts \o serving.left)
        BY <4>1, Regrouped
      <4> QED BY <1>2, <1>8, <4>2
    <3> QED BY <1>1, <1>8, <2>8, <3>1, <3>6, <3>7, <3>8 DEF PartSent, Asked, h, q
  <2> QED BY <2>1, <2>3, <2>4, <2>5, <2>6, <2>7, <2>8 DEF Turn
<1>9. CASE h.kind = "PARSE_LVLX"
  <2>1. m_doAcceptLevelData /\ ~m_doAcceptLevelData'
    BY <1>1, <1>3, <1>9
  <2>2. Framing'
    BY <1>1, <1>3, <1>4, <1>9, <2>1 DEF Framing
  <2>3. m_acceptedRawData \o <<>> = m_acceptedRawData
    BY ConcatEmptySeq, PipeTypes
  <2>4. Content'
    BY <1>1, <1>3, <1>4, <1>5, <1>6, <1>9, <2>3 DEF Content
  <2>5. Gone => Gone'
    BY <1>1, <1>3, <1>9 DEF Gone
  <2>6. Resting => Resting'
    BY <1>1, <1>3, <1>5, <1>9, <2>1 DEF Resting
  <2>7. ASSUME Announced PROVE Announced'
    <3>1. Len(to_game) # 1
      BY <1>9, <2>7 DEF Announced, h
    <3> QED BY <1>1, <1>3, <1>4, <1>7, <1>9, <2>7, <3>1 DEF Announced
  <2>8. ~Noticed /\ ~Asked /\ ~PartSent
    BY <1>1, <1>6, <1>9 DEF Noticed, Asked, PartSent, h
  <2> QED BY <2>2, <2>4, <2>5, <2>6, <2>7, <2>8 DEF Turn
<1>10. CASE h.kind \notin {"DATA", "PARSE_LVLX"}
  <2>1. ~m_doAcceptLevelData /\ ~m_doAcceptLevelData'
    BY <1>1, <1>3, <1>10, PipeTypes
  <2>2. Framing'
    BY <1>1, <1>3, <1>4, <1>10, <2>1 DEF Framing
  <2>3. Content'
    BY <1>1, <1>3, <1>4, <1>10, <2>1 DEF Content
  <2>4. Gone => Gone'
    BY <1>1, <1>3, <1>10 DEF Gone
  <2>5. Resting => Resting'
    BY <1>1, <1>3, <1>5, <1>10, <2>1 DEF Resting
  <2>6. ASSUME Announced, h.kind = "SEND_LVLX" PROVE Noticed'
    BY <1>1, <1>3, <1>4, <1>10, <2>6 DEF Announced, Noticed, h
  <2>7. ASSUME Announced, h.kind # "SEND_LVLX" PROVE Announced'
    <3>1. Len(to_game) # 1
      BY <2>7 DEF Announced, h
    <3> QED BY <1>1, <1>3, <1>4, <1>7, <1>10, <2>7, <3>1 DEF Announced
  <2>8. ~Noticed /\ ~Asked /\ ~PartSent
    BY <1>1, <1>6, <1>10 DEF Noticed, Asked, PartSent, h
  <2> QED BY <2>2, <2>3, <2>4, <2>5, <2>6, <2>7, <2>8 DEF Turn
<1> QED BY <1>8, <1>9, <1>10

LEMMA NextPipe ==
  ASSUME TypeOK, Framing, Turn, Content, [Next]_vars
  PROVE  Framing' /\ Turn' /\ Content'
<1>1. CASE Editor
  <2>1. CASE Answer
    BY <2>1, AnswerPipe
  <2>2. CASE \E m \in DOMAIN to_editor : Serve(m)
    BY <2>2, ServePipe
  <2> QED BY <1>1, <2>1, <2>2 DEF Editor
<1>2. CASE Reader
  BY <1>2, ReceivePipe, BeginPipe, EndPipe, StorePipe DEF Reader
<1>3. CASE SendCommand \/ GoAway
  BY <1>3, SendCommandPipe, GoAwayPipe
<1>4. CASE zTestLevel \/ AskAgain
  BY <1>4, ConnectPipe
<1>5. CASE LoaderStep \/ UpdateInterprocess \/ PlayerStep \/ UNCHANGED vars
  BY <1>5, Scopes, PipeStaysInv
<1> QED BY <1>1, <1>2, <1>3, <1>4, <1>5 DEF Next, Waiting, Loading, LoaderStep, PlayerStep

-----------------------------------------------------------------------------
(* A test that asks once.                                                  *)

LEMMA NoRequestHere == \A ask : ~Has(<<>>, "CONNECT") /\ OneRequest(<<>>, ask)
BY DEF Has, OneRequest

LEMMA RequestsAfter ==
  ASSUME NEW q \in Seq(Request \cup Reply), NEW ask
  PROVE  /\ ~Has(q, "CONNECT") => OneRequest(q, ask)
         /\ \A r \in Reply :
              /\ Has(Append(q, r), "CONNECT") <=> Has(q, "CONNECT")
              /\ OneRequest(q, ask) => OneRequest(Append(q, r), ask)
         /\ \A r \in Request : ~Has(q, "CONNECT") /\ r.ask = ask => OneRequest(Append(q, r), ask)
         /\ \A m \in 1..Len(q) : OneRequest(q, ask) /\ (IsRequest(q[m]) \/ ~Has(q, "CONNECT")) =>
              ~Has(RemoveAt(q, m), "CONNECT") /\ OneRequest(RemoveAt(q, m), ask)
<1>1. ASSUME NEW p PROVE Has(p, "CONNECT") <=> \E m \in 1..Len(p) : IsRequest(p[m])
  BY DEF Has, IsRequest
<1>2. ASSUME NEW p, ~Has(p, "CONNECT") PROVE OneRequest(p, ask)
  BY <1>1, <1>2 DEF OneRequest
<1>3. ASSUME NEW r \in Reply
      PROVE  /\ Has(Append(q, r), "CONNECT") <=> Has(q, "CONNECT")
             /\ OneRequest(q, ask) => OneRequest(Append(q, r), ask)
  <2>1. /\ Len(Append(q, r)) = Len(q) + 1 /\ Len(q) \in Nat
        /\ Append(q, r)[Len(q) + 1] = r
        /\ \A i \in 1..Len(q) : Append(q, r)[i] = q[i]
    BY AppendAt
  <2>2. ~IsRequest(r)
    BY RequestKinds
  <2>3. \A i \in 1..Len(Append(q, r)) : IsRequest(Append(q, r)[i]) =>
          i \in 1..Len(q) /\ Append(q, r)[i] = q[i]
    BY <2>1, <2>2
  <2>4. OneRequest(q, ask) => OneRequest(Append(q, r), ask)
    BY <2>3 DEF OneRequest
  <2>5. Has(Append(q, r), "CONNECT") <=> Has(q, "CONNECT")
    BY <2>2, HasAppend DEF IsRequest
  <2> QED BY <2>4, <2>5
<1>4. ASSUME NEW r \in Request, ~Has(q, "CONNECT"), r.ask = ask
      PROVE  OneRequest(Append(q, r), ask)
  <2>1. /\ Len(Append(q, r)) = Len(q) + 1 /\ Len(q) \in Nat
        /\ Append(q, r)[Len(q) + 1] = r
        /\ \A i \in 1..Len(q) : Append(q, r)[i] = q[i]
    BY AppendAt
  <2>2. \A i \in 1..Len(Append(q, r)) : IsRequest(Append(q, r)[i]) => i = Len(q) + 1
    BY <1>1, <1>4, <2>1
  <2> QED BY <1>4, <2>1, <2>2 DEF OneRequest
<1>5. ASSUME NEW m \in 1..Len(q), OneRequest(q, ask), IsRequest(q[m]) \/ ~Has(q, "CONNECT")
      PROVE  ~Has(RemoveAt(q, m), "CONNECT")
  <2>1. \A i \in 1..Len(RemoveAt(q, m)) :
          \E j \in 1..Len(q) : j # m /\ RemoveAt(q, m)[i] = q[j]
    BY RemoveAtAt
  <2>2. \A j \in 1..Len(q) : j # m => ~IsRequest(q[j])
    BY <1>1, <1>5 DEF OneRequest
  <2> QED BY <1>1, <2>1, <2>2
<1> QED BY <1>2, <1>3, <1>4, <1>5

LEMMA OpenAfter ==
  ASSUME NEW S, NEW q \in Seq(S), NEW path
  PROVE  /\ ~Has(q, "SEND_LVLX") => AllOpen(q, path)
         /\ \A x \in S : AllOpen(q, path) /\ (x.kind = "SEND_LVLX" => x.path = path) =>
              AllOpen(Append(q, x), path)
         /\ q # <<>> /\ AllOpen(q, path) =>
              AllOpen(Tail(q), path) /\ (q[1].kind = "SEND_LVLX" => q[1].path = path)
<1>1. ~Has(q, "SEND_LVLX") => AllOpen(q, path)
  BY DEF Has, AllOpen
<1>2. ASSUME NEW x \in S, AllOpen(q, path), x.kind = "SEND_LVLX" => x.path = path
      PROVE  AllOpen(Append(q, x), path)
  <2>1. /\ Len(Append(q, x)) = Len(q) + 1 /\ Len(q) \in Nat
        /\ Append(q, x)[Len(q) + 1] = x
        /\ \A i \in 1..Len(q) : Append(q, x)[i] = q[i]
    BY AppendAt
  <2>2. \A i \in 1..Len(Append(q, x)) : i \in 1..Len(q) \/ i = Len(q) + 1
    BY <2>1
  <2> QED BY <1>2, <2>1, <2>2 DEF AllOpen
<1>3. ASSUME q # <<>>, AllOpen(q, path)
      PROVE  AllOpen(Tail(q), path) /\ (q[1].kind = "SEND_LVLX" => q[1].path = path)
  <2>1. /\ 1 \in 1..Len(q)
        /\ \A i \in 1..Len(Tail(q)) : i + 1 \in 1..Len(q) /\ Tail(q)[i] = q[i + 1]
    BY <1>3, TailAt
  <2> QED BY <1>3, <2>1 DEF AllOpen
<1> QED BY <1>1, <1>2, <1>3

Once == OnePlace /\ Named /\ LevelRead

\* Nothing of a level is on its way to a game that reads one or plays.
LEMMA OnItsWay ==
  ASSUME TypeOK, Framing, OnePlace, Requested \/ Incoming
  PROVE  game \in {"wait", "check"} /\ ~m_levelAccepted
BY DEF OnePlace

LEMMA AnswerOnce ==
  ASSUME TypeOK, Framing, Turn, Content, Once, Answer
  PROVE  Once'
<1>1. PICK m \in 1..Len(to_editor) :
        /\ IsRequest(to_editor[m])
        /\ serving' = [ask |-> to_editor[m].ask, left |-> Whole(to_editor[m].ask)]
        /\ to_editor' = RemoveAt(to_editor, m)
  BY PipeTypes DEF Answer
<1>2. PICK parts \in BOOLEAN :
        to_game' = Append(to_game, [kind |-> "SEND_LVLX", path |-> serving'.ask, parts |-> parts])
  BY DEF Answer
<1> DEFINE x == [kind |-> "SEND_LVLX", path |-> serving'.ask, parts |-> parts]
<1>3. /\ reader' = reader /\ m_doAcceptLevelData' = m_doAcceptLevelData
      /\ m_acceptedRawData' = m_acceptedRawData /\ m_accepted_lvl_path' = m_accepted_lvl_path
      /\ m_levelAccepted' = m_levelAccepted /\ m_acceptedLevel' = m_acceptedLevel
      /\ game' = game /\ tests' = tests /\ level' = level
  BY DEF Answer
<1>4. to_editor \in Seq(Request \cup Reply) /\ to_editor[m] \in Request \cup Reply
  BY PipeTypes
<1>5. Requested /\ OneRequest(to_editor, tests) /\ to_editor[m].ask = tests
  BY <1>1 DEF Requested, Has, IsRequest, Once, OnePlace, OneRequest
<1>6. ~Incoming /\ game \in {"wait", "check"} /\ ~m_levelAccepted
  BY <1>5 DEF Once, OnePlace
<1>7. ~Has(to_editor', "CONNECT") /\ OneRequest(to_editor', tests)
  BY <1>1, <1>4, <1>5, RequestsAfter
<1>8. serving'.ask = tests /\ x.kind = "SEND_LVLX" /\ x.path = tests
  BY <1>1, <1>5
<1>9. x \in Message
  <2>1. serving'.ask \in Nat
    BY <1>1, <1>4, RequestKinds
  <2> QED BY <2>1 DEF Message, Announcement
<1> HIDE DEF x
<1>10. to_game' = Append(to_game, x) /\ to_game \in Seq(Message)
  BY <1>2, PipeTypes DEF x
<1>11. AllOpen(to_game', tests)
  <2>1. AllOpen(to_game, tests)
    BY DEF Once, Named
  <2> QED BY <1>8, <1>9, <1>10, <2>1, OpenAfter
<1>12. ~Has(to_game', "PARSE_LVLX")
  <2>1. ~m_doAcceptLevelData
    BY <1>6 DEF Incoming
  <2>2. ~Has(to_game, "PARSE_LVLX")
    BY <2>1 DEF Framing, Framed, Has
  <2> QED BY <1>8, <1>9, <1>10, <2>2, HasAppend
<1>13. OnePlace'
  BY <1>3, <1>6, <1>7, <1>12 DEF OnePlace, Incoming, Requested
<1>14. Named'
  BY <1>3, <1>8, <1>11 DEF Once, Named
<1>15. LevelRead'
  BY <1>3 DEF Once, LevelRead, Playing
<1> QED BY <1>13, <1>14, <1>15 DEF Once

LEMMA ServeOnce ==
  ASSUME TypeOK, Framing, Turn, Content, Once, NEW m \in DOMAIN to_editor, Serve(m)
  PROVE  Once'
<1>1. /\ reader' = reader /\ m_doAcceptLevelData' = m_doAcceptLevelData
      /\ m_acceptedRawData' = m_acceptedRawData /\ m_accepted_lvl_path' = m_accepted_lvl_path
      /\ m_levelAccepted' = m_levelAccepted /\ m_acceptedLevel' = m_acceptedLevel
      /\ game' = game /\ tests' = tests /\ level' = level
      /\ to_editor' = RemoveAt(to_editor, m)
  BY DEF Serve
<1>2. Asked /\ (Resting' \/ (PartSent' /\ serving'.ask = serving.ask))
  BY ServePipe
<1>3. Incoming /\ Incoming' /\ serving.ask = tests
  BY <1>1, <1>2 DEF Asked, Incoming, Once, Named
<1>4. ~Requested /\ OneRequest(to_editor, tests)
  BY <1>3 DEF Once, OnePlace
<1>5. ~Requested' /\ OneRequest(to_editor', tests)
  <2>1. m \in 1..Len(to_editor) /\ to_editor \in Seq(Request \cup Reply)
    BY PipeTypes
  <2> QED BY <1>1, <1>4, <2>1, RequestsAfter DEF Requested
<1>6. /\ ~Has(to_game', "SEND_LVLX") /\ AllOpen(to_game', tests)
      /\ Has(to_game', "PARSE_LVLX") => serving' = NotServing
      /\ serving' # NotServing => serving'.ask = tests
  <2>1. CASE Resting'
    BY <2>1 DEF Resting, Has, AllOpen
  <2>2. CASE PartSent' /\ serving'.ask = serving.ask
    <3>1. \A m1 \in 1..Len(to_game') : to_game'[m1].kind = "DATA"
      BY <2>2 DEF PartSent
    <3> QED BY <1>3, <2>2, <3>1 DEF Has, AllOpen
  <2> QED BY <1>2, <2>1, <2>2
<1>7. reader.kind # "PARSE_LVLX"
  BY <1>2, NoMessageKind DEF Asked, Framing
<1>8. OnePlace'
  BY <1>1, <1>3, <1>5, <1>6, <1>7 DEF Once, OnePlace
<1>9. Named'
  BY <1>1, <1>6 DEF Once, Named
<1>10. LevelRead'
  BY <1>1 DEF Once, LevelRead, Playing
<1> QED BY <1>8, <1>9, <1>10 DEF Once

LEMMA EditorOnce ==
  ASSUME TypeOK, Framing, Turn, Content, Once, GoAway \/ SendCommand
  PROVE  Once'
<1>1. /\ reader' = reader /\ m_doAcceptLevelData' = m_doAcceptLevelData
      /\ m_acceptedRawData' = m_acceptedRawData /\ m_accepted_lvl_path' = m_accepted_lvl_path
      /\ m_levelAccepted' = m_levelAccepted /\ m_acceptedLevel' = m_acceptedLevel
      /\ game' = game /\ tests' = tests /\ level' = level
  BY DEF GoAway, SendCommand
<1>2. /\ serving' = serving \/ serving' = NotServing
      /\ to_editor' = to_editor \/ to_editor' = <<>>
  BY DEF GoAway, SendCommand
<1>3. /\ Has(to_game', "SEND_LVLX") <=> Has(to_game, "SEND_LVLX")
      /\ Has(to_game', "PARSE_LVLX") <=> Has(to_game, "PARSE_LVLX")
      /\ AllOpen(to_game', tests)
  <2>1. AllOpen(to_game, tests)
    BY DEF Once, Named
  <2>2. CASE GoAway
    BY <2>1, <2>2 DEF GoAway
  <2>3. CASE SendCommand
    <3>1. PICK x \in Message : /\ to_game' = Append(to_game, x)
                               /\ x.kind \notin {"SEND_LVLX", "DATA", "PARSE_LVLX"}
      BY <2>3, SendCommandDoes
    <3> QED BY <2>1, <3>1, HasAppend, OpenAfter, PipeTypes
  <2> QED BY <2>2, <2>3
<1>4. (Requested' => Requested) /\ OneRequest(to_editor', tests)
  BY <1>2, NoRequestHere DEF Once, OnePlace, Requested
<1>5. OnePlace'
  BY <1>1, <1>2, <1>3, <1>4 DEF Once, OnePlace, Incoming
<1>6. Named'
  BY <1>1, <1>2, <1>3 DEF Once, Named
<1>7. LevelRead'
  BY <1>1 DEF Once, LevelRead, Playing
<1> QED BY <1>5, <1>6, <1>7 DEF Once

LEMMA ReceiveOnce ==
  ASSUME TypeOK, Framing, Turn, Content, Once, Receive
  PROVE  Once'
<1> DEFINE h == to_game[1]
<1>1. /\ to_game # <<>> /\ reader = NoMessage /\ to_game' = Tail(to_game)
      /\ h \in Message /\ serving' = serving
      /\ m_accepted_lvl_path' = m_accepted_lvl_path
      /\ m_doAcceptLevelData' = (m_doAcceptLevelData /\ h.kind # "PARSE_LVLX")
      /\ h.kind = "DATA" =>
           /\ m_doAcceptLevelData /\ reader' = reader
           /\ to_editor' = IF m_doAcceptLevelDataParts THEN Sent([kind |-> "LVLX_NEXT"])
                           ELSE to_editor
      /\ h.kind # "DATA" =>
           /\ reader' = h /\ m_acceptedRawData' = m_acceptedRawData
           /\ to_editor' = to_editor
           /\ m_doAcceptLevelData <=> h.kind = "PARSE_LVLX"
  BY ReceiveDoes
<1>2. /\ m_levelAccepted' = m_levelAccepted /\ m_acceptedLevel' = m_acceptedLevel
      /\ game' = game /\ tests' = tests /\ level' = level
  BY DEF Receive
<1>3. /\ h.kind # "DATA" => ~Has(to_game', "PARSE_LVLX")
      /\ h.kind = "SEND_LVLX" => to_game' = <<>>
  BY <1>1, FramedTail, PipeTypes DEF Framing
<1>4. \A kind : Has(to_game, kind) <=> h.kind = kind \/ Has(to_game', kind)
  BY <1>1, HasTail, PipeTypes
<1>5. AllOpen(to_game', tests) /\ (h.kind = "SEND_LVLX" => h.path = tests)
  BY <1>1, OpenAfter, PipeTypes DEF Once, Named
<1> HIDE DEF h
<1>6. (Requested' => Requested) /\ OneRequest(to_editor', tests)
  <2>1. to_editor' = to_editor \/ to_editor' = Sent([kind |-> "LVLX_NEXT"])
    BY <1>1
  <2>2. [kind |-> "LVLX_NEXT"] \in Reply /\ to_editor \in Seq(Request \cup Reply)
    BY PipeTypes DEF Reply
  <2>3. \/ to_editor' = to_editor \/ to_editor' = <<>>
        \/ to_editor' = Append(to_editor, [kind |-> "LVLX_NEXT"])
    BY <2>1 DEF Sent
  <2>4. OneRequest(to_editor, tests)
    BY DEF Once, OnePlace
  <2>5. CASE to_editor' = to_editor
    BY <2>4, <2>5 DEF Requested
  <2>6. CASE to_editor' = <<>>
    BY <2>6, NoRequestHere DEF Requested
  <2>7. CASE to_editor' = Append(to_editor, [kind |-> "LVLX_NEXT"])
    BY <2>2, <2>4, <2>7, RequestsAfter DEF Requested
  <2> QED BY <2>3, <2>5, <2>6, <2>7
<1>7. NoMessage.kind = "none"
  BY NoMessageKind
<1>8. Incoming' => Incoming
  BY <1>1, <1>4, <1>7 DEF Incoming
<1>9. reader'.kind = "PARSE_LVLX" \/ Has(to_game', "PARSE_LVLX") => Has(to_game, "PARSE_LVLX")
  BY <1>1, <1>4, <1>7
<1>10. OnePlace'
  BY <1>1, <1>2, <1>4, <1>6, <1>8, <1>9 DEF Once, OnePlace
<1>11. Named'
  <2>1. reader'.kind = "SEND_LVLX" => reader'.path = tests
    BY <1>1, <1>5, <1>7
  <2>2. reader'.kind = "PARSE_LVLX" => m_doAcceptLevelData
    BY <1>1, <1>7
  <2>3. m_doAcceptLevelData' => m_doAcceptLevelData
    BY <1>1
  <2>4. m_doAcceptLevelData' \/ reader'.kind = "PARSE_LVLX" \/ m_levelAccepted'
          \/ game' \in {"open", "read"} => m_accepted_lvl_path' = tests'
    BY <1>1, <1>2, <2>2, <2>3 DEF Once, Named
  <2>5. serving' # NotServing => serving'.ask = tests'
    BY <1>1, <1>2 DEF Once, Named
  <2>6. /\ m_levelAccepted' \/ game' = "open" => m_acceptedLevel' = 0
        /\ game' # "idle" => tests' > 0
    BY <1>2 DEF Once, Named
  <2> QED BY <1>2, <1>5, <2>1, <2>4, <2>5, <2>6 DEF Named
<1>12. LevelRead'
  <2>1. CASE h.kind = "DATA"
    <3>1. game \in {"wait", "check"}
      BY <1>1, <2>1, OnItsWay DEF Once, Incoming
    <3> QED BY <1>2, <3>1 DEF LevelRead, Playing
  <2>2. CASE h.kind # "DATA"
    BY <1>1, <1>2, <2>2 DEF Once, LevelRead, Playing
  <2> QED BY <2>1, <2>2
<1> QED BY <1>10, <1>11, <1>12 DEF Once

LEMMA BeginOnce ==
  ASSUME TypeOK, Framing, Turn, Content, Once, BeginLevel
  PROVE  Once'
<1> DEFINE r == [kind |-> IF reader.parts THEN "READY_PARTS" ELSE "READY"]
<1>1. /\ reader.kind = "SEND_LVLX" /\ to_game' = to_game /\ serving' = serving
      /\ reader' = NoMessage /\ m_doAcceptLevelData' = TRUE
      /\ m_accepted_lvl_path' = reader.path
      /\ m_levelAccepted' = m_levelAccepted /\ m_acceptedLevel' = m_acceptedLevel
      /\ game' = game /\ tests' = tests /\ level' = level
      /\ to_editor' = Sent(r)
  BY DEF BeginLevel
<1>2. to_game = <<>> /\ Incoming
  BY <1>1 DEF Framing, Incoming
<1>3. r \in Reply /\ to_editor \in Seq(Request \cup Reply)
  BY PipeTypes DEF Reply
<1> HIDE DEF r
<1>4. (Requested' => Requested) /\ OneRequest(to_editor', tests)
  <2>1. to_editor' = <<>> \/ to_editor' = Append(to_editor, r)
    BY <1>1 DEF Sent
  <2>2. OneRequest(to_editor, tests)
    BY DEF Once, OnePlace
  <2>3. CASE to_editor' = <<>>
    BY <2>3, NoRequestHere DEF Requested
  <2>4. CASE to_editor' = Append(to_editor, r)
    BY <1>3, <2>2, <2>4, RequestsAfter DEF Requested
  <2> QED BY <2>1, <2>3, <2>4
<1>5. OnePlace'
  BY <1>1, <1>2, <1>4, HasNone, NoMessageKind DEF Once, OnePlace
<1>6. Named'
  BY <1>1, NoMessageKind DEF Once, Named
<1>7. LevelRead'
  <2>1. game \in {"wait", "check"}
    BY <1>2, OnItsWay DEF Once
  <2> QED BY <1>1, <2>1 DEF LevelRead, Playing
<1> QED BY <1>5, <1>6, <1>7 DEF Once

LEMMA EndOnce ==
  ASSUME TypeOK, Framing, Turn, Content, Once, EndLevel
  PROVE  Once'
<1>1. /\ reader.kind = "PARSE_LVLX" /\ to_game' = to_game /\ to_editor' = to_editor
      /\ serving' = serving
      /\ reader' = NoMessage /\ m_doAcceptLevelData' = m_doAcceptLevelData
      /\ m_acceptedRawData' = m_acceptedRawData
      /\ m_accepted_lvl_path' = m_accepted_lvl_path
      /\ m_levelAccepted' = TRUE /\ m_acceptedLevel' = 0
      /\ game' = game /\ tests' = tests /\ level' = level
  BY DEF EndLevel
<1>2. /\ Incoming /\ serving = NotServing /\ ~Has(to_game, "SEND_LVLX") /\ ~m_doAcceptLevelData
  BY <1>1, NoMessageKind DEF Incoming, Once, OnePlace, Framing
<1>3. game \in {"wait", "check"} /\ ~Requested
  BY <1>2 DEF Once, OnePlace
<1>4. ~Incoming' /\ ~Requested'
  BY <1>1, <1>2, <1>3, NoMessageKind DEF Incoming, Requested
<1>5. OnePlace'
  BY <1>1, <1>2, <1>3, <1>4 DEF Once, OnePlace
<1>6. Named'
  <2>1. m_accepted_lvl_path' = tests'
    BY <1>1 DEF Once, Named
  <2>2. AllOpen(to_game', tests')
    BY <1>1 DEF Once, Named
  <2>3. serving' = NotServing /\ reader'.kind # "SEND_LVLX" /\ m_acceptedLevel' = 0
    BY <1>1, <1>2, NoMessageKind
  <2>4. game' # "idle" => tests' > 0
    BY <1>1 DEF Once, Named
  <2> QED BY <2>1, <2>2, <2>3, <2>4 DEF Named
<1>7. LevelRead'
  BY <1>1, <1>3 DEF LevelRead, Playing
<1> QED BY <1>5, <1>6, <1>7 DEF Once

LEMMA StoreOnce ==
  ASSUME TypeOK, Once, storeCommand
  PROVE  Once'
<1>1. /\ to_game' = to_game /\ to_editor' = to_editor /\ serving' = serving
      /\ reader' = NoMessage /\ m_doAcceptLevelData' = m_doAcceptLevelData
      /\ m_acceptedRawData' = m_acceptedRawData /\ m_accepted_lvl_path' = m_accepted_lvl_path
      /\ m_levelAccepted' = m_levelAccepted /\ m_acceptedLevel' = m_acceptedLevel
      /\ game' = game /\ tests' = tests /\ level' = level
  BY DEF storeCommand
<1>2. OnePlace'
  BY <1>1, NoMessageKind DEF Once, OnePlace, Incoming, Requested
<1>3. Named'
  BY <1>1, NoMessageKind DEF Once, Named
<1>4. LevelRead'
  BY <1>1 DEF Once, LevelRead, Playing
<1> QED BY <1>2, <1>3, <1>4 DEF Once

LEMMA TestOnce ==
  ASSUME TypeOK, Once, asks = tests, zTestLevel
  PROVE  Once'
<1> DEFINE r == [kind |-> "CONNECT", ask |-> asks + 1]
<1>1. /\ game = "idle" /\ game' = "wait" /\ tests' = tests + 1
      /\ to_game' = to_game /\ serving' = serving /\ reader' = reader
      /\ m_doAcceptLevelData' = m_doAcceptLevelData
      /\ m_levelAccepted' = m_levelAccepted
      /\ to_editor' = Sent(r)
  BY DEF zTestLevel, Connect
<1>2. tests \in Nat /\ asks \in Nat
  BY DEF TypeOK, GameTypeOK
<1>3. r \in Request /\ to_editor \in Seq(Request \cup Reply) /\ r.ask = tests + 1
  BY <1>2, PipeTypes DEF Request
<1> HIDE DEF r
<1>4. ~Requested /\ ~Incoming /\ ~m_levelAccepted
  BY <1>1 DEF Once, OnePlace
<1>5. OneRequest(to_editor', tests')
  <2>1. CASE to_editor' = <<>>
    BY <2>1, NoRequestHere
  <2>2. CASE to_editor' = Append(to_editor, r)
    <3>1. ~Has(to_editor, "CONNECT")
      BY <1>4 DEF Requested
    <3>2. OneRequest(Append(to_editor, r), tests + 1)
      BY <1>3, <3>1, RequestsAfter
    <3> QED BY <1>1, <2>2, <3>2
  <2> QED BY <1>1, <2>1, <2>2 DEF Sent
<1>6. ~Incoming' /\ ~m_levelAccepted' /\ reader'.kind # "PARSE_LVLX" /\ reader'.kind # "SEND_LVLX"
  BY <1>1, <1>4 DEF Incoming
<1>7. /\ ~Has(to_game', "SEND_LVLX") /\ serving' = NotServing
      /\ AllOpen(to_game', tests') /\ ~m_doAcceptLevelData'
  BY <1>1, <1>4, OpenAfter, PipeTypes DEF Incoming
<1>8. OnePlace'
  BY <1>1, <1>5, <1>6, <1>7 DEF OnePlace
<1>9. Named'
  BY <1>1, <1>2, <1>6, <1>7 DEF Named
<1>10. LevelRead'
  BY <1>1 DEF LevelRead, Playing
<1> QED BY <1>8, <1>9, <1>10 DEF Once

\* The level is taken, asked for again later, and read to its end.
LEMMA WaitOnce ==
  ASSUME TypeOK, Once, game # "over", Elapse \/ hasLevelData \/ WaitOn
  PROVE  Once'
<1>1. PipeStays /\ level' = level /\ tests' = tests /\ m_acceptedLevel' = m_acceptedLevel
  BY Scopes DEF LoaderStep, Elapse, hasLevelData, WaitOn
<1>2. /\ game \in {"wait", "check"}
      /\ m_levelAccepted' => m_levelAccepted
      /\ m_levelAccepted' => game' \in {"wait", "check"}
      /\ game' \in {"wait", "check"} \/ (game' = "open" /\ m_levelAccepted)
  BY DEF Elapse, hasLevelData, WaitOn, Taken
<1>3. (Requested' <=> Requested) /\ (Incoming' <=> Incoming)
  BY <1>1 DEF PipeStays, Requested, Incoming
<1>4. OnePlace'
  <2>1. Requested' => ~Incoming' /\ ~m_levelAccepted'
    BY <1>2, <1>3 DEF Once, OnePlace
  <2>2. Incoming' => ~m_levelAccepted'
    BY <1>2, <1>3 DEF Once, OnePlace
  <2>3. reader'.kind = "PARSE_LVLX" \/ Has(to_game', "PARSE_LVLX") =>
          serving' = NotServing /\ ~Has(to_game', "SEND_LVLX")
    BY <1>1 DEF Once, OnePlace, PipeStays
  <2>4. Requested' \/ Incoming' \/ m_levelAccepted' => game' \in {"wait", "check"}
    BY <1>2, <1>3 DEF Once, OnePlace
  <2>5. OneRequest(to_editor', tests')
    BY <1>1 DEF Once, OnePlace, PipeStays
  <2> QED BY <2>1, <2>2, <2>3, <2>4, <2>5 DEF OnePlace
<1>5. Named'
  BY <1>1, <1>2 DEF Once, Named, PipeStays
<1>6. LevelRead'
  BY <1>2 DEF LevelRead, Playing
<1> QED BY <1>4, <1>5, <1>6 DEF Once

\* A game that is past waiting: nothing is under way, nothing can change what was received.
LEMMA QuietOnce ==
  ASSUME Once, game \notin {"wait", "check", "over"}, game' \notin {"wait", "check", "over"},
         PipeStays, m_levelAccepted' = m_levelAccepted, tests' = tests,
         game' # "idle" => game # "idle",
         game' \in {"open", "read"} => game \in {"open", "read"},
         game' = "open" => m_acceptedLevel' = m_acceptedLevel /\ game = "open"
  PROVE  OnePlace' /\ Named'
<1>1. ~Requested /\ ~Incoming /\ ~m_levelAccepted
  BY DEF Once, OnePlace
<1>2. ~Requested' /\ ~Incoming' /\ ~m_levelAccepted'
  BY <1>1 DEF PipeStays, Requested, Incoming
<1>3. OnePlace'
  BY <1>2 DEF Once, OnePlace, PipeStays
<1>4. Named'
  <2>1. m_doAcceptLevelData' \/ reader'.kind = "PARSE_LVLX" \/ m_levelAccepted'
          \/ game' \in {"open", "read"} => m_accepted_lvl_path' = tests'
    BY DEF Once, Named, PipeStays
  <2>2. /\ m_levelAccepted' \/ game' = "open" => m_acceptedLevel' = 0
        /\ game' # "idle" => tests' > 0
    BY <1>2 DEF Once, Named
  <2>3. /\ serving' # NotServing => serving'.ask = tests'
        /\ AllOpen(to_game', tests')
        /\ reader'.kind = "SEND_LVLX" => reader'.path = tests'
    BY DEF Once, Named, PipeStays
  <2> QED BY <2>1, <2>2, <2>3 DEF Named
<1> QED BY <1>3, <1>4

LEMMA ReadOnce ==
  ASSUME TypeOK, Framing, Content, Once, OpenLevelData \/ ReadPart \/ ReadEnd \/ Leave,
         game' # "over"
  PROVE  Once'
<1>1. /\ PipeStays /\ m_levelAccepted' = m_levelAccepted /\ tests' = tests
      /\ tests \in Nat /\ m_acceptedRawData \in Seq(Part) /\ m_acceptedLevel \in Nat
      /\ level \in [path : Nat, parts : Seq(Part)]
  BY Scopes DEF LoaderStep, OpenLevelData, ReadPart, ReadEnd, Leave, TypeOK, GameTypeOK, PipeTypeOK
<1>2. CASE OpenLevelData
  <2>1. /\ game = "open" /\ game' = "read" /\ m_acceptedLevel' = m_acceptedLevel
        /\ level' = [path |-> m_accepted_lvl_path, parts |-> <<>>]
    BY <1>2 DEF OpenLevelData
  <2>2. m_acceptedLevel = 0 /\ m_accepted_lvl_path = tests
    BY <2>1 DEF Once, Named
  <2>3. SubSeq(m_acceptedRawData, 1, 0) = <<>> /\ Len(m_acceptedRawData) \in Nat
    BY <1>1
  <2>4. LevelRead'
    BY <1>1, <2>1, <2>2, <2>3 DEF LevelRead, Playing, PipeStays
  <2> QED BY <1>1, <2>1, <2>4, QuietOnce DEF Once
<1>3. CASE ReadPart
  <2> DEFINE n == m_acceptedLevel
             raw == m_acceptedRawData
  <2>1. /\ game = "read" /\ game' = game /\ n < Len(raw) /\ n' = n + 1
        /\ level' = [level EXCEPT !.parts = Append(@, raw[n + 1])]
    BY <1>3 DEF ReadPart
  <2>2. level.path = tests /\ level.parts = SubSeq(raw, 1, n)
    BY <2>1 DEF Once, LevelRead, Playing
  <2>3. level'.path = tests /\ level'.parts = Append(SubSeq(raw, 1, n), raw[n + 1])
    BY <1>1, <2>1, <2>2
  <2>4. raw' = raw
    BY <1>1 DEF PipeStays
  <2>5. Append(SubSeq(raw, 1, n), raw[n + 1]) = SubSeq(raw, 1, n + 1) /\ n + 1 <= Len(raw)
    <3>1. raw \in Seq(Part) /\ n \in Nat /\ n < Len(raw) /\ Len(raw) \in Nat
      BY <1>1, <2>1
    <3> HIDE DEF n, raw
    <3> QED BY <3>1
  <2>6. LevelRead'
    <3> HIDE DEF n, raw
    <3>1. level'.path = tests' /\ n' <= Len(raw') /\ level'.parts = SubSeq(raw', 1, n')
      BY <1>1, <2>1, <2>3, <2>4, <2>5
    <3> QED BY <2>1, <3>1 DEF LevelRead, Playing, n, raw
  <2> QED BY <1>1, <2>1, <2>6, QuietOnce DEF Once
<1>4. CASE ReadEnd
  <2>1. /\ game = "read" /\ game' = "play" /\ level' = level
        /\ m_acceptedLevel >= Len(m_acceptedRawData) /\ m_acceptedLevel' = m_acceptedLevel
    BY <1>4 DEF ReadEnd
  <2>2. /\ level.path = tests /\ m_acceptedLevel <= Len(m_acceptedRawData)
        /\ level.parts = SubSeq(m_acceptedRawData, 1, m_acceptedLevel)
    BY <2>1 DEF Once, LevelRead, Playing
  <2>3. level.parts = m_acceptedRawData
    <3>1. m_acceptedLevel = Len(m_acceptedRawData)
      BY <1>1, <2>1, <2>2
    <3>2. SubSeq(m_acceptedRawData, 1, Len(m_acceptedRawData)) = m_acceptedRawData
      BY <1>1
    <3> QED BY <2>2, <3>1, <3>2
  <2>4. m_accepted_lvl_path = tests /\ tests > 0 /\ ~m_doAcceptLevelData
    BY <2>1 DEF Once, Named, OnePlace, Incoming
  <2>5. m_acceptedRawData = Whole(tests)
    BY <1>1, <2>4 DEF Content
  <2>6. level = [path |-> tests, parts |-> Whole(tests)]
    BY <1>1, <2>2, <2>3, <2>5
  <2>7. LevelRead'
    BY <1>1, <2>1, <2>6 DEF LevelRead, Playing, Whole
  <2> QED BY <1>1, <2>1, <2>7, QuietOnce DEF Once
<1>5. CASE Leave
  <2>1. game = "play" /\ game' = "idle"
    BY <1>5 DEF Leave
  <2>2. LevelRead'
    BY <2>1 DEF LevelRead, Playing
  <2> QED BY <1>1, <2>1, <2>2, QuietOnce DEF Once
<1> QED BY <1>2, <1>3, <1>4, <1>5

LEMMA PlayOnce ==
  ASSUME Once, UpdateInterprocess \/ PlayerStep
  PROVE  Once'
<1>1. PipeStays /\ LevelStays /\ level' = level /\ tests' = tests
  BY Scopes DEF UpdateInterprocess, PlayerStep, Pause, CloseMessage
<1>2. game \in {"play", "pause", "message"} /\ game' \in {"play", "pause", "message"}
  BY DEF UpdateInterprocess, UpdateEditor, PlayerStep, Pause, CloseMessage
<1>3. LevelRead'
  BY <1>1, <1>2 DEF Once, LevelRead, Playing, Whole
<1> QED BY <1>1, <1>2, <1>3, QuietOnce DEF Once, LevelStays

LEMMA NextOnce ==
  ASSUME TypeOK, Framing, Turn, Content, asks >= tests, OnceAsked, [Next]_vars
  PROVE  asks' >= tests' /\ OnceAsked'
<1>1. tests \in Nat /\ asks \in Nat
  BY DEF TypeOK, GameTypeOK
<1>2. CASE AskAgain
  <2>1. asks' = asks + 1 /\ tests' = tests
    BY <1>2 DEF AskAgain, Connect
  <2> QED BY <1>1, <2>1 DEF OnceAsked
<1>3. CASE zTestLevel
  <2>1. asks' = asks + 1 /\ tests' = tests + 1 /\ game = "idle"
    BY <1>3 DEF zTestLevel, Connect
  <2>2. asks = tests => Once
    BY <2>1 DEF OnceAsked, Once
  <2>3. asks' = tests' => asks = tests
    BY <1>1, <2>1
  <2>4. asks' = tests' => Once'
    BY <1>3, <2>2, <2>3, TestOnce
  <2> QED BY <1>1, <2>1, <2>4 DEF OnceAsked, Once
<1>4. ASSUME [Next]_vars, ~AskAgain, ~zTestLevel
      PROVE  asks' = asks /\ tests' = tests /\ (game = "over" => game' = "over")
  <2>1. GameStays => asks' = asks /\ tests' = tests /\ (game = "over" => game' = "over")
    BY DEF GameStays
  <2>2. CASE EditorStep \/ SendCommand \/ Reader \/ UNCHANGED vars
    BY <2>1, <2>2, Scopes DEF Reader
  <2>3. CASE LoaderStep
    BY <2>3 DEF LoaderStep, Elapse, hasLevelData, WaitOn, OpenLevelData, ReadPart, ReadEnd, Leave
  <2>4. CASE UpdateInterprocess \/ PlayerStep
    BY <2>4 DEF UpdateInterprocess, UpdateEditor, PlayerStep, Pause, CloseMessage
  <2> QED BY <1>4, <2>2, <2>3, <2>4 DEF Next, Editor, Waiting, Loading, EditorStep, LoaderStep, PlayerStep
<1>5. CASE ~AskAgain /\ ~zTestLevel
  <2>1. asks' = asks /\ tests' = tests /\ (game = "over" => game' = "over")
    BY <1>4, <1>5
  <2>2. SUFFICES ASSUME asks' = tests', game' # "over" PROVE Once'
    BY <2>1 DEF OnceAsked, Once
  <2>3. Once /\ game # "over"
    BY <2>1, <2>2 DEF OnceAsked, Once
  <2>4. CASE Editor
    <3>1. CASE Answer
      BY <2>3, <3>1, AnswerOnce
    <3>2. CASE \E m \in DOMAIN to_editor : Serve(m)
      BY <2>3, <3>2, ServeOnce
    <3> QED BY <2>4, <3>1, <3>2 DEF Editor
  <2>5. CASE Reader
    BY <2>3, <2>5, ReceiveOnce, BeginOnce, EndOnce, StoreOnce DEF Reader
  <2>6. CASE SendCommand \/ GoAway
    BY <2>3, <2>6, EditorOnce
  <2>7. CASE LoaderStep
    BY <2>2, <2>3, <2>7, WaitOnce, ReadOnce DEF LoaderStep
  <2>8. CASE UpdateInterprocess \/ PlayerStep
    BY <2>3, <2>8, PlayOnce
  <2>9. CASE UNCHANGED vars
    BY <2>3, <2>9 DEF vars, Once, OnePlace, Named, LevelRead, Playing, Incoming, Requested
  <2> QED BY <1>5, <2>4, <2>5, <2>6, <2>7, <2>8, <2>9 DEF Next, Waiting, Loading, LoaderStep, PlayerStep
<1> QED BY <1>2, <1>3, <1>5

-----------------------------------------------------------------------------
(* The commands.                                                           *)

LEMMA CommandTypes ==
  ASSUME TypeOK
  PROVE  /\ s_cmd_queue \in Seq([number : Nat, type : CommandKinds])
         /\ done \in Seq([number : Nat, as : CommandKinds, alone : BOOLEAN])
         /\ sent \in Seq(CommandKinds)
         /\ Len(s_cmd_queue) \in Nat /\ Len(done) \in Nat /\ Len(sent) \in Nat
         /\ DOMAIN done = 1..Len(done) /\ DOMAIN s_cmd_queue = 1..Len(s_cmd_queue)
         /\ Received \in Nat
<1>1. /\ s_cmd_queue \in Seq([number : Nat, type : CommandKinds])
      /\ done \in Seq([number : Nat, as : CommandKinds, alone : BOOLEAN])
      /\ sent \in Seq(CommandKinds)
  BY DEF TypeOK, CommandTypeOK
<1>2. /\ Len(s_cmd_queue) \in Nat /\ Len(done) \in Nat /\ Len(sent) \in Nat
      /\ DOMAIN done = 1..Len(done) /\ DOMAIN s_cmd_queue = 1..Len(s_cmd_queue)
  BY <1>1
<1>3. Received \in Nat
  BY <1>2 DEF Received
<1> QED BY <1>1, <1>2, <1>3

\* What is still to come, of the commands from the first one to the last.
ToCome(queue, first, last) ==
  /\ \A n \in first..last : \E m \in 1..Len(queue) : IsCommand(queue[m]) /\ queue[m].number = n
  /\ \A m \in 1..Len(queue) : IsCommand(queue[m]) =>
       /\ queue[m].number \in first..last
       /\ \A l \in 1..(m - 1) : IsCommand(queue[l]) => queue[l].number < queue[m].number

AreKept(queue, kinds) ==
  \A m \in 1..Len(queue) : IsCommand(queue[m]) =>
    queue[m].number \in 1..Len(kinds) /\ queue[m].kind = kinds[queue[m].number]

LEMMA OrderedIs ==
  ASSUME TypeOK, CommandsInOrder
  PROVE  /\ \A k \in 1..Len(done) : done[k].number = k
         /\ \A k \in 1..Len(s_cmd_queue) : s_cmd_queue[k].number = Len(done) + k
         /\ IsCommand(reader) => reader.number = Received
         /\ ToCome(to_game, Received + 1, Len(sent))
BY CommandTypes, PipeTypes DEF CommandsInOrder, ToCome

LEMMA OrderedNext ==
  ASSUME TypeOK',
         \A k \in 1..Len(done') : done'[k].number = k,
         \A k \in 1..Len(s_cmd_queue') : s_cmd_queue'[k].number = Len(done') + k,
         IsCommand(reader') => reader'.number = Received',
         ToCome(to_game', Received' + 1, Len(sent'))
  PROVE  CommandsInOrder'
<1>1. /\ to_game' \in Seq(Message)
      /\ s_cmd_queue' \in Seq([number : Nat, type : CommandKinds])
      /\ done' \in Seq([number : Nat, as : CommandKinds, alone : BOOLEAN])
  BY DEF TypeOK, PipeTypeOK, CommandTypeOK
<1>2. /\ DOMAIN to_game' = 1..Len(to_game') /\ DOMAIN s_cmd_queue' = 1..Len(s_cmd_queue')
      /\ DOMAIN done' = 1..Len(done')
  BY <1>1
<1> QED BY <1>2 DEF CommandsInOrder, ToCome

\* All that were received have been sent.
LEMMA ReceivedBound ==
  ASSUME TypeOK, CommandsInOrder, KindsKept
  PROVE  Received <= Len(sent)
<1>1. /\ Len(s_cmd_queue) \in Nat /\ Len(done) \in Nat /\ Len(sent) \in Nat
      /\ \A k \in 1..Len(done) : done[k].number = k
      /\ \A k \in 1..Len(s_cmd_queue) : s_cmd_queue[k].number = Len(done) + k
      /\ IsCommand(reader) => reader.number = Received
  BY CommandTypes, OrderedIs
<1>2. CASE IsCommand(reader)
  BY <1>1, <1>2 DEF KindsKept
<1>3. CASE ~IsCommand(reader) /\ Len(s_cmd_queue) > 0
  <2>1. Len(s_cmd_queue) \in 1..Len(s_cmd_queue) /\ Received = Len(done) + Len(s_cmd_queue)
    BY <1>1, <1>3 DEF Received
  <2> QED BY <1>1, <2>1 DEF KindsKept
<1>4. CASE ~IsCommand(reader) /\ ~(Len(s_cmd_queue) > 0)
  <2>1. Received = Len(done)
    BY <1>1, <1>4 DEF Received
  <2>2. Len(done) > 0 => Len(done) \in 1..Len(done)
    BY <1>1
  <2> QED BY <1>1, <2>1, <2>2 DEF KindsKept
<1> QED BY <1>2, <1>3, <1>4

LEMMA ToComeAppend ==
  ASSUME NEW q \in Seq(Message), NEW x \in Message, NEW first \in Nat, NEW last \in Nat,
         ToCome(q, first, last), NEW kinds, AreKept(q, kinds)
  PROVE  /\ ~IsCommand(x) =>
              ToCome(Append(q, x), first, last) /\ AreKept(Append(q, x), kinds)
         /\ IsCommand(x) /\ x.number = last + 1 /\ first <= last + 1 =>
              ToCome(Append(q, x), first, last + 1)
<1> DEFINE p == Append(q, x)
<1>1. /\ Len(p) = Len(q) + 1 /\ Len(q) \in Nat /\ p[Len(q) + 1] = x
      /\ \A i \in 1..Len(q) : p[i] = q[i]
  BY AppendAt
<1>2. \A i \in 1..Len(p) : i \in 1..Len(q) \/ i = Len(q) + 1
  BY <1>1
<1>3. \A i \in 1..Len(q) : i \in 1..Len(p) /\ \A l \in 1..(i - 1) : l \in 1..Len(q)
  BY <1>1
<1> HIDE DEF p
<1>4. ASSUME ~IsCommand(x) PROVE ToCome(p, first, last) /\ AreKept(p, kinds)
  <2>1. \A n \in first..last : \E m \in 1..Len(p) : IsCommand(p[m]) /\ p[m].number = n
    BY <1>1, <1>3 DEF ToCome
  <2>2. \A m \in 1..Len(p) : IsCommand(p[m]) => m \in 1..Len(q) /\ p[m] = q[m]
    BY <1>1, <1>2, <1>4
  <2>3. \A m \in 1..Len(p) : IsCommand(p[m]) =>
          /\ p[m].number \in first..last
          /\ \A l \in 1..(m - 1) : IsCommand(p[l]) => p[l].number < p[m].number
    BY <1>1, <1>3, <2>2 DEF ToCome
  <2>4. AreKept(p, kinds)
    BY <2>2 DEF AreKept
  <2> QED BY <2>1, <2>3, <2>4 DEF ToCome
<1>5. ASSUME IsCommand(x), x.number = last + 1, first <= last + 1
      PROVE  ToCome(p, first, last + 1)
  <2>1. ASSUME NEW n \in first..(last + 1)
        PROVE  \E m \in 1..Len(p) : IsCommand(p[m]) /\ p[m].number = n
    <3>1. CASE n = last + 1
      <4>1. Len(q) + 1 \in 1..Len(p)
        BY <1>1
      <4> QED BY <1>1, <1>5, <3>1, <4>1
    <3>2. CASE n \in first..last
      BY <1>1, <1>3, <3>2 DEF ToCome
    <3> QED BY <3>1, <3>2
  <2>2. ASSUME NEW m \in 1..Len(p), IsCommand(p[m])
        PROVE  /\ p[m].number \in first..(last + 1)
               /\ \A l \in 1..(m - 1) : IsCommand(p[l]) => p[l].number < p[m].number
    <3>1. CASE m \in 1..Len(q)
      <4>1. /\ q[m].number \in first..last
            /\ \A l \in 1..(m - 1) : IsCommand(q[l]) => q[l].number < q[m].number
        BY <1>1, <2>2, <3>1 DEF ToCome
      <4> QED BY <1>1, <1>3, <3>1, <4>1
    <3>2. CASE m = Len(q) + 1
      <4>1. \A l \in 1..(m - 1) : l \in 1..Len(q)
        BY <1>1, <3>2
      <4>2. \A l \in 1..Len(q) : IsCommand(q[l]) => q[l].number \in first..last
        BY DEF ToCome
      <4> QED BY <1>1, <1>5, <3>2, <4>1, <4>2
    <3> QED BY <1>2, <3>1, <3>2
  <2> QED BY <2>1, <2>2 DEF ToCome
<1> QED BY <1>4, <1>5 DEF p

LEMMA ToComeTail ==
  ASSUME NEW q \in Seq(Message), q # <<>>, NEW first \in Nat, NEW last \in Nat,
         ToCome(q, first, last), NEW kinds, AreKept(q, kinds)
  PROVE  /\ ~IsCommand(q[1]) => ToCome(Tail(q), first, last)
         /\ IsCommand(q[1]) => q[1].number = first /\ ToCome(Tail(q), first + 1, last)
         /\ AreKept(Tail(q), kinds)
<1> DEFINE p == Tail(q)
<1>1. /\ 1 \in 1..Len(q) /\ Len(q) \in Nat /\ Len(p) = Len(q) - 1
      /\ \A i \in 1..Len(p) : i + 1 \in 1..Len(q) /\ p[i] = q[i + 1]
  BY TailAt
<1> HIDE DEF p
<1>2. ASSUME NEW i \in 1..Len(q), i # 1
      PROVE  i - 1 \in 1..Len(p) /\ p[i - 1] = q[i]
  <2>1. i - 1 \in 1..Len(p) /\ (i - 1) + 1 = i
    BY <1>1, <1>2
  <2> QED BY <1>1, <2>1
<1>3. AreKept(p, kinds)
  BY <1>1 DEF AreKept
<1>4. ASSUME NEW m \in 1..Len(p), IsCommand(p[m])
      PROVE  /\ p[m].number \in first..last
             /\ \A l \in 1..(m - 1) : IsCommand(p[l]) => p[l].number < p[m].number
             /\ IsCommand(q[1]) => q[1].number < p[m].number
  <2>1. m + 1 \in 1..Len(q) /\ p[m] = q[m + 1] /\ 1 \in 1..((m + 1) - 1)
    BY <1>1
  <2>2. /\ q[m + 1].number \in first..last
        /\ \A l \in 1..((m + 1) - 1) : IsCommand(q[l]) => q[l].number < q[m + 1].number
    BY <1>4, <2>1 DEF ToCome
  <2>3. \A l \in 1..(m - 1) : l \in 1..Len(p) /\ l + 1 \in 1..((m + 1) - 1)
    BY <1>1
  <2> QED BY <1>1, <2>1, <2>2, <2>3
<1>5. ASSUME ~IsCommand(q[1]) PROVE ToCome(p, first, last)
  <2>1. ASSUME NEW n \in first..last
        PROVE  \E m \in 1..Len(p) : IsCommand(p[m]) /\ p[m].number = n
    <3>1. PICK m \in 1..Len(q) : IsCommand(q[m]) /\ q[m].number = n
      BY DEF ToCome
    <3>2. m - 1 \in 1..Len(p) /\ p[m - 1] = q[m]
      BY <1>2, <1>5, <3>1
    <3> QED BY <3>1, <3>2
  <2> QED BY <1>4, <2>1 DEF ToCome
<1>6. ASSUME IsCommand(q[1]) PROVE q[1].number = first /\ ToCome(p, first + 1, last)
  <2>1. q[1].number \in first..last
    BY <1>1, <1>6 DEF ToCome
  <2>2. q[1].number = first
    <3>1. PICK m \in 1..Len(q) : IsCommand(q[m]) /\ q[m].number = first
      BY <2>1 DEF ToCome
    <3>2. m # 1 => q[1].number < first
      <4>1. m # 1 => 1 \in 1..(m - 1)
        OBVIOUS
      <4> QED BY <1>6, <3>1, <4>1 DEF ToCome
    <3> QED BY <2>1, <3>1, <3>2
  <2>3. ASSUME NEW n \in (first + 1)..last
        PROVE  \E m \in 1..Len(p) : IsCommand(p[m]) /\ p[m].number = n
    <3>1. n \in first..last /\ n # first
      OBVIOUS
    <3>2. PICK m \in 1..Len(q) : IsCommand(q[m]) /\ q[m].number = n
      BY <3>1 DEF ToCome
    <3>3. m - 1 \in 1..Len(p) /\ p[m - 1] = q[m]
      BY <1>2, <2>2, <3>1, <3>2
    <3> QED BY <3>2, <3>3
  <2>4. \A m \in 1..Len(p) : IsCommand(p[m]) => p[m].number \in (first + 1)..last
    BY <1>4, <1>6, <2>2
  <2> QED BY <1>4, <2>2, <2>3, <2>4 DEF ToCome
<1> QED BY <1>3, <1>5, <1>6 DEF p

LEMMA ToComeNone ==
  ASSUME NEW p, NEW q, NEW first, NEW last, ToCome(q, first, last), NEW kinds,
         \A m \in 1..Len(q) : ~IsCommand(q[m]), \A m \in 1..Len(p) : ~IsCommand(p[m])
  PROVE  ToCome(p, first, last) /\ AreKept(p, kinds)
BY DEF ToCome, AreKept

Ordered == CommandsInOrder /\ KindsKept /\ AloneAsSent

\* Nothing but what is still in the pipe changes, or nothing does.
LEMMA PipeOrdered ==
  ASSUME TypeOK, TypeOK', Ordered, CommandsStay,
         IsCommand(reader') <=> IsCommand(reader), IsCommand(reader) => reader' = reader,
         ToCome(to_game', Received + 1, Len(sent)), AreKept(to_game', sent)
  PROVE  Ordered'
<1>1. /\ \A k \in 1..Len(done) : done[k].number = k
      /\ \A k \in 1..Len(s_cmd_queue) : s_cmd_queue[k].number = Len(done) + k
      /\ IsCommand(reader) => reader.number = Received
  BY OrderedIs DEF Ordered
<1>2. Received' = Received
  BY DEF Received, CommandsStay
<1>3. CommandsInOrder'
  BY <1>1, <1>2, OrderedNext DEF CommandsStay
<1>4. KindsKept'
  BY DEF Ordered, KindsKept, AreKept, CommandsStay
<1>5. AloneAsSent'
  BY DEF Ordered, AloneAsSent, CommandsStay
<1> QED BY <1>3, <1>4, <1>5 DEF Ordered

LEMMA EditorOrdered ==
  ASSUME TypeOK, TypeOK', Framing, Turn, Content, Ordered, EditorStep
  PROVE  Ordered'
<1>1. reader' = reader /\ CommandsStay
  BY Scopes DEF EditorStep, Answer, Serve, GoAway
<1>2. ToCome(to_game, Received + 1, Len(sent)) /\ AreKept(to_game, sent)
  BY OrderedIs DEF Ordered, KindsKept, AreKept
<1>3. ToCome(to_game', Received + 1, Len(sent)) /\ AreKept(to_game', sent)
  <2>1. CASE Answer
    <3>1. PICK parts \in BOOLEAN :
            to_game' = Append(to_game, [kind |-> "SEND_LVLX", path |-> serving'.ask, parts |-> parts])
      BY <2>1 DEF Answer
    <3> DEFINE x == [kind |-> "SEND_LVLX", path |-> serving'.ask, parts |-> parts]
    <3>2. serving'.ask \in Nat
      BY DEF TypeOK, PipeTypeOK
    <3>3. x \in Message /\ ~IsCommand(x)
      BY <3>2, KindsAssumption DEF Message, Announcement, IsCommand
    <3> HIDE DEF x
    <3>4. to_game' = Append(to_game, x) /\ to_game \in Seq(Message)
      BY <3>1, PipeTypes DEF x
    <3> QED BY <1>2, <3>3, <3>4, ToComeAppend, CommandTypes
  <2>2. CASE \E m \in DOMAIN to_editor : Serve(m)
    <3>1. to_game = <<>> /\ \A i \in 1..Len(to_game') : ~IsCommand(to_game'[i])
      BY <2>2, ServePipe DEF Asked
    <3>2. \A i \in 1..Len(to_game) : ~IsCommand(to_game[i])
      BY <3>1
    <3> QED BY <1>2, <3>1, <3>2, ToComeNone
  <2>3. CASE GoAway
    BY <1>2, <2>3 DEF GoAway
  <2> QED BY <2>1, <2>2, <2>3 DEF EditorStep
<1> QED BY <1>1, <1>3, PipeOrdered

LEMMA SendOrdered ==
  ASSUME TypeOK, TypeOK', Ordered, SendCommand
  PROVE  Ordered'
<1>1. PICK x \in Command :
        /\ to_game' = Append(to_game, x) /\ sent' = Append(sent, x.kind)
        /\ x.number = Len(sent) + 1 /\ x.kind \in CommandKinds /\ x \in Message
  BY SendCommandDoes
<1>2. /\ reader' = reader /\ s_cmd_queue' = s_cmd_queue /\ done' = done
      /\ s_cmd_recentType' = s_cmd_recentType /\ s_has_command' = s_has_command
  BY DEF SendCommand
<1>3. /\ Len(sent') = Len(sent) + 1 /\ Len(sent) \in Nat
      /\ sent'[Len(sent) + 1] = x.kind /\ \A n \in 1..Len(sent) : sent'[n] = sent[n]
  BY <1>1, CommandTypes, AppendAt
<1>4. \A n \in 1..Len(sent) : n \in 1..Len(sent') /\ sent'[n] = sent[n]
  BY <1>3
<1>5. /\ Received <= Len(sent) /\ Received \in Nat /\ Received' = Received
  BY <1>2, ReceivedBound, CommandTypes DEF Ordered, Received
<1>6. /\ \A k \in 1..Len(done) : done[k].number = k
      /\ \A k \in 1..Len(s_cmd_queue) : s_cmd_queue[k].number = Len(done) + k
      /\ IsCommand(reader) => reader.number = Received
      /\ ToCome(to_game, Received + 1, Len(sent)) /\ AreKept(to_game, sent)
  BY OrderedIs DEF Ordered, KindsKept, AreKept
<1>7. ToCome(to_game', Received + 1, Len(sent) + 1)
  BY <1>1, <1>3, <1>5, <1>6, ToComeAppend, PipeTypes DEF IsCommand
<1>8. CommandsInOrder'
  BY <1>2, <1>3, <1>5, <1>6, <1>7, OrderedNext
<1>9. AreKept(to_game', sent')
  <2>1. /\ Len(to_game') = Len(to_game) + 1 /\ Len(to_game) \in Nat
        /\ to_game'[Len(to_game) + 1] = x
        /\ \A i \in 1..Len(to_game) : to_game'[i] = to_game[i]
    BY <1>1, PipeTypes, AppendAt
  <2>2. \A i \in 1..Len(to_game') : i \in 1..Len(to_game) \/ i = Len(to_game) + 1
    BY <2>1
  <2>3. Len(sent) + 1 \in 1..Len(sent')
    BY <1>3
  <2> QED BY <1>1, <1>3, <1>4, <1>6, <2>1, <2>2, <2>3 DEF AreKept
<1>10. KindsKept'
  BY <1>2, <1>4, <1>9 DEF Ordered, KindsKept, AreKept
<1>11. AloneAsSent'
  BY <1>2, <1>4, CommandTypes DEF Ordered, KindsKept, AloneAsSent
<1> QED BY <1>8, <1>10, <1>11 DEF Ordered

LEMMA ReceiveOrdered ==
  ASSUME TypeOK, TypeOK', Framing, Ordered, Receive
  PROVE  Ordered'
<1> DEFINE h == to_game[1]
<1>1. /\ to_game # <<>> /\ reader = NoMessage /\ to_game' = Tail(to_game) /\ h \in Message
      /\ h.kind = "DATA" => reader' = reader
      /\ h.kind # "DATA" => reader' = h
  BY ReceiveDoes
<1>2. CommandsStay /\ ~IsCommand(reader) /\ (h.kind = "DATA" => ~IsCommand(h))
  BY <1>1, Scopes, NoMessageKind, KindsAssumption DEF IsCommand
<1>3. ToCome(to_game, Received + 1, Len(sent)) /\ AreKept(to_game, sent)
  BY OrderedIs DEF Ordered, KindsKept, AreKept
<1>4. /\ ~IsCommand(h) => ToCome(to_game', Received + 1, Len(sent))
      /\ IsCommand(h) => h.number = Received + 1 /\ ToCome(to_game', Received + 2, Len(sent))
      /\ AreKept(to_game', sent)
  <2>1. Received \in Nat /\ Len(sent) \in Nat /\ Received + 1 \in Nat /\ (Received + 1) + 1 = Received + 2
    BY CommandTypes
  <2> QED BY <1>1, <1>3, <2>1, ToComeTail, PipeTypes
<1>5. IsCommand(h) => h.number \in 1..Len(sent) /\ h.kind = sent[h.number]
  <2>1. 1 \in 1..Len(to_game)
    BY <1>1, TailAt, PipeTypes
  <2> QED BY <1>3, <2>1 DEF AreKept
<1> HIDE DEF h
<1>6. CASE ~IsCommand(h)
  BY <1>1, <1>2, <1>4, <1>6, PipeOrdered
<1>7. CASE IsCommand(h)
  <2>1. reader' = h
    BY <1>1, <1>2, <1>7
  <2>2. Received' = Received + 1 /\ Received \in Nat
    BY <1>2, <1>7, <2>1, CommandTypes DEF Received, CommandsStay
  <2>3. Received' + 1 = Received + 2
    BY <2>2
  <2>4. /\ \A k \in 1..Len(done) : done[k].number = k
        /\ \A k \in 1..Len(s_cmd_queue) : s_cmd_queue[k].number = Len(done) + k
    BY OrderedIs DEF Ordered
  <2>5. CommandsInOrder'
    BY <1>2, <1>4, <1>7, <2>1, <2>2, <2>3, <2>4, OrderedNext DEF CommandsStay
  <2>6. KindsKept'
    BY <1>2, <1>4, <1>5, <1>7, <2>1 DEF Ordered, KindsKept, AreKept, CommandsStay
  <2>7. AloneAsSent'
    BY <1>2 DEF Ordered, AloneAsSent, CommandsStay
  <2> QED BY <2>5, <2>6, <2>7 DEF Ordered
<1> QED BY <1>6, <1>7

LEMMA StoreOrdered ==
  ASSUME TypeOK, TypeOK', Ordered, storeCommand
  PROVE  Ordered'
<1> DEFINE c == [number |-> reader.number, type |-> reader.kind]
           n == Len(s_cmd_queue)
<1>1. /\ IsCommand(reader) /\ reader' = NoMessage /\ to_game' = to_game
      /\ s_cmd_queue' = Append(s_cmd_queue, c)
      /\ s_cmd_recentType' = reader.kind /\ sent' = sent /\ done' = done
  BY DEF storeCommand, IsCommand, Behind, StoredType
<1>2. reader.number \in Nat /\ reader.kind \in CommandKinds
  BY <1>1, ReaderKinds, CommandFields, PipeTypes
<1>3. c \in [number : Nat, type : CommandKinds] /\ c.number = reader.number /\ c.type = reader.kind
  BY <1>2
<1> HIDE DEF c
<1>4. /\ Len(s_cmd_queue') = n + 1 /\ n \in Nat /\ s_cmd_queue'[n + 1] = c
      /\ \A k \in 1..n : s_cmd_queue'[k] = s_cmd_queue[k]
  BY <1>1, <1>3, CommandTypes, AppendAt
<1>5. /\ \A k \in 1..Len(done) : done[k].number = k
      /\ \A k \in 1..n : s_cmd_queue[k].number = Len(done) + k
      /\ IsCommand(reader) => reader.number = Received
      /\ ToCome(to_game, Received + 1, Len(sent)) /\ AreKept(to_game, sent)
  BY OrderedIs DEF Ordered, KindsKept, AreKept
<1>6. Received = Len(done) + n + 1 /\ Len(done) \in Nat
  BY <1>1, CommandTypes DEF Received
<1>7. ~IsCommand(reader')
  BY <1>1, NoMessageKind
<1>8. Received' = Received
  BY <1>1, <1>4, <1>6, <1>7 DEF Received
<1> HIDE DEF n
<1>9. \A k \in 1..Len(s_cmd_queue') : k \in 1..n \/ k = n + 1
  BY <1>4
<1>10. \A k \in 1..Len(s_cmd_queue') : s_cmd_queue'[k].number = Len(done') + k
  <2> SUFFICES ASSUME NEW k \in 1..Len(s_cmd_queue')
               PROVE  s_cmd_queue'[k].number = Len(done) + k
    BY <1>1
  <2>1. CASE k \in 1..n
    BY <1>4, <1>5, <2>1
  <2>2. CASE k = n + 1
    <3>1. s_cmd_queue'[k].number = Len(done) + n + 1
      BY <1>1, <1>3, <1>4, <1>5, <1>6, <2>2
    <3> QED BY <1>4, <1>6, <2>2, <3>1
  <2> QED BY <1>9, <2>1, <2>2
<1>11. CommandsInOrder'
  BY <1>1, <1>5, <1>7, <1>8, <1>10, OrderedNext
<1>12. reader.number \in 1..Len(sent) /\ reader.kind = sent[reader.number]
  BY <1>1 DEF Ordered, KindsKept
<1>13. \A k \in 1..Len(s_cmd_queue') :
         /\ s_cmd_queue'[k].number \in 1..Len(sent)
         /\ s_cmd_queue'[k].type = sent[s_cmd_queue'[k].number]
  BY <1>3, <1>4, <1>9, <1>12 DEF Ordered, KindsKept, n
<1>14. Len(s_cmd_queue') = 1 => s_cmd_recentType' = s_cmd_queue'[1].type
  BY <1>1, <1>3, <1>4
<1>15. s_cmd_queue' # <<>>
  BY <1>4
<1>16. KindsKept'
  BY <1>1, <1>5, <1>7, <1>13, <1>14, <1>15 DEF Ordered, KindsKept, AreKept
<1>17. AloneAsSent'
  BY <1>1 DEF Ordered, AloneAsSent
<1> QED BY <1>11, <1>16, <1>17 DEF Ordered

LEMMA NoneLeft == \A s : s = <<>> => Len(s) = 0
OBVIOUS

LEMMA UpdateOrdered ==
  ASSUME TypeOK, TypeOK', Ordered, UpdateInterprocess
  PROVE  Ordered'
<1> DEFINE q == s_cmd_queue
           d == [number |-> q[1].number, as |-> s_cmd_recentType, alone |-> Tail(q) = <<>>]
           n == Len(done)
<1>1. q # <<>>
  BY DEF UpdateInterprocess, Ordered, KindsKept
<1>2. /\ Head(q) = q[1] /\ 1 \in 1..Len(q) /\ Len(q) \in Nat
      /\ Len(Tail(q)) = Len(q) - 1
      /\ \A i \in 1..Len(Tail(q)) : i + 1 \in 1..Len(q) /\ Tail(q)[i] = q[i + 1]
      /\ Tail(q) \in Seq([number : Nat, type : CommandKinds])
      /\ q[1] \in [number : Nat, type : CommandKinds]
  BY <1>1, TailAt, CommandTypes
<1>3. /\ s_cmd_queue' = Tail(q) /\ done' = Append(done, d)
      /\ s_cmd_recentType' = IF Tail(q) = <<>> THEN s_cmd_recentType ELSE Head(Tail(q)).type
      /\ s_has_command' = (Len(q) > 1)
      /\ reader' = reader /\ to_game' = to_game /\ sent' = sent
  BY <1>2 DEF UpdateInterprocess, FlagAfter
<1>4. d \in [number : Nat, as : CommandKinds, alone : BOOLEAN]
  BY <1>2 DEF TypeOK, CommandTypeOK
<1>5. d.number = q[1].number /\ d.as = s_cmd_recentType /\ d.alone = (Tail(q) = <<>>)
  OBVIOUS
<1> HIDE DEF d
<1>6. /\ Len(done') = n + 1 /\ n \in Nat /\ done'[n + 1] = d
      /\ \A k \in 1..n : done'[k] = done[k]
  BY <1>3, <1>4, CommandTypes, AppendAt
<1>7. \A k \in 1..Len(done') : k \in 1..n \/ k = n + 1
  BY <1>6
<1>8. /\ \A k \in 1..n : done[k].number = k
      /\ \A k \in 1..Len(q) : q[k].number = n + k
      /\ IsCommand(reader) => reader.number = Received
      /\ ToCome(to_game, Received + 1, Len(sent)) /\ AreKept(to_game, sent)
  BY OrderedIs DEF Ordered, KindsKept, AreKept
<1>9. Received' = Received
  BY <1>2, <1>3, <1>6 DEF Received
<1>10. \A k \in 1..Len(done') : done'[k].number = k
  BY <1>2, <1>5, <1>6, <1>7, <1>8
<1> HIDE DEF n
<1>11. \A k \in 1..Len(s_cmd_queue') : s_cmd_queue'[k].number = Len(done') + k
  <2> SUFFICES ASSUME NEW k \in 1..Len(Tail(q)) PROVE Tail(q)[k].number = (n + 1) + k
    BY <1>3, <1>6
  <2>1. k + 1 \in 1..Len(q) /\ Tail(q)[k] = q[k + 1]
    BY <1>2
  <2>2. q[k + 1].number = n + (k + 1)
    BY <1>8, <2>1
  <2> QED BY <1>2, <1>6, <2>1, <2>2
<1>12. CommandsInOrder'
  BY <1>3, <1>8, <1>9, <1>10, <1>11, OrderedNext
<1>13. /\ \A k \in 1..Len(q) : q[k].number \in 1..Len(sent) /\ q[k].type = sent[q[k].number]
       /\ \A k \in 1..n : done[k].number \in 1..Len(sent)
       /\ Len(q) = 1 => s_cmd_recentType = q[1].type
  BY DEF Ordered, KindsKept, n
<1>14. \A k \in 1..Len(s_cmd_queue') :
         /\ s_cmd_queue'[k].number \in 1..Len(sent)
         /\ s_cmd_queue'[k].type = sent[s_cmd_queue'[k].number]
  BY <1>2, <1>3, <1>13
<1>15. \A k \in 1..Len(done') : done'[k].number \in 1..Len(sent)
  BY <1>2, <1>5, <1>6, <1>7, <1>13
<1>16. Len(s_cmd_queue') = 1 => s_cmd_recentType' = s_cmd_queue'[1].type
  <2> SUFFICES ASSUME Len(Tail(q)) = 1 PROVE s_cmd_recentType' = Tail(q)[1].type
    BY <1>3
  <2>1. Tail(q) # <<>>
    OBVIOUS
  <2>2. Head(Tail(q)) = Tail(q)[1]
    BY <1>2, <2>1, TailAt
  <2> QED BY <1>3, <2>1, <2>2
<1>17. s_has_command' => s_cmd_queue' # <<>>
  <2>1. Len(q) > 1 => Tail(q) # <<>>
    <3>1. Tail(q) = <<>> => Len(Tail(q)) = 0
      BY NoneLeft, Zenon
    <3> QED BY <1>2, <3>1
  <2> QED BY <1>3, <2>1
<1>18. KindsKept'
  BY <1>3, <1>8, <1>14, <1>15, <1>16, <1>17 DEF Ordered, KindsKept, AreKept
<1>19. ASSUME d.alone PROVE d.as = sent[d.number]
  <2>1. Len(q) = 1
    <3>1. Tail(q) = <<>>
      BY <1>5, <1>19
    <3>2. Len(Tail(q)) = 0
      BY <3>1, NoneLeft, Zenon
    <3>3. Len(q) - 1 = 0 /\ Len(q) \in Nat
      BY <1>2, <3>2, Zenon
    <3> QED BY <3>3
  <2> QED BY <1>2, <1>5, <1>13, <2>1
<1>20. AloneAsSent'
  <2>1. DOMAIN done' = 1..Len(done') /\ DOMAIN done = 1..n
    BY <1>3, <1>4, CommandTypes DEF n
  <2> QED BY <1>3, <1>6, <1>7, <1>19, <2>1 DEF Ordered, AloneAsSent
<1> QED BY <1>12, <1>18, <1>20 DEF Ordered

LEMMA NextOrdered ==
  ASSUME TypeOK, TypeOK', Framing, Turn, Content, Ordered, [Next]_vars
  PROVE  Ordered'
<1>1. ASSUME CommandsStay, to_game' = to_game,
             IsCommand(reader') <=> IsCommand(reader), IsCommand(reader) => reader' = reader
      PROVE  Ordered'
  <2>1. ToCome(to_game, Received + 1, Len(sent)) /\ AreKept(to_game, sent)
    BY OrderedIs DEF Ordered, KindsKept, AreKept
  <2> QED BY <1>1, <2>1, PipeOrdered
<1>2. CASE EditorStep
  BY <1>2, EditorOrdered
<1>3. CASE SendCommand
  BY <1>3, SendOrdered
<1>4. CASE Receive
  BY <1>4, ReceiveOrdered
<1>5. CASE BeginLevel \/ EndLevel
  <2>1. to_game' = to_game /\ ~IsCommand(reader) /\ reader' = NoMessage
    BY <1>5, KindsAssumption DEF BeginLevel, EndLevel, IsCommand
  <2> QED BY <1>1, <1>5, <2>1, Scopes, NoMessageKind
<1>6. CASE storeCommand
  BY <1>6, StoreOrdered
<1>7. CASE zTestLevel \/ AskAgain
  <2>1. to_game' = to_game /\ reader' = reader
    BY <1>7 DEF zTestLevel, AskAgain
  <2> QED BY <1>1, <1>7, <2>1, Scopes
<1>8. CASE LoaderStep \/ PlayerStep \/ UNCHANGED vars
  BY <1>1, <1>8, Scopes DEF PipeStays
<1>9. CASE UpdateInterprocess
  BY <1>9, UpdateOrdered
<1> QED BY <1>2, <1>3, <1>4, <1>5, <1>6, <1>7, <1>8, <1>9
        DEF Next, Editor, Reader, Waiting, Loading, EditorStep, LoaderStep, PlayerStep

-----------------------------------------------------------------------------
(* The theorems.                                                           *)

LEMMA InitInv == Init => PipeInv
<1> SUFFICES ASSUME Init PROVE PipeInv
  OBVIOUS
<1>1. TypeOK
  BY InitTypes
<1>2. /\ to_game = <<>> /\ to_editor = <<>> /\ serving = NotServing /\ editor_here = TRUE
      /\ reader = NoMessage /\ m_doAcceptLevelData = FALSE /\ m_accepted_lvl_path = 0
      /\ m_levelAccepted = FALSE /\ s_cmd_queue = <<>> /\ s_has_command = FALSE
      /\ game = "idle" /\ tests = 0 /\ asks = 0 /\ sent = <<>> /\ done = <<>>
  BY DEF Init
<1>3. ~IsCommand(reader) /\ reader.kind = "none"
  BY <1>2, NoMessageKind
<1>4. Framing
  BY <1>2, <1>3, FramedNone DEF Framing
<1>5. Turn
  BY <1>2, <1>3, HasNone DEF Turn, Resting, AllRequests
<1>6. Content
  BY <1>2, HasNone DEF Content
<1>7. OnceAsked
  <2>1. OnePlace
    BY <1>2, <1>3, HasNone, NoRequestHere DEF OnePlace, Requested, Incoming
  <2>2. Named
    BY <1>2, <1>3 DEF Named, AllOpen
  <2>3. LevelRead
    BY <1>2 DEF LevelRead, Playing
  <2> QED BY <2>1, <2>2, <2>3 DEF OnceAsked
<1>8. CommandsInOrder /\ KindsKept /\ AloneAsSent
  <2>1. Received = 0 /\ (1..0) = {}
    BY <1>2, <1>3 DEF Received
  <2>2. DOMAIN done = {} /\ DOMAIN s_cmd_queue = {} /\ DOMAIN to_game = {}
    BY <1>2
  <2>3. CommandsInOrder
    <3>1. (Received + 1)..Len(sent) = {}
      BY <1>2, <2>1
    <3> QED BY <1>3, <2>2, <3>1 DEF CommandsInOrder
  <2>4. KindsKept
    BY <1>2, <1>3 DEF KindsKept
  <2>5. AloneAsSent
    BY <2>2 DEF AloneAsSent
  <2> QED BY <2>3, <2>4, <2>5
<1>9. asks >= tests
  BY <1>2
<1> QED BY <1>1, <1>4, <1>5, <1>6, <1>7, <1>8, <1>9 DEF PipeInv

\* In every state the pipe holds nothing between the beginning of a level and its end
\* but the level, the editor and the reader wait for each other in turn, the level that a
\* test asked for once is in one place, and the commands are on their way in order.
THEOREM PipeInvariant == Spec => []PipeInv
<1>1. PipeInv /\ [Next]_vars => PipeInv'
  <2> SUFFICES ASSUME PipeInv, [Next]_vars PROVE PipeInv'
    OBVIOUS
  <2>1. TypeOK'
    BY NextTypes DEF PipeInv, KindsKept
  <2>2. Framing' /\ Turn' /\ Content'
    BY NextPipe DEF PipeInv
  <2>3. asks' >= tests' /\ OnceAsked'
    BY NextOnce DEF PipeInv
  <2>4. CommandsInOrder' /\ KindsKept' /\ AloneAsSent'
    BY <2>1, NextOrdered DEF PipeInv, Ordered
  <2> QED BY <2>1, <2>2, <2>3, <2>4 DEF PipeInv
<1> QED BY <1>1, InitInv, PTL DEF Spec

\* Loading a level for a test (zTestLevel, IntProc's level data): what is played is the
\* whole level that was asked for, under its own name, unless a test asked twice.
THEOREM LevelWholeCorrect == Spec => []LevelWhole
<1>1. PipeInv => LevelWhole
  BY DEF PipeInv, OnceAsked, LevelRead, Playing, LevelWhole
<1> QED BY <1>1, PipeInvariant, PTL

\* The command queue (storeCommand, UpdateInterprocess): every command is carried out
\* once and in order, or still on its way.
THEOREM CommandsInOrderCorrect == Spec => []CommandsInOrder
<1>1. PipeInv => CommandsInOrder
  BY DEF PipeInv
<1> QED BY <1>1, PipeInvariant, PTL

\* The type that is kept beside the queue (s_cmd_recentType): a command that is alone
\* when it is carried out is carried out as what it is.
THEOREM AloneAsSentCorrect == Spec => []AloneAsSent
<1>1. PipeInv => AloneAsSent
  BY DEF PipeInv
<1> QED BY <1>1, PipeInvariant, PTL
=============================================================================
