-------------------------- MODULE NetStatusProofs --------------------------
(***************************************************************************)
(* The control plane never takes a stale status for the answer to a        *)
(* request, and a guest's episode never starts on half a session or on     *)
(* that of another room: proved for any number of rooms, requests and      *)
(* faults.                                                                 *)
(***************************************************************************)
EXTENDS NetStatus, SequenceTheorems, TLAPS

Message  == [header : Header, room : AnyRoom]
Hosts    == {"HOST", "HOST_IDLE"}
Pushing  == {"push", "push completed", "complete"}
Polling  == {"pull", "compare", "react", "info"}

Resumed  == {"top", "pull", "cleared", "open", "reopen", "submit", "connect", "keyed", "guest"}
Place    == Resumed \cup {"recv", "put", "body"} \cup Pushing

TypeOK ==
  /\ screen \in {"select", "entry", "chars", "play"}
  /\ started \in {"none", "guest", "own"}
  /\ cpc \in {"idle"} \cup Polling
  /\ g_req \in Request /\ status_req_sync \in Request /\ n_req \in Request
  /\ g_status \in Status /\ status_sync \in Status /\ n_status \in Status
  /\ status_req_reply_seen \in Nat /\ answered \in Nat /\ answered_sync \in Nat
  /\ status_req_id \in Nat /\ status_req_completed \in Nat /\ status_req_id_seen \in Nat
  /\ alarm_seen \in BOOLEAN
  /\ session \in [room : AnyRoom, whole : BOOLEAN]
  /\ npc \in Place /\ after \in Resumed
  /\ in_progress \in {"idle", "submit", "pending"}
  /\ connection \in {"open", "closed"}
  /\ control \in Seq(Message)

\* The numbers never overtake each other on their way back to the game, and while
\* it polls, nothing is newer than the request whose answer it found.
Numbers ==
  /\ answered <= answered_sync /\ answered_sync <= status_req_id_seen
  /\ status_req_id_seen <= status_req_id /\ status_req_completed <= answered_sync
  /\ npc = "complete" => answered_sync = status_req_id_seen
  /\ alarm_seen => answered = answered_sync
  /\ cpc \in Polling => answered_sync = status_req_id
  /\ cpc \in {"react", "info"} => answered = status_req_id
  /\ status_req_reply_seen <= answered

\* What the game asks for, and where it is when it does.
Requests ==
  /\ g_req = status_req_sync
  /\ status_req_id_seen = status_req_id => n_req = status_req_sync
  /\ status_req_sync.state # "SESSION_CONFIG" /\ n_req.state # "SESSION_CONFIG"
  /\ status_req_sync.state = "GUEST" => status_req_sync.room # NoRoom
  /\ n_req.state = "GUEST" => n_req.room # NoRoom
  /\ screen # "play" => g_req.state \notin Hosts
  /\ cpc # "idle" => screen \in {"select", "chars"}
  /\ started = "guest" => screen = "play"

\* What a message on the channel says of the request, and where it may be read.
Awaited(header) ==
  /\ in_progress = "pending"
  /\ npc \in {"top", "pull", "recv"} \/ (npc = "push" /\ after = "top")
  /\ header = "ROOM_KEY" => n_req.state \in Hosts \cup {"GUEST"}
  /\ header = "ROOM_INFO" => n_req.state = "LOBBY"
  /\ header = "GET_SESSION" => n_req.state \in Hosts
  /\ header = "PUT_SESSION" => n_req.state = "GUEST" /\ n_status.state = "SESSION_CONFIG"

\* Only the last message on the channel can be the answer that is waited for; a
\* knock may have come before it.
Channel ==
  /\ ~Connected => control = <<>> /\ n_status.room = NoRoom
  /\ \A k \in 1..Len(control) :
       control[k].header # "KNOCK_KNOCK" =>
         /\ k = Len(control)
         /\ \/ npc = "submit" /\ n_req.state = "OFF"
            \/ Awaited(control[k].header)

\* Where the network thread is, and what it knows there.
Phases ==
  /\ npc = "submit" => in_progress # "pending"
  /\ npc \in Pushing /\ after \in {"cleared", "open", "reopen", "submit", "connect"} =>
       npc \in {"push completed", "complete"} \/ in_progress # "pending"
  /\ npc \in {"cleared", "open", "reopen", "connect"} => in_progress # "pending"
  /\ npc \in Pushing => n_status.state # "SESSION_CONFIG" /\ (after = "keyed" => ~Connected)
  /\ n_status.state \in Hosts /\ Connected => n_req.state \in Hosts \/ npc = "submit"
  /\ n_status.state = "SESSION_CONFIG" /\ Connected =>
       \/ n_req.state = "OFF" /\ npc = "submit"
       \/ n_req.state = "GUEST" /\ n_status.room = n_req.room /\ in_progress # "idle"
  /\ npc = "keyed" /\ Connected =>
       /\ in_progress = "pending"
       /\ n_req.state \in Hosts \/ (n_req.state = "GUEST" /\ n_status.room = n_req.room)
  /\ npc \in {"put", "body"} \/ (npc = "guest" /\ Connected) =>
       /\ in_progress = "pending" /\ n_status.state = "SESSION_CONFIG" /\ Connected
       /\ n_req.state = "GUEST"
  /\ npc = "body" => session.room = n_status.room
  /\ npc = "guest" /\ Connected => session.whole /\ session.room = n_status.room
  /\ (npc = "guest" /\ ~Connected) \/ (npc \in Pushing /\ after = "guest") =>
       ~Connected /\ status_req_id_seen # status_req_id

\* The session is the one the game has asked for.
SessionAsked == session.whole /\ session.room = g_req.room

\* A client that is a guest is done with the request that made it one.
Guest ==
  n_status.state = "GUEST" =>
    /\ \/ npc \in {"top", "pull", "recv"} /\ in_progress = "idle"
       \/ npc \in {"push completed", "complete"} /\ after = "top"
       \/ npc = "submit" /\ in_progress = "submit"
    /\ Connected => session.whole /\ session.room = n_status.room /\ n_status.room # NoRoom
    /\ npc # "submit" /\ status_req_id_seen = status_req_id => SessionAsked

\* Nothing that could change the session is under way or to come.
Over ==
  /\ npc \in {"top", "pull", "recv"} \cup Pushing
  /\ npc \in Pushing => after \in {"top", "pull"}
  /\ in_progress = "idle" \/ npc \in {"push completed", "complete"}

Known ==
  /\ status_sync.state = "GUEST" /\ answered_sync = status_req_id => SessionAsked /\ Over
  /\ g_status.state = "GUEST" /\ answered = status_req_id => SessionAsked /\ Over

\* The room of a status that answers a request is the one that was asked for.
RoomAsked ==
  n_req.state \notin Hosts =>
    /\ \/ answered_sync = status_req_id_seen
       \/ npc \notin {"top", "pull", "recv", "submit"}
       \/ n_req.state = "GUEST" /\ n_status.state \in {"GUEST", "SESSION_CONFIG"}
       => n_status.room \in {NoRoom, n_req.room}
    /\ answered_sync = status_req_id_seen => status_sync.room \in {NoRoom, n_req.room}
    /\ answered = status_req_id_seen => g_status.room \in {NoRoom, n_req.room}

\* From the choice of the characters on there is one room.
OneRoom ==
  screen = "chars" \/ status_req_sync.state = "GUEST" =>
    /\ n_req.state \notin Hosts
    /\ \E r \in AnyRoom :
         {g_status.room, status_sync.room, n_status.room, n_req.room, status_req_sync.room}
           \subseteq {NoRoom, r}

NetStatusInv ==
  TypeOK /\ Numbers /\ Requests /\ Channel /\ Phases /\ Guest /\ Known /\ RoomAsked /\ OneRoom

-----------------------------------------------------------------------------
(* What the steps of the game thread have in common.                       *)

\* A new request, or none.
Asks ==
  \/ /\ UNCHANGED requestVars
     /\ screen' # "play" => screen # "play"
  \/ /\ g_req' \in Request /\ status_req_sync' = g_req'
     /\ status_req_id' = status_req_id + 1
     /\ g_req'.state # "SESSION_CONFIG"
     /\ g_req'.state = "GUEST" => g_req'.room # NoRoom
     /\ screen' # "play" => g_req'.state \notin Hosts
     /\ \/ g_req'.state # "GUEST" /\ (screen' = "chars" => g_req'.room = NoRoom)
        \/ screen = "chars" /\ g_req'.state = "GUEST" /\ g_req'.room = g_status'.room
     /\ cpc' = "idle"

\* The published status, or none.
Replies ==
  \/ UNCHANGED replyVars
  \/ g_status' = status_sync /\ answered' = answered_sync /\ alarm_seen' = TRUE

\* Where the game goes on.
Proceeds ==
  /\ screen' \in {"select", "entry", "chars", "play"} /\ started' \in {"none", "guest", "own"}
  /\ cpc' \in {"idle"} \cup Polling
  /\ \/ UNCHANGED status_req_reply_seen
     \/ cpc = "compare" /\ alarm_seen /\ status_req_reply_seen' = status_req_id
  /\ cpc' \in Polling => cpc \in Polling \/ status_req_completed = status_req_id
  /\ cpc' \in {"react", "info"} => cpc \in {"react", "info"} \/ (cpc = "compare" /\ alarm_seen)
  /\ cpc' # "idle" => screen' \in {"select", "chars"}
  /\ screen' = "chars" => screen = "chars" \/ (cpc = "info" /\ UNCHANGED requestVars)
  /\ started' = "guest" => screen' = "play"

GameStep == UNCHANGED netVars /\ Asks /\ Replies /\ Proceeds

\* SyncReqStatus asks for nothing but to be in the lobby, to host or to be
\* disconnected, and to host only in a session.
LEMMA SyncAsks ==
  ASSUME TypeOK, Requests, NEW a \in BOOLEAN, SyncRequest(a), cpc' = "idle",
         screen' # "play" => ~a /\ (screen # "play" \/ screen' = "select")
  PROVE  Asks
<1>1. CASE UNCHANGED requestVars /\ g_req.state = "GUEST" /\ a
  BY <1>1 DEF Asks
<1>2. CASE ~(g_req.state = "GUEST" /\ a)
  BY <1>2 DEF TypeOK, Requests, SyncRequest, Push, Asks, Request, State, AnyRoom, NoRequest, Hosts
<1> QED BY <1>1, <1>2 DEF SyncRequest

\* Every step of the game thread is of that form.
LEMMA GameSteps ==
  ASSUME TypeOK, Requests, GameThread
  PROVE  GameStep
<1> USE DEF Polling
<1>1. CASE ConfigChanged
  <2>1. InSession \in BOOLEAN /\ SyncRequest(InSession) /\ UNCHANGED <<screen, cpc>> /\ cpc' = "idle"
    BY <1>1 DEF ConfigChanged, menuVars, InSession
  <2>2. Asks
    BY <2>1, SyncAsks DEF InSession
  <2> QED BY <1>1, <2>2 DEF ConfigChanged, GameStep, Replies, Proceeds, menuVars, TypeOK, Requests
<1>2. CASE GetClientStatus
  BY <1>2 DEF GetClientStatus, Pull, GameStep, Asks, Replies, Proceeds, menuVars, TypeOK, Requests
<1>3. CASE CompleteRequest
  BY <1>3 DEF CompleteRequest, GameStep, Asks, Replies, Proceeds, menuVars, TypeOK, Requests
<1>4. CASE PullCompleted
  BY <1>4 DEF PullCompleted, Pull, GameStep, Asks, Replies, Proceeds, menuVars, TypeOK, Requests
<1>5. CASE CompareAlarm
  BY <1>5 DEF CompareAlarm, NotStale, GameStep, Asks, Replies, Proceeds, menuVars, TypeOK, Requests
<1>6. CASE React
  <2>1. Asks
    <3>1. CASE screen' = "play" /\ cpc' = "idle" /\ SyncRequest(TRUE)
      BY <3>1, SyncAsks
    <3>2. CASE UNCHANGED requestVars /\ UNCHANGED menuVars
      BY <3>2 DEF Asks, menuVars
    <3> QED BY <1>6, <3>1, <3>2 DEF React
  <2> QED BY <1>6, <2>1 DEF React, Pull, GameStep, Replies, Proceeds, menuVars, TypeOK, Requests
<1>7. CASE RoomFound
  BY <1>7 DEF RoomFound, Pull, GameStep, Asks, Replies, Proceeds, menuVars, TypeOK, Requests
<1>8. CASE EnterRoom
  BY <1>8 DEF EnterRoom, GameStep, Asks, Replies, Proceeds, menuVars, TypeOK, Requests
<1>9. CASE RequestFillRoomInfo
  <2>1. Asks
    BY <1>9 DEF RequestFillRoomInfo, Push, Asks, TypeOK, Request, State, AnyRoom, Hosts
  <2> QED BY <1>9, <2>1 DEF RequestFillRoomInfo, GameStep, Replies, Proceeds, TypeOK, Requests
<1>10. CASE JoinRoom
  <2>1. g_status' \in Status
    BY <1>10 DEF JoinRoom, Pull, TypeOK, replyVars
  <2>2. Asks
    BY <1>10, <2>1 DEF JoinRoom, Push, Asks, TypeOK, Request, Status, State, AnyRoom, Hosts, menuVars
  <2> QED BY <1>10, <2>2 DEF JoinRoom, Pull, GameStep, Replies, Proceeds, menuVars, TypeOK, Requests
<1>11. CASE LeaveChars
  BY <1>11 DEF LeaveChars, GameStep, Asks, Replies, Proceeds, TypeOK, Requests
<1>12. CASE StartEpisode
  <2>1. Asks
    BY <1>12, SyncAsks DEF StartEpisode
  <2> QED BY <1>12, <2>1 DEF StartEpisode, GameStep, Replies, Proceeds, TypeOK, Requests
<1>13. CASE Tick
  <2>1. Asks
    <3>1. CASE g_req.state = "HOST_IDLE" /\ Push([g_req EXCEPT !.state = "HOST"])
      BY <1>13, <3>1 DEF Tick, InSession, Push, Asks, TypeOK, Request, State, AnyRoom, Hosts, menuVars
    <3>2. CASE Push(NoRequest)
      BY <1>13, <3>2 DEF Tick, InSession, Push, Asks, TypeOK, Request, State, AnyRoom, NoRequest, Hosts,
                         menuVars
    <3> QED BY <1>13, <3>1, <3>2 DEF Tick
  <2> QED BY <1>13, <2>1 DEF Tick, Pull, GameStep, Replies, Proceeds, menuVars, TypeOK, Requests, InSession
<1>14. CASE EndSession
  <2>1. Asks
    BY <1>14, SyncAsks DEF EndSession
  <2> QED BY <1>14, <2>1 DEF EndSession, GameStep, Replies, Proceeds, TypeOK, Requests
<1> QED
  BY <1>1, <1>2, <1>3, <1>4, <1>5, <1>6, <1>7, <1>8, <1>9, <1>10, <1>11, <1>12, <1>13, <1>14
  DEF GameThread, Poll

LEMMA GameTypes ==
  ASSUME TypeOK, GameStep
  PROVE  TypeOK'
<1>1. /\ g_req' \in Request /\ status_req_sync' \in Request /\ status_req_id' \in Nat
  BY DEF GameStep, Asks, TypeOK, requestVars
<1>2. /\ g_status' \in Status /\ answered' \in Nat /\ alarm_seen' \in BOOLEAN
  BY DEF GameStep, Replies, TypeOK, replyVars
<1>3. /\ screen' \in {"select", "entry", "chars", "play"} /\ started' \in {"none", "guest", "own"}
      /\ cpc' \in {"idle"} \cup Polling /\ status_req_reply_seen' \in Nat
  BY DEF GameStep, Proceeds, TypeOK
<1> QED BY <1>1, <1>2, <1>3 DEF GameStep, TypeOK, netVars, netReqVars, linkVars

LEMMA GameNumbers ==
  ASSUME TypeOK, Numbers, GameStep
  PROVE  Numbers'
<1>1. UNCHANGED <<npc, status_req_id_seen, status_req_completed, answered_sync, status_sync>>
  BY DEF GameStep, netVars, netReqVars
<1>2. CASE UNCHANGED requestVars
  BY <1>1, <1>2 DEF GameStep, Replies, Proceeds, Numbers, TypeOK, requestVars, replyVars, Polling
<1>3. CASE status_req_id' = status_req_id + 1 /\ cpc' = "idle"
  BY <1>1, <1>3 DEF GameStep, Replies, Proceeds, Numbers, TypeOK, replyVars, Polling
<1> QED BY <1>2, <1>3 DEF GameStep, Asks

LEMMA GameRequests ==
  ASSUME TypeOK, Numbers, Requests, GameStep
  PROVE  Requests'
<1>1. UNCHANGED <<n_req, status_req_id_seen>>
  BY DEF GameStep, netVars, netReqVars
<1>2. status_req_id_seen <= status_req_id /\ status_req_id_seen \in Nat /\ status_req_id \in Nat
  BY DEF Numbers, TypeOK
<1> QED BY <1>1, <1>2 DEF GameStep, Asks, Proceeds, Requests, requestVars

LEMMA GameChannel ==
  ASSUME Channel, GameStep
  PROVE  Channel'
  BY DEF GameStep, Channel, Awaited, Connected, netVars, netReqVars, linkVars

LEMMA GamePhases ==
  ASSUME TypeOK, Numbers, Phases, GameStep
  PROVE  Phases'
<1>1. UNCHANGED netVars
  BY DEF GameStep
<1>2. status_req_id_seen # status_req_id => status_req_id_seen # status_req_id'
  BY DEF GameStep, Asks, Numbers, TypeOK, requestVars
<1> QED BY <1>1, <1>2 DEF Phases, Connected, netVars, netReqVars, linkVars

LEMMA GameGuest ==
  ASSUME TypeOK, Numbers, Guest, GameStep
  PROVE  Guest'
<1>1. UNCHANGED netVars
  BY DEF GameStep
<1>2. CASE UNCHANGED requestVars
  BY <1>1, <1>2 DEF Guest, SessionAsked, Connected, netVars, netReqVars, linkVars, requestVars
<1>3. CASE status_req_id' = status_req_id + 1
  <2>1. status_req_id_seen' # status_req_id'
    BY <1>1, <1>3 DEF Numbers, TypeOK, netVars, netReqVars
  <2> QED BY <1>1, <2>1 DEF Guest, Connected, netVars, netReqVars, linkVars
<1> QED BY <1>2, <1>3 DEF GameStep, Asks

LEMMA GameKnown ==
  ASSUME TypeOK, Numbers, Known, GameStep
  PROVE  Known'
<1>1. UNCHANGED <<npc, after, in_progress, status_sync, answered_sync, session>>
  BY DEF GameStep, netVars
<1>2. CASE UNCHANGED requestVars
  <2>1. SessionAsked' <=> SessionAsked
    BY <1>1, <1>2 DEF SessionAsked, requestVars
  <2>2. Over' <=> Over
    BY <1>1 DEF Over
  <2> QED BY <1>1, <1>2, <2>1, <2>2 DEF GameStep, Replies, Known, requestVars, replyVars
<1>3. CASE status_req_id' = status_req_id + 1
  <2>1. answered_sync' # status_req_id' /\ answered' # status_req_id'
    BY <1>1, <1>3 DEF GameStep, Replies, replyVars, Numbers, TypeOK
  <2> QED BY <2>1 DEF Known
<1> QED BY <1>2, <1>3 DEF GameStep, Asks

LEMMA GameRoomAsked ==
  ASSUME TypeOK, Numbers, RoomAsked, GameStep
  PROVE  RoomAsked'
<1>1. UNCHANGED <<npc, n_req, n_status, status_sync, answered_sync, status_req_id_seen>>
  BY DEF GameStep, netVars, netReqVars
<1> QED BY <1>1 DEF GameStep, Replies, replyVars, RoomAsked

\* The characters are chosen for the room the completed request has found.
LEMMA GameOneRoom ==
  ASSUME TypeOK, Numbers, Requests, RoomAsked, OneRoom, GameStep
  PROVE  OneRoom'
<1>1. UNCHANGED <<n_req, n_status, status_sync>>
  BY DEF GameStep, netVars, netReqVars
<1>2. g_status' = g_status \/ g_status' = status_sync
  BY DEF GameStep, Replies, replyVars
<1>3. ASSUME screen = "chars" \/ status_req_sync.state = "GUEST",
             screen' = "chars" \/ status_req_sync'.state = "GUEST"
      PROVE  OneRoom'
  <2>1. PICK r \in AnyRoom :
          {g_status.room, status_sync.room, n_status.room, n_req.room, status_req_sync.room}
            \subseteq {NoRoom, r}
    BY <1>3 DEF OneRoom
  <2>2. g_status'.room \in {NoRoom, r}
    BY <1>2, <2>1
  <2>3. status_req_sync'.room \in {NoRoom, r}
    BY <1>3, <2>1, <2>2 DEF GameStep, Asks, requestVars
  <2>4. n_req'.state \notin Hosts
    BY <1>1, <1>3 DEF OneRoom
  <2> QED BY <1>1, <2>1, <2>2, <2>3, <2>4 DEF OneRoom
<1>4. ASSUME cpc = "info", UNCHANGED requestVars, screen' = "chars"
      PROVE  OneRoom'
  <2>1. /\ answered = status_req_id_seen /\ answered_sync = status_req_id_seen
        /\ status_req_id_seen = status_req_id
    BY <1>4 DEF Numbers, TypeOK, Polling
  <2>2. n_req = status_req_sync /\ n_req.state \notin Hosts
    BY <1>4, <2>1 DEF Requests
  <2>3. {g_status.room, status_sync.room, n_status.room} \subseteq {NoRoom, n_req.room}
    BY <2>1, <2>2 DEF RoomAsked
  <2>4. n_req.room \in AnyRoom
    BY DEF TypeOK, Request
  <2> QED BY <1>1, <1>2, <1>4, <2>2, <2>3, <2>4 DEF OneRoom, requestVars
<1>5. CASE screen' # "chars" /\ status_req_sync'.state # "GUEST"
  BY <1>5 DEF OneRoom
<1>6. CASE screen' = "chars" /\ screen # "chars"
  BY <1>4, <1>6 DEF GameStep, Proceeds
<1>7. CASE status_req_sync'.state = "GUEST" /\ status_req_sync.state # "GUEST" /\ screen' # "chars"
  BY <1>3, <1>7 DEF GameStep, Asks, requestVars
<1> QED BY <1>3, <1>5, <1>6, <1>7

-----------------------------------------------------------------------------
(* What the steps of the network thread have in common.                    *)

\* What most of them leave alone.
KeepShared == UNCHANGED <<gameVars, alarm_seen, netReqVars, status_req_completed, status_sync,
                          answered_sync>>

\* The connection is closed on purpose.
HangsUp ==
  \E next \in Resumed :
    /\ Disconnect(next)
    /\ npc \in {"top", "recv", "submit", "put", "body", "connect"}
    /\ npc \in {"top", "recv"} =>
         next \in {"pull", "top"} \/ (control # <<>> /\ Head(control).header = "ROOM_KEY")
    /\ next = "guest" => status_req_id_seen # status_req_id
    /\ KeepShared /\ UNCHANGED <<in_progress, session>>

\* A request is sent, and answered or not.
Sends ==
  \E m \in Message :
    /\ control' = control \/ control' = Append(control, m)
    /\ Submit /\ n_req.state # "OFF" /\ n_status.state # "GUEST"
    /\ m.header # "KNOCK_KNOCK"
    /\ m.header = "ROOM_KEY" => n_req.state \in Hosts \cup {"GUEST"}
    /\ m.header = "ROOM_INFO" => n_req.state = "LOBBY"
    /\ m.header = "GET_SESSION" => n_req.state \in Hosts
    /\ m.header = "PUT_SESSION" => n_req.state = "GUEST" /\ n_status.state = "SESSION_CONFIG"
    /\ n_status.state \in Hosts => n_req.state \in Hosts
    /\ Await
    /\ KeepShared /\ UNCHANGED <<n_status, connection, session>>

LEMMA HangUpHangsUp ==
  ASSUME HangUp
  PROVE  HangsUp
  BY DEF HangUp, HangsUp, Resumed, KeepShared, netReqVars, gameVars
LEMMA SubmitOffHangsUp ==
  ASSUME SubmitOff
  PROVE  HangsUp
  BY DEF SubmitOff, Submitting, KeepSubmit, HangsUp, Resumed, KeepShared
LEMMA ConnectHangsUp ==
  ASSUME Connect
  PROVE  HangsUp
  BY DEF Connect, Submitting, KeepSubmit, HangsUp, Resumed, KeepShared
LEMMA UnreachableHangsUp ==
  ASSUME SubmitUnreachable
  PROVE  HangsUp
  BY DEF SubmitUnreachable, Change, Submit, Submitting, KeepSubmit, HangsUp, Resumed, KeepShared
LEMMA BrokenHangsUp ==
  ASSUME PutBroken
  PROVE  HangsUp
  BY DEF PutBroken, AfterBroken, HangsUp, Resumed, KeepShared

LEMMA GetSessionSends ==
  ASSUME TypeOK, SubmitGetSession
  PROVE  Sends
<1> DEFINE m == [header |-> "PUT_SESSION", room |-> n_status.room]
<1>1. m \in Message /\ m.header = "PUT_SESSION"
  BY DEF TypeOK, Message, Header, Status
<1>2. control' = control \/ control' = Append(control, m)
  BY DEF SubmitGetSession, Send, Answer
<1> HIDE DEF m
<1> QED BY <1>1, <1>2 DEF SubmitGetSession, Change, Sends, KeepShared, KeepSubmit, Hosts

LEMMA PutSessionSends ==
  ASSUME TypeOK, SubmitPutSession
  PROVE  Sends \/ HangsUp
<1> DEFINE m == [header |-> "GET_SESSION", room |-> n_status.room]
<1>1. m \in Message /\ m.header = "GET_SESSION"
  BY DEF TypeOK, Message, Header, Status
<1>2. CASE SessionAccess
  <2>1. control' = control \/ control' = Append(control, m)
    BY <1>2 DEF SubmitPutSession, Send, Answer
  <2> HIDE DEF m
  <2> QED BY <1>1, <1>2, <2>1 DEF SubmitPutSession, Change, Sends, KeepShared, KeepSubmit, Hosts
<1>3. CASE ~SessionAccess
  BY <1>3 DEF SubmitPutSession, Change, Submit, Submitting, HangsUp, Resumed, KeepShared, KeepSubmit
<1> QED BY <1>2, <1>3

LEMMA JoinRoomSends ==
  ASSUME TypeOK, SubmitJoinRoom
  PROVE  Sends
<1>1. PICK r \in {n_req.room} \cup Rooms :
        \/ control' = Append(control, [header |-> "ROOM_KEY", room |-> r])
        \/ control' = control
  BY DEF SubmitJoinRoom, Answer
<1> DEFINE m == [header |-> "ROOM_KEY", room |-> r]
<1>2. m \in Message /\ m.header = "ROOM_KEY"
  BY DEF TypeOK, Message, Header, Request, AnyRoom
<1>3. control' = control \/ control' = Append(control, m)
  BY <1>1
<1> HIDE DEF m
<1> QED BY <1>2, <1>3 DEF SubmitJoinRoom, Change, Sends, KeepShared, KeepSubmit, Hosts

LEMMA CreateRoomSends ==
  ASSUME TypeOK, SubmitCreateRoom
  PROVE  Sends
<1>1. PICK r \in Rooms :
        \/ control' = Append(control, [header |-> "ROOM_KEY", room |-> r])
        \/ control' = control
  BY DEF SubmitCreateRoom, Send, Answer
<1> DEFINE m == [header |-> "ROOM_KEY", room |-> r]
<1>2. m \in Message /\ m.header = "ROOM_KEY"
  BY DEF TypeOK, Message, Header, Request, AnyRoom
<1>3. control' = control \/ control' = Append(control, m)
  BY <1>1
<1> HIDE DEF m
<1> QED BY <1>2, <1>3 DEF SubmitCreateRoom, Change, Sends, KeepShared, KeepSubmit, Hosts

LEMMA RoomInfoSends ==
  ASSUME TypeOK, SubmitRoomInfo
  PROVE  Sends
<1> DEFINE m == [header |-> "ROOM_INFO", room |-> n_req.room]
<1>1. m \in Message /\ m.header = "ROOM_INFO"
  BY DEF TypeOK, Message, Header, Request
<1>2. control' = control \/ control' = Append(control, m)
  BY DEF SubmitRoomInfo, Send, Answer
<1> HIDE DEF m
<1> QED BY <1>1, <1>2 DEF SubmitRoomInfo, Submit, Sends, KeepShared, KeepSubmit, Hosts
-----------------------------------------------------------------------------
(* The handlers that do not hang up.                                       *)

RoomGiven ==
  /\ Receive("ROOM_KEY")
  /\ n_req.room = NoRoom \/ Head(control).room = n_req.room
  /\ n_status' = [n_status EXCEPT !.room = Head(control).room]
  /\ control' = Tail(control)
  /\ npc' = "keyed"
  /\ KeepShared /\ UNCHANGED <<after, connection, in_progress, session>>

HostStarts ==
  /\ Receive("GET_SESSION") /\ Waiting /\ n_status.state \in {"SESSION_CONFIG", "HOST_IDLE"}
  /\ n_status' = [n_status EXCEPT !.state = "HOST"]
  /\ control' = Tail(control)
  /\ Publish(TRUE, "top")
  /\ KeepShared /\ UNCHANGED <<connection, in_progress, session>>

HeaderStored ==
  /\ npc = "put" /\ Waiting /\ n_status.state = "SESSION_CONFIG"
  /\ session' = [room |-> n_status.room, whole |-> FALSE]
  /\ npc' = "body"
  /\ KeepShared /\ UNCHANGED <<after, n_status, connection, control, in_progress>>

Knocked ==
  /\ Receive("KNOCK_KNOCK") /\ n_status.state = "HOST_IDLE"
  /\ n_status' = [n_status EXCEPT !.knock = TRUE]
  /\ control' = Tail(control)
  /\ Publish(FALSE, "top")
  /\ KeepShared /\ UNCHANGED <<connection, in_progress, session>>

LEMMA RoomKeySteps ==
  ASSUME RecvRoomKey
  PROVE  RoomGiven \/ HangsUp
<1>1. CASE n_req.room # NoRoom /\ Head(control).room # n_req.room /\ Disconnect("keyed")
  BY <1>1 DEF RecvRoomKey, Receive, HangsUp, Resumed, KeepRecv, KeepShared
<1>2. CASE ~(n_req.room # NoRoom /\ Head(control).room # n_req.room)
  BY <1>2 DEF RecvRoomKey, RoomGiven, KeepRecv, KeepShared
<1> QED BY <1>1, <1>2 DEF RecvRoomKey

LEMMA GetSessionSteps ==
  ASSUME RecvGetSession
  PROVE  HostStarts \/ HangsUp
<1>1. CASE Waiting /\ n_status.state \in {"SESSION_CONFIG", "HOST_IDLE"}
  BY <1>1 DEF RecvGetSession, HostStarts, KeepRecv, KeepShared
<1>2. CASE Disconnect("top")
  BY <1>2 DEF RecvGetSession, Receive, HangsUp, Resumed, KeepRecv, KeepShared
<1> QED BY <1>1, <1>2 DEF RecvGetSession

\* The game refuses a session only when it has asked for something else since.
LEMMA PutHeaderSteps ==
  ASSUME Requests, Phases, PutHeader
  PROVE  HeaderStored \/ HangsUp
<1>1. CASE SessionAccess /\ Waiting /\ n_status.state = "SESSION_CONFIG"
  BY <1>1 DEF PutHeader, HeaderStored, KeepRecv, KeepShared
<1>2. CASE ~SessionAccess /\ Disconnect("guest")
  <2>1. n_req.state = "GUEST"
    BY DEF PutHeader, Phases
  <2>2. status_req_id_seen # status_req_id
    BY <1>2, <2>1 DEF SessionAccess, Active, Requests
  <2> QED BY <1>2, <2>2 DEF PutHeader, HangsUp, Resumed, KeepRecv, KeepShared
<1>3. CASE ~(Waiting /\ n_status.state = "SESSION_CONFIG") /\ Disconnect("top")
  BY <1>3 DEF PutHeader, HangsUp, Resumed, KeepRecv, KeepShared
<1> QED BY <1>1, <1>2, <1>3 DEF PutHeader

LEMMA KnockSteps ==
  ASSUME RecvKnockKnock
  PROVE  Knocked \/ HangsUp
<1>1. CASE n_status.state = "HOST_IDLE"
  BY <1>1 DEF RecvKnockKnock, Knocked, KeepRecv, KeepShared
<1>2. CASE Disconnect("top")
  BY <1>2 DEF RecvKnockKnock, Receive, HangsUp, Resumed, KeepRecv, KeepShared
<1> QED BY <1>1, <1>2 DEF RecvKnockKnock

\* Every step of the network thread is one of these.
NetStep ==
  \/ HangsUp \/ Sends
  \/ GoOn \/ PullRequest \/ PullBusy \/ PushStatus \/ SetCompleted
  \/ Cleared \/ Open \/ CannotOpen \/ SubmitDone
  \/ RecvNothing \/ RecvRoomInfo \/ RoomGiven \/ RecvKeyed \/ HostStarts
  \/ RecvPutSession \/ HeaderStored \/ PutBody \/ PutDone \/ Knocked

LEMMA NetSteps ==
  ASSUME TypeOK, Requests, Phases, NetworkThread
  PROVE  NetStep
<1>1. CASE SubmitSection
  BY <1>1, SubmitOffHangsUp, ConnectHangsUp, UnreachableHangsUp, GetSessionSends, PutSessionSends,
     JoinRoomSends, CreateRoomSends, RoomInfoSends DEF SubmitSection, NetStep
<1>2. CASE ReceiveSection
  BY <1>2, BrokenHangsUp, RoomKeySteps, GetSessionSteps, PutHeaderSteps, KnockSteps
  DEF ReceiveSection, NetStep
<1> QED BY <1>1, <1>2, HangUpHangsUp DEF NetworkThread, NetStep

-----------------------------------------------------------------------------
(* The channel as a queue.                                                 *)

LEMMA HangsUpDoes ==
  ASSUME HangsUp
  PROVE  /\ connection' = "closed" /\ control' = <<>> /\ n_status' = NoStatus
         /\ npc' \in {"push", "push completed"} /\ after' \in Resumed
         /\ npc' = "push" <=> in_progress = "idle"
         /\ npc \in {"top", "recv", "submit", "put", "body", "connect"}
         /\ npc \in {"top", "recv"} =>
              after' \in {"pull", "top"} \/ (control # <<>> /\ Head(control).header = "ROOM_KEY")
         /\ after' = "guest" => status_req_id_seen # status_req_id
         /\ KeepShared /\ UNCHANGED <<in_progress, session>>
  BY DEF HangsUp, Disconnect, Publish

LEMMA ChannelHead ==
  ASSUME TypeOK, Channel, control # <<>>
  PROVE  /\ Connected /\ Len(control) \in Nat /\ Head(control) \in Message
         /\ Tail(control) \in Seq(Message) /\ Len(Tail(control)) = Len(control) - 1
         /\ \A k \in 1..Len(Tail(control)) : Tail(control)[k] = control[k + 1]
         /\ Head(control).header # "KNOCK_KNOCK" =>
              Tail(control) = <<>> /\ ((npc = "submit" /\ n_req.state = "OFF") \/ Awaited(Head(control).header))
<1>1. /\ Connected /\ Len(control) \in Nat /\ Len(control) >= 1 /\ Head(control) = control[1]
      /\ Tail(control) \in Seq(Message) /\ Len(Tail(control)) = Len(control) - 1
      /\ \A k \in 1..Len(Tail(control)) : Tail(control)[k] = control[k + 1]
  BY HeadTailProperties, EmptySeq DEF TypeOK, Channel
<1>2. Head(control) \in Message
  BY HeadTailProperties DEF TypeOK
<1>3. ASSUME Head(control).header # "KNOCK_KNOCK"
      PROVE  Tail(control) = <<>> /\ ((npc = "submit" /\ n_req.state = "OFF") \/ Awaited(Head(control).header))
  <2>1. 1 \in 1..Len(control)
    BY <1>1
  <2>2. 1 = Len(control) /\ ((npc = "submit" /\ n_req.state = "OFF") \/ Awaited(Head(control).header))
    BY <1>1, <1>3, <2>1 DEF Channel
  <2>3. Len(Tail(control)) = 0
    <3> HIDE DEF Awaited
    <3>1. Len(control) = 1 /\ Len(Tail(control)) = Len(control) - 1
      BY <1>1, <2>2
    <3> QED BY <3>1
  <2> QED BY <1>1, <2>2, <2>3, EmptySeq
<1> QED BY <1>1, <1>2, <1>3

LEMMA ChannelAppend ==
  ASSUME TypeOK, NEW m \in Message
  PROVE  /\ Append(control, m) \in Seq(Message) /\ Len(Append(control, m)) = Len(control) + 1
         /\ Len(control) \in Nat
         /\ Append(control, m)[Len(control) + 1] = m
         /\ \A k \in 1..Len(control) : Append(control, m)[k] = control[k]
  BY AppendProperties DEF TypeOK
-----------------------------------------------------------------------------
(* The steps of the network thread keep the invariant.                     *)

\* Only what has been published is completed.
LEMMA NetNumbers ==
  ASSUME TypeOK, Numbers, NetStep
  PROVE  Numbers'
<1> USE DEF KeepShared, gameVars, menuVars, requestVars, netReqVars, linkVars, Numbers, Polling
<1>0. /\ answered \in Nat /\ answered_sync \in Nat /\ status_req_id_seen \in Nat /\ status_req_id \in Nat
      /\ status_req_completed \in Nat /\ status_req_reply_seen \in Nat /\ after # "complete"
  BY DEF TypeOK, Resumed
<1>1. CASE HangsUp
  <2>1. UNCHANGED <<answered, answered_sync, status_req_id_seen, status_req_id, status_req_completed,
                    status_req_reply_seen, alarm_seen, cpc>>
    BY <1>1, HangsUpDoes
  <2>2. npc' # "complete"
    BY <1>1, HangsUpDoes
  <2> QED BY <2>1, <2>2
<1>2. CASE Sends
  BY <1>2, <1>0 DEF Sends, Await
<1>3. CASE GoOn
  BY <1>3, <1>0 DEF GoOn
<1>4. CASE PullRequest
  BY <1>4, <1>0 DEF PullRequest, MayInterrupt
<1>5. CASE PullBusy
  BY <1>5, <1>0 DEF PullBusy
<1>6. CASE PushStatus
  <2>1. UNCHANGED <<answered, status_req_id_seen, status_req_id, status_req_completed,
                    status_req_reply_seen, cpc>> /\ alarm_seen' = FALSE
    BY <1>6 DEF PushStatus
  <2>2. \/ npc' # "complete" /\ answered_sync' = answered_sync
        \/ answered_sync' = status_req_id_seen
    BY <1>6, <1>0 DEF PushStatus
  <2> QED BY <1>0, <2>1, <2>2
<1>7. CASE SetCompleted
  BY <1>7, <1>0 DEF SetCompleted, ServedRequest
<1>8. CASE Cleared
  BY <1>8, <1>0 DEF Cleared, KeepSubmit, Publish, NoStatus
<1>9. CASE Open
  BY <1>9, <1>0 DEF Open, KeepSubmit, Publish, NoStatus
<1>10. CASE CannotOpen
  BY <1>10, <1>0 DEF CannotOpen, KeepSubmit
<1>11. CASE SubmitDone
  BY <1>11, <1>0 DEF SubmitDone, KeepSubmit, Submit, Submitting, Publish
<1>12. CASE RecvNothing
  BY <1>12, <1>0 DEF RecvNothing, KeepRecv
<1>13. CASE RecvRoomInfo
  BY <1>13, <1>0 DEF RecvRoomInfo, KeepRecv, Receive, Waiting, Publish
<1>14. CASE RoomGiven
  BY <1>14, <1>0 DEF RoomGiven, Receive
<1>15. CASE RecvKeyed
  BY <1>15, <1>0 DEF RecvKeyed, KeepRecv, Publish, Resubmitted, Waiting
<1>16. CASE HostStarts
  BY <1>16, <1>0 DEF HostStarts, Receive, Waiting, Publish
<1>17. CASE RecvPutSession
  BY <1>17, <1>0 DEF RecvPutSession, KeepRecv, Receive
<1>18. CASE HeaderStored
  BY <1>18, <1>0 DEF HeaderStored, Waiting
<1>19. CASE PutBody
  BY <1>19, <1>0 DEF PutBody, KeepRecv
<1>20. CASE PutDone
  BY <1>20, <1>0 DEF PutDone, KeepRecv, Publish
<1>21. CASE Knocked
  BY <1>21, <1>0 DEF Knocked, Receive, Publish
<1> QED
  BY <1>1, <1>2, <1>3, <1>4, <1>5, <1>6, <1>7, <1>8, <1>9, <1>10, <1>11, <1>12,
     <1>13, <1>14, <1>15, <1>16, <1>17, <1>18, <1>19, <1>20, <1>21
  DEF NetStep

\* A request is taken as it was pushed.
LEMMA NetRequests ==
  ASSUME TypeOK, Requests, NetStep
  PROVE  Requests'
<1> USE DEF KeepShared, gameVars, menuVars, requestVars, netReqVars, linkVars, Requests
<1>1. CASE HangsUp
  BY <1>1, HangsUpDoes
<1>2. CASE Sends
  BY <1>2 DEF Sends, Await
<1>3. CASE GoOn
  BY <1>3 DEF GoOn
<1>4. CASE PullRequest
  BY <1>4 DEF PullRequest, MayInterrupt
<1>5. CASE PullBusy
  BY <1>5 DEF PullBusy
<1>6. CASE PushStatus
  BY <1>6 DEF PushStatus
<1>7. CASE SetCompleted
  BY <1>7 DEF SetCompleted, ServedRequest
<1>8. CASE Cleared
  BY <1>8 DEF Cleared, KeepSubmit, Publish, NoStatus
<1>9. CASE Open
  BY <1>9 DEF Open, KeepSubmit, Publish, NoStatus
<1>10. CASE CannotOpen
  BY <1>10 DEF CannotOpen, KeepSubmit
<1>11. CASE SubmitDone
  BY <1>11 DEF SubmitDone, KeepSubmit, Submit, Submitting, Publish
<1>12. CASE RecvNothing
  BY <1>12 DEF RecvNothing, KeepRecv
<1>13. CASE RecvRoomInfo
  BY <1>13 DEF RecvRoomInfo, KeepRecv, Receive, Waiting, Publish
<1>14. CASE RoomGiven
  BY <1>14 DEF RoomGiven, Receive
<1>15. CASE RecvKeyed
  BY <1>15 DEF RecvKeyed, KeepRecv, Publish, Resubmitted, Waiting
<1>16. CASE HostStarts
  BY <1>16 DEF HostStarts, Receive, Waiting, Publish
<1>17. CASE RecvPutSession
  BY <1>17 DEF RecvPutSession, KeepRecv, Receive
<1>18. CASE HeaderStored
  BY <1>18 DEF HeaderStored, Waiting
<1>19. CASE PutBody
  BY <1>19 DEF PutBody, KeepRecv
<1>20. CASE PutDone
  BY <1>20 DEF PutDone, KeepRecv, Publish
<1>21. CASE Knocked
  BY <1>21 DEF Knocked, Receive, Publish
<1> QED
  BY <1>1, <1>2, <1>3, <1>4, <1>5, <1>6, <1>7, <1>8, <1>9, <1>10, <1>11, <1>12,
     <1>13, <1>14, <1>15, <1>16, <1>17, <1>18, <1>19, <1>20, <1>21
  DEF NetStep

LEMMA NoStatusIsStatus ==
  /\ NoStatus \in Status /\ [NoStatus EXCEPT !.state = "LOBBY"] \in Status
  /\ NoStatus.state = "OFF" /\ NoStatus.room = NoRoom
  BY DEF NoStatus, Status, State, AnyRoom

\* What the network thread writes is of the type of its variables.
LEMMA NetTypes ==
  ASSUME TypeOK, Channel, NetStep
  PROVE  TypeOK'
<1> USE DEF KeepShared, gameVars, menuVars, requestVars, netReqVars, linkVars, TypeOK, Place, Resumed, Pushing
<1>1. CASE HangsUp
  <2>1. n_status' \in Status /\ control' \in Seq(Message)
    BY <1>1, HangsUpDoes, EmptySeq, NoStatusIsStatus
  <2>2. npc' \in Place /\ connection' \in {"open", "closed"}
    BY <1>1, HangsUpDoes DEF Place, Pushing
  <2> QED BY <1>1, <2>1, <2>2, HangsUpDoes
<1>2. CASE Sends
  <2>1. PICK m \in Message : control' = control \/ control' = Append(control, m)
    BY <1>2 DEF Sends
  <2>2. control' \in Seq(Message)
    BY <2>1, ChannelAppend
  <2>3. npc' \in Place /\ in_progress' \in {"idle", "submit", "pending"}
    BY <1>2 DEF Sends, Await, Place, Resumed
  <2> QED BY <1>2, <2>2, <2>3 DEF Sends, Await
<1>3. CASE GoOn
  BY <1>3 DEF GoOn
<1>4. CASE PullRequest
  BY <1>4 DEF PullRequest, MayInterrupt
<1>5. CASE PullBusy
  BY <1>5 DEF PullBusy
<1>6. CASE PushStatus
  <2>1. npc' \in Place
    BY <1>6 DEF PushStatus
  <2> HIDE DEF Place, Resumed, Pushing
  <2> QED BY <1>6, <2>1 DEF PushStatus
<1>7. CASE SetCompleted
  <2>1. npc' \in Place
    BY <1>7 DEF SetCompleted
  <2> HIDE DEF Place, Resumed, Pushing
  <2> QED BY <1>7, <2>1 DEF SetCompleted, ServedRequest
<1>8. CASE Cleared
  <2>1. n_status' \in Status
    BY <1>8 DEF Cleared, Request, Status, State, AnyRoom, NoStatus
  <2> QED BY <1>8, <2>1 DEF Cleared, KeepSubmit, Publish
<1>9. CASE Open
  <2>1. n_status' \in Status
    BY <1>9 DEF Open, Request, Status, State, AnyRoom, NoStatus
  <2> QED BY <1>9, <2>1 DEF Open, KeepSubmit, Publish
<1>10. CASE CannotOpen
  <2>1. npc' \in Place
    BY <1>10 DEF CannotOpen
  <2> HIDE DEF Place, Resumed, Pushing
  <2> QED BY <1>10, <2>1 DEF CannotOpen, KeepSubmit
<1>11. CASE SubmitDone
  BY <1>11 DEF SubmitDone, KeepSubmit, Submit, Submitting, Publish
<1>12. CASE RecvNothing
  BY <1>12 DEF RecvNothing, KeepRecv
<1>13. CASE RecvRoomInfo
  <2>1. Tail(control) \in Seq(Message) /\ control' = Tail(control)
    BY <1>13, ChannelHead DEF RecvRoomInfo, Receive
  <2>2. n_req.room \in AnyRoom
    BY DEF Request
  <2>3. n_status' = n_status \/ n_status' = [n_status EXCEPT !.room = n_req.room]
    BY <1>13 DEF RecvRoomInfo
  <2>4. n_status' \in Status
    BY <2>2, <2>3 DEF Status
  <2>5. npc' \in Place /\ after' \in Resumed
    BY <1>13 DEF RecvRoomInfo, Publish
  <2> QED BY <1>13, <2>1, <2>4, <2>5 DEF RecvRoomInfo, KeepRecv
<1>14. CASE RoomGiven
  <2>1. Head(control) \in Message /\ control' \in Seq(Message)
    BY <1>14, ChannelHead DEF RoomGiven, Receive
  <2>2. n_status' \in Status
    BY <1>14, <2>1 DEF RoomGiven, Message, Request, Status, State, AnyRoom, NoStatus
  <2> QED BY <1>14, <2>1, <2>2 DEF RoomGiven, Receive
<1>15. CASE RecvKeyed
  <2>1. PICK x \in {"HOST_IDLE", "SESSION_CONFIG"} : n_status' = [n_status EXCEPT !.state = x]
    BY <1>15 DEF RecvKeyed
  <2>2. n_status' \in Status
    BY <2>1 DEF Status, State
  <2>3. npc' \in Place /\ after' \in Resumed /\ in_progress' \in {"idle", "submit", "pending"}
    BY <1>15 DEF RecvKeyed, Publish, Resubmitted
  <2> QED BY <1>15, <2>2, <2>3 DEF RecvKeyed, KeepRecv
<1>16. CASE HostStarts
  <2>1. Head(control) \in Message /\ control' \in Seq(Message)
    BY <1>16, ChannelHead DEF HostStarts, Receive
  <2>2. n_status' \in Status
    BY <1>16, <2>1 DEF HostStarts, Message, Request, Status, State, AnyRoom, NoStatus
  <2> QED BY <1>16, <2>1, <2>2 DEF HostStarts, Receive, Waiting, Publish
<1>17. CASE RecvPutSession
  <2>1. control' \in Seq(Message)
    BY <1>17, ChannelHead DEF RecvPutSession, Receive
  <2> QED BY <1>17, <2>1 DEF RecvPutSession, KeepRecv, Receive
<1>18. CASE HeaderStored
  <2>1. session' \in [room : AnyRoom, whole : BOOLEAN]
    BY <1>18 DEF HeaderStored, Status
  <2> QED BY <1>18, <2>1 DEF HeaderStored
<1>19. CASE PutBody
  <2>1. session' \in [room : AnyRoom, whole : BOOLEAN]
    BY <1>19 DEF PutBody
  <2> QED BY <1>19, <2>1 DEF PutBody, KeepRecv
<1>20. CASE PutDone
  <2>1. n_status' \in Status
    BY <1>20 DEF PutDone, Request, Status, State, AnyRoom, NoStatus
  <2> QED BY <1>20, <2>1 DEF PutDone, KeepRecv, Publish
<1>21. CASE Knocked
  <2>1. Head(control) \in Message /\ control' \in Seq(Message)
    BY <1>21, ChannelHead DEF Knocked, Receive
  <2>2. n_status' \in Status
    BY <1>21, <2>1 DEF Knocked, Message, Request, Status, State, AnyRoom, NoStatus
  <2> QED BY <1>21, <2>1, <2>2 DEF Knocked, Receive, Publish
<1> QED
  BY <1>1, <1>2, <1>3, <1>4, <1>5, <1>6, <1>7, <1>8, <1>9, <1>10, <1>11, <1>12,
     <1>13, <1>14, <1>15, <1>16, <1>17, <1>18, <1>19, <1>20, <1>21
  DEF NetStep

\* The network thread leaves alone what is the game's.
LEMMA NetFrame ==
  ASSUME NetStep
  PROVE  UNCHANGED <<screen, started, cpc, g_req, g_status, status_req_reply_seen, status_req_sync,
                     status_req_id, answered>>
<1>1. UNCHANGED gameVars
  BY HangsUpDoes DEF NetStep, KeepShared, KeepSubmit, KeepRecv, Sends, GoOn, PullRequest, PullBusy,
     PushStatus, SetCompleted, Cleared, Open, CannotOpen, SubmitDone, RecvNothing, RecvRoomInfo,
     RoomGiven, RecvKeyed, HostStarts, RecvPutSession, HeaderStored, PutBody, PutDone, Knocked
<1> QED BY <1>1 DEF gameVars, menuVars, requestVars

\* The answer that is waited for stays the last message on the channel.
LEMMA NetChannel ==
  ASSUME TypeOK, Phases, Channel, NetStep
  PROVE  Channel'
<1> USE DEF KeepShared, netReqVars, linkVars, Channel, Awaited, Connected
<1>1. CASE HangsUp
  <2>1. control' = <<>> /\ n_status'.room = NoRoom
    BY <1>1, HangsUpDoes, NoStatusIsStatus
  <2>2. Len(control') = 0
    BY <2>1
  <2> QED BY <2>1, <2>2
<1>2. CASE Sends
  <2>1. PICK m \in Message :
          /\ control' = control \/ control' = Append(control, m)
          /\ m.header = "ROOM_KEY" => n_req.state \in Hosts \cup {"GUEST"}
          /\ m.header = "ROOM_INFO" => n_req.state = "LOBBY"
          /\ m.header = "GET_SESSION" => n_req.state \in Hosts
          /\ m.header = "PUT_SESSION" => n_req.state = "GUEST" /\ n_status.state = "SESSION_CONFIG"
    BY <1>2 DEF Sends
  <2>2. /\ npc = "submit" /\ n_req.state # "OFF" /\ connection = "open"
        /\ npc' = "top" /\ in_progress' = "pending" /\ UNCHANGED <<n_req, n_status, connection>>
    BY <1>2 DEF Sends, Submit, Submitting, Await
  <2>3. \A k \in 1..Len(control) : control[k].header = "KNOCK_KNOCK"
    BY <2>2
  <2>4. CASE control' = control
    BY <2>2, <2>3, <2>4
  <2>5. CASE control' = Append(control, m)
    <3> DEFINE c == Append(control, m)
    <3>1. /\ Len(c) = Len(control) + 1 /\ Len(control) \in Nat /\ c[Len(control) + 1] = m
          /\ \A k \in 1..Len(control) : c[k] = control[k]
      BY ChannelAppend
    <3> HIDE DEF c
    <3>2. ASSUME NEW k \in 1..Len(c), c[k].header # "KNOCK_KNOCK" PROVE k = Len(c) /\ c[k] = m
      <4>1. k \notin 1..Len(control)
        BY <2>3, <3>1, <3>2
      <4> QED BY <4>1, <3>1, <3>2
    <3>3. control' = c
      BY <2>5 DEF c
    <3>4. ASSUME NEW k \in 1..Len(control'), control'[k].header # "KNOCK_KNOCK"
          PROVE  k = Len(control') /\ Awaited(control[k].header)'
      BY <3>2, <3>3, <3>4, <2>1, <2>2
    <3> QED BY <3>4, <2>2
  <2> QED BY <2>1, <2>4, <2>5
<1>3. CASE GoOn
  BY <1>3 DEF GoOn
<1>4. CASE PullRequest
  BY <1>4 DEF PullRequest, MayInterrupt
<1>5. CASE PullBusy
  BY <1>5 DEF PullBusy
<1>6. CASE PushStatus
  BY <1>6 DEF PushStatus
<1>7. CASE SetCompleted
  BY <1>7 DEF SetCompleted, ServedRequest
<1>8. CASE Cleared
  BY <1>8 DEF Cleared, KeepSubmit, Publish, NoStatus
<1>9. CASE Open
  BY <1>9 DEF Open, KeepSubmit, Publish, NoStatus
<1>10. CASE CannotOpen
  BY <1>10 DEF CannotOpen, KeepSubmit
<1>11. CASE SubmitDone
  BY <1>11 DEF SubmitDone, KeepSubmit, Submit, Submitting, Publish
<1>12. CASE RecvNothing
  BY <1>12 DEF RecvNothing, KeepRecv
<1>13. CASE RecvRoomInfo
  <2>1. control' = <<>> /\ Connected /\ connection' = connection
    BY <1>13, ChannelHead DEF RecvRoomInfo, Receive, KeepRecv
  <2>2. Len(control') = 0
    BY <2>1
  <2> QED BY <2>1, <2>2
<1>14. CASE RoomGiven
  <2>1. control' = <<>> /\ Connected /\ connection' = connection
    BY <1>14, ChannelHead DEF RoomGiven, Receive
  <2>2. Len(control') = 0
    BY <2>1
  <2> QED BY <2>1, <2>2
<1>15. CASE RecvKeyed
  <2>1. n_status'.room = n_status.room
    BY <1>15 DEF RecvKeyed, TypeOK, Status
  <2> QED BY <1>15, <2>1 DEF RecvKeyed, KeepRecv, Publish, Resubmitted, Waiting
<1>16. CASE HostStarts
  <2>1. control' = <<>> /\ Connected /\ connection' = connection
    BY <1>16, ChannelHead DEF HostStarts, Receive
  <2>2. Len(control') = 0
    BY <2>1
  <2> QED BY <2>1, <2>2
<1>17. CASE RecvPutSession
  <2>1. control' = <<>> /\ Connected /\ connection' = connection
    BY <1>17, ChannelHead DEF RecvPutSession, Receive, KeepRecv
  <2>2. Len(control') = 0
    BY <2>1
  <2> QED BY <2>1, <2>2
<1>18. CASE HeaderStored
  BY <1>18 DEF HeaderStored, Waiting
<1>19. CASE PutBody
  BY <1>19 DEF PutBody, KeepRecv
<1>20. CASE PutDone
  <2>1. n_status'.room = n_status.room
    BY <1>20 DEF PutDone, TypeOK, Status
  <2> QED BY <1>20, <2>1 DEF PutDone, KeepRecv, Publish
<1>21. CASE Knocked
  <2>1. /\ control' = Tail(control) /\ npc' = "push" /\ after' = "top" /\ npc = "recv"
        /\ UNCHANGED <<in_progress, connection, n_req>> /\ n_status'.state = n_status.state
    BY <1>21 DEF Knocked, Receive, Publish, TypeOK, Status
  <2>2. /\ Connected /\ Len(control) \in Nat /\ Len(control') = Len(control) - 1
        /\ \A k \in 1..Len(control') : control'[k] = control[k + 1]
    BY <1>21, <2>1, ChannelHead DEF Knocked, Receive
  <2>3. ASSUME NEW k \in 1..Len(control'), control'[k].header # "KNOCK_KNOCK"
        PROVE  k = Len(control') /\ Awaited(control[k].header)'
    <3>1. k + 1 \in 1..Len(control) /\ control'[k] = control[k + 1]
      BY <2>2
    <3>2. k + 1 = Len(control) /\ Awaited(control[k + 1].header)
      BY <2>1, <2>3, <3>1
    <3> QED BY <2>1, <2>2, <3>1, <3>2
  <2> QED BY <2>1, <2>2, <2>3
<1> QED
  BY <1>1, <1>2, <1>3, <1>4, <1>5, <1>6, <1>7, <1>8, <1>9, <1>10, <1>11, <1>12,
     <1>13, <1>14, <1>15, <1>16, <1>17, <1>18, <1>19, <1>20, <1>21
  DEF NetStep

-----------------------------------------------------------------------------
(* What each step of the network thread does to what the invariant is about. *)
LEMMA GoOnDoes ==
  ASSUME GoOn
  PROVE  /\ npc = "top" /\ npc' = "pull"
         /\ UNCHANGED <<after, n_req, status_req_id_seen, n_status, in_progress, connection, session, status_sync, answered_sync>>
  BY DEF GoOn, KeepShared, netReqVars, linkVars

LEMMA PullRequestDoes ==
  ASSUME PullRequest
  PROVE  /\ npc = "pull"
         /\ \/ /\ status_req_id_seen # status_req_id
               /\ in_progress = "idle" \/ status_req_sync.state = "OFF"
               /\ n_req' = status_req_sync /\ status_req_id_seen' = status_req_id
               /\ in_progress' = "submit" /\ npc' = "submit"
            \/ /\ UNCHANGED <<n_req, status_req_id_seen, in_progress>>
               /\ npc' = IF in_progress = "submit" THEN "submit" ELSE "recv"
         /\ UNCHANGED <<after, n_status, connection, session, status_sync, answered_sync>>
  BY DEF PullRequest, KeepShared, netReqVars, linkVars, MayInterrupt

LEMMA PullBusyDoes ==
  ASSUME PullBusy
  PROVE  /\ npc = "pull" /\ npc' = "recv"
         /\ UNCHANGED <<after, n_req, status_req_id_seen, n_status, in_progress, connection, session, status_sync, answered_sync>>
  BY DEF PullBusy, KeepShared, netReqVars, linkVars

LEMMA PushStatusDoes ==
  ASSUME PushStatus
  PROVE  /\ status_sync' = n_status
         /\ \/ npc = "push" /\ npc' = after /\ answered_sync' = answered_sync
            \/ npc = "push completed" /\ npc' = "complete" /\ answered_sync' = status_req_id_seen
         /\ UNCHANGED <<after, n_req, status_req_id_seen, n_status, in_progress, connection, session>>
  BY DEF PushStatus, KeepShared, netReqVars, linkVars

LEMMA SetCompletedDoes ==
  ASSUME SetCompleted
  PROVE  /\ npc = "complete" /\ npc' = after /\ in_progress' = "idle"
         /\ UNCHANGED <<after, n_req, status_req_id_seen, n_status, connection, session, status_sync, answered_sync>>
  BY DEF SetCompleted, KeepShared, netReqVars, linkVars

LEMMA ClearedDoes ==
  ASSUME Cleared
  PROVE  /\ npc = "cleared" /\ npc' = "push completed" /\ after' = "top" /\ n_status' = NoStatus
         /\ UNCHANGED <<n_req, status_req_id_seen, in_progress, connection, session, status_sync, answered_sync>>
  BY DEF Cleared, KeepShared, netReqVars, linkVars, KeepSubmit, Publish

LEMMA OpenDoes ==
  ASSUME Open
  PROVE  /\ npc \in {"open", "reopen"} /\ npc' = "push" /\ after' \in {"submit", "top"}
         /\ n_status'.state = "LOBBY" /\ n_status'.room = NoRoom
         /\ UNCHANGED <<n_req, status_req_id_seen, in_progress, session, status_sync, answered_sync>>
  BY DEF Open, KeepShared, netReqVars, linkVars, KeepSubmit, Publish, NoStatus

LEMMA CannotOpenDoes ==
  ASSUME CannotOpen
  PROVE  /\ npc \in {"open", "reopen"} /\ npc' \in {"cleared", "top"}
         /\ UNCHANGED <<after, n_req, status_req_id_seen, n_status, in_progress, connection, session, status_sync, answered_sync>>
  BY DEF CannotOpen, KeepShared, netReqVars, linkVars, KeepSubmit

LEMMA SubmitDoneDoes ==
  ASSUME SubmitDone
  PROVE  /\ npc = "submit" /\ npc' = "push completed" /\ after' = "top" /\ connection = "open"
         /\ n_req.state = n_status.state /\ n_req.state # "OFF"
         /\ n_req.state = "LOBBY" => n_req.room = n_status.room
         /\ UNCHANGED <<n_req, status_req_id_seen, n_status, in_progress, connection, session, status_sync, answered_sync>>
  BY DEF SubmitDone, KeepShared, netReqVars, linkVars, KeepSubmit, Submit, Submitting, Connected, Publish

LEMMA RecvNothingDoes ==
  ASSUME RecvNothing
  PROVE  /\ npc = "recv" /\ npc' = "top"
         /\ UNCHANGED <<after, n_req, status_req_id_seen, n_status, in_progress, connection, session, status_sync, answered_sync>>
  BY DEF RecvNothing, KeepShared, netReqVars, linkVars, KeepRecv

LEMMA RecvRoomInfoDoes ==
  ASSUME TypeOK, Channel, RecvRoomInfo
  PROVE  /\ npc = "recv" /\ connection = "open" /\ in_progress = "pending" /\ n_req.state = "LOBBY"
         /\ \/ npc' = "top" /\ after' = after /\ n_status' = n_status
            \/ /\ npc' = "push completed" /\ after' = "top"
               /\ n_status'.state = n_status.state /\ n_status'.room = n_req.room
         /\ UNCHANGED <<n_req, status_req_id_seen, in_progress, connection, session, status_sync, answered_sync>>
  BY ChannelHead DEF RecvRoomInfo, KeepShared, netReqVars, linkVars, KeepRecv, Publish, Receive, Awaited, Connected, TypeOK, Status

LEMMA RoomGivenDoes ==
  ASSUME TypeOK, Channel, RoomGiven
  PROVE  /\ npc = "recv" /\ npc' = "keyed" /\ connection = "open" /\ in_progress = "pending"
         /\ n_req.state \in Hosts \cup {"GUEST"}
         /\ n_status'.state = n_status.state
         /\ n_req.room = NoRoom \/ n_status'.room = n_req.room
         /\ UNCHANGED <<after, n_req, status_req_id_seen, in_progress, connection, session, status_sync, answered_sync>>
  BY ChannelHead DEF RoomGiven, KeepShared, netReqVars, linkVars, Receive, Awaited, Connected, TypeOK, Status

LEMMA RecvKeyedDoes ==
  ASSUME TypeOK, RecvKeyed
  PROVE  /\ npc = "keyed" /\ n_status'.room = n_status.room
         /\ \/ /\ n_req.state = "HOST_IDLE" /\ n_status'.state = "HOST_IDLE" /\ in_progress' = in_progress
               /\ npc' = "push completed" /\ after' = "top"
            \/ /\ n_req.state # "HOST_IDLE" /\ npc' = "top" /\ after' = after
               /\ n_status'.state = IF n_req.state = "HOST" THEN "HOST_IDLE" ELSE "SESSION_CONFIG"
               /\ in_progress' = IF in_progress = "pending" THEN "submit" ELSE in_progress
         /\ UNCHANGED <<n_req, status_req_id_seen, connection, session, status_sync, answered_sync>>
  BY DEF RecvKeyed, KeepShared, netReqVars, linkVars, KeepRecv, Publish, Resubmitted, Waiting, TypeOK, Status

LEMMA HostStartsDoes ==
  ASSUME TypeOK, Channel, HostStarts
  PROVE  /\ npc = "recv" /\ npc' = "push completed" /\ after' = "top" /\ connection = "open"
         /\ in_progress = "pending" /\ n_req.state \in Hosts
         /\ n_status'.state = "HOST" /\ n_status'.room = n_status.room
         /\ UNCHANGED <<n_req, status_req_id_seen, in_progress, connection, session, status_sync, answered_sync>>
  BY ChannelHead DEF HostStarts, KeepShared, netReqVars, linkVars, Publish, Receive, Awaited, Connected, TypeOK, Status

LEMMA RecvPutSessionDoes ==
  ASSUME TypeOK, Channel, RecvPutSession
  PROVE  /\ npc = "recv" /\ npc' = "put" /\ connection = "open"
         /\ in_progress = "pending" /\ n_req.state = "GUEST" /\ n_status.state = "SESSION_CONFIG"
         /\ UNCHANGED <<after, n_req, status_req_id_seen, n_status, in_progress, connection, session, status_sync, answered_sync>>
  BY ChannelHead DEF RecvPutSession, KeepShared, netReqVars, linkVars, KeepRecv, Receive, Awaited, Connected

LEMMA HeaderStoredDoes ==
  ASSUME HeaderStored
  PROVE  /\ npc = "put" /\ npc' = "body"
         /\ session'.room = n_status.room
         /\ UNCHANGED <<after, n_req, status_req_id_seen, n_status, in_progress, connection, status_sync, answered_sync>>
  BY DEF HeaderStored, KeepShared, netReqVars, linkVars

LEMMA PutBodyDoes ==
  ASSUME TypeOK, PutBody
  PROVE  /\ npc = "body" /\ npc' = "guest"
         /\ session'.room = session.room /\ session'.whole
         /\ UNCHANGED <<after, n_req, status_req_id_seen, n_status, in_progress, connection, status_sync, answered_sync>>
  BY DEF PutBody, KeepShared, netReqVars, linkVars, KeepRecv, TypeOK

LEMMA PutDoneDoes ==
  ASSUME TypeOK, PutDone
  PROVE  /\ npc = "guest" /\ npc' = "push completed" /\ after' = "top"
         /\ n_status'.state = "GUEST" /\ n_status'.room = n_status.room
         /\ UNCHANGED <<n_req, status_req_id_seen, in_progress, connection, session, status_sync, answered_sync>>
  BY DEF PutDone, KeepShared, netReqVars, linkVars, KeepRecv, Publish, TypeOK, Status

LEMMA KnockedDoes ==
  ASSUME TypeOK, Channel, Knocked
  PROVE  /\ npc = "recv" /\ npc' = "push" /\ after' = "top" /\ connection = "open"
         /\ n_status.state = "HOST_IDLE"
         /\ n_status'.state = n_status.state /\ n_status'.room = n_status.room
         /\ UNCHANGED <<n_req, status_req_id_seen, in_progress, connection, session, status_sync, answered_sync>>
  BY ChannelHead DEF Knocked, KeepShared, netReqVars, linkVars, Publish, Receive, Connected, TypeOK, Status

LEMMA SendsDoes ==
  ASSUME Sends
  PROVE  /\ npc = "submit" /\ npc' = "top" /\ in_progress' = "pending" /\ connection = "open"
         /\ n_req.state # "OFF" /\ n_status.state # "GUEST"
         /\ n_status.state \in Hosts => n_req.state \in Hosts
         /\ UNCHANGED <<after, n_req, status_req_id_seen, n_status, connection, session, status_sync,
                        answered_sync>>
  BY DEF Sends, Submit, Submitting, Connected, Await, KeepShared, netReqVars

LEMMA HangsUpKeeps ==
  ASSUME HangsUp
  PROVE  /\ connection' = "closed" /\ n_status' = NoStatus
         /\ \/ npc' = "push" /\ in_progress = "idle"
            \/ npc' = "push completed" /\ in_progress # "idle"
         /\ npc \in {"top", "recv", "submit", "put", "body", "connect"} /\ after' \in Resumed
         /\ npc \in {"top", "recv"} =>
              after' \in {"pull", "top"} \/ (control # <<>> /\ Head(control).header = "ROOM_KEY")
         /\ after' = "guest" => status_req_id_seen # status_req_id
         /\ UNCHANGED <<n_req, status_req_id_seen, in_progress, session, status_sync, answered_sync>>
  BY HangsUpDoes DEF KeepShared, netReqVars

\* The network thread knows its place.
LEMMA NetPhases ==
  ASSUME TypeOK, Numbers, Requests, Channel, Phases, NetStep
  PROVE  Phases'
<1> USE DEF Phases, Connected, Pushing, Hosts
<1>1. CASE HangsUp
  BY <1>1, NetFrame, HangsUpKeeps, NoStatusIsStatus
<1>2. CASE Sends
  BY <1>2, NetFrame, SendsDoes
<1>3. CASE GoOn
  BY <1>3, NetFrame, GoOnDoes
<1>4. CASE PullRequest
  BY <1>4, NetFrame, PullRequestDoes
<1>5. CASE PullBusy
  BY <1>5, NetFrame, PullBusyDoes
<1>6. CASE PushStatus
  <2>1. after \in Resumed
    BY DEF TypeOK
  <2> QED BY <1>6, <2>1, NetFrame, PushStatusDoes DEF Resumed
<1>7. CASE SetCompleted
  <2>1. after \in Resumed
    BY DEF TypeOK
  <2> QED BY <1>7, <2>1, NetFrame, SetCompletedDoes DEF Resumed
<1>8. CASE Cleared
  BY <1>8, NetFrame, ClearedDoes, NoStatusIsStatus
<1>9. CASE Open
  BY <1>9, NetFrame, OpenDoes
<1>10. CASE CannotOpen
  BY <1>10, NetFrame, CannotOpenDoes
<1>11. CASE SubmitDone
  BY <1>11, NetFrame, SubmitDoneDoes
<1>12. CASE RecvNothing
  BY <1>12, NetFrame, RecvNothingDoes
<1>13. CASE RecvRoomInfo
  BY <1>13, NetFrame, RecvRoomInfoDoes
<1>14. CASE RoomGiven
  <2>1. n_req.state = "GUEST" => n_req.room # NoRoom
    BY DEF Requests
  <2> QED BY <1>14, <2>1, NetFrame, RoomGivenDoes
<1>15. CASE RecvKeyed
  BY <1>15, NetFrame, RecvKeyedDoes
<1>16. CASE HostStarts
  BY <1>16, NetFrame, HostStartsDoes
<1>17. CASE RecvPutSession
  BY <1>17, NetFrame, RecvPutSessionDoes
<1>18. CASE HeaderStored
  BY <1>18, NetFrame, HeaderStoredDoes
<1>19. CASE PutBody
  BY <1>19, NetFrame, PutBodyDoes
<1>20. CASE PutDone
  BY <1>20, NetFrame, PutDoneDoes
<1>21. CASE Knocked
  BY <1>21, NetFrame, KnockedDoes
<1> QED
  BY <1>1, <1>2, <1>3, <1>4, <1>5, <1>6, <1>7, <1>8, <1>9, <1>10, <1>11, <1>12,
     <1>13, <1>14, <1>15, <1>16, <1>17, <1>18, <1>19, <1>20, <1>21
  DEF NetStep

\* A guest has got the session of its room, and of the request that made it one.
LEMMA NetGuest ==
  ASSUME TypeOK, Requests, Channel, Phases, Guest, RoomAsked, NetStep
  PROVE  Guest'
<1> USE DEF Guest, SessionAsked, Connected
<1>1. CASE HangsUp
  BY <1>1, NetFrame, HangsUpKeeps, NoStatusIsStatus
<1>2. CASE Sends
  <2> QED BY <1>2, NetFrame, SendsDoes
<1>3. CASE GoOn
  BY <1>3, NetFrame, GoOnDoes
<1>4. CASE PullRequest
  BY <1>4, NetFrame, PullRequestDoes
<1>5. CASE PullBusy
  BY <1>5, NetFrame, PullBusyDoes
<1>6. CASE PushStatus
  BY <1>6, NetFrame, PushStatusDoes
<1>7. CASE SetCompleted
  BY <1>7, NetFrame, SetCompletedDoes
<1>8. CASE Cleared
  BY <1>8, NetFrame, ClearedDoes, NoStatusIsStatus
<1>9. CASE Open
  BY <1>9, NetFrame, OpenDoes
<1>10. CASE CannotOpen
  BY <1>10, NetFrame, CannotOpenDoes
<1>11. CASE SubmitDone
  <2>1. ASSUME n_status.state = "GUEST"
        PROVE  /\ session.whole /\ session.room = n_status.room /\ n_status.room = n_req.room
               /\ status_req_id_seen = status_req_id => n_req = g_req
    <3>1. n_req.state = "GUEST" /\ connection = "open"
      BY <1>11, <2>1, SubmitDoneDoes
    <3>2. n_status.room \in {NoRoom, n_req.room}
      BY <2>1, <3>1 DEF RoomAsked, Hosts
    <3> QED BY <2>1, <3>1, <3>2 DEF Requests
  <2> QED BY <1>11, <2>1, NetFrame, SubmitDoneDoes
<1>12. CASE RecvNothing
  BY <1>12, NetFrame, RecvNothingDoes
<1>13. CASE RecvRoomInfo
  BY <1>13, NetFrame, RecvRoomInfoDoes
<1>14. CASE RoomGiven
  BY <1>14, NetFrame, RoomGivenDoes
<1>15. CASE RecvKeyed
  BY <1>15, NetFrame, RecvKeyedDoes
<1>16. CASE HostStarts
  BY <1>16, NetFrame, HostStartsDoes
<1>17. CASE RecvPutSession
  BY <1>17, NetFrame, RecvPutSessionDoes
<1>18. CASE HeaderStored
  BY <1>18, NetFrame, HeaderStoredDoes
<1>19. CASE PutBody
  BY <1>19, NetFrame, PutBodyDoes
<1>20. CASE PutDone
  <2>1. CASE connection = "open"
    <3>1. /\ n_req.state = "GUEST" /\ n_status.room = n_req.room
          /\ session.whole /\ session.room = n_status.room
      BY <1>20, <2>1, PutDoneDoes DEF Phases
    <3>2. n_req.room # NoRoom /\ (status_req_id_seen = status_req_id => n_req = g_req)
      BY <3>1 DEF Requests
    <3> QED BY <1>20, <3>1, <3>2, NetFrame, PutDoneDoes
  <2>2. CASE connection # "open"
    <3>1. status_req_id_seen # status_req_id
      BY <1>20, <2>2, PutDoneDoes DEF Phases
    <3> QED BY <1>20, <2>2, <3>1, NetFrame, PutDoneDoes
  <2> QED BY <2>1, <2>2
<1>21. CASE Knocked
  BY <1>21, NetFrame, KnockedDoes
<1> QED
  BY <1>1, <1>2, <1>3, <1>4, <1>5, <1>6, <1>7, <1>8, <1>9, <1>10, <1>11, <1>12,
     <1>13, <1>14, <1>15, <1>16, <1>17, <1>18, <1>19, <1>20, <1>21
  DEF NetStep

\* The status the game sees is that of the session it sees.
LEMMA NetKnown ==
  ASSUME TypeOK, Numbers, Channel, Phases, Guest, Known, NetStep
  PROVE  Known'
<1> USE DEF Known, Over, SessionAsked, Connected, Pushing
<1>1. CASE HangsUp
  <2>1. ASSUME Over PROVE Over'
    <3>1. control # <<>> => Head(control).header # "ROOM_KEY"
      BY <2>1, ChannelHead DEF Over, Awaited
    <3> QED BY <1>1, <2>1, <3>1, HangsUpKeeps DEF Over
  <2>2. SessionAsked' <=> SessionAsked
    BY <1>1, NetFrame, HangsUpKeeps DEF SessionAsked
  <2> HIDE DEF Over, SessionAsked
  <2> QED BY <1>1, <2>1, <2>2, NetFrame, HangsUpKeeps
<1>2. CASE Sends
  BY <1>2, NetFrame, SendsDoes
<1>3. CASE GoOn
  BY <1>3, NetFrame, GoOnDoes
<1>4. CASE PullRequest
  <2>1. /\ answered_sync \in Nat /\ answered \in Nat /\ status_req_id_seen \in Nat /\ status_req_id \in Nat
        /\ answered <= answered_sync /\ answered_sync <= status_req_id_seen
        /\ status_req_id_seen <= status_req_id
    BY DEF Numbers, TypeOK
  <2>2. CASE status_req_id_seen = status_req_id
    BY <1>4, <2>2, NetFrame, PullRequestDoes
  <2>3. CASE status_req_id_seen # status_req_id
    <3>1. answered_sync # status_req_id /\ answered # status_req_id
      <4> HIDE DEF Known
      <4> QED BY <2>1, <2>3
    <3> QED BY <1>4, <3>1, NetFrame, PullRequestDoes
  <2> QED BY <2>2, <2>3
<1>5. CASE PullBusy
  BY <1>5, NetFrame, PullBusyDoes
<1>6. CASE PushStatus
  <2>1. /\ SessionAsked' <=> SessionAsked
        /\ UNCHANGED <<g_status, answered, status_req_id>> /\ status_sync' = n_status
    BY <1>6, NetFrame, PushStatusDoes DEF SessionAsked
  <2>2. ASSUME Over PROVE Over'
    BY <1>6, <2>2, PushStatusDoes DEF Over
  <2>3. CASE npc = "push"
    <3>1. n_status.state # "GUEST"
      BY <2>3 DEF Guest
    <3> HIDE DEF Over, SessionAsked
    <3> QED BY <2>1, <2>2, <3>1
  <2>4. CASE npc = "push completed"
    <3>1. answered_sync' = status_req_id_seen /\ npc' = "complete" /\ UNCHANGED <<after, in_progress>>
      BY <1>6, <2>4, PushStatusDoes
    <3>2. n_status.state = "GUEST" => after = "top" /\ (status_req_id_seen = status_req_id => SessionAsked)
      BY <2>4 DEF Guest
    <3>3. n_status.state = "GUEST" => Over'
      BY <3>1, <3>2 DEF Over
    <3> HIDE DEF Over, SessionAsked
    <3> QED BY <2>1, <2>2, <3>1, <3>2, <3>3
  <2> QED BY <1>6, <2>3, <2>4, PushStatusDoes
<1>7. CASE SetCompleted
  BY <1>7, NetFrame, SetCompletedDoes
<1>8. CASE Cleared
  BY <1>8, NetFrame, ClearedDoes, NoStatusIsStatus
<1>9. CASE Open
  BY <1>9, NetFrame, OpenDoes
<1>10. CASE CannotOpen
  BY <1>10, NetFrame, CannotOpenDoes
<1>11. CASE SubmitDone
  BY <1>11, NetFrame, SubmitDoneDoes
<1>12. CASE RecvNothing
  BY <1>12, NetFrame, RecvNothingDoes
<1>13. CASE RecvRoomInfo
  BY <1>13, NetFrame, RecvRoomInfoDoes
<1>14. CASE RoomGiven
  BY <1>14, NetFrame, RoomGivenDoes
<1>15. CASE RecvKeyed
  BY <1>15, NetFrame, RecvKeyedDoes
<1>16. CASE HostStarts
  BY <1>16, NetFrame, HostStartsDoes
<1>17. CASE RecvPutSession
  BY <1>17, NetFrame, RecvPutSessionDoes
<1>18. CASE HeaderStored
  BY <1>18, NetFrame, HeaderStoredDoes
<1>19. CASE PutBody
  BY <1>19, NetFrame, PutBodyDoes
<1>20. CASE PutDone
  BY <1>20, NetFrame, PutDoneDoes
<1>21. CASE Knocked
  BY <1>21, NetFrame, KnockedDoes
<1> QED
  BY <1>1, <1>2, <1>3, <1>4, <1>5, <1>6, <1>7, <1>8, <1>9, <1>10, <1>11, <1>12,
     <1>13, <1>14, <1>15, <1>16, <1>17, <1>18, <1>19, <1>20, <1>21
  DEF NetStep

\* A status is not published as the answer while its room is another.
LEMMA NetRoomAsked ==
  ASSUME TypeOK, Numbers, Requests, Channel, Phases, RoomAsked, OneRoom, NetStep
  PROVE  RoomAsked'
<1> USE DEF RoomAsked, Connected, Hosts
<1>1. CASE HangsUp
  BY <1>1, NetFrame, HangsUpKeeps, NoStatusIsStatus
<1>2. CASE Sends
  BY <1>2, NetFrame, SendsDoes
<1>3. CASE GoOn
  BY <1>3, NetFrame, GoOnDoes
<1>4. CASE PullRequest
  <2>1. /\ answered_sync \in Nat /\ answered \in Nat /\ status_req_id_seen \in Nat /\ status_req_id \in Nat
        /\ answered <= answered_sync /\ answered_sync <= status_req_id_seen
        /\ status_req_id_seen <= status_req_id
    BY DEF Numbers, TypeOK
  <2>2. CASE UNCHANGED <<n_req, status_req_id_seen, in_progress>>
    BY <1>4, <2>2, NetFrame, PullRequestDoes
  <2>3. CASE status_req_id_seen # status_req_id /\ n_req' = status_req_sync
             /\ status_req_id_seen' = status_req_id /\ npc' = "submit"
             /\ (in_progress = "idle" \/ status_req_sync.state = "OFF")
    <3>1. answered_sync # status_req_id /\ answered # status_req_id
      BY <2>1, <2>3
    <3>2. ASSUME status_req_sync.state = "GUEST", n_status.state \in {"GUEST", "SESSION_CONFIG"}
          PROVE  n_status.room \in {NoRoom, status_req_sync.room}
      <4>1. CASE n_status.state = "GUEST"
        BY <3>2, <4>1 DEF OneRoom, Requests
      <4>2. CASE n_status.state = "SESSION_CONFIG"
        BY <1>4, <2>3, <3>2, <4>2, PullRequestDoes DEF Phases, Channel
      <4> QED BY <3>2, <4>1, <4>2
    <3> QED BY <1>4, <2>3, <3>1, <3>2, NetFrame, PullRequestDoes
  <2> QED BY <1>4, <2>2, <2>3, PullRequestDoes
<1>5. CASE PullBusy
  BY <1>5, NetFrame, PullBusyDoes
<1>6. CASE PushStatus
  BY <1>6, NetFrame, PushStatusDoes
<1>7. CASE SetCompleted
  BY <1>7, NetFrame, SetCompletedDoes
<1>8. CASE Cleared
  BY <1>8, NetFrame, ClearedDoes, NoStatusIsStatus
<1>9. CASE Open
  BY <1>9, NetFrame, OpenDoes
<1>10. CASE CannotOpen
  BY <1>10, NetFrame, CannotOpenDoes
<1>11. CASE SubmitDone
  <2>1. n_req.state \in {"LOBBY", "GUEST"} \cup Hosts
    BY <1>11, SubmitDoneDoes DEF Requests, TypeOK, Request, State
  <2> QED BY <1>11, <2>1, NetFrame, SubmitDoneDoes
<1>12. CASE RecvNothing
  BY <1>12, NetFrame, RecvNothingDoes
<1>13. CASE RecvRoomInfo
  BY <1>13, NetFrame, RecvRoomInfoDoes
<1>14. CASE RoomGiven
  <2>1. n_req.state = "GUEST" => n_req.room # NoRoom
    BY DEF Requests
  <2> QED BY <1>14, <2>1, NetFrame, RoomGivenDoes
<1>15. CASE RecvKeyed
  BY <1>15, NetFrame, RecvKeyedDoes
<1>16. CASE HostStarts
  BY <1>16, NetFrame, HostStartsDoes
<1>17. CASE RecvPutSession
  BY <1>17, NetFrame, RecvPutSessionDoes
<1>18. CASE HeaderStored
  BY <1>18, NetFrame, HeaderStoredDoes
<1>19. CASE PutBody
  BY <1>19, NetFrame, PutBodyDoes
<1>20. CASE PutDone
  BY <1>20, NetFrame, PutDoneDoes
<1>21. CASE Knocked
  <2>1. n_req.state \in Hosts
    BY <1>21, KnockedDoes DEF Phases
  <2> QED BY <1>21, <2>1, NetFrame, KnockedDoes
<1> QED
  BY <1>1, <1>2, <1>3, <1>4, <1>5, <1>6, <1>7, <1>8, <1>9, <1>10, <1>11, <1>12,
     <1>13, <1>14, <1>15, <1>16, <1>17, <1>18, <1>19, <1>20, <1>21
  DEF NetStep

\* The network thread brings no other room into play.
LEMMA NetOneRoom ==
  ASSUME TypeOK, Requests, Channel, OneRoom, NetStep
  PROVE  OneRoom'
<1> USE DEF OneRoom
<1>1. CASE HangsUp
  BY <1>1, NetFrame, HangsUpKeeps, NoStatusIsStatus
<1>2. CASE Sends
  BY <1>2, NetFrame, SendsDoes
<1>3. CASE GoOn
  BY <1>3, NetFrame, GoOnDoes
<1>4. CASE PullRequest
  <2>1. screen = "chars" \/ status_req_sync.state = "GUEST" => status_req_sync.state \notin Hosts
    BY DEF Requests, Hosts
  <2> QED BY <1>4, <2>1, NetFrame, PullRequestDoes
<1>5. CASE PullBusy
  BY <1>5, NetFrame, PullBusyDoes
<1>6. CASE PushStatus
  BY <1>6, NetFrame, PushStatusDoes
<1>7. CASE SetCompleted
  BY <1>7, NetFrame, SetCompletedDoes
<1>8. CASE Cleared
  BY <1>8, NetFrame, ClearedDoes, NoStatusIsStatus
<1>9. CASE Open
  BY <1>9, NetFrame, OpenDoes
<1>10. CASE CannotOpen
  BY <1>10, NetFrame, CannotOpenDoes
<1>11. CASE SubmitDone
  BY <1>11, NetFrame, SubmitDoneDoes
<1>12. CASE RecvNothing
  BY <1>12, NetFrame, RecvNothingDoes
<1>13. CASE RecvRoomInfo
  BY <1>13, NetFrame, RecvRoomInfoDoes
<1>14. CASE RoomGiven
  <2>1. n_req.state = "GUEST" => n_req.room # NoRoom
    BY DEF Requests
  <2> QED BY <1>14, <2>1, NetFrame, RoomGivenDoes
<1>15. CASE RecvKeyed
  BY <1>15, NetFrame, RecvKeyedDoes
<1>16. CASE HostStarts
  BY <1>16, NetFrame, HostStartsDoes
<1>17. CASE RecvPutSession
  BY <1>17, NetFrame, RecvPutSessionDoes
<1>18. CASE HeaderStored
  BY <1>18, NetFrame, HeaderStoredDoes
<1>19. CASE PutBody
  BY <1>19, NetFrame, PutBodyDoes
<1>20. CASE PutDone
  BY <1>20, NetFrame, PutDoneDoes
<1>21. CASE Knocked
  BY <1>21, NetFrame, KnockedDoes
<1> QED
  BY <1>1, <1>2, <1>3, <1>4, <1>5, <1>6, <1>7, <1>8, <1>9, <1>10, <1>11, <1>12,
     <1>13, <1>14, <1>15, <1>16, <1>17, <1>18, <1>19, <1>20, <1>21
  DEF NetStep

\* The server knocks only at an idle host without a message on its way.
LEMMA KnocksDo ==
  ASSUME TypeOK, ServerKnocks
  PROVE  /\ connection = "open" /\ control' = <<[header |-> "KNOCK_KNOCK", room |-> n_status.room]>>
         /\ control' \in Seq(Message)
         /\ \A k \in 1..Len(control') : control'[k].header = "KNOCK_KNOCK"
         /\ UNCHANGED <<gameVars, alarm_seen, npc, after, n_req, status_req_id_seen, n_status, in_progress,
                        connection, status_req_completed, status_sync, answered_sync, session>>
<1> DEFINE m == [header |-> "KNOCK_KNOCK", room |-> n_status.room]
<1>1. m \in Message
  BY DEF Message, Header, TypeOK, Status
<1>2. m.header = "KNOCK_KNOCK" /\ control' = <<m>>
  BY DEF ServerKnocks
<1>3. /\ control' \in Seq(Message)
      /\ \A k \in 1..Len(control') : control'[k].header = "KNOCK_KNOCK"
  <2> HIDE DEF m
  <2>1. <<m>> \in Seq(Message) /\ Len(<<m>>) = 1 /\ <<m>>[1] = m
    BY <1>1
  <2> QED BY <1>2, <2>1
<1> QED BY <1>2, <1>3 DEF ServerKnocks, Connected, netReqVars

LEMMA KnocksKeep ==
  ASSUME NetStatusInv, ServerKnocks
  PROVE  NetStatusInv'
<1> USE KnocksDo DEF NetStatusInv
<1>1. TypeOK'
  BY DEF TypeOK, gameVars, menuVars, requestVars
<1>2. Numbers' /\ Requests'
  BY DEF Numbers, Requests, gameVars, menuVars, requestVars
<1>3. Channel'
  BY DEF Channel, Connected
<1>4. Phases'
  BY DEF Phases, Connected, gameVars, menuVars, requestVars
<1>5. Guest' /\ Known'
  BY DEF Guest, Known, SessionAsked, Over, Connected, gameVars, menuVars, requestVars
<1>6. RoomAsked' /\ OneRoom'
  BY DEF RoomAsked, OneRoom, gameVars, menuVars, requestVars
<1> QED BY <1>1, <1>2, <1>3, <1>4, <1>5, <1>6

-----------------------------------------------------------------------------
(* The theorems.                                                           *)

LEMMA InitInv == Init => NetStatusInv
<1> SUFFICES ASSUME Init PROVE NetStatusInv
  OBVIOUS
<1> USE DEF Init
<1>1. TypeOK
  BY EmptySeq, NoStatusIsStatus DEF TypeOK, Request, State, AnyRoom, NoRequest, Place, Resumed
<1>2. Numbers /\ Requests
  BY DEF Numbers, Polling, Requests, NoRequest, Hosts
<1>3. Channel
  <2>1. Len(control) = 0
    OBVIOUS
  <2> QED BY <2>1, NoStatusIsStatus DEF Channel
<1>4. Phases /\ Guest /\ Known
  BY NoStatusIsStatus DEF Phases, Pushing, Hosts, Guest, Known
<1>5. RoomAsked /\ OneRoom
  BY NoStatusIsStatus DEF RoomAsked, OneRoom, NoRequest
<1> QED BY <1>1, <1>2, <1>3, <1>4, <1>5 DEF NetStatusInv

LEMMA NextInv == NetStatusInv /\ [Next]_vars => NetStatusInv'
<1> SUFFICES ASSUME NetStatusInv, [Next]_vars PROVE NetStatusInv'
  OBVIOUS
<1>1. CASE GameThread
  <2>1. GameStep
    BY <1>1, GameSteps DEF NetStatusInv
  <2> QED BY <2>1, GameTypes, GameNumbers, GameRequests, GameChannel, GamePhases, GameGuest, GameKnown,
             GameRoomAsked, GameOneRoom DEF NetStatusInv
<1>2. CASE NetworkThread
  <2>1. NetStep
    BY <1>2, NetSteps DEF NetStatusInv
  <2> QED BY <2>1, NetTypes, NetNumbers, NetRequests, NetChannel, NetPhases, NetGuest, NetKnown,
             NetRoomAsked, NetOneRoom DEF NetStatusInv
<1>3. CASE ServerKnocks
  BY <1>3, KnocksKeep
<1>4. CASE UNCHANGED vars
  <2> USE <1>4 DEF NetStatusInv, vars, gameVars, netVars, menuVars, requestVars, netReqVars, linkVars
  <2>1. TypeOK' /\ Numbers' /\ Requests'
    BY DEF TypeOK, Numbers, Requests
  <2>2. Channel' /\ Phases'
    BY DEF Channel, Awaited, Phases, Connected
  <2>3. Guest' /\ Known'
    BY DEF Guest, Known, SessionAsked, Over, Connected
  <2>4. RoomAsked' /\ OneRoom'
    BY DEF RoomAsked, OneRoom
  <2> QED BY <2>1, <2>2, <2>3, <2>4
<1> QED BY <1>1, <1>2, <1>3, <1>4 DEF Next

\* Every variable keeps its type, whatever the server, the player and the network do.
THEOREM TypeCorrect == Spec => []TypeOK
<1>1. NetStatusInv => TypeOK
  BY DEF NetStatusInv
<1> QED BY <1>1, InitInv, NextInv, PTL DEF Spec

\* GameThread::status_req_completed never takes an older status for the answer to
\* the last request: for any number of requests, however the two threads interleave.
THEOREM RepliesAreFresh == Spec => []ReplyIsFresh
<1>1. NetStatusInv => ReplyIsFresh
  BY DEF NetStatusInv, Numbers, ReplyIsFresh
<1> QED BY <1>1, InitInv, NextInv, PTL DEF Spec

\* A guest's episode starts only on the whole session of the room it asked for,
\* whatever else the server sends and whenever connections break.
THEOREM GuestsHaveSessions == Spec => GuestHasSession
<1>1. NetStatusInv /\ [Next]_vars =>
        [~InSession /\ started' = "guest" => session.whole /\ session.room = g_req.room]_vars
  <2> SUFFICES ASSUME NetStatusInv, Next, ~InSession, started' = "guest"
               PROVE  session.whole /\ session.room = g_req.room
    OBVIOUS
  <2>1. started # "guest"
    BY DEF NetStatusInv, Requests, InSession
  <2>2. CASE GameThread
    <3>1. React
      BY <2>1, <2>2 DEF GameThread, Poll, ConfigChanged, GetClientStatus, CompleteRequest, PullCompleted,
         CompareAlarm, RoomFound, EnterRoom, RequestFillRoomInfo, JoinRoom, LeaveChars, StartEpisode, Tick,
         EndSession, menuVars
    <3>2. cpc = "react" /\ g_status'.state = "GUEST" /\ (g_status' = g_status \/ g_status' = status_sync)
      BY <2>1, <3>1 DEF React, Pull, replyVars, menuVars
    <3>3. answered = status_req_id /\ answered_sync = status_req_id
      BY <3>2 DEF NetStatusInv, Numbers, Polling
    <3> QED BY <3>2, <3>3 DEF NetStatusInv, Known, SessionAsked
  <2>3. CASE NetworkThread
    <3>1. NetStep
      BY <2>3, NetSteps DEF NetStatusInv
    <3> QED BY <2>1, <3>1, NetFrame
  <2>4. CASE ServerKnocks
    BY <2>1, <2>4, KnocksDo DEF NetStatusInv, gameVars, menuVars
  <2> QED BY <2>2, <2>3, <2>4 DEF Next
<1>2. Spec => [][~InSession /\ started' = "guest" => session.whole /\ session.room = g_req.room]_vars
  BY <1>1, InitInv, NextInv, PTL DEF Spec
<1> QED BY <1>2 DEF GuestHasSession
=============================================================================
