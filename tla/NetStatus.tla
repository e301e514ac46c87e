----------------------------- MODULE NetStatus -----------------------------
(***************************************************************************)
(* The control plane of NetPlay: how the game thread asks the network      *)
(* thread for a connection, a room or a session, and how it learns what    *)
(* has become of the request.                                              *)
(*                                                                         *)
(* A request is copied to status_req_sync under status_req_sync_lock and   *)
(* gets a number; a status is copied to status_sync under status_sync_lock *)
(* and rings the alarm; status_req_completed is an atomic.  No two of them *)
(* are written together, so each is a step of its own here.                *)
(*                                                                         *)
(* There is one server address.  status_alarm_id and the game's            *)
(* status_alarm_id_seen are only compared with each other, so only whether *)
(* they differ is kept (alarm_seen).  The sockets to the server are        *)
(* connected or not; what the server answers waits in `control`.           *)
(***************************************************************************)
EXTENDS Naturals, Sequences

CONSTANTS
  Rooms,         \* room keys
  NoRoom,        \* room key 0
  MaxRequests,   \* bound: requests the game makes
  MaxFaults      \* bound: connections that break or cannot be made

ASSUME RoomsAssumption   == NoRoom \notin Rooms
ASSUME BoundsAssumption  == MaxRequests \in Nat /\ MaxFaults \in Nat

VARIABLES
  \* game thread
  screen,           \* "select", "entry" (of a room key), "chars", "play"
  started,          \* ghost: was the episode started as a "guest" or as one's "own"?
  cpc,              \* where CompleteRequest and what follows it are
  g_req, g_status,  \* s_game_thread.status_req, status
  status_req_reply_seen, alarm_seen,
  \* shared
  status_req_sync, status_req_id, status_req_completed, status_sync,
  session,          \* what g_session was filled with: [room, whole]
  \* network thread
  npc,              \* where client_loop is
  after,            \* what follows the push_status under way: [complete, next]
  n_req, n_status,  \* status_req, status
  status_req_id_seen, in_progress,
  connection,       \* "open" or "closed"
  control,          \* what the server has sent on the control channel
  faults,           \* connections broken or refused so far
  neglected,        \* ghost: has the server left something without its answer?
  \* ghosts: the last request whose completion is in status_sync, in g_status
  answered_sync, answered

menuVars    == <<screen, started>>
replyVars   == <<g_status, alarm_seen, answered>>
requestVars == <<g_req, status_req_sync, status_req_id>>
netReqVars  == <<n_req, status_req_id_seen>>
linkVars    == <<connection, control, faults, neglected>>
netVars     == <<npc, after, netReqVars, n_status, in_progress, linkVars,
                 status_req_completed, status_sync, answered_sync, session>>
gameVars    == <<menuVars, cpc, requestVars, status_req_reply_seen, g_status, answered>>
vars        == <<gameVars, alarm_seen, netVars>>

State  == {"OFF", "SESSION_CONFIG", "LOBBY", "HOST_IDLE", "HOST", "GUEST"}
Active == {"HOST", "GUEST"}                \* from CLIENT_MIN_ACTIVE_STATE on
AnyRoom == Rooms \cup {NoRoom}

Request == [state : State, room : AnyRoom]
Status  == [state : State, room : AnyRoom, knock : BOOLEAN]
NoRequest == [state |-> "OFF", room |-> NoRoom]
NoStatus  == [state |-> "OFF", room |-> NoRoom, knock |-> FALSE]

Header == {"ROOM_INFO", "ROOM_KEY", "GET_SESSION", "PUT_SESSION", "KNOCK_KNOCK"}

-----------------------------------------------------------------------------
(* The game thread.                                                        *)

InSession == screen = "play"

\* GameThread::push_status_req.
Push(request) ==
  /\ status_req_id < MaxRequests
  /\ g_req' = request
  /\ status_req_sync' = request
  /\ status_req_id' = status_req_id + 1

\* SyncReqStatus, given whether a session is active.  netplay_enable may be off,
\* and an episode without a hash cannot be hosted.
SyncRequest(active) ==
  IF g_req.state = "GUEST" /\ active
  THEN UNCHANGED requestVars
  ELSE \/ Push(NoRequest)
       \/ Push([state |-> "LOBBY", room |-> NoRoom])
       \/ /\ active
          /\ Push([state |-> IF g_req.state = "HOST" THEN "HOST" ELSE "HOST_IDLE",
                   room  |-> NoRoom])

\* The player changes a setting, and its hook brings the request up to date.
ConfigChanged ==
  /\ cpc = "idle"
  /\ SyncRequest(InSession)
  /\ UNCHANGED <<menuVars, cpc, status_req_reply_seen, replyVars, netVars>>

\* GameThread::pull_status: the try-lock may fail.
Pull ==
  \/ UNCHANGED replyVars
  \/ /\ ~alarm_seen
     /\ g_status' = status_sync
     /\ answered' = answered_sync
     /\ alarm_seen' = TRUE

\* GetClientStatus is called all over the game loop.
GetClientStatus ==
  /\ cpc = "idle"
  /\ Pull
  /\ UNCHANGED <<menuVars, cpc, requestVars, status_req_reply_seen, netVars>>

\* GameThread::status_req_completed, which the menu polls: compare the two
\* numbers, pull the status, and make sure that nothing is newer.
CompleteRequest ==
  /\ cpc = "idle" /\ screen \in {"select", "chars"}
  /\ status_req_reply_seen # status_req_id
  /\ status_req_completed = status_req_id
  /\ cpc' = "pull"
  /\ UNCHANGED <<menuVars, requestVars, status_req_reply_seen, replyVars, netVars>>

PullCompleted ==
  /\ cpc = "pull"
  /\ Pull
  /\ cpc' = "compare"
  /\ UNCHANGED <<menuVars, requestVars, status_req_reply_seen, netVars>>

StaleIsFine == TRUE                     \* mutant: the second comparison is missing
NotStale    == alarm_seen

CompareAlarm ==
  /\ cpc = "compare"
  /\ \/ /\ NotStale
        /\ status_req_reply_seen' = status_req_id
        /\ cpc' = "react"
     \/ /\ ~NotStale
        /\ cpc' = "idle"
        /\ UNCHANGED status_req_reply_seen
  /\ UNCHANGED <<menuVars, requestVars, replyVars, netVars>>

\* The menu reacts to the status, which it pulls once more: a guest starts the
\* episode (Client_InitSession, SyncReqStatus), in the lobby a room may do.
React ==
  /\ cpc = "react"
  /\ Pull
  /\ \/ /\ g_status'.state = "GUEST"
        /\ screen' = "play" /\ started' = "guest" /\ cpc' = "idle"
        /\ SyncRequest(TRUE)
     \/ /\ g_status'.state = "LOBBY" /\ g_status'.room # NoRoom /\ screen = "select"
        /\ cpc' = "info"
        /\ UNCHANGED <<menuVars, requestVars>>
     \/ /\ g_status'.state # "GUEST"
        /\ ~(g_status'.state = "LOBBY" /\ g_status'.room # NoRoom /\ screen = "select")
        /\ cpc' = "idle"
        /\ UNCHANGED <<menuVars, requestVars>>
  /\ UNCHANGED <<status_req_reply_seen, netVars>>

\* The room must run this engine and an episode that is at hand.
RoomFound ==
  /\ cpc = "info"
  /\ Pull
  /\ cpc' = "idle"
  /\ \/ g_status'.room # NoRoom /\ screen' = "chars"
     \/ UNCHANGED screen
  /\ UNCHANGED <<started, requestVars, status_req_reply_seen, netVars>>

\* "Join Room" in the episode list leads to the entry of a room key.
EnterRoom ==
  /\ screen = "select" /\ cpc = "idle"
  /\ g_status.state = "LOBBY"
  /\ screen' = "entry"
  /\ UNCHANGED <<started, cpc, requestVars, status_req_reply_seen, replyVars, netVars>>

\* RequestFillRoomInfo, unless the entry is no room key.
RequestFillRoomInfo ==
  /\ screen = "entry" /\ cpc = "idle"
  /\ screen' = "select"
  /\ \/ \E r \in Rooms : Push([state |-> "LOBBY", room |-> r])
     \/ UNCHANGED requestVars
  /\ UNCHANGED <<started, cpc, status_req_reply_seen, replyVars, netVars>>

\* JoinRoom, when the characters are chosen; going back asks for nothing.
JoinRoom ==
  /\ screen = "chars" /\ cpc = "idle"
  /\ Pull
  /\ g_status'.room # NoRoom
  /\ Push([state |-> "GUEST", room |-> g_status'.room])
  /\ UNCHANGED <<menuVars, cpc, status_req_reply_seen, netVars>>

LeaveChars ==
  /\ screen = "chars" /\ cpc = "idle"
  /\ screen' = "select"
  /\ UNCHANGED <<started, cpc, requestVars, status_req_reply_seen, replyVars, netVars>>

\* The player starts an episode of his own.
StartEpisode ==
  /\ screen = "select" /\ cpc = "idle"
  /\ screen' = "play" /\ started' = "own"
  /\ SyncRequest(TRUE)
  /\ UNCHANGED <<cpc, status_req_reply_seen, replyVars, netVars>>

\* XMessage::Tick and ClientFrameSync: a knock makes the idle host active, a
\* lost connection withdraws the request.
Tick ==
  /\ InSession /\ cpc = "idle"
  /\ Pull
  /\ \/ /\ g_status'.state = "HOST_IDLE" /\ g_status'.knock /\ g_req.state = "HOST_IDLE"
        /\ Push([g_req EXCEPT !.state = "HOST"])
     \/ /\ g_req.state \in Active /\ g_status'.state = "OFF"
        /\ Push(NoRequest)
  /\ UNCHANGED <<menuVars, cpc, status_req_reply_seen, netVars>>

EndSession ==
  /\ InSession /\ cpc = "idle"
  /\ screen' = "select" /\ started' = "none"
  /\ SyncRequest(FALSE)
  /\ UNCHANGED <<cpc, status_req_reply_seen, replyVars, netVars>>

Poll == CompleteRequest \/ PullCompleted \/ CompareAlarm \/ React \/ RoomFound

GameThread == ConfigChanged \/ GetClientStatus \/ Poll \/ EnterRoom \/ RequestFillRoomInfo
                \/ JoinRoom \/ LeaveChars \/ StartEpisode \/ Tick \/ EndSession

-----------------------------------------------------------------------------
(* The network thread.                                                     *)

Connected == connection = "open"

\* push_status, or push_completed_request, and where client_loop goes on.
Publish(complete, next) ==
  /\ npc' = IF complete THEN "push completed" ELSE "push"
  /\ after' = next

\* NetworkClient::Disconnect.
Disconnect(next) ==
  /\ connection' = "closed" /\ control' = <<>>
  /\ n_status' = NoStatus
  /\ Publish(in_progress # "idle", next)

\* The server answers what it is sent, or does not, or not what was asked.
Answer(answer, asked) ==
  \/ /\ control' = Append(control, answer)
     /\ neglected' = (neglected \/ ~asked)
  \/ UNCHANGED control /\ neglected' = TRUE

Send(answer) == Answer(answer, TRUE)

Await == in_progress' = "pending" /\ npc' = "top" /\ UNCHANGED after

PushStatus ==
  /\ npc \in {"push", "push completed"}
  /\ status_sync' = n_status
  /\ alarm_seen' = FALSE
  /\ \/ /\ npc = "push"
        /\ npc' = after
        /\ UNCHANGED answered_sync
     \/ /\ npc = "push completed"
        /\ npc' = "complete"
        /\ answered_sync' = status_req_id_seen
  /\ UNCHANGED <<gameVars, after, netReqVars, n_status, in_progress, linkVars,
                 status_req_completed, session>>

ServedRequest == status_req_id_seen

SetCompleted ==
  /\ npc = "complete"
  /\ status_req_completed' = ServedRequest
  /\ in_progress' = "idle"
  /\ npc' = after
  /\ UNCHANGED <<gameVars, alarm_seen, after, netReqVars, n_status, linkVars,
                 status_sync, answered_sync, session>>

\* The top of client_loop: hang up on a socket error.
HangUp ==
  /\ npc = "top" /\ Connected /\ faults < MaxFaults
  /\ faults' = faults + 1
  /\ Disconnect("pull")
  /\ UNCHANGED <<gameVars, alarm_seen, netReqVars, in_progress, neglected, status_req_completed,
                 status_sync, answered_sync, session>>

GoOn ==
  /\ npc = "top"
  /\ npc' = "pull"
  /\ UNCHANGED <<gameVars, alarm_seen, after, netReqVars, n_status, in_progress, linkVars,
                 status_req_completed, status_sync, answered_sync, session>>

\* pull_status_req: only a request to disconnect interrupts another one.
OnlyWhenIdle == in_progress = "idle"    \* mutant: nothing interrupts a request
MayInterrupt == in_progress = "idle" \/ status_req_sync.state = "OFF"

PullRequest ==
  /\ npc = "pull"
  /\ IF status_req_id # status_req_id_seen /\ MayInterrupt
     THEN /\ n_req' = status_req_sync
          /\ status_req_id_seen' = status_req_id
          /\ in_progress' = "submit"
     ELSE UNCHANGED <<netReqVars, in_progress>>
  /\ npc' = IF in_progress' = "submit" THEN "submit" ELSE "recv"
  /\ UNCHANGED <<gameVars, alarm_seen, after, n_status, linkVars, status_req_completed,
                 status_sync, answered_sync, session>>

\* The try-lock fails: the game is just pushing a request or stepping a frame.
PullBusy ==
  /\ npc = "pull" /\ status_req_id # status_req_id_seen
  /\ npc' = "recv"
  /\ UNCHANGED <<gameVars, alarm_seen, after, netReqVars, n_status, in_progress, linkVars,
                 status_req_completed, status_sync, answered_sync, session>>

Submitting == npc = "submit"

\* What a step of the request section leaves alone.
KeepSubmit == UNCHANGED <<gameVars, alarm_seen, netReqVars, status_req_completed,
                          status_sync, answered_sync, session>>

SubmitOff ==
  /\ Submitting /\ n_req.state = "OFF"
  /\ Disconnect("cleared")
  /\ UNCHANGED <<in_progress, faults, neglected>> /\ KeepSubmit

\* Not connected: the status is cleared, the request is over.
Cleared ==
  /\ npc = "cleared"
  /\ n_status' = NoStatus
  /\ Publish(TRUE, "top")
  /\ UNCHANGED <<in_progress, linkVars>> /\ KeepSubmit

\* NetworkClient::Connect disconnects first.
Connect ==
  /\ \/ Submitting /\ n_req.state # "OFF" /\ ~Connected /\ Disconnect("open")
     \/ npc = "connect" /\ Disconnect("reopen")
  /\ UNCHANGED <<in_progress, faults, neglected>> /\ KeepSubmit

Open ==
  /\ npc \in {"open", "reopen"}
  /\ connection' = "open"
  /\ n_status' = [NoStatus EXCEPT !.state = "LOBBY"]
  /\ Publish(FALSE, IF npc = "open" THEN "submit" ELSE "top")
  /\ UNCHANGED <<in_progress, control, faults, neglected>> /\ KeepSubmit

CannotOpen ==
  /\ npc \in {"open", "reopen"} /\ faults < MaxFaults
  /\ faults' = faults + 1
  /\ npc' = IF npc = "open" THEN "cleared" ELSE "top"
  /\ UNCHANGED <<after, n_status, in_progress, connection, control, neglected>> /\ KeepSubmit

\* The request asks for another state: one that is not reached from here
\* needs a new connection.  (Nothing would be sent from SESSION_CONFIG to LOBBY,
\* but a client in SESSION_CONFIG has a pending request for GUEST.)
Submit == Submitting /\ Connected /\ n_req.state # "OFF"
Change == Submit /\ n_req.state # n_status.state
Reachable ==
  \/ n_status.state \in {"LOBBY", "SESSION_CONFIG"}
  \/ n_status.state = "HOST_IDLE" /\ n_req.state = "HOST"

SubmitUnreachable ==
  /\ Change /\ ~Reachable
  /\ Disconnect(IF n_req.state = "LOBBY" THEN "connect" ELSE "top")
  /\ UNCHANGED <<in_progress, faults, neglected>> /\ KeepSubmit

SubmitGetSession ==
  /\ Change /\ n_req.state = "GUEST" /\ n_status.state = "SESSION_CONFIG"
  /\ Send([header |-> "PUT_SESSION", room |-> n_status.room])
  /\ Await
  /\ UNCHANGED <<n_status, connection, faults>> /\ KeepSubmit

\* get_session_access: the game must still want it.
SessionAccess == n_req.state \in Active /\ status_req_sync.state \in Active

SubmitPutSession ==
  /\ Change /\ n_req.state = "HOST" /\ n_status.state = "HOST_IDLE"
  /\ \/ /\ SessionAccess
        /\ Send([header |-> "GET_SESSION", room |-> n_status.room])
        /\ Await
        /\ UNCHANGED <<n_status, connection>>
     \/ /\ ~SessionAccess
        /\ Disconnect("top")
        /\ UNCHANGED <<in_progress, neglected>>
  /\ UNCHANGED faults /\ KeepSubmit

SubmitJoinRoom ==
  /\ Change /\ n_req.state = "GUEST" /\ n_status.state = "LOBBY"
  /\ \E r \in {n_req.room} \cup Rooms :
       Answer([header |-> "ROOM_KEY", room |-> r], r = n_req.room)
  /\ Await
  /\ UNCHANGED <<n_status, connection, faults>> /\ KeepSubmit

SubmitCreateRoom ==
  /\ Change /\ n_req.state \in {"HOST", "HOST_IDLE"}
  /\ n_status.state \in {"LOBBY", "SESSION_CONFIG"}
  /\ \E r \in Rooms : Send([header |-> "ROOM_KEY", room |-> r])
  /\ Await
  /\ UNCHANGED <<n_status, connection, faults>> /\ KeepSubmit

SubmitRoomInfo ==
  /\ Submit /\ n_req.state = n_status.state
  /\ n_req.state = "LOBBY" /\ n_req.room # n_status.room
  /\ Send([header |-> "ROOM_INFO", room |-> n_req.room])
  /\ Await
  /\ UNCHANGED <<n_status, connection, faults>> /\ KeepSubmit

SubmitDone ==
  /\ Submit /\ n_req.state = n_status.state
  /\ ~(n_req.state = "LOBBY" /\ n_req.room # n_status.room)
  /\ Publish(TRUE, "top")
  /\ UNCHANGED <<n_status, in_progress, linkVars>> /\ KeepSubmit

SubmitSection ==
  \/ SubmitOff \/ Cleared \/ Connect \/ Open \/ CannotOpen \/ SubmitUnreachable
  \/ SubmitGetSession \/ SubmitPutSession \/ SubmitJoinRoom \/ SubmitCreateRoom
  \/ SubmitRoomInfo \/ SubmitDone

\* The control channel.  The handlers that only concern a running session are
\* in NetFrames.
Waiting == in_progress = "pending"

KeepRecv == UNCHANGED <<gameVars, alarm_seen, netReqVars, faults, neglected, status_req_completed,
                        status_sync, answered_sync>>

RecvNothing ==
  /\ npc = "recv"
  /\ npc' = "top"
  /\ UNCHANGED <<after, n_status, in_progress, connection, control, session>> /\ KeepRecv

Receive(header) == npc = "recv" /\ control # <<>> /\ Head(control).header = header

RecvRoomInfo ==
  /\ Receive("ROOM_INFO")
  /\ control' = Tail(control)
  /\ \/ /\ Waiting /\ Head(control).room = n_req.room
        /\ n_status' = [n_status EXCEPT !.room = n_req.room]
        /\ Publish(TRUE, "top")
     \/ /\ ~(Waiting /\ Head(control).room = n_req.room)
        /\ npc' = "top"
        /\ UNCHANGED <<after, n_status>>
  /\ UNCHANGED <<in_progress, connection, session>> /\ KeepRecv

\* A server that puts the client in another room is hung up on; the rest of
\* the handler runs nevertheless, sending to a socket that is gone.
RecvRoomKey ==
  /\ Receive("ROOM_KEY")
  /\ \/ /\ n_req.room # NoRoom /\ Head(control).room # n_req.room
        /\ Disconnect("keyed")
     \/ /\ n_req.room = NoRoom \/ Head(control).room = n_req.room
        /\ n_status' = [n_status EXCEPT !.room = Head(control).room]
        /\ control' = Tail(control)
        /\ npc' = "keyed"
        /\ UNCHANGED <<after, connection>>
  /\ UNCHANGED <<in_progress, session>> /\ KeepRecv

NotResubmitted == in_progress           \* mutant: the session is never asked for
Resubmitted    == IF Waiting THEN "submit" ELSE in_progress

RecvKeyed ==
  /\ npc = "keyed"
  /\ n_status' = [n_status EXCEPT !.state =
                    IF n_req.state \in {"HOST", "HOST_IDLE"} THEN "HOST_IDLE" ELSE "SESSION_CONFIG"]
  /\ \/ /\ n_req.state = "HOST_IDLE"
        /\ Publish(TRUE, "top")
        /\ UNCHANGED in_progress
     \/ /\ n_req.state # "HOST_IDLE"
        /\ in_progress' = Resubmitted
        /\ npc' = "top"
        /\ UNCHANGED after
  /\ UNCHANGED <<connection, control, session>> /\ KeepRecv

RecvGetSession ==
  /\ Receive("GET_SESSION")
  /\ \/ /\ Waiting /\ n_status.state \in {"SESSION_CONFIG", "HOST_IDLE"}
        /\ n_status' = [n_status EXCEPT !.state = "HOST"]
        /\ control' = Tail(control)
        /\ Publish(TRUE, "top")
        /\ UNCHANGED connection
     \/ /\ ~(Waiting /\ n_status.state \in {"SESSION_CONFIG", "HOST_IDLE"})
        /\ Disconnect("top")
  /\ UNCHANGED <<in_progress, session>> /\ KeepRecv

\* HEADER_PUT_SESSION: its size is read.  Then the thread waits for ten bytes
\* more, for as long as it takes the server to send them or the connection to break.
RecvPutSession ==
  /\ Receive("PUT_SESSION")
  /\ npc' = "put"
  /\ control' = Tail(control)
  /\ UNCHANGED <<after, n_status, in_progress, connection, session>> /\ KeepRecv

\* ... the seed, the characters and the configuration are stored under the lock
PutHeader ==
  /\ npc = "put"
  /\ \/ /\ Waiting /\ n_status.state = "SESSION_CONFIG"
        /\ \/ /\ SessionAccess
              /\ session' = [room |-> n_status.room, whole |-> FALSE]
              /\ npc' = "body"
              /\ UNCHANGED <<after, n_status, connection, control>>
           \/ /\ ~SessionAccess
              /\ Disconnect("guest")
              /\ UNCHANGED session
     \/ /\ ~(Waiting /\ n_status.state = "SESSION_CONFIG")
        /\ Disconnect("top")
        /\ UNCHANGED session
  /\ UNCHANGED in_progress /\ KeepRecv

\* ... and the saved game without it, again for as long as it takes.
PutBody ==
  /\ npc = "body"
  /\ session' = [session EXCEPT !.whole = TRUE]
  /\ npc' = "guest"
  /\ UNCHANGED <<after, n_status, in_progress, connection, control>> /\ KeepRecv

AfterBrokenGuest == "guest"             \* mutant: session_size == 0 is not tested
AfterBroken      == "top"

PutBroken ==
  /\ npc \in {"put", "body"} /\ faults < MaxFaults
  /\ faults' = faults + 1
  /\ Disconnect(AfterBroken)
  /\ UNCHANGED <<gameVars, alarm_seen, netReqVars, in_progress, neglected, status_req_completed,
                 status_sync, answered_sync, session>>

PutDone ==
  /\ npc = "guest"
  /\ n_status' = [n_status EXCEPT !.state = "GUEST"]
  /\ Publish(TRUE, "top")
  /\ UNCHANGED <<in_progress, connection, control, session>> /\ KeepRecv

RecvKnockKnock ==
  /\ Receive("KNOCK_KNOCK")
  /\ \/ /\ n_status.state = "HOST_IDLE"
        /\ n_status' = [n_status EXCEPT !.knock = TRUE]
        /\ control' = Tail(control)
        /\ Publish(FALSE, "top")
        /\ UNCHANGED connection
     \/ /\ n_status.state # "HOST_IDLE"
        /\ Disconnect("top")
  /\ UNCHANGED <<in_progress, session>> /\ KeepRecv

ReceiveSection ==
  \/ RecvNothing \/ RecvRoomInfo \/ RecvRoomKey \/ RecvKeyed \/ RecvGetSession
  \/ RecvPutSession \/ PutHeader \/ PutBody \/ PutBroken \/ PutDone \/ RecvKnockKnock

NetworkThread == HangUp \/ GoOn \/ PullRequest \/ PullBusy \/ SubmitSection \/ ReceiveSection
                   \/ PushStatus \/ SetCompleted

\* The server lets somebody else knock at the room of an idle host.
ServerKnocks ==
  /\ Connected /\ n_status.state = "HOST_IDLE" /\ ~n_status.knock /\ control = <<>>
  /\ control' = <<[header |-> "KNOCK_KNOCK", room |-> n_status.room]>>
  /\ UNCHANGED <<gameVars, alarm_seen, npc, after, netReqVars, n_status, in_progress,
                 connection, faults, neglected, status_req_completed, status_sync, answered_sync, session>>

-----------------------------------------------------------------------------
Init ==
  /\ screen = "select" /\ started = "none" /\ cpc = "idle"
  /\ g_req = NoRequest /\ g_status = NoStatus
  /\ status_req_reply_seen = 0 /\ alarm_seen = TRUE
  /\ status_req_sync = NoRequest /\ status_req_id = 0 /\ status_req_completed = 0
  /\ status_sync = NoStatus /\ session = [room |-> NoRoom, whole |-> FALSE]
  /\ npc = "top" /\ after = "top"
  /\ n_req = NoRequest /\ n_status = NoStatus /\ status_req_id_seen = 0
  /\ in_progress = "idle" /\ connection = "closed" /\ control = <<>> /\ faults = 0
  /\ neglected = FALSE
  /\ answered_sync = 0 /\ answered = 0

Next == GameThread \/ NetworkThread \/ ServerKnocks

Spec == Init /\ [][Next]_vars

\* The network thread keeps turning, except where it waits for the rest of a
\* session (FillBufferTo): only the server, or a connection that breaks, ends
\* that, and neither has to.  What has arrived is read some time, and the game
\* does not hold the lock at every try.
Reading == npc \in {"put", "body"}
Turns   == ~Reading /\ NetworkThread
Handle  == RecvRoomInfo \/ RecvRoomKey \/ RecvGetSession \/ RecvPutSession \/ RecvKnockKnock

FairSpec == Spec /\ WF_vars(Turns) /\ SF_vars(Handle) /\ SF_vars(PullRequest)

-----------------------------------------------------------------------------
(* Properties.                                                             *)

\* A request that the game takes for completed has left its mark in the status
\* the game has by then: status_req_completed never runs ahead of it.
ReplyIsFresh == status_req_reply_seen <= answered

\* When CompleteRequest makes the menu start a guest's episode, g_session holds
\* the whole session, and it is that of the room JoinRoom asked for.
GuestHasSession ==
  [][~InSession /\ started' = "guest" => session.whole /\ session.room = g_req.room]_vars

\* The network thread is not left in the middle of a session for ever.
ReadsReturn == []<>~Reading

\* Whoever withdraws from NetPlay is disconnected, whatever was under way and
\* whether or not the server ever answers -- unless it has sent the beginning of
\* a session and holds back the rest, for that read does not look for a cancel.
WithdrawalHonoured ==
  ReadsReturn =>
    ((status_req_sync.state = "OFF") ~> (status_req_sync.state # "OFF" \/ ~Connected))

\* As long as the server answers, and what it begins to send it sends to the end,
\* every request is reported completed, unless a later one takes its place.
RequestAnswered ==
  ReadsReturn =>
    \A k \in 1..MaxRequests :
      (status_req_id = k) ~> (neglected \/ status_req_completed >= k \/ status_req_id > k)
=============================================================================
