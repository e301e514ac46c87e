----------------------------- MODULE NetFrames -----------------------------
(***************************************************************************)
(* The data plane of one NetPlay session: how the frames a server has      *)
(* closed reach the game thread of a client, and how the player's inputs   *)
(* reach the server.                                                       *)
(*                                                                         *)
(* The game thread runs XMessage::ClientFrameSync once per game frame.     *)
(* The network thread runs NetworkClient::client_loop for ever; one turn   *)
(* is SyncData, at most one control message, and ReceiveData.  They share  *)
(* g_session, which is only touched under status_req_sync_lock: a critical *)
(* section is one atomic step here.  The semaphores client_wakeup and      *)
(* game_wakeup are waited for with a timeout and only shorten a poll, so   *)
(* they are left out.                                                      *)
(*                                                                         *)
(* A batch stands for a frame_begin message and the messages after it; it  *)
(* is named by its frame number.  A batch has two parts (the frame_begin,  *)
(* and its messages), because a TCP stream may stop between them.  What a  *)
(* frame holds is fixed when the server closes it, so a transmission is a  *)
(* slice [start, end] of the server's log: transmit_start, the busy frames *)
(* of start..end, frame_end.  Player input is named by the game frame that *)
(* submitted it.                                                           *)
(***************************************************************************)
EXTENDS Integers, Sequences, FiniteSets, Functions

CONSTANTS
  MaxFrame,        \* bound: the last frame that server and game reach
  BusyFrames,      \* the frames that may hold messages
  InputFrames,     \* the game frames in which the player may press something
  MtuBatches,      \* MTU_size, as a number of batches
  FastForwardGap,  \* the 10 of SyncData's fast_forward test
  MaxUdpDown,      \* bound: datagrams under way to the client
  MaxUdpUp,        \* bound: datagrams under way to the server
  MaxTcpDown,      \* bound: transmissions under way on the stream to the client
  MaxTcpUp,        \* bound: transmissions under way on the stream to the server
  MaxControl,      \* bound: control messages under way
  Pipelined        \* may the server start a datagram past the reported frame?

ASSUME MaxFrameAssumption   == MaxFrame \in Nat
ASSUME FramesAssumption     == /\ BusyFrames \subseteq 1..MaxFrame
                               /\ InputFrames \subseteq 1..MaxFrame
ASSUME ThresholdAssumption  == MtuBatches \in Nat /\ FastForwardGap \in Nat
ASSUME BoundAssumption      == {MaxUdpDown, MaxUdpUp, MaxTcpDown, MaxTcpUp, MaxControl} \subseteq Nat
ASSUME PipelinedAssumption  == Pipelined \in BOOLEAN

VARIABLES
  \* game thread
  gpc,                    \* "menu", "run" between frames, "wait", "local"
  applied_at,             \* ghost: the game frame that ran history[i]
  \* g_session
  current_frame, available_frame, remote_frame,
  history, next_message, submit_buffer,
  \* network thread
  npc,                    \* "sync", "control", "recv"
  was_waiting,            \* is_waiting of the turn's ReceiveData
  t_current, t_available, t_remote, new_history,       \* temp_state
  tcp_frame_index, tcp_frame_in_progress,              \* receive_buffer
  send_buffer, acked_frame, udp_packet_recd,
  connection,             \* "open", or "closed" (status is CLIENT_OFF)
  \* the network
  udp_down, tcp_down, tcp_pos, tcp_part, control_down, udp_up, tcp_up,
  \* the server
  server_frame, busy, server_seen, server_got,
  \* ghosts
  inputs,                 \* every input handed to g_session.submit_buffer
  overtaken               \* did a datagram leave while input was under way on TCP?

gameVars    == <<gpc, applied_at, next_message>>
sessionVars == <<available_frame, remote_frame, history>>
tempVars    == <<t_current, t_available, t_remote, new_history>>
recvVars    == <<tcp_frame_index, tcp_frame_in_progress>>
sendVars    == <<send_buffer, udp_up, tcp_up, overtaken>>
downVars    == <<udp_down, tcp_down, tcp_pos, tcp_part, control_down>>
serverVars  == <<server_frame, busy, server_seen, server_got>>
inputVars   == <<submit_buffer, inputs>>
loopVars    == <<npc, was_waiting>>

vars == <<gameVars, current_frame, sessionVars, inputVars, loopVars, tempVars,
          recvVars, sendVars, acked_frame, udp_packet_recd, connection,
          downVars, serverVars>>

Frame  == 1..MaxFrame
Batch  == [frame : Frame, parts : 0..2]
Slice  == [start : 0..(MaxFrame + 1), end : 0..MaxFrame]
Input  == [frame : Frame, inputs : Seq(Frame)]
Transmission == [batches : Seq(Input), end : 0..MaxFrame]

\* Are the sockets open; does the stream bring messages next, or a frame_begin?
Connected    == connection = "open"
Disconnected == connection = "closed"
MidFrame     == tcp_part = "messages"

Larger(a, b) == IF a > b THEN a ELSE b

\* The first n batches are those that go up to the frame: a loop over the
\* batches stops at the first frame_begin that names a later one.
UpTo(batches, frame, n) ==
  /\ n \in 0..Len(batches)
  /\ \A i \in 1..n : batches[i].frame <= frame
  /\ n < Len(batches) => batches[n + 1].frame > frame

\* The frames of a set in the order of the log.
InOrder(S) == {s \in [1..Cardinality(S) -> S] :
                 Range(s) = S /\ \A i, j \in DOMAIN s : i < j => s[i] < s[j]}

-----------------------------------------------------------------------------
(* The server.  It lies outside the repository: what it sends, and what it *)
(* does with what it gets, is read off the client code that talks to it.   *)

\* The server closes a frame, with or without messages in it.
ServerTick ==
  /\ server_frame < MaxFrame
  /\ server_frame' = server_frame + 1
  /\ \/ UNCHANGED busy
     \/ server_frame' \in BusyFrames /\ busy' = busy \cup {server_frame'}
  /\ UNCHANGED <<gameVars, current_frame, sessionVars, inputVars, loopVars,
                 tempVars, recvVars, sendVars, acked_frame, udp_packet_recd,
                 connection, downVars, server_seen, server_got>>

\* A datagram names the frame it starts from, which acknowledges the input
\* up to there, and closes with frame_end.
ServerSendUdp ==
  /\ Connected
  /\ Cardinality(udp_down) < MaxUdpDown
  /\ \E s \in IF Pipelined THEN server_seen..(server_frame + 1) ELSE {server_seen} :
     \E e \in {server_frame} \cup (s..server_frame) :
       udp_down' = udp_down \cup {[start |-> s, end |-> e]}
  /\ UNCHANGED <<gameVars, current_frame, sessionVars, inputVars, loopVars,
                 tempVars, recvVars, sendVars, acked_frame, udp_packet_recd,
                 connection, tcp_down, tcp_pos, tcp_part, control_down, serverVars>>

\* The same on the stream, which carries no transmit_start.
ServerSendTcp ==
  /\ Connected
  /\ Len(tcp_down) < MaxTcpDown
  /\ server_seen <= server_frame
  /\ tcp_down' = Append(tcp_down, [start |-> server_seen, end |-> server_frame])
  /\ UNCHANGED <<gameVars, current_frame, sessionVars, inputVars, loopVars,
                 tempVars, recvVars, sendVars, acked_frame, udp_packet_recd,
                 connection, udp_down, tcp_pos, tcp_part, control_down, serverVars>>

\* HEADER_FRAME_COMPLETE and HEADER_ACK.
ServerSendControl ==
  /\ Connected
  /\ Len(control_down) < MaxControl
  /\ \/ control_down' = Append(control_down, [header |-> "FRAME_COMPLETE", frame |-> server_frame])
     \/ control_down' = Append(control_down, [header |-> "ACK", frame |-> server_seen])
  /\ UNCHANGED <<gameVars, current_frame, sessionVars, inputVars, loopVars,
                 tempVars, recvVars, sendVars, acked_frame, udp_packet_recd,
                 connection, udp_down, tcp_down, tcp_pos, tcp_part, serverVars>>

\* Input of frames the server has not seen is taken, the rest is a repeat;
\* the closing frame_end tells how far the client is.
ServerTake(transmission) ==
  LET batches == transmission.batches
  IN \E n \in 0..Len(batches) :
       /\ UpTo(batches, server_seen, n)
       /\ server_got' = server_got \o [i \in 1..(Len(batches) - n) |-> batches[n + i].inputs]
       /\ server_seen' = Larger(server_seen, transmission.end)

ServerRecvUdp ==
  /\ \E p \in udp_up :
       /\ ServerTake(p)
       /\ udp_up' \in {udp_up, udp_up \ {p}}    \* it may come a second time
  /\ UNCHANGED <<gameVars, current_frame, sessionVars, inputVars, loopVars,
                 tempVars, recvVars, send_buffer, tcp_up, overtaken, acked_frame,
                 udp_packet_recd, connection, downVars, server_frame, busy>>

ServerRecvTcp ==
  /\ tcp_up # <<>>
  /\ ServerTake(Head(tcp_up))
  /\ tcp_up' = Tail(tcp_up)
  /\ UNCHANGED <<gameVars, current_frame, sessionVars, inputVars, loopVars,
                 tempVars, recvVars, send_buffer, udp_up, overtaken, acked_frame,
                 udp_packet_recd, connection, downVars, server_frame, busy>>

\* Datagrams get lost.
LoseDatagram ==
  /\ \/ /\ \E p \in udp_down : udp_down' = udp_down \ {p}
        /\ UNCHANGED udp_up
     \/ /\ \E p \in udp_up : udp_up' = udp_up \ {p}
        /\ UNCHANGED udp_down
  /\ UNCHANGED <<gameVars, current_frame, sessionVars, inputVars, loopVars,
                 tempVars, recvVars, send_buffer, tcp_up, overtaken, acked_frame,
                 udp_packet_recd, connection, tcp_down, tcp_pos, tcp_part,
                 control_down, serverVars>>

Server == ServerTick \/ ServerSendUdp \/ ServerSendTcp \/ ServerSendControl
            \/ ServerRecvUdp \/ ServerRecvTcp

-----------------------------------------------------------------------------
(* The network thread, in the order of client_loop.                        *)

\* get_session_access() and g_session.active: the sockets are open, the game
\* has entered the session and still asks for one.
SessionOpen == Connected /\ gpc \in {"run", "wait"}

NewFrame == current_frame > t_current

FastForward == t_remote' > current_frame + FastForwardGap

\* The send buffer once SyncData has moved the submitted input into it, and
\* what is left in g_session.submit_buffer then.
Submitted ==
  IF NewFrame /\ submit_buffer # <<>>
  THEN Append(send_buffer, [frame |-> current_frame, inputs |-> submit_buffer])
  ELSE send_buffer

SubmitBufferKept  == submit_buffer      \* mutant: the clear() is missing
SubmitBufferAfter == IF NewFrame THEN <<>> ELSE submit_buffer

\* remote_frame is told explicitly, available_frame implies it.
RemoteFrame == Larger(t_remote, t_available)

\* How many batches SendData drops off the front: those acknowledged.
DropOneMore(buffer, n) ==               \* mutant: one frame too many
  UpTo(buffer, acked_frame + 1, n)
Dropped(buffer, n) == UpTo(buffer, acked_frame, n)

\* SendData: the unacknowledged input and a frame_end, as a datagram if the
\* server's datagrams get through and this one is small enough, else on TCP.
\* Input sent on TCP leaves the buffer, input in a datagram stays in it.
Transmit(pending) ==
  LET packet == [batches |-> pending, end |-> current_frame]
  IN \/ /\ ~udp_packet_recd /\ pending = <<>>
        /\ send_buffer' = pending
        /\ UNCHANGED <<udp_up, tcp_up, overtaken>>
     \/ /\ udp_packet_recd /\ Len(pending) <= MtuBatches
        /\ send_buffer' = pending
        /\ udp_up' = IF Cardinality(udp_up) < MaxUdpUp THEN udp_up \cup {packet} ELSE udp_up
        /\ overtaken' = (overtaken \/ tcp_up # <<>>)
        /\ UNCHANGED tcp_up
     \/ /\ pending # <<>>
        /\ ~udp_packet_recd \/ Len(pending) > MtuBatches
        /\ Len(tcp_up) < MaxTcpUp                  \* the send blocks
        /\ send_buffer' = <<>>
        /\ tcp_up' = Append(tcp_up, packet)
        /\ UNCHANGED <<udp_up, overtaken>>

SendData(buffer) ==
  \E n \in 0..Len(buffer) :
    Dropped(buffer, n) /\ Transmit(SubSeq(buffer, n + 1, Len(buffer)))

\* SyncData publishes what was received, fetches what was submitted and sends.
Sync ==
  \/ /\ SessionOpen
     /\ t_current' = current_frame
     /\ submit_buffer' = SubmitBufferAfter
     /\ t_remote' = RemoteFrame
     /\ available_frame' = t_available
     /\ remote_frame' = t_remote'
     /\ history' = history \o new_history
     /\ new_history' = <<>>
     /\ UNCHANGED t_available
     /\ \/ /\ Submitted # <<>> \/ (NewFrame /\ ~FastForward)
           /\ SendData(Submitted)
        \/ /\ Submitted = <<>> /\ (NewFrame => FastForward)
           /\ UNCHANGED sendVars
  \/ /\ ~SessionOpen
     /\ UNCHANGED <<tempVars, sessionVars, submit_buffer, sendVars>>

SyncData ==
  /\ npc = "sync"
  /\ npc' = "control"
  /\ Sync
  /\ UNCHANGED <<gameVars, current_frame, inputs, was_waiting, recvVars,
                 acked_frame, udp_packet_recd, connection, downVars, serverVars>>

\* At most one control message per turn; then ReceiveData begins, remembering
\* whether the game waits.
Control ==
  /\ npc = "control"
  /\ npc' = "recv"
  /\ was_waiting' = (t_available < t_current)
  /\ \/ UNCHANGED <<control_down, t_remote, acked_frame>>
     \/ /\ Connected /\ control_down # <<>>
        /\ control_down' = Tail(control_down)
        /\ \/ /\ Head(control_down).header = "FRAME_COMPLETE"
              /\ t_remote' = Head(control_down).frame
              /\ UNCHANGED acked_frame
           \/ /\ Head(control_down).header = "ACK"
              /\ acked_frame' = Head(control_down).frame
              /\ UNCHANGED t_remote
  /\ UNCHANGED <<gameVars, current_frame, sessionVars, inputVars, t_current,
                 t_available, new_history, recvVars, sendVars, udp_packet_recd,
                 connection, udp_down, tcp_down, tcp_pos, tcp_part, serverVars>>

\* "previous TCP frame is finished": at the next frame_begin or frame_end the
\* frame in progress joins new_history, unless a datagram brought it earlier.
FinishedAny == tcp_frame_index > -1     \* mutant: a frame is taken twice
Finished    == tcp_frame_index > t_available

FlushHistory ==
  new_history' = IF Finished
                 THEN Append(new_history, [frame |-> tcp_frame_index,
                                           parts |-> tcp_frame_in_progress])
                 ELSE new_history

FlushAvailable == Larger(t_available, tcp_frame_index)

\* What frame_begin leaves in tcp_frame_in_progress, and frame_end in
\* available_frame.
InProgress(f)     == IF f > FlushAvailable THEN 1 ELSE 0
EndIgnored(f)     == FlushAvailable     \* mutant: frame_end closes nothing
EndAvailable(f)   == Larger(FlushAvailable, f)

\* The frame whose frame_begin is next on the stream.
NextOnStream(f) ==
  /\ f \in busy /\ f > tcp_pos
  /\ Head(tcp_down).start <= f /\ f <= Head(tcp_down).end
  /\ \A g \in busy : g > tcp_pos /\ Head(tcp_down).start <= g => f <= g

RecvTcpBegin ==
  /\ npc = "recv" /\ Connected /\ tcp_down # <<>> /\ ~MidFrame
  /\ \E f \in Frame :
       /\ NextOnStream(f)
       /\ FlushHistory
       /\ t_available' = FlushAvailable
       /\ tcp_frame_index' = f
       /\ tcp_frame_in_progress' = InProgress(f)
       /\ tcp_pos' = f
  /\ tcp_part' = "messages"
  /\ UNCHANGED <<gameVars, current_frame, sessionVars, inputVars, loopVars,
                 t_current, t_remote, sendVars, acked_frame, udp_packet_recd,
                 connection, udp_down, tcp_down, control_down, serverVars>>

RecvTcpMessages ==
  /\ npc = "recv" /\ Connected /\ MidFrame
  /\ tcp_part' = "frame_begin"
  /\ tcp_frame_in_progress' = IF Finished THEN tcp_frame_in_progress + 1
                                          ELSE tcp_frame_in_progress
  /\ UNCHANGED <<gameVars, current_frame, sessionVars, inputVars, loopVars,
                 tempVars, tcp_frame_index, sendVars, acked_frame, udp_packet_recd,
                 connection, udp_down, tcp_down, tcp_pos, control_down, serverVars>>

RecvTcpEnd ==
  /\ npc = "recv" /\ Connected /\ tcp_down # <<>> /\ ~MidFrame
  /\ ~\E f \in Frame : NextOnStream(f)
  /\ FlushHistory
  /\ t_available' = EndAvailable(Head(tcp_down).end)
  /\ tcp_frame_index' = -1
  /\ tcp_frame_in_progress' = 0
  /\ tcp_down' = Tail(tcp_down)
  /\ tcp_pos' = 0
  /\ UNCHANGED <<gameVars, current_frame, sessionVars, inputVars, loopVars,
                 t_current, t_remote, sendVars, acked_frame, udp_packet_recd,
                 connection, udp_down, tcp_part, control_down, serverVars>>

\* The frames of a datagram that are news.
AllFrames(p) == {f \in busy : p.start <= f /\ f <= p.end}     \* mutant: stale ones, too
NewFrames(p) == {f \in busy : p.start <= f /\ f <= p.end /\ f > t_available}

\* A datagram is read in one go.  It acknowledges input even when it is
\* skipped because it starts beyond the frame that is needed next.
RecvUdp ==
  /\ npc = "recv" /\ Connected
  /\ \E p \in udp_down :
       /\ udp_down' \in {udp_down, udp_down \ {p}}
       /\ acked_frame' = p.start
       /\ \/ /\ p.start > t_available + 1
             /\ UNCHANGED <<new_history, t_available>>
          \/ /\ p.start <= t_available + 1
             /\ \E news \in InOrder(NewFrames(p)) :
                  new_history' = new_history \o
                    [i \in DOMAIN news |-> [frame |-> news[i], parts |-> 2]]
             /\ t_available' = Larger(t_available, p.end)
  /\ udp_packet_recd' = TRUE
  /\ UNCHANGED <<gameVars, current_frame, sessionVars, inputVars, loopVars,
                 t_current, t_remote, recvVars, sendVars, connection, tcp_down,
                 tcp_pos, tcp_part, control_down, serverVars>>

\* The turn ends; a frame the game waits for is published at once.
RecvDone ==
  /\ npc = "recv"
  /\ npc' = "sync"
  /\ \/ was_waiting /\ t_available >= t_current /\ Sync
     \/ /\ ~(was_waiting /\ t_available >= t_current)
        /\ UNCHANGED <<tempVars, sessionVars, submit_buffer, sendVars>>
  /\ UNCHANGED <<gameVars, current_frame, inputs, was_waiting, recvVars,
                 acked_frame, udp_packet_recd, connection, downVars, serverVars>>

\* client_loop hangs up on a socket error; the sockets close and take what is
\* under way with them, temp_state stays.
HangUp ==
  /\ npc = "sync" /\ Connected
  /\ connection' = "closed"
  /\ udp_down' = {} /\ tcp_down' = <<>> /\ control_down' = <<>>
  /\ tcp_pos' = 0 /\ tcp_part' = "frame_begin"
  /\ UNCHANGED <<gameVars, current_frame, sessionVars, inputVars, loopVars,
                 tempVars, recvVars, sendVars, acked_frame, udp_packet_recd,
                 serverVars>>

Receive == RecvTcpBegin \/ RecvTcpMessages \/ RecvTcpEnd \/ RecvUdp

NetworkThread == SyncData \/ Control \/ Receive \/ RecvDone \/ HangUp

-----------------------------------------------------------------------------
(* The game thread.                                                        *)

\* Client_InitSession: the session may have data waiting in temp_state.
InitSession ==
  /\ gpc = "menu"
  /\ gpc' = "run"
  /\ current_frame' = 0 /\ available_frame' = -1 /\ remote_frame' = -1
  /\ submit_buffer' = <<>> /\ history' = <<>> /\ next_message' = 0
  /\ UNCHANGED <<applied_at, inputs, loopVars, tempVars, recvVars, sendVars,
                 acked_frame, udp_packet_recd, connection, downVars, serverVars>>

\* Does the wait end?
FrameAlmostReady(frame) == available_frame >= frame - 1    \* mutant: off by one
FrameReady(frame)       == available_frame >= frame

\* Take batches off the history up to the first that belongs to a later frame.
RunAllHistory(frame) ==                 \* mutant: later frames are run, too
  /\ next_message' = Len(history)
  /\ applied_at' = [i \in 1..Len(history) |-> IF i <= next_message THEN applied_at[i] ELSE frame]
RunHistory(frame) ==
  \E n \in next_message..Len(history) :
    /\ UpTo(history, frame, n)
    /\ next_message' = n
    /\ applied_at' = [i \in 1..n |-> IF i <= next_message THEN applied_at[i] ELSE frame]

\* ClientFrameSync up to its wait: the frame counter moves, input is submitted,
\* and if the frame is there it runs without releasing the lock.
StartFrame ==
  /\ gpc = "run" /\ current_frame < MaxFrame
  /\ current_frame' = current_frame + 1
  /\ \/ UNCHANGED inputVars
     \/ /\ current_frame' \in InputFrames
        /\ submit_buffer' = Append(submit_buffer, current_frame')
        /\ inputs' = inputs \cup {current_frame'}
  /\ \/ FrameReady(current_frame') /\ RunHistory(current_frame') /\ UNCHANGED gpc
     \/ ~FrameReady(current_frame') /\ gpc' = "wait" /\ UNCHANGED <<applied_at, next_message>>
  /\ UNCHANGED <<sessionVars, loopVars, tempVars, recvVars, sendVars, acked_frame,
                 udp_packet_recd, connection, downVars, serverVars>>

\* The awaited frame is there, or the connection is found to be lost.  (The wait
\* also ends when the player quits the program; nothing after that is modelled.)
EndWait ==
  /\ gpc = "wait"
  /\ FrameReady(current_frame) \/ Disconnected
  /\ gpc' = "run"
  /\ RunHistory(current_frame)
  /\ UNCHANGED <<current_frame, sessionVars, inputVars, loopVars, tempVars,
                 recvVars, sendVars, acked_frame, udp_packet_recd, connection,
                 downVars, serverVars>>

\* ClientFrameSync finds CLIENT_OFF before it starts a frame and withdraws the
\* request; from here on the game plays alone.
GoLocal ==
  /\ gpc = "run" /\ Disconnected
  /\ gpc' = "local"
  /\ UNCHANGED <<applied_at, next_message, current_frame, sessionVars, inputVars,
                 loopVars, tempVars, recvVars, sendVars, acked_frame,
                 udp_packet_recd, connection, downVars, serverVars>>

GameThread == InitSession \/ StartFrame \/ EndWait \/ GoLocal

-----------------------------------------------------------------------------
\* A guest that has just been let into a room whose server already has a log.
Init ==
  /\ gpc = "menu" /\ applied_at = <<>> /\ next_message = 0
  /\ current_frame = 0 /\ available_frame = -1 /\ remote_frame = -1
  /\ history = <<>> /\ submit_buffer = <<>> /\ inputs = {}
  /\ npc = "sync" /\ was_waiting = FALSE
  /\ server_frame \in 0..MaxFrame
  /\ busy \in SUBSET (BusyFrames \cap (1..server_frame))
  /\ server_seen = 0 /\ server_got = <<>>
  /\ t_current = 0 /\ t_available = -1 /\ t_remote = server_frame /\ new_history = <<>>
  /\ tcp_frame_index = -1 /\ tcp_frame_in_progress = 0
  /\ send_buffer = <<>> /\ acked_frame = -1 /\ udp_packet_recd = FALSE
  /\ connection = "open"
  /\ udp_down = {} /\ tcp_down = <<>> /\ tcp_pos = 0 /\ tcp_part = "frame_begin"
  /\ control_down = <<>> /\ udp_up = {} /\ tcp_up = <<>> /\ overtaken = FALSE

Next == GameThread \/ NetworkThread \/ Server \/ LoseDatagram

Spec == Init /\ [][Next]_vars

\* Both threads run; the streams deliver; the server keeps its clock and sends
\* on TCP what a client misses.  Datagrams owe nothing.
Fairness ==
  /\ WF_vars(InitSession \/ StartFrame \/ EndWait)
  /\ WF_vars(SyncData \/ Control) /\ WF_vars(RecvDone)
  /\ SF_vars(RecvTcpBegin \/ RecvTcpMessages \/ RecvTcpEnd)
  /\ WF_vars(ServerTick) /\ WF_vars(ServerSendTcp) /\ WF_vars(ServerRecvTcp)

FairSpec == Spec /\ Fairness

-----------------------------------------------------------------------------
(* Properties.                                                             *)

InSession == gpc \in {"run", "wait"}

\* Every variable of the two threads, the network and the server has the
\* values its declaration in client.h and message.h allows.
GameTypeOK ==
  /\ gpc \in {"menu", "run", "wait", "local"}
  /\ current_frame \in 0..MaxFrame
  /\ available_frame \in -1..MaxFrame /\ remote_frame \in -1..MaxFrame
  /\ history \in Seq(Batch)
  /\ next_message \in 0..Len(history)
  /\ applied_at \in Seq(Frame) /\ Len(applied_at) = next_message
  /\ submit_buffer \in Seq(Frame) /\ inputs \subseteq InputFrames
NetworkTypeOK ==
  /\ npc \in {"sync", "control", "recv"}
  /\ t_current \in 0..MaxFrame
  /\ t_available \in -1..MaxFrame /\ t_remote \in -1..MaxFrame
  /\ new_history \in Seq(Batch)
  /\ tcp_frame_index \in Frame \cup {-1} /\ tcp_frame_in_progress \in 0..2
  /\ acked_frame \in -1..(MaxFrame + 1)
  /\ connection \in {"open", "closed"}
DownTypeOK ==
  /\ udp_down \subseteq Slice /\ tcp_down \in Seq(Slice)
  /\ tcp_pos \in 0..MaxFrame /\ tcp_part \in {"frame_begin", "messages"}
  /\ control_down \in Seq([header : {"FRAME_COMPLETE", "ACK"}, frame : 0..MaxFrame])
UpTypeOK ==
  /\ send_buffer \in Seq(Input)
  /\ udp_up \subseteq Transmission /\ tcp_up \in Seq(Transmission)
ServerTypeOK ==
  /\ server_frame \in 0..MaxFrame /\ busy \subseteq BusyFrames
  /\ server_seen \in 0..MaxFrame /\ server_got \in Seq(Seq(Frame))
FlagsTypeOK ==
  was_waiting \in BOOLEAN /\ udp_packet_recd \in BOOLEAN /\ overtaken \in BOOLEAN
TypeOK == /\ GameTypeOK /\ NetworkTypeOK /\ DownTypeOK /\ UpTypeOK /\ ServerTypeOK
          /\ FlagsTypeOK

\* A sequence of batches is the server's log of the frames after `from` up to
\* `to`, given the busy frames: each once, in order, whole.
IsLog(frames, batches, from, to) ==
  /\ \A i \in 1..Len(batches) :
       /\ batches[i].frame \in frames
       /\ from < batches[i].frame /\ batches[i].frame <= to
       /\ batches[i].parts = 2
  /\ \A f \in frames : from < f /\ f <= to => \E i \in 1..Len(batches) : batches[i].frame = f
  /\ \A i, j \in 1..Len(batches) : i < j => batches[i].frame < batches[j].frame

\* Whatever is lost, repeated, reordered or split between the two channels,
\* g_session.history is the server's log up to available_frame, and what the
\* network thread has not published yet is the log from there on.
HistoryIsLog ==
  /\ IsLog(busy, history, 0, available_frame)
  /\ IsLog(busy, new_history, available_frame, t_available)

\* The game runs a batch in the frame the server put it in, never later.
RunInItsFrame == \A i \in 1..next_message : applied_at[i] = history[i].frame

\* The client is never asked to look further back than its own history, and
\* never reports a frame before it has all that came before it: while the
\* session lasts, what it reports is at most one frame ahead of what it has.
ReportsWhatItHas ==
  InSession /\ Connected =>
    /\ current_frame <= Larger(available_frame, 0) + 1
    /\ server_seen <= Larger(t_available, 0) + 1

FlatInputs(batches) ==
  UNION {Range(batches[i].inputs) : i \in DOMAIN batches}

\* While the connection lasts, an input that the game has submitted is waiting
\* in g_session.submit_buffer or in the send buffer, is under way on TCP, or has
\* reached the server; unless a datagram has overtaken input sent on TCP, which
\* is the transition that SendData warns about.
NoInputLost ==
  Connected /\ ~overtaken /\ ~Pipelined =>
    inputs \subseteq Range(submit_buffer) \cup FlatInputs(send_buffer)
                     \cup (UNION {FlatInputs(tcp_up[i].batches) : i \in DOMAIN tcp_up})
                     \cup (UNION {Range(server_got[i]) : i \in DOMAIN server_got})

\* The server gets every input at most once and in the order it was made.
InputOnceInOrder ==
  \A i, j \in DOMAIN server_got : \A k \in DOMAIN server_got[i], l \in DOMAIN server_got[j] :
    i < j \/ (i = j /\ k < l) => server_got[i][k] < server_got[j][l]

\* A game that waits for a frame goes on.
WaitEnds == (gpc = "wait") ~> (gpc # "wait")

\* What makes HistoryIsLog inductive.

\* The server's log grows at its end only.
LogGrows ==
  /\ busy \subseteq 1..server_frame
  /\ t_available <= server_frame /\ tcp_pos <= server_frame
  /\ \A i \in 1..Len(tcp_down) : tcp_down[i].end <= server_frame
  /\ \A p \in udp_down : p.end <= server_frame

\* Nothing the client reports runs ahead of what it has by more than a frame,
\* so no slice of the stream starts behind a gap.
NoGapAhead ==
  LET limit == Larger(t_available, 0) + 1
  IN /\ available_frame <= t_available
     /\ gpc = "menu" => available_frame = -1 /\ current_frame = 0
     /\ InSession /\ Connected => current_frame <= Larger(available_frame, 0) + 1
     /\ t_current <= limit /\ server_seen <= limit
     /\ \A p \in udp_up : p.end <= limit
     /\ \A i \in 1..Len(tcp_up) : tcp_up[i].end <= limit
     /\ \A i \in 1..Len(tcp_down) : tcp_down[i].start <= limit

\* What has been read of the slice at the head of the stream is available, but
\* for the frame in progress, which is whole once its messages are read.
StreamRead ==
  /\ MidFrame => tcp_down # <<>>
  /\ tcp_down = <<>> => tcp_pos = 0
  /\ tcp_down # <<>> => \A g \in busy : Head(tcp_down).start <= g /\ g <= tcp_pos =>
                                          g <= t_available \/ g = tcp_frame_index
  /\ Connected /\ Finished =>
       /\ tcp_down # <<>> /\ tcp_frame_index \in busy
       /\ tcp_frame_index = tcp_pos
       /\ tcp_frame_in_progress = (IF MidFrame THEN 1 ELSE 2)

\* What the game has not run yet lies in the future.
RestIsFuture ==
  /\ gpc = "menu" => next_message = 0 /\ history = <<>>
  /\ \A i \in (next_message + 1)..Len(history) :
       /\ gpc \in {"run", "local"} => history[i].frame > current_frame
       /\ gpc = "wait" => history[i].frame >= current_frame
  /\ gpc = "run" /\ Connected => available_frame >= current_frame \/ current_frame = 0
  /\ gpc = "wait" => current_frame # 0

FramesInv ==
  /\ TypeOK /\ LogGrows /\ NoGapAhead /\ StreamRead
  /\ HistoryIsLog /\ RestIsFuture /\ RunInItsFrame

\* The client sees the frames in lockstep with the server.
Lockstep == INSTANCE NetLockstep WITH
  closed <- server_frame,
  played <- IF gpc = "wait" THEN current_frame - 1 ELSE current_frame,
  run    <- [i \in 1..next_message |-> history[i].frame],
  lost   <- Disconnected

PlaysInLockstep == Lockstep!Spec
=============================================================================
