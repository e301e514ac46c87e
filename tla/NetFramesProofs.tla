-------------------------- MODULE NetFramesProofs --------------------------
(***************************************************************************)
(* What a client makes of the server's frames, proved for every number of  *)
(* frames, every bound on the channels and every schedule; and the way of  *)
(* the player's input to the server: the server gets each input at most    *)
(* once and in order, and, unless a datagram overtakes the stream, none is *)
(* lost while the connection lasts.                                        *)
(***************************************************************************)
EXTENDS NetFrames, FiniteSetTheorems, WellFoundedInduction, TLAPS

-----------------------------------------------------------------------------
(* Sequences of batches.                                                   *)

LEMMA BatchFrame ==
  ASSUME NEW s \in Seq(Batch), NEW i \in 1..Len(s)
  PROVE  s[i] \in Batch /\ s[i].frame \in Int
<1>1. s[i] \in Batch
  OBVIOUS
<1>2. \A b \in Batch : b.frame \in Int
  BY DEF Batch, Frame
<1> QED BY <1>1, <1>2

\* Two consecutive pieces of the server's log make one: SyncData's append.
LEMMA LogConcat ==
  ASSUME NEW F \in SUBSET Int, NEW s \in Seq(Batch), NEW t \in Seq(Batch),
         NEW a \in Int, NEW b \in Int, NEW c \in Int, a <= b, b <= c,
         IsLog(F, s, a, b), IsLog(F, t, b, c)
  PROVE  s \o t \in Seq(Batch) /\ IsLog(F, s \o t, a, c)
<1> DEFINE st == s \o t
<1>1. st \in Seq(Batch) /\ Len(st) = Len(s) + Len(t)
  OBVIOUS
<1>2. \A i \in 1..Len(st) : st[i] = IF i <= Len(s) THEN s[i] ELSE t[i - Len(s)]
  OBVIOUS
<1>3. \A i \in 1..Len(s) : st[i] = s[i]
  BY <1>1, <1>2
<1>4. \A i \in 1..Len(t) : st[i + Len(s)] = t[i] /\ i + Len(s) \in 1..Len(st)
  BY <1>1, <1>2
<1> HIDE DEF st
<1>5. ASSUME NEW i \in 1..Len(st)
      PROVE  \/ i \in 1..Len(s) /\ st[i] = s[i]
             \/ i - Len(s) \in 1..Len(t) /\ st[i] = t[i - Len(s)]
  <2>1. Len(s) \in Nat /\ Len(t) \in Nat /\ i \in 1..(Len(s) + Len(t))
    BY <1>1
  <2>2. CASE i <= Len(s)
    BY <1>2, <2>1, <2>2
  <2>3. CASE i > Len(s)
    <3>1. i - Len(s) \in 1..Len(t)
      BY <2>1, <2>3
    <3> QED BY <1>2, <2>1, <2>3, <3>1
  <2> QED BY <2>1, <2>2, <2>3
<1>6. \A i \in 1..Len(s) : s[i].frame \in Int
  BY BatchFrame
<1>7. \A i \in 1..Len(t) : t[i].frame \in Int
  BY BatchFrame
<1>8. ASSUME NEW i \in 1..Len(st)
      PROVE  /\ st[i].frame \in F
             /\ a < st[i].frame /\ st[i].frame <= c
             /\ st[i].parts = 2
  <2>1. CASE i \in 1..Len(s) /\ st[i] = s[i]
    <3>1. s[i].frame \in F /\ a < s[i].frame /\ s[i].frame <= b /\ s[i].parts = 2
      BY <2>1 DEF IsLog
    <3>2. s[i].frame \in Int
      BY <2>1, <1>6
    <3> QED BY <2>1, <3>1, <3>2
  <2>2. CASE i - Len(s) \in 1..Len(t) /\ st[i] = t[i - Len(s)]
    <3>1. /\ t[i - Len(s)].frame \in F /\ t[i - Len(s)].parts = 2
          /\ b < t[i - Len(s)].frame /\ t[i - Len(s)].frame <= c
      BY <2>2 DEF IsLog
    <3>2. t[i - Len(s)].frame \in Int
      BY <2>2, <1>7
    <3> QED BY <2>2, <3>1, <3>2
  <2> QED BY <1>5, <2>1, <2>2
<1>9. ASSUME NEW f \in F, a < f, f <= c
      PROVE  \E i \in 1..Len(st) : st[i].frame = f
  <2>1. CASE f <= b
    <3>1. PICK i \in 1..Len(s) : s[i].frame = f
      BY <1>9, <2>1 DEF IsLog
    <3>2. i \in 1..Len(st) /\ st[i].frame = f
      BY <1>1, <1>3, <3>1
    <3> QED BY <3>2
  <2>2. CASE f > b
    <3>1. PICK i \in 1..Len(t) : t[i].frame = f
      BY <1>9, <2>2 DEF IsLog
    <3>2. i + Len(s) \in 1..Len(st) /\ st[i + Len(s)].frame = f
      BY <1>4, <3>1
    <3> QED BY <3>2
  <2>3. f \in Int
    OBVIOUS
  <2> QED BY <2>1, <2>2, <2>3
<1>10. ASSUME NEW i \in 1..Len(st), NEW j \in 1..Len(st), i < j
       PROVE  st[i].frame < st[j].frame
  <2>1. CASE j \in 1..Len(s)
    <3>1. i \in 1..Len(s)
      BY <1>10, <2>1
    <3>2. s[i].frame < s[j].frame
      BY <1>10, <2>1, <3>1 DEF IsLog
    <3> QED BY <1>3, <2>1, <3>1, <3>2
  <2>2. CASE i \in 1..Len(s) /\ j \notin 1..Len(s)
    <3>1. j - Len(s) \in 1..Len(t) /\ st[j] = t[j - Len(s)]
      BY <1>5, <2>2
    <3>2. s[i].frame <= b /\ b < t[j - Len(s)].frame
      BY <2>2, <3>1 DEF IsLog
    <3>3. s[i].frame \in Int /\ t[j - Len(s)].frame \in Int
      BY <1>6, <1>7, <2>2, <3>1
    <3> QED BY <1>3, <2>2, <3>1, <3>2, <3>3
  <2>3. CASE i \notin 1..Len(s)
    <3>1. i - Len(s) \in 1..Len(t) /\ st[i] = t[i - Len(s)]
      BY <1>5, <2>3
    <3>2. j \notin 1..Len(s)
      BY <1>10, <2>3
    <3>3. j - Len(s) \in 1..Len(t) /\ st[j] = t[j - Len(s)]
      BY <1>5, <3>2
    <3>4. i - Len(s) < j - Len(s)
      BY <1>10
    <3> QED BY <3>1, <3>3, <3>4 DEF IsLog
  <2> QED BY <2>1, <2>2, <2>3
<1> QED BY <1>1, <1>8, <1>9, <1>10 DEF IsLog, st

\* A log stays one when frames without messages follow it.
LEMMA LogExtend ==
  ASSUME NEW F \in SUBSET Int, NEW s \in Seq(Batch),
         NEW a \in Int, NEW b \in Int, NEW c \in Int, b <= c,
         IsLog(F, s, a, b), \A f \in F : ~(b < f /\ f <= c)
  PROVE  IsLog(F, s, a, c)
<1>1. ASSUME NEW i \in 1..Len(s)
      PROVE  s[i].frame \in F /\ a < s[i].frame /\ s[i].frame <= c /\ s[i].parts = 2
  BY BatchFrame DEF IsLog
<1>2. ASSUME NEW f \in F, a < f, f <= c
      PROVE  \E i \in 1..Len(s) : s[i].frame = f
  <2>1. f <= b
    BY <1>2
  <2> QED BY <1>2, <2>1 DEF IsLog
<1> QED BY <1>1, <1>2 DEF IsLog

\* A frame that is whole makes a log by itself.
LEMMA LogOne ==
  ASSUME NEW F \in SUBSET Int, NEW g \in F \cap Frame, NEW b \in Int, b < g,
         \A f \in F : ~(b < f /\ f < g)
  PROVE  /\ <<[frame |-> g, parts |-> 2]>> \in Seq(Batch)
         /\ IsLog(F, <<[frame |-> g, parts |-> 2]>>, b, g)
  BY DEF IsLog, Batch, Frame

\* A frame that joins behind the end of a log leaves it alone.
LEMMA LogOfMore ==
  ASSUME NEW F \in SUBSET Int, NEW G \in SUBSET Int, NEW s,
         NEW a \in Int, NEW b \in Int, F \subseteq G, \A g \in G \ F : g > b,
         IsLog(F, s, a, b)
  PROVE  IsLog(G, s, a, b)
<1>1. ASSUME NEW f \in G, a < f, f <= b
      PROVE  \E i \in 1..Len(s) : s[i].frame = f
  <2>1. f \in F
    BY <1>1
  <2> QED BY <1>1, <2>1 DEF IsLog
<1> QED BY <1>1 DEF IsLog

LEMMA SliceFields ==
  ASSUME NEW s \in Seq(Slice), NEW i \in 1..Len(s)
  PROVE  s[i] \in Slice /\ s[i].start \in Nat /\ s[i].end \in Nat
<1>1. s[i] \in Slice
  OBVIOUS
<1>2. \A x \in Slice : x.start \in Nat /\ x.end \in Nat
  BY DEF Slice
<1> QED BY <1>1, <1>2

LEMMA LogEmpty ==
  ASSUME NEW F \in SUBSET Int, NEW b \in Int
  PROVE  <<>> \in Seq(Batch) /\ IsLog(F, <<>>, b, b)
  BY DEF IsLog

-----------------------------------------------------------------------------
(* The steps.                                                              *)

\* The tuples of variables that the actions leave alone.
USE DEF gameVars, sessionVars, tempVars, recvVars, sendVars, downVars, serverVars,
        inputVars, loopVars, Connected, Disconnected, MidFrame

\* What a step that leaves the variables of a conjunct alone preserves.
LEMMA KeepGame ==
  ASSUME UNCHANGED <<gameVars, current_frame, sessionVars, inputVars>>
  PROVE  /\ GameTypeOK => GameTypeOK'
         /\ RunInItsFrame => RunInItsFrame'
         /\ UNCHANGED connection /\ RestIsFuture => RestIsFuture'
  BY DEF GameTypeOK, RunInItsFrame, RestIsFuture

LEMMA KeepLog ==
  ASSUME UNCHANGED <<available_frame, history, t_available, new_history, busy>>
  PROVE  HistoryIsLog => HistoryIsLog'
  BY DEF HistoryIsLog

LEMMA KeepStream ==
  ASSUME UNCHANGED <<tcp_down, tcp_pos, tcp_part, tcp_frame_index, tcp_frame_in_progress,
                     t_available, connection, busy>>
  PROVE  StreamRead => StreamRead'
  BY DEF StreamRead, Finished

LEMMA KeepDown ==
  ASSUME UNCHANGED downVars
  PROVE  /\ DownTypeOK => DownTypeOK'
         /\ UNCHANGED <<t_available, server_frame, busy>> /\ LogGrows => LogGrows'
  BY DEF DownTypeOK, LogGrows

LEMMA KeepUp ==
  ASSUME UNCHANGED <<send_buffer, udp_up, tcp_up>>
  PROVE  UpTypeOK => UpTypeOK'
  BY DEF UpTypeOK

LEMMA KeepServer ==
  ASSUME UNCHANGED serverVars
  PROVE  ServerTypeOK => ServerTypeOK'
  BY DEF ServerTypeOK

LEMMA KeepTemp ==
  ASSUME UNCHANGED <<npc, tempVars, recvVars, acked_frame, connection>>
  PROVE  NetworkTypeOK => NetworkTypeOK'
  BY DEF NetworkTypeOK

LEMMA KeepFlags ==
  ASSUME UNCHANGED <<was_waiting, udp_packet_recd, overtaken>>
  PROVE  FlagsTypeOK => FlagsTypeOK'
  BY DEF FlagsTypeOK

LEMMA BusyFacts ==
  ASSUME FramesInv
  PROVE  /\ busy \in SUBSET Int
         /\ \A g \in busy : g \in Frame /\ 1 <= g /\ g <= server_frame
         /\ server_frame \in Nat /\ available_frame \in Int /\ t_available \in Int
<1>1. busy \subseteq 1..MaxFrame
  BY FramesAssumption DEF FramesInv, TypeOK, ServerTypeOK
<1>2. busy \subseteq 1..server_frame
  BY DEF FramesInv, LogGrows
<1>3. server_frame \in Nat /\ available_frame \in Int /\ t_available \in Int
  BY DEF FramesInv, TypeOK, ServerTypeOK, GameTypeOK, NetworkTypeOK
<1>4. \A g \in busy : g \in 1..server_frame /\ g \in 1..MaxFrame
  BY <1>1, <1>2
<1> QED BY <1>3, <1>4 DEF Frame

LEMMA InitInv == Init => FramesInv
<1> SUFFICES ASSUME Init PROVE FramesInv
  OBVIOUS
<1> USE MaxFrameAssumption, FramesAssumption DEF Init
<1>1. TypeOK
  <2>1. GameTypeOK
    BY DEF GameTypeOK
  <2>2. NetworkTypeOK
    BY DEF NetworkTypeOK, Frame
  <2>3. DownTypeOK
    BY DEF DownTypeOK
  <2>4. UpTypeOK
    BY DEF UpTypeOK
  <2>5. ServerTypeOK
    BY DEF ServerTypeOK
  <2>6. FlagsTypeOK
    BY DEF FlagsTypeOK
  <2> QED BY <2>1, <2>2, <2>3, <2>4, <2>5, <2>6 DEF TypeOK
<1>2. LogGrows
  BY DEF LogGrows
<1>3. NoGapAhead
  BY DEF NoGapAhead, Larger, InSession
<1>4. StreamRead
  BY DEF StreamRead, Finished
<1>5. HistoryIsLog
  BY DEF HistoryIsLog, IsLog
<1>6. RestIsFuture /\ RunInItsFrame
  BY DEF RestIsFuture, RunInItsFrame
<1> QED BY <1>1, <1>2, <1>3, <1>4, <1>5, <1>6 DEF FramesInv

LEMMA ServerTickInv == FramesInv /\ ServerTick => FramesInv'
<1> SUFFICES ASSUME FramesInv, ServerTick PROVE FramesInv'
  OBVIOUS
<1> USE DEF FramesInv, ServerTick
<1>1. TypeOK'
  <2>1. GameTypeOK' /\ NetworkTypeOK' /\ DownTypeOK' /\ UpTypeOK'
    BY DEF TypeOK, GameTypeOK, NetworkTypeOK, DownTypeOK, UpTypeOK
  <2>2. ServerTypeOK'
    BY MaxFrameAssumption DEF TypeOK, ServerTypeOK
  <2>3. FlagsTypeOK'
    BY DEF TypeOK, FlagsTypeOK
  <2> QED BY <2>1, <2>2, <2>3 DEF TypeOK
<1>2. LogGrows'
  <2>1. server_frame \in Nat /\ server_frame' = server_frame + 1 /\ t_available \in Int /\ tcp_pos \in Int
    BY DEF TypeOK, ServerTypeOK, NetworkTypeOK, DownTypeOK
  <2>2. busy' \subseteq 1..server_frame'
    BY <2>1 DEF LogGrows
  <2>3. \A i \in 1..Len(tcp_down) : tcp_down[i].end <= server_frame + 1
    BY <2>1, SliceFields DEF LogGrows, TypeOK, DownTypeOK
  <2>4. \A p \in udp_down : p.end <= server_frame + 1
    BY <2>1 DEF LogGrows, TypeOK, DownTypeOK, Slice
  <2> QED BY <2>1, <2>2, <2>3, <2>4 DEF LogGrows
<1>3. NoGapAhead'
  BY DEF NoGapAhead, InSession
<1>4. busy \subseteq busy' /\ \A g \in busy' \ busy : g = server_frame + 1
  OBVIOUS
<1>5. StreamRead'
  <2>1. \A g \in busy' : g <= tcp_pos => g \in busy
    BY <1>4 DEF TypeOK, ServerTypeOK, DownTypeOK, LogGrows
  <2> QED BY <1>4, <2>1 DEF StreamRead, Finished
<1>6. HistoryIsLog'
  <2>1. /\ busy \in SUBSET Int /\ busy' \in SUBSET Int
        /\ available_frame \in Int /\ t_available \in Int
    BY <1>1, FramesAssumption DEF TypeOK, GameTypeOK, NetworkTypeOK, ServerTypeOK
  <2>2. \A g \in busy' \ busy : g > available_frame /\ g > t_available
    BY <1>4, <2>1 DEF LogGrows, NoGapAhead, TypeOK, ServerTypeOK
  <2>3. IsLog(busy', history, 0, available_frame)
    BY <1>4, <2>1, <2>2, LogOfMore DEF HistoryIsLog
  <2>4. IsLog(busy', new_history, available_frame, t_available)
    BY <1>4, <2>1, <2>2, LogOfMore DEF HistoryIsLog
  <2> QED BY <2>3, <2>4 DEF HistoryIsLog
<1>7. RestIsFuture' /\ RunInItsFrame'
  BY DEF RestIsFuture, RunInItsFrame
<1> QED BY <1>1, <1>2, <1>3, <1>5, <1>6, <1>7

LEMMA ServerSendUdpInv == FramesInv /\ ServerSendUdp => FramesInv'
<1> SUFFICES ASSUME FramesInv, ServerSendUdp PROVE FramesInv'
  OBVIOUS
<1> USE DEF FramesInv, ServerSendUdp
<1>0. server_seen \in Nat /\ server_frame \in Nat /\ server_seen <= MaxFrame /\ server_frame <= MaxFrame
  BY MaxFrameAssumption DEF TypeOK, ServerTypeOK
<1>1. PICK s \in 0..(MaxFrame + 1), e \in 0..server_frame :
        udp_down' = udp_down \cup {[start |-> s, end |-> e]}
  <2>1. PICK s \in IF Pipelined THEN server_seen..(server_frame + 1) ELSE {server_seen} :
             \E e \in {server_frame} \cup (s..server_frame) :
               udp_down' = udp_down \cup {[start |-> s, end |-> e]}
    OBVIOUS
  <2>2. s \in 0..(MaxFrame + 1)
    <3>1. CASE Pipelined
      BY <3>1, <1>0, MaxFrameAssumption
    <3>2. CASE ~Pipelined
      BY <3>2, <1>0, MaxFrameAssumption
    <3> QED BY <3>1, <3>2
  <2>3. \A e \in {server_frame} \cup (s..server_frame) : e \in 0..server_frame
    BY <1>0, <2>2
  <2> QED BY <2>1, <2>2, <2>3
<1>2. [start |-> s, end |-> e] \in Slice
  BY MaxFrameAssumption DEF Slice, TypeOK, ServerTypeOK
<1>3. DownTypeOK'
  BY <1>1, <1>2 DEF TypeOK, DownTypeOK
<1>4. TypeOK'
  BY <1>3, KeepGame, KeepTemp, KeepUp, KeepServer, KeepFlags DEF TypeOK
<1>5. LogGrows'
  BY <1>1 DEF LogGrows
<1>6. NoGapAhead'
  BY DEF NoGapAhead, InSession
<1> QED BY <1>4, <1>5, <1>6, KeepGame, KeepLog, KeepStream

LEMMA ServerSendTcpInv == FramesInv /\ ServerSendTcp => FramesInv'
<1> SUFFICES ASSUME FramesInv, ServerSendTcp PROVE FramesInv'
  OBVIOUS
<1> USE DEF FramesInv, ServerSendTcp
<1> DEFINE slice == [start |-> server_seen, end |-> server_frame]
<1>1. slice \in Slice
  BY MaxFrameAssumption DEF Slice, TypeOK, ServerTypeOK
<1>2. tcp_down \in Seq(Slice) /\ tcp_down' = Append(tcp_down, slice)
  BY DEF TypeOK, DownTypeOK
<1>3. /\ tcp_down' \in Seq(Slice) /\ Len(tcp_down') = Len(tcp_down) + 1
      /\ \A i \in 1..Len(tcp_down') : i \in 1..Len(tcp_down) \/ i = Len(tcp_down) + 1
      /\ \A i \in 1..Len(tcp_down) : tcp_down'[i] = tcp_down[i]
      /\ tcp_down'[Len(tcp_down) + 1] = slice
  BY <1>1, <1>2
<1>4. TypeOK'
  <2>1. DownTypeOK'
    BY <1>3 DEF TypeOK, DownTypeOK
  <2> QED BY <2>1, KeepGame, KeepTemp, KeepUp, KeepServer, KeepFlags DEF TypeOK
<1>5. LogGrows'
  <2>1. server_frame \in Int
    BY DEF TypeOK, ServerTypeOK
  <2>2. \A i \in 1..Len(tcp_down') : tcp_down'[i].end <= server_frame
    BY <1>3, <2>1 DEF LogGrows
  <2> QED BY <2>2 DEF LogGrows
<1>6. NoGapAhead'
  <2>1. \A i \in 1..Len(tcp_down') : tcp_down'[i].start <= Larger(t_available, 0) + 1
    BY <1>3 DEF NoGapAhead
  <2> QED BY <2>1 DEF NoGapAhead, InSession
<1>7. StreamRead'
  <2>1. CASE tcp_down = <<>>
    <3>1. Disconnected \/ ~Finished
      BY <2>1 DEF StreamRead
    <3>2. tcp_pos = 0
      BY <2>1 DEF StreamRead
    <3>3. \A g \in busy : ~(g <= tcp_pos)
      BY <3>2, BusyFacts
    <3>4. ~MidFrame /\ tcp_down' # <<>>
      BY <2>1, <1>3 DEF StreamRead
    <3> QED BY <3>1, <3>3, <3>4 DEF StreamRead, Finished
  <2>2. CASE tcp_down # <<>>
    <3>1. Head(tcp_down') = Head(tcp_down) /\ tcp_down' # <<>>
      BY <2>2, <1>2, <1>1
    <3> QED BY <2>2, <3>1 DEF StreamRead, Finished
  <2> QED BY <2>1, <2>2
<1> QED BY <1>4, <1>5, <1>6, <1>7, KeepGame, KeepLog

LEMMA ServerSendControlInv == FramesInv /\ ServerSendControl => FramesInv'
<1> SUFFICES ASSUME FramesInv, ServerSendControl PROVE FramesInv'
  OBVIOUS
<1> USE DEF FramesInv, ServerSendControl
<1>1. DownTypeOK'
  <2> DEFINE Msg == [header : {"FRAME_COMPLETE", "ACK"}, frame : 0..MaxFrame]
  <2>1. PICK m \in Msg : control_down' = Append(control_down, m)
    BY DEF TypeOK, ServerTypeOK
  <2>2. control_down \in Seq(Msg)
    BY DEF TypeOK, DownTypeOK
  <2> HIDE DEF Msg
  <2>3. control_down' \in Seq(Msg)
    BY <2>1, <2>2
  <2> QED BY <2>3 DEF TypeOK, DownTypeOK, Msg
<1>2. TypeOK'
  BY <1>1, KeepGame, KeepTemp, KeepUp, KeepServer, KeepFlags DEF TypeOK
<1>3. LogGrows' /\ NoGapAhead'
  BY DEF LogGrows, NoGapAhead, InSession
<1> QED BY <1>2, <1>3, KeepGame, KeepLog, KeepStream

\* The server learns how far the client is from what is under way to it.
LEMMA ServerTakeInv ==
  ASSUME FramesInv, NEW p \in Transmission, ServerTake(p),
         p.end <= Larger(t_available, 0) + 1,
         UNCHANGED <<server_frame, busy>>
  PROVE  ServerTypeOK' /\ server_seen' <= Larger(t_available, 0) + 1
<1>1. PICK n \in 0..Len(p.batches) :
        server_got' = server_got \o [i \in 1..(Len(p.batches) - n) |-> p.batches[n + i].inputs]
  BY DEF ServerTake
<1> DEFINE news == [i \in 1..(Len(p.batches) - n) |-> p.batches[n + i].inputs]
<1>2. p.batches \in Seq(Input) /\ p.end \in 0..MaxFrame
  BY DEF Transmission
<1>3. \A b \in Input : b.inputs \in Seq(Frame)
  BY DEF Input
<1>4. \A i \in 1..(Len(p.batches) - n) : p.batches[n + i] \in Input
  BY <1>2
<1>5. news \in Seq(Seq(Frame))
  BY <1>2, <1>3, <1>4
<1>6. server_got' \in Seq(Seq(Frame))
  BY <1>1, <1>5 DEF FramesInv, TypeOK, ServerTypeOK
<1>7. server_seen' = Larger(server_seen, p.end)
  BY DEF ServerTake
<1>8. server_seen' \in 0..MaxFrame /\ server_seen' <= Larger(t_available, 0) + 1
  BY <1>2, <1>7 DEF FramesInv, TypeOK, ServerTypeOK, NetworkTypeOK, NoGapAhead, Larger
<1> QED BY <1>6, <1>8 DEF FramesInv, TypeOK, ServerTypeOK

LEMMA ServerRecvUdpInv == FramesInv /\ ServerRecvUdp => FramesInv'
<1> SUFFICES ASSUME FramesInv, ServerRecvUdp PROVE FramesInv'
  OBVIOUS
<1> USE DEF FramesInv, ServerRecvUdp
<1>1. PICK p \in udp_up : ServerTake(p) /\ udp_up' \in {udp_up, udp_up \ {p}}
  OBVIOUS
<1>2. udp_up \subseteq Transmission /\ p \in Transmission
  BY <1>1 DEF TypeOK, UpTypeOK
<1>3. p.end <= Larger(t_available, 0) + 1
  BY <1>1 DEF NoGapAhead
<1>4. ServerTypeOK' /\ server_seen' <= Larger(t_available, 0) + 1
  BY <1>1, <1>2, <1>3, ServerTakeInv
<1>5. UpTypeOK'
  BY <1>1 DEF TypeOK, UpTypeOK
<1>6. TypeOK'
  BY <1>4, <1>5, KeepGame, KeepTemp, KeepDown, KeepFlags DEF TypeOK
<1>7. NoGapAhead'
  BY <1>1, <1>4 DEF NoGapAhead, InSession
<1> QED BY <1>6, <1>7, KeepGame, KeepLog, KeepStream, KeepDown

LEMMA ServerRecvTcpInv == FramesInv /\ ServerRecvTcp => FramesInv'
<1> SUFFICES ASSUME FramesInv, ServerRecvTcp PROVE FramesInv'
  OBVIOUS
<1> USE DEF FramesInv, ServerRecvTcp
<1> DEFINE p == Head(tcp_up)
<1>1. tcp_up \in Seq(Transmission) /\ tcp_up # <<>> /\ tcp_up' = Tail(tcp_up)
  BY DEF TypeOK, UpTypeOK
<1>2. /\ p \in Transmission /\ p = tcp_up[1] /\ 1 \in 1..Len(tcp_up)
      /\ tcp_up' \in Seq(Transmission)
      /\ \A i \in 1..Len(tcp_up') : i + 1 \in 1..Len(tcp_up) /\ tcp_up'[i] = tcp_up[i + 1]
  BY <1>1
<1>3. p.end <= Larger(t_available, 0) + 1
  BY <1>2 DEF NoGapAhead
<1>4. ServerTypeOK' /\ server_seen' <= Larger(t_available, 0) + 1
  BY <1>2, <1>3, ServerTakeInv
<1>5. UpTypeOK'
  BY <1>2 DEF TypeOK, UpTypeOK
<1>6. TypeOK'
  BY <1>4, <1>5, KeepGame, KeepTemp, KeepDown, KeepFlags DEF TypeOK
<1>7. \A i \in 1..Len(tcp_up') : tcp_up'[i].end <= Larger(t_available, 0) + 1
  BY <1>2 DEF NoGapAhead
<1>8. NoGapAhead'
  BY <1>4, <1>7 DEF NoGapAhead, InSession
<1> QED BY <1>6, <1>8, KeepGame, KeepLog, KeepStream, KeepDown

LEMMA LoseDatagramInv == FramesInv /\ LoseDatagram => FramesInv'
<1> SUFFICES ASSUME FramesInv, LoseDatagram PROVE FramesInv'
  OBVIOUS
<1> USE DEF FramesInv, LoseDatagram
<1>1. udp_down' \subseteq udp_down /\ udp_up' \subseteq udp_up
  OBVIOUS
<1>2. DownTypeOK' /\ UpTypeOK'
  BY <1>1 DEF TypeOK, DownTypeOK, UpTypeOK
<1>3. TypeOK'
  BY <1>2, KeepGame, KeepTemp, KeepServer, KeepFlags DEF TypeOK
<1>4. LogGrows'
  BY <1>1 DEF LogGrows
<1>5. NoGapAhead'
  BY <1>1 DEF NoGapAhead, InSession
<1> QED BY <1>3, <1>4, <1>5, KeepGame, KeepLog, KeepStream

LEMMA ControlInv == FramesInv /\ Control => FramesInv'
<1> SUFFICES ASSUME FramesInv, Control PROVE FramesInv'
  OBVIOUS
<1> USE DEF FramesInv, Control
<1> DEFINE Msg == [header : {"FRAME_COMPLETE", "ACK"}, frame : 0..MaxFrame]
<1>1. control_down \in Seq(Msg) /\ t_remote \in -1..MaxFrame /\ acked_frame \in -1..(MaxFrame + 1)
  BY DEF TypeOK, DownTypeOK, NetworkTypeOK
<1>2. control_down # <<>> =>
        Head(control_down).frame \in 0..MaxFrame /\ Tail(control_down) \in Seq(Msg)
  <2>1. ASSUME control_down # <<>>
        PROVE  Head(control_down) \in Msg /\ Tail(control_down) \in Seq(Msg)
    <3> HIDE DEF Msg
    <3> QED BY <1>1, <2>1
  <2>2. \A m \in Msg : m.frame \in 0..MaxFrame
    OBVIOUS
  <2> QED BY <2>1, <2>2
<1>3. /\ control_down' \in Seq(Msg)
      /\ t_remote' \in -1..MaxFrame /\ acked_frame' \in -1..(MaxFrame + 1)
  <2> HIDE DEF Msg
  <2> QED BY <1>1, <1>2, MaxFrameAssumption
<1>4. NetworkTypeOK' /\ DownTypeOK'
  BY <1>3 DEF TypeOK, NetworkTypeOK, DownTypeOK
<1>5. FlagsTypeOK'
  BY DEF TypeOK, FlagsTypeOK
<1>6. TypeOK'
  BY <1>4, <1>5, KeepGame, KeepUp, KeepServer DEF TypeOK
<1>7. LogGrows' /\ NoGapAhead'
  BY DEF LogGrows, NoGapAhead, InSession
<1> QED BY <1>6, <1>7, KeepGame, KeepLog, KeepStream

LEMMA HangUpInv == FramesInv /\ HangUp => FramesInv'
<1> SUFFICES ASSUME FramesInv, HangUp PROVE FramesInv'
  OBVIOUS
<1> USE DEF FramesInv, HangUp
<1>1. DownTypeOK' /\ NetworkTypeOK'
  BY MaxFrameAssumption DEF TypeOK, DownTypeOK, NetworkTypeOK
<1>2. TypeOK'
  BY <1>1, KeepGame, KeepUp, KeepServer, KeepFlags DEF TypeOK
<1>3. LogGrows'
  BY BusyFacts DEF LogGrows
<1>4. NoGapAhead'
  BY DEF NoGapAhead, InSession
<1>5. StreamRead'
  BY DEF StreamRead, Finished
<1>6. RestIsFuture' /\ RunInItsFrame'
  BY DEF RestIsFuture, RunInItsFrame
<1> QED BY <1>2, <1>3, <1>4, <1>5, <1>6, KeepLog

\* SendData reports the frame the game is in, and nothing else that is new.
LEMMA TransmitInv ==
  ASSUME FramesInv, NEW pending \in Seq(Input), Transmit(pending),
         current_frame <= Larger(t_available, 0) + 1, UNCHANGED t_available
  PROVE  /\ UpTypeOK'
         /\ \A p \in udp_up' : p.end <= Larger(t_available, 0) + 1
         /\ \A i \in 1..Len(tcp_up') : tcp_up'[i].end <= Larger(t_available, 0) + 1
<1> DEFINE packet == [batches |-> pending, end |-> current_frame]
           limit  == Larger(t_available, 0) + 1
<1>1. packet \in Transmission /\ packet.end = current_frame
  BY DEF Transmission, FramesInv, TypeOK, GameTypeOK
<1>2. /\ udp_up \subseteq Transmission /\ tcp_up \in Seq(Transmission)
      /\ \A p \in udp_up : p.end <= limit
      /\ \A i \in 1..Len(tcp_up) : tcp_up[i].end <= limit
  BY DEF FramesInv, TypeOK, UpTypeOK, NoGapAhead
<1>3. /\ send_buffer' = pending \/ send_buffer' = <<>>
      /\ udp_up' = udp_up \/ udp_up' = udp_up \cup {packet}
      /\ tcp_up' = tcp_up \/ tcp_up' = Append(tcp_up, packet)
  BY DEF Transmit
<1> HIDE DEF packet, limit
<1>4. send_buffer' \in Seq(Input) /\ udp_up' \subseteq Transmission /\ tcp_up' \in Seq(Transmission)
  <2>1. send_buffer' \in Seq(Input)
    <3>1. <<>> \in Seq(Input)
      OBVIOUS
    <3> QED BY <1>3, <3>1 DEF Input
  <2>2. udp_up' \subseteq Transmission
    BY <1>1, <1>2, <1>3
  <2>3. tcp_up' \in Seq(Transmission)
    BY <1>1, <1>2, <1>3
  <2> QED BY <2>1, <2>2, <2>3
<1>5. \A p \in udp_up' : p.end <= limit
  BY <1>1, <1>2, <1>3 DEF limit
<1>6. \A i \in 1..Len(tcp_up') : tcp_up'[i].end <= limit
  <2>1. CASE tcp_up' = tcp_up
    BY <2>1, <1>2
  <2>2. CASE tcp_up' = Append(tcp_up, packet)
    <3>1. ASSUME NEW i \in 1..Len(tcp_up')
          PROVE  (i \in 1..Len(tcp_up) /\ tcp_up'[i] = tcp_up[i]) \/ tcp_up'[i] = packet
      BY <2>2, <1>1, <1>2
    <3>2. packet.end <= limit
      BY <1>1 DEF limit
    <3> QED BY <3>1, <3>2, <1>2
  <2> QED BY <1>3, <2>1, <2>2
<1> QED BY <1>4, <1>5, <1>6 DEF UpTypeOK, limit

\* SyncData, wherever it is called from.
LEMMA SyncInv ==
  ASSUME FramesInv, Sync, npc' \in {"sync", "control"},
         UNCHANGED <<gameVars, current_frame, inputs, was_waiting, recvVars, acked_frame,
                     udp_packet_recd, connection, downVars, serverVars>>
  PROVE  FramesInv'
<1>1. CASE ~SessionOpen
  <2>1. UNCHANGED <<tempVars, sessionVars, submit_buffer, sendVars>>
    BY <1>1 DEF Sync
  <2>2. NetworkTypeOK'
    BY <2>1 DEF FramesInv, TypeOK, NetworkTypeOK
  <2>3. TypeOK'
    BY <2>1, <2>2, KeepGame, KeepDown, KeepUp, KeepServer, KeepFlags DEF FramesInv, TypeOK
  <2>4. NoGapAhead'
    BY <2>1 DEF FramesInv, NoGapAhead, InSession
  <2> QED BY <2>1, <2>3, <2>4, KeepGame, KeepLog, KeepStream, KeepDown DEF FramesInv
<1>2. CASE SessionOpen
  <2>1. /\ t_current' = current_frame /\ t_available' = t_available
        /\ t_remote' = Larger(t_remote, t_available)
        /\ available_frame' = t_available /\ remote_frame' = t_remote'
        /\ history' = history \o new_history /\ new_history' = <<>>
        /\ submit_buffer' = SubmitBufferAfter
        /\ SendData(Submitted) \/ UNCHANGED sendVars
    BY <1>2 DEF Sync, RemoteFrame
  <2>2. /\ Connected /\ gpc \in {"run", "wait"}
        /\ current_frame <= Larger(available_frame, 0) + 1
        /\ available_frame <= t_available
    BY <1>2 DEF SessionOpen, FramesInv, NoGapAhead, InSession
  <2>3. /\ current_frame \in Nat /\ available_frame \in Int /\ t_available \in Int
        /\ t_current \in Nat /\ current_frame <= MaxFrame
        /\ t_available \in -1..MaxFrame /\ t_remote \in -1..MaxFrame
        /\ history \in Seq(Batch) /\ new_history \in Seq(Batch)
        /\ next_message \in 0..Len(history)
    BY DEF FramesInv, TypeOK, GameTypeOK, NetworkTypeOK
  <2>4. current_frame <= Larger(t_available, 0) + 1
    BY <2>2, <2>3 DEF Larger
  <2>5. /\ history' \in Seq(Batch) /\ Len(history') = Len(history) + Len(new_history)
        /\ \A i \in 1..Len(history) : history'[i] = history[i]
        /\ \A i \in 1..Len(history') : i \notin 1..Len(history) =>
             i - Len(history) \in 1..Len(new_history) /\ history'[i] = new_history[i - Len(history)]
    BY <2>1, <2>3
  <2>6. UpTypeOK' /\ (\A p \in udp_up' : p.end <= Larger(t_available, 0) + 1)
                  /\ (\A i \in 1..Len(tcp_up') : tcp_up'[i].end <= Larger(t_available, 0) + 1)
    <3>1. CASE UNCHANGED sendVars
      BY <3>1, KeepUp DEF FramesInv, TypeOK, NoGapAhead
    <3>2. CASE SendData(Submitted)
      <4>1. Submitted \in Seq(Input)
        <5>1. send_buffer \in Seq(Input) /\ submit_buffer \in Seq(Frame)
          BY DEF FramesInv, TypeOK, UpTypeOK, GameTypeOK
        <5>2. NewFrame => [frame |-> current_frame, inputs |-> submit_buffer] \in Input
          BY <2>3, <5>1 DEF NewFrame, Input, Frame
        <5> QED BY <5>1, <5>2 DEF Submitted
      <4>2. PICK n \in 0..Len(Submitted) : Transmit(SubSeq(Submitted, n + 1, Len(Submitted)))
        BY <3>2 DEF SendData
      <4>3. SubSeq(Submitted, n + 1, Len(Submitted)) \in Seq(Input)
        BY <4>1
      <4> QED BY <2>1, <2>4, <4>2, <4>3, TransmitInv
    <3> QED BY <2>1, <3>1, <3>2
  <2>7. TypeOK'
    <3>1. GameTypeOK'
      <4>1. submit_buffer' \in Seq(Frame)
        BY <2>1 DEF SubmitBufferAfter, FramesInv, TypeOK, GameTypeOK
      <4>2. remote_frame' \in -1..MaxFrame
        BY <2>1, <2>3 DEF Larger
      <4>3. next_message' \in 0..Len(history')
        BY <2>3, <2>5
      <4> QED BY <2>1, <2>3, <2>5, <4>1, <4>2, <4>3 DEF FramesInv, TypeOK, GameTypeOK
    <3>2. NetworkTypeOK'
      <4>1. t_remote' \in -1..MaxFrame /\ new_history' \in Seq(Batch) /\ t_current' \in 0..MaxFrame
        BY <2>1, <2>3 DEF Larger
      <4> QED BY <2>1, <4>1 DEF FramesInv, TypeOK, NetworkTypeOK
    <3>3. FlagsTypeOK'
      <4>1. CASE UNCHANGED sendVars
        BY <4>1 DEF FramesInv, TypeOK, FlagsTypeOK
      <4>2. CASE SendData(Submitted)
        BY <4>2 DEF FramesInv, TypeOK, FlagsTypeOK, SendData, Transmit
      <4> QED BY <2>1, <4>1, <4>2
    <3> QED BY <2>6, <3>1, <3>2, <3>3, KeepDown, KeepServer DEF FramesInv, TypeOK
  <2>8. LogGrows' /\ StreamRead'
    BY <2>1, KeepDown, KeepStream DEF FramesInv
  <2>9. NoGapAhead'
    BY <2>1, <2>2, <2>3, <2>4, <2>6 DEF FramesInv, NoGapAhead, InSession, Larger
  <2>10. HistoryIsLog'
    <3>1. IsLog(busy, history, 0, available_frame) /\ IsLog(busy, new_history, available_frame, t_available)
      BY DEF FramesInv, HistoryIsLog
    <3>2. IsLog(busy, history', 0, t_available)
      <4>1. CASE 0 <= available_frame
        BY <2>1, <2>2, <2>3, <3>1, <4>1, BusyFacts, LogConcat
      <4>2. CASE available_frame < 0
        <5>1. Len(history) = 0
          BY <2>3, <3>1, <4>2, BatchFrame DEF IsLog
        <5>2. history' = new_history
          BY <2>1, <2>3, <5>1
        <5>3. \A g \in busy : available_frame < g /\ 0 < g
          BY <2>3, <4>2, BusyFacts
        <5> QED BY <3>1, <5>2, <5>3 DEF IsLog
      <4> QED BY <2>3, <4>1, <4>2
    <3>3. IsLog(busy, <<>>, t_available, t_available)
      BY <2>3, BusyFacts, LogEmpty
    <3> QED BY <2>1, <3>2, <3>3 DEF HistoryIsLog
  <2>11. RestIsFuture'
    <3>1. ASSUME NEW i \in (next_message + 1)..Len(history')
          PROVE  /\ gpc = "run" => history'[i].frame > current_frame
                 /\ gpc = "wait" => history'[i].frame >= current_frame
      <4>1. CASE i \in 1..Len(history)
        <5>1. i \in (next_message + 1)..Len(history)
          BY <2>3, <4>1
        <5> QED BY <2>5, <4>1, <5>1 DEF FramesInv, RestIsFuture
      <4>2. CASE i \notin 1..Len(history)
        <5> DEFINE k == i - Len(history)
        <5>1. k \in 1..Len(new_history) /\ history'[i] = new_history[k]
          BY <2>3, <2>5, <4>2
        <5>2. new_history[k].frame > available_frame /\ new_history[k].frame \in busy
          BY <5>1 DEF FramesInv, HistoryIsLog, IsLog
        <5>3. new_history[k].frame \in Int /\ new_history[k].frame >= 1
          BY <5>2, BusyFacts DEF Frame
        <5>4. gpc = "run" => available_frame >= current_frame \/ current_frame = 0
          BY <2>2 DEF FramesInv, RestIsFuture
        <5> QED BY <2>2, <2>3, <5>1, <5>2, <5>3, <5>4 DEF Larger
      <4> QED BY <4>1, <4>2
    <3>2. gpc = "run" => available_frame' >= current_frame \/ current_frame = 0
      BY <2>1, <2>2, <2>3 DEF FramesInv, RestIsFuture
    <3>3. gpc = "wait" => current_frame # 0
      BY DEF FramesInv, RestIsFuture
    <3> QED BY <2>1, <2>2, <3>1, <3>2, <3>3 DEF RestIsFuture
  <2>12. RunInItsFrame'
    <3>1. \A i \in 1..next_message : i \in 1..Len(history)
      BY <2>3
    <3> QED BY <2>5, <3>1 DEF FramesInv, RunInItsFrame
  <2> QED BY <2>7, <2>8, <2>9, <2>10, <2>11, <2>12 DEF FramesInv
<1> QED BY <1>1, <1>2

LEMMA SyncDataInv == FramesInv /\ SyncData => FramesInv'
  BY SyncInv DEF SyncData

LEMMA RecvDoneInv == FramesInv /\ RecvDone => FramesInv'
<1> SUFFICES ASSUME FramesInv, RecvDone PROVE FramesInv'
  OBVIOUS
<1>1. CASE Sync
  BY <1>1, SyncInv DEF RecvDone
<1>2. CASE UNCHANGED <<tempVars, sessionVars, submit_buffer, sendVars>>
  <2>1. UNCHANGED <<gameVars, current_frame, inputs, was_waiting, recvVars, acked_frame,
                    udp_packet_recd, connection, downVars, serverVars>> /\ npc' = "sync"
    BY DEF RecvDone
  <2>2. NetworkTypeOK'
    BY <1>2, <2>1 DEF FramesInv, TypeOK, NetworkTypeOK
  <2>3. TypeOK'
    BY <1>2, <2>1, <2>2, KeepGame, KeepDown, KeepUp, KeepServer, KeepFlags DEF FramesInv, TypeOK
  <2>4. NoGapAhead'
    BY <1>2, <2>1 DEF FramesInv, NoGapAhead, InSession
  <2> QED BY <1>2, <2>1, <2>3, <2>4, KeepGame, KeepLog, KeepStream, KeepDown DEF FramesInv
<1> QED BY <1>1, <1>2 DEF RecvDone

-----------------------------------------------------------------------------
(* The game thread.                                                        *)

LEMMA InitSessionInv == FramesInv /\ InitSession => FramesInv'
<1> SUFFICES ASSUME FramesInv, InitSession PROVE FramesInv'
  OBVIOUS
<1> USE DEF FramesInv, InitSession
<1>1. GameTypeOK'
  <2>1. applied_at = <<>>
    BY DEF TypeOK, GameTypeOK, RestIsFuture
  <2> QED BY <2>1, MaxFrameAssumption DEF TypeOK, GameTypeOK
<1>2. TypeOK'
  BY <1>1, KeepTemp, KeepDown, KeepUp, KeepServer, KeepFlags DEF TypeOK
<1>3. available_frame = -1 /\ history = <<>>
  BY DEF NoGapAhead, RestIsFuture
<1>4. NoGapAhead'
  BY <1>3 DEF NoGapAhead, InSession, Larger
<1>5. HistoryIsLog'
  BY <1>3 DEF HistoryIsLog
<1>6. RestIsFuture' /\ RunInItsFrame'
  BY DEF RestIsFuture, RunInItsFrame
<1> QED BY <1>2, <1>4, <1>5, <1>6, KeepStream, KeepDown

LEMMA GoLocalInv == FramesInv /\ GoLocal => FramesInv'
<1> SUFFICES ASSUME FramesInv, GoLocal PROVE FramesInv'
  OBVIOUS
<1> USE DEF FramesInv, GoLocal
<1>1. GameTypeOK'
  BY DEF TypeOK, GameTypeOK
<1>2. TypeOK'
  BY <1>1, KeepTemp, KeepDown, KeepUp, KeepServer, KeepFlags DEF TypeOK
<1>3. NoGapAhead'
  BY DEF NoGapAhead, InSession
<1>4. RestIsFuture' /\ RunInItsFrame'
  BY DEF RestIsFuture, RunInItsFrame
<1> QED BY <1>2, <1>3, <1>4, KeepLog, KeepStream, KeepDown

\* Running the history up to a frame that was the next to be run.
LEMMA RunHistoryInv ==
  ASSUME FramesInv, NEW frame \in Frame, RunHistory(frame),
         \A i \in (next_message + 1)..Len(history) : history[i].frame >= frame,
         UNCHANGED history
  PROVE  /\ next_message' \in 0..Len(history)
         /\ applied_at' \in Seq(Frame) /\ Len(applied_at') = next_message'
         /\ RunInItsFrame'
         /\ \A i \in (next_message' + 1)..Len(history) : history[i].frame > frame
<1>1. PICK n \in next_message..Len(history) :
        /\ UpTo(history, frame, n)
        /\ next_message' = n
        /\ applied_at' = [i \in 1..n |-> IF i <= next_message THEN applied_at[i] ELSE frame]
  BY DEF RunHistory
<1>2. /\ history \in Seq(Batch) /\ next_message \in 0..Len(history)
      /\ applied_at \in Seq(Frame) /\ Len(applied_at) = next_message
  BY DEF FramesInv, TypeOK, GameTypeOK
<1>3. n \in 0..Len(history)
  BY <1>1, <1>2
<1>4. \A i \in 1..Len(history) : history[i].frame \in Int
  BY <1>2, BatchFrame
<1>5. \A i \in 1..n : applied_at'[i] \in Frame
  BY <1>1, <1>2, <1>3
<1>6. applied_at' \in Seq(Frame) /\ Len(applied_at') = n
  BY <1>1, <1>3, <1>5
<1>7. ASSUME NEW i \in 1..n
      PROVE  applied_at'[i] = history[i].frame
  <2>1. CASE i <= next_message
    BY <1>1, <1>2, <2>1 DEF FramesInv, RunInItsFrame
  <2>2. CASE ~(i <= next_message)
    <3>1. i \in (next_message + 1)..Len(history) /\ i \in 1..Len(history)
      BY <1>2, <1>3, <2>2
    <3>2. history[i].frame <= frame /\ history[i].frame >= frame
      BY <1>1, <3>1 DEF UpTo
    <3>3. history[i].frame = frame
      BY <1>4, <3>1, <3>2 DEF Frame
    <3> QED BY <1>1, <2>2, <3>3
  <2> QED BY <2>1, <2>2
<1>8. ASSUME NEW i \in (n + 1)..Len(history)
      PROVE  history[i].frame > frame
  <2>1. n + 1 \in 1..Len(history) /\ i \in 1..Len(history) /\ n < Len(history)
    BY <1>2, <1>3
  <2>2. history[n + 1].frame > frame
    BY <1>1, <2>1 DEF UpTo
  <2>3. i = n + 1 \/ history[n + 1].frame < history[i].frame
    BY <2>1 DEF FramesInv, HistoryIsLog, IsLog
  <2> QED BY <1>4, <2>1, <2>2, <2>3 DEF Frame
<1> QED BY <1>1, <1>3, <1>6, <1>7, <1>8 DEF RunInItsFrame

LEMMA StartFrameInv == FramesInv /\ StartFrame => FramesInv'
<1> SUFFICES ASSUME FramesInv, StartFrame PROVE FramesInv'
  OBVIOUS
<1> USE DEF FramesInv
<1>1. /\ gpc = "run" /\ current_frame < MaxFrame /\ current_frame' = current_frame + 1
      /\ UNCHANGED <<sessionVars, loopVars, tempVars, recvVars, sendVars, acked_frame,
                     udp_packet_recd, connection, downVars, serverVars>>
  BY DEF StartFrame
<1>2. /\ current_frame \in Nat /\ current_frame' \in Frame /\ available_frame \in Int
      /\ t_available \in Int /\ history \in Seq(Batch)
      /\ next_message \in 0..Len(history)
  BY <1>1, MaxFrameAssumption DEF TypeOK, GameTypeOK, NetworkTypeOK, Frame
<1>3. submit_buffer' \in Seq(Frame) /\ inputs' \subseteq InputFrames
  <2>1. submit_buffer \in Seq(Frame) /\ inputs \subseteq InputFrames
    BY DEF TypeOK, GameTypeOK
  <2>2. CASE UNCHANGED inputVars
    BY <2>1, <2>2
  <2>3. CASE /\ current_frame' \in InputFrames
             /\ submit_buffer' = Append(submit_buffer, current_frame')
             /\ inputs' = inputs \cup {current_frame'}
    BY <1>2, <2>1, <2>3
  <2> QED BY <2>2, <2>3 DEF StartFrame
<1>4. \A i \in (next_message + 1)..Len(history) : history[i].frame >= current_frame'
  <2>1. ASSUME NEW i \in (next_message + 1)..Len(history)
        PROVE  history[i].frame \in Int /\ history[i].frame > current_frame
    <3>1. i \in 1..Len(history)
      BY <1>2
    <3> QED BY <1>1, <1>2, <3>1, BatchFrame DEF RestIsFuture
  <2> QED BY <1>1, <1>2, <2>1
<1>5. Connected => available_frame >= current_frame \/ current_frame = 0
  BY <1>1 DEF RestIsFuture
<1>6. NoGapAhead'
  <2>1. InSession' /\ Connected' => current_frame' <= Larger(available_frame, 0) + 1
    BY <1>1, <1>2, <1>5 DEF Larger
  <2>2. gpc' # "menu"
    BY <1>1 DEF StartFrame
  <2> QED BY <1>1, <2>1, <2>2 DEF NoGapAhead
<1>7. CASE FrameReady(current_frame') /\ RunHistory(current_frame') /\ UNCHANGED gpc
  <2>1. /\ next_message' \in 0..Len(history)
        /\ applied_at' \in Seq(Frame) /\ Len(applied_at') = next_message'
        /\ RunInItsFrame'
        /\ \A i \in (next_message' + 1)..Len(history) : history[i].frame > current_frame'
    BY <1>1, <1>2, <1>4, <1>7, RunHistoryInv
  <2>2. GameTypeOK'
    BY <1>1, <1>2, <1>3, <1>7, <2>1 DEF TypeOK, GameTypeOK, Frame
  <2>3. RestIsFuture'
    BY <1>1, <1>2, <1>7, <2>1 DEF RestIsFuture, FrameReady
  <2>4. TypeOK'
    BY <1>1, <2>2, KeepTemp, KeepDown, KeepUp, KeepServer, KeepFlags DEF TypeOK
  <2> QED BY <1>1, <1>6, <2>1, <2>3, <2>4, KeepLog, KeepStream, KeepDown
<1>8. CASE ~FrameReady(current_frame') /\ gpc' = "wait" /\ UNCHANGED <<applied_at, next_message>>
  <2>1. GameTypeOK'
    BY <1>1, <1>2, <1>3, <1>8 DEF TypeOK, GameTypeOK, Frame
  <2>2. RestIsFuture' /\ RunInItsFrame'
    BY <1>1, <1>2, <1>4, <1>8 DEF RestIsFuture, RunInItsFrame, Frame
  <2>3. TypeOK'
    BY <1>1, <2>1, KeepTemp, KeepDown, KeepUp, KeepServer, KeepFlags DEF TypeOK
  <2> QED BY <1>1, <1>6, <2>2, <2>3, KeepLog, KeepStream, KeepDown
<1> QED BY <1>7, <1>8 DEF StartFrame

LEMMA EndWaitInv == FramesInv /\ EndWait => FramesInv'
<1> SUFFICES ASSUME FramesInv, EndWait PROVE FramesInv'
  OBVIOUS
<1> USE DEF FramesInv, EndWait
<1>1. CASE current_frame = 0
  \* A game that waits has begun a frame.
  BY <1>1 DEF RestIsFuture
<1>2. CASE current_frame # 0
  <2>1. /\ current_frame \in Frame /\ available_frame \in Int /\ history \in Seq(Batch)
    BY <1>2, MaxFrameAssumption DEF TypeOK, GameTypeOK, Frame
  <2>2. \A i \in (next_message + 1)..Len(history) : history[i].frame >= current_frame
    BY DEF RestIsFuture
  <2>3. /\ next_message' \in 0..Len(history)
        /\ applied_at' \in Seq(Frame) /\ Len(applied_at') = next_message'
        /\ RunInItsFrame'
        /\ \A i \in (next_message' + 1)..Len(history) : history[i].frame > current_frame
    BY <2>1, <2>2, RunHistoryInv
  <2>4. GameTypeOK'
    BY <2>3 DEF TypeOK, GameTypeOK
  <2>5. TypeOK'
    BY <2>4, KeepTemp, KeepDown, KeepUp, KeepServer, KeepFlags DEF TypeOK
  <2>6. RestIsFuture'
    BY <2>1, <2>3 DEF RestIsFuture, FrameReady
  <2>7. NoGapAhead'
    BY DEF NoGapAhead, InSession
  <2> QED BY <2>3, <2>5, <2>6, <2>7, KeepLog, KeepStream, KeepDown
<1> QED BY <1>1, <1>2

-----------------------------------------------------------------------------
(* ReceiveData.                                                            *)

\* The slice at the head of the stream starts no later than the first frame
\* that is missing.
LEMMA HeadStartsInTime ==
  ASSUME FramesInv, tcp_down # <<>>
  PROVE  /\ Head(tcp_down) \in Slice
         /\ Head(tcp_down).start \in Nat /\ Head(tcp_down).end \in 0..MaxFrame
         /\ Head(tcp_down).end <= server_frame
         /\ \A g \in busy : g > t_available => Head(tcp_down).start <= g
<1>1. tcp_down \in Seq(Slice)
  BY DEF FramesInv, TypeOK, DownTypeOK
<1>2. Head(tcp_down) = tcp_down[1] /\ 1 \in 1..Len(tcp_down)
  BY <1>1
<1>3. /\ Head(tcp_down) \in Slice
      /\ Head(tcp_down).start \in Nat /\ Head(tcp_down).end \in 0..MaxFrame
  <2>1. tcp_down[1] \in Slice
    BY <1>1, <1>2
  <2>2. \A x \in Slice : x.start \in Nat /\ x.end \in 0..MaxFrame
    BY DEF Slice
  <2> QED BY <1>2, <2>1, <2>2
<1>4. Head(tcp_down).end <= server_frame /\ Head(tcp_down).start <= Larger(t_available, 0) + 1
  BY <1>2 DEF FramesInv, LogGrows, NoGapAhead
<1>5. \A g \in busy : g > t_available => Head(tcp_down).start <= g
  BY <1>3, <1>4, BusyFacts DEF Larger, Frame
<1> QED BY <1>3, <1>4, <1>5

\* At a frame_begin or frame_end the frame in progress joins new_history.
LEMMA FlushInv ==
  ASSUME FramesInv, Connected, ~MidFrame, FlushHistory
  PROVE  /\ new_history' \in Seq(Batch)
         /\ FlushAvailable \in -1..MaxFrame /\ FlushAvailable <= server_frame
         /\ t_available <= FlushAvailable /\ tcp_frame_index <= FlushAvailable
         /\ IsLog(busy, new_history', available_frame, FlushAvailable)
<1>1. /\ new_history \in Seq(Batch) /\ t_available \in -1..MaxFrame
      /\ tcp_frame_index \in Frame \cup {-1}
      /\ t_available <= server_frame /\ available_frame <= t_available
      /\ IsLog(busy, new_history, available_frame, t_available)
  BY DEF FramesInv, TypeOK, NetworkTypeOK, LogGrows, NoGapAhead, HistoryIsLog
<1>2. CASE ~Finished
  BY <1>1, <1>2, MaxFrameAssumption DEF FlushHistory, FlushAvailable, Finished, Larger, Frame
<1>3. CASE Finished
  <2> DEFINE e == [frame |-> tcp_frame_index, parts |-> 2]
  <2>1. /\ tcp_down # <<>> /\ tcp_frame_index \in busy /\ tcp_frame_index = tcp_pos
        /\ tcp_frame_in_progress = 2
    BY <1>3 DEF FramesInv, StreamRead
  <2>2. tcp_frame_index \in busy \cap Frame /\ tcp_frame_index <= server_frame
    BY <2>1, BusyFacts
  <2>3. t_available < tcp_frame_index
    BY <1>1, <1>3, <2>2 DEF Finished, Frame
  <2>4. ASSUME NEW g \in busy, t_available < g, g < tcp_frame_index
        PROVE  FALSE
    <3>1. g \in Int /\ Head(tcp_down).start <= g /\ g <= tcp_pos
      BY <1>1, <2>1, <2>2, <2>4, HeadStartsInTime, BusyFacts DEF Frame
    <3>2. g <= t_available \/ g = tcp_frame_index
      BY <2>1, <3>1 DEF FramesInv, StreamRead
    <3> QED BY <1>1, <2>2, <2>4, <3>1, <3>2 DEF Frame
  <2>5. <<e>> \in Seq(Batch) /\ IsLog(busy, <<e>>, t_available, tcp_frame_index)
    BY <1>1, <2>2, <2>3, <2>4, BusyFacts, LogOne
  <2>6. /\ tcp_frame_index \in Int /\ available_frame \in Int /\ t_available \in Int
        /\ t_available <= tcp_frame_index /\ busy \in SUBSET Int
    BY <2>2, <2>3, BusyFacts DEF Frame
  <2> HIDE DEF e
  <2>7. new_history \o <<e>> \in Seq(Batch)
        /\ IsLog(busy, new_history \o <<e>>, available_frame, tcp_frame_index)
    BY <1>1, <2>5, <2>6, LogConcat
  <2>8. new_history' = new_history \o <<e>>
    <3>1. new_history' = Append(new_history, e)
      BY <1>3, <2>1 DEF FlushHistory, e
    <3>2. e \in Batch
      BY <2>2 DEF Batch, e
    <3> QED BY <1>1, <3>1, <3>2
  <2>9. FlushAvailable = tcp_frame_index
    BY <1>1, <2>3, <2>6 DEF FlushAvailable, Larger
  <2> QED BY <1>1, <2>2, <2>3, <2>6, <2>7, <2>8, <2>9, MaxFrameAssumption DEF Frame
<1> QED BY <1>2, <1>3

LEMMA LargerGrows ==
  ASSUME NEW a \in Int, NEW b \in Int, a <= b
  PROVE  /\ Larger(a, 0) \in Int /\ Larger(b, 0) \in Int
         /\ Larger(a, 0) + 1 <= Larger(b, 0) + 1
  BY DEF Larger

\* NoGapAhead and LogGrows survive when more frames become available.
LEMMA MoreAvailable ==
  ASSUME FramesInv, t_available' \in Int, t_available <= t_available', t_available' <= server_frame,
         UNCHANGED <<gpc, current_frame, available_frame, t_current, connection,
                     udp_up, tcp_up>>,
         UNCHANGED serverVars
  PROVE  /\ (\A i \in 1..Len(tcp_down') : \E j \in 1..Len(tcp_down) : tcp_down'[i] = tcp_down[j])
               => NoGapAhead'
         /\ UNCHANGED <<tcp_down, tcp_pos>> /\ udp_down' \subseteq udp_down => LogGrows'
<1>1. t_available \in Int /\ available_frame \in Int
  BY BusyFacts
<1> DEFINE limit == Larger(t_available, 0) + 1
           next  == Larger(t_available', 0) + 1
<1>2. limit \in Int /\ next \in Int /\ limit <= next
  <2>1. t_available' \in Int /\ t_available <= t_available'
    OBVIOUS
  <2> QED BY <1>1, <2>1, LargerGrows
<1>3. ASSUME \A i \in 1..Len(tcp_down') : \E j \in 1..Len(tcp_down) : tcp_down'[i] = tcp_down[j]
      PROVE  NoGapAhead'
  <2>1. /\ available_frame <= t_available
        /\ gpc = "menu" => available_frame = -1 /\ current_frame = 0
        /\ InSession /\ Connected => current_frame <= Larger(available_frame, 0) + 1
        /\ t_current <= limit /\ server_seen <= limit
        /\ \A p \in udp_up : p.end <= limit
        /\ \A i \in 1..Len(tcp_up) : tcp_up[i].end <= limit
        /\ \A i \in 1..Len(tcp_down) : tcp_down[i].start <= limit
    BY DEF FramesInv, NoGapAhead
  <2> HIDE DEF limit, next
  <2>2. t_current \in Int /\ server_seen \in Int
    BY DEF FramesInv, TypeOK, NetworkTypeOK, ServerTypeOK
  <2>3. \A p \in udp_up : p.end \in Int
    BY DEF FramesInv, TypeOK, UpTypeOK, Transmission
  <2>4. \A i \in 1..Len(tcp_up) : tcp_up[i].end \in Int
    <3>1. \A i \in 1..Len(tcp_up) : tcp_up[i] \in Transmission
      BY DEF FramesInv, TypeOK, UpTypeOK
    <3>2. \A x \in Transmission : x.end \in Int
      BY DEF Transmission
    <3> QED BY <3>1, <3>2
  <2>5. \A i \in 1..Len(tcp_down) : tcp_down[i].start \in Int
    BY SliceFields DEF FramesInv, TypeOK, DownTypeOK
  <2>6. available_frame <= t_available'
    BY <1>1, <2>1
  <2>7. t_current <= next /\ server_seen <= next
    BY <1>2, <2>1, <2>2
  <2>8. \A p \in udp_up : p.end <= next
    BY <1>2, <2>1, <2>3
  <2>9. \A i \in 1..Len(tcp_up) : tcp_up[i].end <= next
    BY <1>2, <2>1, <2>4
  <2>10. \A i \in 1..Len(tcp_down) : tcp_down[i].start <= next
    BY <1>2, <2>1, <2>5
  <2>11. \A i \in 1..Len(tcp_down') : tcp_down'[i].start <= next
    BY <1>3, <2>10
  <2> QED BY <2>1, <2>6, <2>7, <2>8, <2>9, <2>11 DEF NoGapAhead, InSession, next
<1>4. ASSUME UNCHANGED <<tcp_down, tcp_pos>>, udp_down' \subseteq udp_down PROVE LogGrows'
  BY <1>4 DEF FramesInv, LogGrows
<1> QED BY <1>3, <1>4

LEMMA RecvTcpBeginInv == FramesInv /\ RecvTcpBegin => FramesInv'
<1> SUFFICES ASSUME FramesInv, RecvTcpBegin PROVE FramesInv'
  OBVIOUS
<1>1. /\ Connected /\ tcp_down # <<>> /\ ~MidFrame /\ tcp_part' = "messages"
      /\ UNCHANGED <<gameVars, current_frame, sessionVars, inputVars, loopVars,
                     t_current, t_remote, sendVars, acked_frame, udp_packet_recd,
                     connection, udp_down, tcp_down, control_down, serverVars>>
  BY DEF RecvTcpBegin
<1>2. PICK f \in Frame :
        /\ NextOnStream(f) /\ FlushHistory
        /\ t_available' = FlushAvailable /\ tcp_frame_index' = f
        /\ tcp_frame_in_progress' = InProgress(f) /\ tcp_pos' = f
  BY DEF RecvTcpBegin
<1>3. f \in busy /\ f \in Int /\ f <= server_frame
  BY <1>2, BusyFacts DEF NextOnStream, Frame
<1>4. /\ new_history' \in Seq(Batch)
      /\ t_available' \in -1..MaxFrame /\ t_available' <= server_frame
      /\ t_available <= t_available' /\ tcp_frame_index <= t_available'
      /\ IsLog(busy, new_history', available_frame, t_available')
  BY <1>1, <1>2, FlushInv
<1>5. t_available' \in Int /\ t_available \in Int /\ tcp_frame_index \in Int /\ tcp_pos \in Int
  BY <1>4, MaxFrameAssumption DEF FramesInv, TypeOK, NetworkTypeOK, DownTypeOK, Frame
<1>6. TypeOK'
  <2>1. NetworkTypeOK'
    <3>1. tcp_frame_in_progress' \in 0..2
      BY <1>2 DEF InProgress
    <3> QED BY <1>1, <1>2, <1>4, <3>1 DEF FramesInv, TypeOK, NetworkTypeOK
  <2>2. DownTypeOK'
    BY <1>1, <1>2 DEF FramesInv, TypeOK, DownTypeOK, Frame
  <2> QED BY <1>1, <2>1, <2>2, KeepGame, KeepUp, KeepServer, KeepFlags DEF FramesInv, TypeOK
<1>7. LogGrows'
  BY <1>1, <1>2, <1>3, <1>4 DEF FramesInv, LogGrows
<1>8. NoGapAhead'
  BY <1>1, <1>4, <1>5, MoreAvailable
<1>9. StreamRead'
  <2>1. ASSUME NEW g \in busy, Head(tcp_down).start <= g, g <= f
        PROVE  g <= t_available' \/ g = f
    <3>1. g \in Int
      BY BusyFacts
    <3>2. CASE g > tcp_pos
      <4>1. f <= g
        BY <1>2, <2>1, <3>2 DEF NextOnStream
      <4> QED BY <1>3, <2>1, <3>1, <4>1
    <3>3. CASE g <= tcp_pos
      <4>1. g <= t_available \/ g = tcp_frame_index
        BY <1>1, <2>1, <3>3 DEF FramesInv, StreamRead
      <4> QED BY <1>4, <1>5, <3>1, <4>1
    <3> QED BY <1>5, <3>1, <3>2, <3>3
  <2>2. Finished' => tcp_frame_in_progress' = 1
    BY <1>2 DEF Finished, InProgress
  <2> QED BY <1>1, <1>2, <1>3, <2>1, <2>2 DEF StreamRead
<1>10. HistoryIsLog'
  BY <1>1, <1>4 DEF FramesInv, HistoryIsLog
<1> QED BY <1>1, <1>6, <1>7, <1>8, <1>9, <1>10, KeepGame DEF FramesInv

LEMMA RecvTcpMessagesInv == FramesInv /\ RecvTcpMessages => FramesInv'
<1> SUFFICES ASSUME FramesInv, RecvTcpMessages PROVE FramesInv'
  OBVIOUS
<1>1. /\ Connected /\ MidFrame /\ tcp_part' = "frame_begin"
      /\ tcp_frame_in_progress' = IF Finished THEN tcp_frame_in_progress + 1
                                              ELSE tcp_frame_in_progress
      /\ UNCHANGED <<gameVars, current_frame, sessionVars, inputVars, loopVars, tempVars,
                     tcp_frame_index, sendVars, acked_frame, udp_packet_recd, connection,
                     udp_down, tcp_down, tcp_pos, control_down, serverVars>>
  BY DEF RecvTcpMessages
<1>2. Finished => tcp_frame_in_progress = 1
  BY <1>1 DEF FramesInv, StreamRead
<1>3. tcp_frame_in_progress' \in 0..2 /\ (Finished => tcp_frame_in_progress' = 2)
  BY <1>1, <1>2 DEF FramesInv, TypeOK, NetworkTypeOK
<1>4. TypeOK'
  <2>1. NetworkTypeOK' /\ DownTypeOK'
    BY <1>1, <1>3 DEF FramesInv, TypeOK, NetworkTypeOK, DownTypeOK
  <2> QED BY <1>1, <2>1, KeepGame, KeepUp, KeepServer, KeepFlags DEF FramesInv, TypeOK
<1>5. LogGrows' /\ NoGapAhead'
  BY <1>1 DEF FramesInv, LogGrows, NoGapAhead, InSession
<1>6. StreamRead'
  BY <1>1, <1>3 DEF FramesInv, StreamRead, Finished
<1> QED BY <1>1, <1>4, <1>5, <1>6, KeepGame, KeepLog DEF FramesInv

\* A set of natural numbers that is not empty has a least element.
LEMMA LeastElement ==
  ASSUME NEW S \in SUBSET Nat, S # {}
  PROVE  \E m \in S : \A k \in S : m <= k
<1> DEFINE R == OpToRel(<, Nat)
<1>1. IsWellFoundedOn(R, Nat)
  BY NatLessThanWellFounded
<1>2. \A x, y \in Nat : <<y, x>> \in R <=> y < x
  BY DEF OpToRel
<1> HIDE DEF R
<1>3. PICK x \in S : \A y \in S : ~ (<<y, x>> \in R)
  BY <1>1, WFMin
<1>4. ASSUME NEW y \in S PROVE x <= y
  <2>1. x \in Nat /\ y \in Nat
    OBVIOUS
  <2>2. ~(y < x)
    BY <1>2, <1>3, <2>1
  <2> QED BY <2>1, <2>2
<1> QED BY <1>4

LEMMA RecvTcpEndInv == FramesInv /\ RecvTcpEnd => FramesInv'
<1> SUFFICES ASSUME FramesInv, RecvTcpEnd PROVE FramesInv'
  OBVIOUS
<1> DEFINE slice == Head(tcp_down)
<1>1. /\ Connected /\ tcp_down # <<>> /\ ~MidFrame
      /\ ~\E f \in Frame : NextOnStream(f)
      /\ FlushHistory /\ t_available' = Larger(FlushAvailable, slice.end)
      /\ tcp_frame_index' = -1 /\ tcp_frame_in_progress' = 0
      /\ tcp_down' = Tail(tcp_down) /\ tcp_pos' = 0
      /\ UNCHANGED <<gameVars, current_frame, sessionVars, inputVars, loopVars,
                     t_current, t_remote, sendVars, acked_frame, udp_packet_recd,
                     connection, udp_down, tcp_part, control_down, serverVars>>
  BY DEF RecvTcpEnd, EndAvailable
<1>2. /\ new_history' \in Seq(Batch)
      /\ FlushAvailable \in -1..MaxFrame /\ FlushAvailable <= server_frame
      /\ t_available <= FlushAvailable /\ tcp_frame_index <= FlushAvailable
      /\ IsLog(busy, new_history', available_frame, FlushAvailable)
  BY <1>1, FlushInv
<1>3. /\ slice.start \in Nat /\ slice.end \in 0..MaxFrame /\ slice.end <= server_frame
      /\ \A g \in busy : g > t_available => slice.start <= g
  BY <1>1, HeadStartsInTime
<1>4. /\ FlushAvailable \in Int /\ t_available \in Int /\ tcp_frame_index \in Int /\ tcp_pos \in Int
      /\ available_frame \in Int /\ slice.end \in Int
  BY <1>2, <1>3, BusyFacts DEF FramesInv, TypeOK, NetworkTypeOK, DownTypeOK, Frame
<1>5. ASSUME NEW g \in busy, FlushAvailable < g, g <= slice.end
      PROVE  FALSE
  <2> DEFINE S == {h \in busy : h > tcp_pos /\ slice.start <= h}
  <2>1. g \in Int /\ g > t_available /\ slice.start <= g
    BY <1>2, <1>3, <1>4, <1>5, BusyFacts
  <2>2. g > tcp_pos
    <3>1. CASE g <= tcp_pos
      <4>1. g <= t_available \/ g = tcp_frame_index
        BY <1>1, <2>1, <3>1 DEF FramesInv, StreamRead
      <4> QED BY <1>2, <1>4, <1>5, <2>1, <4>1
    <3> QED BY <1>4, <2>1, <3>1
  <2>3. S \in SUBSET Nat /\ g \in S
    <3>1. \A h \in busy : h \in Nat
      BY BusyFacts DEF Frame
    <3> QED BY <2>1, <2>2, <3>1
  <2>4. PICK f \in S : \A h \in S : f <= h
    <3> HIDE DEF S
    <3> QED BY <2>3, LeastElement
  <2>5. f \in busy /\ f \in Frame /\ f > tcp_pos /\ slice.start <= f
    BY <2>4, BusyFacts
  <2>6. f <= slice.end
    <3>1. f \in Int /\ f <= g
      BY <2>3, <2>4, <2>5 DEF Frame
    <3> QED BY <1>4, <1>5, <2>1, <3>1
  <2>7. NextOnStream(f)
    BY <2>4, <2>5, <2>6 DEF NextOnStream
  <2> QED BY <1>1, <2>5, <2>7
<1>6. /\ t_available' \in -1..MaxFrame /\ t_available' <= server_frame
      /\ t_available' \in Int
      /\ t_available <= t_available' /\ FlushAvailable <= t_available'
  BY <1>1, <1>2, <1>3, <1>4, BusyFacts DEF Larger
<1>7. IsLog(busy, new_history', available_frame, t_available')
  <2>1. \A g \in busy : ~(FlushAvailable < g /\ g <= t_available')
    BY <1>1, <1>4, <1>5, BusyFacts DEF Larger
  <2> QED BY <1>2, <1>4, <1>6, <2>1, BusyFacts, LogExtend
<1>8. /\ tcp_down \in Seq(Slice) /\ tcp_down' \in Seq(Slice)
      /\ \A i \in 1..Len(tcp_down') : i + 1 \in 1..Len(tcp_down) /\ tcp_down'[i] = tcp_down[i + 1]
  <2>1. tcp_down \in Seq(Slice)
    BY DEF FramesInv, TypeOK, DownTypeOK
  <2> QED BY <1>1, <2>1
<1>9. TypeOK'
  <2>1. NetworkTypeOK'
    BY <1>1, <1>2, <1>6 DEF FramesInv, TypeOK, NetworkTypeOK
  <2>2. DownTypeOK'
    BY <1>1, <1>8, MaxFrameAssumption DEF FramesInv, TypeOK, DownTypeOK
  <2> QED BY <1>1, <2>1, <2>2, KeepGame, KeepUp, KeepServer, KeepFlags DEF FramesInv, TypeOK
<1>10. LogGrows'
  <2>1. server_frame \in Nat
    BY BusyFacts
  <2>2. \A i \in 1..Len(tcp_down') : tcp_down'[i].end <= server_frame
    BY <1>8 DEF FramesInv, LogGrows
  <2> QED BY <1>1, <1>6, <2>1, <2>2 DEF FramesInv, LogGrows
<1>11. NoGapAhead'
  BY <1>1, <1>6, <1>8, MoreAvailable
<1>12. StreamRead'
  <2>1. \A g \in busy : ~(g <= 0)
    BY BusyFacts
  <2>2. ~Finished'
    BY <1>1, <1>6 DEF Finished
  <2> QED BY <1>1, <2>1, <2>2 DEF StreamRead
<1>13. HistoryIsLog'
  BY <1>1, <1>7 DEF FramesInv, HistoryIsLog
<1> QED BY <1>1, <1>9, <1>10, <1>11, <1>12, <1>13, KeepGame DEF FramesInv

\* What is new in a datagram that starts no later than the first frame that is
\* missing is the log from there to its end.
LEMMA NewsIsLog ==
  ASSUME FramesInv, NEW p \in Slice, p.start <= t_available + 1, t_available < p.end,
         NEW news \in InOrder(NewFrames(p))
  PROVE  LET batches == [i \in DOMAIN news |-> [frame |-> news[i], parts |-> 2]]
         IN  batches \in Seq(Batch) /\ IsLog(busy, batches, t_available, p.end)
<1> DEFINE batches == [i \in DOMAIN news |-> [frame |-> news[i], parts |-> 2]]
           S == NewFrames(p)
           n == Cardinality(S)
<1>1. p.start \in Int /\ p.end \in Int /\ t_available \in Int
  BY BusyFacts DEF Slice
<1>2. n \in Nat
  <2>1. S \in SUBSET (1..MaxFrame)
    BY BusyFacts DEF NewFrames, Frame
  <2>2. IsFiniteSet(1..MaxFrame)
    BY FS_Interval, MaxFrameAssumption
  <2>3. IsFiniteSet(S)
    BY <2>1, <2>2, FS_Subset
  <2> QED BY <2>3, FS_CardinalityType
<1>3. news \in [1..n -> S] /\ Range(news) = S /\ \A i, j \in DOMAIN news : i < j => news[i] < news[j]
  BY DEF InOrder
<1>4. \A f \in S : f \in busy /\ f \in Frame /\ t_available < f /\ f <= p.end
  BY <1>1, BusyFacts DEF NewFrames
<1>5. \A f \in busy : t_available < f /\ f <= p.end => f \in S
  BY <1>1, BusyFacts DEF NewFrames
<1> HIDE DEF S, n
<1>6. \A f \in S : [frame |-> f, parts |-> 2] \in Batch
  BY <1>4 DEF Batch
<1>7. batches \in Seq(Batch) /\ Len(batches) = n
  BY <1>2, <1>3, <1>6
<1>8. \A i \in 1..n : batches[i].frame = news[i] /\ batches[i].parts = 2 /\ news[i] \in S
  BY <1>3
<1>9. ASSUME NEW f \in busy, t_available < f, f <= p.end
      PROVE  \E i \in 1..n : batches[i].frame = f
  <2>1. f \in Range(news)
    BY <1>3, <1>5, <1>9
  <2> QED BY <1>3, <2>1 DEF Range
<1>10. \A i, j \in 1..n : i < j => batches[i].frame < batches[j].frame
  BY <1>3
<1> HIDE DEF batches
<1>11. IsLog(busy, batches, t_available, p.end)
  BY <1>4, <1>7, <1>8, <1>9, <1>10 DEF IsLog
<1> QED BY <1>7, <1>11 DEF batches

LEMMA RecvUdpInv == FramesInv /\ RecvUdp => FramesInv'
<1> SUFFICES ASSUME FramesInv, RecvUdp PROVE FramesInv'
  OBVIOUS
<1>1. /\ Connected /\ udp_packet_recd' = TRUE
      /\ UNCHANGED <<gameVars, current_frame, sessionVars, inputVars, loopVars,
                     t_current, t_remote, recvVars, sendVars, connection, tcp_down,
                     tcp_pos, tcp_part, control_down, serverVars>>
  BY DEF RecvUdp
<1>2. PICK p \in udp_down :
        /\ udp_down' \in {udp_down, udp_down \ {p}} /\ acked_frame' = p.start
        /\ \/ UNCHANGED <<new_history, t_available>>
           \/ /\ p.start <= t_available + 1
              /\ \E news \in InOrder(NewFrames(p)) :
                   new_history' = new_history \o
                     [i \in DOMAIN news |-> [frame |-> news[i], parts |-> 2]]
              /\ t_available' = Larger(t_available, p.end)
  BY DEF RecvUdp
<1>3. /\ p \in Slice /\ p.start \in 0..(MaxFrame + 1) /\ p.end \in 0..MaxFrame
      /\ p.end <= server_frame /\ udp_down' \subseteq udp_down
  BY <1>2 DEF FramesInv, TypeOK, DownTypeOK, LogGrows, Slice
<1>4. /\ t_available \in -1..MaxFrame /\ t_available \in Int /\ available_frame \in Int
      /\ available_frame <= t_available /\ t_available <= server_frame
      /\ new_history \in Seq(Batch) /\ server_frame \in Int
      /\ IsLog(busy, new_history, available_frame, t_available)
  BY BusyFacts DEF FramesInv, TypeOK, NetworkTypeOK, LogGrows, NoGapAhead, HistoryIsLog
<1>5. /\ new_history' \in Seq(Batch)
      /\ t_available' \in -1..MaxFrame /\ t_available' <= server_frame
      /\ t_available <= t_available' /\ t_available' \in Int
      /\ IsLog(busy, new_history', available_frame, t_available')
  <2>1. CASE UNCHANGED <<new_history, t_available>>
    BY <1>4, <2>1
  <2>2. CASE /\ p.start <= t_available + 1 /\ t_available' = Larger(t_available, p.end)
             /\ \E news \in InOrder(NewFrames(p)) :
                  new_history' = new_history \o
                    [i \in DOMAIN news |-> [frame |-> news[i], parts |-> 2]]
    <3>1. PICK news \in InOrder(NewFrames(p)) :
            new_history' = new_history \o
              [i \in DOMAIN news |-> [frame |-> news[i], parts |-> 2]]
      BY <2>2
    <3>2. CASE t_available < p.end
      <4> DEFINE batches == [i \in DOMAIN news |-> [frame |-> news[i], parts |-> 2]]
      <4>1. batches \in Seq(Batch) /\ IsLog(busy, batches, t_available, p.end)
        BY <1>3, <2>2, <3>2, NewsIsLog
      <4>2. new_history' = new_history \o batches
        BY <3>1
      <4> HIDE DEF batches
      <4>3. /\ t_available' = p.end /\ p.end \in Int /\ t_available <= p.end
            /\ busy \in SUBSET Int
        BY <1>3, <1>4, <2>2, <3>2, BusyFacts DEF Larger
      <4>4. new_history' \in Seq(Batch) /\ IsLog(busy, new_history', available_frame, p.end)
        BY <1>4, <4>1, <4>2, <4>3, LogConcat
      <4> QED BY <1>3, <4>3, <4>4
    <3>3. CASE ~(t_available < p.end)
      <4>1. t_available' = t_available
        BY <1>3, <1>4, <2>2, <3>3 DEF Larger
      <4>2. NewFrames(p) = {}
        BY <1>3, <1>4, <3>3, BusyFacts DEF NewFrames
      <4>3. Cardinality(NewFrames(p)) = 0
        BY <4>2, FS_EmptySet
      <4>4. news \in [1..0 -> {}]
        BY <4>2, <4>3 DEF InOrder
      <4>5. [i \in DOMAIN news |-> [frame |-> news[i], parts |-> 2]] = <<>>
        BY <4>4
      <4>6. new_history' = new_history
        BY <1>4, <3>1, <4>5
      <4> QED BY <1>4, <4>1, <4>6
    <3> QED BY <3>2, <3>3
  <2> QED BY <1>2, <2>1, <2>2
<1>6. TypeOK'
  <2>1. NetworkTypeOK'
    <3>1. acked_frame' \in -1..(MaxFrame + 1)
      BY <1>2, <1>3, MaxFrameAssumption
    <3> QED BY <1>1, <1>5, <3>1 DEF FramesInv, TypeOK, NetworkTypeOK
  <2>2. DownTypeOK' /\ FlagsTypeOK'
    BY <1>1, <1>3 DEF FramesInv, TypeOK, DownTypeOK, FlagsTypeOK
  <2> QED BY <1>1, <2>1, <2>2, KeepGame, KeepUp, KeepServer DEF FramesInv, TypeOK
<1>7. LogGrows' /\ NoGapAhead'
  BY <1>1, <1>3, <1>5, MoreAvailable
<1>8. StreamRead'
  <2>1. Finished' => Finished
    BY <1>1, <1>4, <1>5 DEF Finished, FramesInv, TypeOK, NetworkTypeOK, Frame
  <2>2. \A g \in busy : g <= t_available => g <= t_available'
    BY <1>4, <1>5, BusyFacts
  <2> QED BY <1>1, <2>1, <2>2 DEF FramesInv, StreamRead
<1>9. HistoryIsLog'
  BY <1>1, <1>5 DEF FramesInv, HistoryIsLog
<1> QED BY <1>1, <1>6, <1>7, <1>8, <1>9, KeepGame DEF FramesInv

-----------------------------------------------------------------------------
(* The theorems.                                                           *)

LEMMA NextInv == FramesInv /\ [Next]_vars => FramesInv'
<1> SUFFICES ASSUME FramesInv, [Next]_vars PROVE FramesInv'
  OBVIOUS
<1>1. CASE GameThread
  BY <1>1, InitSessionInv, StartFrameInv, EndWaitInv, GoLocalInv DEF GameThread
<1>2. CASE SyncData \/ Control \/ RecvDone \/ HangUp
  BY <1>2, SyncDataInv, ControlInv, RecvDoneInv, HangUpInv
<1>3. CASE Receive
  BY <1>3, RecvTcpBeginInv, RecvTcpMessagesInv, RecvTcpEndInv, RecvUdpInv DEF Receive
<1>4. CASE Server
  BY <1>4, ServerTickInv, ServerSendUdpInv, ServerSendTcpInv, ServerSendControlInv,
     ServerRecvUdpInv, ServerRecvTcpInv DEF Server
<1>5. CASE LoseDatagram
  BY <1>5, LoseDatagramInv
<1>6. CASE UNCHANGED vars
  <2>1. /\ UNCHANGED <<gameVars, current_frame, sessionVars, inputVars>>
        /\ UNCHANGED <<loopVars, tempVars, recvVars, sendVars, acked_frame>>
        /\ UNCHANGED <<udp_packet_recd, connection, downVars, serverVars>>
    BY <1>6 DEF vars
  <2>2. TypeOK'
    BY <2>1, KeepGame, KeepTemp, KeepDown, KeepUp, KeepServer, KeepFlags DEF FramesInv, TypeOK
  <2>3. NoGapAhead'
    BY <2>1 DEF FramesInv, NoGapAhead, InSession
  <2> QED BY <2>1, <2>2, <2>3, KeepGame, KeepLog, KeepStream, KeepDown DEF FramesInv
<1> QED BY <1>1, <1>2, <1>3, <1>4, <1>5, <1>6 DEF Next, NetworkThread

\* The inductive invariant: the types, the growth of the server's log, and the
\* account of where each part of it is between the server and the game.
THEOREM FramesInvariant == Spec => []FramesInv
<1> QED BY InitInv, NextInv, PTL DEF Spec

\* Every shared and private variable keeps the values its declaration allows.
THEOREM TypeCorrect == Spec => []TypeOK
<1>1. FramesInv => TypeOK
  BY DEF FramesInv
<1> QED BY <1>1, FramesInvariant, PTL

\* However datagrams are lost, repeated and reordered, and wherever TCP and UDP
\* overlap, SyncData and ReceiveData keep g_session.history the server's log.
THEOREM HistoryCorrect == Spec => []HistoryIsLog
<1>1. FramesInv => HistoryIsLog
  BY DEF FramesInv
<1> QED BY <1>1, FramesInvariant, PTL

\* ClientFrameSync runs every batch in the frame it belongs to.
THEOREM RunCorrect == Spec => []RunInItsFrame
<1>1. FramesInv => RunInItsFrame
  BY DEF FramesInv
<1> QED BY <1>1, FramesInvariant, PTL

\* What SendData reports to the server is at most a frame ahead of what the
\* client has received without a gap.
THEOREM ReportCorrect == Spec => []ReportsWhatItHas
<1>1. FramesInv => ReportsWhatItHas
  BY DEF FramesInv, NoGapAhead, ReportsWhatItHas
<1> QED BY <1>1, FramesInvariant, PTL

-----------------------------------------------------------------------------
(* NetFrames implements NetLockstep: whatever the channels do to frames,   *)
(* and whenever the connection is lost, the game plays in lockstep.        *)

\* The last frame played, and the frames whose messages have been run, as the
\* refinement mapping has them.
Played == IF gpc = "wait" THEN current_frame - 1 ELSE current_frame
HasRun == [i \in 1..next_message |-> history[i].frame]

\* What has been run belongs to the frames that have been played.
RunIsPast == \A i \in 1..next_message : history[i].frame <= Played

LockInv == FramesInv /\ RunIsPast

LEMMA LockFacts ==
  ASSUME LockInv
  PROVE  /\ current_frame \in 0..MaxFrame /\ next_message \in 0..Len(history)
         /\ Len(history) \in Nat /\ MaxFrame \in Nat
         /\ available_frame \in Int /\ available_frame <= server_frame
         /\ server_frame \in 0..MaxFrame
         /\ \A i \in 1..Len(history) :
              /\ history[i].frame \in Int /\ history[i].frame \in busy
              /\ history[i].frame <= available_frame
         /\ \A i, j \in 1..Len(history) : i < j => history[i].frame < history[j].frame
         /\ \A f \in busy : f \in Frame
         /\ \A f \in busy : f <= available_frame => \E i \in 1..Len(history) : history[i].frame = f
<1>1. /\ current_frame \in 0..MaxFrame /\ next_message \in 0..Len(history)
      /\ history \in Seq(Batch) /\ MaxFrame \in Nat
      /\ available_frame \in -1..MaxFrame /\ t_available \in -1..MaxFrame
      /\ server_frame \in 0..MaxFrame
  BY MaxFrameAssumption DEF LockInv, FramesInv, TypeOK, GameTypeOK, NetworkTypeOK, ServerTypeOK
<1>2. available_frame <= t_available /\ t_available <= server_frame
  BY DEF LockInv, FramesInv, LogGrows, NoGapAhead
<1>3. IsLog(busy, history, 0, available_frame)
  BY DEF LockInv, FramesInv, HistoryIsLog
<1>4. \A i \in 1..Len(history) : history[i].frame \in Int
  BY <1>1, BatchFrame
<1>5. \A f \in busy : f \in Frame /\ 1 <= f
  BY BusyFacts DEF LockInv
<1>6. Len(history) \in Nat
  BY <1>1
<1>7. \A f \in busy : f <= available_frame => \E i \in 1..Len(history) : history[i].frame = f
  <2> TAKE f \in busy
  <2>1. 0 < f
    BY <1>5 DEF Frame
  <2> QED BY <1>3, <2>1 DEF IsLog
<1>8. \A i \in 1..Len(history) : history[i].frame \in busy /\ history[i].frame <= available_frame
  BY <1>3 DEF IsLog
<1>9. \A i, j \in 1..Len(history) : i < j => history[i].frame < history[j].frame
  BY <1>3 DEF IsLog
<1> QED BY <1>1, <1>2, <1>4, <1>5, <1>6, <1>7, <1>8, <1>9

\* What RunHistory takes off the history: the batch of the frame being played,
\* if the server has put one in it and it is there.
LEMMA RunOne ==
  ASSUME LockInv, InSession, UNCHANGED history,
         NEW frame \in Frame, frame = Played + 1, RunHistory(frame)
  PROVE  /\ next_message' \in next_message..Len(history)
         /\ \A i \in 1..next_message' : history[i].frame <= frame
         /\ FrameReady(frame) => HasRun' = IF frame \in busy THEN Append(HasRun, frame) ELSE HasRun
         /\ ~FrameReady(frame) => HasRun' = HasRun
<1>1. PICK n \in next_message..Len(history) : UpTo(history, frame, n) /\ next_message' = n
  BY DEF RunHistory
<1>2. /\ next_message \in 0..Len(history) /\ Len(history) \in Nat /\ n \in Nat
      /\ current_frame \in Int /\ frame \in Int /\ available_frame \in Int
      /\ next_message \in Nat /\ next_message <= n /\ n <= Len(history)
  BY <1>1, LockFacts DEF Frame
<1>3. \A i \in 1..Len(history) : history[i].frame \in Int
  BY LockFacts
<1>4. \A i \in 1..n : i \in 1..Len(history) /\ history[i].frame <= frame
  BY <1>1, <1>2 DEF UpTo
<1>5. \A i \in 1..next_message : i \in 1..Len(history) /\ history[i].frame < frame
  BY <1>2, <1>3 DEF LockInv, RunIsPast, Played
<1>6. \A i \in (next_message + 1)..n : i \in 1..Len(history) /\ history[i].frame = frame
  <2> TAKE i \in (next_message + 1)..n
  <2>1. i \in 1..n /\ i \in 1..Len(history) /\ i \in (next_message + 1)..Len(history)
    BY <1>2
  <2>2. gpc = "run" => history[i].frame > current_frame
    BY <2>1 DEF LockInv, FramesInv, RestIsFuture
  <2>3. gpc = "wait" => history[i].frame >= current_frame
    BY <2>1 DEF LockInv, FramesInv, RestIsFuture
  <2>4. history[i].frame >= frame
    BY <1>2, <1>3, <2>1, <2>2, <2>3 DEF InSession, Played
  <2> QED BY <1>2, <1>3, <1>4, <2>1, <2>4
<1>7. n = next_message \/ n = next_message + 1
  <2>1. SUFFICES ASSUME n > next_message + 1 PROVE FALSE
    BY <1>2
  <2>2. next_message + 1 \in 1..Len(history) /\ next_message + 2 \in 1..Len(history)
    BY <1>2, <2>1
  <2>3. history[next_message + 1].frame < history[next_message + 2].frame
    BY <1>2, <2>2, LockFacts
  <2>4. history[next_message + 1].frame = frame /\ history[next_message + 2].frame = frame
    BY <1>2, <1>6, <2>1
  <2> QED BY <1>2, <2>3, <2>4
<1>8. n = next_message + 1 => frame \in busy /\ FrameReady(frame)
  <2>1. ASSUME n = next_message + 1
        PROVE  n \in 1..Len(history) /\ history[n].frame = frame
    BY <1>2, <1>6, <2>1
  <2>2. ASSUME n = next_message + 1
        PROVE  frame \in busy /\ frame <= available_frame
    BY <2>1, <2>2, LockFacts
  <2> QED BY <1>2, <2>2 DEF FrameReady
<1>9. FrameReady(frame) /\ frame \in busy => n = next_message + 1
  <2>1. SUFFICES ASSUME FrameReady(frame), frame \in busy, n = next_message PROVE FALSE
    BY <1>7
  <2>2. frame <= available_frame
    BY <1>2, <2>1 DEF FrameReady
  <2>3. PICK i \in 1..Len(history) : history[i].frame = frame
    BY <2>1, <2>2, LockFacts
  <2>4. i > n
    BY <1>2, <1>3, <1>5, <2>1, <2>3
  <2>5. n + 1 \in 1..Len(history) /\ history[n + 1].frame > frame
    BY <1>1, <1>2, <2>4 DEF UpTo
  <2>6. i = n + 1 \/ history[n + 1].frame < history[i].frame
    BY <1>2, <2>3, <2>4, <2>5, LockFacts
  <2> QED BY <1>2, <1>3, <2>3, <2>5, <2>6
<1>10. n = next_message => HasRun' = HasRun
  BY <1>1 DEF HasRun
<1>11. n = next_message + 1 => HasRun' = Append(HasRun, frame)
  <2>1. SUFFICES ASSUME n = next_message + 1 PROVE HasRun' = Append(HasRun, frame)
    OBVIOUS
  <2>2. HasRun' = [i \in 1..n |-> history[i].frame]
    BY <1>1 DEF HasRun
  <2>3. history[n].frame = frame
    BY <1>2, <1>6, <2>1
  <2>4. HasRun \in Seq(Int) /\ Len(HasRun) = next_message
    BY <1>2, <1>3, <1>5 DEF HasRun
  <2>5. \A i \in 1..next_message : HasRun[i] = history[i].frame
    BY DEF HasRun
  <2>6. /\ Append(HasRun, frame) \in Seq(Int) /\ Len(Append(HasRun, frame)) = n
        /\ \A i \in 1..n : Append(HasRun, frame)[i] = history[i].frame
    BY <1>2, <2>1, <2>3, <2>4, <2>5
  <2> QED BY <1>2, <2>2, <2>6
<1> QED BY <1>1, <1>2, <1>4, <1>7, <1>8, <1>9, <1>10, <1>11

-----------------------------------------------------------------------------
(* Every step is one of NetLockstep or a stutter.                          *)

LStep == Lockstep!Next \/ UNCHANGED Lockstep!lockstepVars

\* A step that leaves alone what the mapping reads.
LEMMA Stutter ==
  ASSUME LockInv, UNCHANGED <<server_frame, busy, gpc, current_frame, next_message, connection>>,
         \A i \in 1..next_message : history'[i].frame = history[i].frame
  PROVE  LStep /\ RunIsPast'
<1>1. HasRun' = HasRun /\ Played' = Played
  BY DEF HasRun, Played
<1>2. RunIsPast'
  BY DEF LockInv, RunIsPast, Played
<1> QED BY <1>1, <1>2 DEF LStep, Lockstep!lockstepVars, HasRun, Played

LEMMA InitLock == Init => Lockstep!Init /\ RunIsPast
<1> SUFFICES ASSUME Init PROVE Lockstep!Init /\ RunIsPast
  OBVIOUS
<1>1. [i \in 1..next_message |-> history[i].frame] = <<>>
  BY DEF Init
<1>2. Lockstep!Init
  BY <1>1 DEF Init, Lockstep!Init
<1> QED BY <1>2 DEF Init, RunIsPast

LEMMA SyncLock ==
  ASSUME LockInv, SyncData \/ RecvDone
  PROVE  LStep /\ RunIsPast'
<1>1. history \in Seq(Batch) /\ new_history \in Seq(Batch) /\ next_message \in 0..Len(history)
  BY DEF LockInv, FramesInv, TypeOK, GameTypeOK, NetworkTypeOK
<1>2. history' = history \o new_history \/ history' = history
  BY DEF SyncData, RecvDone, Sync
<1>3. \A i \in 1..next_message : history'[i] = history[i]
  BY <1>1, <1>2
<1>4. UNCHANGED <<server_frame, busy, gpc, current_frame, next_message, connection>>
  BY DEF SyncData, RecvDone
<1> QED BY <1>3, <1>4, Stutter

LEMMA GameLock ==
  ASSUME LockInv, GameThread
  PROVE  LStep /\ RunIsPast'
<1>1. CASE InitSession
  <2>1. gpc = "menu" /\ gpc' = "run" /\ current_frame = 0 /\ next_message = 0
    BY <1>1 DEF InitSession, LockInv, FramesInv, NoGapAhead, RestIsFuture
  <2>2. current_frame' = 0 /\ next_message' = 0 /\ UNCHANGED <<server_frame, busy, connection>>
    BY <1>1 DEF InitSession
  <2>3. HasRun = <<>> /\ HasRun' = <<>> /\ Played' = Played
    BY <2>1, <2>2 DEF HasRun, Played
  <2>4. RunIsPast'
    BY <2>2 DEF RunIsPast
  <2> QED BY <2>2, <2>3, <2>4 DEF LStep, Lockstep!lockstepVars, HasRun, Played
<1>2. CASE StartFrame
  <2>1. /\ gpc = "run" /\ current_frame' = current_frame + 1 /\ current_frame < MaxFrame
        /\ UNCHANGED <<history, server_frame, busy, connection, available_frame>>
    BY <1>2 DEF StartFrame
  <2>2. current_frame' \in Frame /\ current_frame' = Played + 1 /\ Played = current_frame
    BY <2>1, LockFacts DEF Frame, Played
  <2>3. CASE FrameReady(current_frame') /\ RunHistory(current_frame') /\ UNCHANGED gpc
    <3>1. /\ next_message' \in next_message..Len(history)
          /\ \A i \in 1..next_message' : history[i].frame <= current_frame'
          /\ HasRun' = IF current_frame' \in busy THEN Append(HasRun, current_frame') ELSE HasRun
      BY <2>1, <2>2, <2>3, RunOne DEF InSession
    <3>2. Played' = Played + 1
      BY <2>1, <2>2, <2>3 DEF Played
    <3>3. Played < server_frame
      BY <2>1, <2>2, <2>3, LockFacts DEF FrameReady
    <3>4. RunIsPast'
      BY <2>1, <2>2, <3>1, <3>2 DEF RunIsPast
    <3>5. Lockstep!Play
      BY <2>1, <2>2, <3>1, <3>2, <3>3 DEF Lockstep!Play, HasRun, Played
    <3> QED BY <3>4, <3>5 DEF LStep, Lockstep!Next
  <2>4. CASE ~FrameReady(current_frame') /\ gpc' = "wait" /\ UNCHANGED <<applied_at, next_message>>
    <3>1. Played' = Played /\ HasRun' = HasRun
      BY <2>1, <2>4, LockFacts DEF Played, HasRun
    <3>2. RunIsPast'
      BY <2>1, <2>4, <3>1 DEF LockInv, RunIsPast
    <3> QED BY <2>1, <3>1, <3>2 DEF LStep, Lockstep!lockstepVars, HasRun, Played
  <2> QED BY <1>2, <2>3, <2>4 DEF StartFrame
<1>3. CASE EndWait
  <2>1. /\ gpc = "wait" /\ gpc' = "run" /\ RunHistory(current_frame)
        /\ FrameReady(current_frame) \/ Disconnected
        /\ UNCHANGED <<history, server_frame, busy, connection, available_frame, current_frame>>
    BY <1>3 DEF EndWait
  <2>2. current_frame # 0
    BY <2>1 DEF LockInv, FramesInv, RestIsFuture
  <2>3. current_frame \in Frame /\ current_frame = Played + 1
    BY <2>1, <2>2, LockFacts DEF Frame, Played
  <2>4. /\ next_message' \in next_message..Len(history)
        /\ \A i \in 1..next_message' : history[i].frame <= current_frame
        /\ FrameReady(current_frame) =>
             HasRun' = IF current_frame \in busy THEN Append(HasRun, current_frame) ELSE HasRun
        /\ ~FrameReady(current_frame) => HasRun' = HasRun
    BY <2>1, <2>3, RunOne DEF InSession
  <2>5. Played' = Played + 1 /\ Played' = current_frame /\ Played < MaxFrame
    BY <2>1, <2>3, LockFacts DEF Played, Frame
  <2>6. RunIsPast'
    BY <2>1, <2>4, <2>5 DEF RunIsPast
  <2>7. CASE FrameReady(current_frame)
    <3>1. Played < server_frame
      BY <2>3, <2>7, LockFacts DEF FrameReady, Played
    <3>2. Lockstep!Play
      BY <2>1, <2>4, <2>5, <2>7, <3>1 DEF Lockstep!Play, HasRun, Played
    <3> QED BY <2>6, <3>2 DEF LStep, Lockstep!Next
  <2>8. CASE ~FrameReady(current_frame)
    <3>1. Lockstep!PlayAlone
      BY <2>1, <2>4, <2>5, <2>8 DEF Lockstep!PlayAlone, HasRun, Played
    <3> QED BY <2>6, <3>1 DEF LStep, Lockstep!Next
  <2> QED BY <2>7, <2>8
<1>4. CASE GoLocal
  <2>1. Played' = Played /\ HasRun' = HasRun /\ UNCHANGED <<history, next_message>>
    BY <1>4 DEF GoLocal, Played, HasRun
  <2>2. RunIsPast'
    BY <2>1 DEF LockInv, RunIsPast
  <2> QED BY <1>4, <2>1, <2>2 DEF GoLocal, LStep, Lockstep!lockstepVars, HasRun, Played
<1> QED BY <1>1, <1>2, <1>3, <1>4 DEF GameThread

LEMMA ServerTickLock ==
  ASSUME LockInv, ServerTick
  PROVE  LStep /\ RunIsPast'
<1>1. UNCHANGED <<gpc, current_frame, next_message, history, connection>>
  BY DEF ServerTick
<1>2. HasRun' = HasRun /\ Played' = Played
  BY <1>1 DEF HasRun, Played
<1>3. RunIsPast'
  BY <1>1, <1>2 DEF LockInv, RunIsPast
<1>4. Lockstep!Close
  BY <1>1, <1>2 DEF ServerTick, Lockstep!Close, HasRun, Played
<1> QED BY <1>3, <1>4 DEF LStep, Lockstep!Next

LEMMA HangUpLock ==
  ASSUME LockInv, HangUp
  PROVE  LStep /\ RunIsPast'
<1>1. UNCHANGED <<gpc, current_frame, next_message, history, server_frame, busy>>
  BY DEF HangUp
<1>2. HasRun' = HasRun /\ Played' = Played
  BY <1>1 DEF HasRun, Played
<1>3. RunIsPast'
  BY <1>1, <1>2 DEF LockInv, RunIsPast
<1>4. Lockstep!Lose
  BY <1>1, <1>2 DEF HangUp, Lockstep!Lose, HasRun, Played
<1> QED BY <1>3, <1>4 DEF LStep, Lockstep!Next

LEMMA StepLock == LockInv /\ [Next]_vars => LStep /\ RunIsPast'
<1> SUFFICES ASSUME LockInv, [Next]_vars PROVE LStep /\ RunIsPast'
  OBVIOUS
<1> USE Stutter
<1>1. CASE GameThread
  BY <1>1, GameLock
<1>2. CASE SyncData \/ RecvDone
  BY <1>2, SyncLock
<1>3. CASE HangUp
  BY <1>3, HangUpLock
<1>4. CASE ServerTick
  BY <1>4, ServerTickLock
<1>5. CASE Control
  BY <1>5 DEF Control
<1>6. CASE Receive
  BY <1>6 DEF Receive, RecvTcpBegin, RecvTcpMessages, RecvTcpEnd, RecvUdp
<1>7. CASE ServerSendUdp \/ ServerSendTcp \/ ServerSendControl
  BY <1>7 DEF ServerSendUdp, ServerSendTcp, ServerSendControl
<1>8. CASE ServerRecvUdp \/ ServerRecvTcp
  BY <1>8 DEF ServerRecvUdp, ServerRecvTcp
<1>9. CASE LoseDatagram
  BY <1>9 DEF LoseDatagram
<1>10. CASE UNCHANGED vars
  BY <1>10 DEF vars
<1> QED BY <1>1, <1>2, <1>3, <1>4, <1>5, <1>6, <1>7, <1>8, <1>9, <1>10
    DEF Next, NetworkThread, Server

\* ClientFrameSync plays in lockstep: no frame before the server has closed it,
\* none left out, the messages of each in that frame, and none from the server
\* once the game plays on alone.
THEOREM LockstepCorrect == Spec => PlaysInLockstep
<1>1. Spec => []LockInv
  <2>1. Init => LockInv
    BY InitInv, InitLock DEF LockInv
  <2>2. LockInv /\ [Next]_vars => LockInv'
    BY NextInv, StepLock DEF LockInv
  <2> QED BY <2>1, <2>2, PTL DEF Spec
<1>2. Init => Lockstep!Init
  BY InitLock
<1>3. LockInv /\ [Next]_vars => [Lockstep!Next]_Lockstep!lockstepVars
  BY StepLock DEF LStep
<1> QED BY <1>1, <1>2, <1>3, PTL DEF Spec, PlaysInLockstep, Lockstep!Spec

-----------------------------------------------------------------------------
(* The input under way.                                                    *)

Elems(s) == {s[i] : i \in 1..Len(s)}

OnStream == Elems(tcp_up)
UnderWay == udp_up \cup OnStream

\* The batches that wait, were sent and may be repeated, or are on the stream.
Batches  == Elems(send_buffer) \cup UNION {Elems(p.batches) : p \in UnderWay}
Pending  == Elems(send_buffer) \cup UNION {Elems(p.batches) : p \in OnStream}

Rising(q)    == \A i, j \in 1..Len(q) : i < j => q[i] < q[j]
Ascending(s) == \A i, j \in 1..Len(s) : i < j => s[i].frame < s[j].frame

\* A batch of a later frame holds later input only.
Apart(mark, b) == mark < b.frame => \A x \in Elems(b.inputs) : mark < x

\* The frames that the server may be told of, or has been.
Marks == {server_seen} \cup {p.end : p \in UnderWay} \cup {b.frame : b \in Batches}

Has(x) == \E i \in 1..Len(server_got) : x \in Elems(server_got[i])
HasAll(b) == \A x \in Elems(b.inputs) : Has(x)

-----------------------------------------------------------------------------
(* The invariant.                                                          *)

\* What SyncData has not fetched is newer than what it has.
Submits ==
  /\ gpc = "menu" => submit_buffer = <<>> /\ inputs = {}
  /\ t_current <= current_frame
  /\ Rising(submit_buffer)
  /\ \A x \in Elems(submit_buffer) : t_current < x /\ x <= current_frame

\* Batches and transmissions are in order.
Batched ==
  /\ \A b \in Batches : /\ b.frame <= t_current
                        /\ Rising(b.inputs)
                        /\ \A x \in Elems(b.inputs) : x <= b.frame
  /\ Ascending(send_buffer)
  /\ \A p \in UnderWay : /\ p.end <= t_current
                         /\ Ascending(p.batches)
                         /\ \A b \in Elems(p.batches) : b.frame <= p.end

\* No frame the server may be told of lies between the inputs of a batch and
\* its frame: what the server takes is all new or all old.
Aligned ==
  /\ \A m \in Marks : m <= t_current
  /\ \A b \in Batches, m \in Marks : Apart(m, b)

\* What the server has is in order and not newer than the frame it knows of.
Got ==
  /\ InputOnceInOrder
  /\ \A x \in Frame : Has(x) => x <= server_seen

InputInv == Submits /\ Batched /\ Aligned /\ Got

\* Nothing is acknowledged that the server has not seen.
Acked ==
  /\ acked_frame <= server_seen
  /\ \A p \in udp_down : p.start <= server_seen
  /\ \A i \in 1..Len(control_down) :
       control_down[i].header = "ACK" => control_down[i].frame <= server_seen

\* The stream is in order: what follows a transmission is newer than it.
StreamOrder ==
  /\ \A i, j \in 1..Len(tcp_up) : i < j =>
       \A b \in Elems(tcp_up[j].batches) : tcp_up[i].end < b.frame
  /\ \A b \in Elems(send_buffer) : \A p \in OnStream : p.end < b.frame

\* Whoever tells the server of a frame brings it the input up to there.
Complete ==
  \A b \in Pending :
    /\ \A p \in udp_up : b.frame <= p.end => b \in Elems(p.batches)
    /\ b.frame <= server_seen => HasAll(b)

\* Where an input is.
Accounted ==
  \A x \in inputs :
    \/ x \in Elems(submit_buffer)
    \/ \E b \in Pending : x \in Elems(b.inputs)
    \/ Has(x)

LossInv == /\ StreamOrder
           /\ ~Pipelined => Acked
           /\ ~Pipelined /\ ~overtaken => Complete /\ Accounted

-----------------------------------------------------------------------------
(* Sequences by their elements.                                            *)

LEMMA ElemsAppend ==
  ASSUME NEW S, NEW s \in Seq(S), NEW x \in S
  PROVE  Elems(Append(s, x)) = Elems(s) \cup {x}
<1>1. /\ Len(Append(s, x)) = Len(s) + 1 /\ Append(s, x)[Len(s) + 1] = x
      /\ \A i \in 1..Len(s) : Append(s, x)[i] = s[i]
  OBVIOUS
<1>2. Len(s) \in Nat
  OBVIOUS
<1> DEFINE t == Append(s, x)
<1> HIDE DEF t
<1>3. \A y : y \in Elems(t) <=> \E i \in 1..Len(t) : t[i] = y
  BY DEF Elems
<1>4. \A y : y \in Elems(s) <=> \E i \in 1..Len(s) : s[i] = y
  BY DEF Elems
<1>5. 1..Len(t) = (1..Len(s)) \cup {Len(s) + 1}
  BY <1>1, <1>2 DEF t
<1>6. /\ t[Len(s) + 1] = x
      /\ \A i \in 1..Len(s) : t[i] = s[i]
  BY <1>1 DEF t
<1>7. Elems(t) = Elems(s) \cup {x}
  BY <1>3, <1>4, <1>5, <1>6
<1> QED BY <1>7 DEF t

LEMMA ElemsIn ==
  ASSUME NEW S, NEW s \in Seq(S)
  PROVE  Elems(s) \subseteq S
BY DEF Elems

LEMMA ElemsEmpty == Elems(<<>>) = {}
BY DEF Elems

LEMMA ElemsSubSeq ==
  ASSUME NEW S, NEW s \in Seq(S), NEW n \in 0..Len(s)
  PROVE  LET t == SubSeq(s, n + 1, Len(s)) IN
         /\ t \in Seq(S) /\ Len(t) = Len(s) - n
         /\ \A i \in 1..Len(t) : i + n \in 1..Len(s) /\ t[i] = s[i + n]
         /\ \A i \in 1..Len(s) : i <= n \/ s[i] \in Elems(t)
<1> DEFINE t == SubSeq(s, n + 1, Len(s))
<1>1. t \in Seq(S) /\ Len(t) = Len(s) - n
  OBVIOUS
<1>2. \A i \in 1..Len(t) : i + n \in 1..Len(s) /\ t[i] = s[i + n]
  BY <1>1
<1>3. ASSUME NEW i \in 1..Len(s), i > n
      PROVE  s[i] \in Elems(t)
  <2>1. i - n \in 1..Len(t) /\ (i - n) + n = i
    BY <1>1, <1>3
  <2>2. t[i - n] = s[i]
    BY <1>2, <2>1
  <2> HIDE DEF t
  <2> QED BY <2>1, <2>2 DEF Elems
<1>4. \A i \in 1..Len(s) : i <= n \/ s[i] \in Elems(t)
  <2> HIDE DEF t
  <2> QED BY <1>3
<1> QED BY <1>1, <1>2, <1>4

LEMMA ElemsTail ==
  ASSUME NEW S, NEW s \in Seq(S), s # <<>>
  PROVE  /\ Tail(s) \in Seq(S) /\ Len(Tail(s)) = Len(s) - 1 /\ 1 \in 1..Len(s)
         /\ \A i \in 1..Len(Tail(s)) : i + 1 \in 1..Len(s) /\ Tail(s)[i] = s[i + 1]
         /\ Head(s) = s[1] /\ Head(s) \in Elems(s)
         /\ Elems(s) = Elems(Tail(s)) \cup {Head(s)}
<1>1. /\ Tail(s) \in Seq(S) /\ Len(Tail(s)) = Len(s) - 1 /\ 1 \in 1..Len(s)
      /\ Head(s) = s[1] /\ Len(s) \in Nat
  OBVIOUS
<1>2. \A i \in 1..Len(Tail(s)) : i + 1 \in 1..Len(s) /\ Tail(s)[i] = s[i + 1]
  BY <1>1
<1> DEFINE t == Tail(s)
<1> HIDE DEF t
<1>3. \A y : y \in Elems(t) <=> \E i \in 1..Len(t) : t[i] = y
  BY DEF Elems
<1>4. \A y : y \in Elems(s) <=> \E i \in 1..Len(s) : s[i] = y
  BY DEF Elems
<1>5. /\ Len(t) = Len(s) - 1
      /\ \A i \in 1..Len(t) : i + 1 \in 1..Len(s) /\ t[i] = s[i + 1]
  BY <1>1, <1>2 DEF t
<1>6. \A i \in 1..Len(s) : i = 1 \/ (i - 1 \in 1..Len(t) /\ t[i - 1] = s[i])
  BY <1>1, <1>5
<1>7. Elems(s) = Elems(t) \cup {s[1]}
  BY <1>1, <1>3, <1>4, <1>5, <1>6
<1> QED BY <1>1, <1>2, <1>4, <1>7 DEF t

-----------------------------------------------------------------------------
(* Types.                                                                  *)

LEMMA UpTypes ==
  ASSUME TypeOK
  PROVE  /\ send_buffer \in Seq(Input) /\ tcp_up \in Seq(Transmission)
         /\ udp_up \subseteq Transmission
         /\ submit_buffer \in Seq(Frame) /\ inputs \subseteq Frame
         /\ current_frame \in Nat /\ t_current \in Nat /\ server_seen \in Nat
         /\ acked_frame \in Int /\ server_got \in Seq(Seq(Frame))
BY FramesAssumption
   DEF TypeOK, UpTypeOK, GameTypeOK, NetworkTypeOK, ServerTypeOK, Frame

LEMMA ControlTypes ==
  ASSUME TypeOK
  PROVE  /\ control_down \in Seq([header : {"FRAME_COMPLETE", "ACK"}, frame : 0..MaxFrame])
         /\ \A i \in 1..Len(control_down) : control_down[i].frame \in Int
<1> DEFINE M == [header : {"FRAME_COMPLETE", "ACK"}, frame : 0..MaxFrame]
<1>1. control_down \in Seq(M)
  BY DEF TypeOK, DownTypeOK
<1>2. \A m \in M : m.frame \in Int
  OBVIOUS
<1> HIDE DEF M
<1>3. \A i \in 1..Len(control_down) : control_down[i] \in M
  BY <1>1
<1>4. \A i \in 1..Len(control_down) : control_down[i].frame \in Int
  BY <1>2, <1>3
<1> QED BY <1>1, <1>4 DEF M

LEMMA BatchTypes ==
  ASSUME NEW b \in Input
  PROVE  /\ b.frame \in Frame /\ b.frame \in Int /\ b.inputs \in Seq(Frame)
         /\ \A x \in Elems(b.inputs) : x \in Frame /\ x \in Int
<1>1. b.frame \in Frame /\ b.inputs \in Seq(Frame)
  BY DEF Input
<1>2. \A f \in Frame : f \in Int
  BY DEF Frame
<1> QED BY <1>1, <1>2, ElemsIn

LEMMA SentTypes ==
  ASSUME NEW p \in Transmission
  PROVE  p.end \in Int /\ p.batches \in Seq(Input) /\ Elems(p.batches) \subseteq Input
<1>1. p.end \in Int /\ p.batches \in Seq(Input)
  BY DEF Transmission
<1> QED BY <1>1, ElemsIn

LEMMA SetTypes ==
  ASSUME TypeOK
  PROVE  /\ UnderWay \subseteq Transmission /\ OnStream \subseteq UnderWay
         /\ Batches \subseteq Input /\ Pending \subseteq Batches
<1>1. OnStream \subseteq Transmission /\ Elems(send_buffer) \subseteq Input
  BY UpTypes, ElemsIn DEF OnStream
<1>2. UnderWay \subseteq Transmission /\ OnStream \subseteq UnderWay
  BY <1>1, UpTypes DEF UnderWay
<1>3. \A p \in UnderWay : Elems(p.batches) \subseteq Input
  BY <1>2, SentTypes
<1> QED BY <1>1, <1>2, <1>3 DEF Batches, Pending

-----------------------------------------------------------------------------
(* SyncData: what was submitted becomes a batch, what is acknowledged is   *)
(* dropped, the rest is sent.                                              *)

FreshBatch == [frame |-> current_frame, inputs |-> submit_buffer]
Fresh      == IF NewFrame /\ submit_buffer # <<>> THEN {FreshBatch} ELSE {}
Packet(pending) == [batches |-> pending, end |-> current_frame]

Silent(pending) ==
  /\ send_buffer' = pending
  /\ udp_up' = udp_up /\ tcp_up' = tcp_up /\ overtaken' = overtaken
Datagram(pending) ==
  /\ send_buffer' = pending /\ tcp_up' = tcp_up
  /\ udp_up' = udp_up \/ udp_up' = udp_up \cup {Packet(pending)}
  /\ overtaken' = (overtaken \/ tcp_up # <<>>)
OnTcp(pending) ==
  /\ send_buffer' = <<>> /\ udp_up' = udp_up /\ overtaken' = overtaken
  /\ tcp_up' = Append(tcp_up, Packet(pending))

Fetches(pending) ==
  /\ pending \in Seq(Input) /\ Ascending(pending)
  /\ Elems(pending) \subseteq Elems(send_buffer) \cup Fresh
  /\ \A b \in Elems(send_buffer) \cup Fresh : b.frame <= acked_frame \/ b \in Elems(pending)
  /\ Silent(pending) \/ Datagram(pending) \/ OnTcp(pending)
  /\ t_current' = current_frame
  /\ submit_buffer' = IF NewFrame THEN <<>> ELSE submit_buffer
  /\ gpc # "menu"

\* The variables of the input's way that only the sender and the server touch.
OthersKeep ==
  /\ gpc' = gpc /\ current_frame' = current_frame /\ inputs' = inputs
  /\ server_seen' = server_seen /\ server_got' = server_got
  /\ acked_frame' = acked_frame /\ udp_down' = udp_down /\ control_down' = control_down

BufferKept ==
  /\ t_current' = t_current /\ submit_buffer' = submit_buffer
  /\ send_buffer' = send_buffer /\ udp_up' = udp_up /\ tcp_up' = tcp_up
  /\ overtaken' = overtaken

LEMMA FreshTypes ==
  ASSUME TypeOK, NewFrame
  PROVE  FreshBatch \in Input /\ FreshBatch.frame = current_frame
         /\ FreshBatch.inputs = submit_buffer
<1>1. current_frame \in 1..MaxFrame
  BY UpTypes, MaxFrameAssumption DEF NewFrame, TypeOK, GameTypeOK
<1> QED BY <1>1, UpTypes DEF FreshBatch, Input, Frame

LEMMA SubmittedElems ==
  ASSUME TypeOK, Batched
  PROVE  /\ Submitted \in Seq(Input) /\ Ascending(Submitted)
         /\ Elems(Submitted) = Elems(send_buffer) \cup Fresh
<1>1. send_buffer \in Seq(Input) /\ Ascending(send_buffer)
  BY UpTypes DEF Batched
<1>2. CASE NewFrame /\ submit_buffer # <<>>
  <2>1. FreshBatch \in Input /\ FreshBatch.frame = current_frame
    BY <1>2, FreshTypes
  <2>2. Submitted = Append(send_buffer, FreshBatch) /\ Fresh = {FreshBatch}
    BY <1>2 DEF Submitted, FreshBatch, Fresh
  <2>3. \A i \in 1..Len(send_buffer) : send_buffer[i].frame < FreshBatch.frame
    <3> SUFFICES ASSUME NEW i \in 1..Len(send_buffer)
                 PROVE  send_buffer[i].frame < current_frame
      BY <2>1
    <3>1. send_buffer[i] \in Batches /\ send_buffer[i] \in Input
      BY <1>1 DEF Batches, Elems
    <3>2. send_buffer[i].frame <= t_current /\ send_buffer[i].frame \in Int
      BY <3>1, BatchTypes DEF Batched
    <3>3. t_current < current_frame /\ t_current \in Int /\ current_frame \in Int
      BY <1>2, UpTypes DEF NewFrame
    <3> QED BY <3>2, <3>3
  <2>4. /\ Submitted \in Seq(Input) /\ Len(Submitted) = Len(send_buffer) + 1
        /\ Submitted[Len(send_buffer) + 1] = FreshBatch
        /\ \A i \in 1..Len(send_buffer) : Submitted[i] = send_buffer[i]
    BY <1>1, <2>1, <2>2
  <2>5. Len(send_buffer) \in Nat
    BY <1>1
  <2>6. Ascending(Submitted)
    BY <1>1, <2>3, <2>4, <2>5 DEF Ascending
  <2> QED BY <1>1, <2>1, <2>2, <2>4, <2>6, ElemsAppend
<1>3. CASE ~(NewFrame /\ submit_buffer # <<>>)
  BY <1>1, <1>3 DEF Submitted, Fresh
<1> QED BY <1>2, <1>3

LEMMA SyncFetches ==
  ASSUME TypeOK, Batched, Sync
  PROVE  BufferKept \/ \E pending : Fetches(pending)
<1>1. CASE ~SessionOpen
  BY <1>1 DEF Sync, BufferKept, tempVars, sendVars
<1>2. CASE SessionOpen
  <2>1. /\ t_current' = current_frame
        /\ submit_buffer' = IF NewFrame THEN <<>> ELSE submit_buffer
        /\ \/ SendData(Submitted)
           \/ Submitted = <<>> /\ UNCHANGED sendVars
    BY <1>2 DEF Sync, SubmitBufferAfter
  <2>2. gpc # "menu"
    BY <1>2 DEF SessionOpen
  <2>3. CASE Submitted = <<>> /\ UNCHANGED sendVars
    <3>1. send_buffer = Submitted
      <4>1. send_buffer \in Seq(Input)
        BY UpTypes
      <4>2. CASE NewFrame /\ submit_buffer # <<>>
        BY <2>3, <4>1, <4>2 DEF Submitted
      <4>3. CASE ~(NewFrame /\ submit_buffer # <<>>)
        BY <4>3 DEF Submitted
      <4> QED BY <4>2, <4>3
    <3>2. Silent(send_buffer)
      BY <2>3 DEF Silent, sendVars
    <3>3. Fetches(send_buffer)
      BY <2>1, <2>2, <3>1, <3>2, SubmittedElems DEF Fetches
    <3> QED BY <3>3
  <2>4. CASE SendData(Submitted)
    <3>1. PICK n \in 0..Len(Submitted) :
            Dropped(Submitted, n) /\ Transmit(SubSeq(Submitted, n + 1, Len(Submitted)))
      BY <2>4 DEF SendData
    <3> DEFINE pending == SubSeq(Submitted, n + 1, Len(Submitted))
    <3>2. /\ pending \in Seq(Input) /\ Len(pending) = Len(Submitted) - n
          /\ \A i \in 1..Len(pending) : i + n \in 1..Len(Submitted) /\ pending[i] = Submitted[i + n]
          /\ \A i \in 1..Len(Submitted) : i <= n \/ Submitted[i] \in Elems(pending)
      BY SubmittedElems, ElemsSubSeq
    <3>3. Transmit(pending)
      BY <3>1
    <3> HIDE DEF pending
    <3>4. Len(pending) \in Nat /\ n \in Nat /\ Len(Submitted) \in Nat
      BY <3>2, SubmittedElems
    <3>5. Ascending(pending)
      <4> SUFFICES ASSUME NEW i \in 1..Len(pending), NEW j \in 1..Len(pending), i < j
                   PROVE  pending[i].frame < pending[j].frame
        BY DEF Ascending
      <4>1. /\ i + n \in 1..Len(Submitted) /\ pending[i] = Submitted[i + n]
            /\ j + n \in 1..Len(Submitted) /\ pending[j] = Submitted[j + n]
        BY <3>2
      <4>2. i + n < j + n
        BY <3>4
      <4> QED BY <4>1, <4>2, SubmittedElems DEF Ascending
    <3>6. Elems(pending) \subseteq Elems(Submitted)
      BY <3>2 DEF Elems
    <3>7. \A b \in Elems(Submitted) : b.frame <= acked_frame \/ b \in Elems(pending)
      <4> SUFFICES ASSUME NEW i \in 1..Len(Submitted)
                   PROVE  Submitted[i].frame <= acked_frame \/ Submitted[i] \in Elems(pending)
        BY DEF Elems
      <4>1. i <= n => Submitted[i].frame <= acked_frame
        BY <3>1, <3>4 DEF Dropped, UpTo
      <4> QED BY <3>2, <4>1
    <3>8. Silent(pending) \/ Datagram(pending) \/ OnTcp(pending)
      BY <3>3, Zenon DEF Transmit, Silent, Datagram, OnTcp, Packet
    <3>9. Fetches(pending)
      BY <2>1, <2>2, <3>2, <3>5, <3>6, <3>7, <3>8, SubmittedElems DEF Fetches
    <3> QED BY <3>9
  <2> QED BY <2>1, <2>3, <2>4
<1> QED BY <1>1, <1>2

-----------------------------------------------------------------------------
(* The marks of a step.                                                    *)

LEMMA MarkTypes ==
  ASSUME TypeOK
  PROVE  \A m \in Marks : m \in Int
<1>1. \A p \in UnderWay : p.end \in Int
  BY SetTypes, SentTypes
<1>2. \A b \in Batches : b.frame \in Int
  BY SetTypes, BatchTypes
<1> QED BY <1>1, <1>2, UpTypes DEF Marks

LEMMA MarkKinds ==
  /\ server_seen \in Marks
  /\ \A p \in UnderWay : p.end \in Marks
  /\ \A b \in Batches : b.frame \in Marks
BY DEF Marks

\* Nothing new is under way, and the server has been told of nothing new.
Shrinks ==
  /\ UnderWay' \subseteq UnderWay /\ Batches' \subseteq Batches
  /\ t_current' = t_current
  /\ send_buffer' = send_buffer
  /\ server_seen' \in Marks

LEMMA ShrinksInv ==
  ASSUME Batched, Aligned, Shrinks
  PROVE  Batched' /\ Aligned'
<1>1. Marks' \subseteq Marks
  BY MarkKinds DEF Shrinks, Marks
<1>2. Batched'
  BY DEF Batched, Shrinks
<1>3. Aligned'
  <2>1. \A m \in Marks' : m <= t_current
    BY <1>1 DEF Aligned
  <2>2. \A b \in Batches', m \in Marks' : Apart(m, b)
    BY <1>1 DEF Aligned, Shrinks
  <2> QED BY <2>1, <2>2 DEF Aligned, Shrinks, Apart
<1> QED BY <1>2, <1>3

LEMMA FetchSets ==
  ASSUME TypeOK, NEW pending, Fetches(pending)
  PROVE  /\ UnderWay' \subseteq UnderWay \cup {Packet(pending)}
         /\ Batches' \subseteq Batches \cup Fresh
         /\ \/ OnStream' = OnStream /\ send_buffer' = pending
            \/ OnStream' = OnStream \cup {Packet(pending)} /\ send_buffer' = <<>>
         /\ Packet(pending) \in Transmission
         /\ Packet(pending).batches = pending /\ Packet(pending).end = current_frame
<1>1. /\ Packet(pending) \in Transmission
      /\ Packet(pending).batches = pending /\ Packet(pending).end = current_frame
  BY DEF TypeOK, GameTypeOK, Transmission, Packet, Fetches
<1>2. Elems(pending) \subseteq Batches \cup Fresh
  BY DEF Fetches, Batches
<1>3. CASE Silent(pending) \/ Datagram(pending)
  <2>1. /\ OnStream' = OnStream /\ send_buffer' = pending
        /\ udp_up' \subseteq udp_up \cup {Packet(pending)}
    BY <1>3 DEF OnStream, Silent, Datagram
  <2>2. UnderWay' \subseteq UnderWay \cup {Packet(pending)}
    BY <2>1 DEF UnderWay
  <2>3. Batches' \subseteq Batches \cup Fresh
    BY <1>1, <1>2, <2>1, <2>2 DEF Batches
  <2> QED BY <1>1, <2>1, <2>2, <2>3
<1>4. CASE OnTcp(pending)
  <2>1. OnStream' = OnStream \cup {Packet(pending)}
    BY <1>1, <1>4, UpTypes, ElemsAppend DEF OnStream, OnTcp
  <2>2. UnderWay' \subseteq UnderWay \cup {Packet(pending)} /\ send_buffer' = <<>>
    BY <1>4, <2>1 DEF UnderWay, OnTcp
  <2>3. Batches' \subseteq Batches \cup Fresh
    BY <1>1, <1>2, <2>2, ElemsEmpty DEF Batches
  <2> QED BY <1>1, <2>1, <2>2, <2>3
<1> QED BY <1>3, <1>4 DEF Fetches

\* The batch that SyncData makes holds later input than any frame named so far.
LEMMA FreshFacts ==
  ASSUME TypeOK, Submits, NEW b \in Fresh
  PROVE  /\ b = FreshBatch /\ NewFrame /\ b \in Input
         /\ b.frame = current_frame /\ b.inputs = submit_buffer
         /\ current_frame > t_current
         /\ \A x \in Elems(b.inputs) : t_current < x /\ x <= b.frame
<1>1. b = FreshBatch /\ NewFrame
  BY DEF Fresh
<1>2. b \in Input /\ b.frame = current_frame /\ b.inputs = submit_buffer
  BY <1>1, FreshTypes
<1> QED BY <1>1, <1>2 DEF Submits, NewFrame

LEMMA FetchesSubmits ==
  ASSUME TypeOK, Submits, NEW pending, Fetches(pending), OthersKeep
  PROVE  Submits'
<1>1. CASE NewFrame
  <2>1. submit_buffer' = <<>> /\ t_current' = current_frame /\ current_frame' = current_frame
    BY <1>1 DEF Fetches, OthersKeep
  <2>2. Rising(<<>>)
    BY DEF Rising
  <2> QED BY <2>1, <2>2, ElemsEmpty, UpTypes DEF Submits, Fetches, OthersKeep
<1>2. CASE ~NewFrame
  <2>1. t_current = current_frame
    BY <1>2, UpTypes DEF NewFrame, Submits
  <2> QED BY <1>2, <2>1 DEF Submits, Fetches, OthersKeep
<1> QED BY <1>1, <1>2

LEMMA FetchesBatched ==
  ASSUME TypeOK, Submits, Batched, Aligned, NEW pending, Fetches(pending), OthersKeep
  PROVE  Batched' /\ Aligned'
<1>1. /\ t_current' = current_frame /\ t_current <= current_frame
      /\ t_current \in Int /\ current_frame \in Int
  BY UpTypes DEF Fetches, Submits
<1>2. ASSUME NEW b \in Batches \cup Fresh
      PROVE  /\ b \in Input /\ b.frame <= current_frame /\ Rising(b.inputs)
             /\ \A x \in Elems(b.inputs) : x <= b.frame
  <2>1. CASE b \in Batches
    <3>1. b \in Input /\ b.frame \in Int
      BY <2>1, SetTypes, BatchTypes
    <3>2. b.frame <= t_current
      BY <2>1 DEF Batched
    <3> QED BY <1>1, <2>1, <3>1, <3>2 DEF Batched
  <2>2. CASE b \in Fresh
    BY <1>1, <2>2, FreshFacts DEF Submits
  <2> QED BY <2>1, <2>2
<1>3. Elems(pending) \subseteq Batches \cup Fresh /\ Ascending(pending)
  BY DEF Fetches, Batches
<1>4. ASSUME NEW p \in UnderWay \cup {Packet(pending)}
      PROVE  /\ p.end <= current_frame /\ Ascending(p.batches)
             /\ \A b \in Elems(p.batches) : b.frame <= p.end
  <2>1. CASE p \in UnderWay
    <3>1. p.end \in Int /\ p.end <= t_current
      BY <2>1, SetTypes, SentTypes DEF Batched
    <3> QED BY <1>1, <2>1, <3>1 DEF Batched
  <2>2. CASE p = Packet(pending)
    BY <1>1, <1>2, <1>3, <2>2, FetchSets
  <2> QED BY <2>1, <2>2
<1>5. Ascending(send_buffer')
  <2>1. Ascending(<<>>)
    BY DEF Ascending
  <2> QED BY <1>3, <2>1, FetchSets
<1>6. Batched'
  BY <1>1, <1>2, <1>4, <1>5, FetchSets DEF Batched
<1>7. Marks' \subseteq Marks \cup {current_frame}
  <2>1. \A p \in UnderWay' : p.end \in Marks \cup {current_frame}
    BY FetchSets, MarkKinds
  <2>2. \A b \in Batches' : b.frame \in Marks \cup {current_frame}
    BY FetchSets, FreshFacts, MarkKinds
  <2>3. server_seen' \in Marks
    BY MarkKinds DEF OthersKeep
  <2> QED BY <2>1, <2>2, <2>3 DEF Marks
<1>8. \A m \in Marks' : m <= current_frame
  BY <1>1, <1>7, MarkTypes DEF Aligned
<1>9. ASSUME NEW b \in Batches \cup Fresh, NEW m \in Marks \cup {current_frame}
      PROVE  Apart(m, b)
  <2>1. CASE m = current_frame
    <3>1. ~(m < b.frame)
      BY <1>1, <1>2, <2>1, BatchTypes
    <3> QED BY <3>1 DEF Apart
  <2>2. CASE m \in Marks /\ b \in Batches
    BY <2>2 DEF Aligned
  <2>3. CASE m \in Marks /\ b \in Fresh
    <3>1. m <= t_current /\ m \in Int
      BY <2>3, MarkTypes DEF Aligned
    <3>2. \A x \in Elems(b.inputs) : t_current < x /\ x \in Int
      BY <2>3, FreshFacts, BatchTypes
    <3> QED BY <1>1, <3>1, <3>2 DEF Apart
  <2> QED BY <2>1, <2>2, <2>3
<1>10. Aligned'
  <2>1. Batches' \subseteq Batches \cup Fresh
    BY FetchSets
  <2>2. \A b \in Batches', m \in Marks' : Apart(m, b)
    BY <1>7, <1>9, <2>1
  <2> QED BY <1>1, <1>8, <2>2 DEF Aligned, Apart
<1> QED BY <1>6, <1>10

-----------------------------------------------------------------------------
(* SyncData loses no input.                                                *)

\* Where what was fetched is then.
LEMMA FetchPending ==
  ASSUME TypeOK, NEW pending, Fetches(pending)
  PROVE  /\ Pending' \subseteq Pending \cup Fresh
         /\ OnStream \subseteq OnStream'
         /\ Elems(pending) \subseteq Pending'
         /\ Datagram(pending) /\ ~overtaken' => Pending' = Elems(pending)
<1>1. Elems(pending) \subseteq Pending \cup Fresh
  BY DEF Fetches, Pending
<1>2. Packet(pending).batches = pending
  BY FetchSets
<1>3. CASE OnStream' = OnStream /\ send_buffer' = pending
  <2>1. Pending' \subseteq Pending \cup Fresh /\ Elems(pending) \subseteq Pending'
    BY <1>1, <1>3 DEF Pending
  <2>2. ASSUME Datagram(pending), ~overtaken'
        PROVE  Pending' = Elems(pending)
    <3>1. tcp_up' = <<>>
      BY <2>2 DEF Datagram
    <3>2. OnStream' = {}
      BY <3>1, ElemsEmpty DEF OnStream
    <3> QED BY <1>3, <3>2 DEF Pending
  <2> QED BY <1>3, <2>1, <2>2
<1>4. CASE OnStream' = OnStream \cup {Packet(pending)} /\ send_buffer' = <<>>
  <2>1. Pending' \subseteq Pending \cup Fresh /\ Elems(pending) \subseteq Pending'
    BY <1>1, <1>2, <1>4, ElemsEmpty DEF Pending
  <2>2. ASSUME Datagram(pending), ~overtaken'
        PROVE  Pending' = Elems(pending)
    <3>1. tcp_up' = <<>>
      BY <2>2 DEF Datagram
    <3>2. OnStream' = {}
      BY <3>1, ElemsEmpty DEF OnStream
    <3> QED BY <1>4, <3>2
  <2> QED BY <1>4, <2>1, <2>2
<1> QED BY <1>3, <1>4, FetchSets

\* What is fetched is newer than everything on the stream.
LEMMA FetchedNewer ==
  ASSUME TypeOK, Submits, Batched, StreamOrder, NEW pending, Fetches(pending),
         NEW p \in OnStream, NEW b \in Elems(pending)
  PROVE  p.end < b.frame
<1>1. CASE b \in Elems(send_buffer)
  BY <1>1 DEF StreamOrder
<1>2. CASE b \in Fresh
  <2>1. p \in UnderWay
    BY SetTypes
  <2>2. p.end <= t_current /\ p.end \in Int
    BY <2>1, SetTypes, SentTypes DEF Batched
  <2>3. b.frame = current_frame /\ current_frame > t_current
    BY <1>2, FreshFacts
  <2> QED BY <2>2, <2>3, UpTypes
<1> QED BY <1>1, <1>2 DEF Fetches

LEMMA FetchesOrder ==
  ASSUME TypeOK, Submits, Batched, StreamOrder, NEW pending, Fetches(pending)
  PROVE  StreamOrder'
<1>1. \A p \in OnStream : \A b \in Elems(pending) : p.end < b.frame
  BY FetchedNewer
<1>2. CASE Silent(pending) \/ Datagram(pending)
  <2>1. tcp_up' = tcp_up /\ send_buffer' = pending
    BY <1>2 DEF Silent, Datagram
  <2> QED BY <1>1, <2>1 DEF StreamOrder, OnStream
<1>3. CASE OnTcp(pending)
  <2>1. /\ tcp_up \in Seq(Transmission) /\ Packet(pending) \in Transmission
        /\ Packet(pending).batches = pending
        /\ tcp_up' = Append(tcp_up, Packet(pending)) /\ send_buffer' = <<>>
    BY <1>3, UpTypes, FetchSets DEF OnTcp
  <2>2. /\ Len(tcp_up') = Len(tcp_up) + 1 /\ Len(tcp_up) \in Nat
        /\ tcp_up'[Len(tcp_up) + 1] = Packet(pending)
        /\ \A i \in 1..Len(tcp_up) : tcp_up'[i] = tcp_up[i]
    BY <2>1
  <2>3. ASSUME NEW i \in 1..Len(tcp_up'), NEW j \in 1..Len(tcp_up'), i < j,
               NEW b \in Elems(tcp_up'[j].batches)
        PROVE  tcp_up'[i].end < b.frame
    <3>1. i \in 1..Len(tcp_up)
      BY <2>2, <2>3
    <3>2. tcp_up'[i] = tcp_up[i] /\ tcp_up[i] \in OnStream
      BY <2>2, <3>1 DEF OnStream, Elems
    <3>3. CASE j \in 1..Len(tcp_up)
      BY <2>2, <2>3, <3>1, <3>2, <3>3 DEF StreamOrder
    <3>4. CASE j = Len(tcp_up) + 1
      BY <1>1, <2>1, <2>2, <2>3, <3>2, <3>4
    <3> QED BY <2>2, <3>3, <3>4
  <2> QED BY <2>1, <2>3, ElemsEmpty DEF StreamOrder
<1> QED BY <1>2, <1>3 DEF Fetches

LEMMA FetchesComplete ==
  ASSUME TypeOK, Submits, Batched, Aligned, Complete, ~overtaken',
         NEW pending, Fetches(pending), OthersKeep
  PROVE  Complete'
<1>1. ASSUME NEW b \in Pending', NEW p \in udp_up', b.frame <= p.end
      PROVE  b \in Elems(p.batches)
  <2>1. CASE p \in udp_up /\ b \in Pending
    BY <1>1, <2>1 DEF Complete
  <2>2. CASE p \in udp_up /\ b \in Fresh
    <3>1. p.end <= t_current /\ p.end \in Int
      BY <2>2, SetTypes, SentTypes DEF Batched, UnderWay
    <3>2. b.frame = current_frame /\ current_frame > t_current
      BY <2>2, FreshFacts
    <3> QED BY <1>1, <3>1, <3>2, UpTypes
  <2>3. CASE p \notin udp_up
    <3>1. Datagram(pending) /\ p = Packet(pending)
      BY <2>3 DEF Fetches, Silent, Datagram, OnTcp
    <3> QED BY <3>1, FetchPending, FetchSets
  <2> QED BY <2>1, <2>2, <2>3, FetchPending
<1>2. ASSUME NEW b \in Pending', b.frame <= server_seen
      PROVE  HasAll(b)
  <2>1. CASE b \in Pending
    BY <1>2, <2>1 DEF Complete
  <2>2. CASE b \in Fresh
    <3>1. b.frame = current_frame /\ current_frame > t_current
      BY <2>2, FreshFacts
    <3>2. server_seen <= t_current
      BY MarkKinds DEF Aligned
    <3> QED BY <1>2, <3>1, <3>2, UpTypes
  <2> QED BY <2>1, <2>2, FetchPending
<1> QED BY <1>1, <1>2 DEF Complete, OthersKeep, HasAll, Has

LEMMA FetchesAccounted ==
  ASSUME TypeOK, Submits, Batched, Aligned, Acked, Complete, Accounted,
         NEW pending, Fetches(pending), OthersKeep
  PROVE  Accounted'
<1>1. acked_frame <= server_seen /\ server_seen <= t_current
  BY MarkKinds DEF Acked, Aligned
<1>2. ASSUME NEW b \in Elems(send_buffer) \cup Fresh, NEW x \in Elems(b.inputs)
      PROVE  (\E c \in Pending' : x \in Elems(c.inputs)) \/ Has(x)
  <2>1. CASE b \in Elems(pending)
    BY <1>2, <2>1, FetchPending
  <2>2. CASE b.frame <= acked_frame /\ b \in Elems(send_buffer)
    <3>1. b \in Pending /\ b.frame \in Int
      BY <2>2, SetTypes, BatchTypes DEF Pending
    <3>2. b.frame <= server_seen
      BY <1>1, <2>2, <3>1, UpTypes
    <3> QED BY <1>2, <3>1, <3>2 DEF Complete, HasAll
  <2>3. CASE b.frame <= acked_frame /\ b \in Fresh
    <3>1. b.frame = current_frame /\ current_frame > t_current
      BY <2>3, FreshFacts
    <3> QED BY <1>1, <2>3, <3>1, UpTypes
  <2> QED BY <2>1, <2>2, <2>3 DEF Fetches
<1>3. ASSUME NEW x \in inputs
      PROVE  \/ x \in Elems(submit_buffer')
             \/ \E b \in Pending' : x \in Elems(b.inputs)
             \/ Has(x)
  <2>1. CASE x \in Elems(submit_buffer) /\ ~NewFrame
    BY <2>1 DEF Fetches
  <2>2. CASE x \in Elems(submit_buffer) /\ NewFrame
    <3>1. submit_buffer # <<>>
      BY <2>2, ElemsEmpty
    <3>2. FreshBatch \in Fresh /\ FreshBatch.inputs = submit_buffer
      BY <2>2, <3>1, FreshTypes DEF Fresh
    <3> QED BY <1>2, <2>2, <3>2
  <2>3. CASE \E b \in Pending : x \in Elems(b.inputs)
    <3>1. PICK b \in Pending : x \in Elems(b.inputs)
      BY <2>3
    <3>2. CASE b \in Elems(send_buffer)
      BY <1>2, <3>1, <3>2
    <3>3. CASE \E p \in OnStream : b \in Elems(p.batches)
      <4>1. b \in Pending'
        BY <3>3, FetchPending DEF Pending
      <4> QED BY <3>1, <4>1
    <3> QED BY <3>1, <3>2, <3>3 DEF Pending
  <2>4. CASE Has(x)
    BY <2>4
  <2> QED BY <2>1, <2>2, <2>3, <2>4 DEF Accounted
<1> QED BY <1>3 DEF Accounted, OthersKeep, Has

LEMMA FetchesLoss ==
  ASSUME TypeOK, Submits, Batched, Aligned, LossInv,
         NEW pending, Fetches(pending), OthersKeep
  PROVE  LossInv'
<1>1. StreamOrder'
  BY FetchesOrder DEF LossInv
<1>2. ~Pipelined => Acked'
  BY DEF LossInv, Acked, OthersKeep
<1>3. overtaken => overtaken'
  BY DEF Fetches, Silent, Datagram, OnTcp
<1>4. ~Pipelined /\ ~overtaken' => Complete' /\ Accounted'
  BY <1>3, FetchesComplete, FetchesAccounted DEF LossInv
<1> QED BY <1>1, <1>2, <1>4 DEF LossInv

-----------------------------------------------------------------------------
(* The server takes a transmission.                                        *)

LEMMA ConcatAt ==
  ASSUME NEW S, NEW s \in Seq(S), NEW t \in Seq(S)
  PROVE  /\ Len(s \o t) = Len(s) + Len(t)
         /\ \A i \in 1..Len(s) : (s \o t)[i] = s[i]
         /\ \A i \in 1..Len(s \o t) : i > Len(s) => (s \o t)[i] = t[i - Len(s)]
<1>1. Len(s \o t) = Len(s) + Len(t) /\ Len(s) \in Nat /\ Len(t) \in Nat
  OBVIOUS
<1>2. \A i \in 1..(Len(s) + Len(t)) :
        (s \o t)[i] = IF i <= Len(s) THEN s[i] ELSE t[i - Len(s)]
  OBVIOUS
<1> QED BY <1>1, <1>2

\* Every list of input that the server has then was there before or is a batch
\* of a frame it had not seen; none of the transmission is missing.
LEMMA TakeSplit ==
  ASSUME TypeOK, NEW p \in Transmission, Ascending(p.batches), ServerTake(p)
  PROVE  \E n \in Nat :
           LET len == Len(server_got)  batches == p.batches IN
           /\ Len(server_got') = len + (Len(batches) - n) /\ n <= Len(batches)
           /\ \A i \in 1..len : server_got'[i] = server_got[i]
           /\ \A i \in 1..Len(server_got') : i > len =>
                /\ i - len + n \in 1..Len(batches)
                /\ server_got'[i] = batches[i - len + n].inputs
                /\ batches[i - len + n].frame > server_seen
           /\ \A k \in 1..Len(batches) : k > n => k - n + len \in 1..Len(server_got')
           /\ \A k \in 1..Len(batches) : k <= n => batches[k].frame <= server_seen
           /\ server_seen' = Larger(server_seen, p.end)
<1> DEFINE len == Len(server_got)
           batches == p.batches
<1>1. PICK n \in 0..Len(batches) :
        /\ UpTo(batches, server_seen, n)
        /\ server_got' = server_got \o [i \in 1..(Len(batches) - n) |-> batches[n + i].inputs]
        /\ server_seen' = Larger(server_seen, p.end)
  BY DEF ServerTake
<1>2. batches \in Seq(Input) /\ server_got \in Seq(Seq(Frame)) /\ server_seen \in Int
  BY SentTypes, UpTypes
<1> DEFINE news == [i \in 1..(Len(batches) - n) |-> batches[n + i].inputs]
<1>3. Len(batches) \in Nat /\ len \in Nat /\ n \in Nat /\ n <= Len(batches)
  BY <1>1, <1>2
<1>4. \A k \in 1..Len(batches) : batches[k] \in Input
  BY <1>2
<1>5. \A k \in 1..Len(batches) : batches[k].inputs \in Seq(Frame) /\ batches[k].frame \in Int
  BY <1>4, BatchTypes
<1> HIDE DEF batches
<1>6. news \in Seq(Seq(Frame)) /\ Len(news) = Len(batches) - n
  <2>1. \A i \in 1..(Len(batches) - n) : n + i \in 1..Len(batches)
    BY <1>3
  <2>2. news \in [1..(Len(batches) - n) -> Seq(Frame)]
    BY <1>5, <2>1
  <2>3. Len(batches) - n \in Nat
    BY <1>3
  <2> HIDE DEF news
  <2> QED BY <2>2, <2>3
<1>7. \A i \in 1..Len(news) : news[i] = batches[n + i].inputs
  BY <1>6
<1> HIDE DEF news
<1>8. server_got' = server_got \o news
  BY <1>1 DEF news
<1>9. /\ Len(server_got') = len + Len(news)
      /\ \A i \in 1..len : server_got'[i] = server_got[i]
      /\ \A i \in 1..Len(server_got') : i > len => server_got'[i] = news[i - len]
  BY <1>2, <1>6, <1>8, ConcatAt
<1> HIDE DEF len
<1>10. Len(server_got') = len + (Len(batches) - n)
  BY <1>6, <1>9
<1>11. \A k \in 1..Len(batches) : k <= n => batches[k].frame <= server_seen
  BY <1>1, <1>3 DEF UpTo
<1>12. ASSUME NEW k \in 1..Len(batches), k > n
       PROVE  batches[k].frame > server_seen
  <2>1. n + 1 \in 1..Len(batches) /\ n < Len(batches)
    BY <1>3, <1>12
  <2>2. batches[n + 1].frame > server_seen
    BY <1>1, <2>1 DEF UpTo
  <2>3. n + 1 < k => batches[n + 1].frame < batches[k].frame
    BY <2>1 DEF Ascending, batches
  <2>4. batches[n + 1].frame \in Int /\ batches[k].frame \in Int
    BY <1>5, <2>1
  <2>5. n + 1 = k \/ n + 1 < k
    BY <1>3, <1>12
  <2> QED BY <1>2, <2>2, <2>3, <2>4, <2>5
<1>13. ASSUME NEW i \in 1..Len(server_got'), i > len
       PROVE  /\ i - len + n \in 1..Len(batches)
              /\ server_got'[i] = batches[i - len + n].inputs
              /\ batches[i - len + n].frame > server_seen
  <2>1. i - len + n \in 1..Len(batches) /\ i - len + n > n /\ i - len \in 1..Len(news)
    BY <1>3, <1>6, <1>10, <1>13
  <2>2. server_got'[i] = batches[n + (i - len)].inputs
    BY <1>7, <1>9, <1>13, <2>1
  <2>3. n + (i - len) = i - len + n
    BY <1>3
  <2> QED BY <1>12, <2>1, <2>2, <2>3
<1>14. \A k \in 1..Len(batches) : k > n => k - n + len \in 1..Len(server_got')
  BY <1>3, <1>10
<1> QED BY <1>1, <1>3, <1>9, <1>10, <1>11, <1>13, <1>14 DEF len, batches

\* What the server has it keeps, and of a transmission it has everything that
\* its marks say.
LEMMA TakeHas ==
  ASSUME TypeOK, NEW p \in Transmission, Ascending(p.batches), ServerTake(p)
  PROVE  /\ \A x : Has(x) => Has(x)'
         /\ \A x : Has(x)' => \/ Has(x)
                              \/ \E b \in Elems(p.batches) : /\ x \in Elems(b.inputs)
                                                             /\ b.frame > server_seen
         /\ \A b \in Elems(p.batches) : b.frame <= server_seen \/ HasAll(b)'
<1> DEFINE len == Len(server_got)
           batches == p.batches
<1>1. PICK n \in Nat :
        /\ Len(server_got') = len + (Len(batches) - n) /\ n <= Len(batches)
        /\ \A i \in 1..len : server_got'[i] = server_got[i]
        /\ \A i \in 1..Len(server_got') : i > len =>
             /\ i - len + n \in 1..Len(batches)
             /\ server_got'[i] = batches[i - len + n].inputs
             /\ batches[i - len + n].frame > server_seen
        /\ \A k \in 1..Len(batches) : k > n => k - n + len \in 1..Len(server_got')
        /\ \A k \in 1..Len(batches) : k <= n => batches[k].frame <= server_seen
  BY TakeSplit
<1>2. len \in Nat /\ Len(batches) \in Nat
  BY UpTypes, SentTypes
<1> HIDE DEF len, batches
<1>3. 1..len \subseteq 1..Len(server_got')
  BY <1>1, <1>2
<1>4. ASSUME NEW x, Has(x)
      PROVE  Has(x)'
  BY <1>1, <1>3, <1>4 DEF Has, len
<1>5. ASSUME NEW x, Has(x)'
      PROVE  \/ Has(x)
             \/ \E b \in Elems(p.batches) : x \in Elems(b.inputs) /\ b.frame > server_seen
  <2>1. PICK i \in 1..Len(server_got') : x \in Elems(server_got'[i])
    BY <1>5 DEF Has, Elems
  <2>2. CASE i \in 1..len
    BY <1>1, <2>1, <2>2 DEF Has, len
  <2>3. CASE i > len
    <3>1. /\ i - len + n \in 1..Len(batches)
          /\ server_got'[i] = batches[i - len + n].inputs
          /\ batches[i - len + n].frame > server_seen
      BY <1>1, <2>3
    <3>2. batches[i - len + n] \in Elems(p.batches)
      BY <3>1 DEF Elems, batches
    <3> QED BY <2>1, <3>1, <3>2
  <2> QED BY <1>2, <2>2, <2>3
<1>6. ASSUME NEW b \in Elems(p.batches)
      PROVE  b.frame <= server_seen \/ HasAll(b)'
  <2>1. PICK k \in 1..Len(batches) : b = batches[k]
    BY <1>6 DEF Elems, batches
  <2>2. CASE k <= n
    BY <1>1, <2>1, <2>2
  <2>3. CASE k > n
    <3>1. PICK i \in 1..Len(server_got') : i = k - n + len
      BY <1>1, <2>3
    <3>2. i > len /\ i - len + n = k
      BY <1>1, <1>2, <2>3, <3>1
    <3>3. server_got'[i] = b.inputs
      BY <1>1, <2>1, <3>1, <3>2
    <3> QED BY <3>3 DEF HasAll, Has, Elems
  <2> QED BY <2>2, <2>3
<1> QED BY <1>4, <1>5, <1>6

\* The batches of a transmission on its way.
LEMMA SentFacts ==
  ASSUME TypeOK, Batched, Aligned, NEW p \in UnderWay, NEW b \in Elems(p.batches)
  PROVE  /\ p \in Transmission /\ Ascending(p.batches) /\ p.end \in Int
         /\ b \in Batches /\ b \in Input /\ b.frame \in Int
         /\ b.frame <= p.end /\ p.end <= t_current
         /\ Rising(b.inputs) /\ b.inputs \in Seq(Frame)
         /\ \A x \in Elems(b.inputs) : x <= b.frame /\ x \in Int
         /\ \A m \in Marks : Apart(m, b)
<1>1. b \in Batches /\ p \in Transmission
  BY SetTypes DEF Batches
<1>2. b \in Input
  BY <1>1, SetTypes
<1> QED BY <1>1, <1>2, SentTypes, BatchTypes DEF Batched, Aligned

LEMMA TakeOrdered ==
  ASSUME TypeOK, TypeOK', Batched, Aligned, Got, NEW p \in UnderWay, ServerTake(p)
  PROVE  InputOnceInOrder'
<1> DEFINE len == Len(server_got)
           batches == p.batches
<1>1. p \in Transmission /\ Ascending(batches) /\ batches \in Seq(Input)
  BY SetTypes, SentTypes DEF Batched
<1>2. PICK n \in Nat :
        /\ \A i \in 1..len : server_got'[i] = server_got[i]
        /\ \A i \in 1..Len(server_got') : i > len =>
             /\ i - len + n \in 1..Len(batches)
             /\ server_got'[i] = batches[i - len + n].inputs
             /\ batches[i - len + n].frame > server_seen
  BY <1>1, TakeSplit
<1>3. len \in Nat /\ server_got \in Seq(Seq(Frame)) /\ server_got' \in Seq(Seq(Frame))
      /\ Len(server_got') \in Nat /\ server_seen \in Int
  <2>1. server_got' \in Seq(Seq(Frame))
    BY DEF TypeOK, ServerTypeOK
  <2> QED BY <2>1, UpTypes
<1>4. /\ DOMAIN server_got' = 1..Len(server_got') /\ DOMAIN server_got = 1..len
      /\ \A i \in 1..Len(server_got') : server_got'[i] \in Seq(Frame)
  BY <1>3
<1>5. \A i \in 1..Len(server_got') : DOMAIN server_got'[i] = 1..Len(server_got'[i])
  BY <1>4
<1> SUFFICES ASSUME NEW i \in 1..Len(server_got'), NEW j \in 1..Len(server_got'),
                    NEW k \in 1..Len(server_got'[i]), NEW l \in 1..Len(server_got'[j]),
                    i < j \/ (i = j /\ k < l)
             PROVE  server_got'[i][k] < server_got'[j][l]
  BY <1>4, <1>5 DEF InputOnceInOrder
<1> HIDE DEF len
<1>6. ASSUME NEW a \in 1..Len(server_got'), a > len
      PROVE  LET b == batches[a - len + n] IN
             /\ a - len + n \in 1..Len(batches)
             /\ b \in Elems(p.batches) /\ server_got'[a] = b.inputs
             /\ b.frame > server_seen
  BY <1>2, <1>6 DEF Elems
<1> HIDE DEF batches
<1>7. server_got'[i][k] \in Elems(server_got'[i]) /\ server_got'[j][l] \in Elems(server_got'[j])
  BY DEF Elems
<1>8. CASE j <= len
  <2>1. i \in 1..len /\ j \in 1..len
    BY <1>3, <1>8
  <2>2. server_got'[i] = server_got[i] /\ server_got'[j] = server_got[j]
    BY <1>2, <2>1
  <2>3. k \in DOMAIN server_got[i] /\ l \in DOMAIN server_got[j]
    BY <1>5, <2>2
  <2> QED BY <1>4, <2>1, <2>2, <2>3 DEF Got, InputOnceInOrder
<1>9. CASE i <= len /\ j > len
  <2> DEFINE b == batches[j - len + n]
  <2>1. b \in Elems(p.batches) /\ server_got'[j] = b.inputs /\ b.frame > server_seen
    BY <1>6, <1>9
  <2> HIDE DEF b
  <2>2. server_seen < server_got'[j][l] /\ server_got'[j][l] \in Int
    BY <1>7, <2>1, SentFacts, MarkKinds, <1>3 DEF Apart
  <2>3. i \in 1..len /\ server_got'[i] = server_got[i]
    BY <1>2, <1>3, <1>9
  <2>4. server_got'[i][k] \in Frame /\ Has(server_got'[i][k])
    BY <1>4, <1>7, <2>3, ElemsIn DEF Has, len
  <2>5. server_got'[i][k] <= server_seen /\ server_got'[i][k] \in Int
    BY <2>4 DEF Got, Frame
  <2> QED BY <1>3, <2>2, <2>5
<1>10. CASE i > len /\ j > len
  <2> DEFINE b == batches[i - len + n]
             c == batches[j - len + n]
  <2>1. /\ i - len + n \in 1..Len(batches) /\ b \in Elems(p.batches)
        /\ server_got'[i] = b.inputs
    BY <1>6, <1>10
  <2>2. /\ j - len + n \in 1..Len(batches) /\ c \in Elems(p.batches)
        /\ server_got'[j] = c.inputs
    BY <1>6, <1>10
  <2>3. CASE i = j
    <3>1. Rising(server_got'[i])
      BY <2>1, SentFacts
    <3> QED BY <2>3, <3>1 DEF Rising
  <2>4. CASE i < j
    <3>1. i - len + n < j - len + n
      BY <1>3, <2>4
    <3>2. b.frame < c.frame
      BY <1>1, <2>1, <2>2, <3>1 DEF Ascending
    <3> HIDE DEF b, c
    <3>3. server_got'[i][k] <= b.frame /\ server_got'[i][k] \in Int /\ b.frame \in Int
      BY <1>7, <2>1, SentFacts
    <3>4. b.frame < server_got'[j][l] /\ server_got'[j][l] \in Int
      BY <1>7, <2>1, <2>2, <3>2, SentFacts, MarkKinds DEF Apart
    <3> QED BY <3>3, <3>4
  <2> QED BY <2>3, <2>4
<1> QED BY <1>3, <1>8, <1>9, <1>10

LEMMA TakeGot ==
  ASSUME TypeOK, TypeOK', Batched, Aligned, Got, NEW p \in UnderWay, ServerTake(p)
  PROVE  Got' /\ server_seen' \in Marks /\ server_seen <= server_seen'
<1>1. p \in Transmission /\ Ascending(p.batches) /\ p.end \in Int /\ server_seen \in Int
  BY SetTypes, SentTypes, UpTypes DEF Batched
<1>2. server_seen' = Larger(server_seen, p.end)
  BY DEF ServerTake
<1>3. /\ server_seen' \in Marks /\ server_seen' \in Int
      /\ server_seen <= server_seen' /\ p.end <= server_seen'
  BY <1>1, <1>2, MarkKinds DEF Larger
<1>4. ASSUME NEW x \in Frame, Has(x)'
      PROVE  x <= server_seen'
  <2>1. CASE Has(x)
    <3>1. x <= server_seen /\ x \in Int
      BY <2>1 DEF Got, Frame
    <3> QED BY <1>1, <1>3, <3>1
  <2>2. CASE \E b \in Elems(p.batches) : x \in Elems(b.inputs)
    <3>1. PICK b \in Elems(p.batches) : x \in Elems(b.inputs)
      BY <2>2
    <3>2. x <= b.frame /\ b.frame <= p.end /\ x \in Int /\ b.frame \in Int
      BY <3>1, SentFacts
    <3> QED BY <1>1, <1>3, <3>2
  <2> QED BY <1>1, <1>4, <2>1, <2>2, TakeHas
<1> QED BY <1>3, <1>4, TakeOrdered DEF Got

LEMMA TakeAll ==
  ASSUME TypeOK, Batched, Aligned, Complete, NEW p \in UnderWay, ServerTake(p),
         NEW b \in Pending
  PROVE  /\ b \in Elems(p.batches) => HasAll(b)'
         /\ b.frame <= server_seen => HasAll(b)'
         /\ b.frame <= server_seen' => b.frame <= server_seen \/ b.frame <= p.end
<1>1. p \in Transmission /\ Ascending(p.batches)
  BY SetTypes DEF Batched
<1>2. HasAll(b) => HasAll(b)'
  BY <1>1, TakeHas DEF HasAll
<1>3. b.frame <= server_seen => HasAll(b)
  BY DEF Complete
<1>4. b \in Elems(p.batches) => b.frame <= server_seen \/ HasAll(b)'
  BY <1>1, TakeHas
<1>5. b.frame <= server_seen' => b.frame <= server_seen \/ b.frame <= p.end
  BY DEF ServerTake, Larger
<1> QED BY <1>2, <1>3, <1>4, <1>5

LEMMA ServerRecvUdpInput ==
  ASSUME TypeOK, TypeOK', InputInv, LossInv, ServerRecvUdp
  PROVE  InputInv' /\ LossInv'
<1>1. PICK p \in udp_up : ServerTake(p) /\ udp_up' \in {udp_up, udp_up \ {p}}
  BY DEF ServerRecvUdp
<1>2. /\ gpc' = gpc /\ submit_buffer' = submit_buffer /\ inputs' = inputs
      /\ t_current' = t_current /\ current_frame' = current_frame
      /\ send_buffer' = send_buffer /\ tcp_up' = tcp_up /\ overtaken' = overtaken
      /\ acked_frame' = acked_frame /\ udp_down' = udp_down
      /\ control_down' = control_down
  BY DEF ServerRecvUdp, gameVars, inputVars, tempVars, downVars
<1>3. /\ udp_up' \subseteq udp_up /\ OnStream' = OnStream /\ Pending' = Pending
      /\ UnderWay' \subseteq UnderWay /\ Batches' \subseteq Batches /\ p \in UnderWay
  BY <1>1, <1>2 DEF OnStream, Pending, UnderWay, Batches
<1>4. Got' /\ server_seen' \in Marks /\ server_seen <= server_seen'
  BY <1>1, <1>3, TakeGot DEF InputInv
<1>5. Batched' /\ Aligned'
  BY <1>2, <1>3, <1>4, ShrinksInv DEF Shrinks, InputInv
<1>6. Submits'
  BY <1>2 DEF InputInv, Submits
<1>7. StreamOrder'
  BY <1>2, <1>3 DEF LossInv, StreamOrder
<1>8. ASSUME Acked PROVE Acked'
  <2>1. server_seen \in Int /\ server_seen' \in Int /\ acked_frame \in Int
    BY UpTypes DEF TypeOK, ServerTypeOK
  <2>2. \A q \in udp_down : q.start \in Int
    BY DEF TypeOK, DownTypeOK, Slice
  <2>3. \A i \in 1..Len(control_down) : control_down[i].frame \in Int
    BY ControlTypes
  <2> QED BY <1>2, <1>4, <1>8, <2>1, <2>2, <2>3 DEF Acked
<1>9. ASSUME Complete, Accounted PROVE Complete' /\ Accounted'
  <2>1. ASSUME NEW b \in Pending, b.frame <= server_seen'
        PROVE  HasAll(b)'
    <3>1. b.frame <= p.end => b \in Elems(p.batches)
      BY <1>1, <1>9 DEF Complete
    <3> QED BY <1>1, <1>3, <1>9, <2>1, <3>1, TakeAll DEF InputInv
  <2>2. Complete'
    BY <1>3, <1>9, <2>1 DEF Complete
  <2>3. \A x : Has(x) => Has(x)'
    BY <1>1, <1>3, TakeHas, SetTypes DEF InputInv, Batched
  <2>4. Accounted'
    BY <1>2, <1>3, <1>9, <2>3 DEF Accounted
  <2> QED BY <2>2, <2>4
<1> QED BY <1>2, <1>4, <1>5, <1>6, <1>7, <1>8, <1>9 DEF InputInv, LossInv

LEMMA ServerRecvTcpInput ==
  ASSUME TypeOK, TypeOK', InputInv, LossInv, ServerRecvTcp
  PROVE  InputInv' /\ LossInv'
<1> DEFINE p == Head(tcp_up)
<1>1. ServerTake(p) /\ tcp_up # <<>> /\ tcp_up' = Tail(tcp_up)
  BY DEF ServerRecvTcp
<1>2. /\ gpc' = gpc /\ submit_buffer' = submit_buffer /\ inputs' = inputs
      /\ t_current' = t_current /\ current_frame' = current_frame
      /\ send_buffer' = send_buffer /\ udp_up' = udp_up /\ overtaken' = overtaken
      /\ acked_frame' = acked_frame /\ udp_down' = udp_down
      /\ control_down' = control_down
  BY DEF ServerRecvTcp, gameVars, inputVars, tempVars, downVars
<1>3. /\ Len(tcp_up') = Len(tcp_up) - 1 /\ 1 \in 1..Len(tcp_up)
      /\ \A i \in 1..Len(tcp_up') : i + 1 \in 1..Len(tcp_up) /\ tcp_up'[i] = tcp_up[i + 1]
      /\ p = tcp_up[1] /\ OnStream = OnStream' \cup {p} /\ p \in OnStream
  BY <1>1, UpTypes, ElemsTail DEF OnStream
<1> HIDE DEF p
<1>4. /\ Pending' \subseteq Pending /\ Pending \subseteq Pending' \cup Elems(p.batches)
      /\ UnderWay' \subseteq UnderWay /\ Batches' \subseteq Batches /\ p \in UnderWay
  BY <1>2, <1>3 DEF Pending, UnderWay, Batches
<1>5. Got' /\ server_seen' \in Marks /\ server_seen <= server_seen'
  BY <1>1, <1>4, TakeGot DEF InputInv
<1>6. Batched' /\ Aligned'
  BY <1>2, <1>4, <1>5, ShrinksInv DEF Shrinks, InputInv
<1>7. Submits'
  BY <1>2 DEF InputInv, Submits
<1>8. StreamOrder'
  <2>1. ASSUME NEW i \in 1..Len(tcp_up'), NEW j \in 1..Len(tcp_up'), i < j,
               NEW b \in Elems(tcp_up'[j].batches)
        PROVE  tcp_up'[i].end < b.frame
    <3>1. /\ i + 1 \in 1..Len(tcp_up) /\ tcp_up'[i] = tcp_up[i + 1]
          /\ j + 1 \in 1..Len(tcp_up) /\ tcp_up'[j] = tcp_up[j + 1]
      BY <1>3
    <3>2. i + 1 < j + 1
      BY <2>1
    <3> QED BY <2>1, <3>1, <3>2 DEF LossInv, StreamOrder
  <2>2. \A b \in Elems(send_buffer) : \A q \in OnStream' : q.end < b.frame
    BY <1>3 DEF LossInv, StreamOrder
  <2> QED BY <1>2, <2>1, <2>2 DEF StreamOrder
<1>9. ASSUME Acked PROVE Acked'
  <2>1. server_seen \in Int /\ server_seen' \in Int /\ acked_frame \in Int
    BY UpTypes DEF TypeOK, ServerTypeOK
  <2>2. \A q \in udp_down : q.start \in Int
    BY DEF TypeOK, DownTypeOK, Slice
  <2>3. \A i \in 1..Len(control_down) : control_down[i].frame \in Int
    BY ControlTypes
  <2> QED BY <1>2, <1>5, <1>9, <2>1, <2>2, <2>3 DEF Acked
<1>10. ASSUME NEW b \in Pending'
       PROVE  p.end < b.frame
  <2>1. CASE b \in Elems(send_buffer)
    BY <1>3, <2>1 DEF LossInv, StreamOrder
  <2>2. CASE \E q \in OnStream' : b \in Elems(q.batches)
    <3>1. PICK i \in 1..Len(tcp_up') : b \in Elems(tcp_up'[i].batches)
      BY <2>2 DEF OnStream, Elems
    <3>2. i + 1 \in 1..Len(tcp_up) /\ tcp_up'[i] = tcp_up[i + 1] /\ 1 < i + 1
      BY <1>3
    <3> QED BY <1>3, <3>1, <3>2 DEF LossInv, StreamOrder
  <2> QED BY <1>2, <2>1, <2>2 DEF Pending
<1>11. ASSUME Complete, Accounted PROVE Complete' /\ Accounted'
  <2>1. ASSUME NEW b \in Pending', b.frame <= server_seen'
        PROVE  HasAll(b)'
    <3>1. b \in Pending /\ b.frame \in Int /\ p.end \in Int
      BY <1>4, SetTypes, BatchTypes, SentTypes
    <3>2. ~(b.frame <= p.end)
      BY <1>10, <3>1
    <3> QED BY <1>1, <1>4, <1>11, <2>1, <3>1, <3>2, TakeAll DEF InputInv
  <2>2. Complete'
    BY <1>2, <1>4, <1>11, <2>1 DEF Complete
  <2>3. \A x : Has(x) => Has(x)'
    BY <1>1, <1>4, TakeHas, SetTypes DEF InputInv, Batched
  <2>4. ASSUME NEW b \in Pending, NEW x \in Elems(b.inputs)
        PROVE  (\E c \in Pending' : x \in Elems(c.inputs)) \/ Has(x)'
    <3>1. b \in Pending' \/ HasAll(b)'
      BY <1>1, <1>4, <1>11, TakeAll DEF InputInv
    <3> QED BY <2>4, <3>1 DEF HasAll
  <2>5. Accounted'
    BY <1>2, <1>11, <2>3, <2>4 DEF Accounted
  <2> QED BY <2>2, <2>5
<1> QED BY <1>2, <1>5, <1>6, <1>7, <1>8, <1>9, <1>11 DEF InputInv, LossInv

-----------------------------------------------------------------------------
(* The other steps.                                                        *)

USE DEF gameVars, sessionVars, tempVars, recvVars, sendVars, downVars, serverVars,
        inputVars, loopVars, Connected, Disconnected

\* No input moves, although a datagram may get lost.
InputStays ==
  /\ current_frame' = current_frame /\ submit_buffer' = submit_buffer
  /\ inputs' = inputs /\ t_current' = t_current /\ send_buffer' = send_buffer
  /\ tcp_up' = tcp_up /\ overtaken' = overtaken /\ udp_up' \subseteq udp_up
  /\ server_seen' = server_seen /\ server_got' = server_got
  /\ gpc' = "menu" => gpc = "menu"

AcksStay ==
  /\ server_seen' = server_seen /\ acked_frame' = acked_frame
  /\ udp_down' \subseteq udp_down /\ control_down' = control_down

LEMMA InputStaysInv ==
  ASSUME InputInv, LossInv, InputStays, ~Pipelined /\ Acked => Acked'
  PROVE  InputInv' /\ LossInv'
<1>1. /\ OnStream' = OnStream /\ Pending' = Pending /\ UnderWay' \subseteq UnderWay
      /\ Batches' \subseteq Batches
  BY DEF InputStays, OnStream, Pending, UnderWay, Batches
<1>2. Batched' /\ Aligned'
  BY <1>1, ShrinksInv, MarkKinds DEF InputInv, InputStays, Shrinks
<1>3. Submits'
  BY DEF InputInv, InputStays, Submits
<1>4. Got'
  BY DEF InputInv, InputStays, Got, InputOnceInOrder, Has
<1>5. StreamOrder'
  BY <1>1 DEF LossInv, InputStays, StreamOrder
<1>6. Complete => Complete'
  BY <1>1 DEF InputStays, Complete, HasAll, Has
<1>7. Accounted => Accounted'
  BY <1>1 DEF InputStays, Accounted, Has
<1> QED BY <1>2, <1>3, <1>4, <1>5, <1>6, <1>7 DEF InputInv, LossInv, InputStays

LEMMA AcksStayInv ==
  ASSUME Acked, AcksStay
  PROVE  Acked'
BY DEF Acked, AcksStay

\* The steps that have nothing to do with input.
LEMMA BystandersStay ==
  ASSUME \/ ServerTick \/ ServerSendTcp \/ LoseDatagram \/ EndWait \/ GoLocal
         \/ RecvTcpBegin \/ RecvTcpMessages \/ RecvTcpEnd \/ UNCHANGED vars
  PROVE  InputStays /\ AcksStay
<1>1. CASE ServerTick \/ ServerSendTcp
  BY <1>1 DEF ServerTick, ServerSendTcp, InputStays, AcksStay
<1>2. CASE LoseDatagram
  BY <1>2 DEF LoseDatagram, InputStays, AcksStay
<1>3. CASE EndWait \/ GoLocal
  BY <1>3 DEF EndWait, GoLocal, InputStays, AcksStay
<1>4. CASE RecvTcpBegin \/ RecvTcpMessages \/ RecvTcpEnd
  BY <1>4 DEF RecvTcpBegin, RecvTcpMessages, RecvTcpEnd, InputStays, AcksStay
<1>5. CASE UNCHANGED vars
  BY <1>5 DEF vars, InputStays, AcksStay
<1> QED BY <1>1, <1>2, <1>3, <1>4, <1>5

LEMMA ControlInput ==
  ASSUME TypeOK, InputInv, LossInv, Control
  PROVE  InputInv' /\ LossInv'
<1>1. /\ InputStays /\ server_seen' = server_seen /\ udp_down' = udp_down
      /\ \/ control_down' = control_down /\ acked_frame' = acked_frame
         \/ /\ control_down # <<>> /\ control_down' = Tail(control_down)
            /\ \/ acked_frame' = acked_frame
               \/ /\ Head(control_down).header = "ACK"
                  /\ acked_frame' = Head(control_down).frame
  BY DEF Control, InputStays
<1>2. ASSUME Acked PROVE Acked'
  <2>1. CASE control_down' = control_down /\ acked_frame' = acked_frame
    BY <1>1, <1>2, <2>1 DEF Acked
  <2>2. CASE control_down # <<>> /\ control_down' = Tail(control_down)
    <3>1. /\ Len(control_down') = Len(control_down) - 1 /\ 1 \in 1..Len(control_down)
          /\ \A i \in 1..Len(control_down') :
               i + 1 \in 1..Len(control_down) /\ control_down'[i] = control_down[i + 1]
          /\ Head(control_down) = control_down[1]
      BY <2>2, ControlTypes, ElemsTail
    <3>2. acked_frame' <= server_seen
      BY <1>1, <1>2, <2>2, <3>1 DEF Acked
    <3> QED BY <1>1, <1>2, <3>1, <3>2 DEF Acked
  <2> QED BY <1>1, <2>1, <2>2
<1> QED BY <1>1, <1>2, InputStaysInv

LEMMA RecvUdpInput ==
  ASSUME InputInv, LossInv, RecvUdp
  PROVE  InputInv' /\ LossInv'
<1>1. InputStays /\ server_seen' = server_seen /\ control_down' = control_down
  BY DEF RecvUdp, InputStays
<1>2. PICK p \in udp_down : udp_down' \in {udp_down, udp_down \ {p}} /\ acked_frame' = p.start
  BY DEF RecvUdp
<1>3. Acked => Acked'
  BY <1>1, <1>2 DEF Acked
<1> QED BY <1>1, <1>3, InputStaysInv

LEMMA ServerSendUdpInput ==
  ASSUME TypeOK, InputInv, LossInv, ServerSendUdp
  PROVE  InputInv' /\ LossInv'
<1>1. /\ InputStays /\ server_seen' = server_seen /\ control_down' = control_down
      /\ acked_frame' = acked_frame
  BY DEF ServerSendUdp, InputStays
<1>2. ASSUME ~Pipelined, Acked PROVE Acked'
  <2>1. PICK e : udp_down' = udp_down \cup {[start |-> server_seen, end |-> e]}
    BY <1>2 DEF ServerSendUdp
  <2>2. \A p \in udp_down' : p.start <= server_seen
    BY <1>2, <2>1, UpTypes DEF Acked
  <2> QED BY <1>1, <1>2, <2>2 DEF Acked
<1> QED BY <1>1, <1>2, InputStaysInv

LEMMA ServerSendControlInput ==
  ASSUME TypeOK, InputInv, LossInv, ServerSendControl
  PROVE  InputInv' /\ LossInv'
<1>1. /\ InputStays /\ server_seen' = server_seen /\ udp_down' = udp_down
      /\ acked_frame' = acked_frame
  BY DEF ServerSendControl, InputStays
<1>2. ASSUME Acked PROVE Acked'
  <2> DEFINE M == [header : {"FRAME_COMPLETE", "ACK"}, frame : 0..MaxFrame]
  <2>1. PICK m \in M : /\ control_down' = Append(control_down, m)
                       /\ m.header = "ACK" => m.frame = server_seen
    BY DEF ServerSendControl, TypeOK, ServerTypeOK
  <2>2. control_down \in Seq(M)
    BY ControlTypes
  <2> HIDE DEF M
  <2>3. /\ Len(control_down') = Len(control_down) + 1 /\ Len(control_down) \in Nat
        /\ control_down'[Len(control_down) + 1] = m
        /\ \A i \in 1..Len(control_down) : control_down'[i] = control_down[i]
    BY <2>1, <2>2
  <2>4. \A i \in 1..Len(control_down') :
          control_down'[i].header = "ACK" => control_down'[i].frame <= server_seen
    BY <1>2, <2>1, <2>3, UpTypes DEF Acked
  <2> QED BY <1>1, <1>2, <2>4 DEF Acked
<1> QED BY <1>1, <1>2, InputStaysInv

LEMMA HangUpInput ==
  ASSUME InputInv, LossInv, HangUp
  PROVE  InputInv' /\ LossInv'
<1>1. /\ InputStays /\ server_seen' = server_seen /\ acked_frame' = acked_frame
      /\ udp_down' = {} /\ control_down' = <<>>
  BY DEF HangUp, InputStays
<1>2. Acked => Acked'
  BY <1>1 DEF Acked
<1> QED BY <1>1, <1>2, InputStaysInv

LEMMA InitSessionInput ==
  ASSUME NoGapAhead, InputInv, LossInv, InitSession
  PROVE  InputInv' /\ LossInv'
<1>1. current_frame = 0 /\ submit_buffer = <<>>
  BY DEF InitSession, NoGapAhead, InputInv, Submits
<1>2. InputStays /\ AcksStay
  BY <1>1 DEF InitSession, InputStays, AcksStay
<1> QED BY <1>2, InputStaysInv, AcksStayInv

LEMMA StartFrameInput ==
  ASSUME TypeOK, InputInv, LossInv, StartFrame
  PROVE  InputInv' /\ LossInv'
<1>1. /\ t_current' = t_current /\ send_buffer' = send_buffer
      /\ tcp_up' = tcp_up /\ udp_up' = udp_up /\ overtaken' = overtaken
      /\ server_seen' = server_seen /\ server_got' = server_got
      /\ acked_frame' = acked_frame /\ udp_down' = udp_down
      /\ control_down' = control_down
      /\ current_frame' = current_frame + 1 /\ gpc' # "menu"
  BY DEF StartFrame
<1>2. \/ submit_buffer' = submit_buffer /\ inputs' = inputs
      \/ /\ current_frame + 1 \in InputFrames
         /\ submit_buffer' = Append(submit_buffer, current_frame + 1)
         /\ inputs' = inputs \cup {current_frame + 1}
  BY DEF StartFrame
<1>3. /\ OnStream' = OnStream /\ Pending' = Pending /\ UnderWay' = UnderWay
      /\ Batches' = Batches
  BY <1>1 DEF OnStream, Pending, UnderWay, Batches
<1>4. Batched' /\ Aligned'
  BY <1>1, <1>3, ShrinksInv, MarkKinds DEF InputInv, Shrinks
<1>5. Got'
  BY <1>1 DEF InputInv, Got, InputOnceInOrder, Has
<1>6. /\ current_frame \in Int /\ t_current \in Int /\ submit_buffer \in Seq(Frame)
      /\ t_current <= current_frame /\ Len(submit_buffer) \in Nat
      /\ \A x \in Elems(submit_buffer) : x \in Int /\ t_current < x /\ x <= current_frame
      /\ Rising(submit_buffer)
  <2>1. submit_buffer \in Seq(Frame) /\ Len(submit_buffer) \in Nat
    BY UpTypes
  <2>2. \A x \in Frame : x \in Int
    BY DEF Frame
  <2>3. Elems(submit_buffer) \subseteq Frame
    BY <2>1, ElemsIn
  <2> QED BY <2>1, <2>2, <2>3, UpTypes DEF InputInv, Submits
<1>7. CASE submit_buffer' = submit_buffer /\ inputs' = inputs
  <2>1. Submits'
    BY <1>1, <1>6, <1>7 DEF Submits
  <2>2. StreamOrder'
    BY <1>1, <1>3 DEF LossInv, StreamOrder
  <2>3. Acked => Acked'
    BY <1>1 DEF Acked
  <2>4. Complete /\ Accounted => Complete' /\ Accounted'
    BY <1>1, <1>3, <1>7 DEF Complete, Accounted, HasAll, Has
  <2> QED BY <1>1, <1>4, <1>5, <2>1, <2>2, <2>3, <2>4 DEF InputInv, LossInv
<1>8. CASE /\ current_frame + 1 \in InputFrames
           /\ submit_buffer' = Append(submit_buffer, current_frame + 1)
           /\ inputs' = inputs \cup {current_frame + 1}
  <2>1. current_frame + 1 \in Frame
    BY <1>8, FramesAssumption DEF Frame
  <2>2. Elems(submit_buffer') = Elems(submit_buffer) \cup {current_frame + 1}
    BY <1>6, <1>8, <2>1, ElemsAppend
  <2>3. /\ Len(submit_buffer') = Len(submit_buffer) + 1
        /\ submit_buffer'[Len(submit_buffer) + 1] = current_frame + 1
        /\ \A i \in 1..Len(submit_buffer) : submit_buffer'[i] = submit_buffer[i]
    BY <1>6, <1>8, <2>1
  <2>4. Rising(submit_buffer')
    <3> SUFFICES ASSUME NEW i \in 1..Len(submit_buffer'), NEW j \in 1..Len(submit_buffer'),
                        i < j
                 PROVE  submit_buffer'[i] < submit_buffer'[j]
      BY DEF Rising
    <3>1. i \in 1..Len(submit_buffer)
      BY <1>6, <2>3
    <3>2. submit_buffer'[i] = submit_buffer[i] /\ submit_buffer[i] \in Elems(submit_buffer)
      BY <2>3, <3>1 DEF Elems
    <3>3. CASE j \in 1..Len(submit_buffer)
      BY <1>6, <2>3, <3>1, <3>3 DEF Rising
    <3>4. CASE j = Len(submit_buffer) + 1
      BY <1>6, <2>3, <3>2, <3>4
    <3> QED BY <1>6, <2>3, <3>3, <3>4
  <2>5. Submits'
    <3>1. \A x \in Elems(submit_buffer') : t_current < x /\ x <= current_frame + 1
      BY <1>6, <2>2
    <3> QED BY <1>1, <1>6, <2>4, <3>1 DEF Submits
  <2>6. StreamOrder'
    BY <1>1, <1>3 DEF LossInv, StreamOrder
  <2>7. Acked => Acked'
    BY <1>1 DEF Acked
  <2>8. Complete => Complete'
    BY <1>1, <1>3 DEF Complete, HasAll, Has
  <2>9. Accounted => Accounted'
    BY <1>1, <1>3, <1>8, <2>2 DEF Accounted, Has
  <2> QED BY <1>1, <1>4, <1>5, <2>5, <2>6, <2>7, <2>8, <2>9 DEF InputInv, LossInv
<1> QED BY <1>2, <1>7, <1>8

LEMMA SyncInput ==
  ASSUME TypeOK, InputInv, LossInv, Sync, OthersKeep
  PROVE  InputInv' /\ LossInv'
<1>1. CASE BufferKept
  <2>1. InputStays /\ AcksStay
    BY <1>1 DEF BufferKept, OthersKeep, InputStays, AcksStay
  <2> QED BY <2>1, InputStaysInv, AcksStayInv
<1>2. CASE \E pending : Fetches(pending)
  <2>1. PICK pending : Fetches(pending)
    BY <1>2
  <2>2. Got'
    BY DEF InputInv, Got, InputOnceInOrder, Has, OthersKeep
  <2> QED BY <2>1, <2>2, FetchesSubmits, FetchesBatched, FetchesLoss DEF InputInv
<1> QED BY <1>1, <1>2, SyncFetches DEF InputInv

-----------------------------------------------------------------------------
(* The theorems.                                                           *)

LEMMA InitInput == Init => InputInv /\ LossInv
<1> SUFFICES ASSUME Init PROVE InputInv /\ LossInv
  OBVIOUS
<1>1. /\ gpc = "menu" /\ submit_buffer = <<>> /\ inputs = {}
      /\ t_current = 0 /\ current_frame = 0 /\ server_seen = 0 /\ server_got = <<>>
      /\ send_buffer = <<>> /\ udp_up = {} /\ tcp_up = <<>>
      /\ acked_frame = -1 /\ udp_down = {} /\ control_down = <<>>
  BY DEF Init
<1>2. Elems(<<>>) = {} /\ Rising(<<>>) /\ Ascending(<<>>) /\ \A x : ~Has(x)
  BY <1>1, ElemsEmpty DEF Rising, Ascending, Has
<1>3. OnStream = {} /\ UnderWay = {}
  BY <1>1, <1>2 DEF OnStream, UnderWay
<1>4. Batches = {} /\ Pending = {}
  BY <1>1, <1>2, <1>3 DEF Batches, Pending
<1>5. Marks = {0}
  BY <1>1, <1>3, <1>4 DEF Marks
<1>6. InputInv
  BY <1>1, <1>2, <1>3, <1>4, <1>5
     DEF InputInv, Submits, Batched, Aligned, Got, InputOnceInOrder
<1>7. LossInv
  BY <1>1, <1>2, <1>3, <1>4 DEF LossInv, StreamOrder, Acked, Complete, Accounted
<1> QED BY <1>6, <1>7

LEMMA NextInput ==
  ASSUME FramesInv, FramesInv', InputInv, LossInv, [Next]_vars
  PROVE  InputInv' /\ LossInv'
<1>1. TypeOK /\ TypeOK' /\ NoGapAhead
  BY DEF FramesInv
<1>2. CASE SyncData
  <2>1. Sync /\ OthersKeep
    BY <1>2 DEF SyncData, OthersKeep
  <2> QED BY <1>1, <2>1, SyncInput
<1>3. CASE RecvDone
  <2>1. CASE Sync
    <3>1. OthersKeep
      BY <1>3 DEF RecvDone, OthersKeep
    <3> QED BY <1>1, <2>1, <3>1, SyncInput
  <2>2. CASE ~Sync
    <3>1. InputStays /\ AcksStay
      BY <1>3, <2>2 DEF RecvDone, InputStays, AcksStay
    <3> QED BY <3>1, InputStaysInv, AcksStayInv
  <2> QED BY <2>1, <2>2
<1>4. CASE InitSession \/ StartFrame
  BY <1>1, <1>4, InitSessionInput, StartFrameInput
<1>5. CASE Control \/ RecvUdp \/ HangUp
  BY <1>1, <1>5, ControlInput, RecvUdpInput, HangUpInput
<1>6. CASE ServerSendUdp \/ ServerSendControl
  BY <1>1, <1>6, ServerSendUdpInput, ServerSendControlInput
<1>7. CASE ServerRecvUdp \/ ServerRecvTcp
  BY <1>1, <1>7, ServerRecvUdpInput, ServerRecvTcpInput
<1>8. CASE \/ ServerTick \/ ServerSendTcp \/ LoseDatagram \/ EndWait \/ GoLocal
           \/ RecvTcpBegin \/ RecvTcpMessages \/ RecvTcpEnd \/ UNCHANGED vars
  <2>1. InputStays /\ AcksStay
    BY <1>8, BystandersStay
  <2> QED BY <2>1, InputStaysInv, AcksStayInv
<1> QED BY <1>2, <1>3, <1>4, <1>5, <1>6, <1>7, <1>8
        DEF Next, GameThread, NetworkThread, Receive, Server

\* The inductive invariant: the order of what is on its way to the server, the
\* marks the server may be told of, and where each input is.
THEOREM InputInvariant == Spec => [](InputInv /\ LossInv)
<1> QED BY InitInput, NextInput, FramesInvariant, PTL DEF Spec

\* However SendData repeats input in datagrams and mixes them with TCP, the
\* server takes each input at most once, in the order it was made.
THEOREM InputOnceCorrect == Spec => []InputOnceInOrder
<1>1. InputInv => InputOnceInOrder
  BY DEF InputInv, Got
<1> QED BY <1>1, InputInvariant, PTL

LEMMA RangeElems ==
  ASSUME NEW S, NEW s \in Seq(S)
  PROVE  Range(s) = Elems(s)
BY DEF Range, Elems

LEMMA FlatElems ==
  ASSUME NEW s \in Seq(Input), NEW b \in Elems(s), NEW x \in Elems(b.inputs)
  PROVE  x \in FlatInputs(s)
<1>1. PICK i \in 1..Len(s) : s[i] = b
  BY DEF Elems
<1>2. i \in DOMAIN s /\ b \in Input
  BY <1>1
<1>3. x \in Range(s[i].inputs)
  BY <1>1, <1>2, BatchTypes, RangeElems
<1> QED BY <1>2, <1>3 DEF FlatInputs

LEMMA AccountedFor ==
  ASSUME TypeOK, Accounted
  PROVE  inputs \subseteq Range(submit_buffer) \cup FlatInputs(send_buffer)
                     \cup (UNION {FlatInputs(tcp_up[i].batches) : i \in DOMAIN tcp_up})
                     \cup (UNION {Range(server_got[i]) : i \in DOMAIN server_got})
<1> DEFINE OnTheStream == UNION {FlatInputs(tcp_up[i].batches) : i \in DOMAIN tcp_up}
           AtTheServer == UNION {Range(server_got[i]) : i \in DOMAIN server_got}
<1>1. ASSUME NEW x \in inputs
      PROVE  \/ x \in Range(submit_buffer) \/ x \in FlatInputs(send_buffer)
             \/ x \in OnTheStream \/ x \in AtTheServer
  <2>1. CASE x \in Elems(submit_buffer)
    BY <2>1, UpTypes, RangeElems
  <2>2. CASE \E b \in Elems(send_buffer) : x \in Elems(b.inputs)
    BY <2>2, UpTypes, FlatElems
  <2>3. CASE \E p \in OnStream : \E b \in Elems(p.batches) : x \in Elems(b.inputs)
    <3>1. PICK i \in 1..Len(tcp_up) :
            \E b \in Elems(tcp_up[i].batches) : x \in Elems(b.inputs)
      BY <2>3 DEF OnStream, Elems
    <3>2. i \in DOMAIN tcp_up /\ tcp_up[i] \in Transmission
      BY <3>1, UpTypes
    <3>3. tcp_up[i].batches \in Seq(Input)
      BY <3>2, SentTypes
    <3>4. x \in FlatInputs(tcp_up[i].batches)
      BY <3>1, <3>3, FlatElems
    <3> QED BY <3>2, <3>4
  <2>4. CASE Has(x)
    <3>1. PICK i \in 1..Len(server_got) : x \in Elems(server_got[i])
      BY <2>4 DEF Has
    <3>2. i \in DOMAIN server_got /\ server_got[i] \in Seq(Frame)
      BY <3>1, UpTypes
    <3>3. x \in Range(server_got[i])
      BY <3>1, <3>2, RangeElems
    <3> QED BY <3>2, <3>3
  <2> QED BY <2>1, <2>2, <2>3, <2>4 DEF Accounted, Pending
<1> HIDE DEF OnTheStream, AtTheServer
<1>2. inputs \subseteq Range(submit_buffer) \cup FlatInputs(send_buffer)
                      \cup OnTheStream \cup AtTheServer
  BY <1>1
<1> QED BY <1>2 DEF OnTheStream, AtTheServer

\* While the connection lasts, and unless a datagram overtakes the stream, what
\* the game submitted waits, is on the stream, or has reached the server: an
\* acknowledged batch that SendData drops is one that the server has.
THEOREM NoInputLostCorrect == Spec => []NoInputLost
<1>1. TypeOK /\ LossInv => NoInputLost
  BY AccountedFor DEF LossInv, NoInputLost
<1> QED BY <1>1, TypeCorrect, InputInvariant, PTL

=============================================================================
