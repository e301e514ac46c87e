--------------------------- MODULE VideoRecorder ---------------------------
(***************************************************************************)
(* Recording a video of the game: GifRecorder in render_base.cpp and the   *)
(* sinks of lib/pge_video_rec.  The game's thread starts and stops a       *)
(* recording and gives it a shot of the screen every so often, the mixer's *)
(* gives it chunks of sound, and an encoder thread, one for each           *)
(* recording, takes both from the recording's queues.                      *)
(*                                                                         *)
(* The recorder's mutex protects the pointer to the recording.  The game   *)
(* lets go of the mutex before it uses the pointer, and an encoder that    *)
(* comes to its end resets it: an access to a recording that is gone is    *)
(* undefined, and nothing is said of what comes after it.                  *)
(*                                                                         *)
(* Recordings are numbered as they start, shots as they are taken; 0 is    *)
(* no recording, and as a shot the end frame.                              *)
(***************************************************************************)
EXTENDS Integers, Sequences, FiniteSets

CONSTANTS
  Formats,        \* what the settings allow: [webm, audio_enabled]
  MaxBacklog,     \* the frames that may wait for the encoder, 65
  MaxRecordings,  \* bound: recordings
  MaxShots,       \* bound: shots of the screen
  MaxChunks       \* bound: chunks of sound that wait in one recording

ASSUME FormatsAssumption == Formats \subseteq [webm : BOOLEAN, audio_enabled : BOOLEAN]
ASSUME BoundsAssumption  ==
  MaxBacklog \in Nat /\ MaxRecordings \in Nat /\ MaxShots \in Nat /\ MaxChunks \in Nat

VARIABLES
  game,             \* where the game's thread is
  active,           \* local of processRecorder: was the recording active?
  worker_to_kill,   \* local of GifRecorder::quit
  mixer,            \* Mix_SetPostMix: "none", "set", or "stale", for a recorder that is deleted
  recording,        \* GifRecorder::recording, 0 for none
  worker,           \* GifRecorder::worker, the encoder of a recording or 0
  started,          \* recordings started
  spec,             \* the format of each recording
  exit_requested,   \* those that have been asked to end
  queue_frame, queue_audio,   \* the sink of each: shots, and how many chunks
  encoder, streams, stream,   \* of each recording: where its thread is, what it has
                              \* still to encode, and what it is at
  next_frame,       \* of each WebM recording: the shot that its encoder holds, or 0
  shots, tick,      \* shots taken; of each, its 1/120 s of the film
  accepted, written,          \* ghost: <<recording, shot>> queued; those in the files
  failed            \* ghost: recordings with a stream that ended by an error

game_vars == <<game, active, worker_to_kill, mixer, started, spec>>
pointers  == <<recording, worker>>
sink      == <<queue_frame, queue_audio>>
thread    == <<encoder, streams, stream, next_frame>>
ghosts    == <<shots, tick, accepted, written, failed>>
vars      == <<game_vars, pointers, exit_requested, sink, thread, ghosts>>

Recording == 1..MaxRecordings
EndFrame  == 0
GIF       == [webm |-> FALSE, audio_enabled |-> FALSE]

\* PGE_VideoSink::enqueue_frame.  With a negative backlog nothing is queued.
Enqueued(queue, frame, max_backlog) ==
  IF max_backlog >= 0 /\ Len(queue) < max_backlog THEN Append(queue, frame) ELSE queue

Present   == recording # 0
Active(r) == r \notin exit_requested

-----------------------------------------------------------------------------
(* toggleGifRecorder.                                                      *)

toggleGifRecorder ==
  /\ game = "playing"
  /\ worker' = IF Present THEN worker ELSE 0
  /\ \/ ~Present /\ started < MaxRecordings /\ game' = "start"
     \/ Present /\ Active(recording) /\ game' = "stop"
     \/ Present /\ ~Active(recording) /\ UNCHANGED game
  /\ UNCHANGED <<active, worker_to_kill, mixer, started, spec, recording, exit_requested, sink, thread, ghosts>>

\* The file was opened.  The codec for the sound may have failed, and then the game gives
\* none to a stream that waits for it.  SDL_CreateThread may fail.
Start ==
  /\ game = "start"
  /\ started' = started + 1
  /\ recording' = started'
  /\ \E f \in Formats, opened \in BOOLEAN :
       /\ spec' = [spec EXCEPT ![started'] =
                     IF f.webm THEN [f EXCEPT !.audio_enabled = @ /\ opened] ELSE GIF]
       /\ \/ /\ worker' = started'
             /\ encoder' = [encoder EXCEPT ![started'] = "pick"]
             /\ streams' = [streams EXCEPT ![started'] =
                              {"frame"} \cup (IF f.webm /\ f.audio_enabled THEN {"audio"} ELSE {})]
          \/ worker' = 0 /\ UNCHANGED <<encoder, streams>>
  /\ game' = "started"
  /\ UNCHANGED <<active, worker_to_kill, mixer, exit_requested, sink, stream, next_frame, ghosts>>

\* The file could not be opened.
NotStarted ==
  /\ game = "start" /\ game' = "playing"
  /\ UNCHANGED <<active, worker_to_kill, mixer, started, spec, pointers, exit_requested, sink, thread, ghosts>>

\* Reads recording->spec, without the mutex.
Started ==
  /\ game = "started"
  /\ IF Present
     THEN /\ game' = "playing"
          /\ mixer' = IF spec[recording].audio_enabled THEN "set" ELSE mixer
     ELSE game' = "undefined" /\ UNCHANGED mixer
  /\ UNCHANGED <<active, worker_to_kill, started, spec, pointers, exit_requested, sink, thread, ghosts>>

Stop ==
  /\ game = "stop"
  /\ mixer' = "none"
  /\ game' = "end"
  /\ UNCHANGED <<active, worker_to_kill, started, spec, pointers, exit_requested, sink, thread, ghosts>>

NotRequested == exit_requested          \* mutant: the end frame is to do
Requested    == exit_requested \cup {recording}

End ==
  /\ game = "end"
  /\ IF Present
     THEN /\ queue_frame' = [queue_frame EXCEPT ![recording] = Enqueued(@, EndFrame, -1)]
          /\ exit_requested' = Requested
          /\ game' = "ended"
     ELSE game' = "undefined" /\ UNCHANGED <<queue_frame, exit_requested>>
  /\ UNCHANGED <<active, worker_to_kill, mixer, started, spec, recording, worker, queue_audio, thread, ghosts>>

\* Reads recording->spec for the sound to play.
Ended ==
  /\ game = "ended"
  /\ game' = IF Present THEN "playing" ELSE "undefined"
  /\ UNCHANGED <<active, worker_to_kill, mixer, started, spec, pointers, exit_requested, sink, thread, ghosts>>

-----------------------------------------------------------------------------
(* processRecorder, once a frame.                                          *)

processRecorder ==
  /\ game = "playing" /\ Present
  /\ active' = Active(recording)
  /\ game' = "timer"
  /\ UNCHANGED <<worker_to_kill, mixer, started, spec, pointers, exit_requested, sink, thread, ghosts>>

\* With sound every frame is shot, else some.
Timer ==
  /\ game = "timer"
  /\ \/ ~Present /\ game' = "undefined"
     \/ Present /\ active /\ shots < MaxShots /\ game' = "shoot"
     \/ Present /\ (active => ~spec[recording].audio_enabled \/ shots = MaxShots) /\ game' = "circle"
  /\ UNCHANGED <<active, worker_to_kill, mixer, started, spec, pointers, exit_requested, sink, thread, ghosts>>

\* drawRecCircle shows the backlog.
Circle ==
  /\ game = "circle"
  /\ game' = IF Present THEN "playing" ELSE "undefined"
  /\ active' = FALSE
  /\ UNCHANGED <<worker_to_kill, mixer, started, spec, pointers, exit_requested, sink, thread, ghosts>>

\* With an unlimited frame rate several shots may be of one tick.
Ticks == IF shots = 0 THEN {0} ELSE tick[shots]..tick[shots] + 1

Shoot ==
  /\ game = "shoot"
  /\ shots' = shots + 1
  /\ \E t \in Ticks : tick' = Append(tick, t)
  /\ active' = FALSE
  /\ IF Present
     THEN /\ queue_frame' = [queue_frame EXCEPT ![recording] = Enqueued(@, shots', MaxBacklog)]
          /\ accepted' = IF queue_frame' = queue_frame THEN accepted
                         ELSE accepted \cup {<<recording, shots'>>}
          /\ game' = "playing"
     ELSE game' = "undefined" /\ UNCHANGED <<queue_frame, accepted>>
  /\ UNCHANGED <<worker_to_kill, mixer, started, spec, pointers, exit_requested, queue_audio, thread,
                 written, failed>>

\* The mixer's thread, all of it under the mutex.
store_audio_chunk ==
  /\ mixer = "set" /\ game # "undefined"
  /\ Present /\ Active(recording) /\ spec[recording].audio_enabled
  /\ queue_audio[recording] < MaxChunks
  /\ queue_audio' = [queue_audio EXCEPT ![recording] = @ + 1]
  /\ UNCHANGED <<game_vars, pointers, exit_requested, queue_frame, thread, ghosts>>

\* ... with a recorder that is deleted.
StaleChunk ==
  /\ mixer = "stale" /\ game # "undefined"
  /\ game' = "undefined"
  /\ UNCHANGED <<active, worker_to_kill, mixer, started, spec, pointers, exit_requested, sink, thread, ghosts>>

-----------------------------------------------------------------------------
(* encoding_thread, and processRecorder_action around it.                  *)

Runs(r) == encoder[r] \notin {"none", "done"} /\ game # "undefined"

Goes(r, place) == encoder' = [encoder EXCEPT ![r] = place]
Drops(r, s)    == streams' = [streams EXCEPT ![r] = @ \ {s}]

\* The stream that is behind the other is the next to encode.
Pick(r) ==
  /\ Runs(r) /\ encoder[r] = "pick"
  /\ \/ /\ streams[r] = {} /\ Goes(r, "finish") /\ UNCHANGED stream
     \/ \E s \in streams[r] : Goes(r, "look") /\ stream' = [stream EXCEPT ![r] = s]
  /\ UNCHANGED <<game_vars, pointers, exit_requested, sink, streams, next_frame, ghosts>>

Empty(r) == IF stream[r] = "frame" THEN queue_frame[r] = <<>> ELSE queue_audio[r] = 0

\* has_frame, has_audio.
Look(r) ==
  /\ Runs(r) /\ encoder[r] = "look"
  /\ Goes(r, IF Empty(r) THEN "check" ELSE "take")
  /\ UNCHANGED <<game_vars, pointers, exit_requested, sink, streams, stream, next_frame, ghosts>>

Idle(r) == TRUE                         \* mutant: it ends when it has caught up
Over(r) == ~Active(r)

\* exit_requested is read without a lock, after the queue was found empty.
Check(r) ==
  /\ Runs(r) /\ encoder[r] = "check"
  /\ \/ ~Over(r) /\ Goes(r, "look") /\ UNCHANGED streams
     \/ Over(r) /\ Goes(r, "pick") /\ Drops(r, stream[r])
  /\ UNCHANGED <<game_vars, pointers, exit_requested, sink, stream, next_frame, ghosts>>

Kept(queue) == queue                    \* mutant: the frame stays in the queue
Rest(queue) == Tail(queue)

Encoded(r, frame) == Append(written, <<r, frame>>)

AnyTick(frame, later)  == TRUE          \* mutant: only the last of the queue is written
SameTick(frame, later) == tick[frame] = tick[later]

\* get_video_frame of the WebM encoder writes a shot when it has the first of a later
\* tick; one of the same tick takes its place.
Hold(r, frame) ==
  /\ next_frame' = [next_frame EXCEPT ![r] = frame]
  /\ IF next_frame[r] = 0 \/ SameTick(next_frame[r], frame)
     THEN Goes(r, "look") /\ UNCHANGED written
     ELSE Goes(r, "pick") /\ written' = Encoded(r, next_frame[r])

Write(r, frame) == Goes(r, "pick") /\ written' = Encoded(r, frame) /\ UNCHANGED next_frame

\* dequeue_frame.
TakeFrame(r) ==
  /\ queue_frame' = [queue_frame EXCEPT ![r] = Rest(@)]
  /\ LET frame == Head(queue_frame[r])
     IN IF frame = EndFrame
        THEN Goes(r, "pick") /\ Drops(r, "frame") /\ UNCHANGED <<written, next_frame>>
        ELSE (IF spec[r].webm THEN Hold(r, frame) ELSE Write(r, frame)) /\ UNCHANGED streams
  /\ UNCHANGED queue_audio

\* dequeue_audio.
TakeAudio(r) ==
  /\ queue_audio' = [queue_audio EXCEPT ![r] = @ - 1]
  /\ Goes(r, "pick")
  /\ UNCHANGED <<queue_frame, written, streams, next_frame>>

Take(r) ==
  /\ Runs(r) /\ encoder[r] = "take"
  /\ IF stream[r] = "audio" THEN TakeAudio(r) ELSE TakeFrame(r)
  /\ UNCHANGED <<game_vars, pointers, exit_requested, stream, shots, tick, accepted, failed>>

\* FFmpeg may fail to convert, encode or write; that ends the stream.
Fail(r) ==
  /\ Runs(r) /\ encoder[r] = "pick" /\ spec[r].webm
  /\ \E s \in streams[r] : Drops(r, s)
  /\ failed' = failed \cup {r}
  /\ UNCHANGED <<game_vars, pointers, exit_requested, sink, encoder, stream, next_frame, shots, tick, accepted,
                 written>>

\* The file is closed and the recording deleted, under the mutex.
Finish(r) ==
  /\ Runs(r) /\ encoder[r] = "finish"
  /\ recording' = 0 /\ worker' = 0
  /\ Goes(r, "done")
  /\ queue_frame' = [queue_frame EXCEPT ![r] = <<>>] /\ queue_audio' = [queue_audio EXCEPT ![r] = 0]
  /\ next_frame' = [next_frame EXCEPT ![r] = 0]
  /\ UNCHANGED <<game_vars, exit_requested, streams, stream, ghosts>>

-----------------------------------------------------------------------------
(* GifRecorder::quit, when the program ends and when the renderer is       *)
(* exchanged for another.                                                  *)

Quit(place) ==
  /\ game = "playing"
  /\ game' = place
  /\ IF Present
     THEN /\ exit_requested' = exit_requested \cup {recording}
          /\ worker_to_kill' = worker /\ worker' = 0
     ELSE UNCHANGED <<exit_requested, worker_to_kill, worker>>
  /\ UNCHANGED <<active, started, spec, recording, sink, thread, ghosts>>

\* QuitMixerX comes first.
Close   == Quit("closing") /\ mixer' = "none"
Restart == Quit("restarting") /\ UNCHANGED mixer

AtOnce == TRUE                          \* mutant: the encoder is not waited for
Joined == worker_to_kill # 0 => encoder[worker_to_kill] = "done"

Closed ==
  /\ game = "closing" /\ Joined
  /\ game' = "over"
  /\ worker_to_kill' = 0
  /\ UNCHANGED <<active, mixer, started, spec, pointers, exit_requested, sink, thread, ghosts>>

\* The old renderer deletes its recorder, and nobody tells the mixer.
Restarted ==
  /\ game = "restarting" /\ Joined
  /\ game' = "playing"
  /\ worker_to_kill' = 0
  /\ recording' = 0 /\ worker' = 0
  /\ mixer' = IF mixer = "set" THEN "stale" ELSE mixer
  /\ UNCHANGED <<active, started, spec, exit_requested, sink, thread, ghosts>>

-----------------------------------------------------------------------------
Init ==
  /\ game = "playing" /\ active = FALSE /\ worker_to_kill = 0 /\ mixer = "none"
  /\ recording = 0 /\ worker = 0 /\ started = 0
  /\ spec = [r \in Recording |-> GIF] /\ exit_requested = {}
  /\ queue_frame = [r \in Recording |-> <<>>] /\ queue_audio = [r \in Recording |-> 0]
  /\ encoder = [r \in Recording |-> "none"] /\ streams = [r \in Recording |-> {}]
  /\ stream = [r \in Recording |-> "frame"] /\ next_frame = [r \in Recording |-> 0]
  /\ shots = 0 /\ tick = <<>> /\ accepted = {} /\ written = <<>> /\ failed = {}

Toggle  == Start \/ NotStarted \/ Started \/ Stop \/ End \/ Ended
Draw    == Timer \/ Circle \/ Shoot
Leave   == Closed \/ Restarted
Encode(r) == Pick(r) \/ Look(r) \/ Check(r) \/ Take(r) \/ Finish(r)

Next ==
  \/ toggleGifRecorder \/ processRecorder \/ Close \/ Restart
  \/ Toggle \/ Draw \/ Leave
  \/ store_audio_chunk \/ StaleChunk
  \/ \E r \in Recording : Encode(r) \/ Fail(r)

Spec == Init /\ [][Next]_vars

\* The game does not stop in the middle of a call, and an encoder goes on.
FairSpec ==
  /\ Spec
  /\ WF_vars(Toggle \/ Draw \/ Leave)
  /\ \A r \in Recording : WF_vars(Encode(r))

-----------------------------------------------------------------------------
(* Properties.                                                             *)

\* An encoder never outlives its recording: none works on one that was deleted or
\* replaced, so there are never two, and none is left when the program ends.
EncoderHasRecording ==
  \A r \in Recording :
    encoder[r] \notin {"none", "done"} => recording = r /\ game # "over"

\* The shots go to the files in the order they were taken, each once and in the
\* recording that was on.
InOrder ==
  \A k, m \in 1..Len(written) :
    /\ written[k] \in accepted
    /\ k < m => written[k][2] < written[m][2] /\ written[k][1] <= written[m][1]

Queued == {rs \in accepted : \E k \in 1..Len(queue_frame[rs[1]]) : queue_frame[rs[1]][k] = rs[2]}

Filmed == {written[k] : k \in 1..Len(written)}
            \cup {<<r, next_frame[r]>> : r \in {q \in Recording : next_frame[q] # 0}}

\* The shot itself or, in a WebM file, a later one of the same tick.
StandsFor(other, rs) ==
  other = rs \/ (/\ spec[rs[1]].webm
                 /\ other[1] = rs[1] /\ other[2] > rs[2] /\ tick[other[2]] = tick[rs[2]])

\* Nothing disappears between the game and the file while nobody stops the recording:
\* every shot taken out of the queue is written or in the encoder's hands, or is
\* stood for by a later one, and so no tick with a shot goes missing.
NoneLost ==
  \A rs \in accepted \ Queued :
    (\E other \in Filmed : StandsFor(other, rs)) \/ rs[1] \in exit_requested \cup failed

\* A recording that the player stops or the renderer leaves is saved and makes place
\* for another, if it got its thread.
Saved ==
  \A r \in Recording :
    game \in {"end", "closing", "restarting"} /\ recording = r /\ encoder[r] # "none"
      ~> recording # r \/ game = "undefined"

\* render_base.cpp: "mutex not held for reads from main thread after confirming
\* recording is active, because any write processes are initiated from main thread":
\* the recording is still there.
ReadsAreSafe ==
  game \in {"started", "stop", "end", "ended"} \/ (game \in {"timer", "shoot", "circle"} /\ active)
    => Present
=============================================================================
