------------------------ MODULE VideoRecorderProofs ------------------------
(***************************************************************************)
(* An encoder does not outlive its recording, and its shots are not        *)
(* reordered, nor lost but to one of their tick, proved for any number of recordings and shots, any  *)
(* backlog, any formats and every schedule of the game, the mixer and the  *)
(* encoders.                                                               *)
(***************************************************************************)
EXTENDS VideoRecorder, SequenceTheorems, TLAPS

Place == {"none", "pick", "look", "check", "take", "finish", "done"}

Types ==
  /\ started \in 0..MaxRecordings
  /\ shots \in Nat
  /\ encoder \in [Recording -> Place]
  /\ streams \in [Recording -> SUBSET {"frame", "audio"}]
  /\ stream \in [Recording -> {"frame", "audio"}]
  /\ queue_frame \in [Recording -> Seq(Nat)]
  /\ accepted \subseteq Recording \X Nat
  /\ written \in Seq(Recording \X Nat)
  /\ spec \in [Recording -> [webm : BOOLEAN, audio_enabled : BOOLEAN]]
  /\ next_frame \in [Recording -> Nat]
  /\ tick \in Seq(Nat) /\ Len(tick) = shots

Running(r) == encoder[r] \notin {"none", "done"}

\* The recording is the last that was started, or none.  Its encoder is known to the
\* recorder, or to the game that waits for it to end: who loses the one handle
\* has the other.
Handles ==
  /\ recording \in {0, started}
  /\ game = "start" => recording = 0 /\ started < MaxRecordings
  /\ \A r \in Recording : Running(r) =>
       /\ recording = r /\ game # "over"
       /\ game \in {"closing", "restarting"} => worker_to_kill = r
       /\ game \notin {"closing", "restarting", "undefined"} => worker = r
  /\ \A r \in Recording :
       r > started => encoder[r] = "none" /\ queue_frame[r] = <<>> /\ next_frame[r] = 0

Ascending(s) == \A k \in 1..Len(s), m \in 1..Len(s) : k < m => s[k] < s[m]
Within(s)    == {s[k] : k \in 1..Len(s)}

\* What waits was taken after what is in the files.
Held(r)   == {next_frame[r]} \ {0}
Behind(r) == \A w \in Within(written), s \in Held(r) \cup Within(queue_frame[r]) : w[2] < s

Chronological ==
  /\ \A rs \in accepted : rs[1] <= started /\ rs[2] \in 1..shots
  /\ \A r \in Recording : /\ \A s \in Within(queue_frame[r]) : <<r, s>> \in accepted
                          /\ Ascending(queue_frame[r])
                          /\ Running(r) => Behind(r)
                          /\ \A h \in Held(r) :
                               /\ spec[r].webm /\ <<r, h>> \in accepted
                               /\ \A s \in Within(queue_frame[r]) : h < s
  /\ Within(written) \subseteq accepted
  /\ \A k, m \in 1..Len(written) :
       k < m => written[k][2] < written[m][2] /\ written[k][1] <= written[m][1]

InFilm(rs) == \E other \in Filmed : StandsFor(other, rs)

\* An encoder gives up its shots only when it is told to end or has failed.
GivenUp(r) == r \in exit_requested \cup failed

NothingDropped ==
  /\ \A rs \in accepted :
       rs[2] \in Within(queue_frame[rs[1]]) \/ InFilm(rs) \/ GivenUp(rs[1])
  /\ \A r \in Recording :
       /\ encoder[r] # "none" /\ "frame" \notin streams[r] => GivenUp(r)
       /\ encoder[r] = "finish" => streams[r] = {}
       /\ encoder[r] = "take" /\ stream[r] = "frame" => queue_frame[r] # <<>>

RecorderInv == Types /\ Handles /\ Chronological /\ NothingDropped

-----------------------------------------------------------------------------
(* Queues of shots.                                                        *)

LEMMA NoShots == <<>> \in Seq(Nat) /\ Len(<<>>) = 0 /\ Within(<<>>) = {} /\ Ascending(<<>>)
  BY DEF Within, Ascending

LEMMA WithinAppend ==
  ASSUME NEW S, NEW q \in Seq(S), NEW e \in S
  PROVE  /\ Append(q, e) \in Seq(S) /\ Within(Append(q, e)) = Within(q) \cup {e}
         /\ Len(Append(q, e)) = Len(q) + 1 /\ Len(q) \in Nat
         /\ Append(q, e)[Len(q) + 1] = e /\ \A k \in 1..Len(q) : Append(q, e)[k] = q[k]
<1> DEFINE t == Append(q, e)
<1>1. /\ t \in Seq(S) /\ Len(t) = Len(q) + 1 /\ t[Len(q) + 1] = e /\ Len(q) \in Nat
      /\ \A k \in 1..Len(q) : t[k] = q[k]
  BY AppendProperties
<1> HIDE DEF t
<1>2. ASSUME NEW x \in Within(t) PROVE x \in Within(q) \cup {e}
  <2>1. PICK k \in 1..Len(t) : x = t[k]
    BY DEF Within
  <2>2. CASE k \in 1..Len(q)
    BY <2>1, <2>2, <1>1 DEF Within
  <2>3. CASE k = Len(q) + 1
    BY <2>1, <2>3, <1>1
  <2> QED BY <2>2, <2>3, <1>1
<1>3. ASSUME NEW x \in Within(q) PROVE x \in Within(t)
  <2>1. PICK k \in 1..Len(q) : x = q[k]
    BY DEF Within
  <2>2. k \in 1..Len(t) /\ t[k] = x
    BY <2>1, <1>1
  <2> QED BY <2>2 DEF Within
<1>4. e \in Within(t)
  <2>1. Len(q) + 1 \in 1..Len(t)
    BY <1>1
  <2> QED BY <2>1, <1>1 DEF Within
<1> QED BY <1>1, <1>2, <1>3, <1>4 DEF t

LEMMA AscendingAppend ==
  ASSUME NEW q \in Seq(Nat), NEW e \in Nat, Ascending(q), \A x \in Within(q) : x < e
  PROVE  Ascending(Append(q, e))
<1> DEFINE t == Append(q, e)
<1>1. /\ Len(t) = Len(q) + 1 /\ t[Len(q) + 1] = e /\ Len(q) \in Nat
      /\ \A k \in 1..Len(q) : t[k] = q[k]
  BY WithinAppend
<1> HIDE DEF t
<1>2. SUFFICES ASSUME NEW k \in 1..Len(t), NEW m \in 1..Len(t), k < m PROVE t[k] < t[m]
  BY DEF Ascending, t
<1>3. k \in 1..Len(q) /\ t[k] = q[k]
  BY <1>1, <1>2
<1>4. CASE m \in 1..Len(q)
  BY <1>1, <1>2, <1>3, <1>4 DEF Ascending
<1>5. CASE m = Len(q) + 1
  BY <1>1, <1>3, <1>5 DEF Within
<1> QED BY <1>1, <1>4, <1>5

LEMMA WithinTail ==
  ASSUME NEW q \in Seq(Nat), q # <<>>, Ascending(q)
  PROVE  /\ Tail(q) \in Seq(Nat) /\ Head(q) \in Nat /\ Ascending(Tail(q))
         /\ Within(q) = {Head(q)} \cup Within(Tail(q))
         /\ \A x \in Within(Tail(q)) : Head(q) < x
<1> DEFINE t == Tail(q)
<1>1. /\ t \in Seq(Nat) /\ Len(q) \in Nat \ {0} /\ Len(t) = Len(q) - 1 /\ Head(q) = q[1]
      /\ Head(q) \in Nat /\ \A k \in 1..Len(t) : t[k] = q[k + 1]
  BY HeadTailProperties, EmptySeq, LenProperties
<1> HIDE DEF t
<1>2. ASSUME NEW x \in Within(q) PROVE x \in {q[1]} \cup Within(t)
  <2>1. PICK k \in 1..Len(q) : x = q[k]
    BY DEF Within
  <2>2. CASE k # 1
    <3>1. k - 1 \in 1..Len(t) /\ t[k - 1] = x
      BY <1>1, <2>1, <2>2
    <3> QED BY <3>1 DEF Within
  <2> QED BY <2>1, <2>2
<1>3. ASSUME NEW x \in Within(t) PROVE x \in Within(q) /\ q[1] < x
  <2>1. PICK k \in 1..Len(t) : x = t[k]
    BY DEF Within
  <2>2. k + 1 \in 1..Len(q) /\ q[k + 1] = x /\ 1 \in 1..Len(q) /\ 1 < k + 1
    BY <1>1, <2>1
  <2> QED BY <2>2 DEF Within, Ascending
<1>4. q[1] \in Within(q)
  BY <1>1 DEF Within
<1>5. Ascending(t)
  <2>1. ASSUME NEW k \in 1..Len(t), NEW m \in 1..Len(t), k < m PROVE t[k] < t[m]
    <3>1. /\ k + 1 \in 1..Len(q) /\ m + 1 \in 1..Len(q) /\ k + 1 < m + 1
          /\ t[k] = q[k + 1] /\ t[m] = q[m + 1]
      BY <1>1, <2>1
    <3> QED BY <3>1 DEF Ascending
  <2> QED BY <2>1 DEF Ascending
<1> QED BY <1>1, <1>2, <1>3, <1>4, <1>5 DEF t

-----------------------------------------------------------------------------
(* The inductive invariant.                                                *)

LEMMA InitInv == Init => RecorderInv
<1> SUFFICES ASSUME Init PROVE RecorderInv
  OBVIOUS
<1> USE BoundsAssumption
<1>1. Types
  BY NoShots DEF Init, Types, Recording, Place, GIF
<1>2. Handles
  BY DEF Init, Handles, Running, Recording
<1>3. Within(written) = {} /\ accepted = {} /\ Len(written) = 0
  BY NoShots DEF Init
<1>4. Chronological
  BY <1>3, NoShots DEF Init, Chronological, Behind, Held
<1>5. NothingDropped
  BY <1>3 DEF Init, NothingDropped
<1> QED BY <1>1, <1>2, <1>4, <1>5 DEF RecorderInv

\* What the encoders have written or hold was queued.
LEMMA FilmedAccepted ==
  ASSUME RecorderInv
  PROVE  Filmed \subseteq accepted
<1>1. \A k \in 1..Len(written) : written[k] \in accepted
  BY DEF RecorderInv, Chronological, Within
<1>2. \A r \in Recording : next_frame[r] # 0 => <<r, next_frame[r]>> \in accepted
  BY DEF RecorderInv, Chronological, Held
<1> QED BY <1>1, <1>2 DEF Filmed

\* A shot that is in the film stays there while nothing is taken from it; later ticks
\* and later recordings do not matter.
LEMMA FilmKept ==
  ASSUME RecorderInv, NEW rs \in accepted, InFilm(rs), Filmed \subseteq Filmed',
         \A r \in Recording : r <= started => spec'[r] = spec[r],
         \A k \in 1..shots : tick'[k] = tick[k]
  PROVE  InFilm(rs)'
<1>1. PICK other \in Filmed : StandsFor(other, rs)
  BY DEF InFilm
<1>2. other \in accepted
  BY FilmedAccepted
<1>3. /\ rs[1] \in Recording /\ rs[1] <= started /\ rs[2] \in 1..shots /\ other[2] \in 1..shots
  BY <1>2 DEF RecorderInv, Types, Chronological
<1>4. StandsFor(other, rs)'
  BY <1>1, <1>3 DEF StandsFor
<1> QED BY <1>1, <1>4 DEF InFilm

\* Nothing happens to the shots.
LEMMA ShotsKept ==
  ASSUME RecorderInv, UNCHANGED <<started, spec, queue_frame, thread, ghosts>>,
         exit_requested \subseteq exit_requested'
  PROVE  Chronological' /\ NothingDropped'
<1>1. Chronological'
  BY DEF RecorderInv, Chronological, Running, Behind, Held, Within, Ascending, thread, ghosts
<1>2. NothingDropped'
  <2>1. \A r : GivenUp(r) => GivenUp(r)'
    BY DEF GivenUp, ghosts
  <2>2. Filmed' = Filmed
    BY DEF Filmed, thread, ghosts
  <2>3. \A rs \in accepted : InFilm(rs) => InFilm(rs)'
    BY <2>2, FilmKept DEF ghosts
  <2> QED BY <2>1, <2>3 DEF RecorderInv, NothingDropped, Within, thread, ghosts
<1> QED BY <1>1, <1>2

\* Where the game is does not matter to the encoders, but for the places where it
\* waits for one or starts one.
LEMMA HandlesKept ==
  ASSUME RecorderInv, UNCHANGED <<started, recording, worker, worker_to_kill, queue_frame, encoder, next_frame>>,
         game \notin {"closing", "restarting", "undefined"},
         game' \notin {"closing", "restarting", "over", "start"}
  PROVE  Handles'
BY DEF RecorderInv, Handles, Running

LEMMA TypesKept ==
  ASSUME Types, UNCHANGED <<started, spec, pointers, worker_to_kill, queue_frame, thread, ghosts>>
  PROVE  Types'
BY DEF Types, pointers, thread, ghosts

\* The calls of the game that do nothing to the recording, the encoder or the shots.
LEMMA QuietInv ==
  RecorderInv /\ (NotStarted \/ Started \/ Stop \/ Ended \/ processRecorder \/ Timer \/ Circle)
    => RecorderInv'
<1> SUFFICES ASSUME RecorderInv,
                    NotStarted \/ Started \/ Stop \/ Ended \/ processRecorder \/ Timer \/ Circle
             PROVE  RecorderInv'
  OBVIOUS
<1>1. /\ UNCHANGED <<started, spec, worker_to_kill, pointers, exit_requested, sink, thread, ghosts>>
      /\ game \in {"start", "started", "stop", "ended", "playing", "timer", "circle"}
      /\ game' \in {"playing", "undefined", "end", "timer", "shoot", "circle"}
  BY DEF NotStarted, Started, Stop, Ended, processRecorder, Timer, Circle
<1>2. UNCHANGED queue_frame
  BY <1>1 DEF sink
<1>3. Types'
  BY <1>1, <1>2, TypesKept DEF RecorderInv
<1>4. Handles'
  BY <1>1, <1>2, HandlesKept DEF pointers, thread
<1>5. Chronological' /\ NothingDropped'
  BY <1>1, <1>2, ShotsKept
<1> QED BY <1>3, <1>4, <1>5 DEF RecorderInv

LEMMA ToggleInv == RecorderInv /\ toggleGifRecorder => RecorderInv'
<1> SUFFICES ASSUME RecorderInv, toggleGifRecorder PROVE RecorderInv'
  OBVIOUS
<1> USE BoundsAssumption
<1>1. /\ UNCHANGED <<started, spec, recording, worker_to_kill, exit_requested, queue_frame, thread, ghosts>>
      /\ game = "playing" /\ worker' = IF recording # 0 THEN worker ELSE 0
      /\ \/ recording = 0 /\ started < MaxRecordings /\ game' = "start"
         \/ recording # 0 /\ game' \in {"stop", "playing"}
  BY DEF toggleGifRecorder, Present, sink
<1>2. Types'
  BY <1>1 DEF RecorderInv, Types, thread, ghosts
<1>3. Handles'
  BY <1>1 DEF RecorderInv, Handles, Running, thread, Recording
<1>4. Chronological' /\ NothingDropped'
  BY <1>1, ShotsKept
<1> QED BY <1>2, <1>3, <1>4 DEF RecorderInv

\* The first step of a recording: there is none before it, so no encoder.
LEMMA StartInv == RecorderInv /\ Start => RecorderInv'
<1> SUFFICES ASSUME RecorderInv, Start PROVE RecorderInv'
  OBVIOUS
<1> USE BoundsAssumption
<1> DEFINE n == started + 1
<1>1. recording = 0 /\ started < MaxRecordings /\ started \in Nat /\ n \in Recording
  <2>1. game = "start" /\ started \in 0..MaxRecordings
    BY DEF Start, RecorderInv, Types
  <2>2. recording = 0 /\ started < MaxRecordings
    BY <2>1 DEF RecorderInv, Handles
  <2> QED BY <2>1, <2>2 DEF Recording
<1>2. /\ started' = n /\ recording' = n /\ game' = "started"
      /\ UNCHANGED <<exit_requested, queue_frame, stream, next_frame, ghosts>>
  BY DEF Start, sink
<1>3. \A r \in Recording : ~Running(r)
  BY <1>1 DEF RecorderInv, Handles, Recording
<1>4. encoder[n] = "none" /\ queue_frame[n] = <<>> /\ next_frame[n] = 0
  BY <1>1 DEF RecorderInv, Handles
<1>5. /\ encoder \in [Recording -> Place]
      /\ streams \in [Recording -> SUBSET {"frame", "audio"}]
  BY DEF RecorderInv, Types
<1>6. \/ /\ worker' = n /\ encoder' = [encoder EXCEPT ![n] = "pick"]
         /\ \E ss \in SUBSET {"frame", "audio"} :
              "frame" \in ss /\ streams' = [streams EXCEPT ![n] = ss]
      \/ worker' = 0 /\ UNCHANGED <<encoder, streams>>
  <2>1. \A f : {"frame"} \cup (IF f THEN {"audio"} ELSE {}) \in SUBSET {"frame", "audio"}
    OBVIOUS
  <2> QED BY <2>1, <1>2 DEF Start
<1>12. /\ spec' \in [Recording -> [webm : BOOLEAN, audio_enabled : BOOLEAN]]
       /\ \A r \in Recording : r # n => spec'[r] = spec[r]
  <2>1. spec \in [Recording -> [webm : BOOLEAN, audio_enabled : BOOLEAN]]
    BY DEF RecorderInv, Types
  <2>2. PICK f \in Formats, opened \in BOOLEAN :
          spec' = [spec EXCEPT ![n] =
                     IF f.webm THEN [f EXCEPT !.audio_enabled = @ /\ opened] ELSE GIF]
    BY <1>2 DEF Start
  <2>3. PICK F \in [webm : BOOLEAN, audio_enabled : BOOLEAN] : spec' = [spec EXCEPT ![n] = F]
    <3>1. f \in [webm : BOOLEAN, audio_enabled : BOOLEAN]
      BY FormatsAssumption
    <3>2. [f EXCEPT !.audio_enabled = @ /\ opened] \in [webm : BOOLEAN, audio_enabled : BOOLEAN]
      BY <3>1, Zenon
    <3> QED BY <2>2, <3>2 DEF GIF
  <2> QED BY <2>1, <2>3
<1>7. /\ \A r \in Recording : r # n => encoder'[r] = encoder[r] /\ streams'[r] = streams[r]
      /\ \/ encoder'[n] = "none"
         \/ encoder'[n] = "pick" /\ worker' = n /\ "frame" \in streams'[n]
  BY <1>1, <1>4, <1>5, <1>6
<1> HIDE DEF n
<1>8. Types'
  <2>1. started' \in 0..MaxRecordings
    BY <1>1, <1>2 DEF n
  <2>2. encoder' \in [Recording -> Place] /\ streams' \in [Recording -> SUBSET {"frame", "audio"}]
    <3>1. CASE UNCHANGED <<encoder, streams>>
      BY <1>5, <3>1
    <3>2. CASE ~UNCHANGED <<encoder, streams>>
      BY <1>5, <1>6, <3>2 DEF Place
    <3> QED BY <3>1, <3>2
  <2> QED BY <2>1, <2>2, <1>2, <1>12 DEF RecorderInv, Types, ghosts
<1>9. Handles'
  <2>1. \A r \in Recording : Running(r)' => r = n /\ worker' = r
    BY <1>3, <1>7 DEF Running
  <2>2. \A r \in Recording : r > n => r > started /\ r # n
    BY <1>1 DEF n, Recording
  <2>3. \A r \in Recording :
          r > started' => encoder'[r] = "none" /\ queue_frame'[r] = <<>> /\ next_frame'[r] = 0
    BY <1>2, <1>7, <2>2 DEF RecorderInv, Handles
  <2> QED BY <1>2, <2>1, <2>3 DEF Handles
<1>10. Chronological'
  <2>1. Within(queue_frame'[n]) = {}
    BY <1>2, <1>4, NoShots
  <2>2. ASSUME NEW r \in Recording, Running(r)' PROVE Behind(r)'
    <3>1. r = n
      BY <1>3, <1>7, <2>2 DEF Running
    <3>2. Within(queue_frame[r])' = {} /\ Held(r)' = {}
      BY <2>1, <3>1, <1>2, <1>4 DEF Held
    <3> QED BY <3>2 DEF Behind
  <2>3. \A rs \in accepted' : rs[1] <= started' /\ rs[2] \in 1..shots'
    BY <1>1, <1>2 DEF n, RecorderInv, Types, Chronological, ghosts, Recording
  <2>4. UNCHANGED <<queue_frame, accepted, written>>
    BY <1>2 DEF ghosts
  <2>5. ASSUME NEW r \in Recording, NEW h \in Held(r)'
        PROVE  /\ spec'[r].webm /\ <<r, h>> \in accepted
               /\ \A s \in Within(queue_frame[r]) : h < s
    <3>1. r # n /\ h \in Held(r)
      BY <1>2, <1>4 DEF Held
    <3> QED BY <3>1, <1>12 DEF RecorderInv, Chronological
  <2> QED BY <2>2, <2>3, <2>4, <2>5 DEF RecorderInv, Chronological, Within, Ascending
<1>11. NothingDropped'
  <2>1. UNCHANGED <<queue_frame, accepted, written, exit_requested, failed, stream>>
    BY <1>2 DEF ghosts
  <2>2. \A r \in Recording : /\ encoder'[r] # "none" /\ "frame" \notin streams'[r] => GivenUp(r)
                             /\ encoder'[r] = "finish" => streams'[r] = {}
                             /\ encoder'[r] = "take" /\ stream[r] = "frame" => queue_frame[r] # <<>>
    BY <1>7 DEF RecorderInv, NothingDropped
  <2>3. \A rs \in accepted : InFilm(rs) => InFilm(rs)'
    <3>1. Filmed' = Filmed /\ tick' = tick
      BY <1>2 DEF Filmed, ghosts
    <3>2. \A r \in Recording : r <= started => spec'[r] = spec[r]
      BY <1>1, <1>12 DEF n, Recording
    <3> QED BY <3>1, <3>2, FilmKept
  <2> QED BY <2>1, <2>2, <2>3 DEF RecorderInv, NothingDropped, Within, GivenUp
<1> QED BY <1>8, <1>9, <1>10, <1>11 DEF RecorderInv

\* The end frame is not queued: the backlog allowed for it is -1.
LEMMA EndInv == RecorderInv /\ End => RecorderInv'
<1> SUFFICES ASSUME RecorderInv, End PROVE RecorderInv'
  OBVIOUS
<1>1. \A q : Enqueued(q, EndFrame, -1) = q
  BY DEF Enqueued
<1>2. queue_frame \in [Recording -> Seq(Nat)]
  BY DEF RecorderInv, Types
<1>3. /\ UNCHANGED <<started, spec, pointers, worker_to_kill, queue_frame, thread, ghosts>>
      /\ exit_requested \subseteq exit_requested'
      /\ game = "end" /\ game' \in {"ended", "undefined"}
  BY <1>1, <1>2 DEF End, Requested, pointers, Present
<1>4. Types' /\ Chronological' /\ NothingDropped'
  BY <1>3, TypesKept, ShotsKept DEF RecorderInv
<1>5. Handles'
  BY <1>3, HandlesKept DEF pointers, thread
<1> QED BY <1>4, <1>5 DEF RecorderInv

\* A shot is later than all before it; it goes to the recording that is on.
LEMMA ShootInv == RecorderInv /\ Shoot => RecorderInv'
<1> SUFFICES ASSUME RecorderInv, Shoot PROVE RecorderInv'
  OBVIOUS
<1> USE BoundsAssumption
<1> DEFINE e == shots + 1
<1>1. /\ UNCHANGED <<started, spec, pointers, worker_to_kill, exit_requested, thread, written, failed>>
      /\ shots' = e /\ shots \in Nat /\ e \in Nat
      /\ game = "shoot" /\ game' \in {"playing", "undefined"}
  BY DEF Shoot, RecorderInv, Types
<1>6. /\ tick' \in Seq(Nat) /\ Len(tick') = shots' /\ \A k \in 1..shots : tick'[k] = tick[k]
  <2>1. tick \in Seq(Nat) /\ Len(tick) = shots
    BY DEF RecorderInv, Types
  <2>2. PICK t \in Ticks : tick' = Append(tick, t)
    BY DEF Shoot
  <2>3. t \in Nat
    <3>1. shots # 0 => tick[shots] \in Nat
      BY <1>1, <2>1, ElementOfSeq
    <3> QED BY <3>1, <2>2 DEF Ticks
  <2> QED BY <2>1, <2>2, <2>3, <1>1, AppendProperties
<1>7. \A rs \in accepted : InFilm(rs) => InFilm(rs)'
  <2>1. Filmed' = Filmed
    BY <1>1 DEF Filmed, thread
  <2> QED BY <2>1, <1>1, <1>6, FilmKept
<1>2. /\ queue_frame \in [Recording -> Seq(Nat)] /\ accepted \subseteq Recording \X Nat
      /\ written \in Seq(Recording \X Nat) /\ started \in 0..MaxRecordings
  BY DEF RecorderInv, Types
<1>3. Within(written) \subseteq accepted /\ \A rs \in accepted : rs[2] \in 1..shots
  BY DEF RecorderInv, Chronological
<1>4. CASE UNCHANGED <<queue_frame, accepted>>
  <2>1. Types'
    BY <1>1, <1>4, <1>6 DEF RecorderInv, Types, thread
  <2>2. Handles'
    BY <1>1, <1>4 DEF RecorderInv, Handles, Running, pointers, thread
  <2>3. \A k : k \in 1..shots => k \in 1..shots'
    BY <1>1
  <2>4. Chronological'
    BY <1>1, <1>4, <2>3 DEF RecorderInv, Chronological, Running, Behind, Held, Within, Ascending, thread
  <2>5. NothingDropped'
    BY <1>1, <1>4, <1>7 DEF RecorderInv, NothingDropped, GivenUp, Within, thread
  <2> QED BY <2>1, <2>2, <2>4, <2>5 DEF RecorderInv
<1>5. CASE ~UNCHANGED <<queue_frame, accepted>>
  <2> DEFINE n == recording
             q == queue_frame[n]
             t == Append(q, e)
  <2>1. /\ n \in Recording /\ n = started
        /\ queue_frame' = [queue_frame EXCEPT ![n] = t]
        /\ accepted' = accepted \cup {<<n, e>>}
    <3>1. n # 0
      BY <1>5 DEF Shoot, Present
    <3>2. n = started /\ n \in Recording
      BY <3>1, <1>2 DEF RecorderInv, Handles, Recording
    <3>3. queue_frame' = [queue_frame EXCEPT ![n] = Enqueued(q, e, MaxBacklog)]
      BY <3>1, <1>1 DEF Shoot, Present
    <3>4. /\ queue_frame' # queue_frame /\ accepted' = accepted \cup {<<n, e>>}
      BY <3>1, <1>1, <1>5 DEF Shoot, Present
    <3>5. Enqueued(q, e, MaxBacklog) \in {q, t}
      BY DEF Enqueued
    <3>6. Enqueued(q, e, MaxBacklog) # q
      BY <3>2, <3>3, <3>4, <1>2
    <3> QED BY <3>2, <3>3, <3>4, <3>5, <3>6
  <2>2. q \in Seq(Nat) /\ queue_frame'[n] = t /\ \A r \in Recording \ {n} : queue_frame'[r] = queue_frame[r]
    BY <2>1, <1>2
  <2>3. t \in Seq(Nat) /\ Within(t) = Within(q) \cup {e} /\ t # <<>>
    <3>1. t \in Seq(Nat) /\ Within(t) = Within(q) \cup {e}
      BY <2>2, <1>1, WithinAppend
    <3> QED BY <3>1, NoShots
  <2>4. \A s \in Within(q) : <<n, s>> \in accepted /\ s < e
    <3>1. \A s \in Within(q) : <<n, s>> \in accepted
      BY <2>1 DEF RecorderInv, Chronological
    <3> QED BY <3>1, <1>3, <1>1
  <2>5. Ascending(q)
    BY <2>1 DEF RecorderInv, Chronological
  <2>6. Ascending(t)
    <3>1. \A s \in Within(q) : s < e
      BY <2>4
    <3> HIDE DEF q, e
    <3> QED BY <3>1, <2>5, <2>2, <1>1, AscendingAppend
  <2> HIDE DEF n, q, t, e
  <2>7. Types'
    <3>1. queue_frame' \in [Recording -> Seq(Nat)]
      BY <1>2, <2>1, <2>3
    <3>2. accepted' \subseteq Recording \X Nat
      BY <1>1, <1>2, <2>1
    <3> QED BY <3>1, <3>2, <1>1, <1>6 DEF RecorderInv, Types, thread
  <2>8. Handles'
    <3>1. \A r \in Recording : r > started => r # n
      BY <2>1, <1>2 DEF Recording
    <3> QED BY <3>1, <1>1, <2>2 DEF RecorderInv, Handles, Running, pointers, thread
  <2>9. Chronological'
    <3>1. \A rs \in accepted' : rs[1] <= started' /\ rs[2] \in 1..shots'
      <4>1. \A rs \in accepted : rs[1] <= started
        BY DEF RecorderInv, Chronological
      <4>2. <<n, e>>[1] <= started /\ <<n, e>>[2] \in 1..shots'
        BY <2>1, <1>1, <1>2 DEF e
      <4> QED BY <4>1, <4>2, <1>1, <1>3, <2>1 DEF e
    <3>2. ASSUME NEW r \in Recording
          PROVE  /\ \A s \in Within(queue_frame'[r]) : <<r, s>> \in accepted'
                 /\ Ascending(queue_frame'[r])
                 /\ Running(r)' => Behind(r)'
                 /\ \A h \in Held(r)' :
                      /\ spec[r].webm /\ <<r, h>> \in accepted'
                      /\ \A s \in Within(queue_frame'[r]) : h < s
      <4>3. Held(r)' = Held(r) /\ accepted \subseteq accepted'
        BY <1>1, <2>1 DEF Held, thread
      <4>1. CASE r # n
        <5>1. queue_frame'[r] = queue_frame[r] /\ accepted \subseteq accepted'
          BY <4>1, <2>1, <2>2
        <5>2. Running(r)' = Running(r) /\ Behind(r)' = Behind(r)
          BY <5>1, <1>1, <4>3 DEF Running, Behind, thread
        <5> QED BY <5>1, <5>2, <4>3 DEF RecorderInv, Chronological
      <4>2. CASE r = n
        <5>1. \A s \in Within(queue_frame'[r]) : <<r, s>> \in accepted'
          BY <4>2, <2>1, <2>2, <2>3, <2>4
        <5>2. \A w \in Within(written) : w[2] < e
          BY <1>3, <1>1 DEF e
        <5>3. Behind(r) => Behind(r)'
          BY <4>2, <4>3, <5>2, <2>2, <2>3, <1>1 DEF Behind, q
        <5>4. Running(r)' => Running(r)
          BY <1>1 DEF Running, thread
        <5>5. Running(r)' => Behind(r)'
          BY <5>3, <5>4 DEF RecorderInv, Chronological
        <5>6. Ascending(queue_frame'[r])
          BY <4>2, <2>2, <2>6
        <5>7. ASSUME NEW h \in Held(r)
              PROVE  /\ spec[r].webm /\ <<r, h>> \in accepted'
                     /\ \A s \in Within(queue_frame'[r]) : h < s
          <6>1. /\ spec[r].webm /\ <<r, h>> \in accepted
                /\ \A s \in Within(queue_frame[r]) : h < s
            BY DEF RecorderInv, Chronological
          <6>2. h < e
            BY <6>1, <1>3, <1>1 DEF e
          <6> QED BY <6>1, <6>2, <4>2, <4>3, <2>2, <2>3 DEF q
        <5> QED BY <5>1, <5>5, <5>6, <5>7, <4>3
      <4> QED BY <4>1, <4>2
    <3>3. Within(written') \subseteq accepted'
      BY <1>1, <1>3, <2>1
    <3> QED BY <3>1, <3>2, <3>3, <1>1 DEF RecorderInv, Chronological
  <2>10. NothingDropped'
    <3>1. ASSUME NEW rs \in accepted'
          PROVE  rs[2] \in Within(queue_frame'[rs[1]]) \/ InFilm(rs)' \/ GivenUp(rs[1])'
      <4>1. CASE rs = <<n, e>>
        BY <4>1, <2>2, <2>3
      <4>2. CASE rs \in accepted
        <5>1. rs[2] \in Within(queue_frame[rs[1]]) \/ InFilm(rs) \/ GivenUp(rs[1])
          BY <4>2 DEF RecorderInv, NothingDropped
        <5>2. rs[1] \in Recording
          BY <4>2, <1>2
        <5>3. Within(queue_frame[rs[1]]) \subseteq Within(queue_frame'[rs[1]])
          BY <5>2, <2>2, <2>3 DEF q
        <5> QED BY <5>1, <5>3, <1>1, <1>7, <4>2 DEF GivenUp
      <4> QED BY <4>1, <4>2, <2>1
    <3>2. \A r \in Recording : queue_frame'[r] = <<>> => queue_frame[r] = <<>>
      BY <2>2, <2>3
    <3> QED BY <3>1, <3>2, <1>1 DEF RecorderInv, NothingDropped, GivenUp, thread
  <2> QED BY <2>7, <2>8, <2>9, <2>10 DEF RecorderInv
<1> QED BY <1>4, <1>5

\* A step of an encoder that neither takes a shot nor ends it.
LEMMA MoveInv ==
  ASSUME RecorderInv, NEW r \in Recording, Running(r),
         NEW place \in {"pick", "look", "check", "take", "finish"}, Goes(r, place),
         UNCHANGED <<game, started, spec, pointers, worker_to_kill, exit_requested, queue_frame,
                     shots, tick, accepted, written, next_frame>>,
         failed \subseteq failed',
         NEW ss \in SUBSET {"frame", "audio"}, streams' = [streams EXCEPT ![r] = ss],
         NEW s \in {"frame", "audio"}, stream' = [stream EXCEPT ![r] = s],
         "frame" \notin ss => GivenUp(r)',
         place = "finish" => ss = {},
         place = "take" /\ s = "frame" => queue_frame[r] # <<>>
  PROVE  RecorderInv'
<1>1. /\ encoder \in [Recording -> Place] /\ stream \in [Recording -> {"frame", "audio"}]
      /\ streams \in [Recording -> SUBSET {"frame", "audio"}]
  BY DEF RecorderInv, Types
<1>2. /\ encoder'[r] = place /\ streams'[r] = ss /\ stream'[r] = s
      /\ \A o \in Recording \ {r} :
           encoder'[o] = encoder[o] /\ streams'[o] = streams[o] /\ stream'[o] = stream[o]
  BY <1>1 DEF Goes
<1>3. \A o \in Recording : Running(o)' = Running(o)
  BY <1>2 DEF Running
<1>4. Types'
  <2>1. encoder' \in [Recording -> Place]
    BY <1>1 DEF Goes, Place
  <2>2. streams' \in [Recording -> SUBSET {"frame", "audio"}]
    BY <1>1
  <2>3. stream' \in [Recording -> {"frame", "audio"}]
    BY <1>1
  <2> QED BY <2>1, <2>2, <2>3 DEF RecorderInv, Types
<1>5. Handles'
  <2>1. r <= started
    <3>1. ~(r > started)
      BY DEF RecorderInv, Handles, Running
    <3> QED BY <3>1 DEF RecorderInv, Types, Recording
  <2>2. \A o \in Recording :
          o > started => encoder'[o] = "none" /\ queue_frame[o] = <<>> /\ next_frame[o] = 0
    <3>1. \A o \in Recording : o > started => o # r
      BY <2>1 DEF RecorderInv, Types, Recording
    <3> QED BY <3>1, <1>2 DEF RecorderInv, Handles
  <2> QED BY <1>3, <2>2 DEF RecorderInv, Handles, pointers
<1>6. Chronological'
  <2>1. \A o \in Recording : Held(o)' = Held(o) /\ Behind(o)' = Behind(o)
    BY DEF Held, Behind, Within
  <2> QED BY <2>1, <1>3 DEF RecorderInv, Chronological, Within, Ascending
<1>7. NothingDropped'
  <2>1. \A o : GivenUp(o) => GivenUp(o)'
    BY DEF GivenUp
  <2>3. \A rs \in accepted : InFilm(rs) => InFilm(rs)'
    <3>1. Filmed' = Filmed
      BY DEF Filmed
    <3> QED BY <3>1, FilmKept
  <2>2. ASSUME NEW o \in Recording
        PROVE  /\ encoder'[o] # "none" /\ "frame" \notin streams'[o] => GivenUp(o)'
               /\ encoder'[o] = "finish" => streams'[o] = {}
               /\ encoder'[o] = "take" /\ stream'[o] = "frame" => queue_frame[o] # <<>>
    <3>1. CASE o = r
      BY <3>1, <1>2
    <3>2. CASE o # r
      BY <3>2, <1>2, <2>1 DEF RecorderInv, NothingDropped
    <3> QED BY <3>1, <3>2
  <2> QED BY <2>1, <2>2, <2>3 DEF RecorderInv, NothingDropped, Within
<1> QED BY <1>4, <1>5, <1>6, <1>7 DEF RecorderInv

LEMMA EncodeInv ==
  ASSUME NEW r \in Recording, RecorderInv, Pick(r) \/ Look(r) \/ Check(r) \/ Fail(r)
  PROVE  RecorderInv'
<1>1. /\ Running(r) /\ exit_requested' = exit_requested /\ failed \subseteq failed'
      /\ UNCHANGED <<game, started, spec, pointers, worker_to_kill, exit_requested, queue_frame,
                     shots, tick, accepted, written, next_frame>>
  BY DEF Pick, Look, Check, Fail, Runs, Running, game_vars, sink, ghosts
<1>2. /\ streams \in [Recording -> SUBSET {"frame", "audio"}]
      /\ stream \in [Recording -> {"frame", "audio"}] /\ encoder \in [Recording -> Place]
      /\ streams[r] \in SUBSET {"frame", "audio"} /\ stream[r] \in {"frame", "audio"}
      /\ streams = [streams EXCEPT ![r] = streams[r]] /\ stream = [stream EXCEPT ![r] = stream[r]]
  BY DEF RecorderInv, Types
<1>3. "frame" \notin streams[r] => GivenUp(r)
  BY <1>1 DEF RecorderInv, NothingDropped, Running
<1>4. GivenUp(r) => GivenUp(r)'
  BY <1>1 DEF GivenUp
<1>5. PICK ss \in SUBSET {"frame", "audio"} : ss = streams[r]
  BY <1>2
<1>6. PICK s \in {"frame", "audio"} : s = stream[r]
  BY <1>2
<1>7. ss \ {s} \in SUBSET {"frame", "audio"}
  OBVIOUS
<1>8. CASE Pick(r)
  <2>1. CASE streams[r] = {} /\ Goes(r, "finish") /\ UNCHANGED <<streams, stream>>
    BY <2>1, <1>1, <1>2, <1>3, <1>4, <1>5, <1>6, MoveInv
  <2>2. CASE UNCHANGED streams /\ \E x \in streams[r] : Goes(r, "look") /\ stream' = [stream EXCEPT ![r] = x]
    <3>1. PICK x \in {"frame", "audio"} : Goes(r, "look") /\ stream' = [stream EXCEPT ![r] = x]
      BY <2>2, <1>2
    <3> QED BY <3>1, <2>2, <1>1, <1>2, <1>3, <1>4, <1>5, MoveInv
  <2> QED BY <1>8, <2>1, <2>2 DEF Pick
<1>9. CASE Look(r)
  <2>1. UNCHANGED <<streams, stream>> /\ (Goes(r, "check") \/ (Goes(r, "take") /\ ~Empty(r)))
    BY <1>9 DEF Look
  <2>2. CASE Goes(r, "check")
    BY <2>1, <2>2, <1>1, <1>2, <1>3, <1>4, <1>5, <1>6, MoveInv
  <2>3. CASE Goes(r, "take") /\ ~Empty(r)
    <3>1. s = "frame" => queue_frame[r] # <<>>
      BY <2>3, <1>6 DEF Empty
    <3> QED BY <3>1, <2>1, <2>3, <1>1, <1>2, <1>3, <1>4, <1>5, <1>6, MoveInv
  <2> QED BY <2>1, <2>2, <2>3
<1>10. CASE Check(r)
  <2>1. CASE Goes(r, "look") /\ UNCHANGED <<streams, stream>>
    BY <2>1, <1>1, <1>2, <1>3, <1>4, <1>5, <1>6, MoveInv
  <2>2. CASE Over(r) /\ Goes(r, "pick") /\ Drops(r, stream[r]) /\ UNCHANGED stream
    <3>1. GivenUp(r)' /\ streams' = [streams EXCEPT ![r] = ss \ {s}]
      BY <2>2, <1>1, <1>2, <1>5, <1>6 DEF Over, Active, GivenUp, Drops
    <3> QED BY <3>1, <2>2, <1>1, <1>2, <1>6, <1>7, MoveInv
  <2> QED BY <1>10, <2>1, <2>2 DEF Check
<1>11. CASE Fail(r)
  <2>1. PICK x \in {"frame", "audio"} : Drops(r, x)
    BY <1>11, <1>2 DEF Fail
  <2>2. Goes(r, "pick") /\ stream' = stream /\ GivenUp(r)'
    BY <1>11, <1>2 DEF Fail, Goes, GivenUp
  <2>3. streams' = [streams EXCEPT ![r] = ss \ {x}] /\ ss \ {x} \in SUBSET {"frame", "audio"}
    BY <2>1, <1>2, <1>5 DEF Drops
  <2> QED BY <2>2, <2>3, <1>1, <1>2, <1>6, MoveInv
<1> QED BY <1>8, <1>9, <1>10, <1>11

\* An encoder that has taken the earliest shot of its queue writes the one it holds, or
\* that one, or neither; what it lets go of is stood for by what it keeps.
LEMMA TakenInv ==
  ASSUME NEW r \in Recording, RecorderInv, Running(r), queue_frame[r] # <<>>,
         NEW e \in Nat, e = Head(queue_frame[r]),
         UNCHANGED <<game, started, spec, pointers, worker_to_kill, exit_requested, streams, stream,
                     shots, tick, accepted, failed>>,
         NEW place \in {"pick", "look"}, Goes(r, place),
         queue_frame' = [queue_frame EXCEPT ![r] = Tail(@)],
         NEW h \in {0, e}, next_frame' = [next_frame EXCEPT ![r] = h],
         h # 0 => spec[r].webm,
         NEW x \in Held(r) \cup {e},
         written' = written \/ (x # h /\ written' = Append(written, <<r, x>>)),
         InFilm(<<r, e>>)',
         \A rs \in accepted : rs[1] = r /\ InFilm(rs) => InFilm(rs)'
  PROVE  RecorderInv'
<1> USE BoundsAssumption
<1> DEFINE q == queue_frame[r]
           t == Tail(q)
<1>1. /\ encoder \in [Recording -> Place] /\ next_frame \in [Recording -> Nat]
      /\ queue_frame \in [Recording -> Seq(Nat)] /\ accepted \subseteq Recording \X Nat
      /\ written \in Seq(Recording \X Nat) /\ started \in 0..MaxRecordings /\ shots \in Nat
  BY DEF RecorderInv, Types
<1>2. /\ encoder'[r] = place /\ \A o \in Recording \ {r} : encoder'[o] = encoder[o]
      /\ encoder' \in [Recording -> Place]
  BY <1>1 DEF Goes, Place
<1>3. \A o \in Recording : Running(o)' = Running(o)
  BY <1>2 DEF Running
<1>4. q \in Seq(Nat) /\ q # <<>> /\ Ascending(q)
  BY <1>1 DEF RecorderInv, Chronological
<1>5. /\ t \in Seq(Nat) /\ Ascending(t) /\ Within(q) = {e} \cup Within(t)
      /\ \A s \in Within(t) : e < s
  <2>1. e = Head(q)
    OBVIOUS
  <2> HIDE DEF q
  <2> QED BY <1>4, <2>1, WithinTail
<1>6. queue_frame'[r] = t /\ \A o \in Recording \ {r} : queue_frame'[o] = queue_frame[o]
  BY <1>1
<1>7. next_frame'[r] = h /\ \A o \in Recording \ {r} : next_frame'[o] = next_frame[o]
  BY <1>1
<1>8. /\ recording = r /\ r = started /\ Behind(r)
  BY DEF RecorderInv, Handles, Chronological, Recording
<1>9. <<r, e>> \in accepted /\ e \in 1..shots /\ h \in {0, e}
  <2>1. <<r, e>> \in accepted
    BY <1>5 DEF RecorderInv, Chronological
  <2>2. <<r, e>>[2] \in 1..shots
    BY <2>1 DEF RecorderInv, Chronological
  <2> QED BY <2>1, <2>2
<1>10. ASSUME NEW g \in Held(r) PROVE <<r, g>> \in accepted /\ g < e /\ g \in Nat /\ spec[r].webm
  BY <1>1, <1>5 DEF RecorderInv, Chronological, Held
<1>11. /\ x \in Nat /\ <<r, x>> \in accepted /\ (x = e \/ x < e)
       /\ \A s \in Within(t) : x < s
       /\ x \in Held(r) \cup Within(q)
  <2>1. CASE x \in Held(r)
    <3>1. \A s \in Within(q) : x < s
      BY <2>1 DEF RecorderInv, Chronological
    <3> QED BY <2>1, <3>1, <1>5, <1>9, <1>10
  <2>2. CASE x = e
    BY <2>2, <1>5, <1>9
  <2> QED BY <2>1, <2>2
<1> HIDE DEF q, t
<1>12. /\ written' \in Seq(Recording \X Nat)
       /\ Within(written') \subseteq Within(written) \cup {<<r, x>>}
       /\ Len(written) \in Nat
       /\ \/ written' = written
          \/ x # h /\ Len(written') = Len(written) + 1 /\ written'[Len(written) + 1] = <<r, x>>
       /\ \A k \in 1..Len(written) : written'[k] = written[k]
  <2> DEFINE Shot == Recording \X Nat
             y == <<r, x>>
  <2>1. y \in Shot /\ written \in Seq(Shot) /\ (written' = written \/ (x # h /\ written' = Append(written, y)))
    BY <1>1, <1>11
  <2> HIDE DEF Shot, y
  <2>3. /\ Append(written, y) \in Seq(Shot) /\ Within(Append(written, y)) = Within(written) \cup {y}
        /\ Len(Append(written, y)) = Len(written) + 1 /\ Len(written) \in Nat
        /\ Append(written, y)[Len(written) + 1] = y
        /\ \A k \in 1..Len(written) : Append(written, y)[k] = written[k]
    BY <2>1, WithinAppend
  <2>2. /\ written' \in Seq(Shot) /\ Within(written') \subseteq Within(written) \cup {y}
        /\ Len(written) \in Nat
        /\ written' = written \/ (x # h /\ Len(written') = Len(written) + 1 /\ written'[Len(written) + 1] = y)
        /\ \A k \in 1..Len(written) : written'[k] = written[k]
    BY <2>1, <2>3
  <2> QED BY <2>1, <2>2 DEF Shot, y
<1>13. Types'
  <2>1. queue_frame' \in [Recording -> Seq(Nat)]
    BY <1>1, <1>5 DEF t, q
  <2>2. next_frame' \in [Recording -> Nat]
    BY <1>1, <1>9
  <2> QED BY <2>1, <2>2, <1>2, <1>12 DEF RecorderInv, Types
<1>14. Handles'
  <2>1. \A o \in Recording : o > started => o # r
    BY <1>8, <1>1 DEF Recording
  <2> QED BY <2>1, <1>2, <1>3, <1>6, <1>7 DEF RecorderInv, Handles, pointers
<1>15. Chronological'
  <2>1. ASSUME NEW o \in Recording
        PROVE  /\ \A s \in Within(queue_frame'[o]) : <<o, s>> \in accepted
               /\ Ascending(queue_frame'[o])
    BY <1>5, <1>6 DEF RecorderInv, Chronological, q
  <2>2. ASSUME NEW o \in Recording, Running(o)' PROVE Behind(o)'
    <3>1. o = r
      BY <2>2, <1>3, <1>8 DEF RecorderInv, Handles
    <3>2. ASSUME NEW w \in Within(written'), NEW s \in Held(r)' \cup Within(queue_frame'[r])
          PROVE  w[2] < s
      <4>1. s \in Within(q) /\ (x # h => x < s)
        BY <3>2, <1>5, <1>6, <1>7, <1>9, <1>11 DEF Held
      <4>2. CASE w \in Within(written)
        BY <4>1, <4>2, <1>8 DEF Behind, q
      <4>3. CASE w = <<r, x>> /\ x # h
        BY <4>1, <4>3
      <4> QED BY <4>2, <4>3, <1>12
    <3> QED BY <3>1, <3>2 DEF Behind
  <2>3. ASSUME NEW k \in 1..Len(written'), NEW m \in 1..Len(written'), k < m
        PROVE  written'[k][2] < written'[m][2] /\ written'[k][1] <= written'[m][1]
    <3>1. k \in 1..Len(written) /\ written'[k] = written[k]
      <4>1. Len(written) \in Nat /\ Len(written') \in {Len(written), Len(written) + 1}
        BY <1>12
      <4>2. k \in 1..Len(written)
        BY <4>1, <2>3
      <4> QED BY <4>2, <1>12
    <3>2. CASE m \in 1..Len(written)
      BY <3>1, <3>2, <2>3, <1>12 DEF RecorderInv, Chronological
    <3>3. CASE m \notin 1..Len(written)
      <4>1. written'[m] = <<r, x>>
        BY <3>3, <2>3, <1>12
      <4>2. written[k] \in Within(written) /\ written[k] \in accepted
        BY <3>1 DEF Within, RecorderInv, Chronological
      <4>3. written[k][2] < x
        BY <4>2, <1>8, <1>11 DEF Behind, q
      <4>4. written[k][1] <= r
        BY <4>2, <1>8 DEF RecorderInv, Chronological
      <4> QED BY <3>1, <4>1, <4>3, <4>4
    <3> QED BY <3>2, <3>3
  <2>4. Within(written') \subseteq accepted
    BY <1>11, <1>12 DEF RecorderInv, Chronological
  <2>5. \A rs \in accepted' : rs[1] <= started' /\ rs[2] \in 1..shots'
    BY DEF RecorderInv, Chronological
  <2>6. ASSUME NEW o \in Recording, NEW g \in Held(o)'
        PROVE  /\ spec[o].webm /\ <<o, g>> \in accepted
               /\ \A s \in Within(queue_frame'[o]) : g < s
    <3>1. CASE o = r
      <4>1. g = e /\ g = h /\ g # 0
        BY <2>6, <3>1, <1>7 DEF Held
      <4>2. Within(queue_frame'[o]) = Within(t)
        BY <3>1, <1>6
      <4> QED BY <4>1, <4>2, <3>1, <1>5, <1>9
    <3>2. CASE o # r
      BY <2>6, <3>2, <1>6, <1>7 DEF RecorderInv, Chronological, Held
    <3> QED BY <3>1, <3>2
  <2> QED BY <2>1, <2>2, <2>3, <2>4, <2>5, <2>6 DEF Chronological
<1>16. NothingDropped'
  <2>1. ASSUME NEW rs \in accepted
        PROVE  rs[2] \in Within(queue_frame'[rs[1]]) \/ InFilm(rs)' \/ GivenUp(rs[1])'
    <3>1. rs \in Recording \X Nat /\ rs = <<rs[1], rs[2]>> /\ rs[1] \in Recording
      BY <1>1
    <3>2. rs[2] \in Within(queue_frame[rs[1]]) \/ InFilm(rs) \/ GivenUp(rs[1])
      BY DEF RecorderInv, NothingDropped
    <3>3. GivenUp(rs[1])' = GivenUp(rs[1])
      BY DEF GivenUp
    <3>4. CASE rs[1] = r
      <4>1. rs[2] = e => InFilm(rs)'
        BY <3>1, <3>4 DEF q
      <4>2. rs[2] \in Within(q) \/ InFilm(rs) \/ GivenUp(rs[1])
        BY <3>2, <3>4 DEF q
      <4>3. InFilm(rs) => InFilm(rs)'
        BY <3>4
      <4> QED BY <4>1, <4>2, <4>3, <3>3, <3>4, <1>5, <1>6
    <3>5. CASE rs[1] # r
      <4>1. ASSUME InFilm(rs) PROVE InFilm(rs)'
        <5>1. PICK other \in Filmed : StandsFor(other, rs)
          BY <4>1 DEF InFilm
        <5>2. other[1] = rs[1]
          BY <5>1 DEF StandsFor
        <5>3. other \in Filmed'
          <6>1. CASE \E k \in 1..Len(written) : other = written[k]
            <7>1. PICK k \in 1..Len(written) : other = written[k]
              BY <6>1
            <7>2. k \in 1..Len(written') /\ other = written'[k]
              BY <7>1, <1>12
            <7> QED BY <7>2 DEF Filmed
          <6>2. CASE \E o \in Recording : next_frame[o] # 0 /\ other = <<o, next_frame[o]>>
            <7>1. PICK o \in Recording : next_frame[o] # 0 /\ other = <<o, next_frame[o]>>
              BY <6>2
            <7>2. o # r /\ next_frame'[o] = next_frame[o]
              BY <7>1, <5>2, <3>5, <1>7
            <7> QED BY <7>1, <7>2 DEF Filmed
          <6> QED BY <5>1, <6>1, <6>2 DEF Filmed
        <5>4. StandsFor(other, rs)'
          BY <5>1 DEF StandsFor
        <5> QED BY <5>3, <5>4 DEF InFilm
      <4> QED BY <4>1, <3>1, <3>2, <3>3, <3>5, <1>6
    <3> QED BY <3>4, <3>5
  <2>2. ASSUME NEW o \in Recording
        PROVE  /\ encoder'[o] # "none" /\ "frame" \notin streams[o] => GivenUp(o)'
               /\ encoder'[o] = "finish" => streams[o] = {}
               /\ encoder'[o] = "take" /\ stream[o] = "frame" => queue_frame'[o] # <<>>
    <3>1. CASE o = r
      BY <3>1, <1>2 DEF RecorderInv, NothingDropped, GivenUp, Running
    <3>2. CASE o # r
      BY <3>2, <1>2, <1>6 DEF RecorderInv, NothingDropped, GivenUp
    <3> QED BY <3>1, <3>2
  <2> QED BY <2>1, <2>2 DEF NothingDropped
<1> QED BY <1>13, <1>14, <1>15, <1>16 DEF RecorderInv

\* What is written or held stands for itself.
LEMMA StandsForItself ==
  ASSUME NEW r \in Recording, NEW x
  PROVE  /\ x # 0 /\ next_frame'[r] = x => InFilm(<<r, x>>)'
         /\ (\E k \in 1..Len(written') : written'[k] = <<r, x>>) => InFilm(<<r, x>>)'
BY DEF InFilm, Filmed, StandsFor

\* The earliest shot of the queue is later than what is in the file and what the
\* encoder holds; the end frame is none of them.
LEMMA TakeInv ==
  ASSUME NEW r \in Recording, RecorderInv, Take(r)
  PROVE  RecorderInv'
<1>1. /\ Running(r) /\ encoder[r] = "take" /\ failed \subseteq failed'
      /\ UNCHANGED <<game, started, spec, pointers, worker_to_kill, exit_requested, stream,
                     shots, tick, accepted, failed>>
  BY DEF Take, Runs, Running, game_vars
<1>2. /\ stream[r] \in {"frame", "audio"} /\ queue_frame[r] \in Seq(Nat)
      /\ streams[r] \in SUBSET {"frame", "audio"} /\ next_frame \in [Recording -> Nat]
      /\ streams = [streams EXCEPT ![r] = streams[r]] /\ stream = [stream EXCEPT ![r] = stream[r]]
      /\ written \in Seq(Recording \X Nat)
  BY DEF RecorderInv, Types
<1>3. CASE stream[r] = "audio"
  <2>1. Goes(r, "pick") /\ UNCHANGED <<queue_frame, written, streams, next_frame>>
    BY <1>3 DEF Take, TakeAudio
  <2>2. PICK ss \in SUBSET {"frame", "audio"} : ss = streams[r]
    BY <1>2
  <2>3. "frame" \notin ss => GivenUp(r)'
    BY <1>1, <2>2 DEF RecorderInv, NothingDropped, GivenUp
  <2>4. PICK s \in {"frame", "audio"} : s = stream[r]
    BY <1>2
  <2> QED BY <1>1, <1>2, <2>1, <2>2, <2>3, <2>4, MoveInv
<1>4. CASE stream[r] = "frame"
  <2>1. queue_frame[r] # <<>> /\ Ascending(queue_frame[r])
    BY <1>1, <1>4 DEF RecorderInv, NothingDropped, Chronological
  <2>2. PICK e \in Nat : e = Head(queue_frame[r]) /\ e \in Within(queue_frame[r])
    BY <1>2, <2>1, WithinTail
  <2>3. <<r, e>> \in accepted /\ \A g \in Held(r) : g < e /\ g # 0 /\ spec[r].webm
    BY <2>2 DEF RecorderInv, Chronological, Held
  <2>4. e # 0 /\ e # EndFrame
    <3>1. <<r, e>>[2] \in 1..shots
      BY <2>3 DEF RecorderInv, Chronological
    <3> QED BY <3>1, <2>2 DEF EndFrame
  <2>5. /\ queue_frame' = [queue_frame EXCEPT ![r] = Tail(@)] /\ UNCHANGED streams
        /\ IF spec[r].webm THEN Hold(r, e) ELSE Write(r, e)
    BY <1>4, <2>2, <2>4 DEF Take, TakeFrame, Rest
  <2>6. \A rs \in accepted : InFilm(rs) /\ Filmed \subseteq Filmed' => InFilm(rs)'
    BY <1>1, FilmKept
  <2>7. \A x : written' = Append(written, <<r, x>>) /\ x \in Nat =>
               /\ \E k \in 1..Len(written') : written'[k] = <<r, x>>
               /\ \A k \in 1..Len(written) : k \in 1..Len(written') /\ written'[k] = written[k]
    <3> SUFFICES ASSUME NEW x \in Nat, written' = Append(written, <<r, x>>)
                 PROVE  /\ \E k \in 1..Len(written') : written'[k] = <<r, x>>
                        /\ \A k \in 1..Len(written) : k \in 1..Len(written') /\ written'[k] = written[k]
      OBVIOUS
    <3> DEFINE Shot == Recording \X Nat
               y == <<r, x>>
    <3>1. y \in Shot /\ written \in Seq(Shot) /\ written' = Append(written, y)
      BY <1>2
    <3> HIDE DEF Shot, y
    <3>3. /\ Len(Append(written, y)) = Len(written) + 1 /\ Len(written) \in Nat
          /\ Append(written, y)[Len(written) + 1] = y
          /\ \A k \in 1..Len(written) : Append(written, y)[k] = written[k]
      BY <3>1, WithinAppend
    <3>2. /\ Len(written') = Len(written) + 1 /\ Len(written) \in Nat /\ written'[Len(written) + 1] = y
          /\ \A k \in 1..Len(written) : written'[k] = written[k]
      BY <3>1, <3>3
    <3> QED BY <3>2 DEF y
  <2>8. CASE ~spec[r].webm
    <3>1. Goes(r, "pick") /\ written' = Append(written, <<r, e>>) /\ UNCHANGED next_frame
      BY <2>5, <2>8 DEF Write, Encoded
    <3>2. next_frame[r] = 0 /\ next_frame' = [next_frame EXCEPT ![r] = 0]
      BY <1>2, <2>3, <2>8, <3>1 DEF Held
    <3>3. InFilm(<<r, e>>)'
      BY <2>2, <2>7, <3>1, StandsForItself
    <3>4. Filmed \subseteq Filmed'
      BY <2>2, <2>7, <3>1 DEF Filmed
    <3> QED BY <1>1, <2>1, <2>4, <2>5, <2>6, <3>1, <3>2, <3>3, <3>4, TakenInv, <2>2
  <2>9. CASE spec[r].webm
    <3>1. next_frame' = [next_frame EXCEPT ![r] = e] /\ next_frame'[r] = e
      BY <1>2, <2>5, <2>9 DEF Hold
    <3>2. InFilm(<<r, e>>)'
      BY <2>4, <3>1, StandsForItself
    <3>3. CASE Goes(r, "look") /\ written' = written /\ (next_frame[r] = 0 \/ SameTick(next_frame[r], e))
      <4>1. ASSUME NEW rs \in accepted, rs[1] = r, InFilm(rs) PROVE InFilm(rs)'
        <5>1. PICK other \in Filmed : StandsFor(other, rs)
          BY <4>1 DEF InFilm
        <5>2. CASE other \in Filmed'
          <6>1. StandsFor(other, rs)'
            BY <5>1, <1>1 DEF StandsFor
          <6> QED BY <5>2, <6>1 DEF InFilm
        <5>3. CASE other \notin Filmed'
          <6>1. other = <<r, next_frame[r]>> /\ next_frame[r] # 0
            BY <5>3, <3>1, <3>3, <1>2 DEF Filmed
          <6>2. next_frame[r] < e /\ tick[next_frame[r]] = tick[e]
            BY <6>1, <3>3, <2>3 DEF SameTick, Held
          <6>3. rs \in Recording \X Nat /\ rs[2] \in Nat /\ other[2] = next_frame[r] /\ next_frame[r] \in Nat
            BY <6>1, <1>2 DEF RecorderInv, Types
          <6>4. StandsFor(<<r, e>>, rs)'
            BY <5>1, <6>1, <6>2, <6>3, <4>1, <2>2, <2>9, <1>1 DEF StandsFor
          <6>5. <<r, e>> \in Filmed'
            BY <3>1, <2>4 DEF Filmed
          <6> QED BY <6>4, <6>5 DEF InFilm
        <5> QED BY <5>2, <5>3
      <4> QED BY <1>1, <2>1, <2>5, <2>9, <3>1, <3>2, <3>3, <4>1, TakenInv, <2>2
    <3>4. CASE Goes(r, "pick") /\ written' = Append(written, <<r, next_frame[r]>>) /\ next_frame[r] # 0
      <4>1. next_frame[r] \in Held(r) /\ next_frame[r] # e /\ next_frame[r] \in Nat
        <5>1. next_frame[r] \in Held(r) /\ next_frame[r] \in Nat
          BY <3>4, <1>2 DEF Held
        <5> QED BY <5>1, <2>2, <2>3
      <4>2. Filmed \subseteq Filmed'
        <5>1. ASSUME NEW k \in 1..Len(written) PROVE written[k] \in Filmed'
          <6>1. k \in 1..Len(written') /\ written'[k] = written[k]
            BY <2>7, <3>4, <4>1
          <6> QED BY <6>1 DEF Filmed
        <5>2. <<r, next_frame[r]>> \in Filmed'
          BY <2>7, <3>4, <4>1 DEF Filmed
        <5>3. ASSUME NEW o \in Recording, o # r, next_frame[o] # 0
              PROVE  <<o, next_frame[o]>> \in Filmed'
          <6>1. next_frame'[o] = next_frame[o]
            BY <3>1, <5>3, <1>2
          <6> QED BY <6>1, <5>3 DEF Filmed
        <5> QED BY <5>1, <5>2, <5>3 DEF Filmed
      <4> QED BY <1>1, <2>1, <2>5, <2>6, <2>9, <3>1, <3>2, <3>4, <4>1, <4>2, TakenInv, <2>2
    <3> QED BY <2>5, <2>9, <3>3, <3>4 DEF Hold, Encoded
  <2> QED BY <2>8, <2>9
<1> QED BY <1>2, <1>3, <1>4

\* What an encoder leaves in its queue at its end it has given up before.
LEMMA FinishInv ==
  ASSUME NEW r \in Recording, RecorderInv, Finish(r)
  PROVE  RecorderInv'
<1>1. /\ Running(r) /\ encoder[r] = "finish" /\ recording' = 0
      /\ encoder' = [encoder EXCEPT ![r] = "done"]
      /\ queue_frame' = [queue_frame EXCEPT ![r] = <<>>]
      /\ next_frame' = [next_frame EXCEPT ![r] = 0]
      /\ UNCHANGED <<game, started, spec, worker_to_kill, exit_requested, streams, stream, ghosts>>
  BY DEF Finish, Runs, Running, Goes, game_vars
<1>2. /\ encoder \in [Recording -> Place] /\ queue_frame \in [Recording -> Seq(Nat)]
      /\ accepted \subseteq Recording \X Nat /\ next_frame \in [Recording -> Nat]
  BY DEF RecorderInv, Types
<1>3. /\ encoder'[r] = "done" /\ queue_frame'[r] = <<>> /\ next_frame'[r] = 0
      /\ \A o \in Recording \ {r} :
           /\ encoder'[o] = encoder[o] /\ queue_frame'[o] = queue_frame[o]
           /\ next_frame'[o] = next_frame[o]
  BY <1>1, <1>2
<1>4. \A o \in Recording : ~Running(o)'
  BY <1>1, <1>3 DEF RecorderInv, Handles, Running
<1>5. Types'
  <2>1. /\ encoder' \in [Recording -> Place] /\ queue_frame' \in [Recording -> Seq(Nat)]
        /\ next_frame' \in [Recording -> Nat]
    BY <1>1, <1>2, NoShots DEF Place
  <2> QED BY <2>1, <1>1 DEF RecorderInv, Types, ghosts
<1>6. Handles'
  <2>1. \A o \in Recording : o > started => o # r
    BY <1>1 DEF RecorderInv, Handles, Running
  <2>2. game # "start"
    BY <1>1 DEF RecorderInv, Handles, Recording
  <2> QED BY <1>1, <1>3, <1>4, <2>1, <2>2 DEF RecorderInv, Handles
<1>7. Chronological'
  <2>1. \A o \in Recording : /\ \A s \in Within(queue_frame'[o]) : <<o, s>> \in accepted
                             /\ Ascending(queue_frame'[o])
    BY <1>3, NoShots DEF RecorderInv, Chronological
  <2>2. \A o \in Recording : \A h \in Held(o)' :
          /\ spec[o].webm /\ <<o, h>> \in accepted
          /\ \A s \in Within(queue_frame'[o]) : h < s
    BY <1>3 DEF RecorderInv, Chronological, Held
  <2> QED BY <2>1, <2>2, <1>1, <1>4 DEF RecorderInv, Chronological, Within, ghosts
<1>8. NothingDropped'
  <2>1. GivenUp(r)
    BY <1>1 DEF RecorderInv, NothingDropped
  <2>2. \A o : GivenUp(o)' = GivenUp(o)
    BY <1>1 DEF GivenUp, ghosts
  <2>3. ASSUME NEW rs \in accepted
        PROVE  rs[2] \in Within(queue_frame'[rs[1]]) \/ InFilm(rs)' \/ GivenUp(rs[1])
    <3>1. rs[1] \in Recording
      BY <1>2
    <3>2. ASSUME rs[1] # r, InFilm(rs) PROVE InFilm(rs)'
      <4>1. PICK other \in Filmed : StandsFor(other, rs)
        BY <3>2 DEF InFilm
      <4>2. other[1] # r
        BY <4>1, <3>2 DEF StandsFor
      <4>3. other \in Filmed' /\ StandsFor(other, rs)'
        BY <4>1, <4>2, <1>1, <1>3 DEF Filmed, StandsFor, ghosts
      <4> QED BY <4>3 DEF InFilm
    <3> QED BY <3>1, <3>2, <1>3, <2>1 DEF RecorderInv, NothingDropped
  <2>4. \A o \in Recording :
          /\ encoder'[o] # "none" /\ "frame" \notin streams[o] => GivenUp(o)
          /\ encoder'[o] = "finish" => streams[o] = {}
          /\ encoder'[o] = "take" /\ stream[o] = "frame" => queue_frame'[o] # <<>>
    BY <1>3, <2>1 DEF RecorderInv, NothingDropped
  <2> QED BY <1>1, <2>2, <2>3, <2>4 DEF NothingDropped, Within, ghosts
<1> QED BY <1>5, <1>6, <1>7, <1>8 DEF RecorderInv

\* The game takes the encoder's handle with it.
LEMMA QuitInv == RecorderInv /\ (Close \/ Restart) => RecorderInv'
<1> SUFFICES ASSUME RecorderInv, Close \/ Restart PROVE RecorderInv'
  OBVIOUS
<1>1. /\ game = "playing" /\ game' \in {"closing", "restarting"}
      /\ UNCHANGED <<started, spec, recording, queue_frame, thread, ghosts>>
      /\ exit_requested \subseteq exit_requested'
      /\ recording # 0 => worker_to_kill' = worker
  BY DEF Close, Restart, Quit, Present, sink
<1>2. Types'
  BY <1>1 DEF RecorderInv, Types, thread, ghosts
<1>3. Handles'
  BY <1>1 DEF RecorderInv, Handles, Running, thread, Recording
<1>4. Chronological' /\ NothingDropped'
  BY <1>1, ShotsKept
<1> QED BY <1>2, <1>3, <1>4 DEF RecorderInv

\* ... and waits for the encoder to end.
LEMMA LeaveInv == RecorderInv /\ Leave => RecorderInv'
<1> SUFFICES ASSUME RecorderInv, Leave PROVE RecorderInv'
  OBVIOUS
<1>1. /\ game \in {"closing", "restarting"} /\ game' \in {"over", "playing"}
      /\ recording' \in {0, recording}
      /\ UNCHANGED <<started, spec, exit_requested, queue_frame, thread, ghosts>>
      /\ worker_to_kill # 0 => encoder[worker_to_kill] = "done"
  BY DEF Leave, Closed, Restarted, Joined, sink, pointers
<1>2. \A r \in Recording : ~Running(r)
  BY <1>1 DEF RecorderInv, Handles, Running, Recording
<1>3. Types'
  BY <1>1 DEF RecorderInv, Types, thread, ghosts
<1>4. Handles'
  BY <1>1, <1>2 DEF RecorderInv, Handles, Running, thread
<1>5. Chronological' /\ NothingDropped'
  BY <1>1, ShotsKept
<1> QED BY <1>3, <1>4, <1>5 DEF RecorderInv

\* The mixer does nothing to the shots, and after a call into a deleted recorder
\* nothing runs.
LEMMA SoundInv == RecorderInv /\ (store_audio_chunk \/ StaleChunk \/ UNCHANGED vars) => RecorderInv'
<1> SUFFICES ASSUME RecorderInv, store_audio_chunk \/ StaleChunk \/ UNCHANGED vars PROVE RecorderInv'
  OBVIOUS
<1>1. /\ UNCHANGED <<started, spec, pointers, worker_to_kill, exit_requested, queue_frame, thread, ghosts>>
      /\ game' = game \/ game' = "undefined"
  <2>1. CASE store_audio_chunk
    BY <2>1 DEF store_audio_chunk, game_vars
  <2>2. CASE StaleChunk
    BY <2>2 DEF StaleChunk, sink
  <2>3. CASE UNCHANGED vars
    BY <2>3 DEF vars, game_vars, sink
  <2> QED BY <2>1, <2>2, <2>3
<1>2. Types'
  BY <1>1, TypesKept DEF RecorderInv
<1>3. Handles'
  BY <1>1 DEF RecorderInv, Handles, Running, pointers, thread
<1>4. Chronological' /\ NothingDropped'
  BY <1>1, ShotsKept
<1> QED BY <1>2, <1>3, <1>4 DEF RecorderInv

LEMMA StepInv == RecorderInv /\ [Next]_vars => RecorderInv'
<1> SUFFICES ASSUME RecorderInv, [Next]_vars PROVE RecorderInv'
  OBVIOUS
<1>1. CASE toggleGifRecorder
  BY <1>1, ToggleInv
<1>2. CASE NotStarted \/ Started \/ Stop \/ Ended \/ processRecorder \/ Timer \/ Circle
  BY <1>2, QuietInv
<1>3. CASE Start
  BY <1>3, StartInv
<1>4. CASE End
  BY <1>4, EndInv
<1>5. CASE Shoot
  BY <1>5, ShootInv
<1>6. CASE Close \/ Restart
  BY <1>6, QuitInv
<1>7. CASE Leave
  BY <1>7, LeaveInv
<1>8. CASE store_audio_chunk \/ StaleChunk \/ UNCHANGED vars
  BY <1>8, SoundInv
<1>9. ASSUME NEW r \in Recording, Encode(r) \/ Fail(r) PROVE RecorderInv'
  BY <1>9, EncodeInv, TakeInv, FinishInv DEF Encode
<1> QED BY <1>1, <1>2, <1>3, <1>4, <1>5, <1>6, <1>7, <1>8, <1>9 DEF Next, Toggle, Draw

\* The inductive invariant holds of every behaviour of the recorder.
THEOREM RecorderInvariant == Spec => []RecorderInv
<1>1. Init => RecorderInv
  BY InitInv
<1>2. RecorderInv /\ [Next]_vars => RecorderInv'
  BY StepInv
<1> QED BY <1>1, <1>2, PTL DEF Spec

\* No encoder works on a recording that render_base.cpp has deleted or replaced, and
\* none is left when the program ends: GifRecorder::quit waits for the right one.
THEOREM EncoderHasRecordingCorrect == Spec => []EncoderHasRecording
<1>1. RecorderInv => EncoderHasRecording
  BY DEF RecorderInv, Handles, Running, EncoderHasRecording
<1> QED BY <1>1, RecorderInvariant, PTL

\* The encoders of pge_video_rec write the shots in the order in which
\* processRecorder took them, each once and to the recording that was on.
THEOREM InOrderCorrect == Spec => []InOrder
<1>1. RecorderInv => InOrder
  BY DEF RecorderInv, Chronological, InOrder, Within
<1> QED BY <1>1, RecorderInvariant, PTL

\* A shot that PGE_VideoSink::enqueue_frame accepts waits, is held by its encoder or is
\* written, until the recording is stopped or its encoder fails; in a WebM file a later
\* one of the same tick (get_video_frame) may be there for it.
THEOREM NoneLostCorrect == Spec => []NoneLost
<1>1. RecorderInv => NoneLost
  BY DEF RecorderInv, NothingDropped, GivenUp, InFilm, NoneLost, Queued, Within
<1> QED BY <1>1, RecorderInvariant, PTL
=============================================================================
