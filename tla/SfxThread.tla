----------------------------- MODULE SfxThread -----------------------------
(***************************************************************************)
(* The thread that plays sounds.  PlaySfx queues a sound under a mutex and *)
(* signals a condition; the thread swaps the queue with one of its own and *)
(* plays what it got.  The mixer starts and ends the thread, which may     *)
(* fail to start: then PlaySfx plays the sound itself.                     *)
(*                                                                         *)
(* Sounds are numbered as they are asked for.  A critical section is one   *)
(* step, for nothing else is done under the mutex.                         *)
(***************************************************************************)
EXTENDS Integers, Sequences

CONSTANT
  MaxSounds    \* bound: sounds asked for

ASSUME MaxAssumption == MaxSounds \in Nat

VARIABLES
  main,              \* where the game is, in PlaySfx, EndSfxThread or neither
  starting,          \* EndSfxThread was called by StartSfxThread
  s_sound_thread,    \* is there a thread, as the game sees it?
  thread,            \* where the thread is
  s_sfx_queue, s_sfx_queue_pop, s_sound_thread_quit,
  asked,             \* sounds asked for
  heard,             \* ghost: those played, in that order
  since, dropped     \* ghost: sounds asked for before the thread started; those given up

queues == <<s_sfx_queue, s_sfx_queue_pop>>
ghosts == <<heard, since, dropped>>
vars   == <<main, starting, s_sound_thread, thread, queues, s_sound_thread_quit, asked, ghosts>>

Sounds(s) == {s[k] : k \in 1..Len(s)}

-----------------------------------------------------------------------------
(* The game.                                                               *)

PlaySfx ==
  /\ main = "elsewhere" /\ asked < MaxSounds
  /\ asked' = asked + 1
  /\ IF s_sound_thread
     THEN /\ s_sfx_queue' = Append(s_sfx_queue, asked')
          /\ main' = "signal"
          /\ UNCHANGED heard
     ELSE /\ heard' = Append(heard, asked')
          /\ UNCHANGED <<main, s_sfx_queue>>
  /\ UNCHANGED <<starting, s_sound_thread, thread, s_sfx_queue_pop, s_sound_thread_quit,
                 since, dropped>>

NotWoken == thread                      \* mutant: no signal
Woken    == IF thread = "wait" THEN "woken" ELSE thread

\* SDL_CondSignal, which comes after the mutex was unlocked.
Signal ==
  /\ \/ main = "signal" /\ main' = "elsewhere"
     \/ main = "quit"   /\ main' = "join"
  /\ thread' = Woken
  /\ UNCHANGED <<starting, s_sound_thread, queues, s_sound_thread_quit, asked, ghosts>>

EndSfxThread ==
  /\ main = "elsewhere" /\ s_sound_thread
  /\ starting' \in BOOLEAN
  /\ s_sound_thread_quit' = TRUE
  /\ main' = "quit"
  /\ UNCHANGED <<s_sound_thread, thread, queues, asked, ghosts>>

\* The thread begins with an empty queue of its own, whatever the last one left.
Cleared == <<>>

StartThread ==
  \/ /\ s_sound_thread' = TRUE /\ thread' = "check"
     /\ s_sfx_queue_pop' = Cleared
     /\ since' = asked
     /\ dropped' = dropped \cup Sounds(s_sfx_queue_pop)
  \/ /\ s_sound_thread' = FALSE
     /\ UNCHANGED <<thread, s_sfx_queue_pop, since, dropped>>

\* StartSfxThread with no thread to end first.
StartSfxThread ==
  /\ main = "elsewhere" /\ ~s_sound_thread
  /\ StartThread
  /\ UNCHANGED <<main, starting, s_sfx_queue, s_sound_thread_quit, asked, heard>>

AtOnce == TRUE                          \* mutant: nobody waits for the thread
Joined == thread = "done"

Join ==
  /\ main = "join" /\ Joined
  /\ s_sound_thread_quit' = FALSE
  /\ main' = "elsewhere" /\ starting' = FALSE
  /\ IF starting THEN StartThread
     ELSE s_sound_thread' = FALSE /\ UNCHANGED <<thread, s_sfx_queue_pop, since, dropped>>
  /\ UNCHANGED <<s_sfx_queue, asked, heard>>

-----------------------------------------------------------------------------
(* The thread.                                                             *)

QueueEmpty  == s_sfx_queue = <<>>       \* mutant: it waits though it is to quit
NothingToDo == ~s_sound_thread_quit /\ s_sfx_queue = <<>>

Check ==
  /\ thread = "check"
  /\ thread' = IF NothingToDo THEN "wait" ELSE "woken"
  /\ UNCHANGED <<main, starting, s_sound_thread, queues, s_sound_thread_quit, asked, ghosts>>

\* SDL_CondWait may return without a signal.
Spurious ==
  /\ thread = "wait" /\ thread' = "woken"
  /\ UNCHANGED <<main, starting, s_sound_thread, queues, s_sound_thread_quit, asked, ghosts>>

Emptied == <<>>                         \* mutant: the game's queue is cleared, not swapped
Swapped == s_sfx_queue

Take ==
  /\ thread = "woken"
  /\ s_sfx_queue' = s_sfx_queue_pop /\ s_sfx_queue_pop' = Swapped
  /\ thread' = IF s_sound_thread_quit THEN "done" ELSE "play"
  /\ UNCHANGED <<main, starting, s_sound_thread, s_sound_thread_quit, asked, ghosts>>

Rest == Tail(s_sfx_queue_pop)

Play ==
  /\ thread = "play"
  /\ IF s_sfx_queue_pop = <<>>
     THEN thread' = "check" /\ UNCHANGED <<heard, s_sfx_queue_pop>>
     ELSE /\ heard' = Append(heard, Head(s_sfx_queue_pop))
          /\ s_sfx_queue_pop' = Rest
          /\ UNCHANGED thread
  /\ UNCHANGED <<main, starting, s_sound_thread, s_sfx_queue, s_sound_thread_quit, asked,
                 since, dropped>>

-----------------------------------------------------------------------------
Init ==
  /\ main = "elsewhere" /\ starting = FALSE /\ s_sound_thread = FALSE /\ thread = "done"
  /\ s_sfx_queue = <<>> /\ s_sfx_queue_pop = <<>> /\ s_sound_thread_quit = FALSE
  /\ asked = 0 /\ heard = <<>> /\ since = 0 /\ dropped = {}

Game   == PlaySfx \/ EndSfxThread \/ StartSfxThread
Finish == Signal \/ Join
Thread == Check \/ Take \/ Play

Next == Game \/ Finish \/ Thread \/ Spurious
Spec == Init /\ [][Next]_vars

\* Neither side stops in the middle of a call.  The game need not ask for a sound,
\* nor a wait end by itself.
FairSpec == Spec /\ WF_vars(Finish) /\ WF_vars(Thread)

-----------------------------------------------------------------------------
(* Properties.                                                             *)

\* The game thinks that there is no thread only when there is none.
TypeOK ==
  /\ main \in {"elsewhere", "signal", "quit", "join"} /\ {starting, s_sound_thread} \subseteq BOOLEAN
  /\ thread \in {"check", "wait", "woken", "play", "done"} /\ s_sound_thread_quit \in BOOLEAN
  /\ {s_sfx_queue, s_sfx_queue_pop, heard} \subseteq Seq(Nat)
  /\ asked \in Nat /\ since \in Nat /\ dropped \subseteq Nat
  /\ ~s_sound_thread => thread = "done"

\* Sounds are played in the order they were asked for, none twice, though some are
\* played by the thread and some by the game.
InOrder == \A k \in 1..Len(heard), m \in 1..Len(heard) : k < m => heard[k] < heard[m]

\* A thread plays no sound that was asked for before it started, though its queue
\* is a static vector in which the last one left what it gave up.
NoneLate ==
  s_sound_thread /\ thread # "done" =>
    \A s \in Sounds(s_sfx_queue) \cup Sounds(s_sfx_queue_pop) : s > since

\* No sound disappears between the queues.
NoneLost ==
  1..asked = Sounds(heard) \cup Sounds(s_sfx_queue) \cup Sounds(s_sfx_queue_pop) \cup dropped

\* Ending the thread comes to an end, wherever it is.
EndReturns == main = "quit" ~> main = "elsewhere"

\* "Enqueues the SFX": it is played, unless the thread is ended before.
Heard ==
  \A s \in 1..MaxSounds :
    s \in Sounds(s_sfx_queue) ~> s \in Sounds(heard) \/ s_sound_thread_quit
=============================================================================
