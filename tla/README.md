# TheXTech: TLA+ models

TheXTech runs platform-game levels frame by frame. Most of it is one thread doing
arithmetic on positions, which unit tests and play testing reach. This directory
models what they do not reach: where two threads hand work to each other, where a
network loses, repeats and reorders what one of them waits for, and where one
thread changes the very array, set or queue that it is walking through, or is
interrupted in the middle of that for a message and resumed a frame later.

1. [The system](#1-the-system)
2. [The modules](#2-the-modules)
3. [The runs](#3-the-runs)
4. [Bounds](#4-bounds)
5. [Fairness](#5-fairness)
6. [The proofs](#6-the-proofs)
7. [Where code and comments disagree](#7-where-code-and-comments-disagree)
8. [What is not modelled](#8-what-is-not-modelled)
9. [The plan](#9-the-plan)

To repeat a run: `tlc -config NetFramesDown.cfg MCNetFrames.tla`. To repeat a
proof: `tlapm NetFramesProofs.tla`.

## 1. The system

`main.cpp` starts the platform back end, `game_main.cpp` goes between the menu, a
level, the world map and the outro. In a level `GameLoop` (main/game_loop.cpp)
does one frame: controls, `UpdateLayers`, `UpdateNPCs`, `UpdateBlocks`,
`UpdateEffects`, `UpdatePlayer`, `UpdateEvents`, drawing, sound. With NetPlay on,
`XMessage::Tick` (message.cpp) runs at the same place of every frame and blocks
until the server has closed that frame.

| Component | State it keeps | Operations | Talks to | What makes it correct |
|---|---|---|---|---|
| NetPlay data plane: client.cpp, client_methods.cpp | `g_session` (history, frame counters, `submit_buffer`), `temp_state`, receive and send buffers, two sockets | `ClientFrameSync` in the game; `SyncData`, `SendData`, `ReceiveData` in the network thread | one lock, a TCP stream and datagrams to a server that is not in the repository | every client runs the same messages in the same frame; no input is lost or repeated; a wait ends |
| NetPlay control plane: the same files | request, status, numbers of both on either side | `push_status_req`, `pull_status`, `status_req_completed`; `client_loop`, `push_status` | two try-locks, an atomic, the menu | an answer is that of the request; half a session starts no episode; who withdraws is disconnected |
| Event queue: layers.cpp | `NewEvent`, `newEventDelay`, `newEventNum` | `TriggerEvent`, `ProcEvent`, `CancelNewEvent`, `UpdateEvents` | called from everywhere; an event may pause the game | every entry fires once and in time; a frame ends |
| NPC kill queue: npc_update.cpp, npc_kill.cpp, npc_queues.* | the array `NPC`, `NPCQueues::Killed` | `Deactivate`, the kill loop of `UpdateNPCs`, `KillNPC` | events hide layers, which kills NPCs, from inside `KillNPC` | whoever is to die dies, in the order the array needs; indices others keep follow |
| Active NPC set: npc/safe_set.hpp | a `std::set`, one flag, iterators on the stack | insert, erase, clear, nested loops, interrupted loops | every loop over active NPCs | no erased iterator is used and no element passed over |
| Sound effect thread: sound_thread.cpp | two vectors, a flag, a condition | `PlaySfx`, `StartSfxThread`, `EndSfxThread`, the thread | the mixer (sound.cpp) | sounds in order and once; no lost wakeup |
| NetPlay sessions: message.cpp, screen_connect.cpp | players, character choices, `g_session` between episodes | joining, dropping, replaying messages | the data plane | every client makes the same of the same messages |
| NPC activation: npc_activation.cpp, npc_update.cpp | `NPCQueues::Active`, `Unchecked`, timers | chains of NPCs that activate each other | the active set, events | each NPC once, whatever interrupts the chain |
| Layers: layers.cpp, saved_layers.cpp | layers, and the indices of what is in them; where each has moved | show, hide, move, delete, swap | every array of objects, the spatial index | an object's layer and the layer's index agree |
| Spatial index: block_table.*, trees.cpp | a table of cells for each kind of object, one more for each layer in motion; quad trees | insert, move, erase, query; split and join of a layer | layers, and every collision | a query finds what touches it, once |
| Blocks: blocks.cpp | the array `Block`, `iBlock`, `PSwitchTime` | hits, `UpdateBlocks`, `KillBlock`, `PSwitch` | events, layers, the array of NPCs | no block is left halfway; an event runs once; the switch gives back what it took |
| Video recorder: render_base.cpp, lib/pge_video_rec | a recording and its queues, an encoder thread for each | toggle, a shot every few frames, chunks of sound | the mixer, the encoder thread | no thread outlives its recording; shots in order, no tick of the film lost; what was stopped is saved |
| Editor pipe: lib/InterProcess, editor/editor.cpp | queue of commands, the level that is being received | a reading thread and the game's poll | the editor process | the level is whole and the one asked for; no command is lost or taken for another; a wait ends |
| Mixer: sound.cpp | tables of sounds and music | load, play, unload | the sound thread | no sound is used after it was freed |
| Players, NPC logic, effects, collision | arrays of records | one step a frame | each other, in a fixed order | sequential arithmetic |
| Menus, saves, world map, configuration, drawing, platform | | | | user interface, files and I/O |

The hard behaviours, and where they are (PROJECT.json lists each with its line):

- **Two threads.** Game and network thread share `g_session`, `status_sync`,
  `status_req_sync` and an atomic, by try-locks and locks given up while waiting.
  Game and sound thread share a vector under a mutex, with a condition signalled
  outside of it. The game, the mixer and an encoder share a recording, with a
  pointer that the game reads without the mutex. The game and the thread that reads
  the editor's pipe share a buffer and a flag.
- **A network.** Datagrams may be lost, repeated and reordered, and race a stream
  that carries the same frames; either side falls back from one to the other.
- **Failure.** The connection may break between any two steps: while the game
  waits for a frame, in the middle of a saved game, while a request is pending. The
  editor may go away, an encoder may fail, a thread may not start.
- **Changing what is being walked through.** Events fire events, kills kill, loops
  deactivate what other loops stand at, the P switch renumbers blocks that are in the
  middle of shaking, a layer in motion changes tables.
- **Interruption.** A message event leaves `UpdateEvents`, `UpdateNPCs` or
  `UpdateBlocks` in the middle of a loop, with the locals in `g_gameLoopInterrupt`; the function is
  entered again at a label.

## 2. The modules

One module per component; `MC*` modules give the constants that a `.cfg` cannot.
Names are those of the code. A definition marked `mutant` is a version with a
plausible bug, used nowhere but to see that a property notices it.

### NetFrames (client.cpp, client_methods.cpp)

The game thread is `gpc`: `InitSession`, `StartFrame` (a frame that is there is
run, one that is not is waited for), `EndWait`, `GoLocal`. The network thread is
`npc`: a turn is `SyncData`, perhaps one `Control` message, any number of
receptions (`RecvTcpBegin`, `RecvTcpMessages`, `RecvTcpEnd`, `RecvUdp`) and
`RecvDone`; `HangUp` closes everything. `g_session` is touched only under
`status_req_sync_lock`, so a critical section is a step; `temp_state`
(`t_current`, `t_available`, `t_remote`, `new_history`) is what the thread has
between two of them, and may be old.

- A frame's messages are one batch named by its number: what they say is never
  looked at by the data plane. A batch has two parts, since a stream may stop
  between its `frame_begin` and its messages, which is what
  `tcp_frame_in_progress` is about.
- What the server sends is a slice of its log: `start`, the busy frames, `end`.
  Datagrams are a set (any order, any number of times, `LoseDatagram`), the
  stream is a sequence. Repeated and late datagrams need no second one under way:
  the server may send any old slice at any time.
- The server is external. It is what the client's code takes for granted: it
  closes frames, sends what a client has reported as missing, takes input, and
  skips what it has. `Pipelined` lets it start a datagram beyond what the client
  has reported, so that premature datagrams occur.

### NetLockstep, the abstract specification

What NetPlay promises: the server closes frames; a client plays them in order,
none before it is closed, and runs the messages of each in that frame; once the
connection is lost it plays on alone. NetFrames implements it
(`PlaysInLockstep`): `closed` is `server_frame`, `played` is `current_frame`
(less one while the game waits for it), `run` is the part of the history that was
run, `lost` is whether the connection is.

### NetStatus (client.cpp, client_methods.cpp, menu_main.cpp)

The game thread asks: `ConfigChanged`, `EnterRoom`, `RequestFillRoomInfo`,
`JoinRoom`, `LeaveChars`, `StartEpisode`, `Tick`, `EndSession`; and polls
`status_req_completed`, which is three steps (`CompleteRequest`, `PullCompleted`,
`CompareAlarm`), for the network thread may publish between them. The network
thread serves: `PullRequest` or `PullBusy` (the try-lock), one action per branch
of the request section (`Submit...`) and of the receive section (`Recv...`, with
`PutHeader`, `PutBody`, `PutBroken`, `PutDone` for the session, the first three of
which may never come), and publishes in two steps, `PushStatus` and `SetCompleted`. The
server answers, does not answer, or answers about another room (`Answer`); the ghost `neglected` remembers. Ghosts
`answered` and `answered_sync` say which request's completion a status carries.

### EventQueue (layers.cpp)

`UpdateEvents` is a loop of steps: `CountDown`, `Frozen`, `Fire`, then the event
itself (`Message`, `Resume`, `Chain`, `Delay`, `NoSuccessor`), then `Remove`,
which puts the last entry into the place of the one that fired. A level is a
function from events to successor, delay and message; the run tries all of
two events and circles of three. `Sources` are the events that something else than an
event may trigger. The ghost ticket names each entry ever queued; `due` and `moves` say when it may fire
and how often it was moved. Delays count frames.

### NpcKillQueue (npc_update.cpp, npc_kill.cpp)

Between frames anything may mark an NPC and queue it, spawn one, or hide and show
a layer. `UpdateNPCs` sorts the queue and enters the loop: `Pass` or `KillNPC`,
the NPC's death event, `LastEvent`, and `Die`, which removes the NPC from the
array, tells the player who stands on one, and sorts what the events have added to
the queue. `Pause` and `Resume` leave and enter the loop for a message. An NPC has
a ghost id, for indices change hands. Of an event only the layer it hides is kept:
hiding is how it kills. `NPCQueues::reverse_sort` leaves equal indices indistinct, so
`Descending` gives each place its order statistic; the order in which a layer queues its
NPCs, and the one `std::partition` leaves, matter to nothing, since what follows sorts.

### SafeSet (npc/safe_set.hpp)

`Begin`, `Advance` and `End` are the iterator's constructor, `++` and destructor,
on a stack, since loops nest; `Insert`, `Erase` and `Clear` may come in the body of
any. (`SetInit`, `SetSpec`, ... and `GoesInOrder` have names of their own because the two
containers, this one and SfxThread, are proved in one module.) `Interrupt` and `Resume` are
UpdateNPCs' own: the loop is left with the NPC's
index alone and a new iterator takes over. The ghost `stale` is what the code must
know and cannot ask: that the `std::set` iterator is not at `last_val` any more.
Advancing a stale one is undefined behaviour, so `Anywhere` allows any outcome.

### SfxThread (sound_thread.cpp)

The game (`PlaySfx`, `StartSfxThread`, `EndSfxThread` with `Signal` and `Join`) and
the thread (`Check`, `Take`, `Play`); `Spurious` is a wait that returns by itself.
Sounds are numbered as they are asked for. Ghosts: what was heard, what a thread
gave up when it ended (`dropped`), where it started (`since`).

### Blocks (blocks.cpp)

Between frames blocks are hit (`Hit`, `PowBlock`, `BlockHitHard`, `SafelyKillBlock`),
coins are taken, the switch is pressed, and an event hides or shows the layer all of
it is on. A frame begins with UpdateNPCs, as far as it removes coins that are killed
(`RemoveNPC`). `UpdateBlocks` then goes through `iBlock` (`ShakeStep`, `HitEvent`,
`Struck`, `Smash`), takes out the entries of what is at rest (`Trim`) and counts the
switch down. Each iteration of a loop is a step, with `A` for the loop's variable. At its
first frame the switch turns coins into blocks (`SwitchOn`, `ToBlock`) and blocks into
coins (`ToCoin`, until `AllTurned`); at 1 and again at 0 (`Tick`) it turns them back
(`BackToBlock`, and `GiveBack` or `PassOver`). With the classic order the blocks are
`Sorted`, by place, those at the same place in any order. `KillBlock` (`DeathEvent`,
`AskLast`, `LastEvent`, `Die`) is
called from two places, `caller`, and any event may show a message (`Interrupt`), after
which only `g_gameLoopInterrupt` is left (`Resume`). A thing keeps its name while it is
a block, a coin and a block again. Ghosts: `owed`, events begun and not ended; `lost`,
what was destroyed, collected or dropped for want of room; `kept`, coins that stay
blocks because they were hidden, or the array full, when the switch ended.

### VideoRecorder (render_base.cpp, lib/pge_video_rec)

The game's thread (`toggleGifRecorder`, `processRecorder`, `Close`, `Restart` and their
steps), the mixer's (`store_audio_chunk`) and an encoder for each recording (`Pick`,
`Look`, `Check`, `Take`, `Finish`, and `Fail` for streams that end by themselves). A GIF
encoder writes what it takes (`Write`). `get_video_frame` of the WebM encoder has one shot
in hand, `next_frame`, and goes on through the queue until it has one of a later 1/120 s
(`Hold`): it then writes the one it had, and of several in one tick the last. `tick` is
what it knows of time. The
mutex guards the pointer `recording`; steps end where it is let go, since the game uses
the pointer after that. Using one that is gone leads to the state `undefined`, of which
nothing is said. Shots are numbered; what is in them is not modelled.

### BlockTable and LayerTables (block_table.hpp, block_table.cpp, layers.cpp)

BlockTable has no state: a table is a value, and insertion, erasure and query are
operators on columns, stacks of screens, chains of nodes and the axes on which a
rectangle continues from the cell before. LayerTables holds the common table and one
for each layer: `AddBlock`, `PutBlock`, `RemoveBlock` are what the level does through
`syncLayersTrees_Block`, `SetLayerSpeed` and `MoveLayer` what events do; `MoveLayer`
may split the layer from the common table, and `UpdateLayers` moves a layer, carries its
blocks along in the common table, and joins it again a while after it has stopped. Split,
join and motion are loops over the layer's blocks, `loop`: the step that begins one
(`split`, `join`, `Move`), one for each block (`SplitItem`, `JoinItem`, `MoveItem`), one that
ends it. No other caller comes in between, so InOneTable and LocationsNoneMissed speak of
the times between loops (`Idle`); TablesFindOnce holds within them too. Blocks stand for
backgrounds and water as well, which have the same tables. Coordinates are whole pixels
and do not wrap.

### EditorPipe (lib/InterProcess, editor/editor.cpp)

The editor, which keeps to the protocol and may go away (`Answer`, `Serve`,
`SendCommand`, `GoAway`); the thread that reads the pipe (`Receive`, `BeginLevel`,
`EndLevel`, `storeCommand`); and the game, which asks for a level and waits
(`zTestLevel`, `hasLevelData`, `Elapse`, `AskAgain`, `WaitOn`), reads it
(`OpenLevelData`, `ReadPart`, `ReadEnd`) and carries out commands while it is played
(`UpdateInterprocess`, `CloseMessage`) and is not paused (`Pause`). The one call of
UpdateInterprocess is in UpdateEditor, which GameLoop calls if `MagicHand`
(game_loop.cpp:353): that is a command line switch of its own, apart from the one that
opens the pipe. A level is a sequence of parts named by the
request they answer. The buffer the game reads is the one the thread fills, so the
game reads in steps.

## 3. The runs

| Run | Checks | Shows |
|---|---|---|
| net_frames_down | HistoryIsLog, RunInItsFrame, PlaysInLockstep, WaitEnds | datagrams and stream race each other, with slices that are old, premature or repeated and a connection that is lost at any time: the history is the server's log, each batch runs in its frame, the client implements NetLockstep, and the game does not wait for ever, though every datagram be lost |
| net_frames_up | NoInputLost, InputOnceInOrder, ReportsWhatItHas | input goes up over datagrams and falls back to TCP, with late control messages: each input arrives once and in order; the client reports no more than it has |
| net_status | ReplyIsFresh, GuestHasSession, WithdrawalHonoured, RequestAnswered | between two threads that never hold a lock together, with faults and a server that may be silent or wrong |
| event_queue | OnceEach, OnTime, TriggeredAtOnce, FrameEnds | all levels of two events, and circles of three: nothing is overwritten, repeated, early, or late by more than the times it was moved; UpdateEvents comes to an end unless it is at an event of a circle of three without delay |
| npc_kills | NoneSurvives, StandingFollows | kills that kill, from inside the loop, in a level, in the menu and in a battle |
| safe_set | NeverStale, VisitsAll, GoesInOrder | three loops inside each other over elements that come and go, one of them interrupted |
| blocks | NoneForgotten, EventsWhole, SwitchGivesBack | blocks hit, smashed, switched, hidden and moved in the array, in both orders of it, with a message at any event |
| layer_tables | TablesFindOnce, LocationsNoneMissed, InOneTable | blocks put, removed and given other layers while layers start, move, stop and are joined |
| sfx_thread | InOrder, NoneLost, EndReturns, Heard | a thread that starts, fails to start, ends and restarts at any point |
| video_recorder | EncoderHasRecording, InOrder, NoneLost, Saved | two recordings of any format, stopped, failing, or cut off by a new renderer or the end of the program at any point, with shots in the same 1/120 s or in others |
| editor_pipe | LevelWhole, CommandsInOrder, AloneAsSent, CommandsDone, WaitEnds | with MagicHand, two tests of a level, sent whole or in parts, asked for once or twice, with commands in between, pauses, messages that wait to be closed, and an editor that may go away; the game that waits for its level gets it or gives up |
| video_recorder_reads | ReadsAreSafe | violated, see section 7 |

Every property of a passing run has a mutant in PROJECT.json: a definition of the
model changed as a bug would change the code (a clear() forgotten, an off-by-one,
a guard dropped, a swap that copies), under which TLC finds the property violated.

Some properties say less than one might want, because the code does:

- `NoInputLost` is silent once a datagram has overtaken input that is under way on
  TCP. The code warns of that transition itself (client.cpp, `SendData`): the input
  is gone from the send buffer and the server skips it.
- `OnceEach`, `OnTime` and `TriggeredAtOnce` suppose `fix_event_swap_bug`. Without it,
  for compatibility, an entry may be overwritten. `OnTime` lets an event be late by
  the frames in which it was moved: `UpdateEvents` goes on behind an entry that it
  has moved into the place of one that fired and that has a delay left.
- `FrameEnds` excepts circles of three or more events that trigger each other without
  delay (`Endless`): `ProcEvent_Safe` recognises an event that triggers itself and the one
  that triggered it (layers.cpp:1468), and in a longer circle UpdateEvents never returns. In
  the levels of event_queue those occur, and without the exception TLC finds one.
- `WithdrawalHonoured` and `RequestAnswered` suppose `ReadsReturn` (section 5).
- `SwitchGivesBack` excepts what was dropped for want of room in an array and, at the
  end of the switch, blocks that were hidden then: those stay what they are.
- `LevelWhole` speaks of tests that asked for their level once, `AloneAsSent` of
  commands that no other was waiting behind, and the `WaitEnds` of EditorPipe leaves
  out the editor that goes away in the middle of a level (section 7). `CommandsDone` is
  about a game with `MagicHand`: without it commands are received and never carried out.
- `NoneLost` of VideoRecorder is silent about recordings that were asked to end or that
  failed, and in a WebM file lets a later shot stand for one of the same tick
  (`StandsFor`), since the encoder gives that one up. With the frame rate unlimited, or
  frames that are late and then catch up, this happens to healthy recordings. `Saved` is silent about what follows an access to a recording that is gone.

## 4. Bounds

Bounds are guards on the actions that consume them; they are CONSTANTS named in
the module, and the proofs do not depend on their values.

| Run | Bounds | Why they are enough |
|---|---|---|
| net_frames_down | 2 frames, both busy; one slice on the stream, one datagram | one frame is missing while the next has come; a datagram is any slice, old or ahead; the wait depends on the next frame only. That a gap of more frames is closed is proved for any number of them |
| net_frames_up | input in 2 of 3 frames, 2 transmissions on either channel, 1 control message | two inputs have an order; two datagrams can change places; one can be on TCP meanwhile |
| net_status | 3 requests, 2 rooms, 1 fault | an answer that is too late is that of the request before; a third request follows one that was withdrawn |
| event_queue | queue of 3, 4 entries in all, 2 frames that are not frozen. Levels: those of two events with delays 0 and 1 and at most one message; those that are one circle of three events without delay, at most one message, entered at two of them; of levels that differ in the names of their events, one | one entry fires, one is moved, one follows, and the queue fills up; circles of one, two and three, with a message in them or none |
| npc_kills | 3 NPCs in the array of 4 ever, 2 queued, one frame | one dies, one is killed by it, one is moved; the last to be spawned takes a place that was left |
| safe_set | 4 elements, depth 3 | an element before, at, after and further than the one that is erased; the flag is handed through a loop that did not cause it |
| blocks | 2 blocks and a coin in arrays of 3 and 2, 2 hits, 2 presses of a switch of 3 frames, 1 message, shakes of 1 and 2 frames each way; iBlock empty or as another level left it | the block that is switched is moved over by one that is shaking; either array is too small for both; the switch is pressed again while it is on; a frame between the first and the last two |
| layer_tables | 3 layers of which 2 move, 2 blocks in three places, 3 changes, 4 queries of cells and 6 of places, offsets to 3 pixels in cells of 2, screens of 2 by 2 cells, nodes of one | an offset that is no multiple of a cell, rectangles over several screens on all sides, chains with holes; one layer in the common table and one out of it. Blocks in no layer are left to the proof |
| sfx_thread | 5 sounds | two in each vector and one more |
| video_recorder | 2 recordings, 3 shots, a backlog of 2, 1 chunk of sound, all formats | an encoder of the first while the second starts; a full queue and one shot more |
| editor_pipe | 2 tests, one more request, levels of 2 parts, 2 commands | a test that meets what the one before has left; a part that is missing; the answer to the first request of a test comes in the second; two commands that wait together, at a message or in a pause |

Runs without deadlock checking are those in which the bounds use up everything
(MaxRequests, MaxClock, MaxFrames and the like); the game would go on.
event_queue has `fix_event_swap_bug` on: its safety properties suppose so.

## 5. Fairness

- **NetFrames** (`FairSpec`): both threads go on (weak fairness of what each
  does next: `client_loop` is a loop without an exit, the game calls `Tick` every
  frame). What TCP carries arrives, though datagrams keep the receive section busy
  (strong fairness of the three stream actions). The server closes frames and sends
  what is missing on TCP: that is what the code relies on, and says so where it
  falls back. Nothing is assumed of datagrams or of `HangUp`.
- **NetStatus**: the network thread goes on (weak); what has arrived is handled some
  time, and the try-lock of `PullRequest` succeeds some time (strong: the game holds
  the lock for a copy at a time, again and again). Nothing is assumed of the game,
  the player or the server, and so nothing makes the network thread leave a session
  it has received half of: `FillBufferTo` (client.cpp:975, 1012) waits for the rest
  and looks for no cancel, as the FIXMEs beside it say. `WithdrawalHonoured` and
  `RequestAnswered` suppose that no such read lasts for ever (`ReadsReturn`).
  `RequestAnswered` also excepts a server that has left something unanswered;
  `WithdrawalHonoured` does not.
- **EventQueue**: a message is closed some time and the loop goes on (weak).
- **SfxThread**: calls end and the thread is scheduled (weak). The game need not
  call anything, and no wait ends by itself.
- **VideoRecorder**: the game does not stop in the middle of a call and an encoder is
  scheduled (weak). Nobody need start or stop a recording, take a shot or fail.
- **EditorPipe**: threads run, time goes by, the player closes messages and ends pauses,
  and an editor that is there answers (weak). UpdateInterprocess is called once in every
  frame that is not paused, with `MagicHand` (strong, for pauses come again and again).
  The editor need not stay, nor send a command, nor the player stay in the level.
- SafeSet, NpcKillQueue, Blocks and LayerTables state no liveness, and no fairness.

## 6. The proofs

TLAPS proves, for every value of the constants (any number of frames, elements,
sounds, any channel bound) and every schedule:

| Module | Theorem | States |
|---|---|---|
| NetFramesProofs | FramesInvariant, TypeCorrect, HistoryCorrect, RunCorrect, ReportCorrect | TypeOK, HistoryIsLog, RunInItsFrame, ReportsWhatItHas |
| NetFramesProofs | LockstepCorrect | PlaysInLockstep: NetFrames implements NetLockstep |
| NetFramesProofs | InputInvariant, InputOnceCorrect, NoInputLostCorrect | the inductive invariant, InputOnceInOrder, NoInputLost |
| NetStatusProofs | TypeCorrect, RepliesAreFresh, GuestsHaveSessions | types, ReplyIsFresh, GuestHasSession |
| EventQueueProofs | QueueCorrect, EveryEntryOnce, EventsOnTime, TriggeredFire | the inductive invariant, OnceEach, OnTime, TriggeredAtOnce |
| NpcKillQueueProofs | KillInvariant, NoneSurvivesCorrect, StandingFollowsCorrect | the inductive invariant, NoneSurvives, StandingFollows |
| ContainerProofs | SetTypeCorrect, NeverStaleCorrect, VisitsAllCorrect, GoesInOrderCorrect | types, NeverStale, VisitsAll, GoesInOrder of SafeSet |
| ContainerProofs | TypeCorrect, InOrderCorrect, NoneLateCorrect, NoneLostCorrect | types, InOrder, NoneLate, NoneLost of SfxThread |
| ContainerProofs | TablesInvCorrect, TablesFindOnceCorrect, LocationsNoneMissedCorrect, InOneTableCorrect | the inductive invariant of LayerTables, TablesFindOnce, LocationsNoneMissed, InOneTable |
| BlocksProofs | BaseCorrect, EventsWholeCorrect | types, places and owed events; EventsWhole |
| BlocksProofs | ShakesCorrect, NoneForgottenCorrect | Shakes; NoneForgotten, supposing `[]Room` |
| BlocksProofs | FateCorrect, SwitchGivesBackCorrect | what becomes of each thing; SwitchGivesBack |
| EditorPipeProofs | PipeInvariant, LevelWholeCorrect, CommandsInOrderCorrect, AloneAsSentCorrect | the inductive invariant, LevelWhole, CommandsInOrder, AloneAsSent |
| VideoRecorderProofs | RecorderInvariant, EncoderHasRecordingCorrect, InOrderCorrect, NoneLostCorrect | the inductive invariant, EncoderHasRecording, InOrder, NoneLost |

The type invariants of NetFrames and NoneLate are stated by no run any more: the
proofs have them for every instance.

They rest on the named assumptions on constants only (types of the bounds,
`BusyFrames` within the frames, `Values` positive, `Loops` a function, the kinds of
commands other than the messages about a level, a soft limit on NPCs within the array,
`NoLayer` no layer, levels whose things are there once, arrays of any size, blocks with a
width and a height, queries with a margin, a layer that never moves). One theorem
has a hypothesis besides `Spec`: NoneForgottenCorrect supposes `[]Room`, that `iBlock`
never fills up, for then `BlockHitHard` makes no entry and the block stays doomed. In the
code `iBlock` has 20,000 places and is emptied of what rests in every frame.

**NetFrames.** That the history is the server's log is not inductive: it says
nothing of what is on its way. `FramesInv` adds

- `LogGrows`: nothing under way speaks of a frame that is not closed, so that a
  slice means the same when it is read as when it was sent;
- `NoGapAhead`: what the client reports is at most one frame ahead of what it has
  without a gap, and so is all that the server does on that report. Without it a
  slice of the stream could start behind a gap, and the stream has no test for it
  (datagrams do);
- `StreamRead`: the part of the slice at the head of the stream that was read is
  available or is the frame in progress, and that one is whole once its messages
  are read. This is where a datagram overtakes the stream in the middle of a frame:
  the frame in progress is then old and is dropped whole;
- `RestIsFuture`: what the game has not run is not due yet.

There is one lemma for each action (`ServerTickInv`, ..., `RecvUdpInv`), `NextInv`
combines them. The lemmas on logs (`LogConcat`, `LogExtend`, `LogOne`, `NewsIsLog`)
do without induction: a log is described by what is in it and its order.

**Refinement.** `LockInv` is FramesInv and `RunIsPast`, that no batch beyond the frame
the game is in was run. Each action is then a step of NetLockstep or none:
`ServerTick` is Close, `StartFrame` and `EndWait` are Play or, without a connection,
PlayAlone, `HangUp` is Lose, all others stutter.

**Input.** The other way, from `g_session.submit_buffer` to the server, is the subject of
the second half of NetFramesProofs, on top of FramesInv. The server has no other test for a repeat than the
frame it has been told of (`server_seen`), and SendData names the frame it is in at the
end of every transmission, with input in it or not. `InputInv` has

- `Submits` and `Batched`: what SyncData has not fetched is later than any frame it has
  told, and batches and transmissions are in order;
- `Aligned`: none of the frames that the server has been told of, or may yet be
  (`Marks`), lies between the inputs of a batch and the frame the batch is named by. So
  what the server takes of a batch is all of it or nothing, and no input twice;
- `Got`: what the server has is in order and not later than `server_seen`.

That nothing is lost needs `LossInv` besides:

- `StreamOrder`: what follows a transmission on TCP is later than the frame it names;
- `Acked`: nothing is acknowledged that the server has not seen. It is what fails if the
  server may start its datagrams past the reported frame (`Pipelined`);
- `Complete`: a datagram that tells of a frame brings all input up to there that still
  waits or is on TCP. A datagram sent while input is on TCP breaks it: this is the
  transition that the comment in SendData warns of, and why `NoInputLost` stops at
  `overtaken`;
- `Accounted`: each input is in the submit buffer, in a batch on its way, or taken.

`FetchesBatched`, `FetchesComplete` and `FetchesAccounted` are SyncData's part, `TakeSplit`
and `TakeHas` the server's; a sequence is described by its elements (`Elems`) and their
order, so no induction is needed. `NoInputLost` writes its unions in parentheses
because tlapm and SANY group `UNION A \cup B` differently.

**NetStatus.** `NetStatusInv` follows a request on its way to the server and the
status on its way back:

- `Numbers`: what the game knows answered is at most what the published status answers,
  that at most what was pulled, that at most what was pushed; while the game polls,
  the last request is answered by the published status. `ReplyIsFresh` is its last line;
- `Channel` and `Phases`: only the last message on the control channel is an answer, it
  is of the kind that the pending request asked for, and a client in SESSION_CONFIG is
  in the room its request named;
- `Guest`: a client that became a guest is done with the request that made it one, and,
  unless it was cut off, the session is whole and of its room. The branch of
  HEADER_PUT_SESSION that refuses access also ends in GUEST (section 7): there the
  request is not the last one any more, which `PutHeaderSteps` gets from what
  `get_session_access` tests;
- `Known`: if the published status, or the one the game has pulled, says GUEST and answers
  the last request, the session is the one asked for, and nothing that could change it
  (`Over`) is under way;
- `RoomAsked` and `OneRoom`: a status that answers a request names no other room than it
  did; from the choice of the characters on, all that is under way names one room. They
  are needed for a second request to join, which a client that is a guest already
  reports as done without looking at the room.

The steps of the game thread are first shown to have one form (`GameStep`), and those of
the network thread to be one of 21 (`NetStep`), of which closing the connection and
sending stand for several actions each.

**EventQueue.** All is proved with `fix_event_swap_bug` on; without it the loop does
overwrite and repeat entries, which is why the setting is there. `EventQueueInv` speaks
of the locals of UpdateEvents (`At`, `Old`, `Prev`, `Active`) wherever they are, in the
loop or in the interrupt, so that Message and Resume change nothing. It has, besides types,

- `Places`: the loop stays within the queue, and an entry that fires has at most one
  successor behind what was there before. The swap is right because of it: the last
  entry is the successor, an entry the loop was to reach (then the loop is one
  shorter), or one it was not to reach;
- `Budget`: the bound on tickets always has one left for an entry that may still fire. It
  concerns the model alone; that an entry put in place of the one that triggered it does
  not fire in the same frame is what it rests on;
- `Different` and `Kept`: the entries in use hold different tickets; one that waits has
  neither fired nor been cancelled, the one that fires has fired once, and a ticket that
  neither fired nor was cancelled waits somewhere. `OnceEach` counts what they say.
  That CancelNewEvent drops none of those that stay is a matter of counting: as many
  entries are moved as there are gaps (`CancelCancels`, with the theorem that an
  injection between finite sets of one size is onto);
- `Windows`: when each entry falls due, as told from its delay, the clock and whether the
  loop has passed it in this frame, lies between the frame it was put down for and that
  frame plus the times it was moved. The successor of a triggered event (`Successors`) is
  ahead of the loop, and due exactly, until it is swapped into its place;
- `Prompt`: what the loop has passed or will not reach was not triggered directly.

**NpcKillQueue.** That none survives speaks of the end of the loop; `KillInv` says what
the loop owes while it runs. Like EventQueueInv it takes the loop's locals (`At`, `Check`,
`Known`, `Dying`) from wherever they are, the loop or the interrupt. Besides types and
`Place`, which bounds them, it has

- `Owed`: whoever is doomed and lives is marked, and has an entry at his present index
  from the loop's place to `KilledQueue_check`, or, while an NPC is being killed, a new
  entry behind `KilledQueue_known` if he is before that one. The new entries are what the
  end of `Die` takes over;
- `InOrder`: what is still to be checked is descending. It is what makes the removal
  harmless: the last NPC takes the index of the one removed, which the loop has come
  down to; no entry to come names a greater index, so by Owed whoever is moved is not
  doomed, and the others keep their indices;
- `Distinct`: no ghost id is given twice; without it "the same NPC" would mean nothing.

`DieStep` has the removal and, for an NPC that comes back, `Revive`; `UpdateDoes` shows that
the sorted tail holds every new entry before the one killed, so that the place, the number
of entries to check and their order are kept. What `Descending` does is proved with
cardinalities only: `Least`, from the well-foundedness of < on Nat, gives a least
counterexample where one would do an induction (`KthExists`), and
`DescendingIs` and `DescendingSplits` say that the result has the same entries, descending,
and that its first entries are those not less than a given index. The proof of
`StandingFollows` has no need of `Owed`: a removal is told by the ids (`Follows`).

**SafeSet.** `NeverStale` speaks of the innermost loop; `SetInv` of all of them.
`Covered`: if a loop's iterator is stale, the flag is up or some loop inside it
will put it up when it ends (its `prev_invalid`). `DueAhead`: what a loop has yet to
come to is in the set and ahead of it. A
destructor that did not give `prev_invalid` back would break Covered: `Forgotten` is
that mutant.

**SfxThread.** `SfxInv` adds `Turns` (who is where: the game is in EndSfxThread exactly
when the flag is up, and a thread is done only then) and `Ordered` (what was heard
came before what the thread holds and that before what the game has queued; the
queues are ascending; together with what was given up they are all that was
asked for; the thread's vector is empty whenever it waits).

**BlockTable and LayerTables.** The algorithm and the state that uses it are proved apart.

- A table is right for its members (`TableOK`) if columns and screens are contiguous, there
  is a chain for every cell of a screen, every member's cells are among those, and a chain
  holds each reference once, those of the members whose rectangles the cell is in, with
  the axes on which they continue there (`EntriesAt`). `WalkIs`: the walk through the screens,
  each with its own inner rectangle, comes to every cell of a rectangle, with these axes.
  From it and the lemmas on chains (`InsertRefIs`, `EraseRefIs`) and growth (`GrownIs`):
  `TableInsertIs`, `TableEraseIs`, `TableUpdateIs`, `UpdateLayerIs`. A query finds each member
  once because two rectangles that meet have one cell in which neither axis is
  continued by both, `First`; `AnyAxis` forgets that (`HitIs`, `TableFinds`).
- `TablesInv` says which table has a block, in the middle of a loop as well (`InCommon`,
  `InLayer`), and where: in a layer's table a block is at its place less the layer's offset
  (`LayerLoc`). While a layer moves, its offset is ahead of the blocks that were
  not yet carried, by its speed. `LoopOK`: what a loop has still to come to is the layer's,
  and the layer's table is active in a split and is not in a join; until the loop comes to
  it, a block is in the common table in a split, and in its layer's in a join. `SyncedIs`
  needs that some layer has no table of its own, since only then the common one is
  cleared (section 7).
- LocationsNoneMissed then is arithmetic. The cells of an interval end after every point
  before its end (`FloorCeil`); place and offset are rounded apart in a query, together in
  what the table holds, and differ by one cell at most (`FloorSum`): that is `OneMore`.
  The margin makes up for what only touches.

**VideoRecorder.** `RecorderInv` has, besides types,

- `Handles`: the recording is the last that was started, or none, and who has the
  handle of its encoder is the recorder, or, in `GifRecorder::quit`, the game, which
  waits for it. From this follows that a new renderer or the end of the program
  leaves no encoder behind: with `AtOnce` for `Joined` it would. It also says that
  queues of recordings to come are empty;
- `Chronological`: what waits is accepted, ascending, and later than what is in the
  files (`Behind`), and the shot that a WebM encoder holds is in between; the end frame,
  0, is therefore not in any queue;
- `NothingDropped`: a shot that was accepted waits, is in the film (`InFilm`: it or a later
  one of its tick is written or held), or its recording is given up; and an encoder that has no pictures to encode any more, as one that ends, has
  been told so or has failed. This is what makes it safe to throw the queue away.

`MoveInv` covers the steps of an encoder that touch no shot, `TakeInv` and `FinishInv`
those that do. `TakenInv` says what is required of one that takes a shot, whether it
writes it, holds it, or lets go of one for it; that the one let go of is of the same tick
and earlier is what carries InFilm over, since then whatever it stood for is stood for
still. `WithinAppend` and `WithinTail` describe a queue by what is in it and its
order, without induction. Nothing is claimed past `undefined`, as in the model.

**EditorPipe.** `LevelWhole` says what is played; `PipeInv` follows the level there:

- `Framing`: while the reader accepts data there is, up to the end of the level, nothing
  else in the pipe, and nothing behind the announcement of a level. Any message that
  came in between would be taken for a part of it (`Receive`). It rests on what the
  editor keeps to;
- `Turn`: between announcement and end the level is in one of four stages (`Announced`,
  `Noticed`, `Asked`, `PartSent`), and what was received and what the editor has left
  are together the level. In `Asked` exactly one reply of the reader is under way, of
  the kind that the mode of the transfer calls for (`Awaited`);
- `Content`: once its end has been sent, what was received is the level of
  `m_accepted_lvl_path`;
- `OnceAsked`, for a test that asked once: request, transfer and accepted level exclude
  each other (`OnePlace`), all of them are of this test (`Named`), and what the game has
  read is a prefix of what was received (`LevelRead`). The second request is what breaks
  `OnePlace`: the buffer may then be cleared while the game reads it;
- `KindsKept`: commands keep their kinds, and `s_cmd_recentType` is that of the command
  that waits if only one does. `AloneAsSent` stops there because with two it is not.

`Framed`, `Has` and `ToCome` are stated of any queue, with lemmas for a message at its
end and one taken from its front (`FramedAppend`, `FramedTail`, `ToComeAppend`, ...); the
steps of the three processes use those and one lemma for each part of the invariant.

**Blocks.** Four places leave UpdateBlocks for a message, and what was its own is then in
`g_gameLoopInterrupt` only. So the invariants speak of `Stage`, `At` and `By`, the place,
the loop's variable and the caller of KillBlock wherever they are, and of `Now`, the block
in question; that a message changes none of them is shown once (`Interrupted`, `Resumed`), as is
what an event does to the arrays. There are three, each on top of the one before.

- `BaseInv`: types; `Place`, that every index is within its array where it is used, though
  the switch shortens and reorders the arrays; and `Owing`, that an event is owed exactly
  if UpdateBlocks is at it, by the thing it is at. `EventsWhole` is Owing at `idle`. A
  flag that KillBlock did not look at (`Unmarked`) breaks it in `Resume`.
- `Shakes` and `Entered`. `Bent`: where a block is follows from its counter, so that a
  block whose program has ended is where it belongs; at the end of its program it is only
  between `ShakeStep` and `Struck`. `ShakeEntered`: a block that shakes has an entry; those
  that are taken out are of blocks at rest, and the last one, moved into the gap, is still
  there. `DoomEntered`: one that is to be smashed has an entry which the
  loop has still to come to, or is at. Moving a block by the switch keeps both through
  `Entry`; in the classic order it does not, and neither is claimed there until the blocks
  are `Sorted`, which gives every block an entry (`Reordered`). No block is doomed when the
  loop is over, so the switch has to do with ShakeEntered only.
- `FateInv`: `Kinds`, what was a coin and what a block; `Unique`, that no two blocks, nor
  two coins, that are there are the same thing; `Apart`, that a thing is both a block and a
  coin only while it is being turned: the coin is killed and waits for UpdateNPCs, or the
  block is the one KillBlock is at, or will be; `Lost`, that a thing is lost exactly if it
  is neither; `Returned`, what the end of the switch has turned back as far as it has come,
  with the blocks it kept. `SwitchGivesBack` counts what they say. Apart is why a coin that
  is given back before its block is killed is not there twice, however often KillBlock is
  left for a message in between.

**Only model-checked.** Liveness (`WaitEnds` of both modules, `WithdrawalHonoured`,
`RequestAnswered`, `FrameEnds`, `EndReturns`, `Heard`, `Saved`, `CommandsDone`): the
prover handles neither fairness nor ENABLED. Every safety property that a passing run
checks is proved. No module uses RECURSIVE, and no theorem is about
what a recursive definition computes: the induction theorems take an operator as a
parameter, and the provers cannot instantiate one. Where a statement about all naturals is
needed the proofs take a least counterexample; the sorting of NpcKillQueue is defined by
counting for that reason, the walk of BlockTable by sets, and the loops of LayerTables
are steps.

## 7. Where code and comments disagree

One run finds a statement of the code's own comments violated.

- **ReadsAreSafe** (video_recorder_reads). GifRecorder's comment says that the mutex need
  not be held for reads from the main thread, "because any write processes are
  initiated from main thread". The encoder resets the pointer at its end by itself:
  `toggleGifRecorder` asks it to end, lets go of the mutex, and then uses the recording.

Other places where the code does what one would not expect, or what a comment denies.
They were met while modelling; each is left as it is in the module.

NetPlay and queues:

- the saved game of a session is received, and `g_session` written, after the client has
  withdrawn (client.cpp:1019), though the comment on `get_session_access`
  (client.cpp:267) has it that it is not;
- `Disconnect`, with which `Connect` begins, reports the request that asked for the
  connection as completed before it is served (client.cpp:382); the branch of
  HEADER_PUT_SESSION that refuses access sets `session_size` to 0 and then takes 0 for
  a whole session (client.cpp:998, 1027); the session of a room that the player backed
  out of can replace that of an episode of his own (client.cpp:1007,
  client_methods.cpp:136); frame numbers travel in 24 bits (client.cpp:117), which 77
  hours use up;
- npc_queues.h:75 asks for an entry in `Killed` for everyone who is marked. The death
  event of an NPC hides the layer of the last, spawned one: its old entry is out of
  range once KillNPC has moved it, and its new one, which equals the index being
  killed, is thrown away as a duplicate (npc_update.cpp:1742-1758). `last_NPC` is
  compared with and never set (1701); the loop over `Unchecked` (788) is one over a
  vector to which NPCHit may push;
- an event that does not fit the full queue is dropped (layers.cpp:1475);
- "-1: loop forever" goes through a `uint8_t` when there is a sound thread and becomes
  255 (sound_thread.cpp:36, 96; sound_thread.h:33);
- the menu and the outro ignore what `UpdateEvents`, `UpdateNPCs` and `UpdateBlocks`
  return (menu_loop.cpp:503, outro_loop.cpp:160): the function that was left takes
  itself up in the next frame, unless another has been left meanwhile.

Blocks:

- the switch ends at time 1 and again at 0, and runs its end event both times;
- a coin that was collected in the same frame is turned into a block all the same, since
  the transformation does not ask for `Killed` (1730), and so comes back;
- a block that is moved by the switch while it has an entry gets a second one, and with
  both shakes twice as fast; `iBlocks <= maxBlocks` (1852) lets iBlock grow by one more
  than the other places do;
- `ClearLevel` does not empty iBlock: the first frame of a level looks at the entries of
  the last one;
- the effect of a spin block keeps the block's index, which the switch does not correct
  (1534, effect.cpp:508): another block may be shown.

Tables:

- a block that gets its first layer stays in the common table too, if every layer is in
  motion (layers.cpp:1988); the default layer never is, which is an assumption;
- an update with an improper rectangle keeps the old one as the member's; an object of no
  width on the border of a cell is in none; cells are 16 bits wide (block_table.hpp:40).

Video recorder:

- the frame that is to end a recording is never queued: -1 for an unlimited backlog is
  taken for a full one, though pge_video_rec.h says that a recording "terminates once
  the empty end frame has been dequeued". Encoders end by `exit_requested`, and a shot
  queued between the look at the queue and the look at the flag is lost;
- a new renderer deletes the recorder with the mixer's callback still set on it
  (frm_main.cpp:347);
- an encoder that does not start leaves a recording that never ends.

Editor pipe:

- a second request clears the buffer, maybe while the game reads the level that has
  arrived since; and the answer to the first may be taken for that of the next test;
- the type of a command is that of the last one stored, the command taken is the first:
  of two that wait together one is carried out as the other;
- an editor that goes away in the middle of a level leaves a game that waits for ever;
  `IntProc::quit` is called by nobody;
- a message box is shown with `s_cmd_mutex` held: the thread that reads the pipe stops
  until the player closes it.

## 8. What is not modelled

- What messages do when the game runs them, and hosting again after a session. A
  player who quits while the game waits for a frame (client_methods.cpp:232).
- The bytes of the session, 24-bit frame numbers, partial sends.
- Start and end of the network thread; server addresses.
- What an event does besides triggering, hiding layers and messages; autoscroll.
- How an NPC gets killed, but for layers that are hidden; NPCs that the no-turn-back rule
  wipes, and exits, which `Deactivate` spares (npc.cpp:224, 342); scores, drops, effects; the Yoshi and vine indices that
  KillNPC moves as well, without clearing those of the one that dies.
- What a block contains when it is hit, spin blocks and their effect, respawning in
  battle.
- Quad trees (trees.cpp), queries that stay open while the table changes, sorting of
  results; saved layers.
- NPC, player and effect logic: sequential arithmetic on positions, and tables by type
  (player.cpp, npc.cpp and their parts are a quarter of the game's own code).
- The tables of sounds that the sound thread reads while the game may change them
  (hazard at sound.cpp:822).
- Encoding of pictures and sound: a codec for the sound that fails to open leaves a
  stream that waits for chunks or fails, and what FFmpeg does with one that is half open
  is not said (pge_record_vp8.cpp:940, 976). The text protocol of the editor's messages.
- Menus, files, saves, world map, both editors' user interfaces, drawing, platform code.
  Most lines of the repository are vendored libraries (json, miniz, fmt, PGE file
  library, GIF and VP8 encoders), generated tables and platform back ends, which are
  no part of the game's logic.

PROJECT.json has a component entry, with the reason, for each.

## 9. The plan

Done, in the order of importance: NetFrames with its abstract specification and
proofs; NetStatus with proofs; SafeSet with proofs; NpcKillQueue with proofs; EventQueue with
proofs; SfxThread with proofs; VideoRecorder with proofs; EditorPipe with proofs; Blocks with
proofs; BlockTable and LayerTables with proofs.

To extend the model:

1. **NetSession**: message.cpp, rehosting and quick reconnect on top of NetFrames:
   frames left over from one session, a stale `submit_buffer`, fast-forward, 24-bit
   numbers. Composes NetFrames and NetStatus through `g_session`.
2. **NpcActivation**: the chain of activations in UpdateNPCs (npc_update.cpp
   350-745) over SafeSet, with events and messages in the middle.
3. **SoundTable**: the map of sounds with the thread of SfxThread, composed.
4. Composition of Blocks, NpcKillQueue and EventQueue through `g_gameLoopInterrupt`, in
   GameLoop and in the menu and outro loops, which ignore what the three return
   (menu_loop.cpp:503).
5. Spin blocks with their effect; the Yoshi and vine indices; saved layers; the deferred
   updates of the quad trees.

To prove more:

1. NetLockstep for many clients: two that play in lockstep with one server have run
   the same messages in the same frames.
2. The sorting of a query's results, and queries that stay open while their table
   changes, on top of TableOK.
