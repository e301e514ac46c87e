----------------------------- MODULE EventQueue -----------------------------
(***************************************************************************)
(* The queue of pending events: NewEvent, newEventDelay and newEventNum in *)
(* layers.cpp, counted down and fired by UpdateEvents once a frame.        *)
(*                                                                         *)
(* An event may trigger a successor, at once or after a delay, and may     *)
(* show a message.  A message pauses the game in the middle of the event:  *)
(* UpdateEvents returns with its locals in g_gameLoopInterrupt and, once   *)
(* the message is closed, is entered again at its resume label.  What else *)
(* an event does (layers, sections, music, controls) leaves the queue      *)
(* alone.                                                                  *)
(*                                                                         *)
(* A ticket, a ghost, identifies each entry ever put in the queue.         *)
(***************************************************************************)
EXTENDS Naturals, Integers, FiniteSets

CONSTANTS
  Events,       \* the level's events
  NoEvent,      \* EVENT_NONE
  Sources,      \* those that something else than an event triggers
  Scripts,      \* the successor, delay and message of each event, of any level
  FixModes,     \* the values of fix_event_swap_bug
  MaxEvents,    \* the capacity of the queue, maxEvents
  MaxTickets,   \* bound: entries put in the queue in all
  MaxClock      \* bound: frames

ASSUME EventsAssumption   == NoEvent \notin Events /\ Sources \subseteq Events
ASSUME ScriptsAssumption  ==
  Scripts \subseteq [Events -> [next : Events \cup {NoEvent}, delay : Nat, message : BOOLEAN]]
ASSUME FixModesAssumption == FixModes \subseteq BOOLEAN
ASSUME CapacityAssumption == MaxEvents \in Nat \ {0}
ASSUME BoundsAssumption   == MaxTickets \in Nat /\ MaxClock \in Nat

VARIABLES
  script, fix_event_swap_bug,     \* the level and the setting
  entry, newEventNum,             \* the arrays and the number of entries in use
  pc,                             \* where the game is
  index,                          \* the event being processed
  queued,                         \* ... is it processed by UpdateEvents?
  A, newEventNum_old, prevEventNum, events_active,     \* UpdateEvents' locals
  interrupt,                      \* g_gameLoopInterrupt
  tickets,                        \* tickets given out
  fired, cancelled,               \* how often each ticket has fired; those cancelled
  clock, due, moves               \* active frames; when each ticket may fire; times moved

level  == <<script, fix_event_swap_bug>>
queue  == <<entry, newEventNum>>
locals == <<A, newEventNum_old, prevEventNum, events_active>>
ghosts == <<tickets, due>>
vars   == <<level, queue, pc, index, queued, locals, interrupt, ghosts, fired, cancelled,
            clock, moves>>

Slot   == 1..MaxEvents
Ticket == 1..MaxTickets
NoEntry == [event |-> NoEvent, delay |-> 0, ticket |-> 0]
Entry   == [event : Events \cup {NoEvent}, delay : Int, ticket : 0..MaxTickets]

NoInterrupt == [A |-> 0, B |-> 0, C |-> NoEvent, D |-> 0, bool1 |-> FALSE]
NoLocals == /\ A' = 0 /\ newEventNum_old' = 0 /\ prevEventNum' = 0 /\ events_active' = FALSE

-----------------------------------------------------------------------------
(* Putting entries in the queue.  A full queue drops them silently.        *)

Room == newEventNum < MaxEvents

OneLess(delay) == IF delay > 0 THEN delay - 1 ELSE delay     \* mutant: the frame itself counts
Frames(delay)  == delay

Put(event, delay, from) ==
  IF Room
  THEN /\ tickets' = tickets + 1
       /\ newEventNum' = newEventNum + 1
       /\ entry' = [entry EXCEPT ![newEventNum + 1] =
                      [event |-> event, delay |-> Frames(delay), ticket |-> tickets + 1]]
       /\ due' = [due EXCEPT ![tickets + 1] = from]
  ELSE UNCHANGED <<queue, ghosts>>

\* TriggerEvent: to be fired by the next UpdateEvents, frozen or not.
TriggerEvent ==
  /\ pc = "idle" /\ tickets < MaxTickets
  /\ \E e \in Sources \cup {NoEvent} : Put(e, -1, clock)
  /\ UNCHANGED <<level, pc, index, queued, locals, interrupt, fired, cancelled, clock, moves>>

\* CancelNewEvent takes every entry of the event out, and the last ones that
\* stay fill the gaps.
CancelNewEvent ==
  /\ pc = "idle"
  /\ \E i \in 1..newEventNum :
       LET e     == entry[i].event
           gone  == {k \in 1..newEventNum : entry[k].event = e}
           stays == (1..newEventNum) \ gone
           num   == Cardinality(stays)
           gaps  == gone \cap (1..num)
           tail  == stays \ (1..num)
       IN /\ newEventNum' = num
          /\ \E fill \in [gaps -> tail] :
               /\ \A g, h \in gaps : g < h => fill[g] > fill[h]
               /\ entry' = [k \in Slot |-> IF k \in gaps THEN entry[fill[k]] ELSE entry[k]]
          /\ cancelled' = cancelled \cup {entry[k].ticket : k \in gone}
  /\ due'   = [t \in Ticket |-> IF t \in cancelled' \ cancelled THEN 0 ELSE due[t]]
  /\ moves' = [t \in Ticket |-> IF t \in cancelled' \ cancelled THEN 0 ELSE moves[t]]
  /\ UNCHANGED <<level, pc, index, queued, locals, interrupt, tickets, fired, clock>>

-----------------------------------------------------------------------------
(* ProcEvent_Safe.                                                         *)

\* ProcEvent, from anywhere in the frame but UpdateEvents.
ProcEvent ==
  /\ pc = "idle" /\ tickets < MaxTickets
  /\ \E e \in Sources : index' = e
  /\ queued' = FALSE
  /\ pc' = "event"
  /\ UNCHANGED <<level, queue, locals, interrupt, ghosts, fired, cancelled, clock, moves>>

\* The event does what it does, up to its message.
Message ==
  /\ pc = "event" /\ index # NoEvent /\ script[index].message
  /\ pc' = "paused"
  /\ IF queued
     THEN /\ interrupt' = [A |-> A, B |-> newEventNum_old, C |-> index,
                           D |-> prevEventNum, bool1 |-> events_active]
          /\ NoLocals
     ELSE UNCHANGED <<interrupt, locals>>
  /\ UNCHANGED <<level, queue, index, queued, ghosts, fired, cancelled, clock, moves>>

\* The resume label of UpdateEvents; of ProcEvent, which waited.
Resume ==
  /\ pc = "paused"
  /\ pc' = "resumed"
  /\ IF queued
     THEN /\ A' = interrupt.A /\ newEventNum_old' = interrupt.B /\ index' = interrupt.C
          /\ prevEventNum' = interrupt.D /\ events_active' = interrupt.bool1
     ELSE UNCHANGED <<index, locals>>
  /\ interrupt' = NoInterrupt
  /\ UNCHANGED <<level, queue, queued, ghosts, fired, cancelled, clock, moves>>

Return == /\ pc' = IF queued THEN "remove" ELSE "idle"
          /\ index' = NoEvent

\* The second half: a successor follows at once, unless that event names this
\* one as its own successor, or is put in the queue.
AnyChain == TRUE                        \* mutant: circles of two are followed
Chains   == script[script[index].next].next # index

InSecondHalf == pc = "resumed" \/ (pc = "event" /\ index # NoEvent /\ ~script[index].message)
Successor == script[index].next             \* evt.TriggerEvent

Chain ==
  /\ InSecondHalf
  /\ Successor # NoEvent /\ script[index].delay = 0 /\ Chains
  /\ index' = Successor
  /\ pc' = "event"
  /\ UNCHANGED <<level, queue, queued, locals, interrupt, ghosts, fired, cancelled, clock, moves>>

\* A successor of an event that was fired by TriggerEvent counts this frame.
Triggered == queued /\ entry[A].delay < 0

Delay ==
  /\ InSecondHalf
  /\ Successor # NoEvent /\ script[index].delay > 0
  /\ Put(Successor, script[index].delay,
         clock + script[index].delay + (IF Triggered /\ events_active THEN 0 ELSE 1))
  /\ Return
  /\ UNCHANGED <<level, queued, locals, interrupt, fired, cancelled, clock, moves>>

NoSuccessor ==
  /\ \/ pc = "event" /\ index = NoEvent
     \/ InSecondHalf /\ Successor = NoEvent
     \/ InSecondHalf /\ Successor # NoEvent /\ script[index].delay = 0 /\ ~Chains
  /\ Return
  /\ UNCHANGED <<level, queue, queued, locals, interrupt, ghosts, fired, cancelled,
                 clock, moves>>

-----------------------------------------------------------------------------
(* UpdateEvents.                                                           *)

\* A new frame: are the events active, or frozen with the NPCs and players?
UpdateEvents ==
  /\ pc = "idle" /\ clock < MaxClock /\ tickets + newEventNum <= MaxTickets
  /\ pc' = "loop"
  /\ events_active' \in BOOLEAN
  /\ A' = 1 /\ newEventNum_old' = newEventNum
  /\ clock' = IF events_active' THEN clock + 1 ELSE clock
  /\ UNCHANGED <<level, queue, index, queued, prevEventNum, interrupt, ghosts, fired,
                 cancelled, moves>>

InLoop == pc = "loop" /\ A <= newEventNum_old

CountDown ==
  /\ InLoop
  /\ entry[A].delay > 0 /\ events_active
  /\ entry' = [entry EXCEPT ![A].delay = @ - 1]
  /\ A' = A + 1
  /\ UNCHANGED <<level, newEventNum, pc, index, queued, newEventNum_old, prevEventNum,
                 events_active, interrupt, ghosts, fired, cancelled, clock, moves>>

OnlyActive == events_active             \* mutant: what is triggered is frozen, too
Ready      == events_active \/ entry[A].delay < 0

Frozen ==
  /\ InLoop
  /\ ~(entry[A].delay > 0 /\ events_active) /\ ~Ready
  /\ A' = A + 1
  /\ UNCHANGED <<level, queue, pc, index, queued, newEventNum_old, prevEventNum,
                 events_active, interrupt, ghosts, fired, cancelled, clock, moves>>

Fire ==
  /\ InLoop
  /\ ~(entry[A].delay > 0 /\ events_active) /\ Ready
  /\ prevEventNum' = newEventNum
  /\ index' = entry[A].event
  /\ queued' = TRUE
  /\ pc' = "event"
  /\ fired' = [fired EXCEPT ![entry[A].ticket] = @ + 1]
  /\ due' = [due EXCEPT ![entry[A].ticket] = 0]
  /\ moves' = [moves EXCEPT ![entry[A].ticket] = 0]
  /\ UNCHANGED <<level, queue, A, newEventNum_old, events_active, interrupt, tickets,
                 cancelled, clock>>

\* The entry that has fired is replaced by the last one.  If that is its own
\* successor, or was in the queue before, it may have to be looked at as well.
NotFixed  == FALSE                      \* mutant: the last entry is met again
SwapFixed == fix_event_swap_bug

event_triggered == entry[A].delay < 0

Remove ==
  /\ pc = "remove"
  /\ pc' = "loop"
  /\ entry' = [entry EXCEPT ![A] = entry[newEventNum]]
  /\ newEventNum' = newEventNum - 1
  /\ moves' = IF newEventNum = A THEN moves
              ELSE [moves EXCEPT ![entry[newEventNum].ticket] = @ + 1]
  /\ \/ /\ event_triggered /\ newEventNum' = prevEventNum
        /\ UNCHANGED <<A, newEventNum_old>>
     \/ /\ ~(event_triggered /\ newEventNum' = prevEventNum)
        /\ SwapFixed /\ newEventNum' < newEventNum_old
        /\ A' = IF entry'[A].delay <= 0 THEN A ELSE A + 1
        /\ newEventNum_old' = newEventNum_old - 1
     \/ /\ ~(event_triggered /\ newEventNum' = prevEventNum)
        /\ ~(SwapFixed /\ newEventNum' < newEventNum_old)
        /\ A' = A + 1
        /\ UNCHANGED newEventNum_old
  /\ UNCHANGED <<level, index, queued, prevEventNum, events_active, interrupt, ghosts, fired,
                 cancelled, clock>>

EndLoop ==
  /\ pc = "loop" /\ A > newEventNum_old
  /\ pc' = "idle"
  /\ queued' = FALSE
  /\ NoLocals
  /\ UNCHANGED <<level, queue, index, interrupt, ghosts, fired, cancelled, clock, moves>>

-----------------------------------------------------------------------------
Init ==
  /\ script \in Scripts /\ fix_event_swap_bug \in FixModes
  /\ entry = [k \in Slot |-> NoEntry] /\ newEventNum = 0
  /\ pc = "idle" /\ index = NoEvent /\ queued = FALSE
  /\ A = 0 /\ newEventNum_old = 0 /\ prevEventNum = 0 /\ events_active = FALSE
  /\ interrupt = NoInterrupt
  /\ tickets = 0
  /\ fired = [t \in Ticket |-> 0] /\ cancelled = {}
  /\ clock = 0 /\ due = [t \in Ticket |-> 0] /\ moves = [t \in Ticket |-> 0]

FrameLogic == TriggerEvent \/ CancelNewEvent \/ ProcEvent
EventStep  == Message \/ Resume \/ Chain \/ Delay \/ NoSuccessor
LoopStep   == CountDown \/ Frozen \/ Fire \/ Remove \/ EndLoop

Next == FrameLogic \/ UpdateEvents \/ EventStep \/ LoopStep

Spec == Init /\ [][Next]_vars

\* The loop runs to its end, and a message is closed some time.
FairSpec == Spec /\ WF_vars(EventStep \/ LoopStep)

-----------------------------------------------------------------------------
(* Properties.                                                             *)

Live == 1..newEventNum

\* Between frames every entry that was ever put in the queue is there once, or
\* has fired once, or was cancelled: none is overwritten and none repeated.  The
\* properties of the swap suppose that fix_event_swap_bug is on, as it is unless a
\* level asks for the old behaviour.
OnceEach ==
  fix_event_swap_bug /\ pc = "idle" =>
    \A t \in 1..tickets :
      Cardinality({k \in Live : entry[k].ticket = t}) + fired[t]
        + (IF t \in cancelled THEN 1 ELSE 0) = 1

\* A delayed event never fires early, and late only by the frames in which it
\* was moved to the place of one that fired: UpdateEvents does not count it down
\* then.
OnTime ==
  [][\A t \in 1..tickets :
       fix_event_swap_bug /\ fired'[t] > fired[t] /\ entry[A].delay = 0 =>
       due[t] <= clock /\ clock <= due[t] + moves[t]]_vars

\* What was triggered directly has fired by the end of the frame, even a frozen
\* one, in whatever order the entries were moved about.
TriggeredAtOnce ==
  [][fix_event_swap_bug /\ pc = "loop" /\ pc' = "idle" => \A k \in Live : entry[k].delay >= 0]_vars

\* An event from which successors without delay are followed for ever: circles of
\* one and two are cut, longer ones are not.
Endless(event) ==
  \E S \in SUBSET Events :
    /\ event \in S
    /\ \A e \in S : /\ script[e].next \in S /\ script[e].delay = 0
                     /\ script[script[e].next].next # e

\* UpdateEvents, and whoever else fires an event, comes to an end unless it comes to
\* such an event: whatever is triggered, moved about or interrupted in the loop, the
\* game hangs in a circle of three or more and nowhere else.
FrameEnds == (pc # "idle") ~> (pc = "idle" \/ Endless(index))
=============================================================================
