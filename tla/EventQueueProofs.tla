-------------------------- MODULE EventQueueProofs --------------------------
(***************************************************************************)
(* What is proved of the queue of pending events for every level, every    *)
(* capacity and every bound: with fix_event_swap_bug on, each entry is in  *)
(* the queue once, has fired once or was cancelled; none fires early; and  *)
(* what was triggered directly has fired by the end of the frame.          *)
(*                                                                         *)
(* The inductive invariant follows UpdateEvents through its loop.  While   *)
(* an event it fires is paused for a message the locals of the loop are in *)
(* the interrupt; the invariant speaks of them wherever they are.          *)
(***************************************************************************)
EXTENDS EventQueue, FiniteSetTheorems, TLAPS

-----------------------------------------------------------------------------
(* UpdateEvents, wherever its locals are.                                  *)

Left   == queued /\ pc = "paused"
At     == IF Left THEN interrupt.A ELSE A
Old    == IF Left THEN interrupt.B ELSE newEventNum_old
Prev   == IF Left THEN interrupt.D ELSE prevEventNum
Active == IF Left THEN interrupt.bool1 ELSE events_active

\* It processes the event of the entry At, or has done so.
Firing   == queued /\ pc \in {"event", "paused", "resumed", "remove"}
InUpdate == pc = "loop" \/ Firing
\* An event of the frame's own.
Aside    == ~queued /\ pc \in {"event", "paused", "resumed"}

\* The entries that are still to fire.
Waiting == {k \in Live : ~(Firing /\ k = At)}

-----------------------------------------------------------------------------
(* The invariant.                                                          *)

Locals == [A : Nat, B : Nat, C : Events \cup {NoEvent}, D : Nat, bool1 : BOOLEAN]

TypeOK ==
  /\ script \in Scripts
  /\ entry \in [Slot -> Entry]
  /\ newEventNum \in 0..MaxEvents
  /\ pc \in {"idle", "event", "paused", "resumed", "remove", "loop"}
  /\ index \in Events \cup {NoEvent}
  /\ queued \in BOOLEAN
  /\ A \in Nat /\ newEventNum_old \in Nat /\ prevEventNum \in Nat
  /\ events_active \in BOOLEAN
  /\ interrupt \in Locals
  /\ tickets \in 0..MaxTickets
  /\ fired \in [Ticket -> Nat]
  /\ cancelled \subseteq 1..tickets
  /\ clock \in Nat
  /\ due \in [Ticket -> Int]
  /\ moves \in [Ticket -> Nat]

\* Whose turn it is, and the event in hand.
Turn ==
  /\ pc = "idle" => ~queued
  /\ pc = "remove" => queued
  /\ pc = "resumed" => index \in Events
  /\ pc = "paused" => (IF queued THEN interrupt.C ELSE index) \in Events

\* Where the loop is; the entry that fires is due, and at most one successor
\* has been put behind what was there.
Places ==
  /\ pc = "loop" => 1 <= At /\ At <= Old + 1 /\ Old <= newEventNum
  /\ Firing =>
       /\ 1 <= At /\ At <= Old /\ Old <= Prev
       /\ entry[At].delay <= 0
       /\ ~Active => entry[At].delay < 0
       /\ \/ newEventNum = Prev
          \/ pc = "remove" /\ newEventNum = Prev + 1 /\ entry[newEventNum].delay > 0

\* The bound on the tickets leaves one to each entry the loop may still fire.
Budget ==
  /\ pc = "loop" =>
       tickets + (Old - At) + (IF At <= Old /\ entry[At].delay > 0 THEN 0 ELSE 1) <= MaxTickets
  /\ Firing =>
       tickets + (Old - At) + (IF newEventNum = Prev THEN 1 ELSE 0) <= MaxTickets
  /\ Aside => tickets < MaxTickets

\* The entries in use hold different tickets.
Different ==
  /\ \A k \in Live : entry[k].ticket \in 1..tickets
  /\ \A k, l \in Live : entry[k].ticket = entry[l].ticket => k = l

\* What has become of each ticket.
Kept ==
  /\ \A t \in Ticket : fired[t] <= 1
  /\ \A t \in Ticket : t > tickets => fired[t] = 0
  /\ \A t \in Ticket : fired[t] = 1 => t \notin cancelled
  /\ \A k \in Waiting : fired[entry[k].ticket] = 0 /\ entry[k].ticket \notin cancelled
  /\ Firing => fired[entry[At].ticket] = 1
  /\ \A t \in 1..tickets :
       fired[t] = 0 /\ t \notin cancelled => \E k \in Waiting : entry[k].ticket = t

\* The frame does not count the entry down any more: its delay starts with
\* the next one.
Done(k)  == ~InUpdate \/ k < At \/ k > Old \/ ~Active
Falls(k) == clock + entry[k].delay + (IF Done(k) THEN 1 ELSE 0)

\* The successor of a triggered event, put last, counts this frame.
Successors(k) == pc = "remove" /\ newEventNum = Prev + 1 /\ k = newEventNum
                 /\ entry[At].delay < 0 /\ Active

\* When each entry falls due.
InWindow(k, t) ==
  IF Successors(k) THEN due[t] = clock + entry[k].delay
  ELSE due[t] <= Falls(k) /\ Falls(k) <= due[t] + moves[t]

Windows == \A k \in Waiting : entry[k].delay >= 0 => InWindow(k, entry[k].ticket)

\* What the loop has passed, or will not reach, was not triggered directly.
Prompt ==
  InUpdate => \A k \in Waiting : k < At \/ k > Old => entry[k].delay >= 0

QueueInv == /\ TypeOK /\ Turn /\ Places /\ Budget
            /\ Different /\ Kept /\ Windows /\ Prompt

EventQueueInv == fix_event_swap_bug => QueueInv

-----------------------------------------------------------------------------
(* What the steps do to the queue and to the loop, wherever its locals are. *)

Same == /\ entry' = entry /\ newEventNum' = newEventNum /\ tickets' = tickets
        /\ due' = due /\ fired' = fired /\ cancelled' = cancelled
        /\ clock' = clock /\ moves' = moves

Stays == At' = At /\ Old' = Old /\ Prev' = Prev /\ Active' = Active

\* An entry with this delay, falling due then, is put in the queue, if it has room.
Puts(delay, from) ==
  \/ /\ newEventNum' = newEventNum /\ entry' = entry
     /\ tickets' = tickets /\ due' = due
  \/ /\ newEventNum' = newEventNum + 1 /\ newEventNum < MaxEvents
     /\ tickets' = tickets + 1 /\ tickets < MaxTickets
     /\ \A k \in 1..newEventNum : entry'[k] = entry[k]
     /\ entry'[newEventNum + 1].delay = delay
     /\ entry'[newEventNum + 1].ticket = tickets + 1
     /\ \A t \in 1..tickets : due'[t] = due[t]
     /\ due'[tickets + 1] = from

LEMMA PutPuts ==
  ASSUME TypeOK, tickets < MaxTickets,
         NEW event \in Events \cup {NoEvent}, NEW delay \in Int, NEW from \in Int,
         Put(event, delay, from)
  PROVE  /\ Puts(delay, from)
         /\ entry' \in [Slot -> Entry] /\ newEventNum' \in 0..MaxEvents
         /\ tickets' \in 0..MaxTickets /\ tickets <= tickets'
         /\ due' \in [Ticket -> Int]
<1> USE CapacityAssumption, BoundsAssumption
<1>1. CASE Room
  <2> DEFINE new == [event |-> event, delay |-> delay, ticket |-> tickets + 1]
  <2>1. /\ entry' = [entry EXCEPT ![newEventNum + 1] = new]
        /\ newEventNum' = newEventNum + 1 /\ newEventNum < MaxEvents
        /\ tickets' = tickets + 1
        /\ due' = [due EXCEPT ![tickets + 1] = from]
    BY <1>1 DEF Put, Frames, Room
  <2>2. new \in Entry /\ new.delay = delay /\ new.ticket = tickets + 1
    BY DEF Entry, TypeOK
  <2> HIDE DEF new
  <2>3. newEventNum + 1 \in Slot /\ tickets + 1 \in Ticket /\ 1..newEventNum \subseteq Slot
        /\ 1..tickets \subseteq Ticket
    BY <2>1 DEF Slot, Ticket, TypeOK
  <2>4. entry' \in [Slot -> Entry] /\ due' \in [Ticket -> Int]
    BY <2>1, <2>2, <2>3 DEF TypeOK
  <2>5. /\ entry'[newEventNum + 1] = new
        /\ \A k \in 1..newEventNum : entry'[k] = entry[k]
    BY <2>1, <2>3 DEF TypeOK
  <2>6. /\ due'[tickets + 1] = from
        /\ \A t \in 1..tickets : due'[t] = due[t]
    BY <2>1, <2>3 DEF TypeOK
  <2> QED BY <2>1, <2>2, <2>4, <2>5, <2>6 DEF Puts, TypeOK
<1>2. CASE ~Room
  BY <1>2 DEF Put, Puts, TypeOK, queue, ghosts
<1> QED BY <1>1, <1>2

LEMMA LocalsType ==
  ASSUME TypeOK
  PROVE  At \in Nat /\ Old \in Nat /\ Prev \in Nat /\ Active \in BOOLEAN
BY DEF TypeOK, Locals, At, Old, Prev, Active

LEMMA ScriptType ==
  ASSUME TypeOK, NEW e \in Events
  PROVE  script[e].next \in Events \cup {NoEvent} /\ script[e].delay \in Nat
BY ScriptsAssumption DEF TypeOK

\* Message, Resume and Chain: inside an event.
Inside ==
  /\ Same /\ Stays
  /\ queued' = queued
  /\ pc \in {"event", "paused", "resumed"} /\ pc' \in {"event", "paused", "resumed"}

LEMMA MessageInside ==
  ASSUME Message
  PROVE  Inside
<1>1. pc = "event" /\ pc' = "paused" /\ queued' = queued
  BY DEF Message
<1>2. Same
  BY DEF Message, Same, queue, ghosts
<1>3. CASE queued
  <2>1. /\ interrupt'.A = A /\ interrupt'.B = newEventNum_old
        /\ interrupt'.D = prevEventNum /\ interrupt'.bool1 = events_active
    BY <1>3 DEF Message
  <2> QED BY <1>1, <1>2, <1>3, <2>1 DEF Inside, Stays, Left, At, Old, Prev, Active
<1>4. CASE ~queued
  <2>1. /\ A' = A /\ newEventNum_old' = newEventNum_old
        /\ prevEventNum' = prevEventNum /\ events_active' = events_active
    BY <1>4 DEF Message, locals
  <2> QED BY <1>1, <1>2, <1>4, <2>1 DEF Inside, Stays, Left, At, Old, Prev, Active
<1> QED BY <1>3, <1>4

LEMMA ResumeInside ==
  ASSUME Resume
  PROVE  Inside
<1>1. pc = "paused" /\ pc' = "resumed" /\ queued' = queued
  BY DEF Resume
<1>2. Same
  BY DEF Resume, Same, queue, ghosts
<1>3. CASE queued
  BY <1>1, <1>2, <1>3 DEF Resume, Inside, Stays, Left, At, Old, Prev, Active
<1>4. CASE ~queued
  BY <1>1, <1>2, <1>4 DEF Resume, locals, Inside, Stays, Left, At, Old, Prev, Active
<1> QED BY <1>3, <1>4

LEMMA ChainInside ==
  ASSUME Chain
  PROVE  Inside
BY DEF Chain, InSecondHalf, Inside, Same, Stays, queue, ghosts, locals, Left, At, Old, Prev, Active

\* Delay and NoSuccessor: the end of an event.
Returns ==
  /\ Stays
  /\ queued' = queued
  /\ pc \in {"event", "resumed"}
  /\ pc' = IF queued THEN "remove" ELSE "idle"
  /\ fired' = fired /\ cancelled' = cancelled /\ clock' = clock /\ moves' = moves

DelayFrom(delay) == clock + delay + (IF Firing /\ entry[At].delay < 0 /\ Active THEN 0 ELSE 1)

LEMMA DelayReturns ==
  ASSUME Delay
  PROVE  /\ Returns
         /\ Put(Successor, script[index].delay, DelayFrom(script[index].delay))
         /\ script[index].delay > 0
<1>1. Returns
  BY DEF Delay, Return, InSecondHalf, Returns, Stays, locals, Left, At, Old, Prev, Active
<1>2. (Triggered /\ events_active) <=> (Firing /\ entry[At].delay < 0 /\ Active)
  BY DEF Delay, Triggered, InSecondHalf, Firing, At, Active, Left
<1> QED BY <1>1, <1>2 DEF Delay, DelayFrom

LEMMA NoSuccessorReturns ==
  ASSUME NoSuccessor
  PROVE  Returns /\ Same
BY DEF NoSuccessor, Return, InSecondHalf, Returns, Same, Stays, queue, ghosts, locals, Left, At, Old, Prev, Active

\* CancelNewEvent: what stays is there once, wherever it is now.
Cancels ==
  \E gone \in SUBSET Live : \E src \in [1..newEventNum' -> Live \ gone] :
    /\ \A k \in 1..newEventNum' : entry'[k] = entry[src[k]]
    /\ \A k, l \in 1..newEventNum' : src[k] = src[l] => k = l
    /\ \A j \in Live \ gone : \E k \in 1..newEventNum' : src[k] = j
    /\ cancelled' = cancelled \cup {entry[k].ticket : k \in gone}

LEMMA CancelCancels ==
  ASSUME TypeOK, CancelNewEvent
  PROVE  Cancels /\ newEventNum' \in 0..newEventNum /\ entry' \in [Slot -> Entry]
<1>1. PICK i \in Live :
       LET e     == entry[i].event
           gone  == {k \in 1..newEventNum : entry[k].event = e}
           stays == (1..newEventNum) \ gone
           num   == Cardinality(stays)
           gaps  == gone \cap (1..num)
           tail  == stays \ (1..num)
       IN /\ newEventNum' = num
          /\ \E fill \in [gaps -> tail] :
               /\ \A g, h \in gaps : g < h => fill[g] > fill[h]
               /\ entry' = [k \in Slot |-> IF k \in gaps THEN entry[fill[k]] ELSE entry[k]]
          /\ cancelled' = cancelled \cup {entry[k].ticket : k \in gone}
  BY DEF CancelNewEvent, Live
<1> DEFINE gone  == {k \in 1..newEventNum : entry[k].event = entry[i].event}
           stays == (1..newEventNum) \ gone
           num   == Cardinality(stays)
           gaps  == gone \cap (1..num)
           tail  == stays \ (1..num)
<1>2. /\ newEventNum' = num
      /\ cancelled' = cancelled \cup {entry[k].ticket : k \in gone}
  BY <1>1
<1>3. PICK fill \in [gaps -> tail] :
        /\ \A g, h \in gaps : g < h => fill[g] > fill[h]
        /\ entry' = [k \in Slot |-> IF k \in gaps THEN entry[fill[k]] ELSE entry[k]]
  BY <1>1
<1>4. gone \in SUBSET Live /\ stays = Live \ gone
  BY DEF Live
<1>5. newEventNum \in Nat /\ newEventNum <= MaxEvents /\ MaxEvents \in Nat
  BY CapacityAssumption DEF TypeOK
<1>6. IsFiniteSet(1..newEventNum) /\ Cardinality(1..newEventNum) = newEventNum
  BY <1>5, FS_Interval
<1>7. IsFiniteSet(stays) /\ num \in Nat /\ num <= newEventNum
  <2>1. stays \subseteq 1..newEventNum
    OBVIOUS
  <2>2. IsFiniteSet(stays) /\ num <= Cardinality(1..newEventNum)
    BY <2>1, <1>6, FS_Subset
  <2> QED BY <2>2, <1>6, FS_CardinalityType
<1>8. num \in 0..newEventNum
  BY <1>5, <1>7
<1>9. IsFiniteSet(1..num) /\ Cardinality(1..num) = Cardinality(stays)
  BY <1>7, FS_Interval
<1> DEFINE src == [k \in 1..num |-> IF k \in gaps THEN fill[k] ELSE k]
<1>10. gone \subseteq 1..newEventNum /\ stays = (1..newEventNum) \ gone /\ stays \subseteq 1..newEventNum
  OBVIOUS
<1> HIDE DEF num, gone, stays
<1>11. src \in [1..num -> stays]
  <2> SUFFICES ASSUME NEW k \in 1..num
               PROVE  (IF k \in gaps THEN fill[k] ELSE k) \in stays
    OBVIOUS
  <2>1. CASE k \in gaps
    BY <2>1, <1>3
  <2>2. CASE k \notin gaps
    BY <2>2, <1>5, <1>8, <1>10
  <2> QED BY <2>1, <2>2
<1>12. \A k, l \in 1..num : src[k] = src[l] => k = l
  <2> SUFFICES ASSUME NEW k \in 1..num, NEW l \in 1..num, src[k] = src[l], k # l
               PROVE  FALSE
    OBVIOUS
  <2>1. CASE k \in gaps /\ l \in gaps
    <3>1. fill[k] = fill[l] /\ fill[k] \in stays /\ fill[k] \in Int
      BY <2>1, <1>3, <1>10
    <3>2. k < l \/ l < k
      BY <1>8
    <3> QED BY <3>1, <3>2, <2>1, <1>3
  <2>2. CASE k \in gaps /\ l \notin gaps
    BY <2>2, <1>3
  <2>3. CASE k \notin gaps /\ l \in gaps
    BY <2>3, <1>3
  <2>4. CASE k \notin gaps /\ l \notin gaps
    BY <2>4
  <2> QED BY <2>1, <2>2, <2>3, <2>4
<1>13. src \in Injection(1..num, stays)
  BY <1>11, <1>12 DEF Injection, IsInjective
<1>14. src \in Surjection(1..num, stays)
  BY <1>7, <1>9, <1>13, FS_Injection
<1>15. \A j \in stays : \E k \in 1..num : src[k] = j
  BY <1>14 DEF Surjection
<1>16. 1..num \subseteq Slot /\ stays \subseteq Slot
  BY <1>5, <1>8, <1>10 DEF Slot
<1>17. \A k \in 1..num : entry'[k] = entry[src[k]]
  BY <1>3, <1>16
<1>18. entry' \in [Slot -> Entry]
  <2>1. \A k \in gaps : fill[k] \in Slot
    BY <1>3, <1>16
  <2> HIDE DEF gaps
  <2> QED BY <2>1, <1>3 DEF TypeOK
<1>19. Cancels
  <2> HIDE DEF src
  <2>1. src \in [1..newEventNum' -> Live \ gone]
    BY <1>2, <1>4, <1>11
  <2>2. /\ \A k \in 1..newEventNum' : entry'[k] = entry[src[k]]
        /\ \A k, l \in 1..newEventNum' : src[k] = src[l] => k = l
    BY <1>2, <1>12, <1>17
  <2>3. \A j \in Live \ gone : \E k \in 1..newEventNum' : src[k] = j
    BY <1>2, <1>4, <1>15
  <2>4. gone \in SUBSET Live
    BY <1>4
  <2> QED BY <2>1, <2>2, <2>3, <2>4, <1>2, Zenon DEF Cancels
<1> QED BY <1>2, <1>8, <1>18, <1>19

\* The steps of the loop.
LEMMA UpdateEventsDoes ==
  ASSUME UpdateEvents, Turn
  PROVE  /\ pc = "idle" /\ pc' = "loop" /\ ~queued /\ ~queued'
         /\ At' = 1 /\ Old' = newEventNum /\ Active' \in BOOLEAN
         /\ clock' = (IF Active' THEN clock + 1 ELSE clock)
         /\ tickets + newEventNum <= MaxTickets
         /\ entry' = entry /\ newEventNum' = newEventNum /\ tickets' = tickets
         /\ due' = due /\ fired' = fired /\ cancelled' = cancelled /\ moves' = moves
BY DEF UpdateEvents, Turn, At, Old, Active, Left, queue, ghosts

LEMMA CountDownDoes ==
  ASSUME CountDown, TypeOK, Places
  PROVE  /\ pc = "loop" /\ pc' = "loop" /\ At \in Live /\ At <= Old
         /\ Active /\ Active' /\ At' = At + 1 /\ Old' = Old
         /\ entry[At].delay > 0
         /\ \A k \in Live : /\ entry'[k].ticket = entry[k].ticket
                            /\ entry'[k].delay = entry[k].delay - (IF k = At THEN 1 ELSE 0)
         /\ newEventNum' = newEventNum /\ tickets' = tickets
         /\ due' = due /\ fired' = fired /\ cancelled' = cancelled
         /\ clock' = clock /\ moves' = moves
         /\ entry' \in [Slot -> Entry]
<1>1. /\ pc = "loop" /\ pc' = "loop" /\ At = A /\ Old = newEventNum_old
      /\ At <= Old /\ Active /\ Active' /\ At' = At + 1 /\ Old' = Old
      /\ entry[A].delay > 0
      /\ entry' = [entry EXCEPT ![A].delay = @ - 1]
  BY DEF CountDown, InLoop, At, Old, Active, Left
<1>2. A \in Live /\ Live \subseteq Slot
  BY <1>1, CapacityAssumption DEF Places, TypeOK, Live, Slot
<1>3. entry[A] \in Entry
  BY <1>2 DEF TypeOK
<1>4. entry' = [entry EXCEPT ![A] = [entry[A] EXCEPT !.delay = @ - 1]]
  BY <1>1
<1>5. [entry[A] EXCEPT !.delay = @ - 1] \in Entry
  BY <1>3 DEF Entry
<1>6. entry' \in [Slot -> Entry]
  BY <1>2, <1>4, <1>5 DEF TypeOK
<1>7. /\ entry'[A].ticket = entry[A].ticket /\ entry'[A].delay = entry[A].delay - 1
      /\ \A k \in Live : k # A => entry'[k] = entry[k]
  BY <1>2, <1>3, <1>4 DEF TypeOK, Entry
<1>8. \A k \in Live : /\ entry'[k].ticket = entry[k].ticket
                      /\ entry'[k].delay = entry[k].delay - (IF k = At THEN 1 ELSE 0)
  <2>1. \A k \in Live : entry[k].delay \in Int
    BY <1>2 DEF TypeOK, Entry
  <2> QED BY <1>1, <1>7, <2>1
<1> QED BY <1>1, <1>2, <1>6, <1>8 DEF CountDown, ghosts

LEMMA FrozenDoes ==
  ASSUME Frozen, TypeOK, Places
  PROVE  /\ pc = "loop" /\ pc' = "loop" /\ At \in Live /\ At <= Old
         /\ ~Active /\ ~Active' /\ At' = At + 1 /\ Old' = Old
         /\ entry[At].delay >= 0 /\ Same
<1>1. /\ pc = "loop" /\ pc' = "loop" /\ At = A /\ Old = newEventNum_old
      /\ At <= Old /\ ~Active /\ ~Active' /\ At' = At + 1 /\ Old' = Old
      /\ ~(entry[A].delay < 0)
  BY DEF Frozen, InLoop, Ready, At, Old, Active, Left
<1>2. A \in Live /\ Live \subseteq Slot
  BY <1>1, CapacityAssumption DEF Places, TypeOK, Live, Slot
<1>3. entry[A].delay \in Int
  BY <1>2 DEF TypeOK, Entry
<1>4. Same
  BY DEF Frozen, Same, queue, ghosts
<1> QED BY <1>1, <1>2, <1>3, <1>4

LEMMA FireDoes ==
  ASSUME Fire, TypeOK, Places
  PROVE  /\ pc = "loop" /\ pc' = "event" /\ queued' /\ At \in Live /\ At <= Old
         /\ Active' = Active /\ At' = At /\ Old' = Old /\ Prev' = newEventNum
         /\ entry[At].delay <= 0 /\ (~Active => entry[At].delay < 0)
         /\ entry' = entry /\ newEventNum' = newEventNum /\ tickets' = tickets
         /\ cancelled' = cancelled /\ clock' = clock
         /\ fired' = [fired EXCEPT ![entry[At].ticket] = @ + 1]
         /\ due' = [due EXCEPT ![entry[At].ticket] = 0]
         /\ moves' = [moves EXCEPT ![entry[At].ticket] = 0]
<1>1. /\ pc = "loop" /\ pc' = "event" /\ queued' /\ At = A /\ Old = newEventNum_old
      /\ At <= Old /\ At' = At /\ Old' = Old /\ Prev' = newEventNum /\ Active' = Active
      /\ fired' = [fired EXCEPT ![entry[A].ticket] = @ + 1]
      /\ due' = [due EXCEPT ![entry[A].ticket] = 0]
      /\ moves' = [moves EXCEPT ![entry[A].ticket] = 0]
      /\ ~(entry[A].delay > 0 /\ Active) /\ (Active \/ entry[A].delay < 0)
  BY DEF Fire, InLoop, Ready, At, Old, Prev, Active, Left
<1>2. A \in Live /\ Live \subseteq Slot
  BY <1>1, CapacityAssumption DEF Places, TypeOK, Live, Slot
<1>3. entry[A].delay \in Int
  BY <1>2 DEF TypeOK, Entry
<1>4. entry' = entry /\ newEventNum' = newEventNum /\ tickets' = tickets
      /\ cancelled' = cancelled /\ clock' = clock
  BY DEF Fire, queue
<1> QED BY <1>1, <1>2, <1>3, <1>4

LEMMA EndLoopDoes ==
  ASSUME EndLoop
  PROVE  /\ pc = "loop" /\ pc' = "idle" /\ ~queued' /\ At > Old /\ Same
BY DEF EndLoop, At, Old, Left, Same, queue, ghosts

\* The three ways the loop goes on after an entry has fired.
Again   == /\ entry[At].delay < 0 /\ newEventNum' = Prev
           /\ At' = At /\ Old' = Old
Shorter == /\ newEventNum' < Old /\ newEventNum' # Prev
           /\ At' = (IF entry[newEventNum].delay <= 0 THEN At ELSE At + 1)
           /\ Old' = Old - 1
Further == /\ newEventNum' >= Old
           /\ (entry[At].delay < 0 => newEventNum' # Prev)
           /\ At' = At + 1 /\ Old' = Old

LEMMA RemoveDoes ==
  ASSUME Remove, TypeOK, Turn, Places, fix_event_swap_bug
  PROVE  /\ pc = "remove" /\ pc' = "loop" /\ Firing /\ At \in Live
         /\ newEventNum \in Live
         /\ Active' = Active
         /\ newEventNum' = newEventNum - 1
         /\ entry' \in [Slot -> Entry]
         /\ entry'[At] = entry[newEventNum]
         /\ \A k \in Live : k # At => entry'[k] = entry[k]
         /\ tickets' = tickets /\ due' = due /\ fired' = fired
         /\ cancelled' = cancelled /\ clock' = clock
         /\ moves' = IF newEventNum = At THEN moves
                     ELSE [moves EXCEPT ![entry[newEventNum].ticket] = @ + 1]
         /\ Again \/ Shorter \/ Further
<1>1. /\ pc = "remove" /\ pc' = "loop" /\ queued /\ At = A /\ Old = newEventNum_old
      /\ Prev = prevEventNum /\ Active' = Active /\ At' = A' /\ Old' = newEventNum_old'
      /\ newEventNum' = newEventNum - 1
      /\ entry' = [entry EXCEPT ![A] = entry[newEventNum]]
  BY DEF Remove, Turn, At, Old, Prev, Active, Left
<1>2. Firing
  BY <1>1 DEF Firing
<1>3. 1 <= At /\ At <= Old /\ Old <= Prev /\ Prev <= newEventNum
      /\ At \in Nat /\ Old \in Nat /\ Prev \in Nat /\ newEventNum \in Nat
      /\ newEventNum <= Prev + 1 /\ newEventNum <= MaxEvents /\ MaxEvents \in Nat
  <2>1. At \in Nat /\ Old \in Nat /\ Prev \in Nat /\ newEventNum \in Nat
    BY <1>1, CapacityAssumption DEF TypeOK
  <2> QED BY <1>2, <2>1, CapacityAssumption DEF Places, TypeOK
<1>4. At \in Live /\ newEventNum \in Live /\ Live \subseteq Slot
  BY <1>3 DEF Live, Slot
<1>5. /\ entry' \in [Slot -> Entry] /\ entry'[At] = entry[newEventNum]
      /\ \A k \in Live : k # At => entry'[k] = entry[k]
  BY <1>1, <1>4 DEF TypeOK
<1>6. Again \/ Shorter \/ Further
  <2>1. CASE event_triggered /\ newEventNum' = prevEventNum
    BY <1>1, <2>1 DEF Remove, event_triggered, Again
  <2>2. CASE ~(event_triggered /\ newEventNum' = prevEventNum) /\ newEventNum' < newEventNum_old
    <3>1. newEventNum' # Prev
      BY <2>2, <1>1, <1>3
    <3>2. /\ A' = IF entry'[A].delay <= 0 THEN A ELSE A + 1
          /\ newEventNum_old' = newEventNum_old - 1
      BY <2>2, <1>1 DEF Remove, SwapFixed
    <3> QED BY <2>2, <3>1, <3>2, <1>1, <1>5 DEF Shorter
  <2>3. CASE ~(event_triggered /\ newEventNum' = prevEventNum) /\ ~(newEventNum' < newEventNum_old)
    <3>1. A' = A + 1 /\ newEventNum_old' = newEventNum_old
      BY <2>3, <1>1 DEF Remove, SwapFixed
    <3>2. newEventNum' >= Old
      BY <2>3, <1>1, <1>3
    <3> QED BY <2>3, <3>1, <3>2, <1>1 DEF Further, event_triggered
  <2> QED BY <2>1, <2>2, <2>3
<1>7. /\ tickets' = tickets /\ due' = due /\ fired' = fired
      /\ cancelled' = cancelled /\ clock' = clock
      /\ moves' = IF newEventNum = At THEN moves
                  ELSE [moves EXCEPT ![entry[newEventNum].ticket] = @ + 1]
  BY <1>1 DEF Remove, ghosts
<1> QED BY <1>1, <1>2, <1>4, <1>5, <1>6, <1>7

-----------------------------------------------------------------------------
(* Types, turns and places.                                                *)

LEMMA InitInv ==
  ASSUME Init
  PROVE  QueueInv
<1> USE CapacityAssumption, BoundsAssumption
<1>1. NoEntry \in Entry /\ NoInterrupt \in Locals
  BY DEF NoEntry, Entry, NoInterrupt, Locals
<1>2. ~Firing /\ ~InUpdate /\ ~Aside /\ newEventNum = 0 /\ tickets = 0
  BY DEF Init, Firing, InUpdate, Aside
<1>3. TypeOK
  <2>1. entry \in [Slot -> Entry] /\ interrupt \in Locals /\ script \in Scripts
    BY <1>1 DEF Init
  <2>2. fired \in [Ticket -> Nat] /\ due \in [Ticket -> Int] /\ moves \in [Ticket -> Nat]
    BY DEF Init
  <2>3. newEventNum \in 0..MaxEvents /\ tickets \in 0..MaxTickets /\ cancelled \subseteq 1..tickets
    BY <1>2 DEF Init
  <2> QED BY <2>1, <2>2, <2>3 DEF Init, TypeOK
<1>4. Live = {} /\ Waiting = {} /\ 1..tickets = {}
  BY <1>2 DEF Live, Waiting
<1>5. Turn /\ Places /\ Budget
  BY <1>2 DEF Init, Turn, Places, Budget
<1>6. \A t \in Ticket : fired[t] = 0
  BY DEF Init
<1>7. Different
  BY <1>4, Zenon DEF Different
<1>8. Kept
  BY <1>2, <1>4, <1>6 DEF Kept, Init
<1>9. Windows /\ Prompt
  BY <1>2, <1>4 DEF Windows, Prompt
<1> QED BY <1>3, <1>5, <1>7, <1>8, <1>9 DEF QueueInv

\* There is a ticket left for a successor.
LEMMA TicketLeft ==
  ASSUME TypeOK, Places, Budget, pc \in {"event", "resumed"}
  PROVE  tickets < MaxTickets
<1>1. CASE queued
  <2>1. Firing /\ pc # "remove"
    BY <1>1 DEF Firing
  <2>2. newEventNum = Prev /\ At <= Old /\ At \in Nat /\ Old \in Nat
    BY <2>1, LocalsType DEF Places
  <2> QED BY <2>1, <2>2, BoundsAssumption DEF Budget, TypeOK
<1>2. CASE ~queued
  BY <1>2 DEF Aside, Budget
<1> QED BY <1>1, <1>2

LEMMA DelayPuts ==
  ASSUME Delay, TypeOK, Turn, Places, Budget
  PROVE  /\ Returns
         /\ \E delay \in Nat \ {0} : Puts(delay, DelayFrom(delay))
         /\ entry' \in [Slot -> Entry] /\ newEventNum' \in 0..MaxEvents
         /\ tickets' \in 0..MaxTickets /\ tickets <= tickets'
         /\ due' \in [Ticket -> Int]
<1>1. index \in Events /\ pc \in {"event", "resumed"}
  BY DEF Delay, InSecondHalf, Turn, TypeOK
<1>2. tickets < MaxTickets
  BY <1>1, TicketLeft
<1> DEFINE delay == script[index].delay
<1>3. delay \in Nat \ {0} /\ Successor \in Events \cup {NoEvent}
  BY <1>1, ScriptType, DelayReturns DEF Successor
<1>4. DelayFrom(delay) \in Int
  BY <1>3 DEF DelayFrom, TypeOK
<1>5. Put(Successor, delay, DelayFrom(delay)) /\ Returns
  BY DelayReturns
<1> HIDE DEF delay
<1> QED BY <1>2, <1>3, <1>4, <1>5, PutPuts

LEMMA TriggerPuts ==
  ASSUME TriggerEvent, TypeOK
  PROVE  /\ Puts(-1, clock)
         /\ entry' \in [Slot -> Entry] /\ newEventNum' \in 0..MaxEvents
         /\ tickets' \in 0..MaxTickets /\ tickets <= tickets'
         /\ due' \in [Ticket -> Int]
<1>1. PICK e \in Events \cup {NoEvent} : Put(e, -1, clock)
  BY EventsAssumption DEF TriggerEvent
<1>2. tickets < MaxTickets /\ clock \in Int /\ -1 \in Int
  BY DEF TriggerEvent, TypeOK
<1> QED BY <1>1, <1>2, PutPuts

\* What a step may do to the arrays.
LEMMA ArraysType ==
  ASSUME TypeOK, Turn, Places, Budget, Next, fix_event_swap_bug
  PROVE  /\ entry' \in [Slot -> Entry] /\ newEventNum' \in 0..MaxEvents
         /\ tickets' \in 0..MaxTickets /\ tickets <= tickets'
         /\ due' \in [Ticket -> Int]
<1> USE CapacityAssumption, BoundsAssumption
<1>1. tickets <= tickets
  BY DEF TypeOK
<1>2. CASE TriggerEvent
  BY <1>2, TriggerPuts
<1>3. CASE CancelNewEvent
  <2>1. newEventNum' \in 0..newEventNum
    BY <1>3, CancelCancels
  <2>2. newEventNum' \in 0..MaxEvents
    BY <2>1 DEF TypeOK
  <2>3. tickets' = tickets /\ due' \in [Ticket -> Int]
    BY <1>3 DEF CancelNewEvent, TypeOK
  <2> QED BY <1>1, <1>3, <2>2, <2>3, CancelCancels DEF TypeOK
<1>4. CASE ProcEvent
  BY <1>1, <1>4 DEF ProcEvent, queue, ghosts, TypeOK
<1>5. CASE Message \/ Resume \/ Chain
  BY <1>1, <1>5 DEF Message, Resume, Chain, queue, ghosts, TypeOK
<1>6. CASE Delay
  BY <1>6, DelayPuts
<1>7. CASE NoSuccessor
  BY <1>1, <1>7 DEF NoSuccessor, queue, ghosts, TypeOK
<1>8. CASE UpdateEvents
  BY <1>1, <1>8 DEF UpdateEvents, queue, ghosts, TypeOK
<1>9. CASE CountDown
  BY <1>1, <1>9, CountDownDoes DEF TypeOK
<1>10. CASE Frozen
  BY <1>1, <1>10 DEF Frozen, queue, ghosts, TypeOK
<1>11. CASE Fire
  <2>1. due' = [due EXCEPT ![entry[A].ticket] = 0] /\ due \in [Ticket -> Int] /\ 0 \in Int
    BY <1>11 DEF Fire, TypeOK
  <2>2. due' \in [Ticket -> Int]
    BY <2>1
  <2> QED BY <1>1, <1>11, <2>2 DEF Fire, queue, TypeOK
<1>12. CASE Remove
  <2>1. newEventNum' \in 0..MaxEvents
    BY <1>12, RemoveDoes DEF TypeOK, Live
  <2> QED BY <1>1, <1>12, <2>1, RemoveDoes DEF TypeOK
<1>13. CASE EndLoop
  BY <1>1, <1>13 DEF EndLoop, queue, ghosts, TypeOK
<1> QED BY <1>2, <1>3, <1>4, <1>5, <1>6, <1>7, <1>8, <1>9, <1>10, <1>11, <1>12, <1>13
        DEF Next, FrameLogic, EventStep, LoopStep

\* ... to the locals and where they are kept ...
LEMMA ControlType ==
  ASSUME TypeOK, Turn, Places, Next
  PROVE  /\ script' = script /\ fix_event_swap_bug' = fix_event_swap_bug
         /\ pc' \in {"idle", "event", "paused", "resumed", "remove", "loop"}
         /\ index' \in Events \cup {NoEvent}
         /\ queued' \in BOOLEAN
         /\ Turn'
<1>1. CASE TriggerEvent \/ CancelNewEvent
  <2>1. pc = "idle" /\ pc' = "idle" /\ index' = index /\ queued' = queued
        /\ script' = script /\ fix_event_swap_bug' = fix_event_swap_bug
    BY <1>1 DEF TriggerEvent, CancelNewEvent, level
  <2> QED BY <2>1 DEF TypeOK, Turn
<1>9. CASE ProcEvent
  BY <1>9, EventsAssumption DEF ProcEvent, level, TypeOK, Turn
<1>2. CASE Message
  <2>1. index \in Events /\ index' = index /\ queued' = queued /\ pc' = "paused"
        /\ script' = script /\ fix_event_swap_bug' = fix_event_swap_bug
    BY <1>2 DEF Message, level, TypeOK
  <2>2. queued' => interrupt'.C = index
    BY <1>2 DEF Message
  <2> QED BY <2>1, <2>2 DEF TypeOK, Turn
<1>3. CASE Resume
  <2>1. pc' = "resumed" /\ queued' = queued /\ index' \in Events
        /\ script' = script /\ fix_event_swap_bug' = fix_event_swap_bug
    BY <1>3 DEF Resume, Turn, level
  <2> QED BY <2>1 DEF TypeOK, Turn
<1>4. CASE Chain
  <2>1. index \in Events
    BY <1>4 DEF Chain, InSecondHalf, Turn, TypeOK
  <2> QED BY <1>4, <2>1, ScriptType DEF Chain, level, Successor, TypeOK, Turn
<1>5. CASE Delay \/ NoSuccessor
  BY <1>5 DEF Delay, NoSuccessor, Return, level, TypeOK, Turn
<1>6. CASE UpdateEvents \/ EndLoop
  BY <1>6 DEF UpdateEvents, EndLoop, level, TypeOK, Turn
<1>7. CASE CountDown \/ Frozen \/ Remove
  BY <1>7 DEF CountDown, Frozen, Remove, InLoop, level, queue, TypeOK, Turn
<1>8. CASE Fire
  <2>1. A \in Slot
    BY <1>8, FireDoes, CapacityAssumption DEF Fire, InLoop, At, Left, Live, Slot, TypeOK
  <2>2. entry[A].event \in Events \cup {NoEvent}
    BY <2>1 DEF TypeOK, Entry
  <2> QED BY <1>8, <2>2 DEF Fire, level, TypeOK, Turn
<1> QED BY <1>1, <1>2, <1>3, <1>4, <1>5, <1>6, <1>7, <1>8, <1>9
        DEF Next, FrameLogic, EventStep, LoopStep

LEMMA ArithType ==
  ASSUME TypeOK
  PROVE  /\ newEventNum \in Nat /\ newEventNum <= MaxEvents /\ MaxEvents \in Nat
         /\ tickets \in Nat /\ tickets <= MaxTickets /\ MaxTickets \in Nat
         /\ \A k \in Live : /\ k \in Slot /\ k \in Nat /\ entry[k].delay \in Int
                            /\ entry[k].ticket \in Nat
BY CapacityAssumption, BoundsAssumption DEF TypeOK, Live, Slot, Entry

LEMMA LocalsStep ==
  ASSUME TypeOK, Turn, Places, Next, fix_event_swap_bug
  PROVE  /\ A' \in Nat /\ newEventNum_old' \in Nat /\ prevEventNum' \in Nat
         /\ events_active' \in BOOLEAN
         /\ interrupt' \in Locals
<1>1. NoInterrupt \in Locals
  BY DEF NoInterrupt, Locals
<1>2. CASE TriggerEvent \/ CancelNewEvent \/ ProcEvent \/ Chain \/ Delay \/ NoSuccessor
  <2>1. /\ A' = A /\ newEventNum_old' = newEventNum_old /\ prevEventNum' = prevEventNum
        /\ events_active' = events_active /\ interrupt' = interrupt
    BY <1>2 DEF TriggerEvent, CancelNewEvent, ProcEvent, Chain, Delay, NoSuccessor, locals
  <2> QED BY <2>1 DEF TypeOK
<1>3. CASE Message
  <2>1. CASE queued
    <3> DEFINE held == [A |-> A, B |-> newEventNum_old, C |-> index,
                        D |-> prevEventNum, bool1 |-> events_active]
    <3>1. held \in Locals
      BY DEF TypeOK, Locals
    <3>2. interrupt' = held /\ NoLocals
      BY <1>3, <2>1 DEF Message
    <3> HIDE DEF held
    <3> QED BY <3>1, <3>2 DEF NoLocals
  <2>2. CASE ~queued
    BY <1>3, <2>2 DEF Message, locals, TypeOK
  <2> QED BY <2>1, <2>2
<1>4. CASE Resume
  <2>1. /\ interrupt.A \in Nat /\ interrupt.B \in Nat /\ interrupt.D \in Nat
        /\ interrupt.bool1 \in BOOLEAN
    BY DEF TypeOK, Locals
  <2>2. interrupt' \in Locals
    BY <1>1, <1>4 DEF Resume
  <2>3. CASE queued
    BY <1>4, <2>1, <2>2, <2>3 DEF Resume
  <2>4. CASE ~queued
    <3>1. /\ A' = A /\ newEventNum_old' = newEventNum_old /\ prevEventNum' = prevEventNum
          /\ events_active' = events_active
      BY <1>4, <2>4 DEF Resume, locals
    <3> QED BY <2>2, <3>1 DEF TypeOK
  <2> QED BY <2>3, <2>4
<1>5. CASE UpdateEvents \/ EndLoop
  <2>1. /\ A' \in {0, 1} /\ newEventNum_old' \in {0, newEventNum}
        /\ prevEventNum' \in {0, prevEventNum} /\ interrupt' = interrupt
    BY <1>5 DEF UpdateEvents, EndLoop, NoLocals
  <2>2. events_active' \in BOOLEAN
    BY <1>5 DEF UpdateEvents, EndLoop, NoLocals
  <2> QED BY <2>1, <2>2, ArithType DEF TypeOK
<1>6. CASE CountDown \/ Frozen \/ Fire
  BY <1>6 DEF CountDown, Frozen, Fire, TypeOK
<1>7. CASE Remove
  <2>1. newEventNum_old >= 1
    BY <1>7, RemoveDoes, LocalsType DEF Places, Remove, Turn, Old, Left
  <2> QED BY <1>7, <2>1 DEF Remove, TypeOK
<1> QED BY <1>2, <1>3, <1>4, <1>5, <1>6, <1>7
        DEF Next, FrameLogic, EventStep, LoopStep

LEMMA CancelledStep ==
  ASSUME TypeOK, Turn, Places, Budget, Different, CancelNewEvent
  PROVE  cancelled' \subseteq 1..tickets'
<1>1. PICK gone \in SUBSET Live :
        cancelled' = cancelled \cup {entry[k].ticket : k \in gone}
  BY CancelCancels DEF Cancels
<1>2. tickets' = tickets
  BY DEF CancelNewEvent, ghosts
<1> QED BY <1>1, <1>2 DEF Different, TypeOK

LEMMA TypeStep ==
  ASSUME TypeOK, Turn, Places, Budget, Different, Next, fix_event_swap_bug
  PROVE  TypeOK'
<1>1. CASE CancelNewEvent
  <2>1. /\ fired' = fired /\ clock' = clock /\ moves' \in [Ticket -> Nat]
    BY <1>1 DEF CancelNewEvent, TypeOK
  <2> QED BY <1>1, <2>1, ArraysType, ControlType, LocalsStep, CancelledStep DEF TypeOK
<1>2. CASE ~CancelNewEvent
  <2>1. cancelled' \subseteq 1..tickets'
    <3>1. cancelled' = cancelled
      BY <1>2 DEF Next, FrameLogic, EventStep, LoopStep, TriggerEvent, ProcEvent, Message,
         Resume, Chain, Delay, NoSuccessor, UpdateEvents, CountDown, Frozen, Fire, Remove, EndLoop
    <3>2. tickets' \in Nat /\ tickets <= tickets' /\ tickets \in Nat
      BY ArraysType, BoundsAssumption DEF TypeOK
    <3> QED BY <3>1, <3>2 DEF TypeOK
  <2>2. clock' \in Nat
    <3>1. clock' = clock \/ clock' = clock + 1
      BY <1>2 DEF Next, FrameLogic, EventStep, LoopStep, TriggerEvent, ProcEvent, Message,
         Resume, Chain, Delay, NoSuccessor, UpdateEvents, CountDown, Frozen, Fire, Remove, EndLoop
    <3> QED BY <3>1 DEF TypeOK
  <2>3. fired' \in [Ticket -> Nat] /\ moves' \in [Ticket -> Nat]
    <3>1. CASE Fire
      <4>1. /\ fired' = [fired EXCEPT ![entry[A].ticket] = @ + 1]
            /\ moves' = [moves EXCEPT ![entry[A].ticket] = 0]
        BY <3>1 DEF Fire
      <4> DEFINE t == entry[A].ticket
      <4>5. fired \in [Ticket -> Nat] /\ t \in Ticket
        <5>1. A \in Live
          BY <3>1, FireDoes DEF Fire, InLoop, At, Left
        <5> QED BY <5>1, ArithType DEF TypeOK, Different, Ticket
      <4> HIDE DEF t
      <4>6. fired[t] + 1 \in Nat
        BY <4>5
      <4>2. fired' \in [Ticket -> Nat]
        BY <4>1, <4>5, <4>6 DEF t
      <4>3. moves \in [Ticket -> Nat] /\ 0 \in Nat
        BY DEF TypeOK
      <4>4. moves' \in [Ticket -> Nat]
        BY <4>1, <4>3
      <4> QED BY <4>2, <4>4
    <3>2. CASE Remove
      <4>1. /\ fired' = fired
            /\ moves' = moves \/ moves' = [moves EXCEPT ![entry[newEventNum].ticket] = @ + 1]
        BY <3>2 DEF Remove
      <4> QED BY <4>1 DEF TypeOK
    <3>3. CASE ~Fire /\ ~Remove
      <4>1. fired' = fired /\ moves' = moves
        BY <1>2, <3>3 DEF Next, FrameLogic, EventStep, LoopStep, TriggerEvent, ProcEvent, Message,
           Resume, Chain, Delay, NoSuccessor, UpdateEvents, CountDown, Frozen, EndLoop
      <4> QED BY <4>1 DEF TypeOK
    <3> QED BY <3>1, <3>2, <3>3
  <2> QED BY <2>1, <2>2, <2>3, ArraysType, ControlType, LocalsStep DEF TypeOK
<1> QED BY <1>1, <1>2

LEMMA PlacesStep ==
  ASSUME TypeOK, Turn, Places, Budget, Next, fix_event_swap_bug
  PROVE  Places'
<1> USE LocalsType, ArithType
<1>1. CASE TriggerEvent \/ CancelNewEvent \/ ProcEvent
  BY <1>1 DEF TriggerEvent, CancelNewEvent, ProcEvent, Places, Firing, Turn
<1>2. CASE Message \/ Resume \/ Chain
  BY <1>2, MessageInside, ResumeInside, ChainInside DEF Inside, Same, Stays, Places, Firing
<1>3. CASE Delay
  <2>1. PICK delay \in Nat \ {0} : Puts(delay, DelayFrom(delay))
    BY <1>3, DelayPuts
  <2>2. Returns
    BY <1>3, DelayReturns
  <2>3. pc' # "loop" /\ (Firing' => Firing /\ pc' = "remove" /\ pc # "remove")
    BY <2>2 DEF Returns, Firing
  <2>4. SUFFICES ASSUME Firing'
                 PROVE  /\ 1 <= At' /\ At' <= Old' /\ Old' <= Prev'
                        /\ entry'[At'].delay <= 0
                        /\ ~Active' => entry'[At'].delay < 0
                        /\ \/ newEventNum' = Prev'
                           \/ /\ newEventNum' = Prev' + 1
                              /\ entry'[newEventNum'].delay > 0
    BY <2>3 DEF Places
  <2>5. /\ 1 <= At /\ At <= Old /\ Old <= Prev /\ newEventNum = Prev
        /\ entry[At].delay <= 0 /\ (~Active => entry[At].delay < 0)
    BY <2>3, <2>4 DEF Places
  <2>6. At' = At /\ Old' = Old /\ Prev' = Prev /\ Active' = Active
    BY <2>2 DEF Returns, Stays
  <2>7. entry'[At] = entry[At]
    BY <2>1, <2>5 DEF Puts
  <2>8. \/ newEventNum' = Prev
        \/ newEventNum' = Prev + 1 /\ entry'[newEventNum'].delay > 0
    BY <2>1, <2>5 DEF Puts
  <2> QED BY <2>5, <2>6, <2>7, <2>8
<1>4. CASE NoSuccessor
  BY <1>4, NoSuccessorReturns DEF Returns, Same, Stays, Places, Firing
<1>5. CASE UpdateEvents
  BY <1>5, UpdateEventsDoes DEF Places, Firing
<1>6. CASE CountDown
  BY <1>6, CountDownDoes DEF Places, Firing
<1>7. CASE Frozen
  BY <1>7, FrozenDoes DEF Places, Firing, Same
<1>8. CASE Fire
  BY <1>8, FireDoes DEF Places, Firing, Live
<1>9. CASE Remove
  <2>1. /\ 1 <= At /\ At <= Old /\ Old <= Prev
        /\ newEventNum = Prev \/ newEventNum = Prev + 1
    BY <1>9, RemoveDoes DEF Places
  <2>2. pc' = "loop" /\ newEventNum' = newEventNum - 1 /\ (Again \/ Shorter \/ Further)
    BY <1>9, RemoveDoes
  <2>3. 1 <= At' /\ At' <= Old' + 1 /\ Old' <= newEventNum'
    <3>1. CASE Again
      BY <2>1, <2>2, <3>1 DEF Again
    <3>2. CASE Further
      BY <2>1, <2>2, <3>2 DEF Further
    <3>3. CASE Shorter
      <4>1. newEventNum = Prev /\ Old = Prev
        BY <2>1, <2>2, <3>3 DEF Shorter
      <4>2. CASE At < Old
        BY <2>1, <2>2, <3>3, <4>1, <4>2 DEF Shorter
      <4>3. CASE At = Old
        <5>1. entry[newEventNum].delay <= 0
          BY <1>9, <4>1, <4>3, RemoveDoes DEF Places
        <5> QED BY <2>1, <2>2, <3>3, <4>1, <4>3, <5>1 DEF Shorter
      <4> QED BY <2>1, <4>2, <4>3
    <3> QED BY <2>2, <3>1, <3>2, <3>3
  <2> QED BY <2>2, <2>3 DEF Places, Firing
<1>10. CASE EndLoop
  BY <1>10, EndLoopDoes DEF Places, Firing
<1> QED BY <1>1, <1>2, <1>3, <1>4, <1>5, <1>6, <1>7, <1>8, <1>9, <1>10
        DEF Next, FrameLogic, EventStep, LoopStep

-----------------------------------------------------------------------------
(* The tickets.                                                            *)

LEMMA BudgetStep ==
  ASSUME TypeOK, Turn, Places, Budget, Next, fix_event_swap_bug
  PROVE  Budget'
<1> USE LocalsType, ArithType
<1>1. CASE TriggerEvent \/ CancelNewEvent
  BY <1>1 DEF TriggerEvent, CancelNewEvent, Budget, Firing, Aside, Turn
<1>2. CASE ProcEvent
  BY <1>2 DEF ProcEvent, ghosts, Budget, Firing, Aside
<1>3. CASE Message \/ Resume \/ Chain
  <2>1. Inside
    BY <1>3, MessageInside, ResumeInside, ChainInside
  <2>2. pc' # "loop" /\ (Firing' <=> Firing) /\ (Aside' <=> Aside)
    BY <2>1 DEF Inside, Firing, Aside
  <2> QED BY <2>1, <2>2 DEF Inside, Same, Stays, Budget
<1>4. CASE Delay
  <2>1. PICK delay \in Nat \ {0} : Puts(delay, DelayFrom(delay))
    BY <1>4, DelayPuts
  <2>2. Returns
    BY <1>4, DelayReturns
  <2>3. pc' # "loop" /\ ~Aside' /\ (Firing' => Firing /\ pc # "remove")
    BY <2>2 DEF Returns, Firing, Aside
  <2>4. SUFFICES ASSUME Firing'
                 PROVE  tickets' + (Old' - At') + (IF newEventNum' = Prev' THEN 1 ELSE 0)
                          <= MaxTickets
    BY <2>3 DEF Budget
  <2>5. newEventNum = Prev /\ At <= Old /\ tickets + (Old - At) + 1 <= MaxTickets
    BY <2>3, <2>4 DEF Places, Budget
  <2>6. At' = At /\ Old' = Old /\ Prev' = Prev
    BY <2>2 DEF Returns, Stays
  <2> QED BY <2>1, <2>5, <2>6 DEF Puts
<1>5. CASE NoSuccessor
  <2>1. Returns /\ Same
    BY <1>5, NoSuccessorReturns
  <2>2. pc' # "loop" /\ ~Aside' /\ (Firing' => Firing)
    BY <2>1 DEF Returns, Firing, Aside
  <2> QED BY <2>1, <2>2 DEF Returns, Same, Stays, Budget
<1>6. CASE UpdateEvents
  BY <1>6, UpdateEventsDoes DEF Budget, Firing, Aside
<1>7. CASE CountDown
  <2>1. tickets + (Old - At) <= MaxTickets
    BY <1>7, CountDownDoes DEF Budget
  <2> QED BY <1>7, <2>1, CountDownDoes DEF Budget, Firing, Aside
<1>8. CASE Frozen
  <2>1. tickets + (Old - At) <= MaxTickets /\ At <= Old
    BY <1>8, FrozenDoes DEF Budget
  <2> QED BY <1>8, <2>1, FrozenDoes DEF Budget, Firing, Aside, Same
<1>9. CASE Fire
  <2>1. tickets + (Old - At) + 1 <= MaxTickets
    BY <1>9, FireDoes DEF Budget
  <2> QED BY <1>9, <2>1, FireDoes DEF Budget, Firing, Aside
<1>10. CASE Remove
  <2>1. /\ 1 <= At /\ At <= Old /\ Old <= Prev
        /\ newEventNum = Prev \/ (newEventNum = Prev + 1 /\ entry[newEventNum].delay > 0)
    BY <1>10, RemoveDoes DEF Places
  <2>2. /\ pc' = "loop" /\ newEventNum' = newEventNum - 1 /\ tickets' = tickets
        /\ entry'[At] = entry[newEventNum]
        /\ Again \/ Shorter \/ Further
    BY <1>10, RemoveDoes
  <2>3. tickets + (Old - At) + (IF newEventNum = Prev THEN 1 ELSE 0) <= MaxTickets
    BY <1>10, RemoveDoes DEF Budget
  <2>4. tickets' + (Old' - At') + (IF At' <= Old' /\ entry'[At'].delay > 0 THEN 0 ELSE 1)
          <= MaxTickets
    <3>1. CASE Again
      <4>1. newEventNum = Prev + 1 /\ entry[newEventNum].delay > 0
        BY <2>1, <2>2, <3>1 DEF Again
      <4>2. At' = At /\ Old' = Old /\ entry'[At'].delay > 0
        BY <2>2, <3>1, <4>1 DEF Again
      <4> QED BY <2>1, <2>2, <2>3, <4>1, <4>2
    <3>2. CASE Further
      <4>1. At' = At + 1 /\ Old' = Old
        BY <3>2 DEF Further
      <4> QED BY <2>1, <2>2, <2>3, <4>1
    <3>3. CASE Shorter
      <4>1. newEventNum = Prev
        BY <2>1, <2>2, <3>3 DEF Shorter
      <4>2. (At' = At \/ At' = At + 1) /\ Old' = Old - 1
        BY <3>3 DEF Shorter
      <4> QED BY <2>1, <2>2, <2>3, <4>1, <4>2
    <3> QED BY <2>2, <3>1, <3>2, <3>3
  <2>5. ~Firing' /\ ~Aside'
    BY <2>2 DEF Firing, Aside
  <2> QED BY <2>4, <2>5 DEF Budget
<1>11. CASE EndLoop
  BY <1>11, EndLoopDoes DEF Budget, Firing, Aside
<1> QED BY <1>1, <1>2, <1>3, <1>4, <1>5, <1>6, <1>7, <1>8, <1>9, <1>10, <1>11
        DEF Next, FrameLogic, EventStep, LoopStep

\* The steps that leave every ticket where it is.
Unmoved ==
  /\ newEventNum' = newEventNum /\ tickets' = tickets
  /\ fired' = fired /\ cancelled' = cancelled
  /\ \A k \in Live : entry'[k].ticket = entry[k].ticket
  /\ Firing' <=> Firing
  /\ Firing => At' = At

LEMMA UnmovedSteps ==
  ASSUME TypeOK, Turn, Places,
         ProcEvent \/ Message \/ Resume \/ Chain \/ NoSuccessor \/ UpdateEvents
           \/ CountDown \/ Frozen \/ EndLoop
  PROVE  Unmoved
<1>1. CASE ProcEvent
  BY <1>1 DEF ProcEvent, queue, ghosts, Unmoved, Firing, Turn
<1>2. CASE Message \/ Resume \/ Chain
  <2>1. Inside
    BY <1>2, MessageInside, ResumeInside, ChainInside
  <2> QED BY <2>1 DEF Inside, Same, Stays, Unmoved, Firing
<1>3. CASE NoSuccessor
  <2>1. Returns /\ Same
    BY <1>3, NoSuccessorReturns
  <2>2. Firing' <=> Firing
    BY <2>1 DEF Returns, Firing
  <2> QED BY <2>1, <2>2 DEF Returns, Same, Stays, Unmoved
<1>4. CASE UpdateEvents
  BY <1>4, UpdateEventsDoes DEF Unmoved, Firing
<1>5. CASE CountDown
  BY <1>5, CountDownDoes DEF Unmoved, Firing
<1>6. CASE Frozen
  BY <1>6, FrozenDoes DEF Unmoved, Firing, Same
<1>7. CASE EndLoop
  BY <1>7, EndLoopDoes DEF Unmoved, Firing, Same
<1> QED BY <1>1, <1>2, <1>3, <1>4, <1>5, <1>6, <1>7

\* The steps that may put an entry in the queue.
PutsOne ==
  /\ \E delay \in Int, from \in Int : Puts(delay, from)
  /\ fired' = fired /\ cancelled' = cancelled
  /\ Firing' <=> Firing
  /\ Firing => At' = At

LEMMA PutsOneSteps ==
  ASSUME TypeOK, Turn, Places, Budget, TriggerEvent \/ Delay
  PROVE  PutsOne
<1>1. CASE TriggerEvent
  <2>1. Puts(-1, clock) /\ -1 \in Int /\ clock \in Int
    BY <1>1, TriggerPuts DEF TypeOK
  <2>2. pc' = "idle" /\ pc = "idle" /\ fired' = fired /\ cancelled' = cancelled
    BY <1>1 DEF TriggerEvent
  <2> QED BY <2>1, <2>2 DEF PutsOne, Firing
<1>2. CASE Delay
  <2>1. PICK delay \in Nat \ {0} : Puts(delay, DelayFrom(delay))
    BY <1>2, DelayPuts
  <2>2. DelayFrom(delay) \in Int /\ delay \in Int
    BY DEF DelayFrom, TypeOK
  <2>3. Returns
    BY <1>2, DelayReturns
  <2>4. Firing' <=> Firing
    BY <2>3 DEF Returns, Firing
  <2> QED BY <2>1, <2>2, <2>3, <2>4 DEF Returns, Stays, PutsOne
<1> QED BY <1>1, <1>2

LEMMA DifferentStep ==
  ASSUME TypeOK, Turn, Places, Budget, Different, Next, fix_event_swap_bug
  PROVE  Different'
<1> USE ArithType
<1>1. CASE ProcEvent \/ Message \/ Resume \/ Chain \/ NoSuccessor \/ UpdateEvents
             \/ CountDown \/ Frozen \/ EndLoop
  <2>1. Unmoved
    BY <1>1, UnmovedSteps
  <2> QED BY <2>1 DEF Unmoved, Different, Live
<1>2. CASE TriggerEvent \/ Delay
  <2>1. PICK delay \in Int, from \in Int : Puts(delay, from)
    BY <1>2, PutsOneSteps DEF PutsOne
  <2>2. CASE entry' = entry /\ newEventNum' = newEventNum /\ tickets' = tickets
    BY <2>2 DEF Different, Live
  <2>3. CASE newEventNum' = newEventNum + 1 /\ tickets' = tickets + 1
    <3>1. /\ Live' = Live \cup {newEventNum + 1}
          /\ \A k \in Live : entry'[k].ticket = entry[k].ticket
          /\ entry'[newEventNum + 1].ticket = tickets + 1
      BY <2>1, <2>3 DEF Puts, Live
    <3>2. \A k \in Live : entry[k].ticket \in 1..tickets
      BY DEF Different
    <3>3. 1..tickets' = (1..tickets) \cup {tickets + 1} /\ tickets + 1 \notin 1..tickets
      BY <2>3
    <3> QED BY <3>1, <3>2, <3>3 DEF Different
  <2> QED BY <2>1, <2>2, <2>3 DEF Puts
<1>3. CASE CancelNewEvent
  <2>0. Cancels
    BY <1>3, CancelCancels
  <2>1. PICK gone \in SUBSET Live : \E src \in [1..newEventNum' -> Live \ gone] :
          /\ \A k \in 1..newEventNum' : entry'[k] = entry[src[k]]
          /\ \A k, l \in 1..newEventNum' : src[k] = src[l] => k = l
    BY <2>0, Zenon DEF Cancels
  <2>2. PICK src \in [1..newEventNum' -> Live \ gone] :
          /\ \A k \in 1..newEventNum' : entry'[k] = entry[src[k]]
          /\ \A k, l \in 1..newEventNum' : src[k] = src[l] => k = l
    BY <2>1, Zenon
  <2>3. tickets' = tickets
    BY <1>3 DEF CancelNewEvent, ghosts
  <2>4. Live' = 1..newEventNum' /\ \A k \in Live' : src[k] \in Live
    BY <2>2 DEF Live
  <2>5. \A k \in Live' : entry'[k] = entry[src[k]]
    BY <2>2, <2>4
  <2>6. \A k, l \in Live' : src[k] = src[l] => k = l
    BY <2>2, <2>4
  <2> HIDE DEF Live
  <2>7. ASSUME NEW k \in Live' PROVE entry'[k].ticket \in 1..tickets'
    <3>1. src[k] \in Live /\ entry'[k] = entry[src[k]]
      BY <2>4, <2>5
    <3>2. entry[src[k]].ticket \in 1..tickets
      BY <3>1 DEF Different
    <3> QED BY <3>1, <3>2, <2>3
  <2>8. ASSUME NEW k \in Live', NEW l \in Live', entry'[k].ticket = entry'[l].ticket
        PROVE  k = l
    <3>1. src[k] \in Live /\ entry'[k] = entry[src[k]]
      BY <2>4, <2>5
    <3>2. src[l] \in Live /\ entry'[l] = entry[src[l]]
      BY <2>4, <2>5
    <3>3. src[k] = src[l]
      BY <3>1, <3>2, <2>8 DEF Different
    <3> QED BY <3>3, <2>6
  <2> QED BY <2>7, <2>8 DEF Different
<1>4. CASE Fire
  BY <1>4, FireDoes DEF Different, Live
<1>5. CASE Remove
  <2>1. /\ newEventNum' = newEventNum - 1 /\ tickets' = tickets
        /\ At \in Live /\ newEventNum \in Live
        /\ entry'[At] = entry[newEventNum]
        /\ \A k \in Live : k # At => entry'[k] = entry[k]
    BY <1>5, RemoveDoes
  <2>2. Live' = Live \ {newEventNum}
    BY <2>1 DEF Live
  <2> QED BY <2>1, <2>2 DEF Different
<1> QED BY <1>1, <1>2, <1>3, <1>4, <1>5 DEF Next, FrameLogic, EventStep, LoopStep

LEMMA FiringLive ==
  ASSUME TypeOK, Places, Firing
  PROVE  At \in Live /\ At <= Old /\ Old <= newEventNum
BY LocalsType, ArithType DEF Places, Live

LEMMA KeptUnmoved ==
  ASSUME TypeOK, Places, Kept, Unmoved
  PROVE  Kept'
<1>1. Live' = Live /\ Waiting' = Waiting /\ Waiting \subseteq Live
  BY DEF Unmoved, Live, Waiting
<1>2. \A k \in Waiting : entry'[k].ticket = entry[k].ticket
  BY <1>1 DEF Unmoved
<1>3. Firing' => fired'[entry'[At'].ticket] = 1
  <2> SUFFICES ASSUME Firing' PROVE fired'[entry'[At'].ticket] = 1
    OBVIOUS
  <2>1. Firing /\ At' = At
    BY DEF Unmoved
  <2>2. At \in Live
    BY <2>1, FiringLive
  <2> QED BY <2>1, <2>2 DEF Unmoved, Kept
<1> QED BY <1>1, <1>2, <1>3 DEF Unmoved, Kept

LEMMA KeptPuts ==
  ASSUME TypeOK, Places, Different, Kept, PutsOne
  PROVE  Kept'
<1> USE ArithType
<1>1. PICK delay \in Int, from \in Int : Puts(delay, from)
  BY DEF PutsOne
<1>2. CASE entry' = entry /\ newEventNum' = newEventNum /\ tickets' = tickets
  <2>1. Unmoved
    BY <1>2 DEF PutsOne, Unmoved
  <2> QED BY <2>1, KeptUnmoved
<1>3. CASE newEventNum' = newEventNum + 1
  <2> DEFINE new == newEventNum + 1
  <2>1. /\ tickets' = tickets + 1 /\ tickets + 1 \in Ticket
        /\ \A k \in Live : entry'[k] = entry[k]
        /\ entry'[new].ticket = tickets + 1
    BY <1>1, <1>3 DEF Puts, Live, Ticket
  <2>2. Live' = Live \cup {new} /\ new \notin Live
    BY <1>3 DEF Live
  <2>3. Firing => At \in Live
    BY FiringLive
  <2>4. Waiting' = Waiting \cup {new}
    BY <2>2, <2>3 DEF Waiting, PutsOne
  <2>5. fired' = fired /\ cancelled' = cancelled
    BY DEF PutsOne
  <2>6. fired[tickets + 1] = 0 /\ tickets + 1 \notin cancelled
    BY <2>1 DEF Kept, TypeOK
  <2> HIDE DEF new
  <2>7. /\ \A t \in Ticket : fired'[t] <= 1
        /\ \A t \in Ticket : fired'[t] = 1 => t \notin cancelled'
    BY <2>5 DEF Kept
  <2>8. \A t \in Ticket : t > tickets' => fired'[t] = 0
    BY <2>1, <2>5 DEF Kept, Ticket
  <2>9. \A k \in Waiting' : fired'[entry'[k].ticket] = 0 /\ entry'[k].ticket \notin cancelled'
    <3>1. \A k \in Waiting : entry'[k] = entry[k]
      BY <2>1 DEF Waiting
    <3> QED BY <3>1, <2>1, <2>4, <2>5, <2>6 DEF Kept
  <2>10. Firing' => fired'[entry'[At'].ticket] = 1
    <3> SUFFICES ASSUME Firing' PROVE fired'[entry'[At'].ticket] = 1
      OBVIOUS
    <3>1. Firing /\ At' = At
      BY DEF PutsOne
    <3>2. entry'[At] = entry[At]
      BY <3>1, <2>1, <2>3
    <3> QED BY <3>1, <3>2, <2>5 DEF Kept
  <2>11. \A t \in 1..tickets' :
           fired'[t] = 0 /\ t \notin cancelled' => \E k \in Waiting' : entry'[k].ticket = t
    <3> SUFFICES ASSUME NEW t \in 1..tickets', fired'[t] = 0, t \notin cancelled'
                 PROVE  \E k \in Waiting' : entry'[k].ticket = t
      OBVIOUS
    <3>1. t \in 1..tickets \/ t = tickets + 1
      BY <2>1
    <3>2. CASE t \in 1..tickets
      <4>1. PICK k \in Waiting : entry[k].ticket = t
        BY <3>2, <2>5 DEF Kept
      <4>2. entry'[k] = entry[k]
        BY <2>1 DEF Waiting
      <4> QED BY <4>1, <4>2, <2>4
    <3>3. CASE t = tickets + 1
      BY <3>3, <2>1, <2>4
    <3> QED BY <3>1, <3>2, <3>3
  <2> QED BY <2>7, <2>8, <2>9, <2>10, <2>11 DEF Kept
<1> QED BY <1>1, <1>2, <1>3 DEF Puts

LEMMA KeptCancel ==
  ASSUME TypeOK, Turn, Different, Kept, CancelNewEvent
  PROVE  Kept'
<1> USE ArithType
<1>1. PICK gone \in SUBSET Live : \E src \in [1..newEventNum' -> Live \ gone] :
        /\ \A k \in 1..newEventNum' : entry'[k] = entry[src[k]]
        /\ \A j \in Live \ gone : \E k \in 1..newEventNum' : src[k] = j
        /\ cancelled' = cancelled \cup {entry[k].ticket : k \in gone}
  BY CancelCancels DEF Cancels
<1>2. PICK src \in [1..newEventNum' -> Live \ gone] :
        /\ \A k \in 1..newEventNum' : entry'[k] = entry[src[k]]
        /\ \A j \in Live \ gone : \E k \in 1..newEventNum' : src[k] = j
        /\ cancelled' = cancelled \cup {entry[k].ticket : k \in gone}
  BY <1>1
<1>3. tickets' = tickets /\ fired' = fired /\ pc' = "idle" /\ pc = "idle"
  BY DEF CancelNewEvent, ghosts
<1>4. ~Firing /\ ~Firing'
  BY <1>3 DEF Firing
<1>5. Waiting = Live /\ Waiting' = 1..newEventNum'
  BY <1>4 DEF Waiting, Live
<1>6. \A k \in Live : entry[k].ticket \in 1..tickets
                      /\ fired[entry[k].ticket] = 0 /\ entry[k].ticket \notin cancelled
  BY <1>5 DEF Different, Kept
<1>7. \A k, l \in Live : entry[k].ticket = entry[l].ticket => k = l
  BY DEF Different
<1>8. \A k \in Waiting' : fired'[entry'[k].ticket] = 0 /\ entry'[k].ticket \notin cancelled'
  <2> SUFFICES ASSUME NEW k \in 1..newEventNum'
               PROVE  fired'[entry'[k].ticket] = 0 /\ entry'[k].ticket \notin cancelled'
    BY <1>5
  <2>1. src[k] \in Live /\ src[k] \notin gone /\ entry'[k] = entry[src[k]]
    BY <1>2
  <2> HIDE DEF Live
  <2>2. entry[src[k]].ticket \notin {entry[j].ticket : j \in gone}
    BY <1>7, <2>1
  <2> QED BY <1>2, <1>3, <1>6, <2>1, <2>2
<1>9. \A t \in 1..tickets' :
        fired'[t] = 0 /\ t \notin cancelled' => \E k \in Waiting' : entry'[k].ticket = t
  <2> SUFFICES ASSUME NEW t \in 1..tickets, fired[t] = 0, t \notin cancelled'
               PROVE  \E k \in 1..newEventNum' : entry'[k].ticket = t
    BY <1>3, <1>5
  <2>1. PICK j \in Live : entry[j].ticket = t
    BY <1>2, <1>5 DEF Kept
  <2>2. j \notin gone
    BY <1>2, <2>1
  <2>3. PICK k \in 1..newEventNum' : src[k] = j
    BY <1>2, <2>1, <2>2
  <2> QED BY <1>2, <2>1, <2>3
<1>10. \A t \in Ticket : fired'[t] = 1 => t \notin cancelled'
  BY <1>2, <1>3, <1>6 DEF Kept
<1> QED BY <1>3, <1>4, <1>8, <1>9, <1>10 DEF Kept

LEMMA KeptFire ==
  ASSUME TypeOK, Places, Different, Kept, Fire
  PROVE  Kept'
<1> USE ArithType
<1>1. /\ pc = "loop" /\ pc' = "event" /\ queued' /\ At \in Live /\ At' = At
      /\ entry' = entry /\ newEventNum' = newEventNum /\ tickets' = tickets
      /\ cancelled' = cancelled
      /\ fired' = [fired EXCEPT ![entry[At].ticket] = @ + 1]
  BY FireDoes
<1>2. ~Firing /\ Firing'
  BY <1>1 DEF Firing
<1>3. Waiting = Live /\ Waiting' = Live \ {At}
  BY <1>1, <1>2 DEF Waiting, Live
<1> DEFINE u == entry[At].ticket
<1>4. u \in Ticket /\ u \in 1..tickets /\ fired[u] = 0 /\ u \notin cancelled
  BY <1>1, <1>3 DEF Different, Kept, Ticket
<1>5. fired'[u] = 1 /\ \A t \in Ticket : t # u => fired'[t] = fired[t]
  BY <1>1, <1>4 DEF TypeOK
<1>6. \A k \in Live : k # At => entry[k].ticket # u
  BY <1>1 DEF Different
<1>7. \A k \in Live : entry[k].ticket \in Ticket
  BY DEF Different, Ticket
<1> HIDE DEF u
<1>8. \A k \in Waiting' : fired'[entry'[k].ticket] = 0 /\ entry'[k].ticket \notin cancelled'
  BY <1>1, <1>3, <1>5, <1>6, <1>7 DEF Kept
<1>9. Firing' => fired'[entry'[At'].ticket] = 1
  BY <1>1, <1>5 DEF u
<1>10. \A t \in 1..tickets' :
         fired'[t] = 0 /\ t \notin cancelled' => \E k \in Waiting' : entry'[k].ticket = t
  <2> SUFFICES ASSUME NEW t \in 1..tickets, fired'[t] = 0, t \notin cancelled
               PROVE  \E k \in Waiting' : entry[k].ticket = t
    BY <1>1
  <2>1. t # u /\ t \in Ticket
    BY <1>5 DEF Ticket
  <2>2. PICK k \in Live : entry[k].ticket = t
    BY <1>3, <1>5, <2>1 DEF Kept
  <2>3. k # At
    BY <2>1, <2>2 DEF u
  <2> QED BY <1>3, <2>2, <2>3
<1>11. /\ \A t \in Ticket : fired'[t] <= 1
       /\ \A t \in Ticket : t > tickets' => fired'[t] = 0
       /\ \A t \in Ticket : fired'[t] = 1 => t \notin cancelled'
  BY <1>1, <1>4, <1>5 DEF Kept
<1> QED BY <1>8, <1>9, <1>10, <1>11 DEF Kept

LEMMA KeptRemove ==
  ASSUME TypeOK, Turn, Places, Different, Kept, Remove, fix_event_swap_bug
  PROVE  Kept'
<1> USE ArithType
<1>1. /\ pc = "remove" /\ pc' = "loop" /\ Firing /\ At \in Live /\ newEventNum \in Live
      /\ newEventNum' = newEventNum - 1
      /\ entry'[At] = entry[newEventNum]
      /\ \A k \in Live : k # At => entry'[k] = entry[k]
      /\ tickets' = tickets /\ fired' = fired /\ cancelled' = cancelled
  BY RemoveDoes
<1>2. ~Firing'
  BY <1>1 DEF Firing
<1>3. Waiting = Live \ {At} /\ Waiting' = Live \ {newEventNum}
  BY <1>1, <1>2 DEF Waiting, Live
<1>4. \A k \in Waiting' : fired'[entry'[k].ticket] = 0 /\ entry'[k].ticket \notin cancelled'
  <2> SUFFICES ASSUME NEW k \in Waiting'
               PROVE  \E j \in Waiting : entry'[k] = entry[j]
    BY <1>1 DEF Kept
  <2> HIDE DEF Live
  <2> QED BY <1>1, <1>3
<1>5. \A t \in 1..tickets' :
        fired'[t] = 0 /\ t \notin cancelled' => \E k \in Waiting' : entry'[k].ticket = t
  <2> SUFFICES ASSUME NEW t \in 1..tickets, fired[t] = 0, t \notin cancelled
               PROVE  \E k \in Waiting' : entry'[k].ticket = t
    BY <1>1
  <2>1. PICK j \in Waiting : entry[j].ticket = t
    BY DEF Kept
  <2>2. CASE j = newEventNum
    BY <1>1, <1>3, <2>1, <2>2
  <2>3. CASE j # newEventNum
    BY <1>1, <1>3, <2>1, <2>3
  <2> QED BY <2>2, <2>3
<1> QED BY <1>1, <1>2, <1>4, <1>5 DEF Kept

LEMMA KeptStep ==
  ASSUME TypeOK, Turn, Places, Budget, Different, Kept, Next, fix_event_swap_bug
  PROVE  Kept'
<1>1. CASE ProcEvent \/ Message \/ Resume \/ Chain \/ NoSuccessor \/ UpdateEvents
             \/ CountDown \/ Frozen \/ EndLoop
  BY <1>1, UnmovedSteps, KeptUnmoved
<1>2. CASE TriggerEvent \/ Delay
  BY <1>2, PutsOneSteps, KeptPuts
<1> QED BY <1>1, <1>2, KeptCancel, KeptFire, KeptRemove
        DEF Next, FrameLogic, EventStep, LoopStep

-----------------------------------------------------------------------------
(* The delays.                                                             *)

LEMMA PromptStep ==
  ASSUME TypeOK, Turn, Places, Budget, Prompt, Next, fix_event_swap_bug
  PROVE  Prompt'
<1> USE LocalsType, ArithType
<1>1. CASE TriggerEvent \/ CancelNewEvent \/ ProcEvent \/ EndLoop
  BY <1>1 DEF TriggerEvent, CancelNewEvent, ProcEvent, EndLoop, Prompt, InUpdate, Firing, Turn
<1>2. CASE Message \/ Resume \/ Chain \/ NoSuccessor
  <2>1. /\ entry' = entry /\ Waiting' = Waiting /\ At' = At /\ Old' = Old
        /\ InUpdate' => InUpdate
    <3>1. CASE Message \/ Resume \/ Chain
      BY <3>1, MessageInside, ResumeInside, ChainInside
         DEF Inside, Same, Stays, InUpdate, Firing, Waiting, Live
    <3>2. CASE NoSuccessor
      <4>1. Returns /\ Same
        BY <3>2, NoSuccessorReturns
      <4>2. Firing' <=> Firing
        BY <4>1 DEF Returns, Firing
      <4> QED BY <4>1, <4>2 DEF Returns, Same, Stays, InUpdate, Waiting, Live
    <3> QED BY <1>2, <3>1, <3>2
  <2> QED BY <2>1 DEF Prompt
<1>3. CASE Delay
  <2>1. PICK delay \in Nat \ {0} : Puts(delay, DelayFrom(delay))
    BY <1>3, DelayPuts
  <2>2. Returns
    BY <1>3, DelayReturns
  <2>3. SUFFICES ASSUME InUpdate', NEW k \in Waiting', k < At' \/ k > Old'
                 PROVE  entry'[k].delay >= 0
    BY DEF Prompt
  <2>4. Firing' <=> Firing
    BY <2>2 DEF Returns, Firing
  <2>5. Firing /\ At' = At /\ Old' = Old
    BY <2>2, <2>3, <2>4 DEF Returns, Stays, InUpdate
  <2>6. CASE k \in Live
    <3>1. entry'[k] = entry[k] /\ k \in Waiting
      BY <2>1, <2>3, <2>4, <2>5, <2>6 DEF Puts, Waiting, Live
    <3> QED BY <2>3, <2>5, <3>1 DEF Prompt, InUpdate
  <2>7. CASE k \notin Live
    BY <2>1, <2>3, <2>7 DEF Puts, Waiting, Live
  <2> QED BY <2>6, <2>7
<1>4. CASE UpdateEvents
  BY <1>4, UpdateEventsDoes DEF Prompt, Waiting, Live
<1>5. CASE CountDown
  <2>1. /\ pc = "loop" /\ pc' = "loop" /\ At \in Live /\ At' = At + 1 /\ Old' = Old
        /\ entry[At].delay > 0 /\ newEventNum' = newEventNum
        /\ \A k \in Live : entry'[k].delay = entry[k].delay - (IF k = At THEN 1 ELSE 0)
    BY <1>5, CountDownDoes
  <2>2. Waiting' = Live /\ Waiting = Live /\ InUpdate
    BY <2>1 DEF Waiting, Live, Firing, InUpdate
  <2> QED BY <2>1, <2>2 DEF Prompt
<1>6. CASE Frozen
  <2>1. /\ pc = "loop" /\ pc' = "loop" /\ At \in Live /\ At' = At + 1 /\ Old' = Old
        /\ entry[At].delay >= 0 /\ newEventNum' = newEventNum /\ entry' = entry
    BY <1>6, FrozenDoes DEF Same
  <2>2. Waiting' = Live /\ Waiting = Live /\ InUpdate
    BY <2>1 DEF Waiting, Live, Firing, InUpdate
  <2> QED BY <2>1, <2>2 DEF Prompt
<1>7. CASE Fire
  <2>1. /\ pc = "loop" /\ At' = At /\ Old' = Old
        /\ newEventNum' = newEventNum /\ entry' = entry
    BY <1>7, FireDoes
  <2>2. Waiting' \subseteq Waiting /\ InUpdate
    BY <2>1 DEF Waiting, Live, Firing, InUpdate
  <2> QED BY <2>1, <2>2 DEF Prompt
<1>8. CASE Remove
  <2>1. /\ pc' = "loop" /\ Firing /\ At \in Live /\ newEventNum \in Live
        /\ newEventNum' = newEventNum - 1
        /\ entry'[At] = entry[newEventNum]
        /\ \A k \in Live : k # At => entry'[k] = entry[k]
        /\ Again \/ Shorter \/ Further
    BY <1>8, RemoveDoes
  <2>2. At <= Old /\ Old <= Prev /\ Prev <= newEventNum
    BY <2>1 DEF Places
  <2>3. SUFFICES ASSUME NEW k \in Waiting', k < At' \/ k > Old'
                 PROVE  entry'[k].delay >= 0
    BY DEF Prompt
  <2>4. k \in Live /\ k < newEventNum
    BY <2>1, <2>3 DEF Waiting, Live
  <2>5. CASE k # At
    <3>1. k \in Waiting /\ entry'[k] = entry[k]
      BY <2>1, <2>4, <2>5 DEF Waiting
    <3>2. k < At \/ k > Old
      BY <2>1, <2>2, <2>3, <2>4, <2>5 DEF Again, Shorter, Further
    <3> QED BY <2>1, <3>1, <3>2 DEF Prompt, InUpdate
  <2>6. CASE k = At
    <3>1. newEventNum \in Waiting /\ entry'[k] = entry[newEventNum]
      BY <2>1, <2>4, <2>6 DEF Waiting
    <3>2. CASE newEventNum > Old
      BY <2>1, <3>1, <3>2 DEF Prompt, InUpdate
    <3>3. CASE newEventNum = Old
      <4>1. Shorter
        BY <2>1, <2>2, <2>3, <2>6, <3>3 DEF Again, Further
      <4>2. entry[newEventNum].delay > 0
        BY <2>1, <2>2, <2>3, <2>4, <2>6, <3>3, <4>1 DEF Shorter
      <4> QED BY <2>1, <3>1, <4>2
    <3> QED BY <2>2, <3>2, <3>3
  <2> QED BY <2>5, <2>6
<1> QED BY <1>1, <1>2, <1>3, <1>4, <1>5, <1>6, <1>7, <1>8
        DEF Next, FrameLogic, EventStep, LoopStep

LEMMA WindowTypes ==
  ASSUME TypeOK, Different
  PROVE  \A k \in Live : /\ entry[k].ticket \in 1..tickets /\ entry[k].ticket \in Ticket
                         /\ due[entry[k].ticket] \in Int /\ moves[entry[k].ticket] \in Nat
<1>1. 1..tickets \subseteq Ticket
  BY ArithType DEF Ticket
<1> QED BY <1>1 DEF Different, TypeOK

\* A step that changes no entry and does not pass one keeps the windows.
LEMMA WindowsSame ==
  ASSUME TypeOK, Windows, Same, Waiting' \subseteq Waiting,
         pc # "remove", \A k \in Waiting : ~Successors(k)',
         \A k \in Waiting : Done(k)' <=> Done(k)
  PROVE  Windows'
<1> SUFFICES ASSUME NEW k \in Waiting, entry[k].delay >= 0
             PROVE  InWindow(k, entry[k].ticket)'
  BY DEF Windows, Same
<1>1. due[entry[k].ticket] <= Falls(k) /\ Falls(k) <= due[entry[k].ticket] + moves[entry[k].ticket]
  BY DEF Windows, InWindow, Successors
<1>2. Falls(k)' = Falls(k)
  BY DEF Falls, Same
<1> QED BY <1>1, <1>2 DEF InWindow, Same

LEMMA WindowsInside ==
  ASSUME TypeOK, Places, Windows, Message \/ Resume \/ Chain \/ NoSuccessor
  PROVE  Windows'
<1>1. CASE Message \/ Resume \/ Chain
  <2>1. Inside
    BY <1>1, MessageInside, ResumeInside, ChainInside
  <2>2. Firing' <=> Firing
    BY <2>1 DEF Inside, Firing
  <2>3. Waiting' = Waiting
    BY <2>1, <2>2 DEF Inside, Same, Stays, Waiting, Live
  <2>4. \A k \in Waiting : (Done(k)' <=> Done(k)) /\ ~Successors(k)'
    BY <2>1, <2>2 DEF Inside, Stays, Done, InUpdate, Successors
  <2> QED BY <2>1, <2>3, <2>4, WindowsSame DEF Inside
<1>2. CASE NoSuccessor
  <2>1. Returns /\ Same
    BY <1>2, NoSuccessorReturns
  <2>2. Firing' <=> Firing
    BY <2>1 DEF Returns, Firing
  <2>3. Waiting' = Waiting
    BY <2>1, <2>2 DEF Returns, Same, Stays, Waiting, Live
  <2>4. pc' = "remove" => newEventNum' = Prev'
    BY <2>1, <2>2 DEF Returns, Same, Stays, Places, Firing
  <2>5. \A n \in Nat : n # n + 1
    OBVIOUS
  <2>6. Prev' \in Nat
    BY <2>1, LocalsType DEF Returns, Stays
  <2>7. \A k \in Waiting : ~Successors(k)'
    BY <2>4, <2>5, <2>6 DEF Successors
  <2>8. \A k \in Waiting : Done(k)' <=> Done(k)
    BY <2>1, <2>2 DEF Returns, Stays, Done, InUpdate
  <2> QED BY <2>1, <2>3, <2>7, <2>8, WindowsSame DEF Returns
<1> QED BY <1>1, <1>2

LEMMA WindowsBetween ==
  ASSUME TypeOK, Turn, Places, Windows, ProcEvent \/ EndLoop
  PROVE  Windows'
<1>1. CASE ProcEvent
  <2>1. Same /\ pc = "idle" /\ pc' = "event" /\ ~Firing /\ ~Firing'
    BY <1>1 DEF ProcEvent, queue, ghosts, Same, Turn, Firing
  <2>2. Waiting' = Waiting
    BY <2>1 DEF Same, Waiting, Live
  <2>3. \A k \in Waiting : (Done(k)' <=> Done(k)) /\ ~Successors(k)'
    BY <2>1 DEF Done, InUpdate, Successors
  <2> QED BY <2>1, <2>2, <2>3, WindowsSame
<1>2. CASE EndLoop
  <2>1. Same /\ pc = "loop" /\ pc' = "idle" /\ At > Old /\ ~Firing /\ ~Firing'
    BY <1>2, EndLoopDoes DEF Firing
  <2>2. Waiting' = Waiting /\ Waiting = Live
    BY <2>1 DEF Same, Waiting, Live
  <2>3. \A k \in Waiting : Done(k) /\ Done(k)' /\ ~Successors(k)'
    BY <2>1, <2>2, LocalsType, ArithType DEF Done, InUpdate, Successors
  <2> QED BY <2>1, <2>2, <2>3, WindowsSame
<1> QED BY <1>1, <1>2

LEMMA WindowsTrigger ==
  ASSUME TypeOK, Turn, Different, Windows, TriggerEvent
  PROVE  Windows'
<1> USE ArithType
<1>1. Puts(-1, clock)
  BY TriggerPuts
<1>2. pc = "idle" /\ pc' = "idle" /\ moves' = moves /\ clock' = clock
      /\ ~Firing /\ ~Firing' /\ ~InUpdate /\ ~InUpdate'
  BY DEF TriggerEvent, Turn, Firing, InUpdate
<1>3. SUFFICES ASSUME NEW k \in Waiting', entry'[k].delay >= 0
               PROVE  InWindow(k, entry[k].ticket)'
  BY DEF Windows
<1>4. k \in Live'
  BY DEF Waiting
<1>5. CASE k \in Live
  <2>1. k \in Waiting /\ entry'[k] = entry[k] /\ entry[k].ticket \in 1..tickets
    BY <1>1, <1>2, <1>5, WindowTypes DEF Puts, Waiting, Live
  <2>2. due'[entry[k].ticket] = due[entry[k].ticket]
    BY <1>1, <2>1 DEF Puts
  <2>3. InWindow(k, entry[k].ticket)
    BY <1>3, <2>1 DEF Windows
  <2> QED BY <1>2, <2>1, <2>2, <2>3 DEF InWindow, Falls, Done, Successors
<1>6. CASE k \notin Live
  <2>1. k = newEventNum + 1 /\ entry'[k].delay = -1
    BY <1>1, <1>4, <1>6 DEF Puts, Live
  <2> QED BY <1>3, <2>1
<1> QED BY <1>5, <1>6

LEMMA WindowsDelay ==
  ASSUME TypeOK, Turn, Places, Budget, Different, Windows, Delay
  PROVE  Windows'
<1> USE ArithType, LocalsType
<1>1. PICK delay \in Nat \ {0} : Puts(delay, DelayFrom(delay))
  BY DelayPuts
<1>2. Returns
  BY DelayReturns
<1>3. Firing' <=> Firing
  BY <1>2 DEF Returns, Firing
<1>4. /\ At' = At /\ Old' = Old /\ Prev' = Prev /\ Active' = Active
      /\ clock' = clock /\ moves' = moves
      /\ pc \in {"event", "resumed"} /\ (pc' = "remove" <=> queued) /\ pc' # "loop"
  BY <1>2 DEF Returns, Stays
<1>5. InUpdate <=> Firing
  BY <1>4 DEF InUpdate
<1>6. InUpdate' <=> Firing
  BY <1>3, <1>4 DEF InUpdate
<1>7. \A k : Done(k)' <=> Done(k)
  BY <1>4, <1>5, <1>6 DEF Done
<1>8. Firing => newEventNum = Prev /\ Old <= Prev /\ At \in Live /\ pc' = "remove"
  BY <1>4, FiringLive DEF Places, Firing
<1>9. SUFFICES ASSUME NEW k \in Waiting', entry'[k].delay >= 0
               PROVE  InWindow(k, entry[k].ticket)'
  BY DEF Windows
<1>10. k \in Live' /\ k \in Nat
  BY <1>1 DEF Waiting, Puts, Live
<1>11. CASE k \in Live
  <2>1. k \in Waiting /\ entry'[k] = entry[k] /\ entry[k].ticket \in 1..tickets
    BY <1>1, <1>3, <1>4, <1>9, <1>11, WindowTypes DEF Puts, Waiting, Live
  <2>2. due'[entry[k].ticket] = due[entry[k].ticket]
    BY <1>1, <2>1 DEF Puts
  <2>3. InWindow(k, entry[k].ticket) /\ ~Successors(k)
    BY <1>4, <1>9, <2>1 DEF Windows, Successors
  <2>4. ~Successors(k)'
    <3> SUFFICES ASSUME Successors(k)' PROVE FALSE
      OBVIOUS
    <3>1. Firing /\ newEventNum' = Prev + 1 /\ k = newEventNum'
      BY <1>4 DEF Successors, Firing
    <3> QED BY <1>8, <1>11, <3>1 DEF Live
  <2>5. Falls(k)' = Falls(k)
    BY <1>4, <1>7, <2>1 DEF Falls
  <2> QED BY <1>4, <2>1, <2>2, <2>3, <2>4, <2>5 DEF InWindow
<1>12. CASE k \notin Live
  <2>1. /\ newEventNum' = newEventNum + 1 /\ k = newEventNum + 1
        /\ entry'[k].delay = delay /\ entry'[k].ticket = tickets + 1
        /\ due'[tickets + 1] = DelayFrom(delay)
    BY <1>1, <1>10, <1>12 DEF Puts, Live
  <2>2. tickets + 1 \in Ticket
    BY <1>1, <2>1 DEF Puts, Ticket
  <2>3. moves'[tickets + 1] \in Nat
    BY <1>4, <2>2 DEF TypeOK
  <2>4. clock \in Nat
    BY DEF TypeOK
  <2>5. CASE Firing /\ entry[At].delay < 0 /\ Active
    <3>1. entry'[At] = entry[At]
      BY <1>1, <1>8, <2>5 DEF Puts, Live
    <3>2. Successors(k)'
      BY <1>4, <1>8, <2>1, <2>5, <3>1 DEF Successors
    <3>3. due'[tickets + 1] = clock + delay
      BY <2>1, <2>4, <2>5 DEF DelayFrom
    <3> QED BY <1>4, <2>1, <3>2, <3>3 DEF InWindow
  <2>6. CASE ~(Firing /\ entry[At].delay < 0 /\ Active)
    <3>1. ~Successors(k)'
      <4> SUFFICES ASSUME Successors(k)' PROVE FALSE
        OBVIOUS
      <4>1. Firing /\ entry'[At].delay < 0 /\ Active
        BY <1>4 DEF Successors, Firing
      <4>2. entry'[At] = entry[At]
        BY <1>1, <1>8, <4>1 DEF Puts, Live
      <4> QED BY <2>6, <4>1, <4>2
    <3>2. Done(k)
      BY <1>5, <1>8, <2>1 DEF Done
    <3>3. Falls(k)' = clock + delay + 1
      BY <1>4, <1>7, <2>1, <3>2 DEF Falls
    <3>4. due'[tickets + 1] = clock + delay + 1
      BY <2>1, <2>6 DEF DelayFrom
    <3> QED BY <1>4, <2>1, <2>3, <2>4, <3>1, <3>3, <3>4 DEF InWindow
  <2> QED BY <2>5, <2>6
<1> QED BY <1>11, <1>12

LEMMA WindowsUpdate ==
  ASSUME TypeOK, Turn, Windows, UpdateEvents
  PROVE  Windows'
<1> USE ArithType
<1>1. /\ pc = "idle" /\ pc' = "loop" /\ At' = 1 /\ Old' = newEventNum /\ Active' \in BOOLEAN
      /\ clock' = (IF Active' THEN clock + 1 ELSE clock)
      /\ entry' = entry /\ newEventNum' = newEventNum /\ due' = due /\ moves' = moves
      /\ ~Firing /\ ~Firing' /\ ~InUpdate /\ InUpdate'
  BY UpdateEventsDoes DEF Firing, InUpdate
<1>2. Waiting' = Live /\ Waiting = Live
  BY <1>1 DEF Waiting, Live
<1>3. SUFFICES ASSUME NEW k \in Live, entry[k].delay >= 0
               PROVE  InWindow(k, entry[k].ticket)'
  BY <1>1, <1>2 DEF Windows
<1>4. InWindow(k, entry[k].ticket) /\ ~Successors(k) /\ ~Successors(k)'
  BY <1>1, <1>2, <1>3 DEF Windows, Successors
<1>5. Done(k) /\ (Done(k)' <=> ~Active')
  BY <1>1 DEF Done, Live
<1>6. Falls(k)' = Falls(k)
  <2>1. clock \in Nat
    BY DEF TypeOK
  <2> QED BY <1>1, <1>5, <2>1 DEF Falls
<1> QED BY <1>1, <1>4, <1>6 DEF InWindow

LEMMA WindowsCountDown ==
  ASSUME TypeOK, Places, Windows, CountDown
  PROVE  Windows'
<1> USE ArithType, LocalsType
<1>1. /\ pc = "loop" /\ pc' = "loop" /\ At \in Live /\ At <= Old
      /\ Active /\ Active' /\ At' = At + 1 /\ Old' = Old
      /\ entry[At].delay > 0
      /\ \A k \in Live : /\ entry'[k].ticket = entry[k].ticket
                         /\ entry'[k].delay = entry[k].delay - (IF k = At THEN 1 ELSE 0)
      /\ newEventNum' = newEventNum /\ due' = due
      /\ clock' = clock /\ moves' = moves
  BY CountDownDoes
<1>2. ~Firing /\ ~Firing' /\ InUpdate /\ InUpdate' /\ Waiting' = Live /\ Waiting = Live
  BY <1>1 DEF Waiting, Live, Firing, InUpdate
<1>3. SUFFICES ASSUME NEW k \in Live, entry'[k].delay >= 0
               PROVE  InWindow(k, entry[k].ticket)'
  BY <1>2 DEF Windows
<1>4. InWindow(k, entry[k].ticket) /\ ~Successors(k) /\ ~Successors(k)'
  BY <1>1, <1>2, <1>3 DEF Windows, Successors
<1>5. /\ Done(k) <=> (k < At \/ k > Old)
      /\ Done(k)' <=> (k < At + 1 \/ k > Old)
  BY <1>1, <1>2 DEF Done
<1>6. Falls(k)' = Falls(k)
  <2>1. clock \in Nat
    BY DEF TypeOK
  <2> QED BY <1>1, <1>5, <2>1 DEF Falls
<1> QED BY <1>1, <1>4, <1>6 DEF InWindow

LEMMA WindowsFrozen ==
  ASSUME TypeOK, Places, Windows, Frozen
  PROVE  Windows'
<1>1. /\ pc = "loop" /\ pc' = "loop" /\ ~Active /\ ~Active' /\ Same
  BY FrozenDoes
<1>2. ~Firing /\ ~Firing' /\ Waiting' = Waiting
  BY <1>1 DEF Same, Firing, Waiting, Live
<1>3. \A k \in Waiting : Done(k) /\ Done(k)' /\ ~Successors(k)'
  BY <1>1 DEF Done, Successors
<1> QED BY <1>1, <1>2, <1>3, WindowsSame

LEMMA WindowsFire ==
  ASSUME TypeOK, Places, Different, Windows, Fire
  PROVE  Windows'
<1>1. /\ pc = "loop" /\ pc' = "event" /\ queued' /\ At \in Live
      /\ Active' = Active /\ At' = At /\ Old' = Old
      /\ entry' = entry /\ newEventNum' = newEventNum /\ clock' = clock
      /\ due' = [due EXCEPT ![entry[At].ticket] = 0]
      /\ moves' = [moves EXCEPT ![entry[At].ticket] = 0]
  BY FireDoes
<1>2. ~Firing /\ Firing' /\ InUpdate /\ InUpdate'
  BY <1>1 DEF Firing, InUpdate
<1>3. Waiting = Live /\ Waiting' = Live \ {At}
  BY <1>1, <1>2 DEF Waiting, Live
<1>4. SUFFICES ASSUME NEW k \in Live, k # At, entry[k].delay >= 0
               PROVE  InWindow(k, entry[k].ticket)'
  BY <1>1, <1>3 DEF Windows
<1>5. InWindow(k, entry[k].ticket) /\ ~Successors(k) /\ ~Successors(k)'
  BY <1>1, <1>3, <1>4 DEF Windows, Successors
<1>6. /\ due'[entry[k].ticket] = due[entry[k].ticket]
      /\ moves'[entry[k].ticket] = moves[entry[k].ticket]
  <2>1. entry[k].ticket # entry[At].ticket /\ entry[k].ticket \in Ticket
    BY <1>1, <1>4, WindowTypes DEF Different
  <2> QED BY <1>1, <2>1 DEF TypeOK
<1>7. Falls(k)' = Falls(k)
  BY <1>1, <1>2 DEF Falls, Done
<1> QED BY <1>1, <1>5, <1>6, <1>7 DEF InWindow

LEMMA WindowsCancel ==
  ASSUME TypeOK, Turn, Different, Windows, CancelNewEvent
  PROVE  Windows'
<1>0. Cancels
  BY CancelCancels
<1>1. PICK gone \in SUBSET Live :
        /\ \E src \in [1..newEventNum' -> Live \ gone] :
             \A k \in 1..newEventNum' : entry'[k] = entry[src[k]]
        /\ cancelled' = cancelled \cup {entry[k].ticket : k \in gone}
  BY <1>0, Zenon DEF Cancels
<1>2. PICK src \in [1..newEventNum' -> Live \ gone] :
        \A k \in 1..newEventNum' : entry'[k] = entry[src[k]]
  BY <1>1, Zenon
<1>3. /\ pc = "idle" /\ pc' = "idle" /\ queued' = queued /\ ~queued
      /\ clock' = clock
  BY DEF CancelNewEvent, Turn
<1>4. ~Firing /\ ~Firing' /\ ~InUpdate /\ ~InUpdate'
  BY <1>3 DEF Firing, InUpdate
<1>5. Waiting = Live /\ Waiting' = 1..newEventNum'
  BY <1>4 DEF Waiting, Live
<1>6. SUFFICES ASSUME NEW k \in 1..newEventNum', entry'[k].delay >= 0
               PROVE  InWindow(k, entry[k].ticket)'
  BY <1>5 DEF Windows
<1>7. src[k] \in Live /\ entry'[k] = entry[src[k]]
  BY <1>2
<1>8. InWindow(src[k], entry[src[k]].ticket) /\ ~Successors(src[k]) /\ ~Successors(k)'
  BY <1>3, <1>5, <1>6, <1>7 DEF Windows, Successors
<1>9. Falls(k)' = Falls(src[k])
  BY <1>3, <1>4, <1>7 DEF Falls, Done
<1> DEFINE t == entry[src[k]].ticket
<1>10. t \in Ticket /\ t \notin cancelled' \ cancelled
  <2>1. t \in 1..tickets /\ src[k] \notin gone
    BY <1>2, <1>7 DEF Different
  <2>2. \A j \in gone : entry[j].ticket # t
    BY <1>7, <2>1 DEF Different
  <2> HIDE DEF t
  <2>3. t \notin {entry[j].ticket : j \in gone}
    BY <2>2
  <2>4. t \notin cancelled' \ cancelled
    BY <1>1, <2>3
  <2>5. t \in 1..MaxTickets
    BY <2>1, BoundsAssumption DEF TypeOK
  <2> QED BY <2>4, <2>5 DEF Ticket
<1>11. due'[t] = due[t] /\ moves'[t] = moves[t]
  BY <1>10 DEF CancelNewEvent
<1> QED BY <1>3, <1>7, <1>8, <1>9, <1>11 DEF InWindow

LEMMA WindowsRemove ==
  ASSUME TypeOK, Turn, Places, Different, Windows, Remove, fix_event_swap_bug
  PROVE  Windows'
<1> USE ArithType, LocalsType
<1>1. /\ pc = "remove" /\ pc' = "loop" /\ Firing /\ At \in Live /\ newEventNum \in Live
      /\ Active' = Active /\ newEventNum' = newEventNum - 1
      /\ entry'[At] = entry[newEventNum]
      /\ \A k \in Live : k # At => entry'[k] = entry[k]
      /\ due' = due /\ clock' = clock
      /\ moves' = IF newEventNum = At THEN moves
                  ELSE [moves EXCEPT ![entry[newEventNum].ticket] = @ + 1]
      /\ Again \/ Shorter \/ Further
  BY RemoveDoes
<1>2. /\ 1 <= At /\ At <= Old /\ Old <= Prev
      /\ newEventNum = Prev \/ newEventNum = Prev + 1
  BY <1>1 DEF Places
<1>3. ~Firing' /\ InUpdate /\ InUpdate' /\ \A k : ~Successors(k)'
  BY <1>1 DEF Firing, InUpdate, Successors
<1>4. Waiting = Live \ {At} /\ Waiting' = Live \ {newEventNum}
  BY <1>1, <1>3 DEF Waiting, Live
<1>5. clock \in Nat
  BY DEF TypeOK
<1>6. SUFFICES ASSUME NEW k \in Live, k < newEventNum, entry'[k].delay >= 0
               PROVE  InWindow(k, entry[k].ticket)'
  BY <1>4 DEF Windows, Live
<1>7. CASE k # At
  <2>1. k \in Waiting /\ entry'[k] = entry[k] /\ ~Successors(k)
    BY <1>1, <1>4, <1>6, <1>7 DEF Successors
  <2>2. InWindow(k, entry[k].ticket)
    BY <1>6, <2>1 DEF Windows
  <2>3. Done(k)' <=> Done(k)
    <3>1. (k < At' \/ k > Old') <=> (k < At \/ k > Old)
      BY <1>1, <1>2, <1>6, <1>7 DEF Again, Shorter, Further
    <3> QED BY <1>1, <1>3, <3>1 DEF Done
  <2>4. Falls(k)' = Falls(k) /\ Falls(k) \in Int
    BY <1>1, <1>5, <2>1, <2>3 DEF Falls
  <2>5. /\ moves'[entry[k].ticket] >= moves[entry[k].ticket]
        /\ moves'[entry[k].ticket] \in Nat /\ moves[entry[k].ticket] \in Nat
        /\ due[entry[k].ticket] \in Int
    <3>1. entry[k].ticket \in Ticket /\ entry[newEventNum].ticket \in Ticket
      BY <1>1, WindowTypes
    <3> QED BY <1>1, <3>1 DEF TypeOK
  <2> QED BY <1>1, <1>3, <2>1, <2>2, <2>4, <2>5 DEF InWindow
<1>8. CASE k = At
  <2> DEFINE t == entry[newEventNum].ticket
             d == entry[newEventNum].delay
  <2>1. newEventNum \in Waiting /\ entry'[k] = entry[newEventNum] /\ d >= 0
    BY <1>1, <1>4, <1>6, <1>8
  <2>2. InWindow(newEventNum, t)
    BY <2>1 DEF Windows
  <2>3. /\ moves'[t] = moves[t] + 1 /\ moves[t] \in Nat /\ due[t] \in Int /\ d \in Int
        /\ due'[t] = due[t]
    <3>1. t \in Ticket
      BY <1>1, WindowTypes
    <3>2. newEventNum # At
      BY <1>6, <1>8
    <3> QED BY <1>1, <3>1, <3>2 DEF TypeOK
  <2>4. /\ Falls(k)' = clock + d + (IF Done(k)' THEN 1 ELSE 0)
        /\ Falls(newEventNum) = clock + d + (IF Done(newEventNum) THEN 1 ELSE 0)
    BY <1>1, <2>1 DEF Falls
  <2>5. entry'[k].ticket = t
    BY <2>1
  <2> HIDE DEF t, d
  <2>6. SUFFICES due[t] <= Falls(k)' /\ Falls(k)' <= due[t] + moves[t] + 1
    BY <1>3, <2>3, <2>5 DEF InWindow
  <2>7. CASE Again
    <3>1. newEventNum = Prev + 1 /\ entry[At].delay < 0 /\ At' = At /\ Old' = Old
      BY <1>1, <1>2, <2>7 DEF Again
    <3>2. CASE Active
      <4>1. due[t] = clock + d
        BY <1>1, <2>2, <3>1, <3>2 DEF InWindow, Successors, d
      <4>2. ~Done(k)'
        BY <1>1, <1>2, <1>3, <1>8, <3>1, <3>2 DEF Done
      <4> QED BY <1>5, <2>3, <2>4, <4>1, <4>2
    <3>3. CASE ~Active
      <4>1. Done(k)' /\ Done(newEventNum) /\ ~Successors(newEventNum)
        BY <1>1, <3>3 DEF Done, Successors
      <4> QED BY <1>5, <2>2, <2>3, <2>4, <4>1 DEF InWindow
    <3> QED BY <3>2, <3>3
  <2>8. CASE Further
    <3>1. Done(k)'
      BY <1>8, <2>8 DEF Further, Done
    <3>2. Done(newEventNum)
      BY <1>1, <1>2, <2>8 DEF Further, Done
    <3>3. ~Successors(newEventNum)
      BY <1>1, <1>2, <2>8 DEF Further, Successors
    <3> QED BY <1>5, <2>2, <2>3, <2>4, <3>1, <3>2, <3>3 DEF InWindow
  <2>9. CASE Shorter
    <3>1. newEventNum = Prev /\ Old = Prev /\ Old' = Old - 1
      BY <1>1, <1>2, <2>9 DEF Shorter
    <3>2. ~Successors(newEventNum)
      BY <3>1 DEF Successors
    <3>3. Done(newEventNum) <=> ~Active
      BY <1>1, <1>2, <1>3, <1>6, <1>8, <3>1 DEF Done
    <3>4. Done(newEventNum) => Done(k)'
      BY <1>1, <3>3 DEF Done
    <3>5. due[t] <= Falls(newEventNum) /\ Falls(newEventNum) <= due[t] + moves[t]
      BY <2>2, <3>2 DEF InWindow
    <3> QED BY <1>5, <2>3, <2>4, <3>4, <3>5
  <2> QED BY <1>1, <2>7, <2>8, <2>9
<1> QED BY <1>7, <1>8

LEMMA WindowsStep ==
  ASSUME TypeOK, Turn, Places, Budget, Different, Windows, Next, fix_event_swap_bug
  PROVE  Windows'
BY WindowsInside, WindowsBetween, WindowsTrigger, WindowsDelay, WindowsUpdate,
   WindowsCountDown, WindowsFrozen, WindowsFire, WindowsCancel, WindowsRemove
   DEF Next, FrameLogic, EventStep, LoopStep

-----------------------------------------------------------------------------
(* The theorems.                                                           *)

LEMMA QueueStep ==
  ASSUME QueueInv, Next, fix_event_swap_bug
  PROVE  QueueInv'
BY TypeStep, ControlType, PlacesStep, BudgetStep, DifferentStep, KeptStep, WindowsStep, PromptStep
   DEF QueueInv

LEMMA FixKept ==
  ASSUME Next
  PROVE  fix_event_swap_bug' = fix_event_swap_bug
BY DEF Next, FrameLogic, EventStep, LoopStep, TriggerEvent, CancelNewEvent, ProcEvent, Message,
   Resume, Chain, Delay, NoSuccessor, UpdateEvents, CountDown, Frozen, Fire, Remove, EndLoop, level

LEMMA QueueStutter ==
  ASSUME QueueInv, UNCHANGED vars
  PROVE  QueueInv'
<1>1. /\ script' = script /\ entry' = entry /\ newEventNum' = newEventNum /\ pc' = pc
      /\ index' = index /\ queued' = queued /\ A' = A /\ newEventNum_old' = newEventNum_old
      /\ prevEventNum' = prevEventNum /\ events_active' = events_active
      /\ interrupt' = interrupt /\ tickets' = tickets /\ fired' = fired
      /\ cancelled' = cancelled /\ clock' = clock /\ due' = due /\ moves' = moves
  BY DEF vars, level, queue, locals, ghosts
<1>2. TypeOK' /\ Turn'
  BY <1>1 DEF QueueInv, TypeOK, Turn
<1>3. /\ Firing' = Firing /\ InUpdate' = InUpdate /\ Aside' = Aside /\ Live' = Live
      /\ At' = At /\ Old' = Old /\ Prev' = Prev /\ Active' = Active
  BY <1>1 DEF Firing, InUpdate, Aside, Live, At, Old, Prev, Active, Left
<1>4. Waiting' = Waiting
  BY <1>3 DEF Waiting
<1>5. \A k : Done(k)' = Done(k) /\ Successors(k)' = Successors(k) /\ Falls(k)' = Falls(k)
  BY <1>1, <1>3 DEF Done, Successors, Falls
<1>6. Places' /\ Budget'
  BY <1>1, <1>3 DEF QueueInv, Places, Budget
<1>7. Different' /\ Kept'
  BY <1>1, <1>3, <1>4 DEF QueueInv, Different, Kept
<1>8. Windows' /\ Prompt'
  BY <1>1, <1>3, <1>4, <1>5 DEF QueueInv, Windows, InWindow, Prompt
<1> QED BY <1>2, <1>6, <1>7, <1>8 DEF QueueInv

\* With fix_event_swap_bug on, UpdateEvents keeps its place in the queue, whatever
\* the events it fires put there and however often a message interrupts it.
THEOREM QueueCorrect == Spec => []EventQueueInv
<1>1. Init => EventQueueInv
  BY InitInv DEF EventQueueInv
<1>2. EventQueueInv /\ [Next]_vars => EventQueueInv'
  <2> SUFFICES ASSUME EventQueueInv, [Next]_vars, fix_event_swap_bug'
               PROVE  QueueInv'
    BY DEF EventQueueInv
  <2>1. CASE Next
    <3>1. fix_event_swap_bug
      BY <2>1, FixKept
    <3> QED BY <2>1, <3>1, QueueStep DEF EventQueueInv
  <2>2. CASE UNCHANGED vars
    <3>1. fix_event_swap_bug
      BY <2>2 DEF vars, level
    <3> QED BY <2>2, <3>1, QueueStutter DEF EventQueueInv
  <2> QED BY <2>1, <2>2
<1> QED BY <1>1, <1>2, PTL DEF Spec

\* Between frames every entry that was ever put in the queue is there once, or has
\* fired once, or was cancelled, in a queue of any length and for any level.
THEOREM EveryEntryOnce == Spec => []OnceEach
<1>1. EventQueueInv => OnceEach
  <2> SUFFICES ASSUME EventQueueInv, fix_event_swap_bug, pc = "idle", NEW t \in 1..tickets
               PROVE  Cardinality({k \in Live : entry[k].ticket = t}) + fired[t]
                        + (IF t \in cancelled THEN 1 ELSE 0) = 1
    BY DEF OnceEach
  <2>1. QueueInv
    BY DEF EventQueueInv
  <2>2. Waiting = Live
    BY DEF Waiting, Firing
  <2>3. t \in Ticket
    BY <2>1, ArithType DEF QueueInv, Ticket
  <2> DEFINE S == {k \in Live : entry[k].ticket = t}
             n == Cardinality(S)
  <2> SUFFICES n + fired[t] + (IF t \in cancelled THEN 1 ELSE 0) = 1
    OBVIOUS
  <2>4. fired[t] = 0 \/ fired[t] = 1
    BY <2>1, <2>3 DEF QueueInv, TypeOK, Kept
  <2>5. CASE fired[t] = 1
    <3>1. t \notin cancelled
      BY <2>1, <2>3, <2>5 DEF QueueInv, Kept
    <3>2. S = {}
      BY <2>1, <2>2, <2>5 DEF QueueInv, Kept
    <3>3. n = 0
      BY <3>2, FS_EmptySet
    <3> HIDE DEF n
    <3> QED BY <2>5, <3>1, <3>3
  <2>6. CASE fired[t] = 0 /\ t \in cancelled
    <3>1. S = {}
      BY <2>1, <2>2, <2>6 DEF QueueInv, Kept
    <3>2. n = 0
      BY <3>1, FS_EmptySet
    <3> HIDE DEF n
    <3> QED BY <2>6, <3>2
  <2>7. CASE fired[t] = 0 /\ t \notin cancelled
    <3>1. PICK k \in Live : entry[k].ticket = t
      BY <2>1, <2>2, <2>7 DEF QueueInv, Kept
    <3>2. S = {k}
      BY <2>1, <3>1 DEF QueueInv, Different
    <3>3. n = 1
      BY <3>2, FS_Singleton
    <3> HIDE DEF n
    <3> QED BY <2>7, <3>3
  <2> QED BY <2>4, <2>5, <2>6, <2>7
<1> QED BY <1>1, QueueCorrect, PTL

\* A delayed event fires in the frame it was put down for, or later by at most the
\* number of times its entry was moved.
THEOREM EventsOnTime == Spec => OnTime
<1>1. EventQueueInv /\ [Next]_vars =>
        [\A t \in 1..tickets :
           fix_event_swap_bug /\ fired'[t] > fired[t] /\ entry[A].delay = 0 =>
             due[t] <= clock /\ clock <= due[t] + moves[t]]_vars
  <2> SUFFICES ASSUME EventQueueInv, Next, NEW t \in 1..tickets, fix_event_swap_bug,
                      fired'[t] > fired[t], entry[A].delay = 0
               PROVE  due[t] <= clock /\ clock <= due[t] + moves[t]
    OBVIOUS
  <2>1. QueueInv /\ TypeOK /\ Places /\ Different
    BY DEF EventQueueInv, QueueInv
  <2>2. t \in Ticket /\ fired[t] \in Nat
    BY <2>1, ArithType DEF TypeOK, Ticket
  <2>3. Fire
    <3>1. fired' = fired => FALSE
      BY <2>2
    <3> QED BY <3>1 DEF Next, FrameLogic, EventStep, LoopStep, TriggerEvent, CancelNewEvent,
       ProcEvent, Message, Resume, Chain, Delay, NoSuccessor, UpdateEvents, CountDown, Frozen,
       Remove, EndLoop
  <2>4. /\ pc = "loop" /\ At \in Live /\ At <= Old /\ (~Active => entry[At].delay < 0)
        /\ fired' = [fired EXCEPT ![entry[At].ticket] = @ + 1]
    BY <2>1, <2>3, FireDoes
  <2>5. At = A
    BY <2>4 DEF At, Left
  <2>6. t = entry[At].ticket
    BY <2>1, <2>2, <2>4 DEF TypeOK
  <2>7. Waiting = Live
    BY <2>4 DEF Waiting, Firing
  <2>8. InWindow(At, t) /\ ~Successors(At)
    BY <2>1, <2>4, <2>5, <2>6, <2>7 DEF QueueInv, Windows, Successors
  <2>9. ~Done(At)
    BY <2>1, <2>4, <2>5, LocalsType DEF Done, InUpdate
  <2>10. Falls(At) = clock
    BY <2>1, <2>5, <2>9 DEF Falls, TypeOK
  <2> QED BY <2>8, <2>10 DEF InWindow
<1>2. Spec => OnTime
  BY <1>1, QueueCorrect, PTL DEF Spec, OnTime
<1> QED BY <1>2

\* When UpdateEvents has come to its end nothing that was triggered directly is left.
THEOREM TriggeredFire == Spec => TriggeredAtOnce
<1>1. EventQueueInv /\ [Next]_vars =>
        [fix_event_swap_bug /\ pc = "loop" /\ pc' = "idle" =>
           \A k \in Live : entry[k].delay >= 0]_vars
  <2> SUFFICES ASSUME EventQueueInv, Next, fix_event_swap_bug, pc = "loop", pc' = "idle",
                      NEW k \in Live
               PROVE  entry[k].delay >= 0
    OBVIOUS
  <2>1. EndLoop
    BY DEF Next, FrameLogic, EventStep, LoopStep, TriggerEvent, CancelNewEvent, ProcEvent, Message,
       Resume, Chain, Delay, NoSuccessor, InSecondHalf, UpdateEvents, CountDown, Frozen, Fire,
       Remove, InLoop
  <2>2. At > Old /\ Waiting = Live /\ InUpdate
    BY <2>1, EndLoopDoes DEF Waiting, Firing, InUpdate
  <2>3. k < At \/ k > Old
    BY <2>2, ArithType, LocalsType DEF EventQueueInv, QueueInv
  <2> QED BY <2>2, <2>3 DEF EventQueueInv, QueueInv, Prompt
<1>2. Spec => TriggeredAtOnce
  BY <1>1, QueueCorrect, PTL DEF Spec, TriggeredAtOnce
<1> QED BY <1>2
=============================================================================
