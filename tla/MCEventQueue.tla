---------------------------- MODULE MCEventQueue ----------------------------
(* EventQueue for TLC, on the levels in which only what can be triggered   *)
(* has a successor, and the levels that are one circle without delay; of   *)
(* those that differ in the names of their events, one.                    *)
EXTENDS EventQueue, TLC

CONSTANTS
  Delays,       \* the delays of successors
  Messages      \* bound: events with a message, at most

AnyLevel ==
  {l \in [Events -> [next : Events \cup {NoEvent}, delay : Delays, message : BOOLEAN]] :
     /\ \A e \in Events : l[e].next = NoEvent => l[e].delay = 0
     /\ Cardinality({e \in Events : l[e].message}) <= Messages}

Alone(l) ==
  \A e \in Events : /\ l[e].next \in Sources \cup {NoEvent}
                    /\ e \notin Sources => l[e].next = NoEvent /\ ~l[e].message

Circle(l) ==
  /\ {l[e].next : e \in Events} = Events
  /\ \A e \in Events : l[l[e].next].next # e /\ l[e].delay = 0

\* The same level with other names for its events.
Renamed(l, name) ==
  [e \in Events |->
     LET old == CHOOSE d \in Events : name[d] = e
     IN [l[old] EXCEPT !.next = IF @ = NoEvent THEN NoEvent ELSE name[@]]]

Renamings == {name \in Permutations(Events) : \A e \in Sources : name[e] \in Sources}

Levels ==
  {CHOOSE l \in same : TRUE :
     same \in {{Renamed(l, name) : name \in Renamings} :
                  l \in {x \in AnyLevel : Alone(x) \/ Circle(x)}}}
=============================================================================
