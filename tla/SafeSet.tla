------------------------------ MODULE SafeSet ------------------------------
(***************************************************************************)
(* SafeSet, the set of active NPCs, whose loops may insert and erase.      *)
(*                                                                         *)
(* Loops over the set nest: the body of one calls code that has a loop of  *)
(* its own.  Erasing leaves iterators of the underlying std::set that may  *)
(* not be used any more; one flag for the whole set says so, which every   *)
(* loop takes over when it begins and gives back when it ends.  UpdateNPCs *)
(* leaves its loop for a message and takes it up again at the same NPC.    *)
(*                                                                         *)
(* An iterator is stale when it does not stand at last_val: its element    *)
(* was erased, or it was made anew.  due is a ghost: the elements it has   *)
(* yet to come to, those that have been in the set since the loop began.   *)
(***************************************************************************)
EXTENDS Naturals, Sequences

CONSTANTS
  Values,    \* the elements
  MaxDepth   \* bound: loops inside each other

ASSUME ValuesAssumption == Values \subseteq Nat \ {0}
ASSUME DepthAssumption  == MaxDepth \in Nat

VARIABLES
  m_set, invalid,
  iters,            \* the iterators of the loops, the innermost last
  interrupt         \* what UpdateNPCs keeps of a loop it has left; A is 0 if none

set_vars == <<m_set, invalid, iters, interrupt>>

iterator == [last_val : Nat, ended : BOOLEAN, prev_invalid : BOOLEAN,
             stale : BOOLEAN, due : SUBSET Values]

NoLoop  == [A |-> 0, due |-> {}]
Top     == iters[Len(iters)]
Outer   == [k \in 1..(Len(iters) - 1) |-> iters[k]]
SetTop(it) == iters' = [iters EXCEPT ![Len(iters)] = it]

\* Code that is in no loop, or in the body of one.
InBody == iters # <<>> => ~Top.ended

Above(v) == {x \in m_set : x > v}

\* What becomes of the iterator it when rest is still before it: it goes to the
\* least element of rest.
Least(S) == {v \in S : \A x \in S : v <= x}
MovedOn(it, rest) ==
  IF rest = {} THEN {[it EXCEPT !.ended = TRUE, !.stale = FALSE]}
  ELSE {[it EXCEPT !.last_val = v, !.stale = FALSE, !.due = @ \ {v}] : v \in Least(rest)}

-----------------------------------------------------------------------------
(* Loops.                                                                  *)

New == [last_val |-> 0, ended |-> FALSE, prev_invalid |-> invalid, stale |-> FALSE,
        due |-> m_set]

Begin ==
  /\ InBody /\ Len(iters) < MaxDepth
  /\ \E it \in MovedOn(New, m_set) : iters' = Append(iters, it)
  /\ invalid' = FALSE
  /\ UNCHANGED <<m_set, interrupt>>

\* Operator ++.  One of an iterator that may not be used has any outcome.
Anywhere == {[Top EXCEPT !.ended = TRUE]} \cup {[Top EXCEPT !.last_val = v] : v \in Values}

Advance ==
  /\ iters # <<>> /\ ~Top.ended
  /\ \E it \in IF Top.stale /\ ~invalid THEN Anywhere ELSE MovedOn(Top, Above(Top.last_val)) :
       SetTop(it)
  /\ UNCHANGED <<m_set, invalid, interrupt>>

Forgotten == invalid                    \* mutant: an inner loop hides what went before it
Restored  == invalid \/ Top.prev_invalid

\* The loop ends, at its end or before.
End ==
  /\ iters # <<>>
  /\ iters' = Outer
  /\ invalid' = Restored
  /\ UNCHANGED <<m_set, interrupt>>

-----------------------------------------------------------------------------
(* UpdateNPCs and messages.                                                *)

Interrupt ==
  /\ Len(iters) = 1 /\ ~Top.ended /\ interrupt = NoLoop
  /\ interrupt' = [A |-> Top.last_val, due |-> Top.due]
  /\ iters' = <<>>
  /\ invalid' = Restored
  /\ UNCHANGED m_set

Resumed == [last_val |-> interrupt.A, ended |-> FALSE, prev_invalid |-> invalid,
            stale |-> TRUE, due |-> interrupt.due]

NotInvalidated == FALSE                 \* mutant: the new iterator goes on from the start
Invalidated    == TRUE

Resume ==
  /\ iters = <<>> /\ interrupt.A # 0 /\ MaxDepth > 0
  /\ iters' = <<Resumed>>
  /\ invalid' = Invalidated
  /\ interrupt' = NoLoop
  /\ UNCHANGED m_set

-----------------------------------------------------------------------------
(* Changes to the set.                                                     *)

Insert(v) ==
  /\ InBody /\ m_set' = m_set \cup {v}
  /\ UNCHANGED <<invalid, iters, interrupt>>

Unnoticed(gone) == invalid              \* mutant: erasing does not say so
Noticed(gone)   == TRUE

Remove(gone) ==
  /\ InBody
  /\ m_set' = m_set \ gone
  /\ iters' = [k \in 1..Len(iters) |->
                 [iters[k] EXCEPT !.stale = @ \/ (~iters[k].ended /\ iters[k].last_val \in gone),
                                  !.due = @ \ gone]]
  /\ interrupt' = [interrupt EXCEPT !.due = @ \ gone]
  /\ invalid' = Noticed(gone)

Erase(v) == Remove({v})
Clear    == Remove(m_set)

-----------------------------------------------------------------------------
SetInit == m_set = {} /\ invalid = FALSE /\ iters = <<>> /\ interrupt = NoLoop

SetNext ==
  \/ Begin \/ Advance \/ End
  \/ Interrupt \/ Resume
  \/ \E v \in Values : Insert(v) \/ Erase(v)
  \/ Clear

SetSpec == SetInit /\ [][SetNext]_set_vars

-----------------------------------------------------------------------------
(* Properties.                                                             *)

\* In the body of a loop last_val, which starts uninitialized, has a value.
SetTypeOK ==
  /\ m_set \in SUBSET Values /\ invalid \in BOOLEAN
  /\ iters \in Seq(iterator) /\ Len(iters) <= MaxDepth
  /\ \A k \in 1..Len(iters) : ~iters[k].ended => iters[k].last_val \in Values
  /\ interrupt \in [A : {0} \cup Values, due : SUBSET Values]

\* No loop uses an iterator whose element was erased, by its own body, by a loop
\* inside it or by what that calls.
NeverStale == iters # <<>> /\ ~Top.ended /\ Top.stale => invalid

\* A loop that comes to its end, interrupted or not, has come to every element
\* that was there when it began and was not erased since.
VisitsAll == \A k \in 1..Len(iters) : iters[k].ended => iters[k].due = {}

\* A step of a loop goes to the least element after the one it was at, among those
\* that are in the set now: no element comes twice, one inserted further on comes.
GoesOn(old, new) ==
  /\ new.last_val # old.last_val =>
       /\ new.last_val \in m_set /\ new.last_val > old.last_val
       /\ \A x \in m_set : x > old.last_val => x >= new.last_val
  /\ new.ended /\ ~old.ended => \A x \in m_set : x <= old.last_val

GoesInOrder ==
  [][\A k \in 1..Len(iters) : Len(iters') = Len(iters) => GoesOn(iters[k], iters'[k])]_set_vars
=============================================================================
