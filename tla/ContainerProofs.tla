--------------------------- MODULE ContainerProofs ---------------------------
(***************************************************************************)
(* Three containers that change while somebody goes through them.  No loop *)
(* over a SafeSet uses an erased element or passes one over, proved for    *)
(* all elements and however deep the loops nest.  Sounds are neither lost, *)
(* repeated nor reordered on their way through the queues of the sound     *)
(* thread, proved for any number of sounds and of starts and ends.  The    *)
(* spatial index finds every block that a place touches, and finds it once,*)
(* proved for all sizes of its screens, nodes and cells, all blocks and    *)
(* layers, and while layers are split, joined and moved.                   *)
(***************************************************************************)
EXTENDS SafeSet, SfxThread, LayerTables, SequenceTheorems, FiniteSetTheorems,
        WellFoundedInduction, TLAPS

-----------------------------------------------------------------------------
(* SafeSet: the invariant.                                                 *)

\* A stale iterator is known to be: the flag is set, or will be when the loops
\* inside have given back what they took over.
Covered ==
  \A k \in 1..Len(iters) :
    ~iters[k].ended /\ iters[k].stale =>
      invalid \/ \E j \in (k + 1)..Len(iters) : iters[j].prev_invalid

\* What is due lies ahead; nothing is at the end, where only the innermost is.
DueAhead ==
  /\ \A k \in 1..Len(iters) :
       /\ iters[k].due \subseteq m_set
       /\ ~iters[k].ended => \A x \in iters[k].due : x > iters[k].last_val
       /\ iters[k].ended => iters[k].due = {} /\ k = Len(iters)
  /\ interrupt.due \subseteq m_set /\ \A x \in interrupt.due : x > interrupt.A

SetInv == SetTypeOK /\ Covered /\ DueAhead

-----------------------------------------------------------------------------
(* The stack of iterators.                                                 *)

LEMMA SetTopProperties ==
  ASSUME NEW S, NEW s \in Seq(S), s # <<>>, NEW e \in S
  PROVE  LET t == [s EXCEPT ![Len(s)] = e]
         IN /\ t \in Seq(S) /\ Len(t) = Len(s) /\ t[Len(s)] = e
            /\ \A k \in 1..(Len(s) - 1) : t[k] = s[k]
<1>1. Len(s) \in Nat /\ Len(s) > 0
  BY EmptySeq, LenProperties
<1>2. Len(s) \in 1..Len(s)
  BY <1>1
<1> QED BY <1>1, <1>2, ExceptSeq

LEMMA OuterProperties ==
  ASSUME NEW S, NEW s \in Seq(S), s # <<>>
  PROVE  LET t == [k \in 1..(Len(s) - 1) |-> s[k]]
         IN /\ t \in Seq(S) /\ Len(t) = Len(s) - 1
            /\ \A k \in 1..(Len(s) - 1) : t[k] = s[k]
<1>1. Len(s) \in Nat /\ Len(s) > 0
  BY EmptySeq, LenProperties
<1>2. Len(s) - 1 \in Nat
  BY <1>1
<1>3. \A k \in 1..(Len(s) - 1) : s[k] \in S
  BY <1>1, ElementOfSeq
<1> QED BY <1>2, <1>3, SeqDef, LenProperties

-----------------------------------------------------------------------------
(* The inductive invariant.                                                *)

LEMMA SetInitInv == SetInit => SetInv
<1> SUFFICES ASSUME SetInit PROVE SetInv
  OBVIOUS
<1>1. iters = <<>> /\ Len(iters) = 0 /\ iters \in Seq(iterator) /\ 1..Len(iters) = {}
  BY EmptySeq DEF SetInit
<1>2. SetTypeOK
  <2>1. Len(iters) <= MaxDepth
    BY <1>1, DepthAssumption
  <2>2. \A k \in 1..Len(iters) : ~iters[k].ended => iters[k].last_val \in Values
    BY <1>1, Zenon
  <2>3. interrupt \in [A : {0} \cup Values, due : SUBSET Values]
    BY DEF SetInit, NoLoop
  <2> QED BY <1>1, <2>1, <2>2, <2>3 DEF SetInit, SetTypeOK
<1>3. Covered /\ DueAhead
  BY <1>1 DEF SetInit, Covered, DueAhead, NoLoop
<1> QED BY <1>2, <1>3 DEF SetInv

\* An iterator that moves on stands at the least of what remains, and what is
\* due to it stays ahead of it.
LEMMA MovedOnProperties ==
  ASSUME NEW it \in iterator, ~it.ended, NEW rest \in SUBSET Values, it.due \subseteq rest,
         NEW next \in MovedOn(it, rest)
  PROVE  /\ next \in iterator /\ ~next.stale /\ next.prev_invalid = it.prev_invalid
         /\ next.due \subseteq it.due
         /\ next.ended => rest = {} /\ next.due = {} /\ next.last_val = it.last_val
         /\ ~next.ended => /\ next.last_val \in rest
                           /\ \A x \in rest : next.last_val <= x
                           /\ \A x \in next.due : x > next.last_val
<1>1. CASE rest = {}
  BY <1>1 DEF MovedOn, iterator
<1>2. CASE rest # {}
  <2>1. PICK v \in Least(rest) : next = [it EXCEPT !.last_val = v, !.stale = FALSE, !.due = @ \ {v}]
    BY <1>2 DEF MovedOn
  <2>2. v \in Values /\ v \in Nat /\ v \in rest /\ \A x \in rest : v <= x
    BY <2>1, ValuesAssumption DEF Least
  <2>3. /\ next \in iterator /\ ~next.stale /\ next.prev_invalid = it.prev_invalid /\ ~next.ended
        /\ next.last_val = v /\ next.due = it.due \ {v}
    BY <2>1, <2>2 DEF iterator
  <2>4. ASSUME NEW x \in next.due PROVE x > v
    <3>1. x \in rest /\ x # v /\ x \in Nat
      BY <2>3, ValuesAssumption
    <3> QED BY <2>2, <3>1
  <2> QED BY <2>2, <2>3, <2>4
<1> QED BY <1>1, <1>2

\* The parts of SetTypeOK and DueAhead about one iterator.
ItInv(it) ==
  /\ it \in iterator /\ it.due \subseteq m_set
  /\ ~it.ended => it.last_val \in Values /\ \A x \in it.due : x > it.last_val
  /\ it.ended => it.due = {}

LEMMA EachIterator ==
  ASSUME SetInv, NEW k \in 1..Len(iters)
  PROVE  ItInv(iters[k]) /\ (iters[k].ended => k = Len(iters))
<1>1. iters[k] \in iterator
  BY ElementOfSeq DEF SetInv, SetTypeOK
<1> QED BY <1>1 DEF SetInv, SetTypeOK, DueAhead, ItInv

LEMMA TopIterator ==
  ASSUME SetInv, iters # <<>>
  PROVE  /\ Len(iters) \in Nat \ {0} /\ Len(iters) \in 1..Len(iters)
         /\ ItInv(Top) /\ (~Top.ended /\ Top.stale => invalid)
<1>1. Len(iters) \in Nat /\ Len(iters) > 0
  BY EmptySeq, LenProperties DEF SetInv, SetTypeOK
<1>2. Len(iters) \in 1..Len(iters)
  BY <1>1
<1>3. ItInv(Top)
  BY <1>2, EachIterator DEF Top
<1>4. ~Top.ended /\ Top.stale => invalid
  <2>1. (Len(iters) + 1)..Len(iters) = {}
    BY <1>1
  <2> QED BY <1>2, <2>1 DEF SetInv, Covered, Top
<1> QED BY <1>1, <1>2, <1>3, <1>4

\* Changes of the loops keep the invariant if they keep it at each iterator.
LEMMA Rebuilt ==
  ASSUME SetInv, UNCHANGED m_set, iters' \in Seq(iterator), Len(iters') <= MaxDepth,
         invalid' \in BOOLEAN,
         \A k \in 1..Len(iters') : ItInv(iters'[k]) /\ (iters'[k].ended => k = Len(iters')),
         interrupt' \in [A : {0} \cup Values, due : SUBSET Values],
         interrupt'.due \subseteq m_set, \A x \in interrupt'.due : x > interrupt'.A,
         Covered'
  PROVE  SetInv'
<1>1. SetTypeOK'
  BY DEF SetInv, SetTypeOK, ItInv
<1>2. DueAhead'
  BY DEF DueAhead, ItInv
<1> QED BY <1>1, <1>2 DEF SetInv

LEMMA BeginInv == SetInv /\ Begin => SetInv'
<1> SUFFICES ASSUME SetInv, Begin PROVE SetInv'
  OBVIOUS
<1>1. PICK it \in MovedOn(New, m_set) : iters' = Append(iters, it)
  BY DEF Begin
<1>2. /\ New \in iterator /\ ~New.ended /\ m_set \in SUBSET Values /\ New.due = m_set
      /\ New.prev_invalid = invalid
  BY DEF New, iterator, SetInv, SetTypeOK
<1>3. it \in iterator /\ ~it.stale /\ it.prev_invalid = invalid /\ ItInv(it)
  <2>1. New.due \subseteq m_set
    BY <1>2
  <2>2. /\ it \in iterator /\ ~it.stale /\ it.prev_invalid = New.prev_invalid
        /\ it.due \subseteq New.due
        /\ it.ended => it.due = {}
        /\ ~it.ended => it.last_val \in m_set /\ \A x \in it.due : x > it.last_val
    BY <1>2, <2>1, MovedOnProperties
  <2> QED BY <1>2, <2>2 DEF ItInv
<1>4. /\ iters \in Seq(iterator) /\ Len(iters) \in Nat
      /\ Len(iters) < MaxDepth /\ MaxDepth \in Nat
  BY DepthAssumption DEF SetInv, SetTypeOK, Begin
<1>5. /\ iters' \in Seq(iterator) /\ Len(iters') = Len(iters) + 1 /\ iters'[Len(iters) + 1] = it
      /\ \A k \in 1..Len(iters) : iters'[k] = iters[k]
  BY <1>1, <1>3, <1>4, AppendProperties
<1>6. \A k \in 1..Len(iters) : ~iters[k].ended
  <2>1. iters # <<>> => ~iters[Len(iters)].ended
    BY DEF Begin, InBody, Top
  <2> QED BY <2>1, <1>4, EachIterator, EmptySeq
<1>7. ASSUME NEW k \in 1..Len(iters')
      PROVE  ItInv(iters'[k]) /\ (iters'[k].ended => k = Len(iters'))
  <2>1. CASE k = Len(iters) + 1
    BY <2>1, <1>3, <1>5
  <2>2. CASE k \in 1..Len(iters)
    BY <2>2, <1>5, <1>6, EachIterator
  <2> QED BY <2>1, <2>2, <1>4, <1>5
<1>8. Covered'
  <2> SUFFICES ASSUME NEW k \in 1..Len(iters'), ~iters'[k].ended, iters'[k].stale
               PROVE  \E j \in (k + 1)..Len(iters') : iters'[j].prev_invalid
    BY DEF Covered
  <2>1. k \in 1..Len(iters) /\ iters'[k] = iters[k]
    BY <1>3, <1>4, <1>5
  <2>2. invalid \/ \E j \in (k + 1)..Len(iters) : iters[j].prev_invalid
    BY <2>1 DEF SetInv, Covered
  <2>3. Len(iters) + 1 \in (k + 1)..Len(iters')
    BY <2>1, <1>4, <1>5
  <2>4. CASE invalid
    BY <2>3, <2>4, <1>3, <1>5
  <2>5. CASE \E j \in (k + 1)..Len(iters) : iters[j].prev_invalid
    <3>1. PICK j \in (k + 1)..Len(iters) : iters[j].prev_invalid
      BY <2>5
    <3>2. j \in (k + 1)..Len(iters') /\ j \in 1..Len(iters)
      BY <2>1, <1>4, <1>5
    <3> QED BY <3>1, <3>2, <1>5
  <2> QED BY <2>2, <2>4, <2>5
<1>9. /\ UNCHANGED <<m_set, interrupt>> /\ invalid' \in BOOLEAN /\ Len(iters') <= MaxDepth
  <2>1. Len(iters') <= MaxDepth
    BY <1>4, <1>5
  <2> QED BY <2>1 DEF Begin
<1>10. /\ interrupt' \in [A : {0} \cup Values, due : SUBSET Values]
       /\ interrupt'.due \subseteq m_set /\ \A x \in interrupt'.due : x > interrupt'.A
  BY <1>9 DEF SetInv, SetTypeOK, DueAhead
<1> QED BY <1>5, <1>7, <1>8, <1>9, <1>10, Rebuilt

\* A step of a loop: the innermost iterator goes to the next element.
LEMMA AdvanceStep ==
  ASSUME SetInv, Advance
  PROVE  \E it \in iterator :
           /\ iters' \in Seq(iterator) /\ Len(iters') = Len(iters) /\ iters'[Len(iters)] = it
           /\ \A k \in 1..(Len(iters) - 1) : iters'[k] = iters[k]
           /\ ~it.stale /\ it.prev_invalid = Top.prev_invalid /\ ItInv(it)
           /\ it.ended => Above(Top.last_val) = {} /\ it.last_val = Top.last_val
           /\ ~it.ended => /\ it.last_val \in Above(Top.last_val)
                           /\ \A x \in Above(Top.last_val) : it.last_val <= x
<1>1. /\ iters # <<>> /\ ~Top.ended /\ iters \in Seq(iterator) /\ m_set \in SUBSET Values
  BY DEF Advance, SetInv, SetTypeOK
<1>2. /\ Len(iters) \in Nat \ {0} /\ Len(iters) \in 1..Len(iters)
      /\ ItInv(Top) /\ (Top.stale => invalid)
  BY <1>1, TopIterator
<1>3. PICK it \in MovedOn(Top, Above(Top.last_val)) : SetTop(it)
  BY <1>2 DEF Advance
<1>4. Top.due \subseteq Above(Top.last_val) /\ Above(Top.last_val) \in SUBSET Values
  BY <1>1, <1>2 DEF ItInv, Above
<1>5. /\ it \in iterator /\ ~it.stale /\ it.prev_invalid = Top.prev_invalid /\ ItInv(it)
  BY <1>1, <1>2, <1>4, MovedOnProperties, ValuesAssumption DEF ItInv
<1>6. /\ it.ended => Above(Top.last_val) = {} /\ it.last_val = Top.last_val
      /\ ~it.ended => /\ it.last_val \in Above(Top.last_val)
                      /\ \A x \in Above(Top.last_val) : it.last_val <= x
  BY <1>1, <1>2, <1>4, MovedOnProperties DEF ItInv
<1>7. /\ iters' \in Seq(iterator) /\ Len(iters') = Len(iters) /\ iters'[Len(iters)] = it
      /\ \A k \in 1..(Len(iters) - 1) : iters'[k] = iters[k]
  BY <1>1, <1>3, <1>5, SetTopProperties DEF SetTop
<1> QED BY <1>5, <1>6, <1>7

LEMMA AdvanceInv == SetInv /\ Advance => SetInv'
<1> SUFFICES ASSUME SetInv, Advance PROVE SetInv'
  OBVIOUS
<1>1. iters # <<>>
  BY DEF Advance
<1>2. Len(iters) \in Nat \ {0} /\ Len(iters) \in 1..Len(iters)
  BY <1>1, TopIterator
<1>3. PICK it \in iterator :
        /\ iters' \in Seq(iterator) /\ Len(iters') = Len(iters) /\ iters'[Len(iters)] = it
        /\ \A k \in 1..(Len(iters) - 1) : iters'[k] = iters[k]
        /\ ~it.stale /\ it.prev_invalid = Top.prev_invalid /\ ItInv(it)
  BY AdvanceStep
<1>4. ~it.stale /\ it.prev_invalid = Top.prev_invalid /\ ItInv(it)
  BY <1>3
<1>5. /\ iters' \in Seq(iterator) /\ Len(iters') = Len(iters) /\ iters'[Len(iters)] = it
      /\ \A k \in 1..(Len(iters) - 1) : iters'[k] = iters[k]
  BY <1>3
<1>6. ASSUME NEW k \in 1..Len(iters')
      PROVE  ItInv(iters'[k]) /\ (iters'[k].ended => k = Len(iters'))
  <2>1. CASE k = Len(iters)
    BY <2>1, <1>4, <1>5
  <2>2. CASE k \in 1..(Len(iters) - 1)
    BY <2>2, <1>2, <1>5, EachIterator
  <2> QED BY <2>1, <2>2, <1>2, <1>5
<1>7. Covered'
  <2> SUFFICES ASSUME NEW k \in 1..Len(iters'), ~iters'[k].ended, iters'[k].stale
               PROVE  invalid' \/ \E j \in (k + 1)..Len(iters') : iters'[j].prev_invalid
    BY DEF Covered
  <2>1. k \in 1..(Len(iters) - 1) /\ k \in 1..Len(iters) /\ iters'[k] = iters[k]
    BY <1>2, <1>4, <1>5
  <2>2. \A j \in 1..Len(iters) : iters'[j].prev_invalid = iters[j].prev_invalid
    BY <1>2, <1>4, <1>5 DEF Top
  <2>3. invalid \/ \E j \in (k + 1)..Len(iters) : iters[j].prev_invalid
    BY <2>1 DEF SetInv, Covered
  <2>4. \A j \in (k + 1)..Len(iters) : j \in 1..Len(iters)
    BY <2>1, <1>2
  <2> QED BY <2>2, <2>3, <2>4, <1>5 DEF Advance
<1>8. /\ UNCHANGED <<m_set, interrupt, invalid>> /\ invalid' \in BOOLEAN /\ Len(iters') <= MaxDepth
  BY <1>5 DEF Advance, SetInv, SetTypeOK
<1>9. /\ interrupt' \in [A : {0} \cup Values, due : SUBSET Values]
       /\ interrupt'.due \subseteq m_set /\ \A x \in interrupt'.due : x > interrupt'.A
  BY <1>8 DEF SetInv, SetTypeOK, DueAhead
<1> QED BY <1>5, <1>6, <1>7, <1>8, <1>9, Rebuilt

LEMMA EndInv == SetInv /\ (End \/ Interrupt) => SetInv'
<1> SUFFICES ASSUME SetInv, End \/ Interrupt PROVE SetInv'
  OBVIOUS
<1>1. iters # <<>> /\ iters \in Seq(iterator) /\ Len(iters) <= MaxDepth /\ MaxDepth \in Nat
  BY EmptySeq, DepthAssumption DEF End, Interrupt, SetInv, SetTypeOK
<1>2. Len(iters) \in Nat \ {0} /\ ItInv(Top)
  BY <1>1, TopIterator
<1>3. /\ iters' \in Seq(iterator) /\ Len(iters') = Len(iters) - 1
      /\ \A k \in 1..(Len(iters) - 1) : iters'[k] = iters[k]
  <2>1. CASE End
    BY <1>1, <2>1, OuterProperties DEF End, Outer
  <2>2. CASE Interrupt
    BY <1>2, <2>2, EmptySeq DEF Interrupt
  <2> QED BY <2>1, <2>2
<1>4. invalid' = (invalid \/ Top.prev_invalid) /\ UNCHANGED m_set
  BY DEF End, Interrupt, Restored
<1>5. ASSUME NEW k \in 1..Len(iters')
      PROVE  ItInv(iters'[k]) /\ (iters'[k].ended => k = Len(iters'))
  <2>1. k \in 1..Len(iters) /\ k # Len(iters) /\ iters'[k] = iters[k]
    BY <1>2, <1>3
  <2> QED BY <2>1, EachIterator
<1>6. Covered'
  <2> SUFFICES ASSUME NEW k \in 1..Len(iters'), ~iters'[k].ended, iters'[k].stale,
                      ~invalid, ~Top.prev_invalid
               PROVE  \E j \in (k + 1)..Len(iters') : iters'[j].prev_invalid
    BY <1>4 DEF Covered
  <2>1. k \in 1..Len(iters) /\ iters'[k] = iters[k]
    BY <1>2, <1>3
  <2>2. PICK j \in (k + 1)..Len(iters) : iters[j].prev_invalid
    BY <2>1 DEF SetInv, Covered
  <2>3. j # Len(iters)
    BY <2>2 DEF Top
  <2>4. j \in (k + 1)..Len(iters') /\ j \in 1..(Len(iters) - 1)
    <3>1. k \in Nat \ {0} /\ j \in Int /\ j > k /\ j < Len(iters)
      BY <2>1, <2>2, <2>3, <1>2
    <3>2. Len(iters') = Len(iters) - 1 /\ Len(iters) \in Nat
      BY <1>2, <1>3
    <3> QED BY <3>1, <3>2
  <2> QED BY <2>2, <2>4, <1>3
<1>7. invalid' \in BOOLEAN /\ Len(iters') <= MaxDepth
  BY <1>1, <1>2, <1>3, <1>4 DEF SetInv, SetTypeOK
<1>8. /\ interrupt' \in [A : {0} \cup Values, due : SUBSET Values]
      /\ interrupt'.due \subseteq m_set /\ \A x \in interrupt'.due : x > interrupt'.A
  <2>1. CASE End
    BY <2>1 DEF End, SetInv, SetTypeOK, DueAhead
  <2>2. CASE Interrupt
    <3>1. interrupt' = [A |-> Top.last_val, due |-> Top.due] /\ ~Top.ended
      BY <2>2 DEF Interrupt
    <3> QED BY <3>1, <1>2 DEF ItInv, iterator
  <2> QED BY <2>1, <2>2
<1> QED BY <1>3, <1>4, <1>5, <1>6, <1>7, <1>8, Rebuilt

LEMMA ResumeInv == SetInv /\ Resume => SetInv'
<1> SUFFICES ASSUME SetInv, Resume PROVE SetInv'
  OBVIOUS
<1>1. /\ iters' = <<Resumed>> /\ invalid' = TRUE /\ interrupt' = NoLoop /\ UNCHANGED m_set
      /\ MaxDepth \in Nat /\ MaxDepth > 0 /\ interrupt.A # 0
  BY DepthAssumption DEF Resume, Invalidated
<1>2. /\ interrupt.A \in Values /\ interrupt.due \in SUBSET Values /\ invalid \in BOOLEAN
      /\ interrupt.due \subseteq m_set /\ \A x \in interrupt.due : x > interrupt.A
  BY <1>1 DEF SetInv, SetTypeOK, DueAhead
<1>3. Resumed \in iterator /\ ItInv(Resumed) /\ ~Resumed.ended
  BY <1>2, ValuesAssumption DEF Resumed, ItInv, iterator
<1>4. /\ iters' \in Seq(iterator) /\ Len(iters') = 1
      /\ \A k \in 1..Len(iters') : iters'[k] = Resumed
  BY <1>1, <1>3
<1>5. Covered' /\ Len(iters') <= MaxDepth /\ invalid' \in BOOLEAN
  BY <1>1, <1>4 DEF Covered
<1>6. /\ interrupt' \in [A : {0} \cup Values, due : SUBSET Values]
      /\ interrupt'.due \subseteq m_set /\ \A x \in interrupt'.due : x > interrupt'.A
  BY <1>1 DEF NoLoop
<1> QED BY <1>1, <1>3, <1>4, <1>5, <1>6, Rebuilt

LEMMA InsertInv == ASSUME SetInv, NEW v \in Values, Insert(v) PROVE SetInv'
<1>1. m_set' = m_set \cup {v} /\ UNCHANGED <<invalid, iters, interrupt>>
  BY DEF Insert
<1>2. SetTypeOK'
  BY <1>1 DEF SetInv, SetTypeOK
<1>3. Covered'
  BY <1>1 DEF SetInv, Covered
<1>4. DueAhead'
  BY <1>1 DEF SetInv, DueAhead
<1> QED BY <1>2, <1>3, <1>4 DEF SetInv

LEMMA RemoveInv == ASSUME SetInv, NEW gone \in SUBSET Values, Remove(gone) PROVE SetInv'
<1> DEFINE it(k) == [iters[k] EXCEPT
                       !.stale = @ \/ (~iters[k].ended /\ iters[k].last_val \in gone),
                       !.due = @ \ gone]
<1>1. /\ m_set' = m_set \ gone /\ iters' = [k \in 1..Len(iters) |-> it(k)]
      /\ interrupt' = [interrupt EXCEPT !.due = @ \ gone] /\ invalid' = TRUE
  BY DEF Remove, Noticed
<1>2. /\ iters \in Seq(iterator) /\ Len(iters) \in Nat /\ Len(iters) <= MaxDepth
      /\ m_set \in SUBSET Values
      /\ interrupt \in [A : {0} \cup Values, due : SUBSET Values]
  BY DEF SetInv, SetTypeOK
<1>3. ASSUME NEW k \in 1..Len(iters)
      PROVE  /\ it(k) \in iterator /\ it(k).due = iters[k].due \ gone
             /\ it(k).last_val = iters[k].last_val /\ it(k).ended = iters[k].ended
  <2>1. iters[k] \in iterator
    BY <1>2, ElementOfSeq
  <2> QED BY <2>1 DEF iterator
<1>4. iters' \in Seq(iterator) /\ Len(iters') = Len(iters)
  <2>1. iters' \in [1..Len(iters) -> iterator]
    BY <1>1, <1>3
  <2>2. iters' \in Seq(iterator)
    BY <2>1, <1>2, SeqDef
  <2> QED BY <2>1, <2>2, <1>2, LenProperties
<1>5. \A k \in 1..Len(iters) :
        /\ iters'[k].due = iters[k].due \ gone
        /\ iters'[k].last_val = iters[k].last_val /\ iters'[k].ended = iters[k].ended
  BY <1>1, <1>3
<1> HIDE DEF it
<1>6. interrupt'.A = interrupt.A /\ interrupt'.due = interrupt.due \ gone
  BY <1>1, <1>2
<1>7. SetTypeOK'
  <2>1. interrupt' \in [A : {0} \cup Values, due : SUBSET Values]
    BY <1>1, <1>2
  <2>2. \A k \in 1..Len(iters') : ~iters'[k].ended => iters'[k].last_val \in Values
    BY <1>4, <1>5 DEF SetInv, SetTypeOK
  <2> QED BY <1>1, <1>2, <1>4, <2>1, <2>2 DEF SetTypeOK
<1>8. Covered'
  BY <1>1 DEF Covered
<1>9. DueAhead'
  <2>1. ASSUME NEW k \in 1..Len(iters')
        PROVE  /\ iters'[k].due \subseteq m_set'
               /\ ~iters'[k].ended => \A x \in iters'[k].due : x > iters'[k].last_val
               /\ iters'[k].ended => iters'[k].due = {} /\ k = Len(iters')
    BY <1>1, <1>4, <1>5 DEF SetInv, DueAhead
  <2>2. interrupt'.due \subseteq m_set' /\ \A x \in interrupt'.due : x > interrupt'.A
    BY <1>1, <1>6 DEF SetInv, DueAhead
  <2> QED BY <2>1, <2>2 DEF DueAhead
<1> QED BY <1>7, <1>8, <1>9 DEF SetInv

LEMMA SetStepInv == SetInv /\ [SetNext]_set_vars => SetInv'
<1> SUFFICES ASSUME SetInv, [SetNext]_set_vars PROVE SetInv'
  OBVIOUS
<1>1. CASE Begin
  BY <1>1, BeginInv
<1>2. CASE Advance
  BY <1>2, AdvanceInv
<1>3. CASE End \/ Interrupt
  BY <1>3, EndInv
<1>4. CASE Resume
  BY <1>4, ResumeInv
<1>5. CASE \E v \in Values : Insert(v)
  BY <1>5, InsertInv
<1>6. CASE \E v \in Values : Erase(v)
  <2>1. PICK v \in Values : Erase(v)
    BY <1>6
  <2> QED BY <2>1, RemoveInv DEF Erase
<1>7. CASE Clear
  <2>1. m_set \in SUBSET Values
    BY DEF SetInv, SetTypeOK
  <2> QED BY <1>7, <2>1, RemoveInv DEF Clear
<1>8. CASE UNCHANGED set_vars
  BY <1>8 DEF set_vars, SetInv, SetTypeOK, Covered, DueAhead
<1> QED BY <1>1, <1>2, <1>3, <1>4, <1>5, <1>6, <1>7, <1>8 DEF SetNext

\* The invariant that the theorems rest on: iterators that may not be used are
\* known, and what is due lies ahead.
THEOREM SetInvariant == SetSpec => []SetInv
<1> QED BY SetInitInv, SetStepInv, PTL DEF SetSpec

-----------------------------------------------------------------------------
(* What it gives.                                                          *)

\* In the body of a loop last_val has been set (iterator::operator* reads it).
THEOREM SetTypeCorrect == SetSpec => []SetTypeOK
<1>1. SetInv => SetTypeOK
  BY DEF SetInv
<1> QED BY <1>1, SetInvariant, PTL

\* Operator ++ never goes on from an element that was erased, however deep the
\* loops nest and whichever of them erased it.
THEOREM NeverStaleCorrect == SetSpec => []NeverStale
<1>1. SetInv => NeverStale
  BY TopIterator DEF NeverStale
<1> QED BY <1>1, SetInvariant, PTL

\* A loop over the active NPCs that comes to its end has passed over none of
\* them, also if a message came in between.
THEOREM VisitsAllCorrect == SetSpec => []VisitsAll
<1>1. SetInv => VisitsAll
  BY DEF SetInv, DueAhead, VisitsAll
<1> QED BY <1>1, SetInvariant, PTL

LEMMA StepGoesOn ==
  ASSUME SetInv, SetNext, NEW k \in 1..Len(iters), Len(iters') = Len(iters)
  PROVE  GoesOn(iters[k], iters'[k])
<1>1. iters \in Seq(iterator) /\ Len(iters) \in Nat /\ m_set \in SUBSET Values
  BY DEF SetInv, SetTypeOK
<1>2. CASE Advance
  <2>1. PICK it \in iterator :
          /\ iters'[Len(iters)] = it /\ \A j \in 1..(Len(iters) - 1) : iters'[j] = iters[j]
          /\ it.ended => Above(Top.last_val) = {} /\ it.last_val = Top.last_val
          /\ ~it.ended => /\ it.last_val \in Above(Top.last_val)
                          /\ \A x \in Above(Top.last_val) : it.last_val <= x
    BY <1>2, AdvanceStep
  <2>2. CASE k = Len(iters)
    <3>1. iters # <<>> /\ ~Top.ended
      BY <1>2 DEF Advance
    <3>2. m_set \subseteq Nat /\ Top.last_val \in Nat
      BY <1>1, <3>1, TopIterator, ValuesAssumption DEF ItInv
    <3> QED BY <3>2, <2>1, <2>2 DEF GoesOn, Above, Top
  <2>3. CASE k \in 1..(Len(iters) - 1)
    BY <2>1, <2>3 DEF GoesOn
  <2> QED BY <2>2, <2>3, <1>1
<1>3. ASSUME NEW gone, Remove(gone)
      PROVE  GoesOn(iters[k], iters'[k])
  <2>1. iters[k] \in iterator
    BY <1>1, ElementOfSeq
  <2>2. iters'[k].last_val = iters[k].last_val /\ iters'[k].ended = iters[k].ended
    BY <1>3, <2>1 DEF Remove, iterator
  <2> QED BY <2>2 DEF GoesOn
<1>4. CASE \E v \in Values : Insert(v)
  BY <1>4 DEF Insert, GoesOn
<1>5. CASE \E v \in Values : Erase(v)
  BY <1>3, <1>5 DEF Erase
<1>6. CASE Clear
  BY <1>3, <1>6 DEF Clear
<1>7. ~Begin
  <2>1. SUFFICES ASSUME Begin PROVE FALSE
    OBVIOUS
  <2>2. PICK it : iters' = Append(iters, it)
    BY <2>1 DEF Begin
  <2>3. Len(iters') = Len(iters) + 1
    BY <1>1, <2>2
  <2> QED BY <1>1, <2>3
<1>8. ~End
  <2>1. SUFFICES ASSUME End PROVE FALSE
    OBVIOUS
  <2>2. Len(iters') = Len(iters) - 1
    BY <1>1, <2>1, OuterProperties DEF End, Outer
  <2> QED BY <1>1, <2>2
<1>9. ~Interrupt /\ ~Resume
  BY <1>1, EmptySeq DEF Interrupt, Resume
<1> QED BY <1>2, <1>4, <1>5, <1>6, <1>7, <1>8, <1>9 DEF SetNext

\* A step of a loop goes to the least active NPC after the current one, among those
\* active now, whatever its body and the loops inside did to the set.
THEOREM GoesInOrderCorrect == SetSpec => GoesInOrder
<1>1. SetInv /\ [SetNext]_set_vars =>
        [\A k \in 1..Len(iters) : Len(iters') = Len(iters) => GoesOn(iters[k], iters'[k])]_set_vars
  BY StepGoesOn
<1> QED BY <1>1, SetInvariant, PTL DEF SetSpec, GoesInOrder

-----------------------------------------------------------------------------
(* SfxThread: the invariant.                                               *)

Ascending(s) == \A k \in 1..Len(s), m \in 1..Len(s) : k < m => s[k] < s[m]
Before(S, T) == \A x \in S, y \in T : x < y

\* Who is where: the thread ends only when told to, and is told only by a game that
\* then waits for it.
Turns ==
  /\ s_sound_thread_quit <=> main \in {"quit", "join"}
  /\ main # "elsewhere" => s_sound_thread
  /\ s_sound_thread /\ thread = "done" => s_sound_thread_quit

\* Only one of the thread's queue and what it waits for has sounds in it; what was
\* played came before what it plays, and that before what the game has queued.
Ordered ==
  /\ Ascending(heard) /\ Ascending(s_sfx_queue_pop) /\ Ascending(s_sfx_queue)
  /\ Sounds(heard) \cup Sounds(s_sfx_queue_pop) \cup Sounds(s_sfx_queue) \cup dropped = 1..asked
  /\ since <= asked
  /\ thread = "done" => s_sfx_queue = <<>>
  /\ thread \in {"check", "wait", "woken"} => s_sfx_queue_pop = <<>>
  /\ thread # "done" =>
       /\ Before(Sounds(heard), Sounds(s_sfx_queue_pop))
       /\ Before(Sounds(heard), Sounds(s_sfx_queue))
       /\ Before(Sounds(s_sfx_queue_pop), Sounds(s_sfx_queue))
       /\ Before({since}, Sounds(s_sfx_queue_pop)) /\ Before({since}, Sounds(s_sfx_queue))

SfxInv == TypeOK /\ Turns /\ Ordered

-----------------------------------------------------------------------------
(* Queues of sounds.                                                       *)

LEMMA NoSounds == Ascending(<<>>) /\ Sounds(<<>>) = {} /\ <<>> \in Seq(Nat)
  BY DEF Ascending, Sounds

LEMMA SoundsAppend ==
  ASSUME NEW s \in Seq(Nat), NEW e \in Nat
  PROVE  /\ Append(s, e) \in Seq(Nat) /\ Sounds(Append(s, e)) = Sounds(s) \cup {e}
         /\ Ascending(s) /\ Before(Sounds(s), {e}) => Ascending(Append(s, e))
<1> DEFINE t == Append(s, e)
<1>1. /\ t \in Seq(Nat) /\ Len(t) = Len(s) + 1 /\ t[Len(s) + 1] = e /\ Len(s) \in Nat
      /\ \A k \in 1..Len(s) : t[k] = s[k]
  BY AppendProperties
<1> HIDE DEF t
<1>2. Sounds(t) = Sounds(s) \cup {e}
  <2>1. ASSUME NEW k \in 1..Len(t) PROVE t[k] \in Sounds(s) \cup {e}
    <3>1. CASE k \in 1..Len(s)
      BY <3>1, <1>1 DEF Sounds
    <3>2. CASE k = Len(s) + 1
      BY <3>2, <1>1
    <3> QED BY <3>1, <3>2, <1>1
  <2>2. ASSUME NEW k \in 1..Len(s) PROVE s[k] \in Sounds(t)
    <3>1. k \in 1..Len(t) /\ t[k] = s[k]
      BY <1>1
    <3> QED BY <3>1 DEF Sounds
  <2>3. Len(s) + 1 \in 1..Len(t) /\ t[Len(s) + 1] = e
    BY <1>1
  <2> QED BY <2>1, <2>2, <2>3 DEF Sounds
<1>3. ASSUME Ascending(s), Before(Sounds(s), {e}) PROVE Ascending(t)
  <2>1. SUFFICES ASSUME NEW k \in 1..Len(t), NEW m \in 1..Len(t), k < m PROVE t[k] < t[m]
    BY DEF Ascending
  <2>2. k \in 1..Len(s) /\ t[k] = s[k]
    BY <1>1, <2>1
  <2>3. CASE m \in 1..Len(s)
    BY <2>1, <2>2, <2>3, <1>1, <1>3 DEF Ascending
  <2>4. CASE m = Len(s) + 1
    <3>1. t[m] = e /\ s[k] \in Sounds(s)
      BY <1>1, <2>2, <2>4 DEF Sounds
    <3> QED BY <3>1, <2>2, <1>3 DEF Before
  <2> QED BY <2>3, <2>4, <1>1
<1> QED BY <1>1, <1>2, <1>3 DEF t

LEMMA SoundsTail ==
  ASSUME NEW s \in Seq(Nat), s # <<>>
  PROVE  /\ Tail(s) \in Seq(Nat) /\ Head(s) \in Nat /\ Sounds(s) = {Head(s)} \cup Sounds(Tail(s))
         /\ Ascending(s) => Ascending(Tail(s)) /\ Before({Head(s)}, Sounds(Tail(s)))
<1> DEFINE t == Tail(s)
<1>1. /\ t \in Seq(Nat) /\ Len(s) \in Nat \ {0} /\ Len(t) = Len(s) - 1 /\ Head(s) = s[1]
      /\ Head(s) \in Nat /\ \A k \in 1..Len(t) : t[k] = s[k + 1]
  BY HeadTailProperties, EmptySeq, LenProperties
<1> HIDE DEF t
<1>2. Sounds(s) = {s[1]} \cup Sounds(t)
  <2>1. ASSUME NEW k \in 1..Len(s) PROVE s[k] \in {s[1]} \cup Sounds(t)
    <3>1. CASE k # 1
      <4>1. k - 1 \in 1..Len(t) /\ t[k - 1] = s[k]
        BY <3>1, <1>1
      <4> QED BY <4>1 DEF Sounds
    <3> QED BY <3>1
  <2>2. ASSUME NEW k \in 1..Len(t) PROVE t[k] \in Sounds(s)
    <3>1. k + 1 \in 1..Len(s) /\ t[k] = s[k + 1]
      BY <1>1
    <3> QED BY <3>1 DEF Sounds
  <2>3. 1 \in 1..Len(s)
    BY <1>1
  <2> QED BY <2>1, <2>2, <2>3 DEF Sounds
<1>3. ASSUME Ascending(s) PROVE Ascending(t) /\ Before({s[1]}, Sounds(t))
  <2>1. ASSUME NEW k \in 1..Len(t)
        PROVE  k + 1 \in 1..Len(s) /\ t[k] = s[k + 1] /\ 1 \in 1..Len(s) /\ s[1] < t[k]
    BY <1>1, <1>3 DEF Ascending
  <2>2. Ascending(t)
    BY <2>1, <1>3 DEF Ascending
  <2> QED BY <2>1, <2>2 DEF Before, Sounds
<1> QED BY <1>1, <1>2, <1>3 DEF t

-----------------------------------------------------------------------------
(* The inductive invariant.                                                *)

LEMMA InitInv == Init => SfxInv
<1> SUFFICES ASSUME Init PROVE SfxInv
  OBVIOUS
<1>1. TypeOK /\ Turns
  BY NoSounds DEF Init, TypeOK, Turns
<1>2. Ordered
  BY NoSounds DEF Init, Ordered
<1> QED BY <1>1, <1>2 DEF SfxInv

LEMMA SoundsKnown ==
  ASSUME SfxInv
  PROVE  /\ asked \in Nat /\ since \in Nat /\ heard \in Seq(Nat)
         /\ s_sfx_queue \in Seq(Nat) /\ s_sfx_queue_pop \in Seq(Nat)
         /\ \A x \in Sounds(heard) \cup Sounds(s_sfx_queue) \cup Sounds(s_sfx_queue_pop) :
              x \in Nat /\ x <= asked
<1>1. asked \in Nat
  BY DEF SfxInv, TypeOK
<1>2. \A x \in 1..asked : x \in Nat /\ x <= asked
  BY <1>1
<1> QED BY <1>1, <1>2 DEF SfxInv, TypeOK, Ordered

LEMMA PlaySfxInv == SfxInv /\ PlaySfx => SfxInv'
<1> SUFFICES ASSUME SfxInv, PlaySfx PROVE SfxInv'
  OBVIOUS
<1> DEFINE e == asked + 1
<1>1. /\ asked' = e /\ e \in Nat /\ main = "elsewhere" /\ ~s_sound_thread_quit
      /\ UNCHANGED <<starting, s_sound_thread, thread, s_sfx_queue_pop, s_sound_thread_quit,
                     since, dropped>>
  BY SoundsKnown DEF PlaySfx, SfxInv, Turns
<1>2. 1..asked' = (1..asked) \cup {e}
  BY <1>1, SoundsKnown
<1>3. /\ Before(Sounds(heard), {e}) /\ Before(Sounds(s_sfx_queue_pop), {e})
      /\ Before(Sounds(s_sfx_queue), {e}) /\ Before({since}, {e})
  BY SoundsKnown DEF Before, SfxInv, Ordered
<1>4. CASE s_sound_thread
  <2>1. s_sfx_queue' = Append(s_sfx_queue, e) /\ main' = "signal" /\ UNCHANGED heard
    BY <1>1, <1>4 DEF PlaySfx
  <2>2. /\ s_sfx_queue' \in Seq(Nat) /\ Sounds(s_sfx_queue') = Sounds(s_sfx_queue) \cup {e}
        /\ Ascending(s_sfx_queue')
    BY <1>1, <1>3, <2>1, SoundsKnown, SoundsAppend DEF SfxInv, Ordered
  <2>3. thread # "done"
    BY <1>1, <1>4 DEF SfxInv, Turns
  <2>4. TypeOK' /\ Turns'
    BY <1>1, <1>4, <2>1, <2>2 DEF SfxInv, TypeOK, Turns
  <2>5. Ordered'
    <3>1. since' <= asked'
      BY <1>1, SoundsKnown DEF SfxInv, Ordered
    <3>2. /\ Before(Sounds(heard'), Sounds(s_sfx_queue'))
          /\ Before(Sounds(s_sfx_queue_pop'), Sounds(s_sfx_queue'))
          /\ Before({since'}, Sounds(s_sfx_queue'))
      BY <1>1, <1>3, <2>1, <2>2, <2>3 DEF SfxInv, Ordered, Before
    <3> QED BY <1>1, <1>2, <2>1, <2>2, <2>3, <3>1, <3>2 DEF SfxInv, Ordered
  <2> QED BY <2>4, <2>5 DEF SfxInv
<1>5. CASE ~s_sound_thread
  <2>1. heard' = Append(heard, e) /\ UNCHANGED <<main, s_sfx_queue>>
    BY <1>1, <1>5 DEF PlaySfx
  <2>2. heard' \in Seq(Nat) /\ Sounds(heard') = Sounds(heard) \cup {e} /\ Ascending(heard')
    BY <1>1, <1>3, <2>1, SoundsKnown, SoundsAppend DEF SfxInv, Ordered
  <2>3. thread = "done"
    BY <1>5 DEF SfxInv, TypeOK
  <2>4. TypeOK' /\ Turns'
    BY <1>1, <1>5, <2>1, <2>2 DEF SfxInv, TypeOK, Turns
  <2>5. Ordered'
    <3>1. since' <= asked'
      BY <1>1, SoundsKnown DEF SfxInv, Ordered
    <3> QED BY <1>1, <1>2, <2>1, <2>2, <2>3, <3>1 DEF SfxInv, Ordered
  <2> QED BY <2>4, <2>5 DEF SfxInv
<1> QED BY <1>4, <1>5

LEMMA SignalInv == SfxInv /\ Signal => SfxInv'
<1> SUFFICES ASSUME SfxInv, Signal PROVE SfxInv'
  OBVIOUS
<1>1. /\ \/ main = "signal" /\ main' = "elsewhere"
         \/ main = "quit" /\ main' = "join"
      /\ thread' = IF thread = "wait" THEN "woken" ELSE thread
      /\ UNCHANGED <<starting, s_sound_thread, s_sfx_queue, s_sfx_queue_pop, s_sound_thread_quit,
                     asked, heard, since, dropped>>
  BY DEF Signal, Woken, queues, ghosts
<1>2. TypeOK' /\ Turns'
  BY <1>1 DEF SfxInv, TypeOK, Turns
<1>3. Ordered'
  BY <1>1 DEF SfxInv, TypeOK, Ordered
<1> QED BY <1>2, <1>3 DEF SfxInv

LEMMA EndSfxThreadInv == SfxInv /\ EndSfxThread => SfxInv'
<1> SUFFICES ASSUME SfxInv, EndSfxThread PROVE SfxInv'
  OBVIOUS
<1>1. /\ s_sound_thread /\ starting' \in BOOLEAN /\ s_sound_thread_quit' = TRUE /\ main' = "quit"
      /\ UNCHANGED <<s_sound_thread, thread, s_sfx_queue, s_sfx_queue_pop, asked, heard, since,
                     dropped>>
  BY DEF EndSfxThread, queues, ghosts
<1>2. TypeOK' /\ Turns'
  BY <1>1 DEF SfxInv, TypeOK, Turns
<1>3. Ordered'
  BY <1>1 DEF SfxInv, Ordered
<1> QED BY <1>2, <1>3 DEF SfxInv

\* A new thread finds both queues empty.
LEMMA StartThreadInv ==
  ASSUME SfxInv, thread = "done", StartThread, UNCHANGED <<s_sfx_queue, asked, heard>>,
         main' = "elsewhere", s_sound_thread_quit' = FALSE, starting' \in BOOLEAN
  PROVE  SfxInv'
<1>1. s_sfx_queue = <<>> /\ s_sfx_queue' = <<>>
  BY DEF SfxInv, Ordered
<1>2. CASE s_sound_thread'
  <2>1. /\ s_sound_thread' = TRUE /\ thread' = "check" /\ s_sfx_queue_pop' = <<>>
        /\ since' = asked /\ dropped' = dropped \cup Sounds(s_sfx_queue_pop)
    BY <1>2 DEF StartThread, Cleared
  <2>2. dropped' \subseteq Nat /\ asked \in Nat
    BY <2>1, SoundsKnown DEF SfxInv, TypeOK
  <2>3. TypeOK' /\ Turns'
    BY <1>1, <2>1, <2>2, NoSounds DEF SfxInv, TypeOK, Turns
  <2>4. Ordered'
    BY <1>1, <2>1, <2>2, NoSounds DEF SfxInv, Ordered, Before
  <2> QED BY <2>3, <2>4 DEF SfxInv
<1>3. CASE ~s_sound_thread'
  <2>1. s_sound_thread' = FALSE /\ UNCHANGED <<thread, s_sfx_queue_pop, since, dropped>>
    BY <1>3 DEF StartThread
  <2>2. TypeOK' /\ Turns'
    BY <1>1, <2>1 DEF SfxInv, TypeOK, Turns
  <2>3. Ordered'
    BY <1>1, <2>1 DEF SfxInv, Ordered
  <2> QED BY <2>2, <2>3 DEF SfxInv
<1> QED BY <1>2, <1>3

LEMMA StartSfxThreadInv == SfxInv /\ StartSfxThread => SfxInv'
<1> SUFFICES ASSUME SfxInv, StartSfxThread PROVE SfxInv'
  OBVIOUS
<1>1. /\ thread = "done" /\ StartThread /\ UNCHANGED <<s_sfx_queue, asked, heard>>
      /\ main' = "elsewhere" /\ s_sound_thread_quit' = FALSE /\ starting' \in BOOLEAN
  BY DEF StartSfxThread, SfxInv, TypeOK, Turns
<1> QED BY <1>1, StartThreadInv

LEMMA JoinInv == SfxInv /\ Join => SfxInv'
<1> SUFFICES ASSUME SfxInv, Join PROVE SfxInv'
  OBVIOUS
<1>1. /\ thread = "done" /\ s_sound_thread_quit' = FALSE /\ main' = "elsewhere"
      /\ starting' = FALSE /\ UNCHANGED <<s_sfx_queue, asked, heard>>
  BY DEF Join, Joined
<1>2. CASE starting
  BY <1>1, <1>2, StartThreadInv DEF Join
<1>3. CASE ~starting
  <2>1. s_sound_thread' = FALSE /\ UNCHANGED <<thread, s_sfx_queue_pop, since, dropped>>
    BY <1>3 DEF Join
  <2>2. TypeOK' /\ Turns'
    BY <1>1, <2>1 DEF SfxInv, TypeOK, Turns
  <2>3. Ordered'
    BY <1>1, <2>1 DEF SfxInv, Ordered
  <2> QED BY <2>2, <2>3 DEF SfxInv
<1> QED BY <1>2, <1>3

LEMMA WaitInv == SfxInv /\ (Check \/ Spurious) => SfxInv'
<1> SUFFICES ASSUME SfxInv, Check \/ Spurious PROVE SfxInv'
  OBVIOUS
<1>1. /\ thread \in {"check", "wait"} /\ thread' \in {"wait", "woken"}
      /\ UNCHANGED <<main, starting, s_sound_thread, s_sfx_queue, s_sfx_queue_pop,
                     s_sound_thread_quit, asked, heard, since, dropped>>
  BY DEF Check, Spurious, queues, ghosts
<1>2. TypeOK' /\ Turns'
  BY <1>1 DEF SfxInv, TypeOK, Turns
<1>3. Ordered'
  BY <1>1 DEF SfxInv, Ordered
<1> QED BY <1>2, <1>3 DEF SfxInv

LEMMA TakeInv == SfxInv /\ Take => SfxInv'
<1> SUFFICES ASSUME SfxInv, Take PROVE SfxInv'
  OBVIOUS
<1>1. /\ thread = "woken" /\ s_sfx_queue_pop' = s_sfx_queue /\ s_sfx_queue' = <<>>
      /\ thread' = (IF s_sound_thread_quit THEN "done" ELSE "play") /\ s_sfx_queue_pop = <<>>
      /\ UNCHANGED <<main, starting, s_sound_thread, s_sound_thread_quit, asked, heard, since,
                     dropped>>
  BY DEF Take, Swapped, SfxInv, Ordered, ghosts
<1>2. TypeOK' /\ Turns'
  BY <1>1 DEF SfxInv, TypeOK, Turns
<1>3. Ordered'
  BY <1>1, NoSounds DEF SfxInv, Ordered, Before
<1> QED BY <1>2, <1>3 DEF SfxInv

LEMMA PlayInv == SfxInv /\ Play => SfxInv'
<1> SUFFICES ASSUME SfxInv, Play PROVE SfxInv'
  OBVIOUS
<1>1. /\ thread = "play"
      /\ UNCHANGED <<main, starting, s_sound_thread, s_sfx_queue, s_sound_thread_quit, asked,
                     since, dropped>>
  BY DEF Play
<1>2. CASE s_sfx_queue_pop = <<>>
  <2>1. thread' = "check" /\ UNCHANGED <<heard, s_sfx_queue_pop>>
    BY <1>2 DEF Play
  <2>2. TypeOK' /\ Turns'
    BY <1>1, <2>1 DEF SfxInv, TypeOK, Turns
  <2>3. Ordered'
    BY <1>1, <1>2, <2>1 DEF SfxInv, Ordered
  <2> QED BY <2>2, <2>3 DEF SfxInv
<1>3. CASE s_sfx_queue_pop # <<>>
  <2> DEFINE e == Head(s_sfx_queue_pop)
  <2>1. heard' = Append(heard, e) /\ s_sfx_queue_pop' = Tail(s_sfx_queue_pop) /\ UNCHANGED thread
    BY <1>3 DEF Play, Rest
  <2>2. /\ s_sfx_queue_pop' \in Seq(Nat) /\ e \in Nat
        /\ Sounds(s_sfx_queue_pop) = {e} \cup Sounds(s_sfx_queue_pop')
        /\ Ascending(s_sfx_queue_pop') /\ Before({e}, Sounds(s_sfx_queue_pop'))
    BY <1>3, <2>1, SoundsKnown, SoundsTail DEF SfxInv, Ordered
  <2>3. Before(Sounds(heard), {e}) /\ Before({e}, Sounds(s_sfx_queue))
    BY <1>1, <2>2 DEF SfxInv, Ordered, Before
  <2>4. heard' \in Seq(Nat) /\ Sounds(heard') = Sounds(heard) \cup {e} /\ Ascending(heard')
    BY <2>1, <2>2, <2>3, SoundsKnown, SoundsAppend DEF SfxInv, Ordered
  <2> HIDE DEF e
  <2>5. TypeOK' /\ Turns'
    BY <1>1, <2>1, <2>2, <2>4 DEF SfxInv, TypeOK, Turns
  <2>6. Ordered'
    <3>1. /\ Before(Sounds(heard'), Sounds(s_sfx_queue_pop'))
          /\ Before(Sounds(heard'), Sounds(s_sfx_queue'))
          /\ Before(Sounds(s_sfx_queue_pop'), Sounds(s_sfx_queue'))
          /\ Before({since'}, Sounds(s_sfx_queue_pop')) /\ Before({since'}, Sounds(s_sfx_queue'))
      BY <1>1, <2>2, <2>3, <2>4 DEF SfxInv, Ordered, Before
    <3>2. Sounds(heard') \cup Sounds(s_sfx_queue_pop') \cup Sounds(s_sfx_queue') \cup dropped'
            = 1..asked'
      BY <1>1, <2>2, <2>4 DEF SfxInv, Ordered
    <3> QED BY <1>1, <2>1, <2>2, <2>4, <3>1, <3>2 DEF SfxInv, Ordered
  <2> QED BY <2>5, <2>6 DEF SfxInv
<1> QED BY <1>2, <1>3

LEMMA StepInv == SfxInv /\ [Next]_vars => SfxInv'
<1>1. SfxInv /\ UNCHANGED vars => SfxInv'
  BY DEF vars, queues, ghosts, SfxInv, TypeOK, Turns, Ordered
<1> QED BY <1>1, PlaySfxInv, SignalInv, EndSfxThreadInv, StartSfxThreadInv, JoinInv, WaitInv,
           TakeInv, PlayInv DEF Next, Game, Finish, Thread

\* The invariant that the theorems rest on.
THEOREM SfxInvariant == Spec => []SfxInv
<1> QED BY InitInv, StepInv, PTL DEF Spec

-----------------------------------------------------------------------------
(* What it gives.                                                          *)

\* The game plays sounds itself only when there is no thread (PlaySfx,
\* EndSfxThread).
THEOREM TypeCorrect == Spec => []TypeOK
<1>1. SfxInv => TypeOK
  BY DEF SfxInv
<1> QED BY <1>1, SfxInvariant, PTL

\* Sounds are heard in the order of the calls of PlaySfx, none twice.
THEOREM InOrderCorrect == Spec => []InOrder
<1>1. SfxInv => InOrder
  BY DEF SfxInv, Ordered, Ascending, InOrder
<1> QED BY <1>1, SfxInvariant, PTL

\* What a thread gave up when it ended, the next one does not play
\* (s_sfx_queue_pop is static and cleared at the start).
THEOREM NoneLateCorrect == Spec => []NoneLate
<1>1. SfxInv => NoneLate
  <2> SUFFICES ASSUME SfxInv, thread # "done",
                      NEW s \in Sounds(s_sfx_queue) \cup Sounds(s_sfx_queue_pop)
               PROVE  s > since
    BY DEF NoneLate
  <2>1. since < s
    BY DEF SfxInv, Ordered, Before
  <2>2. since \in Nat /\ s \in Nat
    BY SoundsKnown
  <2> QED BY <2>1, <2>2
<1> QED BY <1>1, SfxInvariant, PTL

\* Every sound asked for was played, waits in a queue or was given up.
THEOREM NoneLostCorrect == Spec => []NoneLost
<1>1. SfxInv => NoneLost
  BY DEF SfxInv, Ordered, NoneLost
<1> QED BY <1>1, SfxInvariant, PTL

-----------------------------------------------------------------------------
(* The walk of insert, erase and query through the screens comes to every  *)
(* cell of the rectangle that is in one of them, with the axes on which    *)
(* the cell continues the rectangle.                                       *)

LEMMA Times ==
  ASSUME NEW n \in Nat, NEW a \in Int, NEW b \in Int
  PROVE  /\ (a + b) * n = a * n + b * n /\ (a - b) * n = a * n - b * n
         /\ a * n \in Int
         /\ a <= b => a * n <= b * n
OBVIOUS

LEMMA DivIs ==
  ASSUME NEW n \in Nat \ {0}, NEW x \in Int
  PROVE  /\ x \div n \in Int
         /\ (x \div n) * n <= x /\ x < (x \div n) * n + n
OBVIOUS

\* Which multiple x lies above.
LEMMA DivUnique ==
  ASSUME NEW n \in Nat \ {0}, NEW x \in Int, NEW q \in Int
  PROVE  x \div n = q <=> q * n <= x /\ x < q * n + n
<1>1. CASE x \div n < q
  <2>1. (x \div n + 1) * n <= q * n /\ (x \div n + 1) * n = (x \div n) * n + n
    BY <1>1, DivIs, Times
  <2> QED BY <1>1, <2>1, DivIs, Times
<1>2. CASE q < x \div n
  <2>1. (q + 1) * n <= (x \div n) * n /\ (q + 1) * n = q * n + n
    BY <1>2, DivIs, Times
  <2> QED BY <1>2, <2>1, DivIs, Times
<1> QED BY <1>1, <1>2, DivIs

\* One axis of the walk: l and r in screens, and the part of it in the one at col.
AxisFrom(l)     == l \div ScreenSize
AxisTo(r)       == (r + ScreenSize - 1) \div ScreenSize
AxisLow(l, col) == IF col = AxisFrom(l) THEN l - AxisFrom(l) * ScreenSize ELSE 0
AxisHigh(r, col) == IF col = AxisTo(r) - 1 THEN r - (AxisTo(r) - 1) * ScreenSize ELSE ScreenSize

LEMMA AxisIs ==
  ASSUME NEW l \in Int, NEW r \in Int, NEW col \in Int, NEW x \in Int
  PROVE  /\ (col \in AxisFrom(l)..(AxisTo(r) - 1)
               /\ x - col * ScreenSize \in AxisLow(l, col)..(AxisHigh(r, col) - 1))
              <=> (x \in l..(r - 1) /\ x \div ScreenSize = col)
         /\ x \in l..(r - 1) /\ x \div ScreenSize = col =>
              (col # AxisFrom(l) \/ x - col * ScreenSize # AxisLow(l, col) <=> x # l)
         /\ AxisLow(l, col) \in Int /\ AxisHigh(r, col) \in Int
<1> DEFINE n  == ScreenSize
           lc == AxisFrom(l)
           rc == AxisTo(r)
           il == AxisLow(l, col)
           ir == AxisHigh(r, col)
<1>0. n \in Nat \ {0}
  BY ScreenAssumption
<1> HIDE DEF n
<1>1. lc \in Int /\ lc * n \in Int /\ lc * n <= l /\ l < lc * n + n
  BY <1>0, DivIs, Times DEF AxisFrom, n
<1>2. rc \in Int /\ rc * n \in Int /\ rc * n <= r + n - 1 /\ r + n - 1 < rc * n + n
  <2>1. r + n - 1 \in Int
    BY <1>0
  <2> QED BY <1>0, <2>1, DivIs, Times DEF AxisTo, n
<1>a. /\ il = IF col = lc THEN l - lc * n ELSE 0
      /\ ir = IF col = rc - 1 THEN r - (rc - 1) * n ELSE n
  BY DEF AxisLow, AxisHigh, n
<1> HIDE DEF lc, rc, il, ir
<1>3. /\ (rc - 1) * n = rc * n - n /\ (rc - 1) * n \in Int
      /\ (lc + 1) * n = lc * n + n /\ (col + 1) * n = col * n + n
      /\ col * n \in Int
  BY <1>0, <1>1, <1>2, Times
<1>4. /\ lc + 1 <= col => (lc + 1) * n <= col * n
      /\ col + 1 <= rc - 1 => (col + 1) * n <= (rc - 1) * n
      /\ col + 1 <= lc => (col + 1) * n <= lc * n
      /\ rc <= col => rc * n <= col * n
  BY <1>0, <1>1, <1>2, Times
<1>5. x \div n = col <=> col * n <= x /\ x < col * n + n
  BY <1>0, DivUnique
<1>6. col \in lc..(rc - 1) /\ x - col * n \in il..(ir - 1) => x \in l..(r - 1) /\ x \div n = col
  BY <1>0, <1>a, <1>1, <1>2, <1>3, <1>4, <1>5
<1>7. x \in l..(r - 1) /\ x \div n = col => col \in lc..(rc - 1) /\ x - col * n \in il..(ir - 1)
  BY <1>0, <1>a, <1>1, <1>2, <1>3, <1>4, <1>5
<1>8. x \in l..(r - 1) /\ x \div n = col => (col # lc \/ x - col * n # il <=> x # l)
  BY <1>0, <1>a, <1>1, <1>2, <1>3, <1>4, <1>5
<1>9. il \in Int /\ ir \in Int
  BY <1>0, <1>a, <1>1, <1>2, <1>3
<1> QED BY <1>6, <1>7, <1>8, <1>9 DEF n, lc, rc, il, ir

RectCells(rect)  == (rect.l..(rect.r - 1)) \X (rect.t..(rect.b - 1))
Axes(rect, cell) == Continued(cell[1] # rect.l, cell[2] # rect.t)
Screen(cell)     == <<cell[1] \div ScreenSize, cell[2] \div ScreenSize>>

LEMMA CellsOfIs ==
  ASSUME NEW screens \in SUBSET (Int \X Int), NEW cell
  PROVE  cell \in CellsOf(screens) <=> cell \in Int \X Int /\ Screen(cell) \in screens
<1>0. ScreenSize \in Nat \ {0}
  BY ScreenAssumption
<1>1. ASSUME cell \in CellsOf(screens)
      PROVE  cell \in Int \X Int /\ Screen(cell) \in screens
  <2>1. PICK s \in screens : /\ cell \in (s[1] * ScreenSize..(s[1] + 1) * ScreenSize - 1) \X
                                         (s[2] * ScreenSize..(s[2] + 1) * ScreenSize - 1)
    BY <1>1 DEF CellsOf
  <2>2. s = <<s[1], s[2]>> /\ s[1] \in Int /\ s[2] \in Int
    OBVIOUS
  <2>3. /\ s[1] * ScreenSize \in Int /\ (s[1] + 1) * ScreenSize = s[1] * ScreenSize + ScreenSize
        /\ s[2] * ScreenSize \in Int /\ (s[2] + 1) * ScreenSize = s[2] * ScreenSize + ScreenSize
    BY <1>0, <2>2, Times
  <2>4. cell \in Int \X Int
    BY <1>0, <2>1, <2>2, <2>3
  <2>5. /\ cell[1] \in Int /\ s[1] * ScreenSize <= cell[1] /\ cell[1] < s[1] * ScreenSize + ScreenSize
        /\ cell[2] \in Int /\ s[2] * ScreenSize <= cell[2] /\ cell[2] < s[2] * ScreenSize + ScreenSize
    BY <1>0, <2>1, <2>3, <2>4
  <2>6. cell[1] \div ScreenSize = s[1]
    BY <1>0, <2>2, <2>5, DivUnique
  <2>7. cell[2] \div ScreenSize = s[2]
    BY <1>0, <2>2, <2>5, DivUnique
  <2> QED BY <2>2, <2>4, <2>6, <2>7 DEF Screen
<1>2. ASSUME cell \in Int \X Int, Screen(cell) \in screens
      PROVE  cell \in CellsOf(screens)
  <2> DEFINE s == Screen(cell)
  <2>1. s[1] = cell[1] \div ScreenSize /\ s[2] = cell[2] \div ScreenSize
    BY DEF Screen
  <2>2. /\ s[1] \in Int /\ s[1] * ScreenSize <= cell[1] /\ cell[1] < s[1] * ScreenSize + ScreenSize
        /\ s[2] \in Int /\ s[2] * ScreenSize <= cell[2] /\ cell[2] < s[2] * ScreenSize + ScreenSize
    BY <1>0, <1>2, <2>1, DivIs
  <2>3. /\ s[1] * ScreenSize \in Int /\ (s[1] + 1) * ScreenSize = s[1] * ScreenSize + ScreenSize
        /\ s[2] * ScreenSize \in Int /\ (s[2] + 1) * ScreenSize = s[2] * ScreenSize + ScreenSize
    BY <1>0, <2>2, Times
  <2> HIDE DEF s
  <2>4. cell \in (s[1] * ScreenSize..(s[1] + 1) * ScreenSize - 1) \X
                 (s[2] * ScreenSize..(s[2] + 1) * ScreenSize - 1)
    BY <1>0, <1>2, <2>2, <2>3
  <2> QED BY <1>2, <2>4 DEF CellsOf, s
<1> QED BY <1>1, <1>2

LEMMA WalkIs ==
  ASSUME NEW rect \in Rects, NEW screens \in SUBSET (Int \X Int), NEW w
  PROVE  w \in Walk(rect, Touched(rect) \cap screens) <=>
           \E cell \in RectCells(rect) \cap CellsOf(screens) :
             w = [cell |-> cell, cont_axes |-> Axes(rect, cell)]
<1>0. ScreenSize \in Nat \ {0}
  BY ScreenAssumption
<1> DEFINE X(cell) == cell[1] - (cell[1] \div ScreenSize) * ScreenSize
           Y(cell) == cell[2] - (cell[2] \div ScreenSize) * ScreenSize
<1>r. rect.l \in Int /\ rect.r \in Int /\ rect.t \in Int /\ rect.b \in Int
  BY DEF Rects
\* A place in a screen, and the cell it is.
<1>1. ASSUME NEW col \in Int, NEW row \in Int, NEW x \in Int, NEW y \in Int
      PROVE  LET cell  == <<x, y>>
                 inner == Inner(rect, col, row)
             IN /\ (<<col, row>> \in Touched(rect) /\ x - col * ScreenSize \in inner.l..(inner.r - 1)
                      /\ y - row * ScreenSize \in inner.t..(inner.b - 1))
                     <=> (cell \in RectCells(rect) /\ Screen(cell) = <<col, row>>)
                /\ cell \in RectCells(rect) /\ Screen(cell) = <<col, row>> =>
                     inner.cont_axes \cup Continued(x - col * ScreenSize # inner.l,
                                                    y - row * ScreenSize # inner.t)
                       = Axes(rect, cell)
  <2> DEFINE cell  == <<x, y>>
             inner == Inner(rect, col, row)
  <2>1. /\ inner.l = AxisLow(rect.l, col) /\ inner.r = AxisHigh(rect.r, col)
        /\ inner.t = AxisLow(rect.t, row) /\ inner.b = AxisHigh(rect.b, row)
        /\ inner.cont_axes = Continued(col # AxisFrom(rect.l), row # AxisFrom(rect.t))
    BY DEF Inner, lcol, rcol, trow, brow, AxisLow, AxisHigh, AxisFrom, AxisTo
  <2>2. <<col, row>> \in Touched(rect) <=>
          col \in AxisFrom(rect.l)..(AxisTo(rect.r) - 1) /\ row \in AxisFrom(rect.t)..(AxisTo(rect.b) - 1)
    BY DEF Touched, lcol, rcol, trow, brow, AxisFrom, AxisTo
  <2>3. /\ cell \in RectCells(rect) <=> x \in rect.l..(rect.r - 1) /\ y \in rect.t..(rect.b - 1)
        /\ Screen(cell) = <<col, row>> <=> x \div ScreenSize = col /\ y \div ScreenSize = row
    BY DEF RectCells, Screen
  <2> HIDE DEF inner
  <2>4. /\ (col \in AxisFrom(rect.l)..(AxisTo(rect.r) - 1)
              /\ x - col * ScreenSize \in inner.l..(inner.r - 1))
             <=> (x \in rect.l..(rect.r - 1) /\ x \div ScreenSize = col)
        /\ x \in rect.l..(rect.r - 1) /\ x \div ScreenSize = col =>
             (col # AxisFrom(rect.l) \/ x - col * ScreenSize # inner.l <=> x # rect.l)
    <3>1. /\ (col \in AxisFrom(rect.l)..(AxisTo(rect.r) - 1)
                /\ x - col * ScreenSize \in AxisLow(rect.l, col)..(AxisHigh(rect.r, col) - 1))
               <=> (x \in rect.l..(rect.r - 1) /\ x \div ScreenSize = col)
          /\ x \in rect.l..(rect.r - 1) /\ x \div ScreenSize = col =>
               (col # AxisFrom(rect.l) \/ x - col * ScreenSize # AxisLow(rect.l, col) <=> x # rect.l)
      BY <1>r, AxisIs, Zenon
    <3> QED BY <2>1, <3>1, Zenon
  <2>5. /\ (row \in AxisFrom(rect.t)..(AxisTo(rect.b) - 1)
              /\ y - row * ScreenSize \in inner.t..(inner.b - 1))
             <=> (y \in rect.t..(rect.b - 1) /\ y \div ScreenSize = row)
        /\ y \in rect.t..(rect.b - 1) /\ y \div ScreenSize = row =>
             (row # AxisFrom(rect.t) \/ y - row * ScreenSize # inner.t <=> y # rect.t)
    <3>1. /\ (row \in AxisFrom(rect.t)..(AxisTo(rect.b) - 1)
                /\ y - row * ScreenSize \in AxisLow(rect.t, row)..(AxisHigh(rect.b, row) - 1))
               <=> (y \in rect.t..(rect.b - 1) /\ y \div ScreenSize = row)
          /\ y \in rect.t..(rect.b - 1) /\ y \div ScreenSize = row =>
               (row # AxisFrom(rect.t) \/ y - row * ScreenSize # AxisLow(rect.t, row) <=> y # rect.t)
      BY <1>r, AxisIs, Zenon
    <3> QED BY <2>1, <3>1, Zenon
  <2>6. cell \in RectCells(rect) /\ Screen(cell) = <<col, row>> =>
          inner.cont_axes \cup Continued(x - col * ScreenSize # inner.l, y - row * ScreenSize # inner.t)
            = Axes(rect, cell)
    BY <2>1, <2>3, <2>4, <2>5 DEF Axes, Continued
  <2> QED BY <2>2, <2>3, <2>4, <2>5, <2>6 DEF inner
<1>2. ASSUME w \in Walk(rect, Touched(rect) \cap screens)
      PROVE  \E cell \in RectCells(rect) \cap CellsOf(screens) :
               w = [cell |-> cell, cont_axes |-> Axes(rect, cell)]
  <2>0. PICK s \in Touched(rect) \cap screens :
          w \in {[cell |-> <<s[1] * ScreenSize + c.x, s[2] * ScreenSize + c.y>>, cont_axes |-> c.cont_axes] :
                   c \in Cells(Inner(rect, s[1], s[2]))}
    BY <1>2 DEF Walk
  <2>2. s = <<s[1], s[2]>> /\ s[1] \in Int /\ s[2] \in Int
    OBVIOUS
  <2> DEFINE inner == Inner(rect, s[1], s[2])
  <2>1. PICK c \in Cells(inner) :
          w = [cell |-> <<s[1] * ScreenSize + c.x, s[2] * ScreenSize + c.y>>, cont_axes |-> c.cont_axes]
    BY <2>0
  <2>3. PICK u \in inner.l..(inner.r - 1), v \in inner.t..(inner.b - 1) :
          c = [x |-> u, y |-> v, cont_axes |-> inner.cont_axes \cup Continued(u # inner.l, v # inner.t)]
    BY <2>1 DEF Cells
  <2> DEFINE x == s[1] * ScreenSize + u
             y == s[2] * ScreenSize + v
  <2>4. u \in Int /\ v \in Int
    <3>1. /\ inner.l = AxisLow(rect.l, s[1]) /\ inner.r = AxisHigh(rect.r, s[1])
          /\ inner.t = AxisLow(rect.t, s[2]) /\ inner.b = AxisHigh(rect.b, s[2])
      BY DEF Inner, lcol, rcol, trow, brow, AxisLow, AxisHigh, AxisFrom, AxisTo
    <3>2. inner.l \in Int /\ inner.r \in Int /\ inner.t \in Int /\ inner.b \in Int
      <4> HIDE DEF inner
      <4>0. \A k, m, n, z \in Int : AxisLow(k, n) \in Int /\ AxisHigh(m, n) \in Int
        BY AxisIs
      <4>1. AxisLow(rect.l, s[1]) \in Int /\ AxisHigh(rect.r, s[1]) \in Int
        BY <1>r, <2>2, <4>0
      <4>2. AxisLow(rect.t, s[2]) \in Int /\ AxisHigh(rect.b, s[2]) \in Int
        BY <1>r, <2>2, <4>0
      <4> QED BY <3>1, <4>1, <4>2
    <3> HIDE DEF inner
    <3> QED BY <3>2
  <2>5. s[1] * ScreenSize \in Int /\ s[2] * ScreenSize \in Int
    BY <1>0, <2>2, Times
  <2>6. x \in Int /\ y \in Int /\ x - s[1] * ScreenSize = u /\ y - s[2] * ScreenSize = v
    BY <2>4, <2>5
  <2> HIDE DEF x, y
  <2>7. <<x, y>> \in RectCells(rect) /\ Screen(<<x, y>>) = s
    BY <1>1, <2>1, <2>2, <2>3, <2>6
  <2>8. w = [cell |-> <<x, y>>, cont_axes |-> Axes(rect, <<x, y>>)]
    <3>1. w = [cell |-> <<x, y>>, cont_axes |-> inner.cont_axes \cup Continued(u # inner.l, v # inner.t)]
      BY <2>1, <2>3 DEF x, y
    <3>2. inner.cont_axes \cup Continued(x - s[1] * ScreenSize # inner.l, y - s[2] * ScreenSize # inner.t)
            = Axes(rect, <<x, y>>)
      BY <1>1, <2>2, <2>6, <2>7
    <3> QED BY <2>6, <3>1, <3>2
  <2>9. <<x, y>> \in CellsOf(screens)
    BY <2>1, <2>6, <2>7, CellsOfIs
  <2> QED BY <2>7, <2>8, <2>9
<1>3. ASSUME NEW cell \in RectCells(rect) \cap CellsOf(screens),
             w = [cell |-> cell, cont_axes |-> Axes(rect, cell)]
      PROVE  w \in Walk(rect, Touched(rect) \cap screens)
  <2> DEFINE s == Screen(cell)
  <2>1. cell \in Int \X Int /\ s \in screens
    BY CellsOfIs
  <2>2. s = <<s[1], s[2]>> /\ s[1] \in Int /\ s[2] \in Int /\ cell = <<cell[1], cell[2]>>
        /\ cell[1] \in Int /\ cell[2] \in Int
    BY <2>1
  <2> HIDE DEF s
  <2> DEFINE inner == Inner(rect, s[1], s[2])
             u == cell[1] - s[1] * ScreenSize
             v == cell[2] - s[2] * ScreenSize
  <2>3. /\ s \in Touched(rect) /\ u \in inner.l..(inner.r - 1) /\ v \in inner.t..(inner.b - 1)
        /\ inner.cont_axes \cup Continued(u # inner.l, v # inner.t) = Axes(rect, cell)
    BY <1>1, <2>2 DEF s
  <2>4. s[1] * ScreenSize \in Int /\ s[2] * ScreenSize \in Int
    BY <1>0, <2>2, Times
  <2>5. s[1] * ScreenSize + u = cell[1] /\ s[2] * ScreenSize + v = cell[2]
    BY <2>2, <2>4
  <2> DEFINE c == [x |-> u, y |-> v, cont_axes |-> inner.cont_axes \cup Continued(u # inner.l, v # inner.t)]
  <2>6. c \in Cells(inner)
    <3> HIDE DEF inner, u, v
    <3> DEFINE Xs == inner.l..(inner.r - 1)
               Ys == inner.t..(inner.b - 1)
               At(p, q) == [x |-> p, y |-> q,
                            cont_axes |-> inner.cont_axes \cup Continued(p # inner.l, q # inner.t)]
    <3>1. u \in Xs /\ v \in Ys /\ c = At(u, v)
      BY <2>3
    <3> HIDE DEF Xs, Ys, At, c
    <3>2. c \in {At(p, q) : p \in Xs, q \in Ys}
      BY <3>1
    <3>3. Cells(inner) = {At(x, y) : x \in Xs, y \in Ys}
      BY DEF Cells, At, Xs, Ys
    <3> QED BY <3>2, <3>3
  <2>7. w = [cell |-> <<s[1] * ScreenSize + c.x, s[2] * ScreenSize + c.y>>, cont_axes |-> c.cont_axes]
    BY <1>3, <2>2, <2>3, <2>5
  <2> HIDE DEF c
  <2> DEFINE Of(z) == {[cell |-> <<z[1] * ScreenSize + d.x, z[2] * ScreenSize + d.y>>,
                         cont_axes |-> d.cont_axes] : d \in Cells(Inner(rect, z[1], z[2]))}
  <2>8. w \in Of(s)
    BY <2>6, <2>7
  <2>9. s \in Touched(rect) \cap screens
    BY <2>1, <2>3 DEF s
  <2> HIDE DEF Of
  <2>10. w \in UNION {Of(z) : z \in Touched(rect) \cap screens}
    BY <2>8, <2>9
  <2> QED BY <2>10 DEF Walk, Of
<1> QED BY <1>2, <1>3

-----------------------------------------------------------------------------
(* Columns: they grow, and keep what they had.                             *)

Column        == [first : Int, size : Nat]
ColumnsOK(columns) ==
  /\ \E a, b \in Int : DOMAIN columns = a..b
  /\ \A c \in DOMAIN columns : columns[c] \in Column

ScreensOf(columns) == Screens(columns) \in SUBSET (Int \X Int)

LEMMA ScreensIs ==
  ASSUME NEW columns, ColumnsOK(columns), NEW c \in Int, NEW row \in Int
  PROVE  /\ Screens(columns) \in SUBSET (Int \X Int)
         /\ <<c, row>> \in Screens(columns) <=>
              (c \in DOMAIN columns /\ columns[c].first <= row /\ row < columns[c].first + columns[c].size)
<1>1. PICK a \in Int, b \in Int : DOMAIN columns = a..b
  BY DEF ColumnsOK
<1>2. \A d \in DOMAIN columns : d \in Int /\ columns[d].first \in Int /\ columns[d].size \in Nat
  BY <1>1 DEF ColumnsOK, Column
<1>3. ASSUME NEW s \in Screens(columns)
      PROVE  /\ s \in Int \X Int /\ s[1] \in DOMAIN columns
             /\ columns[s[1]].first <= s[2] /\ s[2] < columns[s[1]].first + columns[s[1]].size
  <2>1. PICK d \in DOMAIN columns :
          s \in {<<d, z>> : z \in columns[d].first..(columns[d].first + columns[d].size - 1)}
    BY DEF Screens
  <2>2. PICK z \in columns[d].first..(columns[d].first + columns[d].size - 1) : s = <<d, z>>
    BY <2>1
  <2> QED BY <1>2, <2>2
<1>4. ASSUME c \in DOMAIN columns, columns[c].first <= row, row < columns[c].first + columns[c].size
      PROVE  <<c, row>> \in Screens(columns)
  <2>1. row \in columns[c].first..(columns[c].first + columns[c].size - 1)
    BY <1>2, <1>4
  <2>2. <<c, row>> \in {<<c, z>> : z \in columns[c].first..(columns[c].first + columns[c].size - 1)}
    BY <2>1
  <2> QED BY <1>4, <2>2 DEF Screens
<1> QED BY <1>3, <1>4

LEMMA RowsIs ==
  ASSUME NEW rect \in Rects
  PROVE  lcol(rect) \in Int /\ rcol(rect) \in Int /\ trow(rect) \in Int /\ brow(rect) \in Int
<1>1. ScreenSize \in Nat \ {0}
  BY ScreenAssumption
<1>2. /\ rect.l \in Int /\ rect.t \in Int
      /\ rect.r + ScreenSize - 1 \in Int /\ rect.b + ScreenSize - 1 \in Int
  BY <1>1 DEF Rects
<1> QED BY <1>1, <1>2, DivIs DEF lcol, rcol, trow, brow

LEMMA HeightenedIs ==
  ASSUME NEW column \in Column, NEW rect \in Rects
  PROVE  LET higher == Heightened(column, rect)
         IN /\ higher \in Column
            /\ \A row \in Int :
                 \/ column.first <= row /\ row < column.first + column.size
                 \/ row \in trow(rect)..(brow(rect) - 1)
                 => higher.first <= row /\ row < higher.first + higher.size
<1>1. column.first \in Int /\ column.size \in Nat
  BY DEF Column
<1>2. trow(rect) \in Int /\ brow(rect) \in Int
  BY RowsIs
<1>3. CASE column.size = 0
  BY <1>1, <1>2, <1>3 DEF Heightened, Column, Smaller, Larger
<1>4. CASE column.size # 0
  BY <1>1, <1>2, <1>4 DEF Heightened, Column, Smaller, Larger
<1> QED BY <1>3, <1>4

LEMMA GrownIs ==
  ASSUME NEW columns, ColumnsOK(columns), NEW rect \in Rects
  PROVE  LET grown == Grown(columns, rect)
         IN /\ ColumnsOK(grown)
            /\ Screens(columns) \subseteq Screens(grown)
            /\ Touched(rect) \subseteq Screens(grown)
<1> DEFINE wide  == Widened(columns, rect)
           grown == Grown(columns, rect)
           lc    == lcol(rect)
           rc    == rcol(rect)
<1>1. PICK a \in Int, b \in Int : DOMAIN columns = a..b
  BY DEF ColumnsOK
<1>2. lc \in Int /\ rc \in Int /\ trow(rect) \in Int /\ brow(rect) \in Int
  BY RowsIs
<1>3. PICK p \in Int, q \in Int :
        /\ wide = [c \in p..q |-> IF c \in DOMAIN columns THEN columns[c] ELSE NoScreens]
        /\ a..b \subseteq p..q /\ lc..(rc - 1) \subseteq p..q
  <2> DEFINE known == IF DOMAIN columns = {} THEN {lc} ELSE DOMAIN columns
             first == CHOOSE c \in known : \A d \in known : c <= d
             last  == CHOOSE c \in known : \A d \in known : c >= d
  <2>1. \E u, v \in Int : u <= v /\ known = u..v
    <3> HIDE DEF lc
    <3>1. CASE a <= b
      <4>1. a \in DOMAIN columns
        BY <1>1, <3>1
      <4>2. known = a..b
        BY <1>1, <4>1
      <4> HIDE DEF known
      <4> QED BY <3>1, <4>2
    <3>2. CASE b < a
      <4>1. DOMAIN columns = {}
        BY <1>1, <3>2
      <4>2. known = lc..lc
        BY <1>2, <4>1
      <4> HIDE DEF known
      <4> QED BY <1>2, <4>2
    <3> HIDE DEF known
    <3> QED BY <3>1, <3>2
  <2>2. PICK u \in Int, v \in Int : u <= v /\ known = u..v
    BY <2>1
  <2>3. a..b \subseteq u..v
    BY <1>1, <2>2
  <2> HIDE DEF known
  <2>4. first \in known /\ \A d \in known : first <= d
    <3>1. u \in known /\ \A d \in known : u <= d
      BY <2>2
    <3> QED BY <3>1
  <2>5. last \in known /\ \A d \in known : last >= d
    <3>1. v \in known /\ \A d \in known : v >= d
      BY <2>2
    <3> QED BY <3>1
  <2> HIDE DEF first, last, lc, rc
  <2>6. first = u /\ last = v
    BY <2>2, <2>4, <2>5
  <2> DEFINE p == Smaller(first, lc)
             q == Larger(last, rc - 1)
  <2>7. p \in Int /\ q \in Int /\ a..b \subseteq p..q /\ lc..(rc - 1) \subseteq p..q
    BY <1>2, <2>2, <2>3, <2>6 DEF Smaller, Larger
  <2>8. wide = [c \in p..q |-> IF c \in DOMAIN columns THEN columns[c] ELSE NoScreens]
    BY DEF Widened, known, first, last, lc, rc
  <2> HIDE DEF p, q
  <2> QED BY <2>7, <2>8
<1>4. \A c \in DOMAIN wide : wide[c] \in Column
  BY <1>3 DEF ColumnsOK, Column, NoScreens
<1> HIDE DEF wide
<1>5. /\ DOMAIN grown = p..q
      /\ \A c \in p..q : grown[c] = IF c \in lc..(rc - 1) THEN Heightened(wide[c], rect) ELSE wide[c]
  BY <1>3 DEF Grown, wide
<1> HIDE DEF grown, lc, rc
<1>6. ASSUME NEW c \in p..q
      PROVE  /\ grown[c] \in Column /\ wide[c] \in Column
             /\ \A row \in Int :
                  \/ wide[c].first <= row /\ row < wide[c].first + wide[c].size
                  \/ c \in lc..(rc - 1) /\ row \in trow(rect)..(brow(rect) - 1)
                  => grown[c].first <= row /\ row < grown[c].first + grown[c].size
  <2>1. wide[c] \in Column
    BY <1>3, <1>4
  <2>2. CASE c \in lc..(rc - 1)
    BY <1>5, <2>1, <2>2, HeightenedIs
  <2>3. CASE c \notin lc..(rc - 1)
    BY <1>5, <2>1, <2>3
  <2> QED BY <2>2, <2>3
<1>7. ColumnsOK(grown)
  BY <1>5, <1>6 DEF ColumnsOK
<1>8. ASSUME NEW s \in Screens(columns)
      PROVE  s \in Screens(grown)
  <2>1. s \in Int \X Int
    BY <1>2, ScreensIs
  <2>2. s = <<s[1], s[2]>> /\ s[1] \in Int /\ s[2] \in Int
    BY <2>1
  <2>3. s[1] \in a..b /\ columns[s[1]].first <= s[2] /\ s[2] < columns[s[1]].first + columns[s[1]].size
    BY <1>1, <2>2, ScreensIs
  <2>4. s[1] \in p..q /\ wide[s[1]] = columns[s[1]]
    BY <1>1, <1>3, <2>3
  <2>5. grown[s[1]].first <= s[2] /\ s[2] < grown[s[1]].first + grown[s[1]].size
    BY <1>6, <2>2, <2>3, <2>4
  <2> QED BY <1>5, <1>7, <2>2, <2>4, <2>5, ScreensIs
<1>9. ASSUME NEW s \in Touched(rect)
      PROVE  s \in Screens(grown)
  <2>1. s[1] \in lc..(rc - 1) /\ s[2] \in trow(rect)..(brow(rect) - 1) /\ s = <<s[1], s[2]>>
    BY DEF Touched, lc, rc
  <2>2. s[1] \in p..q /\ s[1] \in Int /\ s[2] \in Int
    BY <1>2, <1>3, <2>1
  <2>3. grown[s[1]].first <= s[2] /\ s[2] < grown[s[1]].first + grown[s[1]].size
    BY <1>6, <2>1, <2>2
  <2> QED BY <1>5, <1>7, <2>1, <2>2, <2>3, ScreensIs
<1> QED BY <1>7, <1>8, <1>9 DEF grown

-----------------------------------------------------------------------------
(* Chains: what a cell holds, each reference in one place.                 *)

Entries    == [ref : Nat, cont_axes : SUBSET {"CONT_X", "CONT_Y"}]
Nodes      == {node \in Seq(Entries) : Len(node) <= NodeSize}
Held(chain) == {RefAt(chain, p) : p \in Places(chain)}

ChainOK(chain) ==
  /\ chain \in Seq(Nodes)
  /\ \A p, q \in Places(chain) : RefAt(chain, p).ref = RefAt(chain, q).ref => p = q

LEMMA PlacesIs ==
  ASSUME NEW chain \in Seq(Nodes), NEW p
  PROVE  /\ p \in Places(chain) <=>
              (p = <<p[1], p[2]>> /\ p[1] \in 1..Len(chain) /\ p[2] \in 1..Len(chain[p[1]]))
         /\ p \in Places(chain) =>
              /\ chain[p[1]] \in Nodes /\ RefAt(chain, p) \in Entries
              /\ RefAt(chain, p) = chain[p[1]][p[2]]
<1>1. DOMAIN chain = 1..Len(chain) /\ \A k \in 1..Len(chain) : chain[k] \in Nodes
  OBVIOUS
<1>2. ASSUME NEW node \in Nodes
      PROVE  /\ DOMAIN node = 1..Len(node) /\ Len(node) \in Nat /\ Len(node) <= NodeSize
             /\ \A i \in 1..Len(node) : node[i] \in Entries
  BY DEF Nodes
<1>3. NodeSize \in Nat
  BY NodeAssumption
<1>4. ASSUME p = <<p[1], p[2]>>, p[1] \in 1..Len(chain), p[2] \in 1..Len(chain[p[1]])
      PROVE  p \in Places(chain)
  <2>1. DOMAIN chain[p[1]] = 1..Len(chain[p[1]]) /\ Len(chain[p[1]]) \in Nat /\ Len(chain[p[1]]) <= NodeSize
    BY <1>1, <1>2, <1>4
  <2>2. p[2] \in 1..NodeSize
    BY <1>3, <1>4, <2>1
  <2>3. p \in (DOMAIN chain) \X (1..NodeSize)
    BY <1>1, <1>4, <2>2
  <2> QED BY <1>4, <2>1, <2>3 DEF Places
<1>5. ASSUME p \in Places(chain)
      PROVE  /\ p = <<p[1], p[2]>> /\ p[1] \in 1..Len(chain) /\ p[2] \in 1..Len(chain[p[1]])
             /\ chain[p[1]] \in Nodes /\ RefAt(chain, p) \in Entries
             /\ RefAt(chain, p) = chain[p[1]][p[2]]
  <2>1. p \in (DOMAIN chain) \X (1..NodeSize) /\ p[2] \in DOMAIN chain[p[1]]
    BY <1>5 DEF Places
  <2>2. p = <<p[1], p[2]>> /\ p[1] \in 1..Len(chain)
    BY <1>1, <2>1
  <2>3. chain[p[1]] \in Nodes
    BY <1>1, <2>2
  <2>4. DOMAIN chain[p[1]] = 1..Len(chain[p[1]])
    BY <1>2, <2>3
  <2>5. chain[p[1]][p[2]] \in Entries
    BY <1>2, <2>1, <2>3, <2>4
  <2> QED BY <2>1, <2>2, <2>3, <2>4, <2>5 DEF RefAt
<1> QED BY <1>4, <1>5

LEMMA SeqFrom ==
  ASSUME NEW S, NEW n \in Nat, NEW f \in [1..n -> S]
  PROVE  f \in Seq(S) /\ Len(f) = n
OBVIOUS

LEMMA LeastOf ==
  ASSUME NEW Q \in SUBSET Nat, Q # {}
  PROVE  \E x \in Q : \A y \in Q : x <= y
<1>1. IsWellFoundedOn(OpToRel(<, Nat), Nat)
  BY NatLessThanWellFounded
<1>2. PICK x \in Q : \A y \in Q : ~(<<y, x>> \in OpToRel(<, Nat))
  BY <1>1, WFMin
<1>3. \A y \in Q : y < x => <<y, x>> \in OpToRel(<, Nat)
  BY DEF OpToRel
<1>4. \A y \in Q : y \in Nat /\ x \in Nat /\ ~(y < x)
  BY <1>2, <1>3
<1> QED BY <1>4

\* A new chain that has one place more than the old one.
LEMMA OneMorePlace ==
  ASSUME NEW chain, ChainOK(chain), NEW longer \in Seq(Nodes), NEW place, NEW entry \in Entries,
         Places(longer) = Places(chain) \cup {place}, place \notin Places(chain),
         \A p \in Places(chain) : RefAt(longer, p) = RefAt(chain, p),
         RefAt(longer, place) = entry,
         \A e \in Held(chain) : e.ref # entry.ref
  PROVE  ChainOK(longer) /\ Held(longer) = Held(chain) \cup {entry}
<1>1. \A p \in Places(chain) : RefAt(chain, p).ref # entry.ref
  BY DEF Held
<1>2. ChainOK(longer)
  BY <1>1 DEF ChainOK
<1> QED BY <1>2 DEF Held

LEMMA InsertRefIs ==
  ASSUME NEW chain, ChainOK(chain), NEW entry \in Entries,
         \A e \in Held(chain) : e.ref # entry.ref
  PROVE  ChainOK(InsertRef(chain, entry)) /\ Held(InsertRef(chain, entry)) = Held(chain) \cup {entry}
<1> DEFINE longer == InsertRef(chain, entry)
<1>0. NodeSize \in Nat \ {0}
  BY NodeAssumption
<1>1. /\ chain \in Seq(Nodes) /\ Len(chain) \in Nat /\ DOMAIN chain = 1..Len(chain)
      /\ \A k \in 1..Len(chain) : chain[k] \in Nodes
  BY DEF ChainOK
<1>2. \A node \in Nodes : node \in Seq(Entries) /\ Len(node) \in Nat /\ Len(node) <= NodeSize
  BY DEF Nodes
<1>3. CASE \E k \in DOMAIN chain : HasRoom(chain[k])
  <2> DEFINE k == CHOOSE k \in DOMAIN chain :
                    HasRoom(chain[k]) /\ \A j \in 1..(k - 1) : ~HasRoom(chain[j])
  <2>1. \E x \in DOMAIN chain : HasRoom(chain[x]) /\ \A j \in 1..(x - 1) : ~HasRoom(chain[j])
    <3> DEFINE Q == {x \in DOMAIN chain : HasRoom(chain[x])}
    <3>1. Q \in SUBSET Nat /\ Q # {}
      BY <1>1, <1>3
    <3>2. PICK x \in Q : \A y \in Q : x <= y
      BY <3>1, LeastOf
    <3>3. \A j \in 1..(x - 1) : j \in DOMAIN chain /\ j < x
      BY <1>1
    <3> QED BY <1>1, <3>2, <3>3
  <2>2. k \in DOMAIN chain /\ HasRoom(chain[k])
    BY <2>1
  <2>3. longer = [chain EXCEPT ![k] = Append(@, entry)]
    BY <1>3 DEF InsertRef
  <2> HIDE DEF k, longer
  <2> DEFINE n == Len(chain[k])
  <2>4. chain[k] \in Seq(Entries) /\ n \in Nat /\ n < NodeSize
    BY <1>1, <1>2, <2>2 DEF HasRoom
  <2>5. /\ Append(chain[k], entry) \in Nodes /\ Len(Append(chain[k], entry)) = n + 1
        /\ Append(chain[k], entry)[n + 1] = entry
        /\ \A i \in 1..n : Append(chain[k], entry)[i] = chain[k][i]
    BY <1>0, <2>4 DEF Nodes
  <2>6. /\ longer \in Seq(Nodes) /\ Len(longer) = Len(chain)
        /\ longer[k] = Append(chain[k], entry)
        /\ \A j \in 1..Len(chain) : j # k => longer[j] = chain[j]
    BY <1>1, <2>2, <2>3, <2>5
  <2> HIDE DEF n
  <2>7. ASSUME NEW p
        PROVE  p \in Places(longer) <=> p \in Places(chain) \cup {<<k, n + 1>>}
    <3>1. p \in Places(longer) <=>
            (p = <<p[1], p[2]>> /\ p[1] \in 1..Len(chain) /\ p[2] \in 1..Len(longer[p[1]]))
      BY <2>6, PlacesIs
    <3>2. p \in Places(chain) <=>
            (p = <<p[1], p[2]>> /\ p[1] \in 1..Len(chain) /\ p[2] \in 1..Len(chain[p[1]]))
      BY <1>1, PlacesIs
    <3>3. p = <<k, n + 1>> <=> p = <<p[1], p[2]>> /\ p[1] = k /\ p[2] = n + 1
      OBVIOUS
    <3>4. CASE p[1] = k
      <4>1. Len(longer[p[1]]) = n + 1 /\ Len(chain[p[1]]) = n
        BY <2>5, <2>6, <3>4 DEF n
      <4>2. p[2] \in 1..(n + 1) <=> p[2] \in 1..n \/ p[2] = n + 1
        BY <2>4
      <4> QED BY <1>1, <2>2, <3>1, <3>2, <3>3, <3>4, <4>1, <4>2
    <3>5. CASE p[1] # k
      BY <2>6, <3>1, <3>2, <3>3, <3>5
    <3> QED BY <3>4, <3>5
  <2>8. <<k, n + 1>> \notin Places(chain)
    BY <1>1, <2>4, PlacesIs DEF n
  <2>9. \A p \in Places(chain) : RefAt(longer, p) = RefAt(chain, p)
    BY <1>1, <2>5, <2>6, PlacesIs DEF n, RefAt
  <2>10. RefAt(longer, <<k, n + 1>>) = entry
    BY <2>5, <2>6 DEF RefAt
  <2>11. Places(longer) = Places(chain) \cup {<<k, n + 1>>}
    BY <2>7
  <2> QED BY <2>6, <2>8, <2>9, <2>10, <2>11, OneMorePlace DEF longer
<1>4. CASE ~\E k \in DOMAIN chain : HasRoom(chain[k])
  <2> DEFINE n == Len(chain)
  <2>1. longer = Append(chain, <<entry>>)
    BY <1>4 DEF InsertRef
  <2>2. <<entry>> \in Nodes /\ Len(<<entry>>) = 1 /\ <<entry>>[1] = entry
    BY <1>0 DEF Nodes
  <2> HIDE DEF longer
  <2>3. /\ longer \in Seq(Nodes) /\ Len(longer) = n + 1
        /\ longer[n + 1] = <<entry>>
        /\ \A j \in 1..n : longer[j] = chain[j]
    BY <1>1, <2>1, <2>2
  <2>7. ASSUME NEW p
        PROVE  p \in Places(longer) <=> p \in Places(chain) \cup {<<n + 1, 1>>}
    <3>1. p \in Places(longer) <=>
            (p = <<p[1], p[2]>> /\ p[1] \in 1..(n + 1) /\ p[2] \in 1..Len(longer[p[1]]))
      BY <2>3, PlacesIs
    <3>2. p \in Places(chain) <=>
            (p = <<p[1], p[2]>> /\ p[1] \in 1..n /\ p[2] \in 1..Len(chain[p[1]]))
      BY <1>1, PlacesIs
    <3>3. p = <<n + 1, 1>> <=> p = <<p[1], p[2]>> /\ p[1] = n + 1 /\ p[2] = 1
      OBVIOUS
    <3>4. CASE p[1] = n + 1
      <4>1. p[2] \in 1..Len(longer[p[1]]) <=> p[2] = 1
        <5>1. Len(longer[p[1]]) = 1
          BY <2>2, <2>3, <3>4
        <5> HIDE DEF longer
        <5>2. p[2] \in 1..1 <=> p[2] = 1
          OBVIOUS
        <5> QED BY <5>1, <5>2
      <4> QED BY <1>1, <3>1, <3>2, <3>3, <3>4, <4>1
    <3>5. CASE p[1] # n + 1
      <4>1. p[1] \in 1..(n + 1) <=> p[1] \in 1..n
        BY <1>1, <3>5
      <4> QED BY <2>3, <3>1, <3>2, <3>3, <3>5, <4>1
    <3> QED BY <3>4, <3>5
  <2>8. <<n + 1, 1>> \notin Places(chain)
    BY <1>1, PlacesIs
  <2>9. \A p \in Places(chain) : RefAt(longer, p) = RefAt(chain, p)
    BY <1>1, <2>3, PlacesIs DEF RefAt
  <2>10. RefAt(longer, <<n + 1, 1>>) = entry
    BY <2>2, <2>3 DEF RefAt
  <2>11. Places(longer) = Places(chain) \cup {<<n + 1, 1>>}
    BY <2>7
  <2> QED BY <2>3, <2>8, <2>9, <2>10, <2>11, OneMorePlace DEF longer
<1> QED BY <1>3, <1>4

LEMMA EraseRefIs ==
  ASSUME NEW chain, ChainOK(chain), NEW ref
  PROVE  /\ ChainOK(EraseRef(chain, ref))
         /\ Held(EraseRef(chain, ref)) = {e \in Held(chain) : e.ref # ref}
<1> DEFINE found   == {p \in Places(chain) : RefAt(chain, p).ref = ref}
           shorter == EraseRef(chain, ref)
<1>1. /\ chain \in Seq(Nodes) /\ Len(chain) \in Nat /\ DOMAIN chain = 1..Len(chain)
      /\ \A k \in 1..Len(chain) : chain[k] \in Nodes
      /\ \A p, q \in Places(chain) : RefAt(chain, p).ref = RefAt(chain, q).ref => p = q
  BY DEF ChainOK
<1>2. \A node \in Nodes : /\ node \in Seq(Entries) /\ Len(node) \in Nat /\ Len(node) <= NodeSize
                          /\ \A i \in 1..Len(node) : node[i] \in Entries
  BY DEF Nodes
<1>3. CASE found = {}
  <2>1. shorter = chain
    BY <1>3 DEF EraseRef
  <2>2. \A e \in Held(chain) : e.ref # ref
    BY <1>3 DEF Held
  <2> QED BY <2>1, <2>2
<1>4. CASE found # {}
  <2>1. PICK p \in found : found = {p}
    BY <1>1, <1>4
  <2>2. (CHOOSE p1 \in found : \A q \in found \ {p1} : Precedes(p1, q)) = p
    BY <2>1
  <2> DEFINE k    == p[1]
             i    == p[2]
             last == Len(chain[k])
             less == [j \in 1..(last - 1) |-> IF j = i THEN chain[k][last] ELSE chain[k][j]]
  <2>3. /\ p \in Places(chain) /\ RefAt(chain, p).ref = ref /\ p = <<k, i>>
        /\ k \in 1..Len(chain) /\ i \in 1..last /\ chain[k] \in Nodes
    BY <1>1, <2>1, PlacesIs
  <2>4. shorter = [chain EXCEPT ![k] = less]
    <3>1. shorter = [chain EXCEPT ![p[1]] = LET size == Len(@)
                                            IN [j \in 1..(size - 1) |-> IF j = p[2] THEN @[size] ELSE @[j]]]
      <4> DEFINE place == CHOOSE p1 \in found : \A q \in found \ {p1} : Precedes(p1, q)
      <4>1. shorter = [chain EXCEPT ![place[1]] = LET size == Len(@)
                                                  IN [j \in 1..(size - 1) |-> IF j = place[2] THEN @[size] ELSE @[j]]]
        BY <1>4 DEF EraseRef
      <4>2. place = p
        BY <2>2
      <4> HIDE DEF place, shorter
      <4> QED BY <4>1, <4>2
    <3> QED BY <3>1
  <2>5. last \in Nat /\ last <= NodeSize /\ \A j \in 1..last : chain[k][j] \in Entries
    BY <1>2, <2>3
  <2> HIDE DEF shorter, found
  <2>6. less \in Nodes /\ Len(less) = last - 1
    <3>1. last - 1 \in Nat /\ \A j \in 1..(last - 1) : less[j] \in Entries
      BY <2>3, <2>5
    <3>2. less \in [1..(last - 1) -> Entries]
      BY <3>1
    <3> DEFINE m == last - 1
    <3> HIDE DEF less
    <3>3. less \in Seq(Entries) /\ Len(less) = last - 1
      <4>1. m \in Nat /\ less \in [1..m -> Entries]
        BY <3>1, <3>2
      <4> HIDE DEF m
      <4>2. less \in Seq(Entries) /\ Len(less) = m
        BY <4>1, SeqFrom
      <4> QED BY <4>2 DEF m
    <3> QED BY <2>5, <3>3, NodeAssumption DEF Nodes
  <2>7. \A j \in 1..(last - 1) : less[j] = IF j = i THEN chain[k][last] ELSE chain[k][j]
    OBVIOUS
  <2> HIDE DEF less
  <2>8. /\ shorter \in Seq(Nodes) /\ Len(shorter) = Len(chain)
        /\ shorter[k] = less
        /\ \A j \in 1..Len(chain) : j # k => shorter[j] = chain[j]
    BY <1>1, <2>3, <2>4, <2>6
  \* Where an entry of the shorter chain came from.
  <2> DEFINE From(q) == IF q = p THEN <<k, last>> ELSE q
  <2>9. ASSUME NEW q \in Places(shorter)
        PROVE  /\ From(q) \in Places(chain) /\ From(q) # p
               /\ RefAt(shorter, q) = RefAt(chain, From(q))
               /\ q # <<k, last>>
    <3>1. /\ q = <<q[1], q[2]>> /\ q[1] \in 1..Len(chain) /\ q[2] \in 1..Len(shorter[q[1]])
          /\ RefAt(shorter, q) = shorter[q[1]][q[2]]
      BY <2>8, PlacesIs
    <3>2. CASE q[1] # k
      <4>1. q # p /\ q # <<k, last>> /\ shorter[q[1]] = chain[q[1]]
        BY <2>3, <2>8, <3>1, <3>2
      <4>2. q \in Places(chain)
        BY <1>1, <3>1, <4>1, PlacesIs
      <4> QED BY <3>1, <4>1, <4>2 DEF RefAt
    <3>3. CASE q[1] = k
      <4>1. q[2] \in 1..(last - 1) /\ RefAt(shorter, q) = less[q[2]]
        BY <2>6, <2>8, <3>1, <3>3
      <4>2. q # <<k, last>>
        BY <2>5, <3>1, <4>1
      <4>3. CASE q[2] = i
        <5>1. q = p /\ From(q) = <<k, last>>
          BY <2>3, <3>1, <3>3, <4>3
        <5>2. <<k, last>> \in Places(chain)
          BY <1>1, <2>3, <2>5, PlacesIs
        <5>3. <<k, last>> # p
          BY <2>3, <2>5, <4>1, <4>3
        <5> QED BY <2>7, <4>1, <4>2, <4>3, <5>1, <5>2, <5>3 DEF RefAt
      <4>4. CASE q[2] # i
        <5>1. q # p /\ From(q) = q
          BY <2>3, <4>4
        <5>2. q \in Places(chain)
          BY <1>1, <2>5, <3>1, <3>3, <4>1, PlacesIs
        <5> QED BY <2>7, <3>3, <4>1, <4>2, <4>4, <5>1, <5>2 DEF RefAt
      <4> QED BY <4>3, <4>4
    <3> QED BY <3>2, <3>3
  <2>10. ASSUME NEW q \in Places(chain), q # p
         PROVE  \E s \in Places(shorter) : RefAt(shorter, s) = RefAt(chain, q)
    <3>1. /\ q = <<q[1], q[2]>> /\ q[1] \in 1..Len(chain) /\ q[2] \in 1..Len(chain[q[1]])
          /\ RefAt(chain, q) = chain[q[1]][q[2]]
      BY <1>1, PlacesIs
    <3>2. CASE q[1] # k
      <4>1. shorter[q[1]] = chain[q[1]]
        BY <2>8, <3>1, <3>2
      <4>2. q \in Places(shorter)
        BY <2>8, <3>1, <4>1, PlacesIs
      <4> QED BY <3>1, <4>1, <4>2 DEF RefAt
    <3>3. CASE q[1] = k /\ q[2] # last
      <4>1. q[2] \in 1..(last - 1) /\ q[2] # i
        BY <2>3, <2>5, <2>10, <3>1, <3>3
      <4>2. q \in Places(shorter)
        BY <2>6, <2>8, <3>1, <3>3, <4>1, PlacesIs
      <4>3. RefAt(shorter, q) = chain[k][q[2]]
        BY <2>7, <2>8, <3>3, <4>1 DEF RefAt
      <4> QED BY <3>1, <3>3, <4>2, <4>3
    <3>4. CASE q[1] = k /\ q[2] = last
      <4>1. i \in 1..(last - 1)
        BY <2>3, <2>5, <2>10, <3>1, <3>4
      <4>2. p \in Places(shorter)
        BY <2>3, <2>6, <2>8, <4>1, PlacesIs
      <4>3. RefAt(shorter, p) = chain[k][last]
        BY <2>7, <2>8, <4>1 DEF RefAt
      <4> QED BY <3>1, <3>4, <4>2, <4>3
    <3> QED BY <3>2, <3>3, <3>4
  <2> HIDE DEF k, i, last
  <2>11. ASSUME NEW q \in Places(shorter), NEW s \in Places(shorter),
                RefAt(shorter, q).ref = RefAt(shorter, s).ref
         PROVE  q = s
    <3>1. From(q) = From(s)
      BY <1>1, <2>9, <2>11
    <3> QED BY <2>9, <3>1
  <2>12. ASSUME NEW e \in Held(shorter)
         PROVE  e \in Held(chain) /\ e.ref # ref
    <3>1. PICK q \in Places(shorter) : e = RefAt(shorter, q)
      BY DEF Held
    <3>2. From(q) \in Places(chain) /\ From(q) # p /\ e = RefAt(chain, From(q))
      BY <2>9, <3>1
    <3> QED BY <1>1, <2>3, <3>2 DEF Held
  <2>13. ASSUME NEW e \in Held(chain), e.ref # ref
         PROVE  e \in Held(shorter)
    <3>1. PICK q \in Places(chain) : e = RefAt(chain, q)
      BY DEF Held
    <3>2. q # p
      BY <2>3, <2>13, <3>1
    <3> QED BY <2>10, <3>1, <3>2 DEF Held
  <2>14. ChainOK(shorter)
    BY <2>8, <2>11 DEF ChainOK
  <2> QED BY <2>12, <2>13, <2>14 DEF shorter
<1> QED BY <1>3, <1>4

-----------------------------------------------------------------------------
(* A table indexes members, a function from references to rectangles, when *)
(* each cell holds the references whose rectangles it is in, with the axes *)
(* on which it continues them.                                             *)

EntriesAt(members, cell) ==
  {[ref |-> o, cont_axes |-> Axes(members[o], cell)] :
     o \in {o \in DOMAIN members : cell \in RectCells(members[o])}}

MembersOK(members) == members \in [DOMAIN members -> Rects] /\ DOMAIN members \subseteq Nat

NodesOK(nodes, members) ==
  /\ \A cell \in DOMAIN nodes : ChainOK(nodes[cell]) /\ Held(nodes[cell]) = EntriesAt(members, cell)
  /\ \A o \in DOMAIN members : RectCells(members[o]) \subseteq DOMAIN nodes

Indexed(table, members) ==
  /\ table = [columns |-> table.columns, nodes |-> table.nodes, member_rects |-> table.member_rects]
  /\ ColumnsOK(table.columns)
  /\ MembersOK(members)
  /\ DOMAIN table.nodes = CellsOf(Screens(table.columns))
  /\ NodesOK(table.nodes, members)

TableOK(table) == Indexed(table, table.member_rects)

With(members, ref, rect) == [o \in DOMAIN members \cup {ref} |-> IF o = ref THEN rect ELSE members[o]]
Less(members, ref)       == [o \in DOMAIN members \ {ref} |-> members[o]]

LEMMA CellIs ==
  ASSUME NEW rect \in Rects, NEW cell
  PROVE  cell \in RectCells(rect) =>
           /\ cell = <<cell[1], cell[2]>> /\ cell[1] \in Int /\ cell[2] \in Int
           /\ rect.l <= cell[1] /\ cell[1] < rect.r /\ rect.t <= cell[2] /\ cell[2] < rect.b
<1>1. rect.l \in Int /\ rect.r \in Int /\ rect.t \in Int /\ rect.b \in Int
  BY DEF Rects
<1> QED BY <1>1 DEF RectCells

LEMMA TouchedCovers ==
  ASSUME NEW rect \in Rects
  PROVE  Touched(rect) \in SUBSET (Int \X Int) /\ RectCells(rect) \subseteq CellsOf(Touched(rect))
<1>0. ScreenSize \in Nat \ {0}
  BY ScreenAssumption
<1>1. rect.l \in Int /\ rect.r \in Int /\ rect.t \in Int /\ rect.b \in Int
  BY DEF Rects
<1>2. Touched(rect) \in SUBSET (Int \X Int)
  BY RowsIs DEF Touched
<1>3. ASSUME NEW cell \in RectCells(rect)
      PROVE  cell \in CellsOf(Touched(rect))
  <2>1. /\ cell = <<cell[1], cell[2]>> /\ cell[1] \in Int /\ cell[2] \in Int
        /\ cell[1] \in rect.l..(rect.r - 1) /\ cell[2] \in rect.t..(rect.b - 1)
    BY <1>1, CellIs
  <2> DEFINE col == cell[1] \div ScreenSize
             row == cell[2] \div ScreenSize
  <2>2. col \in Int /\ row \in Int
    BY <1>0, <2>1, DivIs
  <2>3. \A l, r, c, x \in Int : x \in l..(r - 1) /\ x \div ScreenSize = c => c \in AxisFrom(l)..(AxisTo(r) - 1)
    BY AxisIs
  <2>4. col \in AxisFrom(rect.l)..(AxisTo(rect.r) - 1)
    BY <1>1, <2>1, <2>2, <2>3
  <2>5. row \in AxisFrom(rect.t)..(AxisTo(rect.b) - 1)
    BY <1>1, <2>1, <2>2, <2>3
  <2>6. Screen(cell) \in Touched(rect)
    BY <2>4, <2>5 DEF Screen, Touched, lcol, rcol, trow, brow, AxisFrom, AxisTo
  <2> QED BY <1>2, <2>1, <2>6, CellsOfIs
<1> QED BY <1>2, <1>3

LEMMA WithIs ==
  ASSUME NEW members, MembersOK(members), NEW ref \in Nat, NEW rect \in Rects
  PROVE  /\ MembersOK(With(members, ref, rect))
         /\ DOMAIN With(members, ref, rect) = DOMAIN members \cup {ref}
         /\ With(members, ref, rect)[ref] = rect
         /\ \A o \in DOMAIN members \ {ref} : With(members, ref, rect)[o] = members[o]
BY DEF MembersOK, With

LEMMA LessIs ==
  ASSUME NEW members, MembersOK(members), NEW ref
  PROVE  /\ MembersOK(Less(members, ref))
         /\ DOMAIN Less(members, ref) = DOMAIN members \ {ref}
         /\ \A o \in DOMAIN members \ {ref} : Less(members, ref)[o] = members[o]
BY DEF MembersOK, Less

LEMMA LessWith ==
  ASSUME NEW members, MembersOK(members), NEW ref \in Nat, NEW rect \in Rects
  PROVE  With(Less(members, ref), ref, rect) = With(members, ref, rect)
BY DEF MembersOK, With, Less

LEMMA EmptyChainIs == ChainOK(EmptyChain) /\ Held(EmptyChain) = {}
<1>1. <<>> \in Nodes
  BY NodeAssumption DEF Nodes
<1>2. EmptyChain \in Seq(Nodes) /\ Len(EmptyChain) = 1 /\ EmptyChain[1] = <<>>
  BY <1>1 DEF EmptyChain
<1>3. Places(EmptyChain) = {}
  <2> SUFFICES ASSUME NEW p \in Places(EmptyChain) PROVE FALSE
    OBVIOUS
  <2>1. p[1] \in 1..1 /\ p[2] \in 1..Len(EmptyChain[p[1]])
    BY <1>2, PlacesIs
  <2>2. p[1] = 1
    BY <2>1
  <2> QED BY <1>2, <2>1, <2>2
<1> QED BY <1>2, <1>3 DEF ChainOK, Held

LEMMA EmptyTableOK == TableOK(EmptyTable) /\ DOMAIN EmptyTable.member_rects = {}
<1>1. DOMAIN <<>> = {}
  OBVIOUS
<1>2. ColumnsOK(<<>>)
  <2>1. DOMAIN <<>> = 1..0
    BY <1>1
  <2> QED BY <1>1, <2>1 DEF ColumnsOK
<1>3. CellsOf(Screens(<<>>)) = {}
  BY <1>1 DEF CellsOf, Screens
<1>4. MembersOK(<<>>)
  BY <1>1 DEF MembersOK
<1>5. NodesOK(<<>>, <<>>)
  BY <1>1 DEF NodesOK
<1> QED BY <1>1, <1>2, <1>3, <1>4, <1>5 DEF TableOK, Indexed, EmptyTable

LEMMA AxesIs ==
  ASSUME NEW rect, NEW cell
  PROVE  /\ Axes(rect, cell) \in SUBSET {"CONT_X", "CONT_Y"}
         /\ "CONT_X" \in Axes(rect, cell) <=> cell[1] # rect.l
         /\ "CONT_Y" \in Axes(rect, cell) <=> cell[2] # rect.t
BY DEF Axes, Continued

LEMMA InsertRectIs ==
  ASSUME NEW table, NEW members, Indexed(table, members), NEW ref \in Nat, ref \notin DOMAIN members,
         NEW rect \in Rects
  PROVE  /\ Indexed(InsertRect(table, ref, rect), With(members, ref, rect))
         /\ InsertRect(table, ref, rect).member_rects = table.member_rects
<1> DEFINE columns == Grown(table.columns, rect)
           walk    == Walk(rect, Touched(rect))
           after   == InsertRect(table, ref, rect)
           more    == With(members, ref, rect)
           Chain(cell) == IF cell \in DOMAIN table.nodes THEN table.nodes[cell] ELSE EmptyChain
           Here(cell)  == {w \in walk : w.cell = cell}
           entry(cell) == [ref |-> ref, cont_axes |-> (CHOOSE w \in Here(cell) : TRUE).cont_axes]
           nodes == [cell \in CellsOf(Screens(columns)) |->
                       IF Here(cell) = {} THEN Chain(cell) ELSE InsertRef(Chain(cell), entry(cell))]
<1>1. /\ table = [columns |-> table.columns, nodes |-> table.nodes, member_rects |-> table.member_rects]
      /\ ColumnsOK(table.columns) /\ MembersOK(members)
      /\ DOMAIN table.nodes = CellsOf(Screens(table.columns))
      /\ NodesOK(table.nodes, members)
  BY DEF Indexed
<1>2. /\ ColumnsOK(columns)
      /\ Screens(table.columns) \subseteq Screens(columns) /\ Touched(rect) \subseteq Screens(columns)
  BY <1>1, GrownIs
<1>3. after.columns = columns /\ after.nodes = nodes /\ after.member_rects = table.member_rects
      /\ after = [columns |-> after.columns, nodes |-> after.nodes, member_rects |-> after.member_rects]
  <2>1. after = [table EXCEPT !.columns = columns, !.nodes = nodes]
    BY DEF InsertRect
  <2> HIDE DEF columns, nodes, after
  <2> QED BY <1>1, <2>1
<1>4. /\ MembersOK(more) /\ DOMAIN more = DOMAIN members \cup {ref} /\ more[ref] = rect
      /\ \A o \in DOMAIN members : more[o] = members[o]
  BY <1>1, WithIs
<1>5. ASSUME NEW w
      PROVE  w \in walk <=> \E cell \in RectCells(rect) : w = [cell |-> cell, cont_axes |-> Axes(rect, cell)]
  <2>1. Touched(rect) \cap Touched(rect) = Touched(rect)
    OBVIOUS
  <2>2. RectCells(rect) \cap CellsOf(Touched(rect)) = RectCells(rect)
    BY TouchedCovers
  <2> QED BY <2>1, <2>2, TouchedCovers, WalkIs
<1>6. ASSUME NEW cell
      PROVE  /\ Here(cell) = {} <=> cell \notin RectCells(rect)
             /\ Here(cell) # {} => entry(cell) = [ref |-> ref, cont_axes |-> Axes(rect, cell)]
  <2>1. \A w \in Here(cell) : cell \in RectCells(rect) /\ w.cont_axes = Axes(rect, cell)
    BY <1>5
  <2>2. cell \in RectCells(rect) => [cell |-> cell, cont_axes |-> Axes(rect, cell)] \in Here(cell)
    BY <1>5
  <2> HIDE DEF Here
  <2>3. Here(cell) # {} => (CHOOSE w \in Here(cell) : TRUE) \in Here(cell)
    OBVIOUS
  <2> QED BY <2>1, <2>2, <2>3
<1>7. ScreensOf(table.columns) /\ ScreensOf(columns)
  <2>1. 0 \in Int
    OBVIOUS
  <2> QED BY <1>1, <1>2, <2>1, ScreensIs DEF ScreensOf
<1>8. DOMAIN table.nodes \subseteq CellsOf(Screens(columns)) /\ RectCells(rect) \subseteq CellsOf(Screens(columns))
  BY <1>1, <1>2, <1>7, CellsOfIs, TouchedCovers DEF ScreensOf
<1>9. ASSUME NEW cell \in CellsOf(Screens(columns))
      PROVE  ChainOK(Chain(cell)) /\ Held(Chain(cell)) = EntriesAt(members, cell)
  <2>1. CASE cell \in DOMAIN table.nodes
    BY <1>1, <2>1 DEF NodesOK
  <2>2. CASE cell \notin DOMAIN table.nodes
    <3>1. EntriesAt(members, cell) = {}
      BY <1>1, <2>2 DEF NodesOK, EntriesAt
    <3> QED BY <2>2, <3>1, EmptyChainIs
  <2> QED BY <2>1, <2>2
<1> HIDE DEF columns, Chain, Here, entry, more, after, walk
<1>10. ASSUME NEW cell \in CellsOf(Screens(columns))
       PROVE  ChainOK(nodes[cell]) /\ Held(nodes[cell]) = EntriesAt(more, cell)
  <2>1. CASE cell \notin RectCells(rect)
    <3>1. EntriesAt(more, cell) = EntriesAt(members, cell)
      BY <1>4, <2>1 DEF EntriesAt
    <3> QED BY <1>6, <1>9, <2>1, <3>1
  <2>2. CASE cell \in RectCells(rect)
    <3> DEFINE e == [ref |-> ref, cont_axes |-> Axes(rect, cell)]
    <3>1. EntriesAt(more, cell) = EntriesAt(members, cell) \cup {e}
      <4>1. ASSUME NEW x \in EntriesAt(more, cell)
            PROVE  x \in EntriesAt(members, cell) \cup {e}
        <5>1. PICK o \in DOMAIN more : cell \in RectCells(more[o])
                                       /\ x = [ref |-> o, cont_axes |-> Axes(more[o], cell)]
          BY DEF EntriesAt
        <5> QED BY <1>4, <5>1 DEF EntriesAt
      <4>2. e \in EntriesAt(more, cell)
        BY <1>4, <2>2 DEF EntriesAt
      <4>3. ASSUME NEW x \in EntriesAt(members, cell)
            PROVE  x \in EntriesAt(more, cell)
        <5>1. PICK o \in DOMAIN members : cell \in RectCells(members[o])
                                          /\ x = [ref |-> o, cont_axes |-> Axes(members[o], cell)]
          BY DEF EntriesAt
        <5> QED BY <1>4, <5>1 DEF EntriesAt
      <4> QED BY <4>1, <4>2, <4>3
    <3>2. nodes[cell] = InsertRef(Chain(cell), e)
      BY <1>6, <2>2
    <3>3. e \in Entries
      BY AxesIs DEF Entries
    <3>4. \A x \in Held(Chain(cell)) : x.ref # e.ref
      BY <1>9 DEF EntriesAt
    <3> HIDE DEF nodes, e
    <3> QED BY <1>9, <3>1, <3>2, <3>3, <3>4, InsertRefIs
  <2> QED BY <2>1, <2>2
<1>11. DOMAIN nodes = CellsOf(Screens(columns))
  OBVIOUS
<1> HIDE DEF nodes
<1>12. ASSUME NEW o \in DOMAIN more
       PROVE  RectCells(more[o]) \subseteq DOMAIN nodes
  BY <1>1, <1>4, <1>8, <1>11 DEF NodesOK
<1>13. NodesOK(nodes, more)
  BY <1>10, <1>11, <1>12 DEF NodesOK
<1> QED BY <1>2, <1>3, <1>4, <1>11, <1>13 DEF Indexed, after, more

LEMMA EraseRectIs ==
  ASSUME NEW table, NEW members, Indexed(table, members), NEW ref \in DOMAIN members
  PROVE  /\ Indexed(EraseRect(table, ref, members[ref]), Less(members, ref))
         /\ EraseRect(table, ref, members[ref]).member_rects = table.member_rects
<1> DEFINE rect  == members[ref]
           walk  == {w.cell : w \in Walk(rect, Touched(rect) \cap Screens(table.columns))}
           after == EraseRect(table, ref, rect)
           fewer == Less(members, ref)
           nodes == [cell \in DOMAIN table.nodes |->
                       IF cell \in walk THEN EraseRef(table.nodes[cell], ref) ELSE table.nodes[cell]]
<1>1. /\ table = [columns |-> table.columns, nodes |-> table.nodes, member_rects |-> table.member_rects]
      /\ ColumnsOK(table.columns) /\ MembersOK(members)
      /\ DOMAIN table.nodes = CellsOf(Screens(table.columns))
      /\ NodesOK(table.nodes, members)
  BY DEF Indexed
<1>2. rect \in Rects
  BY <1>1 DEF MembersOK
<1>3. after.columns = table.columns /\ after.nodes = nodes /\ after.member_rects = table.member_rects
      /\ after = [columns |-> after.columns, nodes |-> after.nodes, member_rects |-> after.member_rects]
  <2>1. after = [table EXCEPT !.nodes = nodes]
    BY <1>1 DEF EraseRect
  <2> HIDE DEF nodes, after
  <2> QED BY <1>1, <2>1
<1>4. /\ MembersOK(fewer) /\ DOMAIN fewer = DOMAIN members \ {ref}
      /\ \A o \in DOMAIN members \ {ref} : fewer[o] = members[o]
  BY <1>1, LessIs
<1>5. Screens(table.columns) \in SUBSET (Int \X Int)
  <2>1. 0 \in Int
    OBVIOUS
  <2> QED BY <1>1, <2>1, ScreensIs
<1>6. walk = RectCells(rect)
  <2>1. RectCells(rect) \cap CellsOf(Screens(table.columns)) = RectCells(rect)
    BY <1>1 DEF NodesOK
  <2>2. \A w : w \in Walk(rect, Touched(rect) \cap Screens(table.columns)) <=>
                 \E cell \in RectCells(rect) : w = [cell |-> cell, cont_axes |-> Axes(rect, cell)]
    BY <1>2, <1>5, <2>1, WalkIs
  <2> DEFINE steps == Walk(rect, Touched(rect) \cap Screens(table.columns))
  <2>3. ASSUME NEW cell \in {w.cell : w \in steps}
        PROVE  cell \in RectCells(rect)
    BY <2>2
  <2>4. ASSUME NEW cell \in RectCells(rect)
        PROVE  cell \in {w.cell : w \in steps}
    <3>1. [cell |-> cell, cont_axes |-> Axes(rect, cell)] \in steps
      BY <2>2
    <3> HIDE DEF steps
    <3> QED BY <3>1
  <2> QED BY <2>3, <2>4
<1> HIDE DEF walk, fewer, after
<1>7. ASSUME NEW cell \in DOMAIN table.nodes
      PROVE  ChainOK(nodes[cell]) /\ Held(nodes[cell]) = EntriesAt(fewer, cell)
  <2>1. ChainOK(table.nodes[cell]) /\ Held(table.nodes[cell]) = EntriesAt(members, cell)
    BY <1>1 DEF NodesOK
  <2>2. EntriesAt(fewer, cell) = {e \in EntriesAt(members, cell) : e.ref # ref}
    <3>1. ASSUME NEW x \in EntriesAt(fewer, cell)
          PROVE  x \in EntriesAt(members, cell) /\ x.ref # ref
      <4>1. PICK o \in DOMAIN fewer : cell \in RectCells(fewer[o])
                                      /\ x = [ref |-> o, cont_axes |-> Axes(fewer[o], cell)]
        BY DEF EntriesAt
      <4> QED BY <1>4, <4>1 DEF EntriesAt
    <3>2. ASSUME NEW x \in EntriesAt(members, cell), x.ref # ref
          PROVE  x \in EntriesAt(fewer, cell)
      <4>1. PICK o \in DOMAIN members : cell \in RectCells(members[o])
                                        /\ x = [ref |-> o, cont_axes |-> Axes(members[o], cell)]
        BY DEF EntriesAt
      <4> QED BY <1>4, <3>2, <4>1 DEF EntriesAt
    <3> QED BY <3>1, <3>2
  <2>3. CASE cell \in RectCells(rect)
    BY <1>6, <2>1, <2>2, <2>3, EraseRefIs
  <2>4. CASE cell \notin RectCells(rect)
    <3>1. \A e \in EntriesAt(members, cell) : e.ref # ref
      BY <2>4 DEF EntriesAt
    <3> QED BY <1>6, <2>1, <2>2, <2>4, <3>1
  <2> QED BY <2>3, <2>4
<1>8. DOMAIN nodes = DOMAIN table.nodes
  OBVIOUS
<1> HIDE DEF nodes
<1>9. ASSUME NEW o \in DOMAIN fewer
      PROVE  RectCells(fewer[o]) \subseteq DOMAIN nodes
  BY <1>1, <1>4, <1>8 DEF NodesOK
<1>10. NodesOK(nodes, fewer)
  BY <1>7, <1>8, <1>9 DEF NodesOK
<1> QED BY <1>1, <1>3, <1>4, <1>8, <1>10 DEF Indexed, after, fewer

LEMMA InsertIs ==
  ASSUME NEW table, NEW members, Indexed(table, members), NEW ref \in Nat, NEW rect \in Rects,
         ref \notin DOMAIN members, MembersOK(table.member_rects),
         With(members, ref, rect) = With(table.member_rects, ref, rect)
  PROVE  /\ TableOK(TableInsert(table, ref, rect))
         /\ TableInsert(table, ref, rect).member_rects = With(table.member_rects, ref, rect)
<1> DEFINE named == [table EXCEPT !.member_rects = With(table.member_rects, ref, rect)]
<1>1. table = [columns |-> table.columns, nodes |-> table.nodes, member_rects |-> table.member_rects]
  BY DEF Indexed
<1>2. TableInsert(table, ref, rect) = InsertRect(named, ref, rect)
  BY <1>1 DEF TableInsert, With
<1>3. /\ named.columns = table.columns /\ named.nodes = table.nodes
      /\ named.member_rects = With(table.member_rects, ref, rect)
      /\ named = [columns |-> named.columns, nodes |-> named.nodes, member_rects |-> named.member_rects]
  BY <1>1
<1> HIDE DEF named
<1>4. Indexed(named, members)
  BY <1>3 DEF Indexed
<1> QED BY <1>2, <1>3, <1>4, InsertRectIs DEF TableOK

LEMMA TableInsertIs ==
  ASSUME NEW table, TableOK(table), NEW ref \in Nat, NEW rect \in Rects,
         ref \notin DOMAIN table.member_rects
  PROVE  /\ TableOK(TableInsert(table, ref, rect))
         /\ TableInsert(table, ref, rect).member_rects = With(table.member_rects, ref, rect)
BY InsertIs DEF TableOK, Indexed

LEMMA TableEraseIs ==
  ASSUME NEW table, TableOK(table), NEW ref
  PROVE  /\ TableOK(TableErase(table, ref))
         /\ TableErase(table, ref).member_rects = Less(table.member_rects, ref)
<1> DEFINE members == table.member_rects
           erased  == EraseRect(table, ref, members[ref])
<1>1. CASE ref \notin DOMAIN members
  <2>1. MembersOK(members)
    BY DEF TableOK, Indexed
  <2>2. Less(members, ref) = members
    BY <1>1, <2>1 DEF MembersOK, Less
  <2> QED BY <1>1, <2>2 DEF TableErase
<1>2. CASE ref \in DOMAIN members
  <2>1. Indexed(erased, Less(members, ref)) /\ erased.member_rects = members
    BY <1>2, EraseRectIs DEF TableOK
  <2>2. TableErase(table, ref) = [erased EXCEPT !.member_rects = Less(members, ref)]
    <3>1. TableErase(table, ref) = [erased EXCEPT !.member_rects = Restrict(@, DOMAIN @ \ {ref})]
      BY <1>2 DEF TableErase
    <3>2. erased = [columns |-> erased.columns, nodes |-> erased.nodes, member_rects |-> erased.member_rects]
      BY <2>1 DEF Indexed
    <3> HIDE DEF erased, members
    <3>3. Restrict(members, DOMAIN members \ {ref}) = Less(members, ref)
      BY DEF Restrict, Less
    <3> QED BY <2>1, <3>1, <3>2, <3>3
  <2> DEFINE after == TableErase(table, ref)
  <2>3. erased = [columns |-> erased.columns, nodes |-> erased.nodes, member_rects |-> erased.member_rects]
    BY <2>1 DEF Indexed
  <2> HIDE DEF erased, after, members
  <2>4. /\ after.columns = erased.columns /\ after.nodes = erased.nodes
        /\ after.member_rects = Less(members, ref)
        /\ after = [columns |-> after.columns, nodes |-> after.nodes, member_rects |-> after.member_rects]
    BY <2>2, <2>3 DEF after
  <2>5. Indexed(after, Less(members, ref))
    BY <2>1, <2>4 DEF Indexed
  <2> QED BY <2>4, <2>5 DEF TableOK, after, members
<1> QED BY <1>1, <1>2

LEMMA UpdateLayerIs ==
  ASSUME NEW table, TableOK(table), NEW ref \in Nat, NEW rect \in Rects
  PROVE  /\ TableOK(update_layer(table, ref, rect))
         /\ update_layer(table, ref, rect).member_rects = With(table.member_rects, ref, rect)
<1> DEFINE members == table.member_rects
           erased  == EraseRect(table, ref, members[ref])
<1>1. CASE ref \notin DOMAIN members
  BY <1>1, TableInsertIs DEF update_layer
<1>2. CASE ref \in DOMAIN members
  <2>1. Indexed(erased, Less(members, ref)) /\ erased.member_rects = members
    BY <1>2, EraseRectIs DEF TableOK
  <2>2. MembersOK(members)
    BY DEF TableOK, Indexed
  <2>3. ref \notin DOMAIN Less(members, ref)
    BY DEF Less
  <2>4. update_layer(table, ref, rect) = TableInsert(erased, ref, rect)
    BY <1>2 DEF update_layer
  <2> HIDE DEF erased, members
  <2> QED BY <2>1, <2>2, <2>3, <2>4, InsertIs, LessWith DEF members
<1> QED BY <1>1, <1>2

LEMMA TableUpdateIs ==
  ASSUME NEW table, TableOK(table), NEW ref \in Nat, NEW rect \in Rects
  PROVE  /\ TableOK(TableUpdate(table, ref, rect))
         /\ TableUpdate(table, ref, rect).member_rects = With(table.member_rects, ref, rect)
<1> DEFINE members == table.member_rects
<1>1. CASE ref \in DOMAIN members /\ members[ref] = rect
  <2>1. MembersOK(members)
    BY DEF TableOK, Indexed
  <2>2. With(members, ref, rect) = members
    BY <1>1, <2>1 DEF MembersOK, With
  <2> QED BY <1>1, <2>2 DEF TableUpdate
<1>2. CASE ~(ref \in DOMAIN members /\ members[ref] = rect)
  <2>1. TableUpdate(table, ref, rect) = update_layer(table, ref, rect)
    BY <1>2 DEF TableUpdate, update_layer
  <2> QED BY <2>1, UpdateLayerIs
<1> QED BY <1>1, <1>2

-----------------------------------------------------------------------------
(* A query of a table.                                                     *)

LEMMA HitsIs ==
  ASSUME NEW table, TableOK(table), NEW rect \in Rects, NEW h
  PROVE  h \in Hits(table, rect) <=>
           \E cell \in RectCells(rect) \cap DOMAIN table.nodes : \E p \in Places(table.nodes[cell]) :
             h = <<cell, p>> /\ RefAt(table.nodes[cell], p).cont_axes \cap Axes(rect, cell) = {}
<1> DEFINE walk == Walk(rect, Touched(rect) \cap Screens(table.columns))
           Of(w) == {<<w.cell, p>> : p \in {p \in Places(table.nodes[w.cell]) :
                                              NewOnAxes(RefAt(table.nodes[w.cell], p), w)}}
           Hit(cell, p) == h = <<cell, p>> /\ RefAt(table.nodes[cell], p).cont_axes \cap Axes(rect, cell) = {}
<1>1. /\ ColumnsOK(table.columns) /\ MembersOK(table.member_rects)
      /\ DOMAIN table.nodes = CellsOf(Screens(table.columns))
      /\ NodesOK(table.nodes, table.member_rects)
  BY DEF TableOK, Indexed
<1>2. Screens(table.columns) \in SUBSET (Int \X Int)
  <2>1. 0 \in Int
    OBVIOUS
  <2> QED BY <1>1, <2>1, ScreensIs
<1>3. \A w : w \in walk <=> \E cell \in RectCells(rect) \cap DOMAIN table.nodes :
                              w = [cell |-> cell, cont_axes |-> Axes(rect, cell)]
  BY <1>1, <1>2, WalkIs
<1>4. CASE DOMAIN table.columns = {} \/ DOMAIN table.member_rects = {}
  <2>1. Hits(table, rect) = {}
    BY <1>4 DEF Hits
  <2>2. ASSUME DOMAIN table.columns = {}
        PROVE  DOMAIN table.nodes = {}
    BY <1>1, <2>2 DEF CellsOf, Screens
  <2>3. ASSUME DOMAIN table.member_rects = {}, NEW cell \in DOMAIN table.nodes
        PROVE  Places(table.nodes[cell]) = {}
    BY <1>1, <2>3 DEF NodesOK, EntriesAt, Held
  <2> QED BY <1>4, <2>1, <2>2, <2>3
<1>5. CASE ~(DOMAIN table.columns = {} \/ DOMAIN table.member_rects = {})
  <2>1. Hits(table, rect) = UNION {Of(w) : w \in walk}
    BY <1>5 DEF Hits
  <2> HIDE DEF walk
  <2>2. ASSUME NEW w, NEW cell, w = [cell |-> cell, cont_axes |-> Axes(rect, cell)]
        PROVE  h \in Of(w) <=> \E p \in Places(table.nodes[cell]) : Hit(cell, p)
    BY <2>2 DEF NewOnAxes
  <2> HIDE DEF Of, Hit
  <2>3. h \in Hits(table, rect) <=> \E w \in walk : h \in Of(w)
    BY <2>1
  <2>4. h \in Hits(table, rect) <=>
          \E cell \in RectCells(rect) \cap DOMAIN table.nodes : \E p \in Places(table.nodes[cell]) : Hit(cell, p)
    BY <1>3, <2>2, <2>3
  <2> QED BY <2>4 DEF Hit
<1> QED BY <1>4, <1>5

\* The cell in which two rectangles that meet do so first.
First(a, b) == <<Larger(a.l, b.l), Larger(a.t, b.t)>>

LEMMA FirstIs ==
  ASSUME NEW a \in Rects, NEW b \in Rects, NEW cell
  PROVE  cell \in RectCells(a) \cap RectCells(b) /\ Axes(a, cell) \cap Axes(b, cell) = {}
           <=> Meets(a, b) /\ cell = First(a, b)
<1>1. /\ a.l \in Int /\ a.r \in Int /\ a.t \in Int /\ a.b \in Int
      /\ b.l \in Int /\ b.r \in Int /\ b.t \in Int /\ b.b \in Int
  BY DEF Rects
<1>2. Axes(a, cell) \cap Axes(b, cell) = {} <=>
        (cell[1] = a.l \/ cell[1] = b.l) /\ (cell[2] = a.t \/ cell[2] = b.t)
  BY AxesIs
<1>3. ASSUME cell \in RectCells(a) \cap RectCells(b), Axes(a, cell) \cap Axes(b, cell) = {}
      PROVE  Meets(a, b) /\ cell = First(a, b)
  <2>1. /\ cell = <<cell[1], cell[2]>> /\ cell[1] \in Int /\ cell[2] \in Int
        /\ a.l <= cell[1] /\ cell[1] < a.r /\ a.t <= cell[2] /\ cell[2] < a.b
        /\ b.l <= cell[1] /\ cell[1] < b.r /\ b.t <= cell[2] /\ cell[2] < b.b
    BY <1>3, CellIs
  <2>2. cell[1] = Larger(a.l, b.l) /\ cell[2] = Larger(a.t, b.t)
    BY <1>1, <1>2, <1>3, <2>1 DEF Larger
  <2>3. Meets(a, b)
    BY <1>1, <2>1, <2>2 DEF Meets, Larger, Smaller
  <2> QED BY <2>1, <2>2, <2>3 DEF First
<1>4. ASSUME Meets(a, b), cell = First(a, b)
      PROVE  cell \in RectCells(a) \cap RectCells(b) /\ Axes(a, cell) \cap Axes(b, cell) = {}
  <2>1. cell = <<cell[1], cell[2]>> /\ cell[1] = Larger(a.l, b.l) /\ cell[2] = Larger(a.t, b.t)
    BY <1>4 DEF First
  <2>2. /\ cell[1] \in a.l..(a.r - 1) /\ cell[1] \in b.l..(b.r - 1)
        /\ cell[2] \in a.t..(a.b - 1) /\ cell[2] \in b.t..(b.b - 1)
        /\ (cell[1] = a.l \/ cell[1] = b.l) /\ (cell[2] = a.t \/ cell[2] = b.t)
    BY <1>1, <1>4, <2>1 DEF Meets, Larger, Smaller
  <2>3. cell \in RectCells(a) \cap RectCells(b)
    BY <2>1, <2>2 DEF RectCells
  <2> QED BY <1>2, <2>2, <2>3
<1> QED BY <1>3, <1>4

\* Every hit is the first cell in which a member's rectangle meets the query's.
LEMMA HitIs ==
  ASSUME NEW table, TableOK(table), NEW rect \in Rects, NEW h \in Hits(table, rect)
  PROVE  LET o == HitRef(table, h)
         IN /\ o \in DOMAIN table.member_rects /\ Meets(table.member_rects[o], rect)
            /\ h[1] = First(table.member_rects[o], rect)
            /\ h[1] \in DOMAIN table.nodes
            /\ h = <<h[1], h[2]>> /\ h[2] \in Places(table.nodes[h[1]])
<1> DEFINE members == table.member_rects
<1>1. MembersOK(members) /\ NodesOK(table.nodes, members)
  BY DEF TableOK, Indexed
<1>2. PICK cell \in RectCells(rect) \cap DOMAIN table.nodes : \E p \in Places(table.nodes[cell]) :
        h = <<cell, p>> /\ RefAt(table.nodes[cell], p).cont_axes \cap Axes(rect, cell) = {}
  BY HitsIs
<1>3. PICK p \in Places(table.nodes[cell]) :
        h = <<cell, p>> /\ RefAt(table.nodes[cell], p).cont_axes \cap Axes(rect, cell) = {}
  BY <1>2
<1>4. RefAt(table.nodes[cell], p) \in EntriesAt(members, cell)
  BY <1>1, <1>2 DEF NodesOK, Held
<1>5. PICK o \in DOMAIN members : cell \in RectCells(members[o])
        /\ RefAt(table.nodes[cell], p) = [ref |-> o, cont_axes |-> Axes(members[o], cell)]
  BY <1>4 DEF EntriesAt
<1>6. HitRef(table, h) = o
  BY <1>3, <1>5 DEF HitRef
<1>7. members[o] \in Rects
  BY <1>1 DEF MembersOK
<1>8. Meets(members[o], rect) /\ cell = First(members[o], rect)
  BY <1>2, <1>3, <1>5, <1>7, FirstIs
<1> QED BY <1>2, <1>3, <1>6, <1>8

\* Every table that is as it should be answers every query.
LEMMA TableFinds ==
  ASSUME NEW table, TableOK(table), NEW rect \in Rects
  PROVE  FindsMembers(table, rect) /\ FindsOnce(table, rect)
<1> DEFINE members == table.member_rects
<1>1. MembersOK(members) /\ NodesOK(table.nodes, members)
  BY DEF TableOK, Indexed
<1>2. ASSUME NEW o \in DOMAIN members, Meets(members[o], rect)
      PROVE  \E h \in Hits(table, rect) : HitRef(table, h) = o
  <2> DEFINE cell == First(members[o], rect)
             e    == [ref |-> o, cont_axes |-> Axes(members[o], cell)]
  <2>1. members[o] \in Rects
    BY <1>1 DEF MembersOK
  <2>2. /\ cell \in RectCells(members[o]) \cap RectCells(rect)
        /\ Axes(members[o], cell) \cap Axes(rect, cell) = {}
    BY <1>2, <2>1, FirstIs
  <2>3. cell \in DOMAIN table.nodes
    BY <1>1, <2>2 DEF NodesOK
  <2>4. e \in Held(table.nodes[cell])
    BY <1>1, <2>2, <2>3 DEF NodesOK, EntriesAt
  <2>5. PICK p \in Places(table.nodes[cell]) : RefAt(table.nodes[cell], p) = e
    BY <2>4 DEF Held
  <2> HIDE DEF cell
  <2>6. <<cell, p>> \in Hits(table, rect)
    BY <2>2, <2>3, <2>5, HitsIs
  <2>7. HitRef(table, <<cell, p>>) = o
    BY <2>5 DEF HitRef
  <2> QED BY <2>6, <2>7
<1>3. FindsMembers(table, rect)
  <2>1. ASSUME NEW o \in {HitRef(table, h) : h \in Hits(table, rect)}
        PROVE  o \in {ref \in DOMAIN members : Meets(members[ref], rect)}
    BY HitIs
  <2>2. ASSUME NEW o \in {ref \in DOMAIN members : Meets(members[ref], rect)}
        PROVE  o \in {HitRef(table, h) : h \in Hits(table, rect)}
    BY <1>2
  <2> QED BY <2>1, <2>2 DEF FindsMembers
<1>4. ASSUME NEW g \in Hits(table, rect), NEW h \in Hits(table, rect), HitRef(table, g) = HitRef(table, h)
      PROVE  g = h
  <2>1. /\ g[1] = h[1] /\ g[1] \in DOMAIN table.nodes /\ g = <<g[1], g[2]>> /\ h = <<h[1], h[2]>>
        /\ g[2] \in Places(table.nodes[g[1]]) /\ h[2] \in Places(table.nodes[g[1]])
    BY <1>4, HitIs
  <2>2. RefAt(table.nodes[g[1]], g[2]).ref = RefAt(table.nodes[g[1]], h[2]).ref
    BY <1>4, <2>1 DEF HitRef
  <2>3. ChainOK(table.nodes[g[1]])
    BY <1>1, <2>1 DEF NodesOK
  <2>4. g[2] = h[2]
    BY <2>1, <2>2, <2>3 DEF ChainOK
  <2> QED BY <2>1, <2>4
<1> QED BY <1>3, <1>4 DEF FindsOnce

-----------------------------------------------------------------------------
(* The inductive invariant of the tables and the layers.                   *)

BlockNumbers == 1..MaxBlocks
Placements   == [layer : Layers \cup {LAYER_NONE}, Location : Locations]
Motions      == [Offset : Int \X Int, Speed : Int \X Int, join_timer : Nat]

BlockTypes ==
  /\ Block \in [BlockNumbers -> Placements] /\ numBlock \in 0..MaxBlocks
  /\ \A b \in BlockNumbers : IF b <= numBlock THEN Block[b].Location \in Solid ELSE Block[b] = NoPlace

\* Only the layers that events and NPCs move have ever moved.
LayerTypes ==
  /\ Layer \in [Layers -> Motions]
  /\ \A l \in Layers \ Moved : Layer[l].Speed = Still /\ Layer[l].join_timer = 0

TableTypes ==
  /\ TableOK(common_table)
  /\ layer_table = [l \in Layers |-> layer_table[l]] /\ \A l \in Layers : TableOK(layer_table[l])

ActiveTypes ==
  /\ active_tables \in Seq(Moved)
  /\ \A j, k \in DOMAIN active_tables : active_tables[j] = active_tables[k] => j = k

TablesTypes == BlockTypes /\ LayerTypes /\ TableTypes /\ ActiveTypes

\* The blocks that a loop has not come to are the layer's; its table is active when it
\* is being filled, and no longer when it is being emptied.
LoopOK ==
  \/ Idle
  \/ /\ loop = [site |-> loop.site, layer |-> loop.layer, rest |-> loop.rest]
     /\ loop.site \in {"split", "join", "move"} /\ loop.layer \in Moved
     /\ loop.rest \subseteq blocks(loop.layer)
     /\ loop.site = "split" => layer_table_active(loop.layer)
     /\ loop.site = "join"  => ~layer_table_active(loop.layer)

\* Which table has a block, halfway through a loop too.
Pending(site, b) == loop.site = site /\ b \in loop.rest
InCommon(b) ==
  /\ b \in 1..numBlock
  /\ Pending("split", b) \/ (~Pending("join", b) /\ ~HasOwnTable(Block[b].layer))
InLayer(l, b) ==
  /\ b \in 1..numBlock /\ Block[b].layer = l
  /\ \/ layer_table_active(l) /\ ~Pending("split", b)
     \/ loop.site = "join" /\ loop.layer = l

\* ... and where: a layer that moves is ahead of the blocks that have not been carried.
LayerLoc(l, b) ==
  LET pending == Pending("move", b)
  IN Shifted(Block[b].Location,
             (IF pending THEN Layer[l].Speed[1] ELSE 0) - Layer[l].Offset[1],
             (IF pending THEN Layer[l].Speed[2] ELSE 0) - Layer[l].Offset[2])

CommonHolds ==
  /\ DOMAIN common_table.member_rects = {b \in BlockNumbers : InCommon(b)}
  /\ \A b \in BlockNumbers : InCommon(b) =>
       common_table.member_rects[b] = rect_external(Block[b].Location)
LayerHolds(l) ==
  /\ DOMAIN layer_table[l].member_rects = {b \in BlockNumbers : InLayer(l, b)}
  /\ \A b \in BlockNumbers : InLayer(l, b) =>
       layer_table[l].member_rects[b] = rect_external(LayerLoc(l, b))

TablesInv ==
  /\ TablesTypes /\ LoopOK
  /\ CommonHolds /\ \A l \in Layers : LayerHolds(l)

LEMMA ShiftedIs ==
  ASSUME NEW loc \in Locations, NEW x \in Int, NEW y \in Int
  PROVE  /\ Shifted(loc, x, y) \in Locations
         /\ Shifted(loc, x, y) = [X |-> loc.X + x, Y |-> loc.Y + y, Width |-> loc.Width, Height |-> loc.Height]
         /\ loc \in Solid => Shifted(loc, x, y) \in Solid
<1> DEFINE after == Shifted(loc, x, y)
<1>1. loc.X \in Int /\ loc.Y \in Int /\ loc.Width \in Nat /\ loc.Height \in Nat
  BY DEF Locations
<1>2. after \in Locations /\ after.X = loc.X + x /\ after.Y = loc.Y + y
      /\ after.Width = loc.Width /\ after.Height = loc.Height
  <2> DEFINE mid == [loc EXCEPT !.X = loc.X + x]
  <2>1. mid \in Locations /\ mid.X = loc.X + x /\ mid.Y = loc.Y
        /\ mid.Width = loc.Width /\ mid.Height = loc.Height
    BY DEF Locations
  <2> HIDE DEF mid
  <2>2. after = [mid EXCEPT !.Y = mid.Y + y]
    BY <2>1 DEF Shifted, mid
  <2> HIDE DEF after
  <2>3. mid.Y + y \in Int
    BY <1>1, <2>1
  <2> QED BY <2>1, <2>2, <2>3 DEF Locations
<1> HIDE DEF after
<1>3. after = [X |-> loc.X + x, Y |-> loc.Y + y, Width |-> loc.Width, Height |-> loc.Height]
  BY <1>2 DEF Locations
<1> QED BY <1>1, <1>2, <1>3 DEF Solid, after

LEMMA RectExternalIs ==
  ASSUME NEW loc \in Locations
  PROVE  rect_external(loc) \in Rects
<1>1. CellSize \in Nat \ {0}
  BY CellAssumption
<1>2. /\ loc.X \in Int /\ loc.X + loc.Width + CellSize - 1 \in Int
      /\ loc.Y \in Int /\ loc.Y + loc.Height + CellSize - 1 \in Int
  BY <1>1 DEF Locations
<1> QED BY <1>1, <1>2, DivIs DEF rect_external, Rects

\* Layers are numbers, and LAYER_NONE is none of them.
LEMMA LayerNumbers == Layers \subseteq Int /\ LAYER_NONE \notin Layers /\ LAYER_NONE \in Int
BY LayersAssumption DEF LAYER_NONE

\* Only a layer that moves has a table of its own, and so the common one is always
\* among those that stand for another layer of a block with such a layer.
LEMMA ActiveMoved ==
  TablesTypes =>
    /\ \A l : layer_table_active(l) => l \in Moved
    /\ \E l \in Layers : ~layer_table_active(l)
<1> SUFFICES ASSUME TablesTypes
             PROVE  /\ \A l : layer_table_active(l) => l \in Moved
                    /\ \E l \in Layers : ~layer_table_active(l)
  OBVIOUS
<1>1. active_tables \in Seq(Moved)
  BY DEF TablesTypes, ActiveTypes
<1>2. \A l : layer_table_active(l) => l \in Moved
  BY <1>1 DEF layer_table_active
<1> QED BY <1>2, LayersAssumption

\* The place of a block in its layer, after it was put.
OwnLoc(l, b) == Shifted(Block'[b].Location, -Layer[l].Offset[1], -Layer[l].Offset[2])

\* The tables after the block b was synchronized, and their members.
SyncGives(common, own, after, b) ==
  /\ TableOK(after.common)
  /\ after.own = [l \in Layers |-> after.own[l]] /\ \A l \in Layers : TableOK(after.own[l])
  /\ after.common.member_rects =
       IF b <= numBlock' /\ ~HasOwnTable(Block'[b].layer)
       THEN With(common.member_rects, b, rect_external(Block'[b].Location))
       ELSE Less(common.member_rects, b)
  /\ \A l \in Layers :
       after.own[l].member_rects =
         IF b <= numBlock' /\ Block'[b].layer = l /\ layer_table_active(l)
         THEN With(own[l].member_rects, b, rect_external(OwnLoc(l, b)))
         ELSE Less(own[l].member_rects, b)

LEMMA SyncedIs ==
  ASSUME TablesTypes, NEW common, TableOK(common),
         NEW own, own = [l \in Layers |-> own[l]], \A l \in Layers : TableOK(own[l]),
         NEW b \in Nat, Block'[b] \in Placements, numBlock' \in Nat,
         b > numBlock' => Block'[b].layer = LAYER_NONE,
         \A l \in Layers : ~layer_table_active(l) => b \notin DOMAIN own[l].member_rects
  PROVE  SyncGives(common, own, Synced(common, own, b), b)
<1> DEFINE after   == Synced(common, own, b)
           layer   == Block'[b].layer
           loc     == Block'[b].Location
           others  == OtherLayers(b)
           cleared == IF \E l \in others : ~layer_table_active(l) THEN TableErase(common, b) ELSE common
           erased  == [l \in Layers |-> IF l \in others /\ layer_table_active(l) THEN TableErase(own[l], b)
                                        ELSE own[l]]
           moved   == IF layer = LAYER_NONE THEN loc
                      ELSE Shifted(loc, -Layer[layer].Offset[1], -Layer[layer].Offset[2])
<1>1. layer \in Layers \cup {LAYER_NONE} /\ loc \in Locations
  BY DEF Placements
<1>2. /\ \A l : layer_table_active(l) => l \in Moved
      /\ \E l \in Layers : ~layer_table_active(l)
  BY ActiveMoved
<1>3. others = Layers \ {layer}
  BY DEF OtherLayers
<1>m. Moved \subseteq Layers /\ LAYER_NONE \notin Layers
  BY LayersAssumption, LayerNumbers
<1>4. after = IF b <= numBlock'
              THEN IF HasOwnTable(layer)
                   THEN [common |-> cleared,
                         own |-> [erased EXCEPT ![layer] = update_layer(@, b, rect_external(moved))]]
                   ELSE [common |-> TableUpdate(cleared, b, rect_external(loc)), own |-> erased]
              ELSE IF HasOwnTable(layer)
                   THEN [common |-> cleared, own |-> [erased EXCEPT ![layer] = TableErase(@, b)]]
                   ELSE [common |-> TableErase(cleared, b), own |-> erased]
  BY DEF Synced
<1>5. MembersOK(common.member_rects) /\ \A l \in Layers : MembersOK(own[l].member_rects)
  BY DEF TableOK, Indexed
<1>6. /\ TableOK(cleared)
      /\ cleared.member_rects = Less(common.member_rects, b)
           \/ (cleared = common /\ ~HasOwnTable(layer))
  <2>1. CASE \E l \in others : ~layer_table_active(l)
    BY <2>1, TableEraseIs
  <2>2. CASE ~\E l \in others : ~layer_table_active(l)
    <3>1. ~layer_table_active(layer)
      BY <1>2, <1>3, <2>2
    <3> QED BY <2>2, <3>1 DEF HasOwnTable
  <2> QED BY <2>1, <2>2
<1>7. ASSUME NEW l \in Layers
      PROVE  /\ TableOK(erased[l])
             /\ l # layer \/ ~layer_table_active(l) => erased[l].member_rects = Less(own[l].member_rects, b)
             /\ l = layer => erased[l] = own[l]
  <2>1. CASE l \in others /\ layer_table_active(l)
    <3>1. erased[l] = TableErase(own[l], b) /\ l # layer
      BY <1>3, <2>1
    <3> QED BY <3>1, TableEraseIs
  <2>2. CASE ~(l \in others /\ layer_table_active(l))
    <3>1. erased[l] = own[l]
      BY <2>2
    <3>2. l # layer => l \in others
      BY <1>3
    <3>3. ~layer_table_active(l) => Less(own[l].member_rects, b) = own[l].member_rects
      BY <1>5 DEF Less, MembersOK
    <3> QED BY <2>2, <3>1, <3>2, <3>3
  <2> QED BY <2>1, <2>2
<1>8. rect_external(loc) \in Rects
  BY <1>1, RectExternalIs
<1> DEFINE once  == Less(common.member_rects, b)
<1>9. /\ MembersOK(once) /\ Less(once, b) = once
      /\ With(once, b, rect_external(loc)) = With(common.member_rects, b, rect_external(loc))
  <2>1. MembersOK(once)
    BY <1>5, LessIs
  <2>2. Less(once, b) = once
    BY DEF Less
  <2> QED BY <1>5, <1>8, <2>1, <2>2, LessWith
<1>10. erased = [l \in Layers |-> erased[l]]
  OBVIOUS
<1> HIDE DEF cleared, erased, others, once, after
<1>11. CASE HasOwnTable(layer)
  <2>1. layer \in Layers /\ layer_table_active(layer) /\ layer # LAYER_NONE /\ b <= numBlock'
    BY <1>m, <1>2, <1>11 DEF HasOwnTable
  <2>2. after = [common |-> cleared,
                 own |-> [erased EXCEPT ![layer] = update_layer(@, b, rect_external(moved))]]
    BY <1>4, <1>11, <2>1
  <2>3. Layer[layer].Offset[1] \in Int /\ Layer[layer].Offset[2] \in Int
    BY <2>1 DEF TablesTypes, LayerTypes, Motions
  <2>4. moved = Shifted(loc, -Layer[layer].Offset[1], -Layer[layer].Offset[2]) /\ moved \in Locations
    <3>1. -Layer[layer].Offset[1] \in Int /\ -Layer[layer].Offset[2] \in Int
      BY <2>3
    <3> QED BY <1>1, <2>1, <3>1, ShiftedIs
  <2> HIDE DEF moved, layer, loc
  <2>5. /\ TableOK(update_layer(own[layer], b, rect_external(moved)))
        /\ update_layer(own[layer], b, rect_external(moved)).member_rects
             = With(own[layer].member_rects, b, rect_external(moved))
    BY <2>1, <2>4, RectExternalIs, UpdateLayerIs
  <2>6. /\ after.common = cleared
        /\ after.own = [l \in Layers |-> after.own[l]]
        /\ \A l \in Layers : after.own[l] = IF l = layer THEN update_layer(own[layer], b, rect_external(moved))
                                            ELSE erased[l]
    BY <1>7, <1>10, <2>1, <2>2
  <2> QED BY <1>6, <1>7, <1>11, <2>1, <2>4, <2>5, <2>6 DEF SyncGives, OwnLoc, once, layer, loc, after
<1>12. CASE ~HasOwnTable(layer)
  <2>1. ~layer_table_active(layer)
    BY <1>m, <1>2, <1>12 DEF HasOwnTable
  <2>2. \A l \in Layers : /\ TableOK(erased[l])
                          /\ erased[l].member_rects = Less(own[l].member_rects, b)
    BY <1>7, <2>1
  <2>3. CASE b <= numBlock'
    <3>1. after = [common |-> TableUpdate(cleared, b, rect_external(loc)), own |-> erased]
      BY <1>4, <1>12, <2>3
    <3>2. /\ TableOK(after.common)
          /\ after.common.member_rects = With(cleared.member_rects, b, rect_external(loc))
      BY <1>6, <1>8, <3>1, TableUpdateIs
    <3>3. after.common.member_rects = With(common.member_rects, b, rect_external(loc))
      BY <1>6, <1>9, <3>2 DEF once
    <3> QED BY <1>10, <1>12, <2>1, <2>2, <2>3, <3>1, <3>2, <3>3 DEF SyncGives, after
  <2>4. CASE ~(b <= numBlock')
    <3>1. after = [common |-> TableErase(cleared, b), own |-> erased]
      BY <1>4, <1>12, <2>4
    <3>2. /\ TableOK(after.common)
          /\ after.common.member_rects = Less(cleared.member_rects, b)
      BY <1>6, <3>1, TableEraseIs
    <3>3. after.common.member_rects = Less(common.member_rects, b)
      BY <1>6, <1>9, <3>2 DEF once
    <3> QED BY <1>10, <1>12, <2>1, <2>2, <2>4, <3>1, <3>2, <3>3 DEF SyncGives, after
  <2> QED BY <2>3, <2>4
<1> QED BY <1>11, <1>12

-----------------------------------------------------------------------------
(* Every step keeps the invariant.                                         *)

\* Between loops.
LEMMA IdleIs ==
  Idle => /\ loop.site = "none" /\ \A site, b : ~Pending(site, b)
          /\ \A b : InCommon(b) <=> b \in 1..numBlock /\ ~HasOwnTable(Block[b].layer)
          /\ \A l, b : InLayer(l, b) <=> b \in 1..numBlock /\ Block[b].layer = l /\ layer_table_active(l)
BY DEF Idle, LoopNone, Pending, InCommon, InLayer

LEMMA IdleLoc ==
  ASSUME TablesTypes, Idle, NEW l \in Layers, NEW b \in BlockNumbers
  PROVE  LayerLoc(l, b) = Shifted(Block[b].Location, -Layer[l].Offset[1], -Layer[l].Offset[2])
<1>1. Layer[l].Offset[1] \in Int /\ Layer[l].Offset[2] \in Int
  BY DEF TablesTypes, LayerTypes, Motions
<1>2. ~Pending("move", b)
  BY IdleIs
<1>3. /\ 0 - Layer[l].Offset[1] = -Layer[l].Offset[1]
      /\ 0 - Layer[l].Offset[2] = -Layer[l].Offset[2]
  BY <1>1
<1> QED BY <1>2, <1>3 DEF LayerLoc

LEMMA CommonKept ==
  CommonHolds /\ common_table' = common_table
  /\ (\A b \in BlockNumbers : /\ InCommon(b)' <=> InCommon(b)
                              /\ InCommon(b) => Block'[b].Location = Block[b].Location)
  => CommonHolds'
BY DEF CommonHolds

LEMMA LayerKept ==
  ASSUME NEW l
  PROVE  LayerHolds(l) /\ layer_table'[l] = layer_table[l]
         /\ (\A b \in BlockNumbers : /\ InLayer(l, b)' <=> InLayer(l, b)
                                     /\ InLayer(l, b) => LayerLoc(l, b)' = LayerLoc(l, b))
         => LayerHolds(l)'
BY DEF LayerHolds

\* The speed or the timer of a layer changes.
SpeedOnly ==
  /\ LayerTypes'
  /\ \A l \in Layers : Layer'[l].Offset = Layer[l].Offset

LEMMA SpeedInv == TablesInv /\ Idle /\ SpeedOnly /\ UNCHANGED <<blocks_vars, tables, loop>> => TablesInv'
<1> SUFFICES ASSUME TablesInv, Idle, SpeedOnly, UNCHANGED <<blocks_vars, tables, loop>>
             PROVE  TablesInv'
  OBVIOUS
<1> USE DEF blocks_vars, tables
<1>1. TablesTypes'
  BY DEF TablesInv, TablesTypes, BlockTypes, TableTypes, ActiveTypes, SpeedOnly
<1>2. Idle'
  BY DEF Idle
<1>3. \A b : InCommon(b)' <=> InCommon(b)
  BY DEF InCommon, Pending, HasOwnTable, layer_table_active
<1>4. \A l, b : InLayer(l, b)' <=> InLayer(l, b)
  BY DEF InLayer, Pending, layer_table_active
<1>5. ASSUME NEW l \in Layers, NEW b
      PROVE  LayerLoc(l, b)' = LayerLoc(l, b)
  <2>1. ~Pending("move", b) /\ ~Pending("move", b)'
    BY <1>2, IdleIs DEF Idle, Pending, LoopNone
  <2> QED BY <2>1 DEF LayerLoc, SpeedOnly
<1>6. CommonHolds'
  BY <1>3, CommonKept DEF TablesInv
<1>7. \A l \in Layers : LayerHolds(l)'
  BY <1>4, <1>5, LayerKept DEF TablesInv
<1> QED BY <1>1, <1>2, <1>6, <1>7 DEF TablesInv, LoopOK

LEMMA LayerSplitInv ==
  ASSUME NEW l \in Moved
  PROVE  TablesInv /\ Idle /\ SpeedOnly /\ UNCHANGED blocks_vars /\ split(l) => TablesInv'
<1> SUFFICES ASSUME TablesInv, Idle, SpeedOnly, UNCHANGED blocks_vars, split(l)
             PROVE  TablesInv'
  OBVIOUS
<1>1. CASE layer_table_active(l)
  BY <1>1, SpeedInv DEF split
<1>2. CASE ~layer_table_active(l)
  <2> USE DEF blocks_vars
  <2>1. /\ active_tables' = Append(active_tables, l)
        /\ loop' = [site |-> "split", layer |-> l, rest |-> blocks(l)]
        /\ UNCHANGED <<common_table, layer_table>>
    BY <1>2 DEF split, LoopOver
  <2>2. /\ active_tables \in Seq(Moved) /\ DOMAIN active_tables = 1..Len(active_tables)
        /\ \A k \in DOMAIN active_tables : active_tables[k] # l
    BY <1>2 DEF TablesInv, TablesTypes, ActiveTypes, layer_table_active
  <2>3. /\ active_tables' \in Seq(Moved) /\ DOMAIN active_tables' = 1..(Len(active_tables) + 1)
        /\ active_tables'[Len(active_tables) + 1] = l
        /\ \A k \in DOMAIN active_tables : active_tables'[k] = active_tables[k]
    BY <2>1, <2>2
  <2>4. \A k : layer_table_active(k)' <=> layer_table_active(k) \/ k = l
    <3>1. \A k : layer_table_active(k) => layer_table_active(k)'
      BY <2>2, <2>3 DEF layer_table_active
    <3>2. layer_table_active(l)'
      BY <2>2, <2>3 DEF layer_table_active
    <3>3. \A k : layer_table_active(k)' => layer_table_active(k) \/ k = l
      BY <2>2, <2>3 DEF layer_table_active
    <3> QED BY <3>1, <3>2, <3>3
  <2>5. ActiveTypes'
    BY <2>2, <2>3 DEF TablesInv, TablesTypes, ActiveTypes
  <2>6. TablesTypes'
    BY <2>1, <2>5 DEF TablesInv, TablesTypes, BlockTypes, TableTypes, SpeedOnly
  <2>7. blocks(l)' = blocks(l) /\ \A b : b \in blocks(l) <=> b \in 1..numBlock /\ Block[b].layer = l
    BY DEF blocks
  <2>8. LoopOK'
    BY <2>1, <2>4, <2>7 DEF LoopOK
  <2>9. l # LAYER_NONE
    BY LayersAssumption, LayerNumbers
  <2>10. \A b : InCommon(b)' <=> InCommon(b)
    BY <1>2, <2>1, <2>4, <2>7, <2>9, IdleIs DEF InCommon, Pending, HasOwnTable
  <2>11. \A k, b : InLayer(k, b)' <=> InLayer(k, b)
    BY <1>2, <2>1, <2>4, <2>7, IdleIs DEF InLayer, Pending
  <2>12. ASSUME NEW k \in Layers, NEW b
         PROVE  LayerLoc(k, b)' = LayerLoc(k, b)
    <3>1. ~Pending("move", b) /\ ~Pending("move", b)'
      BY <2>1, IdleIs DEF Pending
    <3> QED BY <3>1 DEF LayerLoc, SpeedOnly
  <2>13. CommonHolds'
    BY <2>1, <2>10, CommonKept DEF TablesInv
  <2>14. \A k \in Layers : LayerHolds(k)'
    BY <2>1, <2>11, <2>12, LayerKept DEF TablesInv
  <2> QED BY <2>6, <2>8, <2>13, <2>14 DEF TablesInv
<1> QED BY <1>1, <1>2

\* The table that goes leaves its place to the last one.
LEMMA WithoutLayerIs ==
  ASSUME ActiveTypes, NEW l, layer_table_active(l)
  PROVE  LET without == WithoutLayer(l)
         IN /\ without \in Seq(Moved)
            /\ \A j, k \in DOMAIN without : without[j] = without[k] => j = k
            /\ \A m : (\E k \in DOMAIN without : without[k] = m) <=> layer_table_active(m) /\ m # l
<1> DEFINE num == Len(active_tables) - 1
           end == active_tables[num + 1]
           without == WithoutLayer(l)
<1>1. /\ active_tables \in Seq(Moved) /\ Len(active_tables) \in Nat
      /\ DOMAIN active_tables = 1..Len(active_tables)
      /\ \A j, k \in DOMAIN active_tables : active_tables[j] = active_tables[k] => j = k
  BY DEF ActiveTypes
<1>2. PICK i \in DOMAIN active_tables : active_tables[i] = l
  BY DEF layer_table_active
<1>3. num \in Nat /\ DOMAIN active_tables = 1..(num + 1)
  BY <1>1, <1>2
<1>4. without = [k \in 1..num |-> IF active_tables[k] = l THEN end ELSE active_tables[k]]
  BY <1>1 DEF WithoutLayer
<1> HIDE DEF num, without
<1>5. end \in Moved /\ \A k \in 1..num : active_tables[k] \in Moved
  BY <1>1, <1>3
<1> HIDE DEF end
<1>6. without \in [1..num -> Moved]
  BY <1>4, <1>5
<1>7. without \in Seq(Moved) /\ DOMAIN without = 1..num
  BY <1>3, <1>6, SeqFrom
<1>8. \A k \in 1..num : without[k] = IF k = i THEN end ELSE active_tables[k]
  BY <1>1, <1>2, <1>3, <1>4
<1>9. end = active_tables[num + 1]
  BY DEF end
<1>10. \A k \in 1..num : k \in DOMAIN active_tables /\ k # num + 1
  BY <1>3
<1>11. num + 1 \in DOMAIN active_tables
  BY <1>3
<1>12. ASSUME NEW j \in DOMAIN without, NEW k \in DOMAIN without, without[j] = without[k]
       PROVE  j = k
  BY <1>1, <1>7, <1>8, <1>9, <1>10, <1>11, <1>12
<1>13. ASSUME NEW k \in DOMAIN without
       PROVE  layer_table_active(without[k]) /\ without[k] # l
  <2>1. CASE k = i
    <3>1. without[k] = active_tables[num + 1] /\ num + 1 # i
      BY <1>7, <1>8, <1>9, <1>10, <2>1
    <3> QED BY <1>1, <1>2, <1>11, <3>1 DEF layer_table_active
  <2>2. CASE k # i
    <3>1. without[k] = active_tables[k] /\ k \in DOMAIN active_tables
      BY <1>7, <1>8, <1>10, <2>2
    <3> QED BY <1>1, <1>2, <2>2, <3>1 DEF layer_table_active
  <2> QED BY <2>1, <2>2
<1>14. ASSUME NEW m, layer_table_active(m), m # l
       PROVE  \E k \in DOMAIN without : without[k] = m
  <2>1. PICK j \in DOMAIN active_tables : active_tables[j] = m
    BY <1>14 DEF layer_table_active
  <2>2. j # i
    BY <1>2, <1>14, <2>1
  <2>3. CASE j = num + 1
    <3>1. i \in 1..num
      BY <1>2, <1>3, <2>2, <2>3
    <3> QED BY <1>7, <1>8, <1>9, <2>1, <2>3, <3>1
  <2>4. CASE j # num + 1
    <3>1. j \in 1..num
      BY <1>3, <2>1, <2>4
    <3> QED BY <1>7, <1>8, <2>1, <2>2, <3>1
  <2> QED BY <2>3, <2>4
<1> QED BY <1>7, <1>12, <1>13, <1>14 DEF without

LEMMA LayerJoinInv ==
  ASSUME NEW l \in Moved
  PROVE  TablesInv /\ Idle /\ SpeedOnly /\ UNCHANGED blocks_vars /\ join(l) => TablesInv'
<1> SUFFICES ASSUME TablesInv, Idle, SpeedOnly, UNCHANGED blocks_vars, join(l)
             PROVE  TablesInv'
  OBVIOUS
<1>1. CASE ~layer_table_active(l)
  BY <1>1, SpeedInv DEF join
<1>2. CASE layer_table_active(l)
  <2> USE DEF blocks_vars
  <2>1. /\ active_tables' = WithoutLayer(l)
        /\ loop' = [site |-> "join", layer |-> l, rest |-> blocks(l)]
        /\ UNCHANGED <<common_table, layer_table>>
    BY <1>2 DEF join, LoopOver
  <2>2. ActiveTypes
    BY DEF TablesInv, TablesTypes
  <2>3. ActiveTypes'
    BY <1>2, <2>1, <2>2, WithoutLayerIs DEF ActiveTypes
  <2>4. \A k : layer_table_active(k)' <=> layer_table_active(k) /\ k # l
    <3>1. \A k : layer_table_active(k)' <=> \E j \in DOMAIN WithoutLayer(l) : WithoutLayer(l)[j] = k
      BY <2>1 DEF layer_table_active
    <3> QED BY <1>2, <2>2, <3>1, WithoutLayerIs
  <2>6. TablesTypes'
    BY <2>1, <2>3 DEF TablesInv, TablesTypes, BlockTypes, TableTypes, SpeedOnly
  <2>7. blocks(l)' = blocks(l) /\ \A b : b \in blocks(l) <=> b \in 1..numBlock /\ Block[b].layer = l
    BY DEF blocks
  <2>8. LoopOK'
    BY <2>1, <2>4, <2>7 DEF LoopOK
  <2>9. l # LAYER_NONE
    BY LayersAssumption, LayerNumbers
  <2>10. \A b : InCommon(b)' <=> InCommon(b)
    BY <1>2, <2>1, <2>4, <2>7, <2>9, IdleIs DEF InCommon, Pending, HasOwnTable
  <2>11. \A k, b : InLayer(k, b)' <=> InLayer(k, b)
    BY <1>2, <2>1, <2>4, <2>7, IdleIs DEF InLayer, Pending
  <2>12. ASSUME NEW k \in Layers, NEW b
         PROVE  LayerLoc(k, b)' = LayerLoc(k, b)
    <3>1. ~Pending("move", b) /\ ~Pending("move", b)'
      BY <2>1, IdleIs DEF Pending
    <3> QED BY <3>1 DEF LayerLoc, SpeedOnly
  <2>13. CommonHolds'
    BY <2>1, <2>10, CommonKept DEF TablesInv
  <2>14. \A k \in Layers : LayerHolds(k)'
    BY <2>1, <2>11, <2>12, LayerKept DEF TablesInv
  <2> QED BY <2>6, <2>8, <2>13, <2>14 DEF TablesInv
<1> QED BY <1>1, <1>2

LEMMA MotionIs ==
  ASSUME NEW m \in Motions
  PROVE  /\ m.Offset \in Int \X Int /\ m.Speed \in Int \X Int /\ m.join_timer \in Nat
         /\ m.Offset[1] \in Int /\ m.Offset[2] \in Int /\ m.Speed[1] \in Int /\ m.Speed[2] \in Int
BY DEF Motions

LEMMA SetLayerSpeedInv ==
  ASSUME NEW l \in Moved
  PROVE  TablesInv /\ SetLayerSpeed(l) => TablesInv'
<1> SUFFICES ASSUME TablesInv, SetLayerSpeed(l)
             PROVE  TablesInv'
  OBVIOUS
<1>1. PICK s \in Speeds : Layer' = [Layer EXCEPT ![l].Speed = s]
  BY DEF SetLayerSpeed
<1>2. s \in Int \X Int /\ l \in Layers
  BY PlacesAssumption, LayersAssumption
<1>3. LayerTypes
  BY DEF TablesInv, TablesTypes
<1>4. SpeedOnly
  BY <1>1, <1>2, <1>3 DEF SpeedOnly, LayerTypes, Motions
<1> QED BY <1>4, SpeedInv DEF SetLayerSpeed

LEMMA MoveLayerInv ==
  ASSUME NEW l \in Moved
  PROVE  TablesInv /\ MoveLayer(l) => TablesInv'
<1> SUFFICES ASSUME TablesInv, MoveLayer(l)
             PROVE  TablesInv'
  OBVIOUS
<1>1. PICK s \in Speeds :
        /\ Layer' = [Layer EXCEPT ![l].Speed = s, ![l].join_timer = IF s = Still THEN JoinTime ELSE @]
        /\ split(l) \/ UNCHANGED <<tables, loop>>
  BY DEF MoveLayer
<1>2. s \in Int \X Int /\ l \in Layers /\ JoinTime \in Nat
  BY PlacesAssumption, LayersAssumption, TablesAssumption
<1>3. LayerTypes
  BY DEF TablesInv, TablesTypes
<1>4. SpeedOnly
  <2> DEFINE t == IF s = Still THEN JoinTime ELSE Layer[l].join_timer
  <2>1. Layer[l] \in Motions /\ t \in Nat
    BY <1>2, <1>3, MotionIs DEF LayerTypes
  <2>2. Layer' = [Layer EXCEPT ![l] = [[@ EXCEPT !.Speed = s] EXCEPT !.join_timer = t]]
    BY <1>1, <1>2, <1>3 DEF LayerTypes
  <2> HIDE DEF t
  <2>3. /\ [[Layer[l] EXCEPT !.Speed = s] EXCEPT !.join_timer = t] \in Motions
        /\ [[Layer[l] EXCEPT !.Speed = s] EXCEPT !.join_timer = t].Offset = Layer[l].Offset
    BY <1>2, <2>1 DEF Motions
  <2> QED BY <1>2, <1>3, <2>2, <2>3 DEF SpeedOnly, LayerTypes
<1> QED BY <1>1, <1>4, SpeedInv, LayerSplitInv DEF MoveLayer

LEMMA JoinTimerInv ==
  ASSUME NEW l \in Layers
  PROVE  TablesInv /\ JoinTimer(l) => TablesInv'
<1> SUFFICES ASSUME TablesInv, JoinTimer(l)
             PROVE  TablesInv'
  OBVIOUS
<1>1. /\ Layer' = [Layer EXCEPT ![l].join_timer = @ - 1] /\ Layer[l].join_timer > 0
      /\ join(l) \/ UNCHANGED <<tables, loop>>
  BY DEF JoinTimer
<1>2. LayerTypes
  BY DEF TablesInv, TablesTypes
<1>3. l \in Moved
  BY <1>1, <1>2 DEF LayerTypes
<1>4. SpeedOnly
  <2>1. Layer[l] \in Motions /\ Layer[l].join_timer - 1 \in Nat
    BY <1>1, <1>2, MotionIs DEF LayerTypes
  <2> QED BY <1>1, <1>2, <1>3, <2>1 DEF SpeedOnly, LayerTypes, Motions
<1> QED BY <1>1, <1>3, <1>4, SpeedInv, LayerJoinInv DEF JoinTimer

\* The layer is ahead of its blocks by a step, which each of them is to make up for.
LEMMA MoveInv ==
  ASSUME NEW l \in Layers
  PROVE  TablesInv /\ Move(l) => TablesInv'
<1> SUFFICES ASSUME TablesInv, Move(l)
             PROVE  TablesInv'
  OBVIOUS
<1> DEFINE offset == Onward(Layer[l].Offset, Layer[l].Speed)
<1>1. /\ Idle /\ Layer[l].Speed # Still
      /\ Layer' = [Layer EXCEPT ![l].Offset = offset]
      /\ loop' = [site |-> "move", layer |-> l, rest |-> blocks(l)]
      /\ UNCHANGED <<Block, numBlock, common_table, layer_table, active_tables>>
  BY DEF Move, LoopOver, blocks_vars, tables
<1>2. LayerTypes /\ Layer[l] \in Motions
  BY DEF TablesInv, TablesTypes, LayerTypes
<1>3. l \in Moved
  BY <1>1, <1>2 DEF LayerTypes
<1>4. /\ offset \in Int \X Int
      /\ offset[1] = Layer[l].Offset[1] + Layer[l].Speed[1]
      /\ offset[2] = Layer[l].Offset[2] + Layer[l].Speed[2]
  BY <1>2, MotionIs DEF Onward
<1> HIDE DEF offset
<1>5. /\ LayerTypes' /\ Layer'[l].Offset = offset /\ Layer'[l].Speed = Layer[l].Speed
      /\ \A k \in Layers : k # l => Layer'[k] = Layer[k]
  BY <1>1, <1>2, <1>3, <1>4 DEF LayerTypes, Motions
<1>6. TablesTypes'
  BY <1>1, <1>5 DEF TablesInv, TablesTypes, BlockTypes, TableTypes, ActiveTypes
<1>7. blocks(l)' = blocks(l) /\ \A b : b \in blocks(l) <=> b \in 1..numBlock /\ Block[b].layer = l
  BY <1>1 DEF blocks
<1>8. LoopOK'
  BY <1>1, <1>3, <1>7 DEF LoopOK
<1>9. \A b : InCommon(b)' <=> InCommon(b)
  BY <1>1, IdleIs DEF InCommon, Pending, HasOwnTable, layer_table_active
<1>10. \A k, b : InLayer(k, b)' <=> InLayer(k, b)
  BY <1>1, IdleIs DEF InLayer, Pending, layer_table_active
<1>11. ASSUME NEW k \in Layers, NEW b \in BlockNumbers, InLayer(k, b)
       PROVE  LayerLoc(k, b)' = LayerLoc(k, b)
  <2>1. b \in 1..numBlock /\ Block[b].layer = k /\ ~Pending("move", b)
    BY <1>1, <1>11, IdleIs
  <2>2. Pending("move", b)' <=> k = l
    BY <1>1, <1>7, <2>1 DEF Pending
  <2>3. CASE k # l
    BY <1>1, <1>5, <2>1, <2>2, <2>3 DEF LayerLoc
  <2>4. CASE k = l
    <3>1. /\ Layer[l].Speed[1] - offset[1] = 0 - Layer[l].Offset[1]
          /\ Layer[l].Speed[2] - offset[2] = 0 - Layer[l].Offset[2]
      BY <1>2, <1>4, MotionIs
    <3>2. LayerLoc(k, b)' = Shifted(Block[b].Location, Layer[l].Speed[1] - offset[1],
                                    Layer[l].Speed[2] - offset[2])
      BY <1>1, <1>5, <2>2, <2>4 DEF LayerLoc
    <3>3. LayerLoc(k, b) = Shifted(Block[b].Location, 0 - Layer[l].Offset[1], 0 - Layer[l].Offset[2])
      BY <2>1, <2>4 DEF LayerLoc
    <3> QED BY <3>1, <3>2, <3>3
  <2> QED BY <2>3, <2>4
<1>12. CommonHolds'
  BY <1>1, <1>9, CommonKept DEF TablesInv
<1>13. \A k \in Layers : LayerHolds(k)'
  BY <1>1, <1>10, <1>11, LayerKept DEF TablesInv
<1> QED BY <1>6, <1>8, <1>12, <1>13 DEF TablesInv

\* A loop that has come to its end.
LEMMA LoopEndInv ==
  ASSUME NEW site
  PROVE  TablesInv /\ LoopEnds(site) /\ UNCHANGED <<blocks_vars, Layer, active_tables, common_table>>
         /\ (IF site = "join" THEN layer_table' = [layer_table EXCEPT ![loop.layer] = EmptyTable]
             ELSE UNCHANGED layer_table)
         /\ site \in {"split", "join", "move"}
         => TablesInv'
<1> SUFFICES ASSUME TablesInv, LoopEnds(site), UNCHANGED <<blocks_vars, Layer, active_tables, common_table>>,
                    IF site = "join" THEN layer_table' = [layer_table EXCEPT ![loop.layer] = EmptyTable]
                    ELSE UNCHANGED layer_table,
                    site \in {"split", "join", "move"}
             PROVE  TablesInv'
  OBVIOUS
<1> USE DEF blocks_vars
<1>1. /\ loop.site = site /\ loop.rest = {} /\ Idle'
  BY DEF LoopEnds, Idle
<1>2. loop.layer \in Moved /\ (site = "join" => ~layer_table_active(loop.layer))
  BY <1>1 DEF TablesInv, LoopOK, Idle, LoopNone
<1>3. TableTypes'
  <2>1. TableTypes
    BY DEF TablesInv, TablesTypes
  <2>2. CASE site = "join"
    BY <1>2, <2>1, <2>2, EmptyTableOK, LayersAssumption DEF TableTypes
  <2>3. CASE site # "join"
    BY <2>1, <2>3 DEF TableTypes
  <2> QED BY <2>2, <2>3
<1>4. TablesTypes'
  BY <1>3 DEF TablesInv, TablesTypes, BlockTypes, LayerTypes, ActiveTypes
<1>5. \A s, b : ~Pending(s, b) /\ ~Pending(s, b)'
  BY <1>1 DEF Pending, Idle, LoopNone
<1>6. loop'.site = "none"
  BY <1>1 DEF Idle, LoopNone
<1>7. \A b : InCommon(b)' <=> InCommon(b)
  BY <1>5 DEF InCommon, HasOwnTable, layer_table_active
<1>8. CommonHolds'
  BY <1>7, CommonKept DEF TablesInv
<1>9. ASSUME NEW l \in Layers
      PROVE  LayerHolds(l)'
  <2>1. CASE site = "join" /\ l = loop.layer
    <3>1. layer_table'[l] = EmptyTable
      BY <2>1 DEF TablesInv, TablesTypes, TableTypes
    <3>2. \A b : ~InLayer(l, b)'
      BY <1>2, <1>6, <2>1 DEF InLayer, layer_table_active
    <3> QED BY <3>1, <3>2, EmptyTableOK DEF LayerHolds
  <2>2. CASE ~(site = "join" /\ l = loop.layer)
    <3>1. layer_table'[l] = layer_table[l]
      BY <2>2 DEF TablesInv, TablesTypes, TableTypes
    <3>2. \A b : InLayer(l, b)' <=> InLayer(l, b)
      BY <1>1, <1>5, <1>6, <2>2 DEF InLayer, layer_table_active
    <3>3. \A b : LayerLoc(l, b)' = LayerLoc(l, b)
      BY <1>5 DEF LayerLoc
    <3> QED BY <3>1, <3>2, <3>3, LayerKept DEF TablesInv
  <2> QED BY <2>1, <2>2
<1> QED BY <1>1, <1>4, <1>8, <1>9 DEF TablesInv, LoopOK

LEMMA LoopDoneInv == TablesInv /\ (SplitDone \/ JoinDone \/ MoveDone) => TablesInv'
<1> SUFFICES ASSUME TablesInv, SplitDone \/ JoinDone \/ MoveDone
             PROVE  TablesInv'
  OBVIOUS
<1>1. CASE SplitDone
  BY <1>1, LoopEndInv DEF SplitDone, tables
<1>2. CASE JoinDone
  BY <1>2, LoopEndInv DEF JoinDone
<1>3. CASE MoveDone
  BY <1>3, LoopEndInv DEF MoveDone, tables
<1> QED BY <1>1, <1>2, <1>3

\* The next block of a loop.
LEMMA NextItemIs ==
  ASSUME NEW site, NEW b
  PROVE  TablesInv /\ NextItem(site, b)
         => /\ loop.site = site /\ loop.layer \in Moved /\ loop.layer \in Layers
            /\ b \in loop.rest /\ loop.rest \subseteq blocks(loop.layer)
            /\ b \in BlockNumbers /\ b \in 1..numBlock /\ Block[b].layer = loop.layer
            /\ loop' = [site |-> site, layer |-> loop.layer, rest |-> loop.rest \ {b}]
            /\ site = "split" => layer_table_active(loop.layer)
            /\ site = "join"  => ~layer_table_active(loop.layer)
            /\ site \in {"split", "join", "move"}
<1> SUFFICES ASSUME TablesInv, NextItem(site, b)
             PROVE  /\ loop.site = site /\ loop.layer \in Moved /\ loop.layer \in Layers
                    /\ b \in loop.rest /\ loop.rest \subseteq blocks(loop.layer)
                    /\ b \in BlockNumbers /\ b \in 1..numBlock /\ Block[b].layer = loop.layer
                    /\ loop' = [site |-> site, layer |-> loop.layer, rest |-> loop.rest \ {b}]
                    /\ site = "split" => layer_table_active(loop.layer)
                    /\ site = "join"  => ~layer_table_active(loop.layer)
                    /\ site \in {"split", "join", "move"}
  OBVIOUS
<1>1. loop.site = site /\ b \in loop.rest /\ loop' = [loop EXCEPT !.rest = @ \ {b}]
  BY DEF NextItem
<1>2. ~Idle
  BY <1>1 DEF Idle, LoopNone
<1>3. /\ loop = [site |-> loop.site, layer |-> loop.layer, rest |-> loop.rest]
      /\ loop.site \in {"split", "join", "move"} /\ loop.layer \in Moved
      /\ loop.rest \subseteq blocks(loop.layer)
      /\ loop.site = "split" => layer_table_active(loop.layer)
      /\ loop.site = "join"  => ~layer_table_active(loop.layer)
  BY <1>2 DEF TablesInv, LoopOK
<1>4. loop' = [site |-> site, layer |-> loop.layer, rest |-> loop.rest \ {b}]
  BY <1>1, <1>3
<1>5. b \in 1..numBlock /\ Block[b].layer = loop.layer
  BY <1>1, <1>3 DEF blocks
<1>6. numBlock \in 0..MaxBlocks /\ MaxBlocks \in Nat
  BY TablesAssumption DEF TablesInv, TablesTypes, BlockTypes
<1>7. b \in BlockNumbers
  BY <1>5, <1>6 DEF BlockNumbers
<1> QED BY <1>1, <1>3, <1>4, <1>5, <1>7, LayersAssumption

\* The tables have members, and blocks have places.
LEMMA PlacesAre ==
  ASSUME TablesTypes, NEW b \in BlockNumbers
  PROVE  /\ b \in Nat /\ Block[b] \in Placements /\ Block[b].Location \in Locations
         /\ Block[b].layer \in Layers \cup {LAYER_NONE}
         /\ MembersOK(common_table.member_rects)
         /\ \A l \in Layers : MembersOK(layer_table[l].member_rects)
BY DEF TablesTypes, BlockTypes, BlockNumbers, Placements, TableTypes, TableOK, Indexed

LEMMA CommonWith ==
  ASSUME NEW b \in BlockNumbers
  PROVE  CommonHolds /\ MembersOK(common_table.member_rects) /\ Block'[b].Location \in Locations
         /\ common_table'.member_rects =
              With(common_table.member_rects, b, rect_external(Block'[b].Location))
         /\ InCommon(b)'
         /\ (\A c \in BlockNumbers \ {b} : /\ InCommon(c)' <=> InCommon(c)
                                           /\ InCommon(c) => Block'[c].Location = Block[c].Location)
         => CommonHolds'
<1> SUFFICES ASSUME CommonHolds, MembersOK(common_table.member_rects), Block'[b].Location \in Locations,
                    common_table'.member_rects =
                      With(common_table.member_rects, b, rect_external(Block'[b].Location)),
                    InCommon(b)',
                    \A c \in BlockNumbers \ {b} : /\ InCommon(c)' <=> InCommon(c)
                                                  /\ InCommon(c) => Block'[c].Location = Block[c].Location
             PROVE  CommonHolds'
  OBVIOUS
<1> DEFINE old == common_table.member_rects
           new == common_table'.member_rects
<1>1. /\ DOMAIN new = DOMAIN old \cup {b} /\ new[b] = rect_external(Block'[b].Location)
      /\ \A c \in DOMAIN old \ {b} : new[c] = old[c]
  BY RectExternalIs, WithIs DEF BlockNumbers
<1> HIDE DEF old, new
<1>2. DOMAIN old = {c \in BlockNumbers : InCommon(c)}
      /\ \A c \in BlockNumbers : InCommon(c) => old[c] = rect_external(Block[c].Location)
  BY DEF CommonHolds, old
<1>3. DOMAIN new = {c \in BlockNumbers : InCommon(c)'}
  BY <1>1, <1>2
<1>4. \A c \in BlockNumbers : InCommon(c)' => new[c] = rect_external(Block'[c].Location)
  BY <1>1, <1>2
<1> QED BY <1>3, <1>4 DEF CommonHolds, new

LEMMA CommonLess ==
  ASSUME NEW b \in BlockNumbers
  PROVE  CommonHolds /\ MembersOK(common_table.member_rects)
         /\ common_table'.member_rects = Less(common_table.member_rects, b)
         /\ ~InCommon(b)'
         /\ (\A c \in BlockNumbers \ {b} : /\ InCommon(c)' <=> InCommon(c)
                                           /\ InCommon(c) => Block'[c].Location = Block[c].Location)
         => CommonHolds'
<1> SUFFICES ASSUME CommonHolds, MembersOK(common_table.member_rects),
                    common_table'.member_rects = Less(common_table.member_rects, b),
                    ~InCommon(b)',
                    \A c \in BlockNumbers \ {b} : /\ InCommon(c)' <=> InCommon(c)
                                                  /\ InCommon(c) => Block'[c].Location = Block[c].Location
             PROVE  CommonHolds'
  OBVIOUS
<1> DEFINE old == common_table.member_rects
           new == common_table'.member_rects
<1>1. /\ DOMAIN new = DOMAIN old \ {b}
      /\ \A c \in DOMAIN old \ {b} : new[c] = old[c]
  BY LessIs
<1> HIDE DEF old, new
<1>2. DOMAIN old = {c \in BlockNumbers : InCommon(c)}
      /\ \A c \in BlockNumbers : InCommon(c) => old[c] = rect_external(Block[c].Location)
  BY DEF CommonHolds, old
<1>3. DOMAIN new = {c \in BlockNumbers : InCommon(c)'}
  BY <1>1, <1>2
<1>4. \A c \in BlockNumbers : InCommon(c)' => new[c] = rect_external(Block'[c].Location)
  BY <1>1, <1>2
<1> QED BY <1>3, <1>4 DEF CommonHolds, new

LEMMA LayerWith ==
  ASSUME NEW l, NEW b \in BlockNumbers
  PROVE  LayerHolds(l) /\ MembersOK(layer_table[l].member_rects)
         /\ LayerLoc(l, b)' \in Locations
         /\ layer_table'[l].member_rects = With(layer_table[l].member_rects, b, rect_external(LayerLoc(l, b)'))
         /\ InLayer(l, b)'
         /\ (\A c \in BlockNumbers \ {b} : /\ InLayer(l, c)' <=> InLayer(l, c)
                                           /\ InLayer(l, c) => LayerLoc(l, c)' = LayerLoc(l, c))
         => LayerHolds(l)'
<1> SUFFICES ASSUME LayerHolds(l), MembersOK(layer_table[l].member_rects),
                    LayerLoc(l, b)' \in Locations,
                    layer_table'[l].member_rects = With(layer_table[l].member_rects, b, rect_external(LayerLoc(l, b)')),
                    InLayer(l, b)',
                    \A c \in BlockNumbers \ {b} : /\ InLayer(l, c)' <=> InLayer(l, c)
                                                  /\ InLayer(l, c) => LayerLoc(l, c)' = LayerLoc(l, c)
             PROVE  LayerHolds(l)'
  OBVIOUS
<1> DEFINE old == layer_table[l].member_rects
           new == layer_table'[l].member_rects
           rect == rect_external(LayerLoc(l, b)')
<1>0. MembersOK(old) /\ new = With(old, b, rect) /\ b \in Nat /\ rect \in Rects
  BY RectExternalIs DEF BlockNumbers
<1> HIDE DEF old, new, rect
<1>1. /\ DOMAIN new = DOMAIN old \cup {b} /\ new[b] = rect
      /\ \A c \in DOMAIN old \ {b} : new[c] = old[c]
  BY <1>0 DEF With
<1>2. DOMAIN old = {c \in BlockNumbers : InLayer(l, c)}
      /\ \A c \in BlockNumbers : InLayer(l, c) => old[c] = rect_external(LayerLoc(l, c))
  BY DEF LayerHolds, old
<1>3. DOMAIN new = {c \in BlockNumbers : InLayer(l, c)'}
  BY <1>1, <1>2
<1>4. \A c \in BlockNumbers : InLayer(l, c)' => new[c] = rect_external(LayerLoc(l, c)')
  BY <1>1, <1>2 DEF rect
<1> QED BY <1>3, <1>4 DEF LayerHolds, new

LEMMA LayerLess ==
  ASSUME NEW l, NEW b \in BlockNumbers
  PROVE  LayerHolds(l) /\ MembersOK(layer_table[l].member_rects)
         /\ layer_table'[l].member_rects = Less(layer_table[l].member_rects, b)
         /\ ~InLayer(l, b)'
         /\ (\A c \in BlockNumbers \ {b} : /\ InLayer(l, c)' <=> InLayer(l, c)
                                           /\ InLayer(l, c) => LayerLoc(l, c)' = LayerLoc(l, c))
         => LayerHolds(l)'
<1> SUFFICES ASSUME LayerHolds(l), MembersOK(layer_table[l].member_rects),
                    layer_table'[l].member_rects = Less(layer_table[l].member_rects, b),
                    ~InLayer(l, b)',
                    \A c \in BlockNumbers \ {b} : /\ InLayer(l, c)' <=> InLayer(l, c)
                                                  /\ InLayer(l, c) => LayerLoc(l, c)' = LayerLoc(l, c)
             PROVE  LayerHolds(l)'
  OBVIOUS
<1> DEFINE old == layer_table[l].member_rects
           new == layer_table'[l].member_rects
<1>0. MembersOK(old) /\ new = Less(old, b)
  OBVIOUS
<1> HIDE DEF old, new
<1>1. /\ DOMAIN new = DOMAIN old \ {b}
      /\ \A c \in DOMAIN old \ {b} : new[c] = old[c]
  BY <1>0, LessIs
<1>2. DOMAIN old = {c \in BlockNumbers : InLayer(l, c)}
      /\ \A c \in BlockNumbers : InLayer(l, c) => old[c] = rect_external(LayerLoc(l, c))
  BY DEF LayerHolds, old
<1>3. DOMAIN new = {c \in BlockNumbers : InLayer(l, c)'}
  BY <1>1, <1>2
<1>4. \A c \in BlockNumbers : InLayer(l, c)' => new[c] = rect_external(LayerLoc(l, c)')
  BY <1>1, <1>2
<1> QED BY <1>3, <1>4 DEF LayerHolds, new

LEMMA SplitItemInv ==
  ASSUME NEW b
  PROVE  TablesInv /\ SplitItem(b) => TablesInv'
<1> SUFFICES ASSUME TablesInv, SplitItem(b)
             PROVE  TablesInv'
  OBVIOUS
<1> DEFINE l == loop.layer
           r == rect_external(extract_loc_layer(b))
<1> USE DEF blocks_vars
<1>1. /\ loop.site = "split" /\ l \in Moved /\ l \in Layers
      /\ b \in loop.rest /\ loop.rest \subseteq blocks(l)
      /\ b \in BlockNumbers /\ b \in 1..numBlock /\ Block[b].layer = l
      /\ loop' = [site |-> "split", layer |-> l, rest |-> loop.rest \ {b}]
      /\ layer_table_active(l)
  BY NextItemIs DEF SplitItem
<1>2. /\ common_table' = TableErase(common_table, b)
      /\ layer_table' = [layer_table EXCEPT ![l] = TableInsert(@, b, r)]
      /\ UNCHANGED <<Block, numBlock, Layer, active_tables>>
  BY DEF SplitItem
<1>3. TablesTypes /\ TableTypes /\ LayerTypes /\ CommonHolds /\ LayerHolds(l)
  BY <1>1 DEF TablesInv, TablesTypes
<1>4. l # LAYER_NONE
  BY <1>1, LayerNumbers
<1>5. /\ Layer[l].Offset[1] \in Int /\ Layer[l].Offset[2] \in Int
  BY <1>1, <1>3, MotionIs DEF LayerTypes
<1>6. /\ extract_loc_layer(b) \in Locations
      /\ extract_loc_layer(b) = Shifted(Block[b].Location, -Layer[l].Offset[1], -Layer[l].Offset[2])
  <2>1. -Layer[l].Offset[1] \in Int /\ -Layer[l].Offset[2] \in Int
    BY <1>5
  <2>2. extract_loc_layer(b) = Shifted(Block[b].Location, -Layer[l].Offset[1], -Layer[l].Offset[2])
    BY <1>1, <1>4 DEF extract_loc_layer, extract_loc
  <2> QED BY <1>1, <1>3, <2>1, <2>2, PlacesAre, ShiftedIs
<1>7. r \in Rects
  BY <1>6, RectExternalIs
<1>8. ~InLayer(l, b) /\ b \notin DOMAIN layer_table[l].member_rects
  <2>1. ~InLayer(l, b)
    BY <1>1 DEF InLayer, Pending
  <2> QED BY <1>3, <2>1 DEF LayerHolds
<1> HIDE DEF l, r
<1>9. /\ TableOK(common_table')
      /\ common_table'.member_rects = Less(common_table.member_rects, b)
  BY <1>2, <1>3, TableEraseIs DEF TableTypes
<1>10. /\ TableOK(TableInsert(layer_table[l], b, r))
       /\ TableInsert(layer_table[l], b, r).member_rects = With(layer_table[l].member_rects, b, r)
  BY <1>1, <1>3, <1>7, <1>8, PlacesAre, TableInsertIs DEF TableTypes
<1>11. /\ layer_table' = [k \in Layers |-> layer_table'[k]]
       /\ layer_table'[l] = TableInsert(layer_table[l], b, r)
       /\ \A k \in Layers : k # l => layer_table'[k] = layer_table[k]
  BY <1>1, <1>2, <1>3 DEF TableTypes
<1>12. TableTypes'
  BY <1>3, <1>9, <1>10, <1>11 DEF TableTypes
<1>13. TablesTypes'
  BY <1>2, <1>3, <1>12 DEF TablesTypes, BlockTypes, LayerTypes, ActiveTypes
<1>14. \A k : layer_table_active(k)' <=> layer_table_active(k)
  BY <1>2 DEF layer_table_active
<1>15. LoopOK'
  BY <1>1, <1>2, <1>14 DEF LoopOK, blocks, l
<1>16. /\ \A s, c : Pending(s, c) <=> s = "split" /\ c \in loop.rest
       /\ \A s, c : Pending(s, c)' <=> s = "split" /\ c \in loop.rest /\ c # b
  BY <1>1 DEF Pending
<1>17. CommonHolds'
  <2>1. ~InCommon(b)'
    BY <1>1, <1>2, <1>4, <1>14, <1>16 DEF InCommon, HasOwnTable
  <2>2. \A c \in BlockNumbers \ {b} : InCommon(c)' <=> InCommon(c)
    BY <1>2, <1>14, <1>16 DEF InCommon, HasOwnTable
  <2> QED BY <1>1, <1>2, <1>3, <1>9, <2>1, <2>2, CommonLess, PlacesAre
<1>18. \A k, c : LayerLoc(k, c)' = LayerLoc(k, c)
  BY <1>2, <1>16 DEF LayerLoc
<1>19. ASSUME NEW k \in Layers
       PROVE  LayerHolds(k)'
  <2>1. \A c \in BlockNumbers \ {b} : InLayer(k, c)' <=> InLayer(k, c)
    BY <1>1, <1>2, <1>14, <1>16 DEF InLayer
  <2>2. CASE k = l
    <3>1. InLayer(k, b)'
      BY <1>1, <1>2, <1>14, <1>16, <2>2 DEF InLayer
    <3>2. LayerLoc(k, b) = extract_loc_layer(b)
      <4>1. 0 - Layer[l].Offset[1] = -Layer[l].Offset[1] /\ 0 - Layer[l].Offset[2] = -Layer[l].Offset[2]
        BY <1>5
      <4> QED BY <1>6, <1>16, <2>2, <4>1 DEF LayerLoc
    <3>3. r = rect_external(LayerLoc(k, b)')
      BY <1>18, <3>2 DEF r
    <3>4. LayerHolds(k) /\ MembersOK(layer_table[k].member_rects)
      BY <1>1, <1>3, PlacesAre DEF TablesInv
    <3>5. layer_table'[k].member_rects = With(layer_table[k].member_rects, b, rect_external(LayerLoc(k, b)'))
      BY <1>10, <1>11, <2>2, <3>3
    <3>6. LayerLoc(k, b)' \in Locations
      BY <1>6, <1>18, <3>2
    <3> QED BY <1>1, <1>18, <2>1, <3>1, <3>4, <3>5, <3>6, LayerWith
  <2>3. CASE k # l
    <3>1. InLayer(k, b)' <=> InLayer(k, b)
      BY <1>1, <1>2, <1>14, <2>3 DEF InLayer, l
    <3> QED BY <1>11, <1>18, <2>1, <2>3, <3>1, LayerKept DEF TablesInv
  <2> QED BY <2>2, <2>3
<1> QED BY <1>13, <1>15, <1>17, <1>19 DEF TablesInv

LEMMA JoinItemInv ==
  ASSUME NEW b
  PROVE  TablesInv /\ JoinItem(b) => TablesInv'
<1> SUFFICES ASSUME TablesInv, JoinItem(b)
             PROVE  TablesInv'
  OBVIOUS
<1> DEFINE l == loop.layer
           r == rect_external(Block[b].Location)
<1> USE DEF blocks_vars
<1>1. /\ loop.site = "join" /\ l \in Moved /\ l \in Layers
      /\ b \in loop.rest /\ loop.rest \subseteq blocks(l)
      /\ b \in BlockNumbers /\ b \in 1..numBlock /\ Block[b].layer = l
      /\ loop' = [site |-> "join", layer |-> l, rest |-> loop.rest \ {b}]
      /\ ~layer_table_active(l)
  BY NextItemIs DEF JoinItem
<1>2. /\ common_table' = TableInsert(common_table, b, r)
      /\ UNCHANGED <<Block, numBlock, Layer, layer_table, active_tables>>
  BY DEF JoinItem, extract_loc
<1>3. TablesTypes /\ TableTypes /\ CommonHolds /\ b \in Nat /\ Block[b].Location \in Locations
  BY <1>1, PlacesAre DEF TablesInv, TablesTypes
<1>4. r \in Rects
  BY <1>3, RectExternalIs
<1>5. ~InCommon(b) /\ b \notin DOMAIN common_table.member_rects
  <2>1. ~InCommon(b)
    BY <1>1 DEF InCommon, Pending
  <2> QED BY <1>3, <2>1 DEF CommonHolds
<1>6. /\ TableOK(common_table')
      /\ common_table'.member_rects = With(common_table.member_rects, b, r)
  BY <1>2, <1>3, <1>4, <1>5, TableInsertIs DEF TableTypes
<1> HIDE DEF l, r
<1>7. TablesTypes'
  BY <1>2, <1>3, <1>6 DEF TablesTypes, TableTypes, BlockTypes, LayerTypes, ActiveTypes
<1>8. \A k : layer_table_active(k)' <=> layer_table_active(k)
  BY <1>2 DEF layer_table_active
<1>9. LoopOK'
  BY <1>1, <1>2, <1>8 DEF LoopOK, blocks, l
<1>10. /\ \A s, c : Pending(s, c) <=> s = "join" /\ c \in loop.rest
       /\ \A s, c : Pending(s, c)' <=> s = "join" /\ c \in loop.rest /\ c # b
  BY <1>1 DEF Pending
<1>11. CommonHolds'
  <2>1. InCommon(b)'
    BY <1>1, <1>2, <1>8, <1>10 DEF InCommon, HasOwnTable
  <2>2. \A c \in BlockNumbers \ {b} : InCommon(c)' <=> InCommon(c)
    BY <1>2, <1>8, <1>10 DEF InCommon, HasOwnTable
  <2> QED BY <1>1, <1>2, <1>3, <1>6, <2>1, <2>2, CommonWith, PlacesAre DEF r
<1>12. ASSUME NEW k \in Layers
       PROVE  LayerHolds(k)'
  <2>1. \A c : LayerLoc(k, c)' = LayerLoc(k, c)
    BY <1>2, <1>10 DEF LayerLoc
  <2>2. \A c : InLayer(k, c)' <=> InLayer(k, c)
    BY <1>1, <1>2, <1>8, <1>10 DEF InLayer, l
  <2> QED BY <1>2, <2>1, <2>2, LayerKept DEF TablesInv
<1> QED BY <1>7, <1>9, <1>11, <1>12 DEF TablesInv

LEMMA ShiftedTwice ==
  ASSUME NEW loc \in Locations, NEW x \in Int, NEW y \in Int, NEW u \in Int, NEW v \in Int
  PROVE  Shifted(Shifted(loc, x, y), u, v) = Shifted(loc, x + u, y + v)
<1> DEFINE mid == Shifted(loc, x, y)
<1>0. /\ mid \in Locations
      /\ mid = [X |-> loc.X + x, Y |-> loc.Y + y, Width |-> loc.Width, Height |-> loc.Height]
  BY ShiftedIs
<1> HIDE DEF mid
<1>1. /\ mid \in Locations
      /\ mid.X = loc.X + x /\ mid.Y = loc.Y + y /\ mid.Width = loc.Width /\ mid.Height = loc.Height
  BY <1>0
<1>2. Shifted(mid, u, v) = [X |-> mid.X + u, Y |-> mid.Y + v, Width |-> mid.Width, Height |-> mid.Height]
  BY <1>1, ShiftedIs
<1>3. x + u \in Int /\ y + v \in Int /\ loc.X \in Int /\ loc.Y \in Int
  BY DEF Locations
<1>4. Shifted(loc, x + u, y + v)
        = [X |-> loc.X + (x + u), Y |-> loc.Y + (y + v), Width |-> loc.Width, Height |-> loc.Height]
  BY <1>3, ShiftedIs
<1>5. mid.X + u = loc.X + (x + u) /\ mid.Y + v = loc.Y + (y + v)
  BY <1>1, <1>3
<1> QED BY <1>1, <1>2, <1>4, <1>5 DEF mid

LEMMA MoveItemInv ==
  ASSUME NEW b
  PROVE  TablesInv /\ MoveItem(b) => TablesInv'
<1> SUFFICES ASSUME TablesInv, MoveItem(b)
             PROVE  TablesInv'
  OBVIOUS
<1> DEFINE l   == loop.layer
           loc == Shifted(Block[b].Location, Layer[l].Speed[1], Layer[l].Speed[2])
<1>1. /\ loop.site = "move" /\ l \in Moved /\ l \in Layers
      /\ b \in loop.rest /\ loop.rest \subseteq blocks(l)
      /\ b \in BlockNumbers /\ b \in 1..numBlock /\ Block[b].layer = l
      /\ loop' = [site |-> "move", layer |-> l, rest |-> loop.rest \ {b}]
  BY NextItemIs DEF MoveItem
<1>2. /\ Block' = [Block EXCEPT ![b].Location = loc]
      /\ common_table' = IF layer_table_active(l) THEN common_table
                         ELSE TableUpdate(common_table, b, rect_external(loc))
      /\ UNCHANGED <<numBlock, Layer, layer_table, active_tables>>
  BY DEF MoveItem
<1>3. /\ TablesTypes /\ TableTypes /\ LayerTypes /\ BlockTypes /\ CommonHolds
      /\ b \in Nat /\ Block[b] \in Placements /\ Block[b].Location \in Locations
      /\ MembersOK(common_table.member_rects)
  BY <1>1, PlacesAre DEF TablesInv, TablesTypes
<1>4. /\ Layer[l].Offset[1] \in Int /\ Layer[l].Offset[2] \in Int
      /\ Layer[l].Speed[1] \in Int /\ Layer[l].Speed[2] \in Int
  BY <1>1, <1>3, MotionIs DEF LayerTypes
<1>5. loc \in Locations /\ (Block[b].Location \in Solid => loc \in Solid)
  BY <1>3, <1>4, ShiftedIs
<1>6. l # LAYER_NONE
  BY <1>1, LayerNumbers
<1> HIDE DEF loc
<1>7. /\ Block' \in [BlockNumbers -> Placements]
      /\ Block'[b].Location = loc /\ Block'[b].layer = Block[b].layer
      /\ \A c \in BlockNumbers : c # b => Block'[c] = Block[c]
  <2>1. /\ [Block[b] EXCEPT !.Location = loc] \in Placements
        /\ [Block[b] EXCEPT !.Location = loc].Location = loc
        /\ [Block[b] EXCEPT !.Location = loc].layer = Block[b].layer
    BY <1>3, <1>5 DEF Placements
  <2>2. Block' = [Block EXCEPT ![b] = [Block[b] EXCEPT !.Location = loc]]
    BY <1>1, <1>2, <1>3 DEF BlockTypes
  <2> QED BY <1>1, <1>3, <2>1, <2>2 DEF BlockTypes
<1>8. BlockTypes'
  <2>1. b <= numBlock
    BY <1>1
  <2>2. ASSUME NEW c \in BlockNumbers
        PROVE  IF c <= numBlock THEN Block'[c].Location \in Solid ELSE Block'[c] = NoPlace
    BY <1>1, <1>3, <1>5, <1>7, <2>1 DEF BlockTypes
  <2> QED BY <1>2, <1>3, <1>7, <2>2 DEF BlockTypes
<1>9. rect_external(loc) \in Rects
  BY <1>5, RectExternalIs
<1>10. TableOK(common_table')
  BY <1>2, <1>3, <1>9, TableUpdateIs DEF TableTypes
<1>11. TablesTypes'
  BY <1>2, <1>3, <1>8, <1>10 DEF TablesTypes, TableTypes, LayerTypes, ActiveTypes
<1>12. \A k : layer_table_active(k)' <=> layer_table_active(k)
  BY <1>2 DEF layer_table_active
<1>13. \A c \in 1..numBlock : c \in BlockNumbers
  BY <1>3, TablesAssumption DEF BlockTypes, BlockNumbers
<1>14. \A c \in 1..numBlock : Block'[c].layer = Block[c].layer
  BY <1>7, <1>13
<1>15. LoopOK'
  <2>1. \A c : c \in blocks(l) => c \in 1..numBlock /\ Block'[c].layer = l
    BY <1>14 DEF blocks
  <2> HIDE DEF l
  <2>2. loop'.rest \subseteq {c \in 1..numBlock : Block'[c].layer = l}
    BY <1>1, <2>1
  <2>3. loop'.layer = l
    BY <1>1
  <2> QED BY <1>1, <1>2, <2>2, <2>3 DEF LoopOK, blocks
<1>16. /\ \A s, c : Pending(s, c) <=> s = "move" /\ c \in loop.rest
       /\ \A s, c : Pending(s, c)' <=> s = "move" /\ c \in loop.rest /\ c # b
  BY <1>1 DEF Pending
<1>17. \A c : InCommon(c)' <=> InCommon(c)
  BY <1>2, <1>12, <1>14, <1>16 DEF InCommon, HasOwnTable
<1>18. InCommon(b) <=> ~layer_table_active(l)
  BY <1>1, <1>6, <1>16 DEF InCommon, HasOwnTable
<1>19. CommonHolds'
  <2>1. CASE layer_table_active(l)
    <3>1. \A c \in BlockNumbers : InCommon(c) => Block'[c].Location = Block[c].Location
      BY <1>7, <1>18, <2>1
    <3> QED BY <1>2, <1>3, <1>17, <2>1, <3>1, CommonKept
  <2>2. CASE ~layer_table_active(l)
    <3>1. common_table'.member_rects = With(common_table.member_rects, b, rect_external(loc))
      BY <1>2, <1>3, <1>9, <2>2, TableUpdateIs DEF TableTypes
    <3>2. \A c \in BlockNumbers \ {b} : Block'[c].Location = Block[c].Location
      BY <1>7
    <3>3. InCommon(b)'
      BY <1>17, <1>18, <2>2
    <3> QED BY <1>1, <1>3, <1>5, <1>7, <1>17, <3>1, <3>2, <3>3, CommonWith
  <2> QED BY <2>1, <2>2
<1>20. ASSUME NEW k \in Layers
       PROVE  LayerHolds(k)'
  <2>1. \A c : InLayer(k, c)' <=> InLayer(k, c)
    BY <1>1, <1>2, <1>12, <1>14, <1>16 DEF InLayer
  <2>2. ASSUME NEW c \in BlockNumbers, InLayer(k, c)
        PROVE  LayerLoc(k, c)' = LayerLoc(k, c)
    <3>1. CASE c # b
      BY <1>2, <1>7, <1>16, <3>1 DEF LayerLoc
    <3>2. CASE c = b
      <4>1. k = l
        BY <1>1, <2>2, <3>2 DEF InLayer
      <4> DEFINE sx == Layer[l].Speed[1]
                 sy == Layer[l].Speed[2]
                 ox == Layer[l].Offset[1]
                 oy == Layer[l].Offset[2]
      <4>2. LayerLoc(k, c)' = Shifted(loc, 0 - ox, 0 - oy)
        BY <1>1, <1>2, <1>7, <1>16, <3>2, <4>1 DEF LayerLoc
      <4>3. LayerLoc(k, c) = Shifted(Block[b].Location, sx - ox, sy - oy)
        BY <1>1, <1>16, <3>2, <4>1 DEF LayerLoc
      <4>4. loc = Shifted(Block[b].Location, sx, sy)
        BY DEF loc
      <4>5. sx \in Int /\ sy \in Int /\ ox \in Int /\ oy \in Int
        BY <1>4
      <4> HIDE DEF sx, sy, ox, oy
      <4>6. /\ 0 - ox \in Int /\ 0 - oy \in Int
            /\ sx + (0 - ox) = sx - ox /\ sy + (0 - oy) = sy - oy
        BY <4>5
      <4>7. Shifted(loc, 0 - ox, 0 - oy) = Shifted(Block[b].Location, sx + (0 - ox), sy + (0 - oy))
        BY <1>3, <4>4, <4>5, <4>6, ShiftedTwice
      <4> QED BY <4>2, <4>3, <4>6, <4>7
    <3> QED BY <3>1, <3>2
  <2> QED BY <1>2, <2>1, <2>2, LayerKept DEF TablesInv
<1> QED BY <1>11, <1>15, <1>19, <1>20 DEF TablesInv

-----------------------------------------------------------------------------
(* Blocks are put, added and removed between loops.                        *)

\* The blocks that are not synchronized are as they were.
LEMMA AfterSync ==
  ASSUME NEW changed \in SUBSET BlockNumbers
  PROVE  TablesInv /\ Idle /\ BlockTypes' /\ UNCHANGED <<Layer, active_tables, loop>> /\ TableTypes'
         /\ (\A b \in BlockNumbers \ changed : Block'[b] = Block[b] /\ (b <= numBlock' <=> b <= numBlock))
         /\ DOMAIN common_table'.member_rects \subseteq BlockNumbers
         /\ (\A b \in BlockNumbers \ changed :
               /\ b \in DOMAIN common_table'.member_rects <=> b \in DOMAIN common_table.member_rects
               /\ b \in DOMAIN common_table.member_rects =>
                    common_table'.member_rects[b] = common_table.member_rects[b])
         /\ (\A b \in changed :
               /\ b \in DOMAIN common_table'.member_rects
                    <=> b <= numBlock' /\ ~HasOwnTable(Block'[b].layer)
               /\ b \in DOMAIN common_table'.member_rects =>
                    common_table'.member_rects[b] = rect_external(Block'[b].Location))
         /\ (\A l \in Layers :
               /\ DOMAIN layer_table'[l].member_rects \subseteq BlockNumbers
               /\ \A b \in BlockNumbers \ changed :
                    /\ b \in DOMAIN layer_table'[l].member_rects <=> b \in DOMAIN layer_table[l].member_rects
                    /\ b \in DOMAIN layer_table[l].member_rects =>
                         layer_table'[l].member_rects[b] = layer_table[l].member_rects[b]
               /\ \A b \in changed :
                    /\ b \in DOMAIN layer_table'[l].member_rects
                         <=> b <= numBlock' /\ Block'[b].layer = l /\ layer_table_active(l)
                    /\ b \in DOMAIN layer_table'[l].member_rects =>
                         layer_table'[l].member_rects[b] = rect_external(OwnLoc(l, b)))
         => TablesInv'
<1> SUFFICES ASSUME
      TablesInv, Idle, BlockTypes', UNCHANGED <<Layer, active_tables, loop>>, TableTypes',
      \A b \in BlockNumbers \ changed : Block'[b] = Block[b] /\ (b <= numBlock' <=> b <= numBlock),
      DOMAIN common_table'.member_rects \subseteq BlockNumbers,
      \A b \in BlockNumbers \ changed :
        /\ b \in DOMAIN common_table'.member_rects <=> b \in DOMAIN common_table.member_rects
        /\ b \in DOMAIN common_table.member_rects =>
             common_table'.member_rects[b] = common_table.member_rects[b],
      \A b \in changed :
        /\ b \in DOMAIN common_table'.member_rects <=> b <= numBlock' /\ ~HasOwnTable(Block'[b].layer)
        /\ b \in DOMAIN common_table'.member_rects =>
             common_table'.member_rects[b] = rect_external(Block'[b].Location),
      \A l \in Layers :
        /\ DOMAIN layer_table'[l].member_rects \subseteq BlockNumbers
        /\ \A b \in BlockNumbers \ changed :
             /\ b \in DOMAIN layer_table'[l].member_rects <=> b \in DOMAIN layer_table[l].member_rects
             /\ b \in DOMAIN layer_table[l].member_rects =>
                  layer_table'[l].member_rects[b] = layer_table[l].member_rects[b]
        /\ \A b \in changed :
             /\ b \in DOMAIN layer_table'[l].member_rects
                  <=> b <= numBlock' /\ Block'[b].layer = l /\ layer_table_active(l)
             /\ b \in DOMAIN layer_table'[l].member_rects =>
                  layer_table'[l].member_rects[b] = rect_external(OwnLoc(l, b))
      PROVE TablesInv'
  OBVIOUS
<1>1. Idle' /\ TablesTypes /\ TablesTypes'
  BY DEF TablesInv, TablesTypes, LayerTypes, ActiveTypes, Idle
<1>2. \A k : layer_table_active(k)' <=> layer_table_active(k)
  BY DEF layer_table_active
<1>3. \A k : HasOwnTable(k)' <=> HasOwnTable(k)
  BY <1>2 DEF HasOwnTable
<1>4. /\ \A b \in BlockNumbers : b \in 1..numBlock <=> b <= numBlock
      /\ \A b \in BlockNumbers : b \in 1..numBlock' <=> b <= numBlock'
  BY <1>1 DEF TablesTypes, BlockTypes, BlockNumbers
<1>5. /\ \A b : InCommon(b) <=> b \in 1..numBlock /\ ~HasOwnTable(Block[b].layer)
      /\ \A l, b : InLayer(l, b) <=> b \in 1..numBlock /\ Block[b].layer = l /\ layer_table_active(l)
  BY IdleIs
<1>6. /\ \A b : InCommon(b)' <=> b \in 1..numBlock' /\ ~HasOwnTable(Block'[b].layer)
      /\ \A l, b : InLayer(l, b)' <=> b \in 1..numBlock' /\ Block'[b].layer = l /\ layer_table_active(l)
  <2>1. \A s, b : ~Pending(s, b)' /\ loop'.site = "none"
    BY <1>1 DEF Pending, Idle, LoopNone
  <2> QED BY <1>2, <2>1 DEF InCommon, InLayer, HasOwnTable
<1>7. CommonHolds'
  <2> DEFINE new == common_table'.member_rects
             old == common_table.member_rects
  <2>1. /\ \A b \in BlockNumbers : b \in DOMAIN old <=> InCommon(b)
        /\ \A b \in BlockNumbers : InCommon(b) => old[b] = rect_external(Block[b].Location)
    BY DEF TablesInv, CommonHolds
  <2> HIDE DEF new, old
  <2>2. ASSUME NEW b \in BlockNumbers
        PROVE  /\ b \in DOMAIN new <=> InCommon(b)'
               /\ InCommon(b)' => new[b] = rect_external(Block'[b].Location)
    <3>1. CASE b \in changed
      BY <1>4, <1>6, <3>1 DEF new
    <3>2. CASE b \notin changed
      BY <1>4, <1>5, <1>6, <2>1, <3>2 DEF new, old
    <3> QED BY <3>1, <3>2
  <2>3. DOMAIN new \subseteq BlockNumbers
    BY DEF new
  <2> QED BY <2>2, <2>3 DEF CommonHolds, new
<1>8. ASSUME NEW l \in Layers
      PROVE  LayerHolds(l)'
  <2> DEFINE new == layer_table'[l].member_rects
             old == layer_table[l].member_rects
  <2>1. /\ \A b \in BlockNumbers : b \in DOMAIN old <=> InLayer(l, b)
        /\ \A b \in BlockNumbers : InLayer(l, b) => old[b] = rect_external(LayerLoc(l, b))
    BY DEF TablesInv, LayerHolds
  <2>2. ASSUME NEW b \in BlockNumbers
        PROVE  /\ LayerLoc(l, b)' = OwnLoc(l, b)
               /\ b \notin changed => LayerLoc(l, b)' = LayerLoc(l, b)
    <3>1. Layer[l].Offset[1] \in Int /\ Layer[l].Offset[2] \in Int
      BY <1>1, MotionIs DEF TablesTypes, LayerTypes
    <3>2. /\ 0 - Layer[l].Offset[1] = -Layer[l].Offset[1]
          /\ 0 - Layer[l].Offset[2] = -Layer[l].Offset[2]
      BY <3>1
    <3>3. ~Pending("move", b) /\ ~Pending("move", b)'
      BY <1>1 DEF Pending, Idle, LoopNone
    <3> QED BY <3>2, <3>3 DEF LayerLoc, OwnLoc
  <2>3. DOMAIN new \subseteq BlockNumbers
    OBVIOUS
  <2>4. ASSUME NEW b \in BlockNumbers
        PROVE  /\ b \in DOMAIN new <=> InLayer(l, b)'
               /\ InLayer(l, b)' => new[b] = rect_external(LayerLoc(l, b)')
    <3>1. CASE b \in changed
      BY <1>4, <1>6, <2>2, <3>1
    <3>2. CASE b \notin changed
      BY <1>4, <1>5, <1>6, <2>1, <2>2, <3>2
    <3> QED BY <3>1, <3>2
  <2> HIDE DEF new, old
  <2> QED BY <2>3, <2>4 DEF LayerHolds, new
<1> QED BY <1>1, <1>7, <1>8 DEF TablesInv, LoopOK

\* The member b is put, at rect, or taken, and the others are left as they are.
MemberChange(before, after, b, put, rect) ==
  /\ b \in DOMAIN after <=> put
  /\ b \in DOMAIN after => after[b] = rect
  /\ DOMAIN after \subseteq DOMAIN before \cup {b}
  /\ \A c : c # b => /\ c \in DOMAIN after <=> c \in DOMAIN before
                     /\ c \in DOMAIN before => after[c] = before[c]

LEMMA MemberAfter ==
  ASSUME NEW m, MembersOK(m), NEW b \in Nat, NEW rect \in Rects, NEW put \in BOOLEAN,
         NEW after, after = IF put THEN With(m, b, rect) ELSE Less(m, b)
  PROVE  MemberChange(m, after, b, put, rect)
BY DEF With, Less, MemberChange

\* The block b is synchronized, which gives the tables after.
SyncChange(common, own, after, b) ==
  /\ TableOK(after.common)
  /\ after.own = [l \in Layers |-> after.own[l]] /\ \A l \in Layers : TableOK(after.own[l])
  /\ MemberChange(common.member_rects, after.common.member_rects, b,
                  b <= numBlock' /\ ~HasOwnTable(Block'[b].layer), rect_external(Block'[b].Location))
  /\ \A l \in Layers :
       MemberChange(own[l].member_rects, after.own[l].member_rects, b,
                    b <= numBlock' /\ Block'[b].layer = l /\ layer_table_active(l),
                    rect_external(OwnLoc(l, b)))

LEMMA SyncedBlock ==
  ASSUME TablesTypes, BlockTypes', NEW common, TableOK(common),
         NEW own, own = [l \in Layers |-> own[l]], \A l \in Layers : TableOK(own[l]),
         NEW b \in BlockNumbers,
         \A l \in Layers : ~layer_table_active(l) => b \notin DOMAIN own[l].member_rects
  PROVE  SyncChange(common, own, Synced(common, own, b), b)
<1> DEFINE after == Synced(common, own, b)
           m     == common.member_rects
           n     == after.common.member_rects
<1>1. /\ b \in Nat /\ Block'[b] \in Placements /\ numBlock' \in Nat
      /\ b > numBlock' => Block'[b].layer = LAYER_NONE
      /\ Block'[b].Location \in Locations
  BY TablesAssumption DEF BlockTypes, BlockNumbers, NoPlace, Placements
<1>2. /\ TableOK(after.common)
      /\ after.own = [l \in Layers |-> after.own[l]]
      /\ \A l \in Layers : TableOK(after.own[l])
      /\ n = IF b <= numBlock' /\ ~HasOwnTable(Block'[b].layer)
             THEN With(m, b, rect_external(Block'[b].Location)) ELSE Less(m, b)
      /\ \A l \in Layers :
           after.own[l].member_rects =
             IF b <= numBlock' /\ Block'[b].layer = l /\ layer_table_active(l)
             THEN With(own[l].member_rects, b, rect_external(OwnLoc(l, b)))
             ELSE Less(own[l].member_rects, b)
  <2>1. SyncGives(common, own, after, b)
    BY <1>1, SyncedIs
  <2> HIDE DEF after
  <2> QED BY <2>1 DEF SyncGives
<1>3. MembersOK(m) /\ \A l \in Layers : MembersOK(own[l].member_rects)
  BY DEF TableOK, Indexed
<1> HIDE DEF after
<1>4. rect_external(Block'[b].Location) \in Rects
  BY <1>1, RectExternalIs
<1>5. MemberChange(m, n, b, b <= numBlock' /\ ~HasOwnTable(Block'[b].layer),
                   rect_external(Block'[b].Location))
  <2> DEFINE put  == b <= numBlock' /\ ~HasOwnTable(Block'[b].layer)
             rect == rect_external(Block'[b].Location)
  <2>1. put \in BOOLEAN /\ rect \in Rects /\ n = IF put THEN With(m, b, rect) ELSE Less(m, b)
    BY <1>2, <1>4
  <2> HIDE DEF put, rect, m, n
  <2>2. MemberChange(m, n, b, put, rect)
    BY <1>1, <1>3, <2>1, MemberAfter
  <2> QED BY <2>2 DEF put, rect
<1>6. ASSUME NEW l \in Layers
      PROVE  MemberChange(own[l].member_rects, after.own[l].member_rects, b,
                          b <= numBlock' /\ Block'[b].layer = l /\ layer_table_active(l),
                          rect_external(OwnLoc(l, b)))
  <2> DEFINE k    == own[l].member_rects
             j    == after.own[l].member_rects
             put  == b <= numBlock' /\ Block'[b].layer = l /\ layer_table_active(l)
             rect == rect_external(OwnLoc(l, b))
  <2>1. -Layer[l].Offset[1] \in Int /\ -Layer[l].Offset[2] \in Int
    BY MotionIs DEF TablesTypes, LayerTypes
  <2>2. rect \in Rects
    BY <1>1, <2>1, ShiftedIs, RectExternalIs DEF OwnLoc
  <2>3. put \in BOOLEAN /\ MembersOK(k) /\ j = IF put THEN With(k, b, rect) ELSE Less(k, b)
    BY <1>2, <1>3
  <2> HIDE DEF k, j, put, rect
  <2>4. MemberChange(k, j, b, put, rect)
    BY <1>1, <2>2, <2>3, MemberAfter
  <2> QED BY <2>4 DEF k, j, put, rect
<1> QED BY <1>2, <1>5, <1>6 DEF after, SyncChange

\* What holds of the tables between loops, before a block is synchronized.
LEMMA IdleTables ==
  TablesInv /\ Idle =>
    /\ TablesTypes /\ TableOK(common_table)
    /\ layer_table = [l \in Layers |-> layer_table[l]] /\ \A l \in Layers : TableOK(layer_table[l])
    /\ DOMAIN common_table.member_rects \subseteq BlockNumbers
    /\ \A l \in Layers : DOMAIN layer_table[l].member_rects \subseteq BlockNumbers
    /\ \A l \in Layers : ~layer_table_active(l) => DOMAIN layer_table[l].member_rects = {}
BY IdleIs DEF TablesInv, TablesTypes, TableTypes, CommonHolds, LayerHolds

LEMMA SyncBlockInv ==
  ASSUME NEW b \in BlockNumbers
  PROVE  TablesInv /\ Idle /\ BlockTypes' /\ UNCHANGED Layer /\ SyncBlock(b)
         /\ (\A c \in BlockNumbers \ {b} : Block'[c] = Block[c] /\ (c <= numBlock' <=> c <= numBlock))
         => TablesInv'
<1> SUFFICES ASSUME TablesInv, Idle, BlockTypes', UNCHANGED Layer, SyncBlock(b),
                    \A c \in BlockNumbers \ {b} : Block'[c] = Block[c] /\ (c <= numBlock' <=> c <= numBlock)
             PROVE  TablesInv'
  OBVIOUS
<1> DEFINE after == Synced(common_table, layer_table, b)
<1>1. /\ common_table' = after.common /\ layer_table' = after.own
      /\ UNCHANGED <<active_tables, loop>>
  BY DEF SyncBlock
<1>2. /\ TablesTypes /\ TableOK(common_table)
      /\ layer_table = [l \in Layers |-> layer_table[l]] /\ \A l \in Layers : TableOK(layer_table[l])
      /\ DOMAIN common_table.member_rects \subseteq BlockNumbers
      /\ \A l \in Layers : DOMAIN layer_table[l].member_rects \subseteq BlockNumbers
      /\ \A l \in Layers : ~layer_table_active(l) => b \notin DOMAIN layer_table[l].member_rects
  BY IdleTables
<1> DEFINE m == common_table.member_rects
           n == common_table'.member_rects
<1>3. SyncChange(common_table, layer_table, after, b)
  BY <1>2, SyncedBlock, Zenon
<1> HIDE DEF after
<1>9. /\ MemberChange(m, n, b, b <= numBlock' /\ ~HasOwnTable(Block'[b].layer),
                      rect_external(Block'[b].Location))
      /\ \A l \in Layers :
           MemberChange(layer_table[l].member_rects, layer_table'[l].member_rects, b,
                        b <= numBlock' /\ Block'[b].layer = l /\ layer_table_active(l),
                        rect_external(OwnLoc(l, b)))
  BY <1>1, <1>3 DEF SyncChange
<1>4. TableTypes'
  BY <1>1, <1>3 DEF TableTypes, SyncChange
<1>5. DOMAIN n \subseteq BlockNumbers
  BY <1>2, <1>9 DEF MemberChange
<1>6. {b} \in SUBSET BlockNumbers
  OBVIOUS
<1>7. /\ \A c \in BlockNumbers \ {b} :
           /\ c \in DOMAIN n <=> c \in DOMAIN m
           /\ c \in DOMAIN m => n[c] = m[c]
      /\ \A c \in {b} :
           /\ c \in DOMAIN n <=> c <= numBlock' /\ ~HasOwnTable(Block'[c].layer)
           /\ c \in DOMAIN n => n[c] = rect_external(Block'[c].Location)
  BY <1>9 DEF MemberChange
<1>8. ASSUME NEW l \in Layers
      PROVE  /\ DOMAIN layer_table'[l].member_rects \subseteq BlockNumbers
             /\ \A c \in BlockNumbers \ {b} :
                  /\ c \in DOMAIN layer_table'[l].member_rects <=> c \in DOMAIN layer_table[l].member_rects
                  /\ c \in DOMAIN layer_table[l].member_rects =>
                       layer_table'[l].member_rects[c] = layer_table[l].member_rects[c]
             /\ \A c \in {b} :
                  /\ c \in DOMAIN layer_table'[l].member_rects
                       <=> c <= numBlock' /\ Block'[c].layer = l /\ layer_table_active(l)
                  /\ c \in DOMAIN layer_table'[l].member_rects =>
                       layer_table'[l].member_rects[c] = rect_external(OwnLoc(l, c))
  BY <1>2, <1>9 DEF MemberChange
<1> QED BY <1>1, <1>4, <1>5, <1>6, <1>7, <1>8, AfterSync, Zenon

LEMMA PlaceIs ==
  ASSUME NEW p \in Places0
  PROVE  p \in Placements /\ p.Location \in Solid
BY PlacesAssumption DEF Placements, Solid

LEMMA PutBlockInv ==
  ASSUME NEW b \in BlockNumbers
  PROVE  TablesInv /\ PutBlock(b) => TablesInv'
<1> SUFFICES ASSUME TablesInv, PutBlock(b)
             PROVE  TablesInv'
  OBVIOUS
<1>1. b <= numBlock /\ Idle /\ UNCHANGED <<numBlock, Layer>> /\ SyncBlock(b)
  BY DEF PutBlock, CountChange
<1>2. PICK p \in Places0 : Block' = [Block EXCEPT ![b] = p]
  BY DEF PutBlock
<1>3. BlockTypes
  BY DEF TablesInv, TablesTypes
<1>4. BlockTypes'
  BY <1>1, <1>2, <1>3, PlaceIs DEF BlockTypes
<1>5. \A c \in BlockNumbers \ {b} : Block'[c] = Block[c] /\ (c <= numBlock' <=> c <= numBlock)
  BY <1>1, <1>2, <1>3 DEF BlockTypes
<1> QED BY <1>1, <1>4, <1>5, SyncBlockInv

LEMMA AddBlockInv == TablesInv /\ AddBlock => TablesInv'
<1> SUFFICES ASSUME TablesInv, AddBlock
             PROVE  TablesInv'
  OBVIOUS
<1> DEFINE b == numBlock'
<1>1. numBlock < MaxBlocks /\ numBlock' = numBlock + 1 /\ Idle /\ UNCHANGED Layer /\ SyncBlock(b)
  BY DEF AddBlock, CountChange
<1>2. PICK p \in Places0 : Block' = [Block EXCEPT ![b] = p]
  BY DEF AddBlock
<1>3. BlockTypes
  BY DEF TablesInv, TablesTypes
<1>4. b \in BlockNumbers /\ numBlock \in Nat /\ numBlock' \in 0..MaxBlocks
  BY <1>1, <1>3, TablesAssumption DEF BlockTypes, BlockNumbers
<1>5. \A c \in BlockNumbers \ {b} : Block'[c] = Block[c] /\ (c <= numBlock' <=> c <= numBlock)
  <2>1. \A c \in BlockNumbers \ {b} : Block'[c] = Block[c]
    BY <1>2, <1>3 DEF BlockTypes
  <2>2. \A c \in BlockNumbers \ {b} : c <= numBlock' <=> c <= numBlock
    BY <1>1, <1>4 DEF BlockNumbers
  <2> QED BY <2>1, <2>2
<1>6. BlockTypes'
  <2>1. Block' \in [BlockNumbers -> Placements]
    BY <1>2, <1>3, <1>4, PlaceIs DEF BlockTypes
  <2>2. Block'[b] = p /\ p.Location \in Solid /\ b <= numBlock'
    BY <1>2, <1>3, <1>4, PlaceIs DEF BlockTypes
  <2> QED BY <1>3, <1>4, <1>5, <2>1, <2>2 DEF BlockTypes
<1>7. \A n \in BlockNumbers :
        TablesInv /\ Idle /\ BlockTypes' /\ UNCHANGED Layer /\ SyncBlock(n)
        /\ (\A c \in BlockNumbers \ {n} : Block'[c] = Block[c] /\ (c <= numBlock' <=> c <= numBlock))
        => TablesInv'
  BY SyncBlockInv
<1> QED BY <1>1, <1>4, <1>5, <1>6, <1>7

\* A block that goes and the one that takes its number are both synchronized.
LEMMA RemoveBlockInv ==
  ASSUME NEW b \in BlockNumbers
  PROVE  TablesInv /\ RemoveBlock(b) => TablesInv'
<1> SUFFICES ASSUME TablesInv, RemoveBlock(b)
             PROVE  TablesInv'
  OBVIOUS
<1> DEFINE n     == numBlock
           first == Synced(common_table, layer_table, b)
           last  == Synced(first.common, first.own, n)
           both  == {b, n}
<1>1. /\ b <= n /\ Idle /\ numBlock' = n - 1
      /\ Block' = [Block EXCEPT ![b] = Block[n], ![n] = NoPlace]
      /\ UNCHANGED <<Layer, active_tables, loop>>
  BY DEF RemoveBlock, CountChange
<1>2. common_table' = last.common /\ layer_table' = last.own
  BY DEF RemoveBlock
<1>3. BlockTypes
  BY DEF TablesInv, TablesTypes
<1>4. n \in BlockNumbers /\ n \in Nat /\ numBlock' \in 0..MaxBlocks /\ both \in SUBSET BlockNumbers
  BY <1>1, <1>3, TablesAssumption DEF BlockTypes, BlockNumbers
<1>5. /\ \A c \in BlockNumbers \ both : Block'[c] = Block[c] /\ (c <= numBlock' <=> c <= n)
      /\ Block'[n] = NoPlace /\ (b # n => Block'[b] = Block[n])
      /\ Block' \in [BlockNumbers -> Placements]
  <2>1. NoPlace \in Placements
    BY DEF NoPlace, Placements, Locations
  <2>2. /\ \A c \in BlockNumbers \ both : Block'[c] = Block[c]
        /\ Block'[n] = NoPlace /\ (b # n => Block'[b] = Block[n])
        /\ Block' \in [BlockNumbers -> Placements]
    BY <1>1, <1>3, <1>4, <2>1 DEF BlockTypes
  <2>3. \A c \in BlockNumbers \ both : c <= numBlock' <=> c <= n
    BY <1>1, <1>4 DEF BlockNumbers
  <2> QED BY <2>2, <2>3
<1>6. BlockTypes'
  <2>1. ASSUME NEW c \in BlockNumbers
        PROVE  IF c <= numBlock' THEN Block'[c].Location \in Solid ELSE Block'[c] = NoPlace
    <3>1. CASE c = n
      BY <1>1, <1>4, <1>5, <3>1
    <3>2. CASE c # n /\ c = b
      <4>1. c <= numBlock'
        BY <1>1, <1>4, <3>2 DEF BlockNumbers
      <4>2. Block[n].Location \in Solid
        BY <1>3, <1>4 DEF BlockTypes
      <4> QED BY <1>5, <3>2, <4>1, <4>2
    <3>3. CASE c \notin both
      <4>1. IF c <= n THEN Block[c].Location \in Solid ELSE Block[c] = NoPlace
        BY <1>3 DEF BlockTypes
      <4> QED BY <1>5, <3>3, <4>1
    <3> QED BY <3>1, <3>2, <3>3
  <2> QED BY <1>4, <1>5, <2>1 DEF BlockTypes
<1>7. /\ TablesTypes /\ TableOK(common_table)
      /\ layer_table = [l \in Layers |-> layer_table[l]] /\ \A l \in Layers : TableOK(layer_table[l])
      /\ DOMAIN common_table.member_rects \subseteq BlockNumbers
      /\ \A l \in Layers : DOMAIN layer_table[l].member_rects \subseteq BlockNumbers
      /\ \A l \in Layers : ~layer_table_active(l) => DOMAIN layer_table[l].member_rects = {}
  BY <1>1, IdleTables
<1>8. SyncChange(common_table, layer_table, first, b)
  <2>1. \A l \in Layers : ~layer_table_active(l) => b \notin DOMAIN layer_table[l].member_rects
    BY <1>7
  <2> QED BY <1>6, <1>7, <2>1, SyncedBlock, Zenon
<1> HIDE DEF first
<1>9. SyncChange(first.common, first.own, last, n)
  <2>1. /\ TableOK(first.common)
        /\ first.own = [l \in Layers |-> first.own[l]] /\ \A l \in Layers : TableOK(first.own[l])
    BY <1>8 DEF SyncChange
  <2>2. \A l \in Layers : ~layer_table_active(l) => n \notin DOMAIN first.own[l].member_rects
    BY <1>7, <1>8 DEF SyncChange, MemberChange
  <2> QED BY <1>4, <1>6, <1>7, <2>1, <2>2, SyncedBlock, Zenon
<1> HIDE DEF last
<1>10. TableTypes'
  BY <1>2, <1>9 DEF TableTypes, SyncChange
<1> DEFINE c0 == common_table.member_rects
           c1 == first.common.member_rects
           c2 == common_table'.member_rects
<1>11. /\ MemberChange(c0, c1, b, b <= numBlock' /\ ~HasOwnTable(Block'[b].layer),
                       rect_external(Block'[b].Location))
       /\ MemberChange(c1, c2, n, n <= numBlock' /\ ~HasOwnTable(Block'[n].layer),
                       rect_external(Block'[n].Location))
  BY <1>2, <1>8, <1>9 DEF SyncChange
<1>12. DOMAIN c2 \subseteq BlockNumbers
  BY <1>4, <1>7, <1>11 DEF MemberChange
<1>13. /\ \A c \in BlockNumbers \ both :
            /\ c \in DOMAIN c2 <=> c \in DOMAIN c0
            /\ c \in DOMAIN c0 => c2[c] = c0[c]
       /\ \A c \in both :
            /\ c \in DOMAIN c2 <=> c <= numBlock' /\ ~HasOwnTable(Block'[c].layer)
            /\ c \in DOMAIN c2 => c2[c] = rect_external(Block'[c].Location)
  <2> HIDE DEF c0, c1, c2
  <2> QED BY <1>11 DEF MemberChange
<1>14. ASSUME NEW l \in Layers
       PROVE  /\ DOMAIN layer_table'[l].member_rects \subseteq BlockNumbers
              /\ \A c \in BlockNumbers \ both :
                   /\ c \in DOMAIN layer_table'[l].member_rects <=> c \in DOMAIN layer_table[l].member_rects
                   /\ c \in DOMAIN layer_table[l].member_rects =>
                        layer_table'[l].member_rects[c] = layer_table[l].member_rects[c]
              /\ \A c \in both :
                   /\ c \in DOMAIN layer_table'[l].member_rects
                        <=> c <= numBlock' /\ Block'[c].layer = l /\ layer_table_active(l)
                   /\ c \in DOMAIN layer_table'[l].member_rects =>
                        layer_table'[l].member_rects[c] = rect_external(OwnLoc(l, c))
  <2> DEFINE l0 == layer_table[l].member_rects
             l1 == first.own[l].member_rects
             l2 == layer_table'[l].member_rects
  <2>1. /\ MemberChange(l0, l1, b, b <= numBlock' /\ Block'[b].layer = l /\ layer_table_active(l),
                        rect_external(OwnLoc(l, b)))
        /\ MemberChange(l1, l2, n, n <= numBlock' /\ Block'[n].layer = l /\ layer_table_active(l),
                        rect_external(OwnLoc(l, n)))
    BY <1>2, <1>8, <1>9 DEF SyncChange
  <2>2. DOMAIN l0 \subseteq BlockNumbers
    BY <1>7
  <2> HIDE DEF l0, l1, l2
  <2>3. /\ DOMAIN l2 \subseteq BlockNumbers
        /\ \A c \in BlockNumbers \ both :
             /\ c \in DOMAIN l2 <=> c \in DOMAIN l0
             /\ c \in DOMAIN l0 => l2[c] = l0[c]
        /\ \A c \in both :
             /\ c \in DOMAIN l2 <=> c <= numBlock' /\ Block'[c].layer = l /\ layer_table_active(l)
             /\ c \in DOMAIN l2 => l2[c] = rect_external(OwnLoc(l, c))
    BY <1>4, <2>1, <2>2 DEF MemberChange
  <2> QED BY <2>3 DEF l0, l2
<1> HIDE DEF both
<1> QED BY <1>1, <1>4, <1>5, <1>6, <1>10, <1>12, <1>13, <1>14, AfterSync, Zenon

-----------------------------------------------------------------------------
(* The invariant of the specification, and what it gives.                  *)

LEMMA TablesInitInv == TablesInit => TablesInv
<1> SUFFICES ASSUME TablesInit
             PROVE  TablesInv
  OBVIOUS
<1>1. NoPlace \in Placements
  BY DEF NoPlace, Placements, Locations
<1>2. BlockTypes
  <2>1. Block \in [BlockNumbers -> Placements] /\ \A b \in BlockNumbers : Block[b] = NoPlace
    BY <1>1 DEF TablesInit, BlockNumbers
  <2>2. numBlock = 0 /\ MaxBlocks \in Nat
    BY TablesAssumption DEF TablesInit
  <2>3. \A b \in BlockNumbers : ~(b <= numBlock)
    BY <2>2 DEF BlockNumbers
  <2> QED BY <2>1, <2>2, <2>3 DEF BlockTypes
<1>3. LayerTypes
  BY DEF TablesInit, LayerTypes, Motions, Still
<1>4. TableTypes
  BY EmptyTableOK DEF TablesInit, TableTypes
<1>5. ActiveTypes /\ DOMAIN active_tables = {}
  BY DEF TablesInit, ActiveTypes
<1>6. Idle /\ numBlock = 0
  BY DEF TablesInit, Idle
<1>7. \A b : ~InCommon(b) /\ \A l : ~InLayer(l, b)
  BY <1>6 DEF InCommon, InLayer
<1>8. /\ DOMAIN common_table.member_rects = {}
      /\ \A l \in Layers : DOMAIN layer_table[l].member_rects = {}
  BY EmptyTableOK DEF TablesInit
<1>9. CommonHolds /\ \A l \in Layers : LayerHolds(l)
  BY <1>7, <1>8 DEF CommonHolds, LayerHolds
<1> QED BY <1>2, <1>3, <1>4, <1>5, <1>6, <1>9 DEF TablesInv, TablesTypes, LoopOK

LEMMA TablesNextInv == TablesInv /\ [TablesNext]_tables_vars => TablesInv'
<1> SUFFICES ASSUME TablesInv, [TablesNext]_tables_vars
             PROVE  TablesInv'
  OBVIOUS
<1>m. Moved \subseteq Layers
  BY LayersAssumption
<1>1. CASE AddBlock
  BY <1>1, AddBlockInv
<1>2. CASE \E b \in 1..MaxBlocks : PutBlock(b) \/ RemoveBlock(b)
  <2>1. PICK b \in BlockNumbers : PutBlock(b) \/ RemoveBlock(b)
    BY <1>2 DEF BlockNumbers
  <2> QED BY <2>1, PutBlockInv, RemoveBlockInv
<1>3. CASE \E l \in Moved : SetLayerSpeed(l) \/ MoveLayer(l)
  BY <1>3, SetLayerSpeedInv, MoveLayerInv
<1>4. CASE \E l \in Layers : UpdateLayers(l)
  BY <1>4, JoinTimerInv, MoveInv DEF UpdateLayers
<1>5. CASE \E b \in 1..MaxBlocks : Loops(b)
  <2>1. PICK b \in BlockNumbers : Loops(b)
    BY <1>5 DEF BlockNumbers
  <2> QED BY <2>1, SplitItemInv, JoinItemInv, MoveItemInv DEF Loops
<1>6. CASE SplitDone \/ JoinDone \/ MoveDone
  BY <1>6, LoopDoneInv
<1>7. CASE UNCHANGED tables_vars
  <2>1. /\ UNCHANGED <<Block, numBlock, Layer, common_table, layer_table, active_tables, loop>>
    BY <1>7 DEF tables_vars, blocks_vars, tables
  <2> QED BY <2>1 DEF TablesInv, TablesTypes, BlockTypes, LayerTypes, TableTypes, ActiveTypes,
        LoopOK, Idle, blocks, CommonHolds, LayerHolds, InCommon, InLayer, LayerLoc, Pending,
        HasOwnTable, layer_table_active
<1> QED BY <1>1, <1>2, <1>3, <1>4, <1>5, <1>6, <1>7 DEF TablesNext

\* The tables and the layers are as they should be, halfway through a loop as well:
\* every table is a correct index, and each holds the blocks it should have, where they
\* are in their layer.
THEOREM TablesInvCorrect == TablesSpec => []TablesInv
BY TablesInitInv, TablesNextInv, PTL DEF TablesSpec

\* Every table answers every query with the objects it holds, each once.
THEOREM TablesFindOnceCorrect == TablesSpec => []TablesFindOnce
<1>1. TablesInv => TablesFindOnce
  <2> SUFFICES ASSUME TablesInv, NEW q \in Queries, NEW table \in Tables
               PROVE  FindsMembers(table, q) /\ FindsOnce(table, q)
    BY DEF TablesFindOnce
  <2>1. TableOK(table)
    BY DEF Tables, TablesInv, TablesTypes, TableTypes
  <2>2. q \in Rects
    BY PlacesAssumption
  <2> QED BY <2>1, <2>2, TableFinds
<1> QED BY <1>1, TablesInvCorrect, PTL

\* A block is in one table only, and one that is no more is in none.
THEOREM InOneTableCorrect == TablesSpec => []InOneTable
<1>1. TablesInv => InOneTable
  <2> SUFFICES ASSUME TablesInv, Idle, NEW b \in BlockNumbers
               PROVE  Cardinality({l \in Layers : b \in DOMAIN layer_table[l].member_rects})
                        + Cardinality({b} \cap DOMAIN common_table.member_rects)
                          = IF b <= numBlock THEN 1 ELSE 0
    BY DEF InOneTable, BlockNumbers
  <2> DEFINE own    == {l \in Layers : b \in DOMAIN layer_table[l].member_rects}
             common == {b} \cap DOMAIN common_table.member_rects
             layer  == Block[b].layer
  <2>1. /\ b \in 1..numBlock <=> b <= numBlock
        /\ layer \in Layers \cup {LAYER_NONE}
    BY DEF TablesInv, TablesTypes, BlockTypes, BlockNumbers, Placements
  <2>2. /\ b \in DOMAIN common_table.member_rects <=> b <= numBlock /\ ~HasOwnTable(layer)
        /\ \A l \in Layers :
             b \in DOMAIN layer_table[l].member_rects <=> b <= numBlock /\ layer = l /\ layer_table_active(l)
    <3>1. InCommon(b) <=> b <= numBlock /\ ~HasOwnTable(layer)
      BY <2>1, IdleIs
    <3>2. \A l \in Layers : InLayer(l, b) <=> b <= numBlock /\ layer = l /\ layer_table_active(l)
      BY <2>1, IdleIs
    <3> QED BY <3>1, <3>2 DEF TablesInv, CommonHolds, LayerHolds
  <2>3. /\ Cardinality({}) = 0 /\ Cardinality({b}) = 1
        /\ Cardinality({layer}) = 1
    BY FS_EmptySet, FS_Singleton
  <2>4. HasOwnTable(layer) => layer \in Layers /\ layer_table_active(layer)
    BY <2>1 DEF HasOwnTable
  <2>5. layer \in Layers /\ layer_table_active(layer) => HasOwnTable(layer)
    BY LayerNumbers DEF HasOwnTable
  <2> HIDE DEF layer
  <2>6. CASE b <= numBlock /\ HasOwnTable(layer)
    <3>1. own = {layer} /\ common = {}
      BY <2>2, <2>4, <2>6
    <3> HIDE DEF own, common
    <3>2. Cardinality(own) + Cardinality(common) = IF b <= numBlock THEN 1 ELSE 0
      BY <2>3, <2>6, <3>1
    <3> QED BY <3>2 DEF own, common
  <2>7. CASE b <= numBlock /\ ~HasOwnTable(layer)
    <3>1. own = {} /\ common = {b}
      BY <2>2, <2>5, <2>7
    <3> HIDE DEF own, common
    <3>2. Cardinality(own) + Cardinality(common) = IF b <= numBlock THEN 1 ELSE 0
      BY <2>3, <2>7, <3>1
    <3> QED BY <3>2 DEF own, common
  <2>8. CASE ~(b <= numBlock)
    <3>1. own = {} /\ common = {}
      BY <2>2, <2>8
    <3> HIDE DEF own, common
    <3>2. Cardinality(own) + Cardinality(common) = IF b <= numBlock THEN 1 ELSE 0
      BY <2>3, <2>8, <3>1
    <3> QED BY <3>2 DEF own, common
  <2> QED BY <2>6, <2>7, <2>8
<1> QED BY <1>1, TablesInvCorrect, PTL

-----------------------------------------------------------------------------
(* No block is overlooked: the cells of a query meet those of every block  *)
(* that the place touches, in the common table and in that of a layer.     *)

LEMMA LessByTimes ==
  ASSUME NEW n \in Nat \ {0}, NEW a \in Int, NEW b \in Int
  PROVE  a * n < b * n => a < b
<1>1. CASE b <= a
  BY <1>1, Times
<1> QED BY <1>1

\* A cell ends after every point before it, however its ends are rounded.
LEMMA FloorCeil ==
  ASSUME NEW n \in Nat \ {0}, NEW x \in Int, NEW y \in Int, x < y
  PROVE  x \div n < (y + n - 1) \div n
<1> DEFINE p == x \div n
           z == y + n - 1
           q == z \div n
<1>1. p \in Int /\ p * n <= x /\ p * n \in Int
  BY DivIs, Times
<1>2. z \in Int /\ z = y + n - 1
  OBVIOUS
<1> HIDE DEF z
<1>3. q \in Int /\ z < q * n + n /\ q * n \in Int
  BY <1>2, DivIs, Times
<1> HIDE DEF p, q
<1>4. p * n < q * n
  BY <1>1, <1>2, <1>3
<1> QED BY <1>1, <1>3, <1>4, LessByTimes DEF p, q, z

\* Two offsets rounded one by one, and rounded together.
LEMMA FloorSum ==
  ASSUME NEW n \in Nat \ {0}, NEW x \in Int, NEW y \in Int
  PROVE  /\ x \div n + y \div n <= (x + y) \div n
         /\ (x + y) \div n < x \div n + y \div n + 2
<1> DEFINE p == x \div n
           q == y \div n
           z == x + y
           s == z \div n
<1>1. /\ p \in Int /\ p * n <= x /\ x < p * n + n /\ p * n \in Int
      /\ q \in Int /\ q * n <= y /\ y < q * n + n /\ q * n \in Int
  BY DivIs, Times
<1>2. z \in Int /\ z = x + y
  OBVIOUS
<1> HIDE DEF z
<1>3. s \in Int /\ s * n <= z /\ z < s * n + n /\ s * n \in Int
  BY <1>2, DivIs, Times
<1> HIDE DEF p, q, s
<1>4. /\ (p + q) * n = p * n + q * n
      /\ (p + q + 2) * n = p * n + q * n + 2 * n
      /\ (s + 1) * n = s * n + n
  <2>1. (p + q) * n = p * n + q * n /\ (s + 1) * n = s * n + n
    BY <1>1, <1>3, Times
  <2>2. (p + q + 2) * n = (p + q) * n + 2 * n
    BY <1>1, Times
  <2> QED BY <2>1, <2>2
<1>5. (p + q) * n < (s + 1) * n /\ s * n < (p + q + 2) * n
  BY <1>1, <1>2, <1>3, <1>4
<1>6. p + q < s + 1 /\ s < p + q + 2
  BY <1>1, <1>3, <1>5, LessByTimes
<1> QED BY <1>1, <1>3, <1>6 DEF p, q, s, z

LEMMA MeetsIs ==
  ASSUME NEW a \in Rects, NEW b \in Rects,
         a.l < a.r, a.l < b.r, b.l < a.r, b.l < b.r,
         a.t < a.b, a.t < b.b, b.t < a.b, b.t < b.b
  PROVE  Meets(a, b)
BY DEF Rects, Meets, Larger, Smaller

\* Two places that have an inner point in common.
Overlap(a, b) ==
  /\ a.X < a.X + a.Width /\ a.X < b.X + b.Width /\ b.X < a.X + a.Width /\ b.X < b.X + b.Width
  /\ a.Y < a.Y + a.Height /\ a.Y < b.Y + b.Height /\ b.Y < a.Y + a.Height /\ b.Y < b.Y + b.Height

LEMMA OverlapMeets ==
  ASSUME NEW a \in Locations, NEW b \in Locations, Overlap(a, b)
  PROVE  Meets(rect_external(a), rect_external(b))
<1>1. CellSize \in Nat \ {0}
  BY CellAssumption
<1>2. /\ a.X \in Int /\ a.X + a.Width \in Int /\ a.Y \in Int /\ a.Y + a.Height \in Int
      /\ b.X \in Int /\ b.X + b.Width \in Int /\ b.Y \in Int /\ b.Y + b.Height \in Int
  BY DEF Locations
<1>3. rect_external(a) \in Rects /\ rect_external(b) \in Rects
  BY RectExternalIs
<1>4. \A x, y \in Int : x < y => x \div CellSize < (y + CellSize - 1) \div CellSize
  BY <1>1, FloorCeil
<1> QED BY <1>2, <1>3, <1>4, MeetsIs DEF rect_external, Overlap

\* One axis of a query: a place from p on, w wide, and an object from a on that it
\* touches, in a layer that has moved by -o.
LEMMA AxisMet ==
  ASSUME NEW n \in Nat \ {0}, NEW a \in Int, NEW e \in Int, a < e,
         NEW p \in Int, NEW q \in Int, p < e, a < q, p < q, NEW o \in Int
  PROVE  /\ (a + o) \div n < (e + o + n - 1) \div n
         /\ (a + o) \div n < (q + n - 1) \div n + 1 + o \div n
         /\ p \div n + o \div n < (e + o + n - 1) \div n
         /\ p \div n + o \div n < (q + n - 1) \div n + 1 + o \div n
<1> DEFINE A == a \div n
           P == p \div n
           O == o \div n
           Q == (q + n - 1) \div n
           E == (e + o + n - 1) \div n
           B == (a + o) \div n
           C == (p + o) \div n
<1>1. q + n - 1 \in Int /\ e + o + n - 1 \in Int /\ a + o \in Int /\ p + o \in Int /\ e + o \in Int
  OBVIOUS
<1>2. A \in Int /\ P \in Int /\ O \in Int /\ Q \in Int /\ E \in Int /\ B \in Int /\ C \in Int
  BY <1>1, DivIs
<1>3. A < Q /\ P < Q
  BY FloorCeil
<1>4. B < E /\ C < E
  <2>1. a + o < e + o /\ p + o < e + o
    OBVIOUS
  <2> QED BY <1>1, <2>1, FloorCeil
<1>5. B < A + O + 2 /\ P + O <= C
  BY FloorSum
<1> HIDE DEF A, P, O, Q, E, B, C
<1>6. B < E /\ B < Q + 1 + O /\ P + O < E /\ P + O < Q + 1 + O
  BY <1>2, <1>3, <1>4, <1>5
<1> QED BY <1>6 DEF A, P, O, Q, E, B, C

\* The margin of a query, and the width it has.
LEMMA MarginIs ==
  ASSUME NEW classic \in BOOLEAN
  PROVE  (IF classic THEN Margin.classic ELSE Margin.standard) \in Nat \ {0}
BY MarginAssumption

QueryWidth(loc, classic)  == IF classic THEN loc.Width ELSE Larger(loc.Width, MinWidth)
QueryMargin(classic)      == IF classic THEN Margin.classic ELSE Margin.standard

LEMMA QueryRectIs ==
  ASSUME NEW loc \in Locations, NEW classic \in BOOLEAN
  PROVE  /\ QueryMargin(classic) \in Nat \ {0}
         /\ QueryWidth(loc, classic) \in Nat /\ QueryWidth(loc, classic) >= loc.Width
         /\ query_rect(loc, classic) \in Rects
         /\ query_rect(loc, classic) =
              [l |-> (loc.X - QueryMargin(classic)) \div CellSize,
               r |-> (loc.X + QueryWidth(loc, classic) + QueryMargin(classic) + CellSize - 1) \div CellSize,
               t |-> (loc.Y - QueryMargin(classic)) \div CellSize,
               b |-> (loc.Y + loc.Height + QueryMargin(classic) + CellSize - 1) \div CellSize]
<1> DEFINE m == QueryMargin(classic)
           w == QueryWidth(loc, classic)
<1>1. loc.X \in Int /\ loc.Y \in Int /\ loc.Width \in Nat /\ loc.Height \in Nat
  BY DEF Locations
<1>2. m \in Nat \ {0}
  BY MarginIs DEF QueryMargin
<1>3. w \in Nat /\ w >= loc.Width
  BY <1>1, CellAssumption DEF QueryWidth, Larger
<1>4. query_rect(loc, classic) =
        [l |-> (loc.X - m) \div CellSize, r |-> (loc.X + w + m + CellSize - 1) \div CellSize,
         t |-> (loc.Y - m) \div CellSize, b |-> (loc.Y + loc.Height + m + CellSize - 1) \div CellSize]
  BY DEF query_rect, QueryMargin, QueryWidth
<1> HIDE DEF m, w
<1>5. CellSize \in Nat \ {0}
  BY CellAssumption
<1>6. /\ loc.X - m \in Int /\ loc.X + w + m + CellSize - 1 \in Int
      /\ loc.Y - m \in Int /\ loc.Y + loc.Height + m + CellSize - 1 \in Int
  BY <1>1, <1>2, <1>3, <1>5
<1>7. query_rect(loc, classic) \in Rects
  BY <1>4, <1>5, <1>6, DivIs DEF Rects
<1> QED BY <1>2, <1>3, <1>4, <1>7 DEF m, w

\* A query of the common table ...
LEMMA QueryMeets ==
  ASSUME NEW block \in Solid, NEW loc \in Locations, Touch(block, loc), NEW classic \in BOOLEAN
  PROVE  Meets(rect_external(block), query_rect(loc, classic))
<1> DEFINE m == QueryMargin(classic)
           w == QueryWidth(loc, classic)
           n == CellSize
<1>1. /\ loc.X \in Int /\ loc.Y \in Int /\ loc.Width \in Nat /\ loc.Height \in Nat
      /\ block.X \in Int /\ block.Y \in Int /\ block.Width \in Nat \ {0} /\ block.Height \in Nat \ {0}
      /\ block \in Locations
  BY DEF Locations, Solid
<1>2. m \in Nat \ {0} /\ w \in Nat /\ w >= loc.Width /\ n \in Nat \ {0}
  BY QueryRectIs, CellAssumption
<1>3. rect_external(block) \in Rects /\ query_rect(loc, classic) \in Rects
  BY <1>1, QueryRectIs, RectExternalIs
<1>4. query_rect(loc, classic) =
        [l |-> (loc.X - m) \div n, r |-> (loc.X + w + m + n - 1) \div n,
         t |-> (loc.Y - m) \div n, b |-> (loc.Y + loc.Height + m + n - 1) \div n]
  BY QueryRectIs
<1>5. rect_external(block) =
        [l |-> block.X \div n, r |-> (block.X + block.Width + n - 1) \div n,
         t |-> block.Y \div n, b |-> (block.Y + block.Height + n - 1) \div n]
  BY DEF rect_external
<1> HIDE DEF m, w, n
<1>6. \A x, y \in Int : x < y => x \div n < (y + n - 1) \div n
  BY <1>2, FloorCeil
<1>7. /\ block.X < block.X + block.Width /\ block.X < loc.X + w + m
      /\ loc.X - m < block.X + block.Width /\ loc.X - m < loc.X + w + m
      /\ block.Y < block.Y + block.Height /\ block.Y < loc.Y + loc.Height + m
      /\ loc.Y - m < block.Y + block.Height /\ loc.Y - m < loc.Y + loc.Height + m
  BY <1>1, <1>2 DEF Touch
<1>8. /\ block.X + block.Width \in Int /\ loc.X + w + m \in Int /\ loc.X - m \in Int
      /\ block.Y + block.Height \in Int /\ loc.Y + loc.Height + m \in Int /\ loc.Y - m \in Int
  BY <1>1, <1>2
<1>9. /\ block.X \div n < (block.X + block.Width + n - 1) \div n
      /\ block.X \div n < (loc.X + w + m + n - 1) \div n
      /\ (loc.X - m) \div n < (block.X + block.Width + n - 1) \div n
      /\ (loc.X - m) \div n < (loc.X + w + m + n - 1) \div n
      /\ block.Y \div n < (block.Y + block.Height + n - 1) \div n
      /\ block.Y \div n < (loc.Y + loc.Height + m + n - 1) \div n
      /\ (loc.Y - m) \div n < (block.Y + block.Height + n - 1) \div n
      /\ (loc.Y - m) \div n < (loc.Y + loc.Height + m + n - 1) \div n
  BY <1>1, <1>6, <1>7, <1>8
<1> QED BY <1>3, <1>4, <1>5, <1>9, MeetsIs

\* ... and of a layer's, in which the block is where it would be had the layer not moved.
LEMMA LayerQueryMeets ==
  ASSUME NEW block \in Solid, NEW loc \in Locations, Touch(block, loc), NEW classic \in BOOLEAN,
         NEW k, Layer[k].Offset[1] \in Int, Layer[k].Offset[2] \in Int
  PROVE  LET own  == Shifted(block, -Layer[k].Offset[1], -Layer[k].Offset[2])
             rect == layer_rect(query_rect(loc, classic), k)
         IN rect \in Rects /\ Meets(rect_external(own), rect)
<1> DEFINE m == QueryMargin(classic)
           w == QueryWidth(loc, classic)
           n == CellSize
           x == -Layer[k].Offset[1]
           y == -Layer[k].Offset[2]
           own  == Shifted(block, x, y)
           rect == layer_rect(query_rect(loc, classic), k)
<1>1. /\ loc.X \in Int /\ loc.Y \in Int /\ loc.Width \in Nat /\ loc.Height \in Nat
      /\ block.X \in Int /\ block.Y \in Int /\ block.Width \in Nat \ {0} /\ block.Height \in Nat \ {0}
      /\ block \in Locations
  BY DEF Locations, Solid
<1>2. m \in Nat \ {0} /\ w \in Nat /\ w >= loc.Width /\ n \in Nat \ {0} /\ x \in Int /\ y \in Int
  BY QueryRectIs, CellAssumption
<1>3. query_rect(loc, classic) =
        [l |-> (loc.X - m) \div n, r |-> (loc.X + w + m + n - 1) \div n,
         t |-> (loc.Y - m) \div n, b |-> (loc.Y + loc.Height + m + n - 1) \div n]
  BY QueryRectIs
<1>4. rect = [l |-> (loc.X - m) \div n + x \div n, r |-> (loc.X + w + m + n - 1) \div n + 1 + x \div n,
              t |-> (loc.Y - m) \div n + y \div n, b |-> (loc.Y + loc.Height + m + n - 1) \div n + 1 + y \div n]
  BY <1>3 DEF layer_rect, OneMore
<1>h. own \in Locations
  BY <1>1, <1>2, ShiftedIs
<1>5. own = [X |-> block.X + x, Y |-> block.Y + y, Width |-> block.Width, Height |-> block.Height]
  BY <1>1, <1>2, ShiftedIs
<1> HIDE DEF m, w, x, y, rect, own
<1>6. rect_external(own) =
        [l |-> (block.X + x) \div n, r |-> ((block.X + block.Width) + x + n - 1) \div n,
         t |-> (block.Y + y) \div n, b |-> ((block.Y + block.Height) + y + n - 1) \div n]
  <2>1. rect_external(own) =
          [l |-> own.X \div n, r |-> (own.X + own.Width + n - 1) \div n,
           t |-> own.Y \div n, b |-> (own.Y + own.Height + n - 1) \div n]
    BY DEF rect_external
  <2>2. /\ own.X = block.X + x /\ own.Y = block.Y + y
        /\ own.X + own.Width + n - 1 = (block.X + block.Width) + x + n - 1
        /\ own.Y + own.Height + n - 1 = (block.Y + block.Height) + y + n - 1
    BY <1>1, <1>2, <1>5
  <2> QED BY <2>1, <2>2
<1> HIDE DEF n
<1>7. /\ block.X + block.Width \in Int /\ loc.X + w + m \in Int /\ loc.X - m \in Int
      /\ block.Y + block.Height \in Int /\ loc.Y + loc.Height + m \in Int /\ loc.Y - m \in Int
  BY <1>1, <1>2
<1>8. /\ block.X < block.X + block.Width /\ loc.X - m < block.X + block.Width
      /\ block.X < loc.X + w + m /\ loc.X - m < loc.X + w + m
      /\ block.Y < block.Y + block.Height /\ loc.Y - m < block.Y + block.Height
      /\ block.Y < loc.Y + loc.Height + m /\ loc.Y - m < loc.Y + loc.Height + m
  BY <1>1, <1>2 DEF Touch
<1>9. /\ (block.X + x) \div n < ((block.X + block.Width) + x + n - 1) \div n
      /\ (block.X + x) \div n < ((loc.X + w + m) + n - 1) \div n + 1 + x \div n
      /\ (loc.X - m) \div n + x \div n < ((block.X + block.Width) + x + n - 1) \div n
      /\ (loc.X - m) \div n + x \div n < ((loc.X + w + m) + n - 1) \div n + 1 + x \div n
  <2> DEFINE e == block.X + block.Width
             p == loc.X - m
             q == loc.X + w + m
  <2>1. e \in Int /\ p \in Int /\ q \in Int /\ block.X < e /\ p < e /\ block.X < q /\ p < q
    BY <1>7, <1>8
  <2> HIDE DEF e, p, q
  <2>2. /\ (block.X + x) \div n < (e + x + n - 1) \div n
        /\ (block.X + x) \div n < (q + n - 1) \div n + 1 + x \div n
        /\ p \div n + x \div n < (e + x + n - 1) \div n
        /\ p \div n + x \div n < (q + n - 1) \div n + 1 + x \div n
    BY <1>1, <1>2, <2>1, AxisMet
  <2> QED BY <2>2 DEF e, p, q
<1>10. /\ (block.Y + y) \div n < ((block.Y + block.Height) + y + n - 1) \div n
       /\ (block.Y + y) \div n < ((loc.Y + loc.Height + m) + n - 1) \div n + 1 + y \div n
       /\ (loc.Y - m) \div n + y \div n < ((block.Y + block.Height) + y + n - 1) \div n
       /\ (loc.Y - m) \div n + y \div n < ((loc.Y + loc.Height + m) + n - 1) \div n + 1 + y \div n
  <2> DEFINE e == block.Y + block.Height
             p == loc.Y - m
             q == loc.Y + loc.Height + m
  <2>1. e \in Int /\ p \in Int /\ q \in Int /\ block.Y < e /\ p < e /\ block.Y < q /\ p < q
    BY <1>7, <1>8
  <2> HIDE DEF e, p, q
  <2>2. /\ (block.Y + y) \div n < (e + y + n - 1) \div n
        /\ (block.Y + y) \div n < (q + n - 1) \div n + 1 + y \div n
        /\ p \div n + y \div n < (e + y + n - 1) \div n
        /\ p \div n + y \div n < (q + n - 1) \div n + 1 + y \div n
    BY <1>1, <1>2, <2>1, AxisMet
  <2> QED BY <2>2 DEF e, p, q
<1>11. rect_external(own) \in Rects
  BY <1>h, RectExternalIs
<1>12. rect \in Rects
  <2>1. /\ (loc.X - m) \div n \in Int /\ (loc.X + w + m + n - 1) \div n \in Int
        /\ (loc.Y - m) \div n \in Int /\ (loc.Y + loc.Height + m + n - 1) \div n \in Int
        /\ x \div n \in Int /\ y \div n \in Int
    <3>1. loc.X + w + m + n - 1 \in Int /\ loc.Y + loc.Height + m + n - 1 \in Int
      BY <1>1, <1>2
    <3> QED BY <1>2, <1>7, <3>1, DivIs
  <2> QED BY <1>4, <2>1 DEF Rects
<1>13. Meets(rect_external(own), rect)
  BY <1>4, <1>6, <1>9, <1>10, <1>11, <1>12, MeetsIs
<1> QED BY <1>12, <1>13 DEF rect, own, x, y

\* treeBlockQuery moves the place itself.
WidePlace(loc, classic) ==
  [X |-> loc.X - QueryMargin(classic), Y |-> loc.Y - QueryMargin(classic),
   Width |-> loc.Width + 2 * QueryMargin(classic), Height |-> loc.Height + 2 * QueryMargin(classic)]

LEMMA TreeQueryMeets ==
  ASSUME NEW block \in Solid, NEW loc \in Locations, Touch(block, loc), NEW classic \in BOOLEAN,
         NEW x \in Int, NEW y \in Int
  PROVE  /\ Shifted(WidePlace(loc, classic), x, y) \in Locations /\ WidePlace(loc, classic) \in Locations
         /\ Meets(rect_external(block), rect_external(WidePlace(loc, classic)))
         /\ Meets(rect_external(Shifted(block, x, y)), rect_external(Shifted(WidePlace(loc, classic), x, y)))
<1> DEFINE m == QueryMargin(classic)
           wide == WidePlace(loc, classic)
           own == Shifted(block, x, y)
           mine == Shifted(wide, x, y)
<1>1. /\ loc.X \in Int /\ loc.Y \in Int /\ loc.Width \in Nat /\ loc.Height \in Nat
      /\ block.X \in Int /\ block.Y \in Int /\ block.Width \in Nat \ {0} /\ block.Height \in Nat \ {0}
      /\ block \in Locations
  BY DEF Locations, Solid
<1>2. m \in Nat \ {0}
  BY QueryRectIs
<1>3. wide = [X |-> loc.X - m, Y |-> loc.Y - m, Width |-> loc.Width + 2 * m, Height |-> loc.Height + 2 * m]
  BY DEF WidePlace
<1> HIDE DEF m, wide
<1>4. wide \in Locations
  BY <1>1, <1>2, <1>3 DEF Locations
<1>5. /\ mine \in Locations
      /\ mine = [X |-> wide.X + x, Y |-> wide.Y + y, Width |-> wide.Width, Height |-> wide.Height]
  BY <1>4, ShiftedIs
<1>6. /\ own \in Locations
      /\ own = [X |-> block.X + x, Y |-> block.Y + y, Width |-> block.Width, Height |-> block.Height]
  BY <1>1, ShiftedIs
<1> HIDE DEF mine, own
<1>7. Overlap(block, wide)
  BY <1>1, <1>2, <1>3 DEF Overlap, Touch
<1>8. Overlap(own, mine)
  <2>1. /\ wide.X \in Int /\ wide.Y \in Int /\ wide.Width \in Nat /\ wide.Height \in Nat
    BY <1>4 DEF Locations
  <2> QED BY <1>1, <1>5, <1>6, <1>7, <2>1 DEF Overlap
<1> QED BY <1>1, <1>4, <1>5, <1>6, <1>7, <1>8, OverlapMeets DEF wide, mine, own

\* What a query of one table finds.
LEMMA FoundIs ==
  ASSUME NEW table, TableOK(table), NEW rect \in Rects,
         NEW b \in DOMAIN table.member_rects, Meets(table.member_rects[b], rect)
  PROVE  b \in Found(table, rect)
BY TableFinds DEF FindsMembers, Found

\* Whoever asks for a place finds every block that touches it, in whatever table it is
\* and however far its layer has moved.
THEOREM LocationsNoneMissedCorrect == TablesSpec => []LocationsNoneMissed
<1>1. ASSUME TablesInv, Idle, NEW loc \in Locations, NEW b \in 1..numBlock, NEW classic \in BOOLEAN,
             Touch(Block[b].Location, loc)
      PROVE  b \in query(loc, classic) /\ b \in treeBlockQuery(loc, classic)
  <2> DEFINE block == Block[b].Location
             layer == Block[b].layer
             rect  == query_rect(loc, classic)
             wide  == WidePlace(loc, classic)
  <2>1. /\ b \in BlockNumbers /\ b <= numBlock /\ block \in Solid /\ block \in Locations
        /\ layer \in Layers \cup {LAYER_NONE}
    <3>1. BlockTypes
      BY <1>1 DEF TablesInv, TablesTypes
    <3>2. b \in BlockNumbers /\ b <= numBlock
      BY <3>1, TablesAssumption DEF BlockTypes, BlockNumbers
    <3>3. block \in Solid /\ Block[b] \in Placements
      BY <3>1, <3>2 DEF BlockTypes
    <3> QED BY <3>2, <3>3 DEF Placements, Solid
  <2>2. /\ query(loc, classic) =
             Found(common_table, rect)
               \cup UNION {Found(layer_table[active_tables[k]], layer_rect(rect, active_tables[k])) :
                             k \in DOMAIN active_tables}
        /\ treeBlockQuery(loc, classic) =
             Found(common_table, rect_external(wide))
               \cup UNION {Found(layer_table[active_tables[k]],
                                 rect_external(Shifted(wide, -Layer[active_tables[k]].Offset[1],
                                                             -Layer[active_tables[k]].Offset[2]))) :
                             k \in DOMAIN active_tables}
    BY DEF query, treeBlockQuery, WidePlace, QueryMargin
  <2>3. rect \in Rects /\ wide \in Locations /\ rect_external(wide) \in Rects
    <3>1. wide \in Locations
      BY <1>1, <2>1, TreeQueryMeets
    <3> QED BY <3>1, QueryRectIs, RectExternalIs
  <2> HIDE DEF rect, wide
  <2>4. CASE ~HasOwnTable(layer)
    <3>1. InCommon(b)
      BY <1>1, <2>4, IdleIs
    <3>2. /\ b \in DOMAIN common_table.member_rects
          /\ common_table.member_rects[b] = rect_external(block)
      BY <1>1, <2>1, <3>1 DEF TablesInv, CommonHolds
    <3>3. Meets(rect_external(block), rect) /\ Meets(rect_external(block), rect_external(wide))
      BY <1>1, <2>1, QueryMeets, TreeQueryMeets DEF rect, wide
    <3>4. TableOK(common_table)
      BY <1>1 DEF TablesInv, TablesTypes, TableTypes
    <3>5. b \in Found(common_table, rect) /\ b \in Found(common_table, rect_external(wide))
      BY <2>3, <3>2, <3>3, <3>4, FoundIs
    <3> QED BY <2>2, <3>5
  <2>5. CASE HasOwnTable(layer)
    <3>1. layer \in Layers /\ layer_table_active(layer)
      BY <2>1, <2>5 DEF HasOwnTable
    <3>2. PICK k \in DOMAIN active_tables : active_tables[k] = layer
      BY <3>1 DEF layer_table_active
    <3>3. InLayer(layer, b)
      BY <1>1, <3>1, IdleIs
    <3> DEFINE x    == -Layer[layer].Offset[1]
               y    == -Layer[layer].Offset[2]
               own  == Shifted(block, x, y)
               mine == Shifted(wide, x, y)
               shifted == layer_rect(rect, layer)
    <3>4. Layer[layer].Offset[1] \in Int /\ Layer[layer].Offset[2] \in Int
      BY <1>1, <3>1, MotionIs DEF TablesInv, TablesTypes, LayerTypes
    <3>5. /\ b \in DOMAIN layer_table[layer].member_rects
          /\ layer_table[layer].member_rects[b] = rect_external(own)
      <4>1. TablesTypes
        BY <1>1 DEF TablesInv
      <4>2. LayerLoc(layer, b) = own
        BY <1>1, <2>1, <3>1, <4>1, IdleLoc
      <4> QED BY <1>1, <2>1, <3>1, <3>3, <4>2 DEF TablesInv, LayerHolds
    <3>6. shifted \in Rects /\ Meets(rect_external(own), shifted)
      BY <1>1, <2>1, <3>4, LayerQueryMeets DEF rect
    <3>7. rect_external(mine) \in Rects /\ Meets(rect_external(own), rect_external(mine))
      <4>1. x \in Int /\ y \in Int
        BY <3>4
      <4> HIDE DEF x, y
      <4> QED BY <1>1, <2>1, <4>1, TreeQueryMeets, RectExternalIs DEF wide
    <3>8. TableOK(layer_table[layer])
      BY <1>1, <3>1 DEF TablesInv, TablesTypes, TableTypes
    <3> HIDE DEF own, shifted, mine
    <3>9. /\ b \in Found(layer_table[layer], shifted)
          /\ b \in Found(layer_table[layer], rect_external(mine))
      BY <3>5, <3>6, <3>7, <3>8, FoundIs
    <3>10. b \in query(loc, classic)
      BY <2>2, <3>2, <3>9 DEF shifted
    <3>11. b \in treeBlockQuery(loc, classic)
      BY <2>2, <3>2, <3>9 DEF mine
    <3> QED BY <3>10, <3>11
  <2> QED BY <2>4, <2>5
<1>2. TablesInv => LocationsNoneMissed
  BY <1>1, PlacesAssumption DEF LocationsNoneMissed, NoneMissed
<1> QED BY <1>2, TablesInvCorrect, PTL
=============================================================================
