------------------------- MODULE NpcKillQueueProofs -------------------------
(***************************************************************************)
(* The kill loop of UpdateNPCs, proved for arrays, queues and levels of    *)
(* any size and any events: who must die in it is dead when it ends, and   *)
(* the player stands on the same NPC throughout.                           *)
(***************************************************************************)
EXTENDS NpcKillQueue, Integers, FiniteSetTheorems, WellFoundedInduction, NaturalsInduction, TLAPS

-----------------------------------------------------------------------------
(* The invariant.                                                          *)

\* The locals of the kill loop, or what a message has saved of them.
At    == IF pc = "paused" THEN interrupt.A ELSE i
Check == IF pc = "paused" THEN interrupt.E ELSE KilledQueue_check
Known == IF pc = "paused" THEN interrupt.F ELSE KilledQueue_known

InKillNPC == {"death", "last", "death_resumed", "last_resumed"}
Killing   == pc \in InKillNPC \cup {"paused"}

\* The NPC that KillNPC is about.
Dying == Killed[At]

TypeOK ==
  /\ npc \in [Index -> NPC_t] /\ numNPCs \in 0..MaxNPCs
  /\ Killed \in Seq(Index)
  /\ Hidden \subseteq Layers
  /\ StandingOnNPC \in {0} \cup Alive
  /\ menu_or_battle \in BOOLEAN
  /\ pc \in {"frame", "loop"} \cup InKillNPC \cup {"paused"}
  /\ i \in Nat /\ KilledQueue_check \in Nat /\ KilledQueue_known \in Nat /\ A \in Nat
  /\ interrupt \in [site : {"None", "death", "last"}, A : Nat, E : Nat, F : Nat]
  /\ ids \in Nat /\ frames \in Nat
  /\ doomed \subseteq 1..ids

\* No two NPCs have the same id, and none one that is still to be given.
Distinct ==
  /\ \A k \in Alive : npc[k].id \in 1..ids
  /\ \A k, l \in Alive : npc[k].id = npc[l].id => k = l

\* Where the loop is: in the part of the queue that it checks, and while an NPC is
\* killed on its entry.
Place ==
  /\ pc # "frame" => /\ At >= 1 /\ At <= Check + 1
                     /\ Check <= Known /\ Known <= Len(Killed)
  /\ Killing => At <= Check /\ Dying \in Alive
  /\ pc \in InKillNPC => A = Dying

\* What is still to be checked is in order.
InOrder == pc # "frame" => \A m, p \in At..Check : m < p => Killed[m] >= Killed[p]

\* Whoever is doomed and lives is marked, and has an entry that is still to be
\* checked, or a new one that will be: of an NPC before the one being killed.
Owed ==
  /\ pc = "frame" => doomed = {}
  /\ \A k \in Alive : npc[k].id \in doomed =>
       /\ npc[k].Killed
       /\ \/ \E m \in At..Check : Killed[m] = k
          \/ Killing /\ k < Dying /\ \E m \in (Known + 1)..Len(Killed) : Killed[m] = k

KillInv == TypeOK /\ Distinct /\ Place /\ InOrder /\ Owed

-----------------------------------------------------------------------------
(* Queues in order.                                                        *)

\* A set of naturals has a least element, by the well-foundedness of < on Nat.
LEMMA Least ==
  ASSUME NEW Q \in SUBSET Nat, Q # {}
  PROVE  \E x \in Q : \A y \in Q : x <= y
<1>1. IsWellFoundedOn(OpToRel(<, Nat), Nat)
  BY NatLessThanWellFounded
<1>2. PICK x \in Q : \A y \in Q : ~(<<y, x>> \in OpToRel(<, Nat))
  BY <1>1, WFMin
<1>3. \A y \in Q : y < x => <<y, x>> \in OpToRel(<, Nat)
  BY DEF OpToRel
<1>4. \A y \in Q : y \in Nat /\ x \in Nat /\ ~(y < x)
  BY <1>2, <1>3
<1> QED BY <1>4

LEMMA Interval ==
  ASSUME NEW n \in Nat
  PROVE  IsFiniteSet(1..n) /\ Cardinality(1..n) = n
  BY FS_Interval

\* How many entries are at least v.
Count(s, v) == Cardinality(AtLeast(s, v))

LEMMA CountIs ==
  ASSUME NEW s \in Seq(Nat), NEW v \in Nat
  PROVE  IsFiniteSet(AtLeast(s, v)) /\ Count(s, v) \in 0..Len(s)
<1>1. DOMAIN s = 1..Len(s) /\ Len(s) \in Nat
  OBVIOUS
<1>2. IsFiniteSet(1..Len(s)) /\ Cardinality(1..Len(s)) = Len(s)
  BY <1>1, Interval
<1>3. AtLeast(s, v) \in SUBSET (1..Len(s))
  BY <1>1 DEF AtLeast
<1>4. IsFiniteSet(AtLeast(s, v)) /\ Cardinality(AtLeast(s, v)) <= Len(s)
  BY <1>2, <1>3, FS_Subset
<1>5. Cardinality(AtLeast(s, v)) \in Nat
  BY <1>4, FS_CardinalityType
<1> QED BY <1>1, <1>4, <1>5 DEF Count

LEMMA CountNat ==
  ASSUME NEW s \in Seq(Nat), NEW v \in Nat
  PROVE  Count(s, v) \in Nat
<1>1. Count(s, v) \in 0..Len(s)
  BY CountIs
<1> QED BY <1>1

\* The count falls as v rises, and by one at least where an entry is passed.
LEMMA CountFalls ==
  ASSUME NEW s \in Seq(Nat), NEW v \in Nat, NEW w \in Nat, v <= w
  PROVE  /\ Count(s, w) <= Count(s, v)
         /\ \A j \in DOMAIN s : v <= s[j] /\ s[j] < w => Count(s, w) < Count(s, v)
<1>1. \A j \in DOMAIN s : s[j] \in Nat
  OBVIOUS
<1>2. AtLeast(s, w) \in SUBSET AtLeast(s, v)
  BY <1>1 DEF AtLeast
<1>3. /\ IsFiniteSet(AtLeast(s, v))
      /\ Count(s, v) \in Nat /\ Count(s, w) \in Nat
  BY CountIs
<1>4. Count(s, w) <= Count(s, v) /\ (Count(s, v) = Count(s, w) => AtLeast(s, v) = AtLeast(s, w))
  BY <1>2, <1>3, FS_Subset DEF Count
<1>5. ASSUME NEW j \in DOMAIN s, v <= s[j], s[j] < w
      PROVE  Count(s, w) < Count(s, v)
  <2>1. j \in AtLeast(s, v) /\ j \notin AtLeast(s, w)
    BY <1>1, <1>5 DEF AtLeast
  <2> QED BY <1>3, <1>4, <2>1
<1> QED BY <1>4, <1>5

LEMMA CountSame ==
  ASSUME NEW s \in Seq(Nat), NEW v \in Nat, NEW w \in Nat, v <= w,
         \A j \in DOMAIN s : s[j] >= v => s[j] >= w
  PROVE  Count(s, w) = Count(s, v)
<1>1. \A j \in DOMAIN s : s[j] \in Nat
  OBVIOUS
<1>2. AtLeast(s, w) = AtLeast(s, v)
  BY <1>1 DEF AtLeast
<1> QED BY <1>2 DEF Count

\* v is what comes k-th in s.
Kth(s, k, v) == v \in ToSet(s) /\ Count(s, v + 1) < k /\ k <= Count(s, v)

LEMMA KthExists ==
  ASSUME NEW s \in Seq(Nat), NEW k \in 1..Len(s)
  PROVE  \E v \in ToSet(s) : Kth(s, k, v)
<1>1. \A j \in DOMAIN s : s[j] \in Nat /\ s[j] \in ToSet(s)
  BY DEF ToSet
<1>2. ToSet(s) \in SUBSET Nat
  BY <1>1 DEF ToSet
<1> DEFINE C == {v \in ToSet(s) : k <= Count(s, v)}
           Q == {Count(s, v) : v \in C}
<1>3. C # {}
  <2>1. k \in DOMAIN s /\ DOMAIN s = 1..Len(s) /\ Len(s) \in Nat
    OBVIOUS
  <2>2. ToSet(s) # {}
    BY <1>1, <2>1
  <2>3. PICK v \in ToSet(s) : \A w \in ToSet(s) : v <= w
    BY <1>2, <2>2, Least
  <2>4. AtLeast(s, v) = 1..Len(s)
    BY <1>1, <1>2, <2>1, <2>3 DEF AtLeast
  <2>5. Count(s, v) = Len(s)
    <3>1. Cardinality(1..Len(s)) = Len(s)
      BY <2>1, Interval
    <3> QED BY <2>4, <3>1 DEF Count
  <2> QED BY <2>1, <2>3, <2>5
<1>0. \A v \in Nat : Count(s, v) \in Nat
  BY CountIs
<1>4. Q \in SUBSET Nat /\ Q # {}
  BY <1>0, <1>2, <1>3
<1>5. PICK v \in C : \A w \in C : Count(s, v) <= Count(s, w)
  <2>1. PICK q \in Q : \A r \in Q : q <= r
    BY <1>4, Least
  <2> QED BY <2>1
<1>6. v \in Nat /\ v \in ToSet(s) /\ k <= Count(s, v) /\ Count(s, v) \in Nat
      /\ Count(s, v + 1) \in Nat
  <2>1. v \in Nat /\ v + 1 \in Nat
    BY <1>2, <1>5
  <2> QED BY <1>0, <1>5, <2>1
<1>7. Count(s, v + 1) < k
  <2>1. SUFFICES ASSUME Count(s, v + 1) >= k PROVE FALSE
    BY <1>6
  <2> DEFINE G == {w \in ToSet(s) : w > v}
  <2>2. G # {}
    <3>1. SUFFICES ASSUME G = {} PROVE FALSE
      OBVIOUS
    <3>2. AtLeast(s, v + 1) = {}
      BY <1>1, <1>6, <3>1 DEF AtLeast
    <3>3. Count(s, v + 1) = 0
      BY <3>2, FS_EmptySet DEF Count
    <3> QED BY <2>1, <3>3
  <2>3. PICK w \in G : \A u \in G : w <= u
    BY <1>2, <2>2, Least
  <2>4. w \in Nat /\ w \in ToSet(s) /\ v + 1 <= w
    BY <1>2, <1>6, <2>3
  <2>5. \A j \in DOMAIN s : s[j] >= v + 1 => s[j] >= w
    BY <1>1, <1>6, <2>3
  <2>6. Count(s, w) = Count(s, v + 1)
    BY <1>6, <2>4, <2>5, CountSame
  <2>7. w \in C
    BY <2>1, <2>4, <2>6
  <2>8. PICK j \in DOMAIN s : s[j] = v
    BY <1>6 DEF ToSet
  <2>9. Count(s, w) < Count(s, v)
    <3>1. v <= s[j] /\ s[j] < w /\ v <= w /\ v \in Nat /\ w \in Nat
      BY <1>6, <2>4, <2>8
    <3> QED BY <3>1, CountFalls
  <2> QED BY <1>5, <1>6, <2>7, <2>9, <2>4, CountIs
<1> QED BY <1>6, <1>7 DEF Kth

\* What reverse_sort makes of a queue: the same entries, the greatest first.
LEMMA DescendingKth ==
  ASSUME NEW s \in Seq(Nat)
  PROVE  /\ DOMAIN Descending(s) = 1..Len(s)
         /\ \A k \in 1..Len(s) : Kth(s, k, Descending(s)[k])
<1>1. DOMAIN s = 1..Len(s)
  OBVIOUS
<1>2. ASSUME NEW k \in 1..Len(s)
      PROVE  Kth(s, k, CHOOSE v \in ToSet(s) : /\ Cardinality(AtLeast(s, v + 1)) < k
                                               /\ k <= Cardinality(AtLeast(s, v)))
  <2>1. \E v \in ToSet(s) : /\ Cardinality(AtLeast(s, v + 1)) < k
                            /\ k <= Cardinality(AtLeast(s, v))
    BY KthExists DEF Kth, Count
  <2> QED BY <2>1 DEF Kth, Count
<1> QED BY <1>1, <1>2 DEF Descending

LEMMA DescendingIs ==
  ASSUME NEW S \in SUBSET Nat, NEW s \in Seq(S)
  PROVE  LET t == Descending(s)
         IN /\ t \in Seq(S) /\ Len(t) = Len(s)
            /\ \A k, l \in 1..Len(t) : k < l => t[k] >= t[l]
            /\ ToSet(t) = ToSet(s)
<1> DEFINE t == Descending(s)
<1>0. s \in [1..Len(s) -> S] /\ Len(s) \in Nat /\ DOMAIN s = 1..Len(s)
  OBVIOUS
<1>2. \A j \in 1..Len(s) : s[j] \in S /\ s[j] \in Nat
  BY <1>0
<1>1. s \in Seq(Nat) /\ Len(s) \in Nat /\ DOMAIN s = 1..Len(s)
  <2>1. s \in [1..Len(s) -> Nat]
    BY <1>0, <1>2
  <2> QED BY <1>0, <2>1
<1>3. ToSet(s) \in SUBSET S
  BY <1>1, <1>2 DEF ToSet
<1>4. DOMAIN t = 1..Len(s) /\ \A k \in 1..Len(s) : Kth(s, k, t[k])
  BY <1>1, DescendingKth
<1>5. t = [k \in 1..Len(s) |-> t[k]]
  BY <1>1 DEF Descending
<1> HIDE DEF t
<1>6. \A k \in 1..Len(s) : t[k] \in ToSet(s) /\ t[k] \in S /\ t[k] \in Nat
  BY <1>3, <1>4 DEF Kth
<1>7. t \in Seq(S) /\ Len(t) = Len(s)
  <2>1. t \in [1..Len(s) -> S]
    BY <1>5, <1>6
  <2> QED BY <1>1, <2>1
<1>8. ASSUME NEW k \in 1..Len(t), NEW l \in 1..Len(t), k < l
      PROVE  t[k] >= t[l]
  <2>1. k \in 1..Len(s) /\ l \in 1..Len(s) /\ k \in Nat /\ l \in Nat
    BY <1>1, <1>7
  <2>2. t[k] \in Nat /\ t[l] \in Nat /\ Count(s, t[k] + 1) < k /\ l <= Count(s, t[l])
    BY <1>4, <1>6, <2>1 DEF Kth
  <2>3. Count(s, t[k] + 1) \in Nat /\ Count(s, t[l]) \in Nat
    <3>1. t[k] + 1 \in Nat
      BY <2>2
    <3> QED BY <1>1, <2>2, <3>1, CountNat
  <2>4. SUFFICES ASSUME t[k] + 1 <= t[l] PROVE FALSE
    BY <2>2
  <2>5. Count(s, t[l]) <= Count(s, t[k] + 1)
    BY <1>1, <2>2, <2>4, CountFalls
  <2> QED BY <1>8, <2>1, <2>2, <2>3, <2>5
<1>9. ASSUME NEW j \in 1..Len(s)
      PROVE  s[j] \in ToSet(t)
  <2> DEFINE k == Count(s, s[j])
  <2>1. s[j] \in Nat /\ j \in DOMAIN s
    BY <1>1, <1>2
  <2>2. k \in 0..Len(s) /\ Count(s, s[j] + 1) \in Nat
    <3>1. s[j] + 1 \in Nat
      BY <2>1
    <3> QED BY <1>1, <2>1, <3>1, CountIs, CountNat
  <2>3. Count(s, s[j] + 1) < k
    <3>1. s[j] <= s[j] /\ s[j] < s[j] + 1 /\ s[j] <= s[j] + 1 /\ s[j] + 1 \in Nat
      BY <2>1
    <3> QED BY <1>1, <2>1, <3>1, CountFalls
  <2>4. k \in 1..Len(s)
    BY <1>1, <2>2, <2>3
  <2> DEFINE u == t[k]
  <2>5. u \in Nat /\ u \in ToSet(s) /\ Count(s, u + 1) < k /\ k <= Count(s, u)
    BY <1>4, <1>6, <2>4 DEF Kth
  <2> HIDE DEF u
  <2>6. Count(s, u + 1) \in Nat /\ Count(s, u) \in Nat
    <3>1. u + 1 \in Nat
      BY <2>5
    <3> QED BY <1>1, <2>5, <3>1, CountNat
  <2>7. CASE u + 1 <= s[j]
    <3>1. Count(s, s[j]) <= Count(s, u + 1)
      BY <1>1, <2>1, <2>5, <2>7, CountFalls
    <3> QED BY <2>2, <2>5, <2>6, <3>1
  <2>8. CASE s[j] + 1 <= u
    <3>1. Count(s, u) <= Count(s, s[j] + 1)
      BY <1>1, <2>1, <2>5, <2>8, CountFalls
    <3> QED BY <2>2, <2>3, <2>5, <2>6, <3>1
  <2>9. CASE u = s[j]
    BY <1>4, <2>4, <2>9 DEF ToSet, u
  <2> QED BY <2>1, <2>5, <2>7, <2>8, <2>9
<1>10. ToSet(t) = ToSet(s)
  <2>1. \A v \in ToSet(t) : v \in ToSet(s)
    BY <1>4, <1>6 DEF ToSet
  <2>2. \A v \in ToSet(s) : v \in ToSet(t)
    BY <1>1, <1>9 DEF ToSet
  <2> QED BY <2>1, <2>2
<1> QED BY <1>7, <1>8, <1>10 DEF t

\* Of a queue in order those that are at least v come first.
LEMMA DescendingSplits ==
  ASSUME NEW s \in Seq(Nat), NEW v \in Nat
  PROVE  LET t == Descending(s)
             n == Cardinality(AtLeast(t, v))
         IN n \in 0..Len(t) /\ \A k \in 1..Len(t) : k <= n <=> t[k] >= v
<1> DEFINE t == Descending(s)
           n == Cardinality(AtLeast(t, v))
<1>1. /\ t \in Seq(Nat) /\ Len(t) \in Nat /\ DOMAIN t = 1..Len(t)
      /\ \A k, l \in 1..Len(t) : k < l => t[k] >= t[l]
  BY DescendingIs
<1> HIDE DEF t
<1>2. n \in 0..Len(t) /\ IsFiniteSet(AtLeast(t, v))
  BY <1>1, CountIs DEF Count
<1>3. \A k \in 1..Len(t) : t[k] \in Nat /\ k \in Nat
  BY <1>1
<1>4. ASSUME NEW k \in 1..Len(t), t[k] >= v
      PROVE  k <= n
  <2>1. \A l \in 1..k : t[l] >= v /\ l \in 1..Len(t)
    BY <1>1, <1>3, <1>4
  <2>2. 1..k \in SUBSET AtLeast(t, v)
    BY <1>1, <2>1 DEF AtLeast
  <2>3. Cardinality(1..k) <= n
    BY <1>2, <2>2, FS_Subset
  <2> QED BY <1>3, <2>3, Interval
<1>5. ASSUME NEW k \in 1..Len(t), ~(t[k] >= v)
      PROVE  n < k
  <2>1. \A l \in 1..Len(t) : t[l] >= v => l <= k - 1
    BY <1>1, <1>3, <1>5
  <2>2. AtLeast(t, v) \in SUBSET (1..(k - 1))
    BY <1>1, <1>3, <2>1 DEF AtLeast
  <2>3. k - 1 \in Nat
    BY <1>3
  <2>4. IsFiniteSet(1..(k - 1)) /\ Cardinality(1..(k - 1)) = k - 1
    BY <2>3, Interval
  <2>5. n <= k - 1
    BY <2>2, <2>4, FS_Subset
  <2> QED BY <1>2, <1>3, <2>5
<1>6. \A k \in 1..Len(t) : k <= n <=> t[k] >= v
  BY <1>2, <1>3, <1>4, <1>5
<1> QED BY <1>2, <1>6 DEF t

\* The entries for a set of NPCs.
LEMMA EntriesAre ==
  ASSUME NEW S, IsFiniteSet(S)
  PROVE  SetToSeq(S) \in Seq(S) /\ ToSet(SetToSeq(S)) = S
<1> DEFINE n == Cardinality(S)
           f == SetToSeq(S)
<1>1. n \in Nat /\ ExistsBijection(1..n, S)
  BY FS_CardinalityType
<1>2. PICK g \in [1..n -> S] : IsInjective(g)
  BY <1>1 DEF ExistsBijection, Bijection, Injection
<1>3. f \in [1..n -> S] /\ IsInjective(f)
  BY <1>2 DEF SetToSeq
<1> HIDE DEF f
<1>4. f \in Injection(1..n, S)
  BY <1>3 DEF Injection
<1>5. IsFiniteSet(1..n) /\ Cardinality(1..n) = Cardinality(S)
  BY <1>1, Interval
<1>6. f \in Surjection(1..n, S)
  BY <1>4, <1>5, FS_Injection
<1>7. ToSet(f) = S
  BY <1>3, <1>6 DEF ToSet, Surjection
<1> QED BY <1>1, <1>3, <1>7 DEF f

LEMMA Joined ==
  ASSUME NEW S, NEW s \in Seq(S), NEW t \in Seq(S)
  PROVE  /\ s \o t \in Seq(S) /\ Len(s \o t) = Len(s) + Len(t)
         /\ Len(s) \in Nat /\ Len(t) \in Nat
         /\ \A j \in 1..Len(s) : (s \o t)[j] = s[j]
         /\ \A j \in 1..Len(t) : (s \o t)[Len(s) + j] = t[j]
<1>1. s \o t \in Seq(S) /\ Len(s \o t) = Len(s) + Len(t) /\ Len(s) \in Nat /\ Len(t) \in Nat
  OBVIOUS
<1>2. \A j \in 1..(Len(s) + Len(t)) :
        (s \o t)[j] = IF j <= Len(s) THEN s[j] ELSE t[j - Len(s)]
  OBVIOUS
<1>3. ASSUME NEW j \in 1..Len(t) PROVE (s \o t)[Len(s) + j] = t[j]
  <2>1. Len(s) + j \in 1..(Len(s) + Len(t)) /\ ~(Len(s) + j <= Len(s)) /\ (Len(s) + j) - Len(s) = j
    BY <1>1
  <2> QED BY <1>2, <2>1
<1>4. ASSUME NEW j \in 1..Len(s) PROVE (s \o t)[j] = s[j]
  <2>1. j \in 1..(Len(s) + Len(t)) /\ j <= Len(s)
    BY <1>1
  <2> QED BY <1>2, <2>1
<1> QED BY <1>1, <1>3, <1>4

\* A piece of a sequence.
LEMMA Piece ==
  ASSUME NEW S, NEW s \in Seq(S), NEW a \in Nat \ {0}, NEW b \in Nat, b <= Len(s), a <= b + 1
  PROVE  /\ SubSeq(s, a, b) \in Seq(S) /\ Len(SubSeq(s, a, b)) = (b + 1) - a
         /\ \A j \in 1..((b + 1) - a) : SubSeq(s, a, b)[j] = s[(a - 1) + j]
<1>1. Len(s) \in Nat /\ \A j \in 1..Len(s) : s[j] \in S
  OBVIOUS
<1>2. SubSeq(s, a, b) = [j \in 1..((b - a) + 1) |-> s[(j + a) - 1]]
  OBVIOUS
<1>3. (b - a) + 1 = (b + 1) - a /\ (b + 1) - a \in Nat
  OBVIOUS
<1>4. \A j \in 1..((b + 1) - a) : (j + a) - 1 = (a - 1) + j /\ (a - 1) + j \in 1..Len(s)
  BY <1>1
<1>5. SubSeq(s, a, b) \in [1..((b + 1) - a) -> S]
  BY <1>1, <1>2, <1>3, <1>4
<1>6. SubSeq(s, a, b) \in Seq(S) /\ Len(SubSeq(s, a, b)) = (b + 1) - a
  BY <1>3, <1>5
<1>7. \A j \in 1..((b + 1) - a) : SubSeq(s, a, b)[j] = s[(a - 1) + j]
  BY <1>2, <1>3, <1>4
<1> QED BY <1>6, <1>7

LEMMA Widened ==
  ASSUME NEW S, NEW T, S \subseteq T, NEW s \in Seq(S)
  PROVE  s \in Seq(T)
<1>1. s \in [1..Len(s) -> S] /\ Len(s) \in Nat
  OBVIOUS
<1>2. s \in [1..Len(s) -> T]
  BY <1>1
<1> QED BY <1>1, <1>2

-----------------------------------------------------------------------------
(* What an event does to the NPCs.                                         *)

LEMMA Numbers ==
  ASSUME TypeOK
  PROVE  /\ MaxNPCs \in Nat /\ SoftLimit \in Nat /\ numNPCs \in Nat
         /\ Index \in SUBSET Nat /\ Alive \in SUBSET Index /\ Alive \in SUBSET Nat
         /\ Killed \in Seq(Nat) /\ Len(Killed) \in Nat
         /\ \A m \in 1..Len(Killed) : Killed[m] \in Index /\ Killed[m] \in Nat
<1>1. MaxNPCs \in Nat /\ SoftLimit \in Nat /\ numNPCs \in Nat /\ numNPCs <= MaxNPCs
  BY SizeAssumption DEF TypeOK
<1>2. Index \in SUBSET Nat /\ Alive \in SUBSET Index /\ Alive \in SUBSET Nat
  BY <1>1 DEF Index, Alive
<1>3. Killed \in Seq(Index)
  BY DEF TypeOK
<1>4. Killed \in Seq(Nat) /\ Len(Killed) \in Nat
  <2>1. Index \subseteq Nat
    BY <1>2
  <2>2. Killed \in Seq(Nat)
    BY <2>1, <1>3, Widened
  <2> QED BY <2>2
<1>5. \A m \in 1..Len(Killed) : Killed[m] \in Index /\ Killed[m] \in Nat
  <2>1. \A m \in 1..Len(Killed) : Killed[m] \in Index
    BY <1>3
  <2> QED BY <1>2, <2>1
<1> QED BY <1>1, <1>2, <1>4, <1>5

LEMMA EntriesOfNPCs ==
  ASSUME TypeOK, NEW S \in SUBSET Alive
  PROVE  SetToSeq(S) \in Seq(Index) /\ ToSet(SetToSeq(S)) = S
<1>1. IsFiniteSet(1..numNPCs)
  BY Numbers, Interval
<1>2. IsFiniteSet(S) /\ S \subseteq Index
  BY <1>1, Numbers, FS_Subset DEF Alive
<1> QED BY <1>2, EntriesAre, Widened

\* Deactivate keeps what an NPC is.
LEMMA DeactivatedIs ==
  ASSUME NEW n \in NPC_t
  PROVE  /\ Deactivated(n) \in NPC_t /\ Deactivated(n).id = n.id
         /\ Deactivated(n).Killed = n.spawned
  BY DEF Deactivated, NPC_t

\* New entries are put behind the queue.
Longer ==
  /\ Killed' \in Seq(Index) /\ Len(Killed) <= Len(Killed')
  /\ \A m \in 1..Len(Killed) : Killed'[m] = Killed[m]

LEMMA HideLayerDoes ==
  ASSUME TypeOK, NEW l \in Layers, HideLayer(l)
  PROVE  /\ npc' \in [Index -> NPC_t] /\ \A k \in Index : npc'[k].id = npc[k].id
         /\ \A k \in Alive : npc'[k].Killed =
              IF k \in InLayer(l) THEN npc[k].spawned ELSE npc[k].Killed
         /\ Killed' = Killed \o PushedBy(InLayer(l))
         /\ PushedBy(InLayer(l)) \in Seq(Index)
         /\ ToSet(PushedBy(InLayer(l))) = {k \in InLayer(l) : npc[k].spawned}
         /\ Hidden' \subseteq Layers
<1> DEFINE hid(k) == [npc[k] EXCEPT !.Hidden = TRUE]
<1>1. \A k \in Index : npc[k] \in NPC_t
  BY DEF TypeOK
<1>2. \A k \in Index : /\ hid(k) \in NPC_t /\ hid(k).id = npc[k].id
                       /\ hid(k).spawned = npc[k].spawned
  BY <1>1 DEF NPC_t
<1>3. \A k \in Index : /\ Deactivated(hid(k)) \in NPC_t
                       /\ Deactivated(hid(k)).id = npc[k].id
                       /\ Deactivated(hid(k)).Killed = npc[k].spawned
  BY <1>2, DeactivatedIs
<1>4. npc' = [k \in Index |-> IF k \in InLayer(l) THEN Deactivated(hid(k)) ELSE npc[k]]
  BY DEF HideLayer
<1> HIDE DEF hid
<1>5. \A k \in Index : npc'[k] = IF k \in InLayer(l) THEN Deactivated(hid(k)) ELSE npc[k]
  BY <1>4
<1>6. npc' \in [Index -> NPC_t]
  BY <1>1, <1>3, <1>4
<1>7. \A k \in Index : npc'[k].id = npc[k].id
  BY <1>3, <1>5
<1>8. \A k \in Alive : npc'[k].Killed =
        IF k \in InLayer(l) THEN npc[k].spawned ELSE npc[k].Killed
  BY <1>3, <1>5, Numbers
<1>9. {k \in InLayer(l) : npc[k].spawned} \in SUBSET Alive
  BY DEF InLayer
<1>10. /\ PushedBy(InLayer(l)) \in Seq(Index)
       /\ ToSet(PushedBy(InLayer(l))) = {k \in InLayer(l) : npc[k].spawned}
  BY <1>9, EntriesOfNPCs DEF PushedBy
<1> QED BY <1>6, <1>7, <1>8, <1>10 DEF HideLayer, TypeOK

LEMMA ShowLayerDoes ==
  ASSUME TypeOK, NEW l \in Layers, ShowLayer(l)
  PROVE  /\ npc' \in [Index -> NPC_t] /\ \A k \in Index : npc'[k].id = npc[k].id
         /\ Hidden' \subseteq Layers
<1> DEFINE shown(k) == [npc[k] EXCEPT !.Hidden = FALSE, !.Active = TRUE]
<1>1. \A k \in Index : npc[k] \in NPC_t
  BY DEF TypeOK
<1>2. \A k \in Index : shown(k) \in NPC_t /\ shown(k).id = npc[k].id
  BY <1>1 DEF NPC_t
<1>3. npc' = [k \in Index |-> IF k \in InLayer(l) THEN shown(k) ELSE npc[k]]
  BY DEF ShowLayer
<1> HIDE DEF shown
<1>4. \A k \in Index : npc'[k] = IF k \in InLayer(l) THEN shown(k) ELSE npc[k]
  BY <1>3
<1>5. npc' \in [Index -> NPC_t]
  BY <1>1, <1>2, <1>3
<1> QED BY <1>2, <1>4, <1>5 DEF ShowLayer, TypeOK

LEMMA EventDoes ==
  ASSUME TypeOK, Distinct, Owed, NEW l \in Layers \cup {NoLayer}, Event(l)
  PROVE  /\ npc' \in [Index -> NPC_t] /\ \A k \in Index : npc'[k].id = npc[k].id
         /\ Longer /\ Hidden' \subseteq Layers /\ doomed' \subseteq 1..ids
         /\ \A k \in Alive : npc[k].id \in doomed' =>
              /\ npc'[k].Killed
              /\ \/ npc[k].id \in doomed
                 \/ k < Killed[i] /\ \E m \in (Len(Killed) + 1)..Len(Killed') : Killed'[m] = k
<1>1. CASE l = NoLayer
  <2>1. UNCHANGED <<npc, Killed, Hidden, doomed>>
    BY <1>1 DEF Event
  <2>2. Killed' \in Seq(Index) /\ Len(Killed) <= Len(Killed')
    BY <2>1, Numbers DEF TypeOK
  <2> QED BY <2>1, <2>2 DEF TypeOK, Owed, Longer
<1>2. CASE l # NoLayer
  <2> DEFINE pushed == {k \in InLayer(l) : npc[k].spawned}
             e      == PushedBy(InLayer(l))
  <2>1. l \in Layers /\ HideLayer(l) /\ doomed' = (doomed \ Reset(l)) \cup NewlyDoomed(l)
    BY <1>2 DEF Event
  <2>2. /\ npc' \in [Index -> NPC_t] /\ \A k \in Index : npc'[k].id = npc[k].id
        /\ \A k \in Alive : npc'[k].Killed =
             IF k \in InLayer(l) THEN npc[k].spawned ELSE npc[k].Killed
        /\ Killed' = Killed \o e /\ e \in Seq(Index) /\ ToSet(e) = pushed
        /\ Hidden' \subseteq Layers
    BY <2>1, HideLayerDoes
  <2> HIDE DEF e
  <2>3. Killed \in Seq(Index)
    BY DEF TypeOK
  <2>4. /\ Killed' \in Seq(Index) /\ Len(Killed') = Len(Killed) + Len(e)
        /\ Len(Killed) \in Nat /\ Len(e) \in Nat
        /\ \A j \in 1..Len(Killed) : Killed'[j] = Killed[j]
        /\ \A j \in 1..Len(e) : Killed'[Len(Killed) + j] = e[j]
    BY <2>2, <2>3, Joined
  <2>5. Longer
    BY <2>4 DEF Longer
  <2>6. \A k \in Alive : npc[k].id \in Nat /\ npc[k].id \in 1..ids
    BY Numbers DEF TypeOK, NPC_t, Distinct
  <2>7. doomed' \subseteq 1..ids
    <3>1. NewlyDoomed(l) \subseteq 1..ids
      BY <2>6 DEF NewlyDoomed, InLayer
    <3> QED BY <2>1, <3>1 DEF TypeOK
  <2>8. ASSUME NEW k \in Alive, npc[k].id \in doomed'
        PROVE  /\ npc'[k].Killed
               /\ \/ npc[k].id \in doomed
                  \/ k < Killed[i] /\ \E m \in (Len(Killed) + 1)..Len(Killed') : Killed'[m] = k
    <3>1. CASE npc[k].id \in NewlyDoomed(l)
      <4>1. k \in pushed /\ k < Killed[i]
        BY <3>1 DEF NewlyDoomed, InLayer, Distinct
      <4>2. PICK j \in 1..Len(e) : e[j] = k
        BY <2>2, <4>1 DEF ToSet
      <4>3. Killed'[Len(Killed) + j] = k /\ Len(Killed) + j \in (Len(Killed) + 1)..Len(Killed')
        BY <2>4, <4>2
      <4>4. npc'[k].Killed
        BY <2>2, <4>1
      <4> QED BY <4>1, <4>3, <4>4
    <3>2. CASE npc[k].id \notin NewlyDoomed(l)
      <4>1. npc[k].id \in doomed /\ npc[k].id \notin Reset(l)
        BY <2>1, <2>8, <3>2
      <4>2. npc[k].Killed /\ (k \in InLayer(l) => npc[k].spawned)
        BY <4>1 DEF Owed, Reset, InLayer
      <4> QED BY <2>2, <4>1, <4>2
    <3> QED BY <3>1, <3>2
  <2> QED BY <2>2, <2>5, <2>7, <2>8
<1> QED BY <1>1, <1>2

\* What the script of an NPC hides.
LEMMA ScriptHides ==
  ASSUME TypeOK, NEW k \in Alive
  PROVE  npc[k].script.death \in Layers \cup {NoLayer} /\ npc[k].script.last \in Layers \cup {NoLayer}
<1>1. npc[k].script \in Scripts
  BY Numbers DEF TypeOK, NPC_t
<1> QED BY <1>1, ScriptsAssumption

\* A step in the middle of KillNPC(Killed[i]).
LEMMA EventStep ==
  ASSUME KillInv, pc # "frame", pc # "paused", i <= KilledQueue_check, Killed[i] \in Alive,
         NEW l \in Layers \cup {NoLayer}, Event(l), pc' \in InKillNPC, A' = Killed[i],
         UNCHANGED <<numNPCs, StandingOnNPC, menu_or_battle, i, KilledQueue_check,
                     KilledQueue_known, interrupt, ids, frames>>
  PROVE  KillInv'
<1> USE DEF KillInv
<1>1. At = i /\ Check = KilledQueue_check /\ Known = KilledQueue_known
  BY DEF At, Check, Known
<1>2. At' = i /\ Check' = KilledQueue_check /\ Known' = KilledQueue_known
  BY DEF At, Check, Known, InKillNPC
<1>3. /\ i \in 1..KilledQueue_check /\ KilledQueue_check <= KilledQueue_known
      /\ KilledQueue_known <= Len(Killed)
      /\ KilledQueue_check \in Nat /\ KilledQueue_known \in Nat /\ Len(Killed) \in Nat
  BY <1>1, Numbers DEF Place, TypeOK
<1>4. /\ npc' \in [Index -> NPC_t] /\ \A k \in Index : npc'[k].id = npc[k].id
      /\ Longer /\ Hidden' \subseteq Layers /\ doomed' \subseteq 1..ids
      /\ \A k \in Alive : npc[k].id \in doomed' =>
           /\ npc'[k].Killed
           /\ \/ npc[k].id \in doomed
              \/ k < Killed[i] /\ \E m \in (Len(Killed) + 1)..Len(Killed') : Killed'[m] = k
  BY EventDoes
<1>5. /\ Killed' \in Seq(Index) /\ Len(Killed') \in Nat /\ Len(Killed) <= Len(Killed')
      /\ \A m \in 1..Len(Killed) : Killed'[m] = Killed[m]
  <2>1. Killed' \in Seq(Index)
    BY <1>4 DEF Longer
  <2>2. Len(Killed') \in Nat
    BY <2>1
  <2> QED BY <1>4, <2>2 DEF Longer
<1>6. Alive' = Alive
  BY DEF Alive
<1>7. Killed'[i] = Killed[i] /\ Dying' = Killed[i] /\ Killing'
  BY <1>2, <1>3, <1>5 DEF Dying, Killing
<1>8. TypeOK'
  <2>1. A' \in Nat /\ pc' \in {"frame", "loop"} \cup InKillNPC \cup {"paused"}
    BY Numbers
  <2> QED BY <1>4, <1>5, <1>6, <2>1 DEF TypeOK
<1>9. Distinct'
  BY <1>4, <1>6, Numbers DEF Distinct
<1>10. Place'
  BY <1>2, <1>3, <1>5, <1>6, <1>7 DEF Place
<1>11. InOrder'
  <2>1. \A m \in i..KilledQueue_check : m \in 1..Len(Killed)
    BY <1>3
  <2>2. \A m, p \in i..KilledQueue_check : m < p => Killed[m] >= Killed[p]
    BY <1>1 DEF InOrder
  <2> QED BY <1>2, <1>5, <2>1, <2>2 DEF InOrder
<1>12. Owed'
  <2>1. pc' # "frame"
    BY DEF InKillNPC
  <2>2. ASSUME NEW k \in Alive, npc[k].id \in doomed'
        PROVE  \/ \E m \in i..KilledQueue_check : Killed'[m] = k
               \/ k < Killed[i] /\ \E m \in (KilledQueue_known + 1)..Len(Killed') : Killed'[m] = k
    <3>1. CASE npc[k].id \in doomed
      <4>1. CASE \E m \in i..KilledQueue_check : Killed[m] = k
        BY <1>3, <1>5, <4>1
      <4>2. CASE k < Killed[i] /\ \E m \in (KilledQueue_known + 1)..Len(Killed) : Killed[m] = k
        <5>1. PICK m \in (KilledQueue_known + 1)..Len(Killed) : Killed[m] = k
          BY <4>2
        <5>2. m \in 1..Len(Killed) /\ m \in (KilledQueue_known + 1)..Len(Killed')
          BY <1>3, <1>5
        <5> QED BY <1>5, <4>2, <5>1, <5>2
      <4> QED BY <1>1, <3>1, <4>1, <4>2 DEF Owed, Dying
    <3>2. CASE k < Killed[i] /\ \E m \in (Len(Killed) + 1)..Len(Killed') : Killed'[m] = k
      <4>1. PICK m \in (Len(Killed) + 1)..Len(Killed') : Killed'[m] = k
        BY <3>2
      <4>2. m \in (KilledQueue_known + 1)..Len(Killed')
        BY <1>3, <1>5
      <4> QED BY <3>2, <4>1, <4>2
    <3> QED BY <1>4, <2>2, <3>1, <3>2
  <2>3. \A k \in Alive : npc'[k].id = npc[k].id
    BY <1>4, Numbers
  <2> QED BY <1>2, <1>4, <1>6, <1>7, <2>1, <2>2, <2>3 DEF Owed
<1> QED BY <1>8, <1>9, <1>10, <1>11, <1>12

-----------------------------------------------------------------------------
(* The steps outside the kill loop.                                        *)

\* Between frames the invariant is about the NPCs alone.
LEMMA FrameStep ==
  ASSUME KillInv, InFrame, TypeOK', Distinct'
  PROVE  KillInv'
<1>1. pc = "frame" /\ pc' = "frame" /\ doomed' = doomed
  BY DEF InFrame
<1>2. Place' /\ InOrder'
  BY <1>1 DEF Place, InOrder, Killing, InKillNPC
<1>3. Owed'
  BY <1>1 DEF KillInv, Owed
<1> QED BY <1>2, <1>3 DEF KillInv

LEMMA FrameTypes ==
  ASSUME TypeOK, InFrame, npc' \in [Index -> NPC_t], numNPCs' = numNPCs, ids' = ids,
         Killed' \in Seq(Index), Hidden' \subseteq Layers, StandingOnNPC' \in {0} \cup Alive,
         \A k \in Alive : npc'[k].id = npc[k].id, Distinct
  PROVE  TypeOK' /\ Distinct'
<1>1. Alive' = Alive
  BY DEF Alive
<1>2. TypeOK'
  BY <1>1 DEF TypeOK, InFrame, locals
<1>3. Distinct'
  BY <1>1 DEF Distinct
<1> QED BY <1>2, <1>3

LEMMA MarkStep ==
  ASSUME KillInv, Mark
  PROVE  KillInv'
<1> USE DEF KillInv
<1>1. InFrame
  BY DEF Mark
<1>2. PICK k \in Alive : /\ npc' = [npc EXCEPT ![k].Killed = TRUE]
                         /\ Killed' = Append(Killed, k)
  BY DEF Mark
<1>3. k \in Index /\ npc \in [Index -> NPC_t]
  BY Numbers DEF TypeOK
<1>4. [npc[k] EXCEPT !.Killed = TRUE] \in NPC_t /\ [npc[k] EXCEPT !.Killed = TRUE].id = npc[k].id
  BY <1>3 DEF NPC_t
<1>5. npc' \in [Index -> NPC_t] /\ \A m \in Alive : npc'[m].id = npc[m].id
  BY <1>2, <1>3, <1>4, Numbers
<1>6. Killed' \in Seq(Index)
  BY <1>2, <1>3 DEF TypeOK
<1> QED BY <1>1, <1>5, <1>6, FrameTypes, FrameStep DEF Mark, TypeOK

LEMMA NewIs ==
  ASSUME TypeOK, NEW l \in Layers \cup {NoLayer}, NEW s \in Scripts
  PROVE  New(l, s) \in NPC_t /\ New(l, s).id = ids + 1
  BY DEF New, NPC_t, TypeOK

LEMMA SpawnStep ==
  ASSUME KillInv, Spawn
  PROVE  KillInv'
<1> USE DEF KillInv
<1>1. InFrame /\ numNPCs < MaxNPCs /\ numNPCs' = numNPCs + 1 /\ ids' = ids + 1
      /\ UNCHANGED <<Killed, Hidden, StandingOnNPC>>
  BY DEF Spawn
<1>2. PICK l \in Layers, s \in Scripts : npc' = [npc EXCEPT ![numNPCs + 1] = New(l, s)]
  BY DEF Spawn
<1>3. New(l, s) \in NPC_t /\ New(l, s).id = ids + 1
  BY NewIs
<1>4. numNPCs + 1 \in Index /\ Alive' = Alive \cup {numNPCs + 1} /\ numNPCs + 1 \notin Alive
  BY <1>1, Numbers DEF Index, Alive
<1>5. /\ npc' \in [Index -> NPC_t] /\ \A k \in Alive : npc'[k] = npc[k]
      /\ npc'[numNPCs + 1].id = ids + 1
  BY <1>2, <1>3, <1>4, Numbers DEF TypeOK
<1>6. ids \in Nat /\ ids + 1 \in Nat /\ (1..ids) \subseteq (1..(ids + 1)) /\ ids + 1 \notin 1..ids
  BY DEF TypeOK
<1>7. TypeOK'
  <2>1. numNPCs' \in 0..MaxNPCs
    BY <1>1, Numbers
  <2>2. StandingOnNPC' \in {0} \cup Alive'
    BY <1>1, <1>4 DEF TypeOK
  <2> QED BY <1>1, <1>5, <1>6, <2>1, <2>2 DEF TypeOK, InFrame, locals
<1>8. Distinct'
  <2>1. \A k \in Alive' : npc'[k].id \in 1..(ids + 1)
    BY <1>4, <1>5, <1>6 DEF Distinct
  <2>2. ASSUME NEW k \in Alive', NEW m \in Alive', npc'[k].id = npc'[m].id
        PROVE  k = m
    BY <1>4, <1>5, <1>6, <2>2 DEF Distinct
  <2> QED BY <1>1, <2>1, <2>2 DEF Distinct
<1> QED BY <1>1, <1>7, <1>8, FrameStep

LEMMA LayerSteps ==
  ASSUME KillInv, HideByEvent \/ ShowByEvent
  PROVE  KillInv'
<1> USE DEF KillInv
<1>1. CASE HideByEvent
  <2>1. PICK l \in Layers : HideLayer(l)
    BY <1>1 DEF HideByEvent
  <2>2. /\ npc' \in [Index -> NPC_t] /\ \A k \in Index : npc'[k].id = npc[k].id
        /\ Killed' = Killed \o PushedBy(InLayer(l)) /\ PushedBy(InLayer(l)) \in Seq(Index)
        /\ Hidden' \subseteq Layers
    BY <2>1, HideLayerDoes
  <2>3. Killed' \in Seq(Index)
    BY <2>2, Joined DEF TypeOK
  <2> QED BY <1>1, <2>2, <2>3, FrameTypes, FrameStep, Numbers DEF HideByEvent, TypeOK
<1>2. CASE ShowByEvent
  <2>1. PICK l \in Layers : ShowLayer(l)
    BY <1>2 DEF ShowByEvent, TypeOK
  <2>2. /\ npc' \in [Index -> NPC_t] /\ \A k \in Index : npc'[k].id = npc[k].id
        /\ Hidden' \subseteq Layers
    BY <2>1, ShowLayerDoes
  <2> QED BY <1>2, <2>2, FrameTypes, FrameStep, Numbers DEF ShowByEvent, TypeOK
<1> QED BY <1>1, <1>2

LEMMA StandStep ==
  ASSUME KillInv, Stand
  PROVE  KillInv'
  BY FrameTypes, FrameStep DEF KillInv, Stand, array, TypeOK

\* The loop starts on a queue in order, with an entry of each that is doomed.
LEMMA UpdateNPCsStep ==
  ASSUME KillInv, UpdateNPCs
  PROVE  KillInv'
<1> USE DEF KillInv
<1>1. PICK FreezeNPCs \in BOOLEAN :
       LET behind == {k \in Alive : ~FreezeNPCs /\ k > SoftLimit}
           hidden == {k \in Alive : ~FreezeNPCs /\ npc[k].Hidden /\ npc[k].Active}
           queue  == Descending(Killed \o SetToSeq(behind) \o PushedBy(hidden))
       IN /\ npc' = [k \in Index |->
                       IF k \in hidden THEN Deactivated(npc[k])
                       ELSE IF k \in behind THEN [npc[k] EXCEPT !.Killed = TRUE] ELSE npc[k]]
          /\ Killed' = queue
          /\ LocalsAre(<<1, Len(queue), Len(queue), 0>>)
          /\ doomed' = {npc'[k].id : k \in {j \in ToSet(queue) \cap Alive : npc'[j].Killed}}
  BY DEF UpdateNPCs
<1> DEFINE behind == {k \in Alive : ~FreezeNPCs /\ k > SoftLimit}
           hidden == {k \in Alive : ~FreezeNPCs /\ npc[k].Hidden /\ npc[k].Active}
           added  == Killed \o SetToSeq(behind) \o PushedBy(hidden)
<1>2. added \in Seq(Index)
  <2>1. behind \in SUBSET Alive /\ {k \in hidden : npc[k].spawned} \in SUBSET Alive
    OBVIOUS
  <2>2. SetToSeq(behind) \in Seq(Index) /\ PushedBy(hidden) \in Seq(Index)
    BY <2>1, EntriesOfNPCs DEF PushedBy
  <2>3. Killed \in Seq(Index)
    BY DEF TypeOK
  <2> HIDE DEF behind, hidden
  <2>4. Killed \o SetToSeq(behind) \in Seq(Index)
    BY <2>2, <2>3, Joined
  <2> QED BY <2>2, <2>4, Joined
<1>3. /\ npc' = [k \in Index |->
                   IF k \in hidden THEN Deactivated(npc[k])
                   ELSE IF k \in behind THEN [npc[k] EXCEPT !.Killed = TRUE] ELSE npc[k]]
      /\ Killed' = Descending(added)
      /\ i' = 1 /\ KilledQueue_check' = Len(Killed') /\ KilledQueue_known' = Len(Killed') /\ A' = 0
      /\ doomed' = {npc'[k].id : k \in {j \in ToSet(Killed') \cap Alive : npc'[j].Killed}}
  BY <1>1 DEF LocalsAre
<1>4. /\ pc' = "loop" /\ frames' = frames + 1
      /\ UNCHANGED <<numNPCs, Hidden, StandingOnNPC, menu_or_battle, interrupt, ids>>
  BY DEF UpdateNPCs
<1> HIDE DEF added
<1>5. /\ Killed' \in Seq(Index) /\ Len(Killed') \in Nat
      /\ \A m, p \in 1..Len(Killed') : m < p => Killed'[m] >= Killed'[p]
  <2>1. Index \in SUBSET Nat
    BY Numbers
  <2>2. /\ Descending(added) \in Seq(Index) /\ Len(Descending(added)) = Len(added)
        /\ \A m, p \in 1..Len(Descending(added)) :
             m < p => Descending(added)[m] >= Descending(added)[p]
    BY <1>2, <2>1, DescendingIs
  <2>3. Len(added) \in Nat
    BY <1>2
  <2> QED BY <1>3, <2>2, <2>3
<1>6. npc' \in [Index -> NPC_t] /\ \A k \in Index : npc'[k].id = npc[k].id
  <2>1. \A k \in Index : npc[k] \in NPC_t
    BY DEF TypeOK
  <2>2. \A k \in Index : /\ [npc[k] EXCEPT !.Killed = TRUE] \in NPC_t
                         /\ [npc[k] EXCEPT !.Killed = TRUE].id = npc[k].id
    BY <2>1 DEF NPC_t
  <2>3. \A k \in Index : Deactivated(npc[k]) \in NPC_t /\ Deactivated(npc[k]).id = npc[k].id
    BY <2>1, DeactivatedIs
  <2> QED BY <1>3, <2>1, <2>2, <2>3
<1>7. Alive' = Alive /\ ~Killing' /\ At' = 1 /\ Check' = Len(Killed') /\ Known' = Len(Killed')
  BY <1>3, <1>4 DEF Alive, Killing, InKillNPC, At, Check, Known
<1>8. \A k \in Alive : npc'[k].id = npc[k].id /\ npc'[k].id \in Nat
  BY <1>6, Numbers DEF NPC_t
<1>9. TypeOK'
  <2>1. doomed' \subseteq 1..ids
    <3>1. \A k \in Alive : npc'[k].id \in 1..ids
      BY <1>8 DEF Distinct
    <3> QED BY <1>3, <3>1
  <2>2. /\ i' \in Nat /\ KilledQueue_check' \in Nat /\ KilledQueue_known' \in Nat /\ A' \in Nat
        /\ frames' \in Nat /\ pc' \in {"frame", "loop"} \cup InKillNPC \cup {"paused"}
    BY <1>3, <1>4, <1>5 DEF TypeOK
  <2> QED BY <1>4, <1>5, <1>6, <1>7, <2>1, <2>2 DEF TypeOK
<1>10. Distinct'
  BY <1>4, <1>7, <1>8 DEF Distinct
<1>11. Place' /\ InOrder'
  BY <1>4, <1>5, <1>7 DEF Place, InOrder, InKillNPC
<1>12. Owed'
  <2>1. ASSUME NEW k \in Alive, npc'[k].id \in doomed'
        PROVE  npc'[k].Killed /\ \E m \in 1..Len(Killed') : Killed'[m] = k
    <3> DEFINE marked == {j \in ToSet(Killed') \cap Alive : npc'[j].Killed}
    <3>0. doomed' = {npc'[j].id : j \in marked}
      BY <1>3
    <3>1. PICK j \in marked : npc'[j].id = npc'[k].id
      <4> HIDE DEF marked
      <4> QED BY <3>0, <2>1
    <3>2. j = k
      BY <1>8, <3>1 DEF Distinct
    <3> QED BY <1>5, <3>1, <3>2 DEF ToSet
  <2> QED BY <1>4, <1>7, <2>1 DEF Owed
<1> QED BY <1>9, <1>10, <1>11, <1>12

-----------------------------------------------------------------------------
(* The kill loop.                                                          *)

\* Where the loop is, as numbers.
LEMMA PlaceIs ==
  ASSUME KillInv, pc # "frame"
  PROVE  /\ At \in Nat \ {0} /\ Check \in Nat /\ Known \in Nat /\ At <= Check + 1
         /\ Check <= Known /\ Known <= Len(Killed) /\ Len(Killed) \in Nat
         /\ \A m \in At..Check : m \in 1..Len(Killed)
<1>1. At \in Nat /\ Check \in Nat /\ Known \in Nat /\ Len(Killed) \in Nat
  BY Numbers DEF KillInv, TypeOK, At, Check, Known
<1>2. At >= 1 /\ At <= Check + 1 /\ Check <= Known /\ Known <= Len(Killed)
  BY DEF KillInv, Place
<1> QED BY <1>1, <1>2

LEMMA PassStep ==
  ASSUME KillInv, Pass
  PROVE  KillInv'
<1> USE DEF KillInv
<1>1. /\ pc = "loop" /\ i <= KilledQueue_check /\ ~(Killed[i] <= numNPCs /\ npc[Killed[i]].Killed)
      /\ i' = i + 1
      /\ UNCHANGED <<npc, numNPCs, Killed, Hidden, StandingOnNPC, menu_or_battle, pc,
                     KilledQueue_check, KilledQueue_known, A, interrupt, ids, frames, doomed>>
  BY DEF Pass, InLoop, ToKill, array, bounds
<1>2. /\ At = i /\ Check = KilledQueue_check /\ Known = KilledQueue_known /\ ~Killing
      /\ At' = i + 1 /\ Check' = Check /\ Known' = Known /\ ~Killing'
      /\ Alive' = Alive
  BY <1>1 DEF At, Check, Known, Killing, InKillNPC, Alive
<1>3. i \in Nat \ {0} /\ Check \in Nat /\ Known \in Nat
  BY <1>1, <1>2, PlaceIs
<1>4. TypeOK'
  BY <1>1, <1>2, <1>3 DEF TypeOK
<1>5. Distinct'
  BY <1>1, <1>2 DEF Distinct
<1>6. Place'
  BY <1>1, <1>2, <1>3 DEF Place, InKillNPC
<1>7. InOrder'
  BY <1>1, <1>2, <1>3 DEF InOrder
<1>8. Owed'
  <2>1. ASSUME NEW k \in Alive, npc[k].id \in doomed
        PROVE  npc[k].Killed /\ \E m \in (i + 1)..Check : Killed[m] = k
    <3>1. npc[k].Killed
      BY <2>1 DEF Owed
    <3>2. PICK m \in i..Check : Killed[m] = k
      BY <1>2, <2>1 DEF Owed
    <3>3. m # i
      BY <1>1, <3>1, <3>2, Numbers DEF Alive
    <3>4. m \in (i + 1)..Check
      BY <1>3, <3>2, <3>3
    <3> QED BY <3>1, <3>2, <3>4
  <2> QED BY <1>1, <1>2, <2>1 DEF Owed
<1> QED BY <1>4, <1>5, <1>6, <1>7, <1>8

LEMMA KillNPCStep ==
  ASSUME KillInv, KillNPC
  PROVE  KillInv'
<1>1. /\ pc = "loop" /\ i <= KilledQueue_check /\ Killed[i] <= numNPCs /\ A' = Killed[i]
      /\ Event(npc[A'].script.death) /\ pc' = "death"
      /\ UNCHANGED <<numNPCs, StandingOnNPC, menu_or_battle, i, KilledQueue_check,
                     KilledQueue_known, interrupt, ids, frames>>
  BY DEF KillNPC, InLoop, ToKill, bounds
<1>2. At = i /\ Check = KilledQueue_check
  BY <1>1 DEF At, Check
<1>3. Killed[i] \in Alive
  <2>1. i \in 1..Len(Killed)
    BY <1>1, <1>2, PlaceIs
  <2> QED BY <1>1, <2>1, Numbers DEF Alive, Index, KillInv
<1>4. npc[A'].script.death \in Layers \cup {NoLayer}
  BY <1>1, <1>3, ScriptHides DEF KillInv
<1> QED BY <1>1, <1>3, <1>4, EventStep DEF InKillNPC

LEMMA LastEventStep ==
  ASSUME KillInv, LastEvent
  PROVE  KillInv'
<1>1. /\ pc \in {"death", "death_resumed"} /\ pc' = "last"
      /\ UNCHANGED <<numNPCs, StandingOnNPC, menu_or_battle, i, KilledQueue_check,
                     KilledQueue_known, A, interrupt, ids, frames>>
  BY DEF LastEvent, locals, bounds
<1>2. Killing /\ At = i /\ Check = KilledQueue_check /\ Dying = Killed[i]
  BY <1>1 DEF At, Check, Killing, Dying, InKillNPC
<1>3. i <= KilledQueue_check /\ Killed[i] \in Alive /\ A = Killed[i]
  BY <1>1, <1>2 DEF KillInv, Place, InKillNPC
<1>4. npc[A].script.last \in Layers \cup {NoLayer}
  BY <1>3, ScriptHides DEF KillInv
<1>5. PICK l \in Layers \cup {NoLayer} : Event(l)
  <2>1. CASE LastInLayer
    BY <1>4, <2>1 DEF LastEvent
  <2>2. CASE ~LastInLayer
    <3>1. Event(NoLayer)
      BY <2>2 DEF LastEvent, Event
    <3> QED BY <3>1
  <2> QED BY <2>1, <2>2
<1>6. pc # "frame" /\ pc # "paused" /\ pc' \in InKillNPC /\ A' = Killed[i]
  BY <1>1, <1>3 DEF InKillNPC
<1> QED BY <1>1, <1>3, <1>5, <1>6, EventStep

\* A message saves where the loop is, and gives it back.
LEMMA SamePlace ==
  ASSUME KillInv, TypeOK', pc # "frame", pc' # "frame", At' = At, Check' = Check, Known' = Known,
         Killing' = Killing, pc' \in InKillNPC => A' = Dying,
         UNCHANGED <<npc, numNPCs, Killed, ids, doomed>>
  PROVE  KillInv'
<1>1. Alive' = Alive /\ Dying' = Dying
  BY DEF Alive, Dying
<1>2. Distinct'
  BY <1>1 DEF KillInv, Distinct
<1>3. Place'
  BY <1>1 DEF KillInv, Place
<1>4. InOrder'
  BY <1>1 DEF KillInv, InOrder
<1>5. Owed'
  BY <1>1 DEF KillInv, Owed
<1> QED BY <1>2, <1>3, <1>4, <1>5 DEF KillInv

LEMMA PauseStep ==
  ASSUME KillInv, Pause
  PROVE  KillInv'
<1>1. /\ pc \in {"death", "last"} /\ pc' = "paused"
      /\ interrupt' = [site |-> pc, A |-> i, E |-> KilledQueue_check, F |-> KilledQueue_known]
      /\ i' = 0 /\ KilledQueue_check' = 0 /\ KilledQueue_known' = 0 /\ A' = 0
      /\ UNCHANGED <<npc, numNPCs, Killed, Hidden, StandingOnNPC, menu_or_battle, ids, frames, doomed>>
  BY DEF Pause, LocalsAre, NoLocals, array, bounds
<1>2. TypeOK'
  <2>1. interrupt' \in [site : {"None", "death", "last"}, A : Nat, E : Nat, F : Nat]
    BY <1>1 DEF KillInv, TypeOK
  <2>2. Alive' = Alive
    BY <1>1 DEF Alive
  <2> QED BY <1>1, <2>1, <2>2 DEF KillInv, TypeOK
<1>3. At' = At /\ Check' = Check /\ Known' = Known /\ Killing' = Killing
  BY <1>1 DEF At, Check, Known, Killing, InKillNPC
<1> QED BY <1>1, <1>2, <1>3, SamePlace DEF InKillNPC

LEMMA ResumeStep ==
  ASSUME KillInv, Resume
  PROVE  KillInv'
<1>1. /\ pc = "paused" /\ pc' \in {"death_resumed", "last_resumed"}
      /\ i' = interrupt.A /\ KilledQueue_check' = interrupt.E /\ KilledQueue_known' = interrupt.F
      /\ A' = Killed[interrupt.A] /\ interrupt' = NoInterrupt
      /\ UNCHANGED <<npc, numNPCs, Killed, Hidden, StandingOnNPC, menu_or_battle, ids, frames, doomed>>
  BY DEF Resume, LocalsAre, array, bounds
<1>2. At = interrupt.A /\ Check = interrupt.E /\ Known = interrupt.F /\ Dying = Killed[interrupt.A]
      /\ Killing
  BY <1>1 DEF At, Check, Known, Dying, Killing
<1>3. At' = At /\ Check' = Check /\ Known' = Known /\ Killing' /\ A' = Dying
  BY <1>1, <1>2 DEF At, Check, Known, Killing, InKillNPC
<1>4. TypeOK'
  <2>1. A' \in Nat
    BY <1>1, <1>2, <1>3, Numbers DEF KillInv, Place
  <2>2. i' \in Nat /\ KilledQueue_check' \in Nat /\ KilledQueue_known' \in Nat
    BY <1>1 DEF KillInv, TypeOK
  <2>3. interrupt' \in [site : {"None", "death", "last"}, A : Nat, E : Nat, F : Nat]
    BY <1>1 DEF NoInterrupt
  <2>4. Alive' = Alive
    BY <1>1 DEF Alive
  <2> QED BY <1>1, <2>1, <2>2, <2>3, <2>4 DEF KillInv, TypeOK, InKillNPC
<1> QED BY <1>1, <1>2, <1>3, <1>4, SamePlace

LEMMA EndLoopStep ==
  ASSUME KillInv, EndLoop
  PROVE  KillInv'
<1>1. /\ pc = "loop" /\ pc' = "frame" /\ doomed' = {}
      /\ Killed' = SubSeq(Killed, KilledQueue_check + 1, Len(Killed))
      /\ i' = 0 /\ KilledQueue_check' = 0 /\ KilledQueue_known' = 0 /\ A' = 0
      /\ UNCHANGED <<npc, numNPCs, Hidden, StandingOnNPC, menu_or_battle, interrupt, ids, frames>>
  BY DEF EndLoop, LocalsAre, NoLocals, array, bounds
<1>2. KilledQueue_check \in Nat /\ KilledQueue_check <= Len(Killed) /\ Len(Killed) \in Nat
  BY <1>1, PlaceIs DEF Check
<1>3. Killed' \in Seq(Index)
  <2>1. KilledQueue_check + 1 \in Nat \ {0} /\ KilledQueue_check + 1 <= Len(Killed) + 1
    BY <1>2
  <2>2. Killed \in Seq(Index)
    BY DEF KillInv, TypeOK
  <2> QED BY <1>1, <1>2, <2>1, <2>2, Piece
<1>4. Alive' = Alive
  BY <1>1 DEF Alive
<1>5. TypeOK'
  BY <1>1, <1>3, <1>4 DEF KillInv, TypeOK
<1>6. Distinct'
  BY <1>1, <1>4 DEF KillInv, Distinct
<1> QED BY <1>1, <1>5, <1>6 DEF KillInv, Place, InOrder, Owed, Killing, InKillNPC

\* What Update makes of the queue q in which the entry i has been dealt with: what
\* was to be checked still is, in order, and so are the new ones before A.
LEMMA UpdateDoes ==
  ASSUME TypeOK, NEW q \in Seq(Index), Update(q), A \in Nat,
         i \in 1..KilledQueue_check, KilledQueue_check <= KilledQueue_known,
         KilledQueue_known <= Len(q),
         \A m, p \in i..KilledQueue_check : m < p => q[m] >= q[p]
  PROVE  /\ Killed' \in Seq(Index) /\ KilledQueue_check' \in Nat /\ KilledQueue_known' \in Nat
         /\ i <= KilledQueue_check' /\ KilledQueue_check' <= KilledQueue_known'
         /\ KilledQueue_known' <= Len(Killed')
         /\ \A m, p \in (i + 1)..KilledQueue_check' : m < p => Killed'[m] >= Killed'[p]
         /\ \A m \in (i + 1)..KilledQueue_check :
              \E r \in (i + 1)..KilledQueue_check' : Killed'[r] = q[m]
         /\ \A m \in (KilledQueue_known + 1)..Len(q) : q[m] < A /\ q[m] <= numNPCs' =>
              \E r \in (i + 1)..KilledQueue_check' : Killed'[r] = q[m]
<1> DEFINE check  == KilledQueue_check
           known  == KilledQueue_known
           new    == SubSeq(q, known + 1, Len(q))
           rest   == SubSeq(q, check + 1, Len(q))
           tail   == Descending(rest)
           bigger == Cardinality(AtLeast(tail, A))
           after  == SubSeq(tail, 1, bigger)
           before == SubSeq(tail, bigger + 1, Len(tail))
           left   == SubSeq(q, i + 1, check)
           mid    == Descending(left \o before)
           done   == SubSeq(q, 1, i)
<1>1. /\ i \in Nat \ {0} /\ check \in Nat /\ known \in Nat /\ Len(q) \in Nat
      /\ i <= check /\ check <= known /\ known <= Len(q)
      /\ Index \in SUBSET Nat /\ \A m \in 1..Len(q) : q[m] \in Index /\ q[m] \in Nat
  <2>1. check \in Nat /\ known \in Nat
    BY DEF TypeOK
  <2>2. Index \in SUBSET Nat
    BY Numbers
  <2>3. Len(q) \in Nat /\ \A m \in 1..Len(q) : q[m] \in Index
    OBVIOUS
  <2>4. \A m \in 1..Len(q) : q[m] \in Index /\ q[m] \in Nat
    BY <2>2, <2>3
  <2>5. i \in Nat \ {0} /\ i <= check /\ check <= known /\ known <= Len(q)
    BY <2>1
  <2> QED BY <2>1, <2>2, <2>3, <2>4, <2>5
<1>2. /\ new \in Seq(Index) /\ Len(new) = Len(q) - known
      /\ \A j \in 1..(Len(q) - known) : new[j] = q[known + j]
  <2>1. known + 1 \in Nat \ {0} /\ known + 1 <= Len(q) + 1 /\ (Len(q) + 1) - (known + 1) = Len(q) - known
        /\ (known + 1) - 1 = known
    BY <1>1
  <2>2. /\ SubSeq(q, known + 1, Len(q)) \in Seq(Index)
        /\ Len(SubSeq(q, known + 1, Len(q))) = (Len(q) + 1) - (known + 1)
        /\ \A j \in 1..((Len(q) + 1) - (known + 1)) :
             SubSeq(q, known + 1, Len(q))[j] = q[((known + 1) - 1) + j]
    <3>1. Len(q) \in Nat /\ Len(q) <= Len(q)
      BY <1>1
    <3> HIDE DEF known
    <3> QED BY <2>1, <3>1, Piece
  <2> QED BY <2>1, <2>2
<1>3. IF RealNew(new)
      THEN /\ KilledQueue_known' = Len(q)
           /\ KilledQueue_check' = check + Len(before)
           /\ Killed' = (done \o mid) \o after
      ELSE /\ Killed' = SubSeq(q, 1, known)
           /\ KilledQueue_check' = check /\ KilledQueue_known' = known
  BY DEF Update, Sorted
<1>4. CASE ~RealNew(new)
  <2>1. Killed' = SubSeq(q, 1, known) /\ KilledQueue_check' = check /\ KilledQueue_known' = known
    BY <1>3, <1>4
  <2>2. /\ Killed' \in Seq(Index) /\ Len(Killed') = known
        /\ \A j \in 1..known : Killed'[j] = q[j]
    <3>1. (known + 1) - 1 = known /\ 1 <= known + 1 /\ \A j \in 1..known : (1 - 1) + j = j
      BY <1>1
    <3> QED BY <1>1, <2>1, <3>1, Piece
  <2>3. \A m \in (i + 1)..check : m \in 1..known /\ m \in i..check
    BY <1>1
  <2>4. ASSUME NEW m \in (known + 1)..Len(q), q[m] < A, q[m] <= numNPCs'
        PROVE  FALSE
    <3>1. m - known \in 1..(Len(q) - known) /\ known + (m - known) = m /\ m \in 1..Len(q)
      BY <1>1
    <3>2. new[m - known] = q[m] /\ m - known \in DOMAIN new
      BY <1>1, <1>2, <3>1
    <3>3. q[m] \in ToSet(new)
      BY <3>2 DEF ToSet
    <3>4. q[m] # A
      BY <1>1, <2>4, <3>1
    <3> QED BY <1>4, <2>4, <3>3, <3>4 DEF RealNew
  <2>5. \A m \in (i + 1)..check : Killed'[m] = q[m]
    BY <2>2, <2>3
  <2> HIDE DEF check, known
  <2>6. \A m, p \in (i + 1)..check : m < p => Killed'[m] >= Killed'[p]
    BY <2>3, <2>5 DEF check
  <2>7. known <= Len(Killed')
    BY <1>1, <2>2
  <2> QED BY <1>1, <2>1, <2>2, <2>4, <2>5, <2>6, <2>7 DEF check, known
<1>5. CASE RealNew(new)
  <2>1. /\ KilledQueue_known' = Len(q)
        /\ KilledQueue_check' = check + Len(before)
        /\ Killed' = (done \o mid) \o after
    BY <1>3, <1>5
  <2>2. /\ rest \in Seq(Index) /\ Len(rest) = Len(q) - check
        /\ \A j \in 1..(Len(q) - check) : rest[j] = q[check + j]
    <3>1. check + 1 \in Nat \ {0} /\ check + 1 <= Len(q) + 1 /\ (Len(q) + 1) - (check + 1) = Len(q) - check
          /\ (check + 1) - 1 = check
      BY <1>1
    <3>2. check + 1 \in Nat \ {0} /\ Len(q) \in Nat /\ Len(q) <= Len(q) /\ check + 1 <= Len(q) + 1
      BY <1>1
    <3>3. /\ rest \in Seq(Index) /\ Len(rest) = (Len(q) + 1) - (check + 1)
          /\ \A j \in 1..((Len(q) + 1) - (check + 1)) : rest[j] = q[((check + 1) - 1) + j]
      BY <3>2, Piece
    <3> HIDE DEF rest
    <3> QED BY <3>1, <3>3
  <2>3. /\ left \in Seq(Index) /\ Len(left) = check - i
        /\ \A j \in 1..(check - i) : left[j] = q[i + j]
    <3>1. i + 1 \in Nat \ {0} /\ i + 1 <= check + 1 /\ (check + 1) - (i + 1) = check - i
          /\ (i + 1) - 1 = i /\ check <= Len(q)
      BY <1>1
    <3> QED BY <1>1, <3>1, Piece
  <2>4. done \in Seq(Index) /\ Len(done) = i
    <3>1. (i + 1) - 1 = i /\ 1 <= i + 1 /\ i <= Len(q) /\ i \in Nat
      BY <1>1
    <3> QED BY <3>1, Piece
  <2> HIDE DEF rest, left, done
  <2>5. tail \in Seq(Index) /\ Len(tail) = Len(q) - check /\ Len(tail) \in Nat
        /\ ToSet(tail) = ToSet(rest) /\ tail \in Seq(Nat)
    <3>1. tail \in Seq(Index) /\ Len(tail) = Len(rest) /\ ToSet(tail) = ToSet(rest)
      BY <1>1, <2>2, DescendingIs
    <3>2. Index \subseteq Nat
      BY <1>1
    <3> HIDE DEF tail
    <3>3. tail \in Seq(Nat)
      BY <3>1, <3>2, Widened
    <3>4. Len(tail) = Len(q) - check /\ Len(tail) \in Nat
      BY <1>1, <2>2, <3>1
    <3> QED BY <3>1, <3>3, <3>4
  <2>6. bigger \in 0..Len(tail) /\ \A k \in 1..Len(tail) : k <= bigger <=> tail[k] >= A
    <3>1. Index \subseteq Nat
      BY <1>1
    <3>2. rest \in Seq(Nat)
      BY <2>2, <3>1, Widened
    <3> QED BY <3>2, DescendingSplits
  <2> HIDE DEF tail, bigger
  <2>7. /\ after \in Seq(Index) /\ Len(after) = bigger
        /\ before \in Seq(Index) /\ Len(before) = Len(tail) - bigger
        /\ \A j \in 1..(Len(tail) - bigger) : before[j] = tail[bigger + j]
    <3>1. bigger \in Nat /\ 1 <= bigger + 1 /\ bigger <= Len(tail) /\ (bigger + 1) - 1 = bigger
          /\ bigger + 1 \in Nat \ {0} /\ bigger + 1 <= Len(tail) + 1
          /\ (Len(tail) + 1) - (bigger + 1) = Len(tail) - bigger
      BY <2>5, <2>6
    <3>2. after \in Seq(Index) /\ Len(after) = bigger
      BY <2>5, <3>1, Piece
    <3>3. /\ before \in Seq(Index) /\ Len(before) = Len(tail) - bigger
          /\ \A j \in 1..(Len(tail) - bigger) : before[j] = tail[bigger + j]
      BY <2>5, <3>1, Piece
    <3> QED BY <3>2, <3>3
  <2> HIDE DEF after, before
  <2>8. /\ left \o before \in Seq(Index) /\ Len(left \o before) = (check - i) + Len(before)
        /\ Len(before) \in Nat
        /\ \A j \in 1..(check - i) : (left \o before)[j] = left[j]
        /\ \A j \in 1..Len(before) : (left \o before)[(check - i) + j] = before[j]
    <3>1. left \in Seq(Index) /\ before \in Seq(Index) /\ Len(left) = check - i
      BY <2>3, <2>7
    <3>2. /\ left \o before \in Seq(Index) /\ Len(left \o before) = Len(left) + Len(before)
          /\ Len(before) \in Nat
      BY <3>1, Joined
    <3>3. \A j \in 1..Len(left) : (left \o before)[j] = left[j]
      BY <3>1, Joined
    <3>4. \A j \in 1..Len(before) : (left \o before)[Len(left) + j] = before[j]
      BY <3>1, Joined
    <3> QED BY <3>1, <3>2, <3>3, <3>4
  <2>9. /\ mid \in Seq(Index) /\ Len(mid) = (check - i) + Len(before)
        /\ \A k, l \in 1..Len(mid) : k < l => mid[k] >= mid[l]
        /\ ToSet(mid) = ToSet(left \o before)
    <3>1. /\ mid \in Seq(Index) /\ Len(mid) = Len(left \o before)
          /\ \A k, l \in 1..Len(mid) : k < l => mid[k] >= mid[l]
          /\ ToSet(mid) = ToSet(left \o before)
      BY <1>1, <2>8, DescendingIs
    <3> HIDE DEF mid
    <3> QED BY <2>8, <3>1
  <2> HIDE DEF mid
  <2>10. /\ done \o mid \in Seq(Index) /\ Len(done \o mid) = i + Len(mid)
         /\ \A j \in 1..Len(mid) : (done \o mid)[i + j] = mid[j]
    <3>1. done \in Seq(Index) /\ mid \in Seq(Index)
      BY <2>4, <2>9
    <3>2. /\ done \o mid \in Seq(Index) /\ Len(done \o mid) = Len(done) + Len(mid)
          /\ \A j \in 1..Len(mid) : (done \o mid)[Len(done) + j] = mid[j]
      BY <3>1, Joined
    <3> QED BY <2>4, <3>2
  <2>11. /\ Killed' \in Seq(Index) /\ Len(Killed') = Len(done \o mid) + Len(after)
         /\ \A j \in 1..Len(done \o mid) : Killed'[j] = (done \o mid)[j]
    <3> DEFINE u == done \o mid
    <3>1. u \in Seq(Index) /\ after \in Seq(Index) /\ Killed' = u \o after
      BY <2>1, <2>7, <2>10
    <3> HIDE DEF u
    <3>2. /\ u \o after \in Seq(Index) /\ Len(u \o after) = Len(u) + Len(after)
          /\ \A j \in 1..Len(u) : (u \o after)[j] = u[j]
      BY <3>1, Joined
    <3>3. /\ Killed' \in Seq(Index) /\ Len(Killed') = Len(u) + Len(after)
          /\ \A j \in 1..Len(u) : Killed'[j] = u[j]
      BY <3>1, <3>2
    <3> QED BY <3>3 DEF u
  <2>12. /\ KilledQueue_check' = i + Len(mid) /\ Len(Killed') = Len(q) /\ Len(mid) \in Nat
         /\ KilledQueue_check' <= Len(q)
    <3>1. /\ KilledQueue_check' = check + Len(before) /\ Len(mid) = (check - i) + Len(before)
          /\ Len(Killed') = (i + Len(mid)) + Len(after) /\ Len(after) = bigger
          /\ Len(before) = Len(tail) - bigger /\ Len(tail) = Len(q) - check
          /\ Len(before) \in Nat /\ bigger \in 0..Len(tail) /\ Len(tail) \in Nat
      BY <2>1, <2>5, <2>6, <2>7, <2>8, <2>9, <2>10, <2>11
    <3> QED BY <1>1, <3>1
  <2>13. \A j \in 1..Len(mid) : i + j \in (i + 1)..KilledQueue_check' /\ Killed'[i + j] = mid[j]
    <3>1. \A j \in 1..Len(mid) : i + j \in (i + 1)..(i + Len(mid)) /\ i + j \in 1..(i + Len(mid))
      BY <1>1, <2>12
    <3> QED BY <2>10, <2>11, <2>12, <3>1
  <2>14. \A m \in (i + 1)..KilledQueue_check' : m - i \in 1..Len(mid) /\ i + (m - i) = m /\ Killed'[m] = mid[m - i]
    <3>1. \A m \in (i + 1)..KilledQueue_check' : m - i \in 1..Len(mid) /\ i + (m - i) = m
      BY <1>1, <2>12
    <3> QED BY <2>13, <3>1
  <2>15. \A m, p \in (i + 1)..KilledQueue_check' : m < p => Killed'[m] >= Killed'[p]
    <3>1. \A m, p \in (i + 1)..KilledQueue_check' : m < p => m - i < p - i
      BY <1>1, <2>12
    <3> QED BY <2>9, <2>14, <3>1
  <2>16. \A v \in ToSet(mid) : \E r \in (i + 1)..KilledQueue_check' : Killed'[r] = v
    <3>1. DOMAIN mid = 1..Len(mid)
      BY <2>9
    <3> QED BY <2>13, <3>1 DEF ToSet
  <2>17. ASSUME NEW m \in (i + 1)..check
         PROVE  q[m] \in ToSet(mid)
    <3>1. m - i \in 1..(check - i) /\ i + (m - i) = m
      BY <1>1
    <3>2. (left \o before)[m - i] = q[m]
      BY <2>3, <2>8, <3>1
    <3>3. m - i \in 1..Len(left \o before)
      BY <1>1, <2>8, <3>1
    <3>4. DOMAIN (left \o before) = 1..Len(left \o before)
      BY <2>8
    <3> QED BY <2>9, <3>2, <3>3, <3>4 DEF ToSet
  <2>18. ASSUME NEW m \in (known + 1)..Len(q), q[m] < A
         PROVE  q[m] \in ToSet(mid)
    <3>1. m - check \in 1..(Len(q) - check) /\ check + (m - check) = m /\ m \in 1..Len(q)
      BY <1>1
    <3>2. rest[m - check] = q[m] /\ m - check \in DOMAIN rest
      BY <1>1, <2>2, <3>1
    <3>3. q[m] \in ToSet(tail)
      BY <2>5, <3>2 DEF ToSet
    <3>4. PICK k \in 1..Len(tail) : tail[k] = q[m]
      BY <2>5, <3>3 DEF ToSet
    <3>5. ~(k <= bigger)
      BY <1>1, <2>6, <2>18, <3>1, <3>4
    <3>6. k - bigger \in 1..(Len(tail) - bigger) /\ bigger + (k - bigger) = k
      BY <2>5, <2>6, <3>5
    <3>7. before[k - bigger] = q[m] /\ k - bigger \in 1..Len(before)
      BY <2>7, <3>4, <3>6
    <3>8. (check - i) + (k - bigger) \in 1..Len(left \o before)
      BY <1>1, <2>8, <3>7
    <3>9. (left \o before)[(check - i) + (k - bigger)] = q[m]
      BY <2>8, <3>7
    <3>10. DOMAIN (left \o before) = 1..Len(left \o before)
      BY <2>8
    <3> QED BY <2>9, <3>8, <3>9, <3>10 DEF ToSet
  <2>19. KilledQueue_check' \in Nat /\ KilledQueue_known' \in Nat /\ i <= KilledQueue_check'
         /\ KilledQueue_check' <= KilledQueue_known' /\ KilledQueue_known' <= Len(Killed')
    BY <1>1, <2>1, <2>12
  <2> QED BY <2>11, <2>15, <2>16, <2>17, <2>18, <2>19
<1> QED BY <1>4, <1>5

\* The array in which KillNPC leaves a gem, or none: the NPCs up to n are different
\* ones, and a doomed one was there before.
LEMMA GemOrNot ==
  ASSUME KillInv, NEW gem \in BOOLEAN, gem => numNPCs < MaxNPCs
  PROVE  LET n     == IF gem THEN numNPCs + 1 ELSE numNPCs
             arr   == IF gem THEN [npc EXCEPT ![n] = Gem] ELSE npc
             given == IF gem THEN ids + 1 ELSE ids
         IN /\ n \in Nat /\ numNPCs <= n /\ n <= MaxNPCs
            /\ arr \in [Index -> NPC_t] /\ \A k \in Alive : arr[k] = npc[k]
            /\ given \in Nat /\ (1..ids) \subseteq (1..given)
            /\ \A k \in 1..n : arr[k].id \in 1..given
            /\ \A k, l \in 1..n : arr[k].id = arr[l].id => k = l
            /\ \A k \in 1..n : arr[k].id \in doomed => k \in Alive
<1> DEFINE n     == IF gem THEN numNPCs + 1 ELSE numNPCs
           arr   == IF gem THEN [npc EXCEPT ![n] = Gem] ELSE npc
           given == IF gem THEN ids + 1 ELSE ids
<1> USE DEF KillInv
<1>0. ids \in Nat /\ npc \in [Index -> NPC_t] /\ doomed \subseteq 1..ids /\ numNPCs <= MaxNPCs
  BY DEF TypeOK
<1>1. /\ gem => n = numNPCs + 1 /\ arr = [npc EXCEPT ![n] = Gem] /\ given = ids + 1
      /\ ~gem => n = numNPCs /\ arr = npc /\ given = ids
  OBVIOUS
<1> HIDE DEF n, arr, given
<1>2. /\ n \in Nat /\ numNPCs <= n /\ n <= MaxNPCs
      /\ arr \in [Index -> NPC_t] /\ \A k \in Alive : arr[k] = npc[k]
      /\ given \in Nat /\ (1..ids) \subseteq (1..given)
      /\ \A k \in 1..n : arr[k].id \in 1..given
      /\ \A k, l \in 1..n : arr[k].id = arr[l].id => k = l
      /\ \A k \in 1..n : arr[k].id \in doomed => k \in Alive
  <2>1. CASE ~gem
    <3>1. n = numNPCs /\ arr = npc /\ given = ids /\ 1..n = Alive
      BY <1>1, <2>1 DEF Alive
    <3>2. \A k \in Alive : arr[k] = npc[k] /\ npc[k].id \in 1..ids
      BY <3>1 DEF Distinct
    <3>3. \A k, l \in Alive : npc[k].id = npc[l].id => k = l
      BY DEF Distinct
    <3> QED BY <1>0, <3>1, <3>2, <3>3, Numbers
  <2>2. CASE gem
    <3>1. n = numNPCs + 1 /\ arr = [npc EXCEPT ![n] = Gem] /\ given = ids + 1 /\ numNPCs < MaxNPCs
      BY <1>1, <2>2
    <3>2. n \in Index /\ 1..n = Alive \cup {n} /\ n \notin Alive /\ n \in Nat
      BY <3>1, Numbers DEF Index, Alive
    <3>3. Gem \in NPC_t /\ Gem.id = ids + 1
      BY NewIs, NoScriptAssumption DEF Gem
    <3>4. arr \in [Index -> NPC_t] /\ (\A k \in Alive : arr[k] = npc[k]) /\ arr[n] = Gem
      BY <1>0, <3>1, <3>2, <3>3, Numbers
    <3>5. (1..ids) \subseteq (1..given) /\ ids + 1 \notin 1..ids /\ ids + 1 \in 1..given /\ given \in Nat
      BY <1>0, <3>1
    <3>6. \A k \in Alive : arr[k].id = npc[k].id /\ npc[k].id \in 1..ids
      BY <3>4 DEF Distinct
    <3>7. arr[n].id = ids + 1
      BY <3>3, <3>4
    <3>8. \A k \in 1..n : arr[k].id \in 1..given
      BY <3>2, <3>5, <3>6, <3>7
    <3>9. ASSUME NEW k \in 1..n, NEW l \in 1..n, arr[k].id = arr[l].id
          PROVE  k = l
      BY <3>2, <3>5, <3>6, <3>7, <3>9 DEF Distinct
    <3>10. \A k \in 1..n : arr[k].id \in doomed => k \in Alive
      BY <1>0, <3>2, <3>5, <3>7
    <3>11. numNPCs <= n /\ n <= MaxNPCs
      BY <3>1, Numbers
    <3> QED BY <3>2, <3>4, <3>5, <3>8, <3>9, <3>10, <3>11
  <2> QED BY <2>1, <2>2
<1> QED BY <1>2 DEF n, arr, given

\* The place of the NPC that dies, and of the one that is moved there.
LEMMA TakeOutDoes ==
  ASSUME TypeOK, A \in Alive, NEW n \in Nat, numNPCs <= n, n <= MaxNPCs,
         NEW arr \in [Index -> NPC_t], TakeOut(arr, n)
  PROVE  /\ npc' \in [Index -> NPC_t] /\ numNPCs' = n - 1 /\ Alive' = 1..(n - 1)
         /\ numNPCs' \in 0..MaxNPCs
         /\ \A k \in 1..(n - 1) : npc'[k] = IF k = A THEN arr[n] ELSE arr[k]
         /\ StandingOnNPC' \in {0} \cup Alive'
<1>1. A \in Nat \ {0} /\ A <= numNPCs /\ numNPCs \in Nat /\ MaxNPCs \in Nat
  BY Numbers DEF Alive
<1>2. A \in Index /\ n \in Index /\ n - 1 \in Nat /\ \A k \in 1..(n - 1) : k \in Index /\ k # n
  BY <1>1 DEF Index
<1>3. NoNPC \in NPC_t
  BY NoScriptAssumption DEF NoNPC, NPC_t
<1>4. npc' = [arr EXCEPT ![A] = arr[n], ![n] = NoNPC] /\ numNPCs' = n - 1
  BY DEF TakeOut, Emptied
<1>5. npc' \in [Index -> NPC_t] /\ \A k \in 1..(n - 1) : npc'[k] = IF k = A THEN arr[n] ELSE arr[k]
  BY <1>2, <1>3, <1>4
<1>6. Alive' = 1..(n - 1)
  BY <1>4 DEF Alive
<1>7. StandingOnNPC \in {0} \cup 1..numNPCs
  BY DEF TypeOK, Alive
<1>8. StandingOnNPC' = Followed(n)
  BY DEF TakeOut
<1>9. StandingOnNPC' \in {0} \cup Alive'
  <2>1. CASE StandingOnNPC = A
    BY <1>8, <2>1 DEF Followed
  <2>2. CASE StandingOnNPC # A /\ StandingOnNPC = n
    <3>1. A < n
      BY <1>1, <1>7, <2>2
    <3> QED BY <1>1, <1>6, <1>8, <2>2, <3>1 DEF Followed
  <2>3. CASE StandingOnNPC # A /\ StandingOnNPC # n
    <3>1. StandingOnNPC' = StandingOnNPC
      BY <1>8, <2>3 DEF Followed
    <3> QED BY <1>1, <1>6, <1>7, <2>3, <3>1
  <2> QED BY <2>1, <2>2, <2>3
<1>10. numNPCs' \in 0..MaxNPCs
  BY <1>1, <1>2, <1>4
<1> QED BY <1>4, <1>5, <1>6, <1>9, <1>10

LEMMA ReviveDoes ==
  ASSUME TypeOK, A \in Alive, NEW n \in Nat, numNPCs <= n, n <= MaxNPCs,
         NEW arr \in [Index -> NPC_t], Revive(arr, n)
  PROVE  /\ npc' \in [Index -> NPC_t] /\ numNPCs' = n /\ Alive' = 1..n
         /\ numNPCs' \in 0..MaxNPCs
         /\ \A k \in 1..n : npc'[k].id = arr[k].id /\ (k # A => npc'[k] = arr[k])
         /\ StandingOnNPC' = StandingOnNPC /\ StandingOnNPC' \in {0} \cup Alive'
<1>1. A \in Nat \ {0} /\ A <= numNPCs /\ numNPCs \in Nat /\ MaxNPCs \in Nat
  BY Numbers DEF Alive
<1>2. A \in Index /\ \A k \in 1..n : k \in Index
  BY <1>1 DEF Index
<1>3. npc' = [arr EXCEPT ![A] = Deactivated(arr[A])] /\ numNPCs' = n /\ StandingOnNPC' = StandingOnNPC
  BY DEF Revive
<1>4. Deactivated(arr[A]) \in NPC_t /\ Deactivated(arr[A]).id = arr[A].id
  BY <1>2, DeactivatedIs
<1>5. /\ npc' \in [Index -> NPC_t]
      /\ \A k \in 1..n : npc'[k].id = arr[k].id /\ (k # A => npc'[k] = arr[k])
  BY <1>2, <1>3, <1>4
<1>6. Alive' = 1..n
  BY <1>3 DEF Alive
<1>7. StandingOnNPC' \in {0} \cup Alive'
  BY <1>1, <1>3, <1>6 DEF TypeOK, Alive
<1> QED BY <1>1, <1>3, <1>5, <1>6, <1>7

\* What Die does, in parts: n is the last NPC then, arr the array, q the queue.
Removes(n, arr) ==
  /\ numNPCs <= n /\ n <= MaxNPCs
  /\ \A k \in Alive : arr[k] = npc[k]
  /\ ids' \in Nat /\ (1..ids) \subseteq (1..ids')
  /\ \A k \in 1..n : arr[k].id \in 1..ids'
  /\ \A k, l \in 1..n : arr[k].id = arr[l].id => k = l
  /\ \A k \in 1..n : arr[k].id \in doomed => k \in Alive
  /\ TakeOut(arr, n) \/ (~npc[A].spawned /\ Revive(arr, n))

LEMMA DieRemoves ==
  ASSUME KillInv, Die
  PROVE  \E n \in Nat, arr \in [Index -> NPC_t] : Removes(n, arr)
<1>1. PICK gem \in BOOLEAN :
       LET n   == IF gem THEN numNPCs + 1 ELSE numNPCs
           arr == IF gem THEN [npc EXCEPT ![n] = Gem] ELSE npc
       IN /\ gem => ids < MaxIds /\ numNPCs < MaxNPCs
          /\ ids' = IF gem THEN ids + 1 ELSE ids
          /\ IF menu_or_battle /\ ~npc[A].spawned THEN Revive(arr, n) ELSE TakeOut(arr, n)
  BY DEF Die
<1> DEFINE n   == IF gem THEN numNPCs + 1 ELSE numNPCs
           arr == IF gem THEN [npc EXCEPT ![n] = Gem] ELSE npc
           given == IF gem THEN ids + 1 ELSE ids
<1>2. TakeOut(arr, n) \/ (~npc[A].spawned /\ Revive(arr, n))
  BY <1>1
<1>3. (gem => numNPCs < MaxNPCs) /\ ids' = given
  BY <1>1
<1>4. /\ n \in Nat /\ numNPCs <= n /\ n <= MaxNPCs
      /\ arr \in [Index -> NPC_t] /\ \A k \in Alive : arr[k] = npc[k]
      /\ given \in Nat /\ (1..ids) \subseteq (1..given)
      /\ \A k \in 1..n : arr[k].id \in 1..given
      /\ \A k, l \in 1..n : arr[k].id = arr[l].id => k = l
      /\ \A k \in 1..n : arr[k].id \in doomed => k \in Alive
  BY <1>3, GemOrNot
<1> HIDE DEF n, arr, given
<1>5. Removes(n, arr)
  BY <1>2, <1>3, <1>4 DEF Removes
<1> QED BY <1>4, <1>5

LEMMA DieUpdates ==
  ASSUME TypeOK, A \in Alive, Die
  PROVE  \E q \in Seq(Index) : /\ Update(q) /\ Len(Killed) <= Len(q)
                               /\ \A m \in 1..Len(Killed) : q[m] = Killed[m]
<1>1. Killed \in Seq(Index) /\ A \in Index /\ Len(Killed) \in Nat
  BY Numbers DEF TypeOK
<1>2. CASE Update(Killed)
  <2>1. Len(Killed) <= Len(Killed)
    BY <1>1
  <2> QED BY <1>1, <1>2, <2>1
<1>3. CASE Update(Append(Killed, A))
  <2> DEFINE q == Append(Killed, A)
  <2>1. q \in Seq(Index) /\ Len(Killed) <= Len(q) /\ \A m \in 1..Len(Killed) : q[m] = Killed[m]
    BY <1>1
  <2>2. Update(q)
    BY <1>3
  <2> HIDE DEF q
  <2> QED BY <2>1, <2>2
<1>4. Update(IF A <= numNPCs' /\ npc'[A].Killed THEN Append(Killed, A) ELSE Killed)
  BY DEF Die
<1>5. CASE A <= numNPCs' /\ npc'[A].Killed
  BY <1>3, <1>4, <1>5
<1>6. CASE ~(A <= numNPCs' /\ npc'[A].Killed)
  BY <1>2, <1>4, <1>6
<1> QED BY <1>5, <1>6

LEMMA NextPlace ==
  ASSUME NEW m \in Nat, NEW p \in Nat, m <= p
  PROVE  m + 1 >= 1 /\ m + 1 <= p + 1
  OBVIOUS

LEMMA DieStep ==
  ASSUME KillInv, Die
  PROVE  KillInv'
<1> USE DEF KillInv
<1>1. /\ pc \in {"last", "last_resumed"} /\ pc' = "loop" /\ i' = i + 1 /\ A' = 0
      /\ doomed' = doomed \ {npc[A].id}
      /\ UNCHANGED <<Hidden, menu_or_battle, interrupt, frames>>
  BY DEF Die
<1>2. /\ At = i /\ Check = KilledQueue_check /\ Known = KilledQueue_known /\ Killing /\ Dying = Killed[i]
      /\ At' = i + 1 /\ Check' = KilledQueue_check' /\ Known' = KilledQueue_known' /\ ~Killing'
  BY <1>1 DEF At, Check, Known, Killing, Dying, InKillNPC
<1>3. A = Killed[i] /\ A \in Alive /\ i <= KilledQueue_check
  BY <1>1, <1>2 DEF Place, InKillNPC
<1>4. /\ i \in Nat \ {0} /\ i \in 1..KilledQueue_check /\ KilledQueue_check <= KilledQueue_known
      /\ KilledQueue_known <= Len(Killed) /\ Len(Killed) \in Nat
      /\ KilledQueue_check \in Nat /\ KilledQueue_known \in Nat
      /\ A \in Nat /\ A <= numNPCs /\ numNPCs \in Nat
      /\ \A m \in i..KilledQueue_check : m \in 1..Len(Killed)
  <2>1. pc # "frame"
    BY <1>1
  <2> QED BY <1>2, <1>3, <2>1, PlaceIs, Numbers DEF Alive
<1>5. PICK q \in Seq(Index) : /\ Update(q) /\ Len(Killed) <= Len(q)
                              /\ \A m \in 1..Len(Killed) : q[m] = Killed[m]
  BY <1>3, DieUpdates
<1>6. PICK n \in Nat, arr \in [Index -> NPC_t] : Removes(n, arr)
  BY DieRemoves
<1> USE DEF Removes
<1>7. TakeOut(arr, n) \/ (~npc[A].spawned /\ Revive(arr, n))
  BY <1>6
\* The queue.
<1>8. /\ q \in Seq(Index) /\ Len(Killed) <= Len(q)
      /\ \A m \in 1..Len(Killed) : q[m] = Killed[m]
  BY <1>5
<1>9. /\ Killed' \in Seq(Index) /\ KilledQueue_check' \in Nat /\ KilledQueue_known' \in Nat
      /\ i <= KilledQueue_check' /\ KilledQueue_check' <= KilledQueue_known'
      /\ KilledQueue_known' <= Len(Killed')
      /\ \A m, p \in (i + 1)..KilledQueue_check' : m < p => Killed'[m] >= Killed'[p]
      /\ \A m \in (i + 1)..KilledQueue_check :
           \E r \in (i + 1)..KilledQueue_check' : Killed'[r] = q[m]
      /\ \A m \in (KilledQueue_known + 1)..Len(q) : q[m] < A /\ q[m] <= numNPCs' =>
           \E r \in (i + 1)..KilledQueue_check' : Killed'[r] = q[m]
  <2>1. Update(q)
    BY <1>5
  <2>2. \A m, p \in i..KilledQueue_check : m < p => Killed[m] >= Killed[p]
    BY <1>1, <1>2 DEF InOrder
  <2>3. \A m, p \in i..KilledQueue_check : m < p => q[m] >= q[p]
    BY <1>4, <1>8, <2>2
  <2>4. KilledQueue_known <= Len(q)
    <3>1. Len(q) \in Nat
      BY <1>8
    <3> QED BY <1>4, <1>8, <3>1
  <2> QED BY <1>4, <1>8, <2>1, <2>3, <2>4, UpdateDoes
\* Who is doomed, was there and is not the one that dies, has an entry.
<1>10. ASSUME NEW k \in Alive, k # A, npc[k].id \in doomed, k <= numNPCs'
       PROVE  npc[k].Killed /\ \E r \in (i + 1)..KilledQueue_check' : Killed'[r] = k
  <2>1. npc[k].Killed
    BY <1>10 DEF Owed
  <2>2. CASE \E m \in i..KilledQueue_check : Killed[m] = k
    <3>1. PICK m \in i..KilledQueue_check : Killed[m] = k
      BY <2>2
    <3>2. m # i
      BY <1>3, <1>10, <3>1
    <3>3. m \in (i + 1)..KilledQueue_check /\ q[m] = k
      BY <1>4, <1>8, <3>1, <3>2
    <3> QED BY <1>9, <2>1, <3>3
  <2>3. CASE k < A /\ \E m \in (KilledQueue_known + 1)..Len(Killed) : Killed[m] = k
    <3>1. PICK m \in (KilledQueue_known + 1)..Len(Killed) : Killed[m] = k
      BY <2>3
    <3>2. Len(q) \in Nat
      BY <1>8
    <3>3. m \in 1..Len(Killed) /\ m \in (KilledQueue_known + 1)..Len(q)
      BY <1>4, <1>8, <3>2
    <3>4. q[m] = k
      BY <1>8, <3>1, <3>3
    <3> QED BY <1>9, <1>10, <2>1, <2>3, <3>3, <3>4
  <2> QED BY <1>2, <1>3, <1>10, <2>2, <2>3 DEF Owed
\* None behind the one that dies is doomed.
<1>11. ASSUME NEW k \in Alive, A < k
       PROVE  npc[k].id \notin doomed
  <2>1. SUFFICES ASSUME npc[k].id \in doomed PROVE FALSE
    OBVIOUS
  <2>2. k \in Nat
    BY Numbers
  <2>3. ~(k < A)
    BY <1>4, <1>11, <2>2
  <2>4. PICK m \in i..KilledQueue_check : Killed[m] = k
    BY <1>2, <1>3, <2>1, <2>3 DEF Owed
  <2>5. i \in i..KilledQueue_check /\ (m = i \/ i < m)
    BY <1>4, <2>4
  <2>6. Killed[i] >= Killed[m]
    BY <1>1, <1>2, <1>3, <1>4, <2>4, <2>5, <1>11, <2>2 DEF InOrder
  <2> QED BY <1>3, <1>4, <1>11, <2>2, <2>4, <2>6
<1>12. A \in Alive /\ TypeOK
  BY <1>3
\* What the array is then.
<1>13. /\ npc' \in [Index -> NPC_t] /\ numNPCs' \in 0..MaxNPCs /\ StandingOnNPC' \in {0} \cup Alive'
       /\ \A k \in Alive' : npc'[k].id \in 1..ids'
       /\ \A k, l \in Alive' : npc'[k].id = npc'[l].id => k = l
       /\ \A k \in Alive' : npc'[k].id \in doomed' =>
            k \in Alive /\ k # A /\ npc[k].id \in doomed /\ npc'[k] = npc[k] /\ k <= numNPCs'
  <2>1. CASE TakeOut(arr, n)
    <3>1. /\ npc' \in [Index -> NPC_t] /\ numNPCs' = n - 1 /\ Alive' = 1..(n - 1)
          /\ numNPCs' \in 0..MaxNPCs
          /\ \A k \in 1..(n - 1) : npc'[k] = IF k = A THEN arr[n] ELSE arr[k]
          /\ StandingOnNPC' \in {0} \cup Alive'
      BY <1>6, <1>12, <2>1, TakeOutDoes
    <3>2. n \in 1..n /\ n \notin 1..(n - 1) /\ \A k \in 1..(n - 1) : k \in 1..n /\ k <= n - 1
      BY <1>3, <1>4, <1>6 DEF Alive
    <3>3. \A k \in Alive' : npc'[k].id \in 1..ids'
      BY <1>6, <3>1, <3>2
    <3>4. ASSUME NEW k \in Alive', NEW l \in Alive', npc'[k].id = npc'[l].id
          PROVE  k = l
      BY <1>6, <3>1, <3>2, <3>4
    <3>5. ASSUME NEW k \in Alive', npc'[k].id \in doomed'
          PROVE  k \in Alive /\ k # A /\ npc[k].id \in doomed /\ npc'[k] = npc[k] /\ k <= numNPCs'
      <4>1. CASE k = A
        <5>1. arr[n].id \in doomed /\ A < n
          BY <1>1, <3>1, <3>2, <3>5, <4>1, <1>4, <1>6
        <5>2. n \in Alive /\ arr[n] = npc[n]
          BY <1>6, <3>2, <5>1
        <5> QED BY <1>11, <5>1, <5>2
      <4>2. CASE k # A
        <5>1. npc'[k] = arr[k] /\ k \in 1..n /\ arr[k].id \in doomed
          BY <1>1, <3>1, <3>2, <3>5, <4>2
        <5>2. k \in Alive /\ arr[k] = npc[k]
          BY <1>6, <5>1
        <5> QED BY <3>1, <3>2, <4>2, <5>1, <5>2
      <4> QED BY <4>1, <4>2
    <3> QED BY <3>1, <3>3, <3>4, <3>5
  <2>2. CASE ~npc[A].spawned /\ Revive(arr, n)
    <3>1. /\ npc' \in [Index -> NPC_t] /\ numNPCs' = n /\ Alive' = 1..n
          /\ numNPCs' \in 0..MaxNPCs
          /\ \A k \in 1..n : npc'[k].id = arr[k].id /\ (k # A => npc'[k] = arr[k])
          /\ StandingOnNPC' \in {0} \cup Alive'
      BY <1>6, <1>12, <2>2, ReviveDoes
    <3>2. \A k \in Alive' : npc'[k].id \in 1..ids'
      BY <1>6, <3>1
    <3>3. \A k, l \in Alive' : npc'[k].id = npc'[l].id => k = l
      BY <1>6, <3>1
    <3>4. ASSUME NEW k \in Alive', npc'[k].id \in doomed'
          PROVE  k \in Alive /\ k # A /\ npc[k].id \in doomed /\ npc'[k] = npc[k] /\ k <= numNPCs'
      <4>1. arr[k].id \in doomed /\ arr[k].id # npc[A].id
        BY <1>1, <3>1, <3>4
      <4>2. k \in Alive /\ arr[k] = npc[k]
        BY <1>6, <3>1, <4>1
      <4>3. k <= numNPCs'
        BY <1>6, <3>1
      <4> QED BY <3>1, <4>1, <4>2, <4>3
    <3> QED BY <3>1, <3>2, <3>3, <3>4
  <2> QED BY <1>7, <2>1, <2>2
<1>14. TypeOK'
  <2>1. doomed' \subseteq 1..ids'
    BY <1>1, <1>6 DEF TypeOK
  <2>2. i' \in Nat /\ A' \in Nat
    BY <1>1, <1>4
  <2> QED BY <1>1, <1>6, <1>9, <1>13, <2>1, <2>2 DEF TypeOK
<1>15. Distinct'
  BY <1>13 DEF Distinct
<1>16. Place'
  <2>1. i + 1 >= 1 /\ i + 1 <= KilledQueue_check' + 1
    <3>1. i \in Nat /\ KilledQueue_check' \in Nat /\ i <= KilledQueue_check'
      BY <1>4, <1>9
    <3> QED BY <3>1, NextPlace
  <2>2. At' >= 1 /\ At' <= Check' + 1 /\ Check' <= Known' /\ Known' <= Len(Killed')
    BY <1>2, <1>9, <2>1
  <2>3. ~Killing' /\ pc' \notin InKillNPC
    BY <1>1, <1>2 DEF InKillNPC
  <2> QED BY <2>2, <2>3 DEF Place
<1>17. InOrder'
  BY <1>2, <1>9 DEF InOrder
<1>18. Owed'
  <2>1. ASSUME NEW k \in Alive', npc'[k].id \in doomed'
        PROVE  npc'[k].Killed /\ \E r \in (i + 1)..KilledQueue_check' : Killed'[r] = k
    BY <1>10, <1>13, <2>1
  <2> QED BY <1>1, <1>2, <2>1 DEF Owed
<1> QED BY <1>14, <1>15, <1>16, <1>17, <1>18

-----------------------------------------------------------------------------
(* The theorems.                                                           *)

LEMMA InitInv ==
  ASSUME Init
  PROVE  KillInv
<1>1. /\ numNPCs \in 0..SoftLimit /\ ids = numNPCs /\ frames = 0
      /\ Killed = <<>> /\ Hidden = {} /\ StandingOnNPC = 0 /\ menu_or_battle \in Reuse
      /\ pc = "frame" /\ interrupt = NoInterrupt /\ doomed = {}
      /\ i = 0 /\ KilledQueue_check = 0 /\ KilledQueue_known = 0 /\ A = 0
  BY DEF Init
<1>2. numNPCs \in Nat /\ numNPCs \in 0..MaxNPCs /\ MaxNPCs \in Nat /\ Alive \subseteq Index
  BY <1>1, SizeAssumption DEF Alive, Index
<1>3. PICK layer \in [1..numNPCs -> Layers], script \in [1..numNPCs -> Scripts] :
        npc = [k \in Index |->
                IF k <= numNPCs
                THEN [New(layer[k], script[k]) EXCEPT !.id = k, !.spawned = FALSE]
                ELSE NoNPC]
  BY DEF Init
<1> DEFINE loaded(k) == [New(layer[k], script[k]) EXCEPT !.id = k, !.spawned = FALSE]
<1>4. \A k \in Index : k \in Nat /\ (k <= numNPCs <=> k \in Alive)
  BY <1>2 DEF Index, Alive
<1>5. \A k \in Alive : loaded(k) \in NPC_t /\ loaded(k).id = k
  <2>1. \A k \in Alive : k \in Nat /\ layer[k] \in Layers /\ script[k] \in Scripts
    BY <1>2 DEF Alive
  <2> QED BY <2>1 DEF New, NPC_t
<1>6. NoNPC \in NPC_t
  BY NoScriptAssumption DEF NoNPC, NPC_t
<1> HIDE DEF loaded
<1>7. npc = [k \in Index |-> IF k <= numNPCs THEN loaded(k) ELSE NoNPC]
  BY <1>3 DEF loaded
<1>8. npc \in [Index -> NPC_t] /\ \A k \in Alive : npc[k].id = k
  BY <1>2, <1>4, <1>5, <1>6, <1>7
<1>9. TypeOK
  BY <1>1, <1>2, <1>8, StandingAssumption DEF TypeOK, NoInterrupt
<1>10. Distinct
  BY <1>1, <1>8 DEF Distinct, Alive
<1> QED BY <1>1, <1>9, <1>10 DEF KillInv, Place, InOrder, Owed, Killing, InKillNPC

LEMMA StepInv ==
  ASSUME KillInv, [Next]_vars
  PROVE  KillInv'
<1>1. CASE FrameLogic
  BY <1>1, MarkStep, SpawnStep, LayerSteps, StandStep DEF FrameLogic
<1>2. CASE UpdateNPCs
  BY <1>2, UpdateNPCsStep
<1>3. CASE KillLoop
  BY <1>3, PassStep, KillNPCStep, LastEventStep, PauseStep, ResumeStep, DieStep, EndLoopStep
  DEF KillLoop
<1>4. CASE UNCHANGED vars
  BY <1>4 DEF vars, array, locals, bounds, KillInv, TypeOK, Distinct, Place, InOrder, Owed,
              Alive, Dying, Killing, At, Check, Known
<1> QED BY <1>1, <1>2, <1>3, <1>4 DEF Next

\* The queue has an entry, still to be checked, of each NPC that must die in the kill
\* loop of UpdateNPCs, wherever KillNPC has moved it, and is in order from there on.
THEOREM KillInvariant == Spec => []KillInv
  BY InitInv, StepInv, PTL DEF Spec

\* Who is marked when the kill loop starts, or is marked in it before the NPC being
\* killed, is dead when it ends, unless Deactivate reset him.
THEOREM NoneSurvivesCorrect == Spec => []NoneSurvives
<1>1. KillInv => NoneSurvives
  <2>1. SUFFICES ASSUME KillInv, pc = "loop", i > KilledQueue_check, NEW k \in Alive,
                        npc[k].id \in doomed
                 PROVE  FALSE
    BY DEF NoneSurvives
  <2>2. At = i /\ Check = KilledQueue_check /\ ~Killing
    BY <2>1 DEF At, Check, Killing, InKillNPC
  <2>3. PICK m \in i..KilledQueue_check : Killed[m] = k
    BY <2>1, <2>2 DEF KillInv, Owed
  <2>4. i \in Nat /\ KilledQueue_check \in Nat
    BY <2>1 DEF KillInv, TypeOK
  <2> QED BY <2>1, <2>3, <2>4
<1> QED BY <1>1, KillInvariant, PTL

\* The NPC that the player stands on is where he stands, or gone.
Follows ==
  LET id == npc[StandingOnNPC].id
  IN IF \E k \in 1..numNPCs' : npc'[k].id = id
     THEN StandingOnNPC' # 0 /\ npc'[StandingOnNPC'].id = id
     ELSE StandingOnNPC' = 0

LEMMA FollowsDie ==
  ASSUME KillInv, StandingOnNPC # 0, Die
  PROVE  Follows
<1>1. pc \in InKillNPC
  BY DEF Die, InKillNPC
<1>2. /\ A \in Alive /\ A \in Nat \ {0} /\ A <= numNPCs /\ numNPCs \in Nat
      /\ StandingOnNPC \in Alive /\ StandingOnNPC \in Nat \ {0} /\ StandingOnNPC <= numNPCs
      /\ TypeOK
  <2>1. A \in Alive
    BY <1>1 DEF KillInv, Place, Killing
  <2>2. StandingOnNPC \in Alive /\ TypeOK
    BY DEF KillInv, TypeOK
  <2> QED BY <2>1, <2>2, Numbers DEF Alive
<1>3. PICK n \in Nat, arr \in [Index -> NPC_t] : Removes(n, arr)
  BY DieRemoves
<1>4. /\ numNPCs <= n /\ n <= MaxNPCs /\ \A k \in Alive : arr[k] = npc[k]
      /\ \A k, l \in 1..n : arr[k].id = arr[l].id => k = l
      /\ TakeOut(arr, n) \/ Revive(arr, n)
  BY <1>3 DEF Removes
<1>5. /\ A \in 1..n /\ StandingOnNPC \in 1..n
      /\ npc[StandingOnNPC].id = arr[StandingOnNPC].id
  BY <1>2, <1>4
<1>6. CASE TakeOut(arr, n)
  <2>1. /\ numNPCs' = n - 1
        /\ \A k \in 1..(n - 1) : npc'[k] = IF k = A THEN arr[n] ELSE arr[k]
    BY <1>2, <1>4, <1>6, TakeOutDoes
  <2>2. StandingOnNPC' = Followed(n)
    BY <1>6 DEF TakeOut
  <2>3. CASE StandingOnNPC = A
    <3>1. StandingOnNPC' = 0
      BY <2>2, <2>3 DEF Followed
    <3>2. ASSUME NEW k \in 1..(n - 1), npc'[k].id = arr[A].id
          PROVE  FALSE
      <4>1. k \in 1..n /\ n \in 1..n /\ k # n
        BY <1>2, <1>4
      <4>2. CASE k = A
        BY <1>4, <1>5, <2>1, <3>2, <4>1, <4>2
      <4>3. CASE k # A
        BY <1>4, <1>5, <2>1, <3>2, <4>1, <4>3
      <4> QED BY <4>2, <4>3
    <3> QED BY <1>5, <2>1, <2>3, <3>1, <3>2 DEF Follows
  <2>4. CASE StandingOnNPC # A /\ StandingOnNPC = n
    <3>1. StandingOnNPC' = A /\ A \in 1..(n - 1)
      BY <1>2, <1>4, <2>2, <2>4 DEF Followed
    <3>2. npc'[A].id = npc[StandingOnNPC].id
      BY <1>5, <2>1, <2>4, <3>1
    <3> QED BY <1>2, <2>1, <3>1, <3>2 DEF Follows
  <2>5. CASE StandingOnNPC # A /\ StandingOnNPC # n
    <3>1. StandingOnNPC' = StandingOnNPC /\ StandingOnNPC \in 1..(n - 1)
      BY <1>2, <1>4, <2>2, <2>5 DEF Followed
    <3>2. npc'[StandingOnNPC].id = npc[StandingOnNPC].id
      BY <1>5, <2>1, <2>5, <3>1
    <3> QED BY <1>2, <2>1, <3>1, <3>2 DEF Follows
  <2> QED BY <2>3, <2>4, <2>5
<1>7. CASE Revive(arr, n)
  <2>1. /\ numNPCs' = n /\ StandingOnNPC' = StandingOnNPC
        /\ \A k \in 1..n : npc'[k].id = arr[k].id
    BY <1>2, <1>4, <1>7, ReviveDoes
  <2> QED BY <1>2, <1>5, <2>1 DEF Follows
<1> QED BY <1>4, <1>6, <1>7

\* The player stands on the same NPC, wherever KillNPC moves it, as long as it lives.
THEOREM StandingFollowsCorrect == Spec => StandingFollows
<1>1. ASSUME KillInv, [Next]_vars
      PROVE  [StandingOnNPC # 0 /\ pc # "frame" => Follows]_vars
  <2>1. SUFFICES ASSUME Next, StandingOnNPC # 0, pc # "frame" PROVE Follows
    BY <1>1
  <2>2. StandingOnNPC \in Alive
    BY <1>1, <2>1 DEF KillInv, TypeOK
  <2>3. CASE Die
    BY <1>1, <2>1, <2>3, FollowsDie
  <2>4. CASE ~Die
    <3>1. numNPCs' = numNPCs /\ StandingOnNPC' = StandingOnNPC
      BY <2>1, <2>4
      DEF Next, FrameLogic, KillLoop, Mark, Spawn, HideByEvent, ShowByEvent, Stand, InFrame,
          UpdateNPCs, Pass, KillNPC, LastEvent, Pause, Resume, EndLoop, array
    <3>2. \A k \in Alive : npc'[k].id = npc[k].id
      <4>1. CASE KillNPC
        <5>1. i \in 1..Len(Killed) /\ Killed[i] <= numNPCs /\ A' = Killed[i] /\ Event(npc[A'].script.death)
          BY <1>1, <2>1, <4>1, PlaceIs DEF KillNPC, InLoop, ToKill, At, Check
        <5>2. A' \in Alive
          BY <1>1, <5>1, Numbers DEF KillInv, Alive, Index
        <5> QED BY <1>1, <5>1, <5>2, ScriptHides, EventDoes, Numbers DEF KillInv
      <4>2. CASE LastEvent
        <5>1. CASE LastInLayer
          <6>1. A \in Alive /\ Event(npc[A].script.last)
            BY <1>1, <4>2, <5>1 DEF LastEvent, KillInv, Place, Killing, InKillNPC
          <6> QED BY <1>1, <6>1, ScriptHides, EventDoes, Numbers DEF KillInv
        <5>2. CASE ~LastInLayer
          BY <4>2, <5>2 DEF LastEvent
        <5> QED BY <5>1, <5>2
      <4>3. CASE ~KillNPC /\ ~LastEvent
        <5>1. npc' = npc
          BY <2>1, <2>4, <4>3
          DEF Next, FrameLogic, KillLoop, Mark, Spawn, HideByEvent, ShowByEvent, Stand, InFrame,
              UpdateNPCs, Pass, Pause, Resume, EndLoop, array
        <5> QED BY <5>1
      <4> QED BY <4>1, <4>2, <4>3
    <3> QED BY <2>2, <3>1, <3>2, Numbers, <1>1, <2>1 DEF Follows, Alive, KillInv
  <2> QED BY <2>3, <2>4
<1> QED BY <1>1, KillInvariant, PTL DEF Spec, StandingFollows, Follows
=============================================================================
